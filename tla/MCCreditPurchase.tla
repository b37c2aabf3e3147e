-------------------------- MODULE MCCreditPurchase --------------------------
EXTENDS CreditPurchase
=============================================================================
