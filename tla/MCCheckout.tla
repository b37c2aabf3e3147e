----------------------------- MODULE MCCheckout -----------------------------
EXTENDS Checkout
=============================================================================
