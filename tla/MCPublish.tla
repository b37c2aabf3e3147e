------------------------------ MODULE MCPublish -----------------------------
EXTENDS Publish
=============================================================================
