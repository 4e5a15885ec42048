------------------------------ MODULE MCWebSignIn ------------------------------
EXTENDS WebSignIn, TLC
=============================================================================
