------------------------------- MODULE MCCoro -------------------------------
EXTENDS CoroInv
CONSTANTS main, co
=============================================================================
