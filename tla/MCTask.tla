------------------------------- MODULE MCTask -------------------------------
EXTENDS TaskProperties, TLC
=============================================================================
