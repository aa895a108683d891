------------------------------- MODULE MCTill -------------------------------
EXTENDS Till
=============================================================================
