------------------------------ MODULE MCOffice ------------------------------
EXTENDS Office, TLC

MCSymmetry == Permutations(Row) \cup Permutations(Secret) \cup Permutations(Term)
=============================================================================
