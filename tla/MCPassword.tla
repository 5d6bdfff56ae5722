----------------------------- MODULE MCPassword -----------------------------
EXTENDS Password, TLC
Symmetric == Permutations(Request) \cup Permutations(Password)
=============================================================================
