----------------------------- MODULE MCFactors ------------------------------
EXTENDS Factors, TLC
Symmetric == Permutations(Request) \cup Permutations(Secret)
=============================================================================
