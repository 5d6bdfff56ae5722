------------------------------ MODULE MCEscrow ------------------------------
EXTENDS Escrow, TLC
Symmetric == Permutations(Request) \cup Permutations(Intent)
=============================================================================
