---------------------------- MODULE MCFreelanci -----------------------------
EXTENDS Freelanci, TLC
Symmetric == Permutations(Handler) \cup Permutations(Freelancer)
               \cup Permutations(Request) \cup Permutations(Intent)
=============================================================================
