------------------------------- MODULE Ledger -------------------------------
(***************************************************************************)
(* What the escrow table promises of each row, without locks, requests,    *)
(* Stripe or failures in sight: it is recorded, claimed, and then paid or  *)
(* given back, as often as it takes; a dispute freezes what is held and    *)
(* nothing else; paid and frozen rows stay so.  A row whose claim or       *)
(* rollback a failure left in doubt is stranded, and nothing more is said  *)
(* of it.                                                                  *)
(***************************************************************************)
CONSTANT Row

VARIABLE state

LedgerInit == state = [i \in Row |-> "none"]

Move(i, from, to) == /\ state[i] \in from
                     /\ state' = [state EXCEPT ![i] = to]

Record(i) == Move(i, {"none"}, "held")
Claim(i) == Move(i, {"held"}, "claimed")
Pay(i) == Move(i, {"claimed"}, "paid")
Return(i) == Move(i, {"claimed"}, "held")
Strand(i) == Move(i, {"held", "claimed"}, "stranded")

(* All held rows of a job at once. *)
Freeze(I) == /\ \A i \in I : state[i] = "held"
             /\ state' = [i \in Row |-> IF i \in I THEN "frozen" ELSE state[i]]

LedgerNext ==
  \/ \E i \in Row : Record(i) \/ Claim(i) \/ Pay(i) \/ Return(i) \/ Strand(i)
  \/ \E I \in SUBSET Row : Freeze(I)

(* A claim does not stay open. *)
Settles == \A i \in Row : state[i] = "claimed" ~> state[i] # "claimed"

LedgerSpec == LedgerInit /\ [][LedgerNext]_state /\ Settles
=============================================================================
