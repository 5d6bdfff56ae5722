----------------------------- MODULE Freelanci ------------------------------
(***************************************************************************)
(* The hiring side (Marketplace) and the money side (Escrow) as app.ts     *)
(* runs them: one process, or several, over the same job and bid rows.     *)
(* Each component's steps leave the other's own variables alone; what they *)
(* share is read and written by both, with no lock between them.           *)
(***************************************************************************)
EXTENDS Marketplace, Escrow

VARIABLE chosen   \* history: whom the job of a funding had hired when it was read

allVars == <<job, bid, terms, desk, escrowVars, chosen>>

Funding == {"fund_lock", "fund_find", "fund_create"}

Funds(r) == task[r].at \in Funding

(* What a funding found when it read the job, as long as it is under way. *)
Watch ==
  chosen' = [r \in Request |-> IF ~Funds(r)' THEN None
                               ELSE IF Funds(r) THEN chosen[r]
                               ELSE job[task'[r].job].hired]

SystemInit == MarketInit /\ EscrowInit /\ chosen = [r \in Request |-> None]

SystemNext == /\ \/ MarketNext /\ UNCHANGED escrowVars
                 \/ Next /\ UNCHANGED <<terms, desk>>
              /\ Watch

SystemSpec == SystemInit /\ [][SystemNext]_allVars

-----------------------------------------------------------------------------

(* A payment is only ever made out to the freelancer whom the job had      *)
(* hired when the funding read it, whatever bids, hires and cancels came   *)
(* in between (payments.ts:46-68, jobs.ts:250-266): the accepted bid that  *)
(* is paid and the hired freelancer are columns of two tables.             *)
PayeeWasHired ==
  [][\A i \in Intent : meta'[i] # meta[i] =>
       \E r \in Request : /\ At(r, "fund_create") /\ meta'[i].job = task[r].job
                          /\ meta'[i].payee = chosen[r] /\ chosen[r] # None]_allVars

(* Money and disputes come after hiring: a job that is completed, frozen   *)
(* or has a payment made for it has a hired freelancer, even if a cancel,  *)
(* a second hire or a dispute acted on a status it had read long before.   *)
MoneyNeedsHire ==
  \A j \in Job :
    job[j].hired = None => /\ job[j].status \in {"NONE", "OPEN", "CANCELLED"}
                           /\ \A i \in Intent : meta[i].job # j

(* A job that left OPEN is never listed for bids again: no handler of      *)
(* either side brings back a status it read earlier.                       *)
NeverReopened ==
  [][\A j \in Job : job[j].status \notin {"NONE", "OPEN"}
                      => job'[j].status \notin {"NONE", "OPEN"}]_allVars
=============================================================================
