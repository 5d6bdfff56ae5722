---------------------------- MODULE Marketplace -----------------------------
(***************************************************************************)
(* Posting, editing, cancelling and hiring for a job (routes/jobs.ts) and  *)
(* bidding on it (routes/bids.ts).  Every handler reads the job, checks    *)
(* what it read and writes later, with no lock and no condition on the     *)
(* write, so other handlers come between the two.                          *)
(***************************************************************************)
EXTENDS Store, Naturals

CONSTANTS Handler,    \* slots for requests to these routes, over all servers
          MaxEdits    \* bound: how often a job is edited

ASSUME MarketAssumption == MaxEdits \in Nat

VARIABLES terms,   \* terms[j]: version of title, description, budget and skills
          desk     \* desk[h]: the handler that h runs and what it has read

marketVars == <<job, bid, terms, desk>>

Vacant == [at |-> "idle", job |-> None, bidder |-> None]
Stage == {"idle", "update", "cancel", "hire_bid", "hire", "bid_check", "bid_create"}

MarketTypeOK ==
  /\ StoreTypeOK
  /\ terms \in [Job -> 0..MaxEdits]
  /\ desk \in [Handler -> [at : Stage, job : Job \cup {None},
                           bidder : Freelancer \cup {None}]]
  /\ \A h \in Handler :
       /\ desk[h].at # "idle" => desk[h].job \in Job
       /\ desk[h].at \in {"hire", "bid_check", "bid_create"} => desk[h].bidder \in Freelancer
       /\ desk[h].at = "hire" => bid[desk[h].job][desk[h].bidder] # "NONE"

MarketInit == /\ StoreInit
              /\ terms = [j \in Job |-> 0]
              /\ desk = [h \in Handler |-> Vacant]

Start(h, stage, j, f) ==
  /\ desk[h].at = "idle"
  /\ desk' = [desk EXCEPT ![h] = [at |-> stage, job |-> j, bidder |-> f]]

Close(h) == desk' = [desk EXCEPT ![h] = Vacant]

-----------------------------------------------------------------------------
(* routes/jobs.ts *)

CreateJob(j) == /\ job[j].status = "NONE"
                /\ job' = [job EXCEPT ![j].status = "OPEN"]
                /\ UNCHANGED <<bid, terms, desk>>

UpdateRead(h, j) == /\ job[j].status = "OPEN"
                    /\ Start(h, "update", j, None)
                    /\ UNCHANGED <<job, bid, terms>>

(* Mutant: the whole row that was read is written back, status included. *)
UpdateSavesRow(h) ==
  /\ desk[h].at = "update"
  /\ job' = [job EXCEPT ![desk[h].job].status = "OPEN"]
  /\ Close(h)
  /\ UNCHANGED <<bid, terms>>

UpdateWrite(h) == /\ desk[h].at = "update"
                  /\ terms[desk[h].job] < MaxEdits
                  /\ terms' = [terms EXCEPT ![desk[h].job] = @ + 1]
                  /\ Close(h)
                  /\ UNCHANGED <<job, bid>>

CancelRead(h, j) == /\ job[j].status = "OPEN"
                    /\ Start(h, "cancel", j, None)
                    /\ UNCHANGED <<job, bid, terms>>

CancelWrite(h) == /\ desk[h].at = "cancel"
                  /\ job' = [job EXCEPT ![desk[h].job].status = "CANCELLED"]
                  /\ Close(h)
                  /\ UNCHANGED <<bid, terms>>

HireRead(h, j) == /\ job[j].status = "OPEN"
                  /\ Start(h, "hire_bid", j, None)
                  /\ UNCHANGED <<job, bid, terms>>

(* Mutant: the bid of the URL is not looked up. *)
HireBidUnchecked(h) ==
  /\ desk[h].at = "hire_bid"
  /\ \E f \in Freelancer : desk' = [desk EXCEPT ![h] = [@ EXCEPT !.at = "hire", !.bidder = f]]
  /\ UNCHANGED <<job, bid, terms>>

(* The bid named in the URL exists, whatever its status. *)
HireBid(h) ==
  /\ desk[h].at = "hire_bid"
  /\ \E f \in Freelancer :
       /\ bid[desk[h].job][f] # "NONE"
       /\ desk' = [desk EXCEPT ![h] = [@ EXCEPT !.at = "hire", !.bidder = f]]
  /\ UNCHANGED <<job, bid, terms>>

(* Mutant: the other bids are left as they are. *)
HireKeepsOthers(h) ==
  /\ desk[h].at = "hire"
  /\ LET j == desk[h].job
         f == desk[h].bidder
     IN  /\ bid' = [bid EXCEPT ![j][f] = "ACCEPTED"]
         /\ job' = [job EXCEPT ![j] = [status |-> "IN_PROGRESS", hired |-> f]]
  /\ Close(h)
  /\ UNCHANGED terms

(* The $transaction: this bid accepted, every other one rejected, the job  *)
(* in progress.  Its statements lock the rows of the bids, so two hires    *)
(* for a job take effect one after the other.                              *)
Hire(h) ==
  /\ desk[h].at = "hire"
  /\ LET j == desk[h].job
         f == desk[h].bidder
     IN  /\ bid' = [bid EXCEPT ![j] = [g \in Freelancer |->
                      IF g = f THEN "ACCEPTED"
                      ELSE IF @[g] = "NONE" THEN "NONE" ELSE "REJECTED"]]
         /\ job' = [job EXCEPT ![j] = [status |-> "IN_PROGRESS", hired |-> f]]
  /\ Close(h)
  /\ UNCHANGED terms

-----------------------------------------------------------------------------
(* routes/bids.ts *)

BidRead(h, j, f) == /\ job[j].status = "OPEN"
                    /\ Start(h, "bid_check", j, f)
                    /\ UNCHANGED <<job, bid, terms>>

BidCheck(h) ==
  /\ desk[h].at = "bid_check"
  /\ IF bid[desk[h].job][desk[h].bidder] = "NONE"
     THEN desk' = [desk EXCEPT ![h].at = "bid_create"]
     ELSE Close(h)
  /\ UNCHANGED <<job, bid, terms>>

(* Mutant: an upsert, so the loser of a race resets the bid. *)
BidUpsert(h) ==
  /\ desk[h].at = "bid_create"
  /\ bid' = [bid EXCEPT ![desk[h].job][desk[h].bidder] = "PENDING"]
  /\ Close(h)
  /\ UNCHANGED <<job, terms>>

(* bid.create: the unique (freelancerId, jobId) refuses a second one. *)
BidCreate(h) ==
  /\ desk[h].at = "bid_create"
  /\ bid[desk[h].job][desk[h].bidder] = "NONE"
  /\ bid' = [bid EXCEPT ![desk[h].job][desk[h].bidder] = "PENDING"]
  /\ Close(h)
  /\ UNCHANGED <<job, terms>>

(* A handler ends without writing: an error answer, a query that throws,   *)
(* an insert that is refused, a server that dies.                          *)
Drop(h) == /\ desk[h].at # "idle"
           /\ Close(h)
           /\ UNCHANGED <<job, bid, terms>>

MarketNext ==
  \/ \E j \in Job : CreateJob(j)
  \/ \E h \in Handler :
       \/ \E j \in Job : \/ UpdateRead(h, j) \/ CancelRead(h, j) \/ HireRead(h, j)
                         \/ \E f \in Freelancer : BidRead(h, j, f)
       \/ UpdateWrite(h) \/ CancelWrite(h) \/ HireBid(h) \/ Hire(h)
       \/ BidCheck(h) \/ BidCreate(h) \/ Drop(h)

MarketSpec == MarketInit /\ [][MarketNext]_marketVars

-----------------------------------------------------------------------------

(* Bids and job agree after any interleaving of hires, bids and cancels:   *)
(* the accepted bid of a job is the bid of its hired freelancer, so there  *)
(* is at most one, and payments.ts:46 (bids[0]) pays the one hired.        *)
HiredIffAccepted ==
  \A j \in Job, f \in Freelancer : bid[j][f] = "ACCEPTED" <=> job[j].hired = f

(* A job that is offered to bidders (OPEN) never has a hired freelancer,   *)
(* and one in progress always does, whatever stale check was acted on.     *)
StatusMatchesHire ==
  \A j \in Job : /\ job[j].status \in {"NONE", "OPEN"} => job[j].hired = None
                 /\ job[j].status = "IN_PROGRESS" => job[j].hired # None

(* A bid that was decided stays decided: a submission racing with another  *)
(* or with the hire never turns it back to PENDING or removes it.          *)
DecidedBidKept ==
  [][\A j \in Job, f \in Freelancer :
       bid[j][f] \in {"ACCEPTED", "REJECTED"} => bid'[j][f] \in {"ACCEPTED", "REJECTED"}
    ]_marketVars
=============================================================================
