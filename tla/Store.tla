------------------------------- MODULE Store --------------------------------
(***************************************************************************)
(* The Postgres rows that the hiring and the money handlers share          *)
(* (prisma/schema.prisma): jobs and bids.  A bid is identified by its job  *)
(* and its freelancer, which the schema makes unique.                      *)
(***************************************************************************)
CONSTANTS Job, Freelancer, None

ASSUME StoreAssumption == None \notin Job \cup Freelancer

VARIABLES job,   \* job[j]: status, NONE until created, and hired freelancer
          bid    \* bid[j][f]: status of the bid of f on j, NONE until submitted

JobStatus == {"NONE", "OPEN", "IN_PROGRESS", "COMPLETED", "CANCELLED", "DISPUTED"}
BidStatus == {"NONE", "PENDING", "ACCEPTED", "REJECTED"}

StoreTypeOK ==
  /\ job \in [Job -> [status : JobStatus, hired : Freelancer \cup {None}]]
  /\ bid \in [Job -> [Freelancer -> BidStatus]]

StoreInit ==
  /\ job = [j \in Job |-> [status |-> "NONE", hired |-> None]]
  /\ bid = [j \in Job |-> [f \in Freelancer |-> "NONE"]]
=============================================================================
