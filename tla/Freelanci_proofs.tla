--------------------------- MODULE Freelanci_proofs --------------------------
(***************************************************************************)
(* First hiring on its own: bids and jobs agree for any number of jobs,    *)
(* freelancers and handlers.  Then hiring and money together: the          *)
(* invariants of both sides survive each other's steps, and what relates   *)
(* the two (HirePath) holds for every instance.                            *)
(***************************************************************************)
EXTENDS Freelanci, Escrow_proofs, TLAPS

MarketInv == MarketTypeOK /\ HiredIffAccepted /\ StatusMatchesHire

LEMMA MarketInitial == MarketInit => MarketInv
  BY StoreAssumption, MarketAssumption
     DEF MarketInit, StoreInit, MarketInv, MarketTypeOK, StoreTypeOK, JobStatus,
         BidStatus, Stage, Vacant, HiredIffAccepted, StatusMatchesHire

(* A step that changes only the desk keeps the two relations.               *)
LEMMA DeskOnly ==
  HiredIffAccepted /\ StatusMatchesHire /\ UNCHANGED <<job, bid>>
    => HiredIffAccepted' /\ StatusMatchesHire'
  BY DEF HiredIffAccepted, StatusMatchesHire

(* What a handler reads and remembers has the right type.                   *)
LEMMA Reading ==
  ASSUME MarketTypeOK, NEW h \in Handler, NEW j \in Job,
         NEW f \in Freelancer \cup {None}, NEW stage \in Stage \ {"hire"},
         Start(h, stage, j, f), UNCHANGED <<job, bid, terms>>,
         stage \in {"bid_check", "bid_create"} => f \in Freelancer
  PROVE  MarketTypeOK'
  BY StoreAssumption DEF MarketTypeOK, StoreTypeOK, Start, Stage

(* A handler that ends forgets what it read.                                *)
LEMMA Ending ==
  ASSUME MarketTypeOK, NEW h \in Handler, Close(h), StoreTypeOK',
         terms' \in [Job -> 0..MaxEdits],
         \A j \in Job, f \in Freelancer : bid[j][f] # "NONE" => bid'[j][f] # "NONE"
  PROVE  MarketTypeOK'
  BY StoreAssumption DEF MarketTypeOK, Close, Vacant, Stage

LEMMA MarketInductive == MarketInv /\ [MarketNext]_marketVars => MarketInv'
<1> SUFFICES ASSUME MarketInv, [MarketNext]_marketVars
             PROVE  MarketInv'
  OBVIOUS
<1> USE DEF MarketInv
<1>1. ASSUME NEW j \in Job, CreateJob(j)
      PROVE  MarketInv'
  <2>1. MarketTypeOK'
    BY <1>1 DEF CreateJob, MarketTypeOK, StoreTypeOK, JobStatus
  <2>2. HiredIffAccepted' /\ StatusMatchesHire'
    BY <1>1 DEF CreateJob, MarketTypeOK, StoreTypeOK, HiredIffAccepted, StatusMatchesHire
  <2> QED
    BY <2>1, <2>2
<1>2. ASSUME NEW h \in Handler, NEW j \in Job,
             UpdateRead(h, j) \/ CancelRead(h, j) \/ HireRead(h, j)
      PROVE  MarketInv'
  BY <1>2, Reading, DeskOnly DEF UpdateRead, CancelRead, HireRead, Stage
<1>3. ASSUME NEW h \in Handler, NEW j \in Job, NEW f \in Freelancer, BidRead(h, j, f)
      PROVE  MarketInv'
  BY <1>3, Reading, DeskOnly DEF BidRead, Stage
<1>4. ASSUME NEW h \in Handler, UpdateWrite(h)
      PROVE  MarketInv'
  <2>1. terms' \in [Job -> 0..MaxEdits]
    BY <1>4, MarketAssumption DEF UpdateWrite, MarketTypeOK
  <2> QED
    BY <1>4, <2>1, Ending, DeskOnly DEF UpdateWrite, MarketTypeOK, StoreTypeOK
<1>5. ASSUME NEW h \in Handler, CancelWrite(h)
      PROVE  MarketInv'
  <2>1. StoreTypeOK'
    BY <1>5 DEF CancelWrite, MarketTypeOK, StoreTypeOK, JobStatus
  <2>2. HiredIffAccepted' /\ StatusMatchesHire'
    BY <1>5 DEF CancelWrite, MarketTypeOK, StoreTypeOK, HiredIffAccepted, StatusMatchesHire
  <2>3. MarketTypeOK'
    BY <1>5, <2>1, Ending DEF CancelWrite, MarketTypeOK
  <2> QED
    BY <2>2, <2>3
<1>6. ASSUME NEW h \in Handler, HireBid(h)
      PROVE  MarketInv'
  <2>1. PICK f \in Freelancer :
             /\ bid[desk[h].job][f] # "NONE"
             /\ desk' = [desk EXCEPT ![h] = [@ EXCEPT !.at = "hire", !.bidder = f]]
    BY <1>6 DEF HireBid
  <2>2. desk[h].job \in Job
    BY <1>6 DEF HireBid, MarketTypeOK
  <2>3. MarketTypeOK'
    <3>1. UNCHANGED <<job, bid, terms>>
      BY <1>6 DEF HireBid
    <3> QED
      BY <2>1, <2>2, <3>1, StoreAssumption DEF MarketTypeOK, StoreTypeOK, Stage
  <2> QED
    BY <1>6, <2>3, DeskOnly DEF HireBid
<1>7. ASSUME NEW h \in Handler, Hire(h)
      PROVE  MarketInv'
  <2> DEFINE j == desk[h].job
             f == desk[h].bidder
  <2>1. j \in Job /\ f \in Freelancer /\ bid[j][f] # "NONE"
    BY <1>7 DEF Hire, MarketTypeOK
  <2>2. /\ job' = [job EXCEPT ![j] = [status |-> "IN_PROGRESS", hired |-> f]]
        /\ bid' = [bid EXCEPT ![j] = [g \in Freelancer |->
                     IF g = f THEN "ACCEPTED"
                     ELSE IF bid[j][g] = "NONE" THEN "NONE" ELSE "REJECTED"]]
        /\ Close(h)
        /\ terms' = terms
    BY <1>7, <2>1 DEF Hire, MarketTypeOK, StoreTypeOK
  <2> HIDE DEF j, f
  <2>3. StoreTypeOK'
    BY <2>1, <2>2 DEF MarketTypeOK, StoreTypeOK, JobStatus, BidStatus
  <2>4. \A k \in Job, g \in Freelancer : bid[k][g] # "NONE" => bid'[k][g] # "NONE"
    BY <2>1, <2>2 DEF MarketTypeOK, StoreTypeOK
  <2>5. MarketTypeOK'
    BY <2>2, <2>3, <2>4, Ending DEF MarketTypeOK
  <2>6. HiredIffAccepted'
    BY <2>1, <2>2 DEF MarketTypeOK, StoreTypeOK, HiredIffAccepted
  <2>7. StatusMatchesHire'
    BY <2>1, <2>2, StoreAssumption DEF MarketTypeOK, StoreTypeOK, StatusMatchesHire
  <2> QED
    BY <2>5, <2>6, <2>7
<1>8. ASSUME NEW h \in Handler, BidCheck(h)
      PROVE  MarketInv'
  <2>1. MarketTypeOK'
    BY <1>8, StoreAssumption DEF BidCheck, Close, Vacant, MarketTypeOK, StoreTypeOK, Stage
  <2> QED
    BY <1>8, <2>1, DeskOnly DEF BidCheck
<1>9. ASSUME NEW h \in Handler, BidCreate(h)
      PROVE  MarketInv'
  <2> DEFINE j == desk[h].job
             f == desk[h].bidder
  <2>1. j \in Job /\ f \in Freelancer
    BY <1>9 DEF BidCreate, MarketTypeOK
  <2>2. /\ bid[j][f] = "NONE"
        /\ bid' = [bid EXCEPT ![j][f] = "PENDING"]
        /\ Close(h)
        /\ UNCHANGED <<job, terms>>
    BY <1>9 DEF BidCreate
  <2> HIDE DEF j, f
  <2>3. StoreTypeOK'
    BY <2>1, <2>2 DEF MarketTypeOK, StoreTypeOK, BidStatus
  <2>4. \A k \in Job, g \in Freelancer : bid[k][g] # "NONE" => bid'[k][g] # "NONE"
    BY <2>1, <2>2 DEF MarketTypeOK, StoreTypeOK
  <2>5. MarketTypeOK'
    BY <2>2, <2>3, <2>4, Ending DEF MarketTypeOK
  <2>6. HiredIffAccepted' /\ StatusMatchesHire'
    BY <2>1, <2>2 DEF MarketTypeOK, StoreTypeOK, HiredIffAccepted, StatusMatchesHire
  <2> QED
    BY <2>5, <2>6
<1>10. ASSUME NEW h \in Handler, Drop(h)
       PROVE  MarketInv'
  BY <1>10, Ending, DeskOnly DEF Drop, MarketTypeOK, StoreTypeOK
<1>11. CASE UNCHANGED marketVars
  BY <1>11, DeskOnly DEF marketVars, MarketTypeOK, StoreTypeOK
<1> QED
  BY <1>1, <1>2, <1>3, <1>4, <1>5, <1>6, <1>7, <1>8, <1>9, <1>10, <1>11 DEF MarketNext

(* Every reachable state is well typed.                                     *)
THEOREM MarketTyping == MarketSpec => []MarketTypeOK
  BY MarketInitial, MarketInductive, PTL DEF MarketSpec, MarketInv

(* In every reachable state the accepted bid of a job is the bid of its     *)
(* hired freelancer, whatever handlers raced.                               *)
THEOREM HiredIffAcceptedHolds == MarketSpec => []HiredIffAccepted
  BY MarketInitial, MarketInductive, PTL DEF MarketSpec, MarketInv

(* In every reachable state an open job has no hired freelancer and a job   *)
(* in progress has one.                                                     *)
THEOREM StatusMatchesHireHolds == MarketSpec => []StatusMatchesHire
  BY MarketInitial, MarketInductive, PTL DEF MarketSpec, MarketInv

(* No step of hiring or bidding undoes the decision on a bid.               *)
BidsKept == \A j \in Job, f \in Freelancer :
              bid[j][f] \in {"ACCEPTED", "REJECTED"} => bid'[j][f] \in {"ACCEPTED", "REJECTED"}

LEMMA MarketKeepsBids == MarketTypeOK /\ [MarketNext]_marketVars => BidsKept
<1> SUFFICES ASSUME MarketTypeOK, [MarketNext]_marketVars
             PROVE  BidsKept
  OBVIOUS
<1> USE DEF BidsKept
<1>1. ASSUME NEW h \in Handler, Hire(h)
      PROVE  BidsKept
  BY <1>1 DEF Hire, MarketTypeOK, StoreTypeOK
<1>2. ASSUME NEW h \in Handler, BidCreate(h)
      PROVE  BidsKept
  BY <1>2 DEF BidCreate, MarketTypeOK, StoreTypeOK
<1>3. CASE bid' = bid
  BY <1>3
<1> QED
  BY <1>1, <1>2, <1>3
     DEF MarketNext, CreateJob, UpdateRead, UpdateWrite, CancelRead, CancelWrite,
         HireRead, HireBid, BidRead, BidCheck, Drop, marketVars

(* A bid that was decided stays decided, whatever handlers race.            *)
THEOREM DecidedBidKeptHolds == MarketSpec => DecidedBidKept
<1>1. MarketInv /\ [MarketNext]_marketVars => [BidsKept]_marketVars
  BY MarketKeepsBids DEF MarketInv
<1> QED
  BY <1>1, MarketInitial, MarketInductive, PTL DEF MarketSpec, DecidedBidKept, BidsKept

-----------------------------------------------------------------------------
(* Hiring and money together. *)

Hired(j) == job[j].hired # None

(* A funding carries a job that somebody was hired for, and so does a      *)
(* dispute that saw the job in progress.                                   *)
OnHirePath(t) ==
  /\ t.at \in Funding => t.job \in Job /\ Hired(t.job)
  /\ t.at \in {"dis_check", "dis_create"} /\ t.was = "IN_PROGRESS" => Hired(t.job)
  /\ t.at = "dis_job" => Hired(t.job)

(* A payment is made for a job that somebody was hired for.                *)
Payments == \A i \in Intent : meta[i].job # None => Hired(meta[i].job)

Statuses == \A j \in Job : Hired(j) \/ job[j].status \in {"NONE", "OPEN", "CANCELLED"}

HirePath ==
  /\ Statuses
  /\ Payments
  /\ \A r \in Request : OnHirePath(task[r])

SystemInv == MarketInv /\ TrailInv /\ HirePath

LEMMA SystemInitial == SystemInit => SystemInv
<1> SUFFICES ASSUME SystemInit
             PROVE  SystemInv
  OBVIOUS
<1>1. MarketInv
  BY MarketInitial DEF SystemInit
<1>2. TypeOK
  BY <1>1, StoreAssumption, EscrowAssumption
     DEF SystemInit, EscrowInit, TypeOK, DataTypeOK, MarketInv, MarketTypeOK,
         TxStatus, IntentState, TaskTypeOK, SlotOK, Task, Idle, Step, Locked, RowSteps,
         ClaimWindow, Lock!LockTypeOK, Lock!LockInit
<1>3. Trails /\ Unmade
  BY DEF SystemInit, EscrowInit, Trails, OnTrail, Idle, RowSteps, ClaimWindow, Unmade
<1>4. \A j \in Job : job[j].status = "NONE"
  BY DEF SystemInit, MarketInit, StoreInit
<1>5. CompletedIsPaid /\ DisputedHasDispute
  <2>1. \A i \in Intent : tx[i] = "NONE"
    BY DEF SystemInit, EscrowInit
  <2> QED
    BY <1>4, <2>1 DEF CompletedIsPaid, DisputedHasDispute, RowsOf
<1>6. HirePath
  BY <1>4 DEF SystemInit, EscrowInit, HirePath, Statuses, Payments, OnHirePath, Idle, Funding
<1> QED
  BY <1>1, <1>2, <1>3, <1>5, <1>6 DEF SystemInv, TrailInv

(* What a step of hiring does to a job, seen from the side of money.        *)
JobMoves(j) == \/ job'[j].status = job[j].status
               \/ job[j].status = "NONE" /\ job'[j].status = "OPEN"
               \/ job'[j].status = "CANCELLED"
               \/ job'[j].status = "IN_PROGRESS" /\ job'[j].hired # None

MarketEffect ==
  /\ BidsKept
  /\ \A j \in Job : (Hired(j) => job'[j].hired # None) /\ JobMoves(j)

LEMMA MarketSteps == MarketInv /\ [MarketNext]_marketVars => MarketEffect
<1> SUFFICES ASSUME MarketInv, [MarketNext]_marketVars
             PROVE  \A k \in Job : (Hired(k) => job'[k].hired # None) /\ JobMoves(k)
  BY MarketKeepsBids DEF MarketInv, MarketEffect
<1> DEFINE Goal == \A k \in Job : (Hired(k) => job'[k].hired # None) /\ JobMoves(k)
<1> USE DEF MarketInv, MarketTypeOK, StoreTypeOK, Hired, JobMoves
<1>1. CASE job' = job
  BY <1>1
<1>2. ASSUME NEW j \in Job, CreateJob(j)
      PROVE  Goal
  BY <1>2 DEF CreateJob
<1>3. ASSUME NEW h \in Handler, CancelWrite(h)
      PROVE  Goal
  BY <1>3 DEF CancelWrite
<1>4. ASSUME NEW h \in Handler, Hire(h)
      PROVE  Goal
  <2>1. desk[h].job \in Job /\ desk[h].bidder \in Freelancer
    BY <1>4 DEF Hire
  <2>2. job' = [job EXCEPT ![desk[h].job] =
                  [status |-> "IN_PROGRESS", hired |-> desk[h].bidder]]
    BY <1>4 DEF Hire
  <2> QED
    BY <2>1, <2>2, StoreAssumption
<1> QED
  BY <1>1, <1>2, <1>3, <1>4
     DEF MarketNext, UpdateRead, UpdateWrite, CancelRead, HireRead, HireBid, BidRead,
         BidCheck, BidCreate, Drop, marketVars

(* What a step of money does to the rows of hiring.                         *)
MoneyEffect ==
  /\ bid' = bid
  /\ \A j \in Job :
       /\ job'[j].hired = job[j].hired
       /\ \/ job'[j].status = job[j].status
          \/ job'[j].status \in {"COMPLETED", "DISPUTED"} /\ Hired(j)

LEMMA MoneySteps == TrailInv /\ HirePath /\ [Next]_vars => MoneyEffect
<1> SUFFICES ASSUME TrailInv, HirePath, [Next]_vars
             PROVE  MoneyEffect
  OBVIOUS
<1>0. StoreTypeOK
  BY DEF TrailInv, TypeOK, DataTypeOK
<1>1. CASE UNCHANGED <<job, bid>>
  BY <1>1 DEF MoneyEffect
<1>2. ASSUME NEW r \in Request, ReleaseComplete(r)
      PROVE  MoneyEffect
  <2>1. /\ task[r].row \in Intent /\ task[r].job \in Job
        /\ meta[task[r].row].job = task[r].job
    BY <1>2 DEF TrailInv, TypeOK, TaskTypeOK, SlotOK, Trails, OnTrail, ReleaseComplete,
                At, RowSteps
  <2>2. Hired(task[r].job)
    BY <2>1, StoreAssumption DEF HirePath, Payments
  <2> QED
    BY <1>0, <1>2, <2>1, <2>2 DEF ReleaseComplete, MoneyEffect, StoreTypeOK
<1>3. ASSUME NEW r \in Request, DisputeJob(r)
      PROVE  MoneyEffect
  <2>1. task[r].job \in Job /\ Hired(task[r].job)
    BY <1>3 DEF TrailInv, TypeOK, TaskTypeOK, SlotOK, DisputeJob, At, HirePath, OnHirePath
  <2> QED
    BY <1>0, <1>3, <2>1 DEF DisputeJob, MoneyEffect, StoreTypeOK
<1> QED
  BY <1>1, <1>2, <1>3
     DEF Next, Proceed, FundRead, FundLock, FundFind, FundCreate, Unlock, ReleaseLock,
         ReleaseFind, ReleaseClaim, ReleaseCapture, ReleaseReject, ReleaseRollback,
         DisputeRead, DisputeCheck, DisputeCreate, DisputeFreeze, Throw, Crash, Confirm,
         Lapse, Webhook, ExpireLock, vars

(* Each side's invariant survives the steps of the other.                   *)
LEMMA MoneyKeepsMarket ==
  MarketInv /\ MoneyEffect /\ StoreTypeOK' /\ UNCHANGED <<terms, desk>> => MarketInv'
  BY DEF MarketInv, MoneyEffect, MarketTypeOK, StoreTypeOK, HiredIffAccepted,
         StatusMatchesHire, Hired

LEMMA MarketKeepsTrail ==
  TrailInv /\ MarketEffect /\ StoreTypeOK' /\ UNCHANGED escrowVars => TrailInv'
<1> SUFFICES ASSUME TrailInv, MarketEffect, StoreTypeOK', UNCHANGED escrowVars
             PROVE  TrailInv'
  OBVIOUS
<1>1. TypeOK'
  BY DEF TrailInv, TypeOK, DataTypeOK, TaskTypeOK, escrowVars, lockVars, ghosts,
         Lock!LockTypeOK
<1>2. Trails' /\ Unmade'
  BY DEF TrailInv, Trails, Unmade, escrowVars
<1>3. \A j \in Job : job'[j].status \in {"COMPLETED", "DISPUTED"}
                      => job[j].status = job'[j].status
  BY DEF MarketEffect, JobMoves
<1>4. CompletedIsPaid'
  BY <1>3 DEF TrailInv, CompletedIsPaid, RowsOf, escrowVars
<1>5. DisputedHasDispute'
  BY <1>3 DEF TrailInv, DisputedHasDispute, RowsOf, escrowVars
<1> QED
  BY <1>1, <1>2, <1>4, <1>5 DEF TrailInv

(* The link between the two sides survives a step of hiring.                *)
LEMMA MarketKeepsPath ==
  TypeOK /\ HirePath /\ MarketEffect /\ UNCHANGED escrowVars => HirePath'
<1> SUFFICES ASSUME TypeOK, HirePath, MarketEffect, UNCHANGED escrowVars
             PROVE  HirePath'
  OBVIOUS
<1>1. \A j \in Job : Hired(j) => Hired(j)'
  BY DEF MarketEffect, Hired
<1>2. Statuses'
  BY <1>1 DEF HirePath, Statuses, MarketEffect, JobMoves, Hired
<1>3. Payments'
  <2>1. \A i \in Intent : meta[i].job \in Job \cup {None}
    BY DEF TypeOK, DataTypeOK
  <2> QED
    BY <1>1, <2>1 DEF HirePath, Payments, escrowVars
<1>4. \A r \in Request : OnHirePath(task[r])'
  <2>1. \A r \in Request : task[r].at # "idle" => task[r].job \in Job
    BY DEF TypeOK, TaskTypeOK, SlotOK
  <2> QED
    BY <1>1, <2>1 DEF HirePath, OnHirePath, escrowVars
<1> QED
  BY <1>2, <1>3, <1>4 DEF HirePath

(* A slot takes up a new task; the others keep theirs.                      *)
LEMMA PathMoves ==
  ASSUME TypeOK, HirePath, MoneyEffect, NEW r \in Request, NEW t,
         task' = [task EXCEPT ![r] = t], OnHirePath(t), t.at # "idle" => t.job \in Job
  PROVE  \A s \in Request : OnHirePath(task[s])'
<1>1. \A s \in Request : task'[s] = IF s = r THEN t ELSE task[s]
  BY DEF TypeOK, TaskTypeOK
<1>2. \A s \in Request : task[s].at # "idle" => task[s].job \in Job
  BY DEF TypeOK, TaskTypeOK, SlotOK
<1>3. \A j \in Job : Hired(j) => Hired(j)'
  BY DEF MoneyEffect, Hired
<1>4. ASSUME NEW s \in Request
      PROVE  OnHirePath(task[s])'
  <2> DEFINE u == IF s = r THEN t ELSE task[s]
  <2>1. OnHirePath(u) /\ (u.at # "idle" => u.job \in Job) /\ task'[s] = u
    BY <1>1, <1>2, <1>4 DEF HirePath
  <2> HIDE DEF u
  <2> QED
    BY <2>1, <1>3 DEF OnHirePath, Funding
<1> QED
  BY <1>4

(* A slot goes on to a step that keeps its promises.                        *)
LEMMA PathGoes ==
  ASSUME TypeOK, HirePath, MoneyEffect, NEW r \in Request, NEW step \in Step,
         Goto(r, step), ~At(r, "idle"),
         step \in Funding => Funds(r),
         step # "fund_lock",
         step \in {"dis_check", "dis_create"} => task[r].at \in {"dis_check", "dis_create"},
         step = "dis_job" => task[r].at \in {"dis_check", "dis_create"}
                             /\ task[r].was = "IN_PROGRESS"
  PROVE  \A s \in Request : OnHirePath(task[s])'
<1> DEFINE t == [task[r] EXCEPT !.at = step]
<1>1. task[r] \in Task /\ task[r].job \in Job
  BY DEF TypeOK, TaskTypeOK, SlotOK, At
<1>2. /\ t.at = step /\ t.job = task[r].job /\ t.was = task[r].was
      /\ task' = [task EXCEPT ![r] = t]
  BY <1>1 DEF Task, Goto
<1>3. OnHirePath(task[r])
  BY DEF HirePath
<1> HIDE DEF t
<1>4. OnHirePath(t)
  BY <1>2, <1>3 DEF OnHirePath, Funds
<1> QED
  BY <1>1, <1>2, <1>4, PathMoves

LEMMA PathEnds ==
  ASSUME TypeOK, HirePath, MoneyEffect, NEW r \in Request, Finish(r)
  PROVE  \A s \in Request : OnHirePath(task[s])'
<1>1. OnHirePath(Idle) /\ Idle.at = "idle"
  BY DEF OnHirePath, Idle, Funding
<1> QED
  BY <1>1, PathMoves DEF Finish

LEMMA MoneyKeepsPayments ==
  ASSUME TypeOK, HirePath, MoneyEffect, [Next]_vars
  PROVE  Payments'
<1>1. \A j \in Job : Hired(j) => Hired(j)'
  BY DEF MoneyEffect, Hired
<1>2. \A i \in Intent : meta[i].job \in Job \cup {None}
  BY DEF TypeOK, DataTypeOK
<1>3. CASE meta' = meta
  BY <1>1, <1>2, <1>3 DEF HirePath, Payments
<1>4. ASSUME NEW r \in Request, FundCreate(r)
      PROVE  Payments'
  <2>1. PICK i \in Intent :
             meta' = [meta EXCEPT ![i] = [job |-> task[r].job, payee |-> task[r].payee]]
    BY <1>4 DEF FundCreate
  <2>2. task[r].job \in Job /\ Hired(task[r].job)
    BY <1>4 DEF FundCreate, At, HirePath, OnHirePath, Funding
  <2>3. /\ meta'[i] = [job |-> task[r].job, payee |-> task[r].payee]
        /\ \A k \in Intent \ {i} : meta'[k] = meta[k]
    BY <2>1 DEF TypeOK, DataTypeOK
  <2> QED
    BY <1>1, <1>2, <2>2, <2>3 DEF HirePath, Payments
<1> QED
  BY <1>3, <1>4
     DEF Next, Proceed, FundRead, FundLock, FundFind, Unlock, ReleaseLock, ReleaseFind,
         ReleaseClaim, ReleaseCapture, ReleaseReject, ReleaseRollback, ReleaseComplete,
         DisputeRead, DisputeCheck, DisputeCreate, DisputeJob, DisputeFreeze, Throw, Crash,
         Confirm, Lapse, Webhook, ExpireLock, vars, escrowVars, rows

LEMMA MoneyKeepsTasks ==
  ASSUME MarketInv, TypeOK, HirePath, MoneyEffect, [Next]_vars
  PROVE  \A r \in Request : OnHirePath(task[r])'
<1> DEFINE Goal == \A r \in Request : OnHirePath(task[r])'
<1>1. CASE task' = task
  <2>1. \A r \in Request : task[r].at # "idle" => task[r].job \in Job
    BY DEF TypeOK, TaskTypeOK, SlotOK
  <2>2. \A j \in Job : Hired(j) => Hired(j)'
    BY DEF MoneyEffect, Hired
  <2> QED
    BY <1>1, <2>1, <2>2 DEF HirePath, OnHirePath, Funding
<1>2. ASSUME NEW r \in Request, NEW j \in Job, FundRead(r, j)
      PROVE  Goal
  <2>1. PICK f \in Freelancer :
             task' = [task EXCEPT ![r] = [Idle EXCEPT !.at = "fund_lock", !.job = j,
                                                     !.payee = f]]
    BY <1>2 DEF FundRead
  <2> DEFINE t == [Idle EXCEPT !.at = "fund_lock", !.job = j, !.payee = f]
  <2>2. t.at = "fund_lock" /\ t.job = j
    BY DEF Idle
  <2>3. Hired(j)
    BY <1>2 DEF FundRead, MarketInv, StatusMatchesHire, Hired
  <2>4. task' = [task EXCEPT ![r] = t]
    BY <2>1
  <2> HIDE DEF t
  <2>5. OnHirePath(t)
    BY <2>2, <2>3 DEF OnHirePath
  <2> QED
    BY <2>2, <2>4, <2>5, PathMoves
<1>3. ASSUME NEW r \in Request, NEW j \in Job, ReleaseLock(r, j)
      PROVE  Goal
  <2> DEFINE t == [Idle EXCEPT !.at = "rel_find", !.job = j]
  <2>1. t.at = "rel_find" /\ t.job = j
    BY DEF Idle
  <2>2. task' = task \/ task' = [task EXCEPT ![r] = t]
    BY <1>3 DEF ReleaseLock
  <2> HIDE DEF t
  <2>3. OnHirePath(t)
    BY <2>1 DEF OnHirePath, Funding
  <2> QED
    BY <1>1, <2>1, <2>2, <2>3, PathMoves
<1>4. ASSUME NEW r \in Request, NEW j \in Job, DisputeRead(r, j)
      PROVE  Goal
  <2> DEFINE t == [Idle EXCEPT !.at = "dis_check", !.job = j, !.was = job[j].status]
  <2>1. t.at = "dis_check" /\ t.job = j /\ t.was = job[j].status
    BY DEF Idle
  <2>2. task' = [task EXCEPT ![r] = t]
    BY <1>4 DEF DisputeRead
  <2>3. job[j].status = "IN_PROGRESS" => Hired(j)
    BY DEF MarketInv, StatusMatchesHire, Hired
  <2> HIDE DEF t
  <2>4. OnHirePath(t)
    BY <2>1, <2>3 DEF OnHirePath, Funding
  <2> QED
    BY <2>1, <2>2, <2>4, PathMoves
<1>5. ASSUME NEW r \in Request, FundLock(r) \/ FundFind(r)
      PROVE  Goal
  BY <1>5, PathGoes, PathEnds DEF FundLock, FundFind, At, Step, Locked, Funds, Funding
<1>6. ASSUME NEW r \in Request, FundCreate(r)
      PROVE  Goal
  <2>1. PICK known \in Intent \cup {None} :
             task' = [task EXCEPT ![r] = [@ EXCEPT !.at = "unlock", !.row = known]]
    BY <1>6 DEF FundCreate
  <2> DEFINE t == [task[r] EXCEPT !.at = "unlock", !.row = known]
  <2>2. task[r] \in Task /\ task[r].job \in Job
    BY <1>6 DEF TypeOK, TaskTypeOK, SlotOK, FundCreate, At
  <2>3. t.at = "unlock" /\ t.job = task[r].job /\ task' = [task EXCEPT ![r] = t]
    BY <2>1, <2>2 DEF Task
  <2> HIDE DEF t
  <2>4. OnHirePath(t)
    BY <2>3 DEF OnHirePath, Funding
  <2> QED
    BY <2>2, <2>3, <2>4, PathMoves
<1>7. ASSUME NEW r \in Request, ReleaseFind(r)
      PROVE  Goal
  <2>1. CASE Goto(r, "unlock")
    BY <1>7, <2>1, PathGoes DEF ReleaseFind, At, Step, Locked, Funding
  <2>2. CASE \E i \in Intent :
               task' = [task EXCEPT ![r] = [@ EXCEPT !.at = "rel_claim", !.row = i]]
    <3>1. PICK i \in Intent :
               task' = [task EXCEPT ![r] = [@ EXCEPT !.at = "rel_claim", !.row = i]]
      BY <2>2
    <3> DEFINE t == [task[r] EXCEPT !.at = "rel_claim", !.row = i]
    <3>2. task[r] \in Task /\ task[r].job \in Job
      BY <1>7 DEF TypeOK, TaskTypeOK, SlotOK, ReleaseFind, At
    <3>3. t.at = "rel_claim" /\ t.job = task[r].job /\ task' = [task EXCEPT ![r] = t]
      BY <3>1, <3>2 DEF Task
    <3> HIDE DEF t
    <3>4. OnHirePath(t)
      BY <3>3 DEF OnHirePath, Funding
    <3> QED
      BY <3>2, <3>3, <3>4, PathMoves
  <2> QED
    BY <1>7, <2>1, <2>2 DEF ReleaseFind, RowsOf
<1>8. ASSUME NEW r \in Request,
             ReleaseClaim(r) \/ ReleaseCapture(r) \/ ReleaseReject(r)
               \/ ReleaseRollback(r) \/ ReleaseComplete(r)
      PROVE  Goal
  BY <1>8, PathGoes
     DEF ReleaseClaim, ReleaseCapture, ReleaseReject, ReleaseRollback, ReleaseComplete,
         At, Step, Locked, Funding
<1>9. ASSUME NEW r \in Request,
             DisputeCheck(r) \/ DisputeCreate(r) \/ DisputeJob(r) \/ DisputeFreeze(r)
      PROVE  Goal
  BY <1>9, PathGoes, PathEnds
     DEF DisputeCheck, DisputeCreate, DisputeJob, DisputeFreeze, At, Step, Disputing,
         Funding
<1>10. ASSUME NEW r \in Request, Throw(r)
       PROVE  Goal
  BY <1>10, PathGoes, PathEnds DEF Throw, At, Step, Locked, Funding
<1>11. ASSUME NEW r \in Request, Unlock(r) \/ Crash(r)
       PROVE  Goal
  BY <1>11, PathEnds DEF Unlock, Crash
<1> QED
  BY <1>1, <1>2, <1>3, <1>4, <1>5, <1>6, <1>7, <1>8, <1>9, <1>10, <1>11
     DEF Next, Proceed, Confirm, Lapse, Webhook, ExpireLock, vars, escrowVars

(* The link between the two sides survives a step of money.                 *)
LEMMA MoneyKeepsPath ==
  MarketInv /\ TypeOK /\ HirePath /\ MoneyEffect /\ [Next]_vars => HirePath'
<1> SUFFICES ASSUME MarketInv, TypeOK, HirePath, MoneyEffect, [Next]_vars
             PROVE  HirePath'
  OBVIOUS
<1>1. Statuses'
  BY DEF HirePath, Statuses, MoneyEffect, Hired
<1> QED
  BY <1>1, MoneyKeepsPayments, MoneyKeepsTasks DEF HirePath

LEMMA SystemInductive == SystemInv /\ [SystemNext]_allVars => SystemInv'
<1> SUFFICES ASSUME SystemInv, [SystemNext]_allVars
             PROVE  SystemInv'
  OBVIOUS
<1> USE DEF SystemInv
<1>1. CASE MarketNext /\ UNCHANGED escrowVars
  <2>1. MarketInv' /\ MarketEffect
    BY <1>1, MarketInductive, MarketSteps
  <2>2. StoreTypeOK'
    BY <2>1 DEF MarketInv, MarketTypeOK
  <2>3. TrailInv'
    BY <1>1, <2>1, <2>2, MarketKeepsTrail
  <2>4. HirePath'
    BY <1>1, <2>1, MarketKeepsPath DEF TrailInv
  <2> QED
    BY <2>1, <2>3, <2>4
<1>2. CASE [Next]_vars /\ UNCHANGED <<terms, desk>>
  <2>1. TrailInv' /\ MoneyEffect
    BY <1>2, TrailInductive, MoneySteps
  <2>2. StoreTypeOK'
    BY <2>1 DEF TrailInv, TypeOK, DataTypeOK
  <2>3. MarketInv'
    BY <1>2, <2>1, <2>2, MoneyKeepsMarket
  <2>4. HirePath'
    BY <1>2, <2>1, MoneyKeepsPath DEF TrailInv
  <2> QED
    BY <2>1, <2>3, <2>4
<1> QED
  BY <1>1, <1>2 DEF SystemNext, allVars, vars

(* A funding pays whom the job had hired when it was read.                 *)
Chosen == \A r \in Request : Funds(r) => /\ task[r].payee = chosen[r]
                                         /\ chosen[r] # None

(* A request is funding because it just read its job, or it was before and *)
(* pays the same freelancer.                                               *)
LEMMA FundingGoesOn ==
  ASSUME TypeOK, [Next]_vars, NEW s \in Request, Funds(s)'
  PROVE  \/ Funds(s) /\ task'[s].payee = task[s].payee
         \/ \E j \in Job : FundRead(s, j)
<1> DEFINE Goal == \/ Funds(s) /\ task'[s].payee = task[s].payee
                   \/ \E j \in Job : FundRead(s, j)
<1> USE DEF Funds
<1>0. task \in [Request -> Task]
  BY DEF TypeOK, TaskTypeOK
<1>1. CASE task'[s] = task[s]
  BY <1>1
<1>2. ASSUME NEW r \in Request, NEW t, task' = [task EXCEPT ![r] = t], t.at \notin Funding
      PROVE  Goal
  BY <1>0, <1>1, <1>2
<1>3. ASSUME NEW r \in Request, Finish(r)
      PROVE  Goal
  <2>1. Idle.at \notin Funding
    BY DEF Idle, Funding
  <2> QED
    BY <1>2, <1>3, <2>1 DEF Finish
<1>4. ASSUME NEW r \in Request, NEW step, Goto(r, step), step \in Funding => Funds(r)
      PROVE  Goal
  <2>1. CASE r = s
    BY <1>0, <1>4, <2>1 DEF Goto, Task
  <2>2. CASE r # s
    BY <1>0, <1>1, <1>4, <2>2 DEF Goto
  <2> QED
    BY <2>1, <2>2
<1>5. ASSUME NEW r \in Request, NEW j \in Job,
             FundRead(r, j) \/ ReleaseLock(r, j) \/ DisputeRead(r, j)
      PROVE  Goal
  <2>1. CASE r = s /\ FundRead(r, j)
    BY <2>1
  <2>2. CASE r # s
    BY <1>0, <1>1, <1>5, <2>2 DEF FundRead, ReleaseLock, DisputeRead
  <2>3. CASE r = s /\ (ReleaseLock(r, j) \/ DisputeRead(r, j))
    BY <1>0, <1>1, <2>3 DEF ReleaseLock, DisputeRead, Idle, Funding
  <2> QED
    BY <1>5, <2>1, <2>2, <2>3
<1>6. ASSUME NEW r \in Request, FundLock(r) \/ FundFind(r)
      PROVE  Goal
  BY <1>3, <1>4, <1>6 DEF FundLock, FundFind, At, Funding
<1>7. ASSUME NEW r \in Request, FundCreate(r) \/ ReleaseFind(r)
      PROVE  Goal
  <2>1. CASE Goto(r, "unlock")
    BY <1>4, <2>1 DEF Funding
  <2>2. CASE \E step \in {"unlock", "rel_claim"}, i \in Intent \cup {None} :
               task' = [task EXCEPT ![r] = [@ EXCEPT !.at = step, !.row = i]]
    <3>1. PICK step \in {"unlock", "rel_claim"}, i \in Intent \cup {None} :
               task' = [task EXCEPT ![r] = [@ EXCEPT !.at = step, !.row = i]]
      BY <2>2
    <3> DEFINE t == [task[r] EXCEPT !.at = step, !.row = i]
    <3>2. t.at \notin Funding /\ task' = [task EXCEPT ![r] = t]
      BY <1>0, <3>1 DEF Task, Funding
    <3> HIDE DEF t
    <3> QED
      BY <1>2, <3>2
  <2> QED
    BY <1>7, <2>1, <2>2 DEF FundCreate, ReleaseFind, RowsOf
<1>8. ASSUME NEW r \in Request,
             \/ ReleaseClaim(r) \/ ReleaseCapture(r) \/ ReleaseReject(r)
             \/ ReleaseRollback(r) \/ ReleaseComplete(r)
             \/ DisputeCheck(r) \/ DisputeCreate(r) \/ DisputeJob(r) \/ DisputeFreeze(r)
             \/ Throw(r) \/ Unlock(r) \/ Crash(r)
      PROVE  Goal
  BY <1>3, <1>4, <1>8
     DEF ReleaseClaim, ReleaseCapture, ReleaseReject, ReleaseRollback, ReleaseComplete,
         DisputeCheck, DisputeCreate, DisputeJob, DisputeFreeze, Throw, Unlock, Crash, Funding
<1> QED
  BY <1>1, <1>5, <1>6, <1>7, <1>8
     DEF Next, Proceed, Confirm, Lapse, Webhook, ExpireLock, vars, escrowVars

LEMMA ChosenStep == SystemInv /\ Chosen /\ [SystemNext]_allVars => Chosen'
<1> SUFFICES ASSUME SystemInv, Chosen, [SystemNext]_allVars, NEW s \in Request, Funds(s)'
             PROVE  task'[s].payee = chosen'[s] /\ chosen'[s] # None
  BY DEF Chosen
<1>1. CASE UNCHANGED allVars
  BY <1>1 DEF allVars, escrowVars, Chosen, Funds
<1>2. CASE SystemNext
  <2>1. chosen'[s] = IF Funds(s) THEN chosen[s] ELSE job[task'[s].job].hired
    BY <1>2 DEF SystemNext, Watch
  <2>2. CASE Funds(s) /\ task'[s].payee = task[s].payee
    BY <2>1, <2>2 DEF Chosen
  <2>3. ASSUME NEW j \in Job, FundRead(s, j)
        PROVE  task'[s].payee = chosen'[s] /\ chosen'[s] # None
    <3>1. PICK f \in Freelancer :
               /\ bid[j][f] = "ACCEPTED"
               /\ task' = [task EXCEPT ![s] = [Idle EXCEPT !.at = "fund_lock", !.job = j,
                                                          !.payee = f]]
      BY <2>3 DEF FundRead
    <3>2. task'[s] = [Idle EXCEPT !.at = "fund_lock", !.job = j, !.payee = f]
      BY <3>1 DEF SystemInv, TrailInv, TypeOK, TaskTypeOK
    <3>3. task'[s].job = j /\ task'[s].payee = f
      BY <3>2 DEF Idle
    <3>4. ~Funds(s)
      BY <2>3 DEF FundRead, At, Funds, Funding
    <3>5. job[j].hired = f /\ f # None
      BY <3>1, StoreAssumption DEF SystemInv, MarketInv, HiredIffAccepted
    <3> QED
      BY <2>1, <3>3, <3>4, <3>5
  <2>4. CASE UNCHANGED escrowVars
    BY <2>2, <2>4 DEF escrowVars, Funds
  <2>5. CASE Next
    BY <2>2, <2>3, <2>5, FundingGoesOn DEF SystemInv, TrailInv
  <2> QED
    BY <1>2, <2>4, <2>5 DEF SystemNext
<1> QED
  BY <1>1, <1>2

(* Whatever hires, cancels, bids and fundings race, every payment is made  *)
(* out to the freelancer who was hired when its funding read the job.      *)
THEOREM PayeeWasHiredHolds == SystemSpec => PayeeWasHired
<1> DEFINE ToTheHired ==
      \A i \in Intent : meta'[i] # meta[i] =>
        \E r \in Request : /\ At(r, "fund_create") /\ meta'[i].job = task[r].job
                           /\ meta'[i].payee = chosen[r] /\ chosen[r] # None
<1>1. ASSUME SystemInv, Chosen, SystemNext PROVE ToTheHired
  <2>1. CASE meta' = meta
    BY <2>1
  <2>2. ASSUME NEW r \in Request, FundCreate(r) PROVE ToTheHired
    <3>1. PICK k \in Intent :
               meta' = [meta EXCEPT ![k] = [job |-> task[r].job, payee |-> task[r].payee]]
      BY <2>2 DEF FundCreate
    <3>2. \A i \in Intent : meta'[i] # meta[i] =>
            meta'[i].job = task[r].job /\ meta'[i].payee = task[r].payee
      BY <1>1, <3>1 DEF SystemInv, TrailInv, TypeOK, DataTypeOK
    <3>3. At(r, "fund_create") /\ task[r].payee = chosen[r] /\ chosen[r] # None
      BY <1>1, <2>2 DEF FundCreate, At, Chosen, Funds, Funding
    <3> QED
      BY <3>2, <3>3
  <2> QED
    BY <1>1, <2>1, <2>2
       DEF SystemNext, escrowVars, Next, Proceed, FundRead, FundLock, FundFind, Unlock,
           ReleaseLock, ReleaseFind, ReleaseClaim, ReleaseCapture, ReleaseReject,
           ReleaseRollback, ReleaseComplete, DisputeRead, DisputeCheck, DisputeCreate,
           DisputeJob, DisputeFreeze, Throw, Crash, Confirm, Lapse, Webhook, ExpireLock, rows
<1>2. SystemInv /\ Chosen /\ [SystemNext]_allVars => [ToTheHired]_allVars
  BY <1>1
<1>3. SystemInit => Chosen
  BY DEF SystemInit, EscrowInit, Chosen, Funds, Funding, Idle
<1> QED
  BY <1>2, <1>3, SystemInitial, SystemInductive, ChosenStep, PTL DEF SystemSpec, PayeeWasHired

(* A job that nobody was hired for is not paid for, completed or frozen.    *)
THEOREM MoneyNeedsHireHolds == SystemSpec => []MoneyNeedsHire
<1>1. SystemInv => MoneyNeedsHire
  BY StoreAssumption
     DEF SystemInv, HirePath, Statuses, Payments, Hired, MoneyNeedsHire
<1> QED
  BY <1>1, SystemInitial, SystemInductive, PTL DEF SystemSpec

(* No step of either side lists a job again that was hired for, finished,  *)
(* cancelled or frozen.                                                     *)
THEOREM NeverReopenedHolds == SystemSpec => NeverReopened
<1> DEFINE Stays(j) == job[j].status \notin {"NONE", "OPEN"}
                         => job'[j].status \notin {"NONE", "OPEN"}
<1>1. SystemInv /\ [SystemNext]_allVars => \A j \in Job : Stays(j)
  <2> SUFFICES ASSUME SystemInv, [SystemNext]_allVars
               PROVE  \A j \in Job : Stays(j)
    OBVIOUS
  <2>1. CASE MarketNext
    BY <2>1, MarketSteps DEF SystemInv, MarketEffect, JobMoves
  <2>2. CASE [Next]_vars
    BY <2>2, MoneySteps DEF SystemInv, MoneyEffect
  <2> QED
    BY <2>1, <2>2 DEF SystemNext, allVars, vars
<1>2. SystemInv /\ [SystemNext]_allVars => [\A j \in Job : Stays(j)]_allVars
  BY <1>1
<1> QED
  BY <1>2, SystemInitial, SystemInductive, PTL DEF SystemSpec, NeverReopened

-----------------------------------------------------------------------------
(* What escrow guarantees on its own, when every job is in progress and     *)
(* hiring is over, it guarantees while hiring goes on: the invariants of    *)
(* Escrow_proofs survive the steps of hiring, which write the job under the *)
(* feet of the money handlers.                                              *)

MoneyInv == ClaimExclusive /\ LedgerMatchesStripe /\ LockProofs!LockIInv /\ DisputeInv

FullInv == SystemInv /\ MoneyInv

LEMMA FullInitial == SystemInit => FullInv
<1> SUFFICES ASSUME SystemInit
             PROVE  FullInv
  OBVIOUS
<1>1. SystemInv /\ TypeOK /\ EscrowInit
  BY SystemInitial DEF SystemInit, SystemInv, TrailInv
<1>2. ClaimInv /\ SerialInv /\ DisputeInv
  BY <1>1, ClaimOpens, SerialOpens, DisputeOpens
<1> QED
  BY <1>1, <1>2 DEF FullInv, MoneyInv, ClaimInv, SerialInv

(* A step of the composition is one of money, or one that leaves the state  *)
(* of escrow alone.                                                         *)
LEMMA EitherSide ==
  [SystemNext]_allVars => [Next]_vars \/ UNCHANGED escrowVars
  BY DEF SystemNext, allVars, vars

LEMMA MarketKeepsMoney == MoneyInv /\ UNCHANGED escrowVars => MoneyInv'
<1> SUFFICES ASSUME MoneyInv, UNCHANGED escrowVars
             PROVE  MoneyInv'
  OBVIOUS
<1> USE DEF MoneyInv, escrowVars
<1>1. ClaimExclusive' /\ LedgerMatchesStripe'
  BY DEF ClaimExclusive, LedgerMatchesStripe, Claims, ghosts
<1>2. LockProofs!LockIInv'
  BY DEF lockVars, LockProofs!LockIInv, LockProofs!LockTypeOK, LockProofs!LockInv
<1>3. DisputeInv'
  BY DEF DisputeInv, Creating, At
<1> QED
  BY <1>1, <1>2, <1>3

LEMMA FullInductive == FullInv /\ [SystemNext]_allVars => FullInv'
<1> SUFFICES ASSUME FullInv, [SystemNext]_allVars
             PROVE  FullInv'
  OBVIOUS
<1>1. SystemInv'
  BY SystemInductive DEF FullInv
<1>2. CASE UNCHANGED escrowVars
  BY <1>1, <1>2, MarketKeepsMoney DEF FullInv
<1>3. CASE [Next]_vars
  <2>1. ClaimInv /\ SerialInv /\ TypeOK /\ DisputeInv
    BY DEF FullInv, MoneyInv, SystemInv, TrailInv, ClaimInv, SerialInv
  <2>2. ClaimInv' /\ SerialInv' /\ DisputeInv'
    BY <1>3, <2>1, ClaimInductive, SerialInductive, DisputeStep
  <2> QED
    BY <1>1, <2>2 DEF FullInv, MoneyInv, ClaimInv, SerialInv
<1> QED
  BY <1>2, <1>3, EitherSide

(* Claims stay exclusive, the table agrees with Stripe, what is frozen has  *)
(* a dispute on record, disputes are bounded and the lock serialises, with  *)
(* hires, cancels, edits and bids interleaved.                              *)
THEOREM SystemMoneySafe ==
  SystemSpec => [](/\ ClaimExclusive /\ LedgerMatchesStripe /\ DisputedHasDispute
                   /\ DisputesBounded /\ SerialUnlessLapsed)
<1>1. FullInv => /\ ClaimExclusive /\ LedgerMatchesStripe /\ DisputedHasDispute
                 /\ DisputesBounded /\ SerialUnlessLapsed
  <2>1. FullInv => ClaimExclusive /\ LedgerMatchesStripe /\ DisputedHasDispute
    BY DEF FullInv, MoneyInv, SystemInv, TrailInv
  <2>2. FullInv => TypeOK /\ DisputeInv /\ SerialInv
    BY DEF FullInv, MoneyInv, SystemInv, TrailInv, SerialInv
  <2> QED
    BY <2>1, <2>2, DisputeFromInv, SerialFromInv
<1> QED
  BY <1>1, FullInitial, FullInductive, PTL DEF SystemSpec

(* A completed job was paid, also while hires and cancels interleave with   *)
(* the release (payments.ts:142-145, jobs.ts:204-207, 250-266).             *)
THEOREM SystemCompletedIsPaid == SystemSpec => []CompletedIsPaid
<1>1. SystemInv => CompletedIsPaid
  BY DEF SystemInv, TrailInv
<1> QED
  BY <1>1, SystemInitial, SystemInductive, PTL DEF SystemSpec

(* What hiring promises it keeps while money moves: the accepted bid is the *)
(* hired freelancer's, though releases and disputes write the job too.      *)
THEOREM SystemHiringSafe == SystemSpec => [](HiredIffAccepted /\ StatusMatchesHire)
<1>1. SystemInv => HiredIffAccepted /\ StatusMatchesHire
  BY DEF SystemInv, MarketInv
<1> QED
  BY <1>1, SystemInitial, SystemInductive, PTL DEF SystemSpec

(* A decided bid stays decided through every step of either side.           *)
THEOREM SystemBidsKept == SystemSpec => DecidedBidKept
<1>1. SystemInv /\ [SystemNext]_allVars => [BidsKept]_marketVars
  <2> SUFFICES ASSUME SystemInv, [SystemNext]_allVars
               PROVE  BidsKept
    OBVIOUS
  <2>1. CASE MarketNext
    BY <2>1, MarketKeepsBids DEF SystemInv, MarketInv
  <2>2. CASE [Next]_vars
    BY <2>2, MoneySteps DEF SystemInv, MoneyEffect, BidsKept
  <2> QED
    BY <2>1, <2>2 DEF SystemNext, allVars, vars
<1> QED
  BY <1>1, SystemInitial, SystemInductive, PTL DEF SystemSpec, DecidedBidKept, BidsKept

(* No step of the composition captures an unclaimed row.                    *)
THEOREM SystemCaptures == SystemSpec => CaptureOnlyClaimed
<1>1. FullInv /\ [SystemNext]_allVars => [Claimed]_vars
  <2> SUFFICES ASSUME FullInv, [SystemNext]_allVars
               PROVE  Claimed
    OBVIOUS
  <2>1. CASE UNCHANGED escrowVars
    BY <2>1 DEF Claimed, escrowVars
  <2>2. CASE [Next]_vars
    BY <2>2, ClaimedStep DEF FullInv, MoneyInv, SystemInv, TrailInv, ClaimInv
  <2> QED
    BY <2>1, <2>2, EitherSide
<1> QED
  BY <1>1, FullInitial, FullInductive, PTL DEF SystemSpec, CaptureOnlyClaimed, Claimed

(* No step of the composition moves a settled row.                          *)
THEOREM SystemSettled == SystemSpec => SettledFinal
<1>1. FullInv /\ [SystemNext]_allVars => [Final]_vars
  <2> SUFFICES ASSUME FullInv, [SystemNext]_allVars
               PROVE  Final
    OBVIOUS
  <2>1. CASE UNCHANGED escrowVars
    BY <2>1 DEF Final, escrowVars
  <2>2. CASE [Next]_vars
    BY <2>2, FinalStep DEF FullInv, MoneyInv, SystemInv, TrailInv, ClaimInv
  <2> QED
    BY <2>1, <2>2, EitherSide
<1> QED
  BY <1>1, FullInitial, FullInductive, PTL DEF SystemSpec, SettledFinal, Final

(* The escrow table of the composition takes only steps of Ledger.          *)
THEOREM SystemLedger == SystemSpec => Book!LedgerInit /\ [][Book!LedgerNext]_ledger
<1>1. SystemInit => Book!LedgerInit
  BY BookInitial DEF SystemInit
<1>2. FullInv /\ [SystemNext]_allVars => [Book!LedgerNext]_ledger
  <2> SUFFICES ASSUME FullInv, [SystemNext]_allVars
               PROVE  [Book!LedgerNext]_ledger
    OBVIOUS
  <2>1. CASE UNCHANGED escrowVars
    BY <2>1 DEF escrowVars, ghosts, ledger, Standing
  <2>2. CASE [Next]_vars
    BY <2>2, BookStep DEF FullInv, MoneyInv, SystemInv, TrailInv, ClaimInv
  <2> QED
    BY <2>1, <2>2, EitherSide
<1> QED
  BY <1>1, <1>2, FullInitial, FullInductive, PTL DEF SystemSpec

(* Hiring does not keep a claim open either: it leaves the request that     *)
(* works on it where it is.                                                 *)
THEOREM SystemClaimNearsEnd == SystemSpec => ClaimNearsEnd
<1>1. FullInv /\ [SystemNext]_allVars
        => [\A i \in Intent : ledger[i] = "claimed" /\ ledger'[i] = "claimed"
                                => \E r \in Request : Nears(r, i)]_vars
  <2> SUFFICES ASSUME FullInv, [SystemNext]_allVars, NEW i \in Intent,
                      Standing(i) = "claimed", Standing(i)' = "claimed"
               PROVE  \E r \in Request : Nears(r, i)
    BY DEF ledger
  <2>1. ClaimInv
    BY DEF FullInv, MoneyInv, SystemInv, TrailInv, ClaimInv
  <2>2. CASE UNCHANGED escrowVars
    <3>1. i \notin lost \cup redone /\ tx[i] = "RELEASED" /\ intent[i] # "captured"
      <4>1. tx[i] \in TxStatus
        BY <2>1 DEF ClaimInv, TypeOK, DataTypeOK
      <4> QED
        BY <4>1 DEF Standing, Mark, TxStatus
    <3>2. PICK r \in Request : Claims(r, i)
      BY <2>1, <3>1 DEF ClaimInv, LedgerMatchesStripe
    <3> QED
      BY <2>2, <3>2 DEF Nears, Claims, escrowVars
  <2>3. CASE [Next]_vars
    BY <2>1, <2>3, NearsEnd
  <2> QED
    BY <2>2, <2>3, EitherSide
<1> QED
  BY <1>1, FullInitial, FullInductive, PTL DEF SystemSpec, ClaimNearsEnd

(* The lock under both sides takes only steps of RedisLock.                *)
THEOREM SystemLock == SystemSpec => Lock!LockInit /\ [][Lock!LockNext]_(Lock!lockVars)
<1>1. SystemInit => Lock!LockInit
  BY DEF SystemInit, EscrowInit
<1>2. SystemInv /\ [SystemNext]_allVars => [Lock!LockNext]_(Lock!lockVars)
  <2> SUFFICES ASSUME SystemInv, [SystemNext]_allVars
               PROVE  [Lock!LockNext]_(Lock!lockVars)
    OBVIOUS
  <2>1. CASE UNCHANGED escrowVars
    BY <2>1 DEF escrowVars, lockVars, Lock!lockVars
  <2>2. CASE [Next]_vars
    BY <2>2, LockSteps DEF SystemInv, TrailInv
  <2> QED
    BY <2>1, <2>2, EitherSide
<1> QED
  BY <1>1, <1>2, SystemInitial, SystemInductive, PTL DEF SystemSpec
=============================================================================
