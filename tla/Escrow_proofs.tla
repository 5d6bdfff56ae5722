---------------------------- MODULE Escrow_proofs ----------------------------
(***************************************************************************)
(* What the money path guarantees for any number of jobs, intents and      *)
(* requests.  First typing, one lemma per part of TypeOK; then the claim   *)
(* (ClaimInv), which needs neither the lock nor that only one server runs; *)
(* last, what the lock adds, taken from the proofs about RedisLock.        *)
(***************************************************************************)
EXTENDS Escrow, FiniteSetTheorems, TLAPS

LEMMA Typing0 == Init => TypeOK
  BY StoreAssumption, EscrowAssumption
     DEF Init, EscrowInit, TypeOK, DataTypeOK, StoreTypeOK, JobStatus, BidStatus,
         TxStatus, IntentState, TaskTypeOK, SlotOK, Task, Idle, Step, Locked, RowSteps,
         ClaimWindow, Lock!LockTypeOK, Lock!LockInit

LEMMA SlotMoves ==
  ASSUME TaskTypeOK, NEW r \in Request, NEW t \in Task,
         task' = [task EXCEPT ![r] = t],
         holds' \in [Request -> Job \cup {None}],
         \A s \in Request \ {r} : holds'[s] = holds[s],
         SlotOK(t, holds'[r])
  PROVE  TaskTypeOK'
  BY DEF TaskTypeOK

LEMMA SlotGoes ==
  ASSUME TaskTypeOK, NEW r \in Request, NEW step \in Step \ {"idle"}, Goto(r, step),
         UNCHANGED holds, ~At(r, "idle"),
         step \in Locked <=> task[r].at \in Locked,
         step \in RowSteps => task[r].at \in RowSteps
  PROVE  TaskTypeOK'
<1> DEFINE t == [task[r] EXCEPT !.at = step]
<1>1. task[r] \in Task
  BY DEF TaskTypeOK
<1>2. t \in Task /\ t.at = step /\ t.job = task[r].job /\ t.row = task[r].row
  BY <1>1 DEF Task
<1>3. SlotOK(task[r], holds[r])
  BY DEF TaskTypeOK
<1>4. SlotOK(t, holds[r])
  BY <1>2, <1>3 DEF SlotOK, At
<1>5. task' = [task EXCEPT ![r] = t]
  BY DEF Goto
<1> HIDE DEF t
<1> QED
  BY <1>2, <1>4, <1>5, SlotMoves DEF TaskTypeOK

LEMMA IdleOK == Idle \in Task /\ SlotOK(Idle, None)
  BY DEF Idle, Task, SlotOK, Step, Locked, RowSteps, ClaimWindow

LEMMA SlotEnds ==
  ASSUME TaskTypeOK, NEW r \in Request, Finish(r),
         holds' = [holds EXCEPT ![r] = None]
  PROVE  TaskTypeOK'
<1>1. holds' \in [Request -> Job \cup {None}] /\ holds'[r] = None
      /\ \A s \in Request \ {r} : holds'[s] = holds[s]
  BY DEF TaskTypeOK
<1> QED
  BY <1>1, IdleOK, SlotMoves DEF Finish

(* Every step acts on the rows with values of the right type.              *)
LEMMA DataTyping == TypeOK /\ [Next]_vars => DataTypeOK'
<1> SUFFICES ASSUME TypeOK, [Next]_vars
             PROVE  DataTypeOK'
  OBVIOUS
<1> USE DEF TypeOK, DataTypeOK
<1>1. CASE UNCHANGED <<job, bid, tx, intent, meta, disputes, lost, redone>>
  BY <1>1 DEF StoreTypeOK
<1>2. ASSUME NEW r \in Request, FundCreate(r)
      PROVE  DataTypeOK'
  <2>1. task[r].job \in Job \cup {None} /\ task[r].payee \in Freelancer \cup {None}
    BY DEF TaskTypeOK, Task
  <2>2. PICK i \in Intent :
             /\ intent' = [intent EXCEPT ![i] = "created"]
             /\ meta' = [meta EXCEPT ![i] = [job |-> task[r].job, payee |-> task[r].payee]]
             /\ UNCHANGED <<job, bid, tx, disputes, ghosts>>
    BY <1>2 DEF FundCreate
  <2>3. intent' \in [Intent -> IntentState]
    BY <2>2 DEF IntentState
  <2>4. meta' \in [Intent -> [job : Job \cup {None}, payee : Freelancer \cup {None}]]
    BY <2>1, <2>2
  <2> QED
    BY <2>2, <2>3, <2>4 DEF StoreTypeOK, ghosts
<1>3. ASSUME NEW r \in Request, Unlock(r)
      PROVE  DataTypeOK'
  BY <1>3 DEF Unlock, IntentState, StoreTypeOK, rows, ghosts
<1>4. ASSUME NEW r \in Request, ReleaseClaim(r)
      PROVE  DataTypeOK'
  <2>1. task[r].row \in Intent
    BY <1>4 DEF ReleaseClaim, At, TaskTypeOK, SlotOK, RowSteps
  <2> QED
    BY <1>4, <2>1 DEF ReleaseClaim, TxStatus, StoreTypeOK
<1>5. ASSUME NEW r \in Request, ReleaseCapture(r)
      PROVE  DataTypeOK'
  <2>1. task[r].row \in Intent
    BY <1>5 DEF ReleaseCapture, At, TaskTypeOK, SlotOK, RowSteps, ClaimWindow
  <2> QED
    BY <1>5, <2>1 DEF ReleaseCapture, IntentState, StoreTypeOK, rows
<1>6. ASSUME NEW r \in Request, ReleaseReject(r) \/ ReleaseRollback(r)
      PROVE  DataTypeOK'
  <2>1. task[r].row \in Intent
    BY <1>6 DEF ReleaseReject, ReleaseRollback, At, TaskTypeOK, SlotOK, RowSteps,
                ClaimWindow
  <2> QED
    BY <1>6, <2>1 DEF ReleaseReject, ReleaseRollback, Unclaim, TxStatus, StoreTypeOK
<1>7. ASSUME NEW r \in Request, ReleaseComplete(r) \/ DisputeJob(r)
      PROVE  DataTypeOK'
  <2>1. UNCHANGED <<bid, tx, intent, meta, disputes, lost, redone>>
    BY <1>7 DEF ReleaseComplete, DisputeJob, rows, ghosts
  <2>2. job' \in [Job -> [status : JobStatus, hired : Freelancer \cup {None}]]
    BY <1>7 DEF ReleaseComplete, DisputeJob, JobStatus, StoreTypeOK
  <2> QED
    BY <2>1, <2>2 DEF StoreTypeOK
<1>8. ASSUME NEW r \in Request, DisputeCreate(r)
      PROVE  DataTypeOK'
  <2>1. task[r].job \in Job
    BY <1>8 DEF DisputeCreate, At, TaskTypeOK, SlotOK
  <2>2. disputes' \in [Job -> Nat]
    BY <1>8, <2>1 DEF DisputeCreate
  <2> QED
    BY <1>8, <2>2 DEF DisputeCreate, StoreTypeOK, ghosts
<1>9. ASSUME NEW r \in Request, DisputeFreeze(r)
      PROVE  DataTypeOK'
  <2>1. task[r].job \in Job
    BY <1>9 DEF DisputeFreeze, At, TaskTypeOK, SlotOK
  <2> QED
    BY <1>9, <2>1 DEF DisputeFreeze, TxStatus, StoreTypeOK, ghosts
<1>10. ASSUME NEW r \in Request, Crash(r)
       PROVE  DataTypeOK'
  BY <1>10 DEF Crash, StoreTypeOK, rows
<1>11. ASSUME NEW i \in Intent, Confirm(i) \/ Lapse(i) \/ Webhook(i)
       PROVE  DataTypeOK'
  BY <1>11 DEF Confirm, Lapse, Webhook, IntentState, TxStatus, StoreTypeOK, rows, ghosts
<1> QED
  BY <1>1, <1>2, <1>3, <1>4, <1>5, <1>6, <1>7, <1>8, <1>9, <1>10, <1>11
     DEF Next, Proceed, FundRead, ReleaseLock, DisputeRead, FundLock, FundFind,
         ReleaseFind, DisputeCheck, Throw, ExpireLock, vars, escrowVars, rows, ghosts

(* Every step acts on the lock by an action of RedisLock, or not at all.   *)
LEMMA LockSteps ==
  TypeOK /\ [Next]_vars => [Lock!LockNext]_(Lock!lockVars)
<1> SUFFICES ASSUME TypeOK, [Next]_vars
             PROVE  Lock!LockNext \/ UNCHANGED lockVars
  BY DEF Lock!lockVars, lockVars
<1> USE DEF lockVars
<1>1. ASSUME NEW r \in Request, NEW j \in Job, ReleaseLock(r, j)
      PROVE  Lock!LockNext
  BY <1>1 DEF ReleaseLock, Lock!LockNext
<1>2. ASSUME NEW r \in Request, FundLock(r) \/ Unlock(r)
      PROVE  Lock!LockNext \/ UNCHANGED lockVars
  <2>1. task[r].job \in Job
    BY <1>2 DEF FundLock, Unlock, TypeOK, TaskTypeOK, SlotOK, At
  <2> QED
    BY <1>2, <2>1 DEF FundLock, Unlock, Lock!LockNext
<1>3. ASSUME NEW r \in Request, Crash(r)
      PROVE  Lock!LockNext \/ UNCHANGED lockVars
  <2>1. holds[r] \in Job \/ holds[r] = None
    BY DEF TypeOK, TaskTypeOK
  <2> QED
    BY <1>3, <2>1 DEF Crash, Lock!LockNext
<1>4. ASSUME NEW j \in Job, ExpireLock(j)
      PROVE  Lock!LockNext
  BY <1>4 DEF ExpireLock, Lock!LockNext
<1> QED
  BY <1>1, <1>2, <1>3, <1>4
     DEF Next, Proceed, FundRead, DisputeRead, FundFind, FundCreate, ReleaseFind,
         ReleaseClaim, ReleaseCapture, ReleaseReject, ReleaseRollback, ReleaseComplete,
         DisputeCheck, DisputeCreate, DisputeJob, DisputeFreeze, Throw, Confirm, Lapse,
         Webhook, vars, escrowVars

LEMMA LockTyping == Lock!LockTypeOK /\ [Lock!LockNext]_(Lock!lockVars) => Lock!LockTypeOK'
  BY DEF Lock!LockTypeOK, Lock!LockNext, Lock!lockVars, Lock!Acquire, Lock!AcquireUnseen,
         Lock!SetNX, Lock!Leave, Lock!Abandon, Lock!CompareAndDelete, Lock!Exit, Lock!Expire

(* Every step leaves each slot in a state its program counter allows.      *)
LEMMA TaskTyping == TypeOK /\ [Next]_vars => TaskTypeOK'
<1> SUFFICES ASSUME TypeOK, [Next]_vars
             PROVE  TaskTypeOK'
  OBVIOUS
<1> USE DEF TypeOK
<1> USE DEF Step, Locked, RowSteps, ClaimWindow, Disputing, At
<1>0. CASE UNCHANGED <<task, holds>>
  BY <1>0 DEF TaskTypeOK
<1>1. ASSUME NEW r \in Request, NEW j \in Job, FundRead(r, j) \/ DisputeRead(r, j)
      PROVE  TaskTypeOK'
  <2>1. PICK t \in Task : /\ task' = [task EXCEPT ![r] = t]
                          /\ t.at \in {"fund_lock", "dis_check"} /\ t.job = j
    <3>1. ASSUME NEW f \in Freelancer
          PROVE  [Idle EXCEPT !.at = "fund_lock", !.job = j, !.payee = f] \in Task
      BY DEF Idle, Task
    <3>2. job[j].status \in JobStatus
      BY DEF DataTypeOK, StoreTypeOK
    <3>3. [Idle EXCEPT !.at = "dis_check", !.job = j, !.was = job[j].status] \in Task
      BY <3>2 DEF Idle, Task
    <3> QED
      BY <1>1, <3>1, <3>3 DEF FundRead, DisputeRead, Idle
  <2>2. holds' = holds /\ holds[r] = None
    BY <1>1 DEF FundRead, DisputeRead, TaskTypeOK, SlotOK, lockVars
  <2> QED
    BY <2>1, <2>2, SlotMoves DEF TaskTypeOK, SlotOK
<1>2. ASSUME NEW r \in Request, NEW j \in Job, ReleaseLock(r, j)
      PROVE  TaskTypeOK'
  <2>1. CASE Lock!Acquire(r, j) /\ task' = [task EXCEPT ![r] =
                                        [Idle EXCEPT !.at = "rel_find", !.job = j]]
    <3> DEFINE t == [Idle EXCEPT !.at = "rel_find", !.job = j]
    <3>1. t \in Task /\ SlotOK(t, j)
      BY DEF Idle, Task, SlotOK
    <3>2. holds' = [holds EXCEPT ![r] = j]
      BY <2>1 DEF Lock!Acquire
    <3> HIDE DEF t
    <3> QED
      BY <2>1, <3>1, <3>2, SlotMoves DEF TaskTypeOK, t
  <2>2. CASE Lock!AcquireUnseen(r, j) /\ UNCHANGED task
    BY <2>2, <1>0 DEF Lock!AcquireUnseen
  <2> QED
    BY <1>2, <2>1, <2>2 DEF ReleaseLock
<1>3. ASSUME NEW r \in Request, FundLock(r)
      PROVE  TaskTypeOK'
  <2>1. task[r] \in Task /\ task[r].job \in Job /\ holds[r] = None
    BY <1>3 DEF FundLock, TaskTypeOK, SlotOK
  <2>2. CASE Lock!Acquire(r, task[r].job) /\ Goto(r, "fund_find")
    <3> DEFINE t == [task[r] EXCEPT !.at = "fund_find"]
    <3>1. t \in Task /\ SlotOK(t, task[r].job)
      BY <2>1 DEF Task, SlotOK
    <3>2. holds' = [holds EXCEPT ![r] = task[r].job] /\ task' = [task EXCEPT ![r] = t]
      BY <2>2 DEF Lock!Acquire, Goto
    <3> HIDE DEF t
    <3> QED
      BY <2>1, <3>1, <3>2, SlotMoves DEF TaskTypeOK
  <2>3. CASE Finish(r) /\ UNCHANGED holds
    <3>1. holds' = [holds EXCEPT ![r] = None]
      BY <2>1, <2>3 DEF TaskTypeOK
    <3> QED
      BY <2>3, <3>1, SlotEnds
  <2> QED
    BY <1>3, <2>2, <2>3 DEF FundLock, Lock!AcquireUnseen, lockVars
<1>4. ASSUME NEW r \in Request, NEW s \in {"fund_create", "unlock"},
             At(r, "fund_find") \/ At(r, "fund_create"), Goto(r, s), UNCHANGED holds
      PROVE  TaskTypeOK'
  BY <1>4, SlotGoes
<1>5. ASSUME NEW r \in Request, task[r].at \in {"fund_create", "rel_find"},
             NEW i \in Intent \cup {None}, NEW s \in {"unlock", "rel_claim"},
             task' = [task EXCEPT ![r] = [@ EXCEPT !.at = s, !.row = i]],
             s = "rel_claim" => i \in Intent, UNCHANGED holds
      PROVE  TaskTypeOK'
  <2> DEFINE t == [task[r] EXCEPT !.at = s, !.row = i]
  <2>1. task[r] \in Task /\ task[r].job \in Job /\ holds[r] = task[r].job
    BY <1>5 DEF TaskTypeOK, SlotOK
  <2>2. t \in Task /\ SlotOK(t, holds[r])
    BY <1>5, <2>1 DEF Task, SlotOK
  <2>3. task' = [task EXCEPT ![r] = t]
    BY <1>5
  <2> HIDE DEF t
  <2> QED
    BY <1>5, <2>2, <2>3, SlotMoves DEF TaskTypeOK
<1>6. ASSUME NEW r \in Request, FundFind(r) \/ FundCreate(r)
      PROVE  TaskTypeOK'
  BY <1>4, <1>5, <1>6 DEF FundFind, FundCreate, lockVars
<1>7. ASSUME NEW r \in Request, Unlock(r)
      PROVE  TaskTypeOK'
  BY <1>7, SlotEnds DEF Unlock, Lock!Leave, Lock!Abandon, Lock!Exit
<1>8. ASSUME NEW r \in Request, NEW s \in Locked \ RowSteps, Goto(r, s),
             task[r].at \in Locked, UNCHANGED holds
      PROVE  TaskTypeOK'
  BY <1>8, SlotGoes
<1>9. ASSUME NEW r \in Request, NEW s \in RowSteps, Goto(r, s),
             task[r].at \in RowSteps, UNCHANGED holds
      PROVE  TaskTypeOK'
  BY <1>9, SlotGoes
<1>10. ASSUME NEW r \in Request, ReleaseFind(r)
       PROVE  TaskTypeOK'
  BY <1>5, <1>8, <1>10 DEF ReleaseFind, RowsOf, lockVars
<1>11. ASSUME NEW r \in Request,
              \/ ReleaseClaim(r) \/ ReleaseCapture(r) \/ ReleaseReject(r)
              \/ ReleaseRollback(r) \/ ReleaseComplete(r)
       PROVE  TaskTypeOK'
  BY <1>8, <1>9, <1>11
     DEF ReleaseClaim, ReleaseCapture, ReleaseReject, ReleaseRollback, ReleaseComplete,
         lockVars
<1>12. ASSUME NEW r \in Request, NEW s \in Disputing, Goto(r, s),
              task[r].at \in Disputing, UNCHANGED holds
       PROVE  TaskTypeOK'
  BY <1>12, SlotGoes
<1>13. ASSUME NEW r \in Request, task[r].at \in Disputing \cup {"fund_lock"}, Finish(r),
              UNCHANGED holds
       PROVE  TaskTypeOK'
  <2>1. holds[r] = None
    BY <1>13 DEF TaskTypeOK, SlotOK
  <2>2. holds' = [holds EXCEPT ![r] = None]
    BY <1>13, <2>1 DEF TaskTypeOK
  <2> QED
    BY <1>13, <2>2, SlotEnds
<1>14. ASSUME NEW r \in Request,
              DisputeCheck(r) \/ DisputeCreate(r) \/ DisputeJob(r) \/ DisputeFreeze(r)
       PROVE  TaskTypeOK'
  BY <1>12, <1>13, <1>14
     DEF DisputeCheck, DisputeCreate, DisputeJob, DisputeFreeze, lockVars
<1>15. ASSUME NEW r \in Request, Throw(r)
       PROVE  TaskTypeOK'
  BY <1>8, <1>13, <1>15 DEF Throw, lockVars
<1>16. ASSUME NEW r \in Request, Crash(r)
       PROVE  TaskTypeOK'
  <2>1. holds' = [holds EXCEPT ![r] = None]
    BY <1>16 DEF Crash, Lock!Abandon, Lock!Exit, lockVars, TaskTypeOK
  <2> QED
    BY <1>16, <2>1, SlotEnds DEF Crash
<1>17. ASSUME NEW i \in Intent, Confirm(i) \/ Lapse(i) \/ Webhook(i)
       PROVE  TaskTypeOK'
  BY <1>17, <1>0 DEF Confirm, Lapse, Webhook, lockVars
<1>18. ASSUME NEW j \in Job, ExpireLock(j)
       PROVE  TaskTypeOK'
  BY <1>18, <1>0 DEF ExpireLock, Lock!Expire
<1>19. CASE UNCHANGED vars
  BY <1>19, <1>0 DEF vars, escrowVars, lockVars
<1> QED
  BY <1>1, <1>2, <1>3, <1>6, <1>7, <1>10, <1>11, <1>14, <1>15, <1>16, <1>17, <1>18, <1>19
     DEF Next, Proceed

LEMMA TypingStep == TypeOK /\ [Next]_vars => TypeOK'
  BY DataTyping, LockSteps, LockTyping, TaskTyping DEF TypeOK

(* Every reachable state is well typed, and a slot holds the lock exactly  *)
(* while it is inside withLock.                                            *)
THEOREM EscrowTyping == Spec => []TypeOK
  BY Typing0, TypingStep, PTL DEF Spec
-----------------------------------------------------------------------------
(* The claim.  ClaimExclusive and LedgerMatchesStripe are inductive         *)
(* together: that a captured row is RELEASED needs that nobody else claims  *)
(* it, and that a claim is exclusive needs that its row stays RELEASED.     *)

ClaimInv == TypeOK /\ ClaimExclusive /\ LedgerMatchesStripe

(* The parts of the state that the two invariants look at.                  *)
LEMMA Unclaimed ==
  ASSUME ClaimExclusive, LedgerMatchesStripe, UNCHANGED <<tx, lost, redone>>,
         \A r \in Request, i \in Intent : Claims(r, i)' <=> Claims(r, i),
         \A i \in Intent : intent'[i] = "captured" <=> intent[i] = "captured"
  PROVE  ClaimExclusive' /\ LedgerMatchesStripe'
  BY DEF ClaimExclusive, LedgerMatchesStripe

(* A slot that moves between steps outside the claim window claims nothing. *)
LEMMA ClaimsOfOthers ==
  ASSUME TypeOK, NEW r \in Request, NEW t, task' = [task EXCEPT ![r] = t]
  PROVE  /\ \A s \in Request \ {r}, i \in Intent : Claims(s, i)' <=> Claims(s, i)
         /\ \A i \in Intent : Claims(r, i)' <=> t.at \in ClaimWindow /\ t.row = i
  BY DEF TypeOK, TaskTypeOK, Claims

LEMMA GotoClaims ==
  ASSUME TypeOK, NEW r \in Request, NEW step, Goto(r, step)
  PROVE  /\ \A s \in Request \ {r}, i \in Intent : Claims(s, i)' <=> Claims(s, i)
         /\ \A i \in Intent : Claims(r, i)' <=> step \in ClaimWindow /\ task[r].row = i
<1> DEFINE t == [task[r] EXCEPT !.at = step]
<1>1. task[r] \in Task
  BY DEF TypeOK, TaskTypeOK
<1>2. t.at = step /\ t.row = task[r].row
  BY <1>1 DEF Task
<1>3. task' = [task EXCEPT ![r] = t]
  BY DEF Goto
<1> HIDE DEF t
<1> QED
  BY <1>2, <1>3, ClaimsOfOthers

LEMMA FinishClaims ==
  ASSUME TypeOK, NEW r \in Request, Finish(r)
  PROVE  \A s \in Request, i \in Intent : Claims(s, i)' <=> s # r /\ Claims(s, i)
<1>1. task' = [task EXCEPT ![r] = Idle] /\ Idle.at \notin ClaimWindow
  BY DEF Finish, Idle, ClaimWindow
<1>2. \A s \in Request \ {r}, i \in Intent : Claims(s, i)' <=> Claims(s, i)
  BY <1>1, ClaimsOfOthers
<1>3. \A i \in Intent : ~Claims(r, i)'
  BY <1>1, ClaimsOfOthers
<1> QED
  BY <1>2, <1>3

(* Steps that neither claim nor settle a row.                               *)
LEMMA OtherSteps ==
  ASSUME ClaimInv, NEW r \in Request, task[r].at \notin ClaimWindow,
         UNCHANGED <<tx, lost, redone>>,
         \A i \in Intent : intent'[i] = "captured" <=> intent[i] = "captured",
         \/ Finish(r)
         \/ \E step \in Step \ ClaimWindow : Goto(r, step)
         \/ \E t \in Task : t.at \notin ClaimWindow /\ task' = [task EXCEPT ![r] = t]
  PROVE  ClaimExclusive' /\ LedgerMatchesStripe'
<1>1. \A i \in Intent : ~Claims(r, i)
  BY DEF Claims
<1>2. \A s \in Request, i \in Intent : Claims(s, i)' <=> Claims(s, i)
  <2>1. CASE Finish(r)
    BY <1>1, <2>1, FinishClaims DEF ClaimInv
  <2>2. ASSUME NEW step \in Step \ ClaimWindow, Goto(r, step)
        PROVE  \A s \in Request, i \in Intent : Claims(s, i)' <=> Claims(s, i)
    BY <1>1, <2>2, GotoClaims DEF ClaimInv
  <2>3. ASSUME NEW t \in Task, t.at \notin ClaimWindow, task' = [task EXCEPT ![r] = t]
        PROVE  \A s \in Request, i \in Intent : Claims(s, i)' <=> Claims(s, i)
    BY <1>1, <2>3, ClaimsOfOthers DEF ClaimInv
  <2> QED
    BY <2>1, <2>2, <2>3
<1> QED
  BY <1>2, Unclaimed DEF ClaimInv
LEMMA RowKnown ==
  ASSUME TypeOK, NEW r \in Request, task[r].at \in RowSteps
  PROVE  task[r].row \in Intent
  BY DEF TypeOK, TaskTypeOK, SlotOK

(* The four steps of a release that touch a claim.                          *)
LEMMA ClaimStep ==
  ASSUME ClaimInv, NEW r \in Request, ReleaseClaim(r)
  PROVE  ClaimExclusive' /\ LedgerMatchesStripe'
<1> DEFINE i == task[r].row
<1>1. i \in Intent /\ At(r, "rel_claim") /\ UNCHANGED <<intent, redone>>
  BY RowKnown DEF ReleaseClaim, At, RowSteps, ClaimInv
<1>2. \A k \in Intent : ~Claims(r, k)
  BY <1>1 DEF Claims, At, ClaimWindow
<1>3. CASE tx[i] # "HELD"
  <2>1. Goto(r, "unlock") /\ UNCHANGED <<tx, lost>>
    BY <1>3 DEF ReleaseClaim
  <2>2. "unlock" \in Step \ ClaimWindow /\ task[r].at \notin ClaimWindow
    BY <1>1 DEF Step, Locked, ClaimWindow, At
  <2> QED
    BY <1>1, <2>1, <2>2, OtherSteps
<1>4. CASE tx[i] = "HELD"
  <2>1. tx' = [tx EXCEPT ![i] = "RELEASED"]
    BY <1>4 DEF ReleaseClaim
  <2>2. \A k \in Intent : tx'[k] = IF k = i THEN "RELEASED" ELSE tx[k]
    BY <1>1, <2>1 DEF ClaimInv, TypeOK, DataTypeOK
  <2>3. i \in redone \/ \A s \in Request : ~Claims(s, i)
    BY <1>1, <1>4 DEF ClaimInv, ClaimExclusive
  <2>4. CASE Goto(r, "rel_capture") /\ UNCHANGED lost
    <3>1. /\ \A s \in Request \ {r}, k \in Intent : Claims(s, k)' <=> Claims(s, k)
          /\ \A k \in Intent : Claims(r, k)' <=> i = k
      BY <2>4, GotoClaims DEF ClaimInv, ClaimWindow
    <3>2. ClaimExclusive'
      BY <1>1, <2>2, <2>3, <3>1 DEF ClaimInv, ClaimExclusive
    <3>3. LedgerMatchesStripe'
      BY <1>1, <1>2, <1>4, <2>2, <2>4, <3>1 DEF ClaimInv, LedgerMatchesStripe
    <3> QED
      BY <3>2, <3>3
  <2>5. CASE Goto(r, "unlock") /\ lost' = lost \cup {i}
    <3>1. \A s \in Request, k \in Intent : Claims(s, k)' <=> Claims(s, k)
      BY <1>2, <2>5, GotoClaims DEF ClaimInv, ClaimWindow
    <3>2. ClaimExclusive'
      BY <1>1, <2>2, <2>3, <3>1 DEF ClaimInv, ClaimExclusive
    <3>3. LedgerMatchesStripe'
      BY <1>1, <2>2, <2>5, <3>1 DEF ClaimInv, LedgerMatchesStripe
    <3> QED
      BY <3>2, <3>3
  <2> QED
    BY <1>4, <2>4, <2>5 DEF ReleaseClaim
<1> QED
  BY <1>3, <1>4

LEMMA CaptureStep ==
  ASSUME ClaimInv, NEW r \in Request, ReleaseCapture(r)
  PROVE  ClaimExclusive' /\ LedgerMatchesStripe'
<1> DEFINE i == task[r].row
<1>1. i \in Intent /\ At(r, "rel_capture") /\ UNCHANGED <<tx, redone>>
  BY RowKnown DEF ReleaseCapture, At, RowSteps, ClaimWindow, ClaimInv, rows
<1>2. Claims(r, i) /\ \A k \in Intent : Claims(r, k) <=> k = i
  BY <1>1 DEF Claims, At, ClaimWindow
<1>3. i \in redone \/ (tx[i] = "RELEASED" /\ \A s \in Request : Claims(s, i) => s = r)
  BY <1>1, <1>2 DEF ClaimInv, ClaimExclusive
<1>4. CASE /\ intent' = [intent EXCEPT ![i] = "captured"]
           /\ Goto(r, "rel_complete") /\ UNCHANGED lost
  <2>1. \A k \in Intent : intent'[k] = IF k = i THEN "captured" ELSE intent[k]
    BY <1>1, <1>4 DEF ClaimInv, TypeOK, DataTypeOK
  <2>2. /\ \A s \in Request \ {r}, k \in Intent : Claims(s, k)' <=> Claims(s, k)
        /\ \A k \in Intent : ~Claims(r, k)'
    BY <1>4, GotoClaims DEF ClaimInv, ClaimWindow
  <2>3. ClaimExclusive'
    BY <1>1, <2>2 DEF ClaimInv, ClaimExclusive
  <2>4. LedgerMatchesStripe'
    BY <1>1, <1>2, <1>3, <1>4, <2>1, <2>2 DEF ClaimInv, LedgerMatchesStripe
  <2> QED
    BY <2>3, <2>4
<1>5. CASE /\ intent' = [intent EXCEPT ![i] = "captured"] \/ intent' = intent
           /\ Goto(r, "rel_rollback") \/ Goto(r, "rel_reject")
           /\ lost' = lost \cup {i} \/ (lost' = lost /\ intent' = intent)
  <2>1. \A k \in Intent \ {i} : intent'[k] = intent[k]
    BY <1>1, <1>5 DEF ClaimInv, TypeOK, DataTypeOK
  <2>2. \A s \in Request, k \in Intent : Claims(s, k)' <=> Claims(s, k)
    BY <1>2, <1>5, GotoClaims DEF ClaimInv, ClaimWindow
  <2>3. ClaimExclusive'
    BY <1>1, <2>2 DEF ClaimInv, ClaimExclusive
  <2>4. LedgerMatchesStripe'
    BY <1>1, <1>5, <2>1, <2>2 DEF ClaimInv, LedgerMatchesStripe
  <2> QED
    BY <2>3, <2>4
<1> QED
  BY <1>4, <1>5 DEF ReleaseCapture

(* A rollback that is done, by whichever of the two calls.                  *)
LEMMA Rollback ==
  ASSUME ClaimInv, NEW r \in Request, NEW i \in Intent, Claims(r, i), Unclaim(i),
         NEW step \in Step \ ClaimWindow, Goto(r, step), UNCHANGED <<intent, lost, redone>>
  PROVE  ClaimExclusive' /\ LedgerMatchesStripe'
<1>1. \A k \in Intent : Claims(r, k) <=> k = i
  BY DEF Claims
<1>2. i \in redone \/ (tx[i] = "RELEASED" /\ \A s \in Request : Claims(s, i) => s = r)
  BY DEF ClaimInv, ClaimExclusive
<1>3. /\ \A s \in Request \ {r}, k \in Intent : Claims(s, k)' <=> Claims(s, k)
      /\ \A k \in Intent : ~Claims(r, k)'
  BY GotoClaims DEF ClaimInv
<1>4. /\ \A k \in Intent \ {i} : tx'[k] = tx[k]
      /\ i \in redone \/ tx'[i] = "HELD"
  BY <1>2 DEF Unclaim, ClaimInv, TypeOK, DataTypeOK
<1>5. ClaimExclusive'
  BY <1>2, <1>3, <1>4 DEF ClaimInv, ClaimExclusive
<1>6. LedgerMatchesStripe'
  BY <1>1, <1>2, <1>3, <1>4 DEF ClaimInv, LedgerMatchesStripe
<1> QED
  BY <1>5, <1>6

LEMMA RejectStep ==
  ASSUME ClaimInv, NEW r \in Request, ReleaseReject(r)
  PROVE  ClaimExclusive' /\ LedgerMatchesStripe'
<1> DEFINE i == task[r].row
<1>1. i \in Intent /\ At(r, "rel_reject") /\ UNCHANGED <<intent, lost>>
  BY RowKnown DEF ReleaseReject, At, RowSteps, ClaimWindow, ClaimInv
<1>2. Claims(r, i) /\ \A k \in Intent : Claims(r, k) <=> k = i
  BY <1>1 DEF Claims, At, ClaimWindow
<1>3. CASE Unclaim(i) /\ Goto(r, "unlock") /\ UNCHANGED redone
  <2>1. "unlock" \in Step \ ClaimWindow
    BY DEF Step, Locked, ClaimWindow
  <2> HIDE DEF i
  <2> QED
    BY <1>1, <1>2, <1>3, <2>1, Rollback
<1>4. CASE /\ Goto(r, "rel_rollback")
           /\ \/ Unclaim(i) /\ redone' = redone \cup {i}
              \/ UNCHANGED <<tx, redone>>
  <2>1. \A s \in Request, k \in Intent : Claims(s, k)' <=> Claims(s, k)
    BY <1>2, <1>4, GotoClaims DEF ClaimInv, ClaimWindow
  <2>2. \A k \in Intent \ redone' : tx'[k] = tx[k] /\ k \notin redone
    BY <1>1, <1>4 DEF Unclaim, ClaimInv, TypeOK, DataTypeOK
  <2>3. ClaimExclusive'
    BY <2>1, <2>2 DEF ClaimInv, ClaimExclusive
  <2>4. LedgerMatchesStripe'
    BY <1>1, <2>1, <2>2 DEF ClaimInv, LedgerMatchesStripe
  <2> QED
    BY <2>3, <2>4
<1> QED
  BY <1>3, <1>4 DEF ReleaseReject

LEMMA RollbackStep ==
  ASSUME ClaimInv, NEW r \in Request, ReleaseRollback(r)
  PROVE  ClaimExclusive' /\ LedgerMatchesStripe'
<1> DEFINE i == task[r].row
<1>1. /\ i \in Intent /\ At(r, "rel_rollback") /\ Goto(r, "unlock")
      /\ UNCHANGED <<intent, redone>>
  BY RowKnown DEF ReleaseRollback, At, RowSteps, ClaimWindow, ClaimInv
<1>2. Claims(r, i) /\ \A k \in Intent : Claims(r, k) <=> k = i
  BY <1>1 DEF Claims, At, ClaimWindow
<1>3. "unlock" \in Step \ ClaimWindow
  BY DEF Step, Locked, ClaimWindow
<1>4. CASE Unclaim(i) /\ UNCHANGED lost
  <2> HIDE DEF i
  <2> QED
    BY <1>1, <1>2, <1>3, <1>4, Rollback
<1>5. CASE lost' = lost \cup {i} /\ tx' = tx
  <2>1. /\ \A s \in Request \ {r}, k \in Intent : Claims(s, k)' <=> Claims(s, k)
        /\ \A k \in Intent : ~Claims(r, k)'
    BY <1>1, <1>3, GotoClaims DEF ClaimInv
  <2>2. ClaimExclusive'
    BY <1>1, <1>5, <2>1 DEF ClaimInv, ClaimExclusive
  <2>3. LedgerMatchesStripe'
    BY <1>1, <1>2, <1>5, <2>1 DEF ClaimInv, LedgerMatchesStripe
  <2> QED
    BY <2>2, <2>3
<1> QED
  BY <1>4, <1>5 DEF ReleaseRollback

LEMMA CrashStep ==
  ASSUME ClaimInv, NEW r \in Request, Crash(r)
  PROVE  ClaimExclusive' /\ LedgerMatchesStripe'
<1>1. /\ UNCHANGED <<tx, intent, redone>>
      /\ lost' = lost \cup {i \in Intent : Claims(r, i)}
      /\ \A s \in Request, k \in Intent : Claims(s, k)' <=> s # r /\ Claims(s, k)
  BY FinishClaims DEF Crash, rows, ClaimInv
<1>2. ClaimExclusive'
  BY <1>1 DEF ClaimInv, ClaimExclusive
<1>3. LedgerMatchesStripe'
  BY <1>1 DEF ClaimInv, LedgerMatchesStripe
<1> QED
  BY <1>2, <1>3

(* Stated for escrow before its first funding, wherever hiring stands, so   *)
(* that a module that composes the two can cite it.                         *)
LEMMA ClaimOpens == TypeOK /\ EscrowInit => ClaimInv
<1> SUFFICES ASSUME TypeOK, EscrowInit PROVE ClaimExclusive /\ LedgerMatchesStripe
  BY DEF ClaimInv
<1>1. \A r \in Request, i \in Intent : ~Claims(r, i)
  BY DEF EscrowInit, Claims, Idle, ClaimWindow
<1> QED
  BY <1>1 DEF EscrowInit, ClaimExclusive, LedgerMatchesStripe

LEMMA ClaimInitial == Init => ClaimInv
  BY Typing0, ClaimOpens DEF Init

LEMMA ClaimInductive == ClaimInv /\ [Next]_vars => ClaimInv'
<1> SUFFICES ASSUME ClaimInv, [Next]_vars
             PROVE  ClaimExclusive' /\ LedgerMatchesStripe'
  BY TypingStep DEF ClaimInv
<1> USE DEF rows, ghosts
<1>1. ASSUME NEW r \in Request, NEW j \in Job,
             FundRead(r, j) \/ DisputeRead(r, j) \/ ReleaseLock(r, j)
      PROVE  ClaimExclusive' /\ LedgerMatchesStripe'
  <2>1. task[r].at \notin ClaimWindow /\ UNCHANGED <<tx, lost, redone, intent>>
    BY <1>1 DEF FundRead, DisputeRead, ReleaseLock, At, ClaimWindow
  <2>2. CASE UNCHANGED task
    BY <2>1, <2>2, Unclaimed DEF ClaimInv, Claims
  <2>3. CASE \E t \in Task : t.at \notin ClaimWindow /\ task' = [task EXCEPT ![r] = t]
    BY <2>1, <2>3, OtherSteps
  <2>4. ASSUME NEW f \in Freelancer
        PROVE  LET t == [Idle EXCEPT !.at = "fund_lock", !.job = j, !.payee = f]
               IN  t \in Task /\ t.at \notin ClaimWindow
    BY DEF Idle, Task, Step, ClaimWindow
  <2>5. LET t == [Idle EXCEPT !.at = "rel_find", !.job = j]
        IN  t \in Task /\ t.at \notin ClaimWindow
    BY DEF Idle, Task, Step, Locked, ClaimWindow
  <2>6. job[j].status \in JobStatus
    BY DEF ClaimInv, TypeOK, DataTypeOK, StoreTypeOK
  <2>7. LET t == [Idle EXCEPT !.at = "dis_check", !.job = j, !.was = job[j].status]
        IN  t \in Task /\ t.at \notin ClaimWindow
    BY <2>6 DEF Idle, Task, Step, Disputing, ClaimWindow
  <2> QED
    BY <1>1, <2>2, <2>3, <2>4, <2>5, <2>7 DEF FundRead, DisputeRead, ReleaseLock
<1>2. ASSUME NEW r \in Request, FundCreate(r)
      PROVE  ClaimExclusive' /\ LedgerMatchesStripe'
  <2>1. PICK k \in Intent :
             /\ intent[k] = "none" /\ intent' = [intent EXCEPT ![k] = "created"]
             /\ \E known \in {k, None} :
                  task' = [task EXCEPT ![r] = [@ EXCEPT !.at = "unlock", !.row = known]]
    BY <1>2 DEF FundCreate
  <2>2. \A i \in Intent : intent'[i] = "captured" <=> intent[i] = "captured"
    BY <2>1 DEF ClaimInv, TypeOK, DataTypeOK
  <2>3. task[r] \in Task
    BY DEF ClaimInv, TypeOK, TaskTypeOK
  <2>4. \E t \in Task : t.at \notin ClaimWindow /\ task' = [task EXCEPT ![r] = t]
    <3>1. PICK known \in {k, None} :
               task' = [task EXCEPT ![r] = [@ EXCEPT !.at = "unlock", !.row = known]]
      BY <2>1
    <3> DEFINE t == [task[r] EXCEPT !.at = "unlock", !.row = known]
    <3>2. t \in Task /\ t.at \notin ClaimWindow
      BY <2>3 DEF Task, Step, Locked, ClaimWindow
    <3> QED
      BY <3>1, <3>2
  <2>5. task[r].at \notin ClaimWindow /\ UNCHANGED <<tx, lost, redone>>
    BY <1>2 DEF FundCreate, At, ClaimWindow
  <2> QED
    BY <2>2, <2>4, <2>5, OtherSteps
<1>3. ASSUME NEW r \in Request, ReleaseFind(r)
      PROVE  ClaimExclusive' /\ LedgerMatchesStripe'
  <2>1. task[r].at \notin ClaimWindow /\ UNCHANGED <<tx, lost, redone, intent>>
    BY <1>3 DEF ReleaseFind, At, ClaimWindow
  <2>2. task[r] \in Task
    BY DEF ClaimInv, TypeOK, TaskTypeOK
  <2>3. ASSUME NEW i \in Intent,
               task' = [task EXCEPT ![r] = [@ EXCEPT !.at = "rel_claim", !.row = i]]
        PROVE  ClaimExclusive' /\ LedgerMatchesStripe'
    <3> DEFINE t == [task[r] EXCEPT !.at = "rel_claim", !.row = i]
    <3>1. t \in Task /\ t.at \notin ClaimWindow
      BY <2>2 DEF Task, Step, Locked, ClaimWindow
    <3> QED
      BY <2>1, <2>3, <3>1, OtherSteps
  <2>4. "unlock" \in Step \ ClaimWindow
    BY DEF Step, Locked, ClaimWindow
  <2> QED
    BY <1>3, <2>1, <2>3, <2>4, OtherSteps DEF ReleaseFind, RowsOf
<1>4. ASSUME NEW r \in Request, Unlock(r)
      PROVE  ClaimExclusive' /\ LedgerMatchesStripe'
  <2>1. \A i \in Intent : intent'[i] = "captured" <=> intent[i] = "captured"
    BY <1>4 DEF Unlock, ClaimInv, TypeOK, DataTypeOK
  <2> QED
    BY <1>4, <2>1, OtherSteps DEF Unlock, At, ClaimWindow
<1>5. ASSUME NEW r \in Request,
             \/ FundLock(r) \/ FundFind(r) \/ ReleaseComplete(r) \/ Throw(r)
             \/ DisputeCheck(r) \/ DisputeCreate(r) \/ DisputeJob(r)
      PROVE  ClaimExclusive' /\ LedgerMatchesStripe'
  <2>1. task[r].at \notin ClaimWindow /\ UNCHANGED <<tx, lost, redone, intent>>
    BY <1>5 DEF FundLock, FundFind, ReleaseComplete, Throw, DisputeCheck, DisputeCreate,
                DisputeJob, At, ClaimWindow, Locked, Disputing
  <2>2. Finish(r) \/ \E step \in Step \ ClaimWindow : Goto(r, step)
    BY <1>5 DEF FundLock, FundFind, ReleaseComplete, Throw, DisputeCheck, DisputeCreate,
                DisputeJob, ClaimWindow, Step, Locked, Disputing
  <2> QED
    BY <2>1, <2>2, OtherSteps
<1>6. ASSUME NEW r \in Request, DisputeFreeze(r)
      PROVE  ClaimExclusive' /\ LedgerMatchesStripe'
  <2>1. task[r].at \notin ClaimWindow /\ UNCHANGED <<lost, redone, intent>>
    BY <1>6 DEF DisputeFreeze, At, ClaimWindow
  <2>2. \A s \in Request, i \in Intent : Claims(s, i)' <=> Claims(s, i)
    BY <1>6, <2>1, FinishClaims DEF DisputeFreeze, ClaimInv, Claims
  <2>3. \A i \in Intent : tx'[i] = tx[i] \/ (tx[i] = "HELD" /\ tx'[i] = "DISPUTED")
    BY <1>6 DEF DisputeFreeze
  <2>4. ClaimExclusive'
    BY <2>1, <2>2, <2>3 DEF ClaimInv, ClaimExclusive
  <2>5. LedgerMatchesStripe'
    BY <2>1, <2>2, <2>3 DEF ClaimInv, LedgerMatchesStripe
  <2> QED
    BY <2>4, <2>5
<1>7. ASSUME NEW i \in Intent, Confirm(i) \/ Lapse(i)
      PROVE  ClaimExclusive' /\ LedgerMatchesStripe'
  <2>1. \A k \in Intent : intent'[k] = "captured" <=> intent[k] = "captured"
    BY <1>7 DEF Confirm, Lapse, ClaimInv, TypeOK, DataTypeOK
  <2> QED
    BY <1>7, <2>1, Unclaimed DEF Confirm, Lapse, ClaimInv, Claims
<1>8. ASSUME NEW i \in Intent, Webhook(i)
      PROVE  ClaimExclusive' /\ LedgerMatchesStripe'
  <2>1. \A k \in Intent : tx'[k] = tx[k] \/ (tx[k] = "NONE" /\ tx'[k] = "HELD")
    BY <1>8 DEF Webhook, ClaimInv, TypeOK, DataTypeOK
  <2>2. UNCHANGED <<task, intent, lost, redone>>
    BY <1>8 DEF Webhook
  <2>3. ClaimExclusive'
    BY <2>1, <2>2 DEF ClaimInv, ClaimExclusive, Claims
  <2>4. LedgerMatchesStripe'
    BY <2>1, <2>2 DEF ClaimInv, LedgerMatchesStripe, Claims
  <2> QED
    BY <2>3, <2>4
<1>9. CASE UNCHANGED vars \/ \E j \in Job : ExpireLock(j)
  BY <1>9, Unclaimed DEF vars, escrowVars, ExpireLock, ClaimInv, Claims
<1> QED
  BY <1>1, <1>2, <1>3, <1>4, <1>5, <1>6, <1>7, <1>8, <1>9,
     ClaimStep, CaptureStep, RejectStep, RollbackStep, CrashStep DEF Next, Proceed

(* At most one request is between claim and capture on a row, whatever      *)
(* locks lapsed, and the row stays RELEASED meanwhile, except where a       *)
(* rollback was done twice.                                                 *)
THEOREM ClaimExclusiveHolds == Spec => []ClaimExclusive
  BY ClaimInitial, ClaimInductive, PTL DEF Spec, ClaimInv

(* Except for intents whose claim a failure cut short or rolled back twice, *)
(* the escrow table says RELEASED exactly when Stripe has captured.         *)
THEOREM LedgerMatchesStripeHolds == Spec => []LedgerMatchesStripe
  BY ClaimInitial, ClaimInductive, PTL DEF Spec, ClaimInv

(* What one step does, as CaptureOnlyClaimed and SettledFinal say it of     *)
(* every step; a composition takes these steps among others.                *)
Claimed == \A i \in Intent \ redone : intent'[i] = "captured" /\ intent[i] # "captured"
                                        => tx[i] = "RELEASED" /\ tx'[i] = "RELEASED"

Final == \A i \in Intent :
           tx[i] \in {"RELEASED", "DISPUTED"} /\ (\A r \in Request : ~Claims(r, i))
             => tx'[i] = tx[i]

LEMMA ClaimedStep == ClaimInv /\ [Next]_vars => Claimed
<1> SUFFICES ASSUME ClaimInv, [Next]_vars
             PROVE  Claimed
  OBVIOUS
<1>1. ASSUME NEW r \in Request, ReleaseCapture(r)
      PROVE  Claimed
  <2>1. task[r].row \in Intent /\ At(r, "rel_capture") /\ tx' = tx
    BY <1>1, RowKnown DEF ReleaseCapture, At, RowSteps, ClaimWindow, ClaimInv, rows
  <2>2. task[r].row \in redone \/ tx[task[r].row] = "RELEASED"
    BY <2>1 DEF ClaimInv, ClaimExclusive, Claims, At, ClaimWindow
  <2>3. \A i \in Intent \ {task[r].row} : intent'[i] = intent[i]
    BY <1>1 DEF ReleaseCapture, ClaimInv, TypeOK, DataTypeOK
  <2> QED
    BY <2>1, <2>2, <2>3 DEF Claimed
<1>2. ASSUME NEW r \in Request, FundCreate(r) \/ Unlock(r)
      PROVE  Claimed
  BY <1>2 DEF Claimed, FundCreate, Unlock, ClaimInv, TypeOK, DataTypeOK
<1>3. ASSUME NEW i \in Intent, Confirm(i) \/ Lapse(i)
      PROVE  Claimed
  BY <1>3 DEF Claimed, Confirm, Lapse, ClaimInv, TypeOK, DataTypeOK
<1>4. CASE UNCHANGED intent
  BY <1>4 DEF Claimed
<1> QED
  BY <1>1, <1>2, <1>3, <1>4
     DEF Next, Proceed, FundRead, ReleaseLock, DisputeRead, FundLock, FundFind,
         ReleaseFind, ReleaseClaim, ReleaseReject, ReleaseRollback, ReleaseComplete,
         DisputeCheck, DisputeCreate, DisputeJob, DisputeFreeze, Throw, Crash, Webhook,
         ExpireLock, vars, escrowVars

LEMMA FinalStep == ClaimInv /\ [Next]_vars => Final
<1> SUFFICES ASSUME ClaimInv, [Next]_vars
             PROVE  Final
  OBVIOUS
<1>1. ASSUME NEW r \in Request, ReleaseClaim(r)
      PROVE  Final
  BY <1>1 DEF Final, ReleaseClaim, ClaimInv, TypeOK, DataTypeOK
<1>2. ASSUME NEW r \in Request, ReleaseReject(r) \/ ReleaseRollback(r)
      PROVE  Final
  <2>1. \A i \in Intent : Claims(r, i) \/ tx'[i] = tx[i]
    BY <1>2 DEF ReleaseReject, ReleaseRollback, Unclaim, ClaimInv, TypeOK, DataTypeOK,
                Claims, At, ClaimWindow
  <2> QED
    BY <2>1 DEF Final
<1>3. ASSUME NEW r \in Request, DisputeFreeze(r)
      PROVE  Final
  BY <1>3 DEF Final, DisputeFreeze
<1>4. ASSUME NEW i \in Intent, Webhook(i)
      PROVE  Final
  BY <1>4 DEF Final, Webhook, ClaimInv, TypeOK, DataTypeOK
<1>5. CASE UNCHANGED tx
  BY <1>5 DEF Final
<1> QED
  BY <1>1, <1>2, <1>3, <1>4, <1>5
     DEF Next, Proceed, FundRead, ReleaseLock, DisputeRead, FundLock, FundFind, FundCreate,
         Unlock, ReleaseFind, ReleaseCapture, ReleaseComplete, DisputeCheck, DisputeCreate,
         DisputeJob, Throw, Crash, Confirm, Lapse, ExpireLock, vars, escrowVars, rows

(* A capture happens only on a row that is RELEASED, before and after it:   *)
(* never on one that a dispute froze, unless its claim was rolled back      *)
(* twice.                                                                   *)
THEOREM CaptureOnlyClaimedHolds == Spec => CaptureOnlyClaimed
<1>1. ClaimInv /\ [Next]_vars => [Claimed]_vars
  BY ClaimedStep
<1> QED
  BY <1>1, ClaimInitial, ClaimInductive, PTL DEF Spec, CaptureOnlyClaimed, Claimed

(* A released or frozen row that nobody claims never changes again.         *)
THEOREM SettledFinalHolds == Spec => SettledFinal
<1>1. ClaimInv /\ [Next]_vars => [Final]_vars
  BY FinalStep
<1> QED
  BY <1>1, ClaimInitial, ClaimInductive, PTL DEF Spec, SettledFinal, Final
-----------------------------------------------------------------------------
(* The table keeps the promises of Ledger: every step of Escrow moves one  *)
(* row as Ledger allows, freezes held rows, or leaves all of them alone.   *)

LEMMA Moved ==
  ASSUME NEW i \in Intent, NEW from, NEW to, Standing(i) \in from, Standing(i)' = to,
         \A k \in Intent \ {i} : Standing(k)' = Standing(k)
  PROVE  Book!Move(i, from, to)
  BY DEF Book!Move, ledger

LEMMA Unmoved ==
  ASSUME \A k \in Intent : Standing(k)' = Standing(k)
  PROVE  UNCHANGED ledger
  BY DEF ledger

LEMMA SameStanding ==
  ASSUME NEW k \in Intent, UNCHANGED <<lost, redone>>, tx'[k] = tx[k],
         intent'[k] = "captured" <=> intent[k] = "captured"
  PROVE  Standing(k)' = Standing(k)
  BY DEF Standing

LEMMA Stranded ==
  ASSUME NEW k \in Intent, k \in lost \cup redone, lost \subseteq lost', redone \subseteq redone'
  PROVE  Standing(k) = "stranded" /\ Standing(k)' = "stranded"
  BY DEF Standing

(* A claim that a release works on is claimed, unless it is stranded.       *)
LEMMA ClaimStands ==
  ASSUME ClaimInv, NEW r \in Request, NEW i \in Intent, Claims(r, i), i \notin lost \cup redone
  PROVE  tx[i] = "RELEASED" /\ intent[i] # "captured" /\ Standing(i) = "claimed"
<1>1. tx[i] = "RELEASED" /\ intent[i] # "captured"
  BY DEF ClaimInv, ClaimExclusive, LedgerMatchesStripe
<1> QED
  BY <1>1 DEF Standing

BookKept == Book!LedgerNext \/ UNCHANGED ledger

(* A row whose claim ends in doubt.                                         *)
LEMMA Strands ==
  ASSUME ClaimInv, NEW i \in Intent, Standing(i) \in {"held", "claimed", "stranded"},
         i \in lost' \cup redone', lost \subseteq lost', redone \subseteq redone',
         \A k \in Intent \ {i} : Standing(k)' = Standing(k)
  PROVE  BookKept
<1>1. Standing(i)' = "stranded"
  BY DEF Standing
<1>2. CASE Standing(i) = "stranded"
  BY <1>1, <1>2, Unmoved DEF BookKept
<1>3. CASE Standing(i) \in {"held", "claimed"}
  <2>1. Book!Strand(i)
    BY <1>1, <1>3, Moved DEF Book!Strand
  <2> QED
    BY <2>1 DEF BookKept, Book!LedgerNext
<1> QED
  BY <1>2, <1>3

LEMMA ClaimBooked ==
  ASSUME ClaimInv, NEW r \in Request, ReleaseClaim(r)
  PROVE  BookKept
<1>1. PICK i \in Intent : i = task[r].row /\ UNCHANGED <<intent, redone>>
  BY RowKnown DEF ReleaseClaim, At, RowSteps, ClaimInv
<1>2. CASE tx' = tx /\ lost' = lost
  BY <1>1, <1>2, SameStanding, Unmoved DEF BookKept
<1>3. CASE tx[i] = "HELD" /\ tx' = [tx EXCEPT ![i] = "RELEASED"]
  <2>1. tx'[i] = "RELEASED" /\ \A k \in Intent \ {i} : tx'[k] = tx[k]
    BY <1>1, <1>3 DEF ClaimInv, TypeOK, DataTypeOK
  <2>2. lost' = lost \/ lost' = lost \cup {i}
    BY <1>1 DEF ReleaseClaim
  <2>3. \A k \in Intent \ {i} : Standing(k)' = Standing(k)
    BY <1>1, <2>1, <2>2 DEF Standing
  <2>4. Standing(i) \in {"held", "stranded"}
    BY <1>3 DEF Standing, Mark
  <2>5. CASE i \in lost' \cup redone'
    BY <1>1, <2>2, <2>3, <2>4, <2>5, Strands
  <2>6. CASE i \notin lost' \cup redone'
    <3>1. i \notin lost \cup redone
      BY <1>1, <2>2, <2>6
    <3>2. \A s \in Request : ~Claims(s, i)
      BY <1>1, <1>3, <3>1 DEF ClaimInv, ClaimExclusive
    <3>3. intent[i] # "captured"
      BY <1>1, <1>3, <3>1 DEF ClaimInv, LedgerMatchesStripe
    <3>4. Standing(i) = "held" /\ Standing(i)' = "claimed"
      BY <1>1, <1>3, <2>1, <2>6, <3>1, <3>3 DEF Standing, Mark
    <3>5. Book!Claim(i)
      BY <1>1, <2>3, <3>4, Moved DEF Book!Claim
    <3> QED
      BY <1>1, <3>5 DEF BookKept, Book!LedgerNext
  <2> QED
    BY <2>5, <2>6
<1> QED
  BY <1>1, <1>2, <1>3 DEF ReleaseClaim

LEMMA CaptureBooked ==
  ASSUME ClaimInv, NEW r \in Request, ReleaseCapture(r)
  PROVE  BookKept
<1>1. PICK i \in Intent :
         i = task[r].row /\ At(r, "rel_capture") /\ UNCHANGED <<tx, redone>>
  BY RowKnown DEF ReleaseCapture, At, RowSteps, ClaimWindow, ClaimInv, rows
<1>2. Claims(r, i)
  BY <1>1 DEF Claims, At, ClaimWindow
<1>3. CASE intent' = intent /\ lost' = lost
  BY <1>1, <1>3, SameStanding, Unmoved DEF BookKept
<1>4. CASE /\ intent' = [intent EXCEPT ![i] = "captured"]
           /\ lost' = lost \/ lost' = lost \cup {i}
  <2>1. intent'[i] = "captured" /\ \A k \in Intent \ {i} : intent'[k] = intent[k]
    BY <1>1, <1>4 DEF ClaimInv, TypeOK, DataTypeOK
  <2>2. \A k \in Intent \ {i} : Standing(k)' = Standing(k)
    BY <1>1, <1>4, <2>1 DEF Standing
  <2>3. Standing(i) \in {"claimed", "stranded"}
    BY <1>1, <1>2, ClaimStands DEF Standing
  <2>4. CASE i \in lost' \cup redone'
    BY <1>1, <1>4, <2>2, <2>3, <2>4, Strands
  <2>5. CASE i \notin lost' \cup redone'
    <3>1. i \notin lost \cup redone
      BY <1>1, <1>4, <2>5
    <3>2. tx[i] = "RELEASED" /\ Standing(i) = "claimed"
      BY <1>1, <1>2, <3>1, ClaimStands
    <3>3. Standing(i)' = "paid"
      BY <1>1, <2>1, <2>5, <3>2 DEF Standing
    <3>4. Book!Pay(i)
      BY <1>1, <2>2, <3>2, <3>3, Moved DEF Book!Pay
    <3> QED
      BY <1>1, <3>4 DEF BookKept, Book!LedgerNext
  <2> QED
    BY <2>4, <2>5
<1> QED
  BY <1>1, <1>3, <1>4 DEF ReleaseCapture

(* Both rollbacks: done, done and taken for failed, or not done.            *)
LEMMA RollbackBooked ==
  ASSUME ClaimInv, NEW r \in Request, ReleaseReject(r) \/ ReleaseRollback(r)
  PROVE  BookKept
<1>1. PICK i \in Intent : i = task[r].row /\ Claims(r, i) /\ intent' = intent
  BY RowKnown DEF ReleaseReject, ReleaseRollback, At, RowSteps, ClaimWindow, ClaimInv, Claims
<1>2. /\ lost' = lost \/ lost' = lost \cup {i}
      /\ redone' = redone \/ redone' = redone \cup {i}
      /\ \/ Unclaim(i)
         \/ tx' = tx
  BY <1>1 DEF ReleaseReject, ReleaseRollback
<1>3. \A k \in Intent \ {i} : tx'[k] = tx[k]
  BY <1>1, <1>2 DEF Unclaim, ClaimInv, TypeOK, DataTypeOK
<1>4. Unclaim(i) => tx'[i] = IF tx[i] = "RELEASED" THEN "HELD" ELSE tx[i]
  BY <1>1 DEF Unclaim, ClaimInv, TypeOK, DataTypeOK
<1>5. \A k \in Intent \ {i} : Standing(k)' = Standing(k)
  BY <1>1, <1>2, <1>3 DEF Standing
<1>6. Standing(i) \in {"claimed", "stranded"}
  BY <1>1, ClaimStands DEF Standing
<1>7. CASE i \in lost' \cup redone'
  BY <1>1, <1>2, <1>5, <1>6, <1>7, Strands
<1>8. CASE i \notin lost' \cup redone'
  <2>1. lost' = lost /\ redone' = redone
    BY <1>2, <1>8
  <2>2. tx[i] = "RELEASED" /\ Standing(i) = "claimed"
    BY <1>1, <1>8, <2>1, ClaimStands
  <2>3. CASE tx' = tx
    BY <1>1, <2>1, <2>3, SameStanding, Unmoved DEF BookKept
  <2>4. CASE Unclaim(i)
    <3>1. Standing(i)' = "held"
      BY <1>4, <1>8, <2>2, <2>4 DEF Standing, Mark
    <3>2. Book!Return(i)
      BY <1>1, <1>5, <2>2, <3>1, Moved DEF Book!Return
    <3> QED
      BY <1>1, <3>2 DEF BookKept, Book!LedgerNext
  <2> QED
    BY <1>2, <2>3, <2>4
<1> QED
  BY <1>7, <1>8

LEMMA CrashBooked ==
  ASSUME ClaimInv, NEW r \in Request, Crash(r)
  PROVE  BookKept
<1>1. /\ UNCHANGED <<tx, intent, redone>>
      /\ lost' = lost \cup {i \in Intent : Claims(r, i)}
  BY DEF Crash, rows
<1>2. CASE \A i \in Intent : ~Claims(r, i)
  <2>1. lost' = lost
    BY <1>1, <1>2
  <2> QED
    BY <1>1, <2>1, SameStanding, Unmoved DEF BookKept
<1>3. ASSUME NEW i \in Intent, Claims(r, i)
      PROVE  BookKept
  <2>1. lost' = lost \cup {i}
    BY <1>1, <1>3 DEF Claims
  <2>2. \A k \in Intent \ {i} : Standing(k)' = Standing(k)
    BY <1>1, <2>1 DEF Standing
  <2>3. Standing(i) \in {"claimed", "stranded"}
    BY <1>3, ClaimStands DEF Standing
  <2> QED
    BY <1>1, <2>1, <2>2, <2>3, Strands
<1> QED
  BY <1>2, <1>3

LEMMA FreezeBooked ==
  ASSUME ClaimInv, NEW r \in Request, DisputeFreeze(r)
  PROVE  BookKept
<1>0. PICK I \in SUBSET Intent :
         I = {i \in RowsOf(task[r].job) : tx[i] = "HELD" /\ i \notin lost \cup redone}
  BY DEF RowsOf
<1>1. /\ UNCHANGED <<intent, lost, redone>>
      /\ \A i \in Intent : tx'[i] = IF i \in RowsOf(task[r].job) /\ tx[i] = "HELD"
                                    THEN "DISPUTED" ELSE tx[i]
  BY DEF DisputeFreeze, ghosts
<1>2. \A i \in I : Standing(i) = "held" /\ Standing(i)' = "frozen"
  BY <1>0, <1>1 DEF Standing, Mark
<1>3. \A i \in Intent \ I : Standing(i)' = Standing(i)
  BY <1>0, <1>1 DEF Standing
<1>4. Book!Freeze(I)
  BY <1>2, <1>3 DEF Book!Freeze, ledger
<1> QED
  BY <1>2, <1>4 DEF BookKept, Book!LedgerNext

LEMMA WebhookBooked ==
  ASSUME ClaimInv, NEW i \in Intent, Webhook(i)
  PROVE  BookKept
<1>1. UNCHANGED <<intent, lost, redone>> /\ tx[i] = "NONE"
  BY DEF Webhook, ghosts
<1>2. tx'[i] = "HELD" /\ \A k \in Intent \ {i} : tx'[k] = tx[k]
  BY DEF Webhook, ClaimInv, TypeOK, DataTypeOK
<1>3. \A k \in Intent \ {i} : Standing(k)' = Standing(k)
  BY <1>1, <1>2, SameStanding
<1>4. CASE i \in lost \cup redone
  <2>1. Standing(i)' = Standing(i)
    BY <1>1, <1>4, Stranded
  <2> QED
    BY <1>3, <2>1, Unmoved DEF BookKept
<1>5. CASE i \notin lost \cup redone
  <2>1. Standing(i) = "none" /\ Standing(i)' = "held"
    BY <1>1, <1>2, <1>5 DEF Standing, Mark
  <2>2. Book!Record(i)
    BY <1>3, <2>1, Moved DEF Book!Record
  <2> QED
    BY <2>2 DEF BookKept, Book!LedgerNext
<1> QED
  BY <1>4, <1>5

LEMMA BookInitial == EscrowInit => Book!LedgerInit
  BY DEF EscrowInit, Book!LedgerInit, ledger, Standing, Mark

LEMMA BookStep == ClaimInv /\ [Next]_vars => [Book!LedgerNext]_ledger
<1> SUFFICES ASSUME ClaimInv, [Next]_vars
             PROVE  BookKept
  BY DEF BookKept
<1>1. CASE /\ UNCHANGED <<tx, lost, redone>>
           /\ \A i \in Intent : intent'[i] = "captured" <=> intent[i] = "captured"
  BY <1>1, SameStanding, Unmoved DEF BookKept
<1>2. ASSUME NEW r \in Request, FundCreate(r) \/ Unlock(r)
      PROVE  BookKept
  <2>1. UNCHANGED <<tx, lost, redone>>
    BY <1>2 DEF FundCreate, Unlock, rows, ghosts
  <2>2. \A i \in Intent : intent'[i] = "captured" <=> intent[i] = "captured"
    BY <1>2 DEF FundCreate, Unlock, ClaimInv, TypeOK, DataTypeOK
  <2> QED
    BY <1>1, <2>1, <2>2
<1>3. ASSUME NEW i \in Intent, Confirm(i) \/ Lapse(i)
      PROVE  BookKept
  <2>1. UNCHANGED <<tx, lost, redone>>
    BY <1>3 DEF Confirm, Lapse, rows, ghosts
  <2>2. \A k \in Intent : intent'[k] = "captured" <=> intent[k] = "captured"
    BY <1>3 DEF Confirm, Lapse, ClaimInv, TypeOK, DataTypeOK
  <2> QED
    BY <1>1, <2>1, <2>2
<1> QED
  BY <1>1, <1>2, <1>3, ClaimBooked, CaptureBooked, RollbackBooked, CrashBooked,
     FreezeBooked, WebhookBooked
     DEF Next, Proceed, FundRead, ReleaseLock, DisputeRead, FundLock, FundFind, ReleaseFind,
         ReleaseComplete, DisputeCheck, DisputeCreate, DisputeJob, Throw, ExpireLock, vars,
         escrowVars, rows, ghosts

(* The escrow table takes only steps of Ledger, however many servers,      *)
(* requests and intents there are (the safety part of LedgerRefined).      *)
THEOREM LedgerImplemented == Spec => Book!LedgerInit /\ [][Book!LedgerNext]_ledger
<1>1. Init => Book!LedgerInit
  BY BookInitial DEF Init
<1> QED
  BY <1>1, BookStep, ClaimInitial, ClaimInductive, PTL DEF Spec

(* No claim stays open for long.  A row that stays claimed over a step has  *)
(* a request working on it whose next steps are numbered, downwards: its    *)
(* own step brings it nearer to the last one (payments.ts:123-140).         *)
Closing == [rel_capture |-> 3, rel_reject |-> 2, rel_rollback |-> 1]

Nears(r, i) ==
  /\ Claims(r, i) /\ Claims(r, i)'
  /\ task'[r] = task[r] \/ Closing[task'[r].at] < Closing[task[r].at]

ClaimNearsEnd ==
  [][\A i \in Intent : ledger[i] = "claimed" /\ ledger'[i] = "claimed"
                         => \E r \in Request : Nears(r, i)]_vars

(* Requests move only by their own steps, and one inside the claim window   *)
(* only by those of the window.                                             *)
LEMMA OwnSteps ==
  ASSUME TypeOK, [Next]_vars, NEW r \in Request, task[r].at \in ClaimWindow,
         task'[r] # task[r]
  PROVE  ReleaseCapture(r) \/ ReleaseReject(r) \/ ReleaseRollback(r) \/ Crash(r)
<1>1. ASSUME NEW s \in Request, NEW j \in Job,
             FundRead(s, j) \/ ReleaseLock(s, j) \/ DisputeRead(s, j)
      PROVE  FALSE
  <2>1. s # r
    BY <1>1 DEF FundRead, ReleaseLock, DisputeRead, At, ClaimWindow
  <2> QED
    BY <1>1, <2>1 DEF FundRead, ReleaseLock, DisputeRead, TypeOK, TaskTypeOK
<1>2. ASSUME NEW s \in Request, s # r, Proceed(s) \/ Crash(s)
      PROVE  FALSE
  <2>1. \E t : task' = [task EXCEPT ![s] = t]
    <3>1. CASE Finish(s) \/ \E step \in Step : Goto(s, step)
      BY <3>1 DEF Finish, Goto
    <3>2. CASE FundCreate(s) \/ ReleaseFind(s)
      <4>1. CASE Goto(s, "unlock")
        BY <4>1 DEF Goto
      <4> QED
        BY <3>2, <4>1 DEF FundCreate, ReleaseFind
    <3>3. Finish(s) \/ (\E step \in Step : Goto(s, step)) \/ FundCreate(s) \/ ReleaseFind(s)
      BY <1>2 DEF Proceed, FundLock, FundFind, Unlock, ReleaseClaim, ReleaseCapture,
                  ReleaseReject, ReleaseRollback, ReleaseComplete, DisputeCheck,
                  DisputeCreate, DisputeJob, DisputeFreeze, Throw, Crash, Step, Locked,
                  Disputing
    <3> QED
      BY <3>1, <3>2, <3>3
  <2> QED
    BY <1>2, <2>1 DEF TypeOK, TaskTypeOK
<1>3. Proceed(r) => ReleaseCapture(r) \/ ReleaseReject(r) \/ ReleaseRollback(r)
  BY DEF Proceed, FundLock, FundFind, FundCreate, Unlock, ReleaseFind, ReleaseClaim,
         ReleaseComplete, DisputeCheck, DisputeCreate, DisputeJob, DisputeFreeze, Throw,
         At, ClaimWindow, Locked, Disputing
<1>4. ASSUME UNCHANGED task
      PROVE  FALSE
  BY <1>4
<1> QED
  BY <1>1, <1>2, <1>3, <1>4
     DEF Next, Confirm, Lapse, Webhook, ExpireLock, vars, escrowVars

LEMMA NearsEnd ==
  ASSUME ClaimInv, [Next]_vars, NEW i \in Intent,
         Standing(i) = "claimed", Standing(i)' = "claimed"
  PROVE  \E r \in Request : Nears(r, i)
<1>1. /\ i \notin lost \cup redone /\ i \notin lost' \cup redone'
      /\ tx[i] = "RELEASED" /\ tx'[i] = "RELEASED"
      /\ intent[i] # "captured" /\ intent'[i] # "captured"
  <2>1. tx[i] \in TxStatus /\ tx'[i] \in TxStatus
    BY TypingStep DEF ClaimInv, TypeOK, DataTypeOK
  <2> QED
    BY <2>1 DEF Standing, Mark, TxStatus
<1>2. PICK r \in Request : Claims(r, i)
  BY <1>1 DEF ClaimInv, LedgerMatchesStripe
<1>3. CASE task'[r] = task[r]
  BY <1>2, <1>3 DEF Nears, Claims
<1>4. CASE task'[r] # task[r]
  <2>1. task[r].row = i /\ task[r].at \in ClaimWindow
    BY <1>2 DEF Claims
  <2>2. ASSUME NEW step \in ClaimWindow, Goto(r, step),
               Closing[step] < Closing[task[r].at]
        PROVE  \E q \in Request : Nears(q, i)
    <3>1. task'[r].at = step /\ task'[r].row = i
      BY <2>1, <2>2 DEF Goto, ClaimInv, TypeOK, TaskTypeOK, Task
    <3> QED
      BY <1>2, <2>2, <3>1 DEF Nears, Claims
  <2>3. CASE ReleaseCapture(r)
    <3>1. intent' # [intent EXCEPT ![i] = "captured"]
      BY <1>1 DEF ClaimInv, TypeOK, DataTypeOK
    <3>2. task[r].at = "rel_capture" /\ (Goto(r, "rel_reject") \/ Goto(r, "rel_rollback"))
      BY <2>1, <2>3, <3>1 DEF ReleaseCapture, At
    <3> QED
      BY <2>2, <3>2 DEF Closing, ClaimWindow
  <2>4. ~Unclaim(i)
    BY <1>1 DEF Unclaim, ClaimInv, TypeOK, DataTypeOK
  <2>5. CASE ReleaseReject(r)
    <3>1. task[r].at = "rel_reject" /\ Goto(r, "rel_rollback")
      BY <2>1, <2>4, <2>5 DEF ReleaseReject, At
    <3> QED
      BY <2>2, <3>1 DEF Closing, ClaimWindow
  <2>6. ~ReleaseRollback(r)
    BY <1>1, <2>1, <2>4 DEF ReleaseRollback
  <2>7. ~Crash(r)
    BY <1>1, <1>2 DEF Crash
  <2> QED
    BY <1>4, <2>1, <2>3, <2>5, <2>6, <2>7, OwnSteps DEF ClaimInv
<1> QED
  BY <1>3, <1>4

(* An open claim belongs to a request at most three of its own steps from   *)
(* closing it, and no step takes it further from there: the safety half of  *)
(* Settles, which adds that a started handler runs on.                      *)
THEOREM ClaimNearsEndHolds == Spec => ClaimNearsEnd
<1>1. ClaimInv /\ [Next]_vars
        => [\A i \in Intent : ledger[i] = "claimed" /\ ledger'[i] = "claimed"
                                => \E r \in Request : Nears(r, i)]_vars
  BY NearsEnd DEF ledger
<1> QED
  BY <1>1, ClaimInitial, ClaimInductive, PTL DEF Spec, ClaimNearsEnd

-----------------------------------------------------------------------------
(* What the lock adds.                                                      *)

LockProofs == INSTANCE RedisLock_proofs WITH Key <- Job

LEMMA SameLock ==
  /\ Lock!LockIInv <=> LockProofs!LockIInv
  /\ Lock!LockInit <=> LockProofs!LockInit
  /\ [Lock!LockNext]_(Lock!lockVars) <=> [LockProofs!LockNext]_(LockProofs!lockVars)
<1>1. /\ Lock!LockIInv <=> LockProofs!LockIInv
      /\ Lock!LockInit <=> LockProofs!LockInit
  BY DEF Lock!LockIInv, Lock!LockTypeOK, Lock!LockInv, Lock!LockInit, LockProofs!LockIInv,
         LockProofs!LockTypeOK, LockProofs!LockInv, LockProofs!LockInit
<1>2. [Lock!LockNext]_(Lock!lockVars) <=> [LockProofs!LockNext]_(LockProofs!lockVars)
  BY DEF Lock!LockNext, Lock!lockVars, Lock!Acquire, Lock!AcquireUnseen, Lock!SetNX,
         Lock!Leave, Lock!Abandon, Lock!CompareAndDelete, Lock!Exit, Lock!Expire,
         LockProofs!LockNext, LockProofs!lockVars, LockProofs!Acquire,
         LockProofs!AcquireUnseen, LockProofs!SetNX, LockProofs!Leave, LockProofs!Abandon,
         LockProofs!CompareAndDelete, LockProofs!Exit, LockProofs!Expire
<1> QED
  BY <1>1, <1>2

SerialInv == TypeOK /\ LockProofs!LockIInv

LEMMA SerialOpens == TypeOK /\ EscrowInit => SerialInv
<1> SUFFICES ASSUME EscrowInit PROVE LockProofs!LockIInv
  BY DEF SerialInv
<1>1. LockProofs!NoneAssumption
  BY StoreAssumption, EscrowAssumption DEF LockProofs!NoneAssumption
<1>2. LockProofs!LockInit
  BY SameLock DEF EscrowInit
<1> QED
  BY <1>1, <1>2, LockProofs!LockInitial

LEMMA SerialInitial == Init => SerialInv
  BY Typing0, SerialOpens DEF Init

LEMMA SerialInductive == SerialInv /\ [Next]_vars => SerialInv'
<1> SUFFICES ASSUME SerialInv, [Next]_vars PROVE LockProofs!LockIInv'
  BY TypingStep DEF SerialInv
<1>1. LockProofs!NoneAssumption
  BY StoreAssumption, EscrowAssumption DEF LockProofs!NoneAssumption
<1>2. [LockProofs!LockNext]_(LockProofs!lockVars)
  BY LockSteps, SameLock DEF SerialInv
<1> QED
  BY <1>1, <1>2, LockProofs!LockInductive DEF SerialInv

LEMMA SerialFromInv == SerialInv => SerialUnlessLapsed
<1> SUFFICES ASSUME SerialInv, NEW r \in Request, NEW s \in Request, r # s,
                    task[r].job = task[s].job,
                    task[r].at \in Locked, task[s].at \in Locked
             PROVE  r \in lapsed \/ s \in lapsed
  BY DEF SerialUnlessLapsed
<1>1. LockProofs!LeaseExclusion
  <2>1. LockProofs!NoneAssumption
    BY StoreAssumption, EscrowAssumption DEF LockProofs!NoneAssumption
  <2> QED
    BY <2>1, LockProofs!ExclusionFromInv DEF SerialInv
<1>2. holds[r] = task[r].job /\ holds[s] = task[s].job /\ task[r].job \in Job
  BY DEF SerialInv, TypeOK, TaskTypeOK, SlotOK, Locked
<1> QED
  BY <1>1, <1>2, StoreAssumption DEF LockProofs!LeaseExclusion

(* Requests inside withLock for one job are one at a time, except that one  *)
(* of two may have outlived its lease.                                      *)
THEOREM SerialUnlessLapsedHolds == Spec => []SerialUnlessLapsed
  BY SerialInitial, SerialInductive, SerialFromInv, PTL DEF Spec

(* The lock inside the money path takes only the steps of RedisLock.        *)
THEOREM LockImplemented == Spec => Lock!LockInit /\ [][Lock!LockNext]_(Lock!lockVars)
<1>1. Init => Lock!LockInit
  BY DEF Init, EscrowInit
<1> QED
  BY <1>1, Typing0, TypingStep, LockSteps, PTL DEF Spec
-----------------------------------------------------------------------------
(* What is completed and what is disputed.  The invariant follows each      *)
(* slot: a request on its way to completing a job works on a row of that    *)
(* job and has captured it, a request that freezes has recorded a dispute.  *)

OnTrail(t, metas, intents, counts) ==
  /\ t.at \in RowSteps => metas[t.row].job = t.job
  /\ t.at = "rel_complete" => intents[t.row] = "captured"
  /\ t.at \in {"dis_job", "dis_freeze"} => counts[t.job] > 0

Trails == \A r \in Request : OnTrail(task[r], meta, intent, disputes)

Unmade == \A i \in Intent : intent[i] = "none" => tx[i] = "NONE" /\ meta[i].job = None

TrailInv == TypeOK /\ Trails /\ Unmade /\ CompletedIsPaid /\ DisputedHasDispute

(* What no step takes back. *)
Grows ==
  /\ \A i \in Intent : meta[i].job # None => meta'[i].job = meta[i].job
  /\ \A i \in Intent : intent[i] = "captured" => intent'[i] = "captured"
  /\ \A j \in Job : disputes[j] > 0 => disputes'[j] > 0

LEMMA TrailInitial == Init => TrailInv
<1> SUFFICES ASSUME Init
             PROVE  Trails /\ Unmade /\ CompletedIsPaid /\ DisputedHasDispute
  BY Typing0 DEF TrailInv
<1>1. Trails
  BY DEF Init, EscrowInit, Trails, OnTrail, Idle, RowSteps, ClaimWindow
<1>2. Unmade
  BY DEF Init, EscrowInit, Unmade
<1>3. CompletedIsPaid /\ DisputedHasDispute
  <2>1. \A j \in Job : job[j].status = "IN_PROGRESS"
    <3>1. PICK f : job = [j \in Job |-> [status |-> "IN_PROGRESS", hired |-> f[j]]]
      BY DEF Init
    <3> QED
      BY <3>1
  <2>2. \A i \in Intent : tx[i] = "NONE"
    BY DEF Init, EscrowInit
  <2> QED
    BY <2>1, <2>2 DEF CompletedIsPaid, DisputedHasDispute, RowsOf
<1> QED
  BY <1>1, <1>2, <1>3

LEMMA StepGrows == TrailInv /\ [Next]_vars => Grows
<1> SUFFICES ASSUME TrailInv, [Next]_vars
             PROVE  Grows
  OBVIOUS
<1> USE DEF TrailInv, TypeOK, DataTypeOK
<1>1. CASE UNCHANGED <<meta, intent, disputes>>
  BY <1>1 DEF Grows
<1>2. ASSUME NEW r \in Request, FundCreate(r)
      PROVE  Grows
  BY <1>2 DEF FundCreate, Unmade, Grows
<1>3. ASSUME NEW r \in Request, Unlock(r)
      PROVE  Grows
  BY <1>3 DEF Unlock, rows, Grows
<1>4. ASSUME NEW r \in Request, ReleaseCapture(r)
      PROVE  Grows
  BY <1>4 DEF ReleaseCapture, rows, Grows
<1>5. ASSUME NEW r \in Request, DisputeCreate(r)
      PROVE  Grows
  BY <1>5 DEF DisputeCreate, Grows
<1>6. ASSUME NEW i \in Intent, Confirm(i) \/ Lapse(i)
      PROVE  Grows
  BY <1>6 DEF Confirm, Lapse, rows, Grows
<1> HIDE DEF TrailInv, TypeOK, DataTypeOK
<1> QED
  BY <1>1, <1>2, <1>3, <1>4, <1>5, <1>6
     DEF Next, Proceed, FundRead, ReleaseLock, DisputeRead, FundLock, FundFind,
         ReleaseFind, ReleaseClaim, ReleaseReject, ReleaseRollback, ReleaseComplete,
         DisputeCheck, DisputeJob, DisputeFreeze, Throw, Crash, Webhook, ExpireLock,
         vars, escrowVars, rows

(* A slot that does not move stays on its trail.                            *)
LEMMA TrailStays ==
  ASSUME TrailInv, Grows, NEW s \in Request
  PROVE  OnTrail(task[s], meta', intent', disputes')
<1>1. /\ OnTrail(task[s], meta, intent, disputes)
      /\ SlotOK(task[s], holds[s])
      /\ disputes \in [Job -> Nat]
  BY DEF TrailInv, Trails, TypeOK, TaskTypeOK, DataTypeOK
<1>2. ASSUME task[s].at \in RowSteps
      PROVE  /\ meta'[task[s].row].job = task[s].job
             /\ task[s].at = "rel_complete" => intent'[task[s].row] = "captured"
  <2>1. task[s].row \in Intent /\ task[s].job \in Job /\ meta[task[s].row].job = task[s].job
    BY <1>1, <1>2 DEF SlotOK, OnTrail, RowSteps, ClaimWindow
  <2> QED
    BY <1>1, <2>1, StoreAssumption DEF OnTrail, Grows
<1>3. ASSUME task[s].at \in {"dis_job", "dis_freeze"}
      PROVE  disputes'[task[s].job] > 0
  <2>1. task[s].job \in Job /\ disputes[task[s].job] > 0
    BY <1>1, <1>3 DEF SlotOK, OnTrail
  <2> QED
    BY <2>1 DEF Grows
<1> QED
  BY <1>2, <1>3 DEF OnTrail, RowSteps

LEMMA TrailMoves ==
  ASSUME TrailInv, Grows, NEW r \in Request, NEW t, task' = [task EXCEPT ![r] = t],
         OnTrail(t, meta', intent', disputes')
  PROVE  Trails'
<1>1. \A s \in Request \ {r} : task'[s] = task[s]
  BY DEF TrailInv, TypeOK, TaskTypeOK
<1>2. task'[r] = t
  BY DEF TrailInv, TypeOK, TaskTypeOK
<1> QED
  BY <1>1, <1>2, TrailStays DEF Trails

Unmarked == Step \ (RowSteps \cup {"dis_job", "dis_freeze"})

LEMMA TrailGoes ==
  ASSUME TrailInv, Grows, NEW r \in Request, NEW step \in Step, Goto(r, step),
         \/ step \in Unmarked
         \/ step \in RowSteps \ {"rel_complete"} /\ task[r].at \in RowSteps
         \/ /\ step = "rel_complete" /\ task[r].at \in RowSteps
            /\ intent'[task[r].row] = "captured"
         \/ step \in {"dis_job", "dis_freeze"} /\ disputes'[task[r].job] > 0
  PROVE  Trails'
<1> DEFINE t == [task[r] EXCEPT !.at = step]
<1>1. task[r] \in Task
  BY DEF TrailInv, TypeOK, TaskTypeOK
<1>2. t.at = step /\ t.job = task[r].job /\ t.row = task[r].row
  BY <1>1 DEF Task
<1>3. OnTrail(task[r], meta', intent', disputes')
  BY TrailStays
<1>4. OnTrail(t, meta', intent', disputes')
  BY <1>2, <1>3 DEF OnTrail, Unmarked, RowSteps, ClaimWindow
<1>5. task' = [task EXCEPT ![r] = t]
  BY DEF Goto
<1> HIDE DEF t
<1> QED
  BY <1>4, <1>5, TrailMoves

LEMMA TrailEnds ==
  ASSUME TrailInv, Grows, NEW r \in Request, Finish(r)
  PROVE  Trails'
<1>1. OnTrail(Idle, meta', intent', disputes')
  BY DEF OnTrail, Idle, RowSteps, ClaimWindow
<1> QED
  BY <1>1, TrailMoves DEF Finish

(* Each step keeps every slot on its trail. *)
LEMMA TrailsStep == TrailInv /\ [Next]_vars => Trails'
<1> SUFFICES ASSUME TrailInv, [Next]_vars
             PROVE  Trails'
  OBVIOUS
<1>0. Grows
  BY StepGrows
<1> USE DEF Step, Locked, RowSteps, ClaimWindow, Disputing, Unmarked, At
<1>1. CASE UNCHANGED task
  BY <1>0, <1>1, TrailStays DEF Trails
<1>2. ASSUME NEW r \in Request, NEW j \in Job,
             FundRead(r, j) \/ DisputeRead(r, j) \/ ReleaseLock(r, j)
      PROVE  Trails'
  <2>1. ASSUME NEW t, task' = [task EXCEPT ![r] = t],
               t.at \in {"fund_lock", "rel_find", "dis_check"}
        PROVE  Trails'
    <3>1. OnTrail(t, meta', intent', disputes')
      BY <2>1 DEF OnTrail
    <3> QED
      BY <1>0, <2>1, <3>1, TrailMoves
  <2>2. CASE FundRead(r, j)
    <3>1. PICK f \in Freelancer :
            task' = [task EXCEPT ![r] = [Idle EXCEPT !.at = "fund_lock", !.job = j, !.payee = f]]
      BY <2>2 DEF FundRead
    <3>2. [Idle EXCEPT !.at = "fund_lock", !.job = j, !.payee = f].at = "fund_lock"
      BY DEF Idle
    <3> QED
      BY <2>1, <3>1, <3>2
  <2>3. CASE DisputeRead(r, j)
    <3>1. [Idle EXCEPT !.at = "dis_check", !.job = j, !.was = job[j].status].at = "dis_check"
      BY DEF Idle
    <3> QED
      BY <2>1, <2>3, <3>1 DEF DisputeRead
  <2>4. CASE ReleaseLock(r, j)
    <3>1. [Idle EXCEPT !.at = "rel_find", !.job = j].at = "rel_find"
      BY DEF Idle
    <3> QED
      BY <1>1, <2>1, <2>4, <3>1 DEF ReleaseLock
  <2> QED
    BY <1>2, <2>2, <2>3, <2>4
<1>3. ASSUME NEW r \in Request, FundCreate(r)
      PROVE  Trails'
  <2>1. PICK i : task' = [task EXCEPT ![r] = [@ EXCEPT !.at = "unlock", !.row = i]]
    BY <1>3 DEF FundCreate
  <2> DEFINE t == [task[r] EXCEPT !.at = "unlock", !.row = i]
  <2>2. t.at = "unlock"
    BY DEF TrailInv, TypeOK, TaskTypeOK, Task
  <2>3. OnTrail(t, meta', intent', disputes')
    BY <2>2 DEF OnTrail
  <2> QED
    BY <1>0, <2>1, <2>3, TrailMoves
<1>4. ASSUME NEW r \in Request, ReleaseFind(r)
      PROVE  Trails'
  <2>1. CASE Goto(r, "unlock")
    BY <1>0, <2>1, TrailGoes
  <2>2. ASSUME NEW i \in RowsOf(task[r].job),
               task' = [task EXCEPT ![r] = [@ EXCEPT !.at = "rel_claim", !.row = i]]
        PROVE  Trails'
    <3> DEFINE t == [task[r] EXCEPT !.at = "rel_claim", !.row = i]
    <3>1. task[r] \in Task
      BY DEF TrailInv, TypeOK, TaskTypeOK
    <3>2. t.at = "rel_claim" /\ t.row = i /\ t.job = task[r].job
      BY <3>1 DEF Task
    <3>3. meta'[i].job = task[r].job
      BY <1>4, <2>2 DEF ReleaseFind, RowsOf, rows
    <3>4. OnTrail(t, meta', intent', disputes')
      BY <3>2, <3>3 DEF OnTrail
    <3> QED
      BY <1>0, <2>2, <3>4, TrailMoves
  <2> QED
    BY <1>4, <2>1, <2>2 DEF ReleaseFind
<1>5. ASSUME NEW r \in Request, ReleaseCapture(r)
      PROVE  Trails'
  <2>1. CASE Goto(r, "rel_complete") /\ intent' = [intent EXCEPT ![task[r].row] = "captured"]
    <3>1. task[r].row \in Intent
      BY <1>5, RowKnown DEF ReleaseCapture, TrailInv
    <3>2. intent'[task[r].row] = "captured"
      BY <2>1, <3>1 DEF TrailInv, TypeOK, DataTypeOK
    <3> QED
      BY <1>0, <1>5, <2>1, <3>2, TrailGoes DEF ReleaseCapture
  <2>2. CASE Goto(r, "rel_reject") \/ Goto(r, "rel_rollback")
    BY <1>0, <1>5, <2>2, TrailGoes DEF ReleaseCapture
  <2> QED
    BY <1>5, <2>1, <2>2 DEF ReleaseCapture
<1>6. ASSUME NEW r \in Request, ReleaseClaim(r) \/ ReleaseReject(r)
      PROVE  Trails'
  BY <1>0, <1>6, TrailGoes DEF ReleaseClaim, ReleaseReject
<1>7. ASSUME NEW r \in Request,
             \/ FundLock(r) \/ FundFind(r) \/ ReleaseRollback(r) \/ ReleaseComplete(r)
             \/ Unlock(r) \/ DisputeCheck(r) \/ DisputeFreeze(r) \/ Throw(r) \/ Crash(r)
      PROVE  Trails'
  <2>1. Finish(r) \/ \E step \in Step \cap Unmarked : Goto(r, step)
    BY <1>7 DEF FundLock, FundFind, ReleaseRollback, ReleaseComplete, Unlock,
                DisputeCheck, DisputeFreeze, Throw, Crash
  <2> QED
    BY <1>0, <2>1, TrailGoes, TrailEnds
<1>8. ASSUME NEW r \in Request, DisputeCreate(r) \/ DisputeJob(r)
      PROVE  Trails'
  <2>1. task[r].job \in Job /\ disputes \in [Job -> Nat]
    BY <1>8 DEF DisputeCreate, DisputeJob, TrailInv, TypeOK, DataTypeOK, TaskTypeOK, SlotOK
  <2>2. disputes'[task[r].job] > 0
    <3>1. CASE DisputeCreate(r)
      BY <2>1, <3>1 DEF DisputeCreate
    <3>2. CASE DisputeJob(r)
      BY <2>1, <3>2 DEF DisputeJob, rows, TrailInv, Trails, OnTrail
    <3> QED
      BY <1>8, <3>1, <3>2
  <2>3. Finish(r) \/ Goto(r, "dis_job") \/ Goto(r, "dis_freeze")
    BY <1>8 DEF DisputeCreate, DisputeJob
  <2> QED
    BY <1>0, <2>2, <2>3, TrailGoes, TrailEnds
<1> QED
  BY <1>1, <1>2, <1>3, <1>4, <1>5, <1>6, <1>7, <1>8
     DEF Next, Proceed, Confirm, Lapse, Webhook, ExpireLock, vars, escrowVars

(* An intent is made, paid and recorded in this order. *)
LEMMA UnmadeStep == TrailInv /\ [Next]_vars => Unmade'
<1> SUFFICES ASSUME TrailInv, [Next]_vars, NEW i \in Intent, intent'[i] = "none"
             PROVE  tx'[i] = "NONE" /\ meta'[i].job = None
  BY DEF Unmade
<1> USE DEF TrailInv, TypeOK, DataTypeOK
<1>1. CASE UNCHANGED <<tx, meta, intent>>
  BY <1>1 DEF Unmade
<1>2. ASSUME NEW r \in Request, FundCreate(r)
      PROVE  tx'[i] = "NONE" /\ meta'[i].job = None
  BY <1>2 DEF FundCreate, Unmade
<1>3. ASSUME NEW r \in Request, Unlock(r) \/ ReleaseCapture(r)
      PROVE  tx'[i] = "NONE" /\ meta'[i].job = None
  <2>1. intent[i] = "none"
    BY <1>3 DEF Unlock, ReleaseCapture
  <2> QED
    BY <1>3, <2>1 DEF Unlock, ReleaseCapture, rows, Unmade
<1>4. ASSUME NEW r \in Request, ReleaseClaim(r) \/ ReleaseReject(r) \/ ReleaseRollback(r)
      PROVE  tx'[i] = "NONE" /\ meta'[i].job = None
  <2>1. UNCHANGED <<intent, meta>>
    BY <1>4 DEF ReleaseClaim, ReleaseReject, ReleaseRollback
  <2>2. tx[i] = "NONE" => tx'[i] = "NONE"
    BY <1>4 DEF ReleaseClaim, ReleaseReject, ReleaseRollback, Unclaim
  <2> QED
    BY <2>1, <2>2 DEF Unmade
<1>5. ASSUME NEW r \in Request, DisputeFreeze(r)
      PROVE  tx'[i] = "NONE" /\ meta'[i].job = None
  BY <1>5 DEF DisputeFreeze, Unmade
<1>6. ASSUME NEW k \in Intent, Confirm(k) \/ Lapse(k) \/ Webhook(k)
      PROVE  tx'[i] = "NONE" /\ meta'[i].job = None
  BY <1>6 DEF Confirm, Lapse, Webhook, rows, Unmade
<1> HIDE DEF TrailInv, TypeOK, DataTypeOK
<1> QED
  BY <1>1, <1>2, <1>3, <1>4, <1>5, <1>6
     DEF Next, Proceed, FundRead, ReleaseLock, DisputeRead, FundLock, FundFind,
         ReleaseFind, ReleaseComplete, DisputeCheck, DisputeCreate, DisputeJob,
         Throw, Crash, ExpireLock, vars, escrowVars, rows

(* A job is completed only by a request that has captured a row of it. *)
LEMMA PaidStep == TrailInv /\ [Next]_vars => CompletedIsPaid'
<1> SUFFICES ASSUME TrailInv, [Next]_vars, NEW j \in Job, job'[j].status = "COMPLETED"
             PROVE  \E i \in Intent : meta'[i].job = j /\ intent'[i] = "captured"
  BY DEF CompletedIsPaid, RowsOf
<1>1. Grows
  BY StepGrows
<1>2. CASE job[j].status = "COMPLETED"
  BY <1>1, <1>2, StoreAssumption DEF TrailInv, CompletedIsPaid, RowsOf, Grows
<1>3. ASSUME NEW r \in Request, ReleaseComplete(r), task[r].job = j
      PROVE  \E i \in Intent : meta'[i].job = j /\ intent'[i] = "captured"
  <2>1. task[r].at = "rel_complete" /\ UNCHANGED <<meta, intent>>
    BY <1>3 DEF ReleaseComplete, At, rows
  <2>2. task[r].row \in Intent
    BY <2>1, RowKnown DEF TrailInv, RowSteps
  <2>3. meta[task[r].row].job = j /\ intent[task[r].row] = "captured"
    BY <1>3, <2>1 DEF TrailInv, Trails, OnTrail, RowSteps
  <2> QED
    BY <2>1, <2>2, <2>3
<1>4. ASSUME NEW r \in Request, ReleaseComplete(r), task[r].job # j
      PROVE  job[j].status = "COMPLETED"
  BY <1>4 DEF ReleaseComplete, TrailInv, TypeOK, DataTypeOK, StoreTypeOK
<1>5. ASSUME NEW r \in Request, DisputeJob(r)
      PROVE  job[j].status = "COMPLETED"
  BY <1>5 DEF DisputeJob, TrailInv, TypeOK, DataTypeOK, StoreTypeOK
<1>6. UNCHANGED job \/ \E r \in Request : ReleaseComplete(r) \/ DisputeJob(r)
  BY DEF Next, Proceed, FundRead, ReleaseLock, DisputeRead, FundLock, FundFind, FundCreate,
         Unlock, ReleaseFind, ReleaseClaim, ReleaseCapture, ReleaseReject, ReleaseRollback,
         DisputeCheck, DisputeCreate, DisputeFreeze, Throw, Crash, Confirm, Lapse, Webhook,
         ExpireLock, vars, escrowVars
<1> QED
  BY <1>2, <1>3, <1>4, <1>5, <1>6

(* A job or a row is frozen only by a request that has recorded a dispute.  *)
LEMMA DisputedStep == TrailInv /\ [Next]_vars => DisputedHasDispute'
<1> SUFFICES ASSUME TrailInv, [Next]_vars, NEW j \in Job,
                    \/ job'[j].status = "DISPUTED"
                    \/ \E i \in Intent : meta'[i].job = j /\ tx'[i] = "DISPUTED"
             PROVE  disputes'[j] > 0
  BY DEF DisputedHasDispute, RowsOf
<1> DEFINE Frozen == \/ job[j].status = "DISPUTED"
                     \/ \E i \in Intent : meta[i].job = j /\ tx[i] = "DISPUTED"
<1>1. Grows
  BY StepGrows
<1>2. CASE Frozen
  BY <1>1, <1>2 DEF TrailInv, DisputedHasDispute, RowsOf, Grows
<1>3. ASSUME NEW r \in Request, DisputeJob(r) \/ DisputeFreeze(r)
      PROVE  disputes'[j] > 0
  <2>1. CASE task[r].job = j
    <3>1. task[r].at \in {"dis_job", "dis_freeze"}
      BY <1>3 DEF DisputeJob, DisputeFreeze, At
    <3>2. disputes[j] > 0
      BY <2>1, <3>1 DEF TrailInv, Trails, OnTrail
    <3> QED
      BY <1>1, <3>2 DEF Grows
  <2>2. CASE task[r].job # j
    <3>1. UNCHANGED meta
      BY <1>3 DEF DisputeJob, DisputeFreeze, rows
    <3>2. job'[j].status = job[j].status
      BY <1>3, <2>2 DEF DisputeJob, DisputeFreeze, TrailInv, TypeOK, DataTypeOK, StoreTypeOK
    <3>3. \A i \in Intent : meta[i].job = j => tx'[i] = tx[i]
      BY <1>3, <2>2 DEF DisputeJob, DisputeFreeze, RowsOf, rows
    <3>4. Frozen
      BY <3>1, <3>2, <3>3
    <3> QED
      BY <1>2, <3>4
  <2> QED
    BY <2>1, <2>2
<1>4. ASSUME NEW r \in Request, FundCreate(r)
      PROVE  Frozen
  <2>1. PICK k \in Intent :
             /\ intent[k] = "none"
             /\ meta' = [meta EXCEPT ![k] = [job |-> task[r].job, payee |-> task[r].payee]]
    BY <1>4 DEF FundCreate
  <2>2. tx[k] = "NONE" /\ UNCHANGED <<job, tx>>
    BY <1>4, <2>1 DEF FundCreate, TrailInv, Unmade
  <2>3. \A i \in Intent \ {k} : meta'[i] = meta[i]
    BY <2>1 DEF TrailInv, TypeOK, DataTypeOK
  <2> QED
    BY <2>2, <2>3
<1>5. ASSUME NEW r \in Request, ReleaseComplete(r)
      PROVE  Frozen
  BY <1>5 DEF ReleaseComplete, rows, TrailInv, TypeOK, DataTypeOK, StoreTypeOK
<1>6. ASSUME NEW r \in Request,
             ReleaseClaim(r) \/ ReleaseReject(r) \/ ReleaseRollback(r)
      PROVE  Frozen
  <2>1. UNCHANGED <<job, meta>>
    BY <1>6 DEF ReleaseClaim, ReleaseReject, ReleaseRollback
  <2>2. \A i \in Intent : tx'[i] = "DISPUTED" => tx[i] = "DISPUTED"
    BY <1>6 DEF ReleaseClaim, ReleaseReject, ReleaseRollback, Unclaim,
                TrailInv, TypeOK, DataTypeOK
  <2> QED
    BY <2>1, <2>2
<1>7. ASSUME NEW i \in Intent, Webhook(i)
      PROVE  Frozen
  BY <1>7 DEF Webhook, TrailInv, TypeOK, DataTypeOK
<1>8. CASE UNCHANGED <<job, meta, tx>>
  BY <1>2, <1>8
<1> HIDE DEF Frozen
<1> QED
  BY <1>2, <1>3, <1>4, <1>5, <1>6, <1>7, <1>8
     DEF Next, Proceed, FundRead, ReleaseLock, DisputeRead, FundLock, FundFind, Unlock,
         ReleaseFind, ReleaseCapture, DisputeCheck, DisputeCreate, Throw, Crash, Confirm,
         Lapse, ExpireLock, vars, escrowVars, rows

LEMMA TrailInductive == TrailInv /\ [Next]_vars => TrailInv'
  BY TypingStep, TrailsStep, UnmadeStep, PaidStep, DisputedStep DEF TrailInv

(* A job is completed only after an intent made for it was captured.        *)
THEOREM CompletedIsPaidHolds == Spec => []CompletedIsPaid
  BY TrailInitial, TrailInductive, PTL DEF Spec, TrailInv

(* Nothing is frozen without a dispute on record.                           *)
THEOREM DisputedHasDisputeHolds == Spec => []DisputedHasDispute
  BY TrailInitial, TrailInductive, PTL DEF Spec, TrailInv
-----------------------------------------------------------------------------
(* Disputes.  The look for an active dispute and its insert are two steps,  *)
(* so what bounds the number of disputes is how many requests have looked   *)
(* and not yet inserted.  Once a job has a dispute, none joins them.        *)

Creating(j) == {r \in Request : At(r, "dis_create") /\ task[r].job = j}

DisputeInv ==
  \A j \in Job :
    disputes[j] > 0 => disputes[j] + Cardinality(Creating(j)) <= Cardinality(Request)

(* Some of the requests, counted; one of them taken away.                   *)
LEMMA SomeRequests ==
  ASSUME NEW S \in SUBSET Request
  PROVE  /\ Cardinality(S) \in Nat /\ Cardinality(Request) \in Nat
         /\ Cardinality(S) <= Cardinality(Request)
         /\ \A T \in SUBSET S : Cardinality(T) \in Nat /\ Cardinality(T) <= Cardinality(S)
         /\ \A r \in S : Cardinality(S \ {r}) = Cardinality(S) - 1
<1>1. IsFiniteSet(Request) /\ IsFiniteSet(S)
  BY EscrowAssumption, FS_Subset DEF EscrowAssumption
<1> QED
  BY <1>1, FS_Subset, FS_CardinalityType, FS_RemoveElement

(* A slot takes up a task that is not an insert; the others keep theirs.    *)
LEMMA NoneJoins ==
  ASSUME TypeOK, NEW r \in Request, NEW t, task' = [task EXCEPT ![r] = t],
         t.at # "dis_create", NEW j \in Job
  PROVE  Creating(j)' = Creating(j) \ {r}
  BY DEF TypeOK, TaskTypeOK, Creating, At

LEMMA NoneJoinsGoing ==
  ASSUME TypeOK, NEW r \in Request, NEW step, step # "dis_create", Goto(r, step),
         NEW j \in Job
  PROVE  Creating(j)' = Creating(j) \ {r}
<1> DEFINE t == [task[r] EXCEPT !.at = step]
<1>1. t.at = step
  BY DEF TypeOK, TaskTypeOK, Task
<1>2. task' = [task EXCEPT ![r] = t]
  BY DEF Goto
<1> HIDE DEF t
<1> QED
  BY <1>1, <1>2, NoneJoins

LEMMA NoneJoinsEnding ==
  ASSUME TypeOK, NEW r \in Request, Finish(r), NEW j \in Job
  PROVE  Creating(j)' = Creating(j) \ {r}
<1>1. Idle.at # "dis_create"
  BY DEF Idle
<1> QED
  BY <1>1, NoneJoins DEF Finish

(* Only the look for a dispute sends a request to the insert.               *)
LEMMA OthersDoNotJoin ==
  ASSUME TypeOK, [Next]_vars, \A r \in Request : ~DisputeCheck(r), NEW j \in Job
  PROVE  Creating(j)' \subseteq Creating(j)
<1>1. CASE UNCHANGED task
  BY <1>1 DEF Creating, At
<1>2. ASSUME NEW r \in Request, Finish(r) \/ \E step \in Step \ {"dis_create"} : Goto(r, step)
      PROVE  Creating(j)' \subseteq Creating(j)
  BY <1>2, NoneJoinsGoing, NoneJoinsEnding
<1>3. ASSUME NEW r \in Request, NEW k \in Job,
             FundRead(r, k) \/ ReleaseLock(r, k) \/ DisputeRead(r, k)
      PROVE  Creating(j)' \subseteq Creating(j)
  <2>1. UNCHANGED task \/ \E t : t.at # "dis_create" /\ task' = [task EXCEPT ![r] = t]
    <3>1. ASSUME NEW f \in Freelancer
          PROVE  [Idle EXCEPT !.at = "fund_lock", !.job = k, !.payee = f].at # "dis_create"
      BY DEF Idle
    <3>2. [Idle EXCEPT !.at = "rel_find", !.job = k].at # "dis_create"
      BY DEF Idle
    <3>3. [Idle EXCEPT !.at = "dis_check", !.job = k, !.was = job[k].status].at
            # "dis_create"
      BY DEF Idle
    <3> QED
      BY <1>3, <3>1, <3>2, <3>3 DEF FundRead, ReleaseLock, DisputeRead
  <2> QED
    BY <1>1, <2>1, NoneJoins
<1>4. ASSUME NEW r \in Request, FundCreate(r) \/ ReleaseFind(r)
      PROVE  Creating(j)' \subseteq Creating(j)
  <2>1. CASE Goto(r, "unlock")
    BY <2>1, NoneJoinsGoing
  <2>2. ASSUME NEW i, NEW step \in {"unlock", "rel_claim"},
               task' = [task EXCEPT ![r] = [@ EXCEPT !.at = step, !.row = i]]
        PROVE  Creating(j)' \subseteq Creating(j)
    <3> DEFINE t == [task[r] EXCEPT !.at = step, !.row = i]
    <3>1. t.at # "dis_create"
      BY DEF TypeOK, TaskTypeOK, Task
    <3>2. task' = [task EXCEPT ![r] = t]
      BY <2>2
    <3> HIDE DEF t
    <3> QED
      BY <3>1, <3>2, NoneJoins
  <2> QED
    BY <1>4, <2>1, <2>2 DEF FundCreate, ReleaseFind
<1>5. ASSUME NEW r \in Request,
             \/ FundLock(r) \/ FundFind(r) \/ Unlock(r) \/ ReleaseClaim(r) \/ ReleaseCapture(r)
             \/ ReleaseReject(r) \/ ReleaseRollback(r) \/ ReleaseComplete(r)
             \/ DisputeCreate(r) \/ DisputeJob(r) \/ DisputeFreeze(r) \/ Throw(r) \/ Crash(r)
      PROVE  Creating(j)' \subseteq Creating(j)
  <2>1. Finish(r) \/ \E step \in Step \ {"dis_create"} : Goto(r, step)
    BY <1>5 DEF FundLock, FundFind, Unlock, ReleaseClaim, ReleaseCapture, ReleaseReject,
                ReleaseRollback, ReleaseComplete, DisputeCreate, DisputeJob, DisputeFreeze,
                Throw, Crash, Step, Locked, Disputing
  <2> QED
    BY <1>2, <2>1
<1> QED
  BY <1>1, <1>3, <1>4, <1>5
     DEF Next, Proceed, Confirm, Lapse, Webhook, ExpireLock, vars, escrowVars

LEMMA DisputeOpens == EscrowInit => DisputeInv
  BY DEF EscrowInit, DisputeInv

LEMMA DisputeStep == TypeOK /\ DisputeInv /\ [Next]_vars => DisputeInv'
<1> SUFFICES ASSUME TypeOK, DisputeInv, [Next]_vars, NEW j \in Job, disputes'[j] > 0
             PROVE  disputes'[j] + Cardinality(Creating(j)') <= Cardinality(Request)
  BY DEF DisputeInv
<1>1. /\ disputes \in [Job -> Nat]
      /\ Creating(j) \in SUBSET Request /\ Cardinality(Creating(j)) \in Nat
      /\ Cardinality(Request) \in Nat /\ Cardinality(Creating(j)) <= Cardinality(Request)
  BY SomeRequests DEF TypeOK, DataTypeOK, Creating
<1>2. ASSUME disputes'[j] = disputes[j], Creating(j)' \subseteq Creating(j)
      PROVE  disputes'[j] + Cardinality(Creating(j)') <= Cardinality(Request)
  <2>1. /\ Cardinality(Creating(j)') \in Nat
        /\ Cardinality(Creating(j)') <= Cardinality(Creating(j))
    BY <1>1, <1>2, SomeRequests
  <2> QED
    BY <1>1, <1>2, <2>1 DEF DisputeInv
<1>3. ASSUME NEW r \in Request, DisputeCheck(r)
      PROVE  disputes'[j] + Cardinality(Creating(j)') <= Cardinality(Request)
  <2>1. At(r, "dis_check") /\ disputes' = disputes
    BY <1>3 DEF DisputeCheck, rows
  <2>2. task[r].job # j
          \/ Finish(r)
    BY <1>3, <2>1 DEF DisputeCheck
  <2>3. CASE Finish(r)
    BY <1>2, <2>1, <2>3, NoneJoinsEnding
  <2>4. CASE task[r].job # j
    <3>1. \A s \in Request : task'[s] = task[s] \/ (s = r /\ task'[r].job # j) \/ task'[s].at = "idle"
      BY <1>3, <2>4 DEF DisputeCheck, Finish, Goto, Idle, TypeOK, TaskTypeOK, Task
    <3>2. Creating(j)' \subseteq Creating(j)
      BY <3>1 DEF Creating, At
    <3> QED
      BY <1>2, <2>1, <3>2
  <2> QED
    BY <2>2, <2>3, <2>4
<1>4. ASSUME NEW r \in Request, DisputeCreate(r)
      PROVE  disputes'[j] + Cardinality(Creating(j)') <= Cardinality(Request)
  <2>1. Creating(j)' = Creating(j) \ {r}
    BY <1>4, NoneJoinsGoing, NoneJoinsEnding DEF DisputeCreate
  <2>2. CASE task[r].job # j
    BY <1>1, <1>2, <1>4, <2>1, <2>2 DEF DisputeCreate
  <2>3. CASE task[r].job = j
    <3>1. r \in Creating(j) /\ disputes'[j] = disputes[j] + 1
      BY <1>1, <1>4, <2>3 DEF DisputeCreate, Creating
    <3>2. Cardinality(Creating(j)') = Cardinality(Creating(j)) - 1
      BY <1>1, <2>1, <3>1, SomeRequests
    <3> QED
      BY <1>1, <3>1, <3>2 DEF DisputeInv
  <2> QED
    BY <2>2, <2>3
<1>5. CASE \A r \in Request : ~DisputeCheck(r) /\ ~DisputeCreate(r)
  <2>1. disputes' = disputes
    BY <1>5
       DEF Next, Proceed, FundRead, ReleaseLock, DisputeRead, FundLock, FundFind, FundCreate,
           Unlock, ReleaseFind, ReleaseClaim, ReleaseCapture, ReleaseReject, ReleaseRollback,
           ReleaseComplete, DisputeJob, DisputeFreeze, Throw, Crash, Confirm, Lapse, Webhook,
           ExpireLock, vars, escrowVars, rows
  <2> QED
    BY <1>2, <1>5, <2>1, OthersDoNotJoin
<1> QED
  BY <1>3, <1>4, <1>5

LEMMA DisputeFromInv == TypeOK /\ DisputeInv => DisputesBounded
<1> SUFFICES ASSUME TypeOK, DisputeInv, NEW j \in Job
             PROVE  disputes[j] <= Cardinality(Request)
  BY DEF DisputesBounded
<1>1. /\ disputes[j] \in Nat /\ Cardinality(Creating(j)) \in Nat
      /\ Cardinality(Request) \in Nat
  BY SomeRequests DEF TypeOK, DataTypeOK, Creating
<1> QED
  BY <1>1 DEF DisputeInv

(* However many parties raise disputes and however long they go on, a job   *)
(* gets at most one dispute for each request that was under way.            *)
THEOREM DisputesBoundedHolds == Spec => []DisputesBounded
<1>1. Init => DisputeInv
  BY DisputeOpens DEF Init
<1> QED
  BY <1>1, Typing0, TypingStep, DisputeStep, DisputeFromInv, PTL DEF Spec
=============================================================================
