------------------------------- MODULE Escrow -------------------------------
(***************************************************************************)
(* The money path of Freelanci: funding and releasing an escrow            *)
(* (routes/payments.ts), the Stripe webhook that records it                *)
(* (routes/webhooks.ts) and the disputes that freeze it                    *)
(* (routes/disputes.ts), over the lock of utils/lock.ts.                   *)
(*                                                                         *)
(* A request is a slot that runs one handler at a time.  A handler is      *)
(* split at every await that another request can come between; checks that *)
(* end in an error answer change nothing and have no action.  Any call to  *)
(* Postgres, Stripe or Redis may fail before or after its effect, and any  *)
(* request may die with its server.                                        *)
(***************************************************************************)
EXTENDS Store, Naturals, FiniteSets

CONSTANTS Intent,          \* Stripe PaymentIntents; also the ids of escrow rows
          Request,         \* request slots, over all server instances
          WebhookMounted   \* does app.ts route /api/webhooks/stripe?

ASSUME EscrowAssumption ==
  /\ None \notin Intent \cup Request
  /\ IsFiniteSet(Request)
  /\ WebhookMounted \in BOOLEAN

VARIABLES tx,        \* the escrow row of an intent, NONE until it is created
          intent,    \* the state of an intent at Stripe
          meta,      \* metadata stored with an intent: job and payee
          disputes,  \* number of active disputes per job
          lock, holds, lapsed,  \* utils/lock.ts
          task,      \* what each request slot is doing
          lost,      \* history: intents whose claim was cut short by a failure
          redone     \* history: intents with a rollback done, reported as failed

lockVars == <<lock, holds, lapsed>>
rows == <<tx, meta, disputes>>
ghosts == <<lost, redone>>
escrowVars == <<tx, intent, meta, disputes, lockVars, task, ghosts>>
vars == <<job, bid, escrowVars>>

Lock == INSTANCE RedisLock WITH Key <- Job

TxStatus == {"NONE", "HELD", "RELEASED", "DISPUTED"}
IntentState == {"none", "created", "offered", "authorised", "captured", "void"}

Locked == {"fund_find", "fund_create", "rel_find", "rel_claim", "rel_capture",
           "rel_reject", "rel_rollback", "rel_complete", "unlock"}
ClaimWindow == {"rel_capture", "rel_reject", "rel_rollback"}
RowSteps == ClaimWindow \cup {"rel_claim", "rel_complete"}
Disputing == {"dis_check", "dis_create", "dis_job", "dis_freeze"}
Step == {"idle", "fund_lock"} \cup Locked \cup Disputing

Task == [at : Step, job : Job \cup {None}, row : Intent \cup {None},
         payee : Freelancer \cup {None}, was : JobStatus \cup {None}]
Idle == [at |-> "idle", job |-> None, row |-> None, payee |-> None, was |-> None]

At(r, step) == task[r].at = step
Goto(r, step) == task' = [task EXCEPT ![r].at = step]
Finish(r) == task' = [task EXCEPT ![r] = Idle]

RowsOf(j) == {i \in Intent : meta[i].job = j}
Claims(r, i) == task[r].at \in ClaimWindow /\ task[r].row = i

DataTypeOK ==
  /\ StoreTypeOK
  /\ tx \in [Intent -> TxStatus]
  /\ intent \in [Intent -> IntentState]
  /\ meta \in [Intent -> [job : Job \cup {None}, payee : Freelancer \cup {None}]]
  /\ disputes \in [Job -> Nat]
  /\ lost \subseteq Intent
  /\ redone \subseteq Intent

(* What a slot that holds key k can be doing: it is inside withLock exactly *)
(* in the Locked steps, and knows its row from the claim on.                *)
SlotOK(t, k) ==
  /\ t.at # "idle" => t.job \in Job
  /\ k = IF t.at \in Locked THEN t.job ELSE None
  /\ t.at \in RowSteps => t.row \in Intent

TaskTypeOK ==
  /\ task \in [Request -> Task]
  /\ holds \in [Request -> Job \cup {None}]
  /\ \A r \in Request : SlotOK(task[r], holds[r])

TypeOK == DataTypeOK /\ Lock!LockTypeOK /\ TaskTypeOK

(* The state of escrow before anything is funded. *)
EscrowInit ==
  /\ tx = [i \in Intent |-> "NONE"]
  /\ intent = [i \in Intent |-> "none"]
  /\ meta = [i \in Intent |-> [job |-> None, payee |-> None]]
  /\ disputes = [j \in Job |-> 0]
  /\ Lock!LockInit
  /\ task = [r \in Request |-> Idle]
  /\ lost = {}
  /\ redone = {}

(* On its own the module starts where hiring ended: every job has a hired  *)
(* freelancer, whose bid is the accepted one.                              *)
Init ==
  /\ \E f \in [Job -> Freelancer] :
       /\ job = [j \in Job |-> [status |-> "IN_PROGRESS", hired |-> f[j]]]
       /\ bid = [j \in Job |-> [g \in Freelancer |->
                                  IF g = f[j] THEN "ACCEPTED" ELSE "NONE"]]
  /\ EscrowInit

-----------------------------------------------------------------------------
(* POST /api/payments/fund/:jobId *)

(* Mutant: the bids are read without their status. *)
FundReadAnyBid(r, j) ==
  /\ At(r, "idle")
  /\ job[j].status = "IN_PROGRESS"
  /\ \E f \in Freelancer :
       /\ bid[j][f] # "NONE"
       /\ task' = [task EXCEPT ![r] = [Idle EXCEPT !.at = "fund_lock", !.job = j,
                                                   !.payee = f]]
  /\ UNCHANGED <<job, bid, rows, intent, lockVars, ghosts>>

(* The job and its accepted bid are read before the lock is asked for. *)
FundRead(r, j) ==
  /\ At(r, "idle")
  /\ job[j].status = "IN_PROGRESS"
  /\ \E f \in Freelancer :
       /\ bid[j][f] = "ACCEPTED"
       /\ task' = [task EXCEPT ![r] = [Idle EXCEPT !.at = "fund_lock", !.job = j,
                                                   !.payee = f]]
  /\ UNCHANGED <<job, bid, rows, intent, lockVars, ghosts>>

FundLock(r) ==
  /\ At(r, "fund_lock")
  /\ \/ Lock!Acquire(r, task[r].job) /\ Goto(r, "fund_find")
     \/ Lock!AcquireUnseen(r, task[r].job) /\ Finish(r)
     \/ lock[task[r].job] # None /\ Finish(r) /\ UNCHANGED lockVars
  /\ UNCHANGED <<job, bid, rows, intent, ghosts>>

FundFind(r) ==
  /\ At(r, "fund_find")
  /\ IF \E i \in RowsOf(task[r].job) : tx[i] \in {"HELD", "RELEASED"}
     THEN Goto(r, "unlock")
     ELSE Goto(r, "fund_create")
  /\ UNCHANGED <<job, bid, rows, intent, lockVars, ghosts>>

(* paymentIntents.create; Stripe may create it and the answer be lost. *)
FundCreate(r) ==
  /\ At(r, "fund_create")
  /\ \E i \in Intent :
       /\ intent[i] = "none"
       /\ intent' = [intent EXCEPT ![i] = "created"]
       /\ meta' = [meta EXCEPT ![i] = [job |-> task[r].job, payee |-> task[r].payee]]
       /\ \E known \in {i, None} :
            task' = [task EXCEPT ![r] = [@ EXCEPT !.at = "unlock", !.row = known]]
  /\ UNCHANGED <<job, bid, tx, disputes, lockVars, ghosts>>

(* Mutant: the lock is given back without comparing its token. *)
UnlockAnyOwner(r) ==
  /\ At(r, "unlock")
  /\ Lock!DeleteKey(r, task[r].job) /\ Lock!Exit(r)
  /\ intent' = intent
  /\ Finish(r)
  /\ UNCHANGED <<job, bid, rows, ghosts>>

(* The finally of withLock, then the answer: a funding that succeeded      *)
(* sends the client secret, which may or may not arrive.                   *)
Unlock(r) ==
  /\ At(r, "unlock")
  /\ Lock!Leave(r, task[r].job) \/ Lock!Abandon(r, task[r].job)
  /\ \/ UNCHANGED intent
     \/ \E i \in Intent :
          /\ task[r].row = i /\ intent[i] = "created"
          /\ intent' = [intent EXCEPT ![i] = "offered"]
  /\ Finish(r)
  /\ UNCHANGED <<job, bid, rows, ghosts>>

-----------------------------------------------------------------------------
(* Stripe, and POST /api/webhooks/stripe *)

(* The client confirms the payment: the funds are authorised, not taken. *)
Confirm(i) ==
  /\ intent[i] = "offered"
  /\ intent' = [intent EXCEPT ![i] = "authorised"]
  /\ UNCHANGED <<job, bid, rows, lockVars, task, ghosts>>

(* An authorisation that is not captured in time is cancelled by Stripe. *)
Lapse(i) ==
  /\ intent[i] = "authorised"
  /\ intent' = [intent EXCEPT ![i] = "void"]
  /\ UNCHANGED <<job, bid, rows, lockVars, task, ghosts>>

(* Mutant: the row is upserted, so a redelivered event resets it. *)
WebhookUpsert(i) ==
  /\ WebhookMounted
  /\ intent[i] \in {"authorised", "captured", "void"}
  /\ tx' = [tx EXCEPT ![i] = "HELD"]
  /\ UNCHANGED <<job, bid, intent, meta, disputes, lockVars, task, ghosts>>

(* amount_capturable_updated, sent again until it is answered 200: at any  *)
(* time after the authorisation, any number of times.  A second insert     *)
(* fails on the unique intent id and changes nothing.  Where no router is  *)
(* mounted on the path, every delivery is answered 404 and changes nothing.*)
Webhook(i) ==
  /\ WebhookMounted
  /\ tx[i] = "NONE" /\ intent[i] \in {"authorised", "captured", "void"}
  /\ tx' = [tx EXCEPT ![i] = "HELD"]
  /\ UNCHANGED <<job, bid, intent, meta, disputes, lockVars, task, ghosts>>

-----------------------------------------------------------------------------
(* POST /api/payments/release/:jobId *)

ReleaseLock(r, j) ==
  /\ At(r, "idle")
  /\ \/ /\ Lock!Acquire(r, j)
        /\ task' = [task EXCEPT ![r] = [Idle EXCEPT !.at = "rel_find", !.job = j]]
     \/ Lock!AcquireUnseen(r, j) /\ UNCHANGED task
  /\ UNCHANGED <<job, bid, rows, intent, ghosts>>

(* Mutant: "no transaction" is not checked for. *)
ReleaseFindUnchecked(r) ==
  /\ At(r, "rel_find")
  /\ \E i \in RowsOf(task[r].job) \cup {None} :
       /\ i # None => tx[i] = "HELD"
       /\ task' = [task EXCEPT ![r] = [@ EXCEPT !.at = "rel_claim", !.row = i]]
  /\ UNCHANGED <<job, bid, rows, intent, lockVars, ghosts>>

ReleaseFind(r) ==
  /\ At(r, "rel_find")
  /\ LET held == {i \in RowsOf(task[r].job) : tx[i] = "HELD"}
     IN  \/ held = {} /\ Goto(r, "unlock")
         \/ \E i \in held :
              task' = [task EXCEPT ![r] = [@ EXCEPT !.at = "rel_claim", !.row = i]]
  /\ UNCHANGED <<job, bid, rows, intent, lockVars, ghosts>>

(* Mutant: the claim is an update by id, without "still HELD". *)
ReleaseClaimBlind(r) ==
  /\ At(r, "rel_claim")
  /\ tx' = [tx EXCEPT ![task[r].row] = "RELEASED"]
  /\ Goto(r, "rel_capture")
  /\ UNCHANGED <<job, bid, meta, disputes, intent, lockVars, ghosts>>

(* The claim: HELD -> RELEASED if still HELD.  When its answer is lost the *)
(* handler throws before the try that would roll it back.                  *)
ReleaseClaim(r) ==
  /\ At(r, "rel_claim")
  /\ \/ /\ tx[task[r].row] = "HELD"
        /\ tx' = [tx EXCEPT ![task[r].row] = "RELEASED"]
        /\ \/ Goto(r, "rel_capture") /\ UNCHANGED lost
           \/ Goto(r, "unlock") /\ lost' = lost \cup {task[r].row}
     \/ /\ tx[task[r].row] # "HELD"
        /\ Goto(r, "unlock")
        /\ UNCHANGED <<tx, lost>>
  /\ UNCHANGED <<job, bid, meta, disputes, intent, lockVars, redone>>

(* Mutant: a capture that did not succeed is taken for one that did. *)
ReleaseCaptureUnchecked(r) ==
  /\ At(r, "rel_capture")
  /\ \/ /\ intent[task[r].row] = "authorised"
        /\ intent' = [intent EXCEPT ![task[r].row] = "captured"]
     \/ UNCHANGED intent
  /\ Goto(r, "rel_complete")
  /\ UNCHANGED <<job, bid, rows, lockVars, ghosts>>

(* Mutant: a refused capture does not roll the claim back. *)
ReleaseCaptureNoRollback(r) ==
  /\ At(r, "rel_capture")
  /\ \/ /\ intent[task[r].row] = "authorised"
        /\ intent' = [intent EXCEPT ![task[r].row] = "captured"]
        /\ Goto(r, "rel_complete")
     \/ UNCHANGED intent /\ Goto(r, "unlock")
  /\ UNCHANGED <<job, bid, rows, lockVars, ghosts>>

(* paymentIntents.capture: done; or refused, by an answer that is not      *)
(* "succeeded" or by an exception; or done with its answer lost, which the *)
(* catch takes for a failure.                                              *)
ReleaseCapture(r) ==
  /\ At(r, "rel_capture")
  /\ \/ /\ intent[task[r].row] = "authorised"
        /\ intent' = [intent EXCEPT ![task[r].row] = "captured"]
        /\ \/ Goto(r, "rel_complete") /\ UNCHANGED lost
           \/ Goto(r, "rel_rollback") /\ lost' = lost \cup {task[r].row}
     \/ /\ Goto(r, "rel_reject") \/ Goto(r, "rel_rollback")
        /\ UNCHANGED <<intent, lost>>
  /\ UNCHANGED <<job, bid, rows, lockVars, redone>>

(* RELEASED -> HELD if still RELEASED. *)
Unclaim(i) == tx' = [tx EXCEPT ![i] = IF @ = "RELEASED" THEN "HELD" ELSE @]

(* The rollback inside the try, after an answer that is not "succeeded".   *)
(* When it throws, done or not, the catch rolls back once more.            *)
ReleaseReject(r) ==
  /\ At(r, "rel_reject")
  /\ \/ Unclaim(task[r].row) /\ Goto(r, "unlock") /\ UNCHANGED redone
     \/ /\ Unclaim(task[r].row) /\ Goto(r, "rel_rollback")
        /\ redone' = redone \cup {task[r].row}
     \/ Goto(r, "rel_rollback") /\ UNCHANGED <<tx, redone>>
  /\ UNCHANGED <<job, bid, meta, disputes, intent, lockVars, lost>>

(* Mutant: the rollback looks for the row under its old status. *)
ReleaseRollbackMisses(r) ==
  /\ At(r, "rel_rollback")
  /\ Goto(r, "unlock")
  /\ UNCHANGED <<job, bid, rows, intent, lockVars, ghosts>>

(* The rollback in the catch; it may fail too. *)
ReleaseRollback(r) ==
  /\ At(r, "rel_rollback")
  /\ \/ Unclaim(task[r].row) /\ UNCHANGED lost
     \/ lost' = lost \cup {task[r].row} /\ UNCHANGED tx
  /\ Goto(r, "unlock")
  /\ UNCHANGED <<job, bid, meta, disputes, intent, lockVars, redone>>

(* The job is completed, whatever its status has become. *)
ReleaseComplete(r) ==
  /\ At(r, "rel_complete")
  /\ job' = [job EXCEPT ![task[r].job].status = "COMPLETED"]
  /\ Goto(r, "unlock")
  /\ UNCHANGED <<bid, rows, intent, lockVars, ghosts>>

-----------------------------------------------------------------------------
(* POST /api/disputes/:jobId *)

DisputeRead(r, j) ==
  /\ At(r, "idle")
  /\ job[j].status # "NONE"
  /\ task' = [task EXCEPT ![r] = [Idle EXCEPT !.at = "dis_check", !.job = j,
                                              !.was = job[j].status]]
  /\ UNCHANGED <<job, bid, rows, intent, lockVars, ghosts>>

(* Mutant: the job is frozen before the dispute is recorded. *)
DisputeCheckSkipsCreate(r) ==
  /\ At(r, "dis_check")
  /\ IF disputes[task[r].job] > 0 THEN Finish(r) ELSE Goto(r, "dis_job")
  /\ UNCHANGED <<job, bid, rows, intent, lockVars, ghosts>>

(* Mutant: no look for an active dispute. *)
DisputeCheckBlind(r) ==
  /\ At(r, "dis_check")
  /\ Goto(r, "dis_create")
  /\ UNCHANGED <<job, bid, rows, intent, lockVars, ghosts>>

DisputeCheck(r) ==
  /\ At(r, "dis_check")
  /\ IF disputes[task[r].job] > 0 THEN Finish(r) ELSE Goto(r, "dis_create")
  /\ UNCHANGED <<job, bid, rows, intent, lockVars, ghosts>>

(* Mutant: any disputed job is frozen, whatever its status was. *)
DisputeCreateFreezes(r) ==
  /\ At(r, "dis_create")
  /\ disputes' = [disputes EXCEPT ![task[r].job] = @ + 1]
  /\ Goto(r, "dis_job")
  /\ UNCHANGED <<job, bid, tx, meta, intent, lockVars, ghosts>>

(* Only a job that WAS in progress when it was read is frozen. *)
DisputeCreate(r) ==
  /\ At(r, "dis_create")
  /\ disputes' = [disputes EXCEPT ![task[r].job] = @ + 1]
  /\ IF task[r].was = "IN_PROGRESS" THEN Goto(r, "dis_job") ELSE Finish(r)
  /\ UNCHANGED <<job, bid, tx, meta, intent, lockVars, ghosts>>

DisputeJob(r) ==
  /\ At(r, "dis_job")
  /\ job' = [job EXCEPT ![task[r].job].status = "DISPUTED"]
  /\ Goto(r, "dis_freeze")
  /\ UNCHANGED <<bid, rows, intent, lockVars, ghosts>>

(* Mutant: every escrow row of the job is frozen, claimed ones too. *)
DisputeFreezeAll(r) ==
  /\ At(r, "dis_freeze")
  /\ tx' = [i \in Intent |-> IF i \in RowsOf(task[r].job) /\ tx[i] # "NONE"
                             THEN "DISPUTED" ELSE tx[i]]
  /\ Finish(r)
  /\ UNCHANGED <<job, bid, meta, disputes, intent, lockVars, ghosts>>

(* The held rows are frozen; the answer 201 may be lost. *)
DisputeFreeze(r) ==
  /\ At(r, "dis_freeze")
  /\ tx' = [i \in Intent |-> IF i \in RowsOf(task[r].job) /\ tx[i] = "HELD"
                             THEN "DISPUTED" ELSE tx[i]]
  /\ Finish(r)
  /\ UNCHANGED <<job, bid, meta, disputes, intent, lockVars, ghosts>>

-----------------------------------------------------------------------------
(* A call fails without effect.  Inside withLock the handler still runs    *)
(* the finally; outside it answers 500.  (A capture or a rollback that     *)
(* fails is part of its own action.)                                       *)
Throw(r) ==
  /\ \/ task[r].at \in Locked \ (ClaimWindow \cup {"unlock"}) /\ Goto(r, "unlock")
     \/ task[r].at \in Disputing \cup {"fund_lock"} /\ Finish(r)
  /\ UNCHANGED <<job, bid, rows, intent, lockVars, ghosts>>

(* The server dies: the lock stays until its TTL, a claim stays for good. *)
Crash(r) ==
  /\ ~At(r, "idle")
  /\ IF holds[r] = None THEN UNCHANGED lockVars ELSE Lock!Abandon(r, holds[r])
  /\ lost' = lost \cup {i \in Intent : Claims(r, i)}
  /\ Finish(r)
  /\ UNCHANGED <<job, bid, rows, intent, redone>>

ExpireLock(j) == Lock!Expire(j) /\ UNCHANGED <<job, bid, rows, intent, task, ghosts>>

(* The next step of the handler r is in. *)
Proceed(r) ==
  \/ FundLock(r) \/ FundFind(r) \/ FundCreate(r) \/ Unlock(r)
  \/ ReleaseFind(r) \/ ReleaseClaim(r) \/ ReleaseCapture(r)
  \/ ReleaseReject(r) \/ ReleaseRollback(r) \/ ReleaseComplete(r)
  \/ DisputeCheck(r) \/ DisputeCreate(r) \/ DisputeJob(r) \/ DisputeFreeze(r)
  \/ Throw(r)

Next ==
  \/ \E r \in Request : \/ \E j \in Job : \/ FundRead(r, j)
                                          \/ ReleaseLock(r, j)
                                          \/ DisputeRead(r, j)
                        \/ Proceed(r)
                        \/ Crash(r)
  \/ \E i \in Intent : Confirm(i) \/ Lapse(i) \/ Webhook(i)
  \/ \E j \in Job : ExpireLock(j)

(* A started handler runs on, Redis expires keys, Stripe redelivers events. *)
Fairness ==
  /\ \A r \in Request : WF_vars(Proceed(r))
  /\ \A j \in Job : WF_vars(ExpireLock(j))
  /\ \A i \in Intent : WF_vars(Webhook(i))

Spec == Init /\ [][Next]_vars /\ Fairness

-----------------------------------------------------------------------------

(* "This is the real double-release guard and holds even across multiple   *)
(* server instances" (payments.ts:112-113): no two requests are between    *)
(* the claim and its capture or rollback on one row, lapsed lock or not,   *)
(* and the row they work on stays RELEASED meanwhile.  The exception is a  *)
(* row rolled back twice (payments.ts:127 and 136).                        *)
ClaimExclusive ==
  \A r \in Request, i \in Intent \ redone :
    Claims(r, i) => /\ tx[i] = "RELEASED"
                    /\ \A s \in Request : Claims(s, i) => s = r

(* Money moves only under a claim: a capture at Stripe takes place while   *)
(* the row is RELEASED, so never on a row that a dispute froze (DISPUTED)  *)
(* or that no webhook recorded, unless its claim was rolled back twice.    *)
CaptureOnlyClaimed ==
  [][\A i \in Intent \ redone : intent'[i] = "captured" /\ intent[i] # "captured"
                         => tx[i] = "RELEASED" /\ tx'[i] = "RELEASED"]_vars

(* A row that was released or frozen, and that no request is working on,   *)
(* never changes again: neither a redelivered webhook, nor a late          *)
(* rollback, nor a second dispute or release brings it back.               *)
SettledFinal ==
  [][\A i \in Intent :
       tx[i] \in {"RELEASED", "DISPUTED"} /\ (\A r \in Request : ~Claims(r, i))
         => tx'[i] = tx[i]]_vars

(* The escrow table agrees with Stripe: unless the claim on it was cut     *)
(* short or rolled back twice by a failure, an intent is captured exactly  *)
(* when its row is RELEASED and no request still works on it               *)
(* (payments.ts:110-140).                                                  *)
LedgerMatchesStripe ==
  \A i \in Intent \ (lost \cup redone) :
    intent[i] = "captured" <=> tx[i] = "RELEASED" /\ \A r \in Request : ~Claims(r, i)

(* A job becomes COMPLETED only once some intent made for it is captured   *)
(* (payments.ts:142-145), whatever failed on the way.                      *)
CompletedIsPaid ==
  \A j \in Job : job[j].status = "COMPLETED"
                   => \E i \in RowsOf(j) : intent[i] = "captured"

(* Whatever is frozen, job or escrow row, has a dispute on record that an  *)
(* administrator can see (disputes.ts:45-64).                              *)
DisputedHasDispute ==
  \A j \in Job : job[j].status = "DISPUTED" \/ (\E i \in RowsOf(j) : tx[i] = "DISPUTED")
                   => disputes[j] > 0

(* "Prevent multiple disputes" (disputes.ts:35-43): the look and the insert *)
(* are two steps with no constraint behind them, so parties that raise one *)
(* at the same moment all succeed; but never more of them than requests    *)
(* were under way together, however often and however long they go on.     *)
DisputesBounded == \A j \in Job : disputes[j] <= Cardinality(Request)

(* "Serialise all release attempts for this job" (payments.ts:99-100): two *)
(* requests are inside withLock for one job only if the lease of one of    *)
(* them ran out, so the lock serialises them but for slow ones.            *)
SerialUnlessLapsed ==
  \A r, s \in Request :
    /\ r # s /\ task[r].job = task[s].job
    /\ task[r].at \in Locked /\ task[s].at \in Locked
    => r \in lapsed \/ s \in lapsed

(* The lock as payments.ts uses it, with its failures, is the lock of      *)
(* RedisLock: escrow inherits what is proved there.                        *)
LockRefined == Lock!LockSpec

(* "Funds are held in escrow" (webhooks.ts:40): a payment that the client  *)
(* authorised is recorded some day, since Stripe redelivers the event.     *)
(* It does not hold as app.ts stands: line 79 takes the event's raw body   *)
(* and nothing on lines 183-192 routes it to webhooks.ts, so with          *)
(* WebhookMounted = FALSE no payment is ever recorded.                     *)
AuthorisedRecorded ==
  \A i \in Intent : intent[i] = "authorised" ~> tx[i] # "NONE"

(* The row of an intent as Ledger sees it. *)
Mark == [NONE |-> "none", HELD |-> "held", DISPUTED |-> "frozen"]

Standing(i) ==
  IF i \in lost \cup redone THEN "stranded"
  ELSE IF tx[i] # "RELEASED" THEN Mark[tx[i]]
  ELSE IF intent[i] = "captured" THEN "paid" ELSE "claimed"

ledger == [i \in Intent |-> Standing(i)]

Book == INSTANCE Ledger WITH Row <- Intent, state <- ledger

(* The table keeps the promises of Ledger: a row goes from held to claimed *)
(* to paid or back, is frozen only while held, and no claim stays open,    *)
(* whatever locks lapse, answers are lost or events come twice             *)
(* (payments.ts:112-140, disputes.ts:58-62, webhooks.ts:31-44).            *)
LedgerRefined == Book!LedgerSpec

(* A request that got past the "already funded?" check cannot add a second *)
(* escrow record to a job: one job, one escrow row (payments.ts:48-50).    *)
OneEscrowPerJob ==
  \A i, k \in Intent :
    tx[i] # "NONE" /\ tx[k] # "NONE" /\ meta[i].job = meta[k].job => i = k
=============================================================================
