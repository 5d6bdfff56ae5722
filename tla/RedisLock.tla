------------------------------ MODULE RedisLock ------------------------------
(***************************************************************************)
(* withLock(key, fn, ttlMs) of src/backend/src/utils/lock.ts: a mutual     *)
(* exclusion lock kept in one Redis key, taken with SET NX PX and given    *)
(* back by a script that deletes the key only if it still holds the        *)
(* caller's token.  The token is a fresh UUID per call; a request stands   *)
(* for its own token, which is sound because a request inside withLock     *)
(* whose token was removed can never find it there again (LockInv).        *)
(*                                                                         *)
(* The lock is a lease: the TTL may run out while the caller is still      *)
(* inside fn.  "lapsed" is a history variable that remembers those         *)
(* callers; the program cannot see it.                                     *)
(***************************************************************************)

CONSTANTS Request,  \* calls of withLock, on any server instance
          Key,      \* what is locked
          None      \* "no owner" of a key, "no key" of a request

ASSUME NoneAssumption == None \notin Request \cup Key

VARIABLES lock,     \* lock[k]: the token stored under lock:k, or None
          holds,    \* holds[r]: the key r runs fn under, or None
          lapsed    \* the requests inside fn whose key has left Redis

lockVars == <<lock, holds, lapsed>>

LockTypeOK ==
  /\ lock \in [Key -> Request \cup {None}]
  /\ holds \in [Request -> Key \cup {None}]
  /\ lapsed \subseteq Request

LockInit ==
  /\ lock = [k \in Key |-> None]
  /\ holds = [r \in Request |-> None]
  /\ lapsed = {}

-----------------------------------------------------------------------------

(* Mutant: SET without NX. *)
SetPX(r, k) == lock' = [lock EXCEPT ![k] = r]

(* redis.set(lockKey, token, 'PX', ttlMs, 'NX') answering OK. *)
SetNX(r, k) == /\ lock[k] = None
               /\ lock' = [lock EXCEPT ![k] = r]

(* Mutant: DEL without comparing the token. *)
DeleteKey(r, k) == lock' = [lock EXCEPT ![k] = None]

(* RELEASE_SCRIPT: delete the key only if it still holds our token. *)
CompareAndDelete(r, k) == lock' = [lock EXCEPT ![k] = IF @ = r THEN None ELSE @]

Exit(r) == /\ holds' = [holds EXCEPT ![r] = None]
           /\ lapsed' = lapsed \ {r}

(* SET took effect and OK came back: the caller runs fn. *)
Acquire(r, k) == /\ holds[r] = None
                 /\ SetNX(r, k)
                 /\ holds' = [holds EXCEPT ![r] = k]
                 /\ UNCHANGED lapsed

(* SET took effect but its answer was lost.  The client resends it once    *)
(* (maxRetriesPerRequest 1) and is refused by its own first SET, or gives  *)
(* up: either way fn does not run and the key stays until its TTL.  A SET  *)
(* that was refused for another owner changes nothing and has no action.   *)
AcquireUnseen(r, k) == /\ holds[r] = None
                       /\ SetNX(r, k)
                       /\ UNCHANGED <<holds, lapsed>>

(* The finally block: the script ran, whatever fn returned or threw. *)
Leave(r, k) == /\ holds[r] = k
               /\ CompareAndDelete(r, k)
               /\ Exit(r)

(* The script could not be run ("will expire via TTL") or the server died  *)
(* inside fn.  A script that reaches Redis late has the effect of an early *)
(* Expire: its token matches nothing but the key it was issued for.        *)
Abandon(r, k) == /\ holds[r] = k
                 /\ Exit(r)
                 /\ UNCHANGED lock

(* Mutant: SET without PX, no key ever expires. *)
ExpireWithoutPX(k) == FALSE

(* The TTL runs out, or Redis loses the key in a restart, at any moment. *)
Expire(k) == /\ lock[k] # None
             /\ lock' = [lock EXCEPT ![k] = None]
             /\ lapsed' = lapsed \cup {r \in Request : lock[k] = r /\ holds[r] = k}
             /\ UNCHANGED holds

LockNext == \/ \E r \in Request, k \in Key : \/ Acquire(r, k)
                                             \/ AcquireUnseen(r, k)
                                             \/ Leave(r, k)
                                             \/ Abandon(r, k)
            \/ \E k \in Key : Expire(k)

(* Redis removes a key whose TTL has run out. *)
LockFairness == \A k \in Key : WF_lockVars(Expire(k))

LockSpec == LockInit /\ [][LockNext]_lockVars /\ LockFairness

-----------------------------------------------------------------------------

(* A caller inside fn has lapsed exactly when the key no longer holds its  *)
(* token, so a lapsed caller can never delete the key of its successor     *)
(* (lock.ts:13-15), and only callers inside fn lapse.  With the typing     *)
(* this is the inductive invariant.                                        *)
LockInv == /\ \A r \in Request :
                holds[r] # None => (r \in lapsed <=> lock[holds[r]] # r)
           /\ \A r \in lapsed : holds[r] # None

LockIInv == LockTypeOK /\ LockInv

(* Two callers run fn under one key only if the lease of one of them ran   *)
(* out: this is all the mutual exclusion withLock gives (lock.ts:5-16).    *)
LeaseExclusion ==
  \A r, s \in Request :
    r # s /\ holds[r] # None /\ holds[r] = holds[s] => r \in lapsed \/ s \in lapsed

(* "we only ever release a lock we still hold" (lock.ts:13-15): a token    *)
(* leaves Redis only when its own caller leaves fn or its TTL runs out,    *)
(* never by what another caller, late or lapsed, does.                     *)
OwnerKeepsLock ==
  [][\A r \in Request, k \in Key :
       holds[r] = k /\ lock[k] = r /\ lock'[k] # r
         => lock'[k] = None /\ (holds'[r] = None \/ r \in lapsed')]_lockVars

(* "will expire via TTL" (lock.ts:41): whatever its owner does or fails to *)
(* do, a key is free again some day.                                       *)
LockReclaimed == \A k \in Key : lock[k] # None ~> lock[k] = None
=============================================================================
