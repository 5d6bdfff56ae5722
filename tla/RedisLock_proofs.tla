--------------------------- MODULE RedisLock_proofs --------------------------
(* What the lease of RedisLock guarantees for every set of callers and keys. *)
EXTENDS RedisLock, TLAPS

LEMMA LockInitial == LockInit => LockIInv
  BY NoneAssumption DEF LockInit, LockIInv, LockTypeOK, LockInv

(* The step is stated without the specification, so that a module that      *)
(* composes the lock with other components can cite it.                     *)
LEMMA LockInductive == LockIInv /\ [LockNext]_lockVars => LockIInv'
<1> USE NoneAssumption DEF LockIInv, LockTypeOK, LockInv
<1> SUFFICES ASSUME LockIInv, [LockNext]_lockVars
             PROVE  LockIInv'
  OBVIOUS
<1>1. ASSUME NEW r \in Request, NEW k \in Key, Acquire(r, k)
      PROVE  LockIInv'
  BY <1>1 DEF Acquire, SetNX
<1>2. ASSUME NEW r \in Request, NEW k \in Key, AcquireUnseen(r, k)
      PROVE  LockIInv'
  BY <1>2 DEF AcquireUnseen, SetNX
<1>3. ASSUME NEW r \in Request, NEW k \in Key, Leave(r, k)
      PROVE  LockIInv'
  BY <1>3 DEF Leave, CompareAndDelete, Exit
<1>4. ASSUME NEW r \in Request, NEW k \in Key, Abandon(r, k)
      PROVE  LockIInv'
  BY <1>4 DEF Abandon, Exit
<1>5. ASSUME NEW k \in Key, Expire(k)
      PROVE  LockIInv'
  BY <1>5 DEF Expire
<1>6. CASE UNCHANGED lockVars
  BY <1>6 DEF lockVars
<1> QED
  BY <1>1, <1>2, <1>3, <1>4, <1>5, <1>6 DEF LockNext

(* Typing and the invariant that ties a caller to its token hold in every   *)
(* reachable state.                                                         *)
THEOREM LockInvariance == LockSpec => []LockIInv
  BY LockInitial, LockInductive, PTL DEF LockSpec

LEMMA ExclusionFromInv == LockIInv => LeaseExclusion
  BY DEF LockIInv, LockTypeOK, LockInv, LeaseExclusion

(* For any number of callers and keys: at most one caller of a key is       *)
(* inside fn with its lease still running.                                  *)
THEOREM LeaseExclusionHolds == LockSpec => []LeaseExclusion
  BY LockInitial, LockInductive, ExclusionFromInv, PTL DEF LockSpec

(* No step of the lock takes a caller's token away except the caller's own  *)
(* exit and the TTL.                                                        *)
THEOREM OwnerKeepsLockHolds == LockSpec => OwnerKeepsLock
<1> DEFINE Kept == \A r \in Request, k \in Key :
                     holds[r] = k /\ lock[k] = r /\ lock'[k] # r
                       => lock'[k] = None /\ (holds'[r] = None \/ r \in lapsed')
<1>1. ASSUME LockIInv, [LockNext]_lockVars
      PROVE  [Kept]_lockVars
  <2> USE NoneAssumption DEF LockIInv, LockTypeOK, LockInv
  <2> SUFFICES ASSUME NEW r \in Request, NEW k \in Key,
                      holds[r] = k, lock[k] = r, lock'[k] # r
               PROVE  lock'[k] = None /\ (holds'[r] = None \/ r \in lapsed')
    OBVIOUS
  <2>1. ASSUME NEW s \in Request, NEW m \in Key, Acquire(s, m) \/ AcquireUnseen(s, m)
        PROVE  FALSE
    BY <1>1, <2>1 DEF Acquire, AcquireUnseen, SetNX
  <2>2. ASSUME NEW s \in Request, NEW m \in Key, Leave(s, m)
        PROVE  lock'[k] = None /\ holds'[r] = None
    BY <1>1, <2>2 DEF Leave, CompareAndDelete, Exit
  <2>3. ASSUME NEW s \in Request, NEW m \in Key, Abandon(s, m)
        PROVE  FALSE
    BY <2>3 DEF Abandon
  <2>4. ASSUME NEW m \in Key, Expire(m)
        PROVE  lock'[k] = None /\ r \in lapsed'
    BY <1>1, <2>4 DEF Expire
  <2>5. ASSUME UNCHANGED lockVars
        PROVE  FALSE
    BY <2>5 DEF lockVars
  <2> QED
    BY <1>1, <2>1, <2>2, <2>3, <2>4, <2>5 DEF LockNext
<1> QED
  BY <1>1, LockInitial, LockInductive, PTL DEF LockSpec, OwnerKeepsLock
=============================================================================
