--------------------------- MODULE Lockout_proofs ---------------------------
(***************************************************************************)
(* The bound on guesses, for any number of overlapping logins, servers and *)
(* any threshold and window.                                               *)
(***************************************************************************)
EXTENDS Lockout, FiniteSetTheorems, TLAPS

(* Logins that passed the check and logins about to lock are different.    *)
LEMMA CountsOf ==
  ASSUME NEW slots
  PROVE  LET Passed == {l \in Login : slots[l].at = "checked"}
             AtLock == {l \in Login : slots[l].at = "lock"}
         IN  /\ IsFiniteSet(Passed) /\ IsFiniteSet(AtLock)
             /\ Cardinality(Login) \in Nat
             /\ Cardinality(Passed) \in Nat /\ Cardinality(AtLock) \in Nat
             /\ Cardinality(Passed) + Cardinality(AtLock) <= Cardinality(Login)
<1> DEFINE Passed == {l \in Login : slots[l].at = "checked"}
<1> DEFINE AtLock == {l \in Login : slots[l].at = "lock"}
<1>1. /\ Passed \in SUBSET Login /\ AtLock \in SUBSET Login
      /\ (Passed \cup AtLock) \in SUBSET Login
  OBVIOUS
<1>2. Passed \cap AtLock = {}
  OBVIOUS
<1> HIDE DEF Passed, AtLock
<1>3. IsFiniteSet(Passed) /\ IsFiniteSet(AtLock) /\ IsFiniteSet(Login)
  BY <1>1, FS_Subset, LockoutAssumption DEF LockoutAssumption
<1>4. /\ Cardinality(Passed) \in Nat /\ Cardinality(AtLock) \in Nat
      /\ Cardinality(Login) \in Nat
  BY <1>3, FS_CardinalityType
<1>5. Cardinality(Passed \cup AtLock) = Cardinality(Passed) + Cardinality(AtLock) - 0
  BY <1>2, <1>3, FS_Union, FS_EmptySet
<1>6. Cardinality(Passed \cup AtLock) <= Cardinality(Login)
  BY <1>1, <1>3, FS_Subset
<1>7. /\ IsFiniteSet(Passed) /\ IsFiniteSet(AtLock)
      /\ Cardinality(Login) \in Nat
      /\ Cardinality(Passed) \in Nat /\ Cardinality(AtLock) \in Nat
      /\ Cardinality(Passed) + Cardinality(AtLock) <= Cardinality(Login)
  BY <1>3, <1>4, <1>5, <1>6
<1> QED
  BY <1>7 DEF Passed, AtLock

LEMMA Counts ==
  /\ IsFiniteSet(Checked) /\ IsFiniteSet(Locking)
  /\ Cardinality(Login) \in Nat
  /\ Cardinality(Checked) \in Nat /\ Cardinality(Locking) \in Nat
  /\ Cardinality(Checked) + Cardinality(Locking) <= Cardinality(Login)
BY CountsOf DEF Checked, Locking, At

(* One login moves; at most that one joins or leaves either set.           *)
LEMMA OneMoves ==
  ASSUME TypeOK, NEW l \in Login, NEW t, login' = [login EXCEPT ![l] = t]
  PROVE  /\ Checked' = IF t.at = "checked" THEN Checked \cup {l} ELSE Checked \ {l}
         /\ Locking' = IF t.at = "lock" THEN Locking \cup {l} ELSE Locking \ {l}
<1>1. \A k \in Login : login'[k] = IF k = l THEN t ELSE login[k]
  BY DEF TypeOK
<1> QED
  BY <1>1 DEF Checked, Locking, At

LEMMA OneCounted ==
  ASSUME TypeOK, NEW l \in Login, NEW t, login' = [login EXCEPT ![l] = t]
  PROVE  /\ Cardinality(Checked') + (IF At(l, "checked") THEN 1 ELSE 0)
              = Cardinality(Checked) + (IF t.at = "checked" THEN 1 ELSE 0)
         /\ Cardinality(Locking') + (IF At(l, "lock") THEN 1 ELSE 0)
              = Cardinality(Locking) + (IF t.at = "lock" THEN 1 ELSE 0)
<1>1. /\ IsFiniteSet(Checked) /\ IsFiniteSet(Locking)
      /\ Cardinality(Checked) \in Nat /\ Cardinality(Locking) \in Nat
  BY Counts
<1>2. (l \in Checked <=> At(l, "checked")) /\ (l \in Locking <=> At(l, "lock"))
  BY DEF Checked, Locking
<1>3. /\ Cardinality(Checked \cup {l})
           = IF l \in Checked THEN Cardinality(Checked) ELSE Cardinality(Checked) + 1
      /\ Cardinality(Checked \ {l})
           = IF l \in Checked THEN Cardinality(Checked) - 1 ELSE Cardinality(Checked)
      /\ Cardinality(Locking \cup {l})
           = IF l \in Locking THEN Cardinality(Locking) ELSE Cardinality(Locking) + 1
      /\ Cardinality(Locking \ {l})
           = IF l \in Locking THEN Cardinality(Locking) - 1 ELSE Cardinality(Locking)
  BY <1>1, FS_AddElement, FS_RemoveElement
<1>4. /\ Checked' = IF t.at = "checked" THEN Checked \cup {l} ELSE Checked \ {l}
      /\ Locking' = IF t.at = "lock" THEN Locking \cup {l} ELSE Locking \ {l}
  BY OneMoves
<1> QED
  BY <1>1, <1>2, <1>3, <1>4

LEMMA GotoCounted ==
  ASSUME TypeOK, NEW l \in Login, NEW step \in Step, Goto(l, step)
  PROVE  /\ Cardinality(Checked') + (IF At(l, "checked") THEN 1 ELSE 0)
              = Cardinality(Checked) + (IF step = "checked" THEN 1 ELSE 0)
         /\ Cardinality(Locking') + (IF At(l, "lock") THEN 1 ELSE 0)
              = Cardinality(Locking) + (IF step = "lock" THEN 1 ELSE 0)
<1> DEFINE t == [login[l] EXCEPT !.at = step]
<1>1. t.at = step
  BY DEF TypeOK
<1>2. login' = [login EXCEPT ![l] = t]
  BY DEF Goto
<1> HIDE DEF t
<1> QED
  BY <1>1, <1>2, OneCounted

LEMMA LockoutInitial == Init => GuessIInv
<1> SUFFICES ASSUME Init PROVE GuessIInv
  OBVIOUS
<1>1. TypeOK
  BY LockoutAssumption DEF Init, TypeOK, LockoutAssumption, Empty, Idle, At, Step
<1>2. guesses = 0 /\ failed = 0 /\ lockTTL = 0 /\ Cardinality(Locking) \in Nat
  BY <1>1, Counts DEF Init
<1> QED
  BY <1>1, <1>2, LockoutAssumption DEF GuessIInv, GuessInv, CounterExpires, LockoutAssumption

(* Typing is kept by every step. *)
LEMMA LockoutTyping == TypeOK /\ [Next]_vars => TypeOK'
<1> SUFFICES ASSUME TypeOK, [Next]_vars PROVE TypeOK'
  OBVIOUS
<1> USE LockoutAssumption DEF LockoutAssumption
<1> DEFINE Entry == [n : Nat, ttl : 0..Window, lock : 0..Window]
<1> DEFINE Slot == [at : Step, on : Server \cup {None}, n : Nat]
<1> DEFINE SlotTypeOK(t) == t \in Slot /\ (t.at # "idle" => t.on \in Server)
<1>1. ASSUME NEW l \in Login, NEW t, SlotTypeOK(t), login' = [login EXCEPT ![l] = t]
      PROVE  /\ login' \in [Login -> Slot]
             /\ \A k \in Login : ~At(k, "idle")' => login'[k].on \in Server
  BY <1>1 DEF TypeOK, At
<1>2. SlotTypeOK(Idle)
  BY DEF Idle, Step
<1>3. ASSUME NEW l \in Login, ~At(l, "idle"), NEW step \in Step
      PROVE  SlotTypeOK([login[l] EXCEPT !.at = step])
  BY <1>3 DEF TypeOK, At
<1>4. ASSUME NEW l \in Login, ~At(l, "idle"), NEW n \in Nat
      PROVE  SlotTypeOK(IF n >= MaxAttempts THEN [login[l] EXCEPT !.at = "lock", !.n = n]
                                            ELSE Idle)
  <2>1. SlotTypeOK([login[l] EXCEPT !.at = "lock", !.n = n])
    BY <1>4 DEF TypeOK, At, Step
  <2> QED
    BY <1>2, <2>1
<1> HIDE DEF SlotTypeOK
<1>5. ASSUME NEW l \in Login, ~At(l, "idle"), CountInMemory(l)
      PROVE  /\ memory' \in [Server -> Entry] /\ health' = "degraded"
             /\ login' \in [Login -> Slot]
             /\ \A k \in Login : ~At(k, "idle")' => login'[k].on \in Server
  <2>1. login[l].on \in Server /\ memory \in [Server -> Entry]
    BY <1>5 DEF TypeOK
  <2> DEFINE m == IF memory[login[l].on].ttl > 0 THEN memory[login[l].on].n + 1 ELSE 1
  <2>2. m \in Nat
    BY <2>1
  <2>3. /\ memory' = [memory EXCEPT ![login[l].on] = [n |-> m, ttl |-> Window, lock |-> 0]]
        /\ Counted(l, m) /\ health' = "degraded"
    BY <1>5 DEF CountInMemory
  <2> HIDE DEF m
  <2>4. memory' \in [Server -> Entry]
    BY <2>1, <2>2, <2>3
  <2> QED
    BY <1>1, <1>4, <1>5, <2>2, <2>3, <2>4 DEF Counted
<1>6. ASSUME NEW l \in Login, NEW v \in Server, CheckLockout(l, v)
      PROVE  TypeOK'
  <2>1. SlotTypeOK([at |-> "checked", on |-> v, n |-> 0])
    BY DEF SlotTypeOK, Step
  <2> QED
    BY <1>1, <1>6, <2>1 DEF CheckLockout, TypeOK, redisVars
<1>7. ASSUME NEW l \in Login, RecordFailure(l)
      PROVE  TypeOK'
  <2>1. ~At(l, "idle") /\ failed + 1 \in Nat /\ guesses + 1 \in Nat
    BY <1>7 DEF RecordFailure, At, TypeOK
  <2>2. CASE /\ failed' = failed + 1 /\ guesses' = guesses + 1
             /\ IF failed' = 1 THEN Goto(l, "expire") ELSE Counted(l, failed')
             /\ UNCHANGED <<memory, health, failedTTL, lockTTL>>
    <3>1. "expire" \in Step
      BY DEF Step
    <3> QED
      BY <1>1, <1>3, <1>4, <2>1, <2>2, <3>1 DEF Goto, Counted, TypeOK
  <2>3. CASE failed' \in {failed, failed + 1} /\ CountInMemory(l)
             /\ UNCHANGED <<guesses, failedTTL, lockTTL>>
    BY <1>5, <2>1, <2>3 DEF TypeOK
  <2> QED
    BY <1>7, <2>2, <2>3 DEF RecordFailure
<1>8. ASSUME NEW l \in Login, SetExpiry(l)
      PROVE  TypeOK'
  <2>1. ~At(l, "idle") /\ UNCHANGED <<failed, lockTTL, guesses>>
    BY <1>8 DEF SetExpiry, At
  <2>2. CASE Finish(l) /\ failedTTL' = (IF failed > 0 THEN Window ELSE 0)
             /\ UNCHANGED <<memory, health>>
    <3>1. failedTTL' \in 0..Window
      BY <2>2
    <3> QED
      BY <1>1, <1>2, <2>1, <2>2, <3>1 DEF Finish, TypeOK
  <2>3. CASE CountInMemory(l)
             /\ failedTTL' \in {failedTTL, IF failed > 0 THEN Window ELSE 0}
    <3>1. failedTTL' \in 0..Window
      BY <2>3 DEF TypeOK
    <3> QED
      BY <1>5, <2>1, <2>3, <3>1 DEF TypeOK
  <2> QED
    BY <1>8, <2>2, <2>3 DEF SetExpiry
<1>9. ASSUME NEW l \in Login, LockAccount(l)
      PROVE  TypeOK'
  <2>1. login[l].on \in Server /\ login[l].n \in Nat
    BY <1>9 DEF LockAccount, At, TypeOK
  <2>2. memory' \in [Server -> Entry] /\ lockTTL' \in 0..Window /\ health' \in {"ok", "degraded"}
    <3> DEFINE v == login[l].on
    <3> DEFINE entry == IF memory[v] # Empty THEN memory[v]
                        ELSE [n |-> login[l].n, ttl |-> Window, lock |-> 0]
    <3>1. entry \in Entry
      BY <2>1 DEF TypeOK
    <3>2. [entry EXCEPT !.lock = Window] \in Entry
      BY <3>1
    <3>3. \/ lockTTL' = Window /\ UNCHANGED <<memory, health>>
          \/ /\ memory' = [memory EXCEPT ![v] = [entry EXCEPT !.lock = Window]]
             /\ health' = "degraded" /\ lockTTL' \in {lockTTL, Window}
      BY <1>9 DEF LockAccount
    <3> HIDE DEF entry
    <3> QED
      BY <2>1, <3>2, <3>3 DEF TypeOK
  <2>3. Finish(l) /\ UNCHANGED <<failed, failedTTL, guesses>>
    BY <1>9 DEF LockAccount
  <2> QED
    BY <1>1, <1>2, <2>2, <2>3 DEF Finish, TypeOK
<1>10. ASSUME NEW l \in Login, PasswordValid(l) \/ ResetAttempts(l)
       PROVE  TypeOK'
  <2>1. ~At(l, "idle") /\ {"reset", "reset_lock"} \subseteq Step
    BY <1>10 DEF PasswordValid, ResetAttempts, At, Step
  <2> QED
    BY <1>1, <1>3, <1>10, <2>1 DEF PasswordValid, ResetAttempts, Goto, TypeOK, redisVars
<1>11. ASSUME NEW l \in Login, ResetLock(l) \/ Drop(l)
       PROVE  TypeOK'
  <2>1. Empty \in Entry
    BY DEF Empty
  <2>2. memory' \in [Server -> Entry]
    BY <1>11, <2>1 DEF ResetLock, Drop, TypeOK
  <2> QED
    BY <1>1, <1>2, <1>11, <2>2 DEF ResetLock, Drop, Finish, TypeOK, redisVars
<1>12. ASSUME NEW v \in Server, Restart(v)
       PROVE  TypeOK'
  <2>1. Empty \in Entry
    BY DEF Empty
  <2>2. memory' \in [Server -> Entry] /\ health' = "degraded" /\ UNCHANGED <<redisVars, guesses>>
    BY <1>12, <2>1 DEF Restart, TypeOK
  <2>3. \A l \in Login : SlotTypeOK(login[l])
    BY DEF SlotTypeOK, TypeOK, At
  <2>4. login' \in [Login -> Slot]
        /\ \A k \in Login : ~At(k, "idle")' => login'[k].on \in Server
    BY <1>2, <1>12, <2>3 DEF Restart, SlotTypeOK, At
  <2> QED
    BY <2>2, <2>4 DEF TypeOK, redisVars
<1>13. CASE Tick
  <2>1. \A x \in 0..Window : Older(x) \in 0..Window
    BY DEF Older
  <2>2. ASSUME NEW e \in Entry
        PROVE  Aged(e) \in Entry
    <3>1. Empty \in Entry
      BY DEF Empty
    <3>2. Older(e.ttl) \in 0..Window /\ Older(e.lock) \in 0..Window
      BY <2>1
    <3>3. [e EXCEPT !.ttl = Older(@), !.lock = Older(@)] \in Entry
      BY <3>2
    <3> QED
      BY <3>1, <3>3 DEF Aged
  <2>3. memory' \in [Server -> Entry]
    BY <1>13, <2>2 DEF Tick, TypeOK
  <2>4. failedTTL' \in 0..Window /\ lockTTL' \in 0..Window
    BY <1>13, <2>1 DEF Tick, TypeOK
  <2> QED
    BY <1>13, <2>3, <2>4 DEF Tick, TypeOK, At
<1>14. CASE UNCHANGED vars
  BY <1>14 DEF vars, redisVars, TypeOK, At
<1> QED
  BY <1>6, <1>7, <1>8, <1>9, <1>10, <1>11, <1>12, <1>13, <1>14 DEF Next, Proceed

-----------------------------------------------------------------------------

(* No step, other than a failing one, brings Redis or a dead server back.  *)
LEMMA HealthStep == TypeOK /\ [Next]_vars /\ health' = "ok" => health = "ok"
BY DEF Next, Proceed, CheckLockout, RecordFailure, CountInMemory, SetExpiry, LockAccount,
       PasswordValid, ResetAttempts, ResetLock, Drop, Restart, Tick, vars, TypeOK

(* Each step keeps the count within what the logins under way can add.     *)
LEMMA GuessStep == GuessIInv /\ [Next]_vars => GuessInv'
<1> SUFFICES ASSUME GuessIInv, [Next]_vars, (health = "ok")'
             PROVE  /\ guesses' <= failed'
                    /\ IF lockTTL' = 0
                       THEN guesses' < MaxAttempts + Cardinality(Locking')
                       ELSE guesses' + Cardinality(Checked')
                              < MaxAttempts + Cardinality(Login)
  BY DEF GuessInv
<1> DEFINE Bound == /\ guesses' <= failed'
                    /\ IF lockTTL' = 0
                       THEN guesses' < MaxAttempts + Cardinality(Locking')
                       ELSE guesses' + Cardinality(Checked')
                              < MaxAttempts + Cardinality(Login)
<1> DEFINE c == Cardinality(Checked)
<1> DEFINE k == Cardinality(Locking)
<1> DEFINE cc == Cardinality(Checked')
<1> DEFINE kk == Cardinality(Locking')
<1> DEFINE N == Cardinality(Login)
<1>0. /\ TypeOK /\ TypeOK'
      /\ MaxAttempts \in Nat /\ MaxAttempts > 1 /\ Window \in Nat /\ Window > 0
      /\ failed \in Nat /\ guesses \in Nat /\ lockTTL \in Nat
  BY LockoutTyping, LockoutAssumption DEF GuessIInv, LockoutAssumption, TypeOK
<1>1. c \in Nat /\ k \in Nat /\ N \in Nat /\ c + k <= N
  BY <1>0, Counts
<1>2. cc \in Nat /\ kk \in Nat /\ cc + kk <= N
  BY CountsOf DEF Checked, Locking, At
<1>3. health = "ok"
  BY <1>0, HealthStep
<1>4. /\ guesses <= failed
      /\ lockTTL = 0 => guesses < MaxAttempts + k
      /\ lockTTL # 0 => guesses + c < MaxAttempts + N
  BY <1>3 DEF GuessIInv, GuessInv
<1> DEFINE Was(l, step) == IF At(l, step) THEN 1 ELSE 0
<1> DEFINE Becomes(at, step) == IF at = step THEN 1 ELSE 0
<1>5. ASSUME NEW l \in Login, NEW t, login' = [login EXCEPT ![l] = t]
      PROVE  /\ cc + Was(l, "checked") = c + Becomes(t.at, "checked")
             /\ kk + Was(l, "lock") = k + Becomes(t.at, "lock")
  BY <1>0, <1>5, OneCounted
<1>6. ASSUME NEW l \in Login, NEW step \in Step, Goto(l, step)
      PROVE  /\ cc + Was(l, "checked") = c + Becomes(step, "checked")
             /\ kk + Was(l, "lock") = k + Becomes(step, "lock")
  BY <1>0, <1>6, GotoCounted
<1>7. UNCHANGED login => cc = c /\ kk = k
  BY DEF Checked, Locking, At
<1> HIDE DEF c, k, cc, kk, N
(* The bound with nothing counted: an idle or fresh account. *)
<1>8. guesses' = 0 /\ failed' \in Nat => Bound
  BY <1>0, <1>1, <1>2 DEF cc, kk, N
<1>9. Idle.at = "idle"
  BY DEF Idle
<1>10. ASSUME NEW l \in Login, NEW v \in Server, CheckLockout(l, v)
       PROVE  Bound
  <2>1. lockTTL = 0 /\ At(l, "idle") /\ UNCHANGED <<redisVars, guesses>>
        /\ login' = [login EXCEPT ![l] = [at |-> "checked", on |-> v, n |-> 0]]
    BY <1>10 DEF CheckLockout
  <2> DEFINE t == [at |-> "checked", on |-> v, n |-> 0]
  <2>2. t.at = "checked" /\ login' = [login EXCEPT ![l] = t]
    BY <2>1
  <2> HIDE DEF t
  <2>3. kk + Was(l, "lock") = k + Becomes(t.at, "lock")
    BY <1>5, <2>2
  <2>4. Was(l, "lock") = 0 /\ Becomes(t.at, "lock") = 0
    BY <2>1, <2>2 DEF At
  <2>5. kk = k
    BY <1>1, <1>2, <2>3, <2>4
  <2> QED
    BY <1>4, <2>1, <2>5 DEF redisVars, k, kk
<1>11. ASSUME NEW l \in Login, RecordFailure(l)
       PROVE  Bound
  <2>1. /\ At(l, "checked") /\ ~At(l, "lock") /\ UNCHANGED lockTTL
        /\ failed' = failed + 1 /\ guesses' = guesses + 1
        /\ IF failed' = 1 THEN Goto(l, "expire") ELSE Counted(l, failed')
    BY <1>11 DEF RecordFailure, CountInMemory, At
  <2>2. CASE failed' = 1
    <3>1. guesses' = 1 /\ cc + 1 = c /\ kk = k
      BY <1>0, <1>1, <1>2, <1>4, <1>6, <2>1, <2>2 DEF Step
    <3> QED
      BY <1>0, <1>1, <1>2, <1>4, <2>1, <2>2, <3>1 DEF cc, kk, N
  <2>3. CASE failed' # 1 /\ failed' >= MaxAttempts
    <3> DEFINE t == [login[l] EXCEPT !.at = "lock", !.n = failed']
    <3>1. t.at = "lock" /\ login' = [login EXCEPT ![l] = t]
      BY <1>0, <2>1, <2>3 DEF Counted, TypeOK
    <3> HIDE DEF t
    <3>2. /\ cc + Was(l, "checked") = c + Becomes(t.at, "checked")
          /\ kk + Was(l, "lock") = k + Becomes(t.at, "lock")
      BY <1>5, <3>1
    <3>3. cc + 1 = c /\ kk = k + 1
      BY <1>1, <1>2, <2>1, <3>1, <3>2
    <3> QED
      BY <1>0, <1>1, <1>2, <1>4, <2>1, <3>3 DEF cc, kk, N
  <2>4. CASE failed' # 1 /\ ~(failed' >= MaxAttempts)
    <3>1. login' = [login EXCEPT ![l] = Idle]
      BY <2>1, <2>4 DEF Counted
    <3>2. /\ cc + Was(l, "checked") = c + Becomes(Idle.at, "checked")
          /\ kk + Was(l, "lock") = k + Becomes(Idle.at, "lock")
      BY <1>5, <3>1
    <3>3. cc + 1 = c /\ kk = k
      BY <1>1, <1>2, <1>9, <2>1, <3>2
    <3> QED
      BY <1>0, <1>1, <1>2, <1>4, <2>1, <2>4, <3>3 DEF cc, kk, N
  <2> QED
    BY <2>2, <2>3, <2>4
<1>12. ASSUME NEW l \in Login, SetExpiry(l) \/ Drop(l)
       PROVE  Bound
  <2>1. /\ ~At(l, "lock") /\ login' = [login EXCEPT ![l] = Idle]
        /\ UNCHANGED <<failed, lockTTL, guesses>>
    BY <1>12 DEF SetExpiry, CountInMemory, Drop, Finish, At, redisVars
  <2>2. /\ cc + Was(l, "checked") = c + Becomes(Idle.at, "checked")
        /\ kk + Was(l, "lock") = k + Becomes(Idle.at, "lock")
    BY <1>5, <2>1
  <2>3. cc <= c /\ kk = k
    BY <1>1, <1>2, <1>9, <2>1, <2>2
  <2> QED
    BY <1>0, <1>1, <1>2, <1>4, <2>1, <2>3 DEF cc, kk, N
<1>13. ASSUME NEW l \in Login, LockAccount(l)
       PROVE  Bound
  <2>1. /\ At(l, "lock") /\ ~At(l, "checked") /\ lockTTL' = Window
        /\ login' = [login EXCEPT ![l] = Idle] /\ UNCHANGED <<failed, guesses>>
    BY <1>13 DEF LockAccount, Finish, At
  <2>2. /\ cc + Was(l, "checked") = c + Becomes(Idle.at, "checked")
        /\ kk + Was(l, "lock") = k + Becomes(Idle.at, "lock")
    BY <1>5, <2>1
  <2>3. cc = c /\ kk + 1 = k
    BY <1>1, <1>2, <1>9, <2>1, <2>2
  <2> QED
    BY <1>0, <1>1, <1>2, <1>4, <2>1, <2>3 DEF cc, kk, N
<1>14. ASSUME NEW l \in Login, PasswordValid(l)
       PROVE  Bound
  <2>1. /\ At(l, "checked") /\ ~At(l, "lock") /\ Goto(l, "reset") /\ "reset" \in Step
        /\ UNCHANGED <<failed, lockTTL, guesses>>
    BY <1>14 DEF PasswordValid, At, redisVars, Step
  <2>2. cc <= c /\ kk = k
    BY <1>1, <1>2, <1>6, <2>1
  <2> QED
    BY <1>0, <1>1, <1>2, <1>4, <2>1, <2>2 DEF cc, kk, N
<1>15. ASSUME NEW l \in Login, ResetAttempts(l) \/ ResetLock(l)
       PROVE  Bound
  <2>1. guesses' = 0 /\ failed' \in Nat
    BY <1>0, <1>15 DEF ResetAttempts, ResetLock, TypeOK
  <2> QED
    BY <1>8, <2>1
<1>16. CASE Tick
  <2>1. cc = c /\ kk = k
    BY <1>7, <1>16 DEF Tick
  <2>2. CASE failedTTL = 1 \/ lockTTL = 1
    BY <1>0, <1>8, <1>16, <2>2 DEF Tick, TypeOK
  <2>3. CASE failedTTL # 1 /\ lockTTL # 1
    <3>1. UNCHANGED <<failed, guesses>> /\ (lockTTL' = 0 <=> lockTTL = 0)
      BY <1>0, <1>16, <2>3 DEF Tick, Older
    <3> QED
      BY <1>4, <2>1, <3>1 DEF c, k, cc, kk, N
  <2> QED
    BY <2>2, <2>3
<1>17. CASE UNCHANGED vars
  BY <1>4, <1>7, <1>17 DEF vars, redisVars, c, k, cc, kk, N
<1>18. ~(\E v \in Server : Restart(v))
  BY DEF Restart
<1> QED
  BY <1>10, <1>11, <1>12, <1>13, <1>14, <1>15, <1>16, <1>17, <1>18 DEF Next, Proceed

(* The login that counts the first failure is the one that sets the        *)
(* expiry, and no other step leaves a counter without either.              *)
LEMMA ExpiryStep == GuessIInv /\ [Next]_vars => CounterExpires'
<1> SUFFICES ASSUME GuessIInv, [Next]_vars, health' = "ok", failed' > 0
             PROVE  failedTTL' > 0 \/ \E l \in Login : login'[l].at = "expire"
  BY DEF CounterExpires, At
<1>1. TypeOK /\ health = "ok" /\ failed \in Nat /\ failedTTL \in Nat /\ Window \in Nat \ {0}
  BY HealthStep, LockoutAssumption DEF GuessIInv, LockoutAssumption, TypeOK
<1>2. failed > 0 => failedTTL > 0 \/ \E l \in Login : login[l].at = "expire"
  BY <1>1 DEF GuessIInv, CounterExpires, At
(* A login elsewhere moves and leaves counter and expiry as they are. *)
<1>3. ASSUME NEW l \in Login, NEW t, login' = [login EXCEPT ![l] = t],
             login[l].at # "expire", failed > 0, failedTTL' = failedTTL
      PROVE  failedTTL' > 0 \/ \E k \in Login : login'[k].at = "expire"
  BY <1>1, <1>2, <1>3 DEF TypeOK
<1>4. ASSUME NEW l \in Login, NEW v \in Server, CheckLockout(l, v)
      PROVE  failedTTL' > 0 \/ \E k \in Login : login'[k].at = "expire"
  BY <1>3, <1>4 DEF CheckLockout, At, redisVars
<1>5. ASSUME NEW l \in Login, RecordFailure(l)
      PROVE  failedTTL' > 0 \/ \E k \in Login : login'[k].at = "expire"
  <2>1. /\ login[l].at = "checked" /\ failed' = failed + 1 /\ UNCHANGED failedTTL
        /\ IF failed' = 1 THEN Goto(l, "expire") ELSE Counted(l, failed')
    BY <1>5 DEF RecordFailure, CountInMemory, At
  <2>2. CASE failed' = 1
    BY <1>1, <2>1, <2>2 DEF Goto, TypeOK
  <2>3. CASE failed' # 1
    BY <1>1, <1>3, <2>1, <2>3 DEF Counted
  <2> QED
    BY <2>2, <2>3
<1>6. ASSUME NEW l \in Login, SetExpiry(l)
      PROVE  failedTTL' > 0
  BY <1>1, <1>6 DEF SetExpiry, CountInMemory
<1>7. ASSUME NEW l \in Login, LockAccount(l) \/ PasswordValid(l) \/ ResetLock(l) \/ Drop(l)
      PROVE  failedTTL' > 0 \/ \E k \in Login : login'[k].at = "expire"
  <2>1. login[l].at # "expire" /\ UNCHANGED <<failed, failedTTL>>
    BY <1>7 DEF LockAccount, PasswordValid, ResetLock, Drop, At, redisVars
  <2>2. login' = [login EXCEPT ![l] = Idle] \/ login' = [login EXCEPT ![l].at = "reset"]
    BY <1>7 DEF LockAccount, PasswordValid, ResetLock, Drop, Finish, Goto
  <2> QED
    BY <1>3, <2>1, <2>2
<1>8. ASSUME NEW l \in Login
      PROVE  ~ResetAttempts(l)
  BY <1>1 DEF ResetAttempts
<1>9. ASSUME Tick
      PROVE  failedTTL' > 0 \/ \E k \in Login : login'[k].at = "expire"
  BY <1>1, <1>2, <1>9 DEF Tick, Older
<1>10. ~(\E v \in Server : Restart(v))
  BY DEF Restart
<1>11. CASE UNCHANGED vars
  BY <1>2, <1>11 DEF vars, redisVars
<1> QED
  BY <1>4, <1>5, <1>6, <1>7, <1>8, <1>9, <1>10, <1>11 DEF Next, Proceed

(* GuessIInv is an invariant: at any moment, the failures counted are      *)
(* within what the overlapping logins can add, and their counter expires   *)
(* (recordFailedAttempt).                                                  *)
THEOREM LockoutInvariance == Spec => []GuessIInv
<1>1. GuessIInv /\ [Next]_vars => GuessIInv'
  BY LockoutTyping, GuessStep, ExpiryStep DEF GuessIInv
<1> QED
  BY LockoutInitial, <1>1, PTL DEF Spec

(* An account takes fewer than MaxAttempts failures plus one per login     *)
(* under way before it is locked, whatever the order of the Redis calls.   *)
THEOREM GuessBoundHolds == Spec => []GuessBound
<1>1. GuessIInv => GuessBound
  <2> SUFFICES ASSUME GuessIInv, health = "ok"
               PROVE  guesses < MaxAttempts + Cardinality(Login)
    BY DEF GuessBound
  <2>1. MaxAttempts \in Nat /\ guesses \in Nat
    BY LockoutAssumption DEF GuessIInv, TypeOK, LockoutAssumption
  <2> QED
    BY <2>1, Counts DEF GuessIInv, GuessInv
<1> QED
  BY LockoutInvariance, <1>1, PTL

-----------------------------------------------------------------------------

(* How long the requests of S can keep a key with this TTL alive, in ticks: *)
(* each of them may set it once more, to a full Window.                    *)
Left(S, ttl) == Cardinality(S) * (Window + 1) + ttl

(* A window is paid for by the request that set it. *)
LEMMA LeftShrinks ==
  ASSUME NEW m \in Nat, NEW n \in Nat, NEW t \in 0..Window, NEW u \in 0..Window
  PROVE  LET before == m * (Window + 1) + t
             after == n * (Window + 1) + u
         IN  /\ before \in Nat /\ after \in Nat
             /\ n = m /\ u <= t => after <= before
             /\ n = m /\ u < t => after < before
             /\ n < m => after < before
             /\ m > 0 \/ t > 0 => before > 0
<1>1. Window \in Nat
  BY LockoutAssumption DEF LockoutAssumption
<1> DEFINE w == Window + 1
<1>2. w \in Nat /\ t \in Nat /\ u \in Nat /\ t < w /\ u < w
  BY <1>1
<1> HIDE DEF w
<1>3. m * w \in Nat /\ n * w \in Nat
  BY <1>2
<1>4. ASSUME n < m
      PROVE  n * w + w <= m * w
  <2>1. PICK d \in Nat : m = (n + 1) + d
    <3>1. m - (n + 1) \in Nat /\ m = (n + 1) + (m - (n + 1))
      BY <1>4
    <3> QED
      BY <3>1
  <2>2. m * w = n * w + w + d * w /\ d * w \in Nat
    BY <1>2, <2>1
  <2> QED
    BY <1>2, <1>3, <2>2
<1>5. ASSUME m > 0
      PROVE  w <= m * w
  <2>1. PICK d \in Nat : m = d + 1
    <3>1. m - 1 \in Nat /\ m = (m - 1) + 1
      BY <1>5
    <3> QED
      BY <3>1
  <2>2. m * w = d * w + w /\ d * w \in Nat
    BY <1>2, <2>1
  <2> QED
    BY <1>2, <2>2
<1> QED
  BY <1>2, <1>3, <1>4, <1>5 DEF w

(* The logins that stand at one of some steps can be counted; one that     *)
(* leaves them makes the count smaller, and one that moves elsewhere       *)
(* leaves it alone.                                                        *)
LEMMA StandingAt ==
  ASSUME TypeOK, NEW steps, NEW l \in Login, NEW t, login' = [login EXCEPT ![l] = t]
  PROVE  LET before == {k \in Login : login[k].at \in steps}
             after == {k \in Login : login'[k].at \in steps}
         IN  /\ login[l].at \in steps => Cardinality(before) > 0
             /\ login[l].at \in steps /\ t.at \notin steps
                  => Cardinality(after) < Cardinality(before)
             /\ (login[l].at \in steps <=> t.at \in steps)
                  => Cardinality(after) = Cardinality(before)
<1> DEFINE before == {k \in Login : login[k].at \in steps}
<1> DEFINE after == {k \in Login : login'[k].at \in steps}
<1>1. before \in SUBSET Login
  OBVIOUS
<1>2. IsFiniteSet(before)
  BY <1>1, FS_Subset, LockoutAssumption DEF LockoutAssumption
<1>3. Cardinality(before) \in Nat
  BY <1>2, FS_CardinalityType
<1>4. \A k \in Login : login'[k] = IF k = l THEN t ELSE login[k]
  BY DEF TypeOK
<1>5. login[l].at \in steps <=> l \in before
  OBVIOUS
<1>6. l \in before /\ t.at \notin steps => after = before \ {l}
  BY <1>4
<1>7. (l \in before <=> t.at \in steps) => after = before
  BY <1>4
<1>8. l \in before
        => /\ Cardinality(before \ {l}) = Cardinality(before) - 1
           /\ Cardinality(before \ {l}) \in Nat
  <2>1. IsFiniteSet(before \ {l})
    BY <1>2, FS_RemoveElement
  <2> QED
    BY <1>2, <2>1, FS_RemoveElement, FS_CardinalityType
<1> HIDE DEF before, after
<1>9. /\ login[l].at \in steps => Cardinality(before) > 0
      /\ login[l].at \in steps /\ t.at \notin steps
           => Cardinality(after) < Cardinality(before)
      /\ (login[l].at \in steps <=> t.at \in steps)
           => Cardinality(after) = Cardinality(before)
  <2>1. Cardinality(before \ {l}) \in Nat => Cardinality(before) - 1 < Cardinality(before)
    BY <1>3
  <2>2. l \in before => Cardinality(before) > 0 /\ Cardinality(before \ {l}) < Cardinality(before)
    BY <1>3, <1>8, <2>1
  <2> QED
    BY <1>5, <1>6, <1>7, <2>2
<1> QED
  BY <1>9 DEF before, after

(* Logins that can still set the lock, and logins about to set the expiry. *)
Racing == {l \in Login : login[l].at \in {"checked", "lock"}}
Expiring == {l \in Login : login[l].at \in {"expire"}}

LockLeft == Left(Racing, lockTTL)
CounterLeft == Left(Expiring, failedTTL)

(* "Account temporarily locked": while Redis answers, no step makes what   *)
(* is left of a lock longer and every tick makes it shorter, although a    *)
(* login that passed the check before may set the lock again.              *)
LockRunsDown ==
  [][lockTTL > 0 /\ health' = "ok" =>
       LockLeft' <= LockLeft /\ (Tick => LockLeft' < LockLeft)]_vars

(* Failures are forgotten after ATTEMPT_WINDOW: while Redis answers, a     *)
(* counter has something left before it expires, no step makes that more,  *)
(* and every EXPIRE, and every tick once an expiry is set, makes it less.  *)
CounterRunsDown ==
  [][failed > 0 /\ health' = "ok" =>
       /\ CounterLeft > 0 /\ CounterLeft' <= CounterLeft
       /\ (Tick /\ failedTTL > 0) \/ (\E l \in Login : SetExpiry(l))
            => CounterLeft' < CounterLeft]_vars

LEMMA LockStep ==
  ASSUME GuessIInv, [Next]_vars, lockTTL > 0, health' = "ok"
  PROVE  LockLeft' <= LockLeft /\ (Tick => LockLeft' < LockLeft)
<1> DEFINE At2 == {"checked", "lock"}
<1> DEFINE m == Cardinality(Racing)
<1> DEFINE n == Cardinality(Racing')
<1>1. /\ TypeOK /\ TypeOK' /\ health = "ok" /\ Window \in Nat \ {0}
      /\ lockTTL \in 0..Window /\ lockTTL' \in 0..Window
      /\ login \in [Login -> [at : Step, on : Server \cup {None}, n : Nat]]
  BY LockoutTyping, HealthStep, LockoutAssumption DEF GuessIInv, LockoutAssumption, TypeOK
<1>2. m \in Nat /\ n \in Nat
  <2>1. Racing \in SUBSET Login /\ Racing' \in SUBSET Login
    BY DEF Racing
  <2> QED
    BY <2>1, FS_Subset, FS_CardinalityType, LockoutAssumption DEF LockoutAssumption
<1>3. ASSUME NEW l \in Login, NEW t, login' = [login EXCEPT ![l] = t]
      PROVE  /\ l \in Racing /\ t.at \notin At2 => n < m
             /\ (l \in Racing <=> t.at \in At2) => n = m
  <2>1. l \in Racing <=> login[l].at \in At2
    BY DEF Racing
  <2> QED
    BY <1>1, <1>3, <2>1, StandingAt DEF Racing
<1>4. /\ n = m /\ lockTTL' <= lockTTL => LockLeft' <= LockLeft
      /\ n = m /\ lockTTL' < lockTTL => LockLeft' < LockLeft
      /\ n < m => LockLeft' < LockLeft
  <2>1. LockLeft = m * (Window + 1) + lockTTL /\ LockLeft' = n * (Window + 1) + lockTTL'
    BY DEF LockLeft, Left
  <2> HIDE DEF m, n
  <2> QED
    BY <1>1, <1>2, <2>1, LeftShrinks
<1>5. LockLeft' < LockLeft => LockLeft' <= LockLeft
  <2>1. LockLeft \in Nat /\ LockLeft' \in Nat
    BY <1>1, <1>2 DEF LockLeft, Left
  <2> QED
    BY <2>1
<1> HIDE DEF m, n
<1>6. ASSUME NEW l \in Login, NEW v \in Server
      PROVE  ~CheckLockout(l, v)
  BY <1>1 DEF CheckLockout
<1>7. ASSUME NEW l \in Login, Proceed(l)
      PROVE  LockLeft' <= LockLeft
  <2>1. CASE RecordFailure(l)
    <3>1. /\ login[l].at = "checked" /\ UNCHANGED lockTTL
          /\ IF failed' = 1 THEN Goto(l, "expire") ELSE Counted(l, failed')
      BY <2>1 DEF RecordFailure, CountInMemory, At
    <3>2. l \in Racing
      BY <3>1 DEF Racing
    <3>3. ASSUME NEW t, login' = [login EXCEPT ![l] = t], t.at \in {"expire", "lock", "idle"}
          PROVE  LockLeft' <= LockLeft
      <4>1. n < m \/ n = m
        BY <1>3, <3>2, <3>3
      <4> QED
        BY <1>1, <1>4, <1>5, <3>1, <4>1
    <3>4. CASE failed' = 1
      <4> DEFINE t == [login[l] EXCEPT !.at = "expire"]
      <4>1. t.at = "expire" /\ login' = [login EXCEPT ![l] = t]
        BY <1>1, <3>1, <3>4 DEF Goto
      <4> HIDE DEF t
      <4> QED
        BY <3>3, <4>1
    <3>5. CASE failed' # 1 /\ failed' >= MaxAttempts
      <4> DEFINE t == [login[l] EXCEPT !.at = "lock", !.n = failed']
      <4>1. t.at = "lock" /\ login' = [login EXCEPT ![l] = t]
        BY <1>1, <3>1, <3>5 DEF Counted
      <4> HIDE DEF t
      <4> QED
        BY <3>3, <4>1
    <3>6. CASE failed' # 1 /\ ~(failed' >= MaxAttempts)
      BY <3>1, <3>3, <3>6 DEF Counted, Idle
    <3> QED
      BY <3>4, <3>5, <3>6
  <2>2. CASE LockAccount(l) \/ Drop(l)
    <3>1. l \in Racing /\ login' = [login EXCEPT ![l] = Idle] /\ Idle.at = "idle"
      BY <2>2 DEF LockAccount, Drop, Finish, At, Racing, Idle
    <3> QED
      BY <1>3, <1>4, <1>5, <3>1
  <2>3. CASE PasswordValid(l)
    <3>1. l \in Racing /\ login' = [login EXCEPT ![l].at = "reset"]
          /\ [login[l] EXCEPT !.at = "reset"].at = "reset"
      BY <1>1, <2>3 DEF PasswordValid, Goto, At, Racing
    <3> QED
      BY <1>3, <1>4, <1>5, <3>1
  <2>4. CASE SetExpiry(l) \/ ResetLock(l)
    <3>1. /\ l \notin Racing /\ login' = [login EXCEPT ![l] = Idle] /\ Idle.at = "idle"
          /\ lockTTL' <= lockTTL
      BY <1>1, <2>4 DEF SetExpiry, CountInMemory, ResetLock, Finish, At, Racing, Idle
    <3> QED
      BY <1>3, <1>4, <3>1
  <2>5. ~ResetAttempts(l) \/ (l \notin Racing /\ UNCHANGED lockTTL
                              /\ login' = [login EXCEPT ![l].at = "reset_lock"])
    BY DEF ResetAttempts, Goto, At, Racing
  <2>6. [login[l] EXCEPT !.at = "reset_lock"].at = "reset_lock"
    BY <1>1
  <2>7. CASE ResetAttempts(l)
    BY <1>1, <1>3, <1>4, <2>5, <2>6, <2>7
  <2> QED
    BY <1>7, <2>1, <2>2, <2>3, <2>4, <2>7 DEF Proceed
<1>8. Tick => LockLeft' < LockLeft
  <2>1. Tick => n = m /\ lockTTL' < lockTTL
    BY <1>1 DEF Tick, Older, n, m, Racing
  <2> QED
    BY <1>4, <2>1
<1>9. ~(\E v \in Server : Restart(v))
  BY DEF Restart
<1>10. CASE UNCHANGED vars
  <2>1. n = m /\ lockTTL' = lockTTL
    BY <1>10 DEF vars, redisVars, n, m, Racing
  <2> QED
    BY <1>1, <1>4, <1>8, <2>1
<1> QED
  BY <1>5, <1>6, <1>7, <1>8, <1>9, <1>10 DEF Next

LEMMA CounterStep ==
  ASSUME GuessIInv, [Next]_vars, failed > 0, health' = "ok"
  PROVE  /\ CounterLeft > 0 /\ CounterLeft' <= CounterLeft
         /\ (Tick /\ failedTTL > 0) \/ (\E l \in Login : SetExpiry(l))
              => CounterLeft' < CounterLeft
<1> DEFINE m == Cardinality(Expiring)
<1> DEFINE n == Cardinality(Expiring')
<1>1. /\ TypeOK /\ TypeOK' /\ health = "ok" /\ Window \in Nat \ {0} /\ failed \in Nat
      /\ failedTTL \in 0..Window /\ failedTTL' \in 0..Window
      /\ login \in [Login -> [at : Step, on : Server \cup {None}, n : Nat]]
  BY LockoutTyping, HealthStep, LockoutAssumption DEF GuessIInv, LockoutAssumption, TypeOK
<1>2. m \in Nat /\ n \in Nat
  <2>1. Expiring \in SUBSET Login /\ Expiring' \in SUBSET Login
    BY DEF Expiring
  <2> QED
    BY <2>1, FS_Subset, FS_CardinalityType, LockoutAssumption DEF LockoutAssumption
<1>3. ASSUME NEW l \in Login, NEW t, login' = [login EXCEPT ![l] = t]
      PROVE  /\ l \in Expiring /\ t.at # "expire" => n < m
             /\ l \notin Expiring /\ t.at # "expire" => n = m
  <2>1. l \in Expiring <=> login[l].at \in {"expire"}
    BY DEF Expiring
  <2> QED
    BY <1>1, <1>3, <2>1, StandingAt DEF Expiring
<1>4. /\ n = m /\ failedTTL' <= failedTTL => CounterLeft' <= CounterLeft
      /\ n = m /\ failedTTL' < failedTTL => CounterLeft' < CounterLeft
      /\ n < m => CounterLeft' < CounterLeft
      /\ m > 0 \/ failedTTL > 0 => CounterLeft > 0
      /\ CounterLeft' < CounterLeft => CounterLeft' <= CounterLeft
  <2>1. /\ CounterLeft = m * (Window + 1) + failedTTL
        /\ CounterLeft' = n * (Window + 1) + failedTTL'
    BY DEF CounterLeft, Left
  <2> HIDE DEF m, n
  <2>2. CounterLeft \in Nat /\ CounterLeft' \in Nat
    BY <1>1, <1>2, <2>1, LeftShrinks
  <2>3. CounterLeft' < CounterLeft => CounterLeft' <= CounterLeft
    BY <2>2
  <2>4. m > 0 \/ failedTTL > 0 => CounterLeft > 0
    BY <1>1, <1>2, <2>1, LeftShrinks
  <2>5. /\ n = m /\ failedTTL' <= failedTTL => CounterLeft' <= CounterLeft
        /\ n = m /\ failedTTL' < failedTTL => CounterLeft' < CounterLeft
        /\ n < m => CounterLeft' < CounterLeft
    BY <1>1, <1>2, <2>1, LeftShrinks
  <2> QED
    BY <2>3, <2>4, <2>5
<1>5. CounterLeft > 0
  <2>1. CASE failedTTL > 0
    BY <1>4, <2>1
  <2>2. CASE \E l \in Login : At(l, "expire")
    <3>1. PICK l \in Login : login[l].at = "expire"
      BY <2>2 DEF At
    <3>2. m > 0
      <4>1. Expiring \in SUBSET Login /\ l \in Expiring
        BY <3>1 DEF Expiring
      <4>2. IsFiniteSet(Expiring) /\ Expiring # {}
        BY <4>1, FS_Subset, LockoutAssumption DEF LockoutAssumption
      <4>3. m # 0
        BY <4>2, FS_EmptySet
      <4> QED
        BY <1>2, <4>3
    <3> QED
      BY <1>4, <3>2
  <2> QED
    BY <1>1, <2>1, <2>2 DEF GuessIInv, CounterExpires
<1> HIDE DEF m, n
<1>6. ASSUME NEW l \in Login, SetExpiry(l)
      PROVE  CounterLeft' < CounterLeft
  <2>1. l \in Expiring /\ login' = [login EXCEPT ![l] = Idle] /\ Idle.at # "expire"
    BY <1>1, <1>6 DEF SetExpiry, CountInMemory, Finish, At, Expiring, Idle
  <2> QED
    BY <1>3, <1>4, <2>1
<1>7. ASSUME NEW l \in Login, NEW t, login' = [login EXCEPT ![l] = t],
             l \notin Expiring, t.at # "expire", failedTTL' <= failedTTL
      PROVE  CounterLeft' <= CounterLeft
  BY <1>3, <1>4, <1>7
<1>8. ASSUME NEW l \in Login, NEW v \in Server, CheckLockout(l, v)
      PROVE  CounterLeft' <= CounterLeft
  <2> DEFINE t == [at |-> "checked", on |-> v, n |-> 0]
  <2>1. /\ login' = [login EXCEPT ![l] = t] /\ t.at = "checked"
        /\ l \notin Expiring /\ failedTTL' <= failedTTL
    BY <1>1, <1>8 DEF CheckLockout, At, Expiring, redisVars
  <2> HIDE DEF t
  <2> QED
    BY <1>7, <2>1
<1>9. ASSUME NEW l \in Login, RecordFailure(l)
      PROVE  CounterLeft' <= CounterLeft
  <2>1. /\ l \notin Expiring /\ failedTTL' <= failedTTL /\ failed' # 1
        /\ Counted(l, failed')
    BY <1>1, <1>9 DEF RecordFailure, CountInMemory, At, Expiring
  <2>2. CASE failed' >= MaxAttempts
    <3> DEFINE t == [login[l] EXCEPT !.at = "lock", !.n = failed']
    <3>1. t.at = "lock" /\ login' = [login EXCEPT ![l] = t]
      BY <1>1, <2>1, <2>2 DEF Counted
    <3> HIDE DEF t
    <3> QED
      BY <1>7, <2>1, <3>1
  <2>3. CASE ~(failed' >= MaxAttempts)
    <3>1. login' = [login EXCEPT ![l] = Idle] /\ Idle.at # "expire"
      BY <2>1, <2>3 DEF Counted, Idle
    <3> QED
      BY <1>7, <2>1, <3>1
  <2> QED
    BY <2>2, <2>3
<1>10. ASSUME NEW l \in Login, LockAccount(l) \/ ResetLock(l) \/ Drop(l)
       PROVE  CounterLeft' <= CounterLeft
  <2>1. /\ login' = [login EXCEPT ![l] = Idle] /\ Idle.at # "expire"
        /\ l \notin Expiring /\ failedTTL' <= failedTTL
    BY <1>1, <1>10 DEF LockAccount, ResetLock, Drop, Finish, At, Expiring, Idle, redisVars
  <2> QED
    BY <1>7, <2>1
<1>11. ASSUME NEW l \in Login, PasswordValid(l) \/ ResetAttempts(l)
       PROVE  CounterLeft' <= CounterLeft
  <2>1. PICK step \in {"reset", "reset_lock"} : Goto(l, step)
    BY <1>11 DEF PasswordValid, ResetAttempts
  <2>2. l \notin Expiring /\ failedTTL' <= failedTTL
    BY <1>1, <1>11 DEF PasswordValid, ResetAttempts, At, Expiring, redisVars
  <2> DEFINE t == [login[l] EXCEPT !.at = step]
  <2>3. t.at = step /\ login' = [login EXCEPT ![l] = t]
    BY <1>1, <2>1 DEF Goto
  <2> HIDE DEF t
  <2> QED
    BY <1>7, <2>1, <2>2, <2>3
<1>12. UNCHANGED login => n = m
  BY DEF n, m, Expiring
<1>13. CASE Tick
  <2>1. /\ n = m /\ failedTTL' <= failedTTL
        /\ failedTTL > 0 => failedTTL' < failedTTL
    BY <1>1, <1>12, <1>13 DEF Tick, Older
  <2> QED
    BY <1>4, <1>5, <1>6, <2>1
<1>14. ASSUME UNCHANGED vars
       PROVE  CounterLeft' <= CounterLeft
  <2>1. n = m /\ failedTTL' <= failedTTL
    BY <1>1, <1>12, <1>14 DEF vars, redisVars
  <2> QED
    BY <1>4, <2>1
<1>15. ~(\E v \in Server : Restart(v))
  BY DEF Restart
<1>16. Tick \/ CounterLeft' <= CounterLeft
  BY <1>4, <1>6, <1>8, <1>9, <1>10, <1>11, <1>13, <1>14, <1>15 DEF Next, Proceed
<1> QED
  BY <1>5, <1>6, <1>13, <1>16

(* A lock runs down: with the fairness of time it is lifted, at the latest *)
(* after one Window for the lock and one more for each login that raced it *)
(* (recordFailedAttempt, checkLockout).  The step-wise half of LockLifts.  *)
THEOREM LockRunsDownHolds == Spec => LockRunsDown
<1>1. GuessIInv /\ [Next]_vars
        => [lockTTL > 0 /\ health' = "ok" =>
              LockLeft' <= LockLeft /\ (Tick => LockLeft' < LockLeft)]_vars
  BY LockStep
<1> QED
  BY LockoutInvariance, <1>1, PTL DEF Spec, LockRunsDown

(* The counter of failures runs down (INCR, EXPIRE, resetAttempts).  The   *)
(* step-wise half of FailuresForgotten.                                    *)
THEOREM CounterRunsDownHolds == Spec => CounterRunsDown
<1>1. GuessIInv /\ [Next]_vars
        => [failed > 0 /\ health' = "ok" =>
              /\ CounterLeft > 0 /\ CounterLeft' <= CounterLeft
              /\ (Tick /\ failedTTL > 0) \/ (\E l \in Login : SetExpiry(l))
                   => CounterLeft' < CounterLeft]_vars
  BY CounterStep
<1> QED
  BY LockoutInvariance, <1>1, PTL DEF Spec, CounterRunsDown
=============================================================================
