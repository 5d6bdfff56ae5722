------------------------------ MODULE Lockout ------------------------------
(***************************************************************************)
(* The lockout of one account (services/lockoutService.ts) as login()      *)
(* uses it (services/authService.ts): failed logins are counted in Redis,  *)
(* or in the memory of the server when a Redis call fails, and at          *)
(* MaxAttempts the account is locked.  Checking the lock, comparing the    *)
(* password, counting and locking are separate calls, so logins overlap.   *)
(*                                                                         *)
(* Time passes in ticks; both windows of the code are 30 minutes long.     *)
(***************************************************************************)
EXTENDS Naturals, FiniteSets

CONSTANTS Login,         \* slots for login requests on this account
          Server,        \* server instances, each with a memory of its own
          None,          \* "no server"
          MaxAttempts,   \* MAX_ATTEMPTS
          Window,        \* ATTEMPT_WINDOW = LOCKOUT_DURATION, in ticks
          MaxCount       \* bound: how far failures are counted

ASSUME LockoutAssumption ==
  /\ None \notin Server
  /\ IsFiniteSet(Login)
  /\ MaxAttempts \in Nat \ {0, 1}
  /\ Window \in Nat \ {0}
  /\ MaxCount \in Nat

VARIABLES failed,    \* login:failed, 0 when the key does not exist
          failedTTL, \* its TTL, 0 while none is set
          lockTTL,   \* TTL of login:locked, 0 when the key does not exist
          memory,    \* fallbackLockouts of each server
          login,     \* what each request slot is doing
          guesses,   \* history: failures counted since failed or lock was last removed
          health     \* history: some Redis call failed, or a server died

redisVars == <<failed, failedTTL, lockTTL>>
vars == <<redisVars, memory, login, guesses, health>>

Step == {"idle", "checked", "expire", "lock", "reset", "reset_lock"}
Idle == [at |-> "idle", on |-> None, n |-> 0]
Empty == [n |-> 0, ttl |-> 0, lock |-> 0]

At(l, step) == login[l].at = step
Goto(l, step) == login' = [login EXCEPT ![l].at = step]
Finish(l) == login' = [login EXCEPT ![l] = Idle]

TypeOK ==
  /\ failed \in Nat /\ guesses \in Nat /\ health \in {"ok", "degraded"}
  /\ failedTTL \in 0..Window /\ lockTTL \in 0..Window
  /\ memory \in [Server -> [n : Nat, ttl : 0..Window, lock : 0..Window]]
  /\ login \in [Login -> [at : Step, on : Server \cup {None}, n : Nat]]
  /\ \A l \in Login : ~At(l, "idle") => login[l].on \in Server

Init ==
  /\ failed = 0 /\ failedTTL = 0 /\ lockTTL = 0
  /\ memory = [v \in Server |-> Empty]
  /\ login = [l \in Login |-> Idle]
  /\ guesses = 0 /\ health = "ok"

-----------------------------------------------------------------------------

(* Mutant: a locked account is checked all the same. *)
CheckLockoutIgnored(l, v) ==
  /\ At(l, "idle")
  /\ login' = [login EXCEPT ![l] = [at |-> "checked", on |-> v, n |-> 0]]
  /\ UNCHANGED <<redisVars, memory, guesses, health>>

(* checkLockout: the lock in Redis, or in memory when Redis fails.  A login *)
(* of a locked account ends here and changes nothing.                       *)
CheckLockout(l, v) ==
  /\ At(l, "idle")
  /\ \/ lockTTL = 0 /\ UNCHANGED health
     \/ memory[v].lock = 0 /\ health' = "degraded"
  /\ login' = [login EXCEPT ![l] = [at |-> "checked", on |-> v, n |-> 0]]
  /\ UNCHANGED <<redisVars, memory, guesses>>

(* What follows the count n of a failure. *)
Counted(l, n) ==
  login' = [login EXCEPT ![l] = IF n >= MaxAttempts THEN [@ EXCEPT !.at = "lock", !.n = n]
                                                    ELSE Idle]

(* The catch of the count.  The new entry has no lockExpiresAt. *)
CountInMemory(l) ==
  LET v == login[l].on
      n == IF memory[v].ttl > 0 THEN memory[v].n + 1 ELSE 1
  IN  /\ n <= MaxCount
      /\ memory' = [memory EXCEPT ![v] = [n |-> n, ttl |-> Window, lock |-> 0]]
      /\ Counted(l, n)
      /\ health' = "degraded"

(* Mutant: only the login that meets the threshold exactly locks. *)
RecordFailureAtThreshold(l) ==
  /\ At(l, "checked")
  /\ failed < MaxCount
  /\ failed' = failed + 1
  /\ guesses' = guesses + 1
  /\ IF failed' = 1 THEN Goto(l, "expire")
     ELSE IF failed' = MaxAttempts THEN Goto(l, "lock") ELSE Finish(l)
  /\ UNCHANGED <<failedTTL, lockTTL, memory, health>>

(* Mutant: no expiry is set on the first failure. *)
RecordFailureNoExpiry(l) ==
  /\ At(l, "checked")
  /\ failed < MaxCount
  /\ failed' = failed + 1
  /\ guesses' = guesses + 1
  /\ Counted(l, failed')
  /\ UNCHANGED <<failedTTL, lockTTL, memory, health>>

(* The user is unknown or the password wrong: INCR, or the memory when it  *)
(* fails, done or not.                                                     *)
RecordFailure(l) ==
  /\ At(l, "checked")
  /\ failed < MaxCount
  /\ \/ /\ failed' = failed + 1
        /\ guesses' = guesses + 1
        /\ IF failed' = 1 THEN Goto(l, "expire") ELSE Counted(l, failed')
        /\ UNCHANGED <<memory, health>>
     \/ /\ failed' \in {failed, failed + 1}
        /\ CountInMemory(l)
        /\ UNCHANGED guesses
  /\ UNCHANGED <<failedTTL, lockTTL>>

(* EXPIRE after the first failure; when it fails, done or not, the failure *)
(* is counted in memory too.                                               *)
SetExpiry(l) ==
  /\ At(l, "expire")
  /\ LET expiry == IF failed > 0 THEN Window ELSE 0
     IN  \/ failedTTL' = expiry /\ Finish(l) /\ UNCHANGED <<memory, health>>
         \/ failedTTL' \in {failedTTL, expiry} /\ CountInMemory(l)
  /\ UNCHANGED <<failed, lockTTL, guesses>>

(* SETEX; when it fails, done or not, the lock goes to memory: into the    *)
(* entry that is there, or into a new one.                                 *)
LockAccount(l) ==
  /\ At(l, "lock")
  /\ LET v == login[l].on
         entry == IF memory[v] # Empty THEN memory[v]
                  ELSE [n |-> login[l].n, ttl |-> Window, lock |-> 0]
     IN  \/ lockTTL' = Window /\ UNCHANGED <<memory, health>>
         \/ /\ memory' = [memory EXCEPT ![v] = [entry EXCEPT !.lock = Window]]
            /\ health' = "degraded"
            /\ lockTTL' \in {lockTTL, Window}
  /\ Finish(l)
  /\ UNCHANGED <<failed, failedTTL, guesses>>

(* The password is right: resetAttempts. *)
PasswordValid(l) ==
  /\ At(l, "checked")
  /\ Goto(l, "reset")
  /\ UNCHANGED <<redisVars, memory, guesses, health>>

(* DEL login:failed and DEL login:locked, which others can come between;   *)
(* each may fail, done or not, and the entry in memory is deleted.         *)
ResetAttempts(l) ==
  /\ At(l, "reset")
  /\ \/ failed' = 0 /\ failedTTL' = 0 /\ guesses' = 0
     \/ health' = "degraded" /\ UNCHANGED <<failed, failedTTL, guesses>>
  /\ health' \in {health, "degraded"}
  /\ Goto(l, "reset_lock")
  /\ UNCHANGED <<lockTTL, memory>>

ResetLock(l) ==
  /\ At(l, "reset_lock")
  /\ \/ lockTTL' = 0 /\ guesses' = 0
     \/ health' = "degraded" /\ UNCHANGED <<lockTTL, guesses>>
  /\ health' \in {health, "degraded"}
  /\ memory' = [memory EXCEPT ![login[l].on] = Empty]
  /\ Finish(l)
  /\ UNCHANGED <<failed, failedTTL>>

(* The account is suspended, or the database fails: the login ends and no  *)
(* failure is counted.                                                     *)
Drop(l) ==
  /\ At(l, "checked")
  /\ Finish(l)
  /\ UNCHANGED <<redisVars, memory, guesses, health>>

(* A server restarts: its memory and its requests are gone. *)
Restart(v) ==
  /\ memory' = [memory EXCEPT ![v] = Empty]
  /\ login' = [l \in Login |-> IF login[l].on = v THEN Idle ELSE login[l]]
  /\ health' = "degraded"
  /\ UNCHANGED <<redisVars, guesses>>

Older(ttl) == IF ttl = 0 THEN 0 ELSE ttl - 1

(* getFallbackEntry drops an entry whose lock, or if it has none whose     *)
(* window, has run out.                                                    *)
Aged(e) == IF e.lock = 1 \/ (e.lock = 0 /\ e.ttl <= 1) THEN Empty
           ELSE [e EXCEPT !.ttl = Older(@), !.lock = Older(@)]

Tick ==
  /\ failed' = IF failedTTL = 1 THEN 0 ELSE failed
  /\ failedTTL' = Older(failedTTL)
  /\ lockTTL' = Older(lockTTL)
  /\ guesses' = IF failedTTL = 1 \/ lockTTL = 1 THEN 0 ELSE guesses
  /\ memory' = [v \in Server |-> Aged(memory[v])]
  /\ UNCHANGED <<login, health>>

(* The next step of a login that has passed the check. *)
Proceed(l) ==
  \/ RecordFailure(l) \/ SetExpiry(l) \/ LockAccount(l)
  \/ PasswordValid(l) \/ ResetAttempts(l) \/ ResetLock(l) \/ Drop(l)

Next == \/ \E l \in Login : Proceed(l) \/ \E v \in Server : CheckLockout(l, v)
        \/ \E v \in Server : Restart(v)
        \/ Tick

(* A login runs on, and time passes. *)
Fairness == WF_vars(Tick) /\ \A l \in Login : WF_vars(Proceed(l))

Spec == Init /\ [][Next]_vars /\ Fairness

-----------------------------------------------------------------------------

(* "After MAX_ATTEMPTS failures, locks the account"                        *)
(* (lockoutService.ts:97): as long as Redis answers and no server dies,    *)
(* overlapping logins get only one try each beyond the limit, however they *)
(* come between check, count and lock.                                     *)
GuessBound == health = "ok" => guesses < MaxAttempts + Cardinality(Login)

(* The inductive invariant behind it: until the lock is set, a failure     *)
(* beyond the limit is that of a login about to set it; afterwards only    *)
(* the logins that had passed the check can still fail.                    *)
Checked == {l \in Login : At(l, "checked")}
Locking == {l \in Login : At(l, "lock")}

GuessInv ==
  health = "ok" =>
    /\ guesses <= failed
    /\ IF lockTTL = 0
       THEN guesses < MaxAttempts + Cardinality(Locking)
       ELSE guesses + Cardinality(Checked) < MaxAttempts + Cardinality(Login)

(* A counter of failures has an expiry, or a login that is about to set it, *)
(* however resets come between INCR and EXPIRE (lockoutService.ts:114-118). *)
CounterExpires ==
  health = "ok" /\ failed > 0 => failedTTL > 0 \/ \E l \in Login : At(l, "expire")

GuessIInv == TypeOK /\ GuessInv /\ CounterExpires

(* "Account temporarily locked" (authService.ts:126): a lock in Redis is   *)
(* lifted some day, also while logins keep failing.                        *)
LockLifts == lockTTL > 0 ~> lockTTL = 0 \/ health = "degraded"

(* Failures are forgotten some day (ATTEMPT_WINDOW), whichever login made  *)
(* the first one, unless a failure left the counter without expiry.        *)
FailuresForgotten == failed > 0 ~> failed = 0 \/ health = "degraded"
=============================================================================
