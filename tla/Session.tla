------------------------------ MODULE Session -------------------------------
(***************************************************************************)
(* The sessions of one account (routes/auth.ts, middleware/auth.ts) on the *)
(* Redis store that app.ts configures.  express-session gives each request *)
(* a copy of its session, read when the request comes in, and writes the   *)
(* whole copy back when the answer goes out, if the request changed it; so *)
(* requests of one session overwrite each other's changes.  Handlers work  *)
(* on their copy alone until then, so what they await in between (the      *)
(* password check, the code, the passkey, the database) needs no step.     *)
(*                                                                         *)
(* A session is anonymous, pending (password right, code awaited) or full. *)
(***************************************************************************)
EXTENDS Naturals

CONSTANTS Request,     \* slots for requests
          None,        \* "no session"
          MaxCodes,    \* MAX_MFA_ATTEMPTS
          Absolute,    \* ABSOLUTE_TIMEOUT_MS, in ticks
          IdleTime,    \* IDLE_TIMEOUT_MS, in ticks
          MaxSid,      \* bound: session ids ever issued
          MaxTime,     \* bound: ticks
          MaxGuesses   \* bound: how far wrong codes are counted

ASSUME SessionAssumption ==
  /\ MaxCodes \in Nat \ {0} /\ Absolute \in Nat /\ IdleTime \in Nat
  /\ MaxSid \in Nat /\ MaxTime \in Nat /\ MaxGuesses \in Nat

VARIABLES now,
          issued,   \* session ids issued so far are 1..issued
          store,    \* sess:<id> in Redis
          req,      \* what each request slot is doing
          kind,     \* history: level of an id when it was issued
          born,     \* history: when it was issued
          used,     \* history: when requireAuth last accepted it
          closed,   \* history: ids that were destroyed
          late,     \* history: those another request still carried at that time
          guesses   \* history: wrong codes tried under an id

history == <<kind, born, used, closed, late, guesses>>
vars == <<now, issued, store, req, history>>

Sid == 1..MaxSid
Level == {"anonymous", "pending", "full"}

(* SessionData: userId, mfaPending and mfaVerified tell the level. *)
Data == [level : Level, created : Nat, active : Nat, attempts : Nat]

(* The timestamps are read in full sessions only. *)
New(level) ==
  LET stamp == IF level = "full" THEN now ELSE 0
  IN  [level |-> level, created |-> stamp, active |-> stamp, attempts |-> 0]

(* dirty: the copy differs from what was read. *)
Slot == [at : {"idle", "loaded", "serving", "ending"},
         sid : Sid \cup {0}, copy : Data \cup {None}, dirty : {"no", "yes"}]

Idle == [at |-> "idle", sid |-> 0, copy |-> None, dirty |-> "no"]

At(r, step) == req[r].at = step
Carries(r, s) == ~At(r, "idle") /\ req[r].sid = s

TypeOK ==
  /\ now \in Nat /\ issued \in 0..MaxSid
  /\ store \in [Sid -> Data \cup {None}]
  /\ req \in [Request -> Slot]
  /\ \A r \in Request : IF At(r, "idle") THEN req[r] = Idle
       ELSE req[r].sid \in 0..issued /\ req[r].copy \in Data
  /\ kind \in [Sid -> Level]
  /\ born \in [Sid -> Nat] /\ used \in [Sid -> Nat] /\ guesses \in [Sid -> Nat]
  /\ closed \subseteq 1..issued /\ late \subseteq closed

Init ==
  /\ now = 0 /\ issued = 0
  /\ store = [s \in Sid |-> None]
  /\ req = [r \in Request |-> Idle]
  /\ kind = [s \in Sid |-> "anonymous"]
  /\ born = [s \in Sid |-> 0] /\ used = [s \in Sid |-> 0] /\ guesses = [s \in Sid |-> 0]
  /\ closed = {} /\ late = {}

-----------------------------------------------------------------------------
(* What express-session does for every request. *)

Become(r, slot) == req' = [req EXCEPT ![r] = slot]

(* DEL of the session of request r. *)
Delete(r) ==
  LET here == {req[r].sid} \ {0}
  IN  /\ store' = [s \in Sid |-> IF s \in here THEN None ELSE store[s]]
      /\ closed' = closed \cup here
      /\ late' = (late \ here) \cup
                  {s \in here : \E q \in Request \ {r} : Carries(q, s)}

(* A cookie that names a stored session loads it; any other request gets a *)
(* new one, saved because generateCsrfToken writes to it.  A new session   *)
(* has id 0 until it is saved: nobody knows its id before.                 *)
Load(r) ==
  /\ At(r, "idle")
  /\ \/ \E s \in 1..issued :
          /\ store[s] # None
          /\ Become(r, [Idle EXCEPT !.at = "loaded", !.sid = s, !.copy = store[s]])
     \/ Become(r, [Idle EXCEPT !.at = "loaded", !.copy = New("anonymous"), !.dirty = "yes"])
  /\ UNCHANGED <<now, issued, store, history>>

(* The answer goes out: a changed copy is saved whole.  (When Redis fails  *)
(* it is not: Die.)                                                        *)
Save(r) ==
  LET s == IF req[r].sid = 0 THEN issued + 1 ELSE req[r].sid
  IN  /\ At(r, "ending") /\ req[r].dirty = "yes"
      /\ s \in Sid
      /\ store' = [store EXCEPT ![s] = req[r].copy]
      /\ IF req[r].sid = 0
         THEN /\ issued' = s
              /\ kind' = [kind EXCEPT ![s] = req[r].copy.level]
              /\ born' = [born EXCEPT ![s] = req[r].copy.created]
              /\ used' = [used EXCEPT ![s] = req[r].copy.active]
         ELSE UNCHANGED <<issued, kind, born, used>>
      /\ Become(r, Idle)
      /\ UNCHANGED <<now, closed, late, guesses>>

Answer(r, copy, dirty) ==
  Become(r, [req[r] EXCEPT !.at = "ending", !.copy = copy, !.dirty = dirty])

(* session.destroy: nothing is saved at the end; the DEL may fail. *)
Destroy(r) ==
  /\ Delete(r) \/ UNCHANGED <<store, closed, late>>
  /\ Become(r, Idle)
  /\ UNCHANGED <<now, issued, kind, born, used>>

(* Mutant: the level of the session at hand is raised, its id kept. *)
Promote(r, level) ==
  /\ Answer(r, New(level), "yes")
  /\ UNCHANGED <<now, issued, store, history>>

(* A session under a new id, saved when the answer goes out. *)
Fresh(level) == [Idle EXCEPT !.at = "ending", !.copy = New(level), !.dirty = "yes"]

(* regenerateSessionSafe.  store.regenerate puts a new session in place    *)
(* whether or not its DEL failed; after a failure nothing is written to    *)
(* it and it stays anonymous.                                              *)
Regenerate(r, level) ==
  /\ \/ Delete(r) /\ Become(r, Fresh(level))
     \/ /\ Delete(r) \/ UNCHANGED <<store, closed, late>>
        /\ Become(r, Fresh("anonymous"))
  /\ UNCHANGED <<now, issued, kind, born, used, guesses>>

-----------------------------------------------------------------------------
(* The handlers of routes/auth.ts that ask for no session. *)

(* A request that changes nothing: refused, invalid, or not about sessions. *)
Pass(r) ==
  /\ At(r, "loaded")
  /\ Answer(r, req[r].copy, req[r].dirty)
  /\ UNCHANGED <<now, issued, store, history>>

(* The password is right (login()); whether a code is asked for is in the row. *)
Login(r) ==
  /\ At(r, "loaded")
  /\ \E level \in {"pending", "full"} : Regenerate(r, level)

Verifying(r) == At(r, "loaded") /\ req[r].copy.level = "pending"

CodeRight(r) == Verifying(r) /\ Regenerate(r, "full")

CodeWrong(r) ==
  LET s == req[r].sid
      attempts == req[r].copy.attempts + 1
  IN  /\ Verifying(r)
      /\ guesses' = [guesses EXCEPT ![s] = IF @ < MaxGuesses THEN @ + 1 ELSE @]
      /\ IF attempts >= MaxCodes THEN Destroy(r)
         ELSE /\ Answer(r, [req[r].copy EXCEPT !.attempts = attempts], "yes")
              /\ UNCHANGED <<now, issued, store, kind, born, used, closed, late>>

(* A passkey was verified (Factors): a full session at once. *)
PasskeyLogin(r) == At(r, "loaded") /\ Regenerate(r, "full")

(* The challenge of a passkey login is set or cleared in the session. *)
PasskeyChallenge(r) ==
  /\ At(r, "loaded")
  /\ Answer(r, req[r].copy, "yes")
  /\ UNCHANGED <<now, issued, store, history>>

-----------------------------------------------------------------------------
(* Behind requireAuth. *)

InTime(copy) == now <= copy.created + Absolute /\ now <= copy.active + IdleTime

(* Mutant: the absolute timeout is left out. *)
AcceptIdleOnly(r) ==
  /\ At(r, "loaded") /\ req[r].copy.level = "full"
  /\ now <= req[r].copy.active + IdleTime
  /\ Become(r, [req[r] EXCEPT !.at = "serving", !.copy.active = now, !.dirty = "yes"])
  /\ used' = [used EXCEPT ![req[r].sid] = now]
  /\ UNCHANGED <<now, issued, store, kind, born, closed, late, guesses>>

(* requireAuth, then requireMfaComplete, which a session with a user meets. *)
Accept(r) ==
  /\ At(r, "loaded") /\ req[r].copy.level = "full"
  /\ InTime(req[r].copy)
  /\ Become(r, [req[r] EXCEPT !.at = "serving", !.copy.active = now, !.dirty = "yes"])
  /\ used' = [used EXCEPT ![req[r].sid] = now]
  /\ UNCHANGED <<now, issued, store, kind, born, closed, late, guesses>>

(* requireAuth destroys a session that timed out or meets another browser. *)
Expel(r) ==
  /\ At(r, "loaded") /\ req[r].copy.level = "full"
  /\ Destroy(r)
  /\ UNCHANGED guesses

(* Mutant: the session is saved on logout, not destroyed. *)
LogoutForgets(r) ==
  /\ At(r, "serving")
  /\ closed' = closed \cup {req[r].sid}
  /\ Answer(r, req[r].copy, "yes")
  /\ UNCHANGED <<now, issued, store, kind, born, used, late, guesses>>

Logout(r) == At(r, "serving") /\ Destroy(r) /\ UNCHANGED guesses

(* Password changed, or a second factor enabled or disabled: the session   *)
(* is rotated.                                                             *)
Rotate(r) == At(r, "serving") /\ Regenerate(r, "full")

(* Any other handler. *)
Serve(r) ==
  /\ At(r, "serving")
  /\ Answer(r, req[r].copy, "yes")
  /\ UNCHANGED <<now, issued, store, history>>

-----------------------------------------------------------------------------

Tick ==
  /\ now < MaxTime
  /\ now' = now + 1
  /\ UNCHANGED <<issued, store, req, history>>

(* The TTL of a session runs out, or Redis loses it. *)
Evict ==
  /\ \E s \in 1..issued : store' = [store EXCEPT ![s] = None]
  /\ UNCHANGED <<now, issued, req, history>>

(* A server dies, a handler or Redis fails, or nothing changed: a request  *)
(* ends and saves nothing.                                                 *)
Die(r) ==
  /\ ~At(r, "idle")
  /\ Become(r, Idle)
  /\ UNCHANGED <<now, issued, store, history>>

Handle(r) ==
  \/ Load(r) \/ Save(r) \/ Pass(r)
  \/ Login(r) \/ CodeRight(r) \/ CodeWrong(r)
  \/ PasskeyLogin(r) \/ PasskeyChallenge(r)
  \/ Accept(r) \/ Expel(r) \/ Logout(r) \/ Rotate(r) \/ Serve(r)
  \/ Die(r)

Next == (\E r \in Request : Handle(r)) \/ Tick \/ Evict

Spec == Init /\ [][Next]_vars

-----------------------------------------------------------------------------

(* "regenerate to prevent fixation" (auth.ts:138, 240, 655): whichever     *)
(* copies requests write back, a session id never changes hands: it keeps  *)
(* the level and the age it was issued with, so an id known before login   *)
(* or before the second factor never becomes a logged-in one.              *)
NoFixation ==
  /\ \A s \in Sid : store[s] # None =>
       /\ store[s].level = kind[s] /\ store[s].created = born[s]
       /\ store[s].active <= used[s]
  /\ \A r \in Request : req[r].sid # 0 =>
       /\ req[r].copy.level = kind[req[r].sid] /\ req[r].copy.created = born[req[r].sid]
       /\ req[r].copy.active <= used[req[r].sid]

(* "Fully destroy session - removes from Redis" (auth.ts:290): an id that  *)
(* was destroyed by logout, rotation, a timeout or too many codes never    *)
(* comes back, unless another request carried it at that moment and writes *)
(* its copy back.                                                          *)
ClosedStaysClosed ==
  \A s \in closed \ late : store[s] = None /\ \A r \in Request : ~Carries(r, s)

(* Ids that are not issued yet are unknown; a new session is anonymous     *)
(* until its request is about to end.                                      *)
OnlyIssued ==
  /\ \A s \in Sid : s > issued => store[s] = None
  /\ \A r \in Request : req[r].sid = 0 /\ ~At(r, "idle") =>
       At(r, "ending") \/ (At(r, "loaded") /\ req[r].copy.level = "anonymous")

(* No time stamp lies in the future. *)
StampsPast ==
  /\ \A s \in Sid : used[s] <= now
  /\ \A r \in Request : ~At(r, "idle") => req[r].copy.active <= now

SessionIInv == TypeOK /\ NoFixation /\ ClosedStaysClosed /\ OnlyIssued /\ StampsPast

(* The timeouts of middleware/auth.ts:24-25, whatever stale copies are     *)
(* saved in between: a session accepted once more was issued at most       *)
(* Absolute ago, and was accepted or issued at most IdleTime ago.          *)
AcceptedInTime ==
  [][\A s \in 1..issued : used'[s] # used[s]
       => now <= born[s] + Absolute /\ now <= used[s] + IdleTime]_vars

(* Request r gives up the session it carried: it ends, or regenerates. *)
Leaves(r) == ~At(r, "idle") /\ (At(r, "idle")' \/ req'[r].sid # req[r].sid)

(* Without failures: no request leaves a session with a changed copy       *)
(* unsaved, or with a wrong code counted, unless it destroyed it.          *)
Kept ==
  \A r \in Request :
    Leaves(r) /\ (req[r].dirty = "yes" \/ guesses' # guesses)
      => Save(r) \/ req[r].sid \in closed'

CalmSpec == Init /\ [][Next /\ Kept]_vars

(* No two requests of one session overlap. *)
Serial ==
  \A s \in Sid : \A q, r \in Request : Carries(q, s) /\ Carries(r, s) => q = r

(* "Max TOTP guesses allowed within a single pending-MFA session before we *)
(* tear it down" (auth.ts:18): does not hold even when nothing fails,      *)
(* since requests that overlap count their guesses in copies of one        *)
(* counter.  It does hold when none overlap.                               *)
GuessesCapped == \A s \in Sid : guesses[s] <= MaxCodes
=============================================================================
