------------------------------ MODULE Factors -------------------------------
(***************************************************************************)
(* The second factors of one account: the one-time codes of its            *)
(* authenticator app (services/mfaService.ts and the MFA routes of         *)
(* routes/auth.ts) and the signature counter of its passkey                *)
(* (services/webauthnService.ts).  Each handler reads the row, works on    *)
(* what it read, and writes the row without a condition; other requests    *)
(* run between its steps.  Time goes by in TOTP steps of 30 seconds.       *)
(***************************************************************************)
EXTENDS Integers

CONSTANTS Request,    \* slots for requests
          Secret,     \* the secrets generateSecret may return
          None,       \* null, or a key that is not there
          MaxTime,    \* bound: TOTP steps
          MaxCodes,   \* bound: valid codes submitted
          MaxCount    \* bound: signature counts

ASSUME FactorsAssumption ==
  /\ None \notin Secret \cup Int
  /\ MaxTime \in Nat /\ MaxCodes \in Nat /\ MaxCount \in Nat

VARIABLES now,       \* the TOTP step of the server's clock
          row,       \* mfaSecret and mfaEnabled of the user
          burned,    \* mfa:used:<user>:<step> in Redis: when it was set
          counter,   \* counter of the passkey's row
          req,       \* what each request slot is doing
          made,      \* history: secrets generated so far
          valid,     \* history: how many valid codes were submitted
          shown,     \* history: secrets of which a code was accepted
          accepted,  \* history: codes accepted under a key of their own, see Astray
          replayed   \* history: those that were accepted so again

history == <<made, valid, shown, accepted, replayed>>
vars == <<now, row, burned, counter, req, history>>

Window == 1               \* TOTP_WINDOW
Ttl == 2 * Window + 1     \* REPLAY_TTL_SECONDS: this many steps and 5 seconds

Step == 0..(MaxTime + Window)
Code == Secret \X Step    \* the code that the app shows for a secret at a step

Row == [secret : Secret \cup {None}, enabled : {"off", "on"}]
NoMfa == [secret |-> None, enabled |-> "off"]

Slot == [at : {"idle", "pending", "reading", "burning", "enabling", "disabling",
               "generating", "signing", "bumping"},
         for : {"login", "enable", "disable"},
         secret : Secret \cup {None}, enabled : {"off", "on"},
         step : Step, key : Step, count : 0..MaxCount, new : 0..MaxCount]

Idle == [at |-> "idle", for |-> "login", secret |-> None, enabled |-> "off",
         step |-> 0, key |-> 0, count |-> 0, new |-> 0]

At(r, step) == req[r].at = step

TypeOK ==
  /\ now \in 0..MaxTime
  /\ row \in Row
  /\ burned \in [Step -> Step \cup {None}]
  /\ counter \in 0..MaxCount
  /\ req \in [Request -> Slot]
  /\ made \subseteq Secret /\ valid \in 0..MaxCodes /\ shown \subseteq Secret
  /\ accepted \subseteq Code /\ replayed \subseteq Code

Init ==
  /\ now = 0
  /\ row = NoMfa
  /\ burned = [k \in Step |-> None]
  /\ counter = 0
  /\ req = [r \in Request |-> Idle]
  /\ made = {} /\ valid = 0 /\ shown = {} /\ accepted = {} /\ replayed = {}

Become(r, slot) == req' = [req EXCEPT ![r] = slot]

-----------------------------------------------------------------------------
(* One-time codes. *)

(* Mutant: mfa/setup does not look. *)
SetupUnread(r) ==
  /\ At(r, "idle")
  /\ Become(r, [Idle EXCEPT !.at = "generating", !.enabled = row.enabled])
  /\ UNCHANGED <<now, row, burned, counter, history>>

(* mfa/setup refuses when MFA is on ... *)
SetupRead(r) ==
  /\ At(r, "idle") /\ row.enabled = "off"
  /\ Become(r, [Idle EXCEPT !.at = "generating", !.enabled = row.enabled])
  /\ UNCHANGED <<now, row, burned, counter, history>>

(* ... and generateMfaSecret then stores a fresh secret. *)
Generate(r) ==
  /\ At(r, "generating")
  /\ \E s \in Secret \ made :
       /\ row' = [row EXCEPT !.secret = s]
       /\ made' = made \cup {s}
  /\ Become(r, Idle)
  /\ UNCHANGED <<now, burned, counter, valid, shown, accepted, replayed>>

(* The password was right and mfaEnabled is set: the session is pending,   *)
(* and stays so, whatever becomes of the row, until a code is right.       *)
PasswordRight(r) ==
  /\ At(r, "idle") /\ row.enabled = "on"
  /\ Become(r, [Idle EXCEPT !.at = "pending"])
  /\ UNCHANGED <<now, row, burned, counter, history>>

(* verifyMfaToken reads the row; without a secret it refuses.  Neither     *)
(* verify-setup nor disable asks whether MFA is on.                        *)
Submit(r) ==
  /\ \/ At(r, "pending")
        /\ Become(r, [req[r] EXCEPT !.at = "reading", !.secret = row.secret])
     \/ At(r, "idle")
        /\ \E f \in {"enable", "disable"} :
             Become(r, [Idle EXCEPT !.at = "reading", !.for = f, !.secret = row.secret])
  /\ row.secret # None
  /\ UNCHANGED <<now, row, burned, counter, history>>

Back(r) == Become(r, [Idle EXCEPT !.at = IF req[r].for = "login" THEN "pending" ELSE "idle"])

WrongCode(r) ==
  /\ At(r, "reading")
  /\ Back(r)
  /\ UNCHANGED <<now, row, burned, counter, history>>

(* verifyDelta finds the code valid for a step of the window.  The clock   *)
(* is read again for the step to burn; when it has moved on meanwhile      *)
(* (turn = 1), the key is that of the next step.                           *)
Check(r) ==
  \E k \in Step, turn \in {0, 1} :
    /\ At(r, "reading") /\ valid < MaxCodes
    /\ valid' = valid + 1
    /\ now - Window <= k /\ k <= now + Window
    /\ now + turn <= MaxTime
    /\ now' = now + turn
    /\ Become(r, [req[r] EXCEPT !.at = "burning", !.step = k, !.key = k + turn])
    /\ UNCHANGED <<row, burned, counter, made, shown, accepted, replayed>>

(* What follows a valid code: a session (Session), or enableMfa's or       *)
(* disableMfa's write.                                                     *)
Proceed(r) ==
  LET to(step) == Become(r, [Idle EXCEPT !.at = step, !.secret = req[r].secret])
  IN  CASE req[r].for = "login" -> Become(r, Idle)
        [] req[r].for = "enable" -> to("enabling")
        [] req[r].for = "disable" -> to("disabling")

CodeOf(r) == <<req[r].secret, req[r].step>>

(* The key protects a code only if it is the code's own and is set while   *)
(* the code is valid.                                                      *)
Astray(r) == req[r].key # req[r].step \/ now > req[r].step + Window

Accept(r, astray) ==
  LET c == {CodeOf(r)}
  IN  /\ accepted' = IF astray THEN accepted ELSE accepted \cup c
      /\ replayed' = IF astray THEN replayed ELSE replayed \cup (c \cap accepted)
      /\ shown' = shown \cup {req[r].secret}
      /\ Proceed(r)

Refuse(r) == Back(r) /\ UNCHANGED <<shown, accepted, replayed>>

(* Mutant: SET without NX, the reply is OK whatever was there. *)
BurnAnyway(r) ==
  /\ At(r, "burning")
  /\ burned' = [burned EXCEPT ![req[r].key] = now]
  /\ Accept(r, Astray(r))
  /\ UNCHANGED <<now, row, counter, made, valid>>

(* SET NX of the replay key; when Redis fails, whether or not the key was  *)
(* set, the code is accepted.                                              *)
Burn(r) ==
  LET key == req[r].key
      set == burned' = [burned EXCEPT ![key] = IF @ = None THEN now ELSE @]
  IN  /\ At(r, "burning")
      /\ \/ burned[key] = None /\ set /\ Accept(r, Astray(r))
         \/ burned[key] # None /\ UNCHANGED burned /\ Refuse(r)
         \/ (set \/ UNCHANGED burned) /\ Accept(r, TRUE)
      /\ UNCHANGED <<now, row, counter, made, valid>>

Enable(r) ==
  /\ At(r, "enabling")
  /\ row' = [row EXCEPT !.enabled = "on"]
  /\ Become(r, Idle)
  /\ UNCHANGED <<now, burned, counter, history>>

Disable(r) ==
  /\ At(r, "disabling")
  /\ row' = NoMfa
  /\ Become(r, Idle)
  /\ UNCHANGED <<now, burned, counter, history>>

(* Mutant: the keys live for one step only. *)
ExpireSoon ==
  /\ \E k \in Step :
       /\ burned[k] # None /\ now >= burned[k] + Window
       /\ burned' = [burned EXCEPT ![k] = None]
  /\ UNCHANGED <<now, row, counter, req, history>>

Expire ==
  /\ \E k \in Step :
       /\ burned[k] # None /\ now >= burned[k] + Ttl
       /\ burned' = [burned EXCEPT ![k] = None]
  /\ UNCHANGED <<now, row, counter, req, history>>

-----------------------------------------------------------------------------
(* Passkeys. *)

(* verifyAuthentication reads the credential ... *)
ReadCounter(r) ==
  /\ At(r, "idle")
  /\ Become(r, [Idle EXCEPT !.at = "signing", !.count = counter])
  /\ UNCHANGED <<now, row, burned, counter, history>>

(* Mutant: the count of the signature is not compared. *)
AnyCount(r) ==
  \E n \in 0..MaxCount :
    /\ At(r, "signing")
    /\ counter' = n
    /\ Become(r, Idle)
    /\ UNCHANGED <<now, row, burned, history>>

(* ... takes a signature whose count is higher, or zero when the           *)
(* authenticator does not count; of the wrong ones it takes none (Quit) ... *)
Verify(r) ==
  \E n \in 0..MaxCount :
    /\ At(r, "signing")
    /\ n > req[r].count \/ (n = 0 /\ req[r].count = 0)
    /\ Become(r, [req[r] EXCEPT !.at = "bumping", !.new = n])
    /\ UNCHANGED <<now, row, burned, counter, history>>

(* ... and writes it. *)
Bump(r) ==
  /\ At(r, "bumping")
  /\ counter' = req[r].new
  /\ Become(r, Idle)
  /\ UNCHANGED <<now, row, burned, history>>

-----------------------------------------------------------------------------

(* A wrong signature, a failure of the database, a server that dies. *)
Quit(r) ==
  /\ ~At(r, "idle")
  /\ Become(r, Idle)
  /\ UNCHANGED <<now, row, burned, counter, history>>

Tick ==
  /\ now < MaxTime
  /\ now' = now + 1
  /\ UNCHANGED <<row, burned, counter, req, history>>

Handle(r) ==
  \/ SetupRead(r) \/ Generate(r)
  \/ PasswordRight(r) \/ Submit(r) \/ WrongCode(r) \/ Check(r) \/ Burn(r)
  \/ Enable(r) \/ Disable(r)
  \/ ReadCounter(r) \/ Verify(r) \/ Bump(r)
  \/ Quit(r)

Next == (\E r \in Request : Handle(r)) \/ Expire \/ Tick

Spec == Init /\ [][Next]_vars

-----------------------------------------------------------------------------

(* What a request carries: a code to burn was valid a moment ago, and one  *)
(* that enables or disables MFA was accepted for the secret it read.       *)
Carried ==
  \A r \in Request :
    /\ At(r, "burning") =>
         /\ req[r].secret \in Secret
         /\ req[r].key \in {req[r].step, req[r].step + 1}
         /\ req[r].key <= now + Window
    /\ At(r, "reading") => req[r].secret \in Secret
    /\ At(r, "enabling") => req[r].secret \in shown
    /\ At(r, "generating") => req[r].enabled = "off"
    /\ At(r, "bumping") => req[r].new >= req[r].count

(* A key is set when its step is in the window, or later. *)
SetInWindow == \A k \in Step : burned[k] # None => k <= burned[k] + Window

(* "A used code must stay burned until every step it could have matched    *)
(* has elapsed" (mfaService.ts:12).                                        *)
BurnedWhileValid ==
  \A c \in accepted : burned[c[2]] # None \/ now > c[2] + Window

(* "A code can never be accepted twice, even while it is still within its  *)
(* validity window" (mfaService.ts:66), by login, setup and disable        *)
(* together: true but for the codes that were accepted while Redis failed, *)
(* burned under the next step's key, or burned after their window.         *)
CodeOnce == replayed = {}

FactorsIInv == TypeOK /\ Carried /\ SetInWindow /\ BurnedWhileValid /\ CodeOnce

Unproven(state) == state.enabled = "on" /\ state.secret \notin shown

(* What request r read of the row is no longer so when it writes. *)
Stale(r) ==
  \/ At(r, "enabling") /\ req[r].secret # row.secret
  \/ At(r, "generating") /\ req[r].enabled # row.enabled

(* "user must verify first" (mfaService.ts:43): MFA is never on with a     *)
(* secret of which no code was shown, or without one, which would lock the *)
(* user out, unless the request that wrote the row had read another row.   *)
OnlyStaleUnproven ==
  [][Unproven(row)' /\ ~Unproven(row)
       => \E r \in Request : Stale(r)]_vars

(* "a counter that goes backwards indicates a cloned authenticator and is  *)
(* rejected" (webauthnService.ts:135): the stored counter goes back only   *)
(* when another login wrote it since this one read it.                     *)
CounterBackOnlyRaced ==
  [][counter' < counter
       => \E r \in Request : At(r, "bumping") /\ req[r].count # counter]_vars
=============================================================================
