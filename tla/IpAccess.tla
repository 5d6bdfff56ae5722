------------------------------ MODULE IpAccess ------------------------------
(***************************************************************************)
(* Access control of one IP address (middleware/ipAccess.ts): the allow-   *)
(* and block-lists an admin keeps (routes/admin.ts), and the temporary ban *)
(* after Threshold strikes, which failed CSRF checks (middleware/csrf.ts)  *)
(* and rate limits (middleware/rateLimit.ts) record.  All of it is in      *)
(* Redis, one call at a time, so requests and admins interleave.           *)
(***************************************************************************)
EXTENDS Naturals, FiniteSets

CONSTANTS Request,     \* slots for requests from this address
          Admin,       \* slots for admins editing its rules
          Threshold,   \* STRIKE_THRESHOLD
          Window,      \* STRIKE_WINDOW_SECONDS, in ticks
          BanLength,   \* AUTO_BAN_SECONDS, in ticks
          MaxStrikes   \* bound: how far strikes are counted

ASSUME IpAssumption ==
  /\ IsFiniteSet(Request)
  /\ Threshold \in Nat \ {0, 1}
  /\ Window \in Nat \ {0} /\ BanLength \in Nat \ {0}
  /\ MaxStrikes \in Nat

VARIABLES lists,      \* which of ip:blocklist and ip:allowlist hold the address
          strikes,    \* ip:strikes, 0 when the key does not exist
          strikesTTL, \* its TTL, 0 while none is set
          banTTL,     \* TTL of ip:banned, 0 when the key does not exist
          at,         \* the next step of each request
          admin,      \* whether an admin still has to delete the ban
          seen,       \* history: the standing a request has met all along
          health      \* history: some Redis call failed, or a server died

rules == <<lists, admin>>
counter == <<strikes, strikesTTL>>
vars == <<lists, strikes, strikesTTL, banTTL, at, admin, seen, health>>

Checking == {"allow", "block", "ban"}
Striking == {"strike", "count", "expire", "set_ban", "clear"}
Answered == {"admitted", "refused"}
Step == {"idle"} \cup Checking \cup Striking \cup Answered

(* How the address stands: ipAccessControl's three layers. *)
Standing == IF "allow" \in lists THEN "trusted"
            ELSE IF "block" \in lists THEN "blocked"
            ELSE IF banTTL > 0 THEN "banned" ELSE "free"

TypeOK ==
  /\ lists \subseteq {"allow", "block"}
  /\ strikes \in Nat /\ strikesTTL \in 0..Window /\ banTTL \in 0..BanLength
  /\ at \in [Request -> Step]
  /\ admin \in [Admin -> {"idle", "unban"}]
  /\ seen \in [Request -> {"none", "changed", "trusted", "blocked", "banned", "free"}]
  /\ health \in {"ok", "degraded"}

Init ==
  /\ lists = {} /\ strikes = 0 /\ strikesTTL = 0 /\ banTTL = 0
  /\ at = [r \in Request |-> "idle"]
  /\ admin = [a \in Admin |-> "idle"]
  /\ seen = [r \in Request |-> "none"]
  /\ health = "ok"

Move(r, from, to) == at[r] = from /\ at' = [at EXCEPT ![r] = to]

-----------------------------------------------------------------------------
(* A request: CSRF check, access control, rate limiters, handler.          *)

(* verifyCsrfToken comes before ipAccessControl: a request it refuses is   *)
(* struck, also one from a banned address.                                 *)
Arrive(r) ==
  /\ Move(r, "idle", "allow") \/ Move(r, "idle", "strike")
  /\ UNCHANGED <<rules, counter, banTTL, health>>

(* Mutant: the allow-list is asked only after block-list and ban. *)
ReadAllowLast(r) ==
  /\ Move(r, "allow", "block")
  /\ UNCHANGED <<rules, counter, banTTL, health>>

ReadAllow(r) ==
  /\ Move(r, "allow", IF "allow" \in lists THEN "admitted" ELSE "block")
  /\ UNCHANGED <<rules, counter, banTTL, health>>

(* The two reads of Promise.all, in the order they are sent. *)
ReadBlock(r) ==
  /\ Move(r, "block", IF "block" \in lists THEN "refused" ELSE "ban")
  /\ UNCHANGED <<rules, counter, banTTL, health>>

(* Mutant: a ban is honoured only while strikes are being counted. *)
ReadBanOfStruck(r) ==
  /\ Move(r, "ban", IF banTTL > 0 /\ strikes > 0 THEN "refused" ELSE "admitted")
  /\ UNCHANGED <<rules, counter, banTTL, health>>

ReadBan(r) ==
  /\ Move(r, "ban", IF banTTL > 0 THEN "refused" ELSE "admitted")
  /\ UNCHANGED <<rules, counter, banTTL, health>>

(* Redis fails: the request is allowed. *)
CheckFails(r) ==
  /\ at[r] \in Checking
  /\ at' = [at EXCEPT ![r] = "admitted"]
  /\ health' = "degraded"
  /\ UNCHANGED <<rules, counter, banTTL>>

(* The answer is sent; the limiters strike an admitted request or not. *)
Respond(r) ==
  /\ \/ Move(r, "admitted", "strike")
     \/ \E from \in Answered : Move(r, from, "idle")
  /\ UNCHANGED <<rules, counter, banTTL, health>>

-----------------------------------------------------------------------------
(* recordStrike, one Redis call per step. *)

StrikeAllowed(r) ==
  /\ Move(r, "strike", IF "allow" \in lists THEN "idle" ELSE "count")
  /\ UNCHANGED <<rules, counter, banTTL, health>>

(* Mutant: only the strike that meets the threshold exactly bans. *)
CountStrikeExactly(r) ==
  /\ strikes < MaxStrikes
  /\ strikes' = strikes + 1
  /\ Move(r, "count", IF strikes' = 1 THEN "expire"
                      ELSE IF strikes' = Threshold THEN "set_ban" ELSE "idle")
  /\ UNCHANGED <<rules, strikesTTL, banTTL, health>>

(* Mutant: no expiry is set on the first strike. *)
CountStrikeNoExpiry(r) ==
  /\ strikes < MaxStrikes
  /\ strikes' = strikes + 1
  /\ Move(r, "count", IF strikes' >= Threshold THEN "set_ban" ELSE "idle")
  /\ UNCHANGED <<rules, strikesTTL, banTTL, health>>

CountStrike(r) ==
  /\ strikes < MaxStrikes
  /\ strikes' = strikes + 1
  /\ Move(r, "count", IF strikes' = 1 THEN "expire"
                      ELSE IF strikes' >= Threshold THEN "set_ban" ELSE "idle")
  /\ UNCHANGED <<rules, strikesTTL, banTTL, health>>

ExpireStrikes(r) ==
  /\ Move(r, "expire", "idle")
  /\ strikesTTL' = IF strikes > 0 THEN Window ELSE 0
  /\ UNCHANGED <<rules, strikes, banTTL, health>>

SetBan(r) ==
  /\ Move(r, "set_ban", "clear")
  /\ banTTL' = BanLength
  /\ UNCHANGED <<rules, counter, health>>

ClearStrikes(r) ==
  /\ Move(r, "clear", "idle")
  /\ strikes' = 0 /\ strikesTTL' = 0
  /\ UNCHANGED <<rules, banTTL, health>>

(* A call of recordStrike fails, done or not, and ends it. *)
StrikeFails(r) ==
  /\ \/ Move(r, "strike", "idle") /\ UNCHANGED <<counter, banTTL>>
     \/ /\ Move(r, "count", "idle") /\ strikes < MaxStrikes
        /\ strikes' \in {strikes, strikes + 1}
        /\ UNCHANGED <<strikesTTL, banTTL>>
     \/ /\ Move(r, "expire", "idle")
        /\ strikesTTL' \in {strikesTTL, IF strikes > 0 THEN Window ELSE 0}
        /\ UNCHANGED <<strikes, banTTL>>
     \/ /\ Move(r, "set_ban", "idle")
        /\ banTTL' \in {banTTL, BanLength} /\ UNCHANGED counter
     \/ /\ Move(r, "clear", "idle") /\ UNCHANGED banTTL
        /\ \/ strikes' = 0 /\ strikesTTL' = 0
           \/ UNCHANGED counter
  /\ health' = "degraded"
  /\ UNCHANGED rules

-----------------------------------------------------------------------------
(* The admin's rules, by POST and DELETE /api/admin/ip-rules. *)

(* addToBlocklist and removeFromBlocklist: SADD or SREM, then DEL of the ban. *)
EditBlocklist(a) ==
  /\ admin[a] = "idle"
  /\ lists' \in {lists \cup {"block"}, lists \ {"block"}}
  /\ admin' = [admin EXCEPT ![a] = "unban"]
  /\ UNCHANGED <<counter, banTTL, at, health>>

(* The DEL; the admin's request may also end without it. *)
DeleteBan(a) ==
  /\ admin[a] = "unban"
  /\ admin' = [admin EXCEPT ![a] = "idle"]
  /\ banTTL' \in {0, banTTL}
  /\ UNCHANGED <<lists, counter, at, health>>

EditAllowlist(a) ==
  /\ admin[a] = "idle"
  /\ lists' \in {lists \cup {"allow"}, lists \ {"allow"}}
  /\ UNCHANGED <<admin, counter, banTTL, at, health>>

-----------------------------------------------------------------------------

Older(ttl) == IF ttl = 0 THEN 0 ELSE ttl - 1

Tick ==
  /\ strikes' = IF strikesTTL = 1 THEN 0 ELSE strikes
  /\ strikesTTL' = Older(strikesTTL)
  /\ banTTL' = Older(banTTL)
  /\ UNCHANGED <<rules, at, health>>

(* The servers die; what Redis holds stays. *)
Crash ==
  /\ at' = [r \in Request |-> "idle"]
  /\ admin' = [a \in Admin |-> "idle"]
  /\ health' = "degraded"
  /\ UNCHANGED <<lists, counter, banTTL>>

(* The history variable: what a request under way has met since it came. *)
Watch ==
  seen' = [r \in Request |->
             IF at'[r] = "idle" THEN "none"
             ELSE IF at[r] = "idle" \/ seen[r] = Standing' THEN Standing'
             ELSE "changed"]

Proceed(r) ==
  \/ ReadAllow(r) \/ ReadBlock(r) \/ ReadBan(r) \/ CheckFails(r) \/ Respond(r)
  \/ StrikeAllowed(r) \/ CountStrike(r) \/ ExpireStrikes(r)
  \/ SetBan(r) \/ ClearStrikes(r) \/ StrikeFails(r)

Manage(a) == EditBlocklist(a) \/ DeleteBan(a) \/ EditAllowlist(a)

Next == /\ \/ \E r \in Request : Arrive(r) \/ Proceed(r)
           \/ \E a \in Admin : Manage(a)
           \/ Tick
           \/ Crash
        /\ Watch

(* Requests run on, and time passes. *)
Fairness == /\ WF_vars(Tick /\ Watch)
            /\ \A r \in Request : WF_vars(Proceed(r) /\ Watch)

Spec == Init /\ [][Next]_vars /\ Fairness

-----------------------------------------------------------------------------

(* "IPs that accumulate too many strikes ... are temporarily banned"       *)
(* (ipAccess.ts:13): while Redis answers, strikes beyond the threshold are *)
(* those of requests that are about to ban the address.                    *)
Banning == {r \in Request : at[r] \in {"set_ban", "clear"}}
BanFollows == health = "ok" => strikes < Threshold + Cardinality(Banning)

(* "trusted IPs ... bypass all blocking and the auto-ban accounting        *)
(* entirely" (ipAccess.ts:10): no request is refused or counted when the   *)
(* address has been on the allow-list since the request came.              *)
TrustedBypass ==
  \A r \in Request : seen[r] = "trusted" =>
    at[r] \notin {"refused", "count", "expire", "set_ban", "clear"}

(* "deny blocked/banned IPs" (ipAccess.ts:34): while Redis answers, an     *)
(* address blocked, or banned, since the request came is not admitted; a   *)
(* request whose reads fall on both sides of a change may be.              *)
BarredRefused ==
  health = "ok" =>
    \A r \in Request : at[r] = "admitted" => seen[r] \notin {"blocked", "banned"}

(* What makes it so: a request whose standing never changed is where the   *)
(* three layers send such an address.                                      *)
SameStanding ==
  \A r \in Request :
    /\ seen[r] = "none" <=> at[r] = "idle"
    /\ seen[r] \in {"none", "changed", Standing}
    /\ seen[r] = "trusted" => at[r] \notin {"block", "ban"}
    /\ health = "ok" /\ at[r] = "ban" => seen[r] # "blocked"

(* Strikes have an expiry, or a request that is about to set it, however    *)
(* bans clear the counter between INCR and EXPIRE (ipAccess.ts:86-98).      *)
StrikesExpire ==
  health = "ok" /\ strikes > 0 => strikesTTL > 0 \/ \E r \in Request : at[r] = "expire"

IpIInv == /\ TypeOK /\ BanFollows /\ TrustedBypass /\ BarredRefused /\ SameStanding
          /\ StrikesExpire

(* "strikes counted over 10 minutes" (ipAccess.ts:25): strikes are         *)
(* forgotten some day, unless a failure left the counter without expiry.   *)
StrikesForgotten == strikes > 0 ~> strikes = 0 \/ health = "degraded"
=============================================================================
