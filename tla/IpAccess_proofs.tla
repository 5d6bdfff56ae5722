--------------------------- MODULE IpAccess_proofs ---------------------------
(***************************************************************************)
(* Bans, trust and refusals of one address, for any number of requests and *)
(* admins and any threshold and lengths of time.                           *)
(***************************************************************************)
EXTENDS IpAccess, FiniteSetTheorems, TLAPS

(* Any subset of the request slots can be counted. *)
LEMMA BanningCount ==
  ASSUME NEW steps
  PROVE  LET S == {r \in Request : steps[r] \in {"set_ban", "clear"}}
         IN  IsFiniteSet(S) /\ Cardinality(S) \in Nat
<1> DEFINE S == {r \in Request : steps[r] \in {"set_ban", "clear"}}
<1>1. S \in SUBSET Request
  OBVIOUS
<1>2. IsFiniteSet(S)
  BY <1>1, FS_Subset, IpAssumption DEF IpAssumption
<1> QED
  BY <1>2, FS_CardinalityType

Bans(step) == IF step \in {"set_ban", "clear"} THEN 1 ELSE 0

(* One request moves, and is counted where it goes. *)
LEMMA MoveCounted ==
  ASSUME TypeOK, NEW r \in Request, NEW from, NEW to, Move(r, from, to)
  PROVE  Cardinality(Banning') + Bans(from) = Cardinality(Banning) + Bans(to)
<1>1. IsFiniteSet(Banning) /\ Cardinality(Banning) \in Nat
  BY BanningCount DEF Banning
<1>2. /\ at[r] = from
      /\ \A q \in Request : at'[q] = IF q = r THEN to ELSE at[q]
  BY DEF Move, TypeOK
<1>3. Banning' = IF to \in {"set_ban", "clear"} THEN Banning \cup {r} ELSE Banning \ {r}
  BY <1>2 DEF Banning
<1>4. r \in Banning <=> from \in {"set_ban", "clear"}
  BY <1>2 DEF Banning
<1>5. /\ Cardinality(Banning \cup {r})
           = IF r \in Banning THEN Cardinality(Banning) ELSE Cardinality(Banning) + 1
      /\ Cardinality(Banning \ {r})
           = IF r \in Banning THEN Cardinality(Banning) - 1 ELSE Cardinality(Banning)
  BY <1>1, FS_AddElement, FS_RemoveElement
<1> QED
  BY <1>1, <1>3, <1>4, <1>5 DEF Bans

LEMMA IpInitial == Init => IpIInv
<1> SUFFICES ASSUME Init PROVE IpIInv
  OBVIOUS
<1> USE IpAssumption DEF IpAssumption
<1>1. TypeOK
  BY DEF Init, TypeOK, Step
<1>2. TrustedBypass /\ BarredRefused /\ SameStanding
  BY DEF Init, TrustedBypass, BarredRefused, SameStanding
<1>3. Cardinality(Banning) \in Nat /\ strikes = 0
  BY BanningCount DEF Banning, Init
<1>4. StrikesExpire
  BY <1>3 DEF StrikesExpire
<1> QED
  BY <1>1, <1>2, <1>3, <1>4 DEF IpIInv, BanFollows

-----------------------------------------------------------------------------

(* Where the requests go; the counter, the ban and the lists stay typed. *)
LEMMA IpTyping == TypeOK /\ [Next]_vars => TypeOK'
<1> SUFFICES ASSUME TypeOK, [Next]_vars PROVE TypeOK'
  OBVIOUS
<1> USE IpAssumption DEF IpAssumption
<1>1. \A r \in Request, to \in Step : \A from : Move(r, from, to) => at' \in [Request -> Step]
  BY DEF Move, TypeOK
<1>2. \A x \in 0..Window : Older(x) \in 0..Window
  BY DEF Older
<1>3. \A x \in 0..BanLength : Older(x) \in 0..BanLength
  BY DEF Older
<1> DEFINE Rest == /\ lists' \subseteq {"allow", "block"}
                   /\ strikes' \in Nat /\ strikesTTL' \in 0..Window /\ banTTL' \in 0..BanLength
                   /\ at' \in [Request -> Step]
                   /\ admin' \in [Admin -> {"idle", "unban"}]
                   /\ health' \in {"ok", "degraded"}
<1>4. ASSUME NEW r \in Request, Arrive(r) \/ Proceed(r)
      PROVE  Rest
  <2> USE DEF Step, Checking, Striking, Answered
  <2>1. CASE Arrive(r)
    BY <1>1, <2>1 DEF Arrive, rules, counter, TypeOK
  <2>2. CASE ReadAllow(r)
    BY <1>1, <2>2 DEF ReadAllow, rules, counter, TypeOK
  <2>3. CASE ReadBlock(r)
    BY <1>1, <2>3 DEF ReadBlock, rules, counter, TypeOK
  <2>4. CASE ReadBan(r)
    BY <1>1, <2>4 DEF ReadBan, rules, counter, TypeOK
  <2>5. CASE CheckFails(r)
    BY <2>5 DEF CheckFails, rules, counter, TypeOK
  <2>6. CASE Respond(r)
    BY <1>1, <2>6 DEF Respond, rules, counter, TypeOK
  <2>7. CASE StrikeAllowed(r)
    BY <1>1, <2>7 DEF StrikeAllowed, rules, counter, TypeOK
  <2>8. CASE CountStrike(r)
    BY <1>1, <2>8 DEF CountStrike, rules, counter, TypeOK
  <2>9. CASE ExpireStrikes(r)
    BY <1>1, <2>9 DEF ExpireStrikes, rules, counter, TypeOK
  <2>10. CASE SetBan(r)
    BY <1>1, <2>10 DEF SetBan, rules, counter, TypeOK
  <2>11. CASE ClearStrikes(r)
    BY <1>1, <2>11 DEF ClearStrikes, rules, counter, TypeOK
  <2>12. CASE StrikeFails(r)
    BY <1>1, <2>12 DEF StrikeFails, rules, counter, TypeOK
  <2> QED
    BY <1>4, <2>1, <2>2, <2>3, <2>4, <2>5, <2>6, <2>7, <2>8, <2>9, <2>10, <2>11, <2>12 DEF Proceed
<1>5. ASSUME NEW a \in Admin, Manage(a)
      PROVE  Rest
  <2>1. CASE EditBlocklist(a)
    BY <2>1 DEF EditBlocklist, counter, TypeOK
  <2>2. CASE DeleteBan(a)
    BY <2>2 DEF DeleteBan, counter, TypeOK
  <2>3. CASE EditAllowlist(a)
    BY <2>3 DEF EditAllowlist, counter, TypeOK
  <2> QED
    BY <1>5, <2>1, <2>2, <2>3 DEF Manage
<1>6. ASSUME Tick \/ Crash
      PROVE  Rest
  <2>1. CASE Tick
    BY <1>2, <1>3, <2>1 DEF Tick, rules, TypeOK
  <2>2. CASE Crash
    BY <2>2 DEF Crash, counter, TypeOK, Step
  <2> QED
    BY <1>6, <2>1, <2>2
<1>7. Watch => seen' \in [Request -> {"none", "changed", "trusted", "blocked", "banned", "free"}]
  BY DEF Watch, Standing
<1>8. CASE UNCHANGED vars
  BY <1>8 DEF vars, TypeOK
<1> QED
  BY <1>4, <1>5, <1>6, <1>7, <1>8 DEF Next, TypeOK

-----------------------------------------------------------------------------

(* No step mends Redis. *)
LEMMA IpHealth == TypeOK /\ [Next]_vars /\ health' = "ok" => health = "ok"
BY DEF Next, Arrive, Proceed, ReadAllow, ReadBlock, ReadBan, CheckFails, Respond, StrikeAllowed,
       CountStrike, ExpireStrikes, SetBan, ClearStrikes, StrikeFails, Manage, EditBlocklist,
       DeleteBan, EditAllowlist, Tick, Crash, vars, TypeOK

(* A strike that reaches the threshold is that of a request about to ban,  *)
(* and the request that clears the counter is the last to count for it.    *)
LEMMA BanStep == IpIInv /\ [Next]_vars => BanFollows'
<1> SUFFICES ASSUME IpIInv, [Next]_vars, health' = "ok"
             PROVE  strikes' < Threshold + Cardinality(Banning')
  BY DEF BanFollows
<1> DEFINE b == Cardinality(Banning)
<1> DEFINE bb == Cardinality(Banning')
<1>0. /\ TypeOK /\ Threshold \in Nat /\ Threshold > 1 /\ strikes \in Nat
      /\ b \in Nat /\ bb \in Nat
  BY IpAssumption, BanningCount DEF IpAssumption, IpIInv, TypeOK, Banning
<1>1. health = "ok"
  BY <1>0, IpHealth
<1>2. strikes < Threshold + b
  BY <1>1 DEF IpIInv, BanFollows
<1>3. ASSUME NEW r \in Request, NEW from, NEW to, Move(r, from, to)
      PROVE  bb + Bans(from) = b + Bans(to)
  BY <1>0, <1>3, MoveCounted
<1>4. UNCHANGED at => bb = b
  BY DEF Banning
<1> HIDE DEF b, bb
<1>5. ASSUME NEW r \in Request, NEW from, NEW to, Move(r, from, to), Bans(from) = Bans(to),
             UNCHANGED strikes
      PROVE  strikes' < Threshold + bb
  <2>1. bb + Bans(from) = b + Bans(from) /\ Bans(from) \in Nat
    BY <1>3, <1>5 DEF Bans
  <2> QED
    BY <1>0, <1>2, <1>5, <2>1
<1>6. ASSUME NEW r \in Request, Arrive(r) \/ Proceed(r)
      PROVE  strikes' < Threshold + bb
  <2> USE DEF Bans
  <2>1. CASE Arrive(r)
    BY <1>5, <2>1 DEF Arrive, counter
  <2>2. CASE ReadAllow(r) \/ ReadBlock(r) \/ ReadBan(r) \/ StrikeAllowed(r)
    BY <1>5, <2>2 DEF ReadAllow, ReadBlock, ReadBan, StrikeAllowed, counter
  <2>3. CASE Respond(r)
    BY <1>5, <2>3 DEF Respond, counter, Answered
  <2>4. CASE CountStrike(r)
    <3> DEFINE to == IF strikes + 1 = 1 THEN "expire"
                     ELSE IF strikes + 1 >= Threshold THEN "set_ban" ELSE "idle"
    <3>1. strikes' = strikes + 1 /\ Move(r, "count", to)
      BY <2>4 DEF CountStrike
    <3>2. bb + 0 = b + Bans(to)
      BY <1>3, <3>1
    <3> QED
      BY <1>0, <1>2, <3>1, <3>2
  <2>5. CASE ExpireStrikes(r) \/ SetBan(r)
    BY <1>5, <2>5 DEF ExpireStrikes, SetBan, counter
  <2>6. CASE ClearStrikes(r)
    BY <1>0, <2>6 DEF ClearStrikes
  <2>7. ~CheckFails(r) /\ ~StrikeFails(r)
    BY DEF CheckFails, StrikeFails
  <2> QED
    BY <1>6, <2>1, <2>2, <2>3, <2>4, <2>5, <2>6, <2>7 DEF Proceed
<1>7. ASSUME NEW a \in Admin, Manage(a)
      PROVE  strikes' < Threshold + bb
  BY <1>2, <1>4, <1>7 DEF Manage, EditBlocklist, DeleteBan, EditAllowlist, counter
<1>8. CASE Tick
  BY <1>0, <1>2, <1>4, <1>8 DEF Tick, b, bb
<1>9. ~Crash
  BY DEF Crash
<1>10. CASE UNCHANGED vars
  BY <1>2, <1>4, <1>10 DEF vars, b, bb
<1> QED
  BY <1>6, <1>7, <1>8, <1>9, <1>10 DEF Next, bb

(* A request that met one standing only goes where that standing sends it. *)
LEMMA StandingStep ==
  IpIInv /\ [Next]_vars => (TrustedBypass /\ BarredRefused /\ SameStanding)'
<1> SUFFICES ASSUME IpIInv, [Next]_vars
             PROVE  (TrustedBypass /\ BarredRefused /\ SameStanding)'
  OBVIOUS
<1>0. TypeOK /\ TypeOK'
  BY IpTyping DEF IpIInv
<1>1. CASE UNCHANGED vars
  BY <1>1 DEF vars, IpIInv, TrustedBypass, BarredRefused, SameStanding, Standing
<1>2. CASE Next
  <2> SUFFICES ASSUME NEW q \in Request
               PROVE  /\ seen'[q] = "trusted" => at'[q] \notin
                           {"refused", "count", "expire", "set_ban", "clear"}
                      /\ health' = "ok" /\ at'[q] = "admitted"
                           => seen'[q] \notin {"blocked", "banned"}
                      /\ seen'[q] = "none" <=> at'[q] = "idle"
                      /\ seen'[q] \in {"none", "changed", Standing'}
                      /\ seen'[q] = "trusted" => at'[q] \notin {"block", "ban"}
                      /\ health' = "ok" /\ at'[q] = "ban" => seen'[q] # "blocked"
    BY DEF TrustedBypass, BarredRefused, SameStanding
  <2>1. seen'[q] = IF at'[q] = "idle" THEN "none"
                   ELSE IF at[q] = "idle" \/ seen[q] = Standing' THEN Standing'
                   ELSE "changed"
    BY <1>2 DEF Next, Watch
  <2>2. Standing \in {"trusted", "blocked", "banned", "free"}
        /\ Standing' \in {"trusted", "blocked", "banned", "free"}
    BY DEF Standing
  <2>3. /\ seen[q] = "trusted" => at[q] \notin {"refused", "count", "expire", "set_ban", "clear"}
        /\ health = "ok" /\ at[q] = "admitted" => seen[q] \notin {"blocked", "banned"}
        /\ seen[q] = "none" <=> at[q] = "idle"
        /\ seen[q] \in {"none", "changed", Standing}
        /\ seen[q] = "trusted" => at[q] \notin {"block", "ban"}
        /\ health = "ok" /\ at[q] = "ban" => seen[q] # "blocked"
    BY DEF IpIInv, TrustedBypass, BarredRefused, SameStanding
  <2>4. health' = "ok" => health = "ok"
    BY <1>0, IpHealth
(* A request that does not move keeps what holds for it. *)
  <2>5. at'[q] = at[q] => \/ seen'[q] = seen[q] \/ seen'[q] = "changed"
    BY <2>1, <2>3
  <2>6. CASE at'[q] = at[q]
    BY <2>1, <2>2, <2>3, <2>4, <2>5, <2>6
(* Otherwise the request moves. *)
  <2>7. ASSUME NEW r \in Request, NEW from, NEW to, Move(r, from, to), at'[q] # at[q]
        PROVE  at[q] = from /\ at'[q] = to
    BY <1>0, <2>7 DEF Move, TypeOK
  <2>8. ASSUME UNCHANGED <<lists, banTTL>>
        PROVE  Standing' = Standing
    BY <2>8 DEF Standing
  <2>9. ASSUME NEW r \in Request, Arrive(r) \/ Proceed(r), at'[q] # at[q]
        PROVE  \/ at'[q] = "idle"
               \/ at[q] = "idle" /\ at'[q] \in {"allow", "strike"}
               \/ at[q] = "allow" /\ Standing' = "trusted" /\ at'[q] = "admitted"
               \/ at[q] = "allow" /\ Standing' # "trusted" /\ at'[q] = "block"
               \/ at[q] = "block" /\ at'[q] = "refused" /\ "block" \in lists
                    /\ Standing' = Standing
               \/ at[q] = "block" /\ at'[q] = "ban" /\ "block" \notin lists
                    /\ Standing' = Standing
               \/ at[q] = "ban" /\ at'[q] = "refused" /\ banTTL > 0 /\ Standing' = Standing
               \/ at[q] = "ban" /\ at'[q] = "admitted" /\ banTTL = 0 /\ Standing' = Standing
               \/ health' = "degraded" /\ at'[q] = "admitted"
               \/ at[q] = "admitted" /\ at'[q] = "strike"
               \/ at[q] = "strike" /\ at'[q] = "count" /\ Standing' # "trusted"
               \/ at[q] = "count" /\ at'[q] \in {"expire", "set_ban"}
               \/ at[q] = "set_ban" /\ at'[q] = "clear"
    <3> USE <2>7, <2>9
    <3>1. CASE Arrive(r)
      BY <3>1 DEF Arrive
    <3>2. CASE ReadAllow(r)
      BY <3>2 DEF ReadAllow, rules, Standing
    <3>3. CASE ReadBlock(r)
      BY <2>8, <3>3 DEF ReadBlock, rules
    <3>4. CASE ReadBan(r)
      BY <1>0, <2>8, <3>4 DEF ReadBan, rules, TypeOK
    <3>5. CASE CheckFails(r)
      BY <1>0, <3>5 DEF CheckFails, TypeOK
    <3>6. CASE Respond(r)
      BY <3>6 DEF Respond
    <3>7. CASE StrikeAllowed(r)
      BY <3>7 DEF StrikeAllowed, rules, Standing
    <3>8. CASE CountStrike(r)
      BY <3>8 DEF CountStrike
    <3>9. CASE ExpireStrikes(r) \/ SetBan(r) \/ ClearStrikes(r)
      BY <3>9 DEF ExpireStrikes, SetBan, ClearStrikes
    <3>10. CASE StrikeFails(r)
      BY <3>10 DEF StrikeFails
    <3> QED
      BY <3>1, <3>2, <3>3, <3>4, <3>5, <3>6, <3>7, <3>8, <3>9, <3>10 DEF Proceed
  <2>10. ASSUME NEW r \in Request, Arrive(r) \/ Proceed(r), at'[q] # at[q]
         PROVE  /\ seen'[q] = "trusted" => at'[q] \notin
                     {"refused", "count", "expire", "set_ban", "clear"}
                /\ health' = "ok" /\ at'[q] = "admitted"
                     => seen'[q] \notin {"blocked", "banned"}
                /\ seen'[q] = "none" <=> at'[q] = "idle"
                /\ seen'[q] \in {"none", "changed", Standing'}
                /\ seen'[q] = "trusted" => at'[q] \notin {"block", "ban"}
                /\ health' = "ok" /\ at'[q] = "ban" => seen'[q] # "blocked"
    <3>1. banTTL \in Nat /\ (Standing = "trusted" => "allow" \in lists)
          /\ (Standing = "blocked" => "block" \in lists)
          /\ (Standing = "banned" => banTTL > 0)
      BY <1>0 DEF Standing, TypeOK
    <3>2. /\ seen'[q] = "none" <=> at'[q] = "idle"
          /\ seen'[q] \in {"none", "changed", Standing'}
      BY <2>1, <2>2, <2>3
    <3>3. seen'[q] = "trusted" => at'[q] \notin
            {"refused", "count", "expire", "set_ban", "clear", "block", "ban"}
      BY <2>1, <2>2, <2>3, <2>9, <2>10, <3>1
    <3>4. health' = "ok" /\ at'[q] = "admitted" => seen'[q] \notin {"blocked", "banned"}
      BY <2>1, <2>2, <2>3, <2>4, <2>9, <2>10, <3>1
    <3>5. health' = "ok" /\ at'[q] = "ban" => seen'[q] # "blocked"
      BY <2>1, <2>2, <2>3, <2>4, <2>9, <2>10, <3>1
    <3> QED
      BY <3>2, <3>3, <3>4, <3>5
  <2>11. CASE Crash
    BY <2>1, <2>11 DEF Crash
  <2>12. ASSUME NEW a \in Admin, Manage(a)
         PROVE  at'[q] = at[q]
    BY <2>12 DEF Manage, EditBlocklist, DeleteBan, EditAllowlist
  <2>13. Tick => at'[q] = at[q]
    BY DEF Tick
  <2> QED
    BY <1>2, <2>6, <2>10, <2>11, <2>12, <2>13 DEF Next
<1> QED
  BY <1>1, <1>2

(* Requests about to set the expiry of the strikes. *)
Expiring == {r \in Request : at[r] = "expire"}

(* The request that moves joins or leaves them. *)
LEMMA ExpiringMoves ==
  ASSUME TypeOK, NEW r \in Request, NEW from, NEW to, Move(r, from, to)
  PROVE  /\ r \in Expiring <=> from = "expire"
         /\ Expiring' = IF to = "expire" THEN Expiring \cup {r} ELSE Expiring \ {r}
BY DEF Move, TypeOK, Expiring

(* What a step does to the strikes and to who will set their expiry: the   *)
(* first strike is counted, an expiry is set, the counter is cleared, it   *)
(* is left alone or counted on, or it ages.                                *)
LEMMA ExpirySteps ==
  ASSUME TypeOK, [Next]_vars, health' = "ok"
  PROVE  \/ \E r \in Request : strikes = 0 /\ strikes' = 1 /\ Expiring' = Expiring \cup {r}
         \/ \E r \in Expiring : /\ Expiring' = Expiring \ {r} /\ strikes' = strikes
                              /\ strikesTTL' = (IF strikes > 0 THEN Window ELSE 0)
         \/ Expiring' = Expiring /\ strikes' = 0 /\ strikesTTL' = 0
         \/ /\ Expiring' = Expiring /\ strikesTTL' = strikesTTL
            /\ strikes' > 0 => strikes > 0
         \/ Expiring' = Expiring /\ Tick
<1> DEFINE Kept == /\ Expiring' = Expiring /\ strikesTTL' = strikesTTL
                   /\ strikes' > 0 => strikes > 0
<1>1. strikes \in Nat /\ health = "ok"
  BY IpHealth DEF TypeOK
<1>2. ASSUME NEW r \in Request, NEW from, NEW to, Move(r, from, to),
             from # "expire", to # "expire", UNCHANGED counter
      PROVE  Kept
  BY <1>2, ExpiringMoves DEF counter
<1>3. ASSUME NEW r \in Request, Arrive(r) \/ ReadAllow(r) \/ ReadBlock(r) \/ ReadBan(r)
             \/ Respond(r) \/ StrikeAllowed(r) \/ SetBan(r)
      PROVE  Kept
  BY <1>2, <1>3 DEF Arrive, ReadAllow, ReadBlock, ReadBan, Respond, StrikeAllowed, SetBan, Answered
<1>4. ASSUME NEW r \in Request, CountStrike(r)
      PROVE  \/ strikes = 0 /\ strikes' = 1 /\ Expiring' = Expiring \cup {r}
             \/ Kept
  <2>1. CASE strikes = 0
    <3>1. Move(r, "count", "expire") /\ strikes' = 1
      BY <1>4, <2>1 DEF CountStrike
    <3> QED
      BY <2>1, <3>1, ExpiringMoves
  <2>2. CASE strikes > 0
    <3> DEFINE to == IF strikes' >= Threshold THEN "set_ban" ELSE "idle"
    <3>1. Move(r, "count", to) /\ to # "expire" /\ UNCHANGED strikesTTL
      BY <1>1, <1>4, <2>2 DEF CountStrike
    <3> HIDE DEF to
    <3>2. Expiring' = Expiring
      BY <3>1, ExpiringMoves
    <3> QED
      BY <2>2, <3>1, <3>2
  <2> QED
    BY <1>1, <2>1, <2>2
<1>5. ASSUME NEW r \in Request, ExpireStrikes(r)
      PROVE  /\ r \in Expiring /\ Expiring' = Expiring \ {r} /\ strikes' = strikes
             /\ strikesTTL' = (IF strikes > 0 THEN Window ELSE 0)
  BY <1>5, ExpiringMoves DEF ExpireStrikes
<1>6. ASSUME NEW r \in Request, ClearStrikes(r)
      PROVE  Expiring' = Expiring /\ strikes' = 0 /\ strikesTTL' = 0
  BY <1>6, ExpiringMoves DEF ClearStrikes
<1>7. \A r \in Request : ~CheckFails(r) /\ ~StrikeFails(r)
  BY <1>1 DEF CheckFails, StrikeFails
<1>8. (\E a \in Admin : Manage(a)) \/ UNCHANGED vars => Kept
  BY DEF Manage, EditBlocklist, DeleteBan, EditAllowlist, counter, vars, Expiring
<1>9. Tick => Expiring' = Expiring
  BY DEF Tick, Expiring
<1>10. ~Crash
  BY <1>1 DEF Crash
<1> HIDE DEF Kept
<1>11. \/ Kept
       \/ \E r \in Request : strikes = 0 /\ strikes' = 1 /\ Expiring' = Expiring \cup {r}
       \/ \E r \in Expiring : /\ Expiring' = Expiring \ {r} /\ strikes' = strikes
                            /\ strikesTTL' = (IF strikes > 0 THEN Window ELSE 0)
       \/ Expiring' = Expiring /\ strikes' = 0 /\ strikesTTL' = 0
       \/ Expiring' = Expiring /\ Tick
  BY <1>3, <1>4, <1>5, <1>6, <1>7, <1>8, <1>9, <1>10 DEF Next, Proceed
<1> QED
  BY <1>11 DEF Kept

(* The request that counts the first strike is the one that sets the       *)
(* expiry, and no step leaves strikes without either.                      *)
LEMMA ExpiryStep == IpIInv /\ [Next]_vars => StrikesExpire'
<1> SUFFICES ASSUME IpIInv, [Next]_vars, health' = "ok", strikes' > 0
             PROVE  strikesTTL' > 0 \/ Expiring' # {}
  BY DEF StrikesExpire, Expiring
<1>1. TypeOK /\ health = "ok" /\ strikes \in Nat /\ strikesTTL \in Nat /\ Window \in Nat \ {0}
  BY IpHealth, IpAssumption DEF IpIInv, IpAssumption, TypeOK
<1>2. strikes > 0 => strikesTTL > 0 \/ Expiring # {}
  BY <1>1 DEF IpIInv, StrikesExpire, Expiring
<1>3. CASE Expiring' = Expiring /\ Tick
  BY <1>1, <1>2, <1>3 DEF Tick, Older
<1> QED
  BY <1>1, <1>2, <1>3, ExpirySteps

(* IpIInv is an invariant of access control: typing, bans that follow      *)
(* strikes, trust, refusal, what requests met, and strikes that expire     *)
(* (ipAccess.ts).                                                          *)
THEOREM IpInvariance == Spec => []IpIInv
<1>1. IpIInv /\ [Next]_vars => IpIInv'
  BY IpTyping, BanStep, StandingStep, ExpiryStep DEF IpIInv
<1> QED
  BY IpInitial, <1>1, PTL DEF Spec

(* Strikes beyond the threshold belong to requests about to ban the        *)
(* address, while Redis answers (recordStrike).                            *)
THEOREM BanFollowsHolds == Spec => []BanFollows
<1>1. IpIInv => BanFollows
  BY DEF IpIInv
<1> QED
  BY IpInvariance, <1>1, PTL

(* An address trusted since its request came is neither refused nor struck *)
(* (ipAccessControl, recordStrike), whatever fails.                        *)
THEOREM TrustedBypassHolds == Spec => []TrustedBypass
<1>1. IpIInv => TrustedBypass
  BY DEF IpIInv
<1> QED
  BY IpInvariance, <1>1, PTL

(* An address blocked or banned since its request came is not admitted     *)
(* while Redis answers (ipAccessControl).                                  *)
THEOREM BarredRefusedHolds == Spec => []BarredRefused
<1>1. IpIInv => BarredRefused
  BY DEF IpIInv
<1> QED
  BY IpInvariance, <1>1, PTL

-----------------------------------------------------------------------------

(* How long strikes can be kept, in ticks: each request about to set the   *)
(* expiry may set it once more, to a full Window.                          *)
StrikesLeft == Cardinality(Expiring) * (Window + 1) + strikesTTL

(* "strikes counted over 10 minutes": while Redis answers, a counter has   *)
(* something left before it expires, no step makes that more, and every    *)
(* EXPIRE, and every tick once an expiry is set, makes it less.            *)
StrikesRunDown ==
  [][strikes > 0 /\ health' = "ok" =>
       /\ StrikesLeft > 0 /\ StrikesLeft' <= StrikesLeft
       /\ (Tick /\ strikesTTL > 0) \/ (\E r \in Request : ExpireStrikes(r))
            => StrikesLeft' < StrikesLeft]_vars

(* A window is paid for by the request that set it. *)
LEMMA LeftShrinks ==
  ASSUME NEW m \in Nat, NEW n \in Nat, NEW t \in 0..Window, NEW u \in 0..Window
  PROVE  LET before == m * (Window + 1) + t
             after == n * (Window + 1) + u
         IN  /\ before \in Nat /\ after \in Nat
             /\ n = m /\ u <= t => after <= before
             /\ n = m /\ u < t => after < before
             /\ n < m => after < before
             /\ m > 0 \/ t > 0 => before > 0
<1>1. Window \in Nat
  BY IpAssumption DEF IpAssumption
<1> DEFINE w == Window + 1
<1>2. w \in Nat /\ t \in Nat /\ u \in Nat /\ t < w /\ u < w
  BY <1>1
<1> HIDE DEF w
<1>3. m * w \in Nat /\ n * w \in Nat
  BY <1>2
<1>4. ASSUME n < m
      PROVE  n * w + w <= m * w
  <2>1. PICK d \in Nat : m = (n + 1) + d
    <3>1. m - (n + 1) \in Nat /\ m = (n + 1) + (m - (n + 1))
      BY <1>4
    <3> QED
      BY <3>1
  <2>2. m * w = n * w + w + d * w /\ d * w \in Nat
    BY <1>2, <2>1
  <2> QED
    BY <1>2, <1>3, <2>2
<1>5. ASSUME m > 0
      PROVE  w <= m * w
  <2>1. PICK d \in Nat : m = d + 1
    <3>1. m - 1 \in Nat /\ m = (m - 1) + 1
      BY <1>5
    <3> QED
      BY <3>1
  <2>2. m * w = d * w + w /\ d * w \in Nat
    BY <1>2, <2>1
  <2> QED
    BY <1>2, <2>2
<1> QED
  BY <1>2, <1>3, <1>4, <1>5 DEF w

LEMMA StrikesStep ==
  ASSUME IpIInv, [Next]_vars, strikes > 0, health' = "ok"
  PROVE  /\ StrikesLeft > 0 /\ StrikesLeft' <= StrikesLeft
         /\ (Tick /\ strikesTTL > 0) \/ (\E r \in Request : ExpireStrikes(r))
              => StrikesLeft' < StrikesLeft
<1> DEFINE m == Cardinality(Expiring)
<1> DEFINE n == Cardinality(Expiring')
<1>1. /\ TypeOK /\ TypeOK' /\ health = "ok" /\ Window \in Nat \ {0} /\ strikes \in Nat
      /\ strikesTTL \in 0..Window /\ strikesTTL' \in 0..Window
  BY IpTyping, IpHealth, IpAssumption DEF IpIInv, IpAssumption, TypeOK
<1>2. IsFiniteSet(Expiring) /\ m \in Nat /\ n \in Nat
  <2>1. Expiring \in SUBSET Request /\ Expiring' \in SUBSET Request
    BY DEF Expiring
  <2> QED
    BY <2>1, FS_Subset, FS_CardinalityType, IpAssumption DEF IpAssumption
<1>3. Expiring # {} => m > 0
  BY <1>2, FS_EmptySet
<1>4. ASSUME NEW r \in Expiring, Expiring' = Expiring \ {r}
      PROVE  n < m
  <2>1. n = m - 1
    BY <1>2, <1>4, FS_RemoveElement
  <2> QED
    BY <1>2, <2>1
<1>5. Expiring' = Expiring => n = m
  OBVIOUS
<1>6. /\ n = m /\ strikesTTL' <= strikesTTL => StrikesLeft' <= StrikesLeft
      /\ n = m /\ strikesTTL' < strikesTTL => StrikesLeft' < StrikesLeft
      /\ n < m => StrikesLeft' < StrikesLeft
      /\ m > 0 \/ strikesTTL > 0 => StrikesLeft > 0
      /\ StrikesLeft' < StrikesLeft => StrikesLeft' <= StrikesLeft
  <2>1. /\ StrikesLeft = m * (Window + 1) + strikesTTL
        /\ StrikesLeft' = n * (Window + 1) + strikesTTL'
    BY DEF StrikesLeft
  <2> HIDE DEF m, n
  <2>2. StrikesLeft \in Nat /\ StrikesLeft' \in Nat
    BY <1>1, <1>2, <2>1, LeftShrinks
  <2>3. StrikesLeft' < StrikesLeft => StrikesLeft' <= StrikesLeft
    BY <2>2
  <2>4. m > 0 \/ strikesTTL > 0 => StrikesLeft > 0
    BY <1>1, <1>2, <2>1, LeftShrinks
  <2>5. /\ n = m /\ strikesTTL' <= strikesTTL => StrikesLeft' <= StrikesLeft
        /\ n = m /\ strikesTTL' < strikesTTL => StrikesLeft' < StrikesLeft
        /\ n < m => StrikesLeft' < StrikesLeft
    BY <1>1, <1>2, <2>1, LeftShrinks
  <2> QED
    BY <2>3, <2>4, <2>5
<1> HIDE DEF m, n
<1>7. StrikesLeft > 0
  <2>1. strikesTTL > 0 \/ Expiring # {}
    BY <1>1 DEF IpIInv, StrikesExpire, Expiring
  <2> QED
    BY <1>3, <1>6, <2>1
<1>8. ASSUME NEW r \in Request, ExpireStrikes(r)
      PROVE  StrikesLeft' < StrikesLeft
  <2>1. r \in Expiring /\ Expiring' = Expiring \ {r}
    BY <1>1, <1>8, ExpiringMoves DEF ExpireStrikes
  <2> QED
    BY <1>4, <1>6, <2>1
<1>9. ASSUME Tick
      PROVE  /\ StrikesLeft' <= StrikesLeft
             /\ strikesTTL > 0 => StrikesLeft' < StrikesLeft
  <2>1. /\ Expiring' = Expiring /\ strikesTTL' <= strikesTTL
        /\ strikesTTL > 0 => strikesTTL' < strikesTTL
    BY <1>1, <1>9 DEF Tick, Older, Expiring
  <2> QED
    BY <1>5, <1>6, <2>1
<1>10. Tick \/ (\E r \in Expiring : Expiring' = Expiring \ {r})
         \/ (Expiring' = Expiring /\ strikesTTL' <= strikesTTL)
  <2>1. strikes # 0 /\ strikesTTL <= strikesTTL /\ 0 <= strikesTTL
    BY <1>1
  <2> QED
    BY <1>1, <2>1, ExpirySteps
<1>11. StrikesLeft' <= StrikesLeft
  BY <1>4, <1>5, <1>6, <1>9, <1>10
<1> QED
  BY <1>7, <1>8, <1>9, <1>11

(* Strikes run down (recordStrike): with the fairness of requests and time *)
(* they are forgotten, at the latest after one Window and one more for     *)
(* each request about to set it.  The step-wise half of StrikesForgotten.  *)
THEOREM StrikesRunDownHolds == Spec => StrikesRunDown
<1>1. IpIInv /\ [Next]_vars
        => [strikes > 0 /\ health' = "ok" =>
              /\ StrikesLeft > 0 /\ StrikesLeft' <= StrikesLeft
              /\ (Tick /\ strikesTTL > 0) \/ (\E r \in Request : ExpireStrikes(r))
                   => StrikesLeft' < StrikesLeft]_vars
  BY StrikesStep
<1> QED
  BY IpInvariance, <1>1, PTL DEF Spec, StrikesRunDown
=============================================================================
