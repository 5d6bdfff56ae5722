--------------------------- MODULE Factors_proofs ----------------------------
(***************************************************************************)
(* No code is replayed, no unproven secret is switched on and no counter   *)
(* goes back, for any number of requests, secrets and steps.               *)
(***************************************************************************)
EXTENDS Factors, TLAPS

LEMMA IdleIsSlot == Idle \in Slot /\ Idle.at = "idle"
  BY FactorsAssumption, SMT DEF FactorsAssumption, Idle, Slot, Step, Window

(* One slot changes. *)
LEMMA BecomeSlot ==
  ASSUME TypeOK, NEW r \in Request, NEW slot \in Slot, Become(r, slot)
  PROVE  /\ req' \in [Request -> Slot]
         /\ \A q \in Request : req'[q] = IF q = r THEN slot ELSE req[q]
  BY DEF TypeOK, Become

(* What a slot must satisfy to be Carried, under a clock and the secrets   *)
(* shown.                                                                  *)
Fine(slot, time, secrets) ==
  /\ slot.at = "burning" =>
       /\ slot.secret \in Secret
       /\ slot.key \in {slot.step, slot.step + 1}
       /\ slot.key <= time + Window
  /\ slot.at = "reading" => slot.secret \in Secret
  /\ slot.at = "enabling" => slot.secret \in secrets
  /\ slot.at = "generating" => slot.enabled = "off"
  /\ slot.at = "bumping" => slot.new >= slot.count

LEMMA CarriedIsFine == Carried <=> \A r \in Request : Fine(req[r], now, shown)
  BY DEF Carried, Fine, At

(* Time goes by and secrets are shown: what was fine stays so. *)
LEMMA FineStays ==
  ASSUME NEW slot \in Slot, NEW time \in Int, NEW secrets, Fine(slot, time, secrets),
         NEW later \in Int, later >= time, NEW more, secrets \subseteq more
  PROVE  Fine(slot, later, more)
  BY FactorsAssumption, SMT DEF FactorsAssumption, Fine, Slot, Step, Window

(* A step that changes one slot to a fine one, if any, keeps Carried. *)
LEMMA CarriedStays ==
  ASSUME TypeOK, TypeOK', Carried, now' >= now, shown \subseteq shown',
         NEW r \in Request, NEW slot \in Slot, Fine(slot, now', shown'),
         Become(r, slot)
  PROVE  Carried'
<1>1. \A q \in Request : req'[q] = IF q = r THEN slot ELSE req[q]
  BY BecomeSlot
<1>2. \A q \in Request : Fine(req[q], now, shown)
  BY CarriedIsFine
<1>3. now \in Int /\ now' \in Int /\ \A q \in Request : req[q] \in Slot
  BY FactorsAssumption DEF FactorsAssumption, TypeOK
<1>4. \A q \in Request : Fine(req[q], now', shown')
  BY <1>2, <1>3, FineStays
<1>5. \A q \in Request : Fine(req'[q], now', shown')
  BY <1>1, <1>4
<1> QED
  BY <1>5 DEF Carried, Fine, At

LEMMA FactorsInitial == Init => FactorsIInv
<1> SUFFICES ASSUME Init PROVE FactorsIInv
  OBVIOUS
<1>1. TypeOK
  BY IdleIsSlot, FactorsAssumption
  DEF FactorsAssumption, Init, TypeOK, Row, NoMfa, Step, Window
<1>2. Carried /\ SetInWindow /\ BurnedWhileValid /\ CodeOnce
  BY IdleIsSlot DEF Init, Carried, At, SetInWindow, BurnedWhileValid, CodeOnce
<1> QED
  BY <1>1, <1>2 DEF FactorsIInv

-----------------------------------------------------------------------------
(* The steps that burn nothing. *)

LEMMA QuietStep ==
  ASSUME FactorsIInv, NEW r \in Request, NEW slot \in Slot,
         Become(r, slot), Fine(slot, now, shown),
         UNCHANGED <<now, burned, valid, shown, accepted, replayed>>,
         row' \in Row, counter' \in 0..MaxCount, made' \subseteq Secret
  PROVE  FactorsIInv'
<1> USE DEF FactorsIInv
<1>1. TypeOK'
  BY BecomeSlot DEF TypeOK
<1>2. now' >= now
  BY FactorsAssumption DEF FactorsAssumption, TypeOK
<1>3. Carried'
  BY <1>1, <1>2, CarriedStays
<1>4. SetInWindow' /\ BurnedWhileValid' /\ CodeOnce'
  BY DEF SetInWindow, BurnedWhileValid, CodeOnce
<1> QED
  BY <1>1, <1>3, <1>4

LEMMA Zeros == 0 \in Step /\ Step \subseteq Int /\ 0 \in 0..MaxCount
  BY FactorsAssumption DEF FactorsAssumption, Step, Window

LEMMA FactorsQuiet ==
  ASSUME FactorsIInv, NEW r \in Request,
         \/ SetupRead(r) \/ Generate(r) \/ PasswordRight(r) \/ Submit(r) \/ WrongCode(r)
         \/ Enable(r) \/ Disable(r) \/ ReadCounter(r) \/ Verify(r) \/ Bump(r) \/ Quit(r)
  PROVE  FactorsIInv'
<1>1. TypeOK /\ req[r] \in Slot /\ Fine(req[r], now, shown)
  BY CarriedIsFine DEF FactorsIInv, TypeOK
<1>2. Idle \in Slot /\ Fine(Idle, now, shown)
  BY IdleIsSlot DEF Fine
<1>3. row' \in Row /\ counter' \in 0..MaxCount /\ made' \subseteq Secret
       => \A slot \in Slot :
            /\ Become(r, slot) /\ Fine(slot, now, shown)
            /\ UNCHANGED <<now, burned, valid, shown, accepted, replayed>>
            => FactorsIInv'
  BY QuietStep
<1>4. CASE SetupRead(r)
  <2> DEFINE slot == [Idle EXCEPT !.at = "generating", !.enabled = row.enabled]
  <2>1. slot \in Slot /\ Fine(slot, now, shown)
    BY <1>4, Zeros DEF SetupRead, Idle, Slot, Fine
  <2>2. row' \in Row /\ counter' \in 0..MaxCount /\ made' \subseteq Secret
    BY <1>1, <1>4 DEF SetupRead, TypeOK, history
  <2> QED
    BY <1>3, <1>4, <2>1, <2>2 DEF SetupRead, history
<1>5. CASE Generate(r)
  <2>1. row' \in Row /\ counter' \in 0..MaxCount /\ made' \subseteq Secret
    BY <1>1, <1>5 DEF Generate, TypeOK, Row
  <2> QED
    BY <1>2, <1>3, <1>5, <2>1 DEF Generate
<1>6. CASE PasswordRight(r)
  <2> DEFINE slot == [Idle EXCEPT !.at = "pending"]
  <2>1. slot \in Slot /\ Fine(slot, now, shown)
    BY Zeros DEF Idle, Slot, Fine
  <2>2. row' \in Row /\ counter' \in 0..MaxCount /\ made' \subseteq Secret
    BY <1>1, <1>6 DEF PasswordRight, TypeOK, history
  <2> QED
    BY <1>3, <1>6, <2>1, <2>2 DEF PasswordRight, history
<1>7. CASE Submit(r)
  <2> DEFINE again == [req[r] EXCEPT !.at = "reading", !.secret = row.secret]
             first(f) == [Idle EXCEPT !.at = "reading", !.for = f, !.secret = row.secret]
  <2>1. row.secret \in Secret
    BY <1>1, <1>7 DEF Submit, TypeOK, Row
  <2>2. again \in Slot /\ Fine(again, now, shown)
    BY <1>1, <2>1 DEF Slot, Fine
  <2>3. \A f \in {"enable", "disable"} : first(f) \in Slot /\ Fine(first(f), now, shown)
    BY <2>1, Zeros DEF Idle, Slot, Fine
  <2>4. row' \in Row /\ counter' \in 0..MaxCount /\ made' \subseteq Secret
    BY <1>1, <1>7 DEF Submit, TypeOK, history
  <2>5. UNCHANGED <<now, burned, valid, shown, accepted, replayed>>
    BY <1>7 DEF Submit, history
  <2>6. Become(r, again) \/ \E f \in {"enable", "disable"} : Become(r, first(f))
    BY <1>7 DEF Submit
  <2> QED
    BY <1>3, <2>2, <2>3, <2>4, <2>5, <2>6
<1>8. CASE WrongCode(r)
  <2> DEFINE slot == [Idle EXCEPT !.at = IF req[r].for = "login" THEN "pending" ELSE "idle"]
  <2>1. slot \in Slot /\ Fine(slot, now, shown)
    BY Zeros DEF Idle, Slot, Fine
  <2>2. row' \in Row /\ counter' \in 0..MaxCount /\ made' \subseteq Secret
    BY <1>1, <1>8 DEF WrongCode, TypeOK, history
  <2> QED
    BY <1>3, <1>8, <2>1, <2>2 DEF WrongCode, Back, history
<1>9. CASE Enable(r) \/ Disable(r) \/ Quit(r)
  <2>1. row' \in Row /\ counter' \in 0..MaxCount /\ made' \subseteq Secret
    BY <1>1, <1>9 DEF Enable, Disable, Quit, TypeOK, Row, NoMfa, history
  <2> QED
    BY <1>2, <1>3, <1>9, <2>1 DEF Enable, Disable, Quit, history
<1>10. CASE ReadCounter(r)
  <2> DEFINE slot == [Idle EXCEPT !.at = "signing", !.count = counter]
  <2>1. slot \in Slot /\ Fine(slot, now, shown)
    BY <1>1, Zeros DEF TypeOK, Idle, Slot, Fine
  <2>2. row' \in Row /\ counter' \in 0..MaxCount /\ made' \subseteq Secret
    BY <1>1, <1>10 DEF ReadCounter, TypeOK, history
  <2> QED
    BY <1>3, <1>10, <2>1, <2>2 DEF ReadCounter, history
<1>11. CASE Verify(r)
  <2>1. PICK n \in 0..MaxCount :
          /\ n > req[r].count \/ (n = 0 /\ req[r].count = 0)
          /\ Become(r, [req[r] EXCEPT !.at = "bumping", !.new = n])
    BY <1>11 DEF Verify
  <2> DEFINE slot == [req[r] EXCEPT !.at = "bumping", !.new = n]
  <2>2. slot \in Slot
    BY <1>1 DEF Slot
  <2>3. slot.new >= slot.count
    BY <1>1, <2>1, FactorsAssumption DEF FactorsAssumption, Slot
  <2>4. Fine(slot, now, shown)
    BY <1>1, <2>3 DEF Slot, Fine
  <2>5. row' \in Row /\ counter' \in 0..MaxCount /\ made' \subseteq Secret
    BY <1>1, <1>11 DEF Verify, TypeOK, history
  <2> QED
    BY <1>3, <1>11, <2>1, <2>2, <2>4, <2>5 DEF Verify, history
<1>12. CASE Bump(r)
  <2>1. row' \in Row /\ counter' \in 0..MaxCount /\ made' \subseteq Secret
    BY <1>1, <1>12 DEF Bump, TypeOK, Slot, history
  <2> QED
    BY <1>2, <1>3, <1>12, <2>1 DEF Bump, history
<1> QED
  BY <1>4, <1>5, <1>6, <1>7, <1>8, <1>9, <1>10, <1>11, <1>12

-----------------------------------------------------------------------------
(* Time, and the codes. *)

(* Time goes by: what was burned in a window stays burned in it. *)
LEMMA FactorsTick ==
  ASSUME FactorsIInv, Tick
  PROVE  FactorsIInv'
<1> USE FactorsAssumption DEF FactorsAssumption, FactorsIInv
<1>1. TypeOK' /\ now \in Int /\ now' \in Int /\ now' >= now
  BY DEF Tick, TypeOK, history
<1>2. \A q \in Request : Fine(req[q], now, shown) /\ req[q] \in Slot
  BY CarriedIsFine DEF TypeOK
<1>3. \A q \in Request : Fine(req[q], now', shown)
  BY <1>1, <1>2, FineStays
<1>4. Carried'
  BY <1>3 DEF Carried, Fine, At, Tick, history
<1>5. SetInWindow' /\ CodeOnce'
  BY DEF Tick, SetInWindow, CodeOnce, history
<1>6. BurnedWhileValid'
  <2> SUFFICES ASSUME NEW c \in accepted PROVE burned[c[2]] # None \/ now' > c[2] + Window
    BY DEF BurnedWhileValid, Tick, history
  <2>1. c[2] \in Int /\ (burned[c[2]] # None \/ now > c[2] + Window)
    BY Zeros DEF BurnedWhileValid, TypeOK, Code
  <2> QED
    BY <1>1, <2>1 DEF Window
<1> QED
  BY <1>1, <1>4, <1>5, <1>6

(* A key that expires was set at most Window steps before the one it is    *)
(* for, so that step has left the window.                                  *)
LEMMA FactorsExpire ==
  ASSUME FactorsIInv, Expire
  PROVE  FactorsIInv'
<1> USE DEF FactorsIInv
<1>1. PICK k \in Step : /\ burned[k] # None /\ now >= burned[k] + Ttl
                        /\ burned' = [burned EXCEPT ![k] = None]
  BY DEF Expire
<1>2. UNCHANGED <<now, row, counter, req, history>>
  BY DEF Expire
<1>3. k <= burned[k] + Window /\ burned[k] \in Int /\ k \in Int /\ now \in Int
  <2>1. k <= burned[k] + Window
    BY <1>1 DEF SetInWindow
  <2>2. burned[k] \in Step /\ now \in 0..MaxTime
    BY <1>1 DEF TypeOK
  <2>3. burned[k] \in Int /\ k \in Int
    BY <2>2, Zeros
  <2>4. now \in Int
    BY <2>2
  <2> QED
    BY <2>1, <2>3, <2>4, Zenon
<1>4. now > k + Window
  BY <1>1, <1>3 DEF Ttl, Window
<1>5. \A j \in Step : burned'[j] = IF j = k THEN None ELSE burned[j]
  BY <1>1 DEF TypeOK
<1>6. TypeOK'
  BY <1>1, <1>2 DEF TypeOK, history
<1>7. Carried' /\ CodeOnce'
  BY <1>2 DEF Carried, At, CodeOf, CodeOnce, history
<1>8. SetInWindow'
  BY <1>5 DEF SetInWindow
<1>9. BurnedWhileValid'
  <2> SUFFICES ASSUME NEW c \in accepted PROVE burned'[c[2]] # None \/ now > c[2] + Window
    BY <1>2 DEF BurnedWhileValid, history
  <2>1. c[2] \in Step /\ (burned[c[2]] # None \/ now > c[2] + Window)
    BY DEF TypeOK, Code, BurnedWhileValid
  <2> QED
    BY <2>1, <1>4, <1>5
<1> QED
  BY <1>6, <1>7, <1>8, <1>9

LEMMA FactorsCheck ==
  ASSUME FactorsIInv, NEW r \in Request, Check(r)
  PROVE  FactorsIInv'
<1> USE DEF FactorsIInv
<1>1. PICK k \in Step, turn \in {0, 1} :
        /\ At(r, "reading") /\ valid < MaxCodes
        /\ valid' = valid + 1
        /\ now - Window <= k /\ k <= now + Window
        /\ now + turn <= MaxTime
        /\ now' = now + turn
        /\ Become(r, [req[r] EXCEPT !.at = "burning", !.step = k, !.key = k + turn])
        /\ UNCHANGED <<row, burned, counter, made, shown, accepted, replayed>>
  BY DEF Check
<1> DEFINE slot == [req[r] EXCEPT !.at = "burning", !.step = k, !.key = k + turn]
<1>2. /\ req[r] \in Slot /\ Fine(req[r], now, shown) /\ req[r].secret \in Secret
      /\ now \in Int /\ now' \in 0..MaxTime /\ now' >= now
      /\ k \in Int /\ k + turn \in Step /\ k + turn <= now' + Window
  BY <1>1, CarriedIsFine, FactorsAssumption
  DEF FactorsAssumption, TypeOK, Fine, At, Step, Window
<1>3. slot \in Slot
  BY <1>1, <1>2 DEF Slot
<1>4. TypeOK'
  BY <1>1, <1>2, <1>3, BecomeSlot, FactorsAssumption DEF FactorsAssumption, TypeOK
<1>5. Fine(slot, now', shown')
  BY <1>1, <1>2 DEF Fine, Slot
<1>6. Carried'
  BY <1>1, <1>2, <1>3, <1>4, <1>5, CarriedStays
<1>7. SetInWindow' /\ CodeOnce'
  BY <1>1 DEF SetInWindow, CodeOnce
<1>8. BurnedWhileValid'
  BY <1>1, <1>2, Zeros DEF BurnedWhileValid, TypeOK, Code, Window
<1> QED
  BY <1>4, <1>6, <1>7, <1>8

(* A code accepted under its own key within its window finds that key      *)
(* unset: so it was not accepted before, and is burned now.                *)
LEMMA FactorsBurn ==
  ASSUME FactorsIInv, NEW r \in Request, Burn(r)
  PROVE  FactorsIInv'
<1> USE DEF FactorsIInv
<1> DEFINE key == req[r].key
           c == CodeOf(r)
           set == burned' = [burned EXCEPT ![key] = IF @ = None THEN now ELSE @]
<1>1. /\ At(r, "burning") /\ UNCHANGED <<now, row, counter, made, valid>>
      /\ \/ burned[key] = None /\ set /\ Accept(r, Astray(r))
         \/ burned[key] # None /\ UNCHANGED burned /\ Refuse(r)
         \/ (set \/ UNCHANGED burned) /\ Accept(r, TRUE)
  BY DEF Burn
<1>2. /\ req[r] \in Slot /\ req[r].secret \in Secret /\ key \in Step /\ req[r].step \in Step
      /\ key <= now + Window /\ now \in Int /\ now \in Step /\ key \in Int
  BY <1>1, Zeros, FactorsAssumption
  DEF FactorsAssumption, TypeOK, Carried, Slot, Step, Window
<1>3. c \in Code /\ c[2] = req[r].step
  BY <1>2 DEF Code, CodeOf
<1>4. /\ burned' \in [Step -> Step \cup {None}]
      /\ \A j \in Step : \/ burned'[j] = burned[j]
                         \/ j = key /\ burned[j] = None /\ burned'[j] = now
  BY <1>1, <1>2 DEF TypeOK
<1>5. \E slot \in Slot : Become(r, slot) /\ Fine(slot, now', shown') /\ shown \subseteq shown'
                        /\ shown' \subseteq Secret
  <2>1. CASE Refuse(r)
    <3> DEFINE slot == [Idle EXCEPT !.at = IF req[r].for = "login" THEN "pending" ELSE "idle"]
    <3>1. slot \in Slot /\ Fine(slot, now', shown')
      BY Zeros DEF Idle, Slot, Fine
    <3> QED
      BY <2>1, <3>1 DEF Refuse, Back, TypeOK
  <2>2. CASE Accept(r, Astray(r)) \/ Accept(r, TRUE)
    <3> DEFINE to(step) == [Idle EXCEPT !.at = step, !.secret = req[r].secret]
    <3>1. shown' = shown \cup {req[r].secret}
      BY <2>2 DEF Accept
    <3>2. \A step \in {"enabling", "disabling"} :
            to(step) \in Slot /\ Fine(to(step), now', shown')
      BY <3>1, <1>2, Zeros DEF Idle, Slot, Fine
    <3>3. Idle \in Slot /\ Fine(Idle, now', shown')
      BY IdleIsSlot DEF Fine
    <3>4. Proceed(r) /\ req[r].for \in {"login", "enable", "disable"}
      BY <2>2, <1>2 DEF Accept, Slot
    <3>5. Become(r, Idle) \/ Become(r, to("enabling")) \/ Become(r, to("disabling"))
      BY <3>4 DEF Proceed
    <3> QED
      BY <3>1, <3>2, <3>3, <3>5, <1>2 DEF TypeOK
  <2> QED
    BY <1>1, <2>1, <2>2
<1>6. /\ accepted' \in {accepted, accepted \cup {c}}
      /\ replayed' \in {replayed, replayed \cup ({c} \cap accepted)}
  BY <1>1 DEF Accept, Refuse
<1>7. TypeOK'
  BY <1>1, <1>3, <1>4, <1>5, <1>6, BecomeSlot DEF TypeOK
<1>8. Carried'
  <2>1. now' >= now
    BY <1>1, <1>2
  <2> QED
    BY <1>5, <1>7, <2>1, CarriedStays
<1>9. SetInWindow'
  BY <1>2, <1>4, Zeros DEF SetInWindow, TypeOK
<1>10. ~(accepted' = accepted /\ replayed' = replayed)
        => /\ accepted' = accepted \cup {c} /\ replayed' = replayed \cup ({c} \cap accepted)
           /\ key = c[2] /\ now <= c[2] + Window
           /\ burned[key] = None /\ burned'[key] # None
  <2>1. CASE Accept(r, TRUE) \/ Refuse(r)
    BY <2>1 DEF Accept, Refuse
  <2>2. CASE burned[key] = None /\ set /\ Accept(r, Astray(r))
    <3>1. burned'[key] = now /\ now # None
      <4>1. now # None
        BY <1>2, FactorsAssumption DEF FactorsAssumption
      <4>2. burned' = [burned EXCEPT ![key] = IF @ = None THEN now ELSE @]
        BY <2>2
      <4> QED
        BY <2>2, <4>1, <4>2, <1>2 DEF TypeOK
    <3>2. Astray(r) \/ (key = c[2] /\ now <= c[2] + Window)
      <4>1. req[r].step \in Int
        BY <1>2, Zeros
      <4> HIDE DEF c
      <4> QED
        BY <1>2, <1>3, <4>1 DEF Astray, Window
    <3> QED
      BY <2>2, <3>1, <3>2 DEF Accept
  <2> QED
    BY <1>1, <2>1, <2>2
<1>11. BurnedWhileValid'
  <2> SUFFICES ASSUME NEW d \in accepted' PROVE burned'[d[2]] # None \/ now > d[2] + Window
    BY <1>1 DEF BurnedWhileValid
  <2>1. CASE d \in accepted
    BY <2>1, <1>4 DEF BurnedWhileValid, TypeOK, Code
  <2>2. CASE d \notin accepted
    BY <2>2, <1>6, <1>10
  <2> QED
    BY <2>1, <2>2
<1>12. CodeOnce'
  <2>1. CASE c \in accepted
    <3>1. burned[c[2]] # None \/ now > c[2] + Window
      BY <2>1 DEF BurnedWhileValid
    <3>2. replayed' = replayed
      <4>1. c[2] \in Int
        BY <1>2, <1>3, Zeros
      <4> HIDE DEF c
      <4>2. SUFFICES ASSUME replayed' # replayed PROVE FALSE
        OBVIOUS
      <4>3. key = c[2] /\ now <= c[2] + Window /\ burned[key] = None
        BY <1>10, <4>2
      <4> QED
        BY <3>1, <1>2, <4>1, <4>3 DEF Window
    <3> QED
      BY <3>2 DEF CodeOnce
  <2>2. CASE c \notin accepted
    BY <2>2, <1>6 DEF CodeOnce
  <2> QED
    BY <2>1, <2>2
<1> QED
  BY <1>7, <1>8, <1>9, <1>11, <1>12

LEMMA FactorsStep == FactorsIInv /\ [Next]_vars => FactorsIInv'
<1> SUFFICES ASSUME FactorsIInv, [Next]_vars PROVE FactorsIInv'
  OBVIOUS
<1>1. ASSUME NEW r \in Request, Handle(r) PROVE FactorsIInv'
  BY <1>1, FactorsQuiet, FactorsCheck, FactorsBurn DEF Handle
<1>2. CASE UNCHANGED vars
  BY <1>2 DEF vars, history, FactorsIInv, TypeOK, Carried, At, SetInWindow,
              BurnedWhileValid, CodeOnce
<1> QED
  BY <1>1, <1>2, FactorsTick, FactorsExpire DEF Next

(* Used codes stay burned while they are valid, whatever the requests, the *)
(* clock and Redis do in between.                                          *)
THEOREM FactorsInvariance == Spec => []FactorsIInv
<1> QED
  BY FactorsInitial, FactorsStep, PTL DEF Spec

(* No code is accepted twice under its own key within its window.          *)
THEOREM CodeOnceHolds == Spec => []CodeOnce
<1>1. FactorsIInv => CodeOnce
  BY DEF FactorsIInv
<1> QED
  BY <1>1, FactorsInvariance, PTL

(* Only a request that read another row switches an unproven secret on.    *)
THEOREM OnlyStaleUnprovenHolds == Spec => OnlyStaleUnproven
<1>1. ASSUME FactorsIInv, Next, Unproven(row)', ~Unproven(row)
      PROVE  \E r \in Request : Stale(r)
  <2>1. shown \subseteq shown'
    BY <1>1 DEF Next, Handle, Tick, Expire, SetupRead, Generate, PasswordRight, Submit,
                WrongCode, Check, Burn, Accept, Refuse, Enable, Disable, ReadCounter, Verify,
                Bump, Quit, history
  <2>2. row' # row
    BY <1>1, <2>1 DEF Unproven
  <2>3. PICK r \in Request : Generate(r) \/ Enable(r) \/ Disable(r)
    BY <1>1, <2>2 DEF Next, Handle, Tick, Expire, SetupRead, PasswordRight, Submit,
                WrongCode, Check, Burn, ReadCounter, Verify, Bump, Quit
  <2>4. row \in Row
    BY <1>1 DEF FactorsIInv, TypeOK
  <2>5. CASE Generate(r)
    <3>1. req[r].enabled = "off" /\ row.enabled = "on"
      BY <1>1, <2>4, <2>5 DEF FactorsIInv, Carried, Generate, Unproven, Row
    <3> QED
      BY <2>5, <3>1 DEF Stale, Generate
  <2>6. CASE Enable(r)
    <3>1. req[r].secret \in shown /\ row'.secret = row.secret /\ shown' = shown
      BY <1>1, <2>4, <2>6 DEF FactorsIInv, Carried, Enable, Row, history
    <3>2. row.secret \notin shown
      BY <1>1, <3>1 DEF Unproven
    <3> QED
      BY <2>6, <3>1, <3>2 DEF Stale, Enable
  <2>7. CASE Disable(r)
    BY <1>1, <2>7 DEF Disable, NoMfa, Unproven
  <2> QED
    BY <2>3, <2>5, <2>6, <2>7
<1>2. ASSUME FactorsIInv, [Next]_vars
      PROVE  [Unproven(row)' /\ ~Unproven(row) => \E r \in Request : Stale(r)]_vars
  BY <1>1, <1>2
<1> QED
  BY <1>2, FactorsInvariance, PTL DEF Spec, OnlyStaleUnproven

(* The counter of a passkey goes back only under a login that read it      *)
(* before another one wrote it.                                            *)
THEOREM CounterBackOnlyRacedHolds == Spec => CounterBackOnlyRaced
<1>1. ASSUME FactorsIInv, Next, counter' < counter
      PROVE  \E r \in Request : At(r, "bumping") /\ req[r].count # counter
  <2>1. counter \in Nat
    BY <1>1, FactorsAssumption DEF FactorsAssumption, FactorsIInv, TypeOK
  <2>2. counter' # counter
    BY <1>1, <2>1
  <2>3. PICK r \in Request : Bump(r)
    BY <1>1, <2>2 DEF Next, Handle, Tick, Expire, SetupRead, Generate, PasswordRight, Submit,
                WrongCode, Check, Burn, Enable, Disable, ReadCounter, Verify, Quit
  <2>4. At(r, "bumping") /\ counter' = req[r].new /\ req[r].new >= req[r].count
    BY <1>1, <2>3 DEF FactorsIInv, Carried, Bump
  <2>5. req[r].new \in Nat /\ req[r].count \in Nat
    BY <1>1, FactorsAssumption DEF FactorsAssumption, FactorsIInv, TypeOK, Slot
  <2> QED
    BY <1>1, <2>1, <2>4, <2>5
<1>2. ASSUME FactorsIInv, [Next]_vars
      PROVE  [counter' < counter
                => \E r \in Request : At(r, "bumping") /\ req[r].count # counter]_vars
  BY <1>1, <1>2
<1> QED
  BY <1>2, FactorsInvariance, PTL DEF Spec, CounterBackOnlyRaced
=============================================================================
