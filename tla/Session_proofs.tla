--------------------------- MODULE Session_proofs ----------------------------
(***************************************************************************)
(* Session ids, their levels and their timeouts, for any number of         *)
(* requests and ids and any timeouts.                                      *)
(***************************************************************************)
EXTENDS Session, TLAPS

(* What a slot and a stored session must satisfy, given the ids issued     *)
(* (i), the histories (k: kind, b: born, u: used), the ids that are gone   *)
(* (g: closed and not late) and the time.                                  *)
Fits(slot, i, k, b, u, g, time) ==
  /\ slot \in Slot
  /\ slot.at = "idle" => slot = Idle
  /\ slot.at # "idle" =>
       /\ slot.sid \in 0..i /\ slot.sid \notin g
       /\ slot.copy \in Data /\ slot.copy.active <= time
       /\ slot.sid # 0 =>
            /\ slot.copy.level = k[slot.sid] /\ slot.copy.created = b[slot.sid]
            /\ slot.copy.active <= u[slot.sid]
       /\ slot.sid = 0 =>
            slot.at = "ending" \/ (slot.at = "loaded" /\ slot.copy.level = "anonymous")

Keeps(data, s, i, k, b, u, g) ==
  data # None =>
    /\ data \in Data /\ s <= i /\ s \notin g
    /\ data.level = k[s] /\ data.created = b[s] /\ data.active <= u[s]

Gone == closed \ late

(* The rest of the invariant. *)
Frame ==
  /\ now \in Nat /\ issued \in 0..MaxSid
  /\ store \in [Sid -> Data \cup {None}]
  /\ req \in [Request -> Slot]
  /\ kind \in [Sid -> Level]
  /\ born \in [Sid -> Nat] /\ used \in [Sid -> Nat] /\ guesses \in [Sid -> Nat]
  /\ closed \subseteq 1..issued /\ late \subseteq closed
  /\ \A s \in Sid : used[s] <= now

Slots == \A r \in Request : Fits(req[r], issued, kind, born, used, Gone, now)
Stored == \A s \in Sid : Keeps(store[s], s, issued, kind, born, used, Gone)

LEMMA SidNat == Sid \subseteq Nat /\ 0 \notin Sid /\ MaxSid \in Nat
  BY SessionAssumption DEF SessionAssumption, Sid

LEMMA IdleFacts ==
  /\ Idle \in Slot
  /\ Idle.at = "idle" /\ Idle.sid = 0 /\ Idle.copy = None /\ Idle.dirty = "no"
  BY DEF Idle, Slot

LEMMA Apart == SessionIInv => Frame /\ Slots /\ Stored
<1> SUFFICES ASSUME SessionIInv PROVE Frame /\ Slots /\ Stored
  OBVIOUS
<1> USE DEF SessionIInv
<1>1. Frame
  BY DEF TypeOK, Frame, StampsPast
<1>2. Slots
  <2> SUFFICES ASSUME NEW r \in Request
               PROVE  Fits(req[r], issued, kind, born, used, Gone, now)
    BY DEF Slots
  <2>1. req[r] \in Slot /\ issued \in 0..MaxSid
    BY DEF TypeOK
  <2>2. CASE req[r].at = "idle"
    BY <2>1, <2>2 DEF TypeOK, At, Fits
  <2>3. CASE req[r].at # "idle"
    <3>1. /\ req[r].sid \in 0..issued /\ req[r].copy \in Data
          /\ req[r].copy.active <= now
      BY <2>3 DEF TypeOK, StampsPast, At
    <3>2. req[r].sid \notin Gone
      <4> SUFFICES ASSUME req[r].sid \in Gone PROVE FALSE
        OBVIOUS
      <4> QED
        BY <2>3 DEF ClosedStaysClosed, Gone, Carries, At
    <3>3. req[r].sid # 0 =>
            /\ req[r].copy.level = kind[req[r].sid] /\ req[r].copy.created = born[req[r].sid]
            /\ req[r].copy.active <= used[req[r].sid]
      BY DEF NoFixation
    <3>4. req[r].sid = 0 =>
            req[r].at = "ending" \/ (req[r].at = "loaded" /\ req[r].copy.level = "anonymous")
      BY <2>3 DEF OnlyIssued, At
    <3> QED
      BY <2>1, <2>3, <3>1, <3>2, <3>3, <3>4 DEF Fits
  <2> QED
    BY <2>2, <2>3
<1>3. Stored
  <2> SUFFICES ASSUME NEW s \in Sid, store[s] # None
               PROVE  Keeps(store[s], s, issued, kind, born, used, Gone)
    BY DEF Stored, Keeps
  <2>1. store[s] \in Data /\ s \in Nat /\ issued \in Nat
    BY SidNat DEF TypeOK
  <2>2. ~(s > issued)
    BY DEF OnlyIssued
  <2>3. s <= issued
    BY <2>1, <2>2
  <2>4. s \notin Gone
    BY DEF ClosedStaysClosed, Gone
  <2> QED
    BY <2>1, <2>3, <2>4 DEF Keeps, NoFixation
<1> QED
  BY <1>1, <1>2, <1>3

LEMMA Together == Frame /\ Slots /\ Stored => SessionIInv
<1> SUFFICES ASSUME Frame, Slots, Stored PROVE SessionIInv
  OBVIOUS
<1>1. ASSUME NEW r \in Request PROVE Fits(req[r], issued, kind, born, used, Gone, now)
  BY DEF Slots
<1>2. TypeOK
  <2>1. \A r \in Request : IF At(r, "idle") THEN req[r] = Idle
                           ELSE req[r].sid \in 0..issued /\ req[r].copy \in Data
    BY <1>1 DEF Fits, At
  <2> QED
    BY <2>1 DEF Frame, TypeOK
<1>3. NoFixation
  <2>1. \A s \in Sid : store[s] # None =>
          /\ store[s].level = kind[s] /\ store[s].created = born[s]
          /\ store[s].active <= used[s]
    BY DEF Stored, Keeps
  <2>2. ASSUME NEW r \in Request, req[r].sid # 0
        PROVE  /\ req[r].copy.level = kind[req[r].sid]
               /\ req[r].copy.created = born[req[r].sid]
               /\ req[r].copy.active <= used[req[r].sid]
    BY <1>1, <2>2, IdleFacts DEF Fits
  <2> QED
    BY <2>1, <2>2 DEF NoFixation
<1>4. ClosedStaysClosed
  <2> SUFFICES ASSUME NEW s \in Gone
               PROVE  store[s] = None /\ \A r \in Request : ~Carries(r, s)
    BY DEF ClosedStaysClosed, Gone
  <2>1. s \in Sid
    BY SidNat DEF Frame, Gone, Sid
  <2>2. store[s] = None
    BY <2>1 DEF Stored, Keeps
  <2>3. \A r \in Request : ~Carries(r, s)
    BY <1>1 DEF Fits, Carries, At
  <2> QED
    BY <2>2, <2>3
<1>5. OnlyIssued
  <2>1. \A s \in Sid : s > issued => store[s] = None
    BY SidNat DEF Stored, Keeps, Frame
  <2>2. \A r \in Request : req[r].sid = 0 /\ ~At(r, "idle") =>
          At(r, "ending") \/ (At(r, "loaded") /\ req[r].copy.level = "anonymous")
    BY <1>1 DEF Fits, At
  <2> QED
    BY <2>1, <2>2 DEF OnlyIssued
<1>6. StampsPast
  BY <1>1 DEF Frame, StampsPast, Fits, At
<1> QED
  BY <1>2, <1>3, <1>4, <1>5, <1>6 DEF SessionIInv

Apt == Frame /\ Slots /\ Stored

LEMMA SessionInitial == Init => Apt
<1> SUFFICES ASSUME Init PROVE Frame /\ Slots /\ Stored
  BY DEF Apt
<1>1. Frame
  BY SidNat, IdleFacts DEF Init, Frame, Level
<1>2. Slots
  BY IdleFacts DEF Init, Slots, Fits
<1>3. Stored
  BY DEF Init, Stored, Keeps
<1> QED
  BY <1>1, <1>2, <1>3

-----------------------------------------------------------------------------

(* Histories grow, time goes by: what fitted fits. *)
LEMMA FitsStay ==
  ASSUME NEW slot, NEW i \in Nat, NEW k, NEW b, NEW u, NEW g, NEW t \in Nat,
         Fits(slot, i, k, b, u, g, t),
         NEW j \in Nat, i <= j, NEW l, NEW c, NEW v, NEW h, NEW later \in Nat, t <= later,
         \A s \in 1..i : l[s] = k[s] /\ c[s] = b[s] /\ u[s] <= v[s]
                         /\ u[s] \in Nat /\ v[s] \in Nat,
         slot.at # "idle" => slot.sid \notin h
  PROVE  Fits(slot, j, l, c, v, h, later)
<1>1. CASE slot.at = "idle"
  BY <1>1 DEF Fits
<1>2. CASE slot.at # "idle"
  <2>1. /\ slot.sid \in 0..i /\ slot.copy \in Data /\ slot.copy.active \in Nat
        /\ slot.copy.active <= t
    BY <1>2 DEF Fits, Data
  <2>2. slot.sid \in 0..j /\ slot.copy.active <= later
    BY <2>1
  <2>3. ASSUME slot.sid # 0
        PROVE  /\ slot.copy.level = l[slot.sid] /\ slot.copy.created = c[slot.sid]
               /\ slot.copy.active <= v[slot.sid]
    <3>1. slot.sid \in 1..i
      BY <2>1, <2>3
    <3>2. /\ slot.copy.level = k[slot.sid] /\ slot.copy.created = b[slot.sid]
          /\ slot.copy.active <= u[slot.sid]
      BY <1>2, <2>3 DEF Fits
    <3>3. /\ l[slot.sid] = k[slot.sid] /\ c[slot.sid] = b[slot.sid]
          /\ u[slot.sid] <= v[slot.sid] /\ u[slot.sid] \in Nat /\ v[slot.sid] \in Nat
      BY <3>1
    <3>4. slot.copy.active <= v[slot.sid]
      BY <2>1, <3>2, <3>3
    <3> QED
      BY <3>2, <3>3, <3>4
  <2> QED
    BY <1>2, <2>1, <2>2, <2>3 DEF Fits
<1> QED
  BY <1>1, <1>2

LEMMA BecomeSlot ==
  ASSUME Apt, NEW r \in Request, NEW slot \in Slot, Become(r, slot)
  PROVE  /\ req' \in [Request -> Slot]
         /\ \A q \in Request : req'[q] = IF q = r THEN slot ELSE req[q]
  BY DEF Apt, Frame, Become

(* A request that changes its slot only. *)
LEMMA QuietStep ==
  ASSUME Apt, NEW r \in Request, NEW slot, Become(r, slot),
         Fits(slot, issued, kind, born, used, Gone, now),
         UNCHANGED <<now, issued, store, kind, born, used, closed, late>>,
         guesses' \in [Sid -> Nat]
  PROVE  Apt'
<1>0. slot \in Slot
  BY DEF Fits
<1>1. /\ req' \in [Request -> Slot]
      /\ \A q \in Request : req'[q] = IF q = r THEN slot ELSE req[q]
  BY <1>0, BecomeSlot
<1>2. Frame'
  BY <1>1 DEF Apt, Frame
<1>3. Slots'
  BY <1>1 DEF Apt, Slots, Gone
<1>4. Stored'
  BY DEF Apt, Stored, Gone
<1> QED
  BY <1>2, <1>3, <1>4 DEF Apt

(* A request that leaves its session, whether or not it deletes it. *)
LEMMA LeaveStep ==
  ASSUME Apt, NEW r \in Request, ~At(r, "idle"), NEW slot, Become(r, slot), slot.sid = 0,
         Fits(slot, issued, kind, born, used, Gone, now),
         Delete(r) \/ UNCHANGED <<store, closed, late>>,
         UNCHANGED <<now, issued, kind, born, used>>,
         guesses' \in [Sid -> Nat]
  PROVE  Apt'
<1>1. CASE UNCHANGED <<store, closed, late>>
  BY <1>1, QuietStep
<1>2. CASE Delete(r)
  <2> DEFINE here == {req[r].sid} \ {0}
  <2>0. slot \in Slot
    BY DEF Fits
  <2>1. /\ req' \in [Request -> Slot]
        /\ \A q \in Request : req'[q] = IF q = r THEN slot ELSE req[q]
    BY <2>0, BecomeSlot
  <2>2. /\ store' = [s \in Sid |-> IF s \in here THEN None ELSE store[s]]
        /\ closed' = closed \cup here
        /\ late' = (late \ here) \cup {s \in here : \E q \in Request \ {r} : Carries(q, s)}
    BY <1>2 DEF Delete
  <2>3. \A q \in Request : Fits(req[q], issued, kind, born, used, Gone, now)
    BY DEF Apt, Slots
  <2>4. issued \in 0..MaxSid /\ issued \in Nat /\ here \subseteq 1..issued
    BY <2>3, SidNat DEF Fits, Apt, Frame, At
  <2>5. Frame'
    BY <2>1, <2>2, <2>4 DEF Apt, Frame
  <2>6. \A s \in Gone' : s \in Gone \/ (s \in here /\ \A q \in Request \ {r} : ~Carries(q, s))
    BY <2>2 DEF Gone
  <2>7. Slots'
    <3> SUFFICES ASSUME NEW q \in Request
                 PROVE  Fits(req'[q], issued, kind, born, used, Gone', now)
      BY DEF Slots
    <3>1. CASE q = r
      <4>1. slot.sid \notin Gone'
        BY <2>4, <2>6, SidNat DEF Gone, Apt, Frame
      <4> QED
        BY <2>1, <3>1, <4>1 DEF Fits
    <3>2. CASE q # r
      <4>1. req[q].at # "idle" => req[q].sid \notin Gone'
        BY <2>3, <2>6, <3>2 DEF Fits, Carries, At
      <4> QED
        BY <2>1, <2>3, <3>2, <4>1 DEF Fits
    <3> QED
      BY <3>1, <3>2
  <2>8. Stored'
    <3> SUFFICES ASSUME NEW s \in Sid, store'[s] # None
                 PROVE  Keeps(store'[s], s, issued, kind, born, used, Gone')
      BY DEF Stored, Keeps
    <3>1. s \notin here /\ store'[s] = store[s]
      BY <2>2
    <3> QED
      BY <2>6, <3>1 DEF Apt, Stored, Keeps
  <2> QED
    BY <2>5, <2>7, <2>8 DEF Apt
<1> QED
  BY <1>1, <1>2

-----------------------------------------------------------------------------
(* The handlers. *)

LEMMA SlotFits ==
  ASSUME Apt, NEW r \in Request
  PROVE  /\ Fits(req[r], issued, kind, born, used, Gone, now) /\ req[r] \in Slot
         /\ now \in Nat /\ issued \in Nat /\ issued \in 0..MaxSid
         /\ 0 \notin Gone
  BY SidNat DEF Apt, Slots, Fits, Frame, Gone

LEMMA NewData ==
  ASSUME now \in Nat, NEW level \in Level
  PROVE  /\ New(level) \in Data /\ New(level).level = level /\ New(level).active <= now
  BY DEF New, Data

(* The empty session of a request fits. *)
LEMMA FreshFits ==
  ASSUME Apt, NEW level \in Level, NEW step \in {"loaded", "ending"},
         step = "loaded" => level = "anonymous"
  PROVE  Fits([Idle EXCEPT !.at = step, !.copy = New(level), !.dirty = "yes"],
              issued, kind, born, used, Gone, now)
<1> DEFINE slot == [Idle EXCEPT !.at = step, !.copy = New(level), !.dirty = "yes"]
<1>1. now \in Nat /\ issued \in Nat /\ 0 \notin Gone
  BY SidNat DEF Apt, Frame, Gone
<1>2. New(level) \in Data /\ New(level).level = level /\ New(level).active <= now
  BY <1>1, NewData
<1>3. /\ slot \in Slot /\ slot.at = step /\ slot.sid = 0 /\ slot.copy = New(level)
  BY <1>2 DEF Idle, Slot
<1> HIDE DEF slot
<1>4. Fits(slot, issued, kind, born, used, Gone, now)
  BY <1>1, <1>2, <1>3 DEF Fits
<1> QED
  BY <1>4 DEF slot

(* A copy keeps fitting when only its attempts change. *)
LEMMA AnswerFits ==
  ASSUME Apt, NEW r \in Request, ~At(r, "idle"), NEW copy \in Data, NEW dirty \in {"no", "yes"},
         copy.level = req[r].copy.level, copy.created = req[r].copy.created,
         copy.active = req[r].copy.active
  PROVE  Fits([req[r] EXCEPT !.at = "ending", !.copy = copy, !.dirty = dirty],
              issued, kind, born, used, Gone, now)
<1> DEFINE slot == [req[r] EXCEPT !.at = "ending", !.copy = copy, !.dirty = dirty]
<1>1. Fits(req[r], issued, kind, born, used, Gone, now) /\ req[r] \in Slot
  BY SlotFits
<1>2. slot \in Slot /\ slot.at = "ending" /\ slot.sid = req[r].sid /\ slot.copy = copy
  BY <1>1 DEF Slot
<1> HIDE DEF slot
<1>3. Fits(slot, issued, kind, born, used, Gone, now)
  BY <1>1, <1>2 DEF Fits, At
<1> QED
  BY <1>3 DEF slot

LEMMA IdleFits ==
  ASSUME Apt
  PROVE  Fits(Idle, issued, kind, born, used, Gone, now)
  BY IdleFacts DEF Fits

LEMMA LoadedSlot ==
  ASSUME NEW s \in Sid, NEW data \in Data
  PROVE  LET slot == [Idle EXCEPT !.at = "loaded", !.sid = s, !.copy = data]
         IN  slot \in Slot /\ slot.at = "loaded" /\ slot.sid = s /\ slot.copy = data
  BY DEF Idle, Slot

LEMMA LoadStep ==
  ASSUME Apt, NEW r \in Request, Load(r)
  PROVE  Apt'
<1>1. UNCHANGED <<now, issued, store, kind, born, used, closed, late>> /\ guesses' \in [Sid -> Nat]
  BY DEF Load, history, Apt, Frame
<1>2. ASSUME NEW s \in 1..issued, store[s] # None,
             Become(r, [Idle EXCEPT !.at = "loaded", !.sid = s, !.copy = store[s]])
      PROVE  Apt'
  <2> DEFINE slot == [Idle EXCEPT !.at = "loaded", !.sid = s, !.copy = store[s]]
  <2>1. s \in Sid /\ s \in Nat /\ s # 0 /\ s \in 0..issued
    BY SidNat DEF Apt, Frame, Sid
  <2>2. /\ store[s] \in Data /\ s \notin Gone
        /\ store[s].level = kind[s] /\ store[s].created = born[s] /\ store[s].active <= used[s]
    BY <1>2, <2>1 DEF Apt, Stored, Keeps
  <2>3. store[s].active <= now
    <3>1. store[s].active \in Nat /\ used[s] \in Nat /\ used[s] <= now /\ now \in Nat
      BY <2>1, <2>2 DEF Data, Apt, Frame
    <3> QED
      BY <2>2, <3>1
  <2>4. slot \in Slot /\ slot.at = "loaded" /\ slot.sid = s /\ slot.copy = store[s]
    BY <2>1, <2>2, LoadedSlot
  <2>5. Become(r, slot)
    BY <1>2
  <2> HIDE DEF slot
  <2>6. Fits(slot, issued, kind, born, used, Gone, now)
    BY <2>1, <2>2, <2>3, <2>4 DEF Fits
  <2> QED
    BY <1>1, <2>5, <2>6, QuietStep
<1>3. ASSUME Become(r, [Idle EXCEPT !.at = "loaded", !.copy = New("anonymous"), !.dirty = "yes"])
      PROVE  Apt'
  <2>1. Fits([Idle EXCEPT !.at = "loaded", !.copy = New("anonymous"), !.dirty = "yes"],
             issued, kind, born, used, Gone, now)
    BY FreshFits DEF Level
  <2> QED
    BY <1>1, <1>3, <2>1, QuietStep
<1> QED
  BY <1>2, <1>3 DEF Load

(* Every handler that ends with a new session or with none. *)
LEMMA RegenerateStep ==
  ASSUME Apt, NEW r \in Request, ~At(r, "idle"), NEW level \in Level, Regenerate(r, level)
  PROVE  Apt'
<1>1. /\ UNCHANGED <<now, issued, kind, born, used>> /\ guesses' \in [Sid -> Nat]
      /\ Delete(r) \/ UNCHANGED <<store, closed, late>>
  BY DEF Regenerate, Apt, Frame
<1>2. PICK reached \in Level : Become(r, Fresh(reached))
  BY DEF Regenerate, Level
<1>3. Fits(Fresh(reached), issued, kind, born, used, Gone, now)
  BY FreshFits DEF Fresh
<1>4. Fresh(reached).sid = 0
  BY DEF Fresh, Idle
<1> QED
  BY <1>1, <1>2, <1>3, <1>4, LeaveStep

LEMMA DestroyStep ==
  ASSUME Apt, NEW r \in Request, ~At(r, "idle"), Destroy(r), guesses' \in [Sid -> Nat]
  PROVE  Apt'
<1>1. /\ UNCHANGED <<now, issued, kind, born, used>> /\ Become(r, Idle)
      /\ Delete(r) \/ UNCHANGED <<store, closed, late>>
  BY DEF Destroy
<1> QED
  BY <1>1, IdleFits, IdleFacts, LeaveStep

LEMMA AnswerStep ==
  ASSUME Apt, NEW r \in Request, ~At(r, "idle"), NEW copy \in Data, NEW dirty \in {"no", "yes"},
         copy.level = req[r].copy.level, copy.created = req[r].copy.created,
         copy.active = req[r].copy.active, Answer(r, copy, dirty),
         UNCHANGED <<now, issued, store, kind, born, used, closed, late>>,
         guesses' \in [Sid -> Nat]
  PROVE  Apt'
  BY AnswerFits, QuietStep DEF Answer

LEMMA CodeWrongStep ==
  ASSUME Apt, NEW r \in Request, CodeWrong(r)
  PROVE  Apt'
<1> DEFINE copy == [req[r].copy EXCEPT !.attempts = req[r].copy.attempts + 1]
<1>1. ~At(r, "idle") /\ At(r, "loaded")
  BY DEF CodeWrong, Verifying, At
<1>2. req[r].copy \in Data
  BY <1>1, SlotFits DEF Fits, At
<1>3. guesses' \in [Sid -> Nat]
  <2>1. guesses \in [Sid -> Nat] /\ MaxGuesses \in Nat
    BY SessionAssumption DEF SessionAssumption, Apt, Frame
  <2>2. req[r].sid \in Sid
    <3>1. req[r].sid \in 1..issued /\ issued \in 0..MaxSid
      BY <1>1, SlotFits DEF Fits, At, CodeWrong, Verifying
    <3> QED
      BY <3>1, SidNat DEF Sid
  <2>3. guesses' = [guesses EXCEPT ![req[r].sid] = IF @ < MaxGuesses THEN @ + 1 ELSE @]
    BY DEF CodeWrong
  <2>4. guesses[req[r].sid] \in Nat
    BY <2>1, <2>2
  <2> QED
    BY <2>1, <2>2, <2>3, <2>4
<1>4. /\ copy \in Data /\ copy.level = req[r].copy.level
      /\ copy.created = req[r].copy.created /\ copy.active = req[r].copy.active
  BY <1>2 DEF Data
<1>5. CASE Destroy(r)
  BY <1>1, <1>3, <1>5, DestroyStep
<1>6. CASE /\ Answer(r, copy, "yes")
           /\ UNCHANGED <<now, issued, store, kind, born, used, closed, late>>
  <2> HIDE DEF copy
  <2> QED
    BY <1>1, <1>3, <1>4, <1>6, AnswerStep
<1> QED
  BY <1>5, <1>6 DEF CodeWrong

(* requireAuth: the stamp of use moves, for the copy and for its id. *)
LEMMA AcceptStep ==
  ASSUME Apt, NEW r \in Request, Accept(r)
  PROVE  Apt'
<1> DEFINE slot == [req[r] EXCEPT !.at = "serving", !.copy.active = now, !.dirty = "yes"]
           sid == req[r].sid
<1>1. /\ At(r, "loaded") /\ req[r].copy.level = "full" /\ Become(r, slot)
      /\ used' = [used EXCEPT ![sid] = now]
      /\ UNCHANGED <<now, issued, store, kind, born, closed, late, guesses>>
  BY DEF Accept
<1>2. /\ Fits(req[r], issued, kind, born, used, Gone, now) /\ req[r] \in Slot
      /\ now \in Nat /\ issued \in Nat /\ issued \in 0..MaxSid
  BY SlotFits
<1>3. /\ sid \in 1..issued /\ sid \notin Gone /\ req[r].copy \in Data
      /\ req[r].copy.level = kind[sid] /\ req[r].copy.created = born[sid]
  BY <1>1, <1>2 DEF Fits, At
<1>4. /\ slot \in Slot /\ slot.at = "serving" /\ slot.sid = sid
      /\ slot.copy = [req[r].copy EXCEPT !.active = now] /\ slot.copy \in Data
      /\ slot.copy.level = kind[sid] /\ slot.copy.created = born[sid] /\ slot.copy.active = now
  BY <1>2, <1>3 DEF Slot, Data
<1> HIDE DEF slot, sid
<1>5. /\ req' \in [Request -> Slot]
      /\ \A q \in Request : req'[q] = IF q = r THEN slot ELSE req[q]
  BY <1>1, <1>4, BecomeSlot
<1>6. used \in [Sid -> Nat] /\ \A s \in Sid : used[s] \in Nat /\ used[s] <= now
  BY DEF Apt, Frame
<1>7. sid \in Sid /\ 1..issued \subseteq Sid
  BY <1>2, <1>3, SidNat DEF Sid
<1>8. /\ used' \in [Sid -> Nat]
      /\ \A s \in Sid : used'[s] = (IF s = sid THEN now ELSE used[s])
  BY <1>1, <1>2, <1>6, <1>7
<1>9. \A s \in Sid : used[s] <= used'[s] /\ used'[s] \in Nat /\ used'[s] <= now
  BY <1>2, <1>6, <1>8
<1>10. Frame'
  BY <1>1, <1>5, <1>8, <1>9 DEF Apt, Frame
<1>11. Slots'
  <2> SUFFICES ASSUME NEW q \in Request
               PROVE  Fits(req'[q], issued, kind, born, used', Gone, now)
    BY <1>1 DEF Slots, Gone
  <2>1. CASE q = r
    <3>1. slot.copy.active <= now /\ slot.copy.active <= used'[sid] /\ sid \in 0..issued /\ sid # 0
      BY <1>2, <1>3, <1>4, <1>7, <1>8
    <3>2. Fits(slot, issued, kind, born, used', Gone, now)
      BY <1>3, <1>4, <3>1 DEF Fits
    <3> QED
      BY <1>5, <2>1, <3>2
  <2>2. CASE q # r
    <3>1. Fits(req[q], issued, kind, born, used, Gone, now)
      BY DEF Apt, Slots
    <3>2. req[q].at # "idle" => req[q].sid \notin Gone
      BY <3>1 DEF Fits
    <3>3. \A s \in 1..issued : used[s] <= used'[s] /\ used[s] \in Nat /\ used'[s] \in Nat
      BY <1>6, <1>7, <1>9
    <3>4. issued <= issued /\ now <= now
      BY <1>2
    <3>5. Fits(req[q], issued, kind, born, used', Gone, now)
      BY <1>2, <3>1, <3>2, <3>3, <3>4, FitsStay
    <3> QED
      BY <1>5, <2>2, <3>5
  <2> QED
    BY <2>1, <2>2
<1>12. Stored'
  <2> SUFFICES ASSUME NEW s \in Sid, store[s] # None
               PROVE  Keeps(store[s], s, issued, kind, born, used', Gone)
    BY <1>1 DEF Stored, Keeps, Gone
  <2>1. Keeps(store[s], s, issued, kind, born, used, Gone)
    BY DEF Apt, Stored
  <2>2. store[s].active \in Nat /\ store[s].active <= used[s]
    BY <2>1 DEF Keeps, Data
  <2>3. store[s].active <= used'[s]
    BY <1>6, <1>9, <2>2
  <2> QED
    BY <2>1, <2>3 DEF Keeps
<1> QED
  BY <1>10, <1>11, <1>12 DEF Apt

LEMMA SaveStep ==
  ASSUME Apt, NEW r \in Request, Save(r)
  PROVE  Apt'
<1> DEFINE s == IF req[r].sid = 0 THEN issued + 1 ELSE req[r].sid
           copy == req[r].copy
<1>1. /\ At(r, "ending") /\ s \in Sid
      /\ store' = [store EXCEPT ![s] = copy]
      /\ IF req[r].sid = 0
         THEN /\ issued' = s
              /\ kind' = [kind EXCEPT ![s] = copy.level]
              /\ born' = [born EXCEPT ![s] = copy.created]
              /\ used' = [used EXCEPT ![s] = copy.active]
         ELSE UNCHANGED <<issued, kind, born, used>>
      /\ Become(r, Idle)
      /\ UNCHANGED <<now, closed, late, guesses>>
  BY DEF Save
<1>2. /\ Fits(req[r], issued, kind, born, used, Gone, now)
      /\ now \in Nat /\ issued \in Nat /\ issued \in 0..MaxSid /\ 0 \notin Gone
  BY SlotFits
<1>3. /\ copy \in Data /\ copy.active <= now /\ copy.active \in Nat /\ copy.created \in Nat
      /\ copy.level \in Level /\ req[r].sid \in 0..issued /\ req[r].sid \notin Gone
      /\ req[r].sid # 0 =>
           /\ copy.level = kind[req[r].sid] /\ copy.created = born[req[r].sid]
           /\ copy.active <= used[req[r].sid]
  BY <1>1, <1>2 DEF Fits, At, Data
<1>4. /\ req' \in [Request -> Slot]
      /\ \A q \in Request : req'[q] = IF q = r THEN Idle ELSE req[q]
  BY <1>1, BecomeSlot, IdleFacts
<1>5. Gone \subseteq 1..issued /\ Gone' = Gone
  BY <1>1 DEF Apt, Frame, Gone
<1>6. /\ kind \in [Sid -> Level] /\ born \in [Sid -> Nat] /\ used \in [Sid -> Nat]
      /\ \A x \in Sid : used[x] <= now
      /\ store \in [Sid -> Data \cup {None}]
  BY DEF Apt, Frame
<1>7. /\ issued' \in Nat /\ issued' \in 0..MaxSid /\ issued <= issued' /\ s <= issued'
      /\ s \notin Gone
  <2>1. CASE req[r].sid = 0
    BY <1>1, <1>2, <1>5, <2>1, SidNat DEF Sid
  <2>2. CASE req[r].sid # 0
    BY <1>1, <1>2, <1>3, <2>2
  <2> QED
    BY <2>1, <2>2
<1>8. /\ kind'[s] = copy.level /\ born'[s] = copy.created /\ copy.active <= used'[s]
      /\ used'[s] <= now
  <2>1. CASE req[r].sid = 0
    <3>1. kind'[s] = copy.level /\ born'[s] = copy.created /\ used'[s] = copy.active
      BY <1>1, <1>6, <2>1
    <3>2. copy.active <= copy.active
      BY <1>3
    <3> QED
      BY <1>3, <3>1, <3>2
  <2>2. CASE req[r].sid # 0
    BY <1>1, <1>3, <1>6, <2>2
  <2> QED
    BY <2>1, <2>2
<1>9. \A x \in Sid : x # s => kind'[x] = kind[x] /\ born'[x] = born[x] /\ used'[x] = used[x]
  BY <1>1, <1>6
<1>10. kind' \in [Sid -> Level] /\ born' \in [Sid -> Nat] /\ used' \in [Sid -> Nat]
  BY <1>1, <1>3, <1>6
<1>11. store' \in [Sid -> Data \cup {None}] /\ \A x \in Sid : store'[x] = IF x = s THEN copy ELSE store[x]
  BY <1>1, <1>3, <1>6
<1>12. Frame'
  <2>1. \A x \in Sid : used'[x] <= now
    BY <1>6, <1>8, <1>9
  <2>2. closed' \subseteq 1..issued' /\ late' \subseteq closed' /\ guesses' \in [Sid -> Nat]
    BY <1>1, <1>2, <1>7 DEF Apt, Frame
  <2> QED
    BY <1>1, <1>2, <1>4, <1>7, <1>10, <1>11, <2>1, <2>2 DEF Frame
<1>13. \A x \in 1..issued : kind'[x] = kind[x] /\ born'[x] = born[x] /\ used[x] <= used'[x]
                         /\ used[x] \in Nat /\ used'[x] \in Nat
  <2> SUFFICES ASSUME NEW x \in 1..issued
               PROVE  /\ kind'[x] = kind[x] /\ born'[x] = born[x] /\ used'[x] = used[x]
                      /\ used[x] \in Nat
    OBVIOUS
  <2>1. x \in Sid
    BY <1>2, SidNat DEF Sid
  <2>2. CASE req[r].sid = 0
    BY <1>2, <1>6, <1>9, <2>1, <2>2
  <2>3. CASE req[r].sid # 0
    BY <1>1, <1>6, <2>1, <2>3
  <2> QED
    BY <2>2, <2>3
<1> HIDE DEF s, copy
<1>14. Slots'
  <2> SUFFICES ASSUME NEW q \in Request
               PROVE  Fits(req'[q], issued', kind', born', used', Gone, now)
    BY <1>1, <1>5 DEF Slots
  <2>1. CASE q = r
    BY <1>4, <2>1, IdleFacts DEF Fits
  <2>2. CASE q # r
    <3>1. Fits(req[q], issued, kind, born, used, Gone, now)
      BY DEF Apt, Slots
    <3>2. req[q].at # "idle" => req[q].sid \notin Gone
      BY <3>1 DEF Fits
    <3>3. now <= now
      BY <1>2
    <3>4. Fits(req[q], issued', kind', born', used', Gone, now)
      BY <1>2, <1>7, <1>13, <3>1, <3>2, <3>3, FitsStay
    <3> QED
      BY <1>4, <2>2, <3>4
  <2> QED
    BY <2>1, <2>2
<1>15. Stored'
  <2> SUFFICES ASSUME NEW x \in Sid, store'[x] # None
               PROVE  Keeps(store'[x], x, issued', kind', born', used', Gone)
    BY <1>5 DEF Stored, Keeps
  <2>1. CASE x = s
    BY <1>3, <1>7, <1>8, <1>11, <2>1 DEF Keeps
  <2>2. CASE x # s
    <3>1. store'[x] = store[x]
      BY <1>11, <2>2
    <3>2. Keeps(store[x], x, issued, kind, born, used, Gone)
      BY DEF Apt, Stored
    <3>3. x <= issued' /\ kind'[x] = kind[x] /\ born'[x] = born[x] /\ used'[x] = used[x]
      <4>1. x <= issued /\ x \in Nat
        BY <3>1, <3>2, SidNat DEF Keeps
      <4> QED
        BY <1>2, <1>7, <1>9, <2>2, <4>1
    <3> QED
      BY <3>1, <3>2, <3>3 DEF Keeps
  <2> QED
    BY <2>1, <2>2
<1> QED
  BY <1>12, <1>14, <1>15 DEF Apt

LEMMA HandleStep ==
  ASSUME Apt, NEW r \in Request, Handle(r)
  PROVE  Apt'
<1>1. guesses \in [Sid -> Nat]
  BY DEF Apt, Frame
<1>2. CASE Pass(r) \/ PasskeyChallenge(r) \/ Serve(r)
  <2>1. ~At(r, "idle")
    BY <1>2 DEF Pass, PasskeyChallenge, Serve, At
  <2>2. req[r].copy \in Data /\ req[r].dirty \in {"no", "yes"}
    BY <2>1, SlotFits DEF Fits, At, Slot
  <2>3. PICK dirty \in {"no", "yes"} : Answer(r, req[r].copy, dirty)
    BY <1>2, <2>2 DEF Pass, PasskeyChallenge, Serve
  <2>4. /\ UNCHANGED <<now, issued, store, kind, born, used, closed, late>>
        /\ guesses' \in [Sid -> Nat]
    BY <1>1, <1>2 DEF Pass, PasskeyChallenge, Serve, history
  <2> QED
    BY <2>1, <2>2, <2>3, <2>4, AnswerStep
<1>3. CASE Login(r) \/ CodeRight(r) \/ PasskeyLogin(r) \/ Rotate(r)
  <2>1. ~At(r, "idle")
    BY <1>3 DEF Login, CodeRight, Verifying, PasskeyLogin, Rotate, At
  <2>2. PICK level \in Level : Regenerate(r, level)
    BY <1>3 DEF Login, CodeRight, PasskeyLogin, Rotate, Level
  <2> QED
    BY <2>1, <2>2, RegenerateStep
<1>4. CASE Expel(r) \/ Logout(r)
  <2>1. ~At(r, "idle") /\ Destroy(r) /\ guesses' \in [Sid -> Nat]
    BY <1>1, <1>4 DEF Expel, Logout, At
  <2> QED
    BY <2>1, DestroyStep
<1>5. CASE Die(r)
  <2>1. /\ UNCHANGED <<now, issued, store, kind, born, used, closed, late>>
        /\ guesses' \in [Sid -> Nat] /\ Become(r, Idle)
    BY <1>1, <1>5 DEF Die, history
  <2> QED
    BY <2>1, IdleFits, QuietStep
<1> QED
  BY <1>2, <1>3, <1>4, <1>5, LoadStep, SaveStep, CodeWrongStep, AcceptStep DEF Handle

LEMMA TickStep == Apt /\ Tick => Apt'
<1> SUFFICES ASSUME Apt, Tick PROVE Apt'
  OBVIOUS
<1>1. /\ now' = now + 1 /\ now \in Nat /\ now' \in Nat /\ issued \in Nat
      /\ UNCHANGED <<issued, store, req, history>>
  BY SidNat DEF Tick, Apt, Frame
<1>2. \A s \in Sid : used[s] \in Nat /\ used[s] <= now
  BY DEF Apt, Frame
<1>3. \A s \in Sid : used[s] <= now'
  BY <1>1, <1>2
<1>4. Frame'
  BY <1>1, <1>3 DEF Apt, Frame, history
<1>5. Slots'
  <2> SUFFICES ASSUME NEW q \in Request
               PROVE  Fits(req[q], issued, kind, born, used, Gone, now')
    BY <1>1 DEF Slots, Gone, history
  <2>1. Fits(req[q], issued, kind, born, used, Gone, now)
    BY DEF Apt, Slots
  <2>2. req[q].at # "idle" => req[q].copy.active \in Nat /\ req[q].copy.active <= now
    BY <2>1 DEF Fits, Data
  <2>3. req[q].at # "idle" => req[q].copy.active <= now'
    BY <1>1, <2>2
  <2> QED
    BY <2>1, <2>3 DEF Fits
<1>6. Stored'
  BY <1>1 DEF Apt, Stored, Gone, history
<1> QED
  BY <1>4, <1>5, <1>6 DEF Apt

LEMMA EvictStep == Apt /\ Evict => Apt'
<1> SUFFICES ASSUME Apt, Evict PROVE Apt'
  OBVIOUS
<1>1. PICK s \in 1..issued : store' = [store EXCEPT ![s] = None]
  BY DEF Evict
<1>2. UNCHANGED <<now, issued, req, history>>
  BY DEF Evict
<1>3. \A x \in Sid : store'[x] \in {None, store[x]}
  BY <1>1 DEF Apt, Frame
<1>4. Frame'
  BY <1>1, <1>2 DEF Apt, Frame, history
<1>5. Slots'
  BY <1>2 DEF Apt, Slots, Gone, history
<1>6. Stored'
  BY <1>2, <1>3 DEF Apt, Stored, Keeps, Gone, history
<1> QED
  BY <1>4, <1>5, <1>6 DEF Apt

LEMMA AptStep == Apt /\ [Next]_vars => Apt'
<1> SUFFICES ASSUME Apt, [Next]_vars PROVE Apt'
  OBVIOUS
<1>1. CASE UNCHANGED vars
  BY <1>1 DEF vars, history, Apt, Frame, Slots, Stored, Gone
<1> QED
  BY <1>1, HandleStep, TickStep, EvictStep DEF Next

LEMMA AptAlways == Spec => []Apt
<1> QED
  BY SessionInitial, AptStep, PTL DEF Spec

-----------------------------------------------------------------------------

(* Whatever copies overlapping requests write back, no session id changes  *)
(* its level or its age.                                                   *)
THEOREM SessionInvariance == Spec => []SessionIInv
<1>1. Apt => SessionIInv
  BY Together DEF Apt
<1> QED
  BY <1>1, AptAlways, PTL

(* A destroyed id stays gone, unless a request still carried it.           *)
THEOREM ClosedStaysClosedHolds == Spec => []ClosedStaysClosed
<1>1. SessionIInv => ClosedStaysClosed
  BY DEF SessionIInv
<1> QED
  BY <1>1, SessionInvariance, PTL

(* No session is accepted past its absolute or its idle timeout.           *)
THEOREM AcceptedInTimeHolds == Spec => AcceptedInTime
<1> DEFINE InBounds == \A s \in 1..issued : used'[s] # used[s]
                         => now <= born[s] + Absolute /\ now <= used[s] + IdleTime
<1>1. ASSUME Apt, Next PROVE InBounds
  <2> SUFFICES ASSUME NEW s \in 1..issued, used'[s] # used[s]
               PROVE  now <= born[s] + Absolute /\ now <= used[s] + IdleTime
    OBVIOUS
  <2>1. issued \in Nat /\ issued \in 0..MaxSid /\ s \in Sid /\ used \in [Sid -> Nat]
    BY <1>1, SidNat DEF Apt, Frame, Sid
  <2>2. PICK r \in Request : Save(r) \/ Accept(r)
    BY <1>1 DEF Next, Handle, Tick, Evict, Load, Pass, Login, Regenerate, Fresh, CodeRight, CodeWrong,
                Destroy, PasskeyLogin, PasskeyChallenge, Expel, Logout, Rotate, Serve, Die, history
  <2>3. CASE Save(r)
    <3>1. req[r].sid = 0 /\ used' = [used EXCEPT ![issued + 1] = req[r].copy.active]
      BY <2>3 DEF Save
    <3>2. s # issued + 1
      BY <2>1
    <3> QED
      BY <2>1, <3>1, <3>2
  <2>4. CASE Accept(r)
    <3>1. used' = [used EXCEPT ![req[r].sid] = now]
      BY <2>4 DEF Accept
    <3>2. s = req[r].sid
      BY <2>1, <3>1
    <3>3. /\ At(r, "loaded") /\ now <= req[r].copy.created + Absolute
          /\ now <= req[r].copy.active + IdleTime
      BY <2>4 DEF Accept, InTime
    <3>4. /\ req[r].copy \in Data /\ s # 0 /\ req[r].copy.created = born[s]
          /\ req[r].copy.active <= used[s]
      BY <1>1, <2>1, <3>2, <3>3, SlotFits DEF Fits, At
    <3>5. /\ req[r].copy.active \in Nat /\ used[s] \in Nat /\ now \in Nat /\ IdleTime \in Nat
      BY <1>1, <2>1, <3>4, SessionAssumption DEF SessionAssumption, Data, Apt, Frame
    <3> QED
      BY <3>3, <3>4, <3>5
  <2> QED
    BY <2>2, <2>3, <2>4
<1>2. ASSUME Apt, [Next]_vars PROVE [InBounds]_vars
  BY <1>1, <1>2
<1> QED
  BY <1>2, AptAlways, PTL DEF Spec, AcceptedInTime

-----------------------------------------------------------------------------
(* The cap on wrong codes.  As long as requests of one session do not      *)
(* overlap and none is cut short, the copy at hand, or the stored session  *)
(* when there is none, counts every wrong code.                            *)

Counts(slot, st, g) ==
  slot.at # "idle" =>
    /\ slot.copy.attempts < MaxCodes
    /\ slot.sid # 0 => /\ g[slot.sid] <= slot.copy.attempts
                       /\ slot.dirty = "no" => st[slot.sid] \in {None, slot.copy}

Free(s) == \A r \in Request : ~Carries(r, s)

Tally ==
  /\ late = {}
  /\ \A s \in Sid :
       /\ guesses[s] <= MaxCodes
       /\ s > issued => guesses[s] = 0
       /\ store[s] # None => /\ store[s].attempts < MaxCodes
                             /\ Free(s) => guesses[s] <= store[s].attempts
  /\ \A r \in Request : Counts(req[r], store, guesses)

LEMMA TallyInitial == Init => Tally
  BY IdleFacts, SidNat, SessionAssumption
     DEF Init, Tally, Counts, SessionAssumption

(* One request moves and touches one session, x, that no other carries. *)
LEMMA TallyMoves ==
  ASSUME Apt, Tally, NEW r \in Request, NEW slot \in Slot, Become(r, slot),
         NEW x \in Sid \cup {0}, At(r, "idle") \/ req[r].sid \in {0, x},
         x # 0 => \A q \in Request \ {r} : ~Carries(q, x),
         \A s \in Sid \ {x} : store'[s] = store[s] /\ guesses'[s] = guesses[s],
         \A s \in Sid : s > issued' => s > issued,
         x # 0 => /\ guesses'[x] <= MaxCodes
                  /\ x > issued' => guesses'[x] = 0
                  /\ store'[x] # None =>
                       /\ store'[x].attempts < MaxCodes
                       /\ slot.at = "idle" \/ slot.sid # x => guesses'[x] <= store'[x].attempts,
         Counts(slot, store', guesses'), late' = {}
  PROVE  Tally'
<1>1. \A q \in Request : req'[q] = IF q = r THEN slot ELSE req[q]
  BY BecomeSlot
<1>2. ASSUME NEW q \in Request
      PROVE  Counts(req'[q], store', guesses')
  <2>1. CASE q = r
    BY <1>1, <2>1
  <2>2. CASE q # r
    <3>1. Counts(req[q], store, guesses) /\ Fits(req[q], issued, kind, born, used, Gone, now)
      BY DEF Tally, Apt, Slots
    <3>2. ASSUME req[q].at # "idle", req[q].sid # 0
          PROVE  req[q].sid \in Sid \ {x}
      <4>1. req[q].sid \in Sid
        BY <3>1, <3>2 DEF Fits, Slot
      <4> QED
        BY <2>2, <3>2, <4>1 DEF Carries, At
    <3> QED
      BY <1>1, <2>2, <3>1, <3>2 DEF Counts
  <2> QED
    BY <2>1, <2>2
<1>3. ASSUME NEW s \in Sid
      PROVE  /\ guesses'[s] <= MaxCodes
             /\ s > issued' => guesses'[s] = 0
             /\ store'[s] # None => /\ store'[s].attempts < MaxCodes
                                    /\ Free(s)' => guesses'[s] <= store'[s].attempts
  <2>1. CASE s = x
    <3>1. Free(s)' => slot.at = "idle" \/ slot.sid # x
      BY <1>1, <2>1 DEF Free, Carries, At
    <3> QED
      BY <2>1, <3>1, SidNat
  <2>2. CASE s # x
    <3>1. Free(s)' => Free(s)
      <4>1. ~Carries(r, s)
        BY <2>2, SidNat DEF Carries
      <4> QED
        BY <1>1, <4>1 DEF Free, Carries, At
    <3> QED
      BY <2>2, <3>1 DEF Tally
  <2> QED
    BY <2>1, <2>2
<1> QED
  BY <1>2, <1>3 DEF Tally

(* What is known of the session a request carries. *)
LEMMA Carried ==
  ASSUME Apt, Serial, Tally, NEW r \in Request, ~At(r, "idle")
  PROVE  /\ req[r] \in Slot /\ req[r].sid \in Sid \cup {0} /\ req[r].copy \in Data
         /\ req[r].copy.attempts \in Nat /\ req[r].copy.attempts < MaxCodes
         /\ MaxCodes \in Nat /\ req[r].sid \notin closed
         /\ req[r].sid # 0 =>
              /\ req[r].sid <= issued /\ ~(req[r].sid > issued)
              /\ \A q \in Request \ {r} : ~Carries(q, req[r].sid)
              /\ guesses[req[r].sid] \in Nat
              /\ guesses[req[r].sid] <= req[r].copy.attempts
              /\ req[r].dirty = "no" => store[req[r].sid] \in {None, req[r].copy}
<1>1. /\ Fits(req[r], issued, kind, born, used, Gone, now) /\ Counts(req[r], store, guesses)
      /\ req[r] \in Slot /\ req[r].at # "idle"
  BY DEF Apt, Slots, Tally, Frame, At
<1>2. /\ req[r].sid \in Sid \cup {0} /\ req[r].copy \in Data /\ req[r].sid \in 0..issued
      /\ issued \in Nat
  BY <1>1, SlotFits DEF Fits, Slot
<1>3. Gone = closed
  BY DEF Gone, Tally
<1>4. MaxCodes \in Nat /\ guesses \in [Sid -> Nat]
  BY SessionAssumption DEF SessionAssumption, Apt, Frame
<1>5. req[r].sid # 0 => \A q \in Request \ {r} : ~Carries(q, req[r].sid)
  BY <1>1, <1>2 DEF Serial, Carries, At
<1>6. req[r].copy.attempts \in Nat
  BY <1>2 DEF Data
<1>7. req[r].sid <= issued /\ ~(req[r].sid > issued)
  BY <1>2
<1> QED
  BY <1>1, <1>2, <1>3, <1>4, <1>5, <1>6, <1>7 DEF Fits, Counts

(* A request keeps its session, and answers. *)
LEMMA AnswerTally ==
  ASSUME Apt, Serial, Tally, NEW r \in Request, ~At(r, "idle"),
         NEW slot \in Slot, Become(r, slot), slot.at # "idle", slot.sid = req[r].sid,
         slot.copy.attempts < MaxCodes, slot.copy.attempts \in Nat,
         slot.dirty = "yes" \/ (slot.dirty = req[r].dirty /\ slot.copy = req[r].copy),
         UNCHANGED <<issued, store, late>>, guesses' \in [Sid -> Nat],
         \A s \in Sid \ {req[r].sid} : guesses'[s] = guesses[s],
         req[r].sid # 0 => guesses'[req[r].sid] <= slot.copy.attempts
  PROVE  Tally'
<1> DEFINE x == req[r].sid
<1>1. /\ x \in Sid \cup {0} /\ MaxCodes \in Nat
      /\ x # 0 => /\ ~(x > issued)
                  /\ \A q \in Request \ {r} : ~Carries(q, x)
                  /\ req[r].dirty = "no" => store[x] \in {None, req[r].copy}
  BY Carried
<1>2. x # 0 => /\ guesses'[x] <= MaxCodes
               /\ store[x] # None => store[x].attempts < MaxCodes
  <2> SUFFICES ASSUME x # 0
               PROVE  /\ guesses'[x] <= MaxCodes
                      /\ store[x] # None => store[x].attempts < MaxCodes
    OBVIOUS
  <2>1. x \in Sid /\ guesses'[x] \in Nat /\ guesses'[x] <= slot.copy.attempts
    BY <1>1
  <2> QED
    BY <1>1, <2>1 DEF Tally
<1>3. Counts(slot, store', guesses')
  <2>1. x # 0 /\ slot.dirty = "no" => store'[x] \in {None, slot.copy}
    BY <1>1
  <2> QED
    BY <2>1 DEF Counts
<1>4. late' = {} /\ UNCHANGED <<issued, store>>
  BY DEF Tally
<1> QED
  BY <1>1, <1>2, <1>3, <1>4, TallyMoves

(* A request leaves its session, which it deletes or did not change. *)
LEMMA LeaveTally ==
  ASSUME Apt, Serial, Tally, NEW r \in Request, ~At(r, "idle"), Kept, ~Save(r),
         NEW slot \in Slot, Become(r, slot), slot.sid = 0,
         slot.at # "idle" => slot.copy.attempts = 0,
         Delete(r) \/ UNCHANGED <<store, closed, late>>,
         UNCHANGED issued, guesses' \in [Sid -> Nat],
         \A s \in Sid \ {req[r].sid} : guesses'[s] = guesses[s],
         req[r].sid # 0 => guesses'[req[r].sid] <= req[r].copy.attempts + 1
  PROVE  Tally'
<1> DEFINE x == req[r].sid
<1>1. /\ x \in Sid \cup {0} /\ MaxCodes \in Nat /\ x \notin closed
      /\ req[r].copy.attempts \in Nat /\ req[r].copy.attempts < MaxCodes
      /\ x # 0 => /\ ~(x > issued)
                  /\ \A q \in Request \ {r} : ~Carries(q, x)
                  /\ guesses[x] \in Nat /\ guesses[x] <= req[r].copy.attempts
                  /\ req[r].dirty = "no" => store[x] \in {None, req[r].copy}
  BY Carried
<1>2. Counts(slot, store', guesses')
  <2>1. MaxCodes # 0 /\ MaxCodes \in Nat
    BY SessionAssumption DEF SessionAssumption
  <2> QED
    BY <2>1 DEF Counts
<1>3. x # 0 => guesses'[x] <= MaxCodes /\ guesses'[x] \in Nat
  <2>1. x # 0 => guesses'[x] \in Nat
    BY <1>1
  <2> QED
    BY <1>1, <2>1
<1>4. CASE Delete(r)
  <2>1. \A s \in Sid : store'[s] = IF s = x THEN None ELSE store[s]
    BY <1>4, SidNat DEF Delete
  <2>2. late' = {}
    BY <1>1, <1>4 DEF Delete, Tally
  <2>3. x # 0 => store'[x] = None
    BY <1>1, <2>1
  <2>4. \A s \in Sid \ {x} : store'[s] = store[s]
    BY <2>1
  <2> QED
    BY <1>1, <1>2, <1>3, <2>2, <2>3, <2>4, TallyMoves
<1>5. CASE ~Delete(r)
  <2>1. UNCHANGED <<store, closed, late>>
    BY <1>5
  <2>2. x # 0 => Leaves(r)
    BY BecomeSlot DEF At, Leaves
  <2>3. x # 0 => req[r].dirty # "yes" /\ guesses' = guesses
    BY <1>1, <2>1, <2>2 DEF Kept
  <2>4. x # 0 => req[r].dirty = "no"
    BY <2>3, SlotFits DEF Slot
  <2>5. x # 0 /\ store'[x] # None => /\ store'[x].attempts < MaxCodes
                                     /\ guesses'[x] <= store'[x].attempts
    BY <1>1, <2>1, <2>3, <2>4
  <2>6. late' = {}
    BY <2>1 DEF Tally
  <2> QED
    BY <1>1, <1>2, <1>3, <2>1, <2>5, <2>6, TallyMoves
<1> QED
  BY <1>4, <1>5

LEMMA SaveTally ==
  ASSUME Apt, Serial, Tally, NEW r \in Request, Save(r)
  PROVE  Tally'
<1> DEFINE x == IF req[r].sid = 0 THEN issued + 1 ELSE req[r].sid
<1>1. /\ ~At(r, "idle") /\ Become(r, Idle) /\ x \in Sid
      /\ store' = [store EXCEPT ![x] = req[r].copy]
      /\ issued' = IF req[r].sid = 0 THEN x ELSE issued
      /\ UNCHANGED <<late, guesses>>
  BY DEF Save, At
<1>2. /\ req[r].sid \in Sid \cup {0} /\ req[r].copy.attempts \in Nat
      /\ req[r].copy.attempts < MaxCodes /\ MaxCodes \in Nat
      /\ req[r].sid # 0 => /\ ~(req[r].sid > issued)
                           /\ \A q \in Request \ {r} : ~Carries(q, req[r].sid)
                           /\ guesses[req[r].sid] <= req[r].copy.attempts
  BY <1>1, Carried
<1>3. issued \in Nat /\ Sid \subseteq Nat /\ 0 \notin Sid
  BY SidNat, SlotFits
<1>4. \A q \in Request \ {r} : ~Carries(q, x)
  <2>1. CASE req[r].sid # 0
    BY <1>2, <2>1
  <2>2. CASE req[r].sid = 0
    <3> SUFFICES ASSUME NEW q \in Request, Carries(q, issued + 1) PROVE FALSE
      BY <2>2
    <3>1. req[q].sid \in 0..issued
      BY SlotFits DEF Fits, Carries, At
    <3> QED
      BY <1>3, <3>1 DEF Carries
  <2> QED
    BY <2>1, <2>2
<1>5. guesses[x] <= req[r].copy.attempts /\ guesses[x] <= MaxCodes /\ ~(x > issued')
  <2>1. CASE req[r].sid # 0
    BY <1>1, <1>2, <2>1 DEF Tally
  <2>2. CASE req[r].sid = 0
    <3>1. guesses[x] = 0
      BY <1>1, <1>3, <2>2 DEF Tally
    <3> QED
      BY <1>1, <1>2, <1>3, <2>2, <3>1
  <2> QED
    BY <2>1, <2>2
<1>6. store'[x] = req[r].copy /\ \A s \in Sid \ {x} : store'[s] = store[s]
  BY <1>1 DEF Apt, Frame
<1>7. \A s \in Sid : s > issued' => s > issued
  BY <1>1, <1>3
<1>8. Counts(Idle, store', guesses')
  BY IdleFacts DEF Counts
<1>9. late' = {} /\ x \in Sid \cup {0} /\ (At(r, "idle") \/ req[r].sid \in {0, x})
  BY <1>1 DEF Tally
<1> HIDE DEF x
<1>10. \A s \in Sid \ {x} : guesses'[s] = guesses[s]
  BY <1>1
<1>11. /\ guesses'[x] <= MaxCodes
       /\ ~(x > issued')
       /\ store'[x].attempts < MaxCodes /\ guesses'[x] <= store'[x].attempts
  BY <1>1, <1>2, <1>5, <1>6
<1> QED
  BY <1>1, <1>4, <1>6, <1>7, <1>8, <1>9, <1>10, <1>11, IdleFacts, TallyMoves

LEMMA LoadTally ==
  ASSUME Apt, Tally, Serial', NEW r \in Request, Load(r)
  PROVE  Tally'
<1>1. At(r, "idle") /\ UNCHANGED <<issued, store, guesses, late>> /\ late' = {}
  BY DEF Load, history, Tally
<1>2. ASSUME NEW s \in 1..issued, store[s] # None,
             Become(r, [Idle EXCEPT !.at = "loaded", !.sid = s, !.copy = store[s]])
      PROVE  Tally'
  <2> DEFINE slot == [Idle EXCEPT !.at = "loaded", !.sid = s, !.copy = store[s]]
  <2>1. s \in Sid /\ s # 0 /\ ~(s > issued)
    BY SidNat, SlotFits DEF Sid
  <2>2. store[s] \in Data
    BY <1>2, <2>1 DEF Apt, Frame
  <2>3. slot \in Slot /\ slot.at = "loaded" /\ slot.sid = s /\ slot.copy = store[s]
    BY <2>1, <2>2, LoadedSlot
  <2>4. Become(r, slot)
    BY <1>2
  <2> HIDE DEF slot
  <2>5. \A q \in Request \ {r} : ~Carries(q, s)
    <3>1. \A q \in Request : req'[q] = IF q = r THEN slot ELSE req[q]
      BY <2>3, <2>4, BecomeSlot
    <3>2. Carries(r, s)'
      BY <2>3, <3>1 DEF Carries, At
    <3>3. \A q \in Request \ {r} : Carries(q, s) => Carries(q, s)'
      BY <3>1 DEF Carries, At
    <3> QED
      BY <2>1, <3>2, <3>3 DEF Serial
  <2>6. Free(s)
    BY <1>1, <2>5 DEF Free, Carries
  <2>7. /\ guesses'[s] <= MaxCodes
        /\ store'[s].attempts < MaxCodes /\ guesses'[s] <= store'[s].attempts
    BY <1>1, <1>2, <2>1, <2>6 DEF Tally
  <2>8. Counts(slot, store', guesses')
    BY <1>1, <2>3, <2>7 DEF Counts
  <2> QED
    BY <1>1, <2>1, <2>3, <2>4, <2>5, <2>7, <2>8, TallyMoves
<1>3. ASSUME Become(r, [Idle EXCEPT !.at = "loaded", !.copy = New("anonymous"), !.dirty = "yes"])
      PROVE  Tally'
  <2> DEFINE slot == [Idle EXCEPT !.at = "loaded", !.copy = New("anonymous"), !.dirty = "yes"]
  <2>1. MaxCodes \in Nat /\ MaxCodes # 0
    BY SessionAssumption DEF SessionAssumption
  <2>2. /\ New("anonymous") \in Data /\ New("anonymous").attempts = 0
    BY SlotFits, NewData DEF New, Level
  <2>3. slot \in Slot /\ slot.sid = 0 /\ slot.copy = New("anonymous")
    BY <2>2 DEF Idle, Slot
  <2>4. Become(r, slot)
    BY <1>3
  <2> HIDE DEF slot
  <2>5. Counts(slot, store', guesses')
    BY <2>1, <2>2, <2>3 DEF Counts
  <2> QED
    BY <1>1, <2>3, <2>4, <2>5, TallyMoves
<1> QED
  BY <1>2, <1>3 DEF Load

LEMMA RegenerateTally ==
  ASSUME Apt, Serial, Tally, NEW r \in Request, ~At(r, "idle"), Kept, ~Save(r),
         NEW level \in Level, Regenerate(r, level)
  PROVE  Tally'
<1>1. UNCHANGED <<issued, guesses>> /\ guesses' \in [Sid -> Nat]
  BY DEF Regenerate, Apt, Frame
<1>2. req[r].sid # 0 => guesses'[req[r].sid] <= req[r].copy.attempts + 1
  <2> SUFFICES ASSUME req[r].sid # 0
               PROVE  guesses'[req[r].sid] <= req[r].copy.attempts + 1
    OBVIOUS
  <2>1. /\ guesses[req[r].sid] \in Nat /\ req[r].copy.attempts \in Nat
        /\ guesses[req[r].sid] <= req[r].copy.attempts
    BY Carried
  <2> QED
    BY <1>1, <2>1
<1>3. PICK reached \in Level : Become(r, Fresh(reached))
  BY DEF Regenerate, Level
<1>4. New(reached) \in Data /\ New(reached).attempts = 0
  BY SlotFits, NewData DEF New
<1>5. Fresh(reached) \in Slot /\ Fresh(reached).sid = 0 /\ Fresh(reached).copy.attempts = 0
  BY <1>4 DEF Fresh, Idle, Slot
<1>6. Delete(r) \/ UNCHANGED <<store, closed, late>>
  BY DEF Regenerate
<1> QED
  BY <1>1, <1>2, <1>3, <1>5, <1>6, LeaveTally

(* A request ends, having counted at most one wrong code. *)
LEMMA EndTally ==
  ASSUME Apt, Serial, Tally, NEW r \in Request, ~At(r, "idle"), Kept, ~Save(r), Become(r, Idle),
         Delete(r) \/ UNCHANGED <<store, closed, late>>, UNCHANGED issued,
         guesses' = guesses \/ (\E n \in Nat : /\ n <= guesses[req[r].sid] + 1
                                               /\ guesses' = [guesses EXCEPT ![req[r].sid] = n])
  PROVE  Tally'
<1>1. guesses \in [Sid -> Nat]
  BY DEF Apt, Frame
<1>2. /\ guesses' \in [Sid -> Nat]
      /\ \A s \in Sid \ {req[r].sid} : guesses'[s] = guesses[s]
  BY <1>1
<1>3. req[r].sid # 0 => guesses'[req[r].sid] <= req[r].copy.attempts + 1
  <2> SUFFICES ASSUME req[r].sid # 0
               PROVE  guesses'[req[r].sid] <= req[r].copy.attempts + 1
    OBVIOUS
  <2>1. /\ guesses[req[r].sid] \in Nat /\ req[r].copy.attempts \in Nat
        /\ guesses[req[r].sid] <= req[r].copy.attempts /\ req[r].sid \in Sid
    BY Carried
  <2>2. guesses'[req[r].sid] \in Nat /\ guesses'[req[r].sid] <= guesses[req[r].sid] + 1
    BY <1>1, <2>1
  <2> QED
    BY <2>1, <2>2
<1> QED
  BY <1>2, <1>3, IdleFacts, LeaveTally

LEMMA CodeWrongTally ==
  ASSUME Apt, Serial, Tally, NEW r \in Request, Kept, ~Save(r), CodeWrong(r)
  PROVE  Tally'
<1> DEFINE s == req[r].sid
           attempts == req[r].copy.attempts + 1
           n == IF guesses[s] < MaxGuesses THEN guesses[s] + 1 ELSE guesses[s]
<1>1. /\ At(r, "loaded") /\ ~At(r, "idle")
      /\ guesses' = [guesses EXCEPT ![s] = n]
      /\ IF attempts >= MaxCodes THEN Destroy(r)
         ELSE /\ Answer(r, [req[r].copy EXCEPT !.attempts = attempts], "yes")
              /\ UNCHANGED <<now, issued, store, kind, born, used, closed, late>>
  BY DEF CodeWrong, Verifying, At
<1>2. guesses \in [Sid -> Nat] /\ SessionAssumption
  BY SessionAssumption DEF Apt, Frame
<1>3. /\ req[r] \in Slot /\ s \in Sid \cup {0} /\ req[r].copy \in Data
      /\ req[r].copy.attempts \in Nat /\ req[r].copy.attempts < MaxCodes /\ MaxCodes \in Nat
      /\ s # 0 => guesses[s] \in Nat /\ guesses[s] <= req[r].copy.attempts
  BY <1>1, Carried
<1>4. s # 0 => n \in Nat /\ n <= guesses[s] + 1
  BY <1>3
<1>5. /\ s = 0 => guesses' = guesses
      /\ guesses' \in [Sid -> Nat]
      /\ \A x \in Sid \ {s} : guesses'[x] = guesses[x]
      /\ s # 0 => guesses'[s] = n
  <2>1. CASE s = 0
    <3>1. s \notin DOMAIN guesses
      BY <1>2, <2>1, SidNat
    <3>2. guesses' = guesses
      BY <1>1, <1>2, <3>1
    <3> QED
      BY <1>2, <2>1, <3>2
  <2>2. CASE s # 0
    BY <1>1, <1>2, <1>3, <1>4, <2>2
  <2> QED
    BY <2>1, <2>2
<1>6. CASE attempts >= MaxCodes
  <2>1. /\ Delete(r) \/ UNCHANGED <<store, closed, late>>
        /\ Become(r, Idle) /\ UNCHANGED issued
    BY <1>1, <1>6 DEF Destroy
  <2> HIDE DEF n
  <2>2. guesses' = guesses \/ (\E m \in Nat : /\ m <= guesses[s] + 1
                                              /\ guesses' = [guesses EXCEPT ![s] = m])
    BY <1>1, <1>4, <1>5
  <2> QED
    BY <1>1, <2>1, <2>2, EndTally
<1>7. CASE ~(attempts >= MaxCodes)
  <2> DEFINE copy == [req[r].copy EXCEPT !.attempts = attempts]
             slot == [req[r] EXCEPT !.at = "ending", !.copy = copy, !.dirty = "yes"]
  <2>1. Become(r, slot) /\ UNCHANGED <<issued, store, late>>
    BY <1>1, <1>7 DEF Answer
  <2>2. copy \in Data /\ copy.attempts = attempts
    BY <1>3 DEF Data
  <2> HIDE DEF copy
  <2>3. /\ slot \in Slot /\ slot.at = "ending" /\ slot.sid = s /\ slot.copy = copy
        /\ slot.dirty = "yes"
    BY <1>3, <2>2 DEF Slot
  <2> HIDE DEF slot, n
  <2>4. slot.copy.attempts < MaxCodes /\ slot.copy.attempts \in Nat
    BY <1>3, <1>7, <2>2, <2>3
  <2>5. s # 0 => guesses'[s] <= slot.copy.attempts
    BY <1>3, <1>4, <1>5, <2>2, <2>3
  <2> QED
    BY <1>1, <1>5, <2>1, <2>3, <2>4, <2>5, AnswerTally
<1> QED
  BY <1>6, <1>7

(* A request answers, or is accepted, and counts nothing. *)
LEMMA PlainTally ==
  ASSUME Apt, Serial, Tally, NEW r \in Request,
         Pass(r) \/ PasskeyChallenge(r) \/ Serve(r) \/ Accept(r)
  PROVE  Tally'
<1>1. ~At(r, "idle")
  BY DEF Pass, PasskeyChallenge, Serve, Accept, At
<1>2. UNCHANGED <<issued, store, late, guesses>> /\ guesses' \in [Sid -> Nat]
  BY DEF Pass, PasskeyChallenge, Serve, Accept, history, Apt, Frame
<1>3. /\ req[r] \in Slot /\ req[r].sid \in Sid \cup {0} /\ req[r].copy \in Data
      /\ req[r].copy.attempts \in Nat /\ req[r].copy.attempts < MaxCodes
      /\ req[r].sid # 0 => guesses'[req[r].sid] <= req[r].copy.attempts
  BY <1>1, <1>2, Carried
<1>4. PICK slot \in Slot :
        /\ Become(r, slot) /\ slot.at # "idle" /\ slot.sid = req[r].sid
        /\ slot.copy.attempts = req[r].copy.attempts
        /\ slot.dirty = "yes" \/ (slot.dirty = req[r].dirty /\ slot.copy = req[r].copy)
  <2>1. CASE Accept(r)
    <3> DEFINE slot == [req[r] EXCEPT !.at = "serving", !.copy.active = now, !.dirty = "yes"]
    <3>1. Become(r, slot)
      BY <2>1 DEF Accept
    <3>2. now \in Nat
      BY SlotFits
    <3>3. [req[r].copy EXCEPT !.active = now] \in Data
      BY <1>3, <3>2 DEF Data
    <3>4. [req[r].copy EXCEPT !.active = now].attempts = req[r].copy.attempts
      BY <1>3 DEF Data
    <3>5. /\ slot \in Slot /\ slot.at = "serving" /\ slot.sid = req[r].sid
          /\ slot.copy = [req[r].copy EXCEPT !.active = now] /\ slot.dirty = "yes"
      BY <1>3, <3>3 DEF Slot
    <3> HIDE DEF slot
    <3> QED
      BY <3>1, <3>4, <3>5
  <2>2. CASE Pass(r) \/ PasskeyChallenge(r) \/ Serve(r)
    <3>1. PICK dirty \in {req[r].dirty, "yes"} : Answer(r, req[r].copy, dirty)
      BY <2>2 DEF Pass, PasskeyChallenge, Serve
    <3> DEFINE slot == [req[r] EXCEPT !.at = "ending", !.copy = req[r].copy, !.dirty = dirty]
    <3>2. Become(r, slot)
      BY <3>1 DEF Answer
    <3>3. /\ slot \in Slot /\ slot.at = "ending" /\ slot.sid = req[r].sid
          /\ slot.copy = req[r].copy /\ slot.dirty = dirty
      BY <1>3, <3>1 DEF Slot
    <3> HIDE DEF slot
    <3> QED
      BY <3>1, <3>2, <3>3
  <2> QED
    BY <2>1, <2>2
<1>5. /\ slot.copy.attempts < MaxCodes /\ slot.copy.attempts \in Nat
      /\ req[r].sid # 0 => guesses'[req[r].sid] <= slot.copy.attempts
  BY <1>3, <1>4
<1>6. UNCHANGED <<issued, store, late>> /\ \A s \in Sid \ {req[r].sid} : guesses'[s] = guesses[s]
  BY <1>2
<1> QED
  BY <1>1, <1>2, <1>4, <1>5, <1>6, AnswerTally

LEMMA TallyStep == Apt /\ Serial /\ Serial' /\ Tally /\ [Next /\ Kept]_vars => Tally'
<1> SUFFICES ASSUME Apt, Serial, Serial', Tally, [Next /\ Kept]_vars PROVE Tally'
  OBVIOUS
<1>1. CASE UNCHANGED vars
  BY <1>1 DEF vars, history, Tally, Counts, Free, Carries, At
<1>2. CASE Tick
  BY <1>2 DEF Tick, history, Tally, Counts, Free, Carries, At
<1>3. CASE Evict
  <2>1. UNCHANGED <<now, issued, req, history>> /\ \A s \in Sid : store'[s] \in {None, store[s]}
    BY <1>3 DEF Evict, Apt, Frame
  <2>2. \A s \in Sid : Free(s)' <=> Free(s)
    BY <2>1 DEF Free, Carries, At
  <2>3. ASSUME NEW r \in Request PROVE Counts(req[r], store', guesses')
    <3>1. Fits(req[r], issued, kind, born, used, Gone, now) /\ req[r] \in Slot
      BY SlotFits
    <3>2. req[r].sid # 0 => req[r].sid \in Sid
      BY <3>1 DEF Slot
    <3>3. Counts(req[r], store, guesses) /\ guesses' = guesses
      BY <2>1 DEF Tally, history
    <3> QED
      BY <2>1, <3>2, <3>3 DEF Counts
  <2> QED
    BY <2>1, <2>2, <2>3 DEF Tally, history
<1>4. ASSUME Kept, NEW r \in Request, Handle(r) PROVE Tally'
  <2>1. CASE Save(r)
    BY <2>1, SaveTally
  <2>2. CASE ~Save(r) /\ (Login(r) \/ CodeRight(r) \/ PasskeyLogin(r) \/ Rotate(r))
    <3>1. ~At(r, "idle")
      BY <2>2 DEF Login, CodeRight, Verifying, PasskeyLogin, Rotate, At
    <3>2. PICK level \in Level : Regenerate(r, level)
      BY <2>2 DEF Login, CodeRight, PasskeyLogin, Rotate, Level
    <3> QED
      BY <1>4, <2>2, <3>1, <3>2, RegenerateTally
  <2>3. CASE ~Save(r) /\ (Expel(r) \/ Logout(r) \/ Die(r))
    <3>1. /\ ~At(r, "idle") /\ Become(r, Idle)
          /\ Delete(r) \/ UNCHANGED <<store, closed, late>>
          /\ UNCHANGED issued /\ guesses' = guesses
      BY <2>3 DEF Expel, Logout, Die, Destroy, At, history
    <3> QED
      BY <1>4, <2>3, <3>1, EndTally
  <2> QED
    BY <1>4, <2>1, <2>2, <2>3, LoadTally, CodeWrongTally, PlainTally DEF Handle
<1> QED
  BY <1>1, <1>2, <1>3, <1>4 DEF Next

(* "Max TOTP guesses allowed" (auth.ts:18): as long as requests of one     *)
(* session do not overlap and none is cut short, no session sees more      *)
(* wrong codes than MAX_MFA_ATTEMPTS.  (The run session_guesses shows that *)
(* it does when they overlap.)                                             *)
THEOREM SerialGuessesCapped == CalmSpec /\ []Serial => []GuessesCapped
<1>1. Apt /\ [Next /\ Kept]_vars => Apt'
  <2>1. [Next /\ Kept]_vars => [Next]_vars
    OBVIOUS
  <2> QED
    BY <2>1, AptStep
<1>2. Tally => GuessesCapped
  BY DEF Tally, GuessesCapped
<1> QED
  BY <1>1, <1>2, SessionInitial, TallyInitial, TallyStep, PTL DEF CalmSpec
=============================================================================
