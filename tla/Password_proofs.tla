--------------------------- MODULE Password_proofs ---------------------------
(***************************************************************************)
(* The history of passwords keeps the last ones and none of them comes     *)
(* back, for any number of requests, passwords and rows.                   *)
(***************************************************************************)
EXTENDS Password, FiniteSetTheorems, SequenceTheorems, TLAPS

(* While the last Limit rows ever created are all there, they are the      *)
(* newest ones that a query returns.                                       *)
LEMMA LastAreNewest ==
  ASSUME TypeOK, InOrder, LastKept, NEW i \in RowId
  PROVE  i \in Newest(Limit) <=> i <= made /\ i > made - Limit
<1> USE PasswordAssumption DEF PasswordAssumption
<1> DEFINE Above == {j \in Existing : j > i}
<1>1. made \in 0..MaxRows /\ MaxRows \in Nat /\ Limit \in Nat \ {0} /\ i \in 1..MaxRows
  BY DEF TypeOK, RowId
<1>2. Existing \subseteq 1..made
  <2> SUFFICES ASSUME NEW j \in RowId, rows[j] # None PROVE j \in 1..made
    BY DEF Existing
  <2>1. ~(j > made) /\ j \in 1..MaxRows
    BY DEF InOrder, RowId
  <2> QED
    BY <1>1, <2>1
<1>3. Above \subseteq (i + 1)..made
  <2> SUFFICES ASSUME NEW j \in Existing, j > i PROVE j \in (i + 1)..made
    OBVIOUS
  <2>1. j \in 1..made
    BY <1>2
  <2> QED
    BY <1>1, <2>1
<1>4. /\ IsFiniteSet((i + 1)..made)
      /\ Cardinality((i + 1)..made) = IF i + 1 > made THEN 0 ELSE made - (i + 1) + 1
  BY <1>1, FS_Interval
<1>5. /\ IsFiniteSet(Above) /\ Cardinality(Above) \in Nat
      /\ Cardinality(Above) <= Cardinality((i + 1)..made)
  BY <1>3, <1>4, FS_Subset, FS_CardinalityType
<1>6. CASE i > made
  BY <1>1, <1>2, <1>6 DEF Newest
<1>7. CASE i <= made /\ i > made - Limit
  <2>1. i \in Existing
    BY <1>7 DEF LastKept, Existing
  <2>2. Cardinality(Above) < Limit
    <3> HIDE DEF Above
    <3> QED
      BY <1>1, <1>4, <1>5, <1>7
  <2> QED
    BY <1>7, <2>1, <2>2 DEF Newest
<1>8. CASE i <= made - Limit
  <2> DEFINE last == (made - Limit + 1)..made
  <2>1. last \subseteq Above
    BY <1>1, <1>8 DEF LastKept, Existing, RowId
  <2>2. IsFiniteSet(last) /\ Cardinality(last) = Limit
    <3>1. made - Limit + 1 \in Int /\ made \in Int /\ ~(made - Limit + 1 > made)
      BY <1>1
    <3>2. Cardinality(last) = made - (made - Limit + 1) + 1
      BY <3>1, FS_Interval
    <3> QED
      BY <1>1, <3>1, <3>2, FS_Interval
  <2>3. Cardinality(last) <= Cardinality(Above)
    BY <1>5, <2>1, FS_Subset
  <2>4. ~(Cardinality(Above) < Limit)
    <3> HIDE DEF last, Above
    <3> QED
      BY <1>1, <1>5, <2>2, <2>3
  <2> QED
    BY <1>1, <1>8, <2>4 DEF Newest
<1> QED
  BY <1>1, <1>6, <1>7, <1>8

LEMMA IdleIsSlot == Idle \in Slot
  BY PasswordAssumption DEF PasswordAssumption, Idle, Slot

LEMMA BecomeSlot ==
  ASSUME TypeOK, NEW r \in Request, NEW slot \in Slot, Become(r, slot)
  PROVE  /\ req' \in [Request -> Slot]
         /\ \A q \in Request : req'[q] = IF q = r THEN slot ELSE req[q]
  BY DEF TypeOK, Become

LEMMA PasswordInitial == Init => PasswordIInv
<1> SUFFICES ASSUME Init PROVE PasswordIInv
  OBVIOUS
<1> USE PasswordAssumption DEF PasswordAssumption
<1>1. past = <<>> /\ Len(past) = 0 /\ past \in Seq(Password)
  BY DEF Init
<1>2. TypeOK
  BY <1>1, IdleIsSlot DEF Init, TypeOK, RowId
<1>3. InOrder /\ LastKept
  BY DEF Init, InOrder, LastKept, At, Idle, RowId
<1>4. RowsFollow /\ NoReuse
  BY <1>1 DEF Init, RowsFollow, NoReuse, At, Idle
<1> QED
  BY <1>2, <1>3, <1>4 DEF PasswordIInv

-----------------------------------------------------------------------------
(* Typing, order and the rows kept. *)

LEMMA SlotFields ==
  ASSUME TypeOK, NEW r \in Request
  PROVE  /\ req[r] \in Slot
         /\ req[r].new \in Password \cup {None} /\ req[r].known \in 0..MaxRows
         /\ req[r].doomed \subseteq RowId
  BY DEF TypeOK, Slot

(* The first conjuncts hold after a step whose new slot and rows are fine. *)
LEMMA KeptStep ==
  ASSUME TypeOK, InOrder, LastKept, NEW r \in Request, NEW slot \in Slot, Become(r, slot),
         current' \in Password \cup {None}, past' \in Seq(Password), Len(past') <= MaxRows,
         clean' \in {"yes", "no"},
         slot.at \in {"writing", "recording"} => slot.new \in Password,
         slot.known <= made,
         \A i \in slot.doomed : i <= made - Limit,
         UNCHANGED <<rows, made>>
  PROVE  TypeOK' /\ InOrder' /\ LastKept'
<1>1. /\ req' \in [Request -> Slot]
      /\ \A q \in Request : req'[q] = IF q = r THEN slot ELSE req[q]
  BY BecomeSlot
<1>2. TypeOK'
  BY <1>1 DEF TypeOK
<1>3. InOrder' /\ LastKept'
  BY <1>1 DEF InOrder, LastKept, At
<1> QED
  BY <1>2, <1>3

LEMMA RecordKept ==
  ASSUME TypeOK, InOrder, LastKept, NEW r \in Request, Record(r)
  PROVE  TypeOK' /\ InOrder' /\ LastKept'
<1> USE PasswordAssumption DEF PasswordAssumption
<1>1. /\ At(r, "recording") /\ made < MaxRows /\ made' = made + 1
      /\ rows' = [rows EXCEPT ![made + 1] = req[r].new]
      /\ UNCHANGED <<current, past, clean>>
  BY DEF Record
<1>2. PICK slot \in {Idle, [Idle EXCEPT !.at = "listing"]} : Become(r, slot)
  BY DEF Record
<1>3. slot \in Slot /\ slot.at \notin {"writing", "recording"} /\ slot.known = 0 /\ slot.doomed = {}
  BY <1>2, IdleIsSlot DEF Idle, Slot
<1>4. /\ req' \in [Request -> Slot]
      /\ \A q \in Request : req'[q] = IF q = r THEN slot ELSE req[q]
  BY <1>2, <1>3, BecomeSlot
<1>5. made \in 0..MaxRows /\ made + 1 \in RowId /\ req[r].new \in Password
  BY <1>1 DEF TypeOK, InOrder, RowId
<1>6. \A i \in RowId : rows'[i] = IF i = made + 1 THEN req[r].new ELSE rows[i]
  BY <1>1, <1>5 DEF TypeOK
<1>7. TypeOK'
  BY <1>1, <1>4, <1>5 DEF TypeOK
<1>8. InOrder'
  <2>1. \A i \in RowId : i > made' => rows'[i] = None
    BY <1>1, <1>5, <1>6 DEF InOrder, RowId
  <2>2. \A q \in Request : req[q].known \in 0..MaxRows /\ req[q].known <= made
    BY SlotFields DEF InOrder
  <2>3. \A q \in Request : req'[q].known <= made'
    BY <1>1, <1>3, <1>4, <1>5, <2>2
  <2>4. \A q \in Request :
          (At(q, "writing") \/ At(q, "recording"))' => req'[q].new \in Password
    BY <1>3, <1>4 DEF InOrder, At
  <2> QED
    BY <2>1, <2>3, <2>4 DEF InOrder
<1>9. LastKept'
  <2>1. \A i \in RowId : made' - Limit < i /\ i <= made' => rows'[i] # None
    BY <1>1, <1>5, <1>6 DEF LastKept, RowId
  <2>2. \A q \in Request : \A i \in req[q].doomed : i \in Int /\ i <= made - Limit
    BY SlotFields DEF LastKept, RowId
  <2>3. \A q \in Request : \A i \in req'[q].doomed : i <= made' - Limit
    BY <1>1, <1>3, <1>4, <1>5, <2>2
  <2> QED
    BY <2>1, <2>3 DEF LastKept
<1> QED
  BY <1>7, <1>8, <1>9

LEMMA ListKept ==
  ASSUME TypeOK, InOrder, LastKept, NEW r \in Request, List(r)
  PROVE  TypeOK' /\ InOrder' /\ LastKept'
<1> USE PasswordAssumption DEF PasswordAssumption
<1> DEFINE doomed == Existing \ Newest(Limit)
           trimming == [Idle EXCEPT !.at = "trimming", !.doomed = doomed]
<1>1. /\ UNCHANGED <<current, rows, made, past, clean>>
      /\ Become(r, Idle) \/ Become(r, trimming)
  BY DEF List
<1>2. made \in 0..MaxRows
  BY DEF TypeOK
<1>3. doomed \subseteq RowId /\ \A i \in doomed : i <= made - Limit
  <2>1. doomed \subseteq RowId
    BY DEF Existing
  <2> SUFFICES ASSUME NEW i \in doomed PROVE i <= made - Limit
    BY <2>1
  <2>2. i \in RowId /\ i \in Int /\ ~(i > made)
    BY <2>1 DEF InOrder, Existing, RowId
  <2>3. ~(i <= made /\ i > made - Limit)
    BY <2>2, LastAreNewest
  <2> QED
    BY <1>2, <2>2, <2>3
<1>4. Idle \in Slot /\ Idle.at = "idle" /\ Idle.known = 0 /\ Idle.doomed = {}
  BY IdleIsSlot DEF Idle
<1>5. trimming \in Slot /\ trimming.at = "trimming" /\ trimming.known = 0 /\ trimming.doomed = doomed
  BY <1>3, IdleIsSlot DEF Idle, Slot
<1>6. current' \in Password \cup {None} /\ past' \in Seq(Password) /\ Len(past') <= MaxRows
      /\ clean' \in {"yes", "no"} /\ 0 <= made
  BY <1>1, <1>2 DEF TypeOK
<1> HIDE DEF doomed, trimming
<1>7. CASE Become(r, Idle)
  BY <1>1, <1>4, <1>6, <1>7, KeptStep
<1>8. CASE Become(r, trimming)
  BY <1>1, <1>3, <1>5, <1>6, <1>8, KeptStep
<1> QED
  BY <1>1, <1>7, <1>8

LEMMA TrimKept ==
  ASSUME TypeOK, InOrder, LastKept, NEW r \in Request, Trim(r)
  PROVE  TypeOK' /\ InOrder' /\ LastKept'
<1> USE PasswordAssumption DEF PasswordAssumption
<1>1. /\ \A i \in RowId : rows'[i] = IF i \in req[r].doomed THEN None ELSE rows[i]
      /\ Become(r, Idle) /\ UNCHANGED <<current, made, past, clean>>
  BY DEF Trim
<1>2. /\ req' \in [Request -> Slot]
      /\ \A q \in Request : req'[q] = IF q = r THEN Idle ELSE req[q]
  BY <1>1, BecomeSlot, IdleIsSlot
<1>3. Idle.at = "idle" /\ Idle.known = 0 /\ Idle.doomed = {} /\ made \in 0..MaxRows
  BY DEF Idle, TypeOK
<1>4. TypeOK'
  BY <1>1, <1>2 DEF TypeOK, Trim
<1>5. InOrder'
  BY <1>1, <1>2, <1>3 DEF InOrder, At
<1>6. LastKept'
  <2>1. \A i \in RowId : made - Limit < i => i \notin req[r].doomed
    BY <1>3 DEF LastKept, RowId
  <2> QED
    BY <1>1, <1>2, <1>3, <2>1 DEF LastKept
<1> QED
  BY <1>4, <1>5, <1>6

-----------------------------------------------------------------------------
(* The rows follow the passwords, and no password comes back. *)

(* Steps of requests that are not between the two writes. *)
LEMMA FollowQuiet ==
  ASSUME PasswordIInv, NEW r \in Request, ~At(r, "recording"),
         NEW slot \in Slot, Become(r, slot), slot.at \notin {"writing", "recording"},
         UNCHANGED <<current, made, past>>, clean' = "yes" => clean = "yes",
         \A i \in RowId : rows'[i] \in {None, rows[i]}
  PROVE  RowsFollow' /\ NoReuse'
<1> USE DEF PasswordIInv
<1>1. \A q \in Request : req'[q] = IF q = r THEN slot ELSE req[q]
  BY BecomeSlot
<1>2. NoReuse'
  BY DEF NoReuse
<1>3. RowsFollow'
  <2> SUFFICES ASSUME clean' = "yes" PROVE RowsFollow'
    BY DEF RowsFollow
  <2>1. clean = "yes"
    OBVIOUS
  <2>2. \A i \in 1..made' : i <= Len(past') /\ rows'[i] \in {None, past'[i]}
    <3> SUFFICES ASSUME NEW i \in 1..made PROVE i <= Len(past) /\ rows'[i] \in {None, past[i]}
      OBVIOUS
    <3>1. i \in RowId
      BY PasswordAssumption DEF PasswordAssumption, TypeOK, RowId
    <3> QED
      BY <2>1, <3>1 DEF RowsFollow
  <2>3. \A q \in Request : (At(q, "recording")' <=> At(q, "recording"))
                          /\ (At(q, "recording") \/ At(q, "writing")' => req'[q] = req[q])
                          /\ (At(q, "writing")' => At(q, "writing"))
    BY <1>1 DEF At
  <2>4. /\ Len(past') \in {made', made' + 1}
        /\ current' = None => Len(past') = 0
        /\ Len(past') = made' + 1 => \E q \in Request : At(q, "recording")'
        /\ \A q, p \in Request : At(q, "recording")' /\ At(p, "recording")' => q = p
    BY <2>1, <2>3 DEF RowsFollow
  <2>5. \A q \in Request : At(q, "recording")' =>
          Len(past') = made' + 1 /\ req'[q].new = past'[made' + 1]
    BY <2>1, <2>3 DEF RowsFollow
  <2>6. \A q \in Request : At(q, "writing")' /\ ~Overtaken(q)' =>
          \A i \in 1..Len(past') : i > Len(past') - Limit => past'[i] # req'[q].new
    BY <2>1, <2>3 DEF RowsFollow, Overtaken
  <2> QED
    BY <2>2, <2>4, <2>5, <2>6 DEF RowsFollow
<1> QED
  BY <1>2, <1>3

(* One more password is set by a request that no other overtook. *)
LEMMA FollowSet ==
  ASSUME PasswordIInv, NEW r \in Request, NEW slot \in Slot, Become(r, slot),
         NEW p \in Password, Set(p), slot.at = "recording", slot.new = p,
         UNCHANGED <<rows, made>>, clean = "yes",
         Len(past) = made,
         \A i \in 1..Len(past) : i > Len(past) - Limit => past[i] # p
  PROVE  RowsFollow' /\ NoReuse'
<1> USE PasswordAssumption DEF PasswordAssumption, PasswordIInv
<1>1. \A q \in Request : req'[q] = IF q = r THEN slot ELSE req[q]
  BY BecomeSlot
<1>2. /\ past \in Seq(Password) /\ Len(past) \in Nat /\ made \in Nat
      /\ past' = Append(past, p) /\ Len(past') = Len(past) + 1
      /\ past'[Len(past) + 1] = p
      /\ \A i \in 1..Len(past) : past'[i] = past[i]
  BY DEF TypeOK, Set
<1>3. \A q \in Request : ~At(q, "recording")
  BY <1>2 DEF RowsFollow
<1>4. NoReuse'
  <2> SUFFICES ASSUME NEW i \in 1..Len(past'), NEW j \in 1..Len(past'), i < j, j <= i + Limit
               PROVE  past'[i] # past'[j]
    BY DEF NoReuse
  <2>1. CASE j <= Len(past)
    <3>1. i \in 1..Len(past) /\ j \in 1..Len(past)
      BY <1>2, <2>1
    <3> QED
      BY <1>2, <3>1 DEF NoReuse
  <2>2. CASE j > Len(past)
    <3>1. j = Len(past) + 1 /\ i \in 1..Len(past) /\ i > Len(past) - Limit
      BY <1>2, <2>2
    <3> QED
      BY <1>2, <3>1
  <2> QED
    BY <1>2, <2>1, <2>2
<1>5. RowsFollow'
  <2>1. \A i \in 1..made' : i <= Len(past') /\ rows'[i] \in {None, past'[i]}
    BY <1>2 DEF RowsFollow
  <2>2. Len(past') = made' + 1 /\ current' # None
    BY <1>2 DEF Set
  <2>3. \A q \in Request : At(q, "recording")' <=> q = r
    BY <1>1, <1>3 DEF At
  <2>4. req'[r].new = past'[made' + 1]
    BY <1>1, <1>2
  <2>5. \A q \in Request : At(q, "writing")' => Overtaken(q)'
    <3> SUFFICES ASSUME NEW q \in Request, At(q, "writing")' PROVE Overtaken(q)'
      OBVIOUS
    <3>1. req'[q] = req[q]
      BY <1>1 DEF At
    <3>2. req[q].known <= made /\ req[q].known \in Int
      BY SlotFields DEF InOrder
    <3> QED
      BY <1>2, <2>2, <3>1, <3>2 DEF Overtaken
  <2> QED
    BY <2>1, <2>2, <2>3, <2>4, <2>5 DEF RowsFollow
<1> QED
  BY <1>4, <1>5

LEMMA FollowRecord ==
  ASSUME PasswordIInv, NEW r \in Request, Record(r)
  PROVE  RowsFollow' /\ NoReuse'
<1> USE PasswordAssumption DEF PasswordAssumption, PasswordIInv
<1>1. /\ At(r, "recording") /\ made < MaxRows /\ made' = made + 1
      /\ rows' = [rows EXCEPT ![made + 1] = req[r].new]
      /\ UNCHANGED <<current, past, clean>>
  BY DEF Record
<1>2. PICK slot \in {Idle, [Idle EXCEPT !.at = "listing"]} : Become(r, slot)
  BY DEF Record
<1>3. slot \in Slot /\ slot.at \notin {"writing", "recording"}
  BY <1>2, IdleIsSlot DEF Idle, Slot
<1>4. \A q \in Request : req'[q] = IF q = r THEN slot ELSE req[q]
  BY <1>3, <1>2, BecomeSlot
<1>5. made \in Nat /\ made + 1 \in RowId
  BY <1>1 DEF TypeOK, RowId
<1>6. \A i \in RowId : rows'[i] = IF i = made + 1 THEN req[r].new ELSE rows[i]
  BY <1>1, <1>5 DEF TypeOK
<1>7. NoReuse'
  BY <1>1 DEF NoReuse
<1>8. SUFFICES ASSUME clean = "yes" PROVE RowsFollow'
  BY <1>1, <1>7 DEF RowsFollow
<1>9. Len(past) = made + 1 /\ req[r].new = past[made + 1]
  BY <1>1, <1>8 DEF RowsFollow
<1>10. \A q \in Request : At(q, "recording") => q = r
  BY <1>1, <1>8 DEF RowsFollow
<1>11. \A q \in Request : ~At(q, "recording")'
  BY <1>3, <1>4, <1>10 DEF At
<1>12. \A i \in 1..made' : i <= Len(past') /\ rows'[i] \in {None, past'[i]}
  <2> SUFFICES ASSUME NEW i \in 1..(made + 1) PROVE i <= made + 1 /\ rows'[i] \in {None, past[i]}
    BY <1>1, <1>9
  <2>1. CASE i = made + 1
    BY <1>5, <1>6, <1>9, <2>1
  <2>2. CASE i # made + 1
    <3>1. i \in 1..made /\ i \in RowId
      BY <1>1, <1>5, <2>2 DEF RowId
    <3> QED
      BY <1>5, <1>6, <1>8, <2>2, <3>1 DEF RowsFollow
  <2> QED
    BY <2>1, <2>2
<1>13. Len(past') = made' /\ made' \in Nat /\ (current' = None => Len(past') = 0)
  BY <1>1, <1>5, <1>8, <1>9 DEF RowsFollow
<1>14. \A q \in Request : At(q, "writing")' => Overtaken(q)'
  <2> SUFFICES ASSUME NEW q \in Request, At(q, "writing")' PROVE Overtaken(q)'
    OBVIOUS
  <2>1. req'[q] = req[q]
    BY <1>3, <1>4 DEF At
  <2>2. req[q].known <= made /\ req[q].known \in Int
    BY SlotFields DEF InOrder
  <2> QED
    BY <1>1, <1>5, <1>13, <2>1, <2>2 DEF Overtaken
<1> QED
  BY <1>11, <1>12, <1>13, <1>14 DEF RowsFollow

(* A password that was checked is none of the last Limit ones, unless one  *)
(* is on its way.                                                          *)
LEMMA FollowCheck ==
  ASSUME PasswordIInv, NEW r \in Request, ~At(r, "recording"), NEW for \in {"change", "reset"},
         CheckPast(r, Limit, for)
  PROVE  PasswordIInv'
<1> USE PasswordAssumption DEF PasswordAssumption, PasswordIInv
<1>1. PICK p \in Password \ {rows[i] : i \in Newest(Limit)} :
        Become(r, [Idle EXCEPT !.at = "writing", !.for = for, !.new = p, !.known = made])
  BY DEF CheckPast
<1> DEFINE slot == [Idle EXCEPT !.at = "writing", !.for = for, !.new = p, !.known = made]
<1>2. UNCHANGED <<current, rows, made, past, clean>>
  BY DEF CheckPast
<1>3. /\ slot \in Slot /\ slot.at = "writing" /\ slot.new = p /\ slot.known = made
      /\ slot.doomed = {} /\ made \in Nat
  <2>1. made \in 0..MaxRows /\ made \in Nat
    BY DEF TypeOK
  <2>2. p \in Password /\ for \in {"register", "change", "reset"}
    OBVIOUS
  <2> QED
    BY <2>1, <2>2, IdleIsSlot DEF Idle, Slot
<1>4. Become(r, slot)
  BY <1>1
<1> HIDE DEF slot
<1>5. \A q \in Request : req'[q] = IF q = r THEN slot ELSE req[q]
  BY <1>3, <1>4, BecomeSlot
<1>6. TypeOK' /\ InOrder' /\ LastKept'
  <2>1. current' \in Password \cup {None} /\ past' \in Seq(Password) /\ Len(past') <= MaxRows
        /\ clean' \in {"yes", "no"} /\ made <= made
    BY <1>2, <1>3 DEF TypeOK
  <2> QED
    BY <1>2, <1>3, <1>4, <2>1, KeptStep
<1>7. NoReuse'
  BY <1>2 DEF NoReuse
<1>8. SUFFICES ASSUME clean = "yes" PROVE RowsFollow'
  BY <1>2, <1>6, <1>7 DEF RowsFollow
<1>9. \A q \in Request : (At(q, "recording")' <=> At(q, "recording"))
                        /\ (At(q, "recording") => req'[q] = req[q])
  BY <1>3, <1>5 DEF At
<1>10. \A q \in Request : At(q, "writing")' /\ ~Overtaken(q)' =>
         \A i \in 1..Len(past') : i > Len(past') - Limit => past'[i] # req'[q].new
  <2> SUFFICES ASSUME NEW q \in Request, At(q, "writing")', ~Overtaken(q)',
                      NEW i \in 1..Len(past), i > Len(past) - Limit
               PROVE  past[i] # req'[q].new
    BY <1>2
  <2>1. CASE q = r
    <3>1. Len(past) = made
      BY <1>2, <1>3, <1>5, <2>1 DEF Overtaken
    <3>2. i \in RowId /\ i \in 1..made /\ made - Limit < i
      BY <1>3, <3>1 DEF TypeOK, RowId
    <3>3. rows[i] # None /\ rows[i] \in {None, past[i]}
      BY <1>8, <3>2 DEF LastKept, RowsFollow
    <3>4. i \in Newest(Limit)
      BY <1>3, <3>2, LastAreNewest
    <3> QED
      BY <1>3, <1>5, <2>1, <3>3, <3>4
  <2>2. CASE q # r
    BY <1>2, <1>5, <1>8, <2>2 DEF RowsFollow, Overtaken, At
  <2> QED
    BY <2>1, <2>2
<1>11. /\ \A i \in 1..made' : i <= Len(past') /\ rows'[i] \in {None, past'[i]}
       /\ Len(past') \in {made', made' + 1}
       /\ current' = None => Len(past') = 0
       /\ \A q \in Request : At(q, "recording")' =>
            Len(past') = made' + 1 /\ req'[q].new = past'[made' + 1]
       /\ \A q, t \in Request : At(q, "recording")' /\ At(t, "recording")' => q = t
       /\ Len(past') = made' + 1 => \E q \in Request : At(q, "recording")'
  BY <1>2, <1>8, <1>9 DEF RowsFollow
<1> QED
  BY <1>10, <1>11 DEF RowsFollow

-----------------------------------------------------------------------------

LEMMA PasswordHandle ==
  ASSUME PasswordIInv, NEW r \in Request, Handle(r)
  PROVE  PasswordIInv'
<1> USE PasswordAssumption DEF PasswordAssumption, PasswordIInv
<1>1. /\ Idle \in Slot /\ Idle.at = "idle" /\ Idle.known = 0 /\ Idle.doomed = {}
      /\ made \in Nat /\ Len(past) \in Nat
      /\ current \in Password \cup {None} /\ past \in Seq(Password) /\ Len(past) <= MaxRows
  BY IdleIsSlot DEF Idle, TypeOK
<1>2. CASE Register(r)
  <2>1. /\ At(r, "idle") /\ current = None /\ Len(past) < MaxRows
        /\ UNCHANGED <<rows, made, clean>>
    BY <1>2 DEF Register
  <2>2. PICK p \in Password : Set(p) /\ Become(r, [Idle EXCEPT !.at = "recording", !.new = p])
    BY <1>2 DEF Register
  <2> DEFINE slot == [Idle EXCEPT !.at = "recording", !.new = p]
  <2>3. /\ slot \in Slot /\ slot.at = "recording" /\ slot.new = p /\ slot.known = 0
        /\ slot.doomed = {} /\ Become(r, slot)
    BY <2>2, IdleIsSlot DEF Idle, Slot
  <2> HIDE DEF slot
  <2>4. /\ current' \in Password \cup {None} /\ past' \in Seq(Password) /\ Len(past') <= MaxRows
        /\ clean' \in {"yes", "no"}
    BY <1>1, <2>1, <2>2 DEF Set, TypeOK
  <2>5. TypeOK' /\ InOrder' /\ LastKept'
    BY <1>1, <2>1, <2>3, <2>4, KeptStep
  <2>6. CASE clean = "yes"
    <3>1. Len(past) = 0 /\ Len(past) = made
      BY <1>1, <2>1, <2>6 DEF RowsFollow
    <3>2. \A i \in 1..Len(past) : i > Len(past) - Limit => past[i] # p
      BY <3>1
    <3>3. RowsFollow' /\ NoReuse'
      BY <2>1, <2>2, <2>3, <2>6, <3>1, <3>2, FollowSet
    <3> QED
      BY <2>5, <3>3
  <2>7. CASE clean # "yes"
    BY <2>1, <2>5, <2>7 DEF RowsFollow, NoReuse
  <2> QED
    BY <2>6, <2>7
<1>3. CASE CompareOld(r)
  <2> DEFINE slot == [Idle EXCEPT !.at = "compared", !.for = "change"]
  <2>1. /\ slot \in Slot /\ slot.at = "compared" /\ slot.known = 0 /\ slot.doomed = {}
    BY IdleIsSlot DEF Idle, Slot
  <2>2. /\ ~At(r, "recording") /\ Become(r, slot)
        /\ UNCHANGED <<current, rows, made, past, clean>>
    BY <1>3 DEF CompareOld, At
  <2> HIDE DEF slot
  <2>3. TypeOK' /\ InOrder' /\ LastKept'
    BY <1>1, <2>1, <2>2, KeptStep DEF TypeOK
  <2>4. RowsFollow' /\ NoReuse'
    BY <2>1, <2>2, FollowQuiet
  <2> QED
    BY <2>3, <2>4
<1>4. CASE ChangeCheckPast(r) \/ ResetCheckPast(r)
  BY <1>4, FollowCheck DEF ChangeCheckPast, ResetCheckPast, At
<1>5. CASE Write(r)
  <2> DEFINE slot == [req[r] EXCEPT !.at = "recording", !.known = 0]
             p == req[r].new
  <2>1. /\ At(r, "writing") /\ Len(past) < MaxRows /\ Set(p) /\ Become(r, slot)
        /\ clean' = IF Overtaken(r) THEN "no" ELSE clean
        /\ UNCHANGED <<rows, made>>
    BY <1>5 DEF Write
  <2>2. p \in Password /\ req[r] \in Slot /\ \A i \in req[r].doomed : i <= made - Limit
    BY <2>1, SlotFields DEF InOrder, LastKept
  <2>3. /\ slot \in Slot /\ slot.at = "recording" /\ slot.new = p /\ slot.known = 0
        /\ slot.doomed = req[r].doomed
    <3>1. 0 \in 0..MaxRows
      OBVIOUS
    <3> QED
      BY <2>2, <3>1 DEF Slot
  <2> HIDE DEF slot, p
  <2>4. /\ current' \in Password \cup {None} /\ past' \in Seq(Password) /\ Len(past') <= MaxRows
        /\ clean' \in {"yes", "no"}
    BY <1>1, <2>1, <2>2 DEF Set, TypeOK
  <2>5. TypeOK' /\ InOrder' /\ LastKept'
    BY <1>1, <2>1, <2>2, <2>3, <2>4, KeptStep
  <2>6. CASE clean' = "yes"
    <3>1. clean = "yes" /\ ~Overtaken(r)
      BY <2>1, <2>6
    <3>2. Len(past) = req[r].known /\ req[r].known <= made
      BY <3>1 DEF Overtaken, InOrder
    <3>3. Len(past) = made
      BY <1>1, <3>1, <3>2 DEF RowsFollow
    <3>4. \A i \in 1..Len(past) : i > Len(past) - Limit => past[i] # p
      BY <2>1, <3>1 DEF RowsFollow, p
    <3>5. RowsFollow' /\ NoReuse'
      BY <2>1, <2>2, <2>3, <3>1, <3>3, <3>4, FollowSet
    <3> QED
      BY <2>5, <3>5
  <2>7. CASE clean' # "yes"
    BY <2>5, <2>7 DEF RowsFollow, NoReuse
  <2> QED
    BY <2>6, <2>7
<1>6. CASE Record(r)
  BY <1>6, RecordKept, FollowRecord
<1>7. CASE List(r)
  <2> DEFINE slot == [Idle EXCEPT !.at = "trimming", !.doomed = Existing \ Newest(Limit)]
  <2>1. slot \in Slot /\ slot.at = "trimming"
    BY IdleIsSlot DEF Idle, Slot, Existing
  <2>2. /\ ~At(r, "recording") /\ UNCHANGED <<current, rows, made, past, clean>>
        /\ Become(r, Idle) \/ Become(r, slot)
    BY <1>7 DEF List, At
  <2> HIDE DEF slot
  <2>3. RowsFollow' /\ NoReuse'
    BY <1>1, <2>1, <2>2, FollowQuiet
  <2> QED
    BY <1>7, <2>3, ListKept
<1>8. CASE Trim(r)
  <2>1. /\ ~At(r, "recording") /\ Become(r, Idle) /\ UNCHANGED <<current, made, past, clean>>
        /\ \A i \in RowId : rows'[i] \in {None, rows[i]}
    BY <1>8 DEF Trim, At
  <2>2. RowsFollow' /\ NoReuse'
    BY <1>1, <2>1, FollowQuiet
  <2> QED
    BY <1>8, <2>2, TrimKept
<1>9. CASE Quit(r)
  <2>1. /\ Become(r, Idle) /\ UNCHANGED <<current, rows, made, past>>
        /\ clean' = IF At(r, "recording") THEN "no" ELSE clean
    BY <1>9 DEF Quit
  <2>2. TypeOK' /\ InOrder' /\ LastKept'
    <3>1. clean' \in {"yes", "no"} /\ Idle.at \notin {"writing", "recording"} /\ Idle.known <= made
          /\ \A i \in Idle.doomed : i <= made - Limit
      BY <1>1, <2>1 DEF TypeOK
    <3>2. current' \in Password \cup {None} /\ past' \in Seq(Password) /\ Len(past') <= MaxRows
          /\ UNCHANGED <<rows, made>>
      BY <1>1, <2>1
    <3> QED
      BY <1>1, <2>1, <3>1, <3>2, KeptStep
  <2>3. CASE At(r, "recording")
    BY <2>1, <2>2, <2>3 DEF RowsFollow, NoReuse
  <2>4. CASE ~At(r, "recording")
    <3>1. Idle.at \notin {"writing", "recording"} /\ (clean' = "yes" => clean = "yes")
          /\ \A i \in RowId : rows'[i] \in {None, rows[i]}
      BY <1>1, <2>1, <2>4
    <3>2. RowsFollow' /\ NoReuse'
      BY <1>1, <2>1, <2>4, <3>1, FollowQuiet
    <3> QED
      BY <2>2, <3>2
  <2> QED
    BY <2>3, <2>4
<1> QED
  BY <1>2, <1>3, <1>4, <1>5, <1>6, <1>7, <1>8, <1>9 DEF Handle

LEMMA PasswordStep == PasswordIInv /\ [Next]_vars => PasswordIInv'
<1> SUFFICES ASSUME PasswordIInv, [Next]_vars PROVE PasswordIInv'
  OBVIOUS
<1>1. CASE UNCHANGED vars
  <2>1. TypeOK' /\ InOrder' /\ LastKept'
    BY <1>1 DEF vars, PasswordIInv, TypeOK, InOrder, LastKept, At
  <2>2. NoReuse'
    BY <1>1 DEF vars, PasswordIInv, NoReuse
  <2>3. RowsFollow'
    BY <1>1 DEF vars, PasswordIInv, RowsFollow, At, Overtaken
  <2> QED
    BY <2>1, <2>2, <2>3 DEF PasswordIInv
<1> QED
  BY <1>1, PasswordHandle DEF Next

(* The history keeps the last Limit passwords and follows the clean        *)
(* changes, whatever requests interleave and wherever they stop.           *)
THEOREM PasswordInvariance == Spec => []PasswordIInv
<1> QED
  BY PasswordInitial, PasswordStep, PTL DEF Spec

(* Through clean changes and resets, none of the last Limit passwords ever *)
(* comes back.                                                             *)
THEOREM NoReuseHolds == Spec => []NoReuse
<1>1. PasswordIInv => NoReuse
  BY DEF PasswordIInv
<1> QED
  BY <1>1, PasswordInvariance, PTL

(* No row of the last Limit ever created is deleted by a clean-up.         *)
THEOREM LastKeptHolds == Spec => []LastKept
<1>1. PasswordIInv => LastKept
  BY DEF PasswordIInv
<1> QED
  BY <1>1, PasswordInvariance, PTL
=============================================================================
