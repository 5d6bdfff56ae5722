------------------------------ MODULE Password ------------------------------
(***************************************************************************)
(* The password of one account and its history (services/authService.ts).  *)
(* register, changePassword and forceResetPassword write the user and the  *)
(* history in separate statements; requests interleave between them, and a *)
(* server may die after any of them.  Hashes and the tests of strength and *)
(* of known breaches, which keep no state, are left out: a password is a   *)
(* value that bcrypt.compare tells from the others.                        *)
(***************************************************************************)
EXTENDS Integers, Sequences, FiniteSets

CONSTANTS Request,    \* slots for requests
          Password, None,
          Limit,      \* PASSWORD_HISTORY_LIMIT
          MaxRows     \* bound: passwords ever written

ASSUME PasswordAssumption ==
  /\ None \notin Password
  /\ Limit \in Nat \ {0} /\ MaxRows \in Nat

VARIABLES current,   \* passwordHash of the user; None: no such user yet
          rows,      \* the PasswordHistory rows by the order they were created in
          made,      \* rows created so far
          req,       \* what each request slot is doing
          past,      \* history: the passwords the user has had
          clean      \* history: no change was cut short or overtaken, see Write

vars == <<current, rows, made, req, past, clean>>

RowId == 1..MaxRows

Slot == [at : {"idle", "compared", "writing", "recording", "listing", "trimming"},
         for : {"register", "change", "reset"},
         new : Password \cup {None}, known : 0..MaxRows, doomed : SUBSET RowId]

Idle == [at |-> "idle", for |-> "register", new |-> None, known |-> 0, doomed |-> {}]

At(r, step) == req[r].at = step

TypeOK ==
  /\ current \in Password \cup {None}
  /\ rows \in [RowId -> Password \cup {None}] /\ made \in 0..MaxRows
  /\ req \in [Request -> Slot]
  /\ past \in Seq(Password) /\ Len(past) <= MaxRows
  /\ clean \in {"yes", "no"}

Init ==
  /\ current = None
  /\ rows = [i \in RowId |-> None] /\ made = 0
  /\ req = [r \in Request |-> Idle]
  /\ past = <<>> /\ clean = "yes"

Become(r, slot) == req' = [req EXCEPT ![r] = slot]

Existing == {i \in RowId : rows[i] # None}

(* orderBy createdAt desc, the first n. *)
Newest(n) == {i \in Existing : Cardinality({j \in Existing : j > i}) < n}

-----------------------------------------------------------------------------

Set(p) == current' = p /\ past' = Append(past, p)

(* register: the unique email lets one request create the user. *)
Register(r) ==
  /\ At(r, "idle") /\ current = None /\ Len(past) < MaxRows
  /\ \E p \in Password :
       /\ Set(p)
       /\ Become(r, [Idle EXCEPT !.at = "recording", !.new = p])
  /\ UNCHANGED <<rows, made, clean>>

(* changePassword finds the old password right. *)
CompareOld(r) ==
  /\ At(r, "idle") /\ current # None
  /\ Become(r, [Idle EXCEPT !.at = "compared", !.for = "change"])
  /\ UNCHANGED <<current, rows, made, past, clean>>

(* The new password is none of the last Limit ones, for changePassword and *)
(* for forceResetPassword, which compares no old one.                      *)
CheckPast(r, n, for) ==
  /\ \E p \in Password \ {rows[i] : i \in Newest(n)} :
       Become(r, [Idle EXCEPT !.at = "writing", !.for = for, !.new = p, !.known = made])
  /\ UNCHANGED <<current, rows, made, past, clean>>

(* Mutant: one password fewer is looked at. *)
ChangeReadsFewer(r) ==
  /\ At(r, "compared")
  /\ CheckPast(r, Limit - 1, "change")

ChangeCheckPast(r) == At(r, "compared") /\ CheckPast(r, Limit, "change")

ResetCheckPast(r) == At(r, "idle") /\ current # None /\ CheckPast(r, Limit, "reset")

(* Another request wrote a password of which r's check knew nothing. *)
Overtaken(r) == Len(past) # req[r].known

Write(r) ==
  /\ At(r, "writing") /\ Len(past) < MaxRows
  /\ Set(req[r].new)
  /\ clean' = IF Overtaken(r) THEN "no" ELSE clean
  /\ Become(r, [req[r] EXCEPT !.at = "recording", !.known = 0])
  /\ UNCHANGED <<rows, made>>

(* Only changePassword goes on to clean up. *)
Record(r) ==
  /\ At(r, "recording") /\ made < MaxRows
  /\ made' = made + 1
  /\ rows' = [rows EXCEPT ![made + 1] = req[r].new]
  /\ Become(r, IF req[r].for = "change" THEN [Idle EXCEPT !.at = "listing"] ELSE Idle)
  /\ UNCHANGED <<current, past, clean>>

(* Mutant: the cut is one row early. *)
ListShort(r) ==
  LET doomed == Existing \ Newest(Limit - 1)
  IN  /\ At(r, "listing")
      /\ Become(r, IF doomed = {} THEN Idle
                   ELSE [Idle EXCEPT !.at = "trimming", !.doomed = doomed])
      /\ UNCHANGED <<current, rows, made, past, clean>>

(* The rows beyond the last Limit are listed ... *)
List(r) ==
  LET doomed == Existing \ Newest(Limit)
  IN  /\ At(r, "listing")
      /\ Become(r, IF doomed = {} THEN Idle
                   ELSE [Idle EXCEPT !.at = "trimming", !.doomed = doomed])
      /\ UNCHANGED <<current, rows, made, past, clean>>

(* ... and deleted. *)
Trim(r) ==
  /\ At(r, "trimming")
  /\ rows' = [i \in RowId |-> IF i \in req[r].doomed THEN None ELSE rows[i]]
  /\ Become(r, Idle)
  /\ UNCHANGED <<current, made, past, clean>>

(* A server dies or the database fails: the request goes no further. *)
Quit(r) ==
  /\ ~At(r, "idle")
  /\ clean' = IF At(r, "recording") THEN "no" ELSE clean
  /\ Become(r, Idle)
  /\ UNCHANGED <<current, rows, made, past>>

Handle(r) ==
  \/ Register(r) \/ CompareOld(r) \/ ChangeCheckPast(r) \/ ResetCheckPast(r)
  \/ Write(r) \/ Record(r) \/ List(r) \/ Trim(r) \/ Quit(r)

Next == \E r \in Request : Handle(r)

Spec == Init /\ [][Next]_vars

-----------------------------------------------------------------------------

(* "keep only last 5" (authService.ts:318): whatever requests list and     *)
(* delete at the same time, none deletes one of the Limit newest rows.     *)
LastKept ==
  /\ \A i \in RowId : made - Limit < i /\ i <= made => rows[i] # None
  /\ \A r \in Request : \A i \in req[r].doomed : i <= made - Limit

(* "Cannot reuse any of your last 5 passwords" (authService.ts:293, 374):  *)
(* no password comes back within the next Limit ones, through any sequence *)
(* of changes and resets, unless a change was cut short between the two    *)
(* writes or overtaken by another one after its check.                     *)
NoReuse ==
  clean = "yes" =>
    \A i, j \in 1..Len(past) : i < j /\ j <= i + Limit => past[i] # past[j]

(* While changes are clean, the rows are the passwords in their order; the *)
(* last may be on its way; and one that was checked against all of them is *)
(* none of the last Limit.                                                 *)
RowsFollow ==
  clean = "yes" =>
    /\ \A i \in 1..made : i <= Len(past) /\ rows[i] \in {None, past[i]}
    /\ Len(past) \in {made, made + 1}
    /\ current = None => Len(past) = 0
    /\ \A r \in Request : At(r, "recording") =>
         Len(past) = made + 1 /\ req[r].new = past[made + 1]
    /\ \A r, q \in Request : At(r, "recording") /\ At(q, "recording") => r = q
    /\ Len(past) = made + 1 => \E r \in Request : At(r, "recording")
    /\ \A r \in Request : At(r, "writing") /\ ~Overtaken(r) =>
         \A i \in 1..Len(past) : i > Len(past) - Limit => past[i] # req[r].new

(* Rows not yet created are absent; a password is on its way only where    *)
(* one was chosen.                                                         *)
InOrder ==
  /\ \A i \in RowId : i > made => rows[i] = None
  /\ \A r \in Request :
       /\ At(r, "writing") \/ At(r, "recording") => req[r].new \in Password
       /\ req[r].known <= made

PasswordIInv == TypeOK /\ InOrder /\ LastKept /\ RowsFollow /\ NoReuse
=============================================================================
