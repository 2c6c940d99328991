----------------------------- MODULE Preorders ------------------------------
(***************************************************************************)
(* How an operation finds, sends, deletes or cancels its own row of a      *)
(* terminal list that other people use at the same time (orders.py         *)
(* limit, bind_local, select_local, send_local, cleanup and cancel;        *)
(* tracking.py parked_snapshot and validate_preorder; market.py            *)
(* limit_ioc).  The keys act on the row at the selected position,          *)
(* whatever row that is by then; an exported list shows a row's identity   *)
(* and status, never whose it is.                                          *)
(***************************************************************************)
EXTENDS Integers, Sequences, SequencesExt

CONSTANTS
  Modes,      \* "import" (limit), "form" (limit_ioc), "cancel"
  Outcomes,   \* what creating the row does: "added", "refused", "other"
  Foreign,    \* the local identities of the rows others add
  Removable,  \* whose rows others remove: TRUE the operation's, FALSE their own
  Meddling,   \* "any": others act at any moment; "reads": not from the last
              \* look at the list to the key that follows it
  Confirms,   \* does Delete open a confirmation: a set of BOOLEAN
  MaxMeddle   \* how often others act

\* "own" is the identity the new row gets, "same" another one with the
\* request's parameters, "different" one with other parameters.
Identities == {"own", "same", "different"}
SameParameters == {"own", "same"}

\* What the constants must be.
Constants ==
  /\ Modes \subseteq {"import", "form", "cancel"} /\ Outcomes \subseteq {"added", "refused", "other"}
  /\ Foreign \subseteq Identities /\ Removable \subseteq BOOLEAN /\ Meddling \in {"any", "reads"}
  /\ Confirms \subseteq BOOLEAN /\ MaxMeddle \in Nat

VARIABLES
  mode, confirms,
  list,       \* the terminal's list: identity, status, native id, whose
  last_id,    \* the highest native id given out
  selected,   \* the selected position
  pc, task,   \* the step, and what the selection is for: "send", "clean" or "cancel"
  before, rows,   \* exported lists
  cursor, index, message,
  owned_row, parked_id, effect, error,
  touched,    \* the rows the operation's keys have acted on
  captured,   \* the native ids of the sends the armed receipt has seen
  meddled

operation == <<before, rows, cursor, index, message, owned_row, parked_id, effect, error>>
terminal == <<list, last_id, selected, touched, captured, meddled>>
vars == <<mode, confirms, pc, task, operation, terminal>>

None == "none"
NoRow == [identity |-> None, status |-> None]
Exported(s) == [i \in 1 .. Len(s) |-> [identity |-> s[i].identity, status |-> s[i].status]]
Positions(s, identity) == {i \in 1 .. Len(s) : s[i].identity = identity}
Mine == {i \in 1 .. Len(list) : list[i].mine}
NewRow(identity, mine) == [identity |-> identity, status |-> "idle", id |-> last_id + 1, mine |-> mine]

Tables == {<<>>} \cup {<<[identity |-> i, status |-> "idle", id |-> 1, mine |-> FALSE]>> : i \in {"same", "different"}}

\* A cancellation's target is already in the list of working orders.
Working == [identity |-> "own", status |-> "idle", id |-> 2, mine |-> TRUE]

Init ==
  /\ mode \in Modes /\ confirms \in Confirms
  /\ \E t \in Tables : list = IF mode = "cancel" THEN Append(t, Working) ELSE t
  /\ last_id = 2 /\ selected = 0 /\ touched = <<>> /\ captured = <<>> /\ meddled = 0
  /\ pc = "before" /\ task = IF mode = "cancel" THEN "cancel" ELSE "send"
  /\ before = <<>> /\ rows = <<>> /\ cursor = 0 /\ index = 0 /\ message = None
  /\ owned_row = NoRow /\ parked_id = 0 /\ effect = None /\ error = None

-----------------------------------------------------------------------------
(* Others: the user at the desktop, and the terminal as orders end.        *)

May == meddled < MaxMeddle /\ (Meddling = "any" \/ pc \notin {"reselect", "key"})
Meddles == meddled' = meddled + 1 /\ UNCHANGED <<mode, confirms, pc, task, operation, selected, touched>>

Adds ==
  /\ May /\ \E i \in Foreign, p \in 1 .. Len(list) + 1 : list' = InsertAt(list, p, NewRow(i, FALSE))
  /\ last_id' = last_id + 1 /\ UNCHANGED captured /\ Meddles

Removes ==
  /\ May /\ \E p \in 1 .. Len(list) : list[p].mine \in Removable /\ list' = RemoveAt(list, p)
  /\ UNCHANGED <<last_id, captured>> /\ Meddles

Starts ==
  /\ May /\ \E p \in 1 .. Len(list) : list[p].status = "idle" /\ list' = [list EXCEPT ![p].status = "started"]
  /\ UNCHANGED <<last_id, captured>> /\ Meddles

\* A row sent by hand goes through the armed receipt as well.
Sends ==
  /\ May /\ \E p \in 1 .. Len(list) :
       /\ list[p].status # "sent" /\ list' = [list EXCEPT ![p].status = "sent"]
       /\ captured' = IF pc = "receipt" THEN Append(captured, list[p].id) ELSE captured
  /\ UNCHANGED last_id /\ Meddles

Sorts == May /\ Len(list) > 1 /\ list' = Reverse(list) /\ UNCHANGED <<last_id, captured>> /\ Meddles

Others == Adds \/ Removes \/ Starts \/ Sends \/ Sorts

-----------------------------------------------------------------------------
(* The operation.                                                          *)

Quiet == UNCHANGED <<mode, confirms, terminal>>

\* A step raises: outside the cleanup it ends there and the cleanup follows;
\* inside it, the answer becomes GUI_RESET_FAILED.
Raises(code) ==
  /\ error' = IF task = "clean" THEN "GUI_RESET_FAILED" ELSE code
  /\ pc' = IF task = "clean" THEN "done" ELSE "clean"
  /\ task' = "clean"

Unknown == Raises("OPERATION_STATUS_UNKNOWN") /\ UNCHANGED <<owned_row, parked_id, effect>>
Ambiguous == Raises("ORDER_IDENTITY_AMBIGUOUS") /\ UNCHANGED <<owned_row, parked_id, effect>>
Continue(p) == pc' = p /\ UNCHANGED <<task, error>>

ReadBefore ==
  /\ pc = "before" /\ mode # "cancel"
  /\ before' = Exported(list)
  /\ IF \E i \in 1 .. Len(list) : list[i].identity \in SameParameters
       THEN Ambiguous
       ELSE Continue("cursor") /\ UNCHANGED <<owned_row, parked_id, effect>>
  /\ Quiet /\ UNCHANGED <<rows, cursor, index, message>>

\* cancel starts from the list of working orders instead.
ReadWorking ==
  /\ pc = "before" /\ mode = "cancel"
  /\ rows' = Exported(list)
  /\ IF \E p \in 1 .. Len(list) : Positions(list, "own") = {p}
       THEN /\ owned_row' = Exported(list)[CHOOSE p \in Positions(list, "own") : TRUE]
            /\ Continue("select") /\ UNCHANGED <<parked_id, effect>>
       ELSE Ambiguous
  /\ Quiet /\ UNCHANGED <<before, cursor, index, message>>

ReadCursor ==
  /\ pc = "cursor"
  /\ cursor' = last_id /\ Continue("create")
  /\ Quiet /\ UNCHANGED <<before, rows, index, message, owned_row, parked_id, effect>>

\* importing is saved, then the row is created: import_csv, or the form's dialog.
Create ==
  /\ pc = "create"
  /\ effect' = "unknown"
  /\ \E o \in Outcomes :
       /\ o = "refused" => mode = "import"
       /\ message' = o
       /\ IF o = "refused" THEN UNCHANGED <<list, last_id>>
          ELSE /\ list' = Append(list, NewRow(IF o = "added" THEN "own" ELSE "different", TRUE))
               /\ last_id' = last_id + 1
  /\ Continue("after")
  /\ UNCHANGED <<mode, confirms, selected, touched, captured, meddled, before, rows, cursor, index, owned_row, parked_id>>

Count(s, identity) == Cardinality(Positions(s, identity))

\* bind_local: exactly one row has the parameters, it is new, not sent yet,
\* and the others are the rows there were before.
Bound(after) ==
  LET matches == {p \in 1 .. Len(after) : after[p].identity \in SameParameters}
  IN IF /\ Cardinality(matches) = 1 /\ Len(after) = Len(before) + 1
        /\ \A p \in matches :
             /\ after[p].status \in IF mode = "form" THEN {"idle", "started"} ELSE {"idle"}
             /\ \A i \in Identities : Count(RemoveAt(after, p), i) = Count(before, i)
       THEN matches ELSE {}

\* The list is read back: a refusal that left it alone, or the row to own.
ReadAfter ==
  /\ pc = "after"
  /\ rows' = Exported(list)
  /\ IF message = "refused" /\ Exported(list) = before
       THEN /\ effect' = "rejected" /\ Raises("ORDER_REJECTED")
            /\ UNCHANGED <<owned_row, parked_id>>
     ELSE IF Bound(Exported(list)) = {} THEN Unknown
     ELSE /\ \E p \in Bound(Exported(list)) : owned_row' = Exported(list)[p]
          /\ Continue("validate") /\ UNCHANGED <<parked_id, effect>>
  /\ Quiet /\ UNCHANGED <<before, cursor, index, message>>

NewRows == {p \in 1 .. Len(list) : list[p].id > cursor}

\* validate_preorder: exactly one native record is newer than the cursor, and
\* it has the request's parameters.
Validate ==
  /\ pc = "validate"
  /\ IF Cardinality(NewRows) = 1 /\ \A p \in NewRows : list[p].identity \in SameParameters
       THEN /\ parked_id' = list[CHOOSE p \in NewRows : TRUE].id
            /\ Continue("select") /\ UNCHANGED <<owned_row, effect>>
       ELSE Unknown
  /\ Quiet /\ UNCHANGED <<before, rows, cursor, index, message>>

\* owned: the one row with the identity of the row that was bound.
Owned(s) == IF Count(s, owned_row.identity) = 1 THEN Positions(s, owned_row.identity) ELSE {}

\* select_local, and the same for the row to cancel: select the position found
\* in the candidate list, ...
Select ==
  /\ pc = "select"
  /\ IF Owned(rows) = {} THEN Ambiguous /\ UNCHANGED <<index, selected>>
     ELSE /\ \E p \in Owned(rows) : index' = p /\ selected' = p
          /\ Continue("fresh") /\ UNCHANGED <<owned_row, parked_id, effect>>
  /\ UNCHANGED <<mode, confirms, list, last_id, touched, captured, meddled, before, rows, cursor, message>>

\* ... require of a new export that the same full row is still there, ...
Unmoved(fresh) ==
  /\ index <= Len(fresh) /\ fresh[index] = rows[index]
  /\ task # "cancel" => Owned(fresh) = {index}

Fresh ==
  /\ pc = "fresh"
  /\ IF Unmoved(Exported(list))
       THEN Continue("reselect") /\ UNCHANGED <<owned_row, parked_id, effect>>
       ELSE Ambiguous
  /\ Quiet /\ UNCHANGED <<before, rows, cursor, index, message>>

\* ... and select the position again before the key.
Reselect ==
  /\ pc = "reselect"
  /\ selected' = index /\ Continue("key")
  /\ UNCHANGED <<mode, confirms, list, last_id, touched, captured, meddled, operation>>

Hit(key) == touched' = Append(touched, [id |-> list[selected].id, key |-> key, mine |-> list[selected].mine])

\* The receipt is armed for the native record, submitting is saved, Alt+Q.
Send ==
  /\ pc = "key" /\ task = "send"
  /\ effect' = "unknown"
  /\ IF selected \in 1 .. Len(list) /\ list[selected].status # "sent"
       THEN /\ Hit("send") /\ list' = [list EXCEPT ![selected].status = "sent"]
            /\ captured' = <<list[selected].id>>
       ELSE UNCHANGED <<list, touched, captured>>
  /\ Continue("receipt")
  /\ UNCHANGED <<mode, confirms, last_id, selected, meddled, before, rows, cursor, index, message, owned_row, parked_id>>

\* Mutant of Receipt: a send is a send.
ReceiptAny == captured # <<>>

\* finish_capture and identity: one send was captured, of the armed record.
Receipt == captured = <<parked_id>>

Captured ==
  /\ pc = "receipt"
  /\ IF Receipt THEN Continue("confirm") /\ UNCHANGED <<owned_row, parked_id, effect>> ELSE Unknown
  /\ Quiet /\ UNCHANGED <<before, rows, cursor, index, message>>

\* The list shows the owned row as sent: submitted.
Confirm ==
  /\ pc = "confirm"
  /\ IF Owned(list) # {} /\ \A p \in Owned(list) : list[p].status = "sent"
       THEN /\ effect' = "submitted" /\ pc' = "clean" /\ task' = "clean"
            /\ UNCHANGED <<error, owned_row, parked_id>>
       ELSE Unknown
  /\ Quiet /\ UNCHANGED <<before, rows, cursor, index, message>>

\* submitting is saved, Delete: the terminal cancels the selected order, after
\* a confirmation if it is set to ask for one.
Delete ==
  /\ pc = "key" /\ task = "cancel"
  /\ effect' = "unknown"
  /\ IF selected \notin 1 .. Len(list) THEN Continue("done") /\ UNCHANGED <<list, touched>>
     ELSE IF ~confirms
       THEN Hit("cancel") /\ list' = RemoveAt(list, selected) /\ Continue("done")
     ELSE Continue("dialog") /\ UNCHANGED <<list, touched>>
  /\ UNCHANGED <<mode, confirms, last_id, selected, captured, meddled, before, rows, cursor, index, message, owned_row, parked_id>>

\* The confirmation names its order: only the requested one is accepted.
Dialog ==
  /\ pc = "dialog"
  /\ IF selected \in 1 .. Len(list) /\ list[selected].identity = "own"
       THEN /\ Hit("cancel") /\ list' = RemoveAt(list, selected) /\ effect' = "submitted"
            /\ pc' = "done" /\ UNCHANGED <<task, error>>
       ELSE error' = "GUI_RESET_FAILED" /\ pc' = "done" /\ UNCHANGED <<list, touched, task, effect>>
  /\ UNCHANGED <<mode, confirms, last_id, selected, captured, meddled, before, rows, cursor, index, message, owned_row, parked_id>>

-----------------------------------------------------------------------------
(* cleanup.                                                                *)

\* Nothing is owned (cancel owns no row of this list): nothing to clean.
CleanNothing ==
  /\ pc = "clean" /\ (owned_row = NoRow \/ mode = "cancel")
  /\ Continue("done") /\ Quiet
  /\ UNCHANGED <<before, rows, cursor, index, message, owned_row, parked_id, effect>>

Clean ==
  /\ pc = "clean" /\ owned_row # NoRow /\ mode # "cancel"
  /\ rows' = Exported(list) /\ Continue("select")
  /\ Quiet /\ UNCHANGED <<before, cursor, index, message, owned_row, parked_id, effect>>

\* Alt+X.
RemoveOwned ==
  /\ pc = "key" /\ task = "clean"
  /\ IF selected \in 1 .. Len(list)
       THEN Hit("remove") /\ list' = RemoveAt(list, selected)
       ELSE UNCHANGED <<list, touched>>
  /\ Continue("gone")
  /\ UNCHANGED <<mode, confirms, last_id, selected, captured, meddled, operation>>

Gone ==
  /\ pc = "gone"
  /\ IF Positions(list, owned_row.identity) = {}
       THEN owned_row' = NoRow /\ pc' = "done" /\ UNCHANGED <<task, error, parked_id, effect>>
       ELSE Raises("GUI_RESET_FAILED") /\ UNCHANGED <<owned_row, parked_id, effect>>
  /\ Quiet /\ UNCHANGED <<before, rows, cursor, index, message>>

Done == pc = "done" /\ UNCHANGED vars

Next ==
  \/ Others
  \/ ReadBefore \/ ReadWorking \/ ReadCursor \/ Create \/ ReadAfter \/ Validate
  \/ Select \/ Fresh \/ Reselect \/ Send \/ Captured \/ Confirm \/ Delete \/ Dialog
  \/ CleanNothing \/ Clean \/ RemoveOwned \/ Gone \/ Done

Spec == Init /\ [][Next]_vars

-----------------------------------------------------------------------------

\* Every variable stays in its domain.
TypeOK ==
  /\ mode \in Modes /\ confirms \in Confirms /\ meddled \in 0 .. MaxMeddle
  /\ \A p \in 1 .. Len(list) :
       list[p] \in [identity : Identities, status : {"idle", "started", "sent"}, id : 1 .. last_id, mine : BOOLEAN]
  /\ pc \in {"before", "cursor", "create", "after", "validate", "select", "fresh", "reselect", "key",
             "receipt", "confirm", "dialog", "clean", "gone", "done"}
  /\ task \in {"send", "clean", "cancel"}
  /\ effect \in {None, "unknown", "rejected", "submitted"}
  /\ error \in {None, "ORDER_IDENTITY_AMBIGUOUS", "OPERATION_STATUS_UNKNOWN", "ORDER_REJECTED", "GUI_RESET_FAILED"}

\* "submitted" is said only when the operation's own row went out exactly once
\* while it was watched (or its own order was cancelled), and no key of the
\* operation sent or cancelled another, whatever others do meanwhile.
SubmittedIsOwn ==
  effect = "submitted" =>
    /\ \A i \in 1 .. Len(touched) : touched[i].key # "remove" => touched[i].mine
    /\ IF mode = "cancel" THEN touched # <<>> ELSE captured = <<parked_id>>
    /\ \A p \in 1 .. Len(list) : list[p].id = parked_id => list[p].mine

\* fail pauses the executor: a failed cleanup, or an unknown effect.
Paused == error = "GUI_RESET_FAILED" \/ (error # None /\ effect = "unknown" /\ owned_row = NoRow)

\* A row the operation created and left in the list is never left silently:
\* the executor pauses for a person to look.
LeftoverMeansPaused == (pc = "done" /\ mode # "cancel" /\ Mine # {}) => Paused

\* The keys never send, delete or cancel a row that is not the operation's.
ForeignUntouched == \A i \in 1 .. Len(touched) : touched[i].mine

=============================================================================
