----------------------------- MODULE OrderForm ------------------------------
(***************************************************************************)
(* The limit IOC path through the terminal's order form (terminal/         *)
(* order_form.py, with market.py limit_ioc, close_dialog and restore): the *)
(* form is read, filled field by field and read again, a local preorder is *)
(* created through a dialog and verified, and afterwards the form is put   *)
(* back.  A person may change a field or answer the dialog at any moment;  *)
(* entering an instrument may change volume and price; the dialog may      *)
(* appear after the wait for it has ended, even during the next operation. *)
(* What happens to the list of preorders is in Preorders.                  *)
(***************************************************************************)
EXTENDS Naturals, Sequences

CONSTANTS
  MaxRuns,     \* bound: operations and resumes
  MaxEvents    \* bound: what a person does

\* What the constants must be.
Constants == MaxRuns \in Nat /\ MaxEvents \in Nat

VARIABLES
  pc,
  form,            \* the order form: a value per field
  dialog,          \* the dialog on the screen: its form, and whether "send by hand" is chosen
  pending,         \* the button was pressed and the dialog has not appeared yet
  list,            \* the local preorders: native id, form, manual, and whether the bridge made it
  last_id,         \* the native ids given out
  request, todo, form_state, market_dialog, cursor, owned_row, effect, error, blocked,   \* Steps, Executor
  sent,            \* the rows sent
  leftover,        \* ghost: the operation's own row is still in the list
  meddled,         \* ghost: a person acted since the form was last compared
  runs, events

operation == <<request, todo, form_state, market_dialog, cursor, owned_row, effect, error, blocked>>
screen == <<form, dialog, pending>>
rows == <<list, last_id, leftover>>
vars == <<pc, screen, rows, operation, sent, meddled, runs, events>>

Edits == {"instrument", "volume", "price"}
\* "choice" is what the radio buttons say: side and offset.
Fields == Edits \cup {"choice", "time_mode"}
\* Two values of every field; 1 is what the requests ask for, FAK included.
Values == 0 .. 1
Forms == [Fields -> Values]
Requests == {[f \in Fields |-> IF f = "price" THEN p ELSE 1] : p \in Values}
NoForm == [f \in Fields |-> 2]
NoDialog == [form |-> NoForm, manual |-> FALSE]
Dialogs == {NoDialog} \cup [form : Forms, manual : BOOLEAN]

Init ==
  /\ pc = "idle" /\ form \in Requests \cup {[f \in Fields |-> 0]} /\ dialog = NoDialog /\ pending = FALSE /\ list = {} /\ last_id = 0
  /\ request = NoForm /\ todo = <<>> /\ form_state = NoForm /\ market_dialog = FALSE
  /\ cursor = 0 /\ owned_row = 0 /\ effect = "none" /\ error = "none" /\ blocked = FALSE
  /\ sent = {} /\ leftover = FALSE /\ meddled = FALSE /\ runs = 0 /\ events = 0

-----------------------------------------------------------------------------
(* The terminal and a person.                                              *)

NewRow(mine) == [id |-> last_id + 1, form |-> dialog.form, manual |-> dialog.manual, mine |-> mine]

\* The dialog shows the form as it is when the dialog appears.
Appear ==
  /\ pending /\ dialog = NoDialog /\ pending' = FALSE
  /\ dialog' \in {[form |-> form, manual |-> m] : m \in BOOLEAN}
  /\ UNCHANGED <<pc, form, rows, operation, sent, meddled, runs, events>>

Person ==
  /\ events < MaxEvents /\ events' = events + 1 /\ meddled' = TRUE
  /\ \/ /\ dialog = NoDialog /\ \E f \in Fields, v \in Values : form' = [form EXCEPT ![f] = v]
        /\ UNCHANGED <<dialog, list, last_id>>
     \/ /\ dialog # NoDialog /\ dialog' = NoDialog
        /\ \/ UNCHANGED <<list, last_id>>
           \/ list' = list \cup {NewRow(FALSE)} /\ last_id' = last_id + 1
        /\ UNCHANGED form
  /\ UNCHANGED <<pc, pending, leftover, operation, sent, runs>>

-----------------------------------------------------------------------------

Goto(from, to) == pc = from /\ pc' = to /\ UNCHANGED <<runs, events, sent>>

\* An exception: in the operation its clean-up follows; in the clean-up it is
\* GUI_RESET_FAILED and the executor is blocked.
Raise(from, code) == Goto(from, "close") /\ error' = code

CleanupFails(from) == Goto(from, "finish") /\ error' = "reset" /\ blocked' = TRUE

\* The beginning of execute; an unfinished dialog is an unknown window.
Begin ==
  /\ pc = "idle" /\ ~blocked /\ runs < MaxRuns /\ runs' = runs + 1
  /\ request' \in Requests /\ form_state' = NoForm /\ market_dialog' = FALSE
  /\ owned_row' = 0 /\ effect' = "none" /\ leftover' = FALSE
  /\ IF dialog = NoDialog THEN pc' = "snapshot" /\ error' = "none" /\ UNCHANGED blocked
     ELSE pc' = "idle" /\ error' = "reset" /\ blocked' = TRUE
  /\ UNCHANGED <<screen, list, last_id, todo, cursor, sent, meddled, events>>

\* Mutant of Order: the instrument is entered last.
OrderInstrumentLast == <<"choice", "volume", "price", "time_mode", "instrument">>

\* fill and restore go through the fields in this order.
Order == <<"instrument", "choice", "volume", "price", "time_mode">>

\* snapshot refuses a busy window, and a form in another mode than the plain one.
Snapshot ==
  /\ \/ /\ dialog = NoDialog /\ Goto("snapshot", "fill")
        /\ form_state' = form /\ todo' = Order /\ meddled' = FALSE /\ UNCHANGED error
     \/ dialog = NoDialog /\ Raise("snapshot", "request") /\ UNCHANGED <<form_state, todo, meddled>>
     \/ dialog # NoDialog /\ Raise("snapshot", "reset") /\ UNCHANGED <<form_state, todo, meddled>>
  /\ UNCHANGED <<screen, rows, request, market_dialog, cursor, owned_row, effect, blocked>>

Field == Head(todo)

Wanted == IF pc \in {"fill", "filled"} THEN request ELSE form_state

\* A field that holds its value is left alone, but fill enters every text anew.
Skipped == form[Field] = Wanted[Field] /\ ~(pc = "fill" /\ Field \in Edits)

Entered(f, v) ==
  IF f = "instrument"
  THEN {[form EXCEPT !["instrument"] = v, !["volume"] = n, !["price"] = p] : n, p \in Values}
  ELSE {[form EXCEPT ![f] = v]}

\* A step of fill or of restore that cannot go on.
Refuse(at) == IF at \in {"fill", "filled"} THEN Raise(at, "request") /\ UNCHANGED blocked ELSE CleanupFails(at)

\* edit, radio and time_mode: the control is focused and set; behind a dialog it
\* takes no focus.
Enter(at, read) ==
  /\ pc = at /\ todo # <<>>
  /\ \/ Skipped /\ Goto(at, at) /\ todo' = Tail(todo) /\ UNCHANGED <<form, error, blocked>>
     \/ /\ ~Skipped /\ dialog = NoDialog /\ Goto(at, read)
        /\ form' \in Entered(Field, Wanted[Field]) /\ UNCHANGED <<todo, error, blocked>>
     \/ ~Skipped /\ dialog # NoDialog /\ Refuse(at) /\ UNCHANGED <<form, todo>>
  /\ UNCHANGED <<dialog, pending, rows, request, form_state, market_dialog, cursor, owned_row, effect, meddled>>

\* and read back.
ReadBack(at, return) ==
  /\ pc = at
  /\ IF form[Field] = Wanted[Field] THEN Goto(at, return) /\ todo' = Tail(todo) /\ UNCHANGED <<error, blocked>>
     ELSE Refuse(at) /\ UNCHANGED todo
  /\ UNCHANGED <<screen, rows, request, form_state, market_dialog, cursor, owned_row, effect, meddled>>

\* The end of fill: the whole form is what the request says; then the dialog's
\* button is pressed.
OpenPreorder ==
  /\ pc = "fill" /\ todo = <<>>
  /\ \/ /\ dialog = NoDialog /\ form = request /\ Goto("fill", "button") /\ UNCHANGED error
     \/ dialog = NoDialog /\ form # request /\ Raise("fill", "request")
     \/ dialog # NoDialog /\ Raise("fill", "reset")
  /\ UNCHANGED <<screen, rows, request, todo, form_state, market_dialog, cursor, owned_row, effect, blocked, meddled>>

PressButton ==
  /\ \/ dialog = NoDialog /\ Goto("button", "opening") /\ pending' = TRUE /\ cursor' = last_id /\ UNCHANGED error
     \/ dialog # NoDialog /\ Raise("button", "reset") /\ UNCHANGED <<pending, cursor>>
  /\ UNCHANGED <<form, dialog, rows, request, todo, form_state, market_dialog, owned_row, effect, blocked, meddled>>

\* The dialog is there and the stage is saved, or the wait ends without it.
Opened ==
  /\ \/ /\ dialog # NoDialog /\ Goto("opening", "confirm")
        /\ market_dialog' = TRUE /\ effect' = "unknown" /\ UNCHANGED error
     \/ dialog = NoDialog /\ Raise("opening", "timeout") /\ UNCHANGED <<market_dialog, effect>>
  /\ UNCHANGED <<screen, rows, request, todo, form_state, cursor, owned_row, blocked, meddled>>

\* The dialog's summary, and an exported row, show everything but the time mode.
Summarised(f, g) == \A h \in Fields \ {"time_mode"} : f[h] = g[h]

OwnDialog == Summarised(dialog.form, request)

\* confirm_preorder: "send by hand" is chosen, and the summary compared.
Confirm ==
  /\ \/ /\ dialog # NoDialog /\ OwnDialog /\ Goto("confirm", "press")
        /\ dialog' = [dialog EXCEPT !.manual = TRUE] /\ UNCHANGED error
     \/ /\ Raise("confirm", "request") /\ UNCHANGED dialog
        /\ dialog # NoDialog => ~OwnDialog \/ ~dialog.manual
  /\ UNCHANGED <<form, pending, rows, request, todo, form_state, market_dialog, cursor, owned_row, effect, blocked, meddled>>

\* The OK button: the row is created; the dialog is seen to leave, or it stays
\* longer than the wait.
PressOK ==
  /\ \/ /\ dialog # NoDialog
        /\ list' = list \cup {NewRow(TRUE)} /\ last_id' = last_id + 1 /\ leftover' = TRUE
        /\ \/ Goto("press", "bind") /\ dialog' = NoDialog /\ market_dialog' = FALSE /\ UNCHANGED error
           \/ Raise("press", "timeout") /\ dialog' \in {NoDialog, dialog} /\ UNCHANGED market_dialog
     \/ dialog = NoDialog /\ Raise("press", "reset") /\ UNCHANGED <<rows, dialog, market_dialog>>
  /\ UNCHANGED <<form, pending, request, todo, form_state, cursor, owned_row, effect, blocked, meddled>>

New == {r \in list : r.id > cursor}

\* The one new row, if it shows the request.
Owned == {r \in New : New = {r} /\ Summarised(r.form, request) /\ r.manual}

\* bind_local: exactly one row is new, and it shows the request.
Bind ==
  /\ \/ Goto("bind", "validate") /\ (\E r \in Owned : owned_row' = r.id) /\ UNCHANGED error
     \/ Owned = {} /\ Raise("bind", "unknown") /\ UNCHANGED owned_row
  /\ UNCHANGED <<screen, rows, request, todo, form_state, market_dialog, cursor, effect, blocked, meddled>>

\* Mutant of Valid: the native time condition is not compared.
ValidUntimed == \E r \in New : New = {r} /\ Summarised(r.form, request)

\* validate_preorder reads the native row, its time condition included.
Valid == \E r \in New : New = {r} /\ r.form = request

ValidatePreorder ==
  /\ IF Valid THEN Goto("validate", "send") /\ UNCHANGED error ELSE Raise("validate", "request")
  /\ UNCHANGED <<screen, rows, request, todo, form_state, market_dialog, cursor, owned_row, effect, blocked, meddled>>

SendLocal ==
  /\ pc = "send" /\ pc' = "close" /\ effect' = "submitted"
  /\ \E r \in New : sent' = sent \cup {[row |-> r.form, request |-> request]}
  /\ UNCHANGED <<screen, rows, request, todo, form_state, market_dialog, cursor, owned_row, error, blocked, meddled, runs, events>>

-----------------------------------------------------------------------------
(* The clean-up.                                                           *)

\* The dialog the operation opened is closed.
CloseDialog ==
  /\ \/ /\ Goto("close", "delete") /\ dialog' = IF market_dialog THEN NoDialog ELSE dialog
        /\ market_dialog' = FALSE /\ UNCHANGED <<error, blocked>>
     \/ /\ market_dialog /\ dialog # NoDialog /\ CleanupFails("close") /\ UNCHANGED <<dialog, market_dialog>>
  /\ UNCHANGED <<form, pending, rows, request, todo, form_state, cursor, owned_row, effect, meddled>>

Readable == form_state # NoForm

\* The operation's row is deleted; restore begins when the form was read.
Cleanup ==
  /\ \/ /\ Goto("delete", IF Readable THEN "restore" ELSE "finish")
        /\ list' = {r \in list : r.id # owned_row}
        /\ leftover' = (leftover /\ owned_row = 0) /\ owned_row' = 0 /\ UNCHANGED <<error, blocked>>
     \/ owned_row # 0 /\ CleanupFails("delete") /\ UNCHANGED <<list, leftover, owned_row>>
  /\ todo' = Order
  /\ UNCHANGED <<screen, last_id, request, form_state, market_dialog, cursor, effect, meddled>>

\* The form as a whole is what was read at the beginning.
Same(f) == f = form_state

Restored ==
  /\ pc = "restore" /\ todo = <<>>
  /\ IF dialog = NoDialog /\ Same(form) THEN Goto("restore", "finish") /\ meddled' = FALSE /\ UNCHANGED <<error, blocked>>
     ELSE CleanupFails("restore") /\ UNCHANGED meddled
  /\ UNCHANGED <<screen, rows, request, todo, form_state, market_dialog, cursor, owned_row, effect>>

\* Mutant of Isolates: a request error never blocks, whatever the effect.
IsolatesReset == error = "reset"

Isolates == error = "reset" \/ (error # "none" /\ effect = "unknown" /\ owned_row = 0)

\* finish checks the windows once more; then the executor decides whether it is
\* blocked.
Finish ==
  /\ pc = "finish" /\ pc' = "idle"
  /\ blocked' = (blocked \/ dialog # NoDialog \/ Isolates)
  /\ error' = IF dialog # NoDialog THEN "reset" ELSE error
  /\ UNCHANGED <<screen, rows, request, todo, form_state, market_dialog, cursor, owned_row, effect, sent, meddled, runs, events>>

\* resume, after a person has looked at the terminal.
Resume ==
  /\ pc = "idle" /\ blocked /\ dialog = NoDialog /\ runs < MaxRuns /\ runs' = runs + 1
  /\ blocked' = FALSE /\ leftover' = FALSE /\ meddled' = TRUE
  /\ UNCHANGED <<pc, screen, list, last_id, request, todo, form_state, market_dialog, cursor, owned_row, effect, error, sent, events>>

Operation ==
  \/ Begin \/ Snapshot \/ Enter("fill", "filled") \/ ReadBack("filled", "fill") \/ OpenPreorder \/ PressButton
  \/ Opened \/ Confirm \/ PressOK \/ Bind \/ ValidatePreorder \/ SendLocal
  \/ CloseDialog \/ Cleanup \/ Enter("restore", "restoring") \/ ReadBack("restoring", "restore") \/ Restored
  \/ Finish \/ Resume

Next == Operation \/ Appear \/ Person

Spec == Init /\ [][Next]_vars

-----------------------------------------------------------------------------

\* Every variable stays in its domain.
TypeOK ==
  /\ form \in Forms /\ form_state \in Forms \cup {NoForm} /\ request \in Requests \cup {NoForm}
  /\ dialog \in Dialogs /\ {pending, market_dialog, blocked, leftover, meddled} \subseteq BOOLEAN
  /\ list \subseteq [id : 1 .. last_id, form : Forms, manual : BOOLEAN, mine : BOOLEAN]
  /\ todo \in {SubSeq(Order, n, Len(Order)) : n \in 1 .. Len(Order) + 1} /\ owned_row \in 0 .. last_id /\ cursor \in 0 .. last_id
  /\ effect \in {"none", "unknown", "submitted"}
  /\ error \in {"none", "request", "reset", "timeout", "unknown"}

\* What is sent is the request in every field, the time mode included, which
\* neither the dialog nor the exported list shows: whatever a person changes
\* between the last reading of the form and the dialog.
SentAsRequested == \A s \in sent : s.row = s.request

\* A row the bridge creates shows the parameters of the operation that creates
\* it, also when the dialog of an earlier operation appeared late.
CreatedAsRequested ==
  leftover => \A r \in list : (r.mine /\ r.id > cursor) => Summarised(r.form, request)

\* A row the bridge created and has not deleted leaves the executor blocked until
\* a person resumes it, wherever the operation failed.
LeftoverBlocks == pc = "idle" /\ leftover => blocked

\* An operation that ends without being blocked has put the form back, but for
\* what a person did after the form was compared.
FormReturned == pc = "idle" /\ ~blocked /\ ~meddled /\ form_state # NoForm => form = form_state

\* The order of the fields makes the form restorable: entering the instrument
\* disturbs other fields, and still restore never finds a form that differs unless
\* a person acted.
RestoreSucceeds ==
  pc = "restore" /\ todo = <<>> /\ ~meddled => form = form_state

=============================================================================
