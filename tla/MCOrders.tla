------------------------------ MODULE MCOrders ------------------------------
(***************************************************************************)
(* What makes a submission the operation's own: the observer of the send,  *)
(* the rows of the local list, the order form and the login session.  They *)
(* share no variable, so each behaviour moves one of them, part, and       *)
(* leaves the others as they begin.                                        *)
(***************************************************************************)
EXTENDS Naturals, Sequences

CONSTANTS
  MaxOps, MaxSends, MaxDepth, MaxCallbacks,    \* the observer's bounds
  MaxMeddle,                                   \* how often others touch the list
  FormRuns, FormEvents, SessionRuns, SessionEvents

VARIABLES
  part,
  send_pc, op, client, send_request, answer, hook, slots, stack, keys, send_sent, identity,
  mode, confirms, row_list, row_last_id, selected, row_pc, task, before, rows, row_cursor, index, message,
  row_owned, parked_id, row_effect, row_error, touched, captured, row_meddled,
  form_pc, form, dialog, pending, list, last_id, request, todo, form_state, market_dialog, cursor,
  owned_row, effect, error, blocked, sent, leftover, meddled, runs, events,
  pc, terminal, gen, known, window, login_generation, session, disconnected, identity_lost,
  login_established, drops, key, accepted, session_runs, session_events

Send == INSTANCE Receipt WITH
  StuckNotices <- TRUE, pc <- send_pc, request <- send_request, sent <- send_sent
Rows == INSTANCE Preorders WITH
  Modes <- {"import", "form", "cancel"}, Outcomes <- {"added", "other"},
  Foreign <- {"same", "different"}, Removable <- {FALSE}, Meddling <- "any", Confirms <- BOOLEAN,
  pc <- row_pc, list <- row_list, last_id <- row_last_id, cursor <- row_cursor,
  owned_row <- row_owned, effect <- row_effect, error <- row_error, meddled <- row_meddled
Form == INSTANCE OrderForm WITH MaxRuns <- FormRuns, MaxEvents <- FormEvents, pc <- form_pc
Login == INSTANCE Session WITH
  MaxRuns <- SessionRuns, MaxEvents <- SessionEvents, EarlyRelogin <- FALSE,
  form <- window, runs <- session_runs, events <- session_events

ASSUME ConstantsAssumption ==
  Send!Constants /\ Rows!Constants /\ Form!Constants /\ Login!Constants

sendVars == <<send_pc, op, client, send_request, answer, hook, slots, stack, keys, send_sent, identity>>
rowVars == <<mode, confirms, row_list, row_last_id, selected, row_pc, task, before, rows, row_cursor,
             index, message, row_owned, parked_id, row_effect, row_error, touched, captured, row_meddled>>
formVars == <<form_pc, form, dialog, pending, list, last_id, request, todo, form_state, market_dialog,
              cursor, owned_row, effect, error, blocked, sent, leftover, meddled, runs, events>>
loginVars == <<pc, terminal, gen, known, window, login_generation, session, disconnected, identity_lost,
               login_established, drops, key, accepted, session_runs, session_events>>
vars == <<part, sendVars, rowVars, formVars, loginVars>>

Init ==
  /\ part \in {"send", "rows", "form", "session"}
  /\ Send!Init /\ Rows!Init /\ Form!Init /\ Login!Init
  /\ part = "rows" \/ (mode = "import" /\ confirms /\ row_list = <<>>)
  /\ part = "form" \/ \A f \in DOMAIN form : form[f] = 0
  /\ part = "session" \/ window = [site |-> "ours", user |-> "ours"]

Next ==
  \/ part = "send" /\ Send!Next /\ UNCHANGED <<part, rowVars, formVars, loginVars>>
  \/ part = "rows" /\ Rows!Next /\ UNCHANGED <<part, sendVars, formVars, loginVars>>
  \/ part = "form" /\ Form!Next /\ UNCHANGED <<part, sendVars, rowVars, loginVars>>
  \/ part = "session" /\ Login!Next /\ UNCHANGED <<part, sendVars, rowVars, formVars>>

Spec == Init /\ [][Next]_vars

\* Every part's state stays in its type.
TypesOK == Send!TypeOK /\ Rows!TypeOK /\ Form!TypeOK /\ Login!TypeOK

\* A reference accepted for an order is the one under which the terminal sent that row between
\* arm and finish, and the observer goes only when no send runs through it, however sends
\* nest and callbacks repeat (receipt.c, native.py Receipt).
IdentityIsOwn == Send!IdentityIsOwn /\ Send!ObserverAccounted

\* "submitted" is said only when the operation's own row went out exactly once while it was
\* watched, whatever others do to the list (orders.py, steps.py).
SubmittedIsOwn == Rows!SubmittedIsOwn

\* A row sent through the form equals its request in every field, and a row the bridge creates
\* is never made from the dialog of another operation (order_form.py, market.py).
SentAsRequested == Form!SentAsRequested /\ Form!CreatedAsRequested

\* A row an operation created and has not deleted leaves the executor paused or blocked, wherever
\* the operation failed (executor.py cleanup and fail).
LeftoverBlocks == Form!LeftoverBlocks /\ Rows!LeftoverMeansPaused

\* An operation that ends unblocked has put the form back, and the order in which it enters the
\* fields never undoes what it has entered (order_form.py restore).
FormReturned == Form!FormReturned /\ Form!RestoreSucceeds

\* What is reported as accepted went to the configured account, on its site, in the one session
\* the worker had bound (executor.py start and validate).
AcceptedIsOwn == Login!AcceptedIsOwn /\ Login!AcceptedInOneSession

\* A session in which the worker once saw the connection down accepts nothing before a restart
\* of the terminal, whatever resumes come between (executor.py disconnected, identity_lost).
DroppedSessionUnused == Login!DroppedSessionUnused

=============================================================================
