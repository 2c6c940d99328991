------------------------------ MODULE Receipt ------------------------------
(***************************************************************************)
(* How the executor learns the reference of the order it sends             *)
(* (native/receipt.c, OrderActions.send_local and finish_capture in        *)
(* terminal/orders.py, Receipt.identity in terminal/tracking.py).          *)
(*                                                                         *)
(* "receipt arm" replaces the terminal's send function by an observer, the *)
(* executor presses Alt+Q, "receipt finish" puts the function back and     *)
(* returns what was observed.  While the terminal sends, the observer also *)
(* occupies the terminal's callback slot, through which the terminal hands *)
(* out the reference it chose.                                             *)
(*                                                                         *)
(* Nothing ties the key to the window between arm and finish: it may be    *)
(* swallowed, arrive after finish or meet another selected row; the        *)
(* terminal sends conditional orders on its own; a send pumps messages, so *)
(* other sends and the commands arm and finish nest inside it.  Native     *)
(* calls time out as in NativeLink: the client is poisoned and the command *)
(* may still be executed later.                                            *)
(***************************************************************************)
EXTENDS Integers, Sequences, SequencesExt, FiniteSets

CONSTANTS
  MaxOps,       \* bound on the orders of a session
  MaxSends,     \* bound on what the terminal sends
  MaxDepth,     \* bound on sends nested in one another
  MaxCallbacks, \* bound on callbacks of one send
  StuckNotices  \* whether a notice may stay open during the cleanup

\* What the constants must be.
Constants ==
  {MaxOps, MaxSends, MaxDepth, MaxCallbacks} \subseteq Nat /\ StuckNotices \in BOOLEAN

VARIABLES
  pc,         \* where send_local or the cleanup is; "idle" between operations
  op,         \* the current operation, which is also the id of its parked row
  client,     \* native.poisoned and executor.blocked
  request,    \* the receipt command the GUI thread has not executed
  answer,     \* its answer
  hook,       \* the static variables of receipt.c
  slots,      \* what the terminal's send slot and callback slot hold
  stack,      \* sends in progress on the GUI thread, innermost last
  keys,       \* Alt+Q presses the GUI thread has not handled
  sent,       \* everything the terminal sent; the position is its reference
  identity    \* the reference accepted for each operation, 0 if none

vars == <<pc, op, client, request, answer, hook, slots, stack, keys, sent, identity>>
guiVars == <<hook, slots, stack, keys, sent>>

Row == 0..MaxOps     \* 0: any row that is not of an operation
NoReceipt == [ref |-> 0, row |-> 0, valid |-> FALSE]
NoAnswer == [code |-> "none", hook |-> 0]

Fresh(id, installed) ==
  [installed |-> installed, expected |-> id, scope |-> 0, active |-> 0,
   sends |-> 0, count |-> 0, broken |-> FALSE, receipt |-> NoReceipt]

Init ==
  /\ pc = "idle" /\ op = 0
  /\ client = [poisoned |-> FALSE, blocked |-> FALSE]
  /\ request = "none" /\ answer = NoAnswer
  /\ hook = Fresh(0, FALSE)
  /\ slots = [send |-> "real", callback |-> "null"]
  /\ stack = <<>> /\ keys = 0 /\ sent = <<>>
  /\ identity = [o \in 1..MaxOps |-> 0]

----------------------------------------------------------------------------
(* The GUI thread: observe_send, observe_callback, receipt_stop and arm. *)

\* observe_send up to real_send; a send through the real slot is nobody's.
SendBegins(row) ==
  LET ours == slots.send = "observer" /\ hook.expected # 0 /\ row = hook.expected
      observing == ours /\ slots.callback = "null"
  IN /\ Len(stack) < MaxDepth /\ Len(sent) < MaxSends
     /\ sent' = Append(sent, [row |-> row, thread |-> "gui", window |-> hook.expected])
     /\ stack' = Append(stack, [row |-> row, ref |-> Len(sent) + 1, ours |-> ours,
                                observing |-> observing, previous |-> hook.scope, callbacks |-> 0])
     /\ hook' = IF ours
                THEN [hook EXCEPT !.scope = hook.expected, !.sends = @ + 1, !.active = @ + 1,
                                  !.broken = @ \/ ~observing]
                ELSE hook
     /\ slots' = IF observing THEN [slots EXCEPT !.callback = "observer"] ELSE slots

\* The terminal handles Alt+Q: it sends the selected row, or does nothing.
KeyArrives ==
  /\ keys > 0
  /\ keys' = keys - 1
  /\ \/ \E row \in 0..op : SendBegins(row)
     \/ UNCHANGED <<hook, slots, stack, sent>>
  /\ UNCHANGED <<pc, op, client, request, answer, identity>>

\* A condition of another row triggers and the terminal sends it.
TerminalSends ==
  /\ SendBegins(0)
  /\ UNCHANGED <<pc, op, client, request, answer, keys, identity>>

\* observe_callback: only the first reference inside the scope is kept; its source names
\* the row the terminal was sending.
Observe(frame, valid) ==
  IF hook.expected = 0 \/ hook.scope # hook.expected THEN [hook EXCEPT !.broken = TRUE]
  ELSE IF hook.count > 0 THEN [hook EXCEPT !.count = @ + 1, !.broken = TRUE]
  ELSE [hook EXCEPT !.count = 1, !.receipt = [ref |-> frame.ref, row |-> frame.row, valid |-> valid]]

\* The innermost send hands its reference to the observer.
Callback ==
  LET frame == Last(stack) IN
  /\ stack # <<>> /\ slots.callback = "observer"
  /\ frame.callbacks < MaxCallbacks
  /\ \E valid \in BOOLEAN : hook' = Observe(frame, valid)
  /\ stack' = [stack EXCEPT ![Len(stack)].callbacks = @ + 1]
  /\ UNCHANGED <<pc, op, client, request, answer, slots, keys, sent, identity>>

\* observe_send after real_send.
SendEnds ==
  LET frame == Last(stack)
      mine == slots.callback = "observer" IN
  /\ stack # <<>>
  /\ stack' = Front(stack)
  /\ slots' = IF frame.observing /\ mine THEN [slots EXCEPT !.callback = "null"] ELSE slots
  /\ hook' = IF frame.ours
             THEN [hook EXCEPT !.scope = frame.previous, !.active = @ - 1,
                               !.broken = @ \/ (frame.observing /\ ~mine)]
             ELSE hook
  /\ UNCHANGED <<pc, op, client, request, answer, keys, sent, identity>>

\* A send on another thread meets the observer.
ForeignThread ==
  /\ Len(sent) < MaxSends
  /\ \E row \in 0..op : sent' = Append(sent, [row |-> row, thread |-> "other", window |-> hook.expected])
  /\ hook' = IF slots.callback = "observer" THEN [hook EXCEPT !.broken = TRUE] ELSE hook
  /\ UNCHANGED <<pc, op, client, request, answer, slots, stack, keys, identity>>

\* The terminal sets or clears the callback slot for its own purposes.
ForeignCallback ==
  /\ \E c \in {"null", "foreign"} : slots' = [slots EXCEPT !.callback = c]
  /\ slots' # slots
  /\ UNCHANGED <<pc, op, client, request, answer, hook, stack, keys, sent, identity>>

\* The command is executed: the block of NativeLink now holds its answer.
Reply(code) == answer' = [code |-> code, hook |-> hook'] /\ request' = "none"

Pristine == slots.callback = "null" /\ slots.send = "real"

\* arm, or a refusal before it changed anything.
GuiArm ==
  /\ request = "arm"
  /\ \/ /\ ~hook.installed /\ Pristine
        /\ hook' = Fresh(op, TRUE)
        /\ slots' = [slots EXCEPT !.send = "observer"]
        /\ Reply("ok")
     \/ UNCHANGED <<hook, slots>> /\ Reply("refused")
  /\ UNCHANGED <<pc, op, client, stack, keys, sent, identity>>

\* receipt_stop gives up while a send is in progress or when the slot is someone else's.
MayStop == hook.active = 0 /\ slots.callback # "foreign"

\* receipt_stop, for "finish".
GuiFinish ==
  /\ request = "finish"
  /\ IF ~hook.installed
     THEN UNCHANGED <<hook, slots>> /\ Reply("ok")
     ELSE IF MayStop
     THEN /\ hook' = [hook EXCEPT !.expected = 0, !.installed = FALSE]
          /\ slots' = [send |-> "real", callback |-> "null"]
          /\ Reply("ok")
     ELSE /\ hook' = [hook EXCEPT !.expected = IF hook.active = 0 THEN 0 ELSE @]
          /\ UNCHANGED slots
          /\ Reply("isolate")
  /\ UNCHANGED <<pc, op, client, stack, keys, sent, identity>>

GuiThread == \/ KeyArrives \/ TerminalSends \/ Callback \/ SendEnds
             \/ ForeignThread \/ ForeignCallback \/ GuiArm \/ GuiFinish

----------------------------------------------------------------------------
(* The executor. *)

\* The operation ends with an error that blocks the executor, and may poison the client.
End(poisoned) ==
  /\ pc' = "idle"
  /\ client' = [poisoned |-> client.poisoned \/ poisoned, blocked |-> TRUE]

\* send_local: the row is bound and selected; ask the GUI thread to arm.
Arm ==
  /\ pc = "idle" /\ ~client.poisoned /\ ~client.blocked
  /\ op < MaxOps
  /\ op' = op + 1 /\ pc' = "arming" /\ request' = "arm" /\ answer' = NoAnswer
  /\ UNCHANGED <<client, guiVars, identity>>

\* Executor.resume after an operator's resume.
Resume ==
  /\ pc = "idle" /\ client.blocked /\ ~client.poisoned
  /\ client' = [client EXCEPT !.blocked = FALSE]
  /\ UNCHANGED <<pc, op, request, answer, guiVars, identity>>

Armed ==
  /\ pc = "arming" /\ answer.code # "none"
  /\ IF answer.code = "ok" THEN pc' = "armed" /\ UNCHANGED client ELSE End(FALSE)
  /\ UNCHANGED <<op, request, answer, guiVars, identity>>

\* _ask gives up, during either command or the notice checks: the client is poisoned.
CallTimeout ==
  /\ pc \in {"arming", "keyed", "cleanup", "finishing", "releasing"}
  /\ End(TRUE)
  /\ UNCHANGED <<op, request, answer, guiVars, identity>>

\* The save of "submitting", then the key.
Press ==
  /\ pc = "armed"
  /\ pc' = "keyed" /\ keys' = keys + 1
  /\ UNCHANGED <<op, client, request, answer, hook, slots, stack, sent, identity>>

\* The save or the key fails, or notices stay open after it: on to the cleanup.
SendFails ==
  /\ pc \in {"armed", "keyed"}
  /\ pc' = "cleanup"
  /\ UNCHANGED <<op, client, request, answer, guiVars, identity>>

AskFinish ==
  /\ pc \in {"keyed", "cleanup"}
  /\ pc' = IF pc = "keyed" THEN "finishing" ELSE "releasing"
  /\ request' = "finish" /\ answer' = NoAnswer
  /\ UNCHANGED <<op, client, guiVars, identity>>

\* The cleanup drains notices first; when that fails it ends before finish_capture.
CleanupStuck ==
  /\ pc = "cleanup" /\ StuckNotices
  /\ End(FALSE)
  /\ UNCHANGED <<op, request, answer, guiVars, identity>>

\* Mutant of Proves: the source of the reference is not compared.
ProvesAnySource(h, o) ==
  ~h.broken /\ h.receipt.valid /\ h.sends = 1 /\ h.count = 1

\* Receipt.identity: one send, one reference, and the source is this row.
Proves(h, o) ==
  /\ ~h.broken /\ h.receipt.valid /\ h.sends = 1 /\ h.count = 1
  /\ h.receipt.row = o

\* finish_capture and identity after the answer.
Finished ==
  /\ pc = "finishing" /\ answer.code # "none"
  /\ IF answer.code = "ok" /\ Proves(answer.hook, op)
     THEN /\ identity' = [identity EXCEPT ![op] = answer.hook.receipt.ref]
          /\ pc' = "idle" /\ UNCHANGED client
     ELSE End(answer.code = "isolate") /\ UNCHANGED identity
  /\ UNCHANGED <<op, request, answer, guiVars>>

\* finish_capture in the cleanup.
Released ==
  /\ pc = "releasing" /\ answer.code # "none"
  /\ End(answer.code = "isolate")
  /\ UNCHANGED <<op, request, answer, guiVars, identity>>

Operation == \/ Arm \/ Resume \/ Armed \/ CallTimeout \/ Press \/ SendFails
             \/ AskFinish \/ CleanupStuck \/ Finished \/ Released

Next == GuiThread \/ Operation

Spec == Init /\ [][Next]_vars

----------------------------------------------------------------------------
Frame == [row : Row, ref : 1..MaxSends, ours : BOOLEAN, observing : BOOLEAN,
          previous : Row, callbacks : 0..MaxCallbacks]
HookState == [installed : BOOLEAN, expected : Row, scope : Row, active : 0..MaxDepth,
              sends : Nat, count : Nat, broken : BOOLEAN,
              receipt : [ref : 0..MaxSends, row : Row, valid : BOOLEAN]]

\* Every variable stays in its domain; the observer never nests deeper than the sends do.
TypeOK ==
  /\ pc \in {"idle", "arming", "armed", "keyed", "cleanup", "finishing", "releasing"}
  /\ op \in 0..MaxOps
  /\ client \in [poisoned : BOOLEAN, blocked : BOOLEAN]
  /\ request \in {"none", "arm", "finish"}
  /\ answer.code \in {"none", "ok", "refused", "isolate"}
  /\ answer.code # "none" => answer.hook \in HookState
  /\ hook \in HookState
  /\ slots \in [send : {"real", "observer"}, callback : {"null", "observer", "foreign"}]
  /\ stack \in Seq(Frame) /\ keys \in 0..MaxOps
  /\ sent \in Seq([row : Row, thread : {"gui", "other"}, window : Row])
  /\ identity \in [1..MaxOps -> 0..MaxSends]

\* Receipt.identity: a reference accepted for an order is the reference under which the
\* terminal sent that very row, on the GUI thread and between arm and finish, and no
\* other send of that row happened there; whatever else was sent meanwhile.
IdentityIsOwn ==
  \A o \in 1..MaxOps : identity[o] # 0 =>
    \A j \in DOMAIN sent :
      j = identity[o] <=> sent[j] = [row |-> o, thread |-> "gui", window |-> o]

OursOnStack == {i \in DOMAIN stack : stack[i].ours}

\* receipt_stop: the observer is removed only when no send runs through it, so that the
\* count of active sends is exact and none returns into an observer that has gone.
ObserverAccounted ==
  /\ hook.active = Cardinality(OursOnStack)
  /\ ~hook.installed => OursOnStack = {} /\ slots.send = "real" /\ slots.callback # "observer"

\* terminal_execution.md: "the IAT is restored at the end of the capture or in the
\* cleanup; if it cannot be, the GUI is isolated": between operations the observer is
\* gone or the client is poisoned.
ReleasedOrPoisoned == pc = "idle" /\ ~client.poisoned => ~hook.installed
=============================================================================
