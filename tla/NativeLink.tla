---------------------------- MODULE NativeLink ----------------------------
(***************************************************************************)
(* The link between the executor and the terminal's GUI thread: the client *)
(* (terminal/native.py), the controller process (native/controller.c) and  *)
(* the hook in the GUI thread (native/hook.c), for one terminal session.   *)
(*                                                                         *)
(* The client writes one line per command and reads one line per answer.   *)
(* The controller puts the command into a block of shared memory and sends *)
(* the GUI thread a message that carries nothing: the hook executes what   *)
(* the block holds when the message arrives.  Nothing on the way numbers   *)
(* commands or answers.  What keeps an answer from being taken for that of *)
(* another command is that the client gives up for good ("poisoned") and   *)
(* that the controller leaves the block alone while a call is outstanding. *)
(*                                                                         *)
(* SendMessageTimeoutW may return while its message still waits, or is     *)
(* being handled; the hook then writes the block while the controller      *)
(* writes error 90 into it and prints it.  The reads of that printf are    *)
(* unordered and are modelled one by one, in any order.                    *)
(***************************************************************************)
EXTENDS Integers, Sequences, SequencesExt

CONSTANTS
  MaxCalls,   \* bound on the commands of a session
  Kinds       \* the commands the executor asks, besides "quit"

\* What the constants must be.
Constants == MaxCalls \in Nat /\ Kinds # {} /\ "quit" \notin Kinds

VARIABLES
  client,     \* the NativeClient: where it is, poisoned, and the command it asked last
  stdin,      \* lines of the client the controller has not read
  stdout,     \* lines of the controller the client has not read
  ctl,        \* the controller: where it is, outstanding, and the line it prints
  block,      \* the ProbeState block
  gui,        \* the GUI thread: messages that wait, and what the hook is at
  executed,   \* the commands the GUI thread began, in order
  answered    \* commands whose answer the client accepted, with that answer

vars == <<client, stdin, stdout, ctl, block, gui, executed, answered>>

Command == 1..MaxCalls
\* 0: none, or reset; the controller's own farewell is no command of the client.
Farewell == MaxCalls + 1

\* What the hook reports: 0, refusals that change nothing (any code below 90), 71 when
\* the receipt hook could not be removed; 90 to 92 come from the controller.
HookErrors == {0, 3, 71}

NotRead == -1
BlankLine == [done |-> NotRead, error |-> NotRead, fields |-> NotRead]

\* The controller's short answers, printed without a look at the block.
Refusal(error, done) == [done |-> done, error |-> error, fields |-> 0, data |-> 0]

Init ==
  /\ client = [pc |-> "starting", poisoned |-> FALSE, id |-> 0, kind |-> "none"]
  /\ stdin = <<>> /\ stdout = <<>>
  /\ ctl = [pc |-> "loop", outstanding |-> FALSE, kind |-> "none", line |-> BlankLine]
  /\ block = [id |-> 0, kind |-> "none", done |-> 0, error |-> 0, fields |-> 0]
  /\ gui = [messages |-> 0, pc |-> "idle", id |-> 0]
  /\ executed = <<>> /\ answered = {}

----------------------------------------------------------------------------
(* The client. *)

\* NativeClient.start: the line that says ready, within five seconds.
Started ==
  /\ client.pc = "starting"
  /\ \E poisoned \in BOOLEAN :
       client' = [client EXCEPT !.pc = "idle", !.poisoned = poisoned]
  /\ UNCHANGED <<stdin, stdout, ctl, block, gui, executed, answered>>

\* _ask up to the write, for a command and for the quit of close(): a poisoned client
\* asks nothing any more.  Writing to a controller that has gone poisons it.
Ask ==
  /\ client.pc = "idle" /\ ~client.poisoned
  /\ client.id < MaxCalls
  /\ \E kind \in Kinds \cup {"quit"} :
       IF ctl.pc = "off"
       THEN /\ client' = [client EXCEPT !.poisoned = TRUE]
            /\ UNCHANGED stdin
       ELSE /\ client' = [client EXCEPT !.pc = "waiting", !.id = @ + 1, !.kind = kind]
            /\ stdin' = Append(stdin, [id |-> client.id + 1, kind |-> kind])
  /\ UNCHANGED <<stdout, ctl, block, gui, executed, answered>>

\* Mutant of Timeout: the client goes on after a timeout.
TimeoutForgets ==
  /\ client.pc = "waiting"
  /\ client' = [client EXCEPT !.pc = "idle"]
  /\ UNCHANGED <<stdin, stdout, ctl, block, gui, executed, answered>>

\* _read: the timeout, which may fire however late the answer is.
Timeout ==
  /\ client.pc = "waiting"
  /\ client' = [client EXCEPT !.pc = "idle", !.poisoned = TRUE]
  /\ UNCHANGED <<stdin, stdout, ctl, block, gui, executed, answered>>

\* _read: the controller has gone and its output is read to the end.
EndOfOutput ==
  /\ client.pc = "waiting" /\ ctl.pc = "off" /\ stdout = <<>>
  /\ client' = [client EXCEPT !.pc = "idle", !.poisoned = TRUE]
  /\ UNCHANGED <<stdin, stdout, ctl, block, gui, executed, answered>>

\* The answers after which _ask poisons the client: the call has not ended, or the
\* receipt hook is still in place.
Isolates(line) == line.done = 0 \/ line.error \in {71, 90}

\* import_csv: an import whose flags are not set is isolated as well.
ImportFails(kind, line) == kind = "import" /\ line.fields = 0

\* _ask after the read, and the caller's look at the fields.
Receive ==
  /\ client.pc = "waiting" /\ stdout # <<>>
  /\ LET line == Head(stdout)
         poisoned == \/ Isolates(line)
                     \/ line.error = 0 /\ ImportFails(client.kind, line)
     IN /\ client' = [client EXCEPT !.poisoned = poisoned,
                                    !.pc = IF client.kind = "quit" THEN "closed" ELSE "idle"]
        /\ answered' = IF ~poisoned /\ line.error = 0
                       THEN answered \cup {[id |-> client.id, line |-> line]} ELSE answered
  /\ stdout' = Tail(stdout)
  /\ UNCHANGED <<stdin, ctl, block, gui, executed>>

\* The worker process ends, by itself or not: its end of the pipe closes.  A poisoned
\* client does not say quit first (worker_main, close).
ClientEnds ==
  /\ client.pc # "closed"
  /\ client' = [client EXCEPT !.pc = "closed"]
  /\ UNCHANGED <<stdin, stdout, ctl, block, gui, executed, answered>>

----------------------------------------------------------------------------
(* The controller. *)

\* A call has not ended.
Busy == ctl.outstanding /\ block.done = 0

Take == stdin' = Tail(stdin)

\* A call is still outstanding: refused, and the block is left alone.
RefuseBusy ==
  /\ ctl.pc = "loop" /\ stdin # <<>> /\ Busy
  /\ Take
  /\ stdout' = Append(stdout, Refusal(90, 0))
  /\ UNCHANGED <<client, ctl, block, gui, executed, answered>>

\* The window is gone or belongs to another thread (91 ends the loop), or the target
\* belongs to another process (92).
RefuseTarget ==
  /\ ctl.pc = "loop" /\ stdin # <<>> /\ ~Busy
  /\ Take
  /\ \E error \in {91, 92} :
       /\ stdout' = Append(stdout, Refusal(error, 1))
       /\ ctl' = [ctl EXCEPT !.outstanding = FALSE, !.pc = IF error = 91 THEN "drain" ELSE "loop"]
  /\ UNCHANGED <<client, block, gui, executed, answered>>

\* The block is filled and the message sent.
Dispatch ==
  /\ ctl.pc = "loop" /\ stdin # <<>> /\ ~Busy
  /\ Take
  /\ ctl' = [ctl EXCEPT !.pc = "sending", !.outstanding = FALSE, !.kind = Head(stdin).kind]
  /\ block' = [id |-> Head(stdin).id, kind |-> Head(stdin).kind, done |-> 0, error |-> 0, fields |-> 0]
  /\ gui' = [gui EXCEPT !.messages = @ + 1]
  /\ UNCHANGED <<client, stdout, executed, answered>>

Handled == gui.messages = 0 /\ gui.pc = "idle"

\* SendMessageTimeoutW returns TRUE; outstanding still holds when the hook ignored it.
Sent ==
  /\ ctl.pc = "sending" /\ Handled
  /\ ctl' = [ctl EXCEPT !.outstanding = block.done = 0,
                        !.pc = IF block.done = 0 THEN "mark" ELSE "print"]
  /\ UNCHANGED <<client, stdin, stdout, block, gui, executed, answered>>

\* SendMessageTimeoutW gives up.  The message may be withdrawn if it still waits.
GiveUp ==
  /\ ctl.pc = "sending" /\ ~Handled
  /\ ctl' = [ctl EXCEPT !.outstanding = TRUE, !.pc = "mark"]
  /\ \E left \in 0..gui.messages : gui' = [gui EXCEPT !.messages = left]
  /\ UNCHANGED <<client, stdin, stdout, block, executed, answered>>

\* if(outstanding) s->error=90
Mark ==
  /\ ctl.pc = "mark"
  /\ ctl' = [ctl EXCEPT !.pc = "print"]
  /\ block' = [block EXCEPT !.error = 90]
  /\ UNCHANGED <<client, stdin, stdout, gui, executed, answered>>

\* One read of the first printf.
ReadField ==
  /\ ctl.pc = "print"
  /\ \E f \in {"done", "error", "fields"} :
       /\ ctl.line[f] = NotRead
       /\ ctl' = [ctl EXCEPT !.line[f] = block[f]]
  /\ UNCHANGED <<client, stdin, stdout, block, gui, executed, answered>>

\* The last printf, with the data unless the error is set by now; then the loop, or
\* the end after a quit that is done.
Answer ==
  /\ ctl.pc = "print"
  /\ \A f \in DOMAIN ctl.line : ctl.line[f] # NotRead
  /\ stdout' = Append(stdout, [done |-> ctl.line.done, error |-> ctl.line.error, fields |-> ctl.line.fields,
                               data |-> IF block.error = 0 THEN block.fields ELSE 0])
  /\ ctl' = [ctl EXCEPT !.line = BlankLine,
                        !.pc = IF ctl.kind = "quit" /\ ~ctl.outstanding THEN "off" ELSE "loop"]
  /\ UNCHANGED <<client, stdin, block, gui, executed, answered>>

\* fgets fails: the client has gone.
InputEnds ==
  /\ ctl.pc = "loop" /\ stdin = <<>> /\ client.pc = "closed"
  /\ ctl' = [ctl EXCEPT !.pc = "drain"]
  /\ UNCHANGED <<client, stdin, stdout, block, gui, executed, answered>>

\* After the loop: wait for an outstanding call, then tell the hook to let go, unless the
\* last command did.  A window that is gone is not told.
Drain ==
  /\ ctl.pc = "drain" /\ ~Busy
  /\ \/ /\ block.kind # "quit"
        /\ ctl' = [ctl EXCEPT !.pc = "farewell"]
        /\ block' = [block EXCEPT !.kind = "quit", !.id = Farewell]
        /\ gui' = [gui EXCEPT !.messages = @ + 1]
     \/ /\ ctl' = [ctl EXCEPT !.pc = "off"]
        /\ UNCHANGED <<block, gui>>
  /\ UNCHANGED <<client, stdin, stdout, executed, answered>>

\* The farewell is handled or times out; the controller exits.
Leave ==
  /\ ctl.pc = "farewell"
  /\ ctl' = [ctl EXCEPT !.pc = "off"]
  /\ UNCHANGED <<client, stdin, stdout, block, gui, executed, answered>>

----------------------------------------------------------------------------
(* The hook in the GUI thread (handle).  It executes what the block holds. *)

Begin ==
  /\ gui.messages > 0 /\ gui.pc = "idle"
  /\ gui' = [messages |-> gui.messages - 1, pc |-> "working", id |-> block.id]
  /\ block' = [block EXCEPT !.error = 0]
  /\ executed' = Append(executed, block.id)
  /\ UNCHANGED <<client, stdin, stdout, ctl, answered>>

\* The hook cannot map the block: the message is handled and nothing happens.
Ignore ==
  /\ gui.messages > 0 /\ gui.pc = "idle"
  /\ gui' = [gui EXCEPT !.messages = @ - 1]
  /\ UNCHANGED <<client, stdin, stdout, ctl, block, executed, answered>>

\* What the command does and its results, before done is set.
Work ==
  /\ gui.pc = "working"
  /\ \E error \in HookErrors :
       block' = [block EXCEPT !.error = error, !.fields = IF error = 0 THEN gui.id ELSE 0]
  /\ gui' = [gui EXCEPT !.pc = "finishing"]
  /\ UNCHANGED <<client, stdin, stdout, ctl, executed, answered>>

Done ==
  /\ gui.pc = "finishing"
  /\ block' = [block EXCEPT !.done = 1]
  /\ gui' = [gui EXCEPT !.pc = "idle"]
  /\ UNCHANGED <<client, stdin, stdout, ctl, executed, answered>>

Client == Started \/ Ask \/ Timeout \/ EndOfOutput \/ Receive \/ ClientEnds
Controller == \/ RefuseBusy \/ RefuseTarget \/ Dispatch \/ Sent \/ GiveUp \/ Mark \/ ReadField
              \/ Answer \/ InputEnds \/ Drain \/ Leave
Hook == Begin \/ Ignore \/ Work \/ Done

Next == Client \/ Controller \/ Hook

Spec == Init /\ [][Next]_vars

\* The controller and the GUI thread keep running; the client may stop anywhere.
FairSpec == Spec /\ WF_vars(Controller) /\ WF_vars(Hook)

----------------------------------------------------------------------------
Line == [done : {0, 1}, error : Nat, fields : Nat, data : Nat]

\* Every variable stays in its domain; the block names a command of the client or the farewell.
TypeOK ==
  /\ client \in [pc : {"starting", "idle", "waiting", "closed"}, poisoned : BOOLEAN,
                 id : 0..MaxCalls, kind : Kinds \cup {"none", "quit"}]
  /\ stdin \in Seq([id : Command, kind : Kinds \cup {"quit"}])
  /\ stdout \in Seq(Line)
  /\ ctl \in [pc : {"loop", "sending", "mark", "print", "drain", "farewell", "off"},
              outstanding : BOOLEAN, kind : Kinds \cup {"none", "quit"},
              line : [done : {NotRead, 0, 1}, error : Nat \cup {NotRead}, fields : Nat \cup {NotRead}]]
  /\ block \in [id : 0..Farewell, kind : Kinds \cup {"none", "quit"}, done : {0, 1},
                error : Nat, fields : Nat]
  /\ gui \in [messages : Nat, pc : {"idle", "working", "finishing"}, id : 0..Farewell]
  /\ executed \in Seq(1..Farewell)
  /\ answered \subseteq [id : Command, line : Line]

\* _ask: an answer the client accepts is the answer to the command it just asked.  The GUI
\* thread has executed that very command and is done with it, and whatever the line
\* carries was computed for it; a late answer to an earlier command is never taken.
AnswerIsOwn ==
  \A a \in answered :
    /\ a.id \in Range(executed)
    /\ gui.pc # "idle" => gui.id # a.id
    /\ a.line.fields \in {0, a.id} /\ a.line.data \in {0, a.id}

\* controller.c, "outstanding": the GUI thread executes commands in the order they were
\* asked and none twice, though its messages carry no number and may be handled late.
ExecutedOnceInOrder == \A i, j \in DOMAIN executed : i < j => executed[i] < executed[j]

\* "stdin closing must not release the mapping the GUI still uses": when the controller
\* has gone, no command of the client waits in the GUI thread or runs there.
MappingOutlivesUse ==
  ctl.pc = "off" /\ (gui.messages > 0 \/ gui.pc # "idle") => block.id = Farewell

\* Once the client has gone the controller leaves, unless its message was lost.
ControllerLeaves ==
  client.pc = "closed" ~> (ctl.pc = "off" \/ (ctl.outstanding /\ block.done = 0 /\ gui.messages = 0 /\ gui.pc = "idle"))
=============================================================================
