----------------------------- MODULE Executor -----------------------------
(***************************************************************************)
(* The worker process (cn_futures_bridge/worker.py) and the executor it    *)
(* runs (terminal/executor.py, steps.py, orders.py, market.py): the only   *)
(* process that drives the terminal.  It serves one command at a time and  *)
(* executes a write as a sequence of journal saves around the key press    *)
(* that hands the order to the terminal.                                   *)
(*                                                                         *)
(* One action is one journal transaction, one command that touches no      *)
(* journal, or the key press itself.  Reads of the terminal (CSV exports,  *)
(* receipts, window snapshots) are nondeterministic: they may report that  *)
(* a request is refused, fail in one of the ways of Mishaps, or succeed.   *)
(* What counts as success follows the terminal where the property needs    *)
(* it: a send receipt and the row state "sent" exist only for an order the *)
(* terminal really got.                                                    *)
(***************************************************************************)
EXTENDS Journal

CONSTANTS
  NoRequest,  \* the worker serves no request
  Faults      \* which environment events may happen, see Dispatcher

VARIABLES
  wpc,        \* where the worker is; "down" when there is no process
  exiting,    \* a process acknowledged "stop" and has not exited yet
  exec,       \* the Executor object: blocked, error, native.poisoned, session
  steps,      \* the Steps object of the current write: request, effect, error
  msg,        \* a message to the dispatcher waits in the pipe
  wreply,     \* the reply that message carries
  late,       \* [Request -> BOOLEAN], the dispatch deadline has passed
  sent        \* [Request -> Nat], how often the terminal got r's order or cancel

workerVars == <<wpc, exiting, exec, steps, msg, wreply, sent>>

WorkerState == [blocked : BOOLEAN, error : ErrorCode, query_ready : BOOLEAN,
                trading_ready : BOOLEAN, ownership_clear : BOOLEAN]

\* worker.snapshot: what each message tells the dispatcher.
Snapshot ==
  LET ready == exec.session \in {"query", "trade"} /\ ~exec.blocked /\ ~exec.poisoned IN
  [blocked |-> exec.blocked, error |-> exec.error, query_ready |-> ready,
   trading_ready |-> ready /\ exec.session = "trade", ownership_clear |-> ~exec.poisoned]

\* session: "lost" when the login was never confirmed or another login was seen,
\* "none" when the connection dropped or the bound identity changed, so that only a
\* rebinding resume can use it again; else bound, with a trading day or without.
NewExecutor == [blocked |-> FALSE, error |-> "NONE", poisoned |-> FALSE, session |-> "lost"]

NoSteps == [request |-> NoRequest, effect |-> "none", error |-> "NONE"]

ExecutorInit ==
  /\ wpc = "down"
  /\ exiting = FALSE
  /\ exec = NewExecutor
  /\ steps = NoSteps
  /\ msg = FALSE
  /\ wreply = NoReply
  /\ late = [r \in Request |-> FALSE]
  /\ sent = [r \in Request |-> 0]

\* Executor.fail
Fail(x, code) == [x EXCEPT !.blocked = TRUE, !.error = code]

\* How validate_session can fail: the connection is seen down, another identity or
\* login is found; a lost login stays lost.
SessionErrors(x) ==
  IF x.session = "lost" THEN {<<"SERVICE_NOT_READY", x>>}
  ELSE {<<"CONNECTION_LOST", [x EXCEPT !.session = "none"]>>,
        <<"SERVICE_NOT_READY", [x EXCEPT !.session = "none"]>>,
        <<"SERVICE_NOT_READY", [x EXCEPT !.session = "lost"]>>}

\* The GUI does not answer, or a native call times out and poisons the client for good.
GuiErrors(x) == {<<"GUI_UNRESPONSIVE", x>>, <<"GUI_UNRESPONSIVE", [x EXCEPT !.poisoned = TRUE]>>}

Mishaps(x) == IF "mishap" \in Faults THEN SessionErrors(x) \cup GuiErrors(x) ELSE {}

\* The artifact directory cannot be kept within its limits.
ArtifactErrors(x) == {<<"STORAGE_UNAVAILABLE", x>> : o \in Storage \ {"ok"}}

\* worker.send: the command is answered and the worker waits for the next one.
Send(reply) == wpc' = "idle" /\ msg' = TRUE /\ wreply' = reply

-----------------------------------------------------------------------------
(* Commands without a request.                                              *)

\* worker_main up to its first message: Executor.start logs in and binds the
\* session, or fails before or after that and leaves the executor blocked.
WStartup ==
  /\ wpc = "boot"
  /\ \/ \E s \in {"query", "trade"} : exec' = [NewExecutor EXCEPT !.session = s]
     \/ \E s \in {"lost", "query", "trade"} :
          \E m \in Mishaps([NewExecutor EXCEPT !.session = s]) : exec' = Fail(m[2], m[1])
     \/ "mishap" \in Faults /\ exec' = Fail(NewExecutor, "CONNECTION_FAILED")
  /\ Send(NoReply)
  /\ UNCHANGED <<db, exiting, steps, late, sent>>

\* "probe": nothing while blocked, else validate_session and ensure_ready.
WProbe ==
  /\ wpc = "probe"
  /\ \/ exec' = exec
     \/ /\ ~exec.blocked
        /\ \E m \in Mishaps(exec) : exec' = Fail(m[2], m[1])
     \/ Storage # {"ok"} /\ exec' = Fail(exec, "STORAGE_UNAVAILABLE")
  /\ Send(NoReply)
  /\ UNCHANGED <<db, exiting, steps, late, sent>>

\* The session validated anew, which a lost login never is.
Rebound == {[exec EXCEPT !.session = s] : s \in IF exec.session = "lost" THEN {} ELSE {"query", "trade"}}

\* "resume": refused for ever once the native client is poisoned or the login lost.
WResume ==
  /\ wpc = "resume"
  /\ \/ exec.poisoned /\ exec' = Fail(exec, "GUI_UNRESPONSIVE")
     \/ ~exec.poisoned /\ \E x \in Rebound : exec' = [x EXCEPT !.blocked = FALSE, !.error = "NONE"]
     \/ ~exec.poisoned /\ \E x \in Rebound \cup {exec} : \E m \in Mishaps(x) : exec' = Fail(m[2], m[1])
     \/ Storage # {"ok"} /\ exec' = Fail(exec, "STORAGE_UNAVAILABLE")
  /\ Send(NoReply)
  /\ UNCHANGED <<db, exiting, steps, late, sent>>

\* "stop": the native controller is closed, the command answered, main returns; a
\* controller that does not close ends main without an answer.
WStop ==
  /\ wpc = "stop"
  /\ wpc' = "down" /\ exiting' = TRUE /\ wreply' = NoReply
  /\ msg' = TRUE \/ ("mishap" \in Faults /\ ~exec.poisoned /\ msg' = msg)
  /\ UNCHANGED <<db, exec, steps, late, sent>>

WExit ==
  /\ exiting
  /\ exiting' = FALSE
  /\ UNCHANGED <<db, wpc, exec, steps, msg, wreply, late, sent>>

\* The process dies; what it saved and what the terminal got stays.
WDie ==
  /\ "workerDeath" \in Faults
  /\ wpc # "down"
  /\ wpc' = "down"
  /\ UNCHANGED <<db, exiting, exec, steps, msg, wreply, late, sent>>

-----------------------------------------------------------------------------
(* "execute": a query answers at once, a write walks through its steps.     *)

At(pc) == wpc = pc /\ UNCHANGED <<exiting, late>>

Silent == UNCHANGED <<msg, wreply>>

\* The exception handlers of execute: the error is kept, cleanup comes next.
Raise(code, x) ==
  /\ steps' = [steps EXCEPT !.error = code]
  /\ exec' = x
  /\ wpc' = "cleanup"
  /\ Silent /\ UNCHANGED <<db, sent>>

\* A step may also end in an error that concerns this request only.
Failures(x) == Mishaps(x) \cup ArtifactErrors(x) \cup {<<"REFUSED", x>>}

Trouble == \E m \in Failures(exec) : Raise(m[1], m[2])

\* The facts read back do not prove what happened.
Unproven == Raise("OPERATION_STATUS_UNKNOWN", exec)

\* Steps.save: the effect is set in memory first, then the journal row; a failed
\* save or a missing row raises STORAGE_UNAVAILABLE.
Save(phase, effect, next) ==
  LET r == steps.request IN
  \E o \in Storage :
    LET saved == o = "ok" /\ db[r].phase # "absent" IN
    /\ db' = Commit(o, db, SavePhase(db, r, phase, effect))
    /\ steps' = [steps EXCEPT !.effect = IF effect = "none" THEN @ ELSE effect,
                              !.error = IF saved THEN @ ELSE "STORAGE_UNAVAILABLE"]
    /\ wpc' = IF saved THEN next ELSE "cleanup"
    /\ Silent /\ UNCHANGED <<exec, sent>>

\* Refused before execute runs: logs unwritable, or the dispatch deadline passed.
WReject ==
  /\ At("execute")
  /\ \/ /\ late[steps.request]
        /\ exec' = exec
        /\ Send([code |-> "QUEUE_TIMEOUT", effect |-> "none"])
     \/ /\ Storage # {"ok"}
        /\ exec' = Fail(exec, "STORAGE_UNAVAILABLE")
        /\ Send([code |-> "STORAGE_UNAVAILABLE", effect |-> "none"])
  /\ UNCHANGED <<db, steps, sent>>

\* What ends prepare: a mishap, a full disk, or the executor was blocked before.
PrepareErrors ==
  Mishaps(exec) \cup ArtifactErrors(exec) \cup {m \in {<<"SERVICE_NOT_READY", exec>>} : exec.blocked}

WQuery ==
  /\ At("execute")
  /\ Kind[steps.request] = "query"
  /\ ~late[steps.request]
  /\ \/ ~exec.blocked /\ exec' = exec /\ \E c \in {"ACCEPTED", "REFUSED"} : Send([code |-> c, effect |-> "none"])
     \/ \E m \in PrepareErrors :
          exec' = Fail(m[2], m[1]) /\ Send([code |-> m[1], effect |-> "none"])
  /\ UNCHANGED <<db, steps, sent>>

\* prepare fails before the operation owns anything: no cleanup, no effect.
WPrepareFails ==
  /\ At("execute")
  /\ Kind[steps.request] # "query"
  /\ ~late[steps.request]
  /\ \E m \in PrepareErrors :
       /\ exec' = Fail(m[2], m[1])
       /\ steps' = [steps EXCEPT !.error = m[1]]
       /\ wreply' = [code |-> m[1], effect |-> "none"]
  /\ wpc' = "finish"
  /\ UNCHANGED <<db, msg, sent>>

\* prepare: the session and the GUI are ready, the trading day is known.
WPrepare ==
  /\ At("execute")
  /\ Kind[steps.request] # "query"
  /\ ~late[steps.request]
  /\ ~exec.blocked
  /\ IF exec.session = "trade" THEN Save("started", "none", "started")
     ELSE Raise("SERVICE_NOT_READY", exec)

\* Mutant of WStarted: the save before a cancel's key forgets the effect.
WStartedQuiet ==
  /\ At("started")
  /\ \/ Trouble
     \/ Kind[steps.request] = "order" /\ Save("importing", "unknown", "importing")
     \/ Kind[steps.request] = "cancel" /\ Save("submitting", "none", "armed")

\* Price rules, instrument data, position snapshot, duplicate rows: read only.
\* Then the write-ahead save: before the import (order) or the key (cancel).
WStarted ==
  /\ At("started")
  /\ \/ Trouble
     \/ Kind[steps.request] = "order" /\ Save("importing", "unknown", "importing")
     \/ Kind[steps.request] = "cancel" /\ Save("submitting", "unknown", "armed")

\* The preorder row is created and read back.
WImport ==
  /\ At("importing")
  /\ \/ Trouble \/ Unproven
     \/ Save("parameters_verified", "none", "bound")

\* The terminal imported nothing and the table did not change: rejected.
WImportRejected ==
  /\ At("importing")
  /\ \E o \in Storage :
       LET saved == o = "ok" /\ db[steps.request].phase # "absent" IN
       /\ db' = Commit(o, db, SavePhase(db, steps.request, "rejected", "rejected"))
       /\ steps' = [steps EXCEPT !.effect = "rejected",
                                 !.error = IF saved THEN "REFUSED" ELSE "STORAGE_UNAVAILABLE"]
  /\ wpc' = "cleanup"
  /\ Silent /\ UNCHANGED <<exec, sent>>

\* The row is selected and re-read, the receipt armed, the intent saved.
WArm ==
  /\ At("bound")
  /\ \/ Trouble
     \/ Save("submitting", "unknown", "armed")

Deliver(r) == sent' = [sent EXCEPT ![r] = @ + 1]

\* Alt+Q or Delete.  The key may be swallowed; the key tool may fail although the
\* terminal got the key.
WKey ==
  /\ At("armed")
  /\ Deliver(steps.request) \/ sent' = sent
  /\ \/ wpc' = "keyed" /\ UNCHANGED <<exec, steps>>
     \/ \E m \in Failures(exec) :
          wpc' = "cleanup" /\ exec' = m[2] /\ steps' = [steps EXCEPT !.error = m[1]]
  /\ Silent /\ UNCHANGED db

\* Mutant of WCapture: any receipt will do.
WCaptureAny ==
  /\ At("keyed")
  /\ Kind[steps.request] = "order"
  /\ Trouble \/ Save("identity_captured", "none", "captured")

\* Mutant of WCapture: without a receipt the key is pressed again.
WCaptureRetry ==
  /\ At("keyed")
  /\ Kind[steps.request] = "order"
  /\ wpc' = "armed" /\ Silent /\ UNCHANGED <<db, exec, steps, sent>>

\* finish_capture: exactly one receipt of this send, or the identity is unknown.
WCapture ==
  /\ At("keyed")
  /\ Kind[steps.request] = "order"
  /\ \/ Trouble \/ Unproven
     \/ sent[steps.request] > 0 /\ Save("identity_captured", "none", "captured")

\* The local row reads "sent".
WSubmitted ==
  /\ At("captured")
  /\ Trouble \/ Unproven \/ Save("submitted", "submitted", "verify")

\* A cancel dialog appeared and names the order: Return confirms it.
WConfirm ==
  /\ At("keyed")
  /\ Kind[steps.request] = "cancel"
  /\ sent[steps.request] = 0
  /\ \/ Deliver(steps.request) /\ wpc' = "confirmed" /\ UNCHANGED <<exec, steps>>
     \/ \E m \in Failures(exec) :
          /\ Deliver(steps.request) \/ sent' = sent
          /\ wpc' = "cleanup" /\ exec' = m[2] /\ steps' = [steps EXCEPT !.error = m[1]]
  /\ Silent /\ UNCHANGED db

WConfirmed ==
  /\ At("confirmed")
  /\ Save("submitted", "submitted", "verify")

\* No dialog within the wait, or one that does not name the order.
WNoDialog ==
  /\ At("keyed")
  /\ Kind[steps.request] = "cancel"
  /\ \/ wpc' = "verify" /\ Silent /\ UNCHANGED <<db, exec, steps, sent>>
     \/ Trouble
     \/ Raise("GUI_UNRESPONSIVE", exec)

\* verifier.observe and the last validate_session.  A cancel still unknown needs
\* the order's final state in the CSV to count as submitted.
WVerify ==
  /\ At("verify")
  /\ \/ Trouble
     \/ IF steps.effect = "unknown"
        THEN Unproven \/ Save("cancel_observed", "submitted", "verify")
        ELSE wpc' = "cleanup" /\ Silent /\ UNCHANGED <<db, exec, steps, sent>>

\* Errors after which the executor refuses further work, whatever the effect.
Blocking == {"CONNECTION_FAILED", "CONNECTION_LOST", "GUI_UNRESPONSIVE",
             "STORAGE_UNAVAILABLE", "SERVICE_NOT_READY"}

\* How the clean-up ends: the error so far stands, or a read or a native call of its
\* own fails and replaces it; once poisoned nothing can be cleaned up.
CleanupEnds ==
  LET broken == {<<"GUI_UNRESPONSIVE", m[2]>> : m \in Mishaps(exec)} IN
  IF exec.poisoned THEN {<<"GUI_UNRESPONSIVE", exec>>} ELSE {<<steps.error, exec>>} \cup broken

\* The finally block: clean up, decide whether the executor is blocked, build the reply.
WCleanup ==
  /\ At("cleanup")
  /\ \E end \in CleanupEnds :
       LET code == end[1]
           x == end[2]
           blocks == code \in Blocking \/ (code # "NONE" /\ steps.effect = "unknown")
       IN
       /\ exec' = IF blocks THEN Fail(x, code) ELSE x
       /\ steps' = [steps EXCEPT !.error = code]
       /\ wreply' = IF code = "NONE" THEN [code |-> "ACCEPTED", effect |-> "submitted"]
                    ELSE [code |-> code, effect |-> steps.effect]
  /\ wpc' = "finish"
  /\ UNCHANGED <<db, msg, sent>>

\* Artifacts and journal.finish; a failure replaces the reply and blocks.
WFinish ==
  /\ At("finish")
  /\ \E o \in Storage :
       /\ db' = Commit(o, db, Finish(db, steps.request, wreply))
       /\ IF o = "ok" THEN exec' = exec /\ Send(wreply)
          ELSE /\ exec' = Fail(exec, "STORAGE_UNAVAILABLE")
               /\ Send([code |-> "STORAGE_UNAVAILABLE", effect |-> steps.effect])
  /\ UNCHANGED <<steps, sent>>

WStep ==
  \/ WStartup \/ WProbe \/ WResume \/ WStop \/ WExit \/ WDie
  \/ WReject \/ WQuery \/ WPrepareFails \/ WPrepare \/ WStarted
  \/ WImport \/ WImportRejected \/ WArm \/ WKey \/ WCapture \/ WSubmitted
  \/ WConfirm \/ WConfirmed \/ WNoDialog \/ WVerify \/ WCleanup \/ WFinish

=============================================================================
