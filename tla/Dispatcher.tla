---------------------------- MODULE Dispatcher ----------------------------
(***************************************************************************)
(* The dispatcher (cn_futures_bridge/dispatch.py) composed with the HTTP   *)
(* handlers that wait for it (http_execution.py), the operator's control   *)
(* channel (service.py, control.py), the desktop runtime it asks for a new *)
(* terminal (runtime.py), the worker process (Executor) and the journal.   *)
(*                                                                         *)
(* Threads.  The dispatcher thread runs _run/_loop; dpc says where it is.  *)
(* HTTP handlers and the control thread run submit, cancel, pause, resume. *)
(* All share one lock (Dispatcher.condition); one action is one critical   *)
(* section, except where a section makes two journal transactions that the *)
(* worker process can interleave with, or reads an event another thread    *)
(* sets without the lock: then it is several actions and Locked keeps the  *)
(* other sections out.                                                     *)
(*                                                                         *)
(* Time.  A deadline that has passed is a bit set by an action of its own  *)
(* (late) or a choice (retry due, exchange timed out).  Every state change *)
(* that time alone causes is thereby possible at any moment.               *)
(***************************************************************************)
EXTENDS Executor, ReconnectPlan, Sequences, SequencesExt

CONSTANTS
  QueueCapacity,   \* execution.queue_capacity
  MaxBoots         \* bound: how often the service is started again

ASSUME QueueAssumption == QueueCapacity \in Nat \ {0}

ASSUME NoRequestAssumption == NoRequest \notin Request

\* Events of the environment, enabled by Faults:
\*   mishap        the terminal fails (see Executor)
\*   workerDeath   the worker process dies
\*   slowWorker    the worker answers later than the exchange deadline
\*   slowSteps     step_timeout_ms > 5000: "resume" may outlast its caller's 25 s
\*   runtimeError  the desktop runtime reports an error
\*   crash         the container dies and is started again
\*   stop          the service is asked to stop
\*   disconnect    an HTTP client goes away
\*   deadline      a queued job passes its deadline
\*   operator      pause and resume are used
\*   aging         the idempotency TTL passes
FaultNames == {"mishap", "workerDeath", "slowWorker", "slowSteps", "runtimeError", "crash",
               "stop", "disconnect", "deadline", "operator", "aging"}

ASSUME FaultsAssumption == Faults \subseteq FaultNames

VARIABLES
  dpc,            \* where the dispatcher thread is; "off" when the service is down
  queue,          \* jobs not started, oldest first
  active,         \* the started job
  paused, stopping, ready, failed,
  owner_busy,     \* the thread is using the worker
  state,          \* the last WorkerState received (or edited by the thread)
  unresolved,     \* cached: some journal row has effect "unknown"
  reconnect,      \* the ReconnectPlan
  resume_future,  \* a resume call waits for the thread
  handle,         \* WorkerProcess.process/connection are set
  pending,        \* the reply the isolation handler is about to save
  future,         \* [Request -> Reply], the job's result
  cancelled,      \* [Request -> BOOLEAN], the HTTP side has set the event
  http,           \* [Request -> where the HTTP handler is]
  resp,           \* [Request -> what the handler returned, and for which request]
  ctl,            \* what the control thread is waiting in
  human,          \* pause reported success and resume was not called since
  held,           \* unknown rows existed at start and resume was not called since
  rtError,        \* Runtime.error is set
  boots           \* number of restarts so far

jobVars == <<queue, active, future>>
saveVars == <<failed, unresolved>>
viewVars == <<state, reconnect>>
flagVars == <<paused, stopping, ready, owner_busy>>
linkVars == <<resume_future, handle, pending>>
httpVars == <<cancelled, http, resp>>
controlVars == <<ctl, human, held>>
envVars == <<rtError, boots>>
outsideVars == <<httpVars, controlVars, envVars>>
vars == <<db, workerVars, late, dpc, jobVars, saveVars, viewVars, flagVars, linkVars, outsideVars>>

NoResponse == [of |-> NoRequest, reply |-> NoReply]

InitialState == [blocked |-> FALSE, error |-> "NONE", query_ready |-> FALSE,
                 trading_ready |-> FALSE, ownership_clear |-> FALSE]

Init ==
  /\ db = [r \in Request |-> NoRow]
  /\ ExecutorInit
  /\ dpc = "window" /\ queue = <<>> /\ active = NoRequest
  /\ paused = FALSE /\ stopping = FALSE /\ ready = FALSE /\ failed = FALSE
  /\ owner_busy = FALSE /\ state = InitialState /\ unresolved = FALSE
  /\ reconnect = NewPlan /\ resume_future = FALSE /\ handle = FALSE
  /\ pending = NoReply /\ future = [r \in Request |-> NoReply]
  /\ cancelled = [r \in Request |-> FALSE]
  /\ http = [r \in Request |-> "idle"] /\ resp = [r \in Request |-> NoResponse]
  /\ ctl = "idle" /\ human = FALSE /\ held = FALSE
  /\ rtError = FALSE /\ boots = 0

\* Mutant of Locked: the lock is released between the checks and the dispatch.
LockedLess == dpc \in {"isolate_save", "isolate_recover"}

\* Sections of the dispatcher thread that hold the lock over several actions.
Locked == dpc \in {"sweep", "choose", "isolate_save", "isolate_recover"}

Queued == ToSet(queue)

-----------------------------------------------------------------------------
(* Shared by the critical sections.                                          *)

\* Mutant of Told: the caller hears the result although it was not saved.
ToldAnyway(r, reply, o) == reply

\* What the caller of r hears when the save of its reply ended as o.
Told(r, reply, o) ==
  IF r \in WRITE_ACTIONS /\ o # "ok"
  THEN [code |-> "STORAGE_UNAVAILABLE", effect |-> reply.effect]
  ELSE reply

\* _finish for the jobs of set V with replies R, journal outcomes o: writes are
\* saved and the unresolved count refreshed; a failed save stops the dispatcher
\* and is told to the caller; a result already set is kept.
Answered(V, R, o) ==
  LET W == V \cap WRITE_ACTIONS IN
  /\ db' = [r \in Request |-> IF r \in W THEN Commit(o[r], db[r], FinishRow(db[r], R[r])) ELSE db[r]]
  /\ unresolved' = IF \E r \in W : o[r] = "ok" THEN Unresolved(db') ELSE unresolved
  /\ failed' = (failed \/ \E r \in W : o[r] # "ok")
  /\ future' = [r \in Request |-> IF r \in V /\ future[r] = NoReply THEN Told(r, R[r], o[r]) ELSE future[r]]

\* state.error after _finish may have failed
Marked(st) == IF failed' /\ ~failed THEN [st EXCEPT !.error = "STORAGE_UNAVAILABLE"] ELSE st

\* Mutant of NotRun: the absent status is written out as a word.
NotRunText(code) == [code |-> code, effect |-> "null"]

NotRun(code) == [code |-> code, effect |-> "none"]

\* _update_recovery: a runtime error blocks; a blocked, failed or unconnected
\* dispatcher answers every queued job "not executed"; then the plan is told.
UpdateRecovery ==
  LET base == IF rtError
              THEN [state EXCEPT !.blocked = TRUE, !.query_ready = FALSE, !.trading_ready = FALSE]
              ELSE state
      victims == IF base.blocked \/ failed \/ ~base.query_ready THEN Queued ELSE {}
  IN
  \E o \in [victims -> Storage] :
    /\ Answered(victims, [r \in victims |-> NotRun("SERVICE_NOT_READY")], o)
    /\ queue' = IF victims = {} THEN queue ELSE <<>>
    /\ state' = Marked(base)
    /\ reconnect' = Observe(reconnect,
                            IF rtError THEN "RUNTIME" ELSE state'.error,
                            base.ownership_clear /\ ~unresolved' /\ ~failed' /\ ~rtError)

\* The thread hands a command to the worker; a dead worker never answers.
Command(kind) ==
  /\ wpc' = IF wpc = "idle" THEN kind ELSE wpc
  /\ UNCHANGED <<exiting, exec, msg, wreply, sent, late>>

Goto(from, to) == dpc = from /\ dpc' = to

-----------------------------------------------------------------------------
(* The dispatcher thread: start.                                             *)

\* WorkerProcess.start, when the first window is visible or after a restart of the
\* terminal: never a second process before the old one is known to be gone.
DSpawn ==
  /\ dpc \in {"window", "rc_spawn"}
  /\ IF handle
     THEN dpc' = "isolate" /\ UNCHANGED <<handle, wpc>>
     ELSE /\ dpc' = IF dpc = "window" THEN "starting" ELSE "restarting"
          /\ handle' = TRUE
          /\ wpc' = "boot"
  /\ UNCHANGED <<db, exiting, exec, steps, msg, wreply, sent, late, jobVars, saveVars, viewVars,
                 flagVars, resume_future, pending, outsideVars>>

\* Stopped, in error, or out of time before the window is visible.
DNoWindow ==
  /\ dpc = "window"
  /\ stopping \/ rtError \/ "runtimeError" \in Faults
  /\ dpc' = IF stopping THEN "drain" ELSE "isolate"
  /\ UNCHANGED <<db, workerVars, late, jobVars, saveVars, viewVars, flagVars, linkVars, outsideVars>>

\* _start_worker: the startup message is in; requests may be admitted from here on.
DStarted ==
  /\ dpc \in {"starting", "restarting"}
  /\ msg
  /\ msg' = FALSE
  /\ state' = Snapshot
  /\ ready' = TRUE
  /\ dpc' = IF dpc = "starting" THEN "init" ELSE "post"
  /\ UNCHANGED <<db, wpc, exiting, exec, steps, wreply, sent, late, jobVars, saveVars, reconnect,
                 paused, stopping, owner_busy, linkVars, outsideVars>>

\* Mutant of DInitialPause: the unknown rows are not looked at.
DInitialRun ==
  /\ Goto("init", "loop")
  /\ UNCHANGED <<db, workerVars, late, jobVars, saveVars, viewVars, flagVars, linkVars, outsideVars>>

\* With unknown rows the dispatcher starts paused.
DInitialPause ==
  /\ Goto("init", "loop")
  /\ paused' = (paused \/ unresolved)
  /\ UNCHANGED <<db, workerVars, late, jobVars, saveVars, viewVars, stopping, ready, owner_busy,
                 linkVars, outsideVars>>

-----------------------------------------------------------------------------
(* The dispatcher thread: one round of _loop, its first section.             *)

DRecover ==
  /\ Goto("loop", "sweep")
  /\ ~stopping /\ ~failed
  /\ UpdateRecovery
  /\ UNCHANGED <<workerVars, late, active, flagVars, linkVars, outsideVars>>

\* Job i of the queue leaves it unexecuted (Dispatcher.cancel).
Discard(i, code) ==
  LET r == queue[i] IN
  \E o \in Storage :
    /\ Answered({r}, [q \in {r} |-> NotRun(code)], [q \in {r} |-> o])
    /\ queue' = RemoveAt(queue, i)
    /\ state' = Marked(state)

\* Jobs whose client is gone or whose deadline has passed.
DSweep ==
  /\ dpc = "sweep"
  /\ \E i \in DOMAIN queue :
       \/ cancelled[queue[i]] /\ Discard(i, "REQUEST_CANCELLED")
       \/ ~cancelled[queue[i]] /\ late[queue[i]] /\ Discard(i, "QUEUE_TIMEOUT")
  /\ UNCHANGED <<workerVars, late, dpc, active, reconnect, flagVars, linkVars, outsideVars>>

DSweepDone ==
  /\ Goto("sweep", "choose")
  /\ \A i \in DOMAIN queue : ~cancelled[queue[i]] /\ ~late[queue[i]]
  /\ UNCHANGED <<db, workerVars, late, jobVars, saveVars, viewVars, flagVars, linkVars, outsideVars>>

DChooseResume ==
  /\ Goto("choose", "resuming")
  /\ resume_future
  /\ owner_busy' = TRUE
  /\ Command("resume")
  /\ UNCHANGED <<db, steps, jobVars, saveVars, viewVars, paused, stopping, ready, linkVars, outsideVars>>

\* The retry is due: the old worker is asked to stop.
DChooseReconnect ==
  /\ Goto("choose", "rc_stop")
  /\ ~resume_future /\ ~paused /\ reconnect.deadline
  /\ reconnect' = Begin(reconnect)
  /\ ready' = FALSE
  /\ owner_busy' = TRUE
  /\ Command("stop")
  /\ UNCHANGED <<db, steps, jobVars, saveVars, state, paused, stopping, linkVars, outsideVars>>

DChooseIdle ==
  /\ Goto("choose", "loop")
  /\ ~resume_future
  /\ paused \/ state.blocked \/ queue = <<>>
  /\ UNCHANGED <<db, workerVars, late, jobVars, saveVars, viewVars, flagVars, linkVars, outsideVars>>

DChooseProbe ==
  /\ Goto("choose", "probing")
  /\ ~resume_future /\ ~paused /\ ~state.blocked /\ queue = <<>>
  /\ owner_busy' = TRUE
  /\ Command("probe")
  /\ UNCHANGED <<db, steps, jobVars, saveVars, viewVars, paused, stopping, ready, linkVars, outsideVars>>

\* The oldest job starts; the worker gets a fresh Steps object for it.
DChooseDispatch ==
  /\ Goto("choose", "executing")
  /\ ~resume_future /\ ~paused /\ ~state.blocked /\ queue # <<>>
  /\ active' = Head(queue)
  /\ queue' = Tail(queue)
  /\ owner_busy' = TRUE
  /\ Command("execute")
  /\ steps' = IF wpc = "idle" THEN [NoSteps EXCEPT !.request = Head(queue)] ELSE steps
  /\ UNCHANGED <<db, future, saveVars, viewVars, paused, stopping, ready, linkVars, outsideVars>>

-----------------------------------------------------------------------------
(* The dispatcher thread: the exchange with the worker and what follows it.  *)

\* _exchange returned: the worker's state replaces the old one.
DReceive ==
  /\ dpc \in {"resuming", "probing", "executing"}
  /\ msg
  /\ msg' = FALSE
  /\ state' = Snapshot
  /\ dpc' = CASE dpc = "resuming" -> "resumed" [] dpc = "executing" -> "executed" [] OTHER -> "post"
  /\ UNCHANGED <<db, wpc, exiting, exec, steps, wreply, sent, late, jobVars, saveVars, reconnect,
                 flagVars, linkVars, outsideVars>>

\* Mutant of DLost: a closed pipe is not noticed.
DLostSlow ==
  /\ dpc \in {"starting", "restarting", "resuming", "probing", "executing", "rc_stop", "st_stop"}
  /\ "slowWorker" \in Faults
  /\ dpc' = "isolate"
  /\ UNCHANGED <<db, workerVars, late, jobVars, saveVars, viewVars, flagVars, linkVars, outsideVars>>

\* No answer in time, or the pipe is closed.
DLost ==
  /\ dpc \in {"starting", "restarting", "resuming", "probing", "executing", "rc_stop", "st_stop"}
  /\ "slowWorker" \in Faults \/ (wpc = "down" /\ ~msg)
  /\ dpc' = "isolate"
  /\ UNCHANGED <<db, workerVars, late, jobVars, saveVars, viewVars, flagVars, linkVars, outsideVars>>

DResumed ==
  /\ Goto("resumed", "post")
  /\ paused' = (paused /\ state.blocked)
  /\ resume_future' = FALSE
  /\ UNCHANGED <<db, workerVars, late, jobVars, saveVars, viewVars, stopping, ready, owner_busy,
                 handle, pending, outsideVars>>

DExecuted ==
  /\ Goto("executed", "post")
  /\ \E o \in Storage : Answered({active}, [q \in {active} |-> wreply], [q \in {active} |-> o])
  /\ state' = Marked(state)
  /\ active' = NoRequest
  /\ UNCHANGED <<workerVars, late, queue, reconnect, flagVars, linkVars, outsideVars>>

\* The last section of a round.
DPost ==
  /\ Goto("post", "loop")
  /\ owner_busy' = FALSE
  /\ UpdateRecovery
  /\ UNCHANGED <<workerVars, late, active, paused, stopping, ready, linkVars, outsideVars>>

-----------------------------------------------------------------------------
(* The dispatcher thread: reconnection, the end of the loop, isolation.      *)

\* WorkerProcess.stop got its answer and joins the process.
DStopAcked ==
  /\ dpc \in {"rc_stop", "st_stop"}
  /\ msg
  /\ msg' = FALSE
  /\ dpc' = IF dpc = "rc_stop" THEN "rc_join" ELSE "st_join"
  /\ UNCHANGED <<db, wpc, exiting, exec, steps, wreply, sent, late, jobVars, saveVars, viewVars,
                 flagVars, linkVars, outsideVars>>

\* Mutant of DJoin: the acknowledged stop is taken for the exit.
DJoinBlind ==
  /\ dpc \in {"rc_join", "st_join"}
  /\ handle' = FALSE
  /\ dpc' = IF dpc = "st_join" THEN "drain" ELSE IF stopping THEN "post" ELSE "rc_restart"
  /\ UNCHANGED <<db, workerVars, late, jobVars, saveVars, viewVars, flagVars, resume_future, pending,
                 outsideVars>>

\* The exit is confirmed within 3 s, or the old owner is kept isolated.
DJoin ==
  /\ dpc \in {"rc_join", "st_join"}
  /\ \/ /\ ~exiting
        /\ handle' = FALSE
        /\ dpc' = IF dpc = "st_join" THEN "drain" ELSE IF stopping THEN "post" ELSE "rc_restart"
     \/ /\ exiting /\ "slowWorker" \in Faults
        /\ handle' = handle
        /\ dpc' = "isolate"
  /\ UNCHANGED <<db, workerVars, late, jobVars, saveVars, viewVars, flagVars, resume_future, pending,
                 outsideVars>>

\* Runtime.restart_terminal: the Wine session is replaced.
DRestart ==
  /\ dpc = "rc_restart"
  /\ ~rtError
  /\ dpc' = IF stopping THEN "post" ELSE "rc_spawn"
  /\ UNCHANGED <<db, workerVars, late, jobVars, saveVars, viewVars, flagVars, linkVars, outsideVars>>

\* It refuses after an error or a stop; a failure of its own sets the runtime error.
DRestartFails ==
  /\ Goto("rc_restart", "isolate")
  /\ \/ (rtError \/ stopping) /\ rtError' = rtError
     \/ "runtimeError" \in Faults /\ rtError' = TRUE
  /\ UNCHANGED <<db, workerVars, late, jobVars, saveVars, viewVars, flagVars, linkVars, httpVars,
                 controlVars, boots>>

DExit ==
  /\ dpc = "loop"
  /\ stopping \/ failed
  /\ IF ~failed /\ handle THEN dpc' = "st_stop" /\ Command("stop")
     ELSE dpc' = "drain" /\ UNCHANGED <<wpc, exiting, exec, msg, wreply, sent, late>>
  /\ UNCHANGED <<db, steps, jobVars, saveVars, viewVars, flagVars, linkVars, outsideVars>>

\* The handler of _run: the dispatcher is failed for good.  For a started write the
\* reply is what the journal holds; a read failure leaves it unknown.
DIsolate ==
  /\ Goto("isolate", "isolate_save")
  /\ failed' = TRUE
  /\ state' = [state EXCEPT !.blocked = TRUE, !.error = "GUI_UNRESPONSIVE"]
  /\ IF active \in WRITE_ACTIONS
     THEN \E o \in Storage :
            pending' = IF o = "ok" THEN Interrupted(db, active)
                       ELSE [code |-> "STORAGE_UNAVAILABLE", effect |-> "unknown"]
     ELSE pending' = NotRun("GUI_UNRESPONSIVE")
  /\ UNCHANGED <<db, workerVars, late, jobVars, unresolved, reconnect, flagVars, resume_future, handle,
                 outsideVars>>

DIsolateSave ==
  /\ Goto("isolate_save", "isolate_recover")
  /\ LET V == {active} \ {NoRequest} IN
     \E o \in [V -> Storage] : Answered(V, [q \in V |-> pending], o)
  /\ state' = Marked(state)
  /\ UNCHANGED <<workerVars, late, queue, active, reconnect, flagVars, linkVars, outsideVars>>

DIsolateRecover ==
  /\ Goto("isolate_recover", "drain")
  /\ UpdateRecovery
  /\ UNCHANGED <<workerVars, late, active, flagVars, linkVars, outsideVars>>

\* Mutant of DDrain: the queue is thrown away.
DDrainSilent ==
  /\ Goto("drain", "stopped")
  /\ queue' = <<>>
  /\ UNCHANGED <<db, workerVars, late, active, future, saveVars, viewVars, flagVars, linkVars, outsideVars>>

\* The finally block of _run: nothing stays queued.
DDrain ==
  /\ Goto("drain", "stopped")
  /\ \E o \in [Queued -> Storage] :
       Answered(Queued, [q \in Queued |-> NotRun("SERVICE_NOT_READY")], o)
  /\ queue' = <<>>
  /\ state' = Marked(state)
  /\ UNCHANGED <<workerVars, late, active, reconnect, flagVars, linkVars, outsideVars>>

DNext ==
  \/ DSpawn \/ DNoWindow \/ DStarted \/ DInitialPause
  \/ DRecover \/ DSweep \/ DSweepDone \/ DChooseResume \/ DChooseReconnect \/ DChooseIdle
  \/ DChooseProbe \/ DChooseDispatch \/ DReceive \/ DLost \/ DResumed \/ DExecuted \/ DPost
  \/ DStopAcked \/ DJoin \/ DRestart \/ DRestartFails \/ DExit
  \/ DIsolate \/ DIsolateSave \/ DIsolateRecover \/ DDrain

-----------------------------------------------------------------------------
(* The HTTP handlers: one per request, each with its own thread in submit.   *)

Up == dpc # "off"

HttpOnly == UNCHANGED <<workerVars, late, dpc, active, reconnect, flagVars, linkVars, controlVars, envVars>>

Stored == UNCHANGED <<db, saveVars, state, queue, future>>

Arrive(r) ==
  /\ Up /\ http[r] = "idle"
  /\ http' = [http EXCEPT ![r] = "admit"]
  /\ HttpOnly /\ Stored /\ UNCHANGED <<cancelled, resp>>

\* The handler returns; a client that has gone gets nothing.
Return(r, of, reply) ==
  /\ http' = [http EXCEPT ![r] = "done"]
  /\ resp' = IF cancelled[r] THEN resp ELSE [resp EXCEPT ![r] = [of |-> of, reply |-> reply]]
  /\ UNCHANGED cancelled

InSubmit(r) == Up /\ ~Locked /\ http[r] = "admit" /\ HttpOnly

\* The client was gone before the critical section.
SubmitDropped(r) ==
  /\ InSubmit(r) /\ cancelled[r]
  /\ Return(r, r, NotRun("REQUEST_CANCELLED"))
  /\ Stored

Keyed(r) == r \in WRITE_ACTIONS /\ KeyOf[r] # NoKey

\* lookup prunes first; without a key it is not even asked.
LookedUp(r) == IF Keyed(r) THEN Prune(db) ELSE db

SubmitStorage(r) ==
  /\ InSubmit(r) /\ ~cancelled[r] /\ Keyed(r)
  /\ \E o \in Storage \ {"ok"} : db' = Commit(o, db, Prune(db))
  /\ Return(r, r, NotRun("STORAGE_UNAVAILABLE"))
  /\ UNCHANGED <<saveVars, state, queue, future>>

SubmitReplay(r) ==
  /\ InSubmit(r) /\ ~cancelled[r] /\ Keyed(r)
  /\ \E q \in Holders(LookedUp(r), r) :
       LET found == Replay(LookedUp(r), r, q) IN Return(r, found.of, found.reply)
  /\ db' = LookedUp(r)
  /\ UNCHANGED <<saveVars, state, queue, future>>

NotAdmissible(r) ==
  \/ stopping \/ failed \/ ~ready \/ paused \/ state.blocked
  \/ ~state.query_ready
  \/ r \in WRITE_ACTIONS /\ ~state.trading_ready

\* Mutant of Full: one job too many.
FullLate == Len(queue) > QueueCapacity

Full == Len(queue) >= QueueCapacity

\* Mutant of Unseen: the key is not looked up.
UnseenAlways(r) == TRUE

Unseen(r) == ~Keyed(r) \/ Holders(LookedUp(r), r) = {}

SubmitReject(r) ==
  /\ InSubmit(r) /\ ~cancelled[r] /\ Unseen(r)
  /\ \/ NotAdmissible(r) /\ Return(r, r, NotRun("SERVICE_NOT_READY"))
     \/ ~NotAdmissible(r) /\ Full /\ Return(r, r, NotRun("QUEUE_FULL"))
  /\ db' = LookedUp(r)
  /\ UNCHANGED <<saveVars, state, queue, future>>

\* Admitted: the row of a write is inserted before the job is queued.
SubmitAdmit(r) ==
  /\ InSubmit(r) /\ ~cancelled[r] /\ Unseen(r) /\ ~NotAdmissible(r) /\ ~Full
  /\ db' = IF r \in WRITE_ACTIONS THEN Admit(db, r) ELSE db
  /\ queue' = Append(queue, r)
  /\ http' = [http EXCEPT ![r] = "wait"]
  /\ UNCHANGED <<cancelled, resp, saveVars, state, future>>

\* The insert failed, or was committed before the failure: not queued either way.
SubmitNotSaved(r) ==
  /\ InSubmit(r) /\ ~cancelled[r] /\ Unseen(r) /\ ~NotAdmissible(r) /\ ~Full
  /\ r \in WRITE_ACTIONS
  /\ \E o \in Storage \ {"ok"} : db' = Commit(o, LookedUp(r), Admit(db, r))
  /\ Return(r, r, NotRun("STORAGE_UNAVAILABLE"))
  /\ UNCHANGED <<saveVars, state, queue, future>>

\* The answer of a handler whose client left before its admission was over.
LeftEarly(r) == [resp EXCEPT ![r] = [of |-> r, reply |-> NotRun("REQUEST_CANCELLED")]]

\* The client goes away; the event is set without the lock.  A handler that still waits
\* for its admission answers at once: submit has yet to look at the event, or has queued
\* the job already.  One that waits for the result calls cancel.  (If submit refused or
\* replayed instead, its handler has left "admit": nothing of its own can be sent.  A handler
\* task that is itself cancelled sets the event like the first, and answers nothing.)
Drop(r) ==
  /\ Up /\ "disconnect" \in Faults /\ ~cancelled[r]
  /\ \/ http[r] = "admit" /\ http' = http /\ resp' = LeftEarly(r)
     \/ http[r] = "wait" /\ http' = [http EXCEPT ![r] = "left"] /\ resp' = LeftEarly(r)
     \/ http[r] = "wait" /\ http' = [http EXCEPT ![r] = "leaving"] /\ resp' = resp
  /\ cancelled' = [cancelled EXCEPT ![r] = TRUE]
  /\ HttpOnly /\ Stored

\* submission_status of the 499: a write that could not be removed may be under way.
LeftEffect(r) == IF r \in Queued \/ Kind[r] = "query" THEN "none" ELSE "unknown"

\* Dispatcher.cancel for a client that left: removed, or already started.
Leave(r) ==
  /\ Up /\ ~Locked /\ http[r] = "leaving"
  /\ \/ \E i \in DOMAIN queue : queue[i] = r /\ Discard(i, "REQUEST_CANCELLED")
     \/ r \notin Queued /\ Stored
  /\ http' = [http EXCEPT ![r] = "done"]
  /\ resp' = [resp EXCEPT ![r] =
       [of |-> r, reply |-> [code |-> "REQUEST_CANCELLED", effect |-> LeftEffect(r)]]]
  /\ HttpOnly /\ UNCHANGED cancelled

\* The handler sees the deadline before the dispatcher does.
Expire(r) ==
  /\ Up /\ ~Locked /\ http[r] = "wait" /\ late[r]
  /\ \E i \in DOMAIN queue : queue[i] = r /\ Discard(i, "QUEUE_TIMEOUT")
  /\ HttpOnly /\ UNCHANGED httpVars

Respond(r) ==
  /\ Up /\ http[r] = "wait" /\ future[r] # NoReply
  /\ Return(r, r, future[r])
  /\ HttpOnly /\ Stored

HNext ==
  \E r \in Request :
    \/ Arrive(r) \/ SubmitDropped(r) \/ SubmitStorage(r) \/ SubmitReplay(r) \/ SubmitReject(r)
    \/ SubmitAdmit(r) \/ SubmitNotSaved(r) \/ Drop(r) \/ Leave(r) \/ Expire(r) \/ Respond(r)

-----------------------------------------------------------------------------
(* The control thread serves one operator command at a time.                 *)

ControlOnly == UNCHANGED <<db, workerVars, late, dpc, jobVars, saveVars, viewVars, stopping, ready,
                           owner_busy, handle, pending, httpVars, envVars>>

PauseCall ==
  /\ "operator" \in Faults /\ Up /\ ~Locked /\ ctl = "idle" /\ ~human
  /\ ctl' = "pausing"
  /\ paused' = TRUE
  /\ ControlOnly /\ UNCHANGED <<resume_future, human, held>>

\* Mutant of PauseReturn: a probe or a reconnection does not count as an owner.
PauseReturnEarly ==
  /\ ctl = "pausing" /\ ~Locked
  /\ active = NoRequest /\ (ready \/ failed)
  /\ ctl' = "idle"
  /\ human' = (~failed /\ state.ownership_clear)
  /\ ControlOnly /\ UNCHANGED <<paused, resume_future, held>>

\* Nothing owns the terminal: the operator may take over.  An error otherwise.
PauseReturn ==
  /\ ctl = "pausing" /\ ~Locked
  /\ active = NoRequest /\ ~owner_busy /\ (ready \/ failed)
  /\ ctl' = "idle"
  /\ human' = (~failed /\ state.ownership_clear)
  /\ ControlOnly /\ UNCHANGED <<paused, resume_future, held>>

\* The wait ran out, or the dispatcher failed: an error, and paused stays set.
PauseFails ==
  /\ ctl = "pausing" /\ ~Locked
  /\ active # NoRequest \/ owner_busy \/ (~ready /\ ~failed)
  /\ ctl' = "idle"
  /\ ControlOnly /\ UNCHANGED <<paused, resume_future, human, held>>

\* With a retry pending resume only lets it run; else the worker must agree first.
ResumeCall ==
  /\ "operator" \in Faults /\ Up /\ ~Locked /\ ctl = "idle"
  /\ ready /\ ~failed /\ active = NoRequest /\ ~owner_busy /\ ~resume_future
  /\ human' = FALSE /\ held' = FALSE
  /\ IF reconnect.deadline
     THEN paused' = FALSE /\ UNCHANGED <<ctl, resume_future>>
     ELSE paused' = TRUE /\ ctl' = "resuming" /\ resume_future' = TRUE
  /\ ControlOnly

\* The future has a result, or the thread has ended and it never will.
ResumeReturn ==
  /\ ctl = "resuming"
  /\ ~resume_future \/ dpc = "stopped"
  /\ ctl' = "idle"
  /\ ControlOnly /\ UNCHANGED <<paused, resume_future, human, held>>

\* 25 s are over while the worker still has 4*step_timeout+5 s to answer; the thread
\* takes up the future within a round, so only the exchange can last that long.
ResumeTimeout ==
  /\ ctl = "resuming" /\ "slowSteps" \in Faults /\ dpc \in {"resuming", "resumed"}
  /\ ctl' = "idle"
  /\ ControlOnly /\ UNCHANGED <<paused, resume_future, human, held>>

CNext == PauseCall \/ PauseReturn \/ PauseFails \/ ResumeCall \/ ResumeReturn \/ ResumeTimeout

-----------------------------------------------------------------------------
(* Time, the service's life cycle, and what happens outside the dispatcher.  *)

\* r's dispatch deadline passes while somebody may still look at it.
Tick(r) ==
  /\ "deadline" \in Faults /\ ~late[r]
  /\ r \in Queued \/ (steps.request = r /\ wpc = "execute")
  /\ late' = [late EXCEPT ![r] = TRUE]
  /\ UNCHANGED <<db, workerVars, dpc, jobVars, saveVars, viewVars, flagVars, linkVars, outsideVars>>

\* r's row becomes older than the TTL.
Age(r) ==
  /\ "aging" \in Faults /\ db[r].phase # "absent" /\ ~db[r].aged
  /\ db' = [db EXCEPT ![r].aged = TRUE]
  /\ UNCHANGED <<workerVars, late, dpc, jobVars, saveVars, viewVars, flagVars, linkVars, outsideVars>>

\* Dispatcher.stop, called by BridgeService.stop.
Stop ==
  /\ "stop" \in Faults /\ Up /\ ~Locked /\ ~stopping
  /\ stopping' = TRUE
  /\ UNCHANGED <<db, workerVars, late, dpc, jobVars, saveVars, viewVars, paused, ready, owner_busy,
                 linkVars, outsideVars>>

\* Runtime._fail: a desktop process ended or a window did not appear.
RuntimeFail ==
  /\ "runtimeError" \in Faults /\ Up /\ ~rtError
  /\ rtError' = TRUE
  /\ UNCHANGED <<db, workerVars, late, dpc, jobVars, saveVars, viewVars, flagVars, linkVars, httpVars,
                 controlVars, boots>>

\* BridgeService._maintain and the operator's "clean": prune the journal, without the
\* lock; a failure of the monitor stops everything.
Maintain ==
  /\ Up /\ ~stopping
  /\ \/ (\E q \in Request : Prunable(db[q])) /\ db' = Prune(db) /\ UNCHANGED <<rtError, stopping>>
     \/ ~Locked /\ \E o \in Storage \ {"ok"} :
          db' = Commit(o, db, Prune(db)) /\ rtError' = TRUE /\ stopping' = TRUE
  /\ UNCHANGED <<workerVars, late, dpc, jobVars, saveVars, viewVars, paused, ready, owner_busy,
                 linkVars, httpVars, controlVars, boots>>

\* The service process and its worker are gone: a crash of the container, or the end
\* of BridgeService.stop (desktop stopped, worker terminated).  Only the journal and
\* the terminal's orders remain; requests in flight are lost.
Off ==
  /\ Up /\ ("crash" \in Faults \/ stopping)
  /\ wpc' = "down" /\ exiting' = FALSE /\ exec' = NewExecutor /\ steps' = NoSteps
  /\ msg' = FALSE /\ wreply' = NoReply
  /\ dpc' = "off" /\ queue' = <<>> /\ active' = NoRequest
  /\ paused' = FALSE /\ stopping' = FALSE /\ ready' = FALSE /\ failed' = FALSE
  /\ owner_busy' = FALSE /\ state' = InitialState /\ unresolved' = FALSE
  /\ reconnect' = NewPlan /\ resume_future' = FALSE /\ handle' = FALSE /\ pending' = NoReply
  /\ http' = [r \in Request |-> IF http[r] \in {"admit", "wait", "leaving"} THEN "lost" ELSE http[r]]
  /\ ctl' = "idle" /\ human' = FALSE /\ held' = FALSE /\ rtError' = FALSE
  /\ UNCHANGED <<db, sent, late, future, cancelled, resp, boots>>

\* BridgeService.start: Dispatcher.__init__ recovers the journal or startup fails.
Boot ==
  /\ dpc = "off" /\ boots < MaxBoots
  /\ boots' = boots + 1
  /\ \E o \in Storage :
       /\ db' = Commit(o, db, Recover(db))
       /\ dpc' = IF o = "ok" THEN "window" ELSE "off"
       /\ unresolved' = (o = "ok" /\ Unresolved(db'))
       /\ held' = unresolved'
  /\ UNCHANGED <<workerVars, late, jobVars, failed, viewVars, flagVars, linkVars, httpVars, ctl, human,
                 rtError>>

ENext ==
  \/ \E r \in Request : Tick(r) \/ Age(r)
  \/ Stop \/ RuntimeFail \/ Maintain \/ Off \/ Boot

WNext == WStep /\ UNCHANGED <<dpc, jobVars, saveVars, viewVars, flagVars, linkVars, outsideVars>>

Next == HNext \/ DNext \/ WNext \/ CNext \/ ENext

Spec == Init /\ [][Next]_vars

-----------------------------------------------------------------------------
(* Properties.                                                               *)

ThreadPc == {"off", "window", "starting", "init", "loop", "sweep", "choose", "resuming", "resumed",
             "probing", "executing", "executed", "post", "rc_stop", "rc_join", "rc_restart",
             "rc_spawn", "restarting", "st_stop", "st_join", "isolate", "isolate_save",
             "isolate_recover", "drain", "stopped"}

WorkerPc == {"down", "boot", "idle", "probe", "resume", "stop", "execute", "started", "importing",
             "bound", "armed", "keyed", "captured", "confirmed", "verify", "cleanup", "finish"}

Plan == [observed : [error : ErrorCode \cup {"UNSEEN"}, safe : BOOLEAN],
         deadline : BOOLEAN, begun : BOOLEAN]

WorkerTypeOK ==
  /\ wpc \in WorkerPc /\ exiting \in BOOLEAN
  /\ exec \in [blocked : BOOLEAN, error : ErrorCode, poisoned : BOOLEAN,
               session : {"lost", "none", "query", "trade"}]
  /\ steps \in [request : Request \cup {NoRequest}, effect : Effect, error : ErrorCode]
  /\ msg \in BOOLEAN /\ wreply \in Reply
  /\ late \in [Request -> BOOLEAN] /\ sent \in [Request -> Nat]

JobTypeOK ==
  /\ queue \in Seq(Request) /\ active \in Request \cup {NoRequest}
  /\ future \in [Request -> Reply]
  /\ failed \in BOOLEAN /\ unresolved \in BOOLEAN

ThreadTypeOK ==
  /\ dpc \in ThreadPc
  /\ state \in WorkerState /\ reconnect \in Plan
  /\ paused \in BOOLEAN /\ stopping \in BOOLEAN /\ ready \in BOOLEAN /\ owner_busy \in BOOLEAN
  /\ resume_future \in BOOLEAN /\ handle \in BOOLEAN /\ pending \in Reply

OutsideTypeOK ==
  /\ cancelled \in [Request -> BOOLEAN]
  /\ http \in [Request -> {"idle", "admit", "wait", "left", "leaving", "done", "lost"}]
  /\ resp \in [Request -> [of : Request \cup {NoRequest}, reply : Reply]]
  /\ ctl \in {"idle", "pausing", "resuming"} /\ human \in BOOLEAN /\ held \in BOOLEAN
  /\ rtError \in BOOLEAN /\ boots \in Nat

\* Every variable of the journal, the worker, the dispatcher and its clients has its
\* type; in particular every reply saved or told uses the known codes and effects.
TypeOK ==
  db \in [Request -> Row] /\ WorkerTypeOK /\ JobTypeOK /\ ThreadTypeOK /\ OutsideTypeOK

\* A reply that says the order or cancel was not sent.  The answers about another
\* request's row (in progress, key conflict) say nothing about this one.
SaysNotSent(reply) ==
  /\ reply # NoReply
  /\ reply.effect \in {"none", "rejected"}
  /\ reply.code \notin {"OPERATION_IN_PROGRESS", "IDEMPOTENCY_CONFLICT"}

\* The handler has answered its client before submit told it that the job was queued.
AnsweredEarly(r) == http[r] = "left"

\* No reply the bridge keeps or hands out (journal row, job future, HTTP response)
\* says "not sent" about a write the terminal got, whatever the worker does later.  The
\* one answer that may is told apart by AnsweredEarly: see EarlyAnswerTruthful.
TruthfulNotSent ==
  \A r \in WRITE_ACTIONS :
    /\ SaysNotSent(db[r].reply) => sent[r] = 0
    /\ SaysNotSent(future[r]) => sent[r] = 0
    /\ SaysNotSent(resp[r].reply) /\ resp[r].of # NoRequest /\ ~AnsweredEarly(r) => sent[resp[r].of] = 0

\* api.md: the submission_status is null for an error before any side effect and
\* "unknown" when the effect is not known.  So also for a client that leaves while its
\* request is admitted: what it is told to be an error before any side effect is not sent.
EarlyAnswerTruthful ==
  \A r \in WRITE_ACTIONS : AnsweredEarly(r) /\ SaysNotSent(resp[r].reply) => sent[r] = 0

\* "submitted" is only told of an order the terminal got.
TruthfulSubmitted ==
  \A r \in Request :
    Kind[r] = "order" /\ "submitted" \in {db[r].effect, db[r].reply.effect, future[r].effect}
      => sent[r] > 0

\* The terminal gets an order or a cancel at most once per request.
AtMostOnce == \A r \in Request : sent[r] <= 1

\* Two requests with one idempotency key and both sent: the first one's row was
\* pruned in between, never while its outcome was unknown.
OneSendPerKey ==
  \A r, q \in WRITE_ACTIONS :
    r # q /\ KeyOf[r] # NoKey /\ KeyOf[r] = KeyOf[q] /\ sent[r] > 0 /\ sent[q] > 0
      => db[r].phase = "absent" \/ db[q].phase = "absent"

\* Write-ahead: what the terminal got is in the journal as unknown or submitted
\* from before the key press until the row is pruned.
SendIsJournaled ==
  \A r \in Request :
    sent[r] > 0 => db[r].phase = "absent" \/ db[r].effect \in {"unknown", "submitted"}

\* There is never a second process driving the terminal.
SingleOwner == ~(exiting /\ wpc # "down")

\* After pause reported success nobody but the operator touches the terminal.
PauseExcludesOwner == human => wpc \in {"idle", "stop", "down"} /\ active = NoRequest

\* As long as the flag that a successful pause set still stands, nobody but the operator
\* touches the terminal, and the flag falls only with the operator's own resume.
PauseStands == human /\ paused => wpc \in {"idle", "stop", "down"} /\ active = NoRequest

PauseKept == [][human /\ paused /\ human' => paused']_vars

\* The terminal is restarted only when no write is unsettled and no worker is left.
RestartOnlyWhenSettled ==
  dpc = "rc_restart" => wpc = "down" /\ ~exiting /\ active = NoRequest
                        /\ \A r \in Request : db[r].effect # "unknown"

\* After a start with unknown rows nothing runs until the operator resumes.
InitialPause == held => active = NoRequest

\* The queue holds admitted jobs once, within its capacity, none of them started,
\* answered or unknown to the journal.
QueueSound ==
  /\ IsInjective(queue) /\ Len(queue) <= QueueCapacity
  /\ \A r \in Queued :
       /\ future[r] = NoReply /\ active # r /\ sent[r] = 0
       /\ r \in WRITE_ACTIONS => db[r].phase = "queued" /\ db[r].reply = NoReply

\* A lost connection that is safe to recover always has a retry scheduled.
RetryScheduled ==
  (/\ dpc = "choose" /\ ReconnectEnabled /\ state.error \in CONNECTION_ERRORS
   /\ state.ownership_clear /\ ~unresolved /\ ~failed /\ ~rtError)
    => reconnect.deadline

\* A write whose outcome is unknown is never forgotten, except by a worker that
\* learns its outcome.
UnknownKept ==
  [][\A r \in Request : db[r].effect = "unknown" /\ db'[r].effect # "unknown" => steps.request = r]_vars

\* What the first caller was told is what its row replays, unless the save of the
\* reply failed and the caller was told so.
AnswerIsReplayed ==
  \A r \in WRITE_ACTIONS :
    future[r] # NoReply /\ future[r].code # "STORAGE_UNAVAILABLE" /\ db[r].phase # "absent"
      => db[r].reply = future[r]

\* What the first caller was told stands, also when a worker that was given up saves its
\* own reply later: only "status unknown" is replaced then, and a known effect never.
AnswerStands ==
  \A r \in WRITE_ACTIONS :
    future[r] # NoReply /\ future[r].code # "STORAGE_UNAVAILABLE" /\ db[r].phase # "absent"
      => \/ db[r].reply = future[r]
         \/ /\ future[r].code = "OPERATION_STATUS_UNKNOWN"
            /\ future[r].effect \in {"unknown", db[r].reply.effect} \ {"none"}

\* A row that answers "still in progress" belongs to a job that is queued, started,
\* or about to be answered.
InProgressIsLive ==
  Up /\ ~failed =>
    \A r \in Request : db[r].phase # "absent" /\ db[r].reply = NoReply => r \in Queued \/ active = r

\* Once stop() returned from its critical section no further job is started.
NoDispatchAfterStop == [][stopping => active' \in {active, NoRequest}]_vars

\* Once a reply could not be saved no further job is started.
FailedStopsDispatch == [][failed => active' \in {active, NoRequest}]_vars

\* Fairness.  The dispatcher thread and the worker process keep running (a dead
\* worker has no steps left), and deadlines pass.  Nothing is assumed of clients,
\* operators or the terminal.
WRun == (WStep /\ ~WDie) /\ UNCHANGED <<dpc, jobVars, saveVars, viewVars, flagVars, linkVars, outsideVars>>

Fairness == WF_vars(DNext) /\ WF_vars(WRun) /\ \A r \in Request : WF_vars(Tick(r))

FairSpec == Spec /\ Fairness

\* Every job that was queued is answered.
JobsAnswered == \A r \in Request : r \in Queued ~> future[r] # NoReply \/ dpc = "off"

\* A stop ends the dispatcher thread, whatever it was waiting for.
StopEnds == stopping ~> dpc \in {"stopped", "off"}

\* A resume that was accepted gets an answer.
ResumeServed == resume_future ~> ~resume_future \/ dpc \in {"stopped", "off"}

\* Nobody waits for ever: neither the caller of a job nor the operator who resumes.
EveryoneAnswered == JobsAnswered /\ ResumeServed

=============================================================================
