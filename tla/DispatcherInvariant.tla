------------------------ MODULE DispatcherInvariant ------------------------
(***************************************************************************)
(* The inductive invariant behind the journal's promises: TruthfulNotSent, *)
(* SendIsJournaled and AtMostOnce are not inductive, because they say      *)
(* nothing of the moments in which a key press is still to come.  The      *)
(* invariant adds where the worker can be while the dispatcher is where it *)
(* is, what the worker remembers of its own send, and who may still send.  *)
(***************************************************************************)
EXTENDS Dispatcher

\* Between two exchanges nothing is in the pipe and the worker does nothing.
Quiet == {"off", "window", "init", "loop", "sweep", "choose", "resumed", "executed", "post",
          "rc_join", "rc_restart", "rc_spawn", "st_join"}

\* The dispatcher gave up; the worker may still be running.
Isolated == {"isolate", "isolate_save", "isolate_recover", "drain", "stopped"}

BeforeKey == {"execute", "started", "importing", "bound", "armed"}

\* The key was pressed and the outcome is being read.
Reading == {"keyed", "captured", "confirmed", "verify"}

AtWork == BeforeKey \cup Reading \cup {"cleanup", "finish"}

\* The effects that do not deny a send.
Sent == {"unknown", "submitted"}

\* r's order or cancel may still be handed to the terminal, or is being read back.
MaySend(r) == r \in Queued \/ (steps.request = r /\ wpc \in BeforeKey \cup Reading)

\* The reply of the worker is in the pipe or in the thread's hands.
Replied == (dpc = "executing" /\ msg) \/ dpc = "executed"

\* The pipe, the worker and the thread agree on who is at work.
Turns ==
  /\ msg => wpc \in {"idle", "down"}
  /\ dpc \in Quiet => ~msg /\ wpc \in {"idle", "down"}
  /\ dpc = "off" => queue = <<>> /\ wpc = "down"
  /\ wpc \in AtWork =>
       /\ active \in Request /\ steps.request = active
       /\ dpc \in {"executing"} \cup Isolated
  /\ wpc \in AtWork \ {"execute"} => active \in WRITE_ACTIONS
  /\ dpc = "executing" => wpc \in AtWork \cup {"idle", "down"}
  /\ Replied => active \in Request /\ steps.request = active

\* A request not yet through submit left no trace.
Untouched(r) ==
  /\ r \notin Queued /\ active # r /\ steps.request # r
  /\ db[r] = NoRow /\ future[r] = NoReply /\ sent[r] = 0
  /\ \A q \in Request : resp[q].of = r => cancelled[r]

\* Jobs are queued once.
Jobs ==
  /\ IsInjective(queue)
  /\ active \notin Queued
  /\ \A r \in Request : http[r] \in {"idle", "admit"} => Untouched(r)

\* What the worker knows of its own send, before and after the key.
Knowledge ==
  LET r == steps.request IN
  /\ wpc \in BeforeKey => sent[r] = 0
  /\ wpc \in {"armed"} \cup Reading =>
       /\ steps.effect \in Sent
       /\ db[r].phase = "absent" \/ db[r].effect \in Sent
  /\ wpc \in {"cleanup", "finish"} /\ sent[r] > 0 => steps.effect \in Sent
  /\ wpc = "finish" /\ sent[r] > 0 => wreply.effect \in Sent
  /\ Replied /\ sent[r] > 0 => wreply.effect \in Sent

Denies(reply) == reply # NoReply /\ reply.effect \notin Sent

\* The answer to q says that r was not sent, and q's handler had heard of its admission or knew
\* that submit would see the event.
ToldNotSent(q, r) == resp[q].of = r /\ SaysNotSent(resp[q].reply) /\ ~AnsweredEarly(q)

\* A claim that r was not sent: saved, told, or about to be.
ClaimsNotSent(r) ==
  \/ Denies(db[r].reply)
  \/ db[r].effect = "rejected"
  \/ Denies(future[r])
  \/ \E q \in WRITE_ACTIONS : ToldNotSent(q, r)
  \/ dpc = "isolate_save" /\ active = r /\ pending.effect \notin Sent

\* Whoever is said to be not sent was not sent and never will be.
Claims == \A r \in WRITE_ACTIONS : ClaimsNotSent(r) => sent[r] = 0 /\ ~MaySend(r)

\* Nothing still queued was sent, and no query ever is.
Unsent == \A r \in Request : r \in Queued \/ r \notin WRITE_ACTIONS => sent[r] = 0

\* The inductive invariant.  Claims is what a caller relies on; the other parts say
\* why no later step of the worker can make it false.
IInv == Turns /\ Jobs /\ Knowledge /\ Claims /\ Unsent /\ AtMostOnce /\ SendIsJournaled

\* Why there is one owner: a process that may still run is one the dispatcher has a
\* handle of, and a handle is dropped only after the exit of that process.
Ownership ==
  /\ wpc # "down" \/ exiting => handle
  /\ ~(exiting /\ wpc # "down")
  /\ dpc \in {"rc_stop", "st_stop", "rc_join", "st_join"} => wpc \in {"stop", "down"}

\* stop() cannot come between the loop's test of stopping and the dispatch.
StopSeen == dpc \in {"sweep", "choose"} => ~stopping

\* A job that waits has a row that says so, and nobody has answered it; a query has no row.
QueueRows ==
  /\ Len(queue) <= QueueCapacity
  /\ \A r \in Queued :
       /\ future[r] = NoReply
       /\ r \in WRITE_ACTIONS => db[r].phase = "queued" /\ db[r].effect = "none" /\ db[r].reply = NoReply
  /\ \A r \in Request \ WRITE_ACTIONS : db[r].phase = "absent" /\ db[r].effect = "none"

\* The thread has given its job up for good and has saved what it knew of it.
GivenUp == {"isolate_recover", "drain", "stopped"}

\* The started write that no worker has taken up has the row it had in the queue.
NotTakenUp ==
  active \in WRITE_ACTIONS /\ steps.request # active /\ dpc \notin GivenUp => db[active].effect = "none"

\* UNIQUE(namespace, key_hash): one row per idempotency key.
KeyUnique ==
  \A r, q \in WRITE_ACTIONS :
    r # q /\ KeyOf[r] # NoKey /\ KeyOf[r] = KeyOf[q] => db[r].phase = "absent" \/ db[q].phase = "absent"

\* Whoever says or is about to say of an order that it was submitted: a row, a result, the
\* worker from the receipt on, its reply, and the reply of an isolation.
SaysSubmitted(r) ==
  \/ "submitted" \in {db[r].effect, db[r].reply.effect, future[r].effect}
  \/ /\ wpc \in AtWork /\ steps.request = r
     /\ \/ steps.effect = "submitted" \/ wpc \in {"captured", "confirmed", "verify"}
        \/ wpc = "cleanup" /\ steps.error = "NONE"
        \/ wpc = "finish" /\ wreply.effect = "submitted"
  \/ Replied /\ active = r /\ wreply.effect = "submitted"
  \/ dpc = "isolate_save" /\ active = r /\ pending.effect = "submitted"

Proven == \A r \in Request : Kind[r] = "order" /\ SaysSubmitted(r) => sent[r] > 0

\* The thread has a started job only while it waits for its answer or has lost it.
Busy == {"executing", "executed"}

ActiveBusy == active # NoRequest => dpc \in Busy \cup Isolated

\* The cached count of unknown rows, as long as every save has succeeded: it may only miss the
\* row of the write at work, and it is right whenever no write is.
Counted ==
  dpc \notin Isolated \cup {"off"} /\ ~failed =>
    /\ ~unresolved => \A r \in Request : db[r].effect = "unknown" => r = active
    /\ unresolved /\ active \notin WRITE_ACTIONS => Unresolved(db)

\* The plan holds a retry exactly for a safe lost connection, unless one is under way.
PlanSound ==
  LET seen == reconnect.observed IN
  reconnect.deadline = (~reconnect.begun /\ ReconnectEnabled /\ seen.safe /\ seen.error \in CONNECTION_ERRORS)

\* From the look at the connection to the choice nothing makes a retry unsafe or forgotten.
RetryKept ==
  /\ dpc \in {"off", "window", "starting", "init"} => ~reconnect.deadline
  /\ dpc \in {"loop", "sweep", "choose"} /\ reconnect.deadline => \A r \in Request : db[r].effect # "unknown"
  /\ dpc \in {"sweep", "choose"} /\ ReconnectEnabled /\ state.error \in CONNECTION_ERRORS
       /\ state.ownership_clear /\ ~unresolved /\ ~failed /\ ~rtError => reconnect.deadline

\* A terminal is replaced in these positions of the thread.
Restarting == {"rc_stop", "rc_join", "rc_restart", "rc_spawn", "restarting"}

RestartSettled ==
  /\ dpc \in Restarting => \A r \in Request : db[r].effect # "unknown"
  /\ dpc \in {"rc_restart", "rc_spawn"} => ~handle

\* After a start with unknown rows: paused, or still before the pause with a row to cause it.
Starting == {"window", "starting", "init"}

HeldBack ==
  /\ held => /\ active = NoRequest /\ ~resume_future
             /\ paused \/ dpc \in Starting \cup Isolated
             /\ dpc \in Starting => unresolved /\ Unresolved(db)
  /\ dpc \in {"resuming", "resumed"} => resume_future
  /\ dpc = "off" => ~resume_future

\* A successful pause whose flag stands: nothing runs, and nothing will before a resume.  A
\* resume call that gave up waiting leaves its resume to the thread, which is then past the
\* choice.
Paused ==
  /\ human => ctl # "resuming"
  /\ human /\ paused =>
       /\ active = NoRequest /\ wpc \in {"idle", "stop", "down"}
       /\ dpc \in {"init", "loop", "sweep", "choose", "st_stop", "st_join"} \cup Isolated
  /\ ctl # "resuming" /\ resume_future => dpc \in {"resuming", "resumed"} \cup Isolated
  /\ dpc \in {"window", "starting", "off"} => ~ready
  /\ dpc \in Busy \cup Restarting \cup {"resuming", "resumed", "probing", "post"} => owner_busy
  /\ dpc \in {"isolate_save", "isolate_recover"} => failed
  /\ dpc \in {"isolate", "drain", "stopped"} /\ ready /\ ~failed /\ ~owner_busy => wpc \in {"idle", "stop", "down"}

\* The worker is past the step that settled the effect e: its reply says e, or will.
Certain(e) ==
  /\ wpc \in {"verify", "cleanup", "finish"}
  /\ steps.effect = e
  /\ e = "rejected" => wpc # "verify" /\ steps.error # "NONE"
  /\ wpc = "finish" => wreply.effect = e

\* A settled effect of the write at work, in its row or in the reply an isolation saves or has
\* told, is the one its worker will reply with.
KnownEffect ==
  wpc \in AtWork /\ active \in WRITE_ACTIONS =>
    \A e \in {"submitted", "rejected"} :
      \/ db[active].effect = e
      \/ dpc = "isolate_save" /\ pending.effect = e
      \/ dpc \in GivenUp /\ future[active].effect = e
      => Certain(e)

\* What an isolation tells of a write whose worker has not replied.
Doubtful(reply) ==
  \/ reply.code = "STORAGE_UNAVAILABLE"
  \/ reply.code = "OPERATION_STATUS_UNKNOWN" /\ reply.effect # "none"

\* Until its thread gives it up the started job has no result, and no reply in its row while the
\* worker is at work; what is told of it then is doubtful if the worker still is.
Unanswered ==
  /\ dpc \in Busy \cup {"isolate", "isolate_save"} /\ active # NoRequest => future[active] = NoReply
  /\ wpc \in AtWork /\ active \in WRITE_ACTIONS =>
       /\ dpc \notin GivenUp => db[active].reply = NoReply
       /\ dpc = "isolate_save" => Doubtful(pending)
       /\ dpc \in GivenUp => Doubtful(future[active])

=============================================================================
