------------------------------ MODULE Desktop ------------------------------
(***************************************************************************)
(* The desktop runtime (runtime.py) and the service around it (service.py):*)
(* who starts, watches, restarts and stops the terminal.                   *)
(*                                                                         *)
(* Four threads share it: the runtime's own (_run: start, then watch once  *)
(* a second), the dispatcher's (restart_terminal), the storage monitor     *)
(* (_maintain, which fails the runtime and asks it to stop) and the main   *)
(* thread (BridgeService.stop).  lifecycle_lock keeps watching and         *)
(* restarting apart; stop_event and error are read without it.  The other  *)
(* processes of the desktop are started and stopped with the terminal and  *)
(* are left out, except that any of them may be the one that exits.        *)
(***************************************************************************)
EXTENDS Integers, FiniteSets

CONSTANTS
  MaxTerminals,  \* bound on terminal processes ever started
  Reconnects,    \* whether the dispatcher may restart the terminal
  StorageFails   \* whether the storage monitor may fail

\* What the constants must be.
Constants ==
  MaxTerminals \in Nat \ {0} /\ Reconnects \in BOOLEAN /\ StorageFails \in BOOLEAN

VARIABLES
  run,        \* where the runtime's thread is
  restart,    \* where restart_terminal is; "no" outside
  maintain,   \* where the storage monitor is
  main,       \* where BridgeService.stop is; "up" before
  lifecycle,  \* who holds lifecycle_lock
  stop_event,
  error,      \* Runtime.error
  state,      \* Runtime.state
  handle,     \* processes["terminal"], 0 before the first
  alive,      \* the terminal processes that run
  retired,    \* those that restart_terminal ended on purpose
  reported,   \* the terminal whose exit was reported as an error, 0 if none
  session     \* whether session_lock is held

vars == <<run, restart, maintain, main, lifecycle, stop_event, error, state, handle, alive,
          retired, reported, session>>

Init ==
  /\ run = "startup" /\ restart = "no" /\ maintain = "watch" /\ main = "up"
  /\ lifecycle = "free" /\ stop_event = FALSE /\ error = "none" /\ state = "starting"
  /\ handle = 0 /\ alive = {} /\ retired = {} /\ reported = 0
  /\ session = TRUE

\* _fail
Fail(code) == error' = code /\ state' = "failed"

\* _spawn("terminal")
Spawn ==
  /\ handle < MaxTerminals
  /\ handle' = handle + 1
  /\ alive' = alive \cup {handle + 1}

\* _stop_processes: what was spawned is terminated, then wineserver -k ends the rest.
StopProcesses == alive' = {}

----------------------------------------------------------------------------
(* The runtime's thread. *)

\* _run up to the start of the terminal.  _wait raises once stop_event is set, a step may
\* fail; stop_event set during the last commands of _initialize_wine is not seen.
Startup ==
  /\ run = "startup"
  /\ \/ Spawn /\ run' = "window" /\ UNCHANGED <<error, state>>
     \/ UNCHANGED <<handle, alive, error, state>> /\ stop_event /\ run' = "finally"
     \/ UNCHANGED <<handle, alive>> /\ Fail("STARTUP_FAILED") /\ run' = "finally"
  /\ UNCHANGED <<restart, maintain, main, lifecycle, stop_event, retired, reported, session>>

\* The wait for the login window.
Window ==
  /\ run = "window"
  /\ \/ ~stop_event /\ handle \in alive /\ state' = "window_visible" /\ run' = "watch" /\ UNCHANGED error
     \/ stop_event /\ run' = "finally" /\ UNCHANGED <<error, state>>
     \/ ~stop_event /\ Fail("WINDOW_TIMEOUT") /\ run' = "finally"
  /\ UNCHANGED <<restart, maintain, main, lifecycle, stop_event, handle, alive, retired, reported, session>>

\* The loop condition: a stop ends the watch without the lock.
WatchEnds ==
  /\ run = "watch" /\ stop_event
  /\ run' = "finally"
  /\ UNCHANGED <<restart, maintain, main, lifecycle, stop_event, error, state, handle, alive, retired,
                 reported, session>>

\* Mutant of Watch: the round does not take lifecycle_lock.
WatchUnlocked ==
  /\ run = "watch" /\ ~stop_event
  /\ IF handle \notin alive
     THEN run' = "raised" /\ reported' = handle
     ELSE run' = "look" /\ UNCHANGED reported
  /\ UNCHANGED <<restart, maintain, main, lifecycle, stop_event, error, state, handle, alive, retired, session>>

\* One round of watching, up to _has_window: leave on stop or error, raise when a process
\* has exited.  The with statement releases the lock before _fail records the exit.
Watch ==
  /\ run = "watch" /\ lifecycle = "free"
  /\ IF stop_event \/ error # "none"
     THEN run' = "finally" /\ UNCHANGED <<lifecycle, reported>>
     ELSE IF handle \notin alive
     THEN run' = "raised" /\ reported' = handle /\ UNCHANGED lifecycle
     ELSE run' = "look" /\ lifecycle' = "run" /\ UNCHANGED reported
  /\ UNCHANGED <<restart, maintain, main, stop_event, error, state, handle, alive, retired, session>>

\* Mutant of Look: the flag is stored where the state belongs.
LookFlag ==
  /\ run = "look"
  /\ state' \in {"visible", "missing"}
  /\ run' = "watch"
  /\ lifecycle' = "free"
  /\ UNCHANGED <<restart, maintain, main, stop_event, error, handle, alive, retired, reported, session>>

\* The rest of the round: what _has_window found becomes the state.
Look ==
  /\ run = "look"
  /\ state' \in {"window_visible", "window_missing"}
  /\ run' = "watch"
  /\ lifecycle' = IF lifecycle = "run" THEN "free" ELSE lifecycle
  /\ UNCHANGED <<restart, maintain, main, stop_event, error, handle, alive, retired, reported, session>>

\* Mutant of Raised: an exit seen during a stop is handled nowhere.
RaisedUnlessStopping ==
  /\ run = "raised" /\ ~stop_event
  /\ run' = "finally"
  /\ Fail("PROCESS_EXITED")
  /\ UNCHANGED <<restart, maintain, main, lifecycle, stop_event, handle, alive, retired, reported, session>>

\* except BridgeError: a stop is no failure.
Raised ==
  /\ run = "raised"
  /\ run' = "finally"
  /\ IF stop_event THEN UNCHANGED <<error, state>> ELSE Fail("PROCESS_EXITED")
  /\ UNCHANGED <<restart, maintain, main, lifecycle, stop_event, handle, alive, retired, reported, session>>

\* finally: after a failure the desktop is kept for inspection.
Finally ==
  /\ run = "finally"
  /\ run' = "done"
  /\ IF stop_event THEN StopProcesses ELSE UNCHANGED alive
  /\ UNCHANGED <<restart, maintain, main, lifecycle, stop_event, error, state, handle, retired,
                 reported, session>>

----------------------------------------------------------------------------
(* The dispatcher's thread in restart_terminal. *)

\* Dispatcher._reconnect calls it for a lost connection, once the worker has exited.
RestartBegins ==
  /\ Reconnects /\ restart = "no" /\ main = "up" /\ handle > 0 /\ run # "window"
  /\ lifecycle = "free" /\ ~stop_event /\ error = "none"
  /\ restart' = "kill" /\ lifecycle' = "restart" /\ state' = "reconnecting"
  /\ UNCHANGED <<run, maintain, main, stop_event, error, handle, alive, retired, reported, session>>

Leave == restart' = "no" /\ lifecycle' = "free"

\* wineserver -k and -w, and the exit of the old terminal; unconfirmed, it fails.
Kill ==
  /\ restart = "kill"
  /\ \/ restart' = "boot" /\ alive' = {} /\ retired' = retired \cup alive /\ UNCHANGED <<lifecycle, error, state>>
     \/ Leave /\ alive' \in {alive, {}} /\ retired' = retired \cup (alive \ alive')
        /\ IF stop_event THEN UNCHANGED <<error, state>> ELSE Fail("GUI_UNRESPONSIVE")
  /\ UNCHANGED <<run, maintain, main, stop_event, handle, reported, session>>

\* The check of stop_event, the files and wineboot, which also sees a stop.
Boot ==
  /\ restart = "boot"
  /\ \/ ~stop_event /\ restart' = "spawn" /\ UNCHANGED <<lifecycle, error, state>>
     \/ stop_event /\ Leave /\ UNCHANGED <<error, state>>
     \/ ~stop_event /\ Leave /\ Fail("GUI_UNRESPONSIVE")
  /\ UNCHANGED <<run, maintain, main, stop_event, handle, alive, retired, reported, session>>

\* regsvr32, during which nothing looks at stop_event, and the start of the terminal.
Respawn ==
  /\ restart = "spawn"
  /\ \/ Spawn /\ restart' = "wait" /\ UNCHANGED <<lifecycle, error, state>>
     \/ Leave /\ UNCHANGED <<handle, alive>>
        /\ IF stop_event THEN UNCHANGED <<error, state>> ELSE Fail("HTML_SETUP_FAILED")
  /\ UNCHANGED <<run, maintain, main, stop_event, retired, reported, session>>

\* The wait for the new login window.
Rewait ==
  /\ restart = "wait"
  /\ Leave
  /\ \/ ~stop_event /\ handle \in alive /\ state' = "window_visible" /\ UNCHANGED error
     \/ stop_event /\ UNCHANGED <<error, state>>
     \/ ~stop_event /\ Fail("WINDOW_TIMEOUT")
  /\ UNCHANGED <<run, maintain, main, stop_event, handle, alive, retired, reported, session>>

----------------------------------------------------------------------------
(* The storage monitor and the main thread. *)

\* _maintain: a clean fails; dispatcher.stop joins for up to five seconds in between.
StorageError ==
  /\ StorageFails /\ maintain = "watch" /\ main = "up"
  /\ Fail("STORAGE_UNAVAILABLE")
  /\ maintain' = "dispatcher"
  /\ UNCHANGED <<run, restart, main, lifecycle, stop_event, handle, alive, retired, reported, session>>

StorageStop ==
  /\ maintain = "dispatcher"
  /\ stop_event' = TRUE /\ maintain' = "done"
  /\ UNCHANGED <<run, restart, main, lifecycle, error, state, handle, alive, retired, reported, session>>

\* BridgeService.stop: dispatcher.stop gives a restart five seconds; then runtime.stop.
Stop ==
  /\ main = "up"
  /\ main' = "join" /\ stop_event' = TRUE
  /\ UNCHANGED <<run, restart, maintain, lifecycle, error, state, handle, alive, retired, reported, session>>

\* runtime.stop after the join, whose timeout outlasts what a startup does unwatched.
StopEnds ==
  /\ main = "join"
  /\ run = "done"
  /\ StopProcesses /\ session' = FALSE /\ main' = "stopped"
  /\ UNCHANGED <<run, restart, maintain, lifecycle, stop_event, error, state, handle, retired, reported>>

\* The terminal exits by itself.
Exit ==
  /\ handle \in alive
  /\ alive' = alive \ {handle}
  /\ UNCHANGED <<run, restart, maintain, main, lifecycle, stop_event, error, state, handle, retired,
                 reported, session>>

Next == \/ Startup \/ Window \/ WatchEnds \/ Watch \/ Look \/ Raised \/ Finally
        \/ RestartBegins \/ Kill \/ Boot \/ Respawn \/ Rewait
        \/ StorageError \/ StorageStop \/ Stop \/ StopEnds \/ Exit

Spec == Init /\ [][Next]_vars

\* The threads keep running; nothing makes the terminal exit, storage fail or a stop happen.
FairSpec ==
  /\ Spec
  /\ WF_vars(Startup) /\ WF_vars(Window) /\ SF_vars(Watch) /\ WF_vars(WatchEnds) /\ WF_vars(Look) /\ WF_vars(Raised)
  /\ WF_vars(Finally) /\ WF_vars(StopEnds)
  /\ WF_vars(Kill) /\ WF_vars(Boot) /\ WF_vars(Respawn) /\ WF_vars(Rewait)

----------------------------------------------------------------------------
\* Every variable stays in its domain; the handle names a terminal that was started.
TypeOK ==
  /\ run \in {"startup", "window", "watch", "look", "raised", "finally", "done"}
  /\ restart \in {"no", "kill", "boot", "spawn", "wait"}
  /\ maintain \in {"watch", "dispatcher", "done"} /\ main \in {"up", "join", "stopped"}
  /\ lifecycle \in {"free", "run", "restart"}
  /\ stop_event \in BOOLEAN /\ session \in BOOLEAN
  /\ error \in {"none", "STARTUP_FAILED", "WINDOW_TIMEOUT", "PROCESS_EXITED", "GUI_UNRESPONSIVE",
                "HTML_SETUP_FAILED", "STORAGE_UNAVAILABLE"}
  /\ state \in {"starting", "window_visible", "window_missing", "reconnecting", "failed"}
  /\ handle \in 0..MaxTerminals /\ alive \subseteq 1..MaxTerminals
  /\ retired \subseteq 1..MaxTerminals /\ reported \in 0..MaxTerminals

\* "the new and the old owner never run at once": a terminal is started only when the
\* Wine session of the one before has ended.
OneTerminal == Cardinality(alive) <= 1

\* PROCESS_EXITED: the watcher never takes a terminal that a restart ended on purpose for
\* one that crashed.
ExitIsGenuine == reported \notin retired

\* runtime.py:214 "no terminal is started during a stop": when BridgeService.stop has
\* returned and given up the session lock, no terminal of this instance runs.
StoppedMeansDown == main = "stopped" /\ ~session => alive = {}

\* BridgeService.stop returns: whatever the other threads are at, the runtime's thread
\* sees stop_event and ends.
StopReturns == main = "join" ~> main = "stopped"

\* A terminal that exits while the runtime watches is noticed: the error is set, the
\* terminal is restarted, or the runtime is stopping.
ExitNoticed ==
  (run = "watch" /\ handle \notin alive) ~> (error # "none" \/ stop_event \/ handle \in alive)
=============================================================================
