----------------------------- MODULE MCTerminal -----------------------------
(***************************************************************************)
(* The parts between the worker and the terminal that must come to an end: *)
(* the native link, the notices, one operation on the screen and the       *)
(* terminal's life.  They share no variable, so each behaviour moves one   *)
(* of them, part, and leaves the others as they begin.                     *)
(***************************************************************************)
EXTENDS ScreenPart

CONSTANTS
  Windows,
  MaxCalls, MaxShows, Budget, MaxTerminals

VARIABLES
  part,
  client, stdin, stdout, ctl, block, gui, executed, answered,
  shown, loaded, checked, confirms, clicks, shows, seen, queue, startup, probe,
  run, restart, maintain, main, lifecycle, stop_event, error, state, handle, alive, retired,
  reported, session

Link == INSTANCE NativeLink WITH Kinds <- {"call", "import"}
Notes == INSTANCE Notices WITH Kinds <- {"terms", "settlement", "page", "trade", "order"}, Together <- FALSE
Desk == INSTANCE Desktop WITH Reconnects <- TRUE, StorageFails <- TRUE

ASSUME ConstantsAssumption ==
  Link!Constants /\ Notes!Constants /\ Desk!Constants

linkVars == <<client, stdin, stdout, ctl, block, gui, executed, answered>>
notesVars == <<shown, loaded, checked, confirms, clicks, shows, seen, queue, startup, probe>>
deskVars == <<run, restart, maintain, main, lifecycle, stop_event, error, state, handle, alive,
              retired, reported, session>>
vars == <<part, linkVars, notesVars, screenVars, deskVars>>

Init ==
  /\ part \in {"link", "notices", "screen", "desktop"}
  /\ Link!Init /\ Notes!Init /\ Screen!Init /\ Desk!Init
  /\ part = "screen" \/ table.full

Next ==
  \/ part = "link" /\ Link!Next /\ UNCHANGED <<part, notesVars, screenVars, deskVars>>
  \/ part = "notices" /\ Notes!Next /\ UNCHANGED <<part, linkVars, screenVars, deskVars>>
  \/ part = "screen" /\ Screen!Next /\ UNCHANGED <<part, linkVars, notesVars, deskVars>>
  \/ part = "desktop" /\ Desk!Next /\ UNCHANGED <<part, linkVars, notesVars, screenVars>>

\* The fairness of the part that moves: see the FairSpec of its module.
Fairness ==
  /\ WF_linkVars(part = "link" /\ Link!Controller)
  /\ WF_linkVars(part = "link" /\ Link!Hook)
  /\ WF_notesVars(part = "notices" /\ Notes!Deliver)
  /\ WF_notesVars(part = "notices" /\ Notes!Scan(TRUE))
  /\ \A w \in Windows : WF_notesVars(part = "notices" /\ Notes!Load(w))
  /\ WF_screenVars(part = "screen" /\ Screen!Run)
  /\ WF_screenVars(part = "screen" /\ Screen!Expire)
  /\ WF_deskVars(part = "desktop" /\ Desk!Startup)
  /\ WF_deskVars(part = "desktop" /\ Desk!Window)
  /\ SF_deskVars(part = "desktop" /\ Desk!Watch)
  /\ WF_deskVars(part = "desktop" /\ Desk!WatchEnds)
  /\ WF_deskVars(part = "desktop" /\ Desk!Look)
  /\ WF_deskVars(part = "desktop" /\ Desk!Raised)
  /\ WF_deskVars(part = "desktop" /\ Desk!Finally)
  /\ WF_deskVars(part = "desktop" /\ Desk!StopEnds)
  /\ WF_deskVars(part = "desktop" /\ Desk!Kill)
  /\ WF_deskVars(part = "desktop" /\ Desk!Boot)
  /\ WF_deskVars(part = "desktop" /\ Desk!Respawn)
  /\ WF_deskVars(part = "desktop" /\ Desk!Rewait)

Spec == Init /\ [][Next]_vars

FairSpec == Spec /\ Fairness

\* Every part's state stays in its type.
TypesOK == Link!TypeOK /\ Notes!TypeOK /\ Screen!TypeOK /\ Desk!TypeOK

\* A command the client takes an answer for has run exactly once, the answer is its own, and the
\* controller leaves the shared block mapped as long as the hook may touch it, whatever timed out
\* before (native.py _ask, controller.c, hook.c).
AnswersAreOwn == Link!AnswerIsOwn /\ Link!ExecutedOnceInOrder /\ Link!MappingOutlivesUse

\* Each display of a notice is answered at most once, and a trade notice only with its box
\* checked (startup.c confirm_document and trade_notice).
NoticesAnswered == Notes!OncePerDisplay /\ Notes!TradeChecked

\* There is never a second terminal, and the monitor never reports the planned end of one as
\* a failure (runtime.py restart_terminal and the monitor loop).
OneTerminal == Desk!OneTerminal /\ Desk!ExitIsGenuine

\* What waits comes to an end: the controller leaves after the input has ended, notices close,
\* and an operation on the screen returns although windows keep coming.
WaitsEnd == Link!ControllerLeaves /\ Notes!NoticesClose /\ Screen!OperationEnds

\* A stop of the service returns, and the exit of a terminal is reported unless the runtime
\* is stopping (runtime.py and service.py stop).
StopReturns == Desk!StopReturns /\ Desk!ExitNoticed

=============================================================================
