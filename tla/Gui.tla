-------------------------------- MODULE Gui ---------------------------------
(***************************************************************************)
(* How the worker uses the terminal's windows (terminal/gui.py, with the   *)
(* readiness scan of native/readiness.c): the check and recovery before    *)
(* and after every operation, the keys in between, the tables located and  *)
(* cached for CSV exports, and the funds dialog.  A person and the         *)
(* terminal change the windows at any moment: a decision is taken on one   *)
(* native read and carried out by a later one.                             *)
(*                                                                         *)
(* Two funds dialogs at once count as an unknown window, as in the code.   *)
(* A dialog is known by the serial number of its display, never by its     *)
(* handle, which the terminal uses again.                                  *)
(***************************************************************************)
EXTENDS Naturals

CONSTANTS
  Operations,    \* subset of {"grid", "balance"}
  MaxRuns,       \* bound: operations
  MaxEvents,     \* bound: disturbances by a person or the terminal
  XdoFails       \* may the key tool fail or time out

\* What the constants must be.
Constants ==
  /\ Operations \subseteq {"grid", "balance"}
  /\ MaxRuns \in Nat /\ MaxEvents \in Nat /\ XdoFails \in BOOLEAN

VARIABLES
  pc,        \* where the worker is
  back,      \* where ensure_ready returns to
  next,      \* where baseline returns to
  ready,     \* ensure_ready's locals: keyboard, posted, released and the action decided on
  expired,   \* the deadline of the loop it is in has passed
  touched,   \* Gui.touched
  cached,    \* Gui.bindings for the table: what was bound, or NoTable
  job,       \* the operation: name, calls of grid still to make, and whether a resume
  got,       \* what the operation returned
  failed,    \* its error: "none", "request", or "reset" (the executor is blocked)
  runs,
  win,       \* the windows: main, unknown, funds (serial or 0), menu, busy, notice
  held,      \* modifiers that are down: the bridge's, the person's
  table,     \* the table on the screen: object, valid layout, full filter
  closing,   \* a WM_CLOSE for the funds dialog is in the message queue
  asked,     \* funds queries the terminal has not answered yet
  serial,    \* displays of a funds dialog so far
  base,      \* serial when baseline last saw no dialog
  events

control == <<pc, back, next, ready, expired>>
kept == <<touched, cached>>
results == <<job, got, failed, runs>>
world == <<win, held, table, closing, asked, serial, events>>
vars == <<control, kept, results, world, base>>

NoTable == [object |-> 0, valid |-> FALSE, full |-> FALSE]
Nothing == [name |-> "none", table |-> NoTable, serial |-> 0]
Loop(keyboard) == [keyboard |-> keyboard, posted |-> {}, released |-> FALSE, action |-> "none"]

Init ==
  /\ pc = "idle" /\ back = "idle" /\ next = "idle" /\ ready = Loop(FALSE) /\ expired = FALSE
  /\ touched = FALSE /\ cached = NoTable
  /\ job = [name |-> "none", left |-> 0] /\ got = Nothing /\ failed = "none" /\ runs = 0
  /\ win = [main |-> TRUE, unknown |-> "none", funds |-> 0, menu |-> "none", busy |-> FALSE, notice |-> FALSE]
  /\ held = [bridge |-> FALSE, person |-> FALSE]
  /\ \E v, f \in BOOLEAN : table = [object |-> 1, valid |-> v, full |-> v /\ f]
  /\ closing = FALSE /\ asked = 0 /\ serial = 0 /\ base = 0 /\ events = 0

-----------------------------------------------------------------------------
(* The terminal and the person at it.                                      *)

Outside == UNCHANGED <<control, kept, results, base>>

\* A person opens or closes something, holds a key or changes the table's filter;
\* the terminal loses its main window, shows a notice or builds the table anew.
Disturb ==
  /\ events < MaxEvents /\ events' = events + 1
  /\ \/ \E u \in {"none", "other"} : win' = [win EXCEPT !.unknown = u] /\ UNCHANGED <<held, table, serial>>
     \/ \E m \in {"none", "own", "foreign"} : win' = [win EXCEPT !.menu = m] /\ UNCHANGED <<held, table, serial>>
     \/ \E b \in BOOLEAN : win' = [win EXCEPT !.busy = b] /\ UNCHANGED <<held, table, serial>>
     \/ win' \in {[win EXCEPT !.notice = TRUE], [win EXCEPT !.main = FALSE]} /\ UNCHANGED <<held, table, serial>>
     \/ win.funds # 0 /\ win' = [win EXCEPT !.funds = 0] /\ UNCHANGED <<held, table, serial>>
     \/ win.funds = 0 /\ serial' = serial + 1 /\ win' = [win EXCEPT !.funds = serial'] /\ UNCHANGED <<held, table>>
     \/ \E p \in BOOLEAN : held' = [held EXCEPT !.person = p] /\ UNCHANGED <<win, table, serial>>
     \/ \E o \in {table.object, table.object + 1}, v, f \in BOOLEAN :
          table' = [object |-> o, valid |-> v, full |-> v /\ f] /\ UNCHANGED <<win, held, serial>>
  /\ Outside /\ UNCHANGED <<closing, asked>>

\* A funds query is answered, perhaps long after its request gave up.
Answer ==
  /\ asked > 0 /\ win.funds = 0 /\ win.unknown = "none" /\ asked' = asked - 1
  /\ \/ serial' = serial + 1 /\ win' = [win EXCEPT !.funds = serial']
     \/ win' = [win EXCEPT !.unknown = "failure"] /\ UNCHANGED serial
  /\ Outside /\ UNCHANGED <<held, table, closing, events>>

\* The posted WM_CLOSE is handled; a dialog may ignore it.
Closed ==
  /\ closing /\ closing' = FALSE
  /\ \E f \in {0, win.funds} : win' = [win EXCEPT !.funds = f]
  /\ Outside /\ UNCHANGED <<held, table, asked, serial, events>>

\* The scans answer a known notice, and it closes.
NoticeCloses ==
  /\ win.notice /\ win' = [win EXCEPT !.notice = FALSE]
  /\ Outside /\ UNCHANGED <<held, table, closing, asked, serial, events>>

\* Time: the deadline of a waiting loop passes.
Expire ==
  /\ pc \in {"look", "recover", "baseline", "again", "open", "closing"} /\ ~expired /\ expired' = TRUE
  /\ UNCHANGED <<pc, back, next, ready, kept, results, world, base>>

-----------------------------------------------------------------------------
(* Errors, keys, and where they lead.                                      *)

Still == UNCHANGED world

\* Before the operation owns anything an error leaves the worker blocked; after
\* that the clean-up follows, and an error of the clean-up itself blocks.
Raise(kind) ==
  /\ pc' = IF back \in {"op", "finished"} THEN "blocked" ELSE "finish"
  /\ failed' = kind
  /\ UNCHANGED <<back, next, ready, expired, touched, cached, job, got, runs, base>>

\* activate and key: the flag first; a key tool that is killed may leave a
\* modifier down.
PressKey(to) ==
  /\ touched' = TRUE
  /\ \/ /\ pc' = to /\ expired' = FALSE
        /\ UNCHANGED <<back, next, ready, cached, results, held, base>>
     \/ /\ XdoFails /\ \E b \in BOOLEAN : held' = [held EXCEPT !.bridge = b]
        /\ pc' = "finish" /\ failed' = "reset"
        /\ UNCHANGED <<back, next, ready, expired, cached, job, got, runs, base>>

\* ensure_ready is entered.
Call(keyboard, to) == pc' = "look" /\ back' = to /\ ready' = Loop(keyboard) /\ expired' = FALSE

-----------------------------------------------------------------------------
(* ensure_ready: read, decide, act, read again.                            *)

Modifiers == held.bridge \/ held.person

\* What one read of the summary leads to.
Decision ==
  IF ~win.main \/ win.unknown # "none" THEN "error"
  ELSE IF win.notice THEN "wait"
  ELSE IF win.menu # "none" THEN (IF win.menu = "foreign" \/ win.funds # 0 \/ win.busy THEN "error" ELSE "menu")
  ELSE IF win.funds # 0 /\ ~win.busy THEN "funds"
  ELSE IF win.busy \/ win.funds # 0 THEN "error"
  ELSE IF ready.keyboard /\ Modifiers THEN (IF ready.released THEN "wait" ELSE "release")
  ELSE "ready"

\* Mutant of LookExpired: the deadline counts from the last read.
LookExpiredFresh ==
  /\ pc = "look" /\ expired /\ expired' = FALSE
  /\ UNCHANGED <<pc, back, next, ready, kept, results, world, base>>

\* Out of time.  Until then a call posts each action once and waits for its effect.
LookExpired == pc = "look" /\ expired /\ Raise("reset") /\ Still

LookError == pc = "look" /\ Decision = "error" /\ Raise("reset") /\ Still

LookReady ==
  /\ pc = "look" /\ Decision = "ready"
  /\ pc' = back /\ back' = "idle" /\ expired' = FALSE
  /\ UNCHANGED <<next, ready, kept, results, world, base>>

LookAct ==
  /\ pc = "look" /\ Decision \in {"menu", "funds"} \ ready.posted
  /\ pc' = "recover" /\ ready' = [ready EXCEPT !.action = Decision]
  /\ UNCHANGED <<back, next, expired, kept, results, world, base>>

\* keyup for all modifiers, once per call; a person may hold one down.
LookRelease ==
  /\ pc = "look" /\ Decision = "release"
  /\ \/ /\ touched' = TRUE /\ ready' = [ready EXCEPT !.released = TRUE]
        /\ \E p \in BOOLEAN : held' = [bridge |-> FALSE, person |-> held.person /\ p]
        /\ UNCHANGED <<pc, back, next, expired, cached, results, win, table, closing, asked, serial, events, base>>
     \/ XdoFails /\ Raise("reset") /\ Still

\* Mutant of Rescan: the summary read before is trusted.
RescanTrusting == TRUE

\* recover_gui scans again, in the GUI thread, before it acts on its target.
Rescan ==
  /\ win.main /\ win.unknown = "none" /\ ~win.notice
  /\ IF ready.action = "menu" THEN win.menu = "own" /\ win.funds = 0
     ELSE win.funds # 0 /\ win.menu = "none" /\ ~win.busy

Recover ==
  /\ pc = "recover" /\ Rescan
  /\ win' = IF ready.action = "menu" THEN [win EXCEPT !.menu = "none"] ELSE win
  /\ closing' = (closing \/ ready.action = "funds")
  /\ pc' = "look" /\ ready' = [ready EXCEPT !.posted = @ \cup {ready.action}, !.action = "none"]
  /\ UNCHANGED <<back, next, expired, kept, results, held, table, asked, serial, events, base>>

RecoverRefused == pc = "recover" /\ ~Rescan /\ Raise("reset") /\ Still

EnsureReady ==
  LookExpired \/ LookError \/ LookReady \/ LookAct \/ LookRelease \/ Recover \/ RecoverRefused

-----------------------------------------------------------------------------
(* baseline: a complete snapshot with nothing in the way.                  *)

\* Mutant of Clean: dialogs are not looked at.
CleanOfMenus == win.menu = "none" /\ ~win.busy

Clean == win.unknown = "none" /\ win.funds = 0 /\ win.menu = "none" /\ ~win.busy

Baseline ==
  /\ pc = "baseline"
  /\ \/ win.notice /\ expired /\ Raise("request")
     \/ ~win.notice /\ ~win.main /\ Raise("reset")
     \/ /\ ~win.notice /\ win.main /\ Clean
        /\ pc' = next /\ base' = serial
        /\ UNCHANGED <<back, next, ready, expired, kept, results>>
     \/ /\ ~win.notice /\ win.main /\ ~Clean
        /\ Call(FALSE, "again") /\ UNCHANGED <<next, kept, results, base>>
  /\ Still

\* The second snapshot, after a recovery.
BaselineAgain ==
  /\ pc = "again"
  /\ \/ win.notice /\ expired /\ Raise("request")
     \/ ~win.notice /\ ~(win.main /\ Clean) /\ Raise("reset")
     \/ /\ ~win.notice /\ win.main /\ Clean /\ pc' = next /\ base' = serial
        /\ UNCHANGED <<back, next, ready, expired, kept, results>>
  /\ Still

ToBaseline(to) == pc' = "baseline" /\ next' = to /\ expired' = FALSE /\ UNCHANGED <<back, ready, kept, results, base>>

-----------------------------------------------------------------------------
(* grid: the table's window, from the cache or located anew.               *)

\* The cached handle still is the object bound, with its layout and filter.
Current == table.valid /\ table.object = cached.object /\ table.full

Grid ==
  /\ pc = "op" /\ job.name = "grid"
  /\ IF cached # NoTable THEN Call(FALSE, "cached") /\ UNCHANGED <<next, kept, results, base>>
     ELSE ToBaseline("locate")
  /\ Still

\* Mutant of Found: a call too many is made for the table.
FoundOnce ==
  /\ cached' = table /\ got' = [Nothing EXCEPT !.name = "grid", !.table = table]
  /\ job' = [job EXCEPT !.left = @ - 1] /\ pc' = IF job.left >= 0 THEN "op" ELSE "finish"
  /\ UNCHANGED <<back, next, ready, expired, touched, failed, runs, base>>

\* The binding is kept for the next call; an export reads a table twice.
Found ==
  /\ cached' = table /\ got' = [Nothing EXCEPT !.name = "grid", !.table = table]
  /\ job' = [job EXCEPT !.left = @ - 1] /\ pc' = IF job.left > 1 THEN "op" ELSE "finish"
  /\ UNCHANGED <<back, next, ready, expired, touched, failed, runs, base>>

Cached ==
  /\ pc = "cached"
  /\ \/ Current /\ Found
     \/ /\ ~Current /\ cached' = NoTable
        /\ pc' = "baseline" /\ next' = "locate" /\ expired' = FALSE
        /\ UNCHANGED <<back, ready, touched, results, base>>
  /\ Still

\* The page key may bring the table up, the filter key may complete it.
Keyed(to) ==
  /\ PressKey(to)
  /\ \E t \in {table, [table EXCEPT !.valid = TRUE], [table EXCEPT !.valid = TRUE, !.full = TRUE]} : table' = t
  /\ UNCHANGED <<win, closing, asked, serial, events>>

\* Not found: its page is opened and the search repeated.  Found but not
\* complete: the filter is set and checked.
Locate ==
  \/ pc = "locate" /\ table.valid /\ table.full /\ Found /\ Still
  \/ pc = "locate" /\ ~table.valid /\ Keyed("page")
  \/ pc \in {"locate", "shown"} /\ table.valid /\ ~table.full /\ Keyed("filter")
  \/ pc \in {"page", "filter"} /\ ToBaseline(IF pc = "page" THEN "shown" ELSE "filtered") /\ UNCHANGED held /\ Still
  \/ pc = "shown" /\ ~table.valid /\ Raise("request") /\ Still
  \/ pc = "shown" /\ table.valid /\ table.full /\ Found /\ Still
  \/ pc = "filtered" /\ table.valid /\ table.full /\ Found /\ Still
  \/ pc = "filtered" /\ ~(table.valid /\ table.full) /\ Raise("request") /\ Still

-----------------------------------------------------------------------------
(* balance_text: the funds dialog is opened, read and closed.              *)

Balance == pc = "op" /\ job.name = "balance" /\ ToBaseline("ask") /\ Still

\* The button gets the focus, then the space bar.
Ask ==
  /\ pc = "ask" /\ PressKey("open")
  /\ asked' = (IF pc' = "open" THEN asked + 1 ELSE asked)
  /\ UNCHANGED <<win, table, closing, serial, events>>

\* One dialog has appeared: the funds dialog with its text, a dialog to be closed
\* (the terminal's failure, or no text in it), or an unknown one.
Opened ==
  /\ pc = "open"
  /\ \/ /\ ~win.notice /\ win.funds # 0 /\ win.unknown = "none"
        /\ got' = [Nothing EXCEPT !.name = "balance", !.serial = win.funds]
        /\ Call(FALSE, "finish") /\ UNCHANGED <<next, kept, job, failed, runs, held, base>> /\ Still
     \/ /\ ~win.notice /\ (win.funds = 0 \/ win.unknown = "none") /\ (win.funds # 0 \/ win.unknown = "failure")
        /\ PressKey("closing") /\ UNCHANGED <<win, table, closing, asked, serial, events>>
     \/ /\ ~win.notice /\ (win.unknown = "other" \/ (win.unknown # "none" /\ win.funds # 0))
        /\ Raise("reset") /\ Still
     \/ (win.notice \/ (win.funds = 0 /\ win.unknown = "none")) /\ expired /\ Raise("request") /\ Still

\* close_dialog: Escape, after which the dialog has to go.
CloseDialog ==
  LET there == win.unknown = "failure" \/ win.funds # 0 IN
  /\ pc = "closing"
  /\ \/ /\ there /\ ~expired
        /\ win' = [win EXCEPT !.unknown = IF @ = "failure" THEN "none" ELSE @, !.funds = 0]
        /\ UNCHANGED <<control, kept, results, held, table, closing, asked, serial, events, base>>
     \/ (~there \/ expired) /\ Raise("request") /\ Still

-----------------------------------------------------------------------------
(* Executor.execute and resume around them.                                *)

\* A new operation forgets the cached tables and checks the windows first.
Execute(name) ==
  /\ pc = "idle" /\ runs < MaxRuns /\ runs' = runs + 1
  /\ cached' = NoTable /\ got' = Nothing /\ failed' = "none"
  /\ job' = [name |-> name, left |-> 2]
  /\ Call(name = "balance", "op")
  /\ UNCHANGED <<next, touched, base>> /\ Still

\* resume: the clean-up is tried again.
Resume ==
  /\ pc = "blocked" /\ runs < MaxRuns /\ runs' = runs + 1
  /\ pc' = "finish" /\ cached' = NoTable /\ failed' = "none" /\ job' = [job EXCEPT !.name = "none"]
  /\ UNCHANGED <<back, next, ready, expired, touched, got, base>> /\ Still

\* finish: if keys were used all modifiers are released and have to be up.
Finish ==
  /\ pc = "finish"
  /\ \/ /\ Call(touched, "finished")
        /\ \E p \in BOOLEAN :
             held' = IF touched THEN [bridge |-> FALSE, person |-> held.person /\ p] ELSE held
        /\ UNCHANGED <<next, kept, results, win, table, closing, asked, serial, events, base>>
     \/ /\ touched /\ XdoFails /\ pc' = "blocked" /\ failed' = "reset"
        /\ UNCHANGED <<back, next, ready, expired, kept, job, got, runs, base>> /\ Still

Finished ==
  /\ pc = "finished" /\ touched' = FALSE
  /\ pc' = IF failed = "reset" THEN "blocked" ELSE "idle"
  /\ UNCHANGED <<back, next, ready, expired, cached, results, base>> /\ Still

Run ==
  \/ EnsureReady \/ Baseline \/ BaselineAgain \/ Grid \/ Cached \/ Locate
  \/ Balance \/ Ask \/ Opened \/ CloseDialog \/ Finish \/ Finished

Next ==
  \/ \E name \in Operations : Execute(name)
  \/ Resume \/ Run
  \/ Disturb \/ Answer \/ Closed \/ NoticeCloses \/ Expire

Spec == Init /\ [][Next]_vars

\* The worker keeps running and deadlines pass; nothing is assumed of the
\* terminal or the person.
FairSpec == Spec /\ WF_vars(Run) /\ WF_vars(Expire)

-----------------------------------------------------------------------------

Steps == {"idle", "look", "recover", "baseline", "again", "op", "cached", "locate", "page", "shown", "filter",
          "filtered", "ask", "open", "closing", "finish", "finished", "blocked"}

\* Every variable stays in its domain; a posted recovery is one the code knows.
TypeOK ==
  /\ {pc, back, next} \subseteq Steps /\ {expired, touched, closing} \subseteq BOOLEAN
  /\ ready \in [keyboard : BOOLEAN, posted : SUBSET {"menu", "funds"}, released : BOOLEAN,
                action : {"none", "menu", "funds"}]
  /\ got.name \in {"none", "grid", "balance"} /\ job.left \in 0 .. 2
  /\ failed \in {"none", "request", "reset"} /\ runs \in 0 .. MaxRuns
  /\ held \in [bridge : BOOLEAN, person : BOOLEAN]

\* A modifier the bridge may have left down is remembered until finish has
\* released it, through failures of the key tool, blocked states and resumes.
HeldIsRemembered == held.bridge => touched

\* The table handed to an export had its layout and its complete filter when it
\* was last read, also when it came from the cache after somebody changed it.
TableIsComplete == got.name = "grid" => got.table.valid /\ got.table.full

\* The funds text comes from a dialog that appeared after the request had seen a
\* screen without dialogs, not from one left open before.
BalanceShownHere == got.name = "balance" => got.serial > base

\* A recovery ends a menu of the main window or closes the funds dialog, and only
\* while no unknown window, notice or second obstacle is there.
RecoversOnlyKnown ==
  [][ /\ (closing' /\ ~closing) => win.main /\ win.unknown = "none" /\ win.funds # 0 /\ win.menu = "none"
      /\ (pc = "recover" /\ win'.menu # win.menu /\ pc' = "look") => win.unknown = "none" /\ win.menu = "own"]_vars

\* Every operation comes to its end, ready or blocked, whatever stays on the screen.
OperationEnds == pc \notin {"idle", "blocked"} ~> pc \in {"idle", "blocked"}

=============================================================================
