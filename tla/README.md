# Verification of cn-futures-bridge

cn-futures-bridge drives a Windows futures terminal (under Wine, in a container)
for one account and offers orders, cancels and queries over HTTP. The terminal has
no transactional interface: an order is a key press in a GUI, and what became of it
is read back from exported tables. The whole design therefore turns on one promise:
**an order is handed to the terminal at most once, and the bridge never says "not
sent" of something it may have sent** - across dead workers, late answers, full
disks, clients that leave, operators that take over, and restarts.

This directory holds TLA+ models of the parts that keep this promise, TLC
configurations that check them on small instances, and TLAPS proofs of the central
statements for instances of every size.

## 1. Inventory

Source paths are relative to `src/`.

| Component | State | Operations | Hard behaviour | Properties that make it correct |
|---|---|---|---|---|
| Dispatcher `dispatch.py` | FIFO queue, active job, paused / stopping / ready / failed / owner_busy, last worker state, cached count of unknown operations, resume future | submit, cancel, pause, resume, stop; the thread's loop; isolation after an error | one lock shared by HTTP threads, the control thread and the dispatcher thread; the worker process runs in parallel with it | no job lost, started twice, or started after stop; a pause excludes every owner |
| Journal `journal.py` | SQLite table, one row per admitted write | lookup, admit, phase, finish, interrupted, recover, unresolved, prune | two processes write it; a transaction may fail before or *after* its commit; crashes between saves | write-ahead, truthful recovery, unknown rows are never forgotten |
| Reconnect plan `reconnect.py` | last observation, deadline, attempt | observe, due, begin | observations are de-duplicated | a safe lost connection always has a retry |
| Worker `worker.py` | one process, one pipe | start, exchange, stop, terminate | death, late answers, an acknowledged stop that has not exited | one owner of the terminal |
| Executor `terminal/executor.py`, `steps.py`, `orders.py`, `market.py` | session, blocked, error, poisoned client; effect of the current write | start, validate_session, resume, execute (query, order, cancel), cleanup | failure at any step around the key press | at most one send, effect saved before it |
| HTTP execution `http_execution.py` | one handler per call | admission, wait, disconnect, deadline | decisions taken while submit or the thread runs | truthful 499 and 504 |
| Service, control channel `service.py`, `control.py` | threads, the control socket | start, maintain, pause, resume, clean, stop | order of the stop; maintenance beside everything | see dispatcher |
| Desktop runtime `runtime.py` | processes, error, window state | start, monitor, restart_terminal, stop | restart racing stop and monitor | restart only when nothing is unsettled |
| Artifacts `artifacts.py` | registered directories | create, finish, clean | budget with protected entries | protected evidence is kept, limits hold |
| Native link `terminal/native.py`, `native/controller.c`, `hook.c`, `common.c` | pipe, shared block, outstanding call, poisoned flag | ask, timeouts, close | late answers, nothing is numbered | an answer belongs to its command |
| Send receipt `native/receipt.c`, `import_scope.c` | hook slots, counters | arm, observe, finish | nested sends, keys that arrive late | a receipt belongs to one send |
| Notices `native/startup.c`, `readiness.c`, `gui.c`, `browser.c` | last window and kind, phase, budget | recognise, click, confirm, reset | answers handled after more scans, reused handles | nothing answered twice, every notice closes |
| GUI driving `terminal/gui.py`, `native/readiness.c` | touched keys, table bindings | ensure_ready, key, grid, balance, finish | decisions on stale summaries, killed key tool | only known windows are closed, tables are complete |
| Session `terminal/gui.py` login, `executor.py` | generation, session identity, disconnected, identity_lost | login, bind, validate, resume | persons log in, connections drop and return | orders go to the configured account, in one session |
| Order form `terminal/order_form.py`, `market.py` | form state, dialog | snapshot, fill, open, confirm, restore | late dialogs, fields that change behind the back | what is sent is the request; the form is put back |
| Local orders `terminal/orders.py` | owned row, parked id | bind, select, send, cancel, clean up | keys act on a position in a shared list | other people's rows stay untouched |
| Pricing `terminal/pricing.py`, `policy.py` | none | normalise a limit price, emulate a market order | grid, limits, ratio and noise at once | best legal price, refusals with a reason |
| Verification `terminal/verification.py`, `tracking.py`, `native/tracking.c` | baseline, order number | snapshot, observe, query | four lists that lag independently | only proven facts are reported |
| CSV, logging, configuration, models, API, CLI, container | | | data conversion, I/O | see `PROJECT.json` |

How they interact: an HTTP handler calls `Dispatcher.submit` in a thread pool, which
asks the journal for a replay, admits the write and queues a job. The dispatcher
thread takes jobs one at a time and sends each through a pipe to the worker, whose
executor walks through the GUI steps and saves every phase in the same journal file.
The result comes back through the pipe, is saved once more by the parent and set as
the job's future, for which the handler waits. The control thread calls pause and
resume. When the connection is lost and nothing is unsettled, the thread stops the
worker, asks the runtime for a new terminal and starts a new worker. Any error of an
exchange isolates the worker: the thread saves what the journal knows, answers
everything and ends.

The hazards this gives rise to are listed in `PROJECT.json` with the source line
where each bites and the properties that cover it.

## 2. Modules

| Module | Models |
|---|---|
| `Journal` | `journal.py`: rows, and each method as an operator from table to table. `Commit` is the three ways a transaction ends: saved, lost, or saved *and* reported as failed (the checkpoint and the size check run after the commit). |
| `ReconnectPlan` | `reconnect.py`: observe and begin. |
| `Executor` | the worker process: its commands, and a write as the sequence of journal saves around the key press. Variable `sent` counts what the terminal really got; no code reads it, except that a receipt and a "sent" row need a send. |
| `Dispatcher` | everything composed: dispatcher thread (`D...`), HTTP handlers (`Arrive`, `Submit...`, `Drop`, `Leave`, `Expire`, `Respond`), control thread (`Pause...`, `Resume...`), environment (`Tick`, `Age`, `Stop`, `RuntimeFail`, `Maintain`, `Off`, `Boot`), and the properties. |
| `DispatcherInvariant` | the inductive invariant `IInv`. |
| `Submission` | the abstract promise: a write is new, live, then over; it is sent at most once and only while live, and denied only once it is over without having been sent. |
| `DispatcherRefinement` | the refinement mapping from `Dispatcher` to `Submission`. |
| `NativeLink` | client, controller process, shared block and hook of the GUI thread. |
| `Receipt` | the send observer: arm, the hooked send with nested sends and callbacks, finish, and the client's reading of the result. |
| `Preorders` | the list of local orders and of working orders: bind, select, send, cancel, delete, while others use the list. |
| `OrderForm` | the limit IOC path: form, dialog, created row, restore. |
| `Session` | login window, account binding, validation around every operation, resume. |
| `Gui` | readiness, recovery, keys, table bindings, funds dialog. |
| `Notices` | the scan that answers known documents and notices. |
| `Verification` | what is reported of an order after it was sent, from lists that lag. |
| `Pricing` | the price an order goes out with, against a reference definition. |
| `Artifacts` | evidence directories, their budget, protection, crashes. |
| `Desktop` | the runtime's threads: start, watch, restart, stop, storage monitor. |
| `MCDispatcher` | instances of `Dispatcher` for TLC. |
| `ScreenPart` | the instance of `Gui` that `MCTerminal` and `MCReadings` extend. |
| `MCTerminal`, `MCOrders`, `MCReadings` | instances of the eleven component modules, four to a run, with the properties that conjoin theirs. |
| `DispatcherTypes` | proofs about `Dispatcher`: queues, types, the parts of `IInv` on jobs and turns. |
| `DispatcherProofs` | proofs about `Dispatcher`: `IInv` and what follows from it; what journal rows say; recovery, pause, restart, replay and the refinement of `Submission`. |
| `OrdersProofs`, `FormProofs` | proofs about the parts of `MCOrders`: `Session` and `Receipt`; `OrderForm` and `Preorders`. |
| `ScreenProofs` | proofs about `Gui`, the part that `MCTerminal` and `MCReadings` share. |
| `TerminalProofs` | proofs about the parts of `MCTerminal`: `Desktop`, `NativeLink` and `Notices`. |
| `LimitsProofs`, `ReadingsProofs` | proofs about the parts of `MCReadings`: finite sums, `Artifacts` and `Pricing`; `Verification` and what joins the parts. |

Correspondence of state: `queue`, `active`, `paused`, `stopping`, `ready`, `failed`,
`owner_busy`, `state`, `unresolved`, `reconnect`, `resume_future` are the fields of
`Dispatcher`; `handle` says that `WorkerProcess.process`/`connection` are set; `dpc`
is the program counter of `_run`/`_loop`; `exec` and `steps` are the `Executor` and
`Steps` objects; `future`, `cancelled`, `http` and `resp` belong to the handlers;
`human` and `held` are history bits (pause reported success; the service started with
unknown rows), read by properties only.

A client that leaves (`Drop`) sets the event of its request without the lock. A handler that
still waits for its admission answers 499 there and then (`LeftEarly`), whatever submit
decides: before submit's look at the event the handler goes on to `SubmitDropped`; after it
the job is queued and the handler is `left`. A handler that waits for the result is
`leaving` and answers after it has asked `cancel` (`Leave`). Both answers are recorded in
`resp`; `left` tells the first one apart (`AnsweredEarly`).

Atomicity. One action is one critical section of `Dispatcher.condition`, except that
a section which makes two journal transactions, or reads the clients' events one by
one, is split so that the worker's own saves, deadlines and disconnects can fall in
between; `Locked` keeps other sections out meanwhile. In the worker one action is one
journal transaction, one command without a journal access, or the key press.

Data. A request is an element of `Request` with a kind, a key and a fingerprint. A
reply is its code and its submission status. Reads of the terminal are
nondeterministic. Time is a bit (`late`, `aged`) or a choice. Error codes that the
control flow treats alike are merged (see `ErrorCode`).

How the modules fit together. `Executor` sees the GUI as results: a step succeeds,
fails or hangs, and the key may or may not have sent the order. The other modules open
these results up, one boundary each, and each takes the one below as its environment:
`Preorders` and `OrderForm` say which row the key acts on, `Receipt` when its reference
may be believed (this is what lets `Executor` assume that an accepted receipt implies a
send), `Session` whose account it is, `Gui` and `Notices` what else is on the screen,
`NativeLink` that an answer belongs to its command, `Verification` what is said of the
order afterwards. `Artifacts` and `Desktop` stand behind the branches `Storage` and
`runtimeError` of the dispatcher. They are checked separately: composing them would
multiply state that does not interact (each of them is passed through one call at a
time, under the executor's single thread).

In the GUI modules the disturbances (a person, the network, the terminal's own message
loop) are actions of their own that may fall between any two native calls; a native
call is one action, since it runs as one message in the GUI thread, except where the
code is known not to be atomic (the controller's unordered reads in `NativeLink`).
Windows, rows and dialogs carry a serial number or an owner that no code reads, for the
properties only. `Gui` counts two funds dialogs as an unknown window, as the code does.
`OrderForm` merges side and offset into one field (two radio groups, set and read the
same way), gives every field two values, and assumes that a key which meets the late
dialog does nothing. `Pricing` counts in whole units: the code computes with exact
fractions, and its noise of a billionth of a tick is one unit of four.

Environment events of the dispatcher are switched by the constant `Faults`: `mishap` (the terminal or
the session fails), `workerDeath`, `slowWorker` (an exchange outlasts its timeout
while the worker goes on), `slowSteps` (`step_timeout_ms` above 5 s, so that the
exchange of a resume may outlast the caller's 25 s), `runtimeError`, `crash`, `stop`,
`disconnect`, `deadline`, `operator`, `aging`. The constant `Storage` says how journal
transactions may end. The proofs hold for every choice of both.

## 3. Runs

| Run | Instance | Checks |
|---|---|---|
| `requests` | two orders and a query; capacity 2; disconnects; deadlock checked | `TypeOK`, `QueueSound` |
| `storage` | two calls of one order (same key); transactions lost or late; deadlines, dead workers, disconnects; one crash and restart | `TruthfulNotSent`, `TruthfulSubmitted`, `AnswerIsReplayed`, `ImplementsSubmission` (refinement) |
| `isolation` | order and cancel; mishaps, dead and slow workers; reconnection on | `SendIsJournaled`, `AtMostOnce`, `SingleOwner` |
| `restart` | order and query; crash, TTL, operator, slow steps, desktop errors; one restart | `InitialPause`, `UnknownKept` |
| `operator` | two calls, one key, different parameters; pause and resume, stop, mishaps, reconnection | `PauseExcludesOwner`, `RetryScheduled`, `RestartOnlyWhenSettled`, `OneSendPerKey`, `NoDispatchAfterStop` |
| `liveness` | one order; dead workers, deadlines, disconnects, operator, stop; `FairSpec` | `EveryoneAnswered`, `StopEnds` |
| `terminal` | `NativeLink` (two calls of two kinds, any timeouts), `Notices` (two windows, five kinds, two displays, budget two), `Gui` (one operation, one disturbance, failing key tool), `Desktop` (three terminals, restarts, storage failure); `FairSpec` | `TypesOK`, `AnswersAreOwn`, `NoticesAnswered`, `OneTerminal`, `WaitsEnd`, `StopReturns` |
| `orders` | `Receipt` (two operations, two sends, nesting to depth two, repeated callbacks), `Preorders` (import, form and cancel; others act twice), `OrderForm` (two operations or resumes, a person acts once), `Session` (four operations or resumes, five events) | `TypesOK`, `IdentityIsOwn`, `SubmittedIsOwn`, `SentAsRequested`, `LeftoverBlocks`, `FormReturned`, `AcceptedIsOwn`, `DroppedSessionUnused` |
| `readings` | `Gui` (two operations, one disturbance), `Verification` (an order of two lots in up to two trades, two attempts, every kind of query, contradictory lists), `Pricing` (every order and instrument on a grid of tick 4, prices to 6, ratio 1/5), `Artifacts` (three directories of up to two units, budget four, disk six) | `TypesOK`, `ScreenTrusted`, `RecoversOnlyKnown`, `ObservedIsTrue`, `LagIsPending`, `PriceIsRight`, `RecordKept`, `BudgetHonoured` |

The last three runs take four components each. These share no variable, so a behaviour
of the composition is an interleaving of theirs and every property of theirs is decided
by the behaviours in which one of them moves and the others stand still. The variable
`part`, chosen in the initial state, names the one that moves; the others keep an
initial state. A property of such a run is the conjunction of properties that the
component's module states and explains.

The operators marked "Mutant of" change one definition the way a slip in the code would;
with it in place TLC finds the property violated. `PROJECT.json` lists one for every
property of a run.

The runs have between 60 thousand and 1.2 million distinct states each. The two orders of `requests`,
and those of `storage`, differ in nothing but their name, so these runs use them as a symmetry set. Deadlock is not checked
where the service may end (stop, crash, or isolation followed by nothing) and where a
component's bound ends its behaviour.

Bounds. Two requests are enough for the races of interest: one that runs and one that
waits, replays or is admitted meanwhile; three are used where the queue itself is the
subject (capacity 2, one running, removal from the middle). The worker runs one write
at a time, so a third write adds no interleaving inside it. `MaxBoots` is 1: recovery leaves
every row finished, so a second crash finds at most the rows of the requests made since,
which is the situation of the first one. Commands (probes, resumes, retries) are not bounded; the state
space is finite because each request is made once.

In the other modules: two calls are a call that hangs and one that meets it; two operations are one that leaves something behind and the next that finds
it (late dialogs, keys, observers, cached tables); two windows are what the single slot
of the notices can hold and displace; three directories let one be protected while one
is deleted and one created. `Budget` is 2 where the code has 8, so that the limit is
reached. On a grid of tick 4 with a noise of one unit there are prices on the grid, within
the noise of it and off it, and a limit of 5 may be exceeded by exactly one fifth.

Some constants are the conditions under which the code keeps a promise: `Notices` shows
no two windows that share the slot (`Together`), `Session` lets nobody log in before the
worker's first look (`EarlyRelogin`). That they are needed is shown by the instances
listed below. Three more instances hold and need such a condition: `MC_receipt_release.cfg`
(no notice stays open: the observer is released or the client poisoned),
`MC_preorder_keys.cfg` (nobody acts between the last look and the key: no key touches a
foreign row) and `MC_desktop_stop.cfg` (no restarts: a stop leaves no terminal). They run on
`Receipt`, `Preorders` and `Desktop` directly.

Fairness. `liveness`: weak fairness of the dispatcher thread and of the
worker's own steps (both are loops whose every wait has a timeout or an end of file,
and the worker's calls are bounded by the native timeouts), and of the passing of
deadlines. Nothing is assumed of clients, the operator, the terminal, or of a dead
worker. One request is enough here: a job waits for another only while the thread is
busy with it, and that the thread comes back is what the run shows. `slowWorker` is off in this run: with it the exchange timeout alone would end
every wait. `terminal`, each part while it is the one that moves. `NativeLink`: the controller's loop and the GUI thread's message loop go on;
a lost message stays lost. `Desktop`: the threads of the service go on (every wait of
theirs has a timeout, and the lock the watcher needs is free again and again: strong
fairness of its look); processes exit or not. `Notices`: scans are asked for again
(managed_snapshot and drain_notices poll) and posted messages are handled. `Gui`:
the worker takes its next step and deadlines pass; nothing is assumed of what is on the
screen.

### Disagreements with the documentation

Three runs are expected to be violated; each checks a sentence of the repository.

* `lost_admission` - an insert that is committed before the size check raises
  (journal.py:57-61) leaves a row that answers "still being executed" until the next
  start, although no job exists.
* `receipt_left` - the clean-up waits for notices before it releases the send observer
  (executor.py:280); when that wait fails the observer stays installed and the client is
  not poisoned. `terminal_execution.md:89` and `:111` promise release or isolation.
* `left_admission` - a client that leaves before its handler has heard of the admission is
  answered 499 with a null submission_status and the words "what has not started will be
  cancelled" (http_execution.py:67-71). In the run the job is queued, the thread's sweep has
  looked at the event (dispatch.py:204-208), then the client leaves, and the same round starts
  the job, which is sent. `api.md:160` says null of errors before any effect and "unknown"
  where the effect is not known; the 499 of line 88 does so.

Seven more instances give a counterexample in the same way. They are not among the runs of
`PROJECT.json`; each is reproduced with its `MC_<name>.cfg`, on `MCDispatcher` (the
first three), `Desktop`, `Preorders`, `Notices` and `Session`.

* `pause_overrun` - a resume whose caller gave up after 25 s is still being executed;
  its answer clears `paused` (dispatch.py:231) although the operator has paused
  since, and that pause reports success. `doc/current_specs/terminal_execution.md:61`
  promises that nothing is probed or dispatched after a successful pause. The
  default `step_timeout_ms` must be raised above 5 s for it. What holds nevertheless is
  `PauseHolds` (section 4).
* `late_worker` - after an isolation the old worker may finish and overwrite the
  saved reply (executor.py:323), so that a replay differs from what the first caller
  got; `api.md:88` says the original response is replayed. The overwriting reply is
  never less truthful: only "status unknown" is overwritten, and an effect that was told
  stands (`AnswersStand`, section 4).
* `failed_dispatch` - a sweep that cannot save its result says "dispatch has been
  stopped" (dispatch.py:109), and the same round starts one more job.
* `late_terminal` - a stop that arrives after restart_terminal's last look at
  stop_event (runtime.py:213) is followed by the start of a terminal; runtime.py:214
  says that no terminal is started during a stop.
* `adopted_row` - an import that added nothing, while a person entered an equal row,
  binds that row as the operation's own (orders.py:63), contrary to
  `terminal_execution.md:24`.
* `notice_twice` - two notices on the screen at once share one slot and are answered
  again at every scan (startup.c:245), contrary to `terminal_execution.md:44` and `:49`.
* `early_relogin` - a login by a person before the worker's first read of the
  generation is taken for the worker's own (executor.py:64), contrary to
  `terminal_execution.md:73`.

## 4. Proofs

Every safety and action property that a passing run checks is also a theorem, for
instances of every size, but for two: `PauseExcludesOwner` and `AnswerIsReplayed` hold with the
`Faults` of their runs and not with all. They are model-checked only; what is true of a
pause and of a told answer with every fault is proved instead. The theorems about
`Dispatcher` hold for any set of requests, kinds, keys, queue capacity, `Faults`,
`Storage` and `MaxBoots`, from the named
assumptions on the constants: `StorageAssumption` (outcomes are known ones and include
success), `KindAssumption`, `ReconnectAssumption`, `QueueAssumption` (capacity positive),
`NoRequestAssumption`, `FaultsAssumption`. Those about `MCOrders`, `MCTerminal` and `MCReadings` hold
for every value of their bounds, from `ConstantsAssumption` and `ScreenAssumption`: they
are natural numbers, some of them positive; the windows are finitely many and none of
them is the null handle; twice the noise of a price is less than a tick; the reserve fits
into the maximum of the artifacts.

| Theorem | States |
|---|---|
| `DispatcherTypes!TypeCorrect` | `[]TypeOK` |
| `DispatcherProofs!Invariant` | `[]IInv`, the inductive invariant |
| `DispatcherProofs!Truthful` | `[]TruthfulNotSent` |
| `DispatcherProofs!WriteAhead` | `[]SendIsJournaled` |
| `DispatcherProofs!SentOnce` | `[]AtMostOnce` |
| `DispatcherProofs!OneOwner` | `[]SingleOwner` |
| `DispatcherProofs!StopIsFinal` | `NoDispatchAfterStop` |
| `DispatcherProofs!Rows` | `[]RowInv`, what rows say of queue and started job |
| `DispatcherProofs!QueueIsSound` | `[]QueueSound` |
| `DispatcherProofs!KeySentOnce` | `[]OneSendPerKey` |
| `DispatcherProofs!UnknownIsKept` | `UnknownKept` |
| `DispatcherProofs!SubmittedIsTrue` | `[]TruthfulSubmitted` |
| `DispatcherProofs!Refines` | `ImplementsSubmission` |
| `DispatcherProofs!Restarts` | `[]RestartInv`, the count of unknown rows and the plan |
| `DispatcherProofs!RetryIsScheduled` | `[]RetryScheduled` |
| `DispatcherProofs!RestartIsSettled` | `[]RestartOnlyWhenSettled` |
| `DispatcherProofs!StartsHeldBack`, `StartsPaused` | `[]HeldBack`, `[]InitialPause` |
| `DispatcherProofs!PauseHolds` | `[]PauseStands`, `PauseKept` |
| `DispatcherProofs!AnswersStand` | `[]AnswerStands` |
| `OrdersProofs!SessionInvariant` | `[]SessionInv` |
| `OrdersProofs!SessionIsOwn`, `DroppedIsUnused` | `[]AcceptedIsOwn`, `[]DroppedSessionUnused` |
| `OrdersProofs!ReceiptInvariant`, `ReferenceIsOwn` | `[]ReceiptInv`, `[]IdentityIsOwn` |
| `FormProofs!FormInvariant` | `[]FormInv` |
| `FormProofs!FormSendsRequest`, `FormIsReturned` | `[]SentAsRequested`, `[]FormReturned` |
| `FormProofs!RowsInvariant`, `RowIsOwn` | `[]RowsInv`, `[]SubmittedIsOwn` |
| `FormProofs!LeftoverIsBlocked` | `[]LeftoverBlocks`, from `FormInv` and `RowsInv` |
| `FormProofs!TypesHold` | `[]TypesOK` |
| `TerminalProofs!DeskInvariant`, `TerminalIsOne` | `[]DeskInv`, `[]OneTerminal` |
| `TerminalProofs!LinkInvariant`, `AnswerIsForIt` | `[]LinkInv`, `[]AnswersAreOwn` |
| `TerminalProofs!NotesInvariant`, `NoticesAreAnswered` | `[]NotesInv`, `[]NoticesAnswered` |
| `TerminalProofs!TypesHold` | `[]TypesOK` of `MCTerminal` |
| `LimitsProofs!StoreInvariant`, `BudgetIsHonoured` | `[]StoreInv`, `BudgetHonoured` |
| `LimitsProofs!PriceInvariant`, `PriceRight` | `[]PriceInv`, `[]PriceIsRight` |
| `ReadingsProofs!ScreenInvariant`, `ScreenIsTrusted` | `[]ScreenInv`, `[]ScreenTrusted` |
| `ReadingsProofs!RecoversKnown` | `RecoversOnlyKnown` |
| `ReadingsProofs!VerifyInvariant` | `[]VerifyInv` |
| `ReadingsProofs!ObservationTrue`, `LagPending` | `[]ObservedIsTrue`, `[]LagIsPending` |
| `ReadingsProofs!RecordIsKept` | `RecordKept` |
| `ReadingsProofs!Types` | `[]TypesOK` of `MCReadings` |

### The dispatcher

"Not sent" may only be said of a write whose effect the speaker knows,
and there are three speakers: the worker (from `steps`), the parent (for jobs in the
queue, and from the journal after a loss) and recovery (from the journal). None of
the properties is inductive alone. `IInv` adds

* `Turns`: which positions of thread, pipe and worker go together; a worker in the
  middle of a write works for the active job, and the thread is waiting for it or has
  given it up for good;
* `Jobs`: jobs are queued once, the active one is not queued, and a request that is not
  through submit has left no trace in the journal, the worker or any answer;
* `Knowledge`: what the worker's position and `steps.effect` say about the row and
  about `sent` - above all that memory and row say "unknown" before the key;
* `Claims`: whoever is said to be not sent (row, result, response, or the reply an
  isolation is about to save) was not sent *and has no sender left*, neither in the
  queue nor in the worker;
* `Unsent`: nothing still queued was sent, and no query ever is.

`DispatcherTypes` has the facts on sequences (removal, append, head and tail keep an
injective queue injective and within its set), the type invariant with one lemma per
action and the preservation of `Turns` and `Jobs`; `DispatcherProofs` has the rest. `SingleOwner` and `NoDispatchAfterStop` rest on
smaller invariants of their own (`Ownership`, `StopSeen`).

`RowInv` says that a waiting job, and a started one that no worker has taken up, still
has the row it was admitted with, and where the thread is while a job is started. With
it `QueueSound` is immediate, and an isolation cannot replace the "unknown" of a row
(`UnknownKept`): the row it rewrites is the started job's. `TruthfulSubmitted` follows
the word "submitted" to its only source, the receipt (`Proven`). `OneSendPerKey` rests on
`KeyUnique`: two rows of one key never exist together, and a request is sent only
with a row.

`RestartInv` is about two cached values. `Counted`: `unresolved` is right at every
position where the thread uses it, although it is refreshed in one place only.
`PlanSound` and `RetryKept`: the reconnect plan holds a retry exactly when the connection
was lost with nothing unsettled. `HeldBack` needs the whole way from a start over
unknown rows: before the thread pauses itself the rows are still there to make it do so.

"Not sent" is excepted in one answer, the 499 of `left_admission`: `TruthfulNotSent` and
`Claims` pass over `AnsweredEarly` and over nothing else, and the refinement's `denied` with them.

`PauseHolds` is about a pause that reported success, with slow steps or without: while its
flag stands, nobody but the operator drives the terminal (`PauseStands`), and the flag falls
only in the operator's own resume (`PauseKept`). `pause_overrun` shows the way that is left:
the late answer of an earlier resume clears the flag *before* the pause reports. The invariant
`Paused` says where the thread can be then, and that a resume whose caller has given up is past the
thread's choice or answered by an isolation.

`AnswersStand` is about a told result and its row, whoever saves last. They are equal, or
the result was "status unknown", of unknown effect or of the effect that the row's reply
has. `Unanswered`: before the thread gives a started write up it has no result, and what an
isolation tells of one whose worker is still at work is doubtful. `KnownEffect` and
`Certain`: where the isolation read a settled effect from the row, the worker is past the
step that settled it and its own reply will say the same.

### The terminal's side

* `SessionInv`: session numbers grow, a bound session that dropped is remembered as
  down, a key went to the session of its login generation, and what is accepted was
  sent to the configured account in that session.
* `ReceiptInv`: the observer's count is the number of frames on the stack that run
  through it, a filled slot belongs to the window of the operation that armed it, and no
  later operation is armed for a row whose reference was accepted. The stack is a
  sequence of any length up to `MaxDepth`, and the callbacks come in any order.
* `FormInv`: from the button on nothing but the operation creates rows; before it no row
  of the operation's lies above the cursor; once the dialog is confirmed it shows the
  request; in restore the fields passed over are those of the form that was read
  (`Progress`, which needs that the instrument is entered first); and the ghost `leftover`
  tells the truth about the list. `CreatedAsRequested` is about the operation in
  progress: a row that an earlier operation left behind keeps that operation's values.
* `RowsInv`: no position in the list means anything, since others add, remove, start,
  send and sort at any moment. What stays is whose a row is: the operation's lies above
  the cursor, foreign ones lack its identity, the send key touched what the receipt
  captured, and the row bound for sending or deleting is the operation's own.
* `DeskInv`: `lifecycle` says which thread is in its critical section; the handle is the
  only terminal that can be alive, and none is while a restart boots or spawns. A terminal
  ended on purpose is the current one only during that restart or after an error or a
  stop, which the watcher looks at before it looks at the process.
* `LinkInv`: one command is on its way, as a line, in the controller's hands or as an
  answer (`Flight`), at most one message waits or is handled (`Messages`), and while it
  does, nobody writes another command into the block. So the block's number only grows
  (`Numbers`, `Order`), a command that reads as done has run, once, and an answer without an
  error is made from a block of its own number (`Answers`), although the three fields of
  the answer are read one by one while the hook may write them.

* `NotesInv`: the probe remembers one window in its slot and one trade notice, and these
  two memories tell which messages are under way. For a trade notice (`Settled`) it is
  unknown and nothing was posted, or its click waits exactly while the box is clear, or its
  answer waits behind no click and the box is checked; any other window is answered only if
  it is in the slot. A handle is shown again only after a scan has forgotten it
  (`Forgotten`), so what is left of an earlier display never passes for the new one. One
  scan goes through the windows in any order: each window it visits keeps this (`Posting`),
  and the message it posts was not under way (`Novel`).
* `ScreenInv`: where the worker returns to from `ensure_ready`, what it has left to do, that
  a modifier the bridge holds down is remembered, and that a dialog which is there when the
  balance is read appeared after the baseline was taken. The desktop is free to change the
  screen between any two of these.

`NoticesAreAnswered` is about `MCTerminal`, where only trade notices are on the screen beside
another window; `notice_twice` shows what happens when others are.
The theorems about the order form, its rows and the session are about `MCOrders`, with the conditions its instances state:
creating a row adds one, the requested or another, and others do not remove the
operation's own row (`Preorders`; an import that adds nothing is `adopted_row`), and nobody logs in before the worker's first look (`Session`).
The instances of section 3 show what happens without them.

### What is read and what is kept

* `PriceInv` says that the price is still open or is what the rules decide (`Decided`).
  `PriceRight` is then arithmetic: on a grid of any tick with a noise below half a tick, the
  price that is sent is the best legal one for the side, a refusal has its reason, a second
  pass changes nothing, and an emulated market order goes to the limit.
* `VerifyInv`: the versions of the order only grow (`History`); every row that was read
  shows one of them, apart from the numbers of a disturbed list (`Reads`); without a
  disturbance a list shows the order at most once (`Undisturbed`); an attempt that is not
  behind has read the order as it is (`Current`); and what is concluded rests on such
  rows (`Outcome`). The volumes of trades are sums over sets of any size.
* `StoreInv`: what the call that holds the lock has listed is still right, except for
  the worker's own directory, which grows under a clean of the service (`Listed`). So the
  counters bound the bytes there really are, and are exact when the worker itself holds
  the lock (`Counted`); and every directory that a clean may delete is still listed.

### Folds

The bytes of directories, the volumes of fills and a scan of the screen are folds of the
community modules, which unfold a set or a sequence element by element. The induction
theorems of the library cannot be used here (the provers do not instantiate their operator
parameter), so each fact is shown by minimal counterexample: among the subsets of a finite
set that violate it there would be a smallest, since strict inclusion is well-founded on
them (`LimitsProofs!Minimal`, `TerminalProofs!Smallest`). In this way `LimitsProofs` proves that
a sum exists, is unique, does not depend on the order, and grows with its set, and
`TerminalProofs` that a scan exists, is unique, and keeps what each of its steps keeps.

### Only model-checked

Liveness: `EveryoneAnswered` and `StopEnds` (`Dispatcher`), `WaitsEnd` and `StopReturns`
(`MCTerminal`), because fairness and `ENABLED` are beyond the prover. Also
`PauseExcludesOwner` and `AnswerIsReplayed` (`Dispatcher`), whose weaker, unconditional forms are
proved. No recursion is used.

## 5. The refinement

`DispatcherRefinement!ImplementsSubmission` says that every behaviour of the dispatcher,
its worker, its journal and its handlers is, through the mapping, a behaviour of
`Submission`. A write is mapped to *new* while its handler is before the end of submit,
to *live* while the queue or a worker at work holds it (`MaySend`), and to *over* when
nobody is left who could send it; `denied` is the set of writes that a row, a result or
a response now calls "not sent"; of the responses all are read but the 499 of `left_admission`.
A client that is gone before submit has looked at the event ends its request unsent (*over*). A step of the code that changes none of these is a
stutter; the interesting ones are those where a claim and the loss of the last sender
fall into different processes. Run `storage` checks it with crashes and restarts, and
`DispatcherProofs!Refines` proves it for every instance: initial states map to initial
states, and from `IInv` each action is a step of `Submission` or a stutter.

## 6. Not modelled

Not modelled on purpose: configuration, request and result schemas, routing, the
command line, container scripts, logging (its failure flag is a branch of the
worker's commands), the capability refusals of `policy.py`, the framing of the control
socket, and the parsing of tables: stateless conversion and validation, where a unit
test on the value says as much as a model. The layout checks of the native code (offsets
and hashes of the pinned terminal) are facts about a binary. The status report is
derived data. Left out as well: a reply over 8 MiB (`worker.py:64`; a write's reply is a
few hundred bytes), and an error of opening the database file (`journal.py:51`), which is
not a `BridgeError`; SQLite reports such failures in the statements that follow, which are
modelled.
