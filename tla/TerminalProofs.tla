--------------------------- MODULE TerminalProofs ---------------------------
(***************************************************************************)
(* The parts of MCTerminal proved for every bound: the terminal's life,    *)
(* the native link, the notices and the types of all parts.                *)
(***************************************************************************)
EXTENDS MCTerminal, ScreenProofs, FiniteSetTheorems, SequenceTheorems, TLAPS

(***************************************************************************)
(* The terminal's life.  The lock says which thread is in its critical     *)
(* section, and the handle is the only terminal that can be alive.  A      *)
(* terminal ended on purpose is the current one only while the restart     *)
(* goes on, or after it failed, and then the watcher sees that first.      *)
(***************************************************************************)
DeskTurns ==
  /\ restart # "no" <=> lifecycle = "restart"
  /\ run = "look" <=> lifecycle = "run"
  /\ run = "startup" => handle = 0 /\ restart = "no"

DeskOwner ==
  /\ alive \subseteq {handle} /\ retired \subseteq 1 .. handle
  /\ reported \in 0 .. handle /\ reported \notin alive \cup retired
  /\ restart \in {"boot", "spawn"} => alive = {}
  /\ handle \in retired => error # "none" \/ stop_event \/ restart \in {"boot", "spawn"}

DeskNames ==
  /\ run \in {"startup", "window", "watch", "look", "raised", "finally", "done"}
  /\ restart \in {"no", "kill", "boot", "spawn", "wait"}
  /\ maintain \in {"watch", "dispatcher", "done"} /\ main \in {"up", "join", "stopped"}
  /\ lifecycle \in {"free", "run", "restart"}
  /\ error \in {"none", "STARTUP_FAILED", "WINDOW_TIMEOUT", "PROCESS_EXITED", "GUI_UNRESPONSIVE",
                "HTML_SETUP_FAILED", "STORAGE_UNAVAILABLE"}
  /\ state \in {"starting", "window_visible", "window_missing", "reconnecting", "failed"}
DeskNumbers ==
  /\ handle \in 0 .. MaxTerminals /\ alive \subseteq 1 .. MaxTerminals
  /\ retired \subseteq 1 .. MaxTerminals /\ reported \in 0 .. MaxTerminals

DeskInv == Desk!TypeOK /\ DeskTurns /\ DeskOwner

\* What the assumption says of the desktop's bound.
LEMMA Bound == MaxTerminals \in Nat /\ MaxTerminals > 0
<1>1. MaxTerminals \in Nat \ {0}
  BY ConstantsAssumption, Zenon DEF Desk!Constants
<1> QED BY <1>1

\* A terminal that is started is the only one, and is neither retired nor reported.
LEMMA Spawned ==
  ASSUME DeskInv, Desk!Spawn, alive = {}
  PROVE  /\ handle' = handle + 1 /\ handle \in Nat /\ handle + 1 \in 1 .. MaxTerminals /\ alive' = {handle + 1}
         /\ retired \subseteq 1 .. handle /\ reported \in 0 .. handle
<1>1. handle \in 0 .. MaxTerminals /\ handle < MaxTerminals /\ handle' = handle + 1 /\ alive' = alive \cup {handle + 1}
  BY DEF DeskInv, Desk!TypeOK, Desk!Spawn
<1>2. alive' = {handle + 1}
  BY <1>1
<1> QED BY <1>1, <1>2, Bound DEF DeskInv, DeskOwner

\* Nothing runs before the first start and during a restart.
LEMMA NothingRuns ==
  ASSUME DeskInv, run = "startup" \/ restart = "spawn"
  PROVE  alive = {}
<1>1. CASE restart = "spawn"
  BY <1>1 DEF DeskInv, DeskOwner
<1>2. CASE run = "startup"
  BY <1>2, Bound DEF DeskInv, DeskOwner, DeskTurns, Desk!TypeOK
<1> QED BY <1>1, <1>2

\* Each step of the desktop's threads keeps the types.
LEMMA DeskTypes ==
  ASSUME DeskInv, Desk!Next
  PROVE  Desk!TypeOK'
<1>1. stop_event' \in BOOLEAN /\ session' \in BOOLEAN
  <2>1. stop_event' \in {stop_event, TRUE} /\ session' \in {session, FALSE}
    BY Zenon DEF Desk!Next, Desk!Startup, Desk!Window, Desk!WatchEnds, Desk!Watch, Desk!Look, Desk!Raised, Desk!Finally,
       Desk!RestartBegins, Desk!Kill, Desk!Boot, Desk!Respawn, Desk!Rewait, Desk!StorageError, Desk!StorageStop,
       Desk!Stop, Desk!StopEnds, Desk!Exit
  <2> QED BY <2>1, Zenon DEF DeskInv, Desk!TypeOK
<1>2. DeskNames'
  <2> USE DEF DeskInv, Desk!TypeOK, DeskNames, Desk!Fail, Desk!Leave
  <2>1. CASE Desk!Startup \/ Desk!Window \/ Desk!WatchEnds \/ Desk!Watch \/ Desk!Look
    BY <2>1 DEF Desk!Startup, Desk!Window, Desk!WatchEnds, Desk!Watch, Desk!Look
  <2>2. CASE Desk!Raised \/ Desk!Finally \/ Desk!RestartBegins \/ Desk!Kill \/ Desk!Boot
    BY <2>2 DEF Desk!Raised, Desk!Finally, Desk!RestartBegins, Desk!Kill, Desk!Boot
  <2>3. CASE Desk!Respawn \/ Desk!Rewait \/ Desk!StorageError \/ Desk!StorageStop
    BY <2>3 DEF Desk!Respawn, Desk!Rewait, Desk!StorageError, Desk!StorageStop
  <2>4. CASE Desk!Stop \/ Desk!StopEnds \/ Desk!Exit
    BY <2>4 DEF Desk!Stop, Desk!StopEnds, Desk!Exit
  <2> QED BY <2>1, <2>2, <2>3, <2>4 DEF Desk!Next
<1>3. DeskNumbers'
  <2> USE Bound DEF DeskInv, Desk!TypeOK, DeskNumbers, Desk!Spawn, Desk!StopProcesses
  <2>1. CASE (run = "startup" \/ restart = "spawn") /\ Desk!Spawn /\ UNCHANGED <<retired, reported>>
    BY <2>1, Spawned, NothingRuns
  <2>2. CASE Desk!Kill
    BY <2>2 DEF Desk!Kill
  <2>3. CASE (Desk!Startup \/ Desk!Respawn) /\ UNCHANGED <<handle, alive>>
    BY <2>3 DEF Desk!Startup, Desk!Respawn
  <2>4. CASE Desk!Window \/ Desk!WatchEnds \/ Desk!Watch \/ Desk!Look \/ Desk!Raised \/ Desk!Finally \/ Desk!RestartBegins
    BY <2>4 DEF Desk!Window, Desk!WatchEnds, Desk!Watch, Desk!Look, Desk!Raised, Desk!Finally, Desk!RestartBegins
  <2>5. CASE Desk!Boot \/ Desk!Rewait \/ Desk!StorageError \/ Desk!StorageStop \/ Desk!Stop \/ Desk!StopEnds \/ Desk!Exit
    BY <2>5 DEF Desk!Boot, Desk!Rewait, Desk!StorageError, Desk!StorageStop, Desk!Stop, Desk!StopEnds, Desk!Exit
  <2>6. Desk!Startup \/ Desk!Respawn => \/ (run = "startup" \/ restart = "spawn") /\ Desk!Spawn /\ UNCHANGED <<retired, reported>>
                                      \/ UNCHANGED <<handle, alive>>
    BY Zenon DEF Desk!Startup, Desk!Respawn
  <2> QED BY <2>1, <2>2, <2>3, <2>4, <2>5, <2>6 DEF Desk!Next
<1> QED BY <1>1, <1>2, <1>3, Zenon DEF DeskNames, DeskNumbers, Desk!TypeOK

\* Each step keeps who is in which critical section.
LEMMA DeskTurn ==
  ASSUME DeskInv, Desk!Next
  PROVE  DeskTurns'
<1> USE Bound DEF DeskInv, DeskTurns, Desk!TypeOK, Desk!Fail, Desk!Spawn,
        Desk!StopProcesses, Desk!Leave
<1>1. CASE Desk!Startup \/ Desk!Window \/ Desk!WatchEnds \/ Desk!Watch \/ Desk!Look
  BY <1>1 DEF Desk!Startup, Desk!Window, Desk!WatchEnds, Desk!Watch, Desk!Look
<1>2. CASE Desk!Raised \/ Desk!Finally \/ Desk!RestartBegins \/ Desk!Kill \/ Desk!Boot
  BY <1>2 DEF Desk!Raised, Desk!Finally, Desk!RestartBegins, Desk!Kill, Desk!Boot
<1>3. CASE Desk!Respawn \/ Desk!Rewait \/ Desk!StorageError \/ Desk!StorageStop
  BY <1>3 DEF Desk!Respawn, Desk!Rewait, Desk!StorageError, Desk!StorageStop
<1>4. CASE Desk!Stop \/ Desk!StopEnds \/ Desk!Exit
  BY <1>4 DEF Desk!Stop, Desk!StopEnds, Desk!Exit
<1> QED BY <1>1, <1>2, <1>3, <1>4 DEF Desk!Next

\* A step that starts and retires nothing, and ends a restart only with a failure, a stop or a new terminal.
DeskCalm ==
  /\ UNCHANGED <<handle, retired, reported>> /\ alive' \subseteq alive
  /\ error # "none" \/ stop_event => error' # "none" \/ stop_event'
  /\ \/ restart' = restart
     \/ restart = "no" /\ restart' = "kill"
     \/ restart = "boot" /\ restart' = "spawn"
     \/ restart' = "no" /\ (error' # "none" \/ stop_event' \/ restart = "wait")

\* Each step keeps the one terminal, and what was ended on purpose apart from what was reported.
LEMMA DeskOwns ==
  ASSUME DeskInv, Desk!Next
  PROVE  DeskOwner'
<1>0. handle \in Nat /\ 0 \notin alive
  BY Bound DEF DeskInv, Desk!TypeOK
<1>1. CASE /\ run = "startup" \/ restart = "spawn"
           /\ Desk!Spawn /\ restart' \in {"no", "wait"} /\ UNCHANGED <<retired, reported>>
  <2>1. handle' = handle + 1 /\ alive' = {handle + 1} /\ retired' \subseteq 1 .. handle /\ reported' \in 0 .. handle
    BY <1>1, Spawned, NothingRuns
  <2>2. handle + 1 \notin retired' /\ handle + 1 # reported' /\ reported' \notin retired'
    BY <1>0, <1>1, <2>1 DEF DeskInv, DeskOwner
  <2> QED BY <1>0, <1>1, <2>1, <2>2 DEF DeskOwner
<1>2. CASE DeskCalm
  BY <1>2 DEF DeskInv, DeskOwner, DeskCalm
<1>3. CASE Desk!Watch /\ reported' # reported
  <2>1. /\ reported' = handle /\ handle \notin alive /\ lifecycle = "free" /\ ~stop_event /\ error = "none"
        /\ UNCHANGED <<handle, alive, retired, restart, error, stop_event>>
    BY <1>3, Zenon DEF Desk!Watch
  <2>2. handle \notin retired
    BY <2>1 DEF DeskInv, DeskOwner, DeskTurns
  <2> QED BY <1>0, <2>1, <2>2 DEF DeskInv, DeskOwner
<1>4. CASE Desk!Kill
  <2>1. /\ UNCHANGED <<handle, reported, stop_event>> /\ retired' = retired \cup (alive \ alive') /\ alive' \in {alive, {}}
        /\ \/ restart' = "boot" /\ alive' = {} /\ UNCHANGED error
           \/ restart' = "no" /\ (stop_event \/ error' # "none")
    <3>1. CASE restart' = "boot"
      BY <1>4, <3>1 DEF Desk!Kill, Desk!Leave
    <3>2. CASE restart' # "boot"
      BY <1>4, <3>2 DEF Desk!Kill, Desk!Leave, Desk!Fail
    <3> QED BY <3>1, <3>2
  <2>2. alive \subseteq 1 .. handle
    BY Bound DEF DeskInv, DeskOwner, Desk!TypeOK
  <2> QED BY <1>0, <2>1, <2>2 DEF DeskInv, DeskOwner
<1>5. CASE Desk!Startup
  <2>1. CASE Desk!Spawn
    BY <1>1, <1>5, <2>1 DEF DeskInv, DeskTurns, Desk!Startup
  <2>2. CASE ~Desk!Spawn
    <3>1. DeskCalm
      BY <1>5, <2>2, Zenon DEF DeskCalm, Desk!Startup, Desk!Fail
    <3> QED BY <1>2, <3>1
  <2> QED BY <2>1, <2>2
<1>6. CASE Desk!Window \/ Desk!WatchEnds \/ Desk!Look \/ Desk!Raised \/ Desk!Finally
  <2>1. UNCHANGED <<handle, retired, reported, restart>>
    BY <1>6, Zenon DEF Desk!Window, Desk!WatchEnds, Desk!Look, Desk!Raised, Desk!Finally
  <2>2. alive' \subseteq alive
    BY <1>6 DEF Desk!Window, Desk!WatchEnds, Desk!Look, Desk!Raised, Desk!Finally, Desk!StopProcesses
  <2>3. error' = error \/ error' # "none"
    BY <1>6 DEF Desk!Window, Desk!WatchEnds, Desk!Look, Desk!Raised, Desk!Finally, Desk!Fail
  <2>4. stop_event => stop_event'
    BY <1>6, Zenon DEF Desk!Window, Desk!WatchEnds, Desk!Look, Desk!Raised, Desk!Finally
  <2> QED BY <1>2, <2>1, <2>2, <2>3, <2>4, Zenon DEF DeskCalm
<1>7. CASE Desk!Watch /\ reported' = reported
  <2>1. DeskCalm
    BY <1>7, Zenon DEF DeskCalm, Desk!Watch
  <2> QED BY <1>2, <2>1
<1>8. CASE Desk!RestartBegins \/ Desk!Boot \/ Desk!Respawn \/ Desk!Rewait
  BY <1>1, <1>2, <1>8 DEF DeskCalm, DeskInv, DeskTurns, Desk!RestartBegins, Desk!Boot, Desk!Respawn, Desk!Rewait, Desk!Fail, Desk!Leave
<1>9. CASE Desk!StorageError \/ Desk!StorageStop \/ Desk!Stop \/ Desk!StopEnds \/ Desk!Exit
  <2>1. UNCHANGED <<handle, retired, reported, restart>>
    BY <1>9, Zenon DEF Desk!StorageError, Desk!StorageStop, Desk!Stop, Desk!StopEnds, Desk!Exit
  <2>2. alive' \subseteq alive
    BY <1>9 DEF Desk!StorageError, Desk!StorageStop, Desk!Stop, Desk!StopEnds, Desk!Exit, Desk!StopProcesses
  <2>3. error' = error \/ error' # "none"
    BY <1>9 DEF Desk!StorageError, Desk!StorageStop, Desk!Stop, Desk!StopEnds, Desk!Exit, Desk!Fail
  <2>4. stop_event => stop_event'
    BY <1>9, Zenon DEF Desk!StorageError, Desk!StorageStop, Desk!Stop, Desk!StopEnds, Desk!Exit
  <2> QED BY <1>2, <2>1, <2>2, <2>3, <2>4, Zenon DEF DeskCalm
<1> QED BY <1>3, <1>4, <1>5, <1>6, <1>7, <1>8, <1>9 DEF Desk!Next

\* The desktop's invariant holds in every state, whichever part moves.
THEOREM DeskInvariant == Spec => []DeskInv
<1>1. Init => DeskInv
  <2> SUFFICES ASSUME Desk!Init PROVE DeskInv
    BY DEF Init
  <2>1. stop_event \in BOOLEAN /\ session \in BOOLEAN
    BY Zenon DEF Desk!Init
  <2>2. DeskNames /\ DeskNumbers
    BY Bound DEF Desk!Init, DeskNames, DeskNumbers
  <2>3. DeskTurns /\ DeskOwner
    BY DEF Desk!Init, DeskTurns, DeskOwner
  <2> QED BY <2>1, <2>2, <2>3, Zenon DEF DeskInv, DeskNames, DeskNumbers, Desk!TypeOK
<1>2. DeskInv /\ [Next]_vars => DeskInv'
  <2> SUFFICES ASSUME DeskInv, [Next]_vars PROVE DeskInv'
    OBVIOUS
  <2>1. CASE Desk!Next
    BY <2>1, DeskTypes, DeskTurn, DeskOwns DEF DeskInv
  <2>2. CASE UNCHANGED deskVars
    BY <2>2 DEF deskVars, DeskInv, DeskTurns, DeskOwner, Desk!TypeOK
  <2> QED BY <2>1, <2>2 DEF Next, vars
<1> QED BY <1>1, <1>2, PTL DEF Spec

\* There is never a second terminal, and the planned end of one is never reported as a failure, for any
\* number of restarts (runtime.py restart_terminal and the monitor loop).
THEOREM TerminalIsOne == Spec => []OneTerminal
<1>1. DeskInv => OneTerminal
  <2> SUFFICES ASSUME DeskInv PROVE OneTerminal
    OBVIOUS
  <2>1. IsFiniteSet({handle}) /\ Cardinality({handle}) = 1
    BY FS_Singleton
  <2>2. Cardinality(alive) <= 1
    BY <2>1, FS_Subset DEF DeskInv, DeskOwner
  <2>3. Desk!Cardinality(alive) = Cardinality(alive)
    BY DEF Desk!Cardinality, Cardinality
  <2> QED BY <2>2, <2>3 DEF OneTerminal, Desk!OneTerminal, Desk!ExitIsGenuine, DeskInv, DeskOwner
<1> QED BY <1>1, DeskInvariant, PTL

(***************************************************************************)
(* The native link.  At most one command is on its way, as a line, in the  *)
(* controller's hands or as an answer; at most one message waits or is     *)
(* handled, and while one is, the block keeps the command it is for.  So   *)
(* the block's number only grows, and a command that was done is over.     *)
(***************************************************************************)
Sending == {"sending", "mark", "print"}
Gone == {"farewell", "off"}
Ran == {executed[i] : i \in 1 .. Len(executed)}

\* One command on its way, and none when the client may ask again.
Flight ==
  /\ client.pc = "waiting" => ~client.poisoned
  /\ Len(stdin) <= 1 /\ Len(stdout) <= 1
  /\ stdin # <<>> => stdout = <<>> /\ ctl.pc \notin Sending
  /\ ctl.pc \in Sending => stdout = <<>>
  /\ client.pc = "starting" \/ (client.pc = "idle" /\ ~client.poisoned) => stdin = <<>> /\ stdout = <<>> /\ ctl.pc \notin Sending

\* Whose number the block has.
Numbers ==
  /\ ctl.pc \notin Gone => block.id <= client.id
  /\ stdin # <<>> => stdin[1].id = client.id /\ (ctl.pc \notin Gone => block.id < client.id)
  /\ ctl.pc \in Sending => block.id = client.id

\* A call that is over for the controller is over for the GUI thread.
Messages ==
  /\ gui.messages <= 1 /\ (gui.pc # "idle" => gui.messages = 0)
  /\ ctl.pc \notin Gone /\ block.done = 1 => Link!Handled
  /\ ctl.pc \in {"loop", "drain", "mark", "print"} /\ ~ctl.outstanding => Link!Handled
  /\ ctl.pc = "farewell" => block.id = Link!Farewell
  /\ ctl.pc = "off" => Link!Handled \/ block.id = Link!Farewell

\* What the GUI thread has begun.
Order ==
  /\ \A n \in Ran : n <= block.id
  /\ gui.messages > 0 => block.id > 0 /\ \A n \in Ran : n < block.id
  /\ \A i, j \in 1 .. Len(executed) : i < j => executed[i] < executed[j]
  /\ gui.pc # "idle" => gui.id = block.id /\ block.id \in Ran
  /\ ctl.pc \notin Gone /\ block.done = 1 => block.id \in Ran

\* A line that belongs to command n, which is over.
Owns(line, n) ==
  /\ n \in Ran /\ (gui.pc # "idle" => gui.id # n)
  /\ line.fields \in {0, n} /\ line.data \in {0, n}

Answers ==
  /\ ctl.pc \notin Gone => block.fields \in {0, block.id}
  /\ ctl.pc # "print" => ctl.line = Link!BlankLine
  /\ ctl.pc = "print" /\ ctl.line.done = 1 => block.done = 1
  /\ ctl.pc = "print" => ctl.line.fields \in {Link!NotRead, 0, block.id}
  /\ stdout # <<>> /\ stdout[1].done = 1 /\ stdout[1].error = 0 => Owns(stdout[1], client.id)
  /\ \A a \in answered : Owns(a.line, a.id)

ClientPcs == {"starting", "idle", "waiting", "closed"}
CtlPcs == {"loop", "sending", "mark", "print", "drain", "farewell", "off"}
GuiPcs == {"idle", "working", "finishing"}
LinkKinds == {"call", "import", "none", "quit"}
ClientType == [pc : ClientPcs, poisoned : BOOLEAN, id : 0 .. MaxCalls, kind : LinkKinds]
ReadLine == [done : {-1, 0, 1}, error : Nat \cup {-1}, fields : Nat \cup {-1}]
CtlType == [pc : CtlPcs, outstanding : BOOLEAN, kind : LinkKinds, line : ReadLine]
BlockType == [id : 0 .. MaxCalls + 1, kind : LinkKinds, done : {0, 1}, error : Nat, fields : Nat]
GuiType == [messages : Nat, pc : GuiPcs, id : 0 .. MaxCalls + 1]
Asked == [id : 1 .. MaxCalls, kind : {"call", "import", "quit"}]

\* The types, record by record.
LinkTypes ==
  /\ client \in ClientType /\ ctl \in CtlType /\ block \in BlockType /\ gui \in GuiType
  /\ stdin \in Seq(Asked) /\ stdout \in Seq(Link!Line) /\ executed \in Seq(1 .. MaxCalls + 1)
  /\ answered \subseteq [id : 1 .. MaxCalls, line : Link!Line]

LinkInv == LinkTypes /\ Flight /\ Numbers /\ Messages /\ Order /\ Answers

\* What the assumption says of the link's bound.
LEMMA Calls == MaxCalls \in Nat /\ Link!Farewell = MaxCalls + 1 /\ Link!NotRead = -1
<1>1. MaxCalls \in Nat
  BY ConstantsAssumption, Zenon DEF Link!Constants
<1> QED BY <1>1 DEF Link!Farewell, Link!NotRead

\* These are the types of the link's module.
LEMMA LinkTypesAre == Link!TypeOK <=> LinkTypes
<1>1. /\ {"call", "import"} \cup {"none", "quit"} = LinkKinds /\ {"call", "import"} \cup {"quit"} = {"call", "import", "quit"}
      /\ Link!Command = 1 .. MaxCalls /\ 0 .. Link!Farewell = 0 .. MaxCalls + 1 /\ 1 .. Link!Farewell = 1 .. MaxCalls + 1
  BY Calls DEF LinkKinds, Link!Command
<1>2. {Link!NotRead, 0, 1} = {-1, 0, 1} /\ Nat \cup {Link!NotRead} = Nat \cup {-1}
  BY Calls
<1> QED BY <1>1, <1>2, Zenon DEF Link!TypeOK, LinkTypes, ClientType, CtlType, ReadLine, BlockType, GuiType, Asked, ClientPcs,
           CtlPcs, GuiPcs

\* A record of the link is its fields.
LEMMA LinkFields ==
  ASSUME LinkTypes
  PROVE  /\ client = [pc |-> client.pc, poisoned |-> client.poisoned, id |-> client.id, kind |-> client.kind]
         /\ client.pc \in ClientPcs /\ client.poisoned \in BOOLEAN /\ client.id \in 0 .. MaxCalls /\ client.kind \in LinkKinds
         /\ ctl = [pc |-> ctl.pc, outstanding |-> ctl.outstanding, kind |-> ctl.kind, line |-> ctl.line]
         /\ ctl.pc \in CtlPcs /\ ctl.outstanding \in BOOLEAN /\ ctl.kind \in LinkKinds /\ ctl.line \in ReadLine
         /\ block = [id |-> block.id, kind |-> block.kind, done |-> block.done, error |-> block.error, fields |-> block.fields]
         /\ block.id \in 0 .. MaxCalls + 1 /\ block.kind \in LinkKinds /\ block.done \in {0, 1}
         /\ block.error \in Nat /\ block.fields \in Nat
         /\ gui = [messages |-> gui.messages, pc |-> gui.pc, id |-> gui.id]
         /\ gui.messages \in Nat /\ gui.pc \in GuiPcs /\ gui.id \in 0 .. MaxCalls + 1
         /\ ctl.line = [done |-> ctl.line.done, error |-> ctl.line.error, fields |-> ctl.line.fields]
         /\ ctl.line.done \in {-1, 0, 1} /\ ctl.line.error \in Nat \cup {-1} /\ ctl.line.fields \in Nat \cup {-1}
<1>1. client \in ClientType /\ ctl \in CtlType /\ block \in BlockType /\ gui \in GuiType
  BY DEF LinkTypes
<1>2. /\ client = [pc |-> client.pc, poisoned |-> client.poisoned, id |-> client.id, kind |-> client.kind]
      /\ client.pc \in ClientPcs /\ client.poisoned \in BOOLEAN /\ client.id \in 0 .. MaxCalls /\ client.kind \in LinkKinds
  BY <1>1, Zenon DEF ClientType
<1>3. /\ ctl = [pc |-> ctl.pc, outstanding |-> ctl.outstanding, kind |-> ctl.kind, line |-> ctl.line]
      /\ ctl.pc \in CtlPcs /\ ctl.outstanding \in BOOLEAN /\ ctl.kind \in LinkKinds /\ ctl.line \in ReadLine
  BY <1>1, Zenon DEF CtlType
<1>4. /\ block = [id |-> block.id, kind |-> block.kind, done |-> block.done, error |-> block.error, fields |-> block.fields]
      /\ block.id \in 0 .. MaxCalls + 1 /\ block.kind \in LinkKinds /\ block.done \in {0, 1}
      /\ block.error \in Nat /\ block.fields \in Nat
  BY <1>1, Zenon DEF BlockType
<1>5. /\ gui = [messages |-> gui.messages, pc |-> gui.pc, id |-> gui.id]
      /\ gui.messages \in Nat /\ gui.pc \in GuiPcs /\ gui.id \in 0 .. MaxCalls + 1
  BY <1>1, Zenon DEF GuiType
<1>6. /\ ctl.line = [done |-> ctl.line.done, error |-> ctl.line.error, fields |-> ctl.line.fields]
      /\ ctl.line.done \in {-1, 0, 1} /\ ctl.line.error \in Nat \cup {-1} /\ ctl.line.fields \in Nat \cup {-1}
  BY <1>3, Zenon DEF ReadLine
<1> QED BY <1>2, <1>3, <1>4, <1>5, <1>6

\* A sequence of one element.
LEMMA OneElement ==
  ASSUME NEW S, NEW s \in Seq(S), s # <<>>, Len(s) <= 1
  PROVE  Len(s) = 1 /\ Head(s) = s[1] /\ s[1] \in S /\ Tail(s) = <<>> /\ <<>> \in Seq(S)
<1>1. Len(s) \in Nat \ {0} /\ <<>> \in Seq(S)
  BY EmptySeq, Zenon
<1>2. Len(s) = 1
  BY <1>1
<1>3. Head(s) = s[1] /\ s[1] \in S
  BY <1>2, ElementOfSeq
<1>4. Tail(s) \in Seq(S) /\ Len(Tail(s)) = 0
  BY <1>2, HeadTailProperties
<1>5. Tail(s) = <<>>
  BY <1>4
<1> QED BY <1>1, <1>2, <1>3, <1>5

\* Only numbered commands run.
LEMMA RanIn ==
  ASSUME LinkTypes
  PROVE  Ran \subseteq 1 .. MaxCalls + 1
BY ElementOfSeq DEF LinkTypes, Ran

\* The steps of the client: it asks only when nothing is on its way, and takes the one answer there is.
LEMMA ClientSteps ==
  ASSUME LinkInv, Link!Client
  PROVE  LinkInv'
<1> DEFINE Made(p, b, i, k) == client' = [pc |-> p, poisoned |-> b, id |-> i, kind |-> k]
<1>0. /\ LinkTypes /\ Flight /\ Numbers /\ Messages /\ Order /\ Answers
      /\ client = [pc |-> client.pc, poisoned |-> client.poisoned, id |-> client.id, kind |-> client.kind]
      /\ client.pc \in ClientPcs /\ client.poisoned \in BOOLEAN /\ client.id \in 0 .. MaxCalls /\ client.kind \in LinkKinds
  BY LinkFields DEF LinkInv
<1>1. UNCHANGED <<ctl, block, gui, executed>> /\ Ran' = Ran
  BY DEF Link!Client, Link!Started, Link!Ask, Link!Timeout, Link!EndOfOutput, Link!Receive, Link!ClientEnds, Ran
<1>2. Messages' /\ Order'
  BY <1>0, <1>1 DEF Messages, Order, Link!Handled
<1>3. ASSUME NEW p \in ClientPcs, NEW b \in BOOLEAN, NEW i \in 0 .. MaxCalls, NEW k \in LinkKinds, Made(p, b, i, k)
      PROVE  client' \in ClientType /\ client'.pc = p /\ (client'.poisoned <=> b) /\ client'.id = i
  <2>1. client' \in ClientType
    BY <1>3, Zenon DEF ClientType
  <2>2. client'.pc = p /\ client'.poisoned = b /\ client'.id = i
    BY <1>3
  <2> QED BY <2>1, <2>2
<1>4. CASE Link!Started \/ Link!Timeout \/ Link!EndOfOutput \/ Link!ClientEnds
  <2>1. UNCHANGED <<stdin, stdout, answered>>
    BY <1>4, Zenon DEF Link!Started, Link!Timeout, Link!EndOfOutput, Link!ClientEnds
  <2>2. PICK p \in {"idle", "closed"}, b \in BOOLEAN :
          /\ client' = [client EXCEPT !.pc = p, !.poisoned = b]
          /\ p = "idle" /\ ~b => client.pc = "starting"
    <3>1. CASE Link!Started
      BY <3>1, Zenon DEF Link!Started
    <3>2. CASE Link!Timeout \/ Link!EndOfOutput
      BY <3>2, Zenon DEF Link!Timeout, Link!EndOfOutput
    <3>3. CASE Link!ClientEnds
      <4>1. client' = [client EXCEPT !.pc = "closed", !.poisoned = client.poisoned]
        BY <1>0, <3>3 DEF Link!ClientEnds
      <4> QED BY <1>0, <4>1
    <3> QED BY <1>4, <3>1, <3>2, <3>3
  <2>3. Made(p, b, client.id, client.kind)
    BY <1>0, <2>2
  <2>4. client' \in ClientType /\ client'.pc = p /\ (client'.poisoned <=> b) /\ client'.id = client.id
    BY <1>0, <1>3, <2>3 DEF ClientPcs
  <2>5. LinkTypes'
    BY <1>0, <1>1, <2>1, <2>4, Zenon DEF LinkTypes
  <2>6. Flight'
    BY <1>0, <1>1, <2>1, <2>2, <2>4 DEF Flight
  <2>7. Numbers' /\ Answers'
    BY <1>0, <1>1, <2>1, <2>4 DEF Numbers, Answers, Owns
  <2> QED BY <1>2, <2>5, <2>6, <2>7 DEF LinkInv
<1>5. CASE Link!Ask
  <2>1. /\ client.pc = "idle" /\ ~client.poisoned /\ client.id + 1 \in 1 .. MaxCalls /\ UNCHANGED <<stdout, answered>>
        /\ stdin = <<>> /\ stdout = <<>> /\ ctl.pc \notin Sending
    BY <1>0, <1>5, Calls DEF Link!Ask, Flight
  <2>2. CASE ctl.pc = "off"
    <3>1. Made("idle", TRUE, client.id, client.kind) /\ UNCHANGED stdin
      BY <1>0, <1>5, <2>1, <2>2 DEF Link!Ask
    <3>2. client' \in ClientType /\ client'.pc = "idle" /\ client'.poisoned /\ client'.id = client.id
      BY <1>0, <1>3, <3>1 DEF ClientPcs
    <3>3. LinkTypes'
      BY <1>0, <1>1, <2>1, <3>1, <3>2, Zenon DEF LinkTypes
    <3> QED BY <1>0, <1>1, <1>2, <2>1, <3>1, <3>2, <3>3 DEF LinkInv, Flight, Numbers, Answers, Owns
  <2>3. CASE ctl.pc # "off"
    <3>1. PICK kind \in {"call", "import", "quit"} :
            /\ client' = [client EXCEPT !.pc = "waiting", !.id = client.id + 1, !.kind = kind]
            /\ stdin' = Append(stdin, [id |-> client.id + 1, kind |-> kind])
      BY <1>5, <2>3 DEF Link!Ask
    <3>2. Made("waiting", client.poisoned, client.id + 1, kind)
      BY <1>0, <3>1
    <3>3. client' \in ClientType /\ client'.pc = "waiting" /\ ~client'.poisoned /\ client'.id = client.id + 1
      <4>1. "waiting" \in ClientPcs /\ client.id + 1 \in 0 .. MaxCalls /\ kind \in LinkKinds
        BY <1>0, <2>1, Calls DEF ClientPcs, LinkKinds
      <4> HIDE DEF Made
      <4> QED BY <1>0, <1>3, <2>1, <3>2, <4>1
    <3>4. [id |-> client.id + 1, kind |-> kind] \in Asked
      BY <2>1, Zenon DEF Asked
    <3>5. stdin' \in Seq(Asked) /\ Len(stdin') = 1 /\ stdin'[1].id = client.id + 1 /\ stdin' # <<>>
      BY <2>1, <3>1, <3>4
    <3>6. LinkTypes'
      BY <1>0, <1>1, <2>1, <3>3, <3>5, Zenon DEF LinkTypes
    <3>7. Flight'
      BY <1>0, <1>1, <2>1, <3>3, <3>5 DEF Flight
    <3>8. Numbers'
      BY <1>0, <1>1, <2>1, <3>3, <3>5, LinkFields, Calls DEF Numbers
    <3>9. Answers'
      BY <1>0, <1>1, <2>1 DEF Answers, Owns
    <3> QED BY <1>2, <3>6, <3>7, <3>8, <3>9 DEF LinkInv
  <2> QED BY <2>2, <2>3
<1>6. CASE Link!Receive
  <2> DEFINE line == Head(stdout)
             poisoned == Link!Isolates(line) \/ (line.error = 0 /\ Link!ImportFails(client.kind, line))
             p == IF client.kind = "quit" THEN "closed" ELSE "idle"
  <2>1. /\ client.pc = "waiting" /\ stdout # <<>> /\ stdout' = Tail(stdout) /\ UNCHANGED stdin
        /\ client' = [client EXCEPT !.poisoned = poisoned, !.pc = p]
        /\ answered' = IF ~poisoned /\ line.error = 0 THEN answered \cup {[id |-> client.id, line |-> line]} ELSE answered
    BY <1>6 DEF Link!Receive
  <2>2. /\ stdout \in Seq(Link!Line) /\ Len(stdout) = 1 /\ line = stdout[1] /\ line \in Link!Line
        /\ stdout' = <<>> /\ stdout' \in Seq(Link!Line)
    <3>1. stdout \in Seq(Link!Line) /\ Len(stdout) <= 1 /\ stdout # <<>>
      BY <1>0, <2>1 DEF LinkTypes, Flight
    <3> QED BY <2>1, <3>1, OneElement
  <2>3. stdin = <<>> /\ ctl.pc \notin Sending
    BY <1>0, <2>1 DEF Flight
  <2>4. p \in ClientPcs /\ p # "waiting" /\ p # "starting" /\ poisoned \in BOOLEAN
    BY DEF ClientPcs
  <2>5. ~poisoned /\ line.error = 0 => Owns(line, client.id) /\ client.id \in 1 .. MaxCalls
    <3>1. SUFFICES ASSUME ~poisoned, line.error = 0 PROVE Owns(line, client.id) /\ client.id \in 1 .. MaxCalls
      OBVIOUS
    <3>2. line.done = 1
      <4>1. line.done \in {0, 1}
        BY <2>2, Zenon DEF Link!Line
      <4> QED BY <3>1, <4>1 DEF Link!Isolates
    <3>3. Owns(line, client.id)
      BY <1>0, <2>1, <2>2, <3>1, <3>2 DEF Answers
    <3>4. client.id # 0
      BY <1>0, <3>3, RanIn DEF Owns
    <3> QED BY <1>0, <3>3, <3>4, Calls
  <2> HIDE DEF line, poisoned, p
  <2>6. Made(p, poisoned, client.id, client.kind)
    BY <1>0, <2>1
  <2>7. client' \in ClientType /\ client'.pc = p /\ (client'.poisoned <=> poisoned) /\ client'.id = client.id
    BY <1>0, <1>3, <2>4, <2>6
  <2>8. \A a \in answered' : a \in [id : 1 .. MaxCalls, line : Link!Line] /\ Owns(a.line, a.id)
    <3> SUFFICES ASSUME NEW a \in answered' PROVE a \in [id : 1 .. MaxCalls, line : Link!Line] /\ Owns(a.line, a.id)
      OBVIOUS
    <3>1. CASE a \in answered
      BY <1>0, <3>1 DEF LinkTypes, Answers
    <3>2. CASE a \notin answered
      <4>1. a = [id |-> client.id, line |-> line] /\ ~poisoned /\ line.error = 0
        BY <2>1, <3>2
      <4>2. a \in [id : 1 .. MaxCalls, line : Link!Line]
        BY <2>2, <2>5, <4>1, Zenon
      <4> QED BY <2>5, <4>1, <4>2
    <3> QED BY <3>1, <3>2
  <2>9. LinkTypes'
    <3>1. answered' \subseteq [id : 1 .. MaxCalls, line : Link!Line]
      BY <2>8
    <3> QED BY <1>0, <1>1, <2>1, <2>2, <2>7, <3>1, Zenon DEF LinkTypes
  <2>10. Flight'
    BY <1>0, <1>1, <2>1, <2>2, <2>3, <2>4, <2>7 DEF Flight
  <2>11. Numbers'
    BY <1>0, <1>1, <2>1, <2>3, <2>7 DEF Numbers
  <2>12. Answers'
    BY <1>0, <1>1, <2>2, <2>8 DEF Answers, Owns
  <2> QED BY <1>2, <2>9, <2>10, <2>11, <2>12 DEF LinkInv
<1> QED BY <1>4, <1>5, <1>6 DEF Link!Client

\* The hook's steps: it runs the block's command, once, and says so last.
LEMMA HookSteps ==
  ASSUME LinkInv, Link!Hook
  PROVE  LinkInv'
<1>0. LinkTypes /\ Flight /\ Numbers /\ Messages /\ Order /\ Answers
  BY DEF LinkInv
<1>1. UNCHANGED <<client, stdin, stdout, ctl, answered>> /\ block'.id = block.id /\ block'.kind = block.kind
  BY LinkFields, <1>0 DEF Link!Hook, Link!Begin, Link!Ignore, Link!Work, Link!Done
<1>2. Flight' /\ Numbers'
  BY <1>0, <1>1 DEF Flight, Numbers
<1>a. ASSUME NEW d \in {0, 1}, NEW e \in Nat, NEW f \in Nat,
             block' = [id |-> block.id, kind |-> block.kind, done |-> d, error |-> e, fields |-> f]
      PROVE  block' \in BlockType /\ block'.done = d /\ block'.fields = f
  <2>1. block' \in BlockType
    BY <1>a, <1>0, LinkFields, Zenon DEF BlockType
  <2> QED BY <1>a, <2>1
<1>b. ASSUME NEW m \in Nat, NEW p \in GuiPcs, NEW i \in 0 .. MaxCalls + 1, gui' = [messages |-> m, pc |-> p, id |-> i]
      PROVE  gui' \in GuiType /\ gui'.messages = m /\ gui'.pc = p /\ gui'.id = i
  <2>1. gui' \in GuiType
    BY <1>b, Zenon DEF GuiType
  <2> QED BY <1>b, <2>1
<1>3. CASE Link!Begin
  <2>1. /\ gui.pc = "idle" /\ gui.messages = 1
        /\ gui' = [messages |-> 0, pc |-> "working", id |-> block.id]
        /\ block' = [id |-> block.id, kind |-> block.kind, done |-> block.done, error |-> 0, fields |-> block.fields]
        /\ executed' = Append(executed, block.id)
    <3>1. gui.messages \in Nat /\ gui.messages <= 1 /\ gui.messages > 0 /\ gui.pc = "idle"
      BY <1>0, <1>3, LinkFields DEF Link!Begin, Messages
    <3>2. gui.messages = 1
      BY <3>1
    <3>3. gui' = [messages |-> gui.messages - 1, pc |-> "working", id |-> block.id] /\ executed' = Append(executed, block.id)
      BY <1>3 DEF Link!Begin
    <3>4. block = [id |-> block.id, kind |-> block.kind, done |-> block.done, error |-> block.error, fields |-> block.fields]
      BY <1>0, LinkFields
    <3>5. block' = [block EXCEPT !.error = 0]
      BY <1>3 DEF Link!Begin
    <3>6. block' = [id |-> block.id, kind |-> block.kind, done |-> block.done, error |-> 0, fields |-> block.fields]
      BY <3>4, <3>5
    <3> QED BY <3>1, <3>2, <3>3, <3>6
  <2>2. block' \in BlockType /\ block'.done = block.done /\ block'.fields = block.fields
    BY <1>0, <1>a, <2>1, LinkFields
  <2>3. gui' \in GuiType /\ gui'.messages = 0 /\ gui'.pc = "working" /\ gui'.id = block.id
    BY <1>0, <1>b, <2>1, LinkFields DEF GuiPcs
  <2>4. block.id \in 1 .. MaxCalls + 1 /\ \A n \in Ran : n < block.id
    BY <1>0, <2>1, LinkFields, Calls DEF Order
  <2>5. /\ executed \in Seq(1 .. MaxCalls + 1) /\ executed' \in Seq(1 .. MaxCalls + 1) /\ Len(executed') = Len(executed) + 1
        /\ executed'[Len(executed) + 1] = block.id /\ \A i \in 1 .. Len(executed) : executed'[i] = executed[i]
        /\ Len(executed) \in Nat
    BY <1>0, <2>1, <2>4 DEF LinkTypes
  <2>6. Ran' = Ran \cup {block.id}
    BY <2>5 DEF Ran
  <2>7. LinkTypes'
    BY <1>0, <1>1, <2>2, <2>3, <2>5, Zenon DEF LinkTypes
  <2>8. Messages'
    <3>1. ~Link!Handled /\ ~Link!Handled'
      BY <2>1, <2>3 DEF Link!Handled
    <3> QED BY <1>0, <1>1, <2>2, <2>3, <3>1 DEF Messages
  <2>9. Order'
    <3>1. \A i, j \in 1 .. Len(executed') : i < j => executed'[i] < executed'[j]
      <4> SUFFICES ASSUME NEW i \in 1 .. Len(executed'), NEW j \in 1 .. Len(executed'), i < j
                   PROVE  executed'[i] < executed'[j]
        OBVIOUS
      <4>1. i \in 1 .. Len(executed) /\ executed'[i] = executed[i] /\ executed[i] \in Ran
        BY <2>5 DEF Ran
      <4>2. CASE j \in 1 .. Len(executed)
        BY <1>0, <2>5, <4>1, <4>2 DEF Order
      <4>3. CASE j = Len(executed) + 1
        BY <2>4, <2>5, <4>1, <4>3
      <4> QED BY <2>5, <4>2, <4>3
    <3>2. \A n \in Ran' : n <= block.id
      BY <2>4, <2>6, <1>0, RanIn
    <3> QED BY <1>0, <1>1, <2>2, <2>3, <2>6, <3>1, <3>2 DEF Order
  <2>10. Answers'
    <3>1. ASSUME NEW l, NEW n, Owns(l, n) PROVE Owns(l, n)'
      BY <2>3, <2>4, <2>6, <3>1, <1>0, RanIn DEF Owns
    <3> QED BY <1>0, <1>1, <2>2, <3>1 DEF Answers
  <2> QED BY <1>2, <2>7, <2>8, <2>9, <2>10 DEF LinkInv
<1>4. CASE Link!Ignore
  <2>1. gui.pc = "idle" /\ gui.messages = 1 /\ gui' = [messages |-> 0, pc |-> "idle", id |-> gui.id] /\ UNCHANGED <<block, executed>>
    BY <1>0, <1>4, LinkFields DEF Link!Ignore, Messages
  <2>2. gui' \in GuiType /\ gui'.messages = 0 /\ gui'.pc = "idle"
    BY <1>0, <1>b, <2>1, LinkFields DEF GuiPcs
  <2>3. LinkTypes'
    BY <1>0, <1>1, <2>1, <2>2, Zenon DEF LinkTypes
  <2>4. Ran' = Ran /\ Link!Handled'
    BY <2>1, <2>2 DEF Ran, Link!Handled
  <2> QED BY <1>0, <1>1, <1>2, <2>1, <2>2, <2>3, <2>4 DEF LinkInv, Messages, Order, Answers, Owns
<1>5. CASE Link!Work
  <2>1. PICK e \in {0, 3, 71}, f \in {0, gui.id} :
          /\ gui.pc = "working" /\ gui' = [messages |-> gui.messages, pc |-> "finishing", id |-> gui.id] /\ UNCHANGED executed
          /\ block' = [id |-> block.id, kind |-> block.kind, done |-> block.done, error |-> e, fields |-> f]
    BY <1>0, <1>5, LinkFields DEF Link!Work, Link!HookErrors
  <2>2. block' \in BlockType /\ block'.done = block.done /\ block'.fields = f
    BY <1>0, <1>a, <2>1, LinkFields
  <2>3. gui' \in GuiType /\ gui'.messages = gui.messages /\ gui'.pc = "finishing" /\ gui'.id = gui.id
    BY <1>0, <1>b, <2>1, LinkFields DEF GuiPcs
  <2>4. LinkTypes'
    BY <1>0, <1>1, <2>1, <2>2, <2>3, Zenon DEF LinkTypes
  <2>5. Ran' = Ran /\ ~Link!Handled /\ ~Link!Handled' /\ gui.id = block.id /\ f \in {0, block.id}
    BY <1>0, <2>1, <2>3 DEF Ran, Link!Handled, Order
  <2>6. Messages' /\ Order'
    BY <1>0, <1>1, <2>1, <2>2, <2>3, <2>5 DEF Messages, Order
  <2>7. Answers'
    <3>1. ASSUME NEW l, NEW n, Owns(l, n) PROVE Owns(l, n)'
      BY <2>1, <2>3, <2>5, <3>1 DEF Owns
    <3> QED BY <1>0, <1>1, <2>2, <2>5, <3>1 DEF Answers
  <2> QED BY <1>2, <2>4, <2>6, <2>7 DEF LinkInv
<1>6. CASE Link!Done
  <2>1. /\ gui.pc = "finishing" /\ gui' = [messages |-> gui.messages, pc |-> "idle", id |-> gui.id] /\ UNCHANGED executed
        /\ block' = [id |-> block.id, kind |-> block.kind, done |-> 1, error |-> block.error, fields |-> block.fields]
    BY <1>0, <1>6, LinkFields DEF Link!Done
  <2>2. block' \in BlockType /\ block'.done = 1 /\ block'.fields = block.fields
    BY <1>0, <1>a, <2>1, LinkFields
  <2>3. gui' \in GuiType /\ gui'.messages = gui.messages /\ gui'.pc = "idle"
    BY <1>0, <1>b, <2>1, LinkFields DEF GuiPcs
  <2>4. LinkTypes'
    BY <1>0, <1>1, <2>1, <2>2, <2>3, Zenon DEF LinkTypes
  <2>5. Ran' = Ran /\ gui.messages = 0 /\ Link!Handled' /\ block.id \in Ran
    BY <1>0, <2>1, <2>3 DEF Ran, Link!Handled, Messages, Order
  <2>6. Messages' /\ Order'
    BY <1>0, <1>1, <2>1, <2>2, <2>3, <2>5 DEF Messages, Order
  <2>7. Answers'
    <3>1. ASSUME NEW l, NEW n, Owns(l, n) PROVE Owns(l, n)'
      BY <2>3, <2>5, <3>1 DEF Owns
    <3> QED BY <1>0, <1>1, <2>2, <3>1 DEF Answers
  <2> QED BY <1>2, <2>4, <2>6, <2>7 DEF LinkInv
<1> QED BY <1>3, <1>4, <1>5, <1>6 DEF Link!Hook

\* The controller's steps: it fills the block only when the GUI thread is through with the last call, and
\* the line it prints was read from the block of the command that is on its way.
LEMMA ControllerSteps ==
  ASSUME LinkInv, Link!Controller
  PROVE  LinkInv'
<1>0. LinkTypes /\ Flight /\ Numbers /\ Messages /\ Order /\ Answers
  BY DEF LinkInv
<1>1. UNCHANGED <<client, executed, answered>> /\ Ran' = Ran
  BY DEF Link!Controller, Link!RefuseBusy, Link!RefuseTarget, Link!Dispatch, Link!Sent, Link!GiveUp, Link!Mark,
     Link!ReadField, Link!Answer, Link!InputEnds, Link!Drain, Link!Leave, Ran
<1>a. ASSUME NEW p \in CtlPcs, NEW o \in BOOLEAN, NEW k \in LinkKinds, NEW l \in ReadLine,
             ctl' = [pc |-> p, outstanding |-> o, kind |-> k, line |-> l]
      PROVE  ctl' \in CtlType /\ ctl'.pc = p /\ (ctl'.outstanding <=> o) /\ ctl'.line = l
  <2>1. ctl' \in CtlType
    BY <1>a, Zenon DEF CtlType
  <2>2. ctl'.pc = p /\ ctl'.outstanding = o /\ ctl'.line = l
    BY <1>a
  <2> QED BY <2>1, <2>2
<1>b. ASSUME NEW m \in Nat, gui' = [messages |-> m, pc |-> gui.pc, id |-> gui.id]
      PROVE  gui' \in GuiType /\ gui'.messages = m /\ gui'.pc = gui.pc /\ gui'.id = gui.id
  <2>1. gui' \in GuiType
    BY <1>0, <1>b, LinkFields, Zenon DEF GuiType
  <2> QED BY <1>b, <2>1
<1>c. ASSUME stdin # <<>>
      PROVE  /\ Len(stdin) = 1 /\ Head(stdin) = stdin[1] /\ stdin[1] \in Asked /\ Tail(stdin) = <<>>
             /\ stdin[1].id = client.id /\ stdin[1].id \in 1 .. MaxCalls /\ stdin[1].kind \in LinkKinds /\ stdout = <<>>
  <2>1. stdin \in Seq(Asked) /\ Len(stdin) <= 1
    BY <1>0 DEF LinkTypes, Flight
  <2>2. Len(stdin) = 1 /\ Head(stdin) = stdin[1] /\ stdin[1] \in Asked /\ Tail(stdin) = <<>>
    BY <1>c, <2>1, OneElement
  <2>5. stdin[1].id \in 1 .. MaxCalls /\ stdin[1].kind \in {"call", "import", "quit"}
    BY <2>2, Zenon DEF Asked
  <2> QED BY <1>0, <1>c, <2>2, <2>5 DEF Numbers, Flight, LinkKinds
<1>d. ASSUME NEW d \in {0, 1}, NEW e \in Nat, NEW f \in Nat, NEW g \in Nat
      PROVE  /\ <<[done |-> d, error |-> e, fields |-> f, data |-> g]>> \in Seq(Link!Line)
             /\ Append(<<>>, [done |-> d, error |-> e, fields |-> f, data |-> g]) = <<[done |-> d, error |-> e, fields |-> f, data |-> g]>>
  <2>1. [done |-> d, error |-> e, fields |-> f, data |-> g] \in Link!Line
    BY Zenon DEF Link!Line
  <2> QED BY <2>1
<1>e. Link!BlankLine \in ReadLine /\ Link!BlankLine = [done |-> -1, error |-> -1, fields |-> -1]
  <2>1. Link!BlankLine = [done |-> -1, error |-> -1, fields |-> -1]
    BY Calls DEF Link!BlankLine
  <2>2. -1 \in Nat \cup {-1} /\ -1 \in {-1, 0, 1}
    OBVIOUS
  <2> QED BY <2>1, <2>2, Zenon DEF ReadLine
<1>f. ctl.pc \notin Gone /\ ~Link!Busy /\ ctl.pc # "sending" => Link!Handled
  BY <1>0, LinkFields DEF Messages, Link!Busy, CtlPcs, Gone
<1>2. CASE Link!RefuseBusy \/ Link!RefuseTarget
  <2>1. PICK d \in {0, 1}, e \in {90, 91, 92}, p \in {"loop", "drain"}, o \in BOOLEAN :
          /\ stdin # <<>> /\ ctl.pc = "loop" /\ stdin' = Tail(stdin) /\ UNCHANGED <<block, gui>>
          /\ stdout' = Append(stdout, [done |-> d, error |-> e, fields |-> 0, data |-> 0])
          /\ ctl' = [pc |-> p, outstanding |-> o, kind |-> ctl.kind, line |-> ctl.line]
          /\ ~o => Link!Handled
    <3>1. CASE Link!RefuseBusy
      <4>1. /\ stdin # <<>> /\ ctl.pc = "loop" /\ stdin' = Tail(stdin) /\ UNCHANGED <<block, gui>>
            /\ stdout' = Append(stdout, [done |-> 0, error |-> 90, fields |-> 0, data |-> 0])
            /\ ctl' = [pc |-> "loop", outstanding |-> ctl.outstanding, kind |-> ctl.kind, line |-> ctl.line]
            /\ ctl.outstanding \in BOOLEAN
        BY <1>0, <3>1, LinkFields DEF Link!RefuseBusy, Link!Take, Link!Refusal
      <4>2. ~ctl.outstanding => Link!Handled
        BY <1>0, <4>1 DEF Messages
      <4> QED BY <4>1, <4>2
    <3>2. CASE Link!RefuseTarget
      <4>1. PICK e \in {91, 92}, p \in {"loop", "drain"} :
              /\ stdin # <<>> /\ ctl.pc = "loop" /\ ~Link!Busy /\ stdin' = Tail(stdin) /\ UNCHANGED <<block, gui>>
              /\ stdout' = Append(stdout, [done |-> 1, error |-> e, fields |-> 0, data |-> 0])
              /\ ctl' = [pc |-> p, outstanding |-> FALSE, kind |-> ctl.kind, line |-> ctl.line]
        BY <1>0, <3>2, LinkFields DEF Link!RefuseTarget, Link!Take, Link!Refusal
      <4>2. Link!Handled
        BY <1>f, <4>1 DEF Gone
      <4> QED BY <4>1, <4>2
    <3> QED BY <1>2, <3>1, <3>2
  <2>2. ctl' \in CtlType /\ ctl'.pc = p /\ (ctl'.outstanding <=> o) /\ ctl'.line = ctl.line
    BY <1>0, <1>a, <2>1, LinkFields DEF CtlPcs
  <2> DEFINE x == [done |-> d, error |-> e, fields |-> 0, data |-> 0]
  <2>3. stdin' = <<>> /\ stdout' = <<x>> /\ stdout' \in Seq(Link!Line) /\ stdout'[1] = x /\ Len(stdout') = 1 /\ x.error # 0
    BY <1>c, <1>d, <2>1
  <2> HIDE DEF x
  <2>4. client.pc # "starting" /\ ~(client.pc = "idle" /\ ~client.poisoned) /\ stdin' \in Seq(Asked) /\ Len(stdin') = 0
    <3>1. stdin' \in Seq(Asked) /\ Len(stdin') = 0
      BY <2>3, EmptySeq
    <3>2. Len(stdin) # 0
      BY <1>0, <2>1, EmptySeq DEF LinkTypes
    <3>3. client.pc # "starting" /\ ~(client.pc = "idle" /\ ~client.poisoned)
      BY <1>0, <3>2 DEF Flight
    <3> QED BY <3>1, <3>3
  <2>5. LinkTypes'
    BY <1>0, <1>1, <2>1, <2>2, <2>3, <2>4, Zenon DEF LinkTypes
  <2>6. Flight' /\ Numbers'
    BY <1>0, <1>1, <2>1, <2>2, <2>3, <2>4 DEF Flight, Numbers, Sending, Gone
  <2>7. Messages' /\ Order'
    BY <1>0, <1>1, <2>1, <2>2 DEF Messages, Order, Link!Handled, Gone
  <2>8. Answers'
    BY <1>0, <1>1, <2>1, <2>2, <2>3 DEF Answers, Owns, Gone
  <2> QED BY <2>5, <2>6, <2>7, <2>8 DEF LinkInv
<1>3. CASE Link!Dispatch
  <2> DEFINE k == stdin[1].kind
  <2>1. /\ ctl.pc = "loop" /\ stdin # <<>> /\ ~Link!Busy /\ stdin' = Tail(stdin) /\ UNCHANGED stdout
        /\ ctl' = [pc |-> "sending", outstanding |-> FALSE, kind |-> k, line |-> ctl.line]
        /\ block' = [id |-> client.id, kind |-> k, done |-> 0, error |-> 0, fields |-> 0]
        /\ gui' = [messages |-> gui.messages + 1, pc |-> gui.pc, id |-> gui.id]
    BY <1>0, <1>3, <1>c, LinkFields DEF Link!Dispatch, Link!Take
  <2>2. k \in LinkKinds /\ client.id \in 1 .. MaxCalls /\ stdin' = <<>> /\ stdin' \in Seq(Asked) /\ stdout = <<>> /\ block.id < client.id
    BY <1>0, <1>c, <2>1, EmptySeq DEF Numbers, Gone
  <2> HIDE DEF k
  <2>3. Link!Handled /\ gui.messages = 0 /\ gui.pc = "idle"
    BY <1>f, <2>1 DEF Gone, Link!Handled
  <2>4. ctl' \in CtlType /\ ctl'.pc = "sending" /\ ctl'.line = ctl.line
    <3>1. "sending" \in CtlPcs /\ FALSE \in BOOLEAN /\ ctl.line \in ReadLine
      BY <1>0, LinkFields DEF CtlPcs
    <3> QED BY <1>a, <2>1, <2>2, <3>1
  <2>5. gui' \in GuiType /\ gui'.messages = 1 /\ gui'.pc = "idle"
    BY <1>b, <2>1, <2>3
  <2>6. block' \in BlockType /\ block'.id = client.id /\ block'.done = 0 /\ block'.fields = 0
    <3>1. client.id \in 0 .. MaxCalls + 1
      BY <2>2, Calls
    <3>2. block' \in BlockType
      BY <2>1, <2>2, <3>1, Zenon DEF BlockType
    <3> QED BY <2>1, <3>2
  <2>7. LinkTypes'
    BY <1>0, <1>1, <2>1, <2>2, <2>4, <2>5, <2>6, Zenon DEF LinkTypes
  <2>8. Flight' /\ Numbers'
    BY <1>0, <1>1, <2>1, <2>2, <2>4, <2>6 DEF Flight, Numbers, Sending, Gone
  <2>9. Messages'
    BY <2>4, <2>5, <2>6 DEF Messages, Gone
  <2>10. Order'
    <3>1. \A n \in Ran : n < client.id
      BY <1>0, <2>2, LinkFields, RanIn, Calls DEF Order
    <3> QED BY <1>0, <1>1, <2>2, <2>4, <2>5, <2>6, <3>1, RanIn, Calls DEF Order, Gone
  <2>11. Answers'
    BY <1>0, <1>1, <2>1, <2>2, <2>4, <2>5, <2>6 DEF Answers, Owns, Gone
  <2> QED BY <2>7, <2>8, <2>9, <2>10, <2>11 DEF LinkInv
<1>4. CASE Link!Sent \/ Link!GiveUp \/ Link!InputEnds \/ Link!Leave
  <2>1. PICK p \in CtlPcs, o \in BOOLEAN, m \in Nat :
          /\ ctl' = [pc |-> p, outstanding |-> o, kind |-> ctl.kind, line |-> ctl.line]
          /\ gui' = [messages |-> m, pc |-> gui.pc, id |-> gui.id] /\ m <= gui.messages
          /\ UNCHANGED <<stdin, stdout, block>> /\ ctl.pc # "print"
          /\ \/ ctl.pc = "sending" /\ p \in {"mark", "print"} /\ (o \/ (Link!Handled /\ m = gui.messages))
             \/ ctl.pc = "loop" /\ p = "drain" /\ stdin = <<>> /\ (o <=> ctl.outstanding) /\ m = gui.messages
             \/ ctl.pc = "farewell" /\ p = "off" /\ (o <=> ctl.outstanding) /\ m = gui.messages
    <3>0. ctl.outstanding \in BOOLEAN /\ gui.messages \in Nat /\ (block.done = 0) \in BOOLEAN
      BY <1>0, LinkFields
    <3>1. CASE Link!Sent
      <4>1. /\ ctl.pc = "sending" /\ Link!Handled /\ UNCHANGED <<stdin, stdout, block, gui>>
            /\ ctl' = [pc |-> IF block.done = 0 THEN "mark" ELSE "print", outstanding |-> block.done = 0, kind |-> ctl.kind,
                       line |-> ctl.line]
        BY <1>0, <3>1, LinkFields DEF Link!Sent
      <4>2. gui' = [messages |-> gui.messages, pc |-> gui.pc, id |-> gui.id] /\ gui.messages <= gui.messages
        BY <1>0, <3>0, <4>1, LinkFields
      <4>3. CASE block.done = 0
        <5>1. ctl' = [pc |-> "mark", outstanding |-> TRUE, kind |-> ctl.kind, line |-> ctl.line] /\ "mark" \in CtlPcs
          BY <4>1, <4>3 DEF CtlPcs
        <5> QED BY <3>0, <4>1, <4>2, <5>1, ZenonT(60)
      <4>4. CASE block.done # 0
        <5>1. ctl' = [pc |-> "print", outstanding |-> FALSE, kind |-> ctl.kind, line |-> ctl.line] /\ "print" \in CtlPcs
          BY <4>1, <4>4 DEF CtlPcs
        <5> QED BY <3>0, <4>1, <4>2, <5>1, ZenonT(60)
      <4> QED BY <4>3, <4>4
    <3>2. CASE Link!GiveUp
      <4>1. PICK left \in 0 .. gui.messages :
              /\ ctl.pc = "sending" /\ UNCHANGED <<stdin, stdout, block>>
              /\ ctl' = [pc |-> "mark", outstanding |-> TRUE, kind |-> ctl.kind, line |-> ctl.line]
              /\ gui' = [messages |-> left, pc |-> gui.pc, id |-> gui.id]
        BY <1>0, <3>2, LinkFields DEF Link!GiveUp
      <4>2. left \in Nat /\ left <= gui.messages /\ "mark" \in CtlPcs
        BY <3>0 DEF CtlPcs
      <4> QED BY <4>1, <4>2
    <3>3. CASE Link!InputEnds
      <4>1. /\ ctl.pc = "loop" /\ stdin = <<>> /\ UNCHANGED <<stdin, stdout, block, gui>> /\ "drain" \in CtlPcs
            /\ ctl' = [pc |-> "drain", outstanding |-> ctl.outstanding, kind |-> ctl.kind, line |-> ctl.line]
        BY <1>0, <3>3, LinkFields DEF Link!InputEnds, CtlPcs
      <4> QED BY <1>0, <3>0, <4>1, LinkFields
    <3>4. CASE Link!Leave
      <4>1. /\ ctl.pc = "farewell" /\ UNCHANGED <<stdin, stdout, block, gui>> /\ "off" \in CtlPcs
            /\ ctl' = [pc |-> "off", outstanding |-> ctl.outstanding, kind |-> ctl.kind, line |-> ctl.line]
        BY <1>0, <3>4, LinkFields DEF Link!Leave, CtlPcs
      <4> QED BY <1>0, <3>0, <4>1, LinkFields
    <3> QED BY <1>4, <3>1, <3>2, <3>3, <3>4
  <2>2. ctl' \in CtlType /\ ctl'.pc = p /\ (ctl'.outstanding <=> o) /\ ctl'.line = ctl.line
    BY <1>0, <1>a, <2>1, LinkFields
  <2>3. gui' \in GuiType /\ gui'.messages = m /\ gui'.pc = gui.pc /\ gui'.id = gui.id
    BY <1>b, <2>1
  <2>4. LinkTypes'
    BY <1>0, <1>1, <2>1, <2>2, <2>3, Zenon DEF LinkTypes
  <2>5. Flight' /\ Numbers'
    BY <1>0, <1>1, <2>1, <2>2 DEF Flight, Numbers, Sending, Gone
  <2>6. Link!Handled => Link!Handled'
    BY <1>0, <2>1, <2>3, LinkFields DEF Link!Handled
  <2>7. Messages'
    BY <1>0, <1>1, <2>1, <2>2, <2>3, <2>6, LinkFields DEF Messages, Gone
  <2>8. Order'
    BY <1>0, <1>1, <2>1, <2>2, <2>3, LinkFields DEF Order, Gone
  <2>9. Answers'
    <3>1. ctl'.pc = "print" => ctl'.line = Link!BlankLine /\ ctl'.line.done # 1 /\ ctl'.line.fields = Link!NotRead
      BY <1>0, <1>e, <2>1, <2>2, Calls DEF Answers
    <3>2. ctl'.pc # "print" => ctl'.line = Link!BlankLine
      BY <1>0, <2>1, <2>2 DEF Answers
    <3>3. ctl'.pc \notin Gone => block'.fields \in {0, block'.id}
      BY <1>0, <2>1, <2>2 DEF Answers, Gone
    <3> QED BY <1>0, <1>1, <2>1, <2>3, <3>1, <3>2, <3>3 DEF Answers, Owns
  <2> QED BY <2>4, <2>5, <2>7, <2>8, <2>9 DEF LinkInv
<1>5. CASE Link!Mark
  <2>1. /\ ctl.pc = "mark" /\ UNCHANGED <<stdin, stdout, gui>> /\ "print" \in CtlPcs
        /\ ctl' = [pc |-> "print", outstanding |-> ctl.outstanding, kind |-> ctl.kind, line |-> ctl.line]
        /\ block' = [id |-> block.id, kind |-> block.kind, done |-> block.done, error |-> 90, fields |-> block.fields]
    BY <1>0, <1>5, LinkFields DEF Link!Mark, CtlPcs
  <2>2. ctl' \in CtlType /\ ctl'.pc = "print" /\ (ctl'.outstanding <=> ctl.outstanding) /\ ctl'.line = ctl.line
    BY <1>0, <1>a, <2>1, LinkFields
  <2>3. block' \in BlockType /\ block'.id = block.id /\ block'.done = block.done /\ block'.fields = block.fields
    <3>1. block' \in BlockType
      <4>1. 90 \in Nat
        OBVIOUS
      <4> QED BY <1>0, <2>1, <4>1, LinkFields, Zenon DEF BlockType
    <3> QED BY <2>1, <3>1
  <2>4. LinkTypes'
    BY <1>0, <1>1, <2>1, <2>2, <2>3, Zenon DEF LinkTypes
  <2>5. Flight' /\ Numbers' /\ Messages' /\ Order'
    BY <1>0, <1>1, <2>1, <2>2, <2>3 DEF Flight, Numbers, Messages, Order, Sending, Gone, Link!Handled
  <2>6. Answers'
    <3>1. ctl'.line.done # 1 /\ ctl'.line.fields = Link!NotRead
      BY <1>0, <1>e, <2>1, <2>2, Calls DEF Answers
    <3> QED BY <1>0, <1>1, <2>1, <2>2, <2>3, <3>1 DEF Answers, Owns, Gone
  <2> QED BY <2>4, <2>5, <2>6 DEF LinkInv
<1>6. CASE Link!ReadField
  <2>1. PICK l \in ReadLine :
          /\ ctl.pc = "print" /\ UNCHANGED <<stdin, stdout, block, gui>>
          /\ ctl' = [pc |-> "print", outstanding |-> ctl.outstanding, kind |-> ctl.kind, line |-> l]
          /\ l.done = ctl.line.done \/ l.done = block.done
          /\ l.fields = ctl.line.fields \/ l.fields = block.fields
    <3>1. PICK f \in {"done", "error", "fields"} :
            ctl.pc = "print" /\ ctl' = [ctl EXCEPT !.line[f] = block[f]] /\ UNCHANGED <<stdin, stdout, block, gui>>
      BY <1>6 DEF Link!ReadField
    <3> DEFINE l == [ctl.line EXCEPT ![f] = block[f]]
    <3>2. ctl' = [pc |-> "print", outstanding |-> ctl.outstanding, kind |-> ctl.kind, line |-> l]
      BY <1>0, <3>1, LinkFields
    <3>3. /\ l = [done |-> l.done, error |-> l.error, fields |-> l.fields]
          /\ l.done \in {-1, 0, 1} /\ l.error \in Nat \cup {-1} /\ l.fields \in Nat \cup {-1}
          /\ l.done = ctl.line.done \/ l.done = block.done
          /\ l.fields = ctl.line.fields \/ l.fields = block.fields
      <4>1. CASE f = "done"
        BY <1>0, <4>1, LinkFields
      <4>2. CASE f = "error"
        BY <1>0, <4>2, LinkFields
      <4>3. CASE f = "fields"
        BY <1>0, <4>3, LinkFields
      <4> QED BY <4>1, <4>2, <4>3
    <3> HIDE DEF l
    <3>4. l \in ReadLine
      BY <3>3, Zenon DEF ReadLine
    <3> QED BY <3>1, <3>2, <3>3, <3>4
  <2>2. ctl' \in CtlType /\ ctl'.pc = "print" /\ (ctl'.outstanding <=> ctl.outstanding) /\ ctl'.line = l
    <3>1. "print" \in CtlPcs
      BY DEF CtlPcs
    <3> QED BY <1>0, <1>a, <2>1, <3>1, LinkFields
  <2>3. LinkTypes'
    BY <1>0, <1>1, <2>1, <2>2, Zenon DEF LinkTypes
  <2>4. Flight' /\ Numbers' /\ Messages' /\ Order'
    BY <1>0, <1>1, <2>1, <2>2 DEF Flight, Numbers, Messages, Order, Sending, Gone, Link!Handled
  <2>5. Answers'
    BY <1>0, <1>1, <2>1, <2>2 DEF Answers, Owns, Gone
  <2> QED BY <2>3, <2>4, <2>5 DEF LinkInv
<1>7. CASE Link!Answer
  <2> DEFINE g == IF block.error = 0 THEN block.fields ELSE 0
             p == IF ctl.kind = "quit" /\ ~ctl.outstanding THEN "off" ELSE "loop"
             x == [done |-> ctl.line.done, error |-> ctl.line.error, fields |-> ctl.line.fields, data |-> g]
  <2>1. /\ ctl.pc = "print" /\ UNCHANGED <<stdin, block, gui>> /\ stdout' = Append(stdout, x)
        /\ ctl' = [pc |-> p, outstanding |-> ctl.outstanding, kind |-> ctl.kind, line |-> Link!BlankLine]
        /\ ctl.line.done # -1 /\ ctl.line.error # -1 /\ ctl.line.fields # -1
    <3>1. DOMAIN ctl.line = {"done", "error", "fields"}
      BY <1>0, LinkFields
    <3>2. ctl.line["done"] # -1 /\ ctl.line["error"] # -1 /\ ctl.line["fields"] # -1
      BY <1>7, <3>1, Calls DEF Link!Answer
    <3> QED BY <1>0, <1>7, <3>2, LinkFields DEF Link!Answer
  <2>2. /\ ctl.line.done \in {0, 1} /\ ctl.line.error \in Nat /\ ctl.line.fields \in Nat /\ g \in Nat
        /\ g \in {0, block.fields} /\ p \in {"off", "loop"} /\ (p = "off" => ~ctl.outstanding)
    BY <1>0, <2>1, LinkFields
  <2>3. stdin = <<>> /\ stdout = <<>> /\ client.id = block.id
    BY <1>0, <2>1 DEF Flight, Numbers, Sending
  <2> HIDE DEF g, p
  <2>4. stdout' = <<x>> /\ stdout' \in Seq(Link!Line) /\ Len(stdout') = 1 /\ stdout'[1] = x
    BY <1>d, <2>1, <2>2, <2>3
  <2>5. ctl' \in CtlType /\ ctl'.pc = p /\ (ctl'.outstanding <=> ctl.outstanding) /\ ctl'.line = Link!BlankLine
    <3>1. p \in CtlPcs
      BY <2>2 DEF CtlPcs
    <3> QED BY <1>0, <1>a, <1>e, <2>1, <3>1, LinkFields
  <2>6. x.done = 1 => Owns(x, client.id)
    <3>1. SUFFICES ASSUME x.done = 1 PROVE Owns(x, client.id)
      OBVIOUS
    <3>2. block.done = 1 /\ block.id \in Ran /\ Link!Handled /\ block.fields \in {0, block.id}
          /\ ctl.line.fields \in {0, block.id}
      BY <1>0, <2>1, <3>1, Calls DEF Answers, Order, Messages, Gone
    <3>3. x.fields = ctl.line.fields /\ x.data = g
      OBVIOUS
    <3> QED BY <2>2, <2>3, <3>2, <3>3 DEF Owns, Link!Handled
  <2> HIDE DEF x
  <2>7. LinkTypes'
    BY <1>0, <1>1, <2>1, <2>4, <2>5, Zenon DEF LinkTypes
  <2>8. Flight' /\ Numbers'
    BY <1>0, <1>1, <2>1, <2>2, <2>3, <2>4, <2>5 DEF Flight, Numbers, Sending, Gone
  <2>9. Messages' /\ Order'
    BY <1>0, <1>1, <2>1, <2>2, <2>5 DEF Messages, Order, Gone, Link!Handled
  <2>10. Answers'
    BY <1>0, <1>1, <2>1, <2>2, <2>4, <2>5, <2>6 DEF Answers, Owns, Gone
  <2> QED BY <2>7, <2>8, <2>9, <2>10 DEF LinkInv
<1>8. CASE Link!Drain
  <2>1. ctl.pc = "drain" /\ ~Link!Busy /\ UNCHANGED <<stdin, stdout>>
    BY <1>8 DEF Link!Drain
  <2>2. Link!Handled /\ gui.messages = 0 /\ gui.pc = "idle"
    BY <1>f, <2>1 DEF Gone, Link!Handled
  <2>3. CASE UNCHANGED <<block, gui>>
    <3>1. ctl' = [pc |-> "off", outstanding |-> ctl.outstanding, kind |-> ctl.kind, line |-> ctl.line] /\ "off" \in CtlPcs
      <4>1. gui' # [gui EXCEPT !.messages = @ + 1]
        BY <1>0, <2>2, <2>3, LinkFields
      <4> QED BY <1>0, <1>8, <4>1, LinkFields DEF Link!Drain, CtlPcs
    <3>2. ctl' \in CtlType /\ ctl'.pc = "off" /\ ctl'.line = ctl.line
      BY <1>0, <1>a, <3>1, LinkFields
    <3>3. LinkTypes'
      BY <1>0, <1>1, <2>1, <2>3, <3>2, Zenon DEF LinkTypes
    <3>4. Flight' /\ Numbers'
      BY <1>0, <1>1, <2>1, <2>3, <3>2 DEF Flight, Numbers, Sending, Gone
    <3>5. Messages' /\ Order' /\ Answers'
      BY <1>0, <1>1, <2>1, <2>2, <2>3, <3>2 DEF Messages, Order, Answers, Owns, Gone, Link!Handled
    <3> QED BY <3>3, <3>4, <3>5 DEF LinkInv
  <2>4. CASE ~UNCHANGED <<block, gui>>
    <3>1. /\ ctl' = [pc |-> "farewell", outstanding |-> ctl.outstanding, kind |-> ctl.kind, line |-> ctl.line]
          /\ block' = [id |-> MaxCalls + 1, kind |-> "quit", done |-> block.done, error |-> block.error, fields |-> block.fields]
          /\ gui' = [messages |-> 1, pc |-> gui.pc, id |-> gui.id] /\ "farewell" \in CtlPcs
      <4>1. /\ ctl' = [ctl EXCEPT !.pc = "farewell"]
            /\ block' = [block EXCEPT !.kind = "quit", !.id = Link!Farewell]
            /\ gui' = [gui EXCEPT !.messages = @ + 1]
        BY <1>8, <2>4, Zenon DEF Link!Drain
      <4>2. ctl' = [pc |-> "farewell", outstanding |-> ctl.outstanding, kind |-> ctl.kind, line |-> ctl.line]
        BY <1>0, <4>1, LinkFields
      <4>3. block' = [id |-> MaxCalls + 1, kind |-> "quit", done |-> block.done, error |-> block.error, fields |-> block.fields]
        BY <1>0, <4>1, LinkFields, Calls
      <4>4. gui' = [messages |-> 1, pc |-> gui.pc, id |-> gui.id]
        BY <1>0, <2>2, <4>1, LinkFields
      <4> QED BY <4>2, <4>3, <4>4 DEF CtlPcs
    <3>2. ctl' \in CtlType /\ ctl'.pc = "farewell" /\ ctl'.line = ctl.line
      BY <1>0, <1>a, <3>1, LinkFields
    <3>3. gui' \in GuiType /\ gui'.messages = 1 /\ gui'.pc = "idle"
      BY <1>b, <2>2, <3>1
    <3>4. block' \in BlockType /\ block'.id = MaxCalls + 1
      <4>1. MaxCalls + 1 \in 0 .. MaxCalls + 1 /\ "quit" \in LinkKinds
        BY Calls DEF LinkKinds
      <4>2. block' \in BlockType
        BY <1>0, <3>1, <4>1, LinkFields, Zenon DEF BlockType
      <4> QED BY <3>1, <4>2
    <3>5. LinkTypes'
      BY <1>0, <1>1, <2>1, <3>2, <3>3, <3>4, Zenon DEF LinkTypes
    <3>6. Flight' /\ Numbers'
      BY <1>0, <1>1, <2>1, <3>2 DEF Flight, Numbers, Sending, Gone
    <3>7. Messages'
      BY <1>1, <3>2, <3>3, <3>4, Calls DEF Messages, Gone
    <3>8. Order'
      <4>1. \A n \in Ran : n < MaxCalls + 1
        BY <1>0, <2>1, RanIn, LinkFields, Calls DEF Order, Numbers, Gone
      <4> QED BY <1>0, <1>1, <3>2, <3>3, <3>4, <4>1, RanIn, Calls DEF Order, Gone
    <3>9. Answers'
      BY <1>0, <1>1, <2>1, <3>2, <3>3 DEF Answers, Owns, Gone
    <3> QED BY <3>5, <3>6, <3>7, <3>8, <3>9 DEF LinkInv
  <2> QED BY <2>3, <2>4
<1> QED BY <1>2, <1>3, <1>4, <1>5, <1>6, <1>7, <1>8 DEF Link!Controller

\* The link's invariant holds in every state, whichever part moves.
THEOREM LinkInvariant == Spec => []LinkInv
<1>1. Init => LinkInv
  <2> SUFFICES ASSUME Link!Init PROVE LinkInv
    BY DEF Init
  <2>1. Link!BlankLine = [done |-> -1, error |-> -1, fields |-> -1]
    BY Calls DEF Link!BlankLine
  <2>2. /\ 0 \in 0 .. MaxCalls /\ 0 \in 0 .. MaxCalls + 1 /\ 0 \in Nat /\ 0 \in {0, 1} /\ -1 \in {-1, 0, 1} /\ -1 \in Nat \cup {-1}
        /\ "none" \in LinkKinds /\ "starting" \in ClientPcs /\ "loop" \in CtlPcs /\ "idle" \in GuiPcs
    BY Calls DEF LinkKinds, ClientPcs, CtlPcs, GuiPcs
  <2>3. client \in ClientType /\ ctl \in CtlType /\ block \in BlockType /\ gui \in GuiType
    BY <2>1, <2>2, Zenon DEF Link!Init, ClientType, CtlType, ReadLine, BlockType, GuiType
  <2>4. LinkTypes
    BY <2>3, EmptySeq DEF Link!Init, LinkTypes
  <2>5. Ran = {} /\ executed = <<>>
    BY DEF Link!Init, Ran
  <2> QED BY <2>4, <2>5 DEF Link!Init, LinkInv, Flight, Numbers, Messages, Order, Answers, Sending, Gone, Link!Handled
<1>2. LinkInv /\ [Next]_vars => LinkInv'
  <2> SUFFICES ASSUME LinkInv, [Next]_vars PROVE LinkInv'
    OBVIOUS
  <2>1. CASE Link!Next
    BY <2>1, ClientSteps, HookSteps, ControllerSteps DEF Link!Next
  <2>2. CASE UNCHANGED linkVars
    <3>1. UNCHANGED <<client, stdin, stdout, ctl, block, gui, executed, answered>> /\ Ran' = Ran
      BY <2>2 DEF linkVars, Ran
    <3>2. LinkTypes'
      BY <3>1, Zenon DEF LinkInv, LinkTypes
    <3> QED BY <3>1, <3>2 DEF LinkInv, Flight, Numbers, Messages, Order, Answers, Owns, Link!Handled
  <2> QED BY <2>1, <2>2 DEF Next, vars
<1> QED BY <1>1, <1>2, PTL DEF Spec

\* A command the client takes an answer for has run exactly once and in order, the answer is its own, and the
\* hook works on no command once the controller has gone, for any number of commands and any timeouts
\* (native.py _ask, controller.c, hook.c).
THEOREM AnswerIsForIt == Spec => []AnswersAreOwn
<1>1. LinkInv => AnswersAreOwn
  <2> SUFFICES ASSUME LinkInv PROVE AnswersAreOwn
    OBVIOUS
  <2>1. DOMAIN executed = 1 .. Len(executed)
    BY DEF LinkInv, LinkTypes
  <2>2. Link!Range(executed) = Ran
    BY <2>1 DEF Link!Range, Ran
  <2>3. Link!AnswerIsOwn
    BY <2>2 DEF LinkInv, Answers, Owns, Link!AnswerIsOwn
  <2>4. Link!ExecutedOnceInOrder
    BY <2>1 DEF LinkInv, Order, Link!ExecutedOnceInOrder
  <2>5. Link!MappingOutlivesUse
    BY LinkFields DEF LinkInv, Messages, Link!MappingOutlivesUse, Link!Handled
  <2> QED BY <2>3, <2>4, <2>5 DEF AnswersAreOwn
<1> QED BY <1>1, LinkInvariant, PTL

-----------------------------------------------------------------------------
(***************************************************************************)
(* The notices.  A message is posted at most once for what a window shows, *)
(* and the probe's two memories, the slot and the trade notice, tell which *)
(* messages of the visible windows are under way.                          *)
(***************************************************************************)

\* The messages posted to the windows, and those of a sequence.
NoteKinds == {"terms", "settlement", "page", "trade", "order"}
Message == [window : Windows, click : BOOLEAN]
Click(w) == [window |-> w, click |-> TRUE]
Answer(w) == [window |-> w, click |-> FALSE]
Among(q) == {q[i] : i \in 1 .. Len(q)}
NoDup(q) == \A i, j \in 1 .. Len(q) : q[i] = q[j] => i = j

\* What the probe remembers.
ProbeType == [last : Windows \cup {"nobody"}, kind : NoteKinds \cup {"none"}, trade : Windows \cup {"nobody"},
              phase : 0 .. 3, handled : 0 .. Budget]

\* The types of the notices.
NotesTypes ==
  /\ shown \in [Windows -> NoteKinds \cup {"hidden"}]
  /\ loaded \in [Windows -> BOOLEAN] /\ checked \in [Windows -> BOOLEAN] /\ seen \in [Windows -> BOOLEAN]
  /\ confirms \in [Windows -> Nat] /\ clicks \in [Windows -> Nat]
  /\ shows \in 0 .. MaxShows /\ startup \in {"active", "expired", "done"}
  /\ queue \in Seq(Message) /\ probe \in ProbeType

\* The probe has nothing left of a window that was shown before.
Away(p, w) == p.trade # w /\ ~(p.last = w /\ p.kind \in {"settlement", "page", "order"})

\* A window is shown again only after a scan that has forgotten it.
Forgotten ==
  \A w \in Windows :
    /\ shown[w] # "hidden" => ~seen[w]
    /\ shown[w] = "hidden" /\ seen[w] => Away(probe, w)

\* A message waits once, and for a window that is shown.
Waiting == NoDup(queue) /\ \A m \in Among(queue) : shown[m.window] # "hidden"

\* Only trade notices are shown beside another window.
Alone == \A v, w \in Notes!Visible : v = w \/ shown[v] = "trade" \/ shown[w] = "trade"

\* The messages M for a trade notice that the probe does not know, for the one that it
\* knows, and for another window.
Fresh(p, w, M) == Click(w) \notin M /\ Answer(w) \notin M /\ clicks[w] = 0
Traded(p, w, M) ==
  \/ p.phase = 1 /\ Answer(w) \notin M /\ (Click(w) \in M <=> ~checked[w])
  \/ p.phase = 3 /\ Answer(w) \in M /\ Click(w) \notin M /\ checked[w]
Slotted(p, w, M) == Click(w) \notin M /\ clicks[w] = 0 /\ (Answer(w) \in M => Notes!Slot(p, w))
Settled(p, w, M) ==
  /\ shown[w] = "trade" /\ p.trade # w => Fresh(p, w, M)
  /\ shown[w] = "trade" /\ p.trade = w => Traded(p, w, M)
  /\ shown[w] # "trade" => Slotted(p, w, M)

\* What was posted for a window is what waits for it.
Replies ==
  \A w \in Notes!Visible :
    /\ Settled(probe, w, Among(queue)) /\ clicks[w] <= 1
    /\ confirms[w] = IF Answer(w) \in Among(queue) THEN 1 ELSE 0

\* What holds of the notices at every moment.
NotesInv == NotesTypes /\ Forgotten /\ Waiting /\ Alone /\ Replies

\* What the assumption says of the notices.
LEMMA NotesBounds ==
  /\ "nobody" \notin Windows /\ Budget \in Nat /\ MaxShows \in Nat /\ IsFiniteSet(Windows)
  BY ConstantsAssumption DEF Notes!Constants, Notes!IsFiniteSet, IsFiniteSet

\* What confirm_document may do with a window: nothing, answer it and remember it in the slot,
\* or click or answer a trade notice and remember it as the one at work.
Waits(c, p) == c.posts = <<>> /\ c.probe = p
Slots(c, p, w) ==
  /\ shown[w] # "trade" /\ ~Notes!Slot(p, w) /\ c.posts = <<Answer(w)>>
  /\ c.probe.last = w /\ c.probe.kind = shown[w] /\ c.probe.trade = p.trade /\ c.probe.phase = p.phase
Takes(c, p, w) ==
  /\ shown[w] = "trade" /\ (p.trade = w \/ p.trade \notin Notes!Visible)
  /\ c.probe.last = p.last /\ c.probe.kind = p.kind /\ c.probe.trade = w
  /\ \/ ~checked[w] /\ (p.trade = w => p.phase = 0) /\ c.probe.phase = 1 /\ c.posts = <<Click(w)>>
     \/ checked[w] /\ (p.trade = w => p.phase # 3) /\ c.probe.phase = 3 /\ c.posts = <<Answer(w)>>

\* A trade notice is left, clicked or answered.
LEMMA TradeCases ==
  ASSUME NotesTypes, NEW p \in ProbeType, NEW w \in Notes!Visible, shown[w] = "trade"
  PROVE  LET c == Notes!trade_notice(p, w)
         IN c.probe \in ProbeType /\ c.pending \in BOOLEAN /\ (Waits(c, p) \/ Takes(c, p, w))
<1> DEFINE c == Notes!trade_notice(p, w)
           q == IF p.trade = w THEN p ELSE [p EXCEPT !.trade = w, !.phase = 0]
<1>0. w \in Windows /\ p.phase \in 0 .. 3
  BY DEF Notes!Visible, ProbeType
<1>1. q \in ProbeType /\ q.trade = w /\ q.last = p.last /\ q.kind = p.kind /\ (p.trade # w => q.phase = 0) /\ (p.trade = w => q = p)
  <2> DEFINE n == [p EXCEPT !.trade = w, !.phase = 0]
  <2>1. n \in ProbeType /\ n.trade = w /\ n.last = p.last /\ n.kind = p.kind /\ n.phase = 0
    <3>1. 0 \in 0 .. 3
      OBVIOUS
    <3> QED BY <1>0, <3>1, Zenon DEF ProbeType
  <2> HIDE DEF n
  <2>2. q = IF p.trade = w THEN p ELSE n
    BY DEF n
  <2> HIDE DEF q
  <2> QED BY <2>1, <2>2
<1>2. CASE ~loaded[w] \/ (p.trade # "nobody" /\ p.trade # w /\ p.trade \in Notes!Visible)
  <2>1. c = Notes!Quiet(p)
    BY <1>2 DEF Notes!trade_notice, Notes!Nobody
  <2> QED BY <2>1 DEF Notes!Quiet, Waits
<1>3. CASE loaded[w] /\ ~(p.trade # "nobody" /\ p.trade # w /\ p.trade \in Notes!Visible)
  <2>0. p.trade = w \/ p.trade \notin Notes!Visible
    BY <1>3, NotesBounds DEF Notes!Visible
  <2>1. c = IF q.phase = 3 THEN Notes!Quiet(q)
            ELSE IF q.phase = 0 /\ ~checked[w] THEN Notes!Posts([q EXCEPT !.phase = 1], w, TRUE)
            ELSE IF ~checked[w] THEN Notes!Quiet(q)
            ELSE Notes!Posts([q EXCEPT !.phase = 3], w, FALSE)
    BY <1>3 DEF Notes!trade_notice, Notes!Nobody
  <2> HIDE DEF c, q
  <2>2. CASE q.phase = 3 \/ (q.phase # 0 /\ ~checked[w])
    <3>1. c = Notes!Quiet(q) /\ q = p
      <4>1. q.phase # 0
        BY <2>2
      <4>2. c = Notes!Quiet(q)
        BY <2>1, <2>2, <4>1
      <4> QED BY <1>1, <4>1, <4>2
    <3> QED BY <3>1 DEF Notes!Quiet, Waits, c
  <2>3. CASE q.phase = 0 /\ ~checked[w]
    <3>1. c = Notes!Posts([q EXCEPT !.phase = 1], w, TRUE)
      BY <2>1, <2>3
    <3>2. [q EXCEPT !.phase = 1] \in ProbeType
      BY <1>1 DEF ProbeType
    <3>3. c.probe = [q EXCEPT !.phase = 1] /\ c.posts = <<Click(w)>> /\ c.pending = TRUE
      BY <3>1 DEF Notes!Posts, Click
    <3>4. [q EXCEPT !.phase = 1].phase = 1 /\ [q EXCEPT !.phase = 1].last = q.last /\ [q EXCEPT !.phase = 1].kind = q.kind
          /\ [q EXCEPT !.phase = 1].trade = q.trade
      BY <1>1 DEF ProbeType
    <3>5. Takes(c, p, w)
      BY <1>1, <2>0, <2>3, <3>3, <3>4 DEF Takes
    <3> QED BY <3>2, <3>3, <3>5 DEF c
  <2>4. CASE q.phase # 3 /\ checked[w]
    <3>1. c = Notes!Posts([q EXCEPT !.phase = 3], w, FALSE)
      BY <2>1, <2>4
    <3>2. [q EXCEPT !.phase = 3] \in ProbeType
      BY <1>1 DEF ProbeType
    <3>3. c.probe = [q EXCEPT !.phase = 3] /\ c.posts = <<Answer(w)>> /\ c.pending = TRUE
      BY <3>1 DEF Notes!Posts, Answer
    <3>4. [q EXCEPT !.phase = 3].phase = 3 /\ [q EXCEPT !.phase = 3].last = q.last /\ [q EXCEPT !.phase = 3].kind = q.kind
          /\ [q EXCEPT !.phase = 3].trade = q.trade
      BY <1>1 DEF ProbeType
    <3>5. Takes(c, p, w)
      BY <1>1, <2>0, <2>4, <3>3, <3>4 DEF Takes
    <3> QED BY <3>2, <3>3, <3>5 DEF c
  <2> QED BY <2>2, <2>3, <2>4
<1> QED BY <1>2, <1>3

\* A document or another notice is left or answered.
LEMMA SlotCases ==
  ASSUME NotesTypes, NEW p \in ProbeType, NEW w \in Notes!Visible, shown[w] # "trade",
         NEW c \in {Notes!order_notice(p, w), Notes!document(p, w)}
  PROVE  c.probe \in ProbeType /\ c.pending \in BOOLEAN /\ (Waits(c, p) \/ Slots(c, p, w))
<1>0. w \in Windows /\ shown[w] \in NoteKinds /\ p.handled \in 0 .. Budget /\ Budget \in Nat
  BY NotesBounds DEF Notes!Visible, NotesTypes, ProbeType
<1>1. CASE c = Notes!Quiet(p)
  BY <1>1 DEF Notes!Quiet, Waits
<1>2. CASE c # Notes!Quiet(p)
  <2> DEFINE a == [p EXCEPT !.last = w, !.kind = shown[w]]
             b == [p EXCEPT !.last = w, !.kind = shown[w], !.handled = @ + 1]
  <2>1. ~Notes!Slot(p, w) /\ (c = Notes!Posts(a, w, FALSE) \/ (c = Notes!Posts(b, w, FALSE) /\ ~(p.handled >= Budget)))
    BY <1>2 DEF Notes!order_notice, Notes!document
  <2>2. a \in ProbeType /\ a.last = w /\ a.kind = shown[w] /\ a.trade = p.trade /\ a.phase = p.phase
    BY <1>0 DEF ProbeType
  <2>3. ~(p.handled >= Budget) => b \in ProbeType /\ b.last = w /\ b.kind = shown[w] /\ b.trade = p.trade /\ b.phase = p.phase
    <3> SUFFICES ASSUME ~(p.handled >= Budget) PROVE b \in ProbeType /\ b.last = w /\ b.kind = shown[w] /\ b.trade = p.trade /\ b.phase = p.phase
      OBVIOUS
    <3>1. p.handled + 1 \in 0 .. Budget
      BY <1>0
    <3> QED BY <1>0, <3>1, Zenon DEF ProbeType
  <2> HIDE DEF a, b
  <2>4. PICK q \in ProbeType : c = Notes!Posts(q, w, FALSE) /\ q.last = w /\ q.kind = shown[w] /\ q.trade = p.trade /\ q.phase = p.phase
    BY <2>1, <2>2, <2>3
  <2>5. c.probe = q /\ c.posts = <<Answer(w)>> /\ c.pending = TRUE
    BY <2>4 DEF Notes!Posts, Answer
  <2> QED BY <2>1, <2>4, <2>5 DEF Slots
<1> QED BY <1>1, <1>2

\* What confirm_document does with a window.
LEMMA ConfirmCases ==
  ASSUME NotesTypes, NEW p \in ProbeType, NEW w \in Notes!Visible, NEW allow \in BOOLEAN
  PROVE  LET c == Notes!confirm_document(p, w, allow)
         IN c.probe \in ProbeType /\ c.pending \in BOOLEAN /\ (Waits(c, p) \/ Slots(c, p, w) \/ Takes(c, p, w))
<1> DEFINE c == Notes!confirm_document(p, w, allow)
<1>1. CASE c = Notes!Unknown(p)
  BY <1>1 DEF Notes!Unknown, Waits
<1>2. CASE c # Notes!Unknown(p) /\ shown[w] = "trade"
  <2>1. c = Notes!trade_notice(p, w)
    BY <1>2 DEF Notes!confirm_document
  <2> QED BY <1>2, <2>1, TradeCases, Zenon
<1>3. CASE c # Notes!Unknown(p) /\ shown[w] # "trade"
  <2>1. c \in {Notes!order_notice(p, w), Notes!document(p, w)}
    BY <1>3 DEF Notes!confirm_document
  <2> QED BY <1>3, <2>1, SlotCases, Zenon
<1> QED BY <1>1, <1>2, <1>3

\* The messages for the visible windows fit what the probe remembers.
AllSettled(p, M) == \A w \in Notes!Visible : Settled(p, w, M)

\* What a window without anything under way has nothing left of stays so.
StaysAway(p, q) == \A h \in Windows \ Notes!Visible : Away(p, h) => Away(q, h)

\* The message that is posted for w was not under way, and a click is the first one.
Novel(m, w, M) == m \in {Click(w), Answer(w)} /\ m \notin M /\ (m = Click(w) => clicks[w] = 0)

\* Messages of different windows or kinds differ.
LEMMA Different ==
  /\ \A v, w \in Windows : Click(v) # Answer(w)
  /\ \A v, w \in Windows : v # w => Click(v) # Click(w) /\ Answer(v) # Answer(w)
  /\ \A w \in Windows : /\ Click(w) \in Message /\ Click(w).window = w /\ Click(w).click = TRUE
                        /\ Answer(w) \in Message /\ Answer(w).window = w /\ Answer(w).click = FALSE
  BY DEF Click, Answer, Message

\* A window that is answered and put into the slot.
LEMMA SlotsKeep ==
  ASSUME NotesTypes, Alone, NEW p \in ProbeType, NEW w \in Notes!Visible, NEW M, AllSettled(p, M), NEW c, Slots(c, p, w)
  PROVE  AllSettled(c.probe, M \cup {Answer(w)}) /\ Novel(Answer(w), w, M) /\ StaysAway(p, c.probe)
<1> DEFINE N == M \cup {Answer(w)}
<1>0. w \in Windows /\ shown[w] # "trade" /\ \A v \in Notes!Visible : v \in Windows /\ Settled(p, v, M)
  BY DEF Slots, Notes!Visible, AllSettled
<1>1. Slotted(p, w, M)
  BY <1>0 DEF Settled
<1>2. Answer(w) \notin M
  BY <1>1 DEF Slotted, Slots
<1>3. \A v \in Notes!Visible : Click(v) \in N <=> Click(v) \in M
  BY <1>0, Different
<1>4. \A v \in Notes!Visible : v # w => (Answer(v) \in N <=> Answer(v) \in M)
  BY <1>0, Different
<1> HIDE DEF N
<1>5. ASSUME NEW v \in Notes!Visible PROVE Settled(c.probe, v, N)
  <2>1. CASE v = w
    <3>1. Notes!Slot(c.probe, w)
      BY DEF Slots, Notes!Slot
    <3> QED BY <1>0, <1>1, <1>3, <2>1, <3>1 DEF Settled, Slotted
  <2>2. CASE v # w
    <3>1. shown[v] = "trade"
      BY <1>0, <2>2 DEF Alone
    <3>2. c.probe.trade = p.trade /\ c.probe.phase = p.phase
      BY DEF Slots
    <3>3. CASE p.trade # v
      <4>1. Fresh(p, v, M)
        BY <1>0, <3>1, <3>3 DEF Settled
      <4>2. Fresh(c.probe, v, N)
        BY <4>1, <1>3, <1>4, <2>2 DEF Fresh
      <4> QED BY <3>1, <3>2, <3>3, <4>2 DEF Settled
    <3>4. CASE p.trade = v
      <4>1. Traded(p, v, M)
        BY <1>0, <3>1, <3>4 DEF Settled
      <4>2. Traded(c.probe, v, N)
        BY <4>1, <1>3, <1>4, <2>2, <3>2 DEF Traded
      <4> QED BY <3>1, <3>2, <3>4, <4>2 DEF Settled
    <3> QED BY <3>3, <3>4
  <2> QED BY <2>1, <2>2
<1>6. Novel(Answer(w), w, M)
  BY <1>0, <1>2, Different DEF Novel
<1>7. StaysAway(p, c.probe)
  BY DEF StaysAway, Away, Slots
<1> QED BY <1>5, <1>6, <1>7 DEF AllSettled, N

\* A trade notice that is clicked or answered.
LEMMA TakesKeep ==
  ASSUME NotesTypes, NEW p \in ProbeType, NEW w \in Notes!Visible, NEW M, AllSettled(p, M), NEW c, Takes(c, p, w)
  PROVE  \E m : /\ c.posts = <<m>> /\ Novel(m, w, M) /\ StaysAway(p, c.probe)
                /\ AllSettled(c.probe, M \cup {m})
<1>0. w \in Windows /\ shown[w] = "trade" /\ checked[w] \in BOOLEAN /\ \A v \in Notes!Visible : v \in Windows /\ Settled(p, v, M)
  BY DEF Takes, Notes!Visible, AllSettled, NotesTypes
<1>1. PICK m : c.posts = <<m>> /\ m \in {Click(w), Answer(w)} /\ (m = Click(w) => ~checked[w] /\ (p.trade = w => p.phase = 0) /\ c.probe.phase = 1)
                /\ (m = Answer(w) => checked[w] /\ (p.trade = w => p.phase # 3) /\ c.probe.phase = 3)
  BY <1>0, Different DEF Takes
<1>2. c.probe.trade = w /\ c.probe.last = p.last /\ c.probe.kind = p.kind /\ (p.trade = w \/ p.trade \notin Notes!Visible)
  BY DEF Takes
<1> DEFINE N == M \cup {m}
<1>3. \A v \in Notes!Visible : v # w => (Click(v) \in N <=> Click(v) \in M) /\ (Answer(v) \in N <=> Answer(v) \in M)
  BY <1>0, <1>1, Different
<1>4. Novel(m, w, M) /\ Settled(c.probe, w, N)
  <2>1. CASE p.trade # w
    <3>1. Fresh(p, w, M)
      BY <1>0, <2>1 DEF Settled
    <3>2. Novel(m, w, M)
      BY <1>1, <3>1 DEF Novel, Fresh
    <3>3. Traded(c.probe, w, N)
      BY <1>0, <1>1, <3>1, Different DEF Traded, Fresh
    <3> QED BY <1>0, <1>2, <3>2, <3>3 DEF Settled
  <2>2. CASE p.trade = w
    <3>1. Traded(p, w, M)
      BY <1>0, <2>2 DEF Settled
    <3>2. m = Answer(w) /\ p.phase = 1 /\ Answer(w) \notin M /\ Click(w) \notin M
      BY <1>0, <1>1, <2>2, <3>1 DEF Traded
    <3>3. Novel(m, w, M)
      BY <1>0, <3>2, Different DEF Novel
    <3>4. Traded(c.probe, w, N)
      BY <1>0, <1>1, <3>2, Different DEF Traded
    <3> QED BY <1>0, <1>2, <3>3, <3>4 DEF Settled
  <2> QED BY <2>1, <2>2
<1> HIDE DEF N
<1>5. ASSUME NEW v \in Notes!Visible, v # w PROVE Settled(c.probe, v, N)
  <2>1. CASE shown[v] = "trade"
    <3>1. Fresh(p, v, M)
      BY <1>0, <1>2, <1>5, <2>1 DEF Settled
    <3>2. Fresh(c.probe, v, N)
      BY <1>3, <1>5, <3>1 DEF Fresh
    <3> QED BY <1>2, <1>5, <2>1, <3>2 DEF Settled
  <2>2. CASE shown[v] # "trade"
    <3>1. Slotted(p, v, M)
      BY <1>0, <2>2 DEF Settled
    <3>2. Slotted(c.probe, v, N)
      BY <1>2, <1>3, <1>5, <3>1 DEF Slotted, Notes!Slot
    <3> QED BY <2>2, <3>2 DEF Settled
  <2> QED BY <2>1, <2>2
<1>6. StaysAway(p, c.probe)
  BY <1>2 DEF StaysAway, Away
<1> QED BY <1>1, <1>4, <1>5, <1>6 DEF AllSettled, N

\* Whatever confirm_document does with a visible window, the probe keeps track of it.
LEMMA ConfirmKeeps ==
  ASSUME NotesTypes, Alone, NEW p \in ProbeType, NEW w \in Notes!Visible, NEW allow \in BOOLEAN, NEW M, AllSettled(p, M)
  PROVE  LET c == Notes!confirm_document(p, w, allow)
         IN /\ c.probe \in ProbeType /\ c.pending \in BOOLEAN /\ StaysAway(p, c.probe)
            /\ \/ c.posts = <<>> /\ AllSettled(c.probe, M)
               \/ \E m : c.posts = <<m>> /\ Novel(m, w, M) /\ AllSettled(c.probe, M \cup {m})
<1> DEFINE c == Notes!confirm_document(p, w, allow)
<1>1. c.probe \in ProbeType /\ c.pending \in BOOLEAN /\ (Waits(c, p) \/ Slots(c, p, w) \/ Takes(c, p, w))
  BY ConfirmCases, Zenon
<1> HIDE DEF c
<1>2. CASE Waits(c, p)
  BY <1>1, <1>2 DEF Waits, StaysAway, c
<1>3. CASE Slots(c, p, w)
  <2>1. AllSettled(c.probe, M \cup {Answer(w)}) /\ Novel(Answer(w), w, M) /\ StaysAway(p, c.probe)
    BY <1>3, SlotsKeep
  <2>2. c.posts = <<Answer(w)>>
    BY <1>3 DEF Slots
  <2> QED BY <1>1, <2>1, <2>2, Zenon DEF c
<1>4. CASE Takes(c, p, w)
  <2>1. \E m : c.posts = <<m>> /\ Novel(m, w, M) /\ StaysAway(p, c.probe) /\ AllSettled(c.probe, M \cup {m})
    BY <1>4, TakesKeep, Zenon
  <2> QED BY <1>1, <2>1, Zenon DEF c
<1> QED BY <1>1, <1>2, <1>3, <1>4

\* Appending a message that is not there yet.
LEMMA OneMore ==
  ASSUME NEW q \in Seq(Message), NEW m \in Message
  PROVE  /\ q \o <<m>> \in Seq(Message) /\ Among(q \o <<m>>) = Among(q) \cup {m}
         /\ NoDup(q) /\ m \notin Among(q) => NoDup(q \o <<m>>)
<1> DEFINE s == q \o <<m>>
<1>1. s \in Seq(Message) /\ Len(s) = Len(q) + 1 /\ Len(q) \in Nat /\ s[Len(q) + 1] = m /\ \A i \in 1 .. Len(q) : s[i] = q[i]
  OBVIOUS
<1> HIDE DEF s
<1>2. 1 .. Len(s) = (1 .. Len(q)) \cup {Len(q) + 1}
  BY <1>1
<1>3. Among(s) = Among(q) \cup {m}
  BY <1>1, <1>2 DEF Among
<1>4. NoDup(q) /\ m \notin Among(q) => NoDup(s)
  BY <1>1, <1>2 DEF NoDup, Among
<1> QED BY <1>1, <1>3, <1>4 DEF s

\* Joining two sequences that have nothing in common.
LEMMA Joined ==
  ASSUME NEW q \in Seq(Message), NEW r \in Seq(Message), NoDup(q), NoDup(r), Among(q) \cap Among(r) = {}
  PROVE  q \o r \in Seq(Message) /\ Among(q \o r) = Among(q) \cup Among(r) /\ NoDup(q \o r)
<1> DEFINE s == q \o r
<1>1. /\ s \in Seq(Message) /\ Len(s) = Len(q) + Len(r) /\ Len(q) \in Nat /\ Len(r) \in Nat
      /\ \A i \in 1 .. Len(q) : s[i] = q[i]
      /\ \A i \in 1 .. Len(r) : s[Len(q) + i] = r[i]
  OBVIOUS
<1> HIDE DEF s
<1>2. ASSUME NEW i \in 1 .. Len(s) PROVE i \in 1 .. Len(q) \/ (i - Len(q) \in 1 .. Len(r) /\ s[i] = r[i - Len(q)])
  <2>1. i - Len(q) \in 1 .. Len(r) => s[Len(q) + (i - Len(q))] = r[i - Len(q)]
    BY <1>1
  <2>2. i \in 1 .. Len(q) \/ i - Len(q) \in 1 .. Len(r)
    BY <1>1
  <2>3. Len(q) + (i - Len(q)) = i
    BY <1>1
  <2> QED BY <2>1, <2>2, <2>3
<1>3. Among(s) = Among(q) \cup Among(r)
  <2>1. ASSUME NEW m \in Among(s) PROVE m \in Among(q) \cup Among(r)
    <3>1. PICK i \in 1 .. Len(s) : s[i] = m
      BY DEF Among
    <3> QED BY <1>1, <1>2, <3>1 DEF Among
  <2>2. ASSUME NEW m \in Among(q) PROVE m \in Among(s)
    <3>1. PICK i \in 1 .. Len(q) : q[i] = m
      BY DEF Among
    <3>2. i \in 1 .. Len(s) /\ s[i] = m
      BY <1>1, <3>1
    <3> QED BY <3>2 DEF Among
  <2>3. ASSUME NEW m \in Among(r) PROVE m \in Among(s)
    <3>1. PICK i \in 1 .. Len(r) : r[i] = m
      BY DEF Among
    <3>2. Len(q) + i \in 1 .. Len(s) /\ s[Len(q) + i] = m
      BY <1>1, <3>1
    <3> QED BY <3>2 DEF Among
  <2> QED BY <2>1, <2>2, <2>3
<1>4. ASSUME NEW i \in 1 .. Len(s), NEW j \in 1 .. Len(s), s[i] = s[j] PROVE i = j
  <2>1. CASE i \in 1 .. Len(q) /\ j \in 1 .. Len(q)
    BY <1>1, <1>4, <2>1 DEF NoDup
  <2>2. CASE i \in 1 .. Len(q) /\ j \notin 1 .. Len(q)
    <3>1. j - Len(q) \in 1 .. Len(r) /\ s[j] = r[j - Len(q)]
      BY <1>2, <2>2
    <3>2. q[i] \in Among(q) /\ r[j - Len(q)] \in Among(r)
      BY <2>2, <3>1 DEF Among
    <3>3. s[i] = q[i]
      BY <1>1, <2>2
    <3> QED BY <1>4, <3>1, <3>2, <3>3
  <2>3. CASE i \notin 1 .. Len(q) /\ j \in 1 .. Len(q)
    <3>1. i - Len(q) \in 1 .. Len(r) /\ s[i] = r[i - Len(q)]
      BY <1>2, <2>3
    <3>2. q[j] \in Among(q) /\ r[i - Len(q)] \in Among(r)
      BY <2>3, <3>1 DEF Among
    <3>3. s[j] = q[j]
      BY <1>1, <2>3
    <3> QED BY <1>4, <3>1, <3>2, <3>3
  <2>4. CASE i \notin 1 .. Len(q) /\ j \notin 1 .. Len(q)
    <3>1. i - Len(q) \in 1 .. Len(r) /\ s[i] = r[i - Len(q)] /\ j - Len(q) \in 1 .. Len(r) /\ s[j] = r[j - Len(q)]
      BY <1>2, <2>4
    <3>2. i - Len(q) = j - Len(q)
      BY <1>4, <3>1 DEF NoDup
    <3> QED BY <1>1, <3>2
  <2> QED BY <2>1, <2>2, <2>3, <2>4
<1> QED BY <1>1, <1>3, <1>4 DEF NoDup, s

\* Taking the first message.
LEMMA TakenOne ==
  ASSUME NEW q \in Seq(Message), q # <<>>, NoDup(q)
  PROVE  /\ Tail(q) \in Seq(Message) /\ NoDup(Tail(q)) /\ Head(q) \in Message /\ Head(q) \in Among(q)
         /\ Among(Tail(q)) = Among(q) \ {Head(q)}
<1> DEFINE t == Tail(q)
           h == Head(q)
<1>1. /\ t \in Seq(Message) /\ Len(t) = Len(q) - 1 /\ Len(q) \in Nat /\ Len(q) > 0 /\ h = q[1] /\ h \in Message
      /\ \A i \in 1 .. Len(t) : t[i] = q[i + 1]
  OBVIOUS
<1> HIDE DEF t, h
<1>2. NoDup(t)
  <2>1. ASSUME NEW i \in 1 .. Len(t), NEW j \in 1 .. Len(t), t[i] = t[j] PROVE i = j
    <3>1. i + 1 \in 1 .. Len(q) /\ j + 1 \in 1 .. Len(q) /\ q[i + 1] = q[j + 1]
      BY <1>1, <2>1
    <3>2. i + 1 = j + 1
      BY <3>1 DEF NoDup
    <3> QED BY <3>2
  <2> QED BY <2>1 DEF NoDup
<1>3. h \in Among(q)
  BY <1>1 DEF Among
<1>4. ASSUME NEW m \in Among(t) PROVE m \in Among(q) /\ m # h
  <2>1. PICK i \in 1 .. Len(t) : t[i] = m
    BY DEF Among
  <2>2. i + 1 \in 1 .. Len(q) /\ q[i + 1] = m /\ i + 1 # 1 /\ 1 \in 1 .. Len(q)
    BY <1>1, <2>1
  <2>3. m # q[1]
    BY <2>2 DEF NoDup
  <2> QED BY <1>1, <2>2, <2>3 DEF Among
<1>5. ASSUME NEW m \in Among(q), m # h PROVE m \in Among(t)
  <2>1. PICK i \in 1 .. Len(q) : q[i] = m
    BY DEF Among
  <2>2. i - 1 \in 1 .. Len(t)
    BY <1>1, <1>5, <2>1
  <2>3. t[i - 1] = q[(i - 1) + 1] /\ (i - 1) + 1 = i
    BY <1>1, <2>2
  <2> QED BY <2>1, <2>2, <2>3 DEF Among
<1> QED BY <1>1, <1>2, <1>3, <1>4, <1>5 DEF t, h

\* What holds of the probe and of the messages posted so far for the windows scanned.
Posting(r) ==
  /\ r.probe \in ProbeType /\ r.posts \in Seq(Message) /\ r.pending \in BOOLEAN
  /\ NoDup(r.posts) /\ Among(queue) \cap Among(r.posts) = {}
  /\ \A m \in Among(r.posts) : m.window \in Notes!Visible
  /\ \A w \in Notes!Visible : Click(w) \in Among(r.posts) => clicks[w] = 0
  /\ AllSettled(r.probe, Among(queue) \cup Among(r.posts))

\* The same, and the probe has forgotten the windows that are not visible.
Sound(r) == Posting(r) /\ \A h \in Windows \ Notes!Visible : Away(r.probe, h)

\* One more window, in a scan or in the hook.
More(r, w, allow) ==
  [probe |-> Notes!confirm_document(r.probe, w, allow).probe,
   posts |-> r.posts \o Notes!confirm_document(r.probe, w, allow).posts,
   pending |-> r.pending \/ Notes!confirm_document(r.probe, w, allow).pending]
Step(r, w) == More(r, w, TRUE)

\* One more window keeps what holds of the messages.
LEMMA MorePosting ==
  ASSUME NotesTypes, Alone, NEW r, Posting(r), NEW w \in Notes!Visible, NEW allow \in BOOLEAN
  PROVE  Posting(More(r, w, allow)) /\ StaysAway(r.probe, More(r, w, allow).probe)
<1> DEFINE c == Notes!confirm_document(r.probe, w, allow)
           s == More(r, w, allow)
           M == Among(queue) \cup Among(r.posts)
<1>0. s.probe = c.probe /\ s.posts = r.posts \o c.posts /\ s.pending = (r.pending \/ c.pending)
  BY DEF More
<1>1. /\ c.probe \in ProbeType /\ c.pending \in BOOLEAN /\ StaysAway(r.probe, c.probe)
      /\ \/ c.posts = <<>> /\ AllSettled(c.probe, M)
         \/ \E m : c.posts = <<m>> /\ Novel(m, w, M) /\ AllSettled(c.probe, M \cup {m})
  <2>1. r.probe \in ProbeType /\ AllSettled(r.probe, M)
    BY DEF Posting
  <2> HIDE DEF M
  <2> QED BY <2>1, ConfirmKeeps, Zenon
<1>2. r.posts \in Seq(Message) /\ r.pending \in BOOLEAN /\ w \in Windows
  BY DEF Posting, Notes!Visible
<1> HIDE DEF c, s
<1>3. s.probe \in ProbeType /\ s.pending \in BOOLEAN /\ StaysAway(r.probe, s.probe)
  BY <1>0, <1>1, <1>2
<1>4. CASE c.posts = <<>> /\ AllSettled(c.probe, M)
  <2>1. s.posts = r.posts
    BY <1>0, <1>2, <1>4
  <2> QED BY <1>0, <1>3, <1>4, <2>1 DEF Posting, s
<1>5. CASE \E m : c.posts = <<m>> /\ Novel(m, w, M) /\ AllSettled(c.probe, M \cup {m})
  <2>1. PICK m : c.posts = <<m>> /\ Novel(m, w, M) /\ AllSettled(c.probe, M \cup {m})
    BY <1>5, Zenon
  <2>2. m \in Message /\ m.window = w /\ m \notin Among(r.posts) /\ m \notin Among(queue)
    BY <1>2, <2>1, Different DEF Novel
  <2>3. s.posts \in Seq(Message) /\ Among(s.posts) = Among(r.posts) \cup {m} /\ NoDup(s.posts)
    <3>1. s.posts = r.posts \o <<m>> /\ NoDup(r.posts)
      BY <1>0, <2>1 DEF Posting
    <3> QED BY <1>2, <2>2, <3>1, OneMore
  <2>4. Among(queue) \cap Among(s.posts) = {}
    BY <2>2, <2>3 DEF Posting
  <2>5. \A x \in Among(s.posts) : x.window \in Notes!Visible
    BY <2>2, <2>3 DEF Posting
  <2>6. ASSUME NEW v \in Notes!Visible, Click(v) \in Among(s.posts) PROVE clicks[v] = 0
    <3>1. CASE Click(v) \in Among(r.posts)
      BY <3>1 DEF Posting
    <3>2. CASE Click(v) = m
      <4>1. v = w
        BY <2>2, <3>2, Different DEF Notes!Visible
      <4> QED BY <2>1, <3>2, <4>1 DEF Novel
    <3> QED BY <2>3, <2>6, <3>1, <3>2
  <2>7. AllSettled(s.probe, Among(queue) \cup Among(s.posts))
    <3>1. Among(queue) \cup Among(s.posts) = M \cup {m}
      BY <2>3
    <3> QED BY <1>0, <2>1, <3>1, Zenon
  <2> QED BY <1>3, <2>3, <2>4, <2>5, <2>6, <2>7 DEF Posting, s
<1> QED BY <1>1, <1>4, <1>5

\* One more window keeps the scan sound.
LEMMA StepSound ==
  ASSUME NotesTypes, Alone, NEW r, Sound(r), NEW w \in Notes!Visible
  PROVE  Sound(Step(r, w))
<1>1. Posting(r) /\ TRUE \in BOOLEAN
  BY DEF Sound
<1>2. Posting(Step(r, w)) /\ StaysAway(r.probe, Step(r, w).probe)
  BY <1>1, MorePosting, Zenon DEF Step
<1> QED BY <1>2 DEF Sound, StaysAway

(***************************************************************************)
(* A scan is a fold over the windows.  That there is such a fold, and that *)
(* it keeps what every window keeps, is shown by minimal counterexample:   *)
(* among the subsets of a finite set that violate a statement there would  *)
(* be a smallest.                                                          *)
(***************************************************************************)

\* A set of sets has a smallest element.
HasSmallest(C) == \E T \in C : \A U \in C : U \subseteq T => U = T

\* Every non-empty set of subsets of a finite set has a smallest element.
LEMMA Smallest ==
  ASSUME NEW S, IsFiniteSet(S), NEW C \in SUBSET (SUBSET S), C # {}
  PROVE  HasSmallest(C)
<1> DEFINE R == StrictSubsetOrdering(S)
<1>1. IsWellFoundedOn(R, SUBSET S)
  BY FS_StrictSubsetOrderingWellFounded, FS_FiniteSubsetsOfFinite
<1>2. PICK T \in C : \A U \in C : ~(<<U, T>> \in R)
  <2> HIDE DEF R
  <2> QED BY <1>1, WFMin
<1>3. ASSUME NEW U \in C, U \subseteq T, U # T PROVE FALSE
  <2>1. <<U, T>> \in (SUBSET S) \X (SUBSET S)
    OBVIOUS
  <2>2. <<U, T>> \in R
    BY <1>3, <2>1 DEF StrictSubsetOrdering
  <2> QED BY <1>2, <2>2
<1> QED BY <1>3 DEF HasSmallest

\* The largest number of a set, where the fold of a sequence begins to unfold.
Top(s) == Notes!Max(s)

\* A finite set of numbers has a largest.
LEMMA TopIn ==
  ASSUME NEW n \in Nat, NEW s \in SUBSET (1 .. n), s # {}
  PROVE  Top(s) \in s /\ s \ {Top(s)} \subseteq s /\ s \ {Top(s)} # s
<1> DEFINE P(t) == \E x \in t : \A y \in t : x >= y
           C == {t \in SUBSET (1 .. n) : t # {} /\ ~P(t)}
<1>1. C = {}
  <2> SUFFICES ASSUME C # {} PROVE FALSE
    OBVIOUS
  <2>1. PICK t \in C : \A u \in C : u \subseteq t => u = t
    <3>0. IsFiniteSet(1 .. n)
      BY FS_Interval
    <3>1. C \in SUBSET (SUBSET (1 .. n))
      OBVIOUS
    <3> HIDE DEF C
    <3>2. HasSmallest(C)
      BY <3>0, <3>1, Smallest, Zenon
    <3> QED BY <3>2 DEF HasSmallest
  <2>2. PICK x \in t : TRUE
    OBVIOUS
  <2>3. t \in SUBSET (1 .. n) /\ t # {} /\ ~P(t)
    OBVIOUS
  <2>4. t \ {x} # {}
    <3> SUFFICES ASSUME t \ {x} = {} PROVE FALSE
      OBVIOUS
    <3>1. \A y \in t : x >= y
      BY <2>2, <2>3
    <3> QED BY <2>2, <2>3, <3>1
  <2>5. P(t \ {x})
    <3>1. t \ {x} \notin C
      BY <2>1, <2>2
    <3>2. t \ {x} \in SUBSET (1 .. n)
      BY <2>3
    <3> HIDE DEF P
    <3> QED BY <2>4, <3>1, <3>2
  <2>6. PICK z \in t \ {x} : \A y \in t \ {x} : z >= y
    BY <2>5
  <2>7. x \in Int /\ z \in Int /\ \A y \in t : y \in Int
    BY <2>2, <2>3
  <2>8. CASE x >= z
    <3>1. \A y \in t : x >= y
      BY <2>6, <2>7, <2>8
    <3> QED BY <2>2, <2>3, <3>1
  <2>9. CASE z >= x
    <3>1. \A y \in t : z >= y
      BY <2>6, <2>7, <2>9
    <3> QED BY <2>3, <2>6, <3>1
  <2> QED BY <2>7, <2>8, <2>9
<1>2. P(s)
  <2> HIDE DEF P
  <2> QED BY <1>1
<1> DEFINE Q(x) == x \in s /\ \A y \in s : x >= y
<1>3. \E x : Q(x)
  BY <1>2
<1>4. Top(s) = CHOOSE x : Q(x)
  BY DEF Top, Notes!Max
<1>5. Q(CHOOSE x : Q(x))
  <2> HIDE DEF Q
  <2> QED BY <1>3, Zenon
<1>6. Top(s) \in s
  BY <1>4, <1>5, Zenon
<1> QED BY <1>6

\* What a scan begins with.
Start == [probe |-> Notes!reset_notice_state, posts |-> <<>>, pending |-> FALSE]

\* g gives what a scan has done after any of the positions in S of the order.
IsScan(g, order, S) ==
  g = [s \in SUBSET S |-> IF s = {} THEN Start ELSE Step(g[s \ {Top(s)}], order[Top(s)])]

\* What a scan has done after the positions in s, by the last of them.
Unfolds(g, order, s) == g[s] = IF s = {} THEN Start ELSE Step(g[s \ {Top(s)}], order[Top(s)])

\* What a scan is at each set of positions.
LEMMA ScanAt ==
  ASSUME NEW g, NEW order, NEW S, IsScan(g, order, S), NEW s \in SUBSET S
  PROVE  Unfolds(g, order, s)
  BY DEF IsScan, Unfolds

\* Two scans in the same order agree on the positions that both have.
LEMMA ScanUnique ==
  ASSUME NEW n \in Nat, NEW T \in SUBSET (1 .. n), NEW S \in SUBSET T, NEW order, NEW g, NEW h,
         IsScan(g, order, S), IsScan(h, order, T)
  PROVE  g[S] = h[S]
<1> DEFINE C == {s \in SUBSET S : g[s] # h[s]}
<1>1. SUFFICES ASSUME C # {} PROVE FALSE
  OBVIOUS
<1>2. PICK s \in C : \A u \in C : u \subseteq s => u = s
  <2>1. C \in SUBSET (SUBSET S)
    OBVIOUS
  <2>2. IsFiniteSet(S)
    <3>1. IsFiniteSet(1 .. n) /\ S \in SUBSET (1 .. n)
      BY FS_Interval
    <3> QED BY <3>1, FS_Subset
  <2> HIDE DEF C
  <2>3. HasSmallest(C)
    BY <1>1, <2>1, <2>2, Smallest, Zenon
  <2> QED BY <2>3 DEF HasSmallest
<1>3. s \in SUBSET S /\ s \in SUBSET T /\ s \in SUBSET (1 .. n) /\ g[s] # h[s]
  OBVIOUS
<1> HIDE DEF C
<1>4. s # {}
  <2> SUFFICES ASSUME s = {} PROVE FALSE
    OBVIOUS
  <2>1. Unfolds(g, order, s)
    BY <1>3, ScanAt
  <2>2. Unfolds(h, order, s)
    BY <1>3, ScanAt
  <2> QED BY <1>3, <2>1, <2>2 DEF Unfolds
<1> DEFINE r == s \ {Top(s)}
<1>5. r \subseteq s /\ r # s
  BY <1>3, <1>4, TopIn
<1>6. g[s] = Step(g[r], order[Top(s)])
  <2>1. s \in SUBSET S
    BY <1>3
  <2>2. Unfolds(g, order, s)
    BY <2>1, ScanAt
  <2> QED BY <1>4, <2>2 DEF Unfolds
<1>7. h[s] = Step(h[r], order[Top(s)])
  <2>1. s \in SUBSET T
    BY <1>3
  <2>2. Unfolds(h, order, s)
    BY <2>1, ScanAt
  <2> QED BY <1>4, <2>2 DEF Unfolds
<1> HIDE DEF r
<1>8. g[r] = h[r]
  <2>1. r \notin C /\ r \in SUBSET S
    BY <1>2, <1>3, <1>5
  <2> QED BY <2>1 DEF C
<1> QED BY <1>3, <1>6, <1>7, <1>8

\* There is a scan for every order.
LEMMA ScanExists ==
  ASSUME NEW n \in Nat, NEW order
  PROVE  \E g : IsScan(g, order, 1 .. n)
<1> DEFINE S == 1 .. n
           C == {T \in SUBSET S : ~\E g : IsScan(g, order, T)}
<1>1. SUFFICES ASSUME C # {} PROVE FALSE
  OBVIOUS
<1>2. PICK T \in C : \A U \in C : U \subseteq T => U = T
  <2>1. C \in SUBSET (SUBSET S) /\ IsFiniteSet(S)
    BY FS_Interval
  <2> HIDE DEF C, S
  <2>2. HasSmallest(C)
    BY <1>1, <2>1, Smallest, Zenon
  <2> QED BY <2>2 DEF HasSmallest
<1>3. T \in SUBSET S /\ ~\E g : IsScan(g, order, T)
  OBVIOUS
<1> DEFINE G(s) == CHOOSE g : IsScan(g, order, s)
<1>4. ASSUME NEW s \in SUBSET T, s # T PROVE IsScan(G(s), order, s)
  <2> DEFINE P(g) == IsScan(g, order, s)
  <2>1. \E g : P(g)
    BY <1>2, <1>3, <1>4
  <2> HIDE DEF P
  <2>2. P(CHOOSE g : P(g))
    BY <2>1, Zenon
  <2> QED BY <2>2, Zenon DEF P
<1> DEFINE h == [s \in SUBSET T |-> IF s = T THEN (IF s = {} THEN Start ELSE Step(G(s \ {Top(s)})[s \ {Top(s)}], order[Top(s)]))
                                    ELSE G(s)[s]]
<1>5. ASSUME NEW s \in SUBSET T PROVE h[s] = IF s = {} THEN Start ELSE Step(h[s \ {Top(s)}], order[Top(s)])
  <2> DEFINE r == s \ {Top(s)}
  <2>0. s # {} => r \in SUBSET T /\ r # T /\ r \in SUBSET s /\ r # s
    <3>1. s \in SUBSET (1 .. n)
      BY <1>3
    <3> QED BY <3>1, TopIn
  <2> HIDE DEF G, r
  <2>1. CASE s = {} /\ s = T
    BY <2>1
  <2>2. CASE s = {} /\ s # T
    <3>1. IsScan(G(s), order, s) /\ s \in SUBSET s
      BY <1>4, <2>2
    <3>2. Unfolds(G(s), order, s)
      BY <3>1, ScanAt
    <3> QED BY <2>2, <3>2 DEF Unfolds
  <2>3. CASE s # {} /\ s = T
    <3>1. h[s] = Step(G(r)[r], order[Top(s)])
      BY <2>3 DEF r
    <3>2. h[r] = G(r)[r]
      BY <2>0, <2>3
    <3> QED BY <2>3, <3>1, <3>2 DEF r
  <2>4. CASE s # {} /\ s # T
    <3>1. IsScan(G(s), order, s) /\ IsScan(G(r), order, r)
      BY <1>4, <2>0, <2>4
    <3>2. h[s] = G(s)[s] /\ h[r] = G(r)[r]
      BY <2>0, <2>4
    <3>3. G(s)[s] = Step(G(s)[r], order[Top(s)])
      <4>1. s \in SUBSET s
        OBVIOUS
      <4> DEFINE k == G(s)
      <4>2. IsScan(k, order, s)
        BY <3>1
      <4> HIDE DEF k
      <4>3. Unfolds(k, order, s)
        BY <4>1, <4>2, ScanAt
      <4> QED BY <2>4, <4>3 DEF r, k, Unfolds
    <3>4. G(r)[r] = G(s)[r]
      <4>1. s \in SUBSET (1 .. n) /\ r \in SUBSET s
        BY <1>3, <2>0, <2>4
      <4> DEFINE k == G(s)
                 l == G(r)
      <4>2. IsScan(k, order, s) /\ IsScan(l, order, r)
        BY <3>1
      <4> HIDE DEF k, l
      <4>3. l[r] = k[r]
        BY <4>1, <4>2, ScanUnique
      <4> QED BY <4>3 DEF k, l
    <3> HIDE DEF h
    <3>5. h[s] = Step(h[r], order[Top(s)])
      BY <3>2, <3>3, <3>4
    <3> QED BY <2>4, <3>5 DEF r
  <2> QED BY <2>1, <2>2, <2>3, <2>4
<1>6. h = [s \in SUBSET T |-> h[s]]
  OBVIOUS
<1> HIDE DEF h
<1>7. h = [s \in SUBSET T |-> IF s = {} THEN Start ELSE Step(h[s \ {Top(s)}], order[Top(s)])]
  BY <1>5, <1>6
<1>8. IsScan(h, order, T)
  BY <1>7 DEF IsScan
<1> QED BY <1>3, <1>8

\* The fold of the library is a scan.
LEMMA ScannedIs ==
  ASSUME NEW n \in Nat, NEW order, DOMAIN order = 1 .. n
  PROVE  \E g : IsScan(g, order, 1 .. n) /\ Notes!Scanned(order) = g[1 .. n]
<1> DEFINE S == DOMAIN order
           P(g) == g = [s \in SUBSET S |-> IF s = {} THEN Start ELSE Step(g[s \ {Top(s)}], order[Top(s)])]
<1>1. Notes!Scanned(order) = (CHOOSE g : P(g))[S]
  BY Zenon DEF Notes!Scanned, Notes!FoldLeft, Notes!MapThenFoldSet, Top, Start, Step, More
<1>2. \A g : P(g) <=> IsScan(g, order, S)
  BY Zenon DEF IsScan
<1>3. S = 1 .. n
  OBVIOUS
<1> HIDE DEF P, S
<1>4. \E g : P(g)
  BY <1>2, <1>3, ScanExists
<1>5. P(CHOOSE g : P(g))
  BY <1>4, Zenon
<1> QED BY <1>1, <1>2, <1>3, <1>5, Zenon

\* Every scan of visible windows is sound if it begins so.
LEMMA ScanSound ==
  ASSUME NotesTypes, Alone, NEW n \in Nat, NEW order \in [1 .. n -> Notes!Visible], Sound(Start)
  PROVE  Sound(Notes!Scanned(order))
<1>1. PICK g : IsScan(g, order, 1 .. n) /\ Notes!Scanned(order) = g[1 .. n]
  <2>1. DOMAIN order = 1 .. n
    OBVIOUS
  <2> QED BY <2>1, ScannedIs, Zenon
<1> DEFINE C == {s \in SUBSET (1 .. n) : ~Sound(g[s])}
<1>2. ASSUME C # {} PROVE FALSE
  <2>1. PICK s \in C : \A u \in C : u \subseteq s => u = s
    <3>1. IsFiniteSet(1 .. n)
      BY FS_Interval
    <3>2. C \in SUBSET (SUBSET (1 .. n))
      OBVIOUS
    <3> HIDE DEF C
    <3>3. HasSmallest(C)
      BY <1>2, <3>1, <3>2, Smallest, Zenon
    <3> QED BY <3>3 DEF HasSmallest
  <2>2. s \in SUBSET (1 .. n) /\ ~Sound(g[s])
    OBVIOUS
  <2>3. Unfolds(g, order, s)
    BY <1>1, <2>2, ScanAt, Zenon
  <2>4. s # {}
    BY <2>2, <2>3 DEF Unfolds
  <2> DEFINE r == s \ {Top(s)}
  <2>5. Top(s) \in s /\ r \subseteq s /\ r # s
    BY <2>2, <2>4, TopIn
  <2>6. g[s] = Step(g[r], order[Top(s)])
    BY <2>3, <2>4 DEF Unfolds
  <2> HIDE DEF r, C
  <2>7. Sound(g[r])
    <3>1. r \notin C /\ r \in SUBSET (1 .. n)
      BY <2>1, <2>2, <2>5
    <3> QED BY <3>1 DEF C
  <2>8. order[Top(s)] \in Notes!Visible
    BY <2>2, <2>5
  <2>9. Sound(Step(g[r], order[Top(s)]))
    BY <2>7, <2>8, StepSound
  <2> QED BY <2>2, <2>6, <2>9
<1>3. 1 .. n \in SUBSET (1 .. n)
  OBVIOUS
<1>4. Sound(g[1 .. n])
  BY <1>2, <1>3
<1> QED BY <1>1, <1>4

\* The windows are finitely many, and a scan goes through some of the visible ones.
LEMMA Orders ==
  ASSUME NEW order \in Notes!SetToSeqs(Notes!Visible)
  PROVE  \E n \in Nat : order \in [1 .. n -> Notes!Visible]
<1>1. Notes!Visible \in SUBSET Windows
  BY DEF Notes!Visible
<1>2. IsFiniteSet(Notes!Visible)
  BY <1>1, NotesBounds, FS_Subset
<1>3. Cardinality(Notes!Visible) \in Nat
  BY <1>2, FS_CardinalityType
<1>4. Notes!Cardinality(Notes!Visible) = Cardinality(Notes!Visible)
  BY DEF Notes!Cardinality, Cardinality
<1>5. order \in [1 .. Notes!Cardinality(Notes!Visible) -> Notes!Visible]
  BY DEF Notes!SetToSeqs
<1> QED BY <1>3, <1>4, <1>5

\* What a scan forgets first leaves it sound.
LEMMA StartSound ==
  ASSUME NotesInv
  PROVE  Sound(Start)
<1> DEFINE p == Notes!reset_notice_state
           q == IF probe.trade \in Notes!Visible THEN probe ELSE [probe EXCEPT !.trade = "nobody", !.phase = 0]
           f == [q EXCEPT !.last = "nobody", !.kind = "none"]
<1>0. probe \in ProbeType /\ queue \in Seq(Message)
  BY DEF NotesInv, NotesTypes
<1>1. q \in ProbeType /\ q.last = probe.last /\ q.kind = probe.kind /\ (probe.trade \in Notes!Visible => q = probe)
      /\ (probe.trade \notin Notes!Visible => q.trade = "nobody")
  <2> DEFINE z == [probe EXCEPT !.trade = "nobody", !.phase = 0]
  <2>1. z \in ProbeType /\ z.trade = "nobody" /\ z.last = probe.last /\ z.kind = probe.kind
    <3>1. 0 \in 0 .. 3
      OBVIOUS
    <3> QED BY <1>0, <3>1, Zenon DEF ProbeType
  <2> HIDE DEF z
  <2>2. q = IF probe.trade \in Notes!Visible THEN probe ELSE z
    BY DEF z
  <2> HIDE DEF q
  <2> QED BY <1>0, <2>1, <2>2
<1>2. p = IF q.kind \in {"settlement", "page", "order"} /\ q.last \notin Notes!Visible THEN f ELSE q
  BY DEF Notes!reset_notice_state, Notes!Nobody
<1>3. f \in ProbeType /\ f.last = "nobody" /\ f.kind = "none" /\ f.trade = q.trade /\ f.phase = q.phase
  <2> HIDE DEF q
  <2> QED BY <1>1, Zenon DEF ProbeType
<1> HIDE DEF p, q, f
<1>4. p \in ProbeType /\ p.trade = q.trade /\ p.phase = q.phase
  BY <1>1, <1>2, <1>3
<1>5. p.trade \in Notes!Visible => p.trade = probe.trade /\ p.phase = probe.phase
  BY <1>1, <1>4, NotesBounds DEF Notes!Visible
<1>6. \A w \in Notes!Visible : w # "nobody" /\ (probe.trade = w => p.trade = w) /\ (Notes!Slot(probe, w) => Notes!Slot(p, w))
  <2> TAKE w \in Notes!Visible
  <2>1. w \in Windows /\ w # "nobody"
    BY NotesBounds DEF Notes!Visible
  <2>2. probe.trade = w => p.trade = w
    BY <1>1, <1>4
  <2>3. Notes!Slot(probe, w) => Notes!Slot(p, w)
    BY <1>1, <1>2 DEF Notes!Slot
  <2> QED BY <2>1, <2>2, <2>3
<1>7. ASSUME NEW w \in Notes!Visible PROVE Settled(p, w, Among(queue))
  <2>1. Settled(probe, w, Among(queue))
    BY DEF NotesInv, Replies
  <2>2. CASE shown[w] # "trade"
    <3>1. Slotted(p, w, Among(queue))
      BY <1>6, <2>1, <2>2 DEF Settled, Slotted
    <3> QED BY <2>2, <3>1 DEF Settled
  <2>3. CASE shown[w] = "trade" /\ probe.trade = w
    <3>1. p.trade = w /\ p.phase = probe.phase
      BY <1>5, <1>6, <2>3
    <3>2. Traded(p, w, Among(queue))
      BY <2>1, <2>3, <3>1 DEF Settled, Traded
    <3> QED BY <2>3, <3>1, <3>2 DEF Settled
  <2>4. CASE shown[w] = "trade" /\ probe.trade # w
    <3>1. p.trade # w
      BY <1>5, <2>4
    <3>2. Fresh(p, w, Among(queue))
      BY <2>1, <2>4 DEF Settled, Fresh
    <3> QED BY <2>4, <3>1, <3>2 DEF Settled
  <2> QED BY <2>2, <2>3, <2>4
<1>8. ASSUME NEW h \in Windows \ Notes!Visible PROVE Away(p, h)
  <2>1. h # "nobody" /\ h \notin Notes!Visible
    BY NotesBounds
  <2>2. p.trade # h
    BY <1>1, <1>4, <2>1
  <2>3. ~(p.last = h /\ p.kind \in {"settlement", "page", "order"})
    BY <1>2, <1>3, <2>1
  <2> QED BY <2>2, <2>3 DEF Away
<1>9. Among(<<>>) = {} /\ NoDup(<<>>) /\ <<>> \in Seq(Message)
  BY DEF Among, NoDup
<1>10. Start.probe = p /\ Start.posts = <<>> /\ Start.pending = FALSE
  BY DEF Start, p
<1>11. AllSettled(Start.probe, Among(queue) \cup Among(Start.posts))
  BY <1>7, <1>9, <1>10 DEF AllSettled
<1> QED BY <1>4, <1>8, <1>9, <1>10, <1>11 DEF Sound, Posting

\* How many of the messages are a given one.
LEMMA CountOne ==
  ASSUME NEW q \in Seq(Message), NoDup(q), NEW m
  PROVE  Notes!Cardinality({i \in 1 .. Len(q) : q[i] = m}) = IF m \in Among(q) THEN 1 ELSE 0
<1> DEFINE I == {i \in 1 .. Len(q) : q[i] = m}
<1>1. Notes!Cardinality(I) = Cardinality(I)
  BY DEF Notes!Cardinality, Cardinality
<1>2. CASE m \in Among(q)
  <2>1. PICK i \in 1 .. Len(q) : q[i] = m
    BY <1>2 DEF Among
  <2>2. I = {i}
    BY <2>1 DEF NoDup
  <2>3. Cardinality({i}) = 1
    BY FS_Singleton
  <2> QED BY <1>1, <1>2, <2>2, <2>3
<1>3. CASE m \notin Among(q)
  <2>1. I = {}
    BY <1>3 DEF Among
  <2>2. Cardinality({}) = 0
    BY FS_EmptySet
  <2> QED BY <1>1, <1>3, <2>1, <2>2
<1> QED BY <1>2, <1>3

\* What posting counts for a window.
LEMMA PostedIs ==
  ASSUME NEW q \in Seq(Message), NoDup(q), Notes!Posted(q), NotesTypes
  PROVE  /\ queue' = queue \o q /\ confirms' \in [Windows -> Nat] /\ clicks' \in [Windows -> Nat]
         /\ \A w \in Windows : /\ confirms'[w] = confirms[w] + IF Answer(w) \in Among(q) THEN 1 ELSE 0
                               /\ clicks'[w] = clicks[w] + IF Click(w) \in Among(q) THEN 1 ELSE 0
<1>1. ASSUME NEW w \in Windows
      PROVE  /\ {i \in 1 .. Len(q) : q[i].window = w /\ ~q[i].click} = {i \in 1 .. Len(q) : q[i] = Answer(w)}
             /\ {i \in 1 .. Len(q) : q[i].window = w /\ q[i].click} = {i \in 1 .. Len(q) : q[i] = Click(w)}
  <2>1. ASSUME NEW i \in 1 .. Len(q)
        PROVE  /\ (q[i].window = w /\ ~q[i].click) <=> q[i] = Answer(w)
               /\ (q[i].window = w /\ q[i].click) <=> q[i] = Click(w)
    <3>1. q[i] \in Message
      OBVIOUS
    <3>2. ASSUME NEW m \in Message PROVE (m.window = w /\ ~m.click <=> m = Answer(w)) /\ (m.window = w /\ m.click <=> m = Click(w))
      BY DEF Message, Answer, Click
    <3> QED BY <3>1, <3>2
  <2> QED BY <2>1
<1> DEFINE A(w) == IF Answer(w) \in Among(q) THEN 1 ELSE 0
           B(w) == IF Click(w) \in Among(q) THEN 1 ELSE 0
<1>2. ASSUME NEW w \in Windows
      PROVE  /\ Notes!Cardinality({i \in 1 .. Len(q) : q[i].window = w /\ ~q[i].click}) = A(w)
             /\ Notes!Cardinality({i \in 1 .. Len(q) : q[i].window = w /\ q[i].click}) = B(w)
  <2>1. Notes!Cardinality({i \in 1 .. Len(q) : q[i] = Answer(w)}) = A(w)
    BY CountOne
  <2>2. Notes!Cardinality({i \in 1 .. Len(q) : q[i] = Click(w)}) = B(w)
    BY CountOne
  <2> QED BY <1>1, <2>1, <2>2
<1>3. \A w \in Windows : A(w) \in Nat /\ B(w) \in Nat
  OBVIOUS
<1> HIDE DEF A, B
<1>4. confirms' = [w \in Windows |-> confirms[w] + A(w)]
  BY <1>2 DEF Notes!Posted
<1>5. clicks' = [w \in Windows |-> clicks[w] + B(w)]
  BY <1>2 DEF Notes!Posted
<1>6. queue' = queue \o q
  BY DEF Notes!Posted
<1>7. confirms \in [Windows -> Nat] /\ clicks \in [Windows -> Nat]
  BY DEF NotesTypes
<1>8. confirms' \in [Windows -> Nat] /\ clicks' \in [Windows -> Nat]
  BY <1>3, <1>4, <1>5, <1>7
<1> QED BY <1>4, <1>5, <1>6, <1>8 DEF A, B

\* What a scan or the hook posts is kept track of.
LEMMA PostingKeeps ==
  ASSUME NotesInv, NEW r, Posting(r), Notes!Posted(r.posts), probe' = r.probe,
         UNCHANGED <<shown, loaded, checked, shows>>, startup' \in {"active", "expired", "done"}
  PROVE  /\ seen' \in [Windows -> BOOLEAN] => NotesTypes'
         /\ Waiting' /\ Alone' /\ Replies'
<1>0. NotesTypes /\ r.posts \in Seq(Message) /\ NoDup(r.posts) /\ NoDup(queue) /\ queue \in Seq(Message) /\ Among(queue) \cap Among(r.posts) = {}
  BY DEF NotesInv, Posting, Waiting, NotesTypes
<1>1. /\ queue' = queue \o r.posts /\ confirms' \in [Windows -> Nat] /\ clicks' \in [Windows -> Nat]
      /\ \A w \in Windows : /\ confirms'[w] = confirms[w] + IF Answer(w) \in Among(r.posts) THEN 1 ELSE 0
                            /\ clicks'[w] = clicks[w] + IF Click(w) \in Among(r.posts) THEN 1 ELSE 0
  BY <1>0, PostedIs
<1>2. queue' \in Seq(Message) /\ Among(queue') = Among(queue) \cup Among(r.posts) /\ NoDup(queue')
  BY <1>0, <1>1, Joined
<1>3. seen' \in [Windows -> BOOLEAN] => NotesTypes'
  BY <1>0, <1>1, <1>2 DEF NotesTypes, Posting
<1>4. Waiting'
  BY <1>2 DEF NotesInv, Waiting, Posting, Notes!Visible
<1>5. Notes!Visible' = Notes!Visible
  BY DEF Notes!Visible
<1>6. Alone'
  BY <1>5 DEF Alone, NotesInv
<1>7. ASSUME NEW w \in Notes!Visible
      PROVE  /\ Settled(probe, w, Among(queue))' /\ clicks'[w] <= 1
             /\ confirms'[w] = IF Answer(w) \in Among(queue') THEN 1 ELSE 0
  <2>0. w \in Windows /\ confirms[w] \in Nat /\ clicks[w] \in Nat /\ clicks[w] <= 1 /\ confirms[w] = IF Answer(w) \in Among(queue) THEN 1 ELSE 0
    BY <1>0 DEF Notes!Visible, NotesTypes, NotesInv, Replies
  <2>1. confirms'[w] = IF Answer(w) \in Among(queue') THEN 1 ELSE 0
    BY <1>0, <1>1, <1>2, <2>0
  <2>2. Click(w) \in Among(r.posts) => clicks[w] = 0
    BY DEF Posting
  <2>3. clicks'[w] <= 1
    BY <1>1, <2>0, <2>2
  <2>4. Settled(r.probe, w, Among(queue) \cup Among(r.posts))
    BY DEF Posting, AllSettled
  <2>5. Settled(r.probe, w, Among(queue'))
    BY <1>2, <2>4
  <2>6. clicks'[w] = 0 \/ Click(w) \in Among(queue') \/ (clicks'[w] = clicks[w])
    BY <1>1, <1>2, <2>0
  <2>7. CASE shown[w] # "trade"
    <3>1. Slotted(r.probe, w, Among(queue'))
      BY <2>5, <2>7 DEF Settled
    <3>2. clicks'[w] = 0 /\ Click(w) \notin Among(queue')
      BY <2>6, <3>1 DEF Slotted
    <3> QED BY <2>1, <2>3, <2>7, <3>1, <3>2 DEF Settled, Slotted, Notes!Slot
  <2>8. CASE shown[w] = "trade" /\ r.probe.trade = w
    <3>1. Traded(r.probe, w, Among(queue'))
      BY <2>5, <2>8 DEF Settled
    <3> QED BY <2>1, <2>3, <2>8, <3>1 DEF Settled, Traded
  <2>9. CASE shown[w] = "trade" /\ r.probe.trade # w
    <3>1. Fresh(r.probe, w, Among(queue'))
      BY <2>5, <2>9 DEF Settled
    <3>2. clicks'[w] = 0
      BY <2>6, <3>1 DEF Fresh
    <3> QED BY <2>1, <2>3, <2>9, <3>1, <3>2 DEF Settled, Fresh
  <2> QED BY <2>7, <2>8, <2>9
<1>8. Replies'
  BY <1>5, <1>7 DEF Replies
<1> QED BY <1>3, <1>4, <1>6, <1>8

\* A scan.
LEMMA NotesScan ==
  ASSUME NotesInv, NEW last \in BOOLEAN, Notes!Scan(last)
  PROVE  NotesInv'
<1>0. NotesTypes /\ Alone
  BY DEF NotesInv
<1>1. PICK order \in Notes!SetToSeqs(Notes!Visible) :
        /\ probe' = Notes!Scanned(order).probe /\ Notes!Posted(Notes!Scanned(order).posts)
        /\ startup' = IF last /\ startup = "active" /\ ~Notes!Scanned(order).pending THEN "done" ELSE startup
  BY Zenon DEF Notes!Scan
<1> DEFINE r == Notes!Scanned(order)
<1>2. Sound(r)
  <2>1. PICK n \in Nat : order \in [1 .. n -> Notes!Visible]
    BY Orders
  <2>2. Sound(Start)
    BY StartSound
  <2> QED BY <1>0, <2>1, <2>2, ScanSound
<1> HIDE DEF r
<1>3. UNCHANGED <<shown, loaded, checked, shows>> /\ seen' = [w \in Windows |-> shown[w] = "hidden"]
  BY DEF Notes!Scan
<1>4. probe' = r.probe /\ Notes!Posted(r.posts) /\ startup' \in {"active", "expired", "done"}
  BY <1>0, <1>1 DEF NotesTypes, r
<1>5. seen' \in [Windows -> BOOLEAN] /\ \A w \in Windows : seen'[w] = (shown[w] = "hidden")
  BY <1>3, Zenon
<1>6. (seen' \in [Windows -> BOOLEAN] => NotesTypes') /\ Waiting' /\ Alone' /\ Replies'
  <2>1. Posting(r)
    BY <1>2 DEF Sound
  <2> QED BY <1>3, <1>4, <2>1, PostingKeeps
<1>7. Forgotten'
  <2>1. ASSUME NEW w \in Windows PROVE (shown'[w] # "hidden" => ~seen'[w]) /\ (shown'[w] = "hidden" /\ seen'[w] => Away(probe', w))
    <3>1. shown'[w] # "hidden" => ~seen'[w]
      BY <1>3, <1>5
    <3>2. shown'[w] = "hidden" => Away(r.probe, w)
      BY <1>2, <1>3 DEF Sound, Notes!Visible
    <3> QED BY <1>4, <3>1, <3>2
  <2> QED BY <2>1 DEF Forgotten, Away
<1> QED BY <1>5, <1>6, <1>7 DEF NotesInv

\* The hook of the window.
LEMMA NotesHook ==
  ASSUME NotesInv, NEW w \in Windows, Notes!Hook(w)
  PROVE  NotesInv'
<1>0. NotesTypes /\ Alone /\ w \in Notes!Visible /\ probe \in ProbeType /\ queue \in Seq(Message)
  BY DEF NotesInv, NotesTypes, Notes!Hook, Notes!Visible
<1> DEFINE c == Notes!confirm_document(probe, w, FALSE)
           z == [probe |-> probe, posts |-> <<>>, pending |-> FALSE]
           r == More(z, w, FALSE)
<1>1. probe' = c.probe /\ Notes!Posted(c.posts) /\ UNCHANGED <<shown, loaded, checked, shows, seen, startup>>
  BY Zenon DEF Notes!Hook
<1>2. Posting(z)
  <2>1. Among(<<>>) = {} /\ NoDup(<<>>) /\ <<>> \in Seq(Message)
    BY DEF Among, NoDup
  <2>2. AllSettled(probe, Among(queue))
    BY DEF NotesInv, Replies, AllSettled
  <2>3. z.probe = probe /\ z.posts = <<>> /\ z.pending = FALSE
    OBVIOUS
  <2> HIDE DEF z
  <2>4. AllSettled(z.probe, Among(queue) \cup Among(z.posts))
    BY <2>1, <2>2, <2>3
  <2> QED BY <1>0, <2>1, <2>3, <2>4 DEF Posting
<1>3. Posting(r) /\ StaysAway(z.probe, r.probe)
  <2>1. FALSE \in BOOLEAN
    OBVIOUS
  <2> HIDE DEF z
  <2> QED BY <1>0, <1>2, <2>1, MorePosting, Zenon
<1>4. r.probe = c.probe /\ r.posts = c.posts /\ z.probe = probe
  <2>1. Waits(c, probe) \/ Slots(c, probe, w) \/ Takes(c, probe, w)
    <3>1. FALSE \in BOOLEAN
      OBVIOUS
    <3> QED BY <1>0, <3>1, ConfirmCases, Zenon
  <2>2. z.probe = probe /\ z.posts = <<>>
    OBVIOUS
  <2>3. r.probe = c.probe /\ r.posts = <<>> \o c.posts
    BY <2>2 DEF More
  <2> HIDE DEF r, c, z
  <2>4. c.posts = <<>> \/ \E m : c.posts = <<m>>
    BY <2>1 DEF Waits, Slots, Takes
  <2>5. <<>> \o c.posts = c.posts
    BY <2>4
  <2> QED BY <2>2, <2>3, <2>5
<1> HIDE DEF r, c, z
<1>5. (seen' \in [Windows -> BOOLEAN] => NotesTypes') /\ Waiting' /\ Alone' /\ Replies'
  <2>1. startup' \in {"active", "expired", "done"} /\ probe' = r.probe /\ Notes!Posted(r.posts) /\ UNCHANGED <<shown, loaded, checked, shows>>
    BY <1>0, <1>1, <1>4 DEF NotesTypes
  <2> QED BY <1>3, <2>1, PostingKeeps
<1>6. seen' \in [Windows -> BOOLEAN]
  BY <1>0, <1>1 DEF NotesTypes
<1>7. Forgotten'
  <2>1. ASSUME NEW v \in Windows PROVE (shown'[v] # "hidden" => ~seen'[v]) /\ (shown'[v] = "hidden" /\ seen'[v] => Away(probe', v))
    <3>1. (shown[v] # "hidden" => ~seen[v]) /\ (shown[v] = "hidden" /\ seen[v] => Away(probe, v))
      BY DEF NotesInv, Forgotten
    <3>2. shown[v] = "hidden" => (Away(probe, v) => Away(r.probe, v))
      BY <1>3, <1>4 DEF StaysAway, Notes!Visible
    <3> QED BY <1>1, <1>4, <3>1, <3>2
  <2> QED BY <2>1 DEF Forgotten, Away
<1> QED BY <1>5, <1>6, <1>7 DEF NotesInv

\* A window that is shown has nothing under way.
LEMMA NotesShow ==
  ASSUME NotesInv, NEW w \in Windows, NEW k \in NoteKinds, Notes!Show(w, k)
  PROVE  NotesInv'
<1>0. NotesTypes /\ Forgotten /\ Waiting /\ Alone /\ Replies /\ MaxShows \in Nat
  BY NotesBounds DEF NotesInv
<1>1. /\ shown[w] = "hidden" /\ seen[w] /\ shown' = [shown EXCEPT ![w] = k] /\ loaded' = [loaded EXCEPT ![w] = FALSE]
      /\ confirms' = [confirms EXCEPT ![w] = 0] /\ clicks' = [clicks EXCEPT ![w] = 0]
      /\ shows < MaxShows /\ shows' = shows + 1 /\ seen' = [seen EXCEPT ![w] = FALSE] /\ UNCHANGED <<queue, startup, probe>>
      /\ k # "trade" => \A v \in Notes!Visible : shown[v] = "trade"
  BY DEF Notes!Show
<1>2. PICK b \in BOOLEAN : checked' = [checked EXCEPT ![w] = (k = "trade" /\ b)]
  BY DEF Notes!Show
<1>3. NotesTypes'
  <2>1. shown' \in [Windows -> NoteKinds \cup {"hidden"}] /\ loaded' \in [Windows -> BOOLEAN] /\ seen' \in [Windows -> BOOLEAN]
    BY <1>0, <1>1, Zenon DEF NotesTypes
  <2>2. checked' \in [Windows -> BOOLEAN]
    BY <1>0, <1>2, Zenon DEF NotesTypes
  <2>3. confirms' \in [Windows -> Nat] /\ clicks' \in [Windows -> Nat] /\ shows' \in 0 .. MaxShows
    BY <1>0, <1>1 DEF NotesTypes
  <2> QED BY <1>0, <1>1, <2>1, <2>2, <2>3 DEF NotesTypes
<1>4. /\ shown'[w] = k /\ k # "hidden" /\ seen'[w] = FALSE /\ confirms'[w] = 0 /\ clicks'[w] = 0
      /\ \A v \in Windows : v # w => shown'[v] = shown[v] /\ seen'[v] = seen[v] /\ confirms'[v] = confirms[v] /\ clicks'[v] = clicks[v]
  BY <1>0, <1>1 DEF NotesTypes, NoteKinds
<1>5. \A v \in Windows : v # w => checked'[v] = checked[v]
  BY <1>0, <1>2 DEF NotesTypes
<1>6. Forgotten'
  <2>1. ASSUME NEW v \in Windows PROVE (shown'[v] # "hidden" => ~seen'[v]) /\ (shown'[v] = "hidden" /\ seen'[v] => Away(probe, v))
    BY <1>0, <1>4 DEF Forgotten
  <2> QED BY <1>1, <2>1 DEF Forgotten, Away
<1>7. \A m \in Among(queue) : m.window \in Windows /\ m.window # w
  <2>1. \A m \in Among(queue) : m \in Message
    BY <1>0 DEF Among, NotesTypes
  <2>2. \A m \in Message : m.window \in Windows
    BY DEF Message
  <2>3. \A m \in Among(queue) : m.window # w
    BY <1>0, <1>1 DEF Waiting
  <2> QED BY <2>1, <2>2, <2>3
<1>8. Waiting'
  BY <1>0, <1>1, <1>4, <1>7 DEF Waiting
<1>9. Notes!Visible' = Notes!Visible \cup {w} /\ w \notin Notes!Visible /\ \A v \in Notes!Visible : v \in Windows
  BY <1>1, <1>4 DEF Notes!Visible
<1>10. Alone'
  BY <1>0, <1>1, <1>4, <1>9 DEF Alone
<1>11. Click(w) \notin Among(queue) /\ Answer(w) \notin Among(queue)
  BY <1>7, Different
<1>12. Replies'
  <2>1. ASSUME NEW v \in Notes!Visible
        PROVE  Settled(probe, v, Among(queue))' /\ clicks'[v] <= 1 /\ confirms'[v] = IF Answer(v) \in Among(queue') THEN 1 ELSE 0
    <3>0. v \in Windows /\ v # w
      BY <1>9
    <3>1. Settled(probe, v, Among(queue)) /\ clicks[v] <= 1 /\ confirms[v] = IF Answer(v) \in Among(queue) THEN 1 ELSE 0
      BY <1>0 DEF Replies
    <3>2. shown'[v] = shown[v] /\ clicks'[v] = clicks[v] /\ confirms'[v] = confirms[v] /\ checked'[v] = checked[v] /\ queue' = queue /\ probe' = probe
      BY <1>1, <1>4, <1>5, <3>0
    <3>3. Settled(probe, v, Among(queue))'
      BY <3>1, <3>2 DEF Settled, Fresh, Traded, Slotted, Notes!Slot
    <3> QED BY <3>1, <3>2, <3>3
  <2>2. Settled(probe, w, Among(queue))' /\ clicks'[w] <= 1 /\ confirms'[w] = IF Answer(w) \in Among(queue') THEN 1 ELSE 0
    <3>1. probe.trade # w
      BY <1>0, <1>1 DEF Forgotten, Away
    <3>2. Settled(probe, w, Among(queue))'
      BY <1>1, <1>4, <1>11, <3>1 DEF Settled, Fresh, Slotted
    <3> QED BY <1>1, <1>4, <1>11, <3>2
  <2> QED BY <1>9, <2>1, <2>2 DEF Replies
<1> QED BY <1>3, <1>6, <1>8, <1>10, <1>12 DEF NotesInv

\* The text of a window arrives, or the startup expires.
LEMMA NotesIdle ==
  ASSUME NotesInv, (\E w \in Windows : Notes!Load(w)) \/ Notes!Expire \/ UNCHANGED notesVars
  PROVE  NotesInv'
<1>1. UNCHANGED <<shown, checked, confirms, clicks, shows, seen, queue, probe>>
  BY DEF Notes!Load, Notes!Expire, notesVars
<1>2. loaded' \in [Windows -> BOOLEAN] /\ startup' \in {"active", "expired", "done"}
  <2>1. loaded \in [Windows -> BOOLEAN] /\ startup \in {"active", "expired", "done"}
    BY DEF NotesInv, NotesTypes
  <2> QED BY <2>1 DEF Notes!Load, Notes!Expire, notesVars
<1>3. NotesTypes'
  BY <1>1, <1>2 DEF NotesInv, NotesTypes
<1>4. Forgotten' /\ Waiting' /\ Alone'
  BY <1>1 DEF NotesInv, Forgotten, Away, Waiting, Alone, Notes!Visible
<1>5. Replies'
  BY <1>1 DEF NotesInv, Replies, Settled, Fresh, Traded, Slotted, Notes!Slot, Notes!Visible
<1> QED BY <1>3, <1>4, <1>5 DEF NotesInv

\* A click that is handled.
LEMMA NotesClicked ==
  ASSUME NotesInv, Notes!Deliver, Head(queue).click
  PROVE  NotesInv'
<1>0. NotesTypes /\ Forgotten /\ Waiting /\ Alone /\ Replies /\ queue \in Seq(Message) /\ queue # <<>> /\ NoDup(queue)
  BY DEF NotesInv, NotesTypes, Waiting, Notes!Deliver
<1> DEFINE h == Head(queue)
           w == h.window
<1>1. queue' = Tail(queue) /\ checked' = [checked EXCEPT ![w] = ~checked[w]]
      /\ UNCHANGED <<shown, loaded, confirms, clicks, shows, seen, startup, probe>>
  BY DEF Notes!Deliver
<1>2. /\ queue' \in Seq(Message) /\ NoDup(queue') /\ h \in Message /\ h \in Among(queue)
      /\ Among(queue') = Among(queue) \ {h}
  BY <1>0, <1>1, TakenOne
<1>3. h = Click(w) /\ w \in Windows /\ h.click
  BY <1>2 DEF Message, Click
<1> HIDE DEF h
<1>4. w \in Notes!Visible
  BY <1>0, <1>2, <1>3 DEF Waiting, Notes!Visible
<1> HIDE DEF w
<1>5. checked' \in [Windows -> BOOLEAN]
  BY <1>0, <1>1, <1>3, Zenon DEF NotesTypes
<1>6. checked'[w] = ~checked[w] /\ checked[w] \in BOOLEAN /\ \A v \in Windows : v # w => checked'[v] = checked[v]
  <2>1. checked \in [Windows -> BOOLEAN]
    BY <1>0 DEF NotesTypes
  <2> QED BY <1>1, <1>3, <2>1
<1>7. NotesTypes' /\ Forgotten' /\ Waiting' /\ Alone'
  <2>1. NotesTypes'
    BY <1>0, <1>1, <1>2, <1>5 DEF NotesTypes
  <2>2. Forgotten' /\ Alone'
    BY <1>0, <1>1 DEF Forgotten, Away, Alone, Notes!Visible
  <2>3. Waiting'
    BY <1>0, <1>1, <1>2 DEF Waiting
  <2> QED BY <2>1, <2>2, <2>3
<1>8. Notes!Visible' = Notes!Visible /\ \A v \in Notes!Visible : v \in Windows
  BY <1>1 DEF Notes!Visible
<1>9. ASSUME NEW v \in Notes!Visible
      PROVE  Settled(probe, v, Among(queue))' /\ clicks'[v] <= 1 /\ confirms'[v] = IF Answer(v) \in Among(queue') THEN 1 ELSE 0
  <2>0. v \in Windows
    BY <1>8
  <2>1. Settled(probe, v, Among(queue)) /\ clicks[v] <= 1 /\ confirms[v] = IF Answer(v) \in Among(queue) THEN 1 ELSE 0
    BY <1>0 DEF Replies
  <2>2. Answer(v) \in Among(queue') <=> Answer(v) \in Among(queue)
    BY <1>2, <1>3, <2>0, Different
  <2>3. CASE v # w
    <3>1. Click(v) \in Among(queue') <=> Click(v) \in Among(queue)
      BY <1>2, <1>3, <2>0, <2>3, Different
    <3>2. checked'[v] = checked[v]
      BY <1>6, <2>0, <2>3
    <3>3. Settled(probe, v, Among(queue))'
      BY <1>1, <2>1, <2>2, <3>1, <3>2 DEF Settled, Fresh, Traded, Slotted, Notes!Slot
    <3> QED BY <1>1, <2>1, <2>2, <3>3
  <2>4. CASE v = w
    <3>1. Click(v) \in Among(queue) /\ Click(v) \notin Among(queue')
      BY <1>2, <1>3, <2>4
    <3>2. shown[v] = "trade" /\ probe.trade = v
      BY <2>1, <3>1 DEF Settled, Fresh, Slotted
    <3>3. probe.phase = 1 /\ Answer(v) \notin Among(queue) /\ ~checked[v]
      BY <2>1, <3>1, <3>2 DEF Settled, Traded
    <3>4. checked'[v]
      BY <1>6, <2>4, <3>3
    <3>5. Settled(probe, v, Among(queue))'
      BY <1>1, <2>2, <3>1, <3>2, <3>3, <3>4 DEF Settled, Traded
    <3> QED BY <1>1, <2>1, <2>2, <3>5
  <2> QED BY <2>3, <2>4
<1>10. Replies'
  BY <1>8, <1>9 DEF Replies
<1> QED BY <1>7, <1>10 DEF NotesInv

\* An answer that is handled: the window closes, and nothing else waits for it.
LEMMA NotesClosed ==
  ASSUME NotesInv, Notes!Deliver, ~Head(queue).click
  PROVE  NotesInv'
<1>0. NotesTypes /\ Forgotten /\ Waiting /\ Alone /\ Replies /\ queue \in Seq(Message) /\ queue # <<>> /\ NoDup(queue)
  BY DEF NotesInv, NotesTypes, Waiting, Notes!Deliver
<1> DEFINE h == Head(queue)
           w == h.window
<1>1. queue' = Tail(queue) /\ shown' = [shown EXCEPT ![w] = "hidden"]
      /\ UNCHANGED <<checked, loaded, confirms, clicks, shows, seen, startup, probe>>
  BY DEF Notes!Deliver
<1>2. /\ queue' \in Seq(Message) /\ NoDup(queue') /\ h \in Message /\ h \in Among(queue)
      /\ Among(queue') = Among(queue) \ {h}
  BY <1>0, <1>1, TakenOne
<1>3. h = Answer(w) /\ w \in Windows /\ ~h.click
  BY <1>2 DEF Message, Answer
<1> HIDE DEF h
<1>4. w \in Notes!Visible /\ shown[w] # "hidden"
  BY <1>0, <1>2, <1>3 DEF Waiting, Notes!Visible
<1> HIDE DEF w
<1>5. shown' \in [Windows -> NoteKinds \cup {"hidden"}] /\ shown'[w] = "hidden" /\ \A v \in Windows : v # w => shown'[v] = shown[v]
  BY <1>0, <1>1, <1>3 DEF NotesTypes
<1>6. Click(w) \notin Among(queue)
  <2>1. Settled(probe, w, Among(queue))
    BY <1>0, <1>4 DEF Replies
  <2>2. Answer(w) \in Among(queue)
    BY <1>2, <1>3
  <2> QED BY <2>1, <2>2 DEF Settled, Fresh, Traded, Slotted
<1>7. NotesTypes'
  BY <1>0, <1>1, <1>2, <1>5 DEF NotesTypes
<1>8. Forgotten'
  <2>1. ASSUME NEW v \in Windows PROVE (shown'[v] # "hidden" => ~seen[v]) /\ (shown'[v] = "hidden" /\ seen[v] => Away(probe, v))
    <3>1. (shown[v] # "hidden" => ~seen[v]) /\ (shown[v] = "hidden" /\ seen[v] => Away(probe, v))
      BY <1>0 DEF Forgotten
    <3> QED BY <1>4, <1>5, <3>1
  <2> QED BY <1>1, <2>1 DEF Forgotten, Away
<1>9. Notes!Visible' = Notes!Visible \ {w} /\ \A v \in Notes!Visible : v \in Windows
  BY <1>5 DEF Notes!Visible
<1>10. Alone'
  BY <1>0, <1>5, <1>9 DEF Alone
<1>11. Waiting'
  <2>1. ASSUME NEW m \in Among(queue') PROVE shown'[m.window] # "hidden"
    <3>1. m \in Message /\ m \in Among(queue) /\ m # Answer(w) /\ m # Click(w)
      <4>1. m \in Among(queue) /\ m # Answer(w) /\ m # Click(w)
        BY <1>2, <1>3, <1>6
      <4> QED BY <1>0, <4>1 DEF Among
    <3>2. m.window # w /\ m.window \in Windows
      BY <3>1 DEF Message, Answer, Click
    <3> QED BY <1>0, <1>5, <3>1, <3>2 DEF Waiting
  <2> QED BY <1>2, <2>1 DEF Waiting
<1>12. ASSUME NEW v \in Notes!Visible \ {w}
       PROVE  Settled(probe, v, Among(queue))' /\ clicks'[v] <= 1 /\ confirms'[v] = IF Answer(v) \in Among(queue') THEN 1 ELSE 0
  <2>0. v \in Windows /\ v # w
    BY <1>9
  <2>1. Settled(probe, v, Among(queue)) /\ clicks[v] <= 1 /\ confirms[v] = IF Answer(v) \in Among(queue) THEN 1 ELSE 0
    BY <1>0 DEF Replies
  <2>2. (Answer(v) \in Among(queue') <=> Answer(v) \in Among(queue)) /\ (Click(v) \in Among(queue') <=> Click(v) \in Among(queue))
    BY <1>2, <1>3, <2>0, Different
  <2>3. shown'[v] = shown[v]
    BY <1>5, <2>0
  <2>4. Settled(probe, v, Among(queue))'
    BY <1>1, <2>1, <2>2, <2>3 DEF Settled, Fresh, Traded, Slotted, Notes!Slot
  <2> QED BY <1>1, <2>1, <2>2, <2>4
<1>13. Replies'
  BY <1>9, <1>12 DEF Replies
<1> QED BY <1>7, <1>8, <1>10, <1>11, <1>13 DEF NotesInv

\* At the start nothing is shown and nothing waits.
LEMMA NotesInit ==
  ASSUME Notes!Init
  PROVE  NotesInv
<1>0. shown = [w \in Windows |-> "hidden"] /\ seen = [w \in Windows |-> TRUE] /\ queue = <<>> /\ Notes!Visible = {}
      /\ probe = [last |-> "nobody", kind |-> "none", trade |-> "nobody", phase |-> 0, handled |-> 0]
  BY DEF Notes!Init, Notes!Visible, Notes!NewProbe, Notes!Nobody
<1>1. Among(<<>>) = {} /\ NoDup(<<>>) /\ <<>> \in Seq(Message)
  BY DEF Among, NoDup
<1>2. probe \in ProbeType /\ probe.trade = "nobody" /\ probe.kind = "none"
  BY <1>0, NotesBounds DEF ProbeType
<1>3. shows \in 0 .. MaxShows /\ confirms \in [Windows -> Nat] /\ clicks \in [Windows -> Nat]
  BY NotesBounds DEF Notes!Init
<1>4. loaded \in [Windows -> BOOLEAN] /\ checked \in [Windows -> BOOLEAN] /\ seen \in [Windows -> BOOLEAN]
  BY Zenon DEF Notes!Init
<1>5. NotesTypes
  BY <1>0, <1>1, <1>2, <1>3, <1>4 DEF NotesTypes, Notes!Init
<1>6. Forgotten /\ Waiting /\ Alone /\ Replies
  <2>1. Forgotten
    BY <1>0, <1>2, NotesBounds DEF Forgotten, Away
  <2>2. Waiting /\ Alone /\ Replies
    BY <1>0, <1>1 DEF Waiting, Alone, Replies
  <2> QED BY <2>1, <2>2
<1> QED BY <1>5, <1>6 DEF NotesInv

\* The probe's memory and the messages under way agree at every moment, for any finite set of windows and any number of displays (startup.c).
THEOREM NotesInvariant == Spec => []NotesInv
<1>1. Init => NotesInv
  BY NotesInit DEF Init
<1>2. NotesInv /\ [Next]_vars => NotesInv'
  <2> SUFFICES ASSUME NotesInv, [Next]_vars PROVE NotesInv'
    OBVIOUS
  <2>1. CASE Notes!Next
    <3>1. CASE \E w \in Windows, k \in {"terms", "settlement", "page", "trade", "order"} : Notes!Show(w, k)
      BY <3>1, NotesShow DEF NoteKinds
    <3>2. CASE \E w \in Windows : Notes!Load(w)
      BY <3>2, NotesIdle
    <3>3. CASE \E w \in Windows : Notes!Hook(w)
      BY <3>3, NotesHook
    <3>4. CASE Notes!Deliver
      BY <3>4, NotesClicked, NotesClosed
    <3>5. CASE Notes!Expire
      BY <3>5, NotesIdle
    <3>6. CASE \E last \in BOOLEAN : Notes!Scan(last)
      BY <3>6, NotesScan
    <3> QED BY <2>1, <3>1, <3>2, <3>3, <3>4, <3>5, <3>6, Zenon DEF Notes!Next
  <2>2. CASE UNCHANGED notesVars
    BY <2>2, NotesIdle
  <2>3. Notes!Next \/ UNCHANGED notesVars
    BY Zenon DEF Next, vars, notesVars
  <2> QED BY <2>1, <2>2, <2>3
<1> QED BY <1>1, <1>2, PTL DEF Spec

\* Each display of a notice is answered at most once, however many scans and hooks run before its
\* message is handled, and a trade notice only with its box checked (startup.c confirm_document and
\* trade_notice).
THEOREM NoticesAreAnswered == Spec => []NoticesAnswered
<1>1. NotesInv => NoticesAnswered
  <2> SUFFICES ASSUME NotesInv PROVE NoticesAnswered
    OBVIOUS
  <2>1. Notes!OncePerDisplay
    <3>1. ASSUME NEW w \in Notes!Visible PROVE confirms[w] <= 1 /\ clicks[w] <= 1
      BY DEF NotesInv, Replies
    <3> QED BY <3>1 DEF Notes!OncePerDisplay
  <2>2. Notes!TradeChecked
    <3>1. ASSUME NEW i \in 1 .. Len(queue), ~queue[i].click, shown[queue[i].window] = "trade"
          PROVE  /\ checked[queue[i].window]
                 /\ \A j \in 1 .. i : ~(queue[j].click /\ queue[j].window = queue[i].window)
      <4> DEFINE w == queue[i].window
      <4>0. queue \in Seq(Message) /\ Len(queue) \in Nat
        BY DEF NotesInv, NotesTypes
      <4>1. queue[i] = Answer(w) /\ w \in Windows /\ queue[i] \in Among(queue)
        <5>1. queue[i] \in Message /\ queue[i] \in Among(queue)
          BY <4>0 DEF Among
        <5>2. \A m \in Message : ~m.click => m = Answer(m.window) /\ m.window \in Windows
          BY DEF Message, Answer
        <5> QED BY <3>1, <5>1, <5>2
      <4>2. w \in Notes!Visible
        BY <3>1, <4>1 DEF Notes!Visible
      <4>3. Settled(probe, w, Among(queue))
        BY <4>2 DEF NotesInv, Replies
      <4>4. Answer(w) \in Among(queue) /\ shown[w] = "trade"
        BY <3>1, <4>1
      <4> HIDE DEF w
      <4>5. checked[w] /\ Click(w) \notin Among(queue)
        BY <4>3, <4>4 DEF Settled, Fresh, Traded
      <4>6. ASSUME NEW j \in 1 .. i, queue[j].click, queue[j].window = w PROVE FALSE
        <5>1. j \in 1 .. Len(queue)
          BY <4>0
        <5>2. queue[j] \in Message /\ queue[j] \in Among(queue)
          BY <4>0, <5>1 DEF Among
        <5>3. queue[j] = Click(w)
          BY <4>6, <5>2 DEF Message, Click
        <5> QED BY <4>5, <5>2, <5>3
      <4> QED BY <4>5, <4>6 DEF w
    <3> QED BY <3>1 DEF Notes!TradeChecked
  <2> QED BY <2>1, <2>2 DEF NoticesAnswered
<1> QED BY <1>1, NotesInvariant, PTL

-----------------------------------------------------------------------------
(***************************************************************************)
(* The screen, and all parts together.                                     *)
(***************************************************************************)

\* The screen's invariant holds in every state, whichever part moves.
THEOREM ScreenInvariant == Spec => []ScreenInv
<1>1. Init => ScreenInv
  BY ScreenBegins DEF Init
<1>2. ScreenInv /\ [Next]_vars => ScreenInv'
  BY ScreenMoves, ScreenStutters DEF Next, vars
<1> QED BY <1>1, <1>2, PTL DEF Spec

\* Every variable of the four parts of MCTerminal stays in its domain, and the documents of a
\* session stay within the budget, for every bound (startup.c handled_count).
THEOREM TypesHold == Spec => []TypesOK
<1>1. LinkInv => Link!TypeOK
  BY LinkTypesAre DEF LinkInv
<1>2. NotesInv => Notes!TypeOK
  BY Zenon DEF NotesInv, NotesTypes, ProbeType, NoteKinds, Notes!TypeOK, Notes!Nobody
<1>3. ScreenInv => Screen!TypeOK
  BY ScreenTyped DEF ScreenInv
<1>4. DeskInv => Desk!TypeOK
  BY DEF DeskInv
<1>5. LinkInv /\ NotesInv /\ ScreenInv /\ DeskInv => TypesOK
  BY <1>1, <1>2, <1>3, <1>4 DEF TypesOK
<1> QED BY <1>5, LinkInvariant, NotesInvariant, ScreenInvariant, DeskInvariant, PTL

=============================================================================
