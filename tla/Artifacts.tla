----------------------------- MODULE Artifacts -----------------------------
(***************************************************************************)
(* The artifact store (artifacts.py): one directory per operation for the  *)
(* exported tables and screenshots, within a budget of bytes and of free   *)
(* disk, shared by the worker (terminal/executor.py) and the service       *)
(* (service.py) under a file lock.                                         *)
(*                                                                         *)
(* The lock covers create, finish and clean, not the exports that grow the *)
(* worker's own directory: the sizes a clean of the service works with may *)
(* be stale.  A crash at any step leaves a directory without its record, a *)
(* half deleted one, or one that is active for ever.                       *)
(***************************************************************************)
EXTENDS Integers, Sequences, FiniteSetsExt

CONSTANTS
  MaxDirs,     \* bound on the directories ever created
  MaxSize,     \* bound on the bytes of one directory
  Maximum,     \* artifacts.max_total_bytes
  Disk,        \* what the artifacts could use of the disk
  MinimumFree, \* artifacts.min_free_bytes
  Reserve      \* what create() reserves: one mebibyte, at most Maximum

\* What the constants must be.
Constants ==
  /\ {MaxDirs, MaxSize, Maximum, Disk, MinimumFree, Reserve} \subseteq Nat
  /\ Reserve <= Maximum

VARIABLES
  dirs,      \* the directories in order of creation: state of the record, and bytes
  holder,    \* who holds the lock: "worker", "service" or "nobody"
  call,      \* the locked call in progress: what it is, what is left of its entries
  current,   \* the directory of the worker's operation, 0 if none
  unknown    \* directories of operations whose effect is unknown

vars == <<dirs, holder, call, current, unknown>>

Dir == 1..MaxDirs
\* "bare": made but not recorded; "ruin": partly deleted, the record first; neither is an
\* entry of the store any more, and both use the disk.
States == {"bare", "active", "ended", "protected", "ruin", "gone"}
Recorded(ds) == {d \in DOMAIN ds : ds[d].state \in {"active", "ended", "protected"}}

\* The bytes of the directories S.
Bytes(ds, S) == MapThenSumSet(LAMBDA d : ds[d].size, S)

NoCall == [kind |-> "none", todo |-> {}, total |-> 0, free |-> 0, reserve |-> 0]

Init ==
  /\ dirs = <<>> /\ holder = "nobody" /\ call = NoCall
  /\ current = 0 /\ unknown = {}

\* _entries: every recorded directory with its size at this moment.
Entries(ds) == {[dir |-> d, state |-> ds[d].state, size |-> ds[d].size] : d \in Recorded(ds)}

\* Mutant of First: the newest directory comes first.
FirstNewest(e, todo) == e \in todo /\ \A f \in todo : f.dir <= e.dir

\* The entries are sorted by the time of creation: the oldest one that is left comes first.
First(e, todo) == e \in todo /\ \A f \in todo : e.dir <= f.dir

\* The head of _ensure: entries, total and free are read once.
Scan(kind, ds, reserve) ==
  [kind |-> kind, todo |-> Entries(ds), reserve |-> reserve,
   total |-> Bytes(ds, Recorded(ds)), free |-> Disk - Bytes(ds, DOMAIN ds)]

Enough(c) == c.total + c.reserve <= Maximum /\ c.free - c.reserve >= MinimumFree

Unlock == holder' = "nobody" /\ call' = NoCall

----------------------------------------------------------------------------
\* clean, by the worker around an export or a screenshot, by the service's maintenance.
Clean ==
  /\ holder = "nobody"
  /\ \E who \in {"worker", "service"} : holder' = who
  /\ call' = Scan("clean", dirs, 0)
  /\ UNCHANGED <<dirs, current, unknown>>

\* create, up to the loop of _ensure.
Create ==
  /\ holder = "nobody" /\ current = 0 /\ Len(dirs) < MaxDirs
  /\ holder' = "worker" /\ call' = Scan("create", dirs, Reserve)
  /\ UNCHANGED <<dirs, current, unknown>>

\* finish: the record becomes protected or ended, or the directory is removed.
FinalState(keep, protect) == IF protect THEN "protected" ELSE IF keep THEN "ended" ELSE "gone"

\* finish(keep, protect), up to the loop of _ensure.  execute() protects what is unknown;
\* a poisoned client protects as well.
Finish ==
  /\ holder = "nobody" /\ current # 0
  /\ \E keep, poisoned \in BOOLEAN :
       LET state == FinalState(keep, current \in unknown \/ poisoned) IN
       dirs' = [dirs EXCEPT ![current] = [state |-> state, size |-> IF state = "gone" THEN 0 ELSE @.size]]
  /\ holder' = "worker" /\ call' = Scan("finish", dirs', 0)
  /\ current' = 0
  /\ UNCHANGED unknown

Deletable(state) == state = "ended"

\* The counters after the deletion of an entry.
Freed(c, e) == [c EXCEPT !.todo = @ \ {e}, !.total = @ - e.size, !.free = @ + e.size]

\* One round of _ensure's loop.
Round ==
  /\ holder # "nobody" /\ ~Enough(call)
  /\ \E e \in call.todo :
       /\ First(e, call.todo)
       /\ IF Deletable(e.state)
          THEN /\ dirs' = [dirs EXCEPT ![e.dir] = [state |-> "gone", size |-> 0]]
               /\ call' = Freed(call, e)
          ELSE /\ call' = [call EXCEPT !.todo = @ \ {e}]
               /\ UNCHANGED dirs
  /\ UNCHANGED <<holder, current, unknown>>

\* _ensure raises STORAGE_UNAVAILABLE.
Refuse ==
  /\ holder # "nobody" /\ ~Enough(call) /\ call.todo = {}
  /\ Unlock
  /\ UNCHANGED <<dirs, current, unknown>>

\* _ensure returns; create then makes and records the directory.
Succeed ==
  /\ holder # "nobody" /\ Enough(call)
  /\ IF call.kind = "create"
     THEN /\ dirs' = Append(dirs, [state |-> "active", size |-> 0])
          /\ current' = Len(dirs) + 1
     ELSE UNCHANGED <<dirs, current>>
  /\ Unlock
  /\ UNCHANGED unknown

\* native.export and cfb-capture: the worker fills its directory, outside the lock.
Export ==
  /\ current # 0 /\ holder # "worker"
  /\ dirs[current].size < MaxSize /\ Bytes(dirs, DOMAIN dirs) < Disk
  /\ dirs' = [dirs EXCEPT ![current].size = @ + 1]
  /\ UNCHANGED <<holder, call, current, unknown>>

\* Steps.save(effect="unknown").
BecomesUnknown ==
  /\ current # 0 /\ holder # "worker"
  /\ unknown' = unknown \cup {current}
  /\ UNCHANGED <<dirs, holder, call, current>>

\* The container stops: both processes end and the lock is free.  In the middle of a
\* deletion, by _ensure or by finish, or between mkdir and the record, a directory is
\* left without its record.
Crash ==
  /\ Unlock
  /\ current' = 0
  /\ \/ UNCHANGED dirs
     \/ /\ holder # "nobody" /\ ~Enough(call)
        /\ \E e \in call.todo : /\ First(e, call.todo) /\ Deletable(e.state)
                              /\ dirs' = [dirs EXCEPT ![e.dir].state = "ruin"]
     \/ /\ call.kind = "create" /\ Enough(call)
        /\ dirs' = Append(dirs, [state |-> "bare", size |-> 0])
     \/ /\ current # 0 /\ current \notin unknown /\ holder = "nobody"
        /\ dirs' = [dirs EXCEPT ![current].state = "ruin"]
  /\ UNCHANGED unknown

Next == Clean \/ Create \/ Finish \/ Round \/ Refuse \/ Succeed \/ Export \/ BecomesUnknown \/ Crash

Spec == Init /\ [][Next]_vars

----------------------------------------------------------------------------
\* Every variable stays in its domain.
TypeOK ==
  /\ dirs \in Seq([state : States, size : 0..MaxSize]) /\ Len(dirs) <= MaxDirs
  /\ holder \in {"nobody", "worker", "service"}
  /\ call.kind \in {"none", "clean", "create", "finish"}
  /\ call.total \in Nat /\ call.free \in Nat /\ call.reserve \in {0, Reserve}
  /\ call.todo \subseteq [dir : Dir, state : States, size : 0..MaxSize]
  /\ current \in 0..MaxDirs /\ unknown \subseteq Dir

\* bootstrap.md, "cleaning protects active directories and the evidence of unknown
\* submissions": the directory of an operation whose effect is unknown stays recorded,
\* through crashes, cleans of either process and its own finish.
EvidenceKept == \A d \in unknown : dirs[d].state \in {"active", "protected"}

Removed(d) == d \in Recorded(dirs) /\ d \notin Recorded(dirs')

\* bootstrap.md, "oldest first": _ensure removes an ended directory only when no older
\* ended directory is left.
OldestFirst ==
  [][\A d \in DOMAIN dirs : Removed(d) /\ holder # "nobody"
       => \A e \in 1..(d - 1) : dirs[e].state # "ended"]_vars

\* create: whatever else happened since the sizes were read, a new directory starts within
\* the budget and the free disk, with the reserve still unused.
BudgetHonoured ==
  [][Len(dirs') > Len(dirs) =>
       /\ Bytes(dirs, Recorded(dirs)) + Reserve <= Maximum
       /\ Disk - Bytes(dirs, DOMAIN dirs) - Reserve >= MinimumFree]_vars

\* STORAGE_UNAVAILABLE "active and protected records were not deleted": a call is refused
\* only when those alone, with what crashes left behind, exceed the budget or the disk.
RefusedOnlyWhenFull ==
  [][Refuse =>
       LET kept == {d \in DOMAIN dirs : dirs[d].state # "ended"} IN
       \/ Bytes(dirs, kept \cap Recorded(dirs)) + call.reserve > Maximum
       \/ Disk - Bytes(dirs, kept) - call.reserve < MinimumFree]_vars
=============================================================================
