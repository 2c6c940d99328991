-------------------------- MODULE DispatcherTypes --------------------------
(***************************************************************************)
(* Type correctness of the composed system: Spec => []TypeOK for every     *)
(* value of the constants.  TypeOK is inductive as it stands; the lemmas   *)
(* on the journal's operators and on Answered, UpdateRecovery and Discard  *)
(* carry the argument, the rest is one case per action.  A flag's type is  *)
(* shown in a step of its own, because Zenon is the prover for Booleans.   *)
(***************************************************************************)
EXTENDS DispatcherInvariant, SequencesExt, SequenceTheorems, TLAPS

-----------------------------------------------------------------------------
(* What the queue operations of the dispatcher do to the set of queued     *)
(* jobs.  A queue holds no job twice; removing one job removes exactly it. *)

\* RemoveAt drops one position and keeps the order of the others (queue.remove).
LEMMA RemoveAtElements ==
  ASSUME NEW S, NEW s \in Seq(S), NEW i \in 1 .. Len(s)
  PROVE  /\ RemoveAt(s, i) \in Seq(S)
         /\ Len(RemoveAt(s, i)) = Len(s) - 1
         /\ \A j \in 1 .. Len(s) - 1 : RemoveAt(s, i)[j] = s[IF j < i THEN j ELSE j + 1]
<1> DEFINE a == SubSeq(s, 1, i - 1)
           b == SubSeq(s, i + 1, Len(s))
<1>0. Len(s) \in Nat /\ i \in Int /\ 1 <= i /\ i <= Len(s)
  OBVIOUS
<1>1. a \in Seq(S) /\ Len(a) = i - 1 /\ \A j \in 1 .. i - 1 : a[j] = s[j]
  <2>1. \A j \in 1 .. i - 1 : s[j] \in S
    BY <1>0
  <2>2. /\ a \in Seq(S)
        /\ Len(a) = IF 1 <= i - 1 THEN i - 1 - 1 + 1 ELSE 0
        /\ \A j \in 1 .. i - 1 - 1 + 1 : a[j] = s[1 + j - 1]
    BY <1>0, <2>1, SubSeqProperties
  <2> QED BY <1>0, <2>2
<1>2. b \in Seq(S) /\ Len(b) = Len(s) - i /\ \A j \in 1 .. Len(s) - i : b[j] = s[i + j]
  <2>1. \A j \in i + 1 .. Len(s) : s[j] \in S
    BY <1>0
  <2>2. /\ b \in Seq(S)
        /\ Len(b) = IF i + 1 <= Len(s) THEN Len(s) - (i + 1) + 1 ELSE 0
        /\ \A j \in 1 .. Len(s) - (i + 1) + 1 : b[j] = s[i + 1 + j - 1]
    BY <1>0, <2>1, SubSeqProperties
  <2> QED BY <1>0, <2>2
<1>3. /\ a \o b \in Seq(S)
      /\ Len(a \o b) = Len(a) + Len(b)
      /\ \A j \in 1 .. Len(a) + Len(b) : (a \o b)[j] = IF j <= Len(a) THEN a[j] ELSE b[j - Len(a)]
  BY <1>1, <1>2, ConcatProperties
<1>4. RemoveAt(s, i) = a \o b
  BY DEF RemoveAt
<1> HIDE DEF a, b
<1>5. ASSUME NEW j \in 1 .. Len(s) - 1
      PROVE (a \o b)[j] = s[IF j < i THEN j ELSE j + 1]
  <2>1. CASE j < i
    BY <1>0, <1>1, <1>2, <1>3, <2>1
  <2>2. CASE ~(j < i)
    <3>1. (a \o b)[j] = b[j - Len(a)]
      BY <1>0, <1>1, <1>2, <1>3, <2>2
    <3>2. j - Len(a) \in 1 .. Len(s) - i /\ i + (j - Len(a)) = j + 1
      BY <1>0, <1>1, <2>2
    <3>3. b[j - Len(a)] = s[i + (j - Len(a))]
      BY <1>2, <3>2
    <3> QED BY <3>1, <3>2, <3>3, <2>2
  <2> QED BY <2>1, <2>2
<1>6. Len(a \o b) = Len(s) - 1 /\ a \o b \in Seq(S)
  BY <1>0, <1>1, <1>2, <1>3
<1> QED BY ONLY <1>4, <1>5, <1>6

\* Removing position i of a queue without repetitions removes the job s[i] only.
LEMMA RemoveAtSet ==
  ASSUME NEW S, NEW s \in Seq(S), NEW i \in DOMAIN s, IsInjective(s)
  PROVE  /\ RemoveAt(s, i) \in Seq(S)
         /\ IsInjective(RemoveAt(s, i))
         /\ ToSet(RemoveAt(s, i)) = ToSet(s) \ {s[i]}
         /\ Len(RemoveAt(s, i)) = Len(s) - 1
<1> DEFINE t == RemoveAt(s, i)
           at(j) == IF j < i THEN j ELSE j + 1
<1>0. Len(s) \in Nat /\ DOMAIN s = 1 .. Len(s) /\ i \in 1 .. Len(s)
  OBVIOUS
<1>1. t \in Seq(S) /\ Len(t) = Len(s) - 1 /\ \A j \in 1 .. Len(s) - 1 : t[j] = s[at(j)]
  BY <1>0, RemoveAtElements
<1>2. DOMAIN t = 1 .. Len(s) - 1
  BY <1>1
<1> HIDE DEF t
<1>3. IsInjective(t)
  <2> SUFFICES ASSUME NEW j \in 1 .. Len(s) - 1, NEW k \in 1 .. Len(s) - 1, t[j] = t[k]
               PROVE  j = k
    BY <1>2 DEF IsInjective
  <2>1. at(j) \in 1 .. Len(s) /\ at(k) \in 1 .. Len(s)
    BY <1>0
  <2>2. s[at(j)] = s[at(k)]
    BY <1>1
  <2>3. at(j) = at(k)
    BY <2>1, <2>2, <1>0 DEF IsInjective
  <2> QED BY <2>3, <1>0
<1>4. ASSUME NEW x \in ToSet(t) PROVE x \in ToSet(s) \ {s[i]}
  <2>1. PICK j \in 1 .. Len(s) - 1 : x = t[j]
    BY <1>2 DEF ToSet
  <2>2. at(j) \in 1 .. Len(s) /\ at(j) # i
    BY <1>0
  <2>3. x = s[at(j)]
    BY <1>1, <2>1
  <2>4. x # s[i]
    BY <2>2, <2>3, <1>0 DEF IsInjective
  <2> QED BY <2>2, <2>3, <2>4, <1>0 DEF ToSet
<1>5. ASSUME NEW x \in ToSet(s) \ {s[i]} PROVE x \in ToSet(t)
  <2>1. PICK k \in 1 .. Len(s) : x = s[k]
    BY <1>0 DEF ToSet
  <2>2. k # i
    BY <2>1
  <2> DEFINE j == IF k < i THEN k ELSE k - 1
  <2>3. j \in 1 .. Len(s) - 1 /\ at(j) = k
    BY <2>2, <1>0
  <2>4. t[j] = x
    BY <2>3, <2>1, <1>1
  <2> QED BY <2>3, <2>4, <1>2 DEF ToSet
<1> QED BY <1>1, <1>3, <1>4, <1>5 DEF t

\* popleft of a queue without repetitions removes its first job only.
LEMMA TailSet ==
  ASSUME NEW S, NEW s \in Seq(S), s # <<>>, IsInjective(s)
  PROVE  /\ Head(s) \in S /\ Tail(s) \in Seq(S)
         /\ IsInjective(Tail(s))
         /\ Head(s) \in ToSet(s)
         /\ ToSet(Tail(s)) = ToSet(s) \ {Head(s)}
         /\ Len(Tail(s)) = Len(s) - 1
<1>0. Len(s) \in Nat /\ Len(s) >= 1 /\ DOMAIN s = 1 .. Len(s) /\ Head(s) = s[1]
  OBVIOUS
<1>1. Tail(s) \in Seq(S) /\ Len(Tail(s)) = Len(s) - 1 /\ \A j \in 1 .. Len(s) - 1 : Tail(s)[j] = s[j + 1]
  BY HeadTailProperties
<1>2. DOMAIN Tail(s) = 1 .. Len(s) - 1
  BY <1>1
<1>3. IsInjective(Tail(s))
  <2> SUFFICES ASSUME NEW j \in 1 .. Len(s) - 1, NEW k \in 1 .. Len(s) - 1, Tail(s)[j] = Tail(s)[k]
               PROVE  j = k
    BY <1>2 DEF IsInjective
  <2>1. s[j + 1] = s[k + 1] /\ j + 1 \in 1 .. Len(s) /\ k + 1 \in 1 .. Len(s)
    BY <1>0, <1>1
  <2>2. j + 1 = k + 1
    BY <2>1, <1>0 DEF IsInjective
  <2> QED BY <2>2
<1>4. ASSUME NEW x \in ToSet(Tail(s)) PROVE x \in ToSet(s) \ {Head(s)}
  <2>1. PICK j \in 1 .. Len(s) - 1 : x = Tail(s)[j]
    BY <1>2 DEF ToSet
  <2>2. x = s[j + 1] /\ j + 1 \in 1 .. Len(s) /\ j + 1 # 1 /\ 1 \in 1 .. Len(s)
    BY <1>0, <1>1, <2>1
  <2>3. x # s[1]
    BY <2>2, <1>0 DEF IsInjective
  <2> QED BY <2>2, <2>3, <1>0 DEF ToSet
<1>5. ASSUME NEW x \in ToSet(s) \ {Head(s)} PROVE x \in ToSet(Tail(s))
  <2>1. PICK k \in 1 .. Len(s) : x = s[k]
    BY <1>0 DEF ToSet
  <2>2. k # 1 /\ k - 1 \in 1 .. Len(s) - 1
    BY <2>1, <1>0
  <2>3. Tail(s)[k - 1] = x
    BY <2>2, <2>1, <1>1
  <2> QED BY <2>2, <2>3, <1>2 DEF ToSet
<1>6. Head(s) \in ToSet(s)
  BY <1>0 DEF ToSet
<1> QED BY <1>0, <1>1, <1>3, <1>4, <1>5, <1>6, HeadTailProperties

\* append of a job that is not queued adds it and repeats nothing.
LEMMA AppendSet ==
  ASSUME NEW S, NEW s \in Seq(S), NEW x \in S, IsInjective(s), x \notin ToSet(s)
  PROVE  /\ Append(s, x) \in Seq(S)
         /\ IsInjective(Append(s, x))
         /\ ToSet(Append(s, x)) = ToSet(s) \cup {x}
         /\ Len(Append(s, x)) = Len(s) + 1
<1> DEFINE t == Append(s, x)
<1>0. Len(s) \in Nat /\ DOMAIN s = 1 .. Len(s)
  OBVIOUS
<1>1. /\ t \in Seq(S) /\ Len(t) = Len(s) + 1 /\ DOMAIN t = 1 .. Len(s) + 1
      /\ \A j \in 1 .. Len(s) : t[j] = s[j]
      /\ t[Len(s) + 1] = x
  OBVIOUS
<1> HIDE DEF t
<1>2. \A j \in 1 .. Len(s) : s[j] \in ToSet(s)
  BY <1>0 DEF ToSet
<1>3. IsInjective(t)
  <2> SUFFICES ASSUME NEW j \in 1 .. Len(s) + 1, NEW k \in 1 .. Len(s) + 1, t[j] = t[k]
               PROVE  j = k
    BY <1>1 DEF IsInjective
  <2>1. CASE j \in 1 .. Len(s) /\ k \in 1 .. Len(s)
    BY <2>1, <1>0, <1>1 DEF IsInjective
  <2>2. CASE j = Len(s) + 1 \/ k = Len(s) + 1
    BY <2>2, <1>0, <1>1, <1>2
  <2> QED BY <2>1, <2>2, <1>0
<1>4. ToSet(t) = ToSet(s) \cup {x}
  <2>1. ASSUME NEW y \in ToSet(t) PROVE y \in ToSet(s) \cup {x}
    <3>1. PICK j \in 1 .. Len(s) + 1 : y = t[j]
      BY <1>1 DEF ToSet
    <3> QED BY <3>1, <1>0, <1>1, <1>2
  <2>2. ASSUME NEW y \in ToSet(s) PROVE y \in ToSet(t)
    <3>1. PICK j \in 1 .. Len(s) : y = s[j]
      BY <1>0 DEF ToSet
    <3>2. j \in DOMAIN t /\ t[j] = y
      BY <3>1, <1>0, <1>1
    <3> QED BY <3>2 DEF ToSet
  <2>3. x \in ToSet(t)
    BY <1>0, <1>1 DEF ToSet
  <2> QED BY <2>1, <2>2, <2>3
<1> QED BY <1>1, <1>3, <1>4 DEF t

-----------------------------------------------------------------------------
(* Types. *)

\* The table stays a table when _prune deletes rows.
LEMMA PruneType == \A d \in [Request -> Row] : Prune(d) \in [Request -> Row]
  BY DEF Prune, NoRow, Row, Reply, NoReply, Phase, Effect, ReplyCode, ErrorCode

\* A finished row is a row.
LEMMA FinishRowType == \A row \in Row, reply \in Reply : FinishRow(row, reply) \in Row
  BY DEF FinishRow, Row, Phase, Reply

\* A transaction leaves the table it found or the one it wrote.
LEMMA CommitType == \A o, b, a : Commit(o, b, a) \in {b, a}
  BY DEF Commit

\* The absent reply is a reply.
LEMMA NoReplyType == NoReply \in Reply
  BY DEF NoReply, Reply, ReplyCode, ErrorCode, Effect

\* Journal.phase keeps the table typed, for a request without a row too.
LEMMA SavePhaseType ==
  ASSUME NEW d \in [Request -> Row], NEW r, NEW p \in Phase, NEW e \in Effect
  PROVE  SavePhase(d, r, p, e) \in [Request -> Row]
<1>1. \A row \in Row, ph \in Phase, ef \in Effect : SaveRow(row, ph, ef) \in Row
  BY DEF SaveRow, Row
<1> QED BY <1>1 DEF SavePhase

\* Journal.finish keeps the table typed.
LEMMA FinishType ==
  ASSUME NEW d \in [Request -> Row], NEW r, NEW reply \in Reply
  PROVE  Finish(d, r, reply) \in [Request -> Row]
  BY FinishRowType DEF Finish

\* Journal.interrupted returns a reply.
LEMMA InterruptedType ==
  \A d \in [Request -> Row], r \in Request : Interrupted(d, r) \in Reply
  BY DEF Interrupted, Row, Reply, ReplyCode, ErrorCode, Effect, NoReply

\* Journal.recover keeps the table typed.
LEMMA RecoverType == \A d \in [Request -> Row] : Recover(d) \in [Request -> Row]
<1> TAKE d \in [Request -> Row]
<1>1. \A row \in Row : RecoveredReply(row) \in Reply
  BY DEF RecoveredReply, Row, Reply, ReplyCode, ErrorCode, Effect
<1>2. [q \in Request |-> IF d[q].phase # "absent" /\ d[q].reply = NoReply
                           THEN FinishRow(d[q], RecoveredReply(d[q])) ELSE d[q]] \in [Request -> Row]
  BY <1>1, FinishRowType
<1> QED BY <1>2, PruneType DEF Recover

\* ReconnectPlan.observe keeps the plan typed.
LEMMA ObserveType ==
  \A plan \in Plan, e \in ErrorCode, safe \in BOOLEAN : Observe(plan, e, safe) \in Plan
  BY ReconnectAssumption DEF Observe, Plan

\* _finish for any set of jobs keeps the table, the futures and the flags typed.
LEMMA AnsweredType ==
  ASSUME TypeOK, NEW V, NEW R \in [V -> Reply], NEW o \in [V -> Storage],
         Answered(V, R, o)
  PROVE  /\ db' \in [Request -> Row] /\ unresolved' \in BOOLEAN
         /\ failed' \in BOOLEAN /\ future' \in [Request -> Reply]
<1>1. db' \in [Request -> Row]
  BY FinishRowType DEF Answered, TypeOK, JobTypeOK, Commit
<1>2. \A r \in V : Told(r, R[r], o[r]) \in Reply
  BY DEF Told, Reply, ReplyCode, ErrorCode
<1>3. future' \in [Request -> Reply]
  BY <1>2 DEF Answered, TypeOK, JobTypeOK
<1>4. unresolved' \in BOOLEAN /\ failed' \in BOOLEAN
  BY DEF Answered, TypeOK, JobTypeOK, Unresolved
<1> QED BY <1>1, <1>3, <1>4

\* The Executor object is in its type.
ExecutorType == [blocked : BOOLEAN, error : ErrorCode, poisoned : BOOLEAN,
                 session : {"lost", "none", "query", "trade"}]

\* Every way a step of the executor can fail names a known code and leaves an executor.
LEMMA MishapsType ==
  ASSUME NEW x \in ExecutorType,
         NEW m \in Failures(x) \cup Mishaps(x) \cup ArtifactErrors(x)
  PROVE  m[1] \in ErrorCode /\ m[2] \in ExecutorType
<1>1. /\ [x EXCEPT !.session = "none"] \in ExecutorType
      /\ [x EXCEPT !.session = "lost"] \in ExecutorType
      /\ [x EXCEPT !.poisoned = TRUE] \in ExecutorType
  BY DEF ExecutorType
<1> USE DEF ErrorCode
<1>2. ASSUME m \in SessionErrors(x) PROVE m[1] \in ErrorCode /\ m[2] \in ExecutorType
  BY <1>1, <1>2 DEF SessionErrors
<1>3. ASSUME m \in GuiErrors(x) PROVE m[1] \in ErrorCode /\ m[2] \in ExecutorType
  <2>1. CASE m = <<"GUI_UNRESPONSIVE", x>>
    BY <2>1
  <2>2. CASE m = <<"GUI_UNRESPONSIVE", [x EXCEPT !.poisoned = TRUE]>>
    BY <2>2, <1>1
  <2> QED BY <1>3, <2>1, <2>2 DEF GuiErrors
<1>4. ASSUME m \in ArtifactErrors(x) PROVE m[1] \in ErrorCode /\ m[2] \in ExecutorType
  BY <1>4 DEF ArtifactErrors
<1>5. ASSUME m = <<"REFUSED", x>> PROVE m[1] \in ErrorCode /\ m[2] \in ExecutorType
  BY <1>5
<1> QED BY <1>2, <1>3, <1>4, <1>5 DEF Failures, Mishaps

\* Executor.fail leaves an executor.
LEMMA FailType == \A x \in ExecutorType, c \in ErrorCode : Fail(x, c) \in ExecutorType
  BY DEF ExecutorType, Fail

\* A step that fails leaves the worker typed and the journal alone.
LEMMA TroubleType ==
  ASSUME WorkerTypeOK, Trouble, UNCHANGED <<exiting, late>>
  PROVE  UNCHANGED db /\ WorkerTypeOK'
  BY MishapsType DEF Trouble, Raise, WorkerTypeOK, ExecutorType, Silent, WorkerPc

\* So does a step that raises a given code.
LEMMA RaiseType ==
  ASSUME WorkerTypeOK, NEW c \in ErrorCode, Raise(c, exec), UNCHANGED <<exiting, late>>
  PROVE  UNCHANGED db /\ WorkerTypeOK'
  BY DEF Raise, WorkerTypeOK, Silent, WorkerPc

\* Steps.save leaves the journal and the worker typed, saved or not.
LEMMA SaveType ==
  ASSUME db \in [Request -> Row], WorkerTypeOK, UNCHANGED <<exiting, late>>,
         NEW p \in Phase, NEW e \in Effect, NEW n \in WorkerPc, Save(p, e, n)
  PROVE  db' \in [Request -> Row] /\ WorkerTypeOK'
<1>1. PICK o \in Storage :
         /\ db' = Commit(o, db, SavePhase(db, steps.request, p, e))
         /\ steps' = [steps EXCEPT !.effect = IF e = "none" THEN @ ELSE e,
                              !.error = IF o = "ok" /\ db[steps.request].phase # "absent" THEN @ ELSE "STORAGE_UNAVAILABLE"]
         /\ wpc' = IF o = "ok" /\ db[steps.request].phase # "absent" THEN n ELSE "cleanup"
         /\ UNCHANGED <<msg, wreply, exec, sent>>
  BY DEF Save, Silent
<1>2. db' \in [Request -> Row]
  <2>1. SavePhase(db, steps.request, p, e) \in [Request -> Row]
    BY SavePhaseType
  <2> QED BY <1>1, <2>1 DEF Commit
<1>3. steps' \in [request : Request \cup {NoRequest}, effect : Effect, error : ErrorCode]
  BY <1>1 DEF WorkerTypeOK, ErrorCode
<1>4. wpc' \in WorkerPc
  BY <1>1 DEF WorkerPc
<1> QED BY <1>1, <1>2, <1>3, <1>4 DEF WorkerTypeOK

\* Every step of the worker process leaves the journal and the worker typed.
LEMMA WorkerStepType ==
  ASSUME TypeOK, WStep
  PROVE  db' \in [Request -> Row] /\ WorkerTypeOK'
<1> USE DEF TypeOK
<1>x. exec \in ExecutorType
  BY DEF WorkerTypeOK, ExecutorType
<1>1. CASE WStartup
  <2>1. exec' \in ExecutorType
   <3>1. \A s \in {"lost", "query", "trade"} : [NewExecutor EXCEPT !.session = s] \in ExecutorType
      BY DEF NewExecutor, ExecutorType, ErrorCode
   <3>2. NewExecutor \in ExecutorType
      BY DEF NewExecutor, ExecutorType, ErrorCode
   <3>3. ASSUME NEW s \in {"lost", "query", "trade"}, NEW m \in Mishaps([NewExecutor EXCEPT !.session = s])
         PROVE Fail(m[2], m[1]) \in ExecutorType
      BY <3>1, <3>3, MishapsType, FailType
   <3>4. Fail(NewExecutor, "CONNECTION_FAILED") \in ExecutorType
      BY <3>2, FailType DEF ErrorCode
   <3> QED BY <1>1, <3>1, <3>3, <3>4 DEF WStartup
  <2> QED BY <1>1, <2>1, NoReplyType DEF WStartup, Send, WorkerPc, WorkerTypeOK, ExecutorType
<1>2. CASE WProbe
  BY <1>2, <1>x, MishapsType, FailType, NoReplyType DEF WProbe, Send, ErrorCode, WorkerPc, WorkerTypeOK, ExecutorType
<1>3. CASE WResume
  <2>1. exec' \in ExecutorType
   <3>1. \A x \in Rebound : x \in ExecutorType
      BY <1>x DEF Rebound, ExecutorType
   <3>2. \A x \in ExecutorType : [x EXCEPT !.blocked = FALSE, !.error = "NONE"] \in ExecutorType
      BY DEF ExecutorType, ErrorCode
   <3>3. ASSUME NEW x \in Rebound \cup {exec}, NEW m \in Mishaps(x) PROVE Fail(m[2], m[1]) \in ExecutorType
      BY <1>x, <3>1, <3>3, MishapsType, FailType
   <3>4. \A c \in {"GUI_UNRESPONSIVE", "STORAGE_UNAVAILABLE"} : Fail(exec, c) \in ExecutorType
      BY <1>x, FailType DEF ErrorCode
   <3> QED BY <1>3, <3>1, <3>2, <3>3, <3>4 DEF WResume
  <2> QED BY <1>3, <2>1, NoReplyType DEF WResume, Send, WorkerPc, WorkerTypeOK, ExecutorType
<1>4. CASE WStop \/ WExit \/ WDie
  BY <1>4, NoReplyType DEF WStop, WExit, WDie, WorkerPc, WorkerTypeOK
<1>5. CASE WCleanup
  <2>1. PICK end \in CleanupEnds :
          /\ exec' \in {end[2], Fail(end[2], end[1])}
          /\ steps' = [steps EXCEPT !.error = end[1]]
          /\ wreply' \in {[code |-> "ACCEPTED", effect |-> "submitted"], [code |-> end[1], effect |-> steps.effect]}
    BY <1>5 DEF WCleanup
  <2>2. end[1] \in ErrorCode /\ end[2] \in ExecutorType
    <3>1. CASE \E m \in Mishaps(exec) : end = <<"GUI_UNRESPONSIVE", m[2]>>
      BY <1>x, <3>1, MishapsType DEF ErrorCode
    <3>2. CASE end = <<"GUI_UNRESPONSIVE", exec>> \/ end = <<steps.error, exec>>
      BY <1>x, <3>2 DEF WorkerTypeOK, ErrorCode
    <3> QED BY <3>1, <3>2 DEF CleanupEnds
  <2>3. wreply' \in Reply
    BY <2>1, <2>2 DEF Reply, ReplyCode, Effect, WorkerTypeOK
  <2>4. exec' \in ExecutorType
    BY <2>1, <2>2, FailType
  <2> QED BY <1>5, <2>1, <2>2, <2>3, <2>4 DEF WCleanup, WorkerPc, At, WorkerTypeOK, ExecutorType
<1>6. CASE WReject
  <2>1. Fail(exec, "STORAGE_UNAVAILABLE") \in ExecutorType
      BY <1>x, FailType DEF ErrorCode
  <2>2. \A c \in {"QUEUE_TIMEOUT", "STORAGE_UNAVAILABLE"} : [code |-> c, effect |-> "none"] \in Reply
      BY DEF Reply, ReplyCode, ErrorCode, Effect
  <2>3. exec' \in ExecutorType /\ wreply' \in Reply
      BY <1>6, <1>x, <2>1, <2>2 DEF WReject, Send
  <2> QED BY <1>6, <2>3 DEF WReject, At, Send, WorkerTypeOK, ExecutorType, WorkerPc
<1>7. CASE WQuery
  <2>1. \A c \in ErrorCode \cup {"ACCEPTED"} : [code |-> c, effect |-> "none"] \in Reply
      BY DEF Reply, ReplyCode, ErrorCode, Effect
  <2>2. ASSUME NEW m \in PrepareErrors PROVE m[1] \in ErrorCode /\ m[2] \in ExecutorType
    <3>1. CASE m \in Mishaps(exec) \cup ArtifactErrors(exec)
      BY <3>1, <1>x, MishapsType
    <3>2. CASE m = <<"SERVICE_NOT_READY", exec>>
      BY <3>2, <1>x DEF ErrorCode
    <3> QED BY <2>2, <3>1, <3>2 DEF PrepareErrors
  <2>3. exec' \in ExecutorType /\ wreply' \in Reply
      BY <1>7, <1>x, <2>1, <2>2, FailType DEF WQuery, Send, ErrorCode
  <2> QED BY <1>7, <2>3 DEF WQuery, At, Send, WorkerTypeOK, ExecutorType, WorkerPc
<1>8. CASE WPrepareFails
  BY <1>8, <1>x, FailType, MishapsType DEF WPrepareFails, PrepareErrors, At, Send, Reply, ReplyCode, ErrorCode, Effect, WorkerTypeOK, ExecutorType, WorkerPc
<1>9. CASE WPrepare
  BY <1>9, <1>x, SaveType, RaiseType DEF WPrepare, At, Phase, Effect, ErrorCode, WorkerPc
<1>10. CASE WStarted
  BY <1>10, SaveType, TroubleType DEF WStarted, At, Phase, Effect, ErrorCode, WorkerPc
<1>11. CASE WImport
  BY <1>11, SaveType, TroubleType, RaiseType DEF WImport, Unproven, At, Phase, Effect, ErrorCode, WorkerPc
<1>12. CASE WImportRejected
  <2>1. PICK o \in Storage :
         /\ db' = Commit(o, db, SavePhase(db, steps.request, "rejected", "rejected"))
         /\ steps' = [steps EXCEPT !.effect = "rejected",
                                 !.error = IF o = "ok" /\ db[steps.request].phase # "absent" THEN "REFUSED" ELSE "STORAGE_UNAVAILABLE"]
    BY <1>12 DEF WImportRejected
  <2>2. db' \in [Request -> Row]
    <3>1. SavePhase(db, steps.request, "rejected", "rejected") \in [Request -> Row]
      BY SavePhaseType DEF Phase, Effect
    <3> QED BY <2>1, <3>1 DEF Commit
  <2>3. steps' \in [request : Request \cup {NoRequest}, effect : Effect, error : ErrorCode]
    BY <2>1 DEF WorkerTypeOK, ErrorCode, Effect
  <2> QED BY <1>12, <2>2, <2>3 DEF WImportRejected, At, Silent, WorkerTypeOK, WorkerPc
<1>13. CASE WArm
  BY <1>13, SaveType, TroubleType DEF WArm, At, Phase, Effect, ErrorCode, WorkerPc
<1>14. CASE WKey \/ WConfirm
  BY <1>14, <1>x, MishapsType DEF WKey, WConfirm, Deliver, At, Silent, ErrorCode, WorkerPc, WorkerTypeOK, ExecutorType
<1>15. CASE WCapture \/ WSubmitted \/ WConfirmed
  BY <1>15, SaveType, TroubleType, RaiseType DEF WCapture, WSubmitted, WConfirmed, Unproven, At, Phase, Effect, ErrorCode, WorkerPc
<1>16. CASE WNoDialog
  BY <1>16, TroubleType, RaiseType DEF WNoDialog, At, Silent, ErrorCode, WorkerPc, WorkerTypeOK
<1>17. CASE WVerify
  BY <1>17, SaveType, TroubleType, RaiseType, ZenonT(60) DEF WVerify, Unproven, At, Silent, Phase, Effect, ErrorCode, WorkerPc, WorkerTypeOK
<1>18. CASE WFinish
  <2>1. db' \in [Request -> Row]
    <3>1. Finish(db, steps.request, wreply) \in [Request -> Row]
      BY FinishType DEF WorkerTypeOK
    <3> QED BY <1>18, <3>1 DEF WFinish, Commit
  <2>2. exec' \in ExecutorType
    BY <1>18, <1>x, FailType DEF WFinish, ErrorCode
  <2>3. wreply' \in Reply
    BY <1>18 DEF WFinish, Send, WorkerTypeOK, Reply, ReplyCode, ErrorCode
  <2> QED BY <1>18, <2>1, <2>2, <2>3 DEF WFinish, At, Send, WorkerPc, WorkerTypeOK, ExecutorType
<1> QED BY <1>1, <1>2, <1>3, <1>4, <1>5, <1>6, <1>7, <1>8, <1>9, <1>10, <1>11, <1>12, <1>13, <1>14, <1>15, <1>16, <1>17, <1>18 DEF WStep

\* "Not executed" is a reply, whatever its code.
LEMMA NotRunType == \A c \in ReplyCode : NotRun(c) \in Reply
  BY DEF NotRun, Reply, Effect

\* The state stays a worker state when a failed save is noted in it.
LEMMA MarkedType ==
  ASSUME NEW st \in WorkerState
  PROVE  Marked(st) \in WorkerState
  BY DEF Marked, WorkerState, ErrorCode

\* What worker.snapshot sends is a worker state.
LEMMA SnapshotType == WorkerTypeOK => Snapshot \in WorkerState
  BY DEF Snapshot, WorkerTypeOK, WorkerState

\* _update_recovery keeps everything it writes typed.
LEMMA UpdateRecoveryType ==
  ASSUME TypeOK, UpdateRecovery
  PROVE  /\ db' \in [Request -> Row] /\ unresolved' \in BOOLEAN /\ failed' \in BOOLEAN
         /\ future' \in [Request -> Reply] /\ queue' \in Seq(Request)
         /\ state' \in WorkerState /\ reconnect' \in Plan
<1> DEFINE base == IF rtError
              THEN [state EXCEPT !.blocked = TRUE, !.query_ready = FALSE, !.trading_ready = FALSE]
              ELSE state
           victims == IF base.blocked \/ failed \/ ~base.query_ready THEN Queued ELSE {}
           R == [r \in victims |-> NotRun("SERVICE_NOT_READY")]
<1>1. PICK o \in [victims -> Storage] :
        /\ Answered(victims, R, o)
        /\ queue' = IF victims = {} THEN queue ELSE <<>>
        /\ state' = Marked(base)
        /\ reconnect' = Observe(reconnect,
                            IF rtError THEN "RUNTIME" ELSE state'.error,
                            base.ownership_clear /\ ~unresolved' /\ ~failed' /\ ~rtError)
  BY DEF UpdateRecovery
<1>2. base \in WorkerState
  BY DEF TypeOK, ThreadTypeOK, WorkerState
<1>3. victims \subseteq Request
  BY DEF Queued, ToSet, TypeOK, JobTypeOK
<1>4. R \in [victims -> Reply]
  BY NotRunType DEF ReplyCode, ErrorCode
<1> HIDE DEF R, victims, base
<1>5. /\ db' \in [Request -> Row] /\ unresolved' \in BOOLEAN /\ failed' \in BOOLEAN
      /\ future' \in [Request -> Reply]
  BY <1>1, <1>3, <1>4, AnsweredType
<1>6. queue' \in Seq(Request)
  BY <1>1 DEF TypeOK, JobTypeOK
<1>7. state' \in WorkerState
  BY <1>1, <1>2, MarkedType
<1>8. reconnect' \in Plan
  <2>1. (IF rtError THEN "RUNTIME" ELSE state'.error) \in ErrorCode
    BY <1>7 DEF WorkerState, ErrorCode
  <2>2. (base.ownership_clear /\ ~unresolved' /\ ~failed' /\ ~rtError) \in BOOLEAN
    OBVIOUS
  <2> QED BY <1>1, <2>1, <2>2, ObserveType DEF TypeOK, ThreadTypeOK
<1> QED BY <1>5, <1>6, <1>7, <1>8

\* Dispatcher.cancel keeps everything it writes typed.
LEMMA DiscardType ==
  ASSUME TypeOK, NEW i \in DOMAIN queue, NEW c \in ReplyCode, Discard(i, c)
  PROVE  /\ db' \in [Request -> Row] /\ unresolved' \in BOOLEAN /\ failed' \in BOOLEAN
         /\ future' \in [Request -> Reply] /\ queue' \in Seq(Request)
         /\ state' \in WorkerState
<1> DEFINE V == {queue[i]}
           R == [q \in V |-> NotRun(c)]
<1>1. PICK o \in Storage :
        /\ Answered(V, R, [q \in V |-> o])
        /\ queue' = RemoveAt(queue, i)
        /\ state' = Marked(state)
  BY DEF Discard
<1>2. V \subseteq Request /\ queue \in Seq(Request) /\ i \in 1 .. Len(queue)
  BY DEF TypeOK, JobTypeOK
<1>3. R \in [V -> Reply] /\ [q \in V |-> o] \in [V -> Storage]
  BY NotRunType
<1> HIDE DEF V, R
<1>4. /\ db' \in [Request -> Row] /\ unresolved' \in BOOLEAN /\ failed' \in BOOLEAN
      /\ future' \in [Request -> Reply]
  BY <1>1, <1>2, <1>3, AnsweredType
<1>5. queue' \in Seq(Request)
  BY <1>1, <1>2, RemoveAtElements
<1>6. state' \in WorkerState
  BY <1>1, MarkedType DEF TypeOK, ThreadTypeOK
<1> QED BY <1>4, <1>5, <1>6

\* Every step of the dispatcher thread preserves the types.
LEMMA ThreadStepType == ASSUME TypeOK, DNext PROVE TypeOK'
<1> USE DEF jobVars, saveVars, viewVars, flagVars, linkVars, httpVars, controlVars, envVars,
            outsideVars, workerVars, Goto
<1>1. CASE DSpawn
  <2>8. handle' \in BOOLEAN
    BY <1>1, Zenon DEF DSpawn, TypeOK, ThreadTypeOK
  <2>9. /\ dpc' \in ThreadPc
        /\ UNCHANGED <<state, reconnect, paused, stopping, ready, owner_busy, resume_future, pending>>
    BY <1>1 DEF DSpawn, ThreadPc
  <2>10. db' \in [Request -> Row] /\ WorkerTypeOK' /\ JobTypeOK' /\ OutsideTypeOK'
    BY <1>1 DEF DSpawn, WorkerPc, TypeOK, WorkerTypeOK, JobTypeOK, OutsideTypeOK
  <2> QED BY <2>8, <2>9, <2>10 DEF TypeOK, ThreadTypeOK
<1>2. CASE DNoWindow \/ DSweepDone \/ DChooseIdle \/ DLost \/ DRestart
  BY <1>2 DEF DNoWindow, DSweepDone, DChooseIdle, DLost, DRestart, ThreadPc,
              TypeOK, WorkerTypeOK, JobTypeOK, ThreadTypeOK, OutsideTypeOK
<1>3. CASE DStarted \/ DReceive
  <2>1. state' \in WorkerState
    BY <1>3, SnapshotType DEF DStarted, DReceive, TypeOK
  <2>8. ready' \in BOOLEAN
    BY <1>3, Zenon DEF DStarted, DReceive, TypeOK, ThreadTypeOK
  <2>9. /\ dpc' \in ThreadPc
        /\ UNCHANGED <<reconnect, paused, stopping, owner_busy, resume_future, handle, pending>>
    BY <1>3 DEF DStarted, DReceive, ThreadPc
  <2>10. db' \in [Request -> Row] /\ WorkerTypeOK' /\ JobTypeOK' /\ OutsideTypeOK'
    BY <1>3, <2>1, ZenonT(60) DEF DStarted, DReceive, TypeOK, WorkerTypeOK, JobTypeOK, OutsideTypeOK
  <2> QED BY <2>8, <2>9, <2>10, <2>1 DEF TypeOK, ThreadTypeOK
<1>4. CASE DInitialPause \/ DResumed
  <2>8. paused' \in BOOLEAN /\ resume_future' \in BOOLEAN
    BY <1>4, Zenon DEF DInitialPause, DResumed, TypeOK, ThreadTypeOK
  <2>9. /\ dpc' \in ThreadPc
        /\ UNCHANGED <<state, reconnect, stopping, ready, owner_busy, handle, pending>>
    BY <1>4 DEF DInitialPause, DResumed, ThreadPc
  <2>10. db' \in [Request -> Row] /\ WorkerTypeOK' /\ JobTypeOK' /\ OutsideTypeOK'
    BY <1>4 DEF DInitialPause, DResumed, TypeOK, WorkerTypeOK, JobTypeOK, OutsideTypeOK
  <2> QED BY <2>8, <2>9, <2>10 DEF TypeOK, ThreadTypeOK
<1>5. CASE DRecover \/ DPost \/ DIsolateRecover
  <2>1. UpdateRecovery
    BY <1>5 DEF DRecover, DPost, DIsolateRecover
  <2>2. /\ db' \in [Request -> Row] /\ unresolved' \in BOOLEAN /\ failed' \in BOOLEAN
        /\ future' \in [Request -> Reply] /\ queue' \in Seq(Request)
        /\ state' \in WorkerState /\ reconnect' \in Plan
    BY <2>1, UpdateRecoveryType
  <2>8. owner_busy' \in BOOLEAN
    BY <1>5, Zenon DEF DRecover, DPost, DIsolateRecover, TypeOK, ThreadTypeOK
  <2>9. /\ dpc' \in ThreadPc
        /\ UNCHANGED <<paused, stopping, ready, resume_future, handle, pending>>
    BY <1>5 DEF DRecover, DPost, DIsolateRecover, ThreadPc
  <2>10. db' \in [Request -> Row] /\ WorkerTypeOK' /\ JobTypeOK' /\ OutsideTypeOK'
    BY <1>5, <2>2 DEF DRecover, DPost, DIsolateRecover, TypeOK, WorkerTypeOK, JobTypeOK, OutsideTypeOK
  <2> QED BY <2>8, <2>9, <2>10, <2>2 DEF TypeOK, ThreadTypeOK
<1>6. CASE DSweep
  <2>1. PICK i \in DOMAIN queue, c \in ReplyCode : Discard(i, c)
    BY <1>6 DEF DSweep, ReplyCode
  <2>2. /\ db' \in [Request -> Row] /\ unresolved' \in BOOLEAN /\ failed' \in BOOLEAN
        /\ future' \in [Request -> Reply] /\ queue' \in Seq(Request)
        /\ state' \in WorkerState
    BY <2>1, DiscardType
  <2> QED BY <1>6, <2>2 DEF DSweep, TypeOK, WorkerTypeOK, JobTypeOK, ThreadTypeOK, OutsideTypeOK
<1>7. CASE DChooseResume \/ DChooseProbe
  <2>8. owner_busy' \in BOOLEAN
    BY <1>7, Zenon DEF DChooseResume, DChooseProbe, TypeOK, ThreadTypeOK
  <2>9. /\ dpc' \in ThreadPc
        /\ UNCHANGED <<state, reconnect, paused, stopping, ready, resume_future, handle, pending>>
    BY <1>7 DEF DChooseResume, DChooseProbe, ThreadPc
  <2>10. db' \in [Request -> Row] /\ WorkerTypeOK' /\ JobTypeOK' /\ OutsideTypeOK'
    BY <1>7 DEF DChooseResume, DChooseProbe, Command, WorkerPc, TypeOK, WorkerTypeOK, JobTypeOK, OutsideTypeOK
  <2> QED BY <2>8, <2>9, <2>10 DEF TypeOK, ThreadTypeOK
<1>8. CASE DChooseReconnect
  <2>1. reconnect' \in Plan
    BY <1>8 DEF DChooseReconnect, Begin, TypeOK, ThreadTypeOK, Plan
  <2>8. owner_busy' \in BOOLEAN /\ ready' \in BOOLEAN
    BY <1>8, Zenon DEF DChooseReconnect, TypeOK, ThreadTypeOK
  <2>9. /\ dpc' \in ThreadPc
        /\ UNCHANGED <<state, paused, stopping, resume_future, handle, pending>>
    BY <1>8 DEF DChooseReconnect, ThreadPc
  <2>10. db' \in [Request -> Row] /\ WorkerTypeOK' /\ JobTypeOK' /\ OutsideTypeOK'
    BY <1>8, <2>1 DEF DChooseReconnect, Command, WorkerPc, TypeOK, WorkerTypeOK, JobTypeOK, OutsideTypeOK
  <2> QED BY <2>8, <2>9, <2>10, <2>1 DEF TypeOK, ThreadTypeOK
<1>9. CASE DChooseDispatch
  <2>1. queue \in Seq(Request) /\ queue # <<>>
    BY <1>9 DEF DChooseDispatch, TypeOK, JobTypeOK
  <2>2. Head(queue) \in Request /\ Tail(queue) \in Seq(Request)
    BY <2>1, HeadTailProperties
  <2>3. steps' \in [request : Request \cup {NoRequest}, effect : Effect, error : ErrorCode]
    BY <1>9, <2>2 DEF DChooseDispatch, NoSteps, Effect, ErrorCode, TypeOK, WorkerTypeOK
  <2>8. owner_busy' \in BOOLEAN
    BY <1>9, Zenon DEF DChooseDispatch, TypeOK, ThreadTypeOK
  <2>9. /\ dpc' \in ThreadPc
        /\ UNCHANGED <<state, reconnect, paused, stopping, ready, resume_future, handle, pending>>
    BY <1>9 DEF DChooseDispatch, ThreadPc
  <2>10. db' \in [Request -> Row] /\ WorkerTypeOK' /\ JobTypeOK' /\ OutsideTypeOK'
    BY <1>9, <2>2, <2>3 DEF DChooseDispatch, Command, WorkerPc, TypeOK, WorkerTypeOK, JobTypeOK, OutsideTypeOK
  <2> QED BY <2>8, <2>9, <2>10, <2>2, <2>3 DEF TypeOK, ThreadTypeOK
<1>10. CASE DExecuted
  <2> DEFINE R == [q \in {active} |-> wreply]
  <2>1. PICK o \in Storage : Answered({active}, R, [q \in {active} |-> o])
    BY <1>10 DEF DExecuted
  <2>2. R \in [{active} -> Reply] /\ [q \in {active} |-> o] \in [{active} -> Storage]
    BY DEF TypeOK, WorkerTypeOK
  <2> HIDE DEF R
  <2>3. /\ db' \in [Request -> Row] /\ unresolved' \in BOOLEAN /\ failed' \in BOOLEAN
        /\ future' \in [Request -> Reply]
    BY <2>1, <2>2, AnsweredType
  <2>4. state' \in WorkerState
    BY <1>10, MarkedType DEF DExecuted, TypeOK, ThreadTypeOK
  <2> QED BY <1>10, <2>3, <2>4 DEF DExecuted, ThreadPc, TypeOK, WorkerTypeOK, JobTypeOK, ThreadTypeOK, OutsideTypeOK
<1>11. CASE DStopAcked \/ DJoin
  <2>8. handle' \in BOOLEAN
    BY <1>11, Zenon DEF DStopAcked, DJoin, TypeOK, ThreadTypeOK
  <2>9. /\ dpc' \in ThreadPc
        /\ UNCHANGED <<state, reconnect, paused, stopping, ready, owner_busy, resume_future, pending>>
    BY <1>11 DEF DStopAcked, DJoin, ThreadPc
  <2>10. db' \in [Request -> Row] /\ WorkerTypeOK' /\ JobTypeOK' /\ OutsideTypeOK'
    BY <1>11, ZenonT(60) DEF DStopAcked, DJoin, TypeOK, WorkerTypeOK, JobTypeOK, OutsideTypeOK
  <2> QED BY <2>8, <2>9, <2>10 DEF TypeOK, ThreadTypeOK
<1>12. CASE DRestartFails
  <2>1. rtError' \in BOOLEAN
    BY <1>12, Zenon DEF DRestartFails, TypeOK, OutsideTypeOK
  <2>2. dpc' \in ThreadPc /\ UNCHANGED <<httpVars, controlVars, boots>>
    BY <1>12 DEF DRestartFails, ThreadPc
  <2>3. db' \in [Request -> Row] /\ WorkerTypeOK' /\ JobTypeOK' /\ ThreadTypeOK'
    BY <1>12, <2>2 DEF DRestartFails, TypeOK, WorkerTypeOK, JobTypeOK, ThreadTypeOK
  <2> QED BY <2>1, <2>2, <2>3 DEF TypeOK, OutsideTypeOK
<1>13. CASE DExit
  BY <1>13 DEF DExit, Command, ThreadPc, WorkerPc,
              TypeOK, WorkerTypeOK, JobTypeOK, ThreadTypeOK, OutsideTypeOK
<1>14. CASE DIsolate
  <2>1. pending' \in Reply
    BY <1>14, InterruptedType, NotRunType
    DEF DIsolate, Reply, ReplyCode, ErrorCode, Effect, WRITE_ACTIONS, TypeOK
  <2>2. state' \in WorkerState
    BY <1>14 DEF DIsolate, TypeOK, ThreadTypeOK, WorkerState, ErrorCode
  <2> QED BY <1>14, <2>1, <2>2 DEF DIsolate, ThreadPc,
              TypeOK, WorkerTypeOK, JobTypeOK, ThreadTypeOK, OutsideTypeOK
<1>15. CASE DIsolateSave
  <2> DEFINE V == {active} \ {NoRequest}
             R == [q \in V |-> pending]
  <2>1. PICK o \in [V -> Storage] : Answered(V, R, o)
    BY <1>15 DEF DIsolateSave
  <2>2. V \subseteq Request /\ R \in [V -> Reply]
    BY DEF TypeOK, JobTypeOK, ThreadTypeOK
  <2> HIDE DEF V, R
  <2>3. /\ db' \in [Request -> Row] /\ unresolved' \in BOOLEAN /\ failed' \in BOOLEAN
        /\ future' \in [Request -> Reply]
    BY <2>1, <2>2, AnsweredType
  <2>4. state' \in WorkerState
    BY <1>15, MarkedType DEF DIsolateSave, TypeOK, ThreadTypeOK
  <2> QED BY <1>15, <2>3, <2>4 DEF DIsolateSave, ThreadPc,
              TypeOK, WorkerTypeOK, JobTypeOK, ThreadTypeOK, OutsideTypeOK
<1>16. CASE DDrain
  <2> DEFINE R == [q \in Queued |-> NotRun("SERVICE_NOT_READY")]
  <2>1. PICK o \in [Queued -> Storage] : Answered(Queued, R, o)
    BY <1>16 DEF DDrain
  <2>2. Queued \subseteq Request
    BY DEF Queued, ToSet, TypeOK, JobTypeOK
  <2>3. R \in [Queued -> Reply]
    BY NotRunType DEF ReplyCode, ErrorCode
  <2> HIDE DEF R
  <2>4. /\ db' \in [Request -> Row] /\ unresolved' \in BOOLEAN /\ failed' \in BOOLEAN
        /\ future' \in [Request -> Reply]
    BY <2>1, <2>2, <2>3, AnsweredType
  <2>5. state' \in WorkerState
    BY <1>16, MarkedType DEF DDrain, TypeOK, ThreadTypeOK
  <2>6. queue' \in Seq(Request)
    BY <1>16 DEF DDrain
  <2> QED BY <1>16, <2>4, <2>5, <2>6 DEF DDrain, ThreadPc,
              TypeOK, WorkerTypeOK, JobTypeOK, ThreadTypeOK, OutsideTypeOK
<1> QED BY <1>1, <1>2, <1>3, <1>4, <1>5, <1>6, <1>7, <1>8, <1>9, <1>10, <1>11, <1>12, <1>13,
           <1>14, <1>15, <1>16 DEF DNext

\* Every step of an HTTP handler preserves the types.
LEMMA HttpStepType == ASSUME TypeOK, HNext PROVE TypeOK'
<1>1. PICK r \in Request :
    \/ Arrive(r) \/ SubmitDropped(r) \/ SubmitStorage(r) \/ SubmitReplay(r) \/ SubmitReject(r)
    \/ SubmitAdmit(r) \/ SubmitNotSaved(r) \/ Drop(r) \/ Leave(r) \/ Expire(r) \/ Respond(r)
  BY DEF HNext
<1> DEFINE Written == /\ db' \in [Request -> Row] /\ unresolved' \in BOOLEAN /\ failed' \in BOOLEAN
                      /\ future' \in [Request -> Reply] /\ queue' \in Seq(Request)
                      /\ state' \in WorkerState
           Http == /\ cancelled' \in [Request -> BOOLEAN]
                   /\ http' \in [Request -> {"idle", "admit", "wait", "left", "leaving", "done", "lost"}]
                   /\ resp' \in [Request -> [of : Request \cup {NoRequest}, reply : Reply]]
<1>2. ASSUME HttpOnly, Written, Http PROVE TypeOK'
  BY <1>2 DEF HttpOnly, workerVars, flagVars, linkVars, controlVars, envVars,
              TypeOK, WorkerTypeOK, JobTypeOK, ThreadTypeOK, OutsideTypeOK
<1>3. ASSUME Stored PROVE Written
  BY <1>3 DEF Stored, saveVars, TypeOK, JobTypeOK, ThreadTypeOK
<1>4. ASSUME UNCHANGED <<saveVars, state, queue, future>>, db' \in [Request -> Row] PROVE Written
  BY <1>4 DEF saveVars, TypeOK, JobTypeOK, ThreadTypeOK
<1>5. ASSUME NEW q \in Request, NEW reply \in Reply, Return(r, q, reply) PROVE Http
  BY <1>5 DEF Return, TypeOK, OutsideTypeOK
<1>6. LookedUp(r) \in [Request -> Row] /\ Admit(db, r) \in [Request -> Row] /\ Prune(db) \in [Request -> Row]
  <2>1. Prune(db) \in [Request -> Row]
    BY PruneType DEF TypeOK
  <2>2. [NoRow EXCEPT !.phase = "queued"] \in Row
    BY DEF NoRow, Row, NoReply, Reply, ReplyCode, ErrorCode, Effect, Phase
  <2> QED BY <2>1, <2>2 DEF LookedUp, Admit, TypeOK
<1>7. CASE Arrive(r)
  <2>1. Http
    BY <1>7 DEF Arrive, TypeOK, OutsideTypeOK
  <2> QED BY <1>2, <1>3, <1>7, <2>1 DEF Arrive
<1>8. CASE SubmitDropped(r)
  <2>1. Http
    BY <1>5, <1>8, NotRunType DEF SubmitDropped, ReplyCode
  <2> QED BY <1>2, <1>3, <1>8, <2>1 DEF SubmitDropped, InSubmit
<1>9. CASE SubmitStorage(r)
  <2>1. Http
    BY <1>5, <1>9, NotRunType DEF SubmitStorage, ReplyCode, ErrorCode
  <2>2. db' \in [Request -> Row]
    BY <1>6, <1>9 DEF SubmitStorage, Commit, TypeOK
  <2> QED BY <1>2, <1>4, <1>9, <2>1, <2>2 DEF SubmitStorage, InSubmit
<1>10. CASE SubmitReplay(r)
  <2>1. PICK q \in Holders(LookedUp(r), r) :
           Return(r, Replay(LookedUp(r), r, q).of, Replay(LookedUp(r), r, q).reply)
    BY <1>10 DEF SubmitReplay
  <2>2. q \in Request
    BY DEF Holders
  <2>3. Replay(LookedUp(r), r, q).of = q /\ Replay(LookedUp(r), r, q).reply \in Reply
    BY <1>6, <2>2 DEF Replay, Row, Reply, ReplyCode, Effect
  <2>4. Http
    BY <1>5, <2>1, <2>2, <2>3
  <2>5. db' \in [Request -> Row]
    BY <1>6, <1>10 DEF SubmitReplay
  <2> QED BY <1>2, <1>4, <1>10, <2>4, <2>5 DEF SubmitReplay, InSubmit
<1>11. CASE SubmitReject(r)
  <2>1. Http
    BY <1>5, <1>11, NotRunType DEF SubmitReject, ReplyCode, ErrorCode
  <2>2. db' \in [Request -> Row]
    BY <1>6, <1>11 DEF SubmitReject
  <2> QED BY <1>2, <1>4, <1>11, <2>1, <2>2 DEF SubmitReject, InSubmit
<1>12. CASE SubmitAdmit(r)
  <2>1. Http
    BY <1>12 DEF SubmitAdmit, TypeOK, OutsideTypeOK
  <2>2. db' \in [Request -> Row]
    BY <1>6, <1>12 DEF SubmitAdmit, TypeOK
  <2>3. queue' \in Seq(Request)
    BY <1>12 DEF SubmitAdmit, TypeOK, JobTypeOK
  <2>4. Written
    BY <1>12, <2>2, <2>3 DEF SubmitAdmit, saveVars, TypeOK, JobTypeOK, ThreadTypeOK
  <2> QED BY <1>2, <1>12, <2>1, <2>4 DEF SubmitAdmit, InSubmit
<1>13. CASE SubmitNotSaved(r)
  <2>1. Http
    BY <1>5, <1>13, NotRunType DEF SubmitNotSaved, ReplyCode, ErrorCode
  <2>2. db' \in [Request -> Row]
    BY <1>6, <1>13 DEF SubmitNotSaved, Commit
  <2> QED BY <1>2, <1>4, <1>13, <2>1, <2>2 DEF SubmitNotSaved, InSubmit
<1>14. CASE Drop(r)
  <2>1. cancelled' \in [Request -> BOOLEAN]
    BY <1>14 DEF Drop, TypeOK, OutsideTypeOK
  <2>2. resp' \in [Request -> [of : Request \cup {NoRequest}, reply : Reply]]
    <3>1. NotRun("REQUEST_CANCELLED") \in Reply
      BY NotRunType DEF ReplyCode
    <3> QED BY <1>14, <3>1 DEF Drop, LeftEarly, TypeOK, OutsideTypeOK
  <2>3. http' \in [Request -> {"idle", "admit", "wait", "left", "leaving", "done", "lost"}]
    BY <1>14 DEF Drop, TypeOK, OutsideTypeOK
  <2>4. Http
    BY <2>1, <2>2, <2>3
  <2> QED BY <1>2, <1>3, <1>14, <2>4 DEF Drop
<1>15. CASE Leave(r)
  <2>1. Http
    BY <1>15 DEF Leave, LeftEffect, TypeOK, OutsideTypeOK, Reply, ReplyCode, Effect
  <2>2. Written
    <3>1. CASE Stored
      BY <1>3, <3>1
    <3>2. ASSUME NEW i \in DOMAIN queue, Discard(i, "REQUEST_CANCELLED") PROVE Written
      BY <3>2, DiscardType DEF ReplyCode
    <3> QED BY <1>15, <3>1, <3>2 DEF Leave
  <2> QED BY <1>2, <1>15, <2>1, <2>2 DEF Leave
<1>16. CASE Expire(r)
  <2>1. PICK i \in DOMAIN queue : Discard(i, "QUEUE_TIMEOUT")
    BY <1>16 DEF Expire
  <2>2. Written
    BY <2>1, DiscardType DEF ReplyCode
  <2>3. Http
    BY <1>16 DEF Expire, httpVars, TypeOK, OutsideTypeOK
  <2> QED BY <1>2, <1>16, <2>2, <2>3 DEF Expire
<1>17. CASE Respond(r)
  <2>1. Http
    BY <1>5, <1>17 DEF Respond, TypeOK, JobTypeOK
  <2> QED BY <1>2, <1>3, <1>17, <2>1 DEF Respond
<1> QED BY <1>1, <1>7, <1>8, <1>9, <1>10, <1>11, <1>12, <1>13, <1>14, <1>15, <1>16, <1>17

\* Every step of the control thread preserves the types.
LEMMA ControlStepType == ASSUME TypeOK, CNext PROVE TypeOK'
<1>1. /\ paused' \in BOOLEAN /\ resume_future' \in BOOLEAN
      /\ ctl' \in {"idle", "pausing", "resuming"}
  BY Zenon DEF CNext, PauseCall, PauseReturn, PauseFails, ResumeCall, ResumeReturn, ResumeTimeout,
         TypeOK, ThreadTypeOK, OutsideTypeOK
<1>2. human' \in BOOLEAN /\ held' \in BOOLEAN
  BY Zenon DEF CNext, PauseCall, PauseReturn, PauseFails, ResumeCall, ResumeReturn, ResumeTimeout,
         TypeOK, OutsideTypeOK
<1>3. ControlOnly
  BY DEF CNext, PauseCall, PauseReturn, PauseFails, ResumeCall, ResumeReturn, ResumeTimeout
<1> QED BY <1>1, <1>2, <1>3
        DEF ControlOnly, workerVars, jobVars, saveVars, viewVars, httpVars, envVars,
            TypeOK, WorkerTypeOK, JobTypeOK, ThreadTypeOK, OutsideTypeOK

\* Time, stop, runtime errors, maintenance, crash and restart preserve the types.
LEMMA EnvironmentStepType == ASSUME TypeOK, ENext PROVE TypeOK'
<1> USE DEF jobVars, saveVars, viewVars, flagVars, linkVars, httpVars, controlVars, envVars,
            outsideVars, workerVars
<1>1. ASSUME NEW r \in Request, Tick(r) PROVE TypeOK'
  <2>1. late' \in [Request -> BOOLEAN]
    BY <1>1 DEF Tick, TypeOK, WorkerTypeOK
  <2> QED BY <1>1, <2>1 DEF Tick, TypeOK, WorkerTypeOK, JobTypeOK, ThreadTypeOK, OutsideTypeOK
<1>2. ASSUME NEW r \in Request, Age(r) PROVE TypeOK'
  <2>1. db' \in [Request -> Row]
    BY <1>2 DEF Age, TypeOK, Row
  <2> QED BY <1>2, <2>1 DEF Age, TypeOK, WorkerTypeOK, JobTypeOK, ThreadTypeOK, OutsideTypeOK
<1>3. CASE Stop
  <2>1. stopping' \in BOOLEAN
    BY <1>3, Zenon DEF Stop
  <2>2. UNCHANGED <<db, workerVars, late, dpc, jobVars, saveVars, viewVars, paused, ready, owner_busy,
                    linkVars, outsideVars>>
    BY <1>3 DEF Stop
  <2> QED BY <2>1, <2>2 DEF TypeOK, WorkerTypeOK, JobTypeOK, ThreadTypeOK, OutsideTypeOK
<1>4. CASE RuntimeFail
  <2>1. rtError' \in BOOLEAN
    BY <1>4, Zenon DEF RuntimeFail
  <2>2. UNCHANGED <<db, workerVars, late, dpc, jobVars, saveVars, viewVars, flagVars, linkVars,
                    httpVars, controlVars, boots>>
    BY <1>4 DEF RuntimeFail
  <2> QED BY <2>1, <2>2 DEF TypeOK, WorkerTypeOK, JobTypeOK, ThreadTypeOK, OutsideTypeOK
<1>5. CASE Maintain
  <2>1. rtError' \in BOOLEAN /\ stopping' \in BOOLEAN
    BY <1>5, Zenon DEF Maintain, TypeOK, ThreadTypeOK, OutsideTypeOK
  <2>2. UNCHANGED <<workerVars, late, dpc, jobVars, saveVars, viewVars, paused, ready, owner_busy,
                    linkVars, httpVars, controlVars, boots>>
    BY <1>5 DEF Maintain
  <2>3. db' \in [Request -> Row]
    BY <1>5, PruneType DEF Maintain, Commit, TypeOK
  <2> QED BY <2>1, <2>2, <2>3 DEF TypeOK, WorkerTypeOK, JobTypeOK, ThreadTypeOK, OutsideTypeOK
<1>6. CASE Off
  <2>1. db' \in [Request -> Row] /\ WorkerTypeOK'
    <3>1. exec' \in ExecutorType
      BY <1>6 DEF Off, NewExecutor, ExecutorType, ErrorCode
    <3>2. steps' \in [request : Request \cup {NoRequest}, effect : Effect, error : ErrorCode]
      BY <1>6 DEF Off, NoSteps, Effect, ErrorCode
    <3>3. msg' \in BOOLEAN /\ exiting' \in BOOLEAN
      BY <1>6, Zenon DEF Off
    <3>4. wpc' \in WorkerPc /\ wreply' \in Reply /\ UNCHANGED <<db, late, sent>>
      BY <1>6, NoReplyType DEF Off, WorkerPc
    <3> QED BY <3>1, <3>2, <3>3, <3>4 DEF TypeOK, WorkerTypeOK, ExecutorType
  <2>2. JobTypeOK'
    <3>1. failed' \in BOOLEAN /\ unresolved' \in BOOLEAN
      BY <1>6, Zenon DEF Off
    <3>2. queue' = <<>> /\ active' = NoRequest /\ future' = future
      BY <1>6 DEF Off
    <3> QED BY <3>1, <3>2 DEF TypeOK, JobTypeOK
  <2>3. ThreadTypeOK'
    <3>1. paused' \in BOOLEAN /\ stopping' \in BOOLEAN /\ ready' \in BOOLEAN /\ owner_busy' \in BOOLEAN
          /\ resume_future' \in BOOLEAN /\ handle' \in BOOLEAN
      BY <1>6, Zenon DEF Off
    <3>2. state' \in WorkerState
      BY <1>6 DEF Off, InitialState, WorkerState, ErrorCode
    <3>3. reconnect' \in Plan
      BY <1>6 DEF Off, NewPlan, Plan
    <3>4. dpc' \in ThreadPc /\ pending' \in Reply
      BY <1>6, NoReplyType DEF Off, ThreadPc
    <3> QED BY <3>1, <3>2, <3>3, <3>4 DEF ThreadTypeOK
  <2>4. OutsideTypeOK'
    <3>1. human' \in BOOLEAN /\ held' \in BOOLEAN /\ rtError' \in BOOLEAN
      BY <1>6, Zenon DEF Off
    <3>2. /\ http' \in [Request -> {"idle", "admit", "wait", "left", "leaving", "done", "lost"}]
          /\ ctl' = "idle" /\ UNCHANGED <<cancelled, resp, boots>>
      BY <1>6 DEF Off, TypeOK, OutsideTypeOK
    <3> QED BY <3>1, <3>2 DEF TypeOK, OutsideTypeOK
  <2> QED BY <2>1, <2>2, <2>3, <2>4 DEF TypeOK
<1>7. CASE Boot
  <2>1. PICK o \in Storage :
           /\ db' = Commit(o, db, Recover(db))
           /\ dpc' = IF o = "ok" THEN "window" ELSE "off"
           /\ unresolved' = (o = "ok" /\ Unresolved(db'))
           /\ held' = unresolved'
    BY <1>7 DEF Boot
  <2>2. db' \in [Request -> Row] /\ dpc' \in ThreadPc
    BY <2>1, RecoverType DEF Commit, TypeOK, ThreadPc
  <2>3. unresolved' \in BOOLEAN /\ held' \in BOOLEAN
    BY <2>1, Zenon
  <2>4. boots' \in Nat
    BY <1>7 DEF Boot, TypeOK, OutsideTypeOK
  <2>5. UNCHANGED <<workerVars, late, jobVars, failed, viewVars, flagVars, linkVars, httpVars, ctl,
                    human, rtError>>
    BY <1>7 DEF Boot
  <2> QED BY <2>2, <2>3, <2>4, <2>5
          DEF TypeOK, WorkerTypeOK, JobTypeOK, ThreadTypeOK, OutsideTypeOK
<1> QED BY <1>1, <1>2, <1>3, <1>4, <1>5, <1>6, <1>7 DEF ENext

\* The first start is typed.
LEMMA InitType == Init => TypeOK
<1> SUFFICES ASSUME Init PROVE TypeOK
  OBVIOUS
<1>1. db \in [Request -> Row]
  BY NoReplyType DEF Init, NoRow, Row, Phase, Effect
<1>2. WorkerTypeOK
  <2>1. exec \in ExecutorType
    BY DEF Init, ExecutorInit, NewExecutor, ExecutorType, ErrorCode
  <2>2. steps \in [request : Request \cup {NoRequest}, effect : Effect, error : ErrorCode]
    BY DEF Init, ExecutorInit, NoSteps, Effect, ErrorCode
  <2>3. msg \in BOOLEAN /\ exiting \in BOOLEAN
    BY Zenon DEF Init, ExecutorInit
  <2>4. wpc \in WorkerPc /\ wreply \in Reply /\ sent \in [Request -> Nat]
    BY NoReplyType DEF Init, ExecutorInit, WorkerPc
  <2>5. late \in [Request -> BOOLEAN]
    BY DEF Init, ExecutorInit
  <2> QED BY <2>1, <2>2, <2>3, <2>4, <2>5 DEF WorkerTypeOK, ExecutorType
<1>3. JobTypeOK
  <2>1. failed \in BOOLEAN /\ unresolved \in BOOLEAN
    BY Zenon DEF Init
  <2>2. queue \in Seq(Request) /\ active \in {NoRequest} /\ future \in [Request -> Reply]
    BY NoReplyType DEF Init
  <2> QED BY <2>1, <2>2 DEF JobTypeOK
<1>4. ThreadTypeOK
  <2>1. paused \in BOOLEAN /\ stopping \in BOOLEAN /\ ready \in BOOLEAN /\ owner_busy \in BOOLEAN
        /\ resume_future \in BOOLEAN /\ handle \in BOOLEAN
    BY Zenon DEF Init
  <2>2. state \in WorkerState
    BY DEF Init, InitialState, WorkerState, ErrorCode
  <2>3. reconnect \in Plan
    BY DEF Init, NewPlan, Plan
  <2>4. dpc \in ThreadPc /\ pending \in Reply
    BY NoReplyType DEF Init, ThreadPc
  <2> QED BY <2>1, <2>2, <2>3, <2>4 DEF ThreadTypeOK
<1>5. OutsideTypeOK
  <2>1. human \in BOOLEAN /\ held \in BOOLEAN /\ rtError \in BOOLEAN
    BY Zenon DEF Init
  <2>2. cancelled \in [Request -> BOOLEAN]
    BY DEF Init
  <2>3. /\ http \in [Request -> {"idle", "admit", "wait", "left", "leaving", "done", "lost"}]
        /\ resp \in [Request -> [of : Request \cup {NoRequest}, reply : Reply]]
        /\ ctl = "idle" /\ boots \in Nat
    BY NoReplyType DEF Init, NoResponse
  <2> QED BY <2>1, <2>2, <2>3 DEF OutsideTypeOK
<1> QED BY <1>1, <1>2, <1>3, <1>4, <1>5 DEF TypeOK

\* Every step of the composed system preserves the types.
LEMMA NextType == TypeOK /\ [Next]_vars => TypeOK'
<1> SUFFICES ASSUME TypeOK, [Next]_vars PROVE TypeOK'
  OBVIOUS
<1>1. CASE DNext
  BY <1>1, ThreadStepType
<1>2. CASE WNext
  <2>1. db' \in [Request -> Row] /\ WorkerTypeOK'
    BY <1>2, WorkerStepType DEF WNext
  <2> QED BY <1>2, <2>1 DEF WNext, jobVars, saveVars, viewVars, flagVars, linkVars, httpVars,
             controlVars, envVars, outsideVars, TypeOK, JobTypeOK, ThreadTypeOK, OutsideTypeOK
<1>3. CASE HNext
  BY <1>3, HttpStepType
<1>4. CASE CNext
  BY <1>4, ControlStepType
<1>5. CASE ENext
  BY <1>5, EnvironmentStepType
<1>6. CASE UNCHANGED vars
  BY <1>6 DEF vars, jobVars, saveVars, viewVars, flagVars, linkVars, httpVars, workerVars,
             controlVars, envVars, outsideVars, TypeOK, WorkerTypeOK, JobTypeOK, ThreadTypeOK, OutsideTypeOK
<1> QED BY <1>1, <1>2, <1>3, <1>4, <1>5, <1>6 DEF Next

\* Type correctness of the composed system (dispatch.py, worker.py, executor.py,
\* journal.py), for all requests, keys, faults and queue capacities: in particular
\* every reply saved or told has one of the codes and effects of the API.
THEOREM TypeCorrect == Spec => []TypeOK
  BY InitType, NextType, PTL DEF Spec

-----------------------------------------------------------------------------
\* The first half of the inductive invariant of DispatcherInvariant.tla: Turns (the dispatcher
\* thread and the worker take turns) and Jobs (a job is queued once, then active, and a request
\* that was not admitted has left no trace).  One lemma per process; the theorem that joins them is
\* Invariant in DispatcherProofs.tla.

\* Steps of a write between its dispatch and journal.finish.
Writing ==
  \/ WPrepareFails \/ WPrepare \/ WStarted \/ WImport \/ WImportRejected \/ WArm \/ WKey
  \/ WCapture \/ WSubmitted \/ WConfirm \/ WConfirmed \/ WNoDialog \/ WVerify \/ WCleanup

\* journal.phase from inside a step (the Save operator) touches the row of the request being executed
\* and nothing else, and the worker goes on only when the row was there and the commit succeeded.
LEMMA SaveFrame ==
  ASSUME TypeOK, NEW p \in Phase, NEW e \in Effect, NEW n, Save(p, e, n)
  PROVE  /\ steps'.request = steps.request
         /\ steps'.effect = IF e = "none" THEN steps.effect ELSE e
         /\ UNCHANGED <<msg, wreply, exec, sent>>
         /\ wpc' \in {n, "cleanup"}
         /\ \A q \in Request : q # steps.request => db'[q] = db[q]
         /\ \A q \in Request : db'[q] = db[q] \/ db'[q] = SaveRow(db[q], p, e)
         /\ wpc' # "cleanup" /\ steps.request \in Request =>
              db'[steps.request] = SaveRow(db[steps.request], p, e) /\ db[steps.request].phase # "absent"
<1>1. PICK o \in Storage :
         /\ db' = Commit(o, db, SavePhase(db, steps.request, p, e))
         /\ steps' = [steps EXCEPT !.effect = IF e = "none" THEN @ ELSE e,
                              !.error = IF o = "ok" /\ db[steps.request].phase # "absent" THEN @
                                        ELSE "STORAGE_UNAVAILABLE"]
         /\ wpc' = IF o = "ok" /\ db[steps.request].phase # "absent" THEN n ELSE "cleanup"
         /\ UNCHANGED <<msg, wreply, exec, sent>>
  BY DEF Save, Silent
<1>2. /\ steps'.request = steps.request
      /\ steps'.effect = IF e = "none" THEN steps.effect ELSE e
  BY <1>1 DEF TypeOK, WorkerTypeOK
<1>3. \A q \in Request : IF q = steps.request
                         THEN SavePhase(db, steps.request, p, e)[q] = SaveRow(db[q], p, e)
                         ELSE SavePhase(db, steps.request, p, e)[q] = db[q]
  BY DEF SavePhase, TypeOK
<1>4. /\ \A q \in Request : q # steps.request => db'[q] = db[q]
      /\ \A q \in Request : db'[q] = db[q] \/ db'[q] = SaveRow(db[q], p, e)
  BY <1>1, <1>3 DEF Commit
<1>5. wpc' # "cleanup" /\ steps.request \in Request =>
        db'[steps.request] = SaveRow(db[steps.request], p, e) /\ db[steps.request].phase # "absent"
  BY <1>1, <1>3 DEF Commit
<1> QED BY <1>1, <1>2, <1>4, <1>5

\* A GUI failure during a step records the error and unwinds to cleanup without writing anything.
LEMMA TroubleFrame ==
  ASSUME TypeOK, Trouble \/ Unproven \/ \E c \in ErrorCode : Raise(c, exec)
  PROVE  /\ steps'.request = steps.request /\ steps'.effect = steps.effect
         /\ UNCHANGED <<msg, wreply, sent, db>>
         /\ wpc' = "cleanup"
<1>1. PICK c, x : Raise(c, x)
  BY DEF Trouble, Unproven
<1> QED BY <1>1 DEF Raise, Silent, TypeOK, WorkerTypeOK

\* Every step of a write concerns only the request the worker holds, and no step leads back from
\* "after the key press" to "before the key press".
LEMMA WritingFrame ==
  ASSUME TypeOK, Writing
  PROVE  /\ steps'.request = steps.request
         /\ UNCHANGED msg
         /\ wpc \in AtWork \ {"finish"} /\ wpc' \in AtWork \ {"execute"}
         /\ wpc = "execute" => Kind[steps.request] # "query"
         /\ \A q \in Request : q # steps.request => db'[q] = db[q] /\ sent'[q] = sent[q]
         /\ wpc' \in BeforeKey \cup Reading => wpc \in BeforeKey \cup Reading
<1> USE DEF AtWork, BeforeKey, Reading
<1>1. CASE WPrepareFails
  BY <1>1 DEF WPrepareFails, At, TypeOK, WorkerTypeOK
<1>2. CASE WPrepare
  BY <1>2, SaveFrame, TroubleFrame DEF WPrepare, At, Phase, Effect, ErrorCode
<1>3. CASE WStarted
  BY <1>3, SaveFrame, TroubleFrame DEF WStarted, At, Phase, Effect
<1>4. CASE WImport
  BY <1>4, SaveFrame, TroubleFrame DEF WImport, At, Phase, Effect
<1>5. CASE WImportRejected
  <2>1. steps'.request = steps.request
    BY <1>5 DEF WImportRejected, TypeOK, WorkerTypeOK
  <2>2. \A q \in Request : q # steps.request => db'[q] = db[q]
    BY <1>5 DEF WImportRejected, Commit, SavePhase, TypeOK
  <2> QED BY <1>5, <2>1, <2>2 DEF WImportRejected, At, Silent
<1>6. CASE WArm
  BY <1>6, SaveFrame, TroubleFrame DEF WArm, At, Phase, Effect
<1>7. CASE WKey \/ WConfirm
  <2>1. steps'.request = steps.request
    BY <1>7 DEF WKey, WConfirm, TypeOK, WorkerTypeOK
  <2>2. \A q \in Request : q # steps.request => sent'[q] = sent[q]
    BY <1>7 DEF WKey, WConfirm, Deliver, TypeOK, WorkerTypeOK
  <2> QED BY <1>7, <2>1, <2>2 DEF WKey, WConfirm, At, Silent
<1>8. CASE WCapture
  BY <1>8, SaveFrame, TroubleFrame DEF WCapture, At, Phase, Effect
<1>9. CASE WSubmitted
  BY <1>9, SaveFrame, TroubleFrame DEF WSubmitted, At, Phase, Effect
<1>10. CASE WConfirmed
  BY <1>10, SaveFrame DEF WConfirmed, At, Phase, Effect
<1>11. CASE WNoDialog
  BY <1>11, TroubleFrame DEF WNoDialog, At, Silent, ErrorCode
<1>12. CASE WVerify
  BY <1>12, SaveFrame, TroubleFrame DEF WVerify, At, Silent, Phase, Effect
<1>13. CASE WCleanup
  BY <1>13 DEF WCleanup, At, TypeOK, WorkerTypeOK
<1> QED BY <1>1, <1>2, <1>3, <1>4, <1>5, <1>6, <1>7, <1>8, <1>9, <1>10, <1>11, <1>12, <1>13 DEF Writing

\* The worker's own steps keep the turn taking between the dispatcher thread and the worker.
LEMMA WorkerTurns ==
  ASSUME TypeOK, Turns, WStep, UNCHANGED <<dpc, queue, active>>
  PROVE  Turns'
<1> USE DEF Turns, Quiet, Isolated, BeforeKey, Reading, AtWork, Replied
<1>1. CASE WStartup \/ WProbe \/ WResume
  BY <1>1 DEF WStartup, WProbe, WResume, Send
<1>2. CASE WStop \/ WExit \/ WDie
  BY <1>2 DEF WStop, WExit, WDie
<1>3. CASE WReject \/ WQuery \/ WFinish
  BY <1>3 DEF WReject, WQuery, WFinish, At, Send
<1>4. CASE Writing
  BY <1>4, WritingFrame DEF WRITE_ACTIONS
<1> QED BY <1>1, <1>2, <1>3, <1>4 DEF WStep, Writing


\* The dispatcher thread's steps keep the turn taking: it commands only a worker that is waiting.
LEMMA ThreadTurns == ASSUME TypeOK, Turns, DNext PROVE Turns'
<1> USE DEF Turns, Quiet, Isolated, BeforeKey, Reading, AtWork, Replied, workerVars, jobVars, linkVars,
            Goto, Command
<1>1. CASE DSpawn \/ DNoWindow \/ DStarted \/ DInitialPause
  BY <1>1 DEF DSpawn, DNoWindow, DStarted, DInitialPause
<1>2. CASE DRecover \/ DSweep \/ DSweepDone \/ DPost
  BY <1>2 DEF DRecover, DSweep, DSweepDone, DPost
<1>3. CASE DChooseResume \/ DChooseReconnect \/ DChooseIdle \/ DChooseProbe
  BY <1>3 DEF DChooseResume, DChooseReconnect, DChooseIdle, DChooseProbe
<1>4. CASE DChooseDispatch
  <2>1. Head(queue) \in Request
    BY <1>4, HeadTailProperties DEF DChooseDispatch, TypeOK, JobTypeOK
  <2>2. wpc = "idle" => steps'.request = Head(queue)
    BY <1>4 DEF DChooseDispatch, NoSteps
  <2> QED BY <1>4, <2>1, <2>2 DEF DChooseDispatch
<1>5. CASE DReceive \/ DLost \/ DResumed \/ DExecuted
  BY <1>5 DEF DReceive, DLost, DResumed, DExecuted
<1>6. CASE DStopAcked \/ DJoin \/ DRestart \/ DRestartFails \/ DExit
  BY <1>6 DEF DStopAcked, DJoin, DRestart, DRestartFails, DExit
<1>7. CASE DIsolate \/ DIsolateSave \/ DIsolateRecover \/ DDrain
  BY <1>7 DEF DIsolate, DIsolateSave, DIsolateRecover, DDrain
<1> QED BY <1>1, <1>2, <1>3, <1>4, <1>5, <1>6, <1>7 DEF DNext

\* HTTP handlers, the control service, timers and the supervisor do not disturb the turn taking.
LEMMA OutsideTurns == ASSUME TypeOK, Turns, HNext \/ CNext \/ ENext PROVE Turns'
<1> USE DEF Turns, Quiet, Isolated, BeforeKey, Reading, AtWork, Replied, workerVars, jobVars
<1>1. ASSUME NEW r \in Request,
             SubmitDropped(r) \/ SubmitStorage(r) \/ SubmitReplay(r) \/ SubmitReject(r)
             \/ SubmitAdmit(r) \/ SubmitNotSaved(r)
      PROVE  Turns'
  BY <1>1 DEF SubmitDropped, SubmitStorage, SubmitReplay, SubmitReject, SubmitAdmit, SubmitNotSaved,
              InSubmit, HttpOnly, Up, Stored
<1>2. ASSUME NEW r \in Request, Arrive(r) \/ Drop(r) \/ Leave(r) \/ Expire(r) \/ Respond(r)
      PROVE  Turns'
  BY <1>2 DEF Arrive, Drop, Leave, Expire, Respond, HttpOnly, Up
<1>3. CASE CNext
  BY <1>3 DEF CNext, PauseCall, PauseReturn, PauseFails, ResumeCall, ResumeReturn, ResumeTimeout,
              ControlOnly
<1>4. ASSUME NEW r \in Request, Tick(r) \/ Age(r) PROVE Turns'
  BY <1>4 DEF Tick, Age
<1>5. CASE Stop \/ RuntimeFail \/ Maintain
  BY <1>5 DEF Stop, RuntimeFail, Maintain
<1>6. CASE Off
  BY <1>6 DEF Off
<1>7. CASE Boot
  BY <1>7 DEF Boot
<1> QED BY <1>1, <1>2, <1>3, <1>4, <1>5, <1>6, <1>7 DEF HNext, ENext


\* Dispatcher._finish on a set V of jobs changes only their rows and futures, and only to the
\* given replies (Told may add that the save failed, never change the effect).
LEMMA AnsweredFrame ==
  ASSUME TypeOK, NEW V, NEW R \in [V -> Reply], NEW o \in [V -> Storage], Answered(V, R, o),
         NEW r \in Request
  PROVE  /\ r \notin V => db'[r] = db[r] /\ future'[r] = future[r]
         /\ r \in V => db'[r] = db[r] \/ db'[r] = FinishRow(db[r], R[r])
         /\ r \in V => future'[r] = future[r] \/ future'[r].effect = R[r].effect
<1>1. r \notin V => db'[r] = db[r] /\ future'[r] = future[r]
  BY DEF Answered
<1>2. r \in V => db'[r] = db[r] \/ db'[r] = FinishRow(db[r], R[r])
  BY DEF Answered, Commit
<1>3. r \in V => Told(r, R[r], o[r]).effect = R[r].effect
  BY DEF Told, Reply
<1>4. r \in V => future'[r] = future[r] \/ future'[r] = Told(r, R[r], o[r])
  BY DEF Answered
<1> QED BY <1>1, <1>2, <1>3, <1>4

\* Jobs leave the queue, and only their rows and futures change.
Dropping ==
  /\ IsInjective(queue') /\ queue' \in Seq(Request)
  /\ Queued' \subseteq Queued
  /\ \A r \in Request : (db'[r] = db[r] /\ future'[r] = future[r]) \/ (r \in Queued /\ r \notin Queued')

\* Emptying the queue leaves no queued job.
LEMMA EmptyQueue ==
  ASSUME queue' = <<>>
  PROVE  IsInjective(queue') /\ queue' \in Seq(Request) /\ Queued' = {}
  BY DEF IsInjective, Queued, ToSet

\* _update_recovery fails the whole queue or leaves it alone.
LEMMA UpdateRecoveryDrops ==
  ASSUME TypeOK, IsInjective(queue), UpdateRecovery
  PROVE  Dropping
<1> DEFINE base == IF rtError
              THEN [state EXCEPT !.blocked = TRUE, !.query_ready = FALSE, !.trading_ready = FALSE]
              ELSE state
           victims == IF base.blocked \/ failed \/ ~base.query_ready THEN Queued ELSE {}
           R == [r \in victims |-> NotRun("SERVICE_NOT_READY")]
<1>1. PICK o \in [victims -> Storage] :
        /\ Answered(victims, R, o)
        /\ queue' = IF victims = {} THEN queue ELSE <<>>
  BY DEF UpdateRecovery
<1>2. R \in [victims -> Reply]
  BY NotRunType DEF ReplyCode, ErrorCode
<1>3. victims \in {Queued, {}}
  OBVIOUS
<1> HIDE DEF base, victims, R
<1>4. CASE victims = {}
  <2>1. \A r \in Request : db'[r] = db[r] /\ future'[r] = future[r]
    BY <1>1, <1>2, <1>4, AnsweredFrame
  <2>2. queue' = queue
    BY <1>1, <1>4
  <2> QED BY <2>1, <2>2 DEF Dropping, TypeOK, JobTypeOK, Queued
<1>5. CASE victims # {}
  <2>1. queue' = <<>> /\ victims = Queued
    BY <1>1, <1>3, <1>5
  <2>2. \A r \in Request : r \notin Queued => db'[r] = db[r] /\ future'[r] = future[r]
    BY <1>1, <1>2, <2>1, AnsweredFrame
  <2> QED BY <2>1, <2>2, EmptyQueue DEF Dropping
<1> QED BY <1>4, <1>5

\* Discarding a queued job (expiry, cancellation) removes exactly that job.
LEMMA DiscardDrops ==
  ASSUME TypeOK, IsInjective(queue), NEW i \in DOMAIN queue, NEW c \in ReplyCode, Discard(i, c)
  PROVE  Dropping /\ queue[i] \in Queued /\ queue[i] \notin Queued'
<1> DEFINE V == {queue[i]}
           R == [q \in V |-> NotRun(c)]
<1>1. PICK o \in Storage :
        /\ Answered(V, R, [q \in V |-> o])
        /\ queue' = RemoveAt(queue, i)
  BY DEF Discard
<1>2. R \in [V -> Reply] /\ [q \in V |-> o] \in [V -> Storage]
  BY NotRunType
<1>3. \A r \in Request : r # queue[i] => db'[r] = db[r] /\ future'[r] = future[r]
  <2> HIDE DEF R
  <2> QED BY <1>1, <1>2, AnsweredFrame
<1>4. /\ queue' \in Seq(Request) /\ IsInjective(queue')
      /\ ToSet(queue') = ToSet(queue) \ {queue[i]}
  BY <1>1, RemoveAtSet DEF TypeOK, JobTypeOK
<1>5. queue[i] \in Queued
  BY DEF Queued, ToSet
<1> QED BY <1>3, <1>4, <1>5 DEF Dropping, Queued

\* The finally block of _run answers every job still queued.
LEMMA DrainDrops ==
  ASSUME TypeOK, IsInjective(queue), DDrain
  PROVE  Dropping /\ Queued' = {}
<1> DEFINE R == [q \in Queued |-> NotRun("SERVICE_NOT_READY")]
<1>1. PICK o \in [Queued -> Storage] : Answered(Queued, R, o)
  BY DEF DDrain
<1>2. R \in [Queued -> Reply]
  BY NotRunType DEF ReplyCode, ErrorCode
<1> HIDE DEF R
<1>3. \A r \in Request : r \notin Queued => db'[r] = db[r] /\ future'[r] = future[r]
  BY <1>1, <1>2, AnsweredFrame
<1>4. queue' = <<>>
  BY DEF DDrain
<1> QED BY <1>3, <1>4, EmptyQueue DEF Dropping

\* The active job, and no other, is answered.
AnswersActive ==
  \A r \in Request : r # active => db'[r] = db[r] /\ future'[r] = future[r]

\* The end of an execution and the isolation of a lost worker answer the active job only.
LEMMA ActiveAnswered ==
  ASSUME TypeOK, DExecuted \/ DIsolateSave
  PROVE  AnswersActive
<1>1. CASE DExecuted
  <2>1. PICK o \in Storage : Answered({active}, [q \in {active} |-> wreply], [q \in {active} |-> o])
    BY <1>1 DEF DExecuted
  <2>2. [q \in {active} |-> wreply] \in [{active} -> Reply] /\ [q \in {active} |-> o] \in [{active} -> Storage]
    BY DEF TypeOK, WorkerTypeOK
  <2> QED BY <2>1, <2>2, AnsweredFrame DEF AnswersActive
<1>2. CASE DIsolateSave
  <2> DEFINE V == {active} \ {NoRequest}
  <2>1. PICK o \in [V -> Storage] : Answered(V, [q \in V |-> pending], o)
    BY <1>2 DEF DIsolateSave
  <2>2. [q \in V |-> pending] \in [V -> Reply]
    BY DEF TypeOK, ThreadTypeOK
  <2> QED BY <2>1, <2>2, AnsweredFrame DEF AnswersActive
<1> QED BY <1>1, <1>2

\* A thread step keeps Jobs when requests the bridge has not admitted stay without a trace.
LEMMA UntouchedKept ==
  ASSUME Jobs, UNCHANGED <<http, resp, cancelled, sent>>,
         \A r \in Request : Untouched(r) =>
           r \notin Queued' /\ active' # r /\ steps'.request # r /\ db'[r] = db[r] /\ future'[r] = future[r],
         IsInjective(queue'), active' \notin Queued'
  PROVE  Jobs'
  BY DEF Jobs, Untouched

\* The dispatcher thread's steps keep Jobs.
LEMMA ThreadJobs == ASSUME TypeOK, Jobs, DNext PROVE Jobs'
<1> USE DEF jobVars, httpVars, outsideVars, workerVars
<1>0. /\ UNCHANGED <<http, resp, cancelled, sent>>
      /\ IsInjective(queue)
  BY DEF Jobs, DNext, DSpawn, DNoWindow, DStarted, DInitialPause, DRecover, DSweep, DSweepDone,
         DChooseResume, DChooseReconnect, DChooseIdle, DChooseProbe, DChooseDispatch, DReceive, DLost,
         DResumed, DExecuted, DPost, DStopAcked, DJoin, DRestart, DRestartFails, DExit, DIsolate,
         DIsolateSave, DIsolateRecover, DDrain, Command
<1>1. ASSUME UNCHANGED <<db, future, queue, active, steps>> PROVE Jobs'
  BY <1>0, <1>1 DEF Jobs, Untouched, Queued
<1>2. ASSUME Dropping, UNCHANGED <<active, steps>> PROVE Jobs'
  BY <1>0, <1>2, UntouchedKept DEF Dropping, Jobs, Untouched
<1>3. CASE DSpawn \/ DNoWindow \/ DStarted \/ DInitialPause \/ DSweepDone \/ DReceive \/ DLost \/ DResumed
           \/ DStopAcked \/ DJoin \/ DRestart \/ DRestartFails \/ DIsolate
  BY <1>1, <1>3 DEF DSpawn, DNoWindow, DStarted, DInitialPause, DSweepDone, DReceive, DLost,
         DResumed, DStopAcked, DJoin, DRestart, DRestartFails, DIsolate
<1>4. CASE DChooseResume \/ DChooseReconnect \/ DChooseIdle \/ DChooseProbe \/ DExit
  BY <1>1, <1>4 DEF DChooseResume, DChooseReconnect, DChooseIdle, DChooseProbe, DExit
<1>5. CASE DRecover \/ DPost \/ DIsolateRecover
  BY <1>0, <1>2, <1>5, UpdateRecoveryDrops DEF DRecover, DPost, DIsolateRecover
<1>6. CASE DSweep
  <2>1. PICK i \in DOMAIN queue, c \in ReplyCode : Discard(i, c)
    BY <1>6 DEF DSweep, ReplyCode
  <2> QED BY <1>0, <1>2, <1>6, <2>1, DiscardDrops DEF DSweep
<1>7. CASE DDrain
  BY <1>0, <1>2, <1>7, DrainDrops DEF DDrain
<1>8. CASE DChooseDispatch
  <2>1. queue \in Seq(Request) /\ queue # <<>>
    BY <1>8 DEF DChooseDispatch, TypeOK, JobTypeOK
  <2>2. /\ Head(queue) \in Queued /\ IsInjective(Tail(queue))
        /\ ToSet(Tail(queue)) = Queued \ {Head(queue)}
    BY <1>0, <2>1, TailSet DEF Queued
  <2>3. Queued' = Queued \ {Head(queue)} /\ active' = Head(queue) /\ queue' = Tail(queue)
    BY <1>8, <2>2 DEF DChooseDispatch, Queued
  <2>4. steps'.request \in {steps.request, Head(queue)}
    BY <1>8 DEF DChooseDispatch, NoSteps
  <2>5. UNCHANGED <<db, future>>
    BY <1>8 DEF DChooseDispatch
  <2> QED BY <1>0, <2>2, <2>3, <2>4, <2>5, UntouchedKept DEF Untouched
<1>9. CASE DExecuted
  <2>1. active' \notin Queued'
    BY <1>9, NoRequestAssumption DEF DExecuted, Queued, ToSet, TypeOK, JobTypeOK
  <2>2. UNCHANGED <<queue, steps>> /\ Queued' = Queued /\ active' = NoRequest
    BY <1>9 DEF DExecuted, Queued
  <2> QED BY <1>0, <1>9, <2>1, <2>2, ActiveAnswered, UntouchedKept, NoRequestAssumption
             DEF AnswersActive, Untouched
<1>10. CASE DIsolateSave
  <2>1. UNCHANGED <<queue, steps, active>> /\ Queued' = Queued
    BY <1>10 DEF DIsolateSave, Queued
  <2> QED BY <1>0, <1>10, <2>1, ActiveAnswered, UntouchedKept DEF AnswersActive, Untouched, Jobs
<1> QED BY <1>3, <1>4, <1>5, <1>6, <1>7, <1>8, <1>9, <1>10 DEF DNext


\* No worker step, writing or not, touches the row or the key presses of another request.
LEMMA WorkerFrame ==
  ASSUME TypeOK, WStep
  PROVE  /\ steps'.request = steps.request
         /\ \A q \in Request : q # steps.request => db'[q] = db[q] /\ sent'[q] = sent[q]
<1>1. CASE WStartup \/ WProbe \/ WResume \/ WStop \/ WExit \/ WDie \/ WReject \/ WQuery
  BY <1>1 DEF WStartup, WProbe, WResume, WStop, WExit, WDie, WReject, WQuery
<1>2. CASE WFinish
  BY <1>2 DEF WFinish, Commit, Finish, TypeOK
<1>3. CASE Writing
  BY <1>3, WritingFrame
<1> QED BY <1>1, <1>2, <1>3 DEF WStep, Writing

\* The worker's steps keep Jobs.
LEMMA WorkerJobs == ASSUME TypeOK, Jobs, WNext PROVE Jobs'
<1>1. UNCHANGED <<queue, active, future, http, resp, cancelled>> /\ Queued' = Queued
  BY DEF WNext, jobVars, httpVars, outsideVars, Queued
<1>2. \A r \in Request : Untouched(r) => Untouched(r)'
  BY <1>1, WorkerFrame DEF Untouched, WNext
<1> QED BY <1>1, <1>2 DEF Jobs

\* Pruning and startup recovery create no row.
LEMMA NoRowKept ==
  /\ ~Prunable(NoRow)
  /\ \A q \in Request : db[q] = NoRow => Prune(db)[q] = NoRow /\ Recover(db)[q] = NoRow
<1>1. ~Prunable(NoRow)
  BY DEF Prunable, NoRow
<1>3. ASSUME NEW q \in Request, db[q] = NoRow PROVE Recover(db)[q] = NoRow
  <2> DEFINE d == [p \in Request |-> IF db[p].phase # "absent" /\ db[p].reply = NoReply
                           THEN FinishRow(db[p], RecoveredReply(db[p])) ELSE db[p]]
  <2>1. d[q] = NoRow
    BY <1>3 DEF NoRow
  <2> HIDE DEF d
  <2>2. Prune(d)[q] = NoRow
    BY <1>1, <2>1 DEF Prune
  <2> QED BY <2>2 DEF Recover, d
<1>4. \A q \in Request : db[q] = NoRow => Prune(db)[q] = NoRow
  BY <1>1 DEF Prune
<1> QED BY <1>1, <1>3, <1>4

\* Admission, replay, cancellation and expiry keep Jobs: only SubmitAdmit adds to the queue, and it
\* adds a request that left no trace before.
LEMMA HttpJobs == ASSUME TypeOK, Jobs, HNext PROVE Jobs'
<1>1. PICK r \in Request :
    \/ Arrive(r) \/ SubmitDropped(r) \/ SubmitStorage(r) \/ SubmitReplay(r) \/ SubmitReject(r)
    \/ SubmitAdmit(r) \/ SubmitNotSaved(r) \/ Drop(r) \/ Leave(r) \/ Expire(r) \/ Respond(r)
  BY DEF HNext
<1>2. UNCHANGED <<steps, sent, active>>
  BY <1>1 DEF Arrive, SubmitDropped, SubmitStorage, SubmitReplay, SubmitReject, SubmitAdmit,
              SubmitNotSaved, Drop, Leave, Expire, Respond, InSubmit, HttpOnly, workerVars
<1> DEFINE Idle(q) == http[q] \in {"idle", "admit"}
<1>3. ASSUME IsInjective(queue'), active \notin Queued',
             \A q \in Request : Idle(q)' => Idle(q),
             \A q \in Request : Idle(q)' /\ Untouched(q) =>
               /\ q \notin Queued' /\ db'[q] = NoRow /\ future'[q] = NoReply
               /\ \A p \in Request : resp'[p].of = q => cancelled'[q]
      PROVE  Jobs'
  BY <1>2, <1>3 DEF Jobs, Untouched
<1> DEFINE Unheard(q) == \A p \in Request : resp[p].of = q => cancelled[q]
<1>0. \A q \in Request : cancelled[q] => cancelled'[q]
  <2>1. CASE Drop(r)
    BY <2>1 DEF Drop, TypeOK, OutsideTypeOK
  <2>2. CASE ~Drop(r)
    BY <1>1, <2>2 DEF Arrive, SubmitDropped, SubmitStorage, SubmitReplay, SubmitReject, SubmitAdmit,
                SubmitNotSaved, Leave, Expire, Respond, Return, httpVars
  <2> QED BY <2>1, <2>2
<1>4. ASSUME UNCHANGED queue PROVE IsInjective(queue') /\ Queued' = Queued /\ active \notin Queued'
  BY <1>4 DEF Jobs, Queued
<1>5. ASSUME NEW of, NEW reply, Return(r, of, reply)
      PROVE  /\ \A q \in Request : Idle(q)' => Idle(q) /\ q # r
             /\ \A p \in Request : resp'[p] = resp[p] \/ resp'[p].of = of
  BY <1>5 DEF Return, TypeOK, OutsideTypeOK
<1>6. \A q \in Request : db[q] = NoRow => LookedUp(r)[q] = NoRow /\ (q # r => Admit(db, r)[q] = NoRow)
  BY NoRowKept DEF LookedUp, Admit, Prune
<1>7. CASE Arrive(r) \/ Drop(r)
  <2>1. UNCHANGED <<db, queue, future>>
    BY <1>7 DEF Arrive, Drop, Stored
  <2>2. \A q \in Request : Idle(q)' => Idle(q)
    BY <1>7 DEF Arrive, Drop, TypeOK, OutsideTypeOK
  <2>3. \A p \in Request : resp'[p] = resp[p] \/ (resp'[p].of = r /\ cancelled'[r])
    BY <1>7 DEF Arrive, Drop, LeftEarly, TypeOK, OutsideTypeOK
  <2>4. \A q \in Request : Unheard(q) => Unheard(q)'
    BY <1>0, <2>3
  <2> QED BY <1>3, <1>4, <2>1, <2>2, <2>4 DEF Untouched
<1>8. CASE SubmitDropped(r) \/ Respond(r)
  <2>1. PICK reply : Return(r, r, reply)
    BY <1>8 DEF SubmitDropped, Respond
  <2>2. UNCHANGED <<db, queue, future>>
    BY <1>8 DEF SubmitDropped, Respond, Stored
  <2> QED BY <1>3, <1>0, <1>4, <1>5, <2>1, <2>2 DEF Untouched
<1>9. CASE SubmitStorage(r) \/ SubmitReject(r)
  <2>1. PICK reply : Return(r, r, reply)
    BY <1>9 DEF SubmitStorage, SubmitReject
  <2>2. UNCHANGED <<queue, future>>
    BY <1>9 DEF SubmitStorage, SubmitReject
  <2>3. \A q \in Request : db[q] = NoRow => db'[q] = NoRow
    BY <1>6, <1>9, NoRowKept DEF SubmitStorage, SubmitReject, Commit
  <2> QED BY <1>3, <1>0, <1>4, <1>5, <2>1, <2>2, <2>3 DEF Untouched
<1>10. CASE SubmitReplay(r)
  <2>1. PICK h \in Holders(LookedUp(r), r) : \E reply : Return(r, h, reply)
    BY <1>10 DEF SubmitReplay, Replay
  <2>2. PICK reply : Return(r, h, reply)
    BY <2>1
  <2>3. h \in Request /\ db[h] # NoRow
    <3>1. NoRow.phase = "absent"
      BY DEF NoRow
    <3>2. h \in Request /\ LookedUp(r)[h].phase # "absent"
      BY DEF Holders
    <3> QED BY <1>6, <3>1, <3>2
  <2>4. UNCHANGED <<queue, future>> /\ db' = LookedUp(r)
    BY <1>10 DEF SubmitReplay
  <2> QED BY <1>3, <1>0, <1>4, <1>5, <1>6, <2>2, <2>3, <2>4 DEF Untouched
<1>11. CASE SubmitNotSaved(r)
  <2>1. PICK reply : Return(r, r, reply)
    BY <1>11 DEF SubmitNotSaved
  <2>2. UNCHANGED <<queue, future>>
    BY <1>11 DEF SubmitNotSaved
  <2>3. \A q \in Request : q # r /\ db[q] = NoRow => db'[q] = NoRow
    BY <1>6, <1>11 DEF SubmitNotSaved, Commit
  <2> QED BY <1>3, <1>0, <1>4, <1>5, <2>1, <2>2, <2>3 DEF Untouched
<1>12. CASE SubmitAdmit(r)
  <2>1. Untouched(r)
    BY <1>12 DEF SubmitAdmit, InSubmit, Jobs
  <2>2. /\ IsInjective(queue')
        /\ Queued' = Queued \cup {r}
    BY <1>12, <2>1, AppendSet DEF SubmitAdmit, Untouched, Queued, Jobs, TypeOK, JobTypeOK
  <2>3. active \notin Queued'
    BY <2>1, <2>2 DEF Untouched, Jobs
  <2>4. \A q \in Request : Idle(q)' => Idle(q) /\ q # r
    BY <1>12 DEF SubmitAdmit, TypeOK, OutsideTypeOK
  <2>5. UNCHANGED <<future, resp>>
    BY <1>12 DEF SubmitAdmit
  <2>6. \A q \in Request : q # r /\ db[q] = NoRow => db'[q] = NoRow
    BY <1>6, <1>12 DEF SubmitAdmit
  <2> QED BY <1>3, <1>0, <2>2, <2>3, <2>4, <2>5, <2>6 DEF Untouched
<1>13. CASE Leave(r) \/ Expire(r)
  <2>1. Dropping \/ UNCHANGED <<db, queue, future>>
    <3>1. ASSUME NEW i \in DOMAIN queue, Discard(i, "REQUEST_CANCELLED") \/ Discard(i, "QUEUE_TIMEOUT")
          PROVE Dropping
      BY <3>1, DiscardDrops DEF ReplyCode, Jobs
    <3> QED BY <1>13, <3>1 DEF Leave, Expire, Stored
  <2>2. /\ \A q \in Request : Idle(q)' => Idle(q)
        /\ \A q \in Request : Idle(q)' => \A p \in Request : resp'[p] = resp[p] \/ (resp'[p].of # q)
    BY <1>13 DEF Leave, Expire, httpVars, TypeOK, OutsideTypeOK
  <2>3. CASE UNCHANGED <<db, queue, future>>
    BY <1>3, <1>0, <1>4, <2>2, <2>3 DEF Untouched
  <2>4. CASE Dropping
    BY <1>3, <1>0, <2>2, <2>4 DEF Untouched, Dropping, Jobs
  <2> QED BY <2>1, <2>3, <2>4
<1> QED BY <1>1, <1>7, <1>8, <1>9, <1>10, <1>11, <1>12, <1>13

\* Control calls, timers, maintenance, power-off and startup recovery keep Jobs.
LEMMA OutsideJobs == ASSUME TypeOK, Jobs, CNext \/ ENext PROVE Jobs'
<1> USE DEF jobVars, httpVars, workerVars, outsideVars
<1>1. ASSUME UNCHANGED <<queue, active, steps, sent, future, http, resp>>,
             UNCHANGED cancelled, \A q \in Request : db[q] = NoRow => db'[q] = NoRow
      PROVE  Jobs'
  BY <1>1 DEF Jobs, Untouched, Queued
<1>2. CASE CNext
  BY <1>1, <1>2 DEF CNext, PauseCall, PauseReturn, PauseFails, ResumeCall, ResumeReturn, ResumeTimeout,
                    ControlOnly
<1>3. ASSUME NEW r \in Request, Tick(r) \/ Age(r) PROVE Jobs'
  <2>1. \A q \in Request : db[q] = NoRow => db'[q] = NoRow
    <3>1. NoRow.phase = "absent"
      BY DEF NoRow
    <3>2. CASE Age(r)
      BY <3>1, <3>2 DEF Age, TypeOK
    <3> QED BY <1>3, <3>2 DEF Tick
  <2> QED BY <1>1, <1>3, <2>1 DEF Tick, Age
<1>4. CASE Stop \/ RuntimeFail
  BY <1>1, <1>4 DEF Stop, RuntimeFail
<1>5. CASE Maintain
  <2>1. \A q \in Request : db[q] = NoRow => db'[q] = NoRow
    BY <1>5, NoRowKept DEF Maintain, Commit
  <2> QED BY <1>1, <1>5, <2>1 DEF Maintain
<1>6. CASE Boot
  <2>1. \A q \in Request : db[q] = NoRow => db'[q] = NoRow
    BY <1>6, NoRowKept DEF Boot, Commit
  <2> QED BY <1>1, <1>6, <2>1 DEF Boot
<1>7. CASE Off
  <2>1. IsInjective(queue') /\ Queued' = {}
    BY <1>7, EmptyQueue DEF Off
  <2>2. steps'.request = NoRequest /\ active' = NoRequest
    BY <1>7 DEF Off, NoSteps
  <2>3. \A q \in Request : http'[q] \in {"idle", "admit"} => http[q] \in {"idle", "admit"}
    BY <1>7 DEF Off
  <2>4. UNCHANGED <<db, sent, future, resp, cancelled>>
    BY <1>7 DEF Off
  <2> QED BY <2>1, <2>2, <2>3, <2>4, NoRequestAssumption DEF Jobs, Untouched
<1> QED BY <1>2, <1>3, <1>4, <1>5, <1>6, <1>7 DEF ENext

=============================================================================
