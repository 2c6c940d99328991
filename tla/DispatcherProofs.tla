--------------------------- MODULE DispatcherProofs ---------------------------
\* The second half of the inductive invariant, Truth (what the journal, the replies and the worker
\* record agrees with the keys that were pressed), and the theorems about the specification.
\* Most steps are Harmless: they neither press a key nor bring the worker nearer to one, and drop
\* at most jobs that were still queued.  The others are the dispatch, the steps of a write, the
\* answers to the active job and startup recovery, and have arguments of their own.
EXTENDS DispatcherRefinement, DispatcherTypes


Truth == Knowledge /\ Claims /\ Unsent /\ AtMostOnce /\ SendIsJournaled

SameRow(r) == db'[r].phase = db[r].phase /\ db'[r].effect = db[r].effect /\ db'[r].reply = db[r].reply

\* The row says nothing yet, or nothing any more.
BlankRow(r) ==
  /\ db'[r].effect = "none" /\ db'[r].reply = NoReply
  /\ db'[r].phase = "absent" \/ (sent[r] = 0 /\ steps.request # r)

Left(r) == r \in Queued /\ r \notin Queued'

Settled(r) == sent[r] = 0 /\ ~(r \in Queued' \/ (steps.request = r /\ wpc' \in BeforeKey \cup Reading))

\* A request that left no trace, and whose client has not left.
Fresh(r) == Untouched(r) /\ ~cancelled[r]

\* A step that neither sends nor moves the worker nearer to a send.
Harmless ==
  /\ UNCHANGED sent
  /\ wpc' \in AtWork \/ Replied' => UNCHANGED <<steps, wreply>>
  /\ wpc' \in AtWork => wpc' = wpc
  /\ Replied' => Replied
  /\ \A r \in Request : r \in Queued' => r \in Queued \/ Fresh(r)
  /\ \A r \in Request : SameRow(r) \/ BlankRow(r) \/ Left(r)
  /\ \A r \in Request : future'[r] = future[r] \/ Left(r)
  /\ \A q, r \in WRITE_ACTIONS : ToldNotSent(q, r)' => ToldNotSent(q, r) \/ Settled(r)
  /\ dpc' = "isolate_save" => dpc = "isolate_save" /\ UNCHANGED <<active, pending>>

\* Nothing claims anything about a request that left no trace.
LEMMA FreshSilent ==
  ASSUME NEW r \in WRITE_ACTIONS, Fresh(r)
  PROVE  ~ClaimsNotSent(r)
<1>1. ~Denies(NoReply) /\ NoRow.reply = NoReply /\ NoRow.effect = "none"
  BY DEF Denies, NoRow
<1> QED BY <1>1 DEF ClaimsNotSent, ToldNotSent, Fresh, Untouched, WRITE_ACTIONS

\* The answers that deny a send are those of resp, except the early ones.
LEMMA SameAnswers ==
  ASSUME UNCHANGED <<resp, http>>
  PROVE  \A q, r : ToldNotSent(q, r)' = ToldNotSent(q, r)
  BY DEF ToldNotSent, AnsweredEarly

\* A harmless step keeps everything the bridge records about key presses true.
LEMMA HarmlessKeeps ==
  ASSUME TypeOK, Turns, Jobs, Truth, Harmless, TypeOK', Turns'
  PROVE  Truth'
<1> USE DEF Truth
<1>0. WRITE_ACTIONS \subseteq Request /\ BeforeKey \cup Reading \subseteq AtWork
  BY DEF WRITE_ACTIONS, AtWork
<1>1. AtMostOnce' /\ \A r \in Request : sent'[r] = sent[r]
  BY DEF AtMostOnce, Harmless
<1>2. \A r \in Request : sent[r] \in Nat /\ (Left(r) => sent[r] = 0) /\ (Fresh(r) => sent[r] = 0)
  BY DEF Unsent, Left, Fresh, Untouched, TypeOK, WorkerTypeOK
<1>3. Unsent'
  BY <1>1, <1>2 DEF Unsent, Harmless
<1>4. SendIsJournaled'
  <2> SUFFICES ASSUME NEW r \in Request, sent[r] > 0
               PROVE  db'[r].phase = "absent" \/ db'[r].effect \in {"unknown", "submitted"}
    BY <1>1 DEF SendIsJournaled
  <2>1. SameRow(r) \/ BlankRow(r)
    BY <1>2 DEF Harmless
  <2> QED BY <1>2, <2>1 DEF SendIsJournaled, SameRow, BlankRow
<1>5. \A r \in Request : Left(r) => Settled(r)
  <2> SUFFICES ASSUME NEW r \in Request, Left(r), steps.request = r, wpc' \in BeforeKey \cup Reading
               PROVE  FALSE
    BY <1>2 DEF Settled, Left
  <2>1. wpc \in AtWork
    BY <1>0 DEF Harmless
  <2>2. active = r
    BY <2>1 DEF Turns
  <2> QED BY <2>2 DEF Jobs, Left
<1>6. Knowledge'
  <2>1. ASSUME wpc' \in AtWork \/ Replied'
        PROVE  UNCHANGED <<steps, wreply, sent>> /\ (wpc' \in AtWork => wpc' = wpc) /\ (Replied' => Replied)
    BY <2>1 DEF Harmless
  <2>2. ASSUME wpc' \in {"armed"} \cup Reading
        PROVE  db'[steps.request].phase = "absent" \/ db'[steps.request].effect \in Sent
    <3>1. wpc = wpc' /\ wpc' \in AtWork /\ steps.request = active /\ active \in Request
      BY <2>2 DEF Harmless, Turns, AtWork, BeforeKey, Reading
    <3>2. ~Left(active)
      BY DEF Jobs, Left
    <3>3. SameRow(active) \/ BlankRow(active)
      BY <3>1, <3>2 DEF Harmless
    <3>4. db[steps.request].phase = "absent" \/ db[steps.request].effect \in Sent
      BY <3>1, <2>2 DEF Knowledge
    <3> QED BY <3>1, <3>3, <3>4 DEF SameRow, BlankRow
  <2> QED BY <2>1, <2>2 DEF Knowledge, AtWork, BeforeKey, Reading
<1>7. Claims'
  <2>0. \A r \in WRITE_ACTIONS : Settled(r) => sent'[r] = 0 /\ ~MaySend(r)'
    BY <1>0, <1>1 DEF Settled, MaySend, Harmless
  <2> SUFFICES ASSUME NEW r \in WRITE_ACTIONS, ClaimsNotSent(r)'
               PROVE  Settled(r)
    BY <2>0 DEF Claims
  <2>1. CASE Left(r)
    BY <1>0, <1>5, <2>1
  <2>2. CASE ~Left(r) /\ \E q \in WRITE_ACTIONS : ToldNotSent(q, r)' /\ ~ToldNotSent(q, r)
    BY <2>2 DEF Harmless
  <2>3. CASE ~Left(r) /\ ~\E q \in WRITE_ACTIONS : ToldNotSent(q, r)' /\ ~ToldNotSent(q, r)
    <3>1. ClaimsNotSent(r)
      <4>1. SameRow(r) \/ BlankRow(r)
        BY <1>0, <2>3 DEF Harmless
      <4>2. future'[r] = future[r]
        BY <1>0, <2>3 DEF Harmless
      <4>3. ASSUME Denies(db'[r].reply) PROVE Denies(db[r].reply)
        BY <4>1, <4>3 DEF SameRow, BlankRow, Denies
      <4>4. ASSUME db'[r].effect = "rejected" PROVE db[r].effect = "rejected"
        BY <4>1, <4>4 DEF SameRow, BlankRow
      <4>5. ASSUME NEW q \in WRITE_ACTIONS, ToldNotSent(q, r)' PROVE ToldNotSent(q, r)
        BY <2>3, <4>5
      <4>6. ASSUME dpc' = "isolate_save" /\ active' = r /\ pending'.effect \notin Sent
            PROVE  dpc = "isolate_save" /\ active = r /\ pending.effect \notin Sent
        BY <4>6 DEF Harmless
      <4> QED BY <4>2, <4>3, <4>4, <4>5, <4>6 DEF ClaimsNotSent
    <3>2. sent[r] = 0 /\ ~MaySend(r)
      BY <3>1 DEF Claims
    <3>3. ~Fresh(r)
      BY <3>1, FreshSilent
    <3> QED BY <1>0, <3>2, <3>3 DEF Harmless, MaySend, Settled
  <2> QED BY <2>1, <2>2, <2>3
<1> QED BY <1>1, <1>3, <1>4, <1>6, <1>7


\* A thread step that at most drops queued jobs is harmless.
LEMMA HarmlessThread ==
  ASSUME TypeOK, Turns, Jobs, UNCHANGED <<sent, resp, http>>,
         UNCHANGED <<db, queue, future>> \/ Dropping,
         wpc' \in AtWork \/ Replied' => UNCHANGED <<steps, wreply>>,
         wpc' \in AtWork => wpc' = wpc,
         Replied' => Replied,
         dpc' = "isolate_save" => dpc = "isolate_save" /\ UNCHANGED <<active, pending>>
  PROVE  Harmless
<1>1. CASE UNCHANGED <<db, queue, future>>
  BY <1>1, SameAnswers DEF Harmless, SameRow, Queued
<1>2. CASE Dropping
  BY <1>2, SameAnswers DEF Harmless, SameRow, Left, Dropping
<1> QED BY <1>1, <1>2

\* Answering the active job with R keeps Truth when R denies a send only for a request that was
\* never sent and no longer can be.
LEMMA ActiveSettled ==
  ASSUME TypeOK, Turns, Jobs, Truth, NEW R \in Reply,
         UNCHANGED <<sent, resp, http, steps, wpc, wreply, queue>>, AnswersActive,
         active \in Request => /\ db'[active] = db[active] \/ db'[active] = FinishRow(db[active], R)
                               /\ future'[active] = future[active] \/ future'[active].effect = R.effect,
         active \in WRITE_ACTIONS /\ R.effect \notin Sent => sent[active] = 0 /\ ~MaySend(active),
         ~Replied', dpc' # "isolate_save"
  PROVE  Truth'
<1>1. UNCHANGED <<sent, resp, http, steps, wpc>> /\ Queued' = Queued
  BY DEF Queued
<1>2. ASSUME NEW row \in Row
      PROVE  LET f == FinishRow(row, R) IN f = row \/ (f.effect = R.effect /\ f.reply = R)
  BY DEF FinishRow
<1>3. ASSUME active \in Request
      PROVE  \/ db'[active] = db[active]
             \/ db'[active].effect = R.effect /\ db'[active].reply = R
  <2>1. db[active] \in Row
    BY <1>3 DEF TypeOK
  <2>2. \/ FinishRow(db[active], R) = db[active]
        \/ FinishRow(db[active], R).effect = R.effect /\ FinishRow(db[active], R).reply = R
    BY <1>2, <2>1
  <2> QED BY <1>3, <2>2
<1>4. ASSUME active \in Request, sent[active] > 0 \/ MaySend(active), active \in WRITE_ACTIONS
      PROVE  R.effect \in Sent
  BY <1>4 DEF TypeOK, WorkerTypeOK
<1>5. Knowledge'
  <2>1. ASSUME wpc \in {"armed"} \cup Reading
        PROVE  db'[steps.request].phase = "absent" \/ db'[steps.request].effect \in Sent
    <3>1. active \in WRITE_ACTIONS /\ steps.request = active /\ active \in Request /\ MaySend(active)
      BY <2>1 DEF Turns, AtWork, BeforeKey, Reading, MaySend
    <3>2. db[active].phase = "absent" \/ db[active].effect \in Sent
      BY <2>1, <3>1 DEF Truth, Knowledge
    <3> QED BY <1>3, <1>4, <3>1, <3>2
  <2> QED BY <1>1, <2>1 DEF Truth, Knowledge
<1>6. SendIsJournaled'
  <2> SUFFICES ASSUME NEW r \in Request, sent[r] > 0
               PROVE  db'[r].phase = "absent" \/ db'[r].effect \in {"unknown", "submitted"}
    BY <1>1 DEF SendIsJournaled
  <2>1. CASE r # active
    BY <2>1 DEF AnswersActive, Truth, SendIsJournaled
  <2>2. CASE r = active
    <3>1. r \in WRITE_ACTIONS
      BY DEF Truth, Unsent, TypeOK, WorkerTypeOK
    <3> QED BY <1>3, <1>4, <2>2, <3>1 DEF Truth, SendIsJournaled, Sent
  <2> QED BY <2>1, <2>2
<1>7. Claims'
  <2> SUFFICES ASSUME NEW r \in WRITE_ACTIONS, ClaimsNotSent(r)'
               PROVE  sent[r] = 0 /\ ~MaySend(r)
    BY <1>1 DEF Claims, MaySend
  <2>0. r \in Request
    BY DEF WRITE_ACTIONS
  <2>1. CASE ClaimsNotSent(r)
    BY <2>1 DEF Truth, Claims
  <2>2. CASE ~ClaimsNotSent(r)
    <3>1. \/ Denies(db'[r].reply) /\ ~Denies(db[r].reply)
          \/ db'[r].effect = "rejected" /\ db[r].effect # "rejected"
          \/ Denies(future'[r]) /\ ~Denies(future[r])
      BY <1>1, <2>2, SameAnswers DEF ClaimsNotSent
    <3>2. r = active
      BY <2>0, <3>1 DEF AnswersActive
    <3>3. R.effect \notin Sent
      BY <1>3, <2>0, <3>1, <3>2 DEF Denies, Sent
    <3> QED BY <3>2, <3>3
  <2> QED BY <2>1, <2>2
<1> QED BY <1>1, <1>5, <1>6, <1>7 DEF Truth, Unsent, AtMostOnce

\* The dispatcher thread's steps keep Truth; the delicate ones are the dispatch itself, the end of
\* an execution and the isolation of a worker whose last phase only the journal knows.
LEMMA ThreadTruth ==
  ASSUME TypeOK, Turns, Jobs, Truth, DNext, TypeOK', Turns', Jobs'
  PROVE  Truth'
<1> USE DEF jobVars, httpVars, outsideVars, workerVars, linkVars, Goto
<1>0. IsInjective(queue)
  BY DEF Jobs
<1>1. CASE DSpawn \/ DNoWindow \/ DStarted \/ DInitialPause \/ DSweepDone \/ DReceive \/ DLost \/ DResumed
           \/ DStopAcked \/ DJoin \/ DRestart \/ DRestartFails
  <2>1. Harmless
    BY <1>1, HarmlessThread DEF DSpawn, DNoWindow, DStarted, DInitialPause, DSweepDone, DReceive, DLost,
         DResumed, DStopAcked, DJoin, DRestart, DRestartFails, Replied, AtWork, BeforeKey, Reading
  <2> QED BY <2>1, HarmlessKeeps
<1>2. CASE DChooseResume \/ DChooseReconnect \/ DChooseIdle \/ DChooseProbe \/ DExit
  <2>1. Harmless
    BY <1>2, HarmlessThread DEF DChooseResume, DChooseReconnect, DChooseIdle, DChooseProbe, DExit,
         Command, Replied, AtWork, BeforeKey, Reading
  <2> QED BY <2>1, HarmlessKeeps
<1>3. CASE DRecover \/ DPost \/ DIsolateRecover
  <2>1. Dropping
    BY <1>0, <1>3, UpdateRecoveryDrops DEF DRecover, DPost, DIsolateRecover
  <2>2. Harmless
    BY <1>3, <2>1, HarmlessThread DEF DRecover, DPost, DIsolateRecover, Replied
  <2> QED BY <2>2, HarmlessKeeps
<1>4. CASE DSweep
  <2>1. PICK i \in DOMAIN queue, c \in ReplyCode : Discard(i, c)
    BY <1>4 DEF DSweep, ReplyCode
  <2>2. Dropping
    BY <1>0, <2>1, DiscardDrops
  <2>3. Harmless
    BY <1>4, <2>2, HarmlessThread DEF DSweep, Replied
  <2> QED BY <2>3, HarmlessKeeps
<1>5. CASE DDrain
  <2>1. Dropping
    BY <1>0, <1>5, DrainDrops
  <2>2. Harmless
    BY <1>5, <2>1, HarmlessThread DEF DDrain, Replied
  <2> QED BY <2>2, HarmlessKeeps
<1>6. CASE DChooseDispatch
  <2> DEFINE h == Head(queue)
  <2>1. queue \in Seq(Request) /\ queue # <<>>
    BY <1>6 DEF DChooseDispatch, TypeOK, JobTypeOK
  <2>2. h \in Request /\ h \in Queued /\ ToSet(Tail(queue)) = Queued \ {h}
    BY <1>0, <2>1, TailSet DEF Queued
  <2>3. Queued' = Queued \ {h} /\ active' = h /\ UNCHANGED <<db, future, resp, http, sent>>
    BY <1>6, <2>2 DEF DChooseDispatch, Command, Queued
  <2>4. wpc \in {"idle", "down"} /\ wpc' \in {"execute", "down"} /\ dpc' = "executing" /\ msg' = FALSE
    BY <1>6 DEF DChooseDispatch, Command, Turns, Quiet
  <2>5. wpc' = "execute" => steps'.request = h
    BY <1>6, <2>4 DEF DChooseDispatch, Command, NoSteps
  <2>6. sent[h] = 0
    BY <2>2 DEF Truth, Unsent
  <2>7. Knowledge'
    BY <2>3, <2>4, <2>5, <2>6 DEF Knowledge, BeforeKey, Reading, Replied
  <2>8. Claims'
    <3> SUFFICES ASSUME NEW r \in WRITE_ACTIONS, ClaimsNotSent(r)'
                 PROVE  sent'[r] = 0 /\ ~MaySend(r)'
      BY DEF Claims
    <3>1. ClaimsNotSent(r)
      BY <2>3, <2>4, SameAnswers DEF ClaimsNotSent
    <3>2. sent[r] = 0 /\ ~MaySend(r)
      BY <3>1 DEF Truth, Claims
    <3>3. r # h
      BY <2>2, <3>2 DEF MaySend
    <3> QED BY <2>3, <2>4, <2>5, <3>2, <3>3 DEF MaySend, BeforeKey, Reading
  <2> QED BY <2>3, <2>7, <2>8 DEF Truth, Unsent, AtMostOnce, SendIsJournaled
<1>7. CASE DIsolate
  <2>1. /\ UNCHANGED <<db, queue, future, resp, http, sent, steps, wpc, wreply, active>>
        /\ dpc = "isolate" /\ dpc' = "isolate_save" /\ Queued' = Queued
    BY <1>7 DEF DIsolate, Queued
  <2>2. ASSUME active \in WRITE_ACTIONS, pending'.effect \notin Sent
        PROVE  ClaimsNotSent(active)
    <3>1. pending' = Interrupted(db, active)
      BY <1>7, <2>2 DEF DIsolate, Sent
    <3>2. Denies(db[active].reply) \/ db[active].effect = "rejected"
      BY <2>2, <3>1 DEF Interrupted, Denies, Sent
    <3> QED BY <3>2 DEF ClaimsNotSent
  <2>3. Claims'
    <3> SUFFICES ASSUME NEW r \in WRITE_ACTIONS, ClaimsNotSent(r)'
                 PROVE  sent'[r] = 0 /\ ~MaySend(r)'
      BY DEF Claims
    <3>1. ClaimsNotSent(r)
      BY <2>1, <2>2, SameAnswers DEF ClaimsNotSent
    <3> QED BY <2>1, <3>1 DEF Truth, Claims, MaySend
  <2>4. Knowledge'
    BY <2>1 DEF Truth, Knowledge, Replied
  <2> QED BY <2>1, <2>3, <2>4 DEF Truth, Unsent, AtMostOnce, SendIsJournaled
<1>8. CASE DExecuted
  <2>1. PICK o \in Storage : Answered({active}, [q \in {active} |-> wreply], [q \in {active} |-> o])
    BY <1>8 DEF DExecuted
  <2>2. wreply \in Reply /\ [q \in {active} |-> wreply] \in [{active} -> Reply]
        /\ [q \in {active} |-> o] \in [{active} -> Storage]
    BY DEF TypeOK, WorkerTypeOK
  <2>3. active \in Request =>
             /\ db'[active] = db[active] \/ db'[active] = FinishRow(db[active], wreply)
             /\ future'[active] = future[active] \/ future'[active].effect = wreply.effect
    <3>1. active \in {active} /\ [q \in {active} |-> wreply][active] = wreply
      OBVIOUS
    <3> QED BY <2>1, <2>2, <3>1, AnsweredFrame
  <2>4. active \in WRITE_ACTIONS /\ wreply.effect \notin Sent => sent[active] = 0 /\ ~MaySend(active)
    <3>1. wpc \in {"idle", "down"} /\ Replied /\ steps.request = active /\ active \in Request
      BY <1>8 DEF DExecuted, Turns, Quiet, Replied
    <3>2. sent[active] > 0 => wreply.effect \in Sent
      BY <3>1 DEF Truth, Knowledge
    <3> QED BY <3>1, <3>2 DEF Jobs, MaySend, BeforeKey, Reading, TypeOK, WorkerTypeOK
  <2>5. /\ UNCHANGED <<sent, resp, http, steps, wpc, wreply, queue>>
        /\ ~Replied' /\ dpc' # "isolate_save"
    BY <1>8 DEF DExecuted, Replied
  <2> QED BY <1>8, <2>2, <2>3, <2>4, <2>5, ActiveAnswered, ActiveSettled
<1>9. CASE DIsolateSave
  <2> DEFINE V == {active} \ {NoRequest}
  <2>1. PICK o \in [V -> Storage] : Answered(V, [q \in V |-> pending], o)
    BY <1>9 DEF DIsolateSave
  <2>2. pending \in Reply /\ [q \in V |-> pending] \in [V -> Reply]
    BY DEF TypeOK, ThreadTypeOK
  <2>3. active \in Request =>
             /\ db'[active] = db[active] \/ db'[active] = FinishRow(db[active], pending)
             /\ future'[active] = future[active] \/ future'[active].effect = pending.effect
    <3>1. active \in Request => active \in V /\ [q \in V |-> pending][active] = pending
      BY NoRequestAssumption
    <3> HIDE DEF V
    <3> QED BY <2>1, <2>2, <3>1, AnsweredFrame
  <2>4. active \in WRITE_ACTIONS /\ pending.effect \notin Sent => sent[active] = 0 /\ ~MaySend(active)
    BY <1>9 DEF DIsolateSave, ClaimsNotSent, Claims, Truth
  <2>5. /\ UNCHANGED <<sent, resp, http, steps, wpc, wreply, queue>>
        /\ ~Replied' /\ dpc' # "isolate_save"
    BY <1>9 DEF DIsolateSave, Replied
  <2> QED BY <1>9, <2>2, <2>3, <2>4, <2>5, ActiveAnswered, ActiveSettled
<1> QED BY <1>1, <1>2, <1>3, <1>4, <1>5, <1>6, <1>7, <1>8, <1>9 DEF DNext


\* journal.phase never changes a reply, and writes an effect only to an existing row.
LEMMA SaveRowFacts ==
  ASSUME NEW row \in Row, NEW p, NEW e \in Effect
  PROVE  LET s == SaveRow(row, p, e) IN
         /\ s.reply = row.reply
         /\ s.effect = row.effect \/ (e # "none" /\ s.effect = e)
         /\ row.phase # "absent" /\ e # "none" => s.effect = e
         /\ row.phase = "absent" => s.phase = "absent"
  BY DEF SaveRow, Row

\* What a step of a write does to its own request r.
OwnStep(r) ==
  /\ Knowledge'
  /\ sent'[r] \in {0, 1}
  /\ sent'[r] > 0 => db'[r].phase = "absent" \/ db'[r].effect \in Sent
  /\ db'[r].reply = db[r].reply
  /\ db'[r].effect = "rejected" =>
       db[r].effect = "rejected" \/ (sent'[r] = 0 /\ wpc' \notin BeforeKey \cup Reading)
  /\ wpc = "cleanup" => sent'[r] = sent[r]

\* A phase saved before the key press, or while the receipt is read, keeps the journal ahead of the keys.
LEMMA OwnSave ==
  ASSUME TypeOK, Turns, Truth, NEW p \in Phase, NEW e \in {"none", "unknown", "submitted"}, NEW n,
         Save(p, e, n), wpc \in AtWork, wpc # "cleanup",
         \/ wpc \in BeforeKey /\ n \in BeforeKey \ {"armed"}
         \/ wpc \in BeforeKey /\ n = "armed" /\ e = "unknown"
         \/ wpc \in Reading /\ n \in Reading,
         ~Replied'
  PROVE  OwnStep(steps.request)
<1> DEFINE r == steps.request
<1>0. r \in Request /\ r = active /\ e \in Effect /\ db[r] \in Row /\ sent[r] \in {0, 1}
  BY DEF Turns, Effect, TypeOK, WorkerTypeOK, Truth, AtMostOnce
<1>1. /\ steps'.request = r
      /\ steps'.effect = IF e = "none" THEN steps.effect ELSE e
      /\ UNCHANGED <<msg, wreply, exec, sent>>
      /\ wpc' \in {n, "cleanup"}
      /\ db'[r] = db[r] \/ db'[r] = SaveRow(db[r], p, e)
      /\ wpc' # "cleanup" => db'[r] = SaveRow(db[r], p, e) /\ db[r].phase # "absent"
  BY <1>0, SaveFrame
<1>2. /\ db'[r].reply = db[r].reply
      /\ db'[r].effect = db[r].effect \/ (e # "none" /\ db'[r].effect = e)
      /\ db[r].phase = "absent" => db'[r].phase = "absent"
      /\ wpc' # "cleanup" /\ e # "none" => db'[r].effect = e
  BY <1>0, <1>1, SaveRowFacts
<1> HIDE DEF r
<1>3. /\ wpc \in BeforeKey => sent[r] = 0
      /\ wpc \in Reading => steps.effect \in Sent /\ (db[r].phase = "absent" \/ db[r].effect \in Sent)
  BY DEF Truth, Knowledge, r
<1>4. wpc \in BeforeKey \/ wpc \in Reading
  OBVIOUS
<1>5. Knowledge'
  <2>1. CASE wpc \in BeforeKey
    BY <1>1, <1>2, <1>3, <2>1 DEF Knowledge, BeforeKey, Reading, Sent
  <2>2. CASE wpc \in Reading
    BY <1>1, <1>2, <1>3, <2>2 DEF Knowledge, BeforeKey, Reading, Sent
  <2> QED BY <1>4, <2>1, <2>2
<1>6. sent'[r] > 0 => db'[r].phase = "absent" \/ db'[r].effect \in Sent
  BY <1>1, <1>2, <1>3, <1>4 DEF Sent
<1> QED BY <1>0, <1>1, <1>2, <1>5, <1>6 DEF OwnStep, r

\* A GUI failure keeps what the worker knows about its own request.
LEMMA OwnTrouble ==
  ASSUME TypeOK, Turns, Truth, wpc \in BeforeKey \cup Reading, ~Replied',
         Trouble \/ Unproven \/ \E c \in ErrorCode : Raise(c, exec)
  PROVE  OwnStep(steps.request)
<1> DEFINE r == steps.request
<1>0. r \in Request /\ sent[r] \in {0, 1} /\ wpc # "cleanup"
  BY DEF Turns, AtWork, BeforeKey, Reading, TypeOK, WorkerTypeOK, Truth, AtMostOnce
<1>1. /\ steps'.request = steps.request /\ steps'.effect = steps.effect
      /\ UNCHANGED <<msg, wreply, sent, db>>
      /\ wpc' = "cleanup"
  BY TroubleFrame
<1> HIDE DEF r
<1>2. /\ sent[r] > 0 => db[r].phase = "absent" \/ db[r].effect \in Sent
      /\ sent[r] > 0 => steps.effect \in Sent
  BY <1>0 DEF Truth, SendIsJournaled, Knowledge, Sent, BeforeKey, r
<1>3. Knowledge'
  BY <1>1, <1>2 DEF Knowledge, BeforeKey, Reading, r
<1> QED BY <1>0, <1>1, <1>2, <1>3 DEF OwnStep, r

\* Every step of a write keeps what the worker and the journal know about that request.
LEMMA OwnWriting ==
  ASSUME TypeOK, Turns, Truth, Writing, ~Replied'
  PROVE  OwnStep(steps.request)
<1> DEFINE r == steps.request
<1>a. wpc \in AtWork \ {"finish"} /\ steps'.request = r
  BY WritingFrame
<1>0. r \in Request /\ r = active /\ sent[r] \in {0, 1}
  BY <1>a DEF Turns, TypeOK, WorkerTypeOK, Truth, AtMostOnce
<1>b. /\ wpc \in BeforeKey => sent[r] = 0
      /\ wpc \in {"armed"} \cup Reading => /\ steps.effect \in Sent
                                           /\ db[r].phase = "absent" \/ db[r].effect \in Sent
      /\ wpc = "cleanup" /\ sent[r] > 0 => steps.effect \in Sent
  BY DEF Truth, Knowledge
<1>c. sent[r] > 0 => db[r].phase = "absent" \/ db[r].effect \in Sent
  BY <1>0 DEF Truth, SendIsJournaled, Sent
<1> USE DEF At, AtWork, BeforeKey, Reading
<1>1. CASE WPrepareFails
  <2>1. UNCHANGED <<db, sent>> /\ wpc = "execute" /\ wpc' = "finish"
    BY <1>1 DEF WPrepareFails
  <2> QED BY <1>0, <1>a, <1>b, <2>1 DEF OwnStep, Knowledge
<1>2. CASE WPrepare
  BY <1>2, OwnSave, OwnTrouble DEF WPrepare, Phase, ErrorCode
<1>3. CASE WStarted
  BY <1>3, OwnSave, OwnTrouble DEF WStarted, Phase
<1>4. CASE WImport
  BY <1>4, OwnSave, OwnTrouble DEF WImport, Phase
<1>5. CASE WImportRejected
  <2>1. /\ wpc = "importing" /\ wpc' = "cleanup" /\ UNCHANGED sent
    BY <1>5 DEF WImportRejected
  <2>2. db'[r].reply = db[r].reply
    <3>1. PICK o \in Storage : db' = Commit(o, db, SavePhase(db, r, "rejected", "rejected"))
      BY <1>5 DEF WImportRejected
    <3>2. db[r] \in Row /\ SavePhase(db, r, "rejected", "rejected")[r] = SaveRow(db[r], "rejected", "rejected")
      BY <1>0 DEF TypeOK, SavePhase
    <3>3. SaveRow(db[r], "rejected", "rejected").reply = db[r].reply
      BY <3>2, SaveRowFacts DEF Effect
    <3> QED BY <3>1, <3>2, <3>3 DEF Commit
  <2>3. sent[r] = 0
    BY <1>b, <2>1
  <2> QED BY <1>0, <1>a, <2>1, <2>2, <2>3 DEF OwnStep, Knowledge
<1>6. CASE WArm
  BY <1>6, OwnSave, OwnTrouble DEF WArm, Phase
<1>7. CASE WKey
  <2>1. /\ wpc = "armed" /\ wpc' \in {"keyed", "cleanup"} /\ UNCHANGED db
        /\ sent'[r] \in {0, 1}
    BY <1>0, <1>b, <1>7 DEF WKey, Deliver, TypeOK, WorkerTypeOK
  <2>2. steps'.effect = steps.effect
    BY <1>7 DEF WKey, TypeOK, WorkerTypeOK
  <2> QED BY <1>a, <1>b, <2>1, <2>2 DEF OwnStep, Knowledge
<1>8. CASE WConfirm
  <2>1. /\ wpc = "keyed" /\ wpc' \in {"confirmed", "cleanup"} /\ UNCHANGED db
        /\ sent'[r] \in {0, 1}
    BY <1>0, <1>8 DEF WConfirm, Deliver, TypeOK, WorkerTypeOK
  <2>2. steps'.effect = steps.effect
    BY <1>8 DEF WConfirm, TypeOK, WorkerTypeOK
  <2> QED BY <1>a, <1>b, <2>1, <2>2 DEF OwnStep, Knowledge
<1>9. CASE WCapture
  BY <1>9, OwnSave, OwnTrouble DEF WCapture, Phase
<1>10. CASE WSubmitted
  BY <1>10, OwnSave, OwnTrouble DEF WSubmitted, Phase
<1>11. CASE WConfirmed
  BY <1>11, OwnSave DEF WConfirmed, Phase
<1>12. CASE WNoDialog
  <2>1. CASE wpc' = "verify" /\ UNCHANGED <<db, steps, sent>>
    BY <1>0, <1>b, <1>12, <2>1 DEF WNoDialog, OwnStep, Knowledge
  <2> QED BY <1>12, <2>1, OwnTrouble DEF WNoDialog, ErrorCode
<1>13. CASE WVerify
  <2>1. CASE wpc' = "cleanup" /\ UNCHANGED <<db, steps, sent>>
    BY <1>0, <1>b, <1>13, <2>1 DEF WVerify, OwnStep, Knowledge
  <2> QED BY <1>13, <2>1, OwnSave, OwnTrouble DEF WVerify, Phase
<1>14. CASE WCleanup
  <2>1. /\ wpc = "cleanup" /\ wpc' = "finish" /\ UNCHANGED <<db, sent>>
        /\ steps'.effect = steps.effect
    BY <1>14 DEF WCleanup, TypeOK, WorkerTypeOK
  <2>2. wreply'.effect \in {"submitted", steps.effect}
    BY <1>14 DEF WCleanup
  <2>3. Knowledge'
    BY <1>a, <1>b, <2>1, <2>2 DEF Knowledge, Sent
  <2> QED BY <1>0, <1>c, <2>1, <2>3 DEF OwnStep
<1> QED BY <1>1, <1>2, <1>3, <1>4, <1>5, <1>6, <1>7, <1>8, <1>9, <1>10, <1>11, <1>12, <1>13, <1>14
        DEF Writing


\* The worker's steps keep Truth.
LEMMA WorkerTruth ==
  ASSUME TypeOK, Turns, Jobs, Truth, WNext, TypeOK', Turns', Jobs'
  PROVE  Truth'
<1>0. /\ UNCHANGED <<dpc, queue, active, future, resp, http, pending>>
      /\ Queued' = Queued
  BY DEF WNext, jobVars, linkVars, httpVars, outsideVars, Queued
<1>1. ASSUME wpc \in AtWork,
             LET r == active IN
             /\ Knowledge'
             /\ sent'[r] \in {0, 1}
             /\ sent'[r] > 0 => r \in WRITE_ACTIONS /\ (db'[r].phase = "absent" \/ db'[r].effect \in Sent)
             /\ r \in WRITE_ACTIONS /\ ClaimsNotSent(r)' => sent'[r] = 0 /\ wpc' \notin BeforeKey \cup Reading
      PROVE  Truth'
  <2>0. active \in Request /\ steps.request = active /\ active \notin Queued
    BY <1>1 DEF Turns, Jobs
  <2>1. /\ steps'.request = active
        /\ \A q \in Request : q # active => db'[q] = db[q] /\ sent'[q] = sent[q]
    BY <2>0, WorkerFrame DEF WNext
  <2>2. Unsent' /\ AtMostOnce'
    BY <1>0, <1>1, <2>0, <2>1 DEF Truth, Unsent, AtMostOnce
  <2>3. SendIsJournaled'
    BY <1>1, <2>1 DEF Truth, SendIsJournaled, Sent
  <2>4. Claims'
    <3> SUFFICES ASSUME NEW r \in WRITE_ACTIONS, ClaimsNotSent(r)'
                 PROVE  sent'[r] = 0 /\ ~MaySend(r)'
      BY DEF Claims
    <3>0. r \in Request
      BY DEF WRITE_ACTIONS
    <3>1. CASE r = active
      BY <1>0, <1>1, <2>0, <3>1 DEF MaySend
    <3>2. CASE r # active
      <4>1. ClaimsNotSent(r)
        BY <1>0, <2>1, <3>0, <3>2, SameAnswers DEF ClaimsNotSent
      <4>2. sent[r] = 0 /\ r \notin Queued
        BY <4>1 DEF Truth, Claims, MaySend
      <4> QED BY <1>0, <2>1, <3>0, <3>2, <4>2 DEF MaySend
    <3> QED BY <3>1, <3>2
  <2> QED BY <1>1, <2>2, <2>3, <2>4 DEF Truth
<1>2. ASSUME UNCHANGED <<db, sent>>, wpc' \notin AtWork, ~Replied' \/ (Replied /\ UNCHANGED <<steps, wreply>>)
      PROVE  Truth'
  <2>1. Harmless
    BY <1>0, <1>2, SameAnswers DEF Harmless, SameRow
  <2> QED BY <2>1, HarmlessKeeps
<1>3. CASE WStartup \/ WProbe \/ WResume \/ WStop
  <2>1. wpc' \notin AtWork /\ UNCHANGED <<db, sent>>
    BY <1>3 DEF WStartup, WProbe, WResume, WStop, Send, AtWork, BeforeKey, Reading
  <2>2. ~Replied'
    BY <1>0, <1>3 DEF WStartup, WProbe, WResume, WStop, Replied, Turns, Quiet, AtWork, BeforeKey, Reading
  <2> QED BY <1>2, <2>1, <2>2
<1>4. CASE WDie
  BY <1>0, <1>2, <1>4 DEF WDie, AtWork, BeforeKey, Reading, Replied
<1>5. CASE WExit
  <2>1. Harmless
    BY <1>0, <1>5, SameAnswers DEF WExit, Harmless, SameRow, Replied
  <2> QED BY <2>1, HarmlessKeeps
<1>6. CASE WReject \/ WQuery
  <2>1. wpc = "execute" /\ wpc' = "idle" /\ UNCHANGED <<db, sent, steps>>
    BY <1>6 DEF WReject, WQuery, At, Send
  <2>2. active \in Request /\ steps.request = active /\ sent[active] = 0 /\ wpc \in AtWork
    BY <2>1 DEF Turns, AtWork, BeforeKey, Truth, Knowledge
  <2>3. Knowledge'
    BY <2>1, <2>2 DEF Knowledge, BeforeKey, Reading
  <2> QED BY <1>1, <2>1, <2>2, <2>3 DEF BeforeKey, Reading
<1>7. CASE WFinish
  <2>1. wpc = "finish" /\ wpc' = "idle" /\ UNCHANGED <<sent, steps>> /\ wpc \in AtWork
    BY <1>7 DEF WFinish, At, Send, AtWork
  <2>2. active \in WRITE_ACTIONS /\ active \in Request /\ steps.request = active
    BY <2>1 DEF Turns, AtWork, BeforeKey
  <2>3. sent[active] > 0 => steps.effect \in Sent /\ wreply.effect \in Sent
    BY <2>1, <2>2 DEF Truth, Knowledge
  <2>4. wreply'.effect \in {wreply.effect, steps.effect}
    BY <1>7 DEF WFinish, Send
  <2>5. Knowledge'
    BY <2>1, <2>2, <2>3, <2>4 DEF Knowledge, BeforeKey, Reading
  <2>6. \/ db'[active] = db[active]
        \/ db'[active].effect = wreply.effect /\ db'[active].reply = wreply
    <3>1. PICK o \in Storage : db' = Commit(o, db, Finish(db, active, wreply))
      BY <1>7, <2>2 DEF WFinish
    <3>2. Finish(db, active, wreply)[active] = FinishRow(db[active], wreply)
      BY <2>2 DEF Finish, TypeOK
    <3> QED BY <3>1, <3>2 DEF Commit, FinishRow
  <2>7. sent[active] \in {0, 1} /\ (sent[active] > 0 => db[active].phase = "absent" \/ db[active].effect \in Sent)
    BY <2>2 DEF Truth, AtMostOnce, SendIsJournaled, Sent, TypeOK, WorkerTypeOK
  <2>8. ClaimsNotSent(active)' => sent[active] = 0
    <3>1. CASE ClaimsNotSent(active)
      BY <2>2, <3>1 DEF Truth, Claims
    <3>2. CASE ClaimsNotSent(active)' /\ ~ClaimsNotSent(active)
      <4>1. \/ Denies(db'[active].reply) /\ ~Denies(db[active].reply)
            \/ db'[active].effect = "rejected" /\ db[active].effect # "rejected"
        BY <1>0, <3>2, SameAnswers DEF ClaimsNotSent
      <4>2. wreply.effect \notin Sent
        BY <2>6, <4>1 DEF Denies, Sent
      <4> QED BY <2>3, <2>7, <4>2
    <3> QED BY <3>1, <3>2
  <2>9. sent'[active] > 0 => db'[active].phase = "absent" \/ db'[active].effect \in Sent
    BY <2>1, <2>3, <2>6, <2>7
  <2> QED BY <1>1, <2>1, <2>2, <2>5, <2>7, <2>8, <2>9 DEF BeforeKey, Reading
<1>8. CASE Writing
  <2>1. wpc \in AtWork \ {"finish"} /\ wpc' \in AtWork /\ UNCHANGED msg
    BY <1>8, WritingFrame
  <2>2. ~Replied'
    BY <2>1, <1>0 DEF Replied, Turns, Quiet, AtWork, BeforeKey, Reading
  <2>3. active \in Request /\ steps.request = active /\ OwnStep(active)
    BY <1>8, <2>1, <2>2, OwnWriting DEF Turns
  <2>4. sent'[active] > 0 => active \in WRITE_ACTIONS
    <3>1. wpc' \in AtWork \ {"execute"}
      BY <1>8, WritingFrame
    <3> QED BY <1>0, <3>1 DEF Turns
  <2>5. ASSUME active \in WRITE_ACTIONS, ClaimsNotSent(active)'
        PROVE  sent'[active] = 0 /\ wpc' \notin BeforeKey \cup Reading
    <3>1. CASE ClaimsNotSent(active)
      <4>1. sent[active] = 0 /\ wpc \notin BeforeKey \cup Reading
        BY <2>3, <2>5, <3>1 DEF Truth, Claims, MaySend
      <4>2. wpc = "cleanup"
        BY <2>1, <4>1 DEF AtWork
      <4>3. wpc' \notin BeforeKey \cup Reading
        BY <1>8, <4>1, WritingFrame
      <4> QED BY <2>3, <4>1, <4>2, <4>3 DEF OwnStep
    <3>2. CASE ~ClaimsNotSent(active)
      <4>1. db'[active].effect = "rejected" /\ db[active].effect # "rejected"
        BY <1>0, <2>3, <2>5, <3>2, SameAnswers DEF ClaimsNotSent, OwnStep
      <4> QED BY <2>3, <4>1 DEF OwnStep
    <3> QED BY <3>1, <3>2
  <2> QED BY <1>1, <2>1, <2>3, <2>4, <2>5 DEF OwnStep
<1> QED BY <1>3, <1>4, <1>5, <1>6, <1>7, <1>8 DEF WNext, WStep, Writing


\* Pruning keeps a row or deletes it.
LEMMA PruneRow ==
  ASSUME NEW q \in Request
  PROVE  /\ Prune(db)[q] = db[q] \/ (Prune(db)[q].phase = "absent" /\ Prune(db)[q].effect = "none"
                                     /\ Prune(db)[q].reply = NoReply)
         /\ Prune(db)[q].phase # "absent" => Prune(db)[q] = db[q]
<1>1. NoRow.phase = "absent" /\ NoRow.effect = "none" /\ NoRow.reply = NoReply
  BY DEF NoRow
<1> QED BY <1>1 DEF Prune

\* Admission, replay, cancellation and expiry keep Truth: "not sent" is said of a request only when
\* it was dropped before its execution began.
LEMMA HttpTruth ==
  ASSUME TypeOK, Turns, Jobs, Truth, HNext, TypeOK', Turns', Jobs'
  PROVE  Truth'
<1>1. PICK r \in Request :
    \/ Arrive(r) \/ SubmitDropped(r) \/ SubmitStorage(r) \/ SubmitReplay(r) \/ SubmitReject(r)
    \/ SubmitAdmit(r) \/ SubmitNotSaved(r) \/ Drop(r) \/ Leave(r) \/ Expire(r) \/ Respond(r)
  BY DEF HNext
<1>2. UNCHANGED <<steps, sent, active, wpc, wreply, msg, dpc, pending>>
  BY <1>1 DEF Arrive, SubmitDropped, SubmitStorage, SubmitReplay, SubmitReject, SubmitAdmit,
              SubmitNotSaved, Drop, Leave, Expire, Respond, InSubmit, HttpOnly, workerVars, linkVars
<1> DEFINE Rows == \A q \in Request : SameRow(q) \/ BlankRow(q) \/ Left(q)
           Futures == \A q \in Request : future'[q] = future[q] \/ Left(q)
           Queue == \A q \in Request : q \in Queued' => q \in Queued \/ Fresh(q)
           Answers == \A q, p \in WRITE_ACTIONS : ToldNotSent(q, p)' => ToldNotSent(q, p) \/ Settled(p)
<1>a. \A q \in Request : AnsweredEarly(q) => AnsweredEarly(q)'
  BY <1>1 DEF AnsweredEarly, Arrive, SubmitDropped, SubmitStorage, SubmitReplay, SubmitReject, SubmitAdmit,
              SubmitNotSaved, Drop, Leave, Expire, Respond, InSubmit, Return, httpVars, TypeOK, OutsideTypeOK
<1>b. ASSUME \A q, p \in WRITE_ACTIONS :
                ToldNotSent(q, p)' => resp'[q] = resp[q] \/ Settled(p)
      PROVE  Answers
  BY <1>a, <1>b DEF ToldNotSent, WRITE_ACTIONS
<1>3. ASSUME Rows, Futures, Queue, Answers PROVE Truth'
  <2>1. Harmless
    BY <1>2, <1>3 DEF Harmless, Replied
  <2> QED BY <2>1, HarmlessKeeps
<1>4. ASSUME UNCHANGED <<queue, future>> PROVE Queue /\ Futures /\ Queued' = Queued
  BY <1>4 DEF Queued
<1>5. ASSUME UNCHANGED db PROVE Rows
  BY <1>5 DEF SameRow
<1>6. ASSUME NEW q \in Request, sent[q] = 0, ~MaySend(q), q \notin Queued' PROVE Settled(q)
  BY <1>2, <1>6 DEF Settled, MaySend
<1>7. ASSUME NEW of \in Request, NEW reply, Return(r, of, reply),
             of \in WRITE_ACTIONS /\ SaysNotSent(reply) => Settled(of)
      PROVE  Answers
  <2>1. \A q \in Request : resp'[q] = resp[q] \/ (resp'[q].of = of /\ resp'[q].reply = reply)
    BY <1>7 DEF Return, TypeOK, OutsideTypeOK
  <2> QED BY <1>7, <1>b, <2>1 DEF WRITE_ACTIONS, ToldNotSent
<1>8. \A q \in Request :
        /\ LookedUp(r)[q] = db[q] \/ (/\ LookedUp(r)[q].phase = "absent" /\ LookedUp(r)[q].effect = "none"
                                      /\ LookedUp(r)[q].reply = NoReply)
        /\ LookedUp(r)[q].phase # "absent" => LookedUp(r)[q] = db[q]
  BY PruneRow DEF LookedUp
<1>9. ASSUME db' = LookedUp(r) \/ db' = Prune(db) PROVE Rows
  BY <1>8, <1>9, PruneRow DEF SameRow, BlankRow
<1>10. ASSUME InSubmit(r) PROVE Untouched(r) /\ sent[r] = 0 /\ ~MaySend(r)
  BY <1>10 DEF InSubmit, Jobs, Untouched, MaySend
<1>11. ASSUME InSubmit(r), db' = Admit(db, r) PROVE Rows
  <2>1. Untouched(r)
    BY <1>10, <1>11
  <2>2. db'[r].effect = "none" /\ db'[r].reply = NoReply
    BY <1>11 DEF Admit, Prune, NoRow
  <2>3. \A q \in Request : q # r => db'[q] = Prune(db)[q]
    BY <1>11 DEF Admit, Prune
  <2> QED BY <2>1, <2>2, <2>3, PruneRow DEF SameRow, BlankRow, Untouched
<1>12. ASSUME UNCHANGED resp PROVE Answers
  BY <1>12, <1>b
<1>13. CASE Arrive(r)
  <2>1. UNCHANGED <<db, queue, future, resp>>
    BY <1>13 DEF Arrive, Stored
  <2> QED BY <1>3, <1>4, <1>5, <1>12, <2>1
<1>21. CASE Drop(r)
  <2>1. UNCHANGED <<db, queue, future>>
    BY <1>21 DEF Drop, Stored
  <2>2. CASE http[r] = "admit"
    <3>1. Untouched(r) /\ r \notin Queued'
      BY <1>4, <2>1, <2>2 DEF Jobs, Untouched
    <3>2. Settled(r)
      BY <1>6, <3>1 DEF Untouched, MaySend
    <3>3. \A q \in Request : resp'[q] = resp[q] \/ resp'[q].of = r
      BY <1>21 DEF Drop, LeftEarly, TypeOK, OutsideTypeOK
    <3>4. Answers
      BY <1>b, <3>2, <3>3 DEF ToldNotSent, WRITE_ACTIONS
    <3> QED BY <1>3, <1>4, <1>5, <2>1, <3>4
  <2>3. CASE http[r] # "admit"
    <3>1. \A q \in Request : resp'[q] = resp[q] \/ AnsweredEarly(q)'
      BY <1>21, <2>3 DEF Drop, LeftEarly, AnsweredEarly, TypeOK, OutsideTypeOK
    <3>2. Answers
      BY <1>b, <3>1 DEF ToldNotSent, WRITE_ACTIONS
    <3> QED BY <1>3, <1>4, <1>5, <2>1, <3>2
  <2> QED BY <2>2, <2>3
<1>14. CASE SubmitDropped(r)
  <2>1. InSubmit(r) /\ UNCHANGED <<db, queue, future>>
    BY <1>14 DEF SubmitDropped, Stored
  <2>2. PICK reply : Return(r, r, reply)
    BY <1>14 DEF SubmitDropped
  <2>3. Settled(r)
    BY <1>4, <1>6, <1>10, <2>1 DEF Untouched
  <2> QED BY <1>3, <1>4, <1>5, <1>7, <2>1, <2>2, <2>3
<1>15. CASE SubmitStorage(r) \/ SubmitReject(r) \/ SubmitNotSaved(r)
  <2>1. InSubmit(r) /\ UNCHANGED <<queue, future>>
    BY <1>15 DEF SubmitStorage, SubmitReject, SubmitNotSaved
  <2>2. PICK reply : Return(r, r, reply)
    BY <1>15 DEF SubmitStorage, SubmitReject, SubmitNotSaved
  <2>3. Settled(r)
    BY <1>4, <1>6, <1>10, <2>1 DEF Untouched
  <2>4. db' \in {db, Prune(db), LookedUp(r), Admit(db, r)}
    BY <1>15 DEF SubmitStorage, SubmitReject, SubmitNotSaved, Commit
  <2>5. Rows
    BY <1>5, <1>9, <1>11, <2>1, <2>4
  <2> QED BY <1>3, <1>4, <1>7, <2>1, <2>2, <2>3, <2>5
<1>16. CASE SubmitReplay(r)
  <2>1. PICK h \in Holders(LookedUp(r), r) :
           Return(r, Replay(LookedUp(r), r, h).of, Replay(LookedUp(r), r, h).reply)
    BY <1>16 DEF SubmitReplay
  <2>2. h \in Request /\ LookedUp(r)[h] = db[h]
    BY <1>8 DEF Holders
  <2>3. Replay(LookedUp(r), r, h).of = h
    BY DEF Replay
  <2>4. UNCHANGED <<queue, future>> /\ db' = LookedUp(r)
    BY <1>16 DEF SubmitReplay
  <2>5. h \in WRITE_ACTIONS /\ SaysNotSent(Replay(LookedUp(r), r, h).reply) => Settled(h)
    <3> SUFFICES ASSUME h \in WRITE_ACTIONS, SaysNotSent(Replay(LookedUp(r), r, h).reply)
                 PROVE  Settled(h)
      OBVIOUS
    <3>1. Replay(LookedUp(r), r, h).reply = db[h].reply /\ db[h].reply # NoReply
      BY <2>2 DEF Replay, SaysNotSent
    <3>2. Denies(db[h].reply)
      BY <3>1 DEF SaysNotSent, Denies, Sent
    <3>3. sent[h] = 0 /\ ~MaySend(h)
      BY <3>2 DEF ClaimsNotSent, Truth, Claims
    <3> QED BY <1>4, <1>6, <2>2, <2>4, <3>3 DEF MaySend
  <2> HIDE DEF Rows, Futures, Queue, Answers
  <2> QED BY <1>3, <1>4, <1>7, <1>9, <2>1, <2>2, <2>3, <2>4, <2>5
<1>17. CASE SubmitAdmit(r)
  <2>1. InSubmit(r) /\ UNCHANGED <<future, resp>> /\ Untouched(r) /\ Fresh(r)
    BY <1>10, <1>17 DEF SubmitAdmit, Fresh
  <2>2. Queued' = Queued \cup {r}
    BY <1>17, <2>1, AppendSet DEF SubmitAdmit, Untouched, Queued, Jobs, TypeOK, JobTypeOK
  <2>3. Rows
    BY <1>5, <1>11, <1>17, <2>1 DEF SubmitAdmit
  <2> QED BY <1>3, <1>12, <2>1, <2>2, <2>3
<1>18. CASE Respond(r)
  <2>1. UNCHANGED <<db, queue, future>> /\ Return(r, r, future[r])
    BY <1>18 DEF Respond, Stored
  <2>2. r \in WRITE_ACTIONS /\ SaysNotSent(future[r]) => Settled(r)
    <3> SUFFICES ASSUME r \in WRITE_ACTIONS, SaysNotSent(future[r])
                 PROVE  Settled(r)
      OBVIOUS
    <3>1. Denies(future[r])
      BY DEF SaysNotSent, Denies, Sent
    <3>2. sent[r] = 0 /\ ~MaySend(r)
      BY <3>1 DEF ClaimsNotSent, Truth, Claims
    <3> QED BY <1>4, <1>6, <2>1, <3>2 DEF MaySend
  <2> QED BY <1>3, <1>4, <1>5, <1>7, <2>1, <2>2
<1>19. CASE Expire(r)
  <2>1. PICK i \in DOMAIN queue : Discard(i, "QUEUE_TIMEOUT")
    BY <1>19 DEF Expire
  <2>2. Dropping /\ UNCHANGED resp
    BY <1>19, <2>1, DiscardDrops DEF ReplyCode, Jobs, Expire, httpVars
  <2> QED BY <1>3, <1>12, <2>2 DEF Dropping, SameRow, Left
<1>20. CASE Leave(r)
  <2>1. \A q \in Request : resp'[q] = resp[q] \/ (q = r /\ resp'[q].of = r /\ resp'[q].reply.effect = LeftEffect(r))
    BY <1>20 DEF Leave, TypeOK, OutsideTypeOK
  <2>2. CASE r \notin Queued
    <3>1. UNCHANGED <<db, queue, future>>
      <4>1. \A i \in DOMAIN queue : queue[i] # r
        BY <2>2 DEF Queued, ToSet
      <4> QED BY <1>20, <4>1 DEF Leave, Stored
    <3>2. r \in WRITE_ACTIONS => LeftEffect(r) = "unknown"
      BY <2>2 DEF LeftEffect, WRITE_ACTIONS
    <3>3. Answers
      BY <1>b, <2>1, <3>2 DEF ToldNotSent, SaysNotSent, WRITE_ACTIONS
    <3> QED BY <1>3, <1>4, <1>5, <3>1, <3>3
  <2>3. CASE r \in Queued
    <3>1. PICK i \in DOMAIN queue : queue[i] = r /\ Discard(i, "REQUEST_CANCELLED")
      BY <1>20, <2>3 DEF Leave
    <3>2. Dropping /\ r \notin Queued'
      BY <3>1, DiscardDrops DEF ReplyCode, Jobs
    <3>3. Settled(r)
      <4>1. sent[r] = 0
        BY <2>3 DEF Truth, Unsent
      <4>2. ~(steps.request = r /\ wpc \in AtWork)
        BY <2>3 DEF Turns, Jobs
      <4> QED BY <1>2, <3>2, <4>1, <4>2 DEF Settled, AtWork
    <3>4. Answers
      BY <1>b, <2>1, <3>3 DEF ToldNotSent, WRITE_ACTIONS
    <3> QED BY <1>3, <3>2, <3>4 DEF Dropping, SameRow, Left
  <2> QED BY <2>2, <2>3
<1> QED BY <1>1, <1>13, <1>14, <1>15, <1>16, <1>17, <1>18, <1>19, <1>20, <1>21

\* Control calls, timers, maintenance, power-off and startup recovery keep Truth; recovery writes
\* "not executed" only over a row whose last saved phase precedes the key press.
LEMMA OutsideTruth ==
  ASSUME TypeOK, Turns, Jobs, Truth, CNext \/ ENext, TypeOK', Turns', Jobs'
  PROVE  Truth'
<1> USE DEF jobVars, httpVars, workerVars, outsideVars, linkVars
<1>1. ASSUME UNCHANGED <<sent, wpc, steps, wreply, msg, dpc, active, pending, queue, future, resp, http>>,
             \A q \in Request : SameRow(q) \/ BlankRow(q)
      PROVE  Truth'
  <2>1. Harmless
    BY <1>1, SameAnswers DEF Harmless, Queued, Replied
  <2> QED BY <2>1, HarmlessKeeps
<1>2. CASE CNext
  <2>1. UNCHANGED <<sent, wpc, steps, wreply, msg, dpc, active, pending, queue, future, resp, http, db>>
    BY <1>2 DEF CNext, PauseCall, PauseReturn, PauseFails, ResumeCall, ResumeReturn, ResumeTimeout,
                ControlOnly
  <2> QED BY <1>1, <2>1 DEF SameRow
<1>3. ASSUME NEW r \in Request, Tick(r) PROVE Truth'
  BY <1>1, <1>3 DEF Tick, SameRow
<1>4. ASSUME NEW r \in Request, Age(r) PROVE Truth'
  <2>1. \A q \in Request : SameRow(q)
    BY <1>4 DEF Age, SameRow, TypeOK, Row
  <2> QED BY <1>1, <1>4, <2>1 DEF Age
<1>5. CASE Stop \/ RuntimeFail
  BY <1>1, <1>5 DEF Stop, RuntimeFail, SameRow
<1>6. CASE Maintain
  <2>1. db' \in {db, Prune(db)}
    BY <1>6 DEF Maintain, Commit
  <2>2. \A q \in Request : SameRow(q) \/ BlankRow(q)
    BY <2>1, PruneRow DEF SameRow, BlankRow
  <2> QED BY <1>1, <1>6, <2>2 DEF Maintain
<1>7. CASE Off
  <2>1. Queued' = {}
    BY <1>7, EmptyQueue DEF Off
  <2>2. \A q, p \in WRITE_ACTIONS : ToldNotSent(q, p)' => ToldNotSent(q, p)
    BY <1>7 DEF Off, ToldNotSent, AnsweredEarly, WRITE_ACTIONS
  <2>3. Harmless
    BY <1>7, <2>1, <2>2 DEF Off, Harmless, SameRow, Replied, AtWork, BeforeKey, Reading
  <2> QED BY <2>3, HarmlessKeeps
<1>8. CASE Boot
  <2>1. /\ dpc = "off" /\ dpc' \in {"off", "window"} /\ wpc = "down" /\ queue = <<>>
        /\ UNCHANGED <<sent, wpc, steps, queue, future, resp, http>>
        /\ db' \in {db, Recover(db)}
    BY <1>8 DEF Boot, Turns, Commit
  <2>2. Queued' = {} /\ Queued = {}
    BY <2>1, EmptyQueue DEF Queued, ToSet
  <2>3. ASSUME NEW q \in Request
        PROVE  \/ db'[q] = db[q]
               \/ db'[q] = NoRow
               \/ db'[q].effect = RecoveredReply(db[q]).effect /\ db'[q].reply.effect = RecoveredReply(db[q]).effect
    <3> DEFINE d == [p \in Request |-> IF db[p].phase # "absent" /\ db[p].reply = NoReply
                           THEN FinishRow(db[p], RecoveredReply(db[p])) ELSE db[p]]
    <3>1. Recover(db)[q] \in {d[q], NoRow}
      BY DEF Recover, Prune
    <3>2. d[q] = db[q] \/ (d[q].effect = RecoveredReply(db[q]).effect /\ d[q].reply = RecoveredReply(db[q]))
      BY DEF FinishRow
    <3> HIDE DEF d
    <3> QED BY <2>1, <3>1, <3>2
  <2>4. ASSUME NEW q \in Request
        PROVE  /\ RecoveredReply(db[q]).effect = "rejected" => db[q].effect = "rejected"
               /\ RecoveredReply(db[q]).effect \notin Sent =>
                    db[q].effect \in {"none", "rejected"}
    BY DEF RecoveredReply, SafeToForget, Sent
  <2>5. NoRow.phase = "absent" /\ ~Denies(NoRow.reply) /\ NoRow.effect = "none"
    BY DEF NoRow, Denies
  <2>6. SendIsJournaled'
    <3> SUFFICES ASSUME NEW q \in Request, sent[q] > 0
                 PROVE  db'[q].phase = "absent" \/ db'[q].effect \in {"unknown", "submitted"}
      BY <2>1 DEF SendIsJournaled
    <3>1. db[q].phase = "absent" \/ db[q].effect \in Sent
      BY DEF Truth, SendIsJournaled, Sent
    <3>2. CASE db[q].phase = "absent"
      <4>1. db'[q] = db[q] \/ db'[q] = NoRow
        BY <2>1, <3>2 DEF Recover, Prune
      <4> QED BY <2>5, <3>2, <4>1
    <3>3. CASE db[q].effect \in Sent
      BY <2>3, <2>4, <2>5, <3>3 DEF Sent
    <3> QED BY <3>1, <3>2, <3>3
  <2>7. Claims'
    <3> SUFFICES ASSUME NEW r \in WRITE_ACTIONS, ClaimsNotSent(r)'
                 PROVE  sent[r] = 0
      BY <2>1, <2>2 DEF Claims, MaySend, BeforeKey, Reading
    <3>0. r \in Request
      BY DEF WRITE_ACTIONS
    <3>1. CASE ClaimsNotSent(r)
      BY <3>1 DEF Truth, Claims
    <3>2. CASE ~ClaimsNotSent(r)
      <4>1. \/ Denies(db'[r].reply) /\ db'[r] # db[r]
            \/ db'[r].effect = "rejected" /\ db'[r] # db[r]
        BY <2>1, <3>2, SameAnswers DEF ClaimsNotSent
      <4>2. RecoveredReply(db[r]).effect \notin Sent /\ db'[r] # NoRow
        BY <2>3, <2>5, <3>0, <4>1 DEF Denies, Sent
      <4>3. db[r].effect = "none"
        BY <2>4, <3>0, <3>2, <4>2 DEF ClaimsNotSent
      <4>4. db[r].phase # "absent"
        BY <2>1, <3>0, <4>1, <4>2 DEF Recover, Prune
      <4> QED BY <3>0, <4>3, <4>4 DEF Truth, SendIsJournaled, TypeOK, WorkerTypeOK
    <3> QED BY <3>1, <3>2
  <2>8. Knowledge'
    BY <2>1 DEF Knowledge, BeforeKey, Reading, Replied
  <2> QED BY <2>1, <2>2, <2>6, <2>7, <2>8 DEF Truth, Unsent, AtMostOnce
<1> QED BY <1>2, <1>3, <1>4, <1>5, <1>6, <1>7, <1>8 DEF ENext


\* The inductive invariant holds when the service starts for the first time.
LEMMA InitInvariant == Init => IInv
<1> SUFFICES ASSUME Init PROVE IInv
  OBVIOUS
<1>1. queue = <<>> /\ IsInjective(queue) /\ Queued = {} /\ active = NoRequest /\ wpc = "down" /\ msg = FALSE
      /\ dpc = "window"
  BY DEF Init, ExecutorInit, IsInjective, Queued, ToSet
<1>2. \A r \in Request : sent[r] = 0 /\ db[r] = NoRow /\ future[r] = NoReply /\ resp[r] = NoResponse
  BY DEF Init, ExecutorInit
<1>3. steps.request = NoRequest /\ NoResponse.of = NoRequest
  BY DEF Init, ExecutorInit, NoSteps, NoResponse
<1>4. NoRow.reply = NoReply /\ NoRow.effect = "none" /\ ~Denies(NoReply)
  BY DEF NoRow, Denies
<1>5. Turns
  BY <1>1 DEF Turns, Quiet, AtWork, BeforeKey, Reading, Replied
<1>6. Jobs
  BY <1>1, <1>2, <1>3, NoRequestAssumption DEF Jobs, Untouched
<1>7. Knowledge
  BY <1>1 DEF Knowledge, BeforeKey, Reading, Replied
<1>8. Claims
  BY <1>1, <1>2, <1>3, <1>4, NoRequestAssumption DEF Claims, ClaimsNotSent, ToldNotSent, WRITE_ACTIONS
<1>9. Unsent /\ AtMostOnce /\ SendIsJournaled
  BY <1>2 DEF Unsent, AtMostOnce, SendIsJournaled
<1> QED BY <1>5, <1>6, <1>7, <1>8, <1>9 DEF IInv

\* Every step preserves the inductive invariant.
LEMMA NextInvariant == TypeOK /\ TypeOK' /\ IInv /\ [Next]_vars => IInv'
<1> SUFFICES ASSUME TypeOK, TypeOK', IInv, [Next]_vars PROVE IInv'
  OBVIOUS
<1>1. Turns /\ Jobs /\ Truth
  BY DEF IInv, Truth
<1>2. ASSUME Turns', Jobs', Truth' PROVE IInv'
  BY <1>2 DEF IInv, Truth
<1>3. CASE DNext
  <2>1. Turns' /\ Jobs'
    BY <1>1, <1>3, ThreadTurns, ThreadJobs
  <2> QED BY <1>1, <1>2, <1>3, <2>1, ThreadTruth
<1>4. CASE WNext
  <2>1. Turns' /\ Jobs'
    BY <1>1, <1>4, WorkerTurns, WorkerJobs DEF WNext, jobVars
  <2> QED BY <1>1, <1>2, <1>4, <2>1, WorkerTruth
<1>5. CASE HNext
  <2>1. Turns' /\ Jobs'
    BY <1>1, <1>5, OutsideTurns, HttpJobs
  <2> QED BY <1>1, <1>2, <1>5, <2>1, HttpTruth
<1>6. CASE CNext \/ ENext
  <2>1. Turns' /\ Jobs'
    BY <1>1, <1>6, OutsideTurns, OutsideJobs
  <2> QED BY <1>1, <1>2, <1>6, <2>1, OutsideTruth
<1>7. CASE UNCHANGED vars
  <2>1. UNCHANGED <<sent, wpc, steps, wreply, msg, dpc, active, pending, queue, future, resp, db, http,
                  cancelled>>
    BY <1>7 DEF vars, workerVars, jobVars, linkVars, httpVars, outsideVars
  <2>2. Queued' = Queued
    BY <2>1 DEF Queued
  <2>3. Turns' /\ Jobs'
    BY <1>1, <2>1, <2>2 DEF Turns, Jobs, Untouched, Replied
  <2>4. Harmless
    BY <2>1, <2>2, SameAnswers DEF Harmless, SameRow, Replied
  <2> QED BY <1>1, <1>2, <2>3, <2>4, HarmlessKeeps
<1> QED BY <1>3, <1>4, <1>5, <1>6, <1>7 DEF Next

\* The inductive invariant of the bridge: turn taking, the life of a job, and the agreement of the
\* journal, the replies and the worker with the keys that were pressed, across crashes and restarts.
THEOREM Invariant == Spec => []IInv
<1>1. Init => IInv
  BY InitInvariant
<1>2. TypeOK /\ TypeOK' /\ IInv /\ [Next]_vars => IInv'
  BY NextInvariant
<1> QED BY <1>1, <1>2, TypeCorrect, PTL DEF Spec

\* The invariant contains TruthfulNotSent.
LEMMA InvariantTruthful == TypeOK /\ IInv => TruthfulNotSent
<1> SUFFICES ASSUME TypeOK, IInv, NEW r \in WRITE_ACTIONS
             PROVE  /\ SaysNotSent(db[r].reply) => sent[r] = 0
                    /\ SaysNotSent(future[r]) => sent[r] = 0
                    /\ SaysNotSent(resp[r].reply) /\ resp[r].of # NoRequest /\ ~AnsweredEarly(r) => sent[resp[r].of] = 0
  BY DEF TruthfulNotSent
<1>1. \A reply : SaysNotSent(reply) => Denies(reply)
  BY DEF SaysNotSent, Denies, Sent
<1>2. SaysNotSent(db[r].reply) \/ SaysNotSent(future[r]) => sent[r] = 0
  BY <1>1 DEF IInv, Claims, ClaimsNotSent
<1>3. ASSUME SaysNotSent(resp[r].reply), resp[r].of # NoRequest, ~AnsweredEarly(r)
      PROVE  sent[resp[r].of] = 0
  <2>1. resp[r].of \in Request
    BY <1>3 DEF TypeOK, OutsideTypeOK, WRITE_ACTIONS
  <2>2. CASE resp[r].of \in WRITE_ACTIONS
    BY <1>3, <2>2 DEF IInv, Claims, ClaimsNotSent, ToldNotSent
  <2>3. CASE resp[r].of \notin WRITE_ACTIONS
    BY <2>1, <2>3 DEF IInv, Unsent
  <2> QED BY <2>2, <2>3
<1> QED BY <1>2, <1>3

\* For any set of requests, any storage behaviour and any fault budget: no row, future or HTTP
\* response says that a request was not sent when its key was pressed, other than the answer to a client that left while
\* it was admitted (executor.py _write, journal.py
\* interrupted and recover, dispatch.py _finish).
THEOREM Truthful == Spec => []TruthfulNotSent
  BY Invariant, TypeCorrect, InvariantTruthful, PTL

\* The write-ahead rule for every instance: a request whose key was pressed has its effect recorded as
\* unknown or submitted for as long as its row exists (executor.py persists before orders.py presses).
THEOREM WriteAhead == Spec => []SendIsJournaled
<1>1. IInv => SendIsJournaled
  BY DEF IInv
<1> QED BY <1>1, Invariant, PTL

\* For every instance the order key is pressed at most once for a request, whatever crashes, retries
\* or reconnects happen (no path leads a started request back into the queue).
THEOREM SentOnce == Spec => []AtMostOnce
<1>1. IInv => AtMostOnce
  BY DEF IInv
<1> QED BY <1>1, Invariant, PTL


\* Every step keeps Ownership: a new worker is spawned only after the old process was joined.
LEMMA OwnershipStep == TypeOK /\ Turns /\ Ownership /\ [Next]_vars => Ownership'
<1> SUFFICES ASSUME TypeOK, Turns, Ownership, [Next]_vars PROVE Ownership'
  OBVIOUS
<1> USE DEF Ownership, workerVars, linkVars, Goto, Command
<1>0. \/ UNCHANGED <<wpc, exiting, handle, dpc>>
      \/ DNext \/ WNext \/ Off \/ Boot
  <2>1. CASE HNext
    BY <2>1 DEF HNext, Arrive, SubmitDropped, SubmitStorage, SubmitReplay, SubmitReject, SubmitAdmit,
              SubmitNotSaved, Drop, Leave, Expire, Respond, InSubmit, HttpOnly
  <2>2. CASE CNext
    BY <2>2 DEF CNext, PauseCall, PauseReturn, PauseFails, ResumeCall, ResumeReturn, ResumeTimeout,
                ControlOnly
  <2>3. CASE ENext
    BY <2>3 DEF ENext, Tick, Age, Stop, RuntimeFail, Maintain
  <2> QED BY <2>1, <2>2, <2>3 DEF Next, vars
<1>1. CASE UNCHANGED <<wpc, exiting, handle, dpc>>
  BY <1>1
<1>2. CASE Off \/ Boot
  BY <1>2 DEF Off, Boot
<1>3. CASE WNext
  <2>1. UNCHANGED <<handle, dpc>>
    BY <1>3 DEF WNext
  <2>2. CASE WStartup \/ WProbe \/ WResume \/ WReject \/ WQuery \/ WFinish
    <3>1. wpc' = "idle" /\ UNCHANGED exiting /\ wpc \in {"boot", "probe", "resume", "execute", "finish"}
      BY <2>2 DEF WStartup, WProbe, WResume, WReject, WQuery, WFinish, Send, At
    <3> QED BY <2>1, <3>1
  <2>3. CASE WStop \/ WExit \/ WDie
    BY <2>1, <2>3 DEF WStop, WExit, WDie
  <2>4. CASE Writing
    <3>1. wpc \in AtWork /\ wpc' \in AtWork
      BY <2>4, WritingFrame
    <3>2. UNCHANGED exiting
      BY <2>4 DEF Writing, WPrepareFails, WPrepare, WStarted, WImport, WImportRejected, WArm, WKey,
         WCapture, WSubmitted, WConfirm, WConfirmed, WNoDialog, WVerify, WCleanup, At
    <3> QED BY <2>1, <3>1, <3>2 DEF AtWork, BeforeKey, Reading
  <2> QED BY <1>3, <2>2, <2>3, <2>4 DEF WNext, WStep, Writing
<1>4. CASE DNext
  <2>1. CASE DSpawn
    BY <2>1 DEF DSpawn
  <2>2. CASE DNoWindow \/ DStarted \/ DInitialPause \/ DRecover \/ DSweep \/ DSweepDone
    BY <2>2 DEF DNoWindow, DStarted, DInitialPause, DRecover, DSweep, DSweepDone
  <2>3. CASE DChooseResume \/ DChooseReconnect \/ DChooseIdle \/ DChooseProbe \/ DChooseDispatch \/ DExit
    BY <2>3 DEF DChooseResume, DChooseReconnect, DChooseIdle, DChooseProbe, DChooseDispatch, DExit,
                Turns, Quiet
  <2>4. CASE DReceive \/ DLost \/ DResumed \/ DExecuted \/ DPost \/ DStopAcked
    BY <2>4 DEF DReceive, DLost, DResumed, DExecuted, DPost, DStopAcked
  <2>5. CASE DJoin
    <3>1. wpc = "down"
      BY <2>5 DEF DJoin, Turns, Quiet
    <3> QED BY <2>5, <3>1 DEF DJoin
  <2>6. CASE DRestart \/ DRestartFails \/ DIsolate \/ DIsolateSave \/ DIsolateRecover \/ DDrain
    BY <2>6 DEF DRestart, DRestartFails, DIsolate, DIsolateSave, DIsolateRecover, DDrain
  <2> QED BY <1>4, <2>1, <2>2, <2>3, <2>4, <2>5, <2>6 DEF DNext
<1> QED BY <1>0, <1>1, <1>2, <1>3, <1>4

\* For every instance the desktop has at most one live worker (dispatch.py _reconnect and _run join or
\* kill the old process before starting another).
THEOREM OneOwner == Spec => []SingleOwner
<1>1. Init => Ownership
  BY DEF Init, ExecutorInit, Ownership
<1>2. TypeOK /\ IInv /\ Ownership /\ [Next]_vars => Ownership'
  BY OwnershipStep DEF IInv
<1>3. Ownership => SingleOwner
  BY DEF Ownership, SingleOwner
<1> QED BY <1>1, <1>2, <1>3, TypeCorrect, Invariant, PTL DEF Spec

\* Every step keeps StopSeen: a thread that saw the stop flag unset under the lock chooses before the
\* flag can be set.
LEMMA StopSeenStep == StopSeen /\ [Next]_vars => StopSeen'
<1> SUFFICES ASSUME StopSeen, [Next]_vars PROVE StopSeen'
  OBVIOUS
<1> USE DEF StopSeen, flagVars, Goto, Locked
<1>1. CASE DNext
  <2>1. CASE DSpawn \/ DNoWindow \/ DStarted \/ DInitialPause \/ DRecover \/ DSweep \/ DSweepDone
    BY <2>1 DEF DSpawn, DNoWindow, DStarted, DInitialPause, DRecover, DSweep, DSweepDone
  <2>2. CASE DChooseResume \/ DChooseReconnect \/ DChooseIdle \/ DChooseProbe \/ DChooseDispatch \/ DExit
    BY <2>2 DEF DChooseResume, DChooseReconnect, DChooseIdle, DChooseProbe, DChooseDispatch, DExit
  <2>3. CASE DReceive \/ DLost \/ DResumed \/ DExecuted \/ DPost \/ DStopAcked \/ DJoin
    BY <2>3 DEF DReceive, DLost, DResumed, DExecuted, DPost, DStopAcked, DJoin
  <2>4. CASE DRestart \/ DRestartFails \/ DIsolate \/ DIsolateSave \/ DIsolateRecover \/ DDrain
    BY <2>4 DEF DRestart, DRestartFails, DIsolate, DIsolateSave, DIsolateRecover, DDrain
  <2> QED BY <1>1, <2>1, <2>2, <2>3, <2>4 DEF DNext
<1>2. CASE WNext
  BY <1>2 DEF WNext
<1>3. CASE HNext
  BY <1>3 DEF HNext, Arrive, SubmitDropped, SubmitStorage, SubmitReplay, SubmitReject, SubmitAdmit,
              SubmitNotSaved, Drop, Leave, Expire, Respond, InSubmit, HttpOnly
<1>4. CASE CNext
  BY <1>4 DEF CNext, PauseCall, PauseReturn, PauseFails, ResumeCall, ResumeReturn, ResumeTimeout,
              ControlOnly
<1>5. CASE ENext
  BY <1>5 DEF ENext, Tick, Age, Stop, RuntimeFail, Maintain, Off, Boot
<1>6. CASE UNCHANGED vars
  BY <1>6 DEF vars
<1> QED BY <1>1, <1>2, <1>3, <1>4, <1>5, <1>6 DEF Next

\* Only DChooseDispatch makes a job active.
LEMMA DispatchOnly ==
  ASSUME Next, ~DChooseDispatch
  PROVE  active' \in {active, NoRequest}
<1> USE DEF jobVars
<1>1. CASE DNext
  BY <1>1 DEF DNext, DSpawn, DNoWindow, DStarted, DInitialPause, DRecover, DSweep, DSweepDone,
         DChooseResume, DChooseReconnect, DChooseIdle, DChooseProbe, DReceive, DLost, DResumed,
         DExecuted, DPost, DStopAcked, DJoin, DRestart, DRestartFails, DExit, DIsolate,
         DIsolateSave, DIsolateRecover, DDrain
<1>2. CASE WNext
  BY <1>2 DEF WNext
<1>3. CASE HNext
  BY <1>3 DEF HNext, Arrive, SubmitDropped, SubmitStorage, SubmitReplay, SubmitReject, SubmitAdmit,
              SubmitNotSaved, Drop, Leave, Expire, Respond, InSubmit, HttpOnly
<1>4. CASE CNext
  BY <1>4 DEF CNext, PauseCall, PauseReturn, PauseFails, ResumeCall, ResumeReturn, ResumeTimeout,
              ControlOnly
<1>5. CASE ENext
  BY <1>5 DEF ENext, Tick, Age, Stop, RuntimeFail, Maintain, Off, Boot
<1> QED BY <1>1, <1>2, <1>3, <1>4, <1>5 DEF Next

\* For every instance no job starts once stop() has set the flag (dispatch.py _loop reads the flag and
\* takes the job under one lock).
THEOREM StopIsFinal == Spec => NoDispatchAfterStop
<1>1. Init => StopSeen
  BY DEF Init, StopSeen
<1>2. StopSeen /\ [Next]_vars => StopSeen'
  BY StopSeenStep
<1>3. StopSeen /\ [Next]_vars => [stopping => active' \in {active, NoRequest}]_vars
  <2>1. DChooseDispatch /\ StopSeen => ~stopping
    BY DEF DChooseDispatch, Goto, StopSeen
  <2> QED BY <2>1, DispatchOnly
<1> QED BY <1>1, <1>2, <1>3, PTL DEF Spec, NoDispatchAfterStop

-----------------------------------------------------------------------------
\* What a step can do to the journal, the job results and the queue, and the theorems that follow:
\* the queue is sound, an idempotency key has one row, an unknown outcome is kept, and "submitted" is
\* said only of an order the terminal got.  Every step falls into one of the kinds of JournalStep, so
\* the proofs below go through kinds of steps and not through the actions.

\* Neither a row nor a result changes, nor what is remembered of the saves.
Kept == UNCHANGED <<db, future, failed, unresolved>>

SkipCode == {"SERVICE_NOT_READY", "REQUEST_CANCELLED", "QUEUE_TIMEOUT"}

\* Jobs leave the queue with the answer that they were not executed.
Skip ==
  \E V \in SUBSET Queued, c \in SkipCode : \E o \in [V -> Storage] :
    /\ Answered(V, [r \in V |-> NotRun(c)], o)
    /\ V \cap Queued' = {} /\ UNCHANGED active

\* The started job is answered, with the worker's reply or by the isolation.
Close ==
  \E reply \in Reply : \E o \in [{active} -> Storage] :
    /\ active \in Request
    /\ Answered({active}, [q \in {active} |-> reply], o)
    /\ \/ dpc = "executed" /\ reply = wreply /\ active' = NoRequest
       \/ dpc = "isolate_save" /\ reply = pending /\ active' = active /\ dpc' = "isolate_recover"
    /\ UNCHANGED <<queue, steps>>

Forgotten(r) == db'[r] = NoRow /\ Prunable(db[r])

\* Rows older than the TTL are deleted, or a row gets older.
Pruned ==
  /\ \A r \in Request : SameRow(r) \/ Forgotten(r)
  /\ UNCHANGED <<future, failed, unresolved>>

\* A write is admitted: its row is inserted.
Insert ==
  \E r \in WRITE_ACTIONS :
    /\ InSubmit(r) /\ Unseen(r)
    /\ db' = Admit(db, r)
    /\ UNCHANGED <<future, failed, unresolved>>

JournalStep == Kept \/ Skip \/ Close \/ WNext \/ Pruned \/ Insert \/ DIsolate \/ Off \/ Boot

\* Answering nobody changes nothing.
LEMMA AnsweredNone ==
  ASSUME TypeOK, NEW R, NEW o, Answered({}, R, o)
  PROVE  Kept
<1>1. /\ db' = [r \in Request |-> db[r]]
      /\ unresolved' = unresolved
      /\ failed' = (failed \/ FALSE)
      /\ future' = [r \in Request |-> future[r]]
  BY DEF Answered
<1>2. failed' = failed
  BY <1>1, Zenon DEF TypeOK, JobTypeOK
<1>3. db' = db /\ future' = future
  BY <1>1 DEF TypeOK, JobTypeOK
<1> QED BY <1>1, <1>2, <1>3 DEF Kept

\* _update_recovery leaves the queue alone or answers all of it.
LEMMA UpdateRecoverySkips ==
  ASSUME TypeOK, UpdateRecovery, UNCHANGED active
  PROVE  (Kept \/ Skip) /\ queue' \in {queue, <<>>}
<1> DEFINE base == IF rtError
              THEN [state EXCEPT !.blocked = TRUE, !.query_ready = FALSE, !.trading_ready = FALSE]
              ELSE state
           victims == IF base.blocked \/ failed \/ ~base.query_ready THEN Queued ELSE {}
<1>1. PICK o \in [victims -> Storage] :
        /\ Answered(victims, [r \in victims |-> NotRun("SERVICE_NOT_READY")], o)
        /\ queue' = IF victims = {} THEN queue ELSE <<>>
  BY DEF UpdateRecovery
<1>2. victims \in {Queued, {}}
  OBVIOUS
<1> HIDE DEF base, victims
<1>3. CASE victims = {}
  BY <1>1, <1>3, AnsweredNone
<1>4. CASE victims # {}
  <2>1. queue' = <<>> /\ victims = Queued
    BY <1>1, <1>2, <1>4
  <2>2. Queued' = {}
    BY <2>1, EmptyQueue
  <2>3. Skip
    BY <1>1, <2>1, <2>2, ZenonT(60) DEF Skip, SkipCode
  <2> QED BY <2>1, <2>3
<1> QED BY <1>3, <1>4

\* So does a job that is cancelled or too late.
LEMMA DiscardSkips ==
  ASSUME TypeOK, Jobs, NEW i \in DOMAIN queue, NEW c \in SkipCode, Discard(i, c), UNCHANGED active
  PROVE  Skip /\ Len(queue') <= Len(queue)
<1>1. PICK o \in Storage :
        /\ Answered({queue[i]}, [q \in {queue[i]} |-> NotRun(c)], [q \in {queue[i]} |-> o])
        /\ queue' = RemoveAt(queue, i)
  BY DEF Discard
<1>2. ToSet(queue') = ToSet(queue) \ {queue[i]} /\ Len(queue') = Len(queue) - 1 /\ Len(queue) \in Nat
  BY <1>1, RemoveAtSet DEF Jobs, TypeOK, JobTypeOK
<1>3. {queue[i]} \in SUBSET Queued /\ {queue[i]} \cap Queued' = {}
  BY <1>2 DEF Queued, ToSet
<1>4. [q \in {queue[i]} |-> o] \in [{queue[i]} -> Storage]
  OBVIOUS
<1>5. Skip
  BY <1>1, <1>3, <1>4 DEF Skip
<1>6. Len(queue') <= Len(queue)
  BY <1>2
<1> QED BY <1>5, <1>6

\* Pruning leaves every row or deletes it.
LEMMA PruneKind ==
  ASSUME TypeOK, db' \in {db, Prune(db)}, NEW q \in Request
  PROVE  SameRow(q) \/ Forgotten(q)
  BY DEF Prune, SameRow, Forgotten

\* Every step of the dispatcher thread is of one of the kinds.
LEMMA ThreadKind == ASSUME TypeOK, Turns, Jobs, DNext PROVE JournalStep
<1> USE DEF jobVars, saveVars, workerVars, outsideVars, httpVars, linkVars
<1>1. CASE DSpawn \/ DNoWindow \/ DStarted \/ DInitialPause \/ DSweepDone \/ DReceive \/ DLost \/ DResumed
           \/ DStopAcked \/ DJoin \/ DRestart \/ DRestartFails
  BY <1>1 DEF DSpawn, DNoWindow, DStarted, DInitialPause, DSweepDone, DReceive, DLost,
         DResumed, DStopAcked, DJoin, DRestart, DRestartFails, JournalStep, Kept
<1>2. CASE DChooseResume \/ DChooseReconnect \/ DChooseIdle \/ DChooseProbe \/ DChooseDispatch \/ DExit
  BY <1>2 DEF DChooseResume, DChooseReconnect, DChooseIdle, DChooseProbe, DChooseDispatch, DExit,
         JournalStep, Kept
<1>3. CASE DRecover \/ DPost \/ DIsolateRecover
  BY <1>3, UpdateRecoverySkips DEF DRecover, DPost, DIsolateRecover, JournalStep
<1>4. CASE DSweep
  <2>1. PICK i \in DOMAIN queue, c \in SkipCode : Discard(i, c)
    BY <1>4 DEF DSweep, SkipCode
  <2> QED BY <1>4, <2>1, DiscardSkips DEF DSweep, JournalStep
<1>5. CASE DDrain
  <2>1. PICK o \in [Queued -> Storage] : Answered(Queued, [q \in Queued |-> NotRun("SERVICE_NOT_READY")], o)
    BY <1>5 DEF DDrain
  <2>2. Queued' = {} /\ UNCHANGED active
    BY <1>5, EmptyQueue DEF DDrain
  <2>3. Skip
    BY <2>1, <2>2 DEF Skip, SkipCode
  <2> QED BY <2>3 DEF JournalStep
<1>6. CASE DExecuted
  <2>1. PICK o \in Storage : Answered({active}, [q \in {active} |-> wreply], [q \in {active} |-> o])
    BY <1>6 DEF DExecuted
  <2>2. active \in Request /\ wreply \in Reply /\ [q \in {active} |-> o] \in [{active} -> Storage]
    BY <1>6 DEF DExecuted, Goto, Turns, Replied, TypeOK, WorkerTypeOK
  <2>3. dpc = "executed" /\ active' = NoRequest /\ UNCHANGED <<queue, steps>>
    BY <1>6 DEF DExecuted, Goto
  <2>4. Close
    BY <2>1, <2>2, <2>3 DEF Close
  <2> QED BY <2>4 DEF JournalStep
<1>7. CASE DIsolateSave
  <2>0. dpc = "isolate_save" /\ dpc' = "isolate_recover" /\ UNCHANGED <<queue, steps, active>>
    BY <1>7 DEF DIsolateSave, Goto
  <2>1. CASE active = NoRequest
    <3>1. {active} \ {NoRequest} = {}
      BY <2>1
    <3>2. PICK R, o : Answered({}, R, o)
      BY <1>7, <3>1 DEF DIsolateSave
    <3> QED BY <3>2, AnsweredNone DEF JournalStep
  <2>2. CASE active # NoRequest
    <3>1. {active} \ {NoRequest} = {active} /\ active \in Request /\ pending \in Reply
      BY <2>2 DEF TypeOK, JobTypeOK, ThreadTypeOK
    <3>2. PICK o \in [{active} -> Storage] : Answered({active}, [q \in {active} |-> pending], o)
      BY <1>7, <3>1 DEF DIsolateSave
    <3>3. Close
      BY <2>0, <3>1, <3>2 DEF Close
    <3> QED BY <3>3 DEF JournalStep
  <2> QED BY <2>1, <2>2
<1> QED BY <1>1, <1>2, <1>3, <1>4, <1>5, <1>6, <1>7 DEF DNext, JournalStep

\* Every step of an HTTP handler is of one of the kinds.
LEMMA HttpKind == ASSUME TypeOK, Jobs, HNext PROVE JournalStep
<1>1. PICK r \in Request :
    \/ Arrive(r) \/ SubmitDropped(r) \/ SubmitStorage(r) \/ SubmitReplay(r) \/ SubmitReject(r)
    \/ SubmitAdmit(r) \/ SubmitNotSaved(r) \/ Drop(r) \/ Leave(r) \/ Expire(r) \/ Respond(r)
  BY DEF HNext
<1> USE DEF saveVars
<1>2. CASE Arrive(r) \/ SubmitDropped(r) \/ Drop(r) \/ Respond(r)
  BY <1>2 DEF Arrive, SubmitDropped, Drop, Respond, Stored, JournalStep, Kept
<1>3. ASSUME db' \in {db, Prune(db)}, UNCHANGED <<future, failed, unresolved>> PROVE JournalStep
  BY <1>3, PruneKind DEF JournalStep, Pruned
<1>4. CASE SubmitStorage(r) \/ SubmitReplay(r) \/ SubmitReject(r)
  BY <1>3, <1>4 DEF SubmitStorage, SubmitReplay, SubmitReject, LookedUp, Commit
<1>5. CASE SubmitAdmit(r) \/ SubmitNotSaved(r)
  <2>1. /\ InSubmit(r) /\ Unseen(r) /\ UNCHANGED <<future, failed, unresolved>>
        /\ \/ db' \in {db, Prune(db)}
           \/ r \in WRITE_ACTIONS /\ db' = Admit(db, r)
    BY <1>5 DEF SubmitAdmit, SubmitNotSaved, LookedUp, Commit
  <2> QED BY <1>3, <2>1 DEF JournalStep, Insert
<1>6. CASE Leave(r) \/ Expire(r)
  <2>1. UNCHANGED active
    BY <1>6 DEF Leave, Expire, HttpOnly
  <2>2. \/ UNCHANGED <<db, future, failed, unresolved>>
        \/ \E i \in DOMAIN queue, c \in SkipCode : Discard(i, c)
    BY <1>6 DEF Leave, Expire, Stored, SkipCode
  <2> QED BY <2>1, <2>2, DiscardSkips DEF JournalStep, Kept
<1> QED BY <1>1, <1>2, <1>4, <1>5, <1>6

\* Every step of the bridge is of one of the kinds.
LEMMA StepKind == ASSUME TypeOK, Turns, Jobs, [Next]_vars PROVE JournalStep
<1> USE DEF jobVars, saveVars
<1>1. CASE DNext
  BY <1>1, ThreadKind
<1>2. CASE WNext
  BY <1>2 DEF JournalStep
<1>3. CASE HNext
  BY <1>3, HttpKind
<1>4. CASE CNext
  BY <1>4 DEF CNext, PauseCall, PauseReturn, PauseFails, ResumeCall, ResumeReturn, ResumeTimeout,
              ControlOnly, JournalStep, Kept
<1>5. CASE ENext
  <2>1. CASE Stop \/ RuntimeFail \/ \E r \in Request : Tick(r)
    BY <2>1 DEF Stop, RuntimeFail, Tick, JournalStep, Kept
  <2>2. ASSUME NEW r \in Request, Age(r) PROVE JournalStep
    <3>1. \A q \in Request : SameRow(q)
      BY <2>2 DEF Age, SameRow, TypeOK, Row
    <3> QED BY <2>2, <3>1 DEF Age, JournalStep, Pruned
  <2>3. CASE Maintain
    <3>1. db' \in {db, Prune(db)}
      BY <2>3 DEF Maintain, Commit
    <3> QED BY <2>3, <3>1, PruneKind DEF Maintain, JournalStep, Pruned
  <2> QED BY <1>5, <2>1, <2>2, <2>3 DEF ENext, JournalStep
<1>6. CASE UNCHANGED vars
  BY <1>6 DEF vars, JournalStep, Kept
<1> QED BY <1>1, <1>2, <1>3, <1>4, <1>5, <1>6 DEF Next


\* The row of r in a step that is not the worker's: r's admission, its end in the queue, the answer to
\* it as the started job, or startup recovery.
Inserted(r) == r \in WRITE_ACTIONS /\ InSubmit(r) /\ Unseen(r) /\ db' = Admit(db, r)

Skipped(r) ==
  Left(r) /\ db[r].phase # "absent" /\ db'[r].effect = "none" /\ db'[r].reply.effect = "none"

Closed(r) == Close /\ active = r /\ db[r].phase # "absent"

Recovered(r) == Boot /\ db'[r] = Recover(db)[r]

\* The worker writes the row of its own request.
Written(r) == WNext /\ steps.request = r /\ wpc \in AtWork /\ db[r].phase # "absent"

RowStep(r) ==
  SameRow(r) \/ Forgotten(r) \/ Inserted(r) \/ Skipped(r) \/ Closed(r) \/ Recovered(r) \/ Written(r)

\* The worker creates no row and touches none but its own.
LEMMA WorkerRow ==
  ASSUME TypeOK, WStep, NEW q \in Request
  PROVE  db'[q] = db[q] \/ (steps.request = q /\ wpc \in AtWork /\ db[q].phase # "absent")
<1> USE DEF AtWork, BeforeKey, Reading
<1>1. ASSUME NEW p \in Phase, NEW e \in Effect, NEW n, Save(p, e, n)
      PROVE  db'[q] = db[q] \/ (steps.request = q /\ db[q].phase # "absent")
  <2>1. q # steps.request => db'[q] = db[q]
    BY <1>1, SaveFrame
  <2>2. db'[q] = db[q] \/ db'[q] = SaveRow(db[q], p, e)
    BY <1>1, SaveFrame
  <2> QED BY <2>1, <2>2 DEF SaveRow
<1>2. ASSUME Trouble \/ Unproven \/ \E c \in ErrorCode : Raise(c, exec) PROVE db' = db
  BY <1>2, TroubleFrame
<1>3. CASE WStartup \/ WProbe \/ WResume \/ WStop \/ WExit \/ WDie \/ WReject \/ WQuery \/ WPrepareFails
           \/ WKey \/ WConfirm \/ WCleanup
  BY <1>3 DEF WStartup, WProbe, WResume, WStop, WExit, WDie, WReject, WQuery, WPrepareFails, WKey,
              WConfirm, WCleanup
<1>4. CASE WPrepare
  BY <1>1, <1>2, <1>4 DEF WPrepare, At, Phase, Effect, ErrorCode
<1>5. CASE WStarted \/ WImport \/ WArm
  BY <1>1, <1>2, <1>5 DEF WStarted, WImport, WArm, At, Phase, Effect
<1>6. CASE WCapture \/ WSubmitted \/ WConfirmed
  BY <1>1, <1>2, <1>6 DEF WCapture, WSubmitted, WConfirmed, At, Phase, Effect
<1>7. CASE WNoDialog \/ WVerify
  BY <1>1, <1>2, <1>7 DEF WNoDialog, WVerify, At, Phase, Effect, ErrorCode
<1>8. CASE WImportRejected
  <2>1. PICK o \in Storage : db' = Commit(o, db, SavePhase(db, steps.request, "rejected", "rejected"))
    BY <1>8 DEF WImportRejected
  <2>2. db'[q] = db[q] \/ (steps.request = q /\ db'[q] = SaveRow(db[q], "rejected", "rejected"))
    BY <2>1 DEF Commit, SavePhase, TypeOK
  <2> QED BY <1>8, <2>2 DEF WImportRejected, At, SaveRow
<1>9. CASE WFinish
  <2>1. PICK o \in Storage : db' = Commit(o, db, Finish(db, steps.request, wreply))
    BY <1>9 DEF WFinish
  <2>2. db'[q] = db[q] \/ (steps.request = q /\ db'[q] = FinishRow(db[q], wreply))
    BY <2>1 DEF Commit, Finish, TypeOK
  <2> QED BY <1>9, <2>2 DEF WFinish, At, FinishRow
<1> QED BY <1>3, <1>4, <1>5, <1>6, <1>7, <1>8, <1>9 DEF WStep

\* Recovery creates no row and keeps what is unknown.
LEMMA RecoverRow ==
  ASSUME TypeOK, NEW q \in Request
  PROVE  /\ db[q].phase = "absent" => Recover(db)[q] = db[q]
         /\ db[q].effect = "unknown" /\ db[q].phase # "absent" => Recover(db)[q].effect = "unknown"
<1> DEFINE d == [p \in Request |-> IF db[p].phase # "absent" /\ db[p].reply = NoReply
                           THEN FinishRow(db[p], RecoveredReply(db[p])) ELSE db[p]]
<1>1. /\ db[q].phase = "absent" => d[q] = db[q]
      /\ db[q].effect = "unknown" => d[q].effect = "unknown"
  BY DEF FinishRow, RecoveredReply, SafeToForget
<1>2. Recover(db)[q] = IF Prunable(d[q]) THEN NoRow ELSE d[q]
  BY DEF Recover, Prune
<1> HIDE DEF d
<1> QED BY <1>1, <1>2 DEF Prunable

\* Every step changes a row in one of these ways.
LEMMA RowSteps ==
  ASSUME TypeOK, Turns, Jobs, [Next]_vars, NEW r \in Request
  PROVE  RowStep(r)
<1>1. CASE Kept \/ DIsolate \/ Off
  BY <1>1 DEF Kept, DIsolate, Off, RowStep, SameRow
<1>2. CASE Skip
  <2>0. PICK V \in SUBSET Queued, c \in SkipCode : \E o \in [V -> Storage] :
          Answered(V, [q \in V |-> NotRun(c)], o) /\ V \cap Queued' = {}
    BY <1>2 DEF Skip
  <2>1. PICK o \in [V -> Storage] : Answered(V, [q \in V |-> NotRun(c)], o) /\ V \cap Queued' = {}
    BY <2>0
  <2>2. r \notin V => db'[r] = db[r]
    BY <2>1 DEF Answered
  <2>3. r \in V => db'[r] = db[r] \/ db'[r] = FinishRow(db[r], NotRun(c))
    BY <2>1 DEF Answered, Commit
  <2>4. FinishRow(db[r], NotRun(c)) = db[r]
        \/ /\ db[r].phase # "absent" /\ FinishRow(db[r], NotRun(c)).effect = "none"
           /\ FinishRow(db[r], NotRun(c)).reply.effect = "none"
    BY DEF FinishRow, NotRun
  <2> QED BY <2>1, <2>2, <2>3, <2>4 DEF RowStep, SameRow, Skipped, Left
<1>3. CASE Close
  <2>1. PICK reply \in Reply, o \in [{active} -> Storage] :
          Answered({active}, [q \in {active} |-> reply], o)
    BY <1>3 DEF Close
  <2>2. r # active => db'[r] = db[r]
    BY <2>1 DEF Answered
  <2>3. db'[r] = db[r] \/ db[r].phase # "absent"
    BY <2>1 DEF Answered, Commit, FinishRow
  <2> QED BY <1>3, <2>2, <2>3 DEF RowStep, SameRow, Closed
<1>4. CASE WNext
  BY <1>4, WorkerRow DEF WNext, RowStep, SameRow, Written
<1>5. CASE Pruned
  BY <1>5 DEF Pruned, RowStep
<1>6. CASE Insert
  <2>1. PICK q \in WRITE_ACTIONS : InSubmit(q) /\ Unseen(q) /\ db' = Admit(db, q)
    BY <1>6 DEF Insert
  <2>2. CASE r = q
    BY <2>1, <2>2 DEF RowStep, Inserted
  <2>3. CASE r # q
    BY <2>1, <2>3 DEF Admit, Prune, RowStep, SameRow, Forgotten
  <2> QED BY <2>2, <2>3
<1>7. CASE Boot
  <2>1. db' \in {db, Recover(db)}
    BY <1>7 DEF Boot, Commit
  <2> QED BY <1>7, <2>1 DEF RowStep, SameRow, Recovered
<1> QED BY <1>1, <1>2, <1>3, <1>4, <1>5, <1>6, <1>7, StepKind DEF JournalStep

\* A row appears only with the admission of its request.
LEMMA RowCreated ==
  ASSUME TypeOK, Turns, Jobs, [Next]_vars, NEW r \in Request, db[r].phase = "absent", db'[r].phase # "absent"
  PROVE  Inserted(r)
<1>1. NoRow.phase = "absent"
  BY DEF NoRow
<1>2. CASE Recovered(r)
  BY <1>2, RecoverRow DEF Recovered
<1> QED BY <1>1, <1>2, RowSteps DEF RowStep, SameRow, Forgotten, Skipped, Closed, Written


\* Whether r's row has the effect "unknown" changes only where the worker writes it, at the end of
\* its execution, or by startup recovery; a job that waits has nothing unknown.
LEMMA UnknownSteps ==
  ASSUME TypeOK, Turns, Jobs, QueueRows, [Next]_vars, NEW r \in Request
  PROVE  \/ db'[r].effect = "unknown" <=> db[r].effect = "unknown"
         \/ Closed(r) \/ Written(r)
         \/ Recovered(r) /\ db[r].effect # "unknown"
<1>1. NoRow.effect = "none"
  BY DEF NoRow
<1>2. CASE SameRow(r)
  BY <1>2 DEF SameRow
<1>3. CASE Forgotten(r)
  BY <1>1, <1>3 DEF Forgotten, Prunable
<1>4. CASE Inserted(r)
  <2>1. db[r] = NoRow
    BY <1>4 DEF Inserted, InSubmit, Jobs, Untouched
  <2>2. db'[r].effect = "none"
    BY <1>4 DEF Inserted, Admit, Prune, NoRow
  <2> QED BY <1>1, <2>1, <2>2
<1>5. CASE Skipped(r)
  BY <1>5 DEF Skipped, Left, QueueRows
<1>6. CASE Recovered(r)
  BY <1>6, RecoverRow DEF Recovered
<1> QED BY <1>2, <1>3, <1>4, <1>5, <1>6, RowSteps DEF RowStep

\* A result is set when its job leaves the queue or ends as the started job, and never otherwise.
LEMMA FutureStep ==
  ASSUME TypeOK, Turns, Jobs, [Next]_vars, NEW r \in Request
  PROVE  future'[r] = future[r] \/ (Skip /\ Left(r)) \/ (Close /\ active = r)
<1>1. CASE Kept \/ DIsolate \/ Off \/ Boot \/ WNext \/ Pruned \/ Insert
  BY <1>1 DEF Kept, DIsolate, Off, Boot, WNext, Pruned, Insert, jobVars
<1>2. CASE Skip
  <2>0. PICK V \in SUBSET Queued, c \in SkipCode : \E o \in [V -> Storage] :
          Answered(V, [q \in V |-> NotRun(c)], o) /\ V \cap Queued' = {}
    BY <1>2 DEF Skip
  <2>1. PICK o \in [V -> Storage] : Answered(V, [q \in V |-> NotRun(c)], o)
    BY <2>0
  <2>2. r \notin V => future'[r] = future[r]
    BY <2>1 DEF Answered
  <2> QED BY <1>2, <2>0, <2>2 DEF Left
<1>3. CASE Close
  <2>1. PICK reply \in Reply, o \in [{active} -> Storage] :
          Answered({active}, [q \in {active} |-> reply], o)
    BY <1>3 DEF Close
  <2>2. r # active => future'[r] = future[r]
    BY <2>1 DEF Answered
  <2> QED BY <1>3, <2>2
<1> QED BY <1>1, <1>2, <1>3, StepKind DEF JournalStep

\* A job enters the queue only by its admission, and only while there is room.
LEMMA QueueStep ==
  ASSUME TypeOK, Jobs, [Next]_vars
  PROVE  \/ Queued' \subseteq Queued /\ Len(queue') <= Len(queue)
         \/ \E r \in Request : SubmitAdmit(r) /\ Queued' = Queued \cup {r} /\ Len(queue') = Len(queue) + 1
<1> USE DEF jobVars
<1>0. queue \in Seq(Request) /\ IsInjective(queue) /\ Len(queue) \in Nat
  BY DEF TypeOK, JobTypeOK, Jobs
<1>1. ASSUME UNCHANGED queue PROVE Queued' \subseteq Queued /\ Len(queue') <= Len(queue)
  BY <1>0, <1>1 DEF Queued
<1>2. ASSUME queue' = <<>> PROVE Queued' \subseteq Queued /\ Len(queue') <= Len(queue)
  BY <1>0, <1>2, EmptyQueue
<1>3. ASSUME NEW i \in DOMAIN queue, NEW c, Discard(i, c)
      PROVE  Queued' \subseteq Queued /\ Len(queue') <= Len(queue)
  <2>1. queue' = RemoveAt(queue, i)
    BY <1>3 DEF Discard
  <2> QED BY <1>0, <2>1, RemoveAtSet DEF Queued
<1>4. ASSUME UpdateRecovery PROVE queue' \in {queue, <<>>}
  BY <1>4 DEF UpdateRecovery
<1>5. CASE DNext
  <2>1. CASE DSpawn \/ DNoWindow \/ DStarted \/ DInitialPause \/ DSweepDone \/ DReceive \/ DLost \/ DResumed
             \/ DStopAcked \/ DJoin \/ DRestart \/ DRestartFails \/ DExecuted \/ DIsolate \/ DIsolateSave
    BY <1>1, <2>1 DEF DSpawn, DNoWindow, DStarted, DInitialPause, DSweepDone, DReceive, DLost, DResumed,
           DStopAcked, DJoin, DRestart, DRestartFails, DExecuted, DIsolate, DIsolateSave
  <2>2. CASE DChooseResume \/ DChooseReconnect \/ DChooseIdle \/ DChooseProbe \/ DExit
    BY <1>1, <2>2 DEF DChooseResume, DChooseReconnect, DChooseIdle, DChooseProbe, DExit
  <2>3. CASE DRecover \/ DPost \/ DIsolateRecover \/ DDrain
    BY <1>1, <1>2, <1>4, <2>3 DEF DRecover, DPost, DIsolateRecover, DDrain
  <2>4. CASE DSweep
    BY <1>3, <2>4 DEF DSweep
  <2>5. CASE DChooseDispatch
    BY <1>0, <2>5, TailSet DEF DChooseDispatch, Queued
  <2> QED BY <1>5, <2>1, <2>2, <2>3, <2>4, <2>5 DEF DNext
<1>6. CASE WNext
  BY <1>1, <1>6 DEF WNext
<1>7. ASSUME NEW r \in Request,
             \/ Arrive(r) \/ SubmitDropped(r) \/ SubmitStorage(r) \/ SubmitReplay(r) \/ SubmitReject(r)
             \/ SubmitNotSaved(r) \/ Drop(r) \/ Respond(r)
      PROVE  UNCHANGED queue
  BY <1>7 DEF Arrive, SubmitDropped, SubmitStorage, SubmitReplay, SubmitReject, SubmitNotSaved, Drop,
              Respond, Stored
<1>8. ASSUME NEW r \in Request, Leave(r) \/ Expire(r)
      PROVE  UNCHANGED queue \/ \E i \in DOMAIN queue, c \in ReplyCode : Discard(i, c)
  BY <1>8 DEF Leave, Expire, Stored, ReplyCode
<1>9. ASSUME NEW r \in Request, SubmitAdmit(r)
      PROVE  Queued' = Queued \cup {r} /\ Len(queue') = Len(queue) + 1
  <2>1. r \notin Queued /\ queue' = Append(queue, r)
    BY <1>9 DEF SubmitAdmit, InSubmit, Jobs, Untouched
  <2> QED BY <1>0, <2>1, AppendSet DEF Queued
<1>10. CASE HNext
  BY <1>1, <1>3, <1>7, <1>8, <1>9, <1>10 DEF HNext
<1>11. CASE CNext
  BY <1>1, <1>11 DEF CNext, PauseCall, PauseReturn, PauseFails, ResumeCall, ResumeReturn, ResumeTimeout,
              ControlOnly
<1>12. CASE ENext
  BY <1>1, <1>2, <1>12 DEF ENext, Tick, Age, Stop, RuntimeFail, Maintain, Off, Boot
<1>13. CASE UNCHANGED vars
  BY <1>1, <1>13 DEF vars
<1> QED BY <1>5, <1>6, <1>10, <1>11, <1>12, <1>13 DEF Next

\* Every step keeps QueueRows.
LEMMA QueueRowsStep ==
  ASSUME TypeOK, Turns, Jobs, QueueRows, [Next]_vars, Jobs'
  PROVE  QueueRows'
<1>0. Len(queue) \in Nat /\ QueueCapacity \in Nat
  BY QueueAssumption DEF TypeOK, JobTypeOK
<1>1. Len(queue') <= QueueCapacity
  <2>1. ASSUME NEW r \in Request, SubmitAdmit(r) PROVE Len(queue) < QueueCapacity
    BY <1>0, <2>1 DEF SubmitAdmit, Full
  <2>2. Len(queue') <= Len(queue) \/ (Len(queue) < QueueCapacity /\ Len(queue') = Len(queue) + 1)
    BY <2>1, QueueStep
  <2>3. Len(queue) <= QueueCapacity
    BY DEF QueueRows
  <2> QED BY <1>0, <2>2, <2>3
<1>2. ASSUME NEW r \in Queued', r \in Queued
      PROVE  /\ future'[r] = NoReply
             /\ r \in WRITE_ACTIONS => db'[r].phase = "queued" /\ db'[r].effect = "none" /\ db'[r].reply = NoReply
  <2>0. r \in Request /\ active # r /\ ~Left(r)
    BY <1>2 DEF Jobs, Left, Queued, ToSet, TypeOK, JobTypeOK
  <2>1. future'[r] = NoReply
    BY <1>2, <2>0, FutureStep DEF QueueRows
  <2>2. ASSUME r \in WRITE_ACTIONS
        PROVE  db'[r].phase = "queued" /\ db'[r].effect = "none" /\ db'[r].reply = NoReply
    <3>1. db[r].phase = "queued" /\ db[r].effect = "none" /\ db[r].reply = NoReply
      BY <1>2, <2>2 DEF QueueRows
    <3>2. ~Written(r) /\ ~Closed(r) /\ ~Skipped(r)
      BY <2>0 DEF Written, Turns, Closed, Skipped
    <3>3. ~Forgotten(r)
      BY <3>1 DEF Forgotten, Prunable
    <3>4. ~Inserted(r)
      BY <1>2, <2>0 DEF Inserted, InSubmit, Jobs, Untouched
    <3>5. ~Recovered(r)
      BY <1>2 DEF Recovered, Boot, Turns, Queued, ToSet
    <3> QED BY <2>0, <3>1, <3>2, <3>3, <3>4, <3>5, RowSteps DEF RowStep, SameRow
  <2> QED BY <2>1, <2>2
<1>3. ASSUME NEW r \in Request, SubmitAdmit(r)
      PROVE  /\ future'[r] = NoReply
             /\ r \in WRITE_ACTIONS => db'[r].phase = "queued" /\ db'[r].effect = "none" /\ db'[r].reply = NoReply
  <2>1. Untouched(r) /\ UNCHANGED future
    BY <1>3 DEF SubmitAdmit, InSubmit, Jobs
  <2>2. r \in WRITE_ACTIONS => db' = Admit(db, r)
    BY <1>3 DEF SubmitAdmit
  <2> QED BY <2>1, <2>2 DEF Untouched, Admit, Prune, NoRow
<1>4. ASSUME NEW r \in Queued'
      PROVE  /\ future'[r] = NoReply
             /\ r \in WRITE_ACTIONS => db'[r].phase = "queued" /\ db'[r].effect = "none" /\ db'[r].reply = NoReply
  BY <1>2, <1>3, QueueStep
<1>5. ASSUME NEW r \in Request \ WRITE_ACTIONS
      PROVE  db'[r].phase = "absent" /\ db'[r].effect = "none"
  <2>1. db[r].phase = "absent" /\ db[r].effect = "none"
    BY DEF QueueRows
  <2>2. NoRow.phase = "absent" /\ NoRow.effect = "none"
    BY DEF NoRow
  <2>3. SameRow(r) \/ Forgotten(r) \/ Recovered(r)
    BY <2>1, RowSteps DEF RowStep, Inserted, Skipped, Closed, Written
  <2> QED BY <2>1, <2>2, <2>3, RecoverRow DEF SameRow, Forgotten, Recovered
<1> QED BY <1>1, <1>4, <1>5 DEF QueueRows

\* Every step keeps KeyUnique: submit looks the key up and inserts in one critical section.
LEMMA KeyUniqueStep ==
  ASSUME TypeOK, Turns, Jobs, KeyUnique, [Next]_vars
  PROVE  KeyUnique'
<1>0. ASSUME NEW r \in WRITE_ACTIONS, NEW q \in WRITE_ACTIONS, r # q, KeyOf[r] # NoKey, KeyOf[r] = KeyOf[q],
             Inserted(r)
      PROVE  db'[q].phase = "absent"
  <2>1. q \in Request /\ Keyed(r)
    BY <1>0 DEF WRITE_ACTIONS, Keyed
  <2>2. Holders(Prune(db), r) = {}
    BY <1>0, <2>1 DEF Inserted, Unseen, LookedUp
  <2>3. Prune(db)[q].phase = "absent"
    BY <1>0, <2>1, <2>2 DEF Holders
  <2>4. db'[q] = Prune(db)[q]
    BY <1>0, <2>1 DEF Inserted, Admit, Prune
  <2> QED BY <2>3, <2>4
<1> SUFFICES ASSUME NEW r \in WRITE_ACTIONS, NEW q \in WRITE_ACTIONS,
                    r # q, KeyOf[r] # NoKey, KeyOf[r] = KeyOf[q],
                    db'[r].phase # "absent", db'[q].phase # "absent"
             PROVE  FALSE
  BY DEF KeyUnique
<1>1. r \in Request /\ q \in Request /\ KeyOf[q] # NoKey
  BY DEF WRITE_ACTIONS
<1>2. db[r].phase = "absent" \/ db[q].phase = "absent"
  BY DEF KeyUnique
<1>3. Inserted(r) \/ Inserted(q)
  BY <1>1, <1>2, RowCreated
<1> QED BY <1>0, <1>1, <1>3

\* For every instance: of two requests with one idempotency key that were both sent, one row was pruned
\* in between (journal.py UNIQUE(namespace, key_hash), lookup and admit; dispatch.py submit).
THEOREM KeySentOnce == Spec => []OneSendPerKey
<1>1. Init => KeyUnique
  BY DEF Init, KeyUnique, NoRow, WRITE_ACTIONS
<1>2. TypeOK /\ IInv /\ KeyUnique /\ [Next]_vars => KeyUnique'
  BY KeyUniqueStep DEF IInv
<1>3. KeyUnique => OneSendPerKey
  BY DEF KeyUnique, OneSendPerKey
<1> QED BY <1>1, <1>2, <1>3, TypeCorrect, Invariant, PTL DEF Spec


\* A started job stays the started job of the same worker until it is given up.
LEMMA ActiveFrame ==
  ASSUME TypeOK, [Next]_vars, ~DChooseDispatch
  PROVE  \/ active' = NoRequest
         \/ /\ active' = active /\ steps'.request = steps.request
            /\ dpc \in GivenUp => dpc' \in GivenUp
            /\ dpc \in Isolated => dpc' \in Isolated
            /\ dpc \in Busy => dpc' \in Busy \cup Isolated
            /\ dpc \in Busy \cup Isolated /\ dpc' \in Busy \cup {"isolate", "isolate_save"} =>
                 dpc \in Busy \cup {"isolate", "isolate_save"}
<1> USE DEF jobVars, workerVars, Goto, GivenUp, Isolated, Busy
<1>1. CASE DNext
  <2>1. CASE DSpawn \/ DNoWindow \/ DStarted \/ DInitialPause \/ DRecover \/ DSweep \/ DSweepDone
    BY <2>1 DEF DSpawn, DNoWindow, DStarted, DInitialPause, DRecover, DSweep, DSweepDone
  <2>2. CASE DChooseResume \/ DChooseReconnect \/ DChooseIdle \/ DChooseProbe \/ DExit
    BY <2>2 DEF DChooseResume, DChooseReconnect, DChooseIdle, DChooseProbe, DExit
  <2>3. CASE DReceive \/ DLost \/ DResumed \/ DExecuted \/ DPost \/ DStopAcked \/ DJoin
    BY <2>3 DEF DReceive, DLost, DResumed, DExecuted, DPost, DStopAcked, DJoin
  <2>4. CASE DRestart \/ DRestartFails \/ DIsolate \/ DIsolateSave \/ DIsolateRecover \/ DDrain
    BY <2>4 DEF DRestart, DRestartFails, DIsolate, DIsolateSave, DIsolateRecover, DDrain
  <2> QED BY <1>1, <2>1, <2>2, <2>3, <2>4 DEF DNext
<1>2. CASE WNext
  <2>1. steps'.request = steps.request
    BY <1>2, WorkerFrame DEF WNext
  <2> QED BY <1>2, <2>1 DEF WNext
<1>3. CASE HNext
  BY <1>3 DEF HNext, Arrive, SubmitDropped, SubmitStorage, SubmitReplay, SubmitReject, SubmitAdmit,
              SubmitNotSaved, Drop, Leave, Expire, Respond, InSubmit, HttpOnly
<1>4. CASE CNext
  BY <1>4 DEF CNext, PauseCall, PauseReturn, PauseFails, ResumeCall, ResumeReturn, ResumeTimeout,
              ControlOnly
<1>5. CASE ENext
  BY <1>5 DEF ENext, Tick, Age, Stop, RuntimeFail, Maintain, Off, Boot
<1>6. CASE UNCHANGED vars
  BY <1>6 DEF vars
<1> QED BY <1>1, <1>2, <1>3, <1>4, <1>5, <1>6 DEF Next

\* What a dispatch does to the started job.
LEMMA DispatchFrame ==
  ASSUME TypeOK, Jobs, DChooseDispatch
  PROVE  /\ active' \in Queued /\ active' \in Request
         /\ dpc = "choose" /\ dpc' = "executing" /\ Kept
         /\ ~paused /\ ~resume_future
<1>1. queue \in Seq(Request) /\ queue # <<>> /\ IsInjective(queue)
  BY DEF DChooseDispatch, TypeOK, JobTypeOK, Jobs
<1>2. Head(queue) \in Request /\ Head(queue) \in Queued
  BY <1>1, TailSet DEF Queued
<1> QED BY <1>2 DEF DChooseDispatch, Goto, Kept, saveVars

\* Every step keeps ActiveBusy.
LEMMA ActiveBusyStep ==
  ASSUME TypeOK, Jobs, ActiveBusy, [Next]_vars
  PROVE  ActiveBusy'
<1>1. CASE DChooseDispatch
  BY <1>1, DispatchFrame DEF ActiveBusy, Busy
<1>2. CASE ~DChooseDispatch
  BY <1>2, ActiveFrame DEF ActiveBusy
<1> QED BY <1>1, <1>2

\* Every step keeps NotTakenUp.
LEMMA NotTakenUpStep ==
  ASSUME TypeOK, Turns, Jobs, QueueRows, ActiveBusy, NotTakenUp, [Next]_vars
  PROVE  NotTakenUp'
<1>1. CASE DChooseDispatch
  BY <1>1, DispatchFrame DEF NotTakenUp, QueueRows, Kept
<1>2. CASE ~DChooseDispatch
  <2> SUFFICES ASSUME active' \in WRITE_ACTIONS, steps'.request # active', dpc' \notin GivenUp
               PROVE  db'[active'].effect = "none"
    BY DEF NotTakenUp
  <2>1. active' # NoRequest /\ active' \in Request
    BY NoRequestAssumption DEF WRITE_ACTIONS
  <2>2. active' = active /\ steps.request # active /\ dpc \notin GivenUp /\ active \in Request
    BY <1>2, <2>1, ActiveFrame
  <2>3. db[active].effect = "none"
    BY <2>2 DEF NotTakenUp
  <2>4. ~Written(active)
    BY <2>2 DEF Written
  <2>5. ~Closed(active)
    BY <2>1, <2>2 DEF Closed, Close, GivenUp
  <2>6. ~Recovered(active)
    BY <2>1, <2>2 DEF Recovered, Boot, ActiveBusy, Busy, Isolated
  <2>7. NoRow.effect = "none"
    BY DEF NoRow
  <2>8. Inserted(active) => db'[active].effect = "none"
    BY <2>2 DEF Inserted, Admit, Prune, NoRow
  <2> QED BY <2>2, <2>3, <2>4, <2>5, <2>6, <2>7, <2>8, RowSteps DEF RowStep, SameRow, Forgotten, Skipped
<1> QED BY <1>1, <1>2

\* What the rows say of the queue and of the started job, as one invariant of the specification.
RowInv == QueueRows /\ ActiveBusy /\ NotTakenUp

\* For every instance a waiting job and a started job no worker took up have the rows they were admitted
\* with, and a job is started only while the thread waits for it or has lost it (dispatch.py _loop, _run).
THEOREM Rows == Spec => []RowInv
<1>1. Init => RowInv
  <2> SUFFICES ASSUME Init PROVE RowInv
    OBVIOUS
  <2>1. queue = <<>> /\ Queued = {} /\ active = NoRequest
    BY DEF Init, Queued, ToSet
  <2>2. \A r \in Request : db[r] = NoRow
    BY DEF Init
  <2>3. Len(queue) <= QueueCapacity
    BY <2>1, QueueAssumption
  <2>4. QueueRows
    BY <2>1, <2>2, <2>3 DEF QueueRows, NoRow
  <2> QED BY <2>1, <2>4, NoRequestAssumption DEF RowInv, ActiveBusy, NotTakenUp, WRITE_ACTIONS
<1>2. TypeOK /\ IInv /\ IInv' /\ RowInv /\ [Next]_vars => RowInv'
  BY QueueRowsStep, ActiveBusyStep, NotTakenUpStep DEF IInv, RowInv
<1> QED BY <1>1, <1>2, TypeCorrect, Invariant, PTL DEF Spec

\* For every instance the queue holds admitted jobs once and within its capacity, and none of them is
\* started, answered or unknown to the journal (dispatch.py submit, cancel, _loop, _update_recovery).
THEOREM QueueIsSound == Spec => []QueueSound
<1>1. TypeOK /\ IInv /\ RowInv => QueueSound
  <2> SUFFICES ASSUME TypeOK, IInv, RowInv PROVE QueueSound
    OBVIOUS
  <2>1. \A r \in Queued : r \in Request
    BY DEF Queued, ToSet, TypeOK, JobTypeOK
  <2> QED BY <2>1 DEF QueueSound, RowInv, QueueRows, IInv, Jobs, Unsent
<1> QED BY <1>1, TypeCorrect, Invariant, Rows, PTL

\* For every instance no step but one of the worker that holds the request, or the answer to what that
\* worker did, replaces the effect "unknown" of a row: neither pruning nor recovery nor an isolation
\* forgets it (journal.py _prune, recover, interrupted).
THEOREM UnknownIsKept == Spec => UnknownKept
<1>1. TypeOK /\ IInv /\ RowInv /\ [Next]_vars =>
        [\A r \in Request : db[r].effect = "unknown" /\ db'[r].effect # "unknown" => steps.request = r]_vars
  <2> SUFFICES ASSUME TypeOK, IInv, RowInv, [Next]_vars, NEW r \in Request,
                      db[r].effect = "unknown", db'[r].effect # "unknown"
               PROVE  steps.request = r
    OBVIOUS
  <2>1. Closed(r) \/ Written(r)
    BY UnknownSteps DEF IInv, RowInv
  <2>2. CASE Closed(r)
    <3>1. active = r /\ dpc \in {"executed", "isolate_save"}
      BY <2>2 DEF Closed, Close
    <3>2. CASE dpc = "executed"
      BY <3>1, <3>2 DEF IInv, Turns, Replied
    <3>3. CASE dpc = "isolate_save"
      <4>1. r \in WRITE_ACTIONS
        BY DEF RowInv, QueueRows
      <4> QED BY <3>1, <3>3, <4>1 DEF RowInv, NotTakenUp, GivenUp
    <3> QED BY <3>1, <3>2, <3>3
  <2> QED BY <2>1, <2>2 DEF Written
<1> QED BY <1>1, TypeCorrect, Invariant, Rows, PTL DEF Spec, UnknownKept


\* A request that was sent stays sent.
LEMMA SentGrows ==
  ASSUME TypeOK, [Next]_vars, NEW r \in Request, sent[r] > 0
  PROVE  sent'[r] > 0
<1> USE DEF workerVars
<1>0. sent[r] \in Nat
  BY DEF TypeOK, WorkerTypeOK
<1>1. CASE DNext
  BY <1>1 DEF DNext, DSpawn, DNoWindow, DStarted, DInitialPause, DRecover, DSweep, DSweepDone,
         DChooseResume, DChooseReconnect, DChooseIdle, DChooseProbe, DChooseDispatch, DReceive, DLost,
         DResumed, DExecuted, DPost, DStopAcked, DJoin, DRestart, DRestartFails, DExit, DIsolate,
         DIsolateSave, DIsolateRecover, DDrain, Command
<1>2. CASE WNext
  <2>1. ASSUME NEW p, NEW e, NEW n, Save(p, e, n) PROVE sent' = sent
    BY <2>1 DEF Save
  <2>2. ASSUME NEW c, NEW x, Raise(c, x) PROVE sent' = sent
    BY <2>2 DEF Raise
  <2>3. CASE WKey \/ WConfirm
    <3>1. sent' = sent \/ \E q : sent' = [sent EXCEPT ![q] = @ + 1]
      BY <2>3 DEF WKey, WConfirm, Deliver
    <3> QED BY <1>0, <3>1 DEF TypeOK, WorkerTypeOK
  <2>4. CASE WStartup \/ WProbe \/ WResume \/ WStop \/ WExit \/ WDie \/ WReject \/ WQuery \/ WPrepareFails
             \/ WCleanup \/ WFinish \/ WImportRejected
    BY <2>4 DEF WStartup, WProbe, WResume, WStop, WExit, WDie, WReject, WQuery, WPrepareFails, WCleanup,
                WFinish, WImportRejected
  <2>5. CASE WPrepare \/ WStarted \/ WImport \/ WArm \/ WCapture \/ WSubmitted \/ WConfirmed \/ WNoDialog
             \/ WVerify
    BY <2>1, <2>2, <2>5 DEF WPrepare, WStarted, WImport, WArm, WCapture, WSubmitted, WConfirmed,
                            WNoDialog, WVerify, Trouble, Unproven
  <2> QED BY <1>2, <2>3, <2>4, <2>5 DEF WNext, WStep
<1>3. CASE HNext
  BY <1>3 DEF HNext, Arrive, SubmitDropped, SubmitStorage, SubmitReplay, SubmitReject, SubmitAdmit,
              SubmitNotSaved, Drop, Leave, Expire, Respond, InSubmit, HttpOnly
<1>4. CASE CNext
  BY <1>4 DEF CNext, PauseCall, PauseReturn, PauseFails, ResumeCall, ResumeReturn, ResumeTimeout,
              ControlOnly
<1>5. CASE ENext
  BY <1>5 DEF ENext, Tick, Age, Stop, RuntimeFail, Maintain, Off, Boot
<1>6. CASE UNCHANGED vars
  BY <1>6 DEF vars
<1> QED BY <1>1, <1>2, <1>3, <1>4, <1>5, <1>6 DEF Next

\* What the worker itself says of a send, without the rows and results.
WorkerSays(r) ==
  /\ wpc \in AtWork /\ steps.request = r
  /\ \/ steps.effect = "submitted" \/ wpc \in {"captured", "confirmed", "verify"}
     \/ wpc = "cleanup" /\ steps.error = "NONE"
     \/ wpc = "finish" /\ wreply.effect = "submitted"

\* No failure of a step is without an error code.
LEMMA FailureCodes ==
  ASSUME NEW x, NEW m \in Failures(x)
  PROVE  m[1] # "NONE"
<1>1. m \in GuiErrors(x) \cup ArtifactErrors(x) \cup {<<"REFUSED", x>>} => m[1] # "NONE"
  BY DEF GuiErrors, ArtifactErrors
<1>2. m \in SessionErrors(x) => m[1] # "NONE"
  BY DEF SessionErrors
<1> QED BY <1>1, <1>2 DEF Failures, Mishaps

\* r's row says that it was submitted.
RowSays(r) == "submitted" \in {db[r].effect, db[r].reply.effect}

\* The worker says "submitted" of its order only after a receipt: every step that makes it, its row or
\* its reply say so starts where the order was sent.
LEMMA WorkerProven ==
  ASSUME TypeOK, WStep, NEW r \in Request, Kind[r] = "order", steps.request = r, wpc \in AtWork,
         WorkerSays(r) \/ RowSays(r) => sent[r] > 0,
         WorkerSays(r)' \/ RowSays(r)' \/ (wpc' = "idle" /\ wreply'.effect = "submitted")
  PROVE  sent[r] > 0
<1> USE DEF WorkerSays, RowSays, At
<1>0. db[r] \in Row /\ sent[r] \in Nat
  BY DEF TypeOK, WorkerTypeOK
<1>1. ASSUME NEW p \in Phase, NEW e \in {"none", "unknown", "rejected"}, NEW n, Save(p, e, n),
             n \in AtWork \ {"captured", "confirmed", "verify", "cleanup", "finish"}
      PROVE  sent[r] > 0
  <2>1. /\ steps'.request = r
        /\ steps'.effect = IF e = "none" THEN steps.effect ELSE e
        /\ UNCHANGED wreply
        /\ wpc' \in {n, "cleanup"}
        /\ db'[r] = db[r] \/ db'[r] = SaveRow(db[r], p, e)
    BY <1>1, SaveFrame DEF Effect
  <2>2. wpc' = "cleanup" => steps'.error # "NONE"
    BY <1>1 DEF Save, TypeOK, WorkerTypeOK
  <2>3. RowSays(r)' => RowSays(r)
    <3>1. db'[r].reply = db[r].reply /\ (db'[r].effect = db[r].effect \/ db'[r].effect = e)
      BY <1>0, <2>1, SaveRowFacts DEF Effect
    <3> QED BY <3>1
  <2> QED BY <1>1, <2>1, <2>2, <2>3 DEF AtWork, BeforeKey, Reading
<1>2. ASSUME NEW c, NEW x, Raise(c, x), c # "NONE" PROVE sent[r] > 0
  <2>1. steps'.request = r /\ steps'.effect = steps.effect /\ steps'.error = c
    BY <1>2 DEF Raise, TypeOK, WorkerTypeOK
  <2> QED BY <1>2, <2>1 DEF Raise, Silent
<1>3. ASSUME Trouble \/ Unproven PROVE sent[r] > 0
  BY <1>2, <1>3, FailureCodes DEF Trouble, Unproven
<1>4. CASE WStartup \/ WProbe \/ WResume \/ WStop \/ WExit \/ WDie
  BY <1>4 DEF WStartup, WProbe, WResume, WStop, WExit, WDie, AtWork, BeforeKey, Reading
<1>5. CASE WReject \/ WQuery
  BY <1>5 DEF WReject, WQuery, Send, AtWork, BeforeKey, Reading
<1>6. CASE WPrepareFails
  <2>1. steps'.request = r /\ steps'.effect = steps.effect /\ wreply'.effect = "none" /\ wpc' = "finish"
    BY <1>6 DEF WPrepareFails, TypeOK, WorkerTypeOK
  <2> QED BY <1>6, <2>1 DEF WPrepareFails
<1>7. CASE WPrepare
  BY <1>1, <1>2, <1>7 DEF WPrepare, Phase, AtWork, BeforeKey
<1>8. CASE WStarted \/ WImport \/ WArm
  BY <1>1, <1>3, <1>8 DEF WStarted, WImport, WArm, Phase, AtWork, BeforeKey
<1>9. CASE WImportRejected
  <2>1. PICK o \in Storage : db' = Commit(o, db, SavePhase(db, steps.request, "rejected", "rejected"))
    BY <1>9 DEF WImportRejected
  <2>2. db'[r] = db[r] \/ db'[r] = SaveRow(db[r], "rejected", "rejected")
    BY <2>1 DEF Commit, SavePhase, TypeOK
  <2>3. RowSays(r)' => RowSays(r)
    <3>1. db'[r].reply = db[r].reply /\ (db'[r].effect = db[r].effect \/ db'[r].effect = "rejected")
      BY <1>0, <2>2, SaveRowFacts DEF Effect
    <3> QED BY <3>1
  <2>4. steps'.effect = "rejected" /\ steps'.error # "NONE" /\ wpc' = "cleanup"
    BY <1>9 DEF WImportRejected, TypeOK, WorkerTypeOK
  <2> QED BY <2>3, <2>4
<1>10. CASE WKey
  <2>1. UNCHANGED <<db, wreply>> /\ steps'.effect = steps.effect
        /\ (wpc' = "keyed" \/ (wpc' = "cleanup" /\ steps'.error # "NONE"))
    BY <1>10, FailureCodes DEF WKey, Silent, TypeOK, WorkerTypeOK
  <2> QED BY <2>1
<1>11. CASE WCapture
  BY <1>3, <1>11 DEF WCapture
<1>12. CASE WSubmitted \/ WConfirmed \/ WVerify
  BY <1>12 DEF WSubmitted, WConfirmed, WVerify
<1>13. CASE WConfirm \/ WNoDialog
  BY <1>13 DEF WConfirm, WNoDialog
<1>14. CASE WCleanup
  <2>1. PICK end \in CleanupEnds :
          /\ steps' = [steps EXCEPT !.error = end[1]]
          /\ wreply' = IF end[1] = "NONE" THEN [code |-> "ACCEPTED", effect |-> "submitted"]
                       ELSE [code |-> end[1], effect |-> steps.effect]
    BY <1>14 DEF WCleanup
  <2>2. end[1] = "NONE" => steps.error = "NONE"
    BY DEF CleanupEnds
  <2>3. steps'.effect = steps.effect /\ wpc = "cleanup" /\ wpc' = "finish" /\ UNCHANGED db
    BY <1>14, <2>1 DEF WCleanup, TypeOK, WorkerTypeOK
  <2>4. wreply'.effect = "submitted" => end[1] = "NONE" \/ steps.effect = "submitted"
    BY <2>1
  <2> QED BY <2>2, <2>3, <2>4
<1>15. CASE WFinish
  <2>1. PICK o \in Storage : db' = Commit(o, db, Finish(db, steps.request, wreply))
    BY <1>15 DEF WFinish
  <2>2. db'[r] = db[r] \/ db'[r] = FinishRow(db[r], wreply)
    BY <2>1 DEF Commit, Finish, TypeOK
  <2>3. wpc = "finish" /\ wpc' = "idle" /\ wreply'.effect \in {wreply.effect, steps.effect}
    BY <1>15 DEF WFinish, Send
  <2>4. RowSays(r)' => RowSays(r) \/ wreply.effect = "submitted"
    BY <2>2 DEF FinishRow
  <2> QED BY <2>3, <2>4 DEF AtWork, BeforeKey, Reading
<1> QED BY <1>4, <1>5, <1>6, <1>7, <1>8, <1>9, <1>10, <1>11, <1>12, <1>13, <1>14, <1>15 DEF WStep

\* Outside the worker's own steps nobody touches a worker at work or its reply, except the dispatch,
\* which gives it a fresh Steps object.
LEMMA OtherFrame ==
  ASSUME TypeOK, Turns, [Next]_vars, ~WNext
  PROVE  /\ wpc' \in AtWork =>
              \/ UNCHANGED <<wpc, steps, wreply>>
              \/ DChooseDispatch /\ wpc' = "execute" /\ steps'.effect = "none"
         /\ Replied' => Replied /\ UNCHANGED <<active, wreply>>
         /\ dpc' = "isolate_save" => DIsolate \/ (dpc = "isolate_save" /\ UNCHANGED <<active, pending>>)
<1> USE DEF jobVars, workerVars, linkVars, Goto, Replied
<1>1. CASE DNext
  <2>1. CASE DSpawn \/ DNoWindow \/ DStarted \/ DInitialPause \/ DRecover \/ DSweep \/ DSweepDone
    BY <2>1 DEF DSpawn, DNoWindow, DStarted, DInitialPause, DRecover, DSweep, DSweepDone, AtWork,
                BeforeKey, Reading
  <2>2. CASE DChooseResume \/ DChooseReconnect \/ DChooseIdle \/ DChooseProbe \/ DExit
    BY <2>2 DEF DChooseResume, DChooseReconnect, DChooseIdle, DChooseProbe, DExit, Command, AtWork,
                BeforeKey, Reading
  <2>3. CASE DChooseDispatch
    <3>1. wpc \in {"idle", "down"} /\ ~msg
      BY <2>3 DEF DChooseDispatch, Turns, Quiet
    <3> QED BY <2>3, <3>1 DEF DChooseDispatch, Command, NoSteps, AtWork, BeforeKey, Reading
  <2>4. CASE DReceive \/ DLost \/ DResumed \/ DExecuted \/ DPost \/ DStopAcked \/ DJoin
    BY <2>4 DEF DReceive, DLost, DResumed, DExecuted, DPost, DStopAcked, DJoin
  <2>5. CASE DRestart \/ DRestartFails \/ DIsolate \/ DIsolateSave \/ DIsolateRecover \/ DDrain
    BY <2>5 DEF DRestart, DRestartFails, DIsolate, DIsolateSave, DIsolateRecover, DDrain
  <2> QED BY <1>1, <2>1, <2>2, <2>3, <2>4, <2>5 DEF DNext
<1>3. CASE HNext
  BY <1>3 DEF HNext, Arrive, SubmitDropped, SubmitStorage, SubmitReplay, SubmitReject, SubmitAdmit,
              SubmitNotSaved, Drop, Leave, Expire, Respond, InSubmit, HttpOnly
<1>4. CASE CNext
  BY <1>4 DEF CNext, PauseCall, PauseReturn, PauseFails, ResumeCall, ResumeReturn, ResumeTimeout,
              ControlOnly
<1>5. CASE ENext
  BY <1>5 DEF ENext, Tick, Age, Stop, RuntimeFail, Maintain, Off, Boot, AtWork, BeforeKey, Reading
<1>6. CASE UNCHANGED vars
  BY <1>6 DEF vars
<1> QED BY <1>1, <1>3, <1>4, <1>5, <1>6 DEF Next

\* A worker step that leaves the worker at work, or a reply in the pipe, began at work or changed neither.
LEMMA WorkFrame ==
  ASSUME TypeOK, Turns, WNext
  PROVE  /\ wpc' \in AtWork => wpc \in AtWork
         /\ Replied' => \/ Replied /\ UNCHANGED wreply
                        \/ wpc \in AtWork /\ wpc' = "idle"
<1>0. UNCHANGED <<dpc, active>>
  BY DEF WNext, jobVars
<1> USE DEF Replied, Turns, Quiet
<1>1. CASE WStartup \/ WProbe \/ WResume \/ WStop
  BY <1>0, <1>1 DEF WStartup, WProbe, WResume, WStop, Send, AtWork, BeforeKey, Reading
<1>2. CASE WExit \/ WDie
  BY <1>0, <1>2 DEF WExit, WDie, AtWork, BeforeKey, Reading
<1>3. CASE WReject \/ WQuery \/ WFinish
  BY <1>0, <1>3 DEF WReject, WQuery, WFinish, At, Send, AtWork, BeforeKey, Reading
<1>4. CASE Writing
  <2>1. wpc \in AtWork /\ wpc \notin {"idle", "down"} /\ UNCHANGED msg
    BY <1>4, WritingFrame DEF AtWork, BeforeKey, Reading
  <2> QED BY <1>0, <2>1
<1> QED BY <1>1, <1>2, <1>3, <1>4 DEF WNext, WStep, Writing

\* Every step keeps Proven.
LEMMA ProvenStep ==
  ASSUME TypeOK, Turns, Jobs, Proven, [Next]_vars
  PROVE  Proven'
<1> SUFFICES ASSUME NEW r \in Request, Kind[r] = "order", SaysSubmitted(r)'
             PROVE  sent[r] > 0
  BY SentGrows DEF Proven
<1>0. SaysSubmitted(r) => sent[r] > 0
  BY DEF Proven
<1>1. WorkerSays(r) \/ RowSays(r) \/ future[r].effect = "submitted" => SaysSubmitted(r)
  BY DEF SaysSubmitted, WorkerSays, RowSays
<1>2. ASSUME WNext, steps.request = r, wpc \in AtWork,
             WorkerSays(r)' \/ RowSays(r)' \/ (wpc' = "idle" /\ wreply'.effect = "submitted")
      PROVE  sent[r] > 0
  BY <1>0, <1>1, <1>2, WorkerProven DEF WNext
<1>3. ASSUME Close, active = r
      PROVE  \E reply \in Reply :
               /\ reply.effect = "submitted" => SaysSubmitted(r)
               /\ db'[r] = db[r] \/ (db'[r].effect = reply.effect /\ db'[r].reply = reply)
               /\ future'[r] = future[r] \/ future'[r].effect = reply.effect
  <2>1. PICK reply \in Reply, o \in [{active} -> Storage] :
          /\ Answered({active}, [q \in {active} |-> reply], o)
          /\ \/ dpc = "executed" /\ reply = wreply
             \/ dpc = "isolate_save" /\ reply = pending
    BY <1>3 DEF Close
  <2>2. reply.effect = "submitted" => SaysSubmitted(r)
    BY <1>3, <2>1 DEF SaysSubmitted, Replied
  <2>3. [q \in {active} |-> reply] \in [{active} -> Reply] /\ [q \in {active} |-> reply][r] = reply
    BY <1>3
  <2>4. /\ db'[r] = db[r] \/ db'[r] = FinishRow(db[r], reply)
        /\ future'[r] = future[r] \/ future'[r].effect = reply.effect
    BY <1>3, <2>1, <2>3, AnsweredFrame
  <2>5. db'[r] = db[r] \/ (db'[r].effect = reply.effect /\ db'[r].reply = reply)
    BY <2>4 DEF FinishRow
  <2> QED BY <2>2, <2>4, <2>5
<1>4. CASE RowSays(r)'
  <2>1. NoRow.effect = "none" /\ NoRow.reply.effect = "none"
    BY DEF NoRow, NoReply
  <2>2. CASE SameRow(r)
    BY <1>0, <1>1, <1>4, <2>2 DEF SameRow, RowSays
  <2>3. CASE Forgotten(r) \/ Skipped(r)
    BY <1>4, <2>1, <2>3 DEF Forgotten, Skipped, RowSays
  <2>4. CASE Inserted(r)
    BY <1>4, <2>4 DEF Inserted, Admit, Prune, NoRow, NoReply, RowSays
  <2>5. CASE Closed(r)
    BY <1>0, <1>1, <1>3, <1>4, <2>5 DEF Closed, RowSays
  <2>6. CASE Recovered(r)
    <3> DEFINE d == [p \in Request |-> IF db[p].phase # "absent" /\ db[p].reply = NoReply
                           THEN FinishRow(db[p], RecoveredReply(db[p])) ELSE db[p]]
    <3>1. Recover(db)[r] \in {d[r], NoRow}
      BY DEF Recover, Prune
    <3>2. d[r] = db[r] \/ (d[r].effect = RecoveredReply(db[r]).effect /\ d[r].reply = RecoveredReply(db[r]))
      BY DEF FinishRow
    <3>3. RecoveredReply(db[r]).effect = "submitted" => db[r].effect = "submitted"
      BY DEF RecoveredReply
    <3> HIDE DEF d
    <3> QED BY <1>0, <1>1, <1>4, <2>1, <2>6, <3>1, <3>2, <3>3 DEF Recovered, RowSays
  <2>7. CASE Written(r)
    BY <1>2, <1>4, <2>7 DEF Written
  <2> QED BY <2>2, <2>3, <2>4, <2>5, <2>6, <2>7, RowSteps DEF RowStep
<1>5. CASE future'[r].effect = "submitted"
  <2>1. CASE future'[r] = future[r]
    BY <1>0, <1>1, <1>5, <2>1
  <2>2. CASE Skip /\ Left(r)
    <3>0. PICK V \in SUBSET Queued, c \in SkipCode : \E o \in [V -> Storage] :
            Answered(V, [q \in V |-> NotRun(c)], o)
      BY <2>2 DEF Skip
    <3>1. PICK o \in [V -> Storage] : Answered(V, [q \in V |-> NotRun(c)], o)
      BY <3>0
    <3>2. [q \in V |-> NotRun(c)] \in [V -> Reply] /\ NotRun(c).effect = "none"
      BY NotRunType DEF SkipCode, ReplyCode, ErrorCode, NotRun
    <3>3. future'[r] = future[r] \/ future'[r].effect = "none"
      BY <3>1, <3>2, AnsweredFrame
    <3> QED BY <1>0, <1>1, <1>5, <3>3
  <2>3. CASE Close /\ active = r
    BY <1>0, <1>1, <1>3, <1>5, <2>3
  <2> QED BY <2>1, <2>2, <2>3, FutureStep
<1>6. CASE WorkerSays(r)'
  <2>1. CASE WNext
    <3>1. wpc \in AtWork
      BY <1>6, <2>1, WorkFrame DEF WorkerSays
    <3>2. steps.request = r
      BY <1>6, <2>1, WorkerFrame DEF WNext, WorkerSays
    <3> QED BY <1>2, <1>6, <2>1, <3>1, <3>2
  <2>2. CASE ~WNext
    <3>1. UNCHANGED <<wpc, steps, wreply>>
      BY <1>6, <2>2, OtherFrame DEF WorkerSays
    <3> QED BY <1>0, <1>1, <1>6, <3>1 DEF WorkerSays
  <2> QED BY <2>1, <2>2
<1>7. CASE Replied' /\ active' = r /\ wreply'.effect = "submitted"
  <2>1. ASSUME Replied, UNCHANGED <<active, wreply>> PROVE sent[r] > 0
    BY <1>0, <1>7, <2>1 DEF SaysSubmitted
  <2>2. CASE WNext
    <3>1. UNCHANGED active
      BY <2>2 DEF WNext, jobVars
    <3>2. CASE wpc \in AtWork /\ wpc' = "idle"
      <4>1. steps.request = r
        BY <1>7, <3>1, <3>2 DEF Turns
      <4> QED BY <1>2, <1>7, <2>2, <3>2, <4>1
    <3> QED BY <1>7, <2>1, <2>2, <3>1, <3>2, WorkFrame
  <2>3. CASE ~WNext
    BY <1>7, <2>1, <2>3, OtherFrame
  <2> QED BY <2>2, <2>3
<1>8. CASE dpc' = "isolate_save" /\ active' = r /\ pending'.effect = "submitted"
  <2>1. CASE WNext
    BY <1>0, <1>8, <2>1 DEF WNext, jobVars, linkVars, SaysSubmitted
  <2>2. CASE DIsolate
    <3>1. active = r
      BY <1>8, <2>2 DEF DIsolate, jobVars
    <3>2. pending' \in {Interrupted(db, r), [code |-> "STORAGE_UNAVAILABLE", effect |-> "unknown"],
                        NotRun("GUI_UNRESPONSIVE")}
      BY <2>2, <3>1 DEF DIsolate
    <3>3. Interrupted(db, r).effect = "submitted"
      BY <1>8, <3>2 DEF NotRun
    <3>4. RowSays(r)
      BY <3>3 DEF Interrupted, RowSays
    <3> QED BY <1>0, <1>1, <3>4
  <2>3. CASE dpc = "isolate_save" /\ UNCHANGED <<active, pending>>
    BY <1>0, <1>8, <2>3 DEF SaysSubmitted
  <2> QED BY <1>8, <2>1, <2>2, <2>3, OtherFrame
<1> QED BY <1>4, <1>5, <1>6, <1>7, <1>8 DEF SaysSubmitted, RowSays, WorkerSays

\* For every instance no row, saved reply or job result says "submitted" of an order the terminal did not
\* get (orders.py captures the receipt of this send first; executor.py builds the reply from the effect).
THEOREM SubmittedIsTrue == Spec => []TruthfulSubmitted
<1>1. Init => Proven
  <2> SUFFICES ASSUME Init, NEW r \in Request PROVE ~SaysSubmitted(r)
    BY DEF Proven
  <2>1. db[r] = NoRow /\ future[r] = NoReply /\ wpc = "down" /\ dpc = "window"
    BY DEF Init, ExecutorInit
  <2> QED BY <2>1 DEF SaysSubmitted, NoRow, NoReply, AtWork, BeforeKey, Reading, Replied
<1>2. TypeOK /\ IInv /\ Proven /\ [Next]_vars => Proven'
  BY ProvenStep DEF IInv
<1>3. Proven => TruthfulSubmitted
  BY DEF Proven, TruthfulSubmitted, SaysSubmitted
<1> QED BY <1>1, <1>2, <1>3, TypeCorrect, Invariant, PTL DEF Spec

-----------------------------------------------------------------------------
(***************************************************************************)
(* The promises of the service as a whole: the bridge implements           *)
(* Submission, the terminal is replaced only when nothing is unsettled, a  *)
(* pause holds, and an answer is replayed.                                 *)
(***************************************************************************)

\* A request that may still be sent was one before, or its handler is just admitting it: nothing leads
\* from the end of a request back to the queue or the worker.
LEMMA MaySendShrinks ==
  ASSUME TypeOK, Turns, Jobs, [Next]_vars, NEW r \in Request, MaySend(r)',
         http[r] \notin {"idle", "admit"} \/ cancelled[r]
  PROVE  MaySend(r)
<1> USE DEF MaySend
<1>1. CASE r \in Queued'
  <2>1. ~SubmitAdmit(r)
    BY DEF SubmitAdmit, InSubmit
  <2> QED BY <1>1, <2>1, QueueStep
<1>2. CASE steps'.request = r /\ wpc' \in BeforeKey \cup Reading
  <2>0. wpc' \in AtWork
    BY <1>2 DEF AtWork
  <2>1. CASE WNext
    <3>1. steps.request = r /\ wpc \in AtWork
      BY <1>2, <2>0, <2>1, WorkerFrame, WorkFrame DEF WNext
    <3>2. wpc \notin {"cleanup", "finish"}
      <4> SUFFICES ASSUME wpc \in {"cleanup", "finish"} PROVE FALSE
        OBVIOUS
      <4>1. WDie \/ WExit \/ WCleanup \/ WFinish
        BY <2>1 DEF WNext, WStep, WStartup, WProbe, WResume, WStop, WReject, WQuery, WPrepareFails,
                    WPrepare, WStarted, WImport, WImportRejected, WArm, WKey, WCapture, WSubmitted, WConfirm,
                    WConfirmed, WNoDialog, WVerify, At
      <4> QED BY <1>2, <4>1 DEF WDie, WExit, WCleanup, WFinish, Send, BeforeKey, Reading
    <3> QED BY <3>1, <3>2 DEF AtWork
  <2>2. CASE DChooseDispatch
    <3>1. wpc' \in {wpc, "execute"} /\ wpc \in {"idle", "down"}
      BY <2>2 DEF DChooseDispatch, Command, Goto, Turns, Quiet
    <3>2. steps' = [NoSteps EXCEPT !.request = Head(queue)]
      BY <1>2, <2>2, <3>1 DEF DChooseDispatch, Command, BeforeKey, Reading
    <3>3. r = Head(queue)
      BY <1>2, <3>2 DEF NoSteps
    <3>4. queue \in Seq(Request) /\ queue # <<>> /\ IsInjective(queue)
      BY <2>2 DEF DChooseDispatch, TypeOK, JobTypeOK, Jobs
    <3> QED BY <3>3, <3>4, TailSet DEF Queued
  <2>3. CASE ~WNext /\ ~DChooseDispatch
    BY <1>2, <2>0, <2>3, OtherFrame
  <2> QED BY <2>1, <2>2, <2>3
<1> QED BY <1>1, <1>2

\* A key press is a step of the worker that holds the request, the first and only one for it.
LEMMA SendSteps ==
  ASSUME TypeOK, IInv, [Next]_vars, IInv', NEW r \in Request, sent'[r] # sent[r]
  PROVE  /\ WNext /\ steps.request = r /\ MaySend(r) /\ sent[r] = 0 /\ sent'[r] = 1
<1> USE DEF workerVars
<1>1. WNext
  <2>1. CASE DNext
    BY <2>1 DEF DNext, DSpawn, DNoWindow, DStarted, DInitialPause, DRecover, DSweep, DSweepDone,
         DChooseResume, DChooseReconnect, DChooseIdle, DChooseProbe, DChooseDispatch, DReceive, DLost,
         DResumed, DExecuted, DPost, DStopAcked, DJoin, DRestart, DRestartFails, DExit, DIsolate,
         DIsolateSave, DIsolateRecover, DDrain, Command
  <2>2. CASE HNext
    BY <2>2 DEF HNext, Arrive, SubmitDropped, SubmitStorage, SubmitReplay, SubmitReject, SubmitAdmit,
              SubmitNotSaved, Drop, Leave, Expire, Respond, InSubmit, HttpOnly
  <2>3. CASE CNext
    BY <2>3 DEF CNext, PauseCall, PauseReturn, PauseFails, ResumeCall, ResumeReturn, ResumeTimeout,
              ControlOnly
  <2>4. CASE ENext
    BY <2>4 DEF ENext, Tick, Age, Stop, RuntimeFail, Maintain, Off, Boot
  <2>5. CASE UNCHANGED vars
    BY <2>5 DEF vars
  <2> QED BY <2>1, <2>2, <2>3, <2>4, <2>5 DEF Next
<1>2. steps.request = r
  BY <1>1, WorkerFrame DEF WNext
<1>3. WKey \/ WConfirm
  <2>1. ASSUME NEW p, NEW e, NEW n, Save(p, e, n) PROVE sent' = sent
    BY <2>1 DEF Save
  <2>2. ASSUME NEW c, NEW x, Raise(c, x) PROVE sent' = sent
    BY <2>2 DEF Raise
  <2>3. ~(WStartup \/ WProbe \/ WResume \/ WStop \/ WExit \/ WDie \/ WReject \/ WQuery \/ WPrepareFails
             \/ WCleanup \/ WFinish \/ WImportRejected)
    BY DEF WStartup, WProbe, WResume, WStop, WExit, WDie, WReject, WQuery, WPrepareFails, WCleanup,
                WFinish, WImportRejected
  <2>4. ~(WPrepare \/ WStarted \/ WImport \/ WArm \/ WCapture \/ WSubmitted \/ WConfirmed \/ WNoDialog
             \/ WVerify)
    BY <2>1, <2>2 DEF WPrepare, WStarted, WImport, WArm, WCapture, WSubmitted, WConfirmed,
                            WNoDialog, WVerify, Trouble, Unproven
  <2> QED BY <1>1, <2>3, <2>4 DEF WNext, WStep
<1>4. wpc \in {"armed", "keyed"} /\ sent' = [sent EXCEPT ![r] = @ + 1]
  BY <1>2, <1>3 DEF WKey, WConfirm, At, Deliver
<1>5. sent[r] = 0 /\ sent'[r] = 1
  <2>1. sent[r] \in Nat /\ sent' [r] = sent[r] + 1 /\ sent'[r] <= 1
    BY <1>4 DEF TypeOK, WorkerTypeOK, IInv, AtMostOnce
  <2> QED BY <2>1
<1> QED BY <1>1, <1>2, <1>4, <1>5 DEF MaySend, BeforeKey, Reading

\* A handler never comes back before the admission.
LEMMA HttpForward ==
  ASSUME TypeOK, [Next]_vars, NEW r \in Request, http'[r] \in {"idle", "admit"}
  PROVE  http[r] \in {"idle", "admit"}
<1> USE DEF outsideVars, httpVars
<1>1. CASE HNext
  BY <1>1 DEF HNext, Arrive, SubmitDropped, SubmitStorage, SubmitReplay, SubmitReject, SubmitAdmit,
              SubmitNotSaved, Drop, Leave, Expire, Respond, InSubmit, Return, TypeOK, OutsideTypeOK
<1>2. CASE Off
  BY <1>2 DEF Off
<1>3. CASE DNext
  BY <1>3 DEF DNext, DSpawn, DNoWindow, DStarted, DInitialPause, DRecover, DSweep, DSweepDone,
         DChooseResume, DChooseReconnect, DChooseIdle, DChooseProbe, DChooseDispatch, DReceive, DLost,
         DResumed, DExecuted, DPost, DStopAcked, DJoin, DRestart, DRestartFails, DExit, DIsolate,
         DIsolateSave, DIsolateRecover, DDrain
<1>4. CASE WNext \/ CNext \/ UNCHANGED vars
  BY <1>4 DEF WNext, CNext, PauseCall, PauseReturn, PauseFails, ResumeCall, ResumeReturn, ResumeTimeout,
              ControlOnly, vars
<1>5. CASE ENext /\ ~Off
  BY <1>5 DEF ENext, Tick, Age, Stop, RuntimeFail, Maintain, Boot
<1> QED BY <1>1, <1>2, <1>3, <1>4, <1>5 DEF Next

\* An event stays set.
LEMMA CancelledStays ==
  ASSUME TypeOK, [Next]_vars, NEW r \in Request, cancelled[r]
  PROVE  cancelled'[r]
<1> USE DEF outsideVars, httpVars
<1>1. CASE HNext
  <2>1. ASSUME NEW q \in Request, Drop(q) PROVE cancelled'[r]
    BY <2>1 DEF Drop, TypeOK, OutsideTypeOK
  <2>2. CASE ~\E q \in Request : Drop(q)
    BY <1>1, <2>2 DEF HNext, Arrive, SubmitDropped, SubmitStorage, SubmitReplay, SubmitReject, SubmitAdmit,
              SubmitNotSaved, Leave, Expire, Respond, InSubmit, Return
  <2> QED BY <2>1, <2>2
<1>2. CASE Off
  BY <1>2 DEF Off
<1>3. CASE DNext
  BY <1>3 DEF DNext, DSpawn, DNoWindow, DStarted, DInitialPause, DRecover, DSweep, DSweepDone,
         DChooseResume, DChooseReconnect, DChooseIdle, DChooseProbe, DChooseDispatch, DReceive, DLost,
         DResumed, DExecuted, DPost, DStopAcked, DJoin, DRestart, DRestartFails, DExit, DIsolate,
         DIsolateSave, DIsolateRecover, DDrain
<1>4. CASE WNext \/ CNext \/ UNCHANGED vars
  BY <1>4 DEF WNext, CNext, PauseCall, PauseReturn, PauseFails, ResumeCall, ResumeReturn, ResumeTimeout,
              ControlOnly, vars
<1>5. CASE ENext /\ ~Off
  BY <1>5 DEF ENext, Tick, Age, Stop, RuntimeFail, Maintain, Boot
<1> QED BY <1>1, <1>2, <1>3, <1>4, <1>5 DEF Next

\* The bridge implements Submission, for every instance: each write goes from its admission to its end
\* once, is handed over at most once on the way, and every "not sent" in a row, a result or an answer is
\* about one that ended unsent (dispatch.py submit to _finish, executor.py, journal.py recover).
THEOREM Refines == Spec => ImplementsSubmission
<1>1. Init => S!Init
  <2> SUFFICES ASSUME Init PROVE S!Init
    OBVIOUS
  <2>0. IInv
    BY InitInvariant
  <2>1. \A r \in WRITE_ACTIONS : r \in Request /\ http[r] = "idle" /\ ~cancelled[r] /\ sent[r] = 0
    BY DEF Init, ExecutorInit, WRITE_ACTIONS
  <2>2. \A r \in WRITE_ACTIONS : Stage(r) = "new" /\ ~ClaimsNotSent(r)
    BY <2>0, <2>1, FreshSilent DEF Fresh, Stage, IInv, Jobs
  <2> QED BY <2>1, <2>2 DEF S!Init
<1>2. TypeOK /\ IInv /\ IInv' /\ [Next]_vars => [S!Next]_(S!vars)
  <2> SUFFICES ASSUME TypeOK, IInv, IInv', [Next]_vars PROVE S!Next
    OBVIOUS
  <2>0. WRITE_ACTIONS \subseteq Request
    BY DEF WRITE_ACTIONS
  <2>1. ASSUME NEW r \in Request, http[r] \in {"idle", "admit"}
        PROVE  ~MaySend(r) /\ sent'[r] = sent[r]
    <3>1. Untouched(r)
      BY <2>1 DEF IInv, Jobs
    <3> QED BY <3>1, SendSteps DEF Untouched, MaySend
  <2>2. ASSUME NEW r \in Request, http[r] \notin {"idle", "admit"} \/ cancelled[r]
        PROVE  /\ http'[r] \notin {"idle", "admit"} \/ cancelled'[r]
               /\ MaySend(r)' => MaySend(r)
    BY <2>2, HttpForward, CancelledStays, MaySendShrinks DEF IInv
  <2>7. ASSUME NEW r \in Request, http'[r] \in {"idle", "admit"} PROVE ~MaySend(r)'
    BY <2>7 DEF IInv, Jobs, Untouched, MaySend
  <2>3. ASSUME NEW r \in Request PROVE Stage(r) \in {"new", "live", "over"}
    BY DEF Stage
  <2>4. ASSUME NEW r \in Request, sent'[r] = sent[r]
        PROVE  \/ Stage(r)' = Stage(r)
               \/ Stage(r) = "new" /\ Stage(r)' = "live"
               \/ Stage(r) \in {"new", "live"} /\ Stage(r)' = "over"
    BY <2>1, <2>2, <2>7 DEF Stage
  <2>5. ASSUME NEW r \in Request, sent'[r] # sent[r]
        PROVE  /\ Stage(r) = "live" /\ Stage(r)' \in {"live", "over"}
               /\ sent[r] = 0 /\ sent'[r] = 1 /\ steps.request = r
    BY <2>1, <2>2, <2>5, SendSteps DEF Stage
  <2>6. ASSUME NEW r \in WRITE_ACTIONS, ClaimsNotSent(r)'
        PROVE  Stage(r)' = "over" /\ sent'[r] = 0
    <3>1. sent'[r] = 0 /\ ~MaySend(r)'
      BY <2>6 DEF IInv, Claims
    <3>2. Fresh(r)' => ~ClaimsNotSent(r)'
      <4>1. ~Denies(NoReply) /\ NoRow.reply = NoReply /\ NoRow.effect = "none"
        BY DEF Denies, NoRow
      <4> QED BY <2>0, <4>1 DEF ClaimsNotSent, ToldNotSent, Fresh, Untouched, Denies
    <3>3. http'[r] \notin {"idle", "admit"} \/ cancelled'[r]
      BY <2>0, <2>6, <3>2 DEF Fresh, IInv, Jobs
    <3> QED BY <3>1, <3>3 DEF Stage
  <2> QED BY <2>0, <2>4, <2>5, <2>6 DEF S!Next, S!Rest, S!Accept, S!Close, S!HandOver, S!Unsent
<1> QED BY <1>1, <1>2, TypeCorrect, Invariant, PTL DEF Spec, ImplementsSubmission, S!Spec


-----------------------------------------------------------------------------
\* The cached count of unknown rows, the reconnection plan, and the restart of the terminal.

\* Outside the thread's own steps only a crash and a start move the thread or touch the plan and the
\* handle of the worker.
LEMMA OutsideFrame ==
  ASSUME [Next]_vars, ~DNext, ~Off, ~Boot
  PROVE  UNCHANGED <<dpc, active, reconnect, owner_busy, ready, handle, pending>>
<1> USE DEF jobVars, viewVars, flagVars, linkVars
<1>1. CASE WNext
  BY <1>1 DEF WNext
<1>2. CASE HNext
  BY <1>2 DEF HNext, Arrive, SubmitDropped, SubmitStorage, SubmitReplay, SubmitReject, SubmitAdmit,
              SubmitNotSaved, Drop, Leave, Expire, Respond, InSubmit, HttpOnly
<1>3. CASE CNext
  BY <1>3 DEF CNext, PauseCall, PauseReturn, PauseFails, ResumeCall, ResumeReturn, ResumeTimeout,
              ControlOnly
<1>4. CASE ENext
  BY <1>4 DEF ENext, Tick, Age, Stop, RuntimeFail, Maintain
<1>5. CASE UNCHANGED vars
  BY <1>5 DEF vars
<1> QED BY <1>1, <1>2, <1>3, <1>4, <1>5 DEF Next

\* An isolated dispatcher stays isolated until the service is down.
LEMMA IsolatedStays ==
  ASSUME [Next]_vars, dpc \in Isolated
  PROVE  dpc' \in Isolated \cup {"off"}
<1> USE DEF Goto, Isolated
<1>1. CASE DNext
  BY <1>1 DEF DNext, DSpawn, DNoWindow, DStarted, DInitialPause, DRecover, DSweep, DSweepDone,
         DChooseResume, DChooseReconnect, DChooseIdle, DChooseProbe, DChooseDispatch, DReceive, DLost,
         DResumed, DExecuted, DPost, DStopAcked, DJoin, DRestart, DRestartFails, DExit, DIsolate,
         DIsolateSave, DIsolateRecover, DDrain
<1>2. CASE Off \/ Boot
  BY <1>2 DEF Off, Boot
<1> QED BY <1>1, <1>2, OutsideFrame

\* _finish refreshes the count of unknown rows with every row it saved.
LEMMA Refreshed ==
  ASSUME TypeOK, NEW V \in SUBSET Request, NEW R, NEW o \in [V -> Storage], Answered(V, R, o)
  PROVE  /\ failed => failed'
         /\ unresolved' = Unresolved(db') \/ unresolved' = unresolved
         /\ ~failed' => \/ unresolved' = Unresolved(db')
                        \/ V \cap WRITE_ACTIONS = {} /\ UNCHANGED <<unresolved, db>>
<1> DEFINE W == V \cap WRITE_ACTIONS
<1>1. /\ unresolved' = IF \E r \in W : o[r] = "ok" THEN Unresolved(db') ELSE unresolved
      /\ failed' = (failed \/ \E r \in W : o[r] # "ok")
      /\ db' = [r \in Request |-> IF r \in W THEN Commit(o[r], db[r], FinishRow(db[r], R[r])) ELSE db[r]]
  BY DEF Answered
<1> HIDE DEF W
<1>2. failed => failed'
  BY <1>1
<1>3. unresolved' = Unresolved(db') \/ unresolved' = unresolved
  BY <1>1
<1>4. ASSUME ~failed', W # {} PROVE unresolved' = Unresolved(db')
  BY <1>1, <1>4
<1>5. ASSUME W = {} PROVE UNCHANGED <<unresolved, db>>
  <2>1. db' = [r \in Request |-> db[r]] /\ unresolved' = unresolved
    BY <1>1, <1>5
  <2> QED BY <2>1 DEF TypeOK
<1> QED BY <1>2, <1>3, <1>4, <1>5 DEF W

\* A step refreshes the cached count or leaves it alone.
LEMMA CountStep ==
  ASSUME TypeOK, Turns, Jobs, [Next]_vars, ~Off
  PROVE  /\ failed => failed'
         /\ Boot \/ unresolved' = Unresolved(db') \/ unresolved' = unresolved
<1>0. Queued \subseteq Request
  BY DEF Queued, ToSet, TypeOK, JobTypeOK
<1>1. CASE Kept \/ Pruned \/ Insert \/ WNext \/ DIsolate \/ Boot
  BY <1>1 DEF Kept, Pruned, Insert, WNext, DIsolate, Boot, saveVars
<1>2. CASE Skip
  <2>1. PICK V \in SUBSET Queued, c \in SkipCode : \E o \in [V -> Storage] :
          Answered(V, [q \in V |-> NotRun(c)], o)
    BY <1>2 DEF Skip
  <2>2. PICK o \in [V -> Storage] : Answered(V, [q \in V |-> NotRun(c)], o)
    BY <2>1
  <2>3. V \in SUBSET Request
    BY <1>0
  <2> QED BY <2>2, <2>3, Refreshed
<1>3. CASE Close
  <2>1. PICK reply \in Reply, o \in [{active} -> Storage] :
          Answered({active}, [q \in {active} |-> reply], o) /\ active \in Request
    BY <1>3 DEF Close
  <2>2. {active} \in SUBSET Request
    BY <2>1
  <2> QED BY <2>1, <2>2, Refreshed
<1> QED BY <1>1, <1>2, <1>3, StepKind DEF JournalStep

\* Only the worker that holds r, its answer, or a start changes whether r's outcome is unknown: outside an
\* execution, an isolation and a start no row does.
LEMMA UnknownStable ==
  ASSUME TypeOK, Turns, Jobs, QueueRows, [Next]_vars, dpc \notin Busy \cup Isolated \cup {"off"},
         NEW r \in Request
  PROVE  db'[r].effect = "unknown" <=> db[r].effect = "unknown"
<1>1. ~Written(r)
  BY DEF Written, Turns, Busy
<1>2. ~Closed(r)
  BY DEF Closed, Close, Busy, Isolated
<1>3. ~Recovered(r)
  BY DEF Recovered, Boot
<1> QED BY <1>1, <1>2, <1>3, UnknownSteps

\* Every step keeps Counted.
LEMMA CountedStep ==
  ASSUME TypeOK, Turns, Jobs, RowInv, Counted, [Next]_vars
  PROVE  Counted'
<1> SUFFICES ASSUME dpc' \notin Isolated \cup {"off"}, ~failed'
             PROVE  /\ ~unresolved' => \A r \in Request : db'[r].effect = "unknown" => r = active'
                    /\ unresolved' /\ active' \notin WRITE_ACTIONS => Unresolved(db')
  BY DEF Counted
<1>0. dpc \notin Isolated /\ ~Off
  BY IsolatedStays DEF Off
<1>1. unresolved \in BOOLEAN /\ WRITE_ACTIONS \subseteq Request /\ QueueRows /\ ActiveBusy /\ NoRequest \notin WRITE_ACTIONS
  BY NoRequestAssumption DEF TypeOK, JobTypeOK, WRITE_ACTIONS, RowInv
<1>2. ASSUME unresolved' = Unresolved(db')
      PROVE  /\ ~unresolved' => \A r \in Request : db'[r].effect = "unknown" => r = active'
             /\ unresolved' /\ active' \notin WRITE_ACTIONS => Unresolved(db')
  BY <1>2 DEF Unresolved
<1>3. CASE Boot
  <2>1. PICK o \in Storage : /\ dpc' = IF o = "ok" THEN "window" ELSE "off"
                            /\ unresolved' = (o = "ok" /\ Unresolved(db'))
    BY <1>3 DEF Boot
  <2>2. unresolved' = (TRUE /\ Unresolved(db'))
    BY <2>1
  <2>3. unresolved' <=> Unresolved(db')
    BY <2>2
  <2> QED BY <2>3 DEF Unresolved
<1>4. CASE ~Boot
  <2>1. dpc # "off" /\ ~failed
    BY <1>0, <1>4, CountStep, OutsideFrame DEF DNext, DSpawn, DNoWindow, DStarted, DInitialPause, DRecover,
         DSweep, DSweepDone, DChooseResume, DChooseReconnect, DChooseIdle, DChooseProbe, DChooseDispatch,
         DReceive, DLost, DResumed, DExecuted, DPost, DStopAcked, DJoin, DRestart, DRestartFails, DExit,
         DIsolate, DIsolateSave, DIsolateRecover, DDrain, Goto
  <2>2. /\ ~unresolved => \A r \in Request : db[r].effect = "unknown" => r = active
        /\ unresolved /\ active \notin WRITE_ACTIONS => Unresolved(db)
    BY <1>0, <2>1 DEF Counted
  <2>3. CASE DChooseDispatch
    <3>1. active = NoRequest /\ Kept
      BY <1>1, <2>3, DispatchFrame DEF ActiveBusy, Busy, Isolated
    <3> QED BY <1>1, <2>2, <3>1, NoRequestAssumption DEF Kept, Unresolved
  <2>4. CASE DExecuted
    <3>1. PICK o \in Storage : Answered({active}, [q \in {active} |-> wreply], [q \in {active} |-> o])
      BY <2>4 DEF DExecuted
    <3>2. active \in Request /\ active' = NoRequest
      BY <2>4 DEF DExecuted, Goto, Turns, Replied
    <3>3. [q \in {active} |-> o] \in [{active} -> Storage] /\ {active} \in SUBSET Request
      BY <3>2
    <3>4. CASE active \notin WRITE_ACTIONS /\ UNCHANGED <<unresolved, db>>
      <4>1. db[active].effect # "unknown"
        BY <1>1, <3>2, <3>4 DEF QueueRows
      <4>2. ~unresolved => \A r \in Request : db[r].effect # "unknown"
        BY <2>2, <4>1
      <4> QED BY <2>2, <3>4, <4>2 DEF Unresolved
    <3> QED BY <1>2, <3>1, <3>3, <3>4, Refreshed
  <2>5. CASE ~DChooseDispatch /\ ~DExecuted
    <3>1. active' = active
      <4>1. CASE DNext
        BY <2>5, <4>1 DEF DNext, DSpawn, DNoWindow, DStarted, DInitialPause, DRecover, DSweep, DSweepDone,
           DChooseResume, DChooseReconnect, DChooseIdle, DChooseProbe, DReceive, DLost, DResumed, DPost,
           DStopAcked, DJoin, DRestart, DRestartFails, DExit, DIsolate, DIsolateSave, DIsolateRecover,
           DDrain, jobVars
      <4> QED BY <1>0, <1>4, <4>1, OutsideFrame
    <3>2. ASSUME NEW r \in Request
          PROVE  (db'[r].effect = "unknown" <=> db[r].effect = "unknown") \/ (r = active /\ r \in WRITE_ACTIONS)
      <4>1. ~Closed(r)
        BY <1>0, <3>1, NoRequestAssumption DEF Closed, Close, Isolated
      <4>2. ~Recovered(r)
        BY <1>4 DEF Recovered
      <4>3. Written(r) => r = active /\ r \in WRITE_ACTIONS
        BY <1>1 DEF Written, Turns, QueueRows
      <4> QED BY <1>1, <4>1, <4>2, <4>3, UnknownSteps
    <3>3. CASE unresolved' = unresolved
      <4>1. ~unresolved' => \A r \in Request : db'[r].effect = "unknown" => r = active'
        BY <2>2, <3>1, <3>2, <3>3
      <4>2. ASSUME unresolved', active' \notin WRITE_ACTIONS PROVE Unresolved(db')
        BY <2>2, <3>1, <3>2, <3>3, <4>2 DEF Unresolved
      <4> QED BY <4>1, <4>2
    <3> QED BY <1>0, <1>2, <1>4, <3>3, CountStep
  <2> QED BY <2>3, <2>4, <2>5
<1> QED BY <1>3, <1>4

\* What _update_recovery tells the plan.
LEMMA RecoveryObserves ==
  ASSUME TypeOK, PlanSound, UpdateRecovery
  PROVE  /\ PlanSound'
         /\ ~reconnect'.begun
         /\ reconnect'.observed.safe = (state.ownership_clear /\ ~unresolved' /\ ~failed' /\ ~rtError)
         /\ ~rtError => reconnect'.observed.error = state'.error
         /\ state'.ownership_clear = state.ownership_clear
<1> DEFINE base == IF rtError
              THEN [state EXCEPT !.blocked = TRUE, !.query_ready = FALSE, !.trading_ready = FALSE]
              ELSE state
           error == IF rtError THEN "RUNTIME" ELSE state'.error
           safe == base.ownership_clear /\ ~unresolved' /\ ~failed' /\ ~rtError
<1>1. state' = Marked(base) /\ reconnect' = Observe(reconnect, error, safe)
  BY DEF UpdateRecovery
<1>2. base.ownership_clear = state.ownership_clear
  BY DEF TypeOK, ThreadTypeOK, WorkerState
<1>3. base \in WorkerState
  BY DEF TypeOK, ThreadTypeOK, WorkerState
<1> HIDE DEF base
<1>4. state'.ownership_clear = base.ownership_clear
  BY <1>1, <1>3 DEF Marked, WorkerState
<1>5. safe = (state.ownership_clear /\ ~unresolved' /\ ~failed' /\ ~rtError)
  BY <1>2
<1>6. ~rtError => error = state'.error
  OBVIOUS
<1>7. safe \in BOOLEAN
  OBVIOUS
<1> HIDE DEF error, safe
<1>8. reconnect \in Plan
  BY DEF TypeOK, ThreadTypeOK
<1>9. reconnect'.observed = [error |-> error, safe |-> safe] /\ ~reconnect'.begun
  BY <1>1, <1>8 DEF Observe, Plan
<1>10. PlanSound'
  <2>1. CASE reconnect' = reconnect
    BY <2>1 DEF PlanSound
  <2>2. CASE reconnect' = [observed |-> [error |-> error, safe |-> safe],
                           deadline |-> ReconnectEnabled /\ safe /\ error \in CONNECTION_ERRORS,
                           begun |-> FALSE]
    BY <2>2, Zenon DEF PlanSound
  <2> QED BY <1>1, <2>1, <2>2 DEF Observe
<1> QED BY <1>4, <1>2, <1>5, <1>6, <1>9, <1>10

\* Every step keeps PlanSound.
LEMMA PlanSoundStep ==
  ASSUME TypeOK, PlanSound, [Next]_vars
  PROVE  PlanSound'
<1> USE DEF viewVars
<1>1. ASSUME UNCHANGED reconnect PROVE PlanSound'
  BY <1>1 DEF PlanSound
<1>2. CASE DRecover \/ DPost \/ DIsolateRecover
  BY <1>2, RecoveryObserves DEF DRecover, DPost, DIsolateRecover
<1>3. CASE DChooseReconnect
  <2>1. reconnect' = [reconnect EXCEPT !.deadline = FALSE, !.begun = TRUE]
    BY <1>3 DEF DChooseReconnect, Begin
  <2>2. reconnect'.deadline = FALSE /\ reconnect'.begun = TRUE
    BY <2>1 DEF TypeOK, ThreadTypeOK, Plan
  <2> QED BY <2>2, Zenon DEF PlanSound
<1>4. CASE DNext /\ ~DRecover /\ ~DPost /\ ~DIsolateRecover /\ ~DChooseReconnect
  BY <1>1, <1>4 DEF DNext, DSpawn, DNoWindow, DStarted, DInitialPause, DSweep, DSweepDone,
         DChooseResume, DChooseIdle, DChooseProbe, DChooseDispatch, DReceive, DLost, DResumed, DExecuted,
         DStopAcked, DJoin, DRestart, DRestartFails, DExit, DIsolate, DIsolateSave, DDrain
<1>5. CASE Off
  <2>1. reconnect'.deadline = FALSE /\ reconnect'.observed.safe = FALSE
    BY <1>5 DEF Off, NewPlan
  <2> QED BY <2>1, Zenon DEF PlanSound
<1>6. CASE Boot
  BY <1>1, <1>6 DEF Boot
<1> QED BY <1>1, <1>2, <1>3, <1>4, <1>5, <1>6, OutsideFrame

\* How the thread comes to its choice, and what others may do on the way.
LEMMA ChoiceFrame ==
  ASSUME TypeOK, [Next]_vars
  PROVE  /\ dpc' \in {"off", "window", "starting", "init"} =>
              \/ Off
              \/ dpc \in {"off", "window", "starting", "init"} /\ UNCHANGED reconnect
         /\ dpc' \in {"loop", "sweep", "choose"} =>
              \/ DPost \/ DRecover
              \/ dpc \in {"init", "loop", "sweep", "choose"} /\ UNCHANGED reconnect
         /\ dpc' \in {"sweep", "choose"} =>
              \/ DRecover \/ DSweep
              \/ /\ dpc \in {"sweep", "choose"} /\ UNCHANGED <<reconnect, state, unresolved, failed>>
                 /\ ~rtError' => ~rtError
         /\ dpc' \in Restarting => DChooseReconnect \/ dpc \in Restarting
         /\ dpc' \in {"rc_restart", "rc_spawn"} =>
              (dpc \in {"rc_restart", "rc_spawn"} /\ UNCHANGED handle) \/ ~handle'
<1> USE DEF Goto, viewVars, saveVars, linkVars, envVars, outsideVars, Restarting
<1>1. CASE DNext
  <2>1. CASE DSpawn \/ DNoWindow \/ DStarted \/ DInitialPause \/ DRecover \/ DSweep \/ DSweepDone
    BY <2>1 DEF DSpawn, DNoWindow, DStarted, DInitialPause, DRecover, DSweep, DSweepDone
  <2>2. CASE DChooseResume \/ DChooseReconnect \/ DChooseIdle \/ DChooseProbe \/ DChooseDispatch \/ DExit
    BY <2>2 DEF DChooseResume, DChooseReconnect, DChooseIdle, DChooseProbe, DChooseDispatch, DExit
  <2>3. CASE DReceive \/ DLost \/ DResumed \/ DExecuted \/ DPost \/ DStopAcked \/ DJoin
    BY <2>3 DEF DReceive, DLost, DResumed, DExecuted, DPost, DStopAcked, DJoin
  <2>4. CASE DRestart \/ DRestartFails \/ DIsolate \/ DIsolateSave \/ DIsolateRecover \/ DDrain
    BY <2>4 DEF DRestart, DRestartFails, DIsolate, DIsolateSave, DIsolateRecover, DDrain
  <2> QED BY <1>1, <2>1, <2>2, <2>3, <2>4 DEF DNext
<1>2. CASE WNext
  BY <1>2 DEF WNext
<1>3. CASE HNext
  <2>1. UNCHANGED <<dpc, reconnect, handle, rtError>>
    BY <1>3 DEF HNext, Arrive, SubmitDropped, SubmitStorage, SubmitReplay, SubmitReject, SubmitAdmit,
              SubmitNotSaved, Drop, Leave, Expire, Respond, InSubmit, HttpOnly
  <2>2. dpc \in {"sweep", "choose"} => UNCHANGED <<state, unresolved, failed>>
    BY <1>3 DEF HNext, Arrive, SubmitDropped, SubmitStorage, SubmitReplay, SubmitReject, SubmitAdmit,
              SubmitNotSaved, Drop, Leave, Expire, Respond, InSubmit, Stored, Locked
  <2> QED BY <2>1, <2>2
<1>4. CASE CNext
  BY <1>4 DEF CNext, PauseCall, PauseReturn, PauseFails, ResumeCall, ResumeReturn, ResumeTimeout,
              ControlOnly
<1>5. CASE ENext
  <2>1. CASE Off \/ Boot
    BY <2>1 DEF Off, Boot
  <2>2. CASE Stop \/ RuntimeFail \/ Maintain
    BY <2>2 DEF Stop, RuntimeFail, Maintain
  <2>3. CASE \E r \in Request : Tick(r) \/ Age(r)
    BY <2>3 DEF Tick, Age
  <2> QED BY <1>5, <2>1, <2>2, <2>3 DEF ENext
<1>6. CASE UNCHANGED vars
  BY <1>6 DEF vars
<1> QED BY <1>1, <1>2, <1>3, <1>4, <1>5, <1>6 DEF Next

\* Every step keeps RetryKept: what the plan was told is still true when the thread chooses.
LEMMA RetryKeptStep ==
  ASSUME TypeOK, Turns, Jobs, RowInv, Counted, PlanSound, RetryKept, [Next]_vars,
         RowInv', Counted', PlanSound'
  PROVE  RetryKept'
<1>0. QueueRows /\ ActiveBusy /\ ActiveBusy'
  BY DEF RowInv
<1>1. dpc' \in {"off", "window", "starting", "init"} => ~reconnect'.deadline
  <2>1. Off => ~reconnect'.deadline
    BY DEF Off, NewPlan
  <2> QED BY <2>1, ChoiceFrame DEF RetryKept
<1>2. ASSUME dpc' \in {"loop", "sweep", "choose"}, ~unresolved', ~failed', NEW r \in Request
      PROVE  db'[r].effect # "unknown"
  BY <1>0, <1>2, NoRequestAssumption DEF Counted, ActiveBusy, Busy, Isolated
<1>3. ASSUME dpc' \in {"loop", "sweep", "choose"}, reconnect'.deadline, NEW r \in Request
      PROVE  db'[r].effect # "unknown"
  <2>1. CASE DPost \/ DRecover
    <3>1. UpdateRecovery
      BY <2>1 DEF DPost, DRecover
    <3>2. reconnect'.observed.safe
      BY <1>3 DEF PlanSound
    <3>3. ~unresolved' /\ ~failed'
      BY <3>1, <3>2, RecoveryObserves
    <3> QED BY <1>2, <1>3, <3>3
  <2>2. CASE dpc \in {"init", "loop", "sweep", "choose"} /\ UNCHANGED reconnect
    <3>1. db[r].effect # "unknown"
      BY <1>3, <2>2 DEF RetryKept
    <3>2. dpc \notin Busy \cup Isolated \cup {"off"}
      BY <2>2 DEF Busy, Isolated
    <3> QED BY <1>0, <3>1, <3>2, UnknownStable
  <2> QED BY <1>3, <2>1, <2>2, ChoiceFrame
<1>4. ASSUME dpc' \in {"sweep", "choose"}, ReconnectEnabled, state'.error \in CONNECTION_ERRORS,
             state'.ownership_clear, ~unresolved', ~failed', ~rtError'
      PROVE  reconnect'.deadline
  <2>1. CASE DRecover
    <3>1. UpdateRecovery /\ rtError' = rtError
      BY <2>1 DEF DRecover, outsideVars, envVars
    <3>2. /\ ~reconnect'.begun /\ reconnect'.observed.error = state'.error
          /\ reconnect'.observed.safe = (state.ownership_clear /\ ~unresolved' /\ ~failed' /\ ~rtError)
          /\ state'.ownership_clear = state.ownership_clear
      BY <1>4, <3>1, RecoveryObserves
    <3>3. reconnect'.observed.safe
      BY <1>4, <3>1, <3>2
    <3> QED BY <1>4, <3>2, <3>3 DEF PlanSound
  <2>2. CASE DSweep
    <3>1. PICK i \in DOMAIN queue, c \in SkipCode : Discard(i, c)
      BY <2>2 DEF DSweep, SkipCode
    <3>2. dpc = "sweep" /\ dpc' = "sweep" /\ reconnect' = reconnect /\ rtError' = rtError
      BY <2>2 DEF DSweep, outsideVars, envVars
    <3>3. ~failed
      <4>1. ~Off /\ (failed => failed')
        BY <3>2, CountStep DEF Off
      <4> QED BY <1>4, <4>1
    <3>4. state' = state
      BY <1>4, <3>1 DEF Discard, Marked
    <3>5. ~unresolved
      <4> SUFFICES ASSUME unresolved PROVE FALSE
        OBVIOUS
      <4>1. active = NoRequest
        BY <1>0, <3>2 DEF ActiveBusy, Busy, Isolated
      <4>2. Unresolved(db)
        BY <3>2, <3>3, <4>1, NoRequestAssumption DEF Counted, Isolated, WRITE_ACTIONS
      <4>3. PICK r \in Request : db[r].effect = "unknown"
        BY <4>2 DEF Unresolved
      <4>4. db'[r].effect = "unknown"
        BY <1>0, <3>2, <4>3, UnknownStable DEF Busy, Isolated
      <4> QED BY <1>2, <1>4, <4>4
    <3> QED BY <1>4, <3>2, <3>3, <3>4, <3>5 DEF RetryKept
  <2>3. CASE /\ dpc \in {"sweep", "choose"} /\ UNCHANGED <<reconnect, state, unresolved, failed>>
             /\ ~rtError' => ~rtError
    BY <1>4, <2>3 DEF RetryKept
  <2> QED BY <1>4, <2>1, <2>2, <2>3, ChoiceFrame
<1> QED BY <1>1, <1>3, <1>4 DEF RetryKept

\* Every step keeps RestartSettled.
LEMMA RestartSettledStep ==
  ASSUME TypeOK, Turns, Jobs, RowInv, RetryKept, RestartSettled, [Next]_vars
  PROVE  RestartSettled'
<1>1. ASSUME dpc' \in Restarting, NEW r \in Request PROVE db'[r].effect # "unknown"
  <2>1. CASE DChooseReconnect
    <3>1. db' = db /\ dpc = "choose" /\ reconnect.deadline
      BY <2>1 DEF DChooseReconnect, Goto
    <3> QED BY <3>1 DEF RetryKept
  <2>2. CASE dpc \in Restarting
    <3>1. db[r].effect # "unknown"
      BY <2>2 DEF RestartSettled
    <3>2. dpc \notin Busy \cup Isolated \cup {"off"}
      BY <2>2 DEF Restarting, Busy, Isolated
    <3> QED BY <3>1, <3>2, UnknownStable DEF RowInv
  <2> QED BY <1>1, <2>1, <2>2, ChoiceFrame
<1>2. dpc' \in {"rc_restart", "rc_spawn"} => ~handle'
  BY ChoiceFrame DEF RestartSettled
<1> QED BY <1>1, <1>2 DEF RestartSettled

\* The count, the plan and the restart, as one invariant of the specification.
RestartInv == Counted /\ PlanSound /\ RetryKept /\ RestartSettled

\* For every instance the cached count of unknown rows is right where it is used, and the plan holds a
\* retry only for a connection lost with nothing unsettled (dispatch.py _finish, reconnect.py observe).
THEOREM Restarts == Spec => []RestartInv
<1>1. Init => RestartInv
  <2> SUFFICES ASSUME Init PROVE RestartInv
    OBVIOUS
  <2>1. dpc = "window" /\ unresolved = FALSE /\ reconnect = NewPlan /\ \A r \in Request : db[r] = NoRow
    BY DEF Init
  <2>2. reconnect.deadline = FALSE /\ reconnect.observed.safe = FALSE
    BY <2>1 DEF NewPlan
  <2>3. PlanSound
    BY <2>2, Zenon DEF PlanSound
  <2>4. Counted
    BY <2>1 DEF Counted, NoRow
  <2> QED BY <2>1, <2>2, <2>3, <2>4 DEF RestartInv, RetryKept, RestartSettled, Restarting
<1>2. TypeOK /\ IInv /\ RowInv /\ RowInv' /\ RestartInv /\ [Next]_vars => RestartInv'
  <2> SUFFICES ASSUME TypeOK, IInv, RowInv, RowInv', RestartInv, [Next]_vars PROVE RestartInv'
    OBVIOUS
  <2>1. Turns /\ Jobs /\ Counted /\ PlanSound /\ RetryKept /\ RestartSettled
    BY DEF IInv, RestartInv
  <2>2. Counted' /\ PlanSound'
    BY <2>1, CountedStep, PlanSoundStep
  <2>3. RetryKept' /\ RestartSettled'
    BY <2>1, <2>2, RetryKeptStep, RestartSettledStep
  <2> QED BY <2>2, <2>3 DEF RestartInv
<1> QED BY <1>1, <1>2, TypeCorrect, Invariant, Rows, PTL DEF Spec

\* For every instance a lost connection that is safe to recover has a retry scheduled when the thread
\* chooses what to do next (dispatch.py _update_recovery, reconnect.py observe).
THEOREM RetryIsScheduled == Spec => []RetryScheduled
<1>1. RestartInv => RetryScheduled
  BY DEF RestartInv, RetryKept, RetryScheduled
<1> QED BY <1>1, Restarts, PTL

\* For every instance the terminal is replaced only when no write is unsettled, no job is started and the
\* old worker is known to be gone (dispatch.py _reconnect, worker.py stop).
THEOREM RestartIsSettled == Spec => []RestartOnlyWhenSettled
<1>1. Init => Ownership
  BY DEF Init, ExecutorInit, Ownership
<1>2. TypeOK /\ IInv /\ Ownership /\ [Next]_vars => Ownership'
  BY OwnershipStep DEF IInv
<1>3. Ownership /\ RowInv /\ RestartInv => RestartOnlyWhenSettled
  BY DEF Ownership, RowInv, ActiveBusy, Busy, Isolated, RestartInv, RestartSettled, Restarting,
         RestartOnlyWhenSettled
<1> QED BY <1>1, <1>2, <1>3, TypeCorrect, Invariant, Rows, Restarts, PTL DEF Spec


-----------------------------------------------------------------------------
\* The pause after a start with unknown rows, the operator's pause, and the replay of answers.

\* A handler or the control thread never starts a job, and unpauses only by a resume.
LEMMA HeldFrame ==
  ASSUME TypeOK, [Next]_vars, ~Off, ~Boot
  PROVE  /\ held' => UNCHANGED held
         /\ resume_future' => resume_future \/ ResumeCall
         /\ resume_future => resume_future' \/ (dpc = "resumed" /\ dpc' = "post")
         /\ paused => paused' \/ dpc = "resumed" \/ ResumeCall
         /\ dpc' \in {"resuming", "resumed"} => resume_future \/ dpc \in {"resuming", "resumed"}
         /\ dpc \in Starting => dpc' \in Starting \cup Isolated \/ DInitialPause
         /\ dpc' \in Starting => dpc \in Starting
         /\ dpc' = "off" => dpc = "off"
<1> USE DEF Goto, flagVars, linkVars, controlVars, outsideVars, Starting, Isolated
<1>1. CASE DNext
  <2>0. CASE DInitialPause
    <3>1. paused => paused'
      BY <2>0, Zenon DEF DInitialPause
    <3>2. dpc = "init" /\ dpc' = "loop" /\ UNCHANGED <<held, resume_future>>
      BY <2>0 DEF DInitialPause
    <3> QED BY <2>0, <3>1, <3>2
  <2>1. CASE DSpawn \/ DNoWindow \/ DStarted \/ DRecover \/ DSweep \/ DSweepDone
    BY <2>1 DEF DSpawn, DNoWindow, DStarted, DRecover, DSweep, DSweepDone
  <2>2. CASE DChooseResume \/ DChooseReconnect \/ DChooseIdle \/ DChooseProbe \/ DChooseDispatch \/ DExit
    BY <2>2 DEF DChooseResume, DChooseReconnect, DChooseIdle, DChooseProbe, DChooseDispatch, DExit
  <2>3. CASE DReceive \/ DLost \/ DResumed \/ DExecuted \/ DPost \/ DStopAcked \/ DJoin
    BY <2>3 DEF DReceive, DLost, DResumed, DExecuted, DPost, DStopAcked, DJoin
  <2>4. CASE DRestart \/ DRestartFails \/ DIsolate \/ DIsolateSave \/ DIsolateRecover \/ DDrain
    BY <2>4 DEF DRestart, DRestartFails, DIsolate, DIsolateSave, DIsolateRecover, DDrain
  <2> QED BY <1>1, <2>0, <2>1, <2>2, <2>3, <2>4 DEF DNext
<1>2. CASE WNext
  BY <1>2 DEF WNext
<1>3. CASE HNext
  BY <1>3 DEF HNext, Arrive, SubmitDropped, SubmitStorage, SubmitReplay, SubmitReject, SubmitAdmit,
              SubmitNotSaved, Drop, Leave, Expire, Respond, InSubmit, HttpOnly
<1>4. CASE CNext
  BY <1>4 DEF CNext, PauseCall, PauseReturn, PauseFails, ResumeCall, ResumeReturn, ResumeTimeout,
              ControlOnly
<1>5. CASE ENext
  BY <1>5 DEF ENext, Tick, Age, Stop, RuntimeFail, Maintain
<1>6. CASE UNCHANGED vars
  BY <1>6 DEF vars
<1> QED BY <1>1, <1>2, <1>3, <1>4, <1>5, <1>6 DEF Next

\* Every step keeps HeldBack.
LEMMA HeldBackStep ==
  ASSUME TypeOK, Turns, Jobs, RowInv, HeldBack, [Next]_vars
  PROVE  HeldBack'
<1>0. QueueRows /\ ActiveBusy
  BY DEF RowInv
<1>1. CASE Off
  <2>1. dpc' = "off" /\ held' = FALSE /\ resume_future' = FALSE
    BY <1>1 DEF Off
  <2> QED BY <2>1 DEF HeldBack
<1>2. CASE Boot
  <2>0. dpc = "off" /\ UNCHANGED <<active, resume_future, paused>>
    BY <1>2 DEF Boot, jobVars, linkVars, flagVars
  <2>1. active = NoRequest /\ ~resume_future
    BY <1>0, <2>0 DEF ActiveBusy, Busy, Isolated, HeldBack
  <2>2. PICK o \in Storage : /\ dpc' = IF o = "ok" THEN "window" ELSE "off"
                            /\ unresolved' = (o = "ok" /\ Unresolved(db'))
                            /\ held' = unresolved'
    BY <1>2 DEF Boot
  <2>3. ASSUME held' PROVE dpc' = "window" /\ unresolved' /\ Unresolved(db')
    BY <2>2, <2>3
  <2>4. dpc' \notin {"resuming", "resumed"}
    BY <2>2
  <2> QED BY <2>0, <2>1, <2>3, <2>4 DEF HeldBack, Starting
<1>3. CASE ~Off /\ ~Boot
  <2>1. dpc' \in {"resuming", "resumed"} => resume_future'
    BY <1>3, HeldFrame DEF HeldBack
  <2>2. dpc' = "off" => ~resume_future'
    <3>1. dpc' = "off" => dpc = "off" /\ ~ResumeCall
      BY <1>3, HeldFrame DEF ResumeCall, ControlOnly, Up
    <3> QED BY <1>3, <3>1, HeldFrame DEF HeldBack
  <2>3. ASSUME held'
        PROVE  /\ active' = NoRequest /\ ~resume_future'
               /\ paused' \/ dpc' \in Starting \cup Isolated
               /\ dpc' \in Starting => unresolved' /\ Unresolved(db')
    <3>0. ~ResumeCall
      BY <2>3 DEF ResumeCall
    <3>1. held /\ active = NoRequest /\ ~resume_future /\ (paused \/ dpc \in Starting \cup Isolated)
      BY <1>3, <2>3, HeldFrame DEF HeldBack
    <3>2. dpc # "resumed"
      BY <3>1 DEF HeldBack
    <3>3. active' = NoRequest
      <4>1. ~DChooseDispatch
        BY <3>1 DEF DChooseDispatch, Goto, Starting, Isolated
      <4> QED BY <3>1, <4>1, ActiveFrame
    <3>4. ~resume_future'
      BY <1>3, <3>0, <3>1, HeldFrame
    <3>5. paused' \/ dpc' \in Starting \cup Isolated
      <4>1. CASE paused
        BY <1>3, <3>0, <3>2, <4>1, HeldFrame
      <4>2. CASE dpc \in Isolated
        <5>1. dpc' # "off"
          BY <1>3, <4>2, HeldFrame DEF Isolated
        <5> QED BY <4>2, <5>1, IsolatedStays
      <4>3. CASE dpc \in Starting
        <5>1. unresolved
          BY <3>1, <4>3 DEF HeldBack
        <5>2. DInitialPause => paused'
          BY <5>1 DEF DInitialPause
        <5> QED BY <1>3, <4>3, <5>2, HeldFrame
      <4> QED BY <3>1, <4>1, <4>2, <4>3
    <3>6. ASSUME dpc' \in Starting PROVE unresolved' /\ Unresolved(db')
      <4>1. dpc \in Starting
        BY <1>3, <3>6, HeldFrame
      <4>2. unresolved /\ Unresolved(db)
        BY <3>1, <4>1 DEF HeldBack
      <4>3. PICK r \in Request : db[r].effect = "unknown"
        BY <4>2 DEF Unresolved
      <4>4. db'[r].effect = "unknown"
        BY <1>0, <4>1, <4>3, UnknownStable DEF Starting, Busy, Isolated
      <4>5. Unresolved(db')
        BY <4>4 DEF Unresolved
      <4> QED BY <1>3, <4>2, <4>5, CountStep
    <3> QED BY <3>3, <3>4, <3>5, <3>6
  <2> QED BY <2>1, <2>2, <2>3 DEF HeldBack
<1> QED BY <1>1, <1>2, <1>3

\* For every instance a service that starts over unknown rows holds everything back until the operator
\* resumes it (dispatch.py __init__, _run; service.py start).
THEOREM StartsHeldBack == Spec => []HeldBack
<1>1. Init => HeldBack
  BY DEF Init, HeldBack
<1>2. TypeOK /\ IInv /\ RowInv /\ HeldBack /\ [Next]_vars => HeldBack'
  BY HeldBackStep DEF IInv
<1> QED BY <1>1, <1>2, TypeCorrect, Invariant, Rows, PTL DEF Spec

\* For every instance no job is started between a start over unknown rows and the operator's resume.
THEOREM StartsPaused == Spec => []InitialPause
<1>1. HeldBack => InitialPause
  BY DEF HeldBack, InitialPause
<1> QED BY <1>1, StartsHeldBack, PTL

\* Every step keeps Paused.
LEMMA PausedStep ==
  ASSUME TypeOK, Turns, RowInv, Ownership, HeldBack, Paused, [Next]_vars, Turns', Ownership'
  PROVE  Paused'
<1> USE DEF Paused, Goto, jobVars, saveVars, flagVars, linkVars, controlVars, outsideVars, workerVars, Busy,
            Restarting, Isolated, Quiet
<1>1. CASE DNext
  <2>1. CASE DSpawn \/ DNoWindow \/ DStarted
    BY <2>1 DEF DSpawn, DNoWindow, DStarted, Turns
  <2>2. CASE DInitialPause
    <3>1. active = NoRequest /\ wpc \in {"idle", "down"}
      BY <2>2 DEF DInitialPause, Turns, RowInv, ActiveBusy
    <3>2. ctl # "resuming" => ~resume_future
      BY <2>2 DEF DInitialPause
    <3> QED BY <2>2, <3>1, <3>2 DEF DInitialPause
  <2>3. CASE DRecover \/ DSweep \/ DSweepDone
    BY <2>3 DEF DRecover, DSweep, DSweepDone
  <2>4. CASE DChooseResume \/ DChooseReconnect \/ DChooseIdle \/ DChooseProbe
    BY <2>4 DEF DChooseResume, DChooseReconnect, DChooseIdle, DChooseProbe, Command
  <2>5. CASE DChooseDispatch
    BY <2>5 DEF DChooseDispatch
  <2>6. CASE DExit
    BY <2>6 DEF DExit, Command, Turns
  <2>7. CASE DReceive \/ DLost
    BY <2>7 DEF DReceive, DLost, Ownership, HeldBack
  <2>12. CASE DResumed
    <3>1. ~(human /\ paused) /\ owner_busy /\ (ctl # "resuming" => ~resume_future')
      BY <2>12 DEF DResumed
    <3>2. paused' => paused
      BY <2>12, Zenon DEF DResumed
    <3>3. /\ dpc' = "post"
          /\ UNCHANGED <<human, ctl, active, wpc, ready, failed, owner_busy>>
      BY <2>12 DEF DResumed
    <3> QED BY <3>1, <3>2, <3>3
  <2>8. CASE DExecuted \/ DPost \/ DStopAcked
    BY <2>8 DEF DExecuted, DPost, DStopAcked
  <2>9. CASE DJoin \/ DRestart \/ DRestartFails
    BY <2>9 DEF DJoin, DRestart, DRestartFails, Ownership
  <2>10. CASE DIsolate
    BY <2>10 DEF DIsolate
  <2>11. CASE DIsolateSave \/ DIsolateRecover \/ DDrain
    <3>1. failed => failed'
      <4>1. UpdateRecovery => (failed => failed')
        BY DEF UpdateRecovery, Answered
      <4> QED BY <2>11, <4>1 DEF DIsolateSave, DIsolateRecover, DDrain, Answered
    <3> QED BY <2>11, <3>1 DEF DIsolateSave, DIsolateRecover, DDrain
  <2> QED BY <1>1, <2>1, <2>2, <2>3, <2>4, <2>5, <2>6, <2>7, <2>8, <2>9, <2>10, <2>11, <2>12 DEF DNext
<1>2. CASE WNext
  <2>1. UNCHANGED <<dpc, active, paused, ready, owner_busy, failed, resume_future, ctl, human>>
    BY <1>2 DEF WNext
  <2>2. wpc \in {"idle", "stop", "down"} => wpc' \in {"idle", "stop", "down"}
    <3> SUFFICES ASSUME wpc \in {"idle", "stop", "down"} PROVE wpc' \in {"idle", "stop", "down"}
      OBVIOUS
    <3>1. WStop \/ WExit \/ WDie
      BY <1>2 DEF WNext, WStep, WStartup, WProbe, WResume, WReject, WQuery, WPrepareFails,
                    WPrepare, WStarted, WImport, WImportRejected, WArm, WKey, WCapture, WSubmitted, WConfirm,
                    WConfirmed, WNoDialog, WVerify, WCleanup, WFinish, At
    <3> QED BY <3>1 DEF WStop, WExit, WDie
  <2> QED BY <2>1, <2>2
<1>3. CASE HNext
  <2>1. UNCHANGED <<dpc, active, paused, ready, owner_busy, resume_future, ctl, human, wpc>>
    BY <1>3 DEF HNext, Arrive, SubmitDropped, SubmitStorage, SubmitReplay, SubmitReject, SubmitAdmit,
              SubmitNotSaved, Drop, Leave, Expire, Respond, InSubmit, HttpOnly
  <2>2. failed => failed'
    <3>1. \A i \in DOMAIN queue, c \in SkipCode : Discard(i, c) => (failed => failed')
      BY DEF Discard, Answered
    <3> QED BY <1>3, <3>1 DEF HNext, Arrive, SubmitDropped, SubmitStorage, SubmitReplay, SubmitReject,
              SubmitAdmit, SubmitNotSaved, Drop, Leave, Expire, Respond, InSubmit, Stored, SkipCode
  <2> QED BY <2>1, <2>2
<1>4. CASE CNext
  <2>1. CASE PauseCall \/ PauseFails
    BY <2>1 DEF PauseCall, PauseFails, ControlOnly
  <2>2. CASE PauseReturn
    <3>1. human' => /\ ctl' = "idle" /\ active = NoRequest /\ ~owner_busy /\ ready /\ ~failed
      BY <2>2 DEF PauseReturn
    <3>2. UNCHANGED <<dpc, active, paused, ready, owner_busy, failed, resume_future, wpc>>
      BY <2>2 DEF PauseReturn, ControlOnly
    <3>3. human' => dpc \in {"init", "loop", "sweep", "choose", "st_stop", "st_join", "isolate", "drain", "stopped"}
      BY <3>1 DEF TypeOK, ThreadTypeOK, ThreadPc
    <3>4. human' => wpc \in {"idle", "stop", "down"}
      BY <3>1, <3>3 DEF Turns, Ownership
    <3>5. ctl = "pausing"
      BY <2>2 DEF PauseReturn
    <3> QED BY <3>1, <3>2, <3>3, <3>4, <3>5
  <2>3. CASE ResumeCall
    BY <2>3 DEF ResumeCall, ControlOnly
  <2>4. CASE ResumeReturn \/ ResumeTimeout
    BY <2>4 DEF ResumeReturn, ResumeTimeout, ControlOnly
  <2> QED BY <1>4, <2>1, <2>2, <2>3, <2>4 DEF CNext
<1>5. CASE ENext
  <2>1. CASE Off \/ Boot
    BY <2>1 DEF Off, Boot
  <2>2. CASE Stop \/ RuntimeFail \/ Maintain
    BY <2>2 DEF Stop, RuntimeFail, Maintain
  <2>3. CASE \E r \in Request : Tick(r) \/ Age(r)
    BY <2>3 DEF Tick, Age
  <2> QED BY <1>5, <2>1, <2>2, <2>3 DEF ENext
<1>6. CASE UNCHANGED vars
  BY <1>6 DEF vars
<1> QED BY <1>1, <1>2, <1>3, <1>4, <1>5, <1>6 DEF Next

\* Only a resume, or the end of the service, takes back the flag of a successful pause.
LEMMA FlagFalls ==
  ASSUME Paused, [Next]_vars, human, paused, human'
  PROVE  paused'
<1> USE DEF jobVars, saveVars, flagVars, linkVars, controlVars, outsideVars, workerVars, Goto
<1>1. CASE DNext
  <2>1. dpc # "resumed"
    BY DEF Paused, Isolated
  <2>2. ~DResumed
    BY <2>1, Zenon DEF DResumed, Goto
  <2>3. CASE DInitialPause
    BY <2>3, Zenon DEF DInitialPause
  <2>4. CASE ~DInitialPause
    BY <1>1, <2>2, <2>4 DEF DNext, DSpawn, DNoWindow, DStarted, DRecover, DSweep, DSweepDone,
         DChooseResume, DChooseReconnect, DChooseIdle, DChooseProbe, DChooseDispatch, DReceive, DLost,
         DExecuted, DPost, DStopAcked, DJoin, DRestart, DRestartFails, DExit, DIsolate,
         DIsolateSave, DIsolateRecover, DDrain
  <2> QED BY <2>3, <2>4
<1>2. CASE WNext
  BY <1>2 DEF WNext
<1>3. CASE HNext
  BY <1>3 DEF HNext, Arrive, SubmitDropped, SubmitStorage, SubmitReplay, SubmitReject, SubmitAdmit,
              SubmitNotSaved, Drop, Leave, Expire, Respond, InSubmit, HttpOnly
<1>4. CASE CNext
  BY <1>4 DEF CNext, PauseCall, PauseReturn, PauseFails, ResumeCall, ResumeReturn, ResumeTimeout, ControlOnly
<1>5. CASE ENext
  BY <1>5 DEF ENext, Tick, Age, Stop, RuntimeFail, Maintain, Off, Boot
<1>6. CASE UNCHANGED vars
  BY <1>6 DEF vars
<1> QED BY <1>1, <1>2, <1>3, <1>4, <1>5, <1>6 DEF Next

\* For every instance, however slow the worker: as long as the flag of a pause that reported success
\* stands nobody but the operator drives the terminal, and it stands until the operator resumes (dispatch.py
\* pause, resume, _loop).  What a slow resume can break is only that the flag is set at all.
THEOREM PauseHolds == Spec => []PauseStands /\ PauseKept
<1>1. Init => Ownership /\ Paused
  BY DEF Init, ExecutorInit, Ownership, Paused, Busy, Restarting, Isolated
<1>2. TypeOK /\ IInv /\ Ownership /\ [Next]_vars => Ownership'
  BY OwnershipStep DEF IInv
<1>3. /\ TypeOK /\ IInv /\ IInv' /\ RowInv /\ Ownership /\ Ownership' /\ HeldBack /\ Paused /\ [Next]_vars
      => Paused'
  BY PausedStep DEF IInv
<1>4. Paused => PauseStands
  BY DEF Paused, PauseStands
<1>5. Paused /\ [Next]_vars => [human /\ paused /\ human' => paused']_vars
  BY FlagFalls
<1> QED BY <1>1, <1>2, <1>3, <1>4, <1>5, TypeCorrect, Invariant, Rows, StartsHeldBack, PTL DEF Spec, PauseKept

\* What a caller of a write was told stands (AnswerStands).  The started job is followed to its answer: the
\* isolation of a worker that is still at work tells only what that worker will reply, or that it is unknown.

\* A step of the worker's write, with the request r, keeps its reply and settles no effect it is not sure of.
Settles(r) ==
  /\ db'[r].reply = db[r].reply
  /\ \A e \in {"submitted", "rejected"} :
       /\ db'[r].effect = e => db[r].effect = e \/ Certain(e)'
       /\ Certain(e) => Certain(e)'

\* A save before the outcome is read settles nothing; a save of "submitted" is the end of the reading.
LEMMA SaveSettles ==
  ASSUME TypeOK, NEW p \in Phase, NEW e \in {"none", "unknown", "submitted"}, NEW n, Save(p, e, n),
         steps.request \in Request, wpc \notin {"cleanup", "finish"},
         wpc = "verify" => e = "submitted",
         e = "submitted" => n = "verify"
  PROVE  Settles(steps.request)
<1> DEFINE r == steps.request
<1>1. /\ steps'.effect = IF e = "none" THEN steps.effect ELSE e
      /\ wpc' \in {n, "cleanup"}
      /\ db'[r] = db[r] \/ db'[r] = SaveRow(db[r], p, e)
  BY SaveFrame DEF Effect
<1>2. db[r] \in Row /\ e \in Effect
  BY DEF TypeOK, Effect
<1>3. db'[r].reply = db[r].reply /\ (db'[r].effect = db[r].effect \/ (e # "none" /\ db'[r].effect = e))
  BY <1>1, <1>2, SaveRowFacts
<1> HIDE DEF r
<1>4. e = "submitted" => Certain("submitted")'
  BY <1>1 DEF Certain
<1>5. ~Certain("rejected") /\ (Certain("submitted") => e = "submitted")
  BY DEF Certain
<1> QED BY <1>3, <1>4, <1>5 DEF Settles, r

\* An error ends the step with the effect it had.
LEMMA TroubleSettles ==
  ASSUME TypeOK, Trouble \/ Unproven \/ \E c \in ErrorCode : Raise(c, exec), wpc \notin {"cleanup", "finish"}
  PROVE  Settles(steps.request)
<1>1. steps'.effect = steps.effect /\ UNCHANGED db /\ wpc' = "cleanup"
  BY TroubleFrame
<1>2. ~Certain("rejected") /\ (Certain("submitted") => Certain("submitted")')
  BY <1>1 DEF Certain
<1> QED BY <1>1, <1>2 DEF Settles

\* Every step of a write settles only what its reply will say.
LEMMA WritingSettles ==
  ASSUME TypeOK, Writing, steps.request \in Request
  PROVE  Settles(steps.request)
<1> DEFINE r == steps.request
<1> USE DEF At
<1>0. ASSUME wpc \notin {"verify", "cleanup", "finish"}, UNCHANGED db PROVE Settles(r)
  BY <1>0 DEF Settles, Certain
<1>1. CASE WPrepareFails \/ WKey \/ WConfirm
  BY <1>0, <1>1 DEF WPrepareFails, WKey, WConfirm
<1>2. CASE WPrepare
  BY <1>2, SaveSettles, TroubleSettles DEF WPrepare, Phase, ErrorCode
<1>3. CASE WStarted \/ WImport \/ WArm
  BY <1>3, SaveSettles, TroubleSettles DEF WStarted, WImport, WArm, Phase
<1>4. CASE WImportRejected
  <2>1. PICK o \in Storage : db' = Commit(o, db, SavePhase(db, r, "rejected", "rejected"))
    BY <1>4 DEF WImportRejected
  <2>2. db[r] \in Row /\ (db'[r] = db[r] \/ db'[r] = SaveRow(db[r], "rejected", "rejected"))
    BY <2>1 DEF Commit, SavePhase, TypeOK
  <2>3. db'[r].reply = db[r].reply /\ (db'[r].effect = db[r].effect \/ db'[r].effect = "rejected")
    BY <2>2, SaveRowFacts DEF Effect
  <2>4. steps'.effect = "rejected" /\ steps'.error # "NONE" /\ wpc' = "cleanup" /\ wpc = "importing"
    BY <1>4 DEF WImportRejected, TypeOK, WorkerTypeOK
  <2>5. Certain("rejected")' /\ \A e \in {"submitted", "rejected"} : ~Certain(e)
    BY <2>4 DEF Certain
  <2> QED BY <2>3, <2>5 DEF Settles
<1>5. CASE WCapture \/ WSubmitted
  BY <1>5, SaveSettles, TroubleSettles DEF WCapture, WSubmitted, Phase
<1>6. CASE WConfirmed
  BY <1>6, SaveSettles DEF WConfirmed, Phase
<1>7. CASE WNoDialog
  <2>1. CASE UNCHANGED db
    BY <1>0, <1>7, <2>1 DEF WNoDialog
  <2>2. CASE Trouble \/ Raise("GUI_UNRESPONSIVE", exec)
    BY <1>7, <2>2, TroubleSettles DEF WNoDialog, ErrorCode
  <2> QED BY <1>7, <2>1, <2>2 DEF WNoDialog
<1>8. CASE WVerify
  <2>1. CASE wpc' = "cleanup" /\ UNCHANGED <<db, steps>>
    <3>1. ~Certain("rejected") /\ (Certain("submitted") => Certain("submitted")')
      BY <1>8, <2>1 DEF WVerify, Certain
    <3> QED BY <2>1, <3>1 DEF Settles
  <2>2. CASE Trouble \/ Unproven
    BY <1>8, <2>2, TroubleSettles DEF WVerify
  <2>3. CASE Save("cancel_observed", "submitted", "verify")
    BY <1>8, <2>3, SaveSettles DEF WVerify, Phase
  <2> QED BY <1>8, <2>1, <2>2, <2>3 DEF WVerify
<1>9. CASE WCleanup
  <2>1. PICK end \in CleanupEnds :
          /\ steps' = [steps EXCEPT !.error = end[1]]
          /\ wreply' = IF end[1] = "NONE" THEN [code |-> "ACCEPTED", effect |-> "submitted"]
                       ELSE [code |-> end[1], effect |-> steps.effect]
    BY <1>9 DEF WCleanup
  <2>2. end[1] = "NONE" => steps.error = "NONE"
    BY DEF CleanupEnds
  <2>3. /\ steps'.effect = steps.effect /\ steps'.error = end[1]
        /\ wpc = "cleanup" /\ wpc' = "finish" /\ UNCHANGED db
    BY <1>9, <2>1 DEF WCleanup, TypeOK, WorkerTypeOK
  <2>4. wreply'.effect = IF end[1] = "NONE" THEN "submitted" ELSE steps.effect
    BY <2>1
  <2>5. \A e \in {"submitted", "rejected"} : Certain(e) => Certain(e)'
    BY <2>2, <2>3, <2>4 DEF Certain
  <2> QED BY <2>3, <2>5 DEF Settles
<1> QED BY <1>1, <1>2, <1>3, <1>4, <1>5, <1>6, <1>7, <1>8, <1>9 DEF Writing

\* Where the started write and its worker come from when the worker is at work after a step.
LEMMA AtWorkStep ==
  ASSUME TypeOK, Turns, Jobs, [Next]_vars, wpc' \in AtWork, active' # NoRequest, ~DChooseDispatch
  PROVE  /\ active' = active /\ active \in Request /\ steps.request = active
         /\ wpc \in AtWork /\ dpc \in {"executing"} \cup Isolated
         /\ dpc \in GivenUp => dpc' \in GivenUp
         /\ WNext => WExit \/ Writing
         /\ ~WNext => UNCHANGED <<wpc, steps, wreply>>
<1>1. active' = active /\ (dpc \in GivenUp => dpc' \in GivenUp)
  BY ActiveFrame
<1>2. wpc \in AtWork /\ (~WNext => UNCHANGED <<wpc, steps, wreply>>)
  BY WorkFrame, OtherFrame
<1>3. active \in Request /\ steps.request = active /\ dpc \in {"executing"} \cup Isolated
  BY <1>2 DEF Turns
<1>4. WNext => WExit \/ Writing
  <2>1. ~(WStartup \/ WProbe \/ WResume \/ WStop)
    <3>1. wpc \notin {"boot", "probe", "resume", "stop"}
      BY <1>2 DEF AtWork, BeforeKey, Reading
    <3>2. WStartup \/ WProbe \/ WResume \/ WStop => wpc \in {"boot", "probe", "resume", "stop"}
      BY Zenon DEF WStartup, WProbe, WResume, WStop
    <3> QED BY <3>1, <3>2
  <2>2. ~(WDie \/ WReject \/ WQuery \/ WFinish)
    BY DEF WDie, WReject, WQuery, WFinish, Send, AtWork, BeforeKey, Reading
  <2> QED BY <2>1, <2>2 DEF WNext, WStep, Writing
<1> QED BY <1>1, <1>2, <1>3, <1>4

\* Only the save of the isolation gives up a job whose worker may be at work.
LEMMA GivenUpStep ==
  ASSUME [Next]_vars, dpc \in {"executing", "isolate", "isolate_save"}, dpc' \in GivenUp
  PROVE  DIsolateSave
<1> USE DEF Goto, GivenUp
<1>1. CASE DNext
  BY <1>1 DEF DNext, DSpawn, DNoWindow, DStarted, DInitialPause, DRecover, DSweep, DSweepDone,
         DChooseResume, DChooseReconnect, DChooseIdle, DChooseProbe, DChooseDispatch, DReceive, DLost,
         DResumed, DExecuted, DPost, DStopAcked, DJoin, DRestart, DRestartFails, DExit, DIsolate,
         DIsolateRecover, DDrain
<1>2. CASE Off \/ Boot
  BY <1>2 DEF Off, Boot
<1> QED BY <1>1, <1>2, OutsideFrame

\* What that save does to the started job.
LEMMA GivenUpRow ==
  ASSUME TypeOK, DIsolateSave, active \in Request
  PROVE  \E o \in Storage :
           /\ db'[active] \in {db[active], FinishRow(db[active], pending)}
           /\ future'[active] = IF future[active] = NoReply THEN Told(active, pending, o) ELSE future[active]
<1> DEFINE V == {active} \ {NoRequest}
<1>1. active \in V
  BY NoRequestAssumption
<1>2. PICK o \in [V -> Storage] : Answered(V, [q \in V |-> pending], o)
  BY DEF DIsolateSave
<1>3. [q \in V |-> pending][active] = pending /\ o[active] \in Storage
  BY <1>1
<1>4. future'[active] = IF future[active] = NoReply THEN Told(active, pending, o[active]) ELSE future[active]
  BY <1>1, <1>2, <1>3 DEF Answered
<1>5. db'[active] \in {db[active], FinishRow(db[active], pending)}
  BY <1>1, <1>2, <1>3 DEF Answered, Commit
<1> QED BY <1>3, <1>4, <1>5

\* The row of the started job while its worker is at work.
LEMMA AtWorkRow ==
  ASSUME TypeOK, Turns, Jobs, [Next]_vars, wpc' \in AtWork, active' # NoRequest, ~DChooseDispatch
  PROVE  SameRow(active) \/ db'[active] = NoRow \/ (WNext /\ Writing /\ Settles(active)) \/ DIsolateSave
<1>1. /\ active' = active /\ active \in Request /\ steps.request = active
      /\ wpc \in AtWork /\ dpc \in {"executing"} \cup Isolated
      /\ WNext => WExit \/ Writing
  BY AtWorkStep
<1>2. CASE WNext
  <2>1. WExit => SameRow(active)
    BY DEF WExit, SameRow
  <2>2. Writing => Settles(active)
    BY <1>1, WritingSettles
  <2> QED BY <1>1, <1>2, <2>1, <2>2
<1>3. CASE ~WNext
  <2>1. Forgotten(active) => db'[active] = NoRow
    BY DEF Forgotten
  <2>2. ~Inserted(active)
    BY <1>1 DEF Inserted, InSubmit, Jobs, Untouched
  <2>3. ~Skipped(active)
    BY <1>1 DEF Skipped, Left, Jobs
  <2>4. Closed(active) => DIsolateSave
    BY <1>1, GivenUpStep, NoRequestAssumption DEF Closed, Close, GivenUp, Isolated
  <2>5. ~Recovered(active)
    BY <1>1 DEF Recovered, Boot, Isolated
  <2>6. ~Written(active)
    BY <1>3 DEF Written
  <2> QED BY <1>1, <2>1, <2>2, <2>3, <2>4, <2>5, <2>6, RowSteps DEF RowStep
<1> QED BY <1>2, <1>3

\* What the isolation is about to save is doubtful while the worker is at work.
LEMMA PendingStep ==
  ASSUME TypeOK, Turns, Jobs, Unanswered, [Next]_vars, wpc' \in AtWork, active' \in WRITE_ACTIONS,
         dpc' = "isolate_save"
  PROVE  /\ Doubtful(pending')
         /\ \A e \in {"submitted", "rejected"} :
              pending'.effect = e => db[active].effect = e \/ (dpc = "isolate_save" /\ pending.effect = e)
<1>0. active' # NoRequest /\ ~DChooseDispatch
  BY NoRequestAssumption DEF WRITE_ACTIONS, DChooseDispatch, Goto
<1>1. active' = active /\ wpc \in AtWork
  BY <1>0, AtWorkStep
<1>2. CASE dpc = "isolate_save" /\ pending' = pending
  BY <1>1, <1>2 DEF Unanswered
<1>3. CASE DIsolate
  <2>1. dpc = "isolate" /\ db[active].reply = NoReply
    BY <1>1, <1>3 DEF DIsolate, Goto, Unanswered, GivenUp
  <2>2. pending' \in {Interrupted(db, active), [code |-> "STORAGE_UNAVAILABLE", effect |-> "unknown"]}
    BY <1>1, <1>3 DEF DIsolate
  <2>3. Interrupted(db, active) =
          [code |-> "OPERATION_STATUS_UNKNOWN",
           effect |-> IF db[active].effect \in {"submitted", "rejected"} THEN db[active].effect ELSE "unknown"]
    BY <2>1 DEF Interrupted
  <2> QED BY <2>2, <2>3 DEF Doubtful
<1>4. WNext => dpc' = dpc /\ pending' = pending
  BY DEF WNext, linkVars
<1> QED BY <1>2, <1>3, <1>4, OtherFrame

\* What the thread tells of the started job as it gives it up is what it was about to save.
LEMMA ToldStep ==
  ASSUME TypeOK, Turns, Jobs, RowInv, Unanswered, [Next]_vars, wpc' \in AtWork, active' \in WRITE_ACTIONS,
         dpc' \in GivenUp
  PROVE  \/ dpc \in GivenUp /\ future'[active] = future[active]
         \/ dpc = "isolate_save" /\ \E o \in Storage : future'[active] = Told(active, pending, o)
<1>0. active' # NoRequest /\ ~DChooseDispatch
  BY NoRequestAssumption DEF WRITE_ACTIONS, DChooseDispatch, Goto, GivenUp
<1>1. active' = active /\ active \in Request /\ wpc \in AtWork /\ dpc \in {"executing"} \cup Isolated
  BY <1>0, AtWorkStep
<1>2. CASE dpc \in GivenUp
  <2>1. ~Left(active)
    BY DEF Left, Jobs
  <2>2. ~Close
    BY <1>2 DEF Close, GivenUp
  <2> QED BY <1>1, <1>2, <2>1, <2>2, FutureStep
<1>3. CASE dpc \notin GivenUp
  <2>1. DIsolateSave
    BY <1>1, <1>3, GivenUpStep DEF Isolated, GivenUp
  <2>2. dpc = "isolate_save"
    BY <2>1 DEF DIsolateSave, Goto
  <2>3. future[active] = NoReply
    BY <1>0, <1>1, <2>2 DEF Unanswered
  <2> QED BY <1>1, <2>1, <2>2, <2>3, GivenUpRow
<1> QED BY <1>2, <1>3

\* Every step keeps Unanswered, whenever the worker is given up.
LEMMA UnansweredStep ==
  ASSUME TypeOK, Turns, Jobs, RowInv, Unanswered, [Next]_vars
  PROVE  Unanswered'
<1>1. ASSUME dpc' \in Busy \cup {"isolate", "isolate_save"}, active' # NoRequest
      PROVE  future'[active'] = NoReply
  <2>1. CASE DChooseDispatch
    <3>1. active' \in Queued /\ future' = future
      BY <2>1, DispatchFrame DEF Kept
    <3> QED BY <3>1 DEF RowInv, QueueRows
  <2>2. CASE ~DChooseDispatch
    <3>1. active' = active /\ (dpc \in Busy \cup Isolated => dpc \in Busy \cup {"isolate", "isolate_save"})
      BY <1>1, <2>2, ActiveFrame
    <3>2. active \in Request /\ active # NoRequest
      BY <1>1, <3>1 DEF TypeOK, JobTypeOK
    <3>3. future[active] = NoReply
      BY <3>1, <3>2 DEF RowInv, ActiveBusy, Unanswered
    <3>4. ~Left(active)
      BY DEF Left, Jobs
    <3>5. ~Close
      BY <1>1, <3>1, <3>2 DEF Close, Busy
    <3> QED BY <3>1, <3>2, <3>3, <3>4, <3>5, FutureStep
  <2> QED BY <2>1, <2>2
<1> SUFFICES ASSUME wpc' \in AtWork, active' \in WRITE_ACTIONS
             PROVE  /\ dpc' \notin GivenUp => db'[active'].reply = NoReply
                    /\ dpc' = "isolate_save" => Doubtful(pending')
                    /\ dpc' \in GivenUp => Doubtful(future'[active'])
  BY <1>1 DEF Unanswered
<1>0. active' # NoRequest
  BY NoRequestAssumption DEF WRITE_ACTIONS
<1>2. dpc' \notin GivenUp => db'[active'].reply = NoReply
  <2>1. CASE DChooseDispatch
    <3>1. active' \in Queued /\ db' = db
      BY <2>1, DispatchFrame DEF Kept
    <3> QED BY <3>1 DEF RowInv, QueueRows
  <2>2. CASE ~DChooseDispatch /\ dpc' \notin GivenUp
    <3>1. active' = active /\ wpc \in AtWork /\ dpc \notin GivenUp
      BY <1>0, <2>2, AtWorkStep
    <3>2. db[active].reply = NoReply
      BY <3>1 DEF Unanswered
    <3>3. ~DIsolateSave
      BY <2>2 DEF DIsolateSave, Goto, GivenUp
    <3> QED BY <1>0, <2>2, <3>1, <3>2, <3>3, AtWorkRow DEF SameRow, Settles, NoRow
  <2> QED BY <2>1, <2>2
<1>3. dpc' = "isolate_save" => Doubtful(pending')
  BY PendingStep
<1>4. dpc' \in GivenUp => Doubtful(future'[active'])
  <2> SUFFICES ASSUME dpc' \in GivenUp PROVE Doubtful(future'[active'])
    OBVIOUS
  <2>1. active' = active /\ wpc \in AtWork
    BY <1>0, AtWorkStep DEF DChooseDispatch, Goto, GivenUp
  <2>2. dpc = "isolate_save" => Doubtful(pending)
    BY <2>1 DEF Unanswered
  <2>3. \A o \in Storage : Doubtful(pending) => Doubtful(Told(active, pending, o))
    BY DEF Told, Doubtful
  <2>4. dpc \in GivenUp => Doubtful(future[active])
    BY <2>1 DEF Unanswered
  <2> QED BY <2>1, <2>2, <2>3, <2>4, ToldStep
<1> QED BY <1>2, <1>3, <1>4

\* Every step keeps KnownEffect.
LEMMA KnownEffectStep ==
  ASSUME TypeOK, Turns, Jobs, RowInv, Unanswered, KnownEffect, [Next]_vars
  PROVE  KnownEffect'
<1> SUFFICES ASSUME wpc' \in AtWork, active' \in WRITE_ACTIONS, NEW e \in {"submitted", "rejected"},
                    \/ db'[active'].effect = e
                    \/ dpc' = "isolate_save" /\ pending'.effect = e
                    \/ dpc' \in GivenUp /\ future'[active'].effect = e
             PROVE  Certain(e)'
  BY DEF KnownEffect
<1>0. active' # NoRequest
  BY NoRequestAssumption DEF WRITE_ACTIONS
<1>1. ~DChooseDispatch
  <2> SUFFICES ASSUME DChooseDispatch PROVE FALSE
    OBVIOUS
  <2>1. active' \in Queued /\ db' = db /\ dpc' = "executing"
    BY DispatchFrame DEF Kept
  <2>2. db[active'].effect = "none"
    BY <2>1 DEF RowInv, QueueRows
  <2> QED BY <2>1, <2>2 DEF GivenUp
<1>2. /\ active' = active /\ active \in Request /\ wpc \in AtWork
      /\ WNext => WExit \/ Writing
      /\ ~WNext => UNCHANGED <<wpc, steps, wreply>>
  BY <1>0, <1>1, AtWorkStep
<1> DEFINE known == \/ db[active].effect = e
                    \/ dpc = "isolate_save" /\ pending.effect = e
                    \/ dpc \in GivenUp /\ future[active].effect = e
<1>3. known => Certain(e)
  BY <1>2 DEF KnownEffect
<1>4. dpc' = "isolate_save" /\ pending'.effect = e => known
  BY <1>2, PendingStep
<1>5. dpc' \in GivenUp /\ future'[active'].effect = e => known
  <2>1. \A o \in Storage : Told(active, pending, o).effect = pending.effect
    BY DEF Told
  <2> QED BY <1>2, <2>1, ToldStep
<1>6. db'[active'].effect = e => known \/ (WNext /\ Writing /\ Certain(e)')
  <2>1. CASE DIsolateSave
    <3>1. dpc = "isolate_save" /\ db'[active] \in {db[active], FinishRow(db[active], pending)}
      BY <1>2, <2>1, GivenUpRow DEF DIsolateSave, Goto
    <3>2. FinishRow(db[active], pending).effect \in {db[active].effect, pending.effect}
      BY DEF FinishRow
    <3> QED BY <1>2, <3>1, <3>2
  <2>2. CASE ~DIsolateSave
    BY <1>0, <1>1, <1>2, <2>2, AtWorkRow DEF SameRow, Settles, NoRow
  <2> QED BY <2>1, <2>2
<1> HIDE DEF known
<1>7. known => Certain(e)'
  <2>1. CASE WNext /\ Writing
    <3>1. Settles(active)
      BY <1>2, <2>1, WritingSettles, AtWorkStep, <1>0, <1>1
    <3> QED BY <1>3, <3>1 DEF Settles
  <2>2. CASE ~(WNext /\ Writing)
    <3>1. UNCHANGED <<wpc, steps, wreply>>
      BY <1>2, <2>2 DEF WExit
    <3> QED BY <1>3, <3>1 DEF Certain
  <2> QED BY <2>1, <2>2
<1> QED BY <1>4, <1>5, <1>6, <1>7

\* A saved answer is the one that is told.
LEMMA AnsweredSaved ==
  ASSUME TypeOK, NEW V \in SUBSET Request, NEW R \in [V -> Reply], NEW o \in [V -> Storage], Answered(V, R, o),
         NEW r \in V, r \in WRITE_ACTIONS, future[r] = NoReply,
         future'[r].code # "STORAGE_UNAVAILABLE", db'[r].phase # "absent"
  PROVE  db'[r].reply = future'[r]
<1>1. r \in Request
  OBVIOUS
<1>2. future'[r] = Told(r, R[r], o[r]) /\ db'[r] = Commit(o[r], db[r], FinishRow(db[r], R[r]))
  BY <1>1 DEF Answered
<1>3. o[r] = "ok"
  BY <1>2 DEF Told
<1>4. future'[r] = R[r] /\ db'[r] = FinishRow(db[r], R[r])
  BY <1>2, <1>3 DEF Told, Commit
<1> QED BY <1>4 DEF FinishRow

\* What r's caller was told agrees with the reply in r's row.
Agrees(told, reply) ==
  \/ reply = told
  \/ told.code = "OPERATION_STATUS_UNKNOWN" /\ told.effect \in {"unknown", reply.effect} \ {"none"}

\* A worker that writes the reply of a job its thread has answered agrees with that answer.
LEMMA LateReply ==
  ASSUME TypeOK, Turns, Unanswered, KnownEffect, NEW r \in WRITE_ACTIONS, Written(r),
         future[r] # NoReply, future[r].code # "STORAGE_UNAVAILABLE", Agrees(future[r], db[r].reply)
  PROVE  Agrees(future[r], db'[r].reply)
<1>1. r \in Request /\ wpc \in AtWork /\ active = r /\ steps.request = r /\ dpc \in {"executing"} \cup Isolated
  BY DEF Written, Turns, WRITE_ACTIONS
<1>2. dpc \in GivenUp
  BY <1>1, NoRequestAssumption DEF Unanswered, Busy, GivenUp, Isolated
<1>3. future[r].code = "OPERATION_STATUS_UNKNOWN" /\ future[r].effect # "none"
  BY <1>1, <1>2 DEF Unanswered, Doubtful
<1>4. CASE db'[r].reply = db[r].reply
  BY <1>4
<1>5. CASE wpc = "finish" /\ db'[r].reply = wreply
  <2>1. future[r].effect \in Effect
    BY <1>1 DEF TypeOK, JobTypeOK, Reply
  <2>2. \A e \in {"submitted", "rejected"} : future[r].effect = e => wreply.effect = e
    BY <1>1, <1>2, <1>5 DEF KnownEffect, Certain
  <2> QED BY <1>3, <1>5, <2>1, <2>2 DEF Effect, Agrees
<1>6. CASE Writing
  BY <1>1, <1>4, <1>6, WritingSettles DEF Settles
<1>7. CASE WFinish
  <2>1. PICK o \in Storage : db' = Commit(o, db, Finish(db, r, wreply))
    BY <1>1, <1>7 DEF WFinish
  <2>2. db'[r] = db[r] \/ db'[r] = FinishRow(db[r], wreply)
    BY <1>1, <2>1 DEF Commit, Finish, TypeOK
  <2>3. FinishRow(db[r], wreply).reply \in {db[r].reply, wreply}
    BY DEF FinishRow
  <2> QED BY <1>4, <1>5, <1>7, <2>2, <2>3 DEF WFinish, At
<1>8. CASE WStartup \/ WProbe \/ WResume \/ WStop \/ WExit \/ WDie \/ WReject \/ WQuery
  <2>1. db' = db
    BY <1>8, Zenon DEF WStartup, WProbe, WResume, WStop, WExit, WDie, WReject, WQuery
  <2> QED BY <1>4, <2>1
<1> QED BY <1>6, <1>7, <1>8 DEF Written, WNext, WStep, Writing

\* Every step keeps AnswerStands.
LEMMA AnswerStandsStep ==
  ASSUME TypeOK, Turns, Jobs, RowInv, Unanswered, KnownEffect, AnswerStands, [Next]_vars
  PROVE  AnswerStands'
<1> SUFFICES ASSUME NEW r \in WRITE_ACTIONS, future'[r] # NoReply, future'[r].code # "STORAGE_UNAVAILABLE",
                    db'[r].phase # "absent"
             PROVE  Agrees(future'[r], db'[r].reply)
  BY DEF AnswerStands, Agrees
<1>0. r \in Request /\ QueueRows
  BY DEF WRITE_ACTIONS, RowInv
<1>1. CASE Skip /\ Left(r) /\ future'[r] # future[r]
  <2>1. PICK V \in SUBSET Queued, c \in SkipCode : \E o \in [V -> Storage] :
          Answered(V, [q \in V |-> NotRun(c)], o)
    BY <1>1 DEF Skip
  <2>2. PICK o \in [V -> Storage] : Answered(V, [q \in V |-> NotRun(c)], o)
    BY <2>1
  <2>3. [q \in V |-> NotRun(c)] \in [V -> Reply]
    BY NotRunType DEF SkipCode, ReplyCode, ErrorCode
  <2>4. r \in V /\ future[r] = NoReply
    BY <1>0, <1>1, <2>2 DEF Answered
  <2>5. V \in SUBSET Request
    BY DEF Queued, ToSet, TypeOK, JobTypeOK
  <2> QED BY <2>2, <2>3, <2>4, <2>5, AnsweredSaved DEF Agrees
<1>2. CASE Close /\ active = r /\ future'[r] # future[r]
  <2>1. PICK reply \in Reply, o \in [{active} -> Storage] : Answered({active}, [q \in {active} |-> reply], o)
    BY <1>2 DEF Close
  <2>2. future[r] = NoReply
    BY <1>0, <1>2, <2>1 DEF Answered
  <2>3. [q \in {active} |-> reply] \in [{active} -> Reply] /\ {active} \in SUBSET Request /\ r \in {active}
    BY <1>0, <1>2
  <2> QED BY <2>1, <2>2, <2>3, AnsweredSaved DEF Agrees
<1>3. CASE future'[r] = future[r]
  <2>1. db[r].phase # "absent" => Agrees(future[r], db[r].reply)
    BY <1>3 DEF AnswerStands, Agrees
  <2>2. CASE SameRow(r)
    BY <1>3, <2>1, <2>2 DEF SameRow
  <2>3. ~Forgotten(r)
    BY DEF Forgotten, NoRow
  <2>4. ~Inserted(r)
    BY <1>0, <1>3 DEF Inserted, InSubmit, Jobs, Untouched
  <2>5. ~Skipped(r)
    BY <1>0, <1>3 DEF Skipped, Left, QueueRows
  <2>6. ~Closed(r)
    BY <1>0, <1>3, NoRequestAssumption DEF Closed, Close, Unanswered, Busy
  <2>7. CASE Written(r)
    <3>1. db[r].phase # "absent"
      BY <2>7 DEF Written
    <3> QED BY <1>3, <2>1, <2>7, <3>1, LateReply
  <2>8. CASE Recovered(r)
    <3>1. db[r].phase # "absent"
      BY <1>0, <2>8, RecoverRow DEF Recovered
    <3>2. CASE db[r].reply = NoReply
      <4>1. future[r].code = "OPERATION_STATUS_UNKNOWN" /\ future[r].effect = "unknown"
        BY <1>3, <2>1, <3>1, <3>2 DEF Agrees, NoReply
      <4> QED BY <1>3, <4>1 DEF Agrees
    <3>3. CASE db[r].reply # NoReply
      <4>1. Recover(db)[r] \in {db[r], NoRow}
        BY <1>0, <3>3 DEF Recover, Prune
      <4> QED BY <1>3, <2>1, <2>8, <3>1, <4>1 DEF Recovered, NoRow
    <3> QED BY <3>2, <3>3
  <2> QED BY <1>0, <2>2, <2>3, <2>4, <2>5, <2>6, <2>7, <2>8, RowSteps DEF RowStep
<1> QED BY <1>0, <1>1, <1>2, <1>3, FutureStep

\* For every instance, however late the worker is: what the first caller of a write was told is what its row
\* replays to a later one; only "status unknown" may be replaced, by the reply of a worker that was given up
\* and finished after all, and an effect named then stands (dispatch.py _finish and _run, journal.py finish).
THEOREM AnswersStand == Spec => []AnswerStands
<1>1. Init => Unanswered /\ KnownEffect /\ AnswerStands
  BY DEF Init, ExecutorInit, Unanswered, KnownEffect, AnswerStands, AtWork, BeforeKey, Reading, WRITE_ACTIONS
<1>2. TypeOK /\ IInv /\ RowInv /\ Unanswered /\ KnownEffect /\ AnswerStands /\ [Next]_vars
      => Unanswered' /\ KnownEffect' /\ AnswerStands'
  BY UnansweredStep, KnownEffectStep, AnswerStandsStep DEF IInv
<1> QED BY <1>1, <1>2, TypeCorrect, Invariant, Rows, PTL DEF Spec

=============================================================================
