------------------------------ MODULE Journal ------------------------------
(***************************************************************************)
(* The anti-resend journal (cn_futures_bridge/journal.py): one SQLite row  *)
(* per admitted write.  Every method runs in one transaction under a file  *)
(* lock, so each is an operator from the table before it to the table      *)
(* after it; the callers' actions decide whether the commit happened.      *)
(*                                                                         *)
(* Abstractions.  A request id is an element of Request, its idempotency   *)
(* key KeyOf, its parameter fingerprint PrintOf.  A reply keeps its code   *)
(* and its submission_status.  The age of a row is one bit: `aged' once    *)
(* `updated' is older than the TTL.  SQL NULL is "none".                   *)
(***************************************************************************)
EXTENDS Naturals, FiniteSets

CONSTANTS
  Request,   \* request ids; every HTTP call has its own
  Kind,      \* [Request -> {"order", "cancel", "query"}]
  KeyOf,     \* [Request -> idempotency keys and NoKey]
  NoKey,     \* the request carries no Idempotency-Key header
  PrintOf,   \* [Request -> parameter fingerprints]
  Storage    \* how a journal transaction may end

Outcomes == {"ok", "lost", "late"}

ASSUME StorageAssumption == Storage \subseteq Outcomes /\ "ok" \in Storage

ASSUME KindAssumption == Kind \in [Request -> {"order", "cancel", "query"}]

Effect == {"none", "unknown", "submitted", "rejected"}

Phase == {"absent", "queued", "started", "importing", "parameters_verified",
          "submitting", "identity_captured", "submitted", "rejected",
          "cancel_observed", "finished"}

\* Codes of the errors that the control flow tells apart.  REFUSED stands for
\* the rejections that concern one request only (ORDER_REJECTED, ORDER_NOT_FOUND,
\* ORDER_IDENTITY_AMBIGUOUS, TERMINAL_DATA_INVALID, price errors...), GUI_UNRESPONSIVE
\* also for GUI_RESET_FAILED, RUNTIME for the errors of the desktop runtime.
ErrorCode == {"NONE", "CONNECTION_FAILED", "CONNECTION_LOST", "SERVICE_NOT_READY",
              "GUI_UNRESPONSIVE", "STORAGE_UNAVAILABLE", "REFUSED",
              "OPERATION_STATUS_UNKNOWN", "RUNTIME"}

ReplyCode == ErrorCode \cup {"ACCEPTED", "QUEUE_TIMEOUT", "REQUEST_CANCELLED", "QUEUE_FULL",
              "REQUEST_INTERRUPTED", "OPERATION_IN_PROGRESS", "IDEMPOTENCY_CONFLICT"}

Reply == [code : ReplyCode, effect : Effect]

NoReply == [code |-> "NONE", effect |-> "none"]

Row == [phase : Phase, effect : Effect, reply : Reply, aged : BOOLEAN]

NoRow == [phase |-> "absent", effect |-> "none", reply |-> NoReply, aged |-> FALSE]

WRITE_ACTIONS == {r \in Request : Kind[r] # "query"}

VARIABLE db      \* [Request -> Row], the table on disk

(***************************************************************************)
(* A transaction (Journal._db) ends in one of three ways: committed;       *)
(* rolled back, raising STORAGE_UNAVAILABLE ("lost"); or committed before  *)
(* the checkpoint or the size check raises STORAGE_UNAVAILABLE ("late").   *)
(***************************************************************************)
Commit(o, before, after) == IF o = "lost" THEN before ELSE after

\* The row holding r's idempotency key; UNIQUE(namespace, key_hash) allows one.
Holders(d, r) ==
  {q \in Request : KeyOf[r] # NoKey /\ KeyOf[q] = KeyOf[r] /\ d[q].phase # "absent"}

\* What lookup answers a request whose key row q already holds.
Replay(d, r, q) ==
  [of |-> q,
   reply |-> IF PrintOf[q] # PrintOf[r] THEN [code |-> "IDEMPOTENCY_CONFLICT", effect |-> "none"]
             ELSE IF d[q].reply # NoReply THEN d[q].reply
             ELSE [code |-> "OPERATION_IN_PROGRESS", effect |-> "none"]]

\* Mutant of Prunable: unknown outcomes expire like the others.
PrunableAny(row) == row.phase = "finished" /\ row.aged

Prunable(row) == row.phase = "finished" /\ row.effect # "unknown" /\ row.aged

Prune(d) == [q \in Request |-> IF Prunable(d[q]) THEN NoRow ELSE d[q]]

Admit(d, r) == [Prune(d) EXCEPT ![r] = [NoRow EXCEPT !.phase = "queued"]]

\* UPDATE ... SET phase=?, effect=COALESCE(?, effect); the caller checks that the
\* row exists (rowcount = 1), else the statement changes nothing and it raises.
SaveRow(row, phase, effect) ==
  IF row.phase = "absent" THEN row
  ELSE [row EXCEPT !.phase = phase,
                   !.effect = IF effect = "none" THEN @ ELSE effect,
                   !.aged = FALSE]

SavePhase(d, r, phase, effect) == [d EXCEPT ![r] = SaveRow(@, phase, effect)]

FinishRow(row, reply) ==
  IF row.phase = "absent" THEN row
  ELSE [phase |-> "finished", effect |-> reply.effect, reply |-> reply, aged |-> FALSE]

Finish(d, r, reply) == [d EXCEPT ![r] = FinishRow(@, reply)]

\* Mutant of Interrupted: no saved effect is taken for "not sent".
InterruptedNone(d, r) ==
  IF d[r].reply # NoReply THEN d[r].reply
  ELSE [code |-> "OPERATION_STATUS_UNKNOWN",
        effect |-> IF d[r].effect = "unknown" THEN "none" ELSE d[r].effect]

\* The reply for a write whose worker was lost; reads the row, changes nothing.
Interrupted(d, r) ==
  IF d[r].reply # NoReply THEN d[r].reply
  ELSE [code |-> "OPERATION_STATUS_UNKNOWN",
        effect |-> IF d[r].effect \in {"submitted", "rejected"} THEN d[r].effect ELSE "unknown"]

SafeToForget(row) == row.phase \in {"queued", "started"} /\ row.effect = "none"

RecoveredReply(row) ==
  IF SafeToForget(row) THEN [code |-> "REQUEST_INTERRUPTED", effect |-> "none"]
  ELSE [code |-> "OPERATION_STATUS_UNKNOWN",
        effect |-> IF row.effect \in {"submitted", "rejected"} THEN row.effect ELSE "unknown"]

Recover(d) ==
  Prune([q \in Request |-> IF d[q].phase # "absent" /\ d[q].reply = NoReply
                           THEN FinishRow(d[q], RecoveredReply(d[q]))
                           ELSE d[q]])

\* Mutant of Unresolved: only rows still being executed are counted.
UnresolvedOpen(d) == \E q \in Request : d[q].effect = "unknown" /\ d[q].phase # "finished"

Unresolved(d) == \E q \in Request : d[q].effect = "unknown"

=============================================================================
