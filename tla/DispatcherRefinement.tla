------------------------ MODULE DispatcherRefinement ------------------------
(***************************************************************************)
(* The refinement mapping from the dispatcher, its worker, its journal and *)
(* its HTTP handlers to Submission.                                        *)
(***************************************************************************)
EXTENDS DispatcherInvariant

\* A write is new until its handler has been through submit, live while a queue
\* or a worker at work holds it, and over when nobody is left who could send it.
Stage(r) ==
  IF http[r] \in {"idle", "admit"} /\ ~cancelled[r] THEN "new"
  ELSE IF MaySend(r) THEN "live"
  ELSE "over"

S == INSTANCE Submission WITH
       Write <- WRITE_ACTIONS,
       stage <- [r \in WRITE_ACTIONS |-> Stage(r)],
       sent <- [r \in WRITE_ACTIONS |-> sent[r]],
       denied <- {r \in WRITE_ACTIONS : ClaimsNotSent(r)}

\* The bridge implements Submission: across queueing, worker deaths, crashes,
\* restarts, retries with the same key and lost journal commits, each write is
\* handed over at most once between its admission and its end, and every "not
\* sent" (journal row, job result, HTTP answer) is about one that ended unsent.  The
\* promise does not extend to the 499 of a client that left before it heard of its
\* admission (AnsweredEarly): ClaimsNotSent passes it over, and EarlyAnswerTruthful fails.
ImplementsSubmission == S!Spec

=============================================================================
