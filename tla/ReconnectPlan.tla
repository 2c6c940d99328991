--------------------------- MODULE ReconnectPlan ---------------------------
(***************************************************************************)
(* The reconnection plan (cn_futures_bridge/reconnect.py), driven by the   *)
(* dispatcher thread only.  The plan remembers the last observation, holds *)
(* at most one retry deadline, and knows whether an attempt is under way.  *)
(* Times are abstracted: a deadline is set or not, and a set deadline may  *)
(* be due at any later moment.  The status fields shown to operators       *)
(* follow from these and are left out.                                     *)
(***************************************************************************)
CONSTANT ReconnectEnabled   \* reconnect.enabled and an account is configured

ASSUME ReconnectAssumption == ReconnectEnabled \in BOOLEAN

CONNECTION_ERRORS == {"CONNECTION_FAILED", "CONNECTION_LOST"}

NewPlan == [observed |-> [error |-> "UNSEEN", safe |-> FALSE], deadline |-> FALSE, begun |-> FALSE]

\* Mutant of Observe: an attempt that ends as it began leaves no new deadline.
ObserveOnce(plan, error, safe) ==
  IF plan.observed = [error |-> error, safe |-> safe]
  THEN plan
  ELSE [observed |-> [error |-> error, safe |-> safe],
        deadline |-> ReconnectEnabled /\ safe /\ error \in CONNECTION_ERRORS,
        begun |-> FALSE]

\* observe: the same observation changes nothing, except that it ends an attempt.
Observe(plan, error, safe) ==
  IF plan.observed = [error |-> error, safe |-> safe] /\ ~plan.begun
  THEN plan
  ELSE [observed |-> [error |-> error, safe |-> safe],
        deadline |-> ReconnectEnabled /\ safe /\ error \in CONNECTION_ERRORS,
        begun |-> FALSE]

Begin(plan) == [plan EXCEPT !.deadline = FALSE, !.begun = TRUE]

=============================================================================
