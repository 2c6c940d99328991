----------------------------- MODULE Submission -----------------------------
(***************************************************************************)
(* What the bridge promises about a write request (an order or a cancel):  *)
(* it is handed to the terminal at most once, only between its admission   *)
(* and its end, and it is said to be "not sent" only once it has ended     *)
(* without having been sent.  Nothing is said here of queues, processes,   *)
(* crashes or the journal; DispatcherRefinement shows that the bridge      *)
(* implements this specification with all of them.                         *)
(***************************************************************************)
EXTENDS Naturals, FiniteSets

CONSTANT Write      \* the write requests

VARIABLES
  stage,            \* "new", then "live" while it may be sent, then "over"
  sent,             \* how often the terminal got it
  denied            \* the requests now said to be not sent

vars == <<stage, sent, denied>>

Init ==
  /\ stage = [r \in Write |-> "new"]
  /\ sent = [r \in Write |-> 0]
  /\ denied = {}

Unsent(r) == sent'[r] = sent[r]

Rest(r) == stage'[r] = stage[r] /\ Unsent(r)
Accept(r) == stage[r] = "new" /\ stage'[r] = "live" /\ Unsent(r)

\* Refused at the door, or given up.
Close(r) == stage[r] \in {"new", "live"} /\ stage'[r] = "over" /\ Unsent(r)

\* The one hand-over; what failed right after it may end the request at once.
HandOver(r) ==
  /\ stage[r] = "live" /\ stage'[r] \in {"live", "over"}
  /\ sent[r] = 0 /\ sent'[r] = 1

\* A step may end several requests (a crash, a drained queue) and hands over
\* at most one.  Whoever is denied afterwards is over and was never sent.
Next ==
  /\ \A r \in Write : Rest(r) \/ Accept(r) \/ Close(r) \/ HandOver(r)
  /\ \A r, q \in Write : r # q => Unsent(r) \/ Unsent(q)
  /\ DOMAIN stage' = Write /\ DOMAIN sent' = Write
  /\ denied' \subseteq {r \in Write : stage'[r] = "over" /\ sent'[r] = 0}

Spec == Init /\ [][Next]_vars

=============================================================================
