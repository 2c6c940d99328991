------------------------------ MODULE Notices -------------------------------
(***************************************************************************)
(* How known documents and notices of the terminal are closed              *)
(* (native/startup.c confirm_document, trade_notice, order_notice and      *)
(* reset_notice_state, called from the scans of gui.c and readiness.c that *)
(* gui.py and native.py ask for).  A scan runs in the GUI thread and only  *)
(* posts messages; the window closes when its message is handled, which    *)
(* may be after more scans.  The terminal hides its windows and shows the  *)
(* same handle again for the next notice.                                  *)
(***************************************************************************)
EXTENDS Integers, Sequences, SequencesExt

CONSTANTS
  Windows,    \* window handles
  Kinds,      \* "terms" (kinds 1 to 3), "settlement" (4), "page" (5), "trade" (6), "order" (7 to 12)
  Budget,     \* handled_count's limit, 8 in the code
  MaxShows,   \* how many displays there are
  Together    \* may two windows that share the deduplication slot be visible at once

\* What the constants must be.
Constants ==
  /\ IsFiniteSet(Windows) /\ "nobody" \notin Windows
  /\ Kinds \subseteq {"terms", "settlement", "page", "trade", "order"}
  /\ Budget \in Nat /\ MaxShows \in Nat /\ Together \in BOOLEAN

VARIABLES
  shown,      \* what each window shows, or "hidden"
  loaded,     \* its text is there and it can be answered
  checked,    \* its "do not show again" box
  confirms,   \* answers posted for this display
  clicks,     \* clicks on the box posted for this display
  shows,      \* displays so far
  seen,       \* the last scan has seen it hidden: only then is a handle shown again
  queue,      \* messages posted to the GUI thread, in order
  startup,    \* startup_active: "active", "expired" or "done"
  probe       \* startup_last_window, startup_last_kind, trade_notice_window, trade_notice_phase, handled_count

vars == <<shown, loaded, checked, confirms, clicks, shows, seen, queue, startup, probe>>

Visible == {w \in Windows : shown[w] # "hidden"}
Nobody == "nobody"
NewProbe == [last |-> Nobody, kind |-> "none", trade |-> Nobody, phase |-> 0, handled |-> 0]

Init ==
  /\ shown = [w \in Windows |-> "hidden"] /\ loaded = [w \in Windows |-> FALSE]
  /\ checked = [w \in Windows |-> FALSE] /\ seen = [w \in Windows |-> TRUE]
  /\ confirms = [w \in Windows |-> 0] /\ clicks = [w \in Windows |-> 0]
  /\ shows = 0 /\ queue = <<>> /\ startup = "active" /\ probe = NewProbe

-----------------------------------------------------------------------------
(* The terminal.                                                           *)

Show(w, k) ==
  /\ shows < MaxShows /\ shown[w] = "hidden" /\ seen[w]
  /\ ~Together /\ k # "trade" => \A v \in Visible : shown[v] = "trade"
  /\ k = "terms" => startup = "active"
  /\ shown' = [shown EXCEPT ![w] = k] /\ loaded' = [loaded EXCEPT ![w] = FALSE]
  /\ \E b \in BOOLEAN : checked' = [checked EXCEPT ![w] = (k = "trade" /\ b)]
  /\ confirms' = [confirms EXCEPT ![w] = 0] /\ clicks' = [clicks EXCEPT ![w] = 0]
  /\ shows' = shows + 1 /\ seen' = [seen EXCEPT ![w] = FALSE]
  /\ UNCHANGED <<queue, startup, probe>>

\* The text of an order or settlement arrives, the owner-drawn box is ready.
Load(w) ==
  /\ shown[w] # "hidden" /\ ~loaded[w]
  /\ loaded' = [loaded EXCEPT ![w] = TRUE]
  /\ UNCHANGED <<shown, checked, confirms, clicks, shows, seen, queue, startup, probe>>

\* The next posted message is handled: a click toggles the box, an answer
\* hides the window.
Deliver ==
  /\ queue # <<>> /\ queue' = Tail(queue)
  /\ LET w == Head(queue).window
     IN IF Head(queue).click
          THEN checked' = [checked EXCEPT ![w] = ~@] /\ UNCHANGED shown
          ELSE shown' = [shown EXCEPT ![w] = "hidden"] /\ UNCHANGED checked
  /\ UNCHANGED <<loaded, confirms, clicks, shows, seen, startup, probe>>

-----------------------------------------------------------------------------
(* confirm_document for one window; it yields the probe's new state and    *)
(* the messages it posts.                                                  *)

Quiet(p) == [probe |-> p, posts |-> <<>>, pending |-> TRUE]
Posts(p, w, click) == [probe |-> p, posts |-> <<[window |-> w, click |-> click]>>, pending |-> TRUE]
Unknown(p) == [probe |-> p, posts |-> <<>>, pending |-> FALSE]

\* Mutant of trade_notice: the answer does not wait for the box.
trade_notice_hasty(p, w) ==
  IF ~loaded[w] THEN Quiet(p)
  ELSE IF p.trade # Nobody /\ p.trade # w /\ p.trade \in Visible THEN Quiet(p)
  ELSE LET q == IF p.trade = w THEN p ELSE [p EXCEPT !.trade = w, !.phase = 0]
       IN IF q.phase = 3 THEN Quiet(q)
          ELSE IF q.phase = 0 /\ ~checked[w] THEN Posts([q EXCEPT !.phase = 1], w, TRUE)
          ELSE Posts([q EXCEPT !.phase = 3], w, FALSE)

\* One trade notice at a time: its box is clicked at most once, and the answer
\* is posted only after the box has been read back as checked.
trade_notice(p, w) ==
  IF ~loaded[w] THEN Quiet(p)
  ELSE IF p.trade # Nobody /\ p.trade # w /\ p.trade \in Visible THEN Quiet(p)
  ELSE LET q == IF p.trade = w THEN p ELSE [p EXCEPT !.trade = w, !.phase = 0]
       IN IF q.phase = 3 THEN Quiet(q)
          ELSE IF q.phase = 0 /\ ~checked[w] THEN Posts([q EXCEPT !.phase = 1], w, TRUE)
          ELSE IF ~checked[w] THEN Quiet(q)
          ELSE Posts([q EXCEPT !.phase = 3], w, FALSE)

\* The slot remembers the last window answered, whatever its kind was.
Slot(p, w) == p.last = w /\ p.kind = shown[w]

\* An order notice is answered once per slot entry, without a budget.
order_notice(p, w) ==
  IF ~loaded[w] \/ Slot(p, w) THEN Quiet(p)
  ELSE Posts([p EXCEPT !.last = w, !.kind = shown[w]], w, FALSE)

\* A document or page likewise, while the session's budget lasts.
document(p, w) ==
  IF (shown[w] = "settlement" /\ ~loaded[w]) \/ Slot(p, w) \/ p.handled >= Budget THEN Quiet(p)
  ELSE Posts([p EXCEPT !.last = w, !.kind = shown[w], !.handled = @ + 1], w, FALSE)

confirm_document(p, w, allow_runtime) ==
  IF startup = "expired" \/ (startup = "done" /\ ~allow_runtime) THEN Unknown(p)
  ELSE IF shown[w] = "terms" THEN (IF startup = "active" THEN document(p, w) ELSE Unknown(p))
  ELSE IF ~allow_runtime THEN Unknown(p)
  ELSE IF shown[w] = "trade" THEN trade_notice(p, w)
  ELSE IF shown[w] = "order" THEN order_notice(p, w)
  ELSE document(p, w)

\* What a scan forgets first: the trade notice that has closed, and the slot
\* if its window has closed (documents of the startup keep it).
reset_notice_state ==
  LET p == IF probe.trade \in Visible THEN probe ELSE [probe EXCEPT !.trade = Nobody, !.phase = 0]
  IN IF p.kind \in {"settlement", "page", "order"} /\ p.last \notin Visible
       THEN [p EXCEPT !.last = Nobody, !.kind = "none"] ELSE p

Posted(messages) ==
  /\ queue' = queue \o messages
  /\ confirms' = [w \in Windows |->
       confirms[w] + Cardinality({i \in 1 .. Len(messages) : messages[i].window = w /\ ~messages[i].click})]
  /\ clicks' = [w \in Windows |->
       clicks[w] + Cardinality({i \in 1 .. Len(messages) : messages[i].window = w /\ messages[i].click})]

\* EnumWindows goes through the visible windows in the order they lie in.
Scanned(order) ==
  FoldLeft(LAMBDA r, w : LET c == confirm_document(r.probe, w, TRUE)
                         IN [probe |-> c.probe, posts |-> r.posts \o c.posts, pending |-> r.pending \/ c.pending],
           [probe |-> reset_notice_state, posts |-> <<>>, pending |-> FALSE], order)

\* A scan: gui_state, managed_windows or startup_done; the last one ends the
\* startup when nothing is pending.
Scan(last) ==
  /\ \E s \in {Scanned(order) : order \in SetToSeqs(Visible)} :
       /\ probe' = s.probe
       /\ Posted(s.posts)
       /\ startup' = IF last /\ startup = "active" /\ ~s.pending THEN "done" ELSE startup
  /\ seen' = [w \in Windows |-> shown[w] = "hidden"]
  /\ UNCHANGED <<shown, loaded, checked, shows>>

\* The window hook calls confirm_document as a window is activated or shown.
Hook(w) ==
  /\ shown[w] = "terms" /\ startup = "active"
  /\ \E c \in {confirm_document(probe, w, FALSE)} : probe' = c.probe /\ Posted(c.posts)
  /\ UNCHANGED <<shown, loaded, checked, shows, seen, startup>>

\* startup_until passes before startup_done has succeeded.
Expire ==
  /\ startup = "active" /\ startup' = "expired"
  /\ UNCHANGED <<shown, loaded, checked, confirms, clicks, shows, seen, queue, probe>>

Next ==
  \/ \E w \in Windows, k \in Kinds : Show(w, k)
  \/ \E w \in Windows : Load(w) \/ Hook(w)
  \/ Deliver \/ Expire
  \/ \E last \in BOOLEAN : Scan(last)

Spec == Init /\ [][Next]_vars

\* The terminal loads its windows and handles its messages, and the executor
\* keeps looking (every operation begins and ends with a scan).
FairSpec ==
  Spec /\ WF_vars(Deliver) /\ WF_vars(Scan(TRUE)) /\ \A w \in Windows : WF_vars(Load(w))

-----------------------------------------------------------------------------

\* Every variable stays in its domain, and the documents of a session stay
\* within the budget.
TypeOK ==
  /\ shown \in [Windows -> Kinds \cup {"hidden"}]
  /\ loaded \in [Windows -> BOOLEAN] /\ checked \in [Windows -> BOOLEAN] /\ seen \in [Windows -> BOOLEAN]
  /\ shows \in 0 .. MaxShows /\ startup \in {"active", "expired", "done"}
  /\ probe \in [last : Windows \cup {Nobody}, kind : Kinds \cup {"none"}, trade : Windows \cup {Nobody},
                phase : 0 .. 3, handled : 0 .. Budget]

\* One display of a window is answered at most once, however many scans run
\* before its message is handled: a second answer would meet the next notice.
OncePerDisplay == \A w \in Visible : confirms[w] <= 1 /\ clicks[w] <= 1

\* A trade notice is answered only with its box checked: the answer waits
\* behind no click that would clear it again.
TradeChecked ==
  \A i \in 1 .. Len(queue) :
    (~queue[i].click /\ shown[queue[i].window] = "trade") =>
      /\ checked[queue[i].window]
      /\ \A j \in 1 .. i : ~(queue[j].click /\ queue[j].window = queue[i].window)

\* Every trade or order notice is closed in the end, however many came before
\* it in the session and whichever windows they reused.
NoticesClose ==
  \A w \in Windows : (shown[w] \in {"trade", "order"} /\ startup = "done") ~> (shown[w] \notin {"trade", "order"})

=============================================================================
