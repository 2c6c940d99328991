---------------------------- MODULE Verification ----------------------------
(***************************************************************************)
(* What the bridge says happened to an order after it was sent or          *)
(* cancelled, and the repeated reads behind the query endpoints            *)
(* (terminal/verification.py, the snapshots of terminal/tracking.py and    *)
(* the rows of terminal/csv_data.py).  The terminal shows the same order   *)
(* in four lists (native orders, native trades, CSV orders, CSV trades)    *)
(* that lag behind the exchange independently; each is read at its own     *)
(* moment while the order goes on.  A second order with the same           *)
(* parameters, another session's, is always in the CSV lists.              *)
(***************************************************************************)
EXTENDS Integers, Sequences, FiniteSetsExt

CONSTANTS
  Trades,     \* the order's possible trades; trade t is for t lots
  Volume,     \* the request's volume
  Attempts,   \* csv_confirmation_attempts
  Kinds,      \* what is verified: "new", "cancel", "reference", "table"
  Faults      \* what the lists may get wrong: "two", "renumber", "conflict", "torn", "session"

\* What the constants must be.
Constants ==
  /\ Trades \subseteq Nat \ {0} /\ Volume \in Nat \ {0} /\ Attempts \in Nat \ {0}
  /\ Kinds \subseteq {"new", "cancel", "reference", "table"}
  /\ Faults \subseteq {"two", "renumber", "conflict", "torn", "session"}

VARIABLES
  kind, tif,    \* the request: its kind and its time_in_force
  hist,         \* everything the order has been at the exchange, oldest first
  seen,         \* per list, the version of the last read (0: not shown yet)
  pc, attempt,  \* where observe, query or query_reference is
  tracked,      \* the TrackedSnapshot of this attempt
  rows,         \* the CSV orders of this attempt
  order_id,     \* steps.order_id
  previous,     \* the signature of the previous read, a set of answers or {} for None
  result,       \* the Verification, or the rows and their consistency
  disturbed,    \* a list has shown something that is not so
  behind        \* the last attempt read a list that was behind, or the order was not over

vars == <<kind, tif, hist, seen, pc, attempt, tracked, rows, order_id, previous, result, disturbed, behind>>

Lists == {"native_orders", "native_trades", "orders", "trades"}
Now == hist[Len(hist)]
Filled(o) == SumSet(o.fills)
Over(o) == o.end # "none" \/ Filled(o) = Volume

\* The order once the send has gone out: no trade, not ended, and without a
\* number unless it is a working order about to be cancelled.
NewOrder(k) == [id |-> IF k = "cancel" THEN "own" ELSE "none", fills |-> {}, end |-> "none"]

NoOrders == [orders |-> {}, links |-> {}]
Pending == [status |-> "pending", orders |-> {}, trades |-> {}]

Init ==
  /\ kind \in Kinds /\ tif \in {"IOC", "GFD"}
  /\ hist = <<NewOrder(kind)>>
  /\ seen = [l \in Lists |-> 0]
  /\ pc = "lookup" /\ attempt = 1
  /\ tracked = NoOrders /\ rows = {} /\ order_id = "none" /\ previous = {}
  /\ result = Pending
  /\ disturbed = FALSE /\ behind = TRUE

-----------------------------------------------------------------------------
(* The exchange: it numbers the order, trades it, and ends it.             *)

Becomes(o) ==
  /\ hist' = Append(hist, o)
  /\ UNCHANGED <<kind, tif, seen, pc, attempt, tracked, rows, order_id, previous, result, disturbed, behind>>

Numbers == Now.id = "none" /\ Now.end = "none" /\ Becomes([Now EXCEPT !.id = "own"])

Fills(t) ==
  /\ Now.id # "none" /\ Now.end = "none" /\ t \notin Now.fills /\ Filled(Now) + t <= Volume
  /\ Becomes([Now EXCEPT !.fills = @ \cup {t}])

Cancels == Now.id # "none" /\ ~Over(Now) /\ Becomes([Now EXCEPT !.end = "cancelled"])

Rejects == kind # "cancel" /\ ~Over(Now) /\ Now.fills = {} /\ Becomes([Now EXCEPT !.end = "rejected"])

Exchange == Numbers \/ (\E t \in Trades : Fills(t)) \/ Cancels \/ Rejects

-----------------------------------------------------------------------------
(* Rows.                                                                   *)

\* order_row's status: the table's state word and the detail message decide
\* before the volumes, and an unnumbered row is still being sent.
Status(raw, message, filled) ==
  IF "rejected" \in {raw, message} THEN "rejected"
  ELSE IF raw = "cancelled" \/ (raw = "" /\ message = "cancelled") THEN "cancelled"
  ELSE IF filled = Volume THEN "filled"
  ELSE IF filled > 0 THEN "partially_filled"
  ELSE IF raw = "queued" \/ (raw = "" /\ message = "queued") THEN "open"
  ELSE IF raw = "" THEN "pending"
  ELSE "unknown"

Word(o) == IF o.end # "none" THEN o.end ELSE IF o.id # "none" THEN "queued" ELSE ""

order_row(o, line, raw, message) ==
  [order_id |-> o.id, line |-> line, filled |-> Filled(o), same |-> TRUE,
   status |-> Status(raw, message, Filled(o))]

\* NativeOrder.order: the native list has no state word, only the message.
NativeRow(o) == order_row(o, 1, "", Word(o))
CsvRow(o) == order_row(o, 1, Word(o), "")

\* The other order with the same parameters, and its trade.
Other == [order_id |-> "other", line |-> 0, filled |-> Volume, same |-> TRUE, status |-> "filled"]
OtherTrade == [trade |-> 0, volume |-> Volume]
TradeRow(t) == [trade |-> t, volume |-> t]

\* What list l shows at version v; version 0 is before the order appears.
Shown(v) == IF v = 0 THEN {} ELSE {hist[v]}

\* A list is read at any version from the last one read to the newest.
Versions(l) == seen[l] .. Len(hist)

-----------------------------------------------------------------------------
(* exact_order.                                                            *)

Answer(orders, complete) == [orders |-> orders, complete |-> complete, error |-> "NONE"]
Refusal(code) == [orders |-> {}, complete |-> FALSE, error |-> code]

Numbered(id) == {row \in rows : row.order_id = id}

\* Mutant of exact_order: a rejection without a number never counts as complete.
ExactNumbered ==
  IF Cardinality(tracked.orders) > 1 THEN Refusal("ORDER_IDENTITY_AMBIGUOUS")
  ELSE IF tracked.orders = {} THEN Answer({}, FALSE)
  ELSE LET native == CHOOSE row \in tracked.orders : TRUE
           selected == Numbered(native.order_id)
       IN IF native.order_id = "none" \/ selected = {} THEN Answer({native}, FALSE)
          ELSE IF Cardinality(selected) > 1 THEN Refusal("ORDER_IDENTITY_AMBIGUOUS")
          ELSE IF \E row \in selected : ~row.same THEN Refusal("TERMINAL_DATA_INVALID")
          ELSE Answer(selected, TRUE)

\* The CSV row with the number the native list gives the reference; the native
\* row alone while there is none, complete only when it was rejected unnumbered.
exact_order ==
  IF Cardinality(tracked.orders) > 1 THEN Refusal("ORDER_IDENTITY_AMBIGUOUS")
  ELSE IF tracked.orders = {} THEN Answer({}, FALSE)
  ELSE LET native == CHOOSE row \in tracked.orders : TRUE
           selected == Numbered(native.order_id)
       IN IF native.order_id = "none" THEN Answer({native}, native.status = "rejected")
          ELSE IF Cardinality(selected) > 1 THEN Refusal("ORDER_IDENTITY_AMBIGUOUS")
          ELSE IF selected = {} THEN Answer({native}, FALSE)
          ELSE IF \E row \in selected : ~row.same THEN Refusal("TERMINAL_DATA_INVALID")
          ELSE Answer(selected, TRUE)

-----------------------------------------------------------------------------
(* One attempt: track, CSV orders, CSV trades and positions, comparison.   *)

Goto(p) == pc' = p /\ UNCHANGED <<kind, tif, hist, attempt>>
Saw(l, v) == seen' = [seen EXCEPT ![l] = v] /\ behind' = (behind \/ v < Len(hist))

\* except BridgeError: an unusable or ambiguous answer ends the verification
\* with that status; query and query_reference let it out, and so does
\* observe with every other error.
Ends(code) ==
  /\ Goto("done")
  /\ result' = [result EXCEPT !.status =
       IF kind \in {"new", "cancel"} /\ code = "ORDER_IDENTITY_AMBIGUOUS" THEN "ambiguous"
       ELSE IF kind \in {"new", "cancel"} /\ code = "TERMINAL_DATA_INVALID" THEN "unavailable"
       ELSE "raised"]

\* What the native lists answer for the full reference: a trade is linked
\* through its order, so only once the order is shown with its number.
Snapshots(v, w) ==
  LET shown == {NativeRow(o) : o \in Shown(v)}
      links == IF \E row \in shown : row.order_id # "none"
                 THEN UNION {o.fills : o \in Shown(w)} ELSE {}
  IN {[orders |-> shown, links |-> links]}
     \cup (IF "two" \in Faults /\ shown # {}
             THEN {[orders |-> shown \cup {[row EXCEPT !.line = 2] : row \in shown}, links |-> links]} ELSE {})
     \cup (IF "renumber" \in Faults /\ links # {}
             THEN {[orders |-> {[row EXCEPT !.order_id = "changed"] : row \in shown}, links |-> links]} ELSE {})

Identifiers(snapshot) ==
  {row.order_id : row \in IF Cardinality(snapshot.orders) = 1 THEN snapshot.orders ELSE {}} \ {"none"}

\* Mutant of Identify: the number of the latest lookup replaces the one recorded.
IdentifyLatest(snapshot) ==
  /\ order_id' \in IF Identifiers(snapshot) = {} THEN {order_id} ELSE Identifiers(snapshot)
  /\ Goto("orders")
  /\ UNCHANGED result

\* The exchange's number is recorded once; another one later is ambiguous.
Identify(snapshot) ==
  IF kind = "new" /\ order_id # "none" /\ Identifiers(snapshot) \ {order_id} # {}
    THEN Ends("ORDER_IDENTITY_AMBIGUOUS") /\ UNCHANGED order_id
    ELSE /\ order_id' \in IF kind # "new" \/ Identifiers(snapshot) = {} THEN {order_id} ELSE Identifiers(snapshot)
         /\ Goto("orders")
         /\ UNCHANGED result

\* The lookup of the reference; a cancellation and a table query have none.
Lookup ==
  /\ pc = "lookup" /\ kind \in {"new", "reference"}
  /\ \E v \in Versions("native_orders"), w \in Versions("native_trades") :
       \E snapshot \in Snapshots(v, w) :
         /\ tracked' = snapshot
         /\ disturbed' = (disturbed \/ snapshot.orders # {NativeRow(o) : o \in Shown(v)})
         /\ Identify(snapshot)
         /\ seen' = [seen EXCEPT !["native_orders"] = v, !["native_trades"] = w]
         /\ behind' = (~Over(Now) \/ v < Len(hist) \/ w < Len(hist))
  /\ UNCHANGED <<rows, previous>>

NoLookup ==
  /\ pc = "lookup" /\ kind \in {"cancel", "table"}
  /\ behind' = ~Over(Now)
  /\ Goto("orders")
  /\ UNCHANGED <<seen, tracked, rows, order_id, previous, result, disturbed>>

CsvOrders(v) ==
  LET shown == {CsvRow(o) : o \in Shown(v)}
  IN {shown}
     \cup (IF "two" \in Faults /\ shown # {}
             THEN {shown \cup {[row EXCEPT !.line = 2] : row \in shown}} ELSE {})
     \cup (IF "conflict" \in Faults THEN {{[row EXCEPT !.same = FALSE] : row \in shown}} ELSE {})

\* The CSV orders.
ReadOrders ==
  /\ pc = "orders"
  /\ \E v \in Versions("orders") : \E shown \in CsvOrders(v) :
       /\ rows' = shown \cup {Other}
       /\ disturbed' = (disturbed \/ shown # {CsvRow(o) : o \in Shown(v)})
       /\ Saw("orders", v)
  /\ Goto("compare")
  /\ UNCHANGED <<tracked, order_id, previous, result>>

\* Any read may fail instead: a torn export, or a session that has changed.
ReadFails ==
  /\ pc \in {"lookup", "orders", "compare"}
  /\ pc = "lookup" => kind \in {"new", "reference"}
  /\ pc = "compare" => kind \in {"new", "cancel"}
  /\ \E f \in Faults \cap {"torn", "session"} :
       /\ f = "torn" => pc # "lookup"
       /\ Ends(IF f = "torn" THEN "TERMINAL_DATA_INVALID" ELSE "CONNECTION_LOST")
  /\ disturbed' = TRUE
  /\ UNCHANGED <<seen, tracked, rows, order_id, previous, behind>>

\* The loop's end: another attempt after the pause, or the last result as it is.
Again(verdict) ==
  /\ result' = verdict
  /\ IF attempt = Attempts
       THEN pc' = "done" /\ UNCHANGED attempt
       ELSE pc' = "lookup" /\ attempt' = attempt + 1
  /\ UNCHANGED <<kind, tif, hist>>

Concludes(verdict) ==
  IF verdict.status \in {"observed", "stable"} THEN Goto("done") /\ result' = verdict ELSE Again(verdict)

\* Mutant of Ready: as many trades as links are taken to be all of the fills.
ReadyByCount(trades, order) == Cardinality(trades) = Cardinality(tracked.links)

\* trades_ready: the CSV shows every linked trade, and they add up to the fills.
Ready(trades, order) ==
  /\ Cardinality(trades) = Cardinality(tracked.links)
  /\ MapThenSumSet(LAMBDA row : row.volume, trades) = order.filled

Final(order) ==
  \/ order.status \in {"filled", "cancelled", "rejected"}
  \/ tif = "GFD" /\ order.status \in {"open", "partially_filled"}

Verdict(found, trades, observed) ==
  [status |-> IF observed THEN "observed" ELSE "pending", orders |-> found, trades |-> trades]

\* The trades are read and compare answers for a new order: its row, and the
\* trades the native list links to it.
CompareNew ==
  /\ pc = "compare" /\ kind = "new"
  /\ \E v \in Versions("trades") :
       LET found == exact_order
           order == CHOOSE row \in found.orders : TRUE
           trades == {row \in {TradeRow(t) : t \in UNION {o.fills : o \in Shown(v)}} \cup {OtherTrade} :
                        row.trade \in tracked.links}
       IN /\ Saw("trades", v)
          /\ IF found.error # "NONE" THEN Ends(found.error)
             ELSE IF found.orders = {} THEN Again(Pending)
             ELSE IF trades # {} /\ order.order_id # "own" THEN Ends("TERMINAL_DATA_INVALID")
             ELSE Concludes(Verdict(found.orders, trades,
                              found.complete /\ Final(order) /\ Ready(trades, order)))
  /\ UNCHANGED <<tracked, rows, order_id, previous, disturbed>>

\* compare for a cancellation: the one row with the number it was given.
CompareCancel ==
  /\ pc = "compare" /\ kind = "cancel"
  /\ LET found == Numbered("own")
     IN Concludes(Verdict(found, {}, Cardinality(found) = 1
                                       /\ \A row \in found : row.status \in {"cancelled", "filled"}))
  /\ UNCHANGED <<seen, tracked, rows, order_id, previous, disturbed, behind>>

Consistency(found, confirmed) ==
  [status |-> IF previous = {found} /\ confirmed THEN "stable" ELSE "changing", orders |-> found, trades |-> {}]

\* query_reference: stable when two reads in a row agree and the CSV confirms.
CompareReference ==
  /\ pc = "compare" /\ kind = "reference"
  /\ IF exact_order.error # "NONE" THEN Ends(exact_order.error) /\ UNCHANGED previous
     ELSE /\ Concludes(Consistency(exact_order.orders, exact_order.complete \/ tracked.orders = {}))
          /\ previous' = {exact_order.orders}
  /\ UNCHANGED <<seen, tracked, rows, order_id, disturbed, behind>>

\* query: stable when two reads of the table in a row agree.
CompareTable ==
  /\ pc = "compare" /\ kind = "table"
  /\ Concludes(Consistency(rows, TRUE)) /\ previous' = {rows}
  /\ UNCHANGED <<seen, tracked, rows, order_id, disturbed, behind>>

Done == pc = "done" /\ UNCHANGED vars

Next ==
  \/ Exchange \/ Lookup \/ NoLookup \/ ReadOrders \/ ReadFails
  \/ CompareNew \/ CompareCancel \/ CompareReference \/ CompareTable \/ Done

Spec == Init /\ [][Next]_vars

-----------------------------------------------------------------------------

Row == [order_id : {"none", "own", "other", "changed"}, line : 0 .. 2, filled : 0 .. Volume, same : BOOLEAN,
        status : {"pending", "open", "partially_filled", "filled", "cancelled", "rejected"}]

\* Every variable stays in its domain; in particular no row of this order is
\* ever of unknown status (order_row's last branch).
TypeOK ==
  /\ kind \in Kinds /\ tif \in {"IOC", "GFD"} /\ attempt \in 1 .. Attempts
  /\ pc \in {"lookup", "orders", "compare", "done"}
  /\ seen \in [Lists -> 0 .. Len(hist)]
  /\ tracked.orders \subseteq Row /\ tracked.links \subseteq Trades
  /\ rows \subseteq Row /\ result.orders \subseteq Row
  /\ order_id \in {"none", "own", "changed"}
  /\ result.status \in {"pending", "observed", "ambiguous", "unavailable", "raised", "stable", "changing"}

\* "observed" is true of the order that was sent, whatever the lists showed
\* when: it names that order and only its trades, the trades add up to the
\* fills it reports, and an end it reports is the end the exchange gave it.
ObservedIsTrue ==
  result.status = "observed" =>
    /\ result.orders # {}
    /\ \A row \in result.orders :
      /\ row.order_id = "own" \/ (row.order_id = "none" /\ Now.end = "rejected")
      /\ kind = "new" =>
           /\ result.trades \subseteq {TradeRow(t) : t \in Now.fills}
           /\ MapThenSumSet(LAMBDA trade : trade.volume, result.trades) = row.filled
      /\ row.status \in {"filled", "cancelled", "rejected"} =>
           /\ row.filled = Filled(Now)
           /\ IF row.status = "filled" THEN Filled(Now) = Volume ELSE Now.end = row.status

\* The exchange's number, once recorded in the journal, is never replaced.
NumberKept == [][order_id # "none" => order_id' = order_id]_vars

\* Lists that merely lag are never reported as conflicting or unusable.
NoFalseAlarm == result.status \in {"ambiguous", "unavailable", "raised"} => disturbed

\* When the attempts run out without an observation, the order was not over at
\* the last attempt or a list was still behind: what is over and shown is seen.
PendingMeansBehind ==
  (pc = "done" /\ kind \in {"new", "cancel"} /\ result.status = "pending") => (behind \/ disturbed)

\* A stable answer about a reference is the order's CSV row or says that the
\* native list does not know the reference; it is never an unconfirmed native row.
StableIsConfirmed ==
  (kind = "reference" /\ result.status = "stable") =>
    (result.orders \subseteq rows \/ \A row \in result.orders : row.order_id = "none" /\ row.status = "rejected")

=============================================================================
