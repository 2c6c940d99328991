--------------------------- MODULE ReadingsProofs ---------------------------
(***************************************************************************)
(* Proofs about what the bridge concludes from what it reads: tables,      *)
(* dialogs and modifiers on the screen (Gui), and the verification of an   *)
(* order over lists that lag (Verification); then the properties of        *)
(* MCReadings that join its parts.                                         *)
(***************************************************************************)
EXTENDS LimitsProofs, ScreenProofs

-----------------------------------------------------------------------------
(***************************************************************************)
(* The screen.                                                             *)
(***************************************************************************)

\* The screen's invariant holds in every state, whichever part moves.
THEOREM ScreenInvariant == Spec => []ScreenInv
<1>1. Init => ScreenInv
  BY ScreenBegins DEF Init
<1>2. ScreenInv /\ [Next]_vars => ScreenInv'
  BY ScreenMoves, ScreenStutters DEF Next, vars
<1> QED BY <1>1, <1>2, PTL DEF Spec

\* What the screen returns is trusted for a reason: a table is complete and was located in this operation, a balance
\* was shown after its own question, and a modifier that is still down is remembered, for any number of operations and
\* of disturbances (gui.py grid, balance, key).
THEOREM ScreenIsTrusted == Spec => []ScreenTrusted
<1>1. ScreenInv => ScreenTrusted
  BY DEF ScreenInv, ScreenHeld, ScreenTables, ScreenDialogs, ScreenTrusted, Screen!TableIsComplete,
         Screen!BalanceShownHere, Screen!HeldIsRemembered
<1> QED BY <1>1, ScreenInvariant, PTL

\* A recovery acts only on what it has recognised, although windows change between the look and the act (gui.py
\* ensure_ready, readiness.c).
THEOREM RecoversKnown == Spec => RecoversOnlyKnown
<1> DEFINE A == /\ (closing' /\ ~closing) => win.main /\ win.unknown = "none" /\ win.funds # 0 /\ win.menu = "none"
                /\ (pc = "recover" /\ win'.menu # win.menu /\ pc' = "look") => win.unknown = "none" /\ win.menu = "own"
<1>1. ScreenInv /\ [Next]_vars => [A]_Screen!vars
  <2> SUFFICES ASSUME ScreenInv, [Next]_vars PROVE A \/ UNCHANGED Screen!vars
    OBVIOUS
  <2>1. CASE Screen!Recover
    BY <2>1 DEF Screen!Recover, Screen!Rescan, ScreenInv, ScreenTypes, WorldTypes, ScreenWindows
  <2>2. CASE Screen!Next /\ ~Screen!Recover
    <3>1. closing' => closing
      BY <2>2 DEF Screen!Next, Screen!Run, Screen!EnsureReady, Screen!Execute, Screen!Resume, Screen!Disturb, Screen!Answer,
         Screen!Closed, Screen!NoticeCloses, Screen!Expire, Screen!LookExpired, Screen!LookError, Screen!LookReady, Screen!LookAct,
         Screen!LookRelease, Screen!RecoverRefused, Screen!Baseline, Screen!BaselineAgain, Screen!Grid, Screen!Cached, Screen!Locate,
         Screen!Keyed, Screen!Balance, Screen!Ask, Screen!Opened, Screen!CloseDialog, Screen!Finish, Screen!Finished, Screen!Still, Screen!world
    <3>2. pc = "recover" => pc' # "look" \/ UNCHANGED win
      BY <2>2 DEF Screen!Next, Screen!Run, Screen!EnsureReady, Screen!Execute, Screen!Resume, Screen!Disturb, Screen!Answer,
         Screen!Closed, Screen!NoticeCloses, Screen!Expire, Screen!LookExpired, Screen!LookError, Screen!LookReady, Screen!LookAct,
         Screen!LookRelease, Screen!RecoverRefused, Screen!Baseline, Screen!BaselineAgain, Screen!Grid, Screen!Cached, Screen!Locate,
         Screen!Keyed, Screen!Balance, Screen!Ask, Screen!Opened, Screen!CloseDialog, Screen!Finish, Screen!Finished, Screen!Still, Screen!world,
         Screen!Outside, Screen!control
    <3> QED BY <3>1, <3>2
  <2>3. CASE UNCHANGED screenVars
    BY <2>3 DEF screenVars, Screen!vars, Screen!control, Screen!kept, Screen!results, Screen!world
  <2> QED BY <2>1, <2>2, <2>3 DEF Next, vars
<1> QED BY <1>1, ScreenInvariant, PTL DEF Spec, RecoversOnlyKnown, Screen!RecoversOnlyKnown

-----------------------------------------------------------------------------
(***************************************************************************)
(* The verification of an order.                                           *)
(***************************************************************************)

\* What a number adds to a sum.
Lots == [t \in Nat |-> t]

\* What the row of a trade adds.
Sizes == [row \in {Verify!TradeRow(t) : t \in Nat} |-> row.volume]

\* The fold that adds up fills is their total.
LEMMA FillsTotal ==
  ASSUME NEW S \in SUBSET Nat, IsFiniteSet(S)
  PROVE  Verify!SumSet(S) = Total(Lots, S)
<1> DEFINE A(g) == [s \in SUBSET S |-> IF s = {} THEN 0 ELSE Chosen(s) + g[s \ {Chosen(s)}]]
           P(g) == g = A(g)
<1>1. Verify!SumSet(S) = (CHOOSE g : P(g))[S]
  BY Zenon DEF Verify!SumSet, Verify!FoldSet, Verify!MapThenFoldSet, Chosen
<1>2. ASSUME NEW g PROVE P(g) <=> IsSum(g, Lots, S)
  <2>1. \A s \in SUBSET S : s # {} => Lots[Chosen(s)] = Chosen(s)
    BY ChosenIn DEF Lots
  <2>2. A(g) = [s \in SUBSET S |-> IF s = {} THEN 0 ELSE Lots[Chosen(s)] + g[s \ {Chosen(s)}]]
    BY <2>1
  <2> QED BY <2>2, Zenon DEF IsSum
<1> HIDE DEF P
<1>3. \E g : P(g)
  BY <1>2, SumExists
<1> DEFINE h == CHOOSE g : P(g)
<1>4. P(h)
  BY <1>3, Zenon
<1>5. IsSum(h, Lots, S)
  BY <1>2, <1>4, Zenon
<1> HIDE DEF h
<1>6. Total(Lots, S) = h[S]
  BY <1>5, TotalHere
<1> QED BY <1>1, <1>6, Zenon DEF h

\* The fold that adds up the rows of trades is their total.
LEMMA RowsTotal ==
  ASSUME NEW S \in SUBSET {Verify!TradeRow(t) : t \in Nat}, IsFiniteSet(S)
  PROVE  Verify!MapThenSumSet(LAMBDA row : row.volume, S) = Total(Sizes, S)
<1> DEFINE A(g) == [s \in SUBSET S |-> IF s = {} THEN 0 ELSE Chosen(s).volume + g[s \ {Chosen(s)}]]
           P(g) == g = A(g)
<1>1. Verify!MapThenSumSet(LAMBDA row : row.volume, S) = (CHOOSE g : P(g))[S]
  BY Zenon DEF Verify!MapThenSumSet, Verify!MapThenFoldSet, Chosen
<1>2. ASSUME NEW g PROVE P(g) <=> IsSum(g, Sizes, S)
  <2>1. \A s \in SUBSET S : s # {} => Sizes[Chosen(s)] = Chosen(s).volume
    BY ChosenIn DEF Sizes
  <2>2. A(g) = [s \in SUBSET S |-> IF s = {} THEN 0 ELSE Sizes[Chosen(s)] + g[s \ {Chosen(s)}]]
    BY <2>1
  <2> QED BY <2>2, Zenon DEF IsSum
<1> HIDE DEF P
<1>3. \E g : P(g)
  BY <1>2, SumExists
<1> DEFINE h == CHOOSE g : P(g)
<1>4. P(h)
  BY <1>3, Zenon
<1>5. IsSum(h, Sizes, S)
  BY <1>2, <1>4, Zenon
<1> HIDE DEF h
<1>6. Total(Sizes, S) = h[S]
  BY <1>5, TotalHere
<1> QED BY <1>1, <1>6, Zenon DEF h

\* What the assumption says of the order that is verified.
LEMMA OrderBounds ==
  /\ Trades \subseteq Nat /\ 0 \notin Trades /\ Volume \in Nat /\ Volume > 0 /\ Attempts \in Nat /\ Attempts > 0
<1>1. Trades \subseteq Nat \ {0} /\ Volume \in Nat \ {0} /\ Attempts \in Nat \ {0}
  BY ConstantsAssumption, Zenon DEF Verify!Constants
<1> QED BY <1>1

\* The order as the exchange may have it.
Orders == [id : {"none", "own"}, fills : SUBSET Trades, end : {"none", "cancelled", "rejected"}]

\* A version of the order that the exchange can show.
OrderOK(o) ==
  /\ o \in Orders /\ IsFiniteSet(o.fills) /\ Verify!Filled(o) \in 0 .. Volume
  /\ o.id = "none" => o.fills = {} /\ o.end # "cancelled"
  /\ kind = "cancel" => o.id = "own" /\ o.end # "rejected"

\* The order has grown from version to version, and its last version is the only one that may be over.
History ==
  /\ hist \in Seq(Orders) /\ hist # <<>>
  /\ \A i \in 1 .. Len(hist) : /\ OrderOK(hist[i]) /\ hist[i].fills \subseteq Verify!Now.fills
                               /\ Verify!Over(hist[i]) => i = Len(hist)

\* What the fills add up to.
LEMMA FilledIs ==
  ASSUME NEW S \in SUBSET Trades, IsFiniteSet(S)
  PROVE  /\ Verify!SumSet(S) = Total(Lots, S) /\ Verify!SumSet(S) \in Nat
         /\ Verify!SumSet({}) = 0
         /\ \A t \in Trades \ S : Verify!SumSet(S \cup {t}) = Verify!SumSet(S) + t
<1>1. \A T \in SUBSET Trades : Numbers(Lots, T) /\ T \in SUBSET Nat
  BY OrderBounds DEF Numbers, Lots
<1>2. Verify!SumSet(S) = Total(Lots, S) /\ Total(Lots, S) \in Nat
  BY <1>1, FillsTotal, TotalNat
<1>3. Verify!SumSet({}) = 0
  <2>1. {} \in SUBSET Nat /\ IsFiniteSet({})
    BY FS_EmptySet
  <2> QED BY <2>1, FillsTotal, TotalEmpty
<1>4. ASSUME NEW t \in Trades \ S PROVE Verify!SumSet(S \cup {t}) = Verify!SumSet(S) + t
  <2>1. S \cup {t} \in SUBSET Trades /\ IsFiniteSet(S \cup {t}) /\ t \notin S /\ t \in Nat
    BY FS_AddElement, OrderBounds
  <2>2. Verify!SumSet(S \cup {t}) = Total(Lots, S \cup {t})
    BY <1>1, <2>1, FillsTotal
  <2>3. Numbers(Lots, S \cup {t})
    BY <1>1, <2>1
  <2>4. Total(Lots, S \cup {t}) = Total(Lots, S) + Lots[t]
    BY <2>1, <2>3, TotalAdd
  <2>5. Lots[t] = t
    BY <2>1 DEF Lots
  <2> QED BY <1>2, <2>2, <2>4, <2>5
<1> QED BY <1>2, <1>3, <1>4

\* The native row and the CSV row of an order are the same, and say whether it is over.
LEMMA RowOf ==
  ASSUME NEW o, OrderOK(o)
  PROVE  /\ Verify!NativeRow(o) = Verify!CsvRow(o)
         /\ Verify!CsvRow(o).order_id = o.id /\ Verify!CsvRow(o).filled = Verify!Filled(o)
         /\ Verify!CsvRow(o).line = 1 /\ Verify!CsvRow(o).same = TRUE
         /\ Verify!CsvRow(o).status \in {"pending", "open", "partially_filled", "filled", "cancelled", "rejected"}
         /\ Verify!CsvRow(o).status = "rejected" <=> o.end = "rejected"
         /\ Verify!CsvRow(o).status = "cancelled" <=> o.end = "cancelled"
         /\ Verify!CsvRow(o).status = "filled" => Verify!Filled(o) = Volume
         /\ Verify!CsvRow(o).status \in {"filled", "cancelled", "rejected"} <=> Verify!Over(o)
         /\ Verify!CsvRow(o) \in Verify!Row
<1> DEFINE F == Verify!Filled(o)
           W == Verify!Word(o)
           s == Verify!Status(W, "", F)
<1>1. o.id \in {"none", "own"} /\ o.end \in {"none", "cancelled", "rejected"} /\ F \in 0 .. Volume
  BY DEF OrderOK, Orders
<1>2. Volume \in Nat /\ Volume > 0
  BY OrderBounds
<1>3. o.id = "none" => F = 0
  <2>1. o.id = "none" => o.fills = {}
    BY DEF OrderOK
  <2>2. Verify!SumSet({}) = 0
    <3>1. {} \in SUBSET Trades /\ IsFiniteSet({})
      BY FS_EmptySet
    <3> QED BY <3>1, FilledIs
  <2> QED BY <2>1, <2>2 DEF Verify!Filled
<1> HIDE DEF F
<1>4. W \in {"", "queued", "cancelled", "rejected"} /\ (W = "" <=> o.id = "none" /\ o.end = "none")
      /\ (W = "rejected" <=> o.end = "rejected") /\ (W = "cancelled" <=> o.end = "cancelled")
  BY <1>1 DEF Verify!Word
<1> HIDE DEF W
<1>5. /\ s = Verify!Status("", W, F)
      /\ s \in {"pending", "open", "partially_filled", "filled", "cancelled", "rejected"}
      /\ s = "rejected" <=> W = "rejected"
      /\ s = "cancelled" <=> W = "cancelled"
      /\ s = "filled" <=> F = Volume /\ W \notin {"cancelled", "rejected"}
  BY <1>1, <1>2, <1>4 DEF Verify!Status
<1> HIDE DEF s
<1>6. Verify!CsvRow(o) = [order_id |-> o.id, line |-> 1, filled |-> F, same |-> TRUE, status |-> s]
  BY DEF Verify!CsvRow, Verify!order_row, F, W, s
<1>7. Verify!NativeRow(o) = [order_id |-> o.id, line |-> 1, filled |-> F, same |-> TRUE, status |-> Verify!Status("", W, F)]
  BY DEF Verify!NativeRow, Verify!order_row, F, W
<1>8. Verify!Over(o) <=> o.end # "none" \/ F = Volume
  BY DEF Verify!Over, F
<1>9. Verify!CsvRow(o) \in Verify!Row
  <2>1. o.id \in {"none", "own", "other", "changed"} /\ 1 \in 0 .. 2 /\ TRUE \in BOOLEAN
    BY <1>1
  <2>2. F \in 0 .. Volume /\ s \in {"pending", "open", "partially_filled", "filled", "cancelled", "rejected"}
    BY <1>1, <1>5
  <2> QED BY <1>6, <2>1, <2>2, SMT DEF Verify!Row
<1>10. Verify!NativeRow(o) = Verify!CsvRow(o)
  BY <1>5, <1>6, <1>7
<1>11. /\ Verify!CsvRow(o).order_id = o.id /\ Verify!CsvRow(o).filled = F
       /\ Verify!CsvRow(o).line = 1 /\ Verify!CsvRow(o).same = TRUE /\ Verify!CsvRow(o).status = s
  BY <1>6
<1>12. s \in {"filled", "cancelled", "rejected"} <=> Verify!Over(o)
  BY <1>1, <1>4, <1>5, <1>8
<1> QED BY <1>4, <1>5, <1>9, <1>10, <1>11, <1>12 DEF F

\* Before it is over the order goes on: what the exchange makes of it (Numbers, Fills, Cancels, Rejects).
LEMMA ExchangeIs ==
  ASSUME History, Verify!Exchange
  PROVE  \E o : Verify!Becomes(o) /\ OrderOK(o) /\ Verify!Now.fills \subseteq o.fills /\ ~Verify!Over(Verify!Now)
<1> DEFINE n == Verify!Now
<1>1. n = hist[Len(hist)] /\ Len(hist) \in 1 .. Len(hist) /\ OrderOK(n)
  BY DEF History, Verify!Now
<1>2. /\ n \in Orders /\ n.fills \in SUBSET Trades /\ IsFiniteSet(n.fills) /\ Verify!Filled(n) \in 0 .. Volume
      /\ n.id \in {"none", "own"} /\ n.end \in {"none", "cancelled", "rejected"}
      /\ n.id = "none" => n.fills = {} /\ n.end # "cancelled"
      /\ kind = "cancel" => n.id = "own" /\ n.end # "rejected"
  BY <1>1 DEF OrderOK, Orders
<1>3. n.fills = {} => Verify!Filled(n) = 0
  BY <1>2, FilledIs DEF Verify!Filled
<1>4. \A o : o.fills = n.fills => Verify!Filled(o) = Verify!Filled(n)
  BY DEF Verify!Filled
<1>5. Volume \in Nat /\ Volume > 0
  BY OrderBounds
<1>6. Verify!Over(n) <=> n.end # "none" \/ Verify!Filled(n) = Volume
  BY DEF Verify!Over
<1> HIDE DEF n
<1>7. ASSUME Verify!Numbers PROVE \E o : Verify!Becomes(o) /\ OrderOK(o) /\ n.fills \subseteq o.fills /\ ~Verify!Over(n)
  <2> DEFINE o == [n EXCEPT !.id = "own"]
  <2>1. n.id = "none" /\ n.end = "none" /\ Verify!Becomes(o)
    BY <1>7, Zenon DEF Verify!Numbers, n
  <2>2. o \in Orders /\ o.fills = n.fills /\ o.id = "own" /\ o.end = n.end
    BY <1>2 DEF Orders
  <2> HIDE DEF o
  <2>3. OrderOK(o)
    BY <1>2, <1>4, <2>1, <2>2 DEF OrderOK
  <2> QED BY <1>2, <1>3, <1>5, <1>6, <2>1, <2>2, <2>3
<1>8. ASSUME NEW t \in Trades, Verify!Fills(t)
      PROVE  \E o : Verify!Becomes(o) /\ OrderOK(o) /\ n.fills \subseteq o.fills /\ ~Verify!Over(n)
  <2> DEFINE o == [n EXCEPT !.fills = @ \cup {t}]
  <2>1. /\ n.id # "none" /\ n.end = "none" /\ t \notin n.fills /\ Verify!Filled(n) + t <= Volume
        /\ Verify!Becomes(o)
    BY <1>8, Zenon DEF Verify!Fills, n
  <2>2. o \in Orders /\ o.fills = n.fills \cup {t} /\ o.id = n.id /\ o.end = n.end
    BY <1>2 DEF Orders
  <2> HIDE DEF o
  <2>3. Verify!Filled(o) = Verify!Filled(n) + t /\ t \in Nat /\ t > 0
    <3>1. t \in Trades \ n.fills /\ t \in Nat /\ t > 0
      BY <2>1, OrderBounds
    <3>2. Verify!SumSet(n.fills \cup {t}) = Verify!SumSet(n.fills) + t
      BY <1>2, <3>1, FilledIs
    <3> QED BY <2>2, <3>1, <3>2 DEF Verify!Filled
  <2>4. IsFiniteSet(o.fills)
    BY <1>2, <2>2, FS_AddElement
  <2>5. Verify!Filled(o) \in 0 .. Volume /\ Verify!Filled(n) # Volume
    BY <1>2, <1>5, <2>1, <2>3
  <2>6. OrderOK(o)
    BY <1>2, <2>1, <2>2, <2>4, <2>5 DEF OrderOK
  <2> QED BY <1>6, <2>1, <2>2, <2>5, <2>6
<1>9. ASSUME Verify!Cancels PROVE \E o : Verify!Becomes(o) /\ OrderOK(o) /\ n.fills \subseteq o.fills /\ ~Verify!Over(n)
  <2> DEFINE o == [n EXCEPT !.end = "cancelled"]
  <2>1. n.id # "none" /\ ~Verify!Over(n) /\ Verify!Becomes(o)
    BY <1>9, Zenon DEF Verify!Cancels, n
  <2>2. o \in Orders /\ o.fills = n.fills /\ o.id = n.id /\ o.end = "cancelled"
    BY <1>2 DEF Orders
  <2> HIDE DEF o
  <2>3. OrderOK(o)
    BY <1>2, <1>4, <2>1, <2>2 DEF OrderOK
  <2> QED BY <2>1, <2>2, <2>3
<1>10. ASSUME Verify!Rejects PROVE \E o : Verify!Becomes(o) /\ OrderOK(o) /\ n.fills \subseteq o.fills /\ ~Verify!Over(n)
  <2> DEFINE o == [n EXCEPT !.end = "rejected"]
  <2>1. kind # "cancel" /\ ~Verify!Over(n) /\ Verify!Becomes(o)
    BY <1>10, Zenon DEF Verify!Rejects, n
  <2>2. o \in Orders /\ o.fills = n.fills /\ o.id = n.id /\ o.end = "rejected"
    BY <1>2 DEF Orders
  <2> HIDE DEF o
  <2>3. OrderOK(o)
    BY <1>2, <1>4, <2>1, <2>2 DEF OrderOK
  <2> QED BY <2>1, <2>2, <2>3
<1> QED BY <1>7, <1>8, <1>9, <1>10, Zenon DEF Verify!Exchange, n

\* The history after such a step: every version stays where it was.
LEMMA HistoryGrows ==
  ASSUME History, NEW o, OrderOK(o), Verify!Now.fills \subseteq o.fills, ~Verify!Over(Verify!Now),
         hist' = Append(hist, o), kind' = kind
  PROVE  /\ History' /\ Len(hist') = Len(hist) + 1 /\ Verify!Now' = o
         /\ \A i \in 1 .. Len(hist) : hist'[i] = hist[i]
<1>1. /\ hist \in Seq(Orders) /\ Len(hist) \in Nat /\ Len(hist) > 0
      /\ \A i \in 1 .. Len(hist) : /\ OrderOK(hist[i]) /\ hist[i].fills \subseteq Verify!Now.fills
                                   /\ Verify!Over(hist[i]) => i = Len(hist)
  BY DEF History
<1>2. o \in Orders
  BY DEF OrderOK
<1>3. /\ hist' \in Seq(Orders) /\ hist' # <<>> /\ Len(hist') = Len(hist) + 1 /\ hist'[Len(hist) + 1] = o
      /\ \A i \in 1 .. Len(hist) : hist'[i] = hist[i]
  BY <1>1, <1>2
<1>4. Verify!Now' = o
  BY <1>3 DEF Verify!Now
<1>5. \A i \in 1 .. Len(hist') : i = Len(hist) + 1 \/ i \in 1 .. Len(hist)
  BY <1>1, <1>3
<1>6. ASSUME NEW i \in 1 .. Len(hist')
      PROVE  OrderOK(hist[i])' /\ hist'[i].fills \subseteq o.fills /\ (Verify!Over(hist'[i]) => i = Len(hist'))
  <2>1. CASE i = Len(hist) + 1
    BY <1>3, <2>1 DEF OrderOK
  <2>2. CASE i \in 1 .. Len(hist)
    <3>1. hist'[i] = hist[i] /\ OrderOK(hist[i]) /\ hist[i].fills \subseteq o.fills
      BY <1>1, <1>3, <2>2
    <3>2. OrderOK(hist[i])'
      BY <3>1 DEF OrderOK
    <3>3. ~Verify!Over(hist[i])
      BY <1>1, <2>2 DEF Verify!Now
    <3> QED BY <3>1, <3>2, <3>3
  <2> QED BY <1>5, <2>1, <2>2
<1>7. History'
  BY <1>3, <1>4, <1>6 DEF History
<1> QED BY <1>3, <1>4, <1>7

\* Every variable of a verification is in its domain.
VerifyTypes ==
  /\ kind \in {"new", "cancel", "reference", "table"} /\ tif \in {"IOC", "GFD"} /\ attempt \in 1 .. Attempts
  /\ verify_pc \in {"lookup", "orders", "compare", "done"}
  /\ seen \in [Verify!Lists -> 0 .. Len(hist)]
  /\ order_id \in {"none", "own", "changed"} /\ disturbed \in BOOLEAN /\ behind \in BOOLEAN

\* A row shows the fills and the status of a version of the order.
Shows(row, o) == row.filled = Verify!Filled(o) /\ row.status = Verify!CsvRow(o).status

\* What was read last is what some version of the order was, apart from the numbers of a disturbed list.
Reads ==
  /\ tracked.links \subseteq Verify!Now.fills
  /\ \A row \in tracked.orders :
       row \in Verify!Row /\ \E i \in 1 .. Len(hist) : Shows(row, hist[i]) /\ row.order_id \in {hist[i].id, "changed"}
  /\ IsFiniteSet(rows)
  /\ \A row \in rows :
       /\ row \in Verify!Row
       /\ row.order_id = "other" \/ \E i \in 1 .. Len(hist) : Shows(row, hist[i]) /\ row.order_id = hist[i].id

\* As long as no list was disturbed each shows the order as it was, once, and no trade before its order.
Undisturbed ==
  ~disturbed =>
    /\ order_id # "changed"
    /\ tracked.orders = {} => tracked.links = {}
    /\ tracked.orders # {} => \E i \in 1 .. Len(hist) : /\ tracked.orders = {Verify!CsvRow(hist[i])}
                                                        /\ tracked.links # {} => hist[i].id = "own"
    /\ rows \subseteq {Verify!Other} \/ \E i \in 1 .. Len(hist) : rows = {Verify!CsvRow(hist[i]), Verify!Other}

\* An attempt that is not behind has read the order as it is, and it is over.
Current ==
  ~behind /\ ~disturbed /\ verify_pc \in {"orders", "compare"} =>
    /\ Verify!Over(Verify!Now)
    /\ kind = "new" => /\ tracked.orders = {Verify!CsvRow(Verify!Now)}
                       /\ tracked.links = IF Verify!Now.id = "none" THEN {} ELSE Verify!Now.fills
    /\ verify_pc = "compare" => rows = {Verify!CsvRow(Verify!Now), Verify!Other}

\* What the rows of trades add up to.
Added(trades) == Verify!MapThenSumSet(LAMBDA row : row.volume, trades)

\* What an observation rests on: a version of the order, numbered or rejected, and trades of it that add up.
Observed ==
  /\ verification.orders # {}
  /\ \A row \in verification.orders :
       /\ \E i \in 1 .. Len(hist) : /\ Shows(row, hist[i]) /\ row.order_id = hist[i].id
                                    /\ hist[i].id = "none" => hist[i].end = "rejected"
       /\ kind = "new" =>
            /\ verification.trades \subseteq {Verify!TradeRow(t) : t \in Verify!Now.fills}
            /\ Added(verification.trades) = row.filled

\* The answer so far.
Results ==
  [status : {"pending", "observed", "ambiguous", "unavailable", "raised", "stable", "changing"},
   orders : SUBSET Verify!Row, trades : SUBSET {Verify!TradeRow(t) : t \in Trades}]

\* What the verification has concluded so far.
Outcome ==
  /\ verification \in Results
  /\ verification.status \in {"observed", "stable"} => verify_pc = "done"
  /\ verification.status = "observed" => Observed
  /\ Verify!NoFalseAlarm /\ Verify!PendingMeansBehind /\ Verify!StableIsConfirmed

\* The invariant of a verification.
VerifyInv == VerifyTypes /\ History /\ Reads /\ Undisturbed /\ Current /\ Outcome

\* The versions of the order.
LEMMA VersionIs ==
  ASSUME History
  PROVE  /\ Len(hist) \in Nat /\ Len(hist) > 0 /\ Verify!Now = hist[Len(hist)] /\ OrderOK(Verify!Now)
         /\ Len(hist) \in 1 .. Len(hist)
         /\ \A v \in 0 .. Len(hist) : v # 0 => v \in 1 .. Len(hist)
         /\ \A i \in 1 .. Len(hist) : /\ OrderOK(hist[i]) /\ hist[i].fills \subseteq Verify!Now.fills
                                      /\ hist[i].id \in {"none", "own"}
                                      /\ hist[i].end \in {"none", "cancelled", "rejected"}
  BY DEF History, Verify!Now, OrderOK, Orders

\* What the native lists answer: versions of the order and of its trades.
LEMMA SnapshotIs ==
  ASSUME History, NEW v \in 0 .. Len(hist), NEW w \in 0 .. Len(hist), NEW s \in Verify!Snapshots(v, w)
  PROVE  /\ s.links \subseteq Verify!Now.fills
         /\ \A row \in s.orders :
              row \in Verify!Row /\ \E i \in 1 .. Len(hist) : Shows(row, hist[i]) /\ row.order_id \in {hist[i].id, "changed"}
         /\ s.orders = {Verify!NativeRow(o) : o \in Verify!Shown(v)} =>
              /\ v = 0 => s.orders = {} /\ s.links = {}
              /\ v # 0 => /\ s.orders = {Verify!CsvRow(hist[v])}
                          /\ s.links = IF hist[v].id # "none" /\ w # 0 THEN hist[w].fills ELSE {}
<1> DEFINE shown == {Verify!NativeRow(o) : o \in Verify!Shown(v)}
           fills == UNION {o.fills : o \in Verify!Shown(w)}
           links == IF \E row \in shown : row.order_id # "none" THEN fills ELSE {}
           r == Verify!CsvRow(hist[v])
<1>1. v = 0 => shown = {}
  BY DEF Verify!Shown
<1>2. v # 0 => /\ shown = {r} /\ r \in Verify!Row /\ Shows(r, hist[v]) /\ r.order_id = hist[v].id /\ v \in 1 .. Len(hist)
  <2>1. v # 0 => v \in 1 .. Len(hist) /\ OrderOK(hist[v])
    BY VersionIs
  <2>2. v # 0 => shown = {Verify!NativeRow(hist[v])}
    BY DEF Verify!Shown
  <2> QED BY <2>1, <2>2, RowOf DEF Shows
<1>3. fills \subseteq Verify!Now.fills /\ fills = IF w = 0 THEN {} ELSE hist[w].fills
  BY VersionIs DEF Verify!Shown
<1>4. links \subseteq Verify!Now.fills
  BY <1>3
<1>5. v = 0 => links = {}
  BY <1>1
<1>6. v # 0 => links = IF hist[v].id # "none" THEN fills ELSE {}
  BY <1>2
<1>7. \/ s = [orders |-> shown, links |-> links]
      \/ shown # {} /\ s = [orders |-> shown \cup {[row EXCEPT !.line = 2] : row \in shown}, links |-> links]
      \/ links # {} /\ s = [orders |-> {[row EXCEPT !.order_id = "changed"] : row \in shown}, links |-> links]
  BY Zenon DEF Verify!Snapshots
<1> HIDE DEF shown, fills, links, r
<1>8. ASSUME v # 0
      PROVE  /\ [r EXCEPT !.line = 2] \in Verify!Row /\ [r EXCEPT !.order_id = "changed"] \in Verify!Row
             /\ Shows([r EXCEPT !.line = 2], hist[v]) /\ Shows([r EXCEPT !.order_id = "changed"], hist[v])
             /\ [r EXCEPT !.line = 2].order_id = r.order_id /\ [r EXCEPT !.order_id = "changed"].order_id = "changed"
  BY <1>2, <1>8 DEF Verify!Row, Shows
<1>9. \A row \in s.orders : v # 0 /\ row \in {r, [r EXCEPT !.line = 2], [r EXCEPT !.order_id = "changed"]}
  BY <1>1, <1>2, <1>7
<1>10. \A row \in s.orders :
         row \in Verify!Row /\ \E i \in 1 .. Len(hist) : Shows(row, hist[i]) /\ row.order_id \in {hist[i].id, "changed"}
  <2> SUFFICES ASSUME NEW row \in s.orders
               PROVE  row \in Verify!Row /\ Shows(row, hist[v]) /\ row.order_id \in {hist[v].id, "changed"} /\ v \in 1 .. Len(hist)
    OBVIOUS
  <2>1. v # 0 /\ row \in {r, [r EXCEPT !.line = 2], [r EXCEPT !.order_id = "changed"]}
    BY <1>9
  <2>2. CASE row = r
    BY <1>2, <2>1, <2>2
  <2>3. CASE row = [r EXCEPT !.line = 2]
    BY <1>2, <1>8, <2>1, <2>3
  <2>4. CASE row = [r EXCEPT !.order_id = "changed"]
    BY <1>2, <1>8, <2>1, <2>4
  <2> QED BY <2>1, <2>2, <2>3, <2>4
<1>11. s.links = links
  BY <1>7
<1>12. s.orders = shown => /\ v = 0 => s.orders = {} /\ s.links = {}
                           /\ v # 0 => /\ s.orders = {r}
                                       /\ s.links = IF hist[v].id # "none" /\ w # 0 THEN hist[w].fills ELSE {}
  BY <1>1, <1>2, <1>3, <1>5, <1>6, <1>11
<1> QED BY <1>4, <1>10, <1>11, <1>12 DEF shown, r

\* What the CSV of the orders shows: a version of the order.
LEMMA CsvIs ==
  ASSUME History, NEW v \in 0 .. Len(hist), NEW s \in Verify!CsvOrders(v)
  PROVE  /\ IsFiniteSet(s \cup {Verify!Other})
         /\ \A row \in s \cup {Verify!Other} :
              /\ row \in Verify!Row
              /\ row.order_id = "other" \/ \E i \in 1 .. Len(hist) : Shows(row, hist[i]) /\ row.order_id = hist[i].id
         /\ s = {Verify!CsvRow(o) : o \in Verify!Shown(v)} =>
              s = IF v = 0 THEN {} ELSE {Verify!CsvRow(hist[v])}
<1> DEFINE shown == {Verify!CsvRow(o) : o \in Verify!Shown(v)}
           r == Verify!CsvRow(hist[v])
<1>1. v = 0 => shown = {}
  BY DEF Verify!Shown
<1>2. v # 0 => /\ shown = {r} /\ r \in Verify!Row /\ Shows(r, hist[v]) /\ r.order_id = hist[v].id /\ v \in 1 .. Len(hist)
  <2>1. v # 0 => v \in 1 .. Len(hist) /\ OrderOK(hist[v])
    BY VersionIs
  <2>2. v # 0 => shown = {r}
    BY DEF Verify!Shown
  <2> QED BY <2>1, <2>2, RowOf DEF Shows
<1>3. \/ s = shown
      \/ shown # {} /\ s = shown \cup {[row EXCEPT !.line = 2] : row \in shown}
      \/ s = {[row EXCEPT !.same = FALSE] : row \in shown}
  BY Zenon DEF Verify!CsvOrders
<1> HIDE DEF shown, r
<1>4. ASSUME v # 0
      PROVE  /\ [r EXCEPT !.line = 2] \in Verify!Row /\ [r EXCEPT !.same = FALSE] \in Verify!Row
             /\ Shows([r EXCEPT !.line = 2], hist[v]) /\ Shows([r EXCEPT !.same = FALSE], hist[v])
             /\ [r EXCEPT !.line = 2].order_id = r.order_id /\ [r EXCEPT !.same = FALSE].order_id = r.order_id
  <2> DEFINE f == [r EXCEPT !.same = FALSE]
  <2>1. r \in Verify!Row /\ Shows(r, hist[v])
    BY <1>2, <1>4
  <2>2. /\ [r EXCEPT !.line = 2] \in Verify!Row /\ Shows([r EXCEPT !.line = 2], hist[v])
        /\ [r EXCEPT !.line = 2].order_id = r.order_id
    BY <2>1 DEF Verify!Row, Shows
  <2>3. f = [order_id |-> r.order_id, line |-> r.line, filled |-> r.filled, same |-> FALSE, status |-> r.status]
    <3>1. ASSUME NEW b
          PROVE  [r EXCEPT !.same = b]
                   = [order_id |-> r.order_id, line |-> r.line, filled |-> r.filled, same |-> b, status |-> r.status]
      BY <2>1 DEF Verify!Row
    <3> QED BY <3>1, Zenon
  <2>4. f.order_id = r.order_id /\ f.filled = r.filled /\ f.status = r.status
    BY <2>3
  <2>5. /\ r.order_id \in {"none", "own", "other", "changed"} /\ r.line \in 0 .. 2 /\ r.filled \in 0 .. Volume
        /\ r.status \in {"pending", "open", "partially_filled", "filled", "cancelled", "rejected"}
    BY <2>1, Zenon DEF Verify!Row
  <2>6. f \in Verify!Row
    <3> HIDE DEF f
    <3> QED BY <2>3, <2>5, Zenon DEF Verify!Row
  <2> HIDE DEF f
  <2> QED BY <2>1, <2>2, <2>4, <2>6, Zenon DEF f, Shows
<1>5. s \subseteq {r, [r EXCEPT !.line = 2], [r EXCEPT !.same = FALSE]} /\ (v = 0 => s = {})
  BY <1>1, <1>2, <1>3
<1>6. Verify!Other \in Verify!Row /\ Verify!Other.order_id = "other"
  BY OrderBounds DEF Verify!Other, Verify!Row
<1>7. ASSUME NEW row \in s
      PROVE  row \in Verify!Row /\ Shows(row, hist[v]) /\ row.order_id = hist[v].id /\ v \in 1 .. Len(hist)
  <2>1. v # 0 /\ row \in {r, [r EXCEPT !.line = 2], [r EXCEPT !.same = FALSE]}
    BY <1>5, <1>7
  <2>2. CASE row = r
    BY <1>2, <2>1, <2>2
  <2>3. CASE row = [r EXCEPT !.line = 2]
    BY <1>2, <1>4, <2>1, <2>3
  <2>4. CASE row = [r EXCEPT !.same = FALSE]
    BY <1>2, <1>4, <2>1, <2>4
  <2> QED BY <2>1, <2>2, <2>3, <2>4
<1>8. IsFiniteSet(s \cup {Verify!Other})
  <2> DEFINE a == [r EXCEPT !.line = 2]
             b == [r EXCEPT !.same = FALSE]
  <2> HIDE DEF a, b
  <2>1. IsFiniteSet({r}) /\ IsFiniteSet({a}) /\ IsFiniteSet({b}) /\ IsFiniteSet({Verify!Other})
    BY FS_Singleton
  <2>2. IsFiniteSet({r} \cup {a}) /\ IsFiniteSet({b} \cup {Verify!Other})
    BY <2>1, FS_Union
  <2>3. IsFiniteSet(({r} \cup {a}) \cup ({b} \cup {Verify!Other}))
    BY <2>2, FS_Union
  <2>4. s \cup {Verify!Other} \subseteq (({r} \cup {a}) \cup ({b} \cup {Verify!Other}))
    BY <1>5 DEF a, b
  <2> QED BY <2>3, <2>4, FS_Subset
<1>9. s = shown => s = IF v = 0 THEN {} ELSE {r}
  BY <1>1, <1>2
<1> QED BY <1>6, <1>7, <1>8, <1>9 DEF shown, r

\* The one row of a set of one.
LEMMA OnlyOne ==
  ASSUME NEW S, IsFiniteSet(S), S # {}, ~(Cardinality(S) > 1)
  PROVE  \E x : S = {x}
<1>1. Cardinality(S) \in Nat /\ Cardinality(S) # 0
  BY FS_CardinalityType, FS_EmptySet
<1>2. Cardinality(S) = 1
  BY <1>1
<1> QED BY <1>2, FS_Singleton

\* A row alone is the row that is taken, and there is no second one.
LEMMA Alone ==
  ASSUME NEW x
  PROVE  (CHOOSE y \in {x} : TRUE) = x /\ ~(Cardinality({x}) > 1) /\ {x} # {} /\ ~(Cardinality({}) > 1)
<1>1. Cardinality({x}) = 1 /\ Cardinality({}) = 0
  BY FS_Singleton, FS_EmptySet
<1>2. Chosen({x}) \in {x}
  BY ChosenIn
<1> QED BY <1>1, <1>2 DEF Chosen

\* The row that is taken for the native one.
Native == CHOOSE row \in tracked.orders : TRUE

\* The rows of the list that carry the number of the tracked order.
Selected == Verify!Numbered(Native.order_id)

\* The instance counts as the library does.
LEMMA SameCount == \A S : Verify!Cardinality(S) = Cardinality(S)
  BY Zenon DEF Verify!Cardinality, Cardinality

\* The branches of exact_order.
LEMMA ExactBranches ==
  Verify!exact_order =
    IF Cardinality(tracked.orders) > 1 THEN Verify!Refusal("ORDER_IDENTITY_AMBIGUOUS")
    ELSE IF tracked.orders = {} THEN Verify!Answer({}, FALSE)
    ELSE IF Native.order_id = "none" THEN Verify!Answer({Native}, Native.status = "rejected")
    ELSE IF Cardinality(Selected) > 1 THEN Verify!Refusal("ORDER_IDENTITY_AMBIGUOUS")
    ELSE IF Selected = {} THEN Verify!Answer({Native}, FALSE)
    ELSE IF \E row \in Selected : ~row.same THEN Verify!Refusal("TERMINAL_DATA_INVALID")
    ELSE Verify!Answer(Selected, TRUE)
<1>1. Verify!exact_order =
        IF Verify!Cardinality(tracked.orders) > 1 THEN Verify!Refusal("ORDER_IDENTITY_AMBIGUOUS")
        ELSE IF tracked.orders = {} THEN Verify!Answer({}, FALSE)
        ELSE IF Native.order_id = "none" THEN Verify!Answer({Native}, Native.status = "rejected")
        ELSE IF Verify!Cardinality(Selected) > 1 THEN Verify!Refusal("ORDER_IDENTITY_AMBIGUOUS")
        ELSE IF Selected = {} THEN Verify!Answer({Native}, FALSE)
        ELSE IF \E row \in Selected : ~row.same THEN Verify!Refusal("TERMINAL_DATA_INVALID")
        ELSE Verify!Answer(Selected, TRUE)
  BY Zenon DEF Verify!exact_order, Native, Selected
<1>2. Verify!Cardinality(tracked.orders) = Cardinality(tracked.orders) /\ Verify!Cardinality(Selected) = Cardinality(Selected)
  BY SameCount, Zenon
<1> QED BY <1>1, <1>2, Zenon

\* The fields of an answer.
LEMMA AnswerFields ==
  /\ \A s, c : Verify!Answer(s, c).orders = s /\ Verify!Answer(s, c).error = "NONE"
  /\ \A s : Verify!Answer(s, TRUE).complete /\ ~Verify!Answer(s, FALSE).complete
  /\ \A s : \A c \in BOOLEAN : Verify!Answer(s, c).complete <=> c
  /\ \A c : Verify!Refusal(c).orders = {} /\ ~Verify!Refusal(c).complete /\ Verify!Refusal(c).error = c
  BY Zenon DEF Verify!Answer, Verify!Refusal

\* The rows of an answer, whether or not it is complete.
LEMMA AnswerRows == \A s, c : Verify!Answer(s, c).orders = s /\ Verify!Answer(s, c).error = "NONE"
  BY Zenon DEF Verify!Answer

\* A complete answer names one row: a version of the order, from the CSV or rejected without a number.
LEMMA ExactIs ==
  ASSUME History, Reads
  PROVE  /\ Verify!exact_order.error \in {"NONE", "ORDER_IDENTITY_AMBIGUOUS", "TERMINAL_DATA_INVALID"}
         /\ Verify!exact_order.orders \subseteq Verify!Row
         /\ tracked.orders = {} => Verify!exact_order.orders = {}
         /\ Verify!exact_order.complete =>
              \E row : /\ Verify!exact_order.orders = {row}
                       /\ row \in rows \/ (row.order_id = "none" /\ row.status = "rejected")
                       /\ \E i \in 1 .. Len(hist) : /\ Shows(row, hist[i]) /\ row.order_id = hist[i].id
                                                    /\ hist[i].id = "none" => hist[i].end = "rejected"
<1> DEFINE E == Verify!exact_order
<1>1. tracked.orders # {} => Native \in tracked.orders
  <2>1. tracked.orders # {} => Chosen(tracked.orders) \in tracked.orders
    BY ChosenIn
  <2> QED BY <2>1, Zenon DEF Native, Chosen
<1>2. tracked.orders # {} =>
        /\ Native \in Verify!Row
        /\ \E i \in 1 .. Len(hist) : Shows(Native, hist[i]) /\ Native.order_id \in {hist[i].id, "changed"}
  BY <1>1 DEF Reads
<1>3. Selected \subseteq rows /\ \A row \in Selected : row.order_id = Native.order_id
  BY DEF Selected, Verify!Numbered
<1>4. rows \subseteq Verify!Row
  BY DEF Reads
<1>5. IsFiniteSet(Selected)
  BY <1>3, FS_Subset DEF Reads
<1>6. E = Verify!exact_order
  OBVIOUS
<1> HIDE DEF E
<1>7. \/ E = Verify!Refusal("ORDER_IDENTITY_AMBIGUOUS")
      \/ E = Verify!Refusal("TERMINAL_DATA_INVALID")
      \/ E = Verify!Answer({}, FALSE)
      \/ E = Verify!Answer({Native}, FALSE) /\ tracked.orders # {}
      \/ /\ E = Verify!Answer({Native}, Native.status = "rejected") /\ tracked.orders # {} /\ Native.order_id = "none"
      \/ /\ E = Verify!Answer(Selected, TRUE) /\ tracked.orders # {} /\ Native.order_id # "none"
         /\ Selected # {} /\ ~(Cardinality(Selected) > 1)
  BY <1>6, ExactBranches, Zenon
<1>8. CASE E = Verify!Refusal("ORDER_IDENTITY_AMBIGUOUS") \/ E = Verify!Refusal("TERMINAL_DATA_INVALID")
           \/ E = Verify!Answer({}, FALSE)
  <2>1. E.orders = {} /\ ~E.complete /\ E.error \in {"NONE", "ORDER_IDENTITY_AMBIGUOUS", "TERMINAL_DATA_INVALID"}
    <3>1. CASE E = Verify!Refusal("ORDER_IDENTITY_AMBIGUOUS")
      BY <3>1, AnswerFields, Zenon
    <3>2. CASE E = Verify!Refusal("TERMINAL_DATA_INVALID")
      BY <3>2, AnswerFields, Zenon
    <3>3. CASE E = Verify!Answer({}, FALSE)
      BY <3>3, AnswerFields, Zenon
    <3> QED BY <1>8, <3>1, <3>2, <3>3
  <2> QED BY <1>6, <2>1
<1>9. CASE E = Verify!Answer({Native}, FALSE) /\ tracked.orders # {}
  <2>1. E.orders = {Native} /\ ~E.complete /\ E.error = "NONE"
    BY <1>9, AnswerFields, Zenon
  <2> QED BY <1>2, <1>6, <1>9, <2>1
<1>10. CASE E = Verify!Answer({Native}, Native.status = "rejected") /\ tracked.orders # {} /\ Native.order_id = "none"
  <2>1. E.orders = {Native} /\ (E.complete <=> Native.status = "rejected") /\ E.error = "NONE"
    <3>1. (Native.status = "rejected") \in BOOLEAN
      OBVIOUS
    <3>2. E.complete <=> Native.status = "rejected"
      BY <1>10, <3>1, AnswerFields, Zenon
    <3> QED BY <1>10, <3>2, AnswerRows, Zenon
  <2>2. PICK i \in 1 .. Len(hist) : Shows(Native, hist[i]) /\ Native.order_id \in {hist[i].id, "changed"}
    BY <1>2, <1>10
  <2>3. hist[i].id = "none" /\ OrderOK(hist[i])
    BY <1>10, <2>2, VersionIs
  <2>4. Native.status = "rejected" => hist[i].end = "rejected"
    BY <2>2, <2>3, RowOf DEF Shows
  <2> QED BY <1>2, <1>6, <1>10, <2>1, <2>2, <2>3, <2>4
<1>11. CASE /\ E = Verify!Answer(Selected, TRUE) /\ tracked.orders # {} /\ Native.order_id # "none"
            /\ Selected # {} /\ ~(Cardinality(Selected) > 1)
  <2>1. E.orders = Selected /\ E.error = "NONE"
    BY <1>11, AnswerFields
  <2>2. PICK row : Selected = {row}
    BY <1>5, <1>11, OnlyOne
  <2>3. row \in rows /\ row.order_id = Native.order_id
    BY <1>3, <2>2
  <2>4. PICK j \in 1 .. Len(hist) : Native.order_id \in {hist[j].id, "changed"}
    BY <1>2, <1>11
  <2>5. row.order_id \notin {"other", "none"}
    BY <1>11, <2>3, <2>4, VersionIs
  <2>6. PICK i \in 1 .. Len(hist) : Shows(row, hist[i]) /\ row.order_id = hist[i].id
    BY <2>3, <2>5 DEF Reads
  <2> QED BY <1>3, <1>4, <1>6, <1>11, <2>1, <2>2, <2>3, <2>5, <2>6
<1> QED BY <1>7, <1>8, <1>9, <1>10, <1>11

\* Undisturbed lists are never refused, and the row that is taken has the number of the trades that are linked.
LEMMA ExactUndisturbed ==
  ASSUME History, Undisturbed, ~disturbed
  PROVE  /\ Verify!exact_order.error = "NONE"
         /\ tracked.orders = {} => tracked.links = {}
         /\ Verify!exact_order.orders = {} \/ \E row : /\ Verify!exact_order.orders = {row}
                                                       /\ tracked.links # {} => row.order_id = "own"
<1> DEFINE E == Verify!exact_order
<1>1. E = Verify!exact_order
  OBVIOUS
<1> HIDE DEF E
<1>2. CASE tracked.orders = {}
  <2>1. E = Verify!Answer({}, FALSE)
    BY <1>1, <1>2, ExactBranches, Alone
  <2>2. E.orders = {} /\ E.error = "NONE"
    BY <2>1, AnswerFields, Zenon
  <2>3. tracked.links = {}
    BY <1>2, Zenon DEF Undisturbed
  <2> QED BY <1>1, <2>2, <2>3
<1>3. CASE tracked.orders # {}
  <2>1. PICK i \in 1 .. Len(hist) : /\ tracked.orders = {Verify!CsvRow(hist[i])}
                                    /\ tracked.links # {} => hist[i].id = "own"
    BY <1>3 DEF Undisturbed
  <2> DEFINE r == Verify!CsvRow(hist[i])
  <2>2. r.order_id = hist[i].id /\ hist[i].id \in {"none", "own"}
    BY VersionIs, RowOf
  <2> HIDE DEF r
  <2>3. Native = r /\ ~(Cardinality(tracked.orders) > 1)
    BY <2>1, Alone DEF Native, r
  <2>4. \/ E = Verify!Answer({r}, Native.status = "rejected")
        \/ E = Verify!Answer({r}, FALSE)
        \/ E = Verify!Answer(Selected, TRUE) /\ r.order_id = "own" /\ \E x : Selected = {x} /\ x.order_id = "own"
    <3>1. CASE Native.order_id = "none"
      BY <1>1, <1>3, <2>3, <3>1, ExactBranches
    <3>2. CASE Native.order_id # "none"
      <4>1. r.order_id = "own"
        BY <2>2, <2>3, <3>2
      <4>2. Selected = {row \in rows : row.order_id = "own"}
        BY <2>3, <4>1 DEF Selected, Verify!Numbered
      <4>3. Verify!Other.order_id = "other"
        BY DEF Verify!Other
      <4>4. Selected = {} \/ \E x : Selected = {x} /\ x.order_id = "own" /\ x.same
        <5>1. CASE rows \subseteq {Verify!Other}
          BY <4>2, <4>3, <5>1
        <5>2. CASE \E j \in 1 .. Len(hist) : rows = {Verify!CsvRow(hist[j]), Verify!Other}
          <6>1. PICK j \in 1 .. Len(hist) : rows = {Verify!CsvRow(hist[j]), Verify!Other}
            BY <5>2
          <6>2. Verify!CsvRow(hist[j]).same
            BY VersionIs, RowOf
          <6> QED BY <4>2, <4>3, <6>1, <6>2
        <5> QED BY <5>1, <5>2 DEF Undisturbed
      <4>5. ~(Cardinality(Selected) > 1)
        BY <4>4, Alone
      <4>6. Selected # {} => ~\E row \in Selected : ~row.same
        BY <4>4
      <4>7. CASE Selected = {}
        BY <1>1, <1>3, <2>3, <3>2, <4>5, <4>7, ExactBranches, Zenon
      <4>8. CASE Selected # {}
        <5>1. E = Verify!Answer(Selected, TRUE)
          BY <1>1, <1>3, <2>3, <3>2, <4>5, <4>6, <4>8, ExactBranches, Zenon
        <5> QED BY <4>1, <4>4, <4>8, <5>1
      <4> QED BY <4>7, <4>8
    <3> QED BY <3>1, <3>2
  <2>5. E.error = "NONE" /\ (E.orders = {r} \/ \E x : E.orders = {x} /\ x.order_id = "own")
    <3>1. CASE E = Verify!Answer({r}, Native.status = "rejected")
      BY <3>1, AnswerRows, Zenon
    <3>2. CASE E = Verify!Answer({r}, FALSE)
      BY <3>2, AnswerRows, Zenon
    <3>3. CASE E = Verify!Answer(Selected, TRUE) /\ \E x : Selected = {x} /\ x.order_id = "own"
      BY <3>3, AnswerRows, Zenon
    <3> QED BY <2>4, <3>1, <3>2, <3>3
  <2> QED BY <1>1, <1>3, <2>1, <2>2, <2>5
<1> QED BY <1>2, <1>3

\* Lists that all show the order as it is, over, make the answer complete.
LEMMA ExactCurrent ==
  ASSUME History, Verify!Over(Verify!Now), tracked.orders = {Verify!CsvRow(Verify!Now)},
         rows = {Verify!CsvRow(Verify!Now), Verify!Other}
  PROVE  Verify!exact_order = Verify!Answer({Verify!CsvRow(Verify!Now)}, TRUE)
<1> DEFINE r == Verify!CsvRow(Verify!Now)
<1>1. /\ OrderOK(Verify!Now) /\ r.order_id = Verify!Now.id /\ r.same /\ r.order_id \in {"none", "own"}
      /\ r.status = "rejected" <=> Verify!Now.end = "rejected"
  <2>1. OrderOK(Verify!Now)
    BY VersionIs
  <2>2. Verify!Now.id \in {"none", "own"}
    BY <2>1 DEF OrderOK, Orders
  <2>3. r.order_id = Verify!Now.id /\ r.same /\ (r.status = "rejected" <=> Verify!Now.end = "rejected")
    BY <2>1, RowOf
  <2> QED BY <2>1, <2>2, <2>3
<1>2. Native = r /\ ~(Cardinality(tracked.orders) > 1) /\ tracked.orders # {}
  BY Alone DEF Native
<1>3. CASE r.order_id = "none"
  <2>1. Verify!Now.fills = {} /\ Verify!Now.end # "cancelled" /\ Verify!Now.end \in {"none", "cancelled", "rejected"}
    BY <1>1, <1>3 DEF OrderOK, Orders
  <2>2. Verify!Filled(Verify!Now) = 0
    <3>1. {} \in SUBSET Trades /\ IsFiniteSet({})
      BY FS_EmptySet
    <3> QED BY <2>1, <3>1, FilledIs DEF Verify!Filled
  <2>3. Verify!Now.end = "rejected"
    BY <2>1, <2>2, OrderBounds DEF Verify!Over
  <2>4. (Native.status = "rejected") = TRUE
    BY <1>1, <1>2, <2>3
  <2> QED BY <1>2, <1>3, <2>4, ExactBranches
<1>4. CASE r.order_id # "none"
  <2>1. Verify!Other.order_id = "other"
    BY DEF Verify!Other
  <2>2. Selected = {r}
    BY <1>1, <1>2, <1>4, <2>1 DEF Selected, Verify!Numbered
  <2>3. ~(Cardinality(Selected) > 1) /\ Selected # {} /\ ~\E row \in Selected : ~row.same
    BY <1>1, <2>2, Alone
  <2> QED BY <1>2, <1>4, <2>2, <2>3, ExactBranches
<1> QED BY <1>3, <1>4

\* A step of the exchange: what was read stays true of an earlier version, and what is over does not move.
LEMMA VerifyExchange == VerifyInv /\ Verify!Exchange => VerifyInv'
<1> SUFFICES ASSUME VerifyInv, Verify!Exchange PROVE VerifyInv'
  OBVIOUS
<1>0. VerifyTypes /\ History /\ Reads /\ Undisturbed /\ Current /\ Outcome
  BY Zenon DEF VerifyInv
<1>1. PICK o : Verify!Becomes(o) /\ OrderOK(o) /\ Verify!Now.fills \subseteq o.fills /\ ~Verify!Over(Verify!Now)
  BY <1>0, ExchangeIs
<1>2. /\ hist' = Append(hist, o)
      /\ UNCHANGED kind /\ UNCHANGED tif /\ UNCHANGED seen /\ UNCHANGED verify_pc /\ UNCHANGED attempt
      /\ UNCHANGED tracked /\ UNCHANGED rows /\ UNCHANGED order_id /\ UNCHANGED previous
      /\ UNCHANGED verification /\ UNCHANGED disturbed /\ UNCHANGED behind
  BY <1>1, Zenon DEF Verify!Becomes
<1>3. /\ History' /\ Len(hist') = Len(hist) + 1 /\ Verify!Now' = o
      /\ \A i \in 1 .. Len(hist) : hist'[i] = hist[i]
  BY <1>0, <1>1, <1>2, HistoryGrows
<1>4. Len(hist) \in Nat
  BY <1>0, VersionIs
<1>5. \A i \in 1 .. Len(hist) : i \in 1 .. Len(hist')
  BY <1>3, <1>4
<1>6. VerifyTypes'
  <2>1. seen' \in [Verify!Lists -> 0 .. Len(hist')]
    BY <1>0, <1>2, <1>3, <1>4 DEF VerifyTypes
  <2> QED BY <1>0, <1>2, <2>1, Zenon DEF VerifyTypes, Verify!Lists
<1>7. Reads'
  <2>1. tracked'.links \subseteq Verify!Now'.fills
    BY <1>0, <1>1, <1>2, <1>3 DEF Reads
  <2>2. ASSUME NEW row \in tracked.orders
        PROVE  row \in Verify!Row /\ \E i \in 1 .. Len(hist') : Shows(row, hist'[i]) /\ row.order_id \in {hist'[i].id, "changed"}
    <3>1. PICK i \in 1 .. Len(hist) : Shows(row, hist[i]) /\ row.order_id \in {hist[i].id, "changed"}
      BY <1>0, <2>2 DEF Reads
    <3>2. row \in Verify!Row
      BY <1>0, <2>2 DEF Reads
    <3> QED BY <1>3, <1>5, <3>1, <3>2, Zenon
  <2>3. ASSUME NEW row \in rows
        PROVE  /\ row \in Verify!Row
               /\ row.order_id = "other" \/ \E i \in 1 .. Len(hist') : Shows(row, hist'[i]) /\ row.order_id = hist'[i].id
    BY <1>0, <1>3, <1>5, <2>3, Zenon DEF Reads
  <2>4. IsFiniteSet(rows')
    BY <1>0, <1>2 DEF Reads
  <2> QED BY <1>2, <2>1, <2>2, <2>3, <2>4, Zenon DEF Reads, Shows, Verify!Row
<1>8. Undisturbed'
  <2>1. ASSUME ~disturbed, tracked.orders # {}
        PROVE  \E i \in 1 .. Len(hist') : tracked.orders = {Verify!CsvRow(hist'[i])} /\ (tracked.links # {} => hist'[i].id = "own")
    <3>1. PICK i \in 1 .. Len(hist) : tracked.orders = {Verify!CsvRow(hist[i])} /\ (tracked.links # {} => hist[i].id = "own")
      BY <1>0, <2>1 DEF Undisturbed
    <3> QED BY <1>3, <1>5, <3>1, Zenon
  <2>2. ASSUME ~disturbed, ~(rows \subseteq {Verify!Other})
        PROVE  \E i \in 1 .. Len(hist') : rows = {Verify!CsvRow(hist'[i]), Verify!Other}
    <3>1. PICK i \in 1 .. Len(hist) : rows = {Verify!CsvRow(hist[i]), Verify!Other}
      BY <1>0, <2>2 DEF Undisturbed
    <3> QED BY <1>3, <1>5, <3>1, Zenon
  <2>3. ~disturbed => order_id # "changed" /\ (tracked.orders = {} => tracked.links = {})
    BY <1>0, Zenon DEF Undisturbed
  <2> QED BY <1>2, <2>1, <2>2, <2>3, Zenon DEF Undisturbed, Verify!Other
<1>9. Current'
  <2>1. behind \/ disturbed \/ verify_pc \notin {"orders", "compare"}
    BY <1>0, <1>1, Zenon DEF Current
  <2> QED BY <1>2, <2>1, Zenon DEF Current
<1>10. Outcome'
  <2>1. verification.status = "observed" => Observed'
    <3> SUFFICES ASSUME verification.status = "observed" PROVE Observed'
      OBVIOUS
    <3>1. Observed
      BY <1>0, Zenon DEF Outcome
    <3>2. ASSUME NEW row \in verification.orders
          PROVE  \E i \in 1 .. Len(hist') : /\ Shows(row, hist'[i]) /\ row.order_id = hist'[i].id
                                            /\ hist'[i].id = "none" => hist'[i].end = "rejected"
      <4>1. PICK i \in 1 .. Len(hist) : /\ Shows(row, hist[i]) /\ row.order_id = hist[i].id
                                        /\ hist[i].id = "none" => hist[i].end = "rejected"
        BY <3>1, <3>2 DEF Observed
      <4> QED BY <1>3, <1>5, <4>1, Zenon
    <3>3. verification.trades \subseteq {Verify!TradeRow(t) : t \in Verify!Now.fills} =>
            verification.trades \subseteq {Verify!TradeRow(t) : t \in Verify!Now'.fills}
      BY <1>1, <1>3
    <3>4. verification.orders # {} /\ \A row \in verification.orders : kind = "new" =>
            /\ verification.trades \subseteq {Verify!TradeRow(t) : t \in Verify!Now.fills}
            /\ Added(verification.trades) = row.filled
      BY <3>1, Zenon DEF Observed
    <3>5. verification'.trades = verification.trades /\ verification'.orders = verification.orders /\ kind' = kind
      BY <1>2
    <3>6. Added(verification'.trades) = Added(verification.trades)
      BY <3>5, Zenon
    <3> QED BY <3>2, <3>3, <3>4, <3>5, <3>6, Zenon DEF Observed, Shows
  <2> QED BY <1>0, <1>2, <2>1, Zenon DEF Outcome, Verify!Row, Verify!NoFalseAlarm, Verify!PendingMeansBehind, Verify!StableIsConfirmed
<1> QED BY <1>3, <1>6, <1>7, <1>8, <1>9, <1>10, Zenon DEF VerifyInv

\* Nothing changes.
LEMMA VerifyStutter == VerifyInv /\ UNCHANGED verifyVars => VerifyInv'
<1> SUFFICES ASSUME VerifyInv, UNCHANGED verifyVars PROVE VerifyInv'
  OBVIOUS
<1>0. VerifyTypes /\ History /\ Reads /\ Undisturbed /\ Current /\ Outcome
  BY Zenon DEF VerifyInv
<1>1. /\ UNCHANGED kind /\ UNCHANGED tif /\ UNCHANGED hist /\ UNCHANGED seen /\ UNCHANGED verify_pc
      /\ UNCHANGED attempt /\ UNCHANGED tracked /\ UNCHANGED rows /\ UNCHANGED order_id /\ UNCHANGED previous
      /\ UNCHANGED verification /\ UNCHANGED disturbed /\ UNCHANGED behind
  BY Zenon DEF verifyVars
<1>2. VerifyTypes'
  BY <1>0, <1>1, Zenon DEF VerifyTypes, Verify!Lists
<1>3. History'
  BY <1>0, <1>1, Zenon DEF History, OrderOK, Orders, Verify!Now, Verify!Over, Verify!Filled
<1>4. Reads'
  BY <1>0, <1>1, Zenon DEF Reads, Shows, Verify!Now
<1>5. Undisturbed'
  BY <1>0, <1>1, Zenon DEF Undisturbed
<1>6. Current'
  BY <1>0, <1>1, Zenon DEF Current, Verify!Now
<1>7. Outcome'
  BY <1>0, <1>1, Zenon DEF Outcome, Observed, Shows, Verify!Now, Verify!NoFalseAlarm, Verify!PendingMeansBehind,
    Verify!StableIsConfirmed
<1> QED BY <1>2, <1>3, <1>4, <1>5, <1>6, <1>7, Zenon DEF VerifyInv

\* Only the exchange changes the history.
LEMMA HistoryStays == History /\ UNCHANGED hist /\ UNCHANGED kind => History'
  BY Zenon DEF History, OrderOK, Orders, Verify!Now, Verify!Over, Verify!Filled

\* The loop goes on: the answer of the previous attempt stays.
LEMMA OutcomeStays ==
  ASSUME Outcome, UNCHANGED verification, UNCHANGED kind, verify_pc # "done", verify_pc' # "done", disturbed => disturbed'
  PROVE  Outcome'
<1>1. verification.status \notin {"observed", "stable"}
  BY Zenon DEF Outcome
<1>2. verification' \in Results
  BY Zenon DEF Outcome
<1>3. verification.status \in {"ambiguous", "unavailable", "raised"} => disturbed'
  BY Zenon DEF Outcome, Verify!NoFalseAlarm
<1> QED BY <1>1, <1>2, <1>3, Zenon DEF Outcome, Results, Verify!Row, Verify!NoFalseAlarm, Verify!PendingMeansBehind, Verify!StableIsConfirmed

\* An error ends the verification.
LEMMA EndsIs ==
  ASSUME Outcome, NEW code, Verify!Ends(code)
  PROVE  /\ verify_pc' = "done" /\ UNCHANGED kind /\ UNCHANGED tif /\ UNCHANGED hist /\ UNCHANGED attempt
         /\ disturbed' => Outcome'
<1>1. /\ verify_pc' = "done" /\ UNCHANGED kind /\ UNCHANGED tif /\ UNCHANGED hist /\ UNCHANGED attempt
  BY Zenon DEF Verify!Ends, Verify!Goto
<1>2. \E s \in {"ambiguous", "unavailable", "raised"} : verification' = [verification EXCEPT !.status = s]
  BY Zenon DEF Verify!Ends
<1>3. PICK s \in {"ambiguous", "unavailable", "raised"} : verification' = [verification EXCEPT !.status = s]
  BY <1>2
<1>4. verification \in Results
  BY Zenon DEF Outcome
<1>5. verification' \in Results /\ verification'.status = s
  BY <1>3, <1>4 DEF Results
<1>6. disturbed' => Outcome'
  <2>1. s \notin {"observed", "stable", "pending"}
    BY <1>3
  <2>2. verification'.status \notin {"observed", "stable", "pending"}
    BY <1>5, <2>1
  <2> QED BY <1>5, <2>2, Zenon DEF Outcome, Results, Verify!Row, Verify!NoFalseAlarm, Verify!PendingMeansBehind, Verify!StableIsConfirmed
<1> QED BY <1>1, <1>6

\* An attempt ends with an answer, and the next one begins or the last one was it.
LEMMA AgainIs ==
  ASSUME VerifyTypes, NEW verdict, Verify!Again(verdict) \/ Verify!Concludes(verdict)
  PROVE  /\ verification' = verdict /\ UNCHANGED kind /\ UNCHANGED tif /\ UNCHANGED hist
         /\ attempt' \in 1 .. Attempts /\ verify_pc' \in {"lookup", "done"}
         /\ Verify!Concludes(verdict) /\ verdict.status \in {"observed", "stable"} => verify_pc' = "done"
<1>1. attempt \in 1 .. Attempts /\ Attempts \in Nat
  BY OrderBounds DEF VerifyTypes
<1>2. CASE Verify!Again(verdict)
  <2>1. /\ verification' = verdict /\ UNCHANGED kind /\ UNCHANGED tif /\ UNCHANGED hist
        /\ \/ verify_pc' = "done" /\ attempt' = attempt
           \/ attempt # Attempts /\ verify_pc' = "lookup" /\ attempt' = attempt + 1
    BY <1>2, Zenon DEF Verify!Again
  <2>2. attempt' \in 1 .. Attempts
    BY <1>1, <2>1
  <2>3. Verify!Concludes(verdict) /\ verdict.status \in {"observed", "stable"} => verify_pc' = "done"
    BY Zenon DEF Verify!Concludes, Verify!Goto
  <2> QED BY <2>1, <2>2, <2>3
<1>3. CASE Verify!Concludes(verdict) /\ verdict.status \in {"observed", "stable"}
  <2>1. /\ verification' = verdict /\ UNCHANGED kind /\ UNCHANGED tif /\ UNCHANGED hist
        /\ verify_pc' = "done" /\ attempt' = attempt
    BY <1>3, Zenon DEF Verify!Concludes, Verify!Goto
  <2> QED BY <1>1, <2>1
<1> QED BY <1>2, <1>3, Zenon DEF Verify!Concludes

\* A comparison leaves what was read as it is.
LEMMA VerifyCompared ==
  ASSUME VerifyInv, UNCHANGED kind, UNCHANGED tif, UNCHANGED hist, UNCHANGED tracked, UNCHANGED rows, UNCHANGED order_id,
         UNCHANGED disturbed, attempt' \in 1 .. Attempts, verify_pc' \in {"lookup", "done"},
         seen' \in [Verify!Lists -> 0 .. Len(hist)], behind' \in BOOLEAN, Outcome'
  PROVE  VerifyInv'
<1>0. VerifyTypes /\ History /\ Reads /\ Undisturbed
  BY Zenon DEF VerifyInv
<1>1. VerifyTypes'
  BY <1>0, Zenon DEF VerifyTypes, Verify!Lists
<1>2. History'
  BY <1>0, HistoryStays, Zenon
<1>3. Reads'
  BY <1>0, Zenon DEF Reads, Shows, Verify!Now
<1>4. Undisturbed'
  BY <1>0, Zenon DEF Undisturbed
<1>5. Current'
  <2>1. verify_pc' \notin {"orders", "compare"}
    OBVIOUS
  <2> QED BY <2>1, Zenon DEF Current
<1> QED BY <1>1, <1>2, <1>3, <1>4, <1>5, Zenon DEF VerifyInv

\* The numbers that a snapshot of versions of the order can have.
LEMMA IdentifiersOf ==
  ASSUME NEW s, \A row \in s.orders : row.order_id \in {"none", "own", "changed"}
  PROVE  /\ Verify!Identifiers(s) \subseteq {"own", "changed"}
         /\ (\A row \in s.orders : row.order_id # "changed") => Verify!Identifiers(s) \subseteq {"own"}
  BY DEF Verify!Identifiers

\* The lookup of the reference.
LEMMA VerifyLookup == VerifyInv /\ Verify!Lookup => VerifyInv'
<1> SUFFICES ASSUME VerifyInv, Verify!Lookup PROVE VerifyInv'
  OBVIOUS
<1>0. VerifyTypes /\ History /\ Reads /\ Undisturbed /\ Outcome
  BY Zenon DEF VerifyInv
<1>1. PICK v \in Verify!Versions("native_orders"), w \in Verify!Versions("native_trades") :
        \E snapshot \in Verify!Snapshots(v, w) :
          /\ tracked' = snapshot
          /\ disturbed' = (disturbed \/ snapshot.orders # {Verify!NativeRow(o) : o \in Verify!Shown(v)})
          /\ Verify!Identify(snapshot)
          /\ seen' = [seen EXCEPT !["native_orders"] = v, !["native_trades"] = w]
          /\ behind' = (~Verify!Over(Verify!Now) \/ v < Len(hist) \/ w < Len(hist))
  BY Zenon DEF Verify!Lookup
<1>2. PICK s \in Verify!Snapshots(v, w) :
        /\ tracked' = s
        /\ disturbed' = (disturbed \/ s.orders # {Verify!NativeRow(o) : o \in Verify!Shown(v)})
        /\ Verify!Identify(s)
        /\ seen' = [seen EXCEPT !["native_orders"] = v, !["native_trades"] = w]
        /\ behind' = (~Verify!Over(Verify!Now) \/ v < Len(hist) \/ w < Len(hist))
  BY <1>1
<1>3. verify_pc = "lookup" /\ UNCHANGED rows
  BY Zenon DEF Verify!Lookup
<1>4. /\ Len(hist) \in Nat /\ Len(hist) > 0 /\ seen \in [Verify!Lists -> 0 .. Len(hist)] /\ disturbed \in BOOLEAN
      /\ order_id \in {"none", "own", "changed"}
  BY <1>0, VersionIs DEF VerifyTypes
<1>5. v \in 0 .. Len(hist) /\ w \in 0 .. Len(hist)
  <2>1. seen["native_orders"] \in 0 .. Len(hist) /\ seen["native_trades"] \in 0 .. Len(hist)
    BY <1>4 DEF Verify!Lists
  <2> QED BY <1>1, <1>4, <2>1 DEF Verify!Versions
<1>6. seen' \in [Verify!Lists -> 0 .. Len(hist)] /\ behind' \in BOOLEAN /\ disturbed' \in BOOLEAN
  <2>1. seen' \in [Verify!Lists -> 0 .. Len(hist)]
    BY <1>2, <1>4, <1>5 DEF Verify!Lists
  <2> QED BY <1>2, <2>1, Zenon
<1> DEFINE same == s.orders = {Verify!NativeRow(o) : o \in Verify!Shown(v)}
<1>7. ~disturbed' => ~disturbed /\ same
  BY <1>2, <1>4, Zenon
<1>8. disturbed => disturbed'
  BY <1>2, <1>4, Zenon
<1>9. /\ s.links \subseteq Verify!Now.fills
      /\ \A row \in s.orders :
           row \in Verify!Row /\ \E i \in 1 .. Len(hist) : Shows(row, hist[i]) /\ row.order_id \in {hist[i].id, "changed"}
  BY <1>0, <1>5, SnapshotIs, Zenon
<1>10. same => /\ v = 0 => s.orders = {} /\ s.links = {}
               /\ v # 0 => /\ s.orders = {Verify!CsvRow(hist[v])}
                           /\ s.links = IF hist[v].id # "none" /\ w # 0 THEN hist[w].fills ELSE {}
  BY <1>0, <1>5, SnapshotIs, Zenon
<1> HIDE DEF same
<1>11. Verify!Identifiers(s) \subseteq {"own", "changed"}
  <2>1. \A row \in s.orders : row.order_id \in {"none", "own", "changed"}
    BY <1>0, <1>9, VersionIs
  <2> QED BY <2>1, IdentifiersOf
<1>12. same => Verify!Identifiers(s) \subseteq {"own"}
  <2> SUFFICES ASSUME same PROVE Verify!Identifiers(s) \subseteq {"own"}
    OBVIOUS
  <2>1. v # 0 => v \in 1 .. Len(hist) /\ OrderOK(hist[v]) /\ hist[v].id \in {"none", "own"}
    BY <1>0, <1>5, VersionIs
  <2>2. \A row \in s.orders : row.order_id \in {"none", "own"}
    <3>1. CASE v = 0
      BY <1>10, <3>1
    <3>2. CASE v # 0
      <4>1. Verify!CsvRow(hist[v]).order_id \in {"none", "own"}
        BY <2>1, <3>2, RowOf
      <4> QED BY <1>10, <3>2, <4>1
    <3> QED BY <3>1, <3>2
  <2> QED BY <2>2, IdentifiersOf
<1>13. UNCHANGED kind /\ UNCHANGED tif /\ UNCHANGED hist /\ UNCHANGED attempt
  <2>1. \/ Verify!Ends("ORDER_IDENTITY_AMBIGUOUS")
        \/ Verify!Goto("orders")
    BY <1>2, Zenon DEF Verify!Identify
  <2> QED BY <2>1, Zenon DEF Verify!Ends, Verify!Goto
<1>14. \/ /\ Verify!Ends("ORDER_IDENTITY_AMBIGUOUS") /\ order_id # "none" /\ Verify!Identifiers(s) \ {order_id} # {}
          /\ UNCHANGED order_id
       \/ /\ verify_pc' = "orders" /\ UNCHANGED verification
          /\ order_id' = order_id \/ order_id' \in Verify!Identifiers(s)
  BY <1>2, Zenon DEF Verify!Identify, Verify!Goto
<1>15. History'
  BY <1>0, <1>13, HistoryStays
<1>16. VerifyTypes'
  <2>1. order_id' \in {"none", "own", "changed"}
    BY <1>4, <1>11, <1>14
  <2>2. verify_pc' \in {"orders", "done"}
    BY <1>14, Zenon DEF Verify!Ends, Verify!Goto
  <2> QED BY <1>0, <1>6, <1>13, <2>1, <2>2, Zenon DEF VerifyTypes, Verify!Lists
<1>17. Reads'
  <2>1. tracked'.links \subseteq Verify!Now'.fills
    BY <1>2, <1>9, <1>13, Zenon DEF Verify!Now
  <2> QED BY <1>0, <1>2, <1>3, <1>9, <1>13, <2>1, Zenon DEF Reads, Shows
<1>18. Undisturbed'
  <2> SUFFICES ASSUME ~disturbed'
               PROVE  /\ order_id' # "changed"
                      /\ s.orders = {} => s.links = {}
                      /\ s.orders # {} => \E i \in 1 .. Len(hist) : /\ s.orders = {Verify!CsvRow(hist[i])}
                                                                    /\ s.links # {} => hist[i].id = "own"
                      /\ rows \subseteq {Verify!Other} \/ \E i \in 1 .. Len(hist) : rows = {Verify!CsvRow(hist[i]), Verify!Other}
    BY <1>2, <1>3, <1>13, Zenon DEF Undisturbed
  <2>1. ~disturbed /\ same
    BY <1>7
  <2>2. order_id' # "changed"
    BY <1>0, <1>12, <1>14, <2>1 DEF Undisturbed
  <2>3. v # 0 => v \in 1 .. Len(hist) /\ hist[v].id \in {"none", "own"}
    BY <1>0, <1>5, VersionIs
  <2>4. s.orders = {} => s.links = {}
    BY <1>10, <2>1
  <2>5. s.orders # {} => \E i \in 1 .. Len(hist) : /\ s.orders = {Verify!CsvRow(hist[i])}
                                                   /\ s.links # {} => hist[i].id = "own"
    BY <1>10, <2>1, <2>3
  <2> QED BY <1>0, <2>1, <2>2, <2>4, <2>5, Zenon DEF Undisturbed
<1>19. Current'
  <2> SUFFICES ASSUME ~behind', ~disturbed', verify_pc' \in {"orders", "compare"}
               PROVE  /\ Verify!Over(Verify!Now) /\ verify_pc' # "compare"
                      /\ s.orders = {Verify!CsvRow(Verify!Now)}
                      /\ s.links = IF Verify!Now.id = "none" THEN {} ELSE Verify!Now.fills
    BY <1>2, <1>13, Zenon DEF Current, Verify!Now
  <2>1. Verify!Over(Verify!Now) /\ v = Len(hist) /\ w = Len(hist)
    <3>1. Verify!Over(Verify!Now) /\ ~(v < Len(hist)) /\ ~(w < Len(hist))
      BY <1>2, Zenon
    <3> QED BY <1>4, <1>5, <3>1
  <2>2. same
    BY <1>7
  <2>3. verify_pc' # "compare"
    BY <1>14, Zenon DEF Verify!Ends, Verify!Goto
  <2>4. /\ s.orders = {Verify!CsvRow(Verify!Now)}
        /\ s.links = IF Verify!Now.id = "none" THEN {} ELSE Verify!Now.fills
    BY <1>4, <1>10, <2>1, <2>2 DEF Verify!Now
  <2> QED BY <2>1, <2>3, <2>4
<1>20. Outcome'
  <2>1. CASE /\ Verify!Ends("ORDER_IDENTITY_AMBIGUOUS") /\ order_id # "none" /\ Verify!Identifiers(s) \ {order_id} # {}
             /\ UNCHANGED order_id
    <3>1. ASSUME ~disturbed' PROVE FALSE
      <4>1. ~disturbed /\ same
        BY <1>7, <3>1
      <4>2. order_id = "own"
        BY <1>0, <1>4, <2>1, <4>1 DEF Undisturbed
      <4> QED BY <1>12, <2>1, <4>1, <4>2
    <3> QED BY <1>0, <2>1, <3>1, EndsIs
  <2>2. CASE verify_pc' = "orders" /\ UNCHANGED verification
    <3>1. verify_pc # "done" /\ verify_pc' # "done"
      BY <1>3, <2>2
    <3> QED BY <1>0, <1>8, <1>13, <2>2, <3>1, OutcomeStays
  <2> QED BY <1>14, <2>1, <2>2
<1> QED BY <1>15, <1>16, <1>17, <1>18, <1>19, <1>20, Zenon DEF VerifyInv

\* A cancellation or a table has no lookup.
LEMMA VerifyNoLookup == VerifyInv /\ Verify!NoLookup => VerifyInv'
<1> SUFFICES ASSUME VerifyInv, Verify!NoLookup PROVE VerifyInv'
  OBVIOUS
<1>0. VerifyTypes /\ History /\ Reads /\ Undisturbed /\ Outcome
  BY Zenon DEF VerifyInv
<1>1. /\ verify_pc = "lookup" /\ kind \in {"cancel", "table"} /\ behind' = ~Verify!Over(Verify!Now) /\ verify_pc' = "orders"
      /\ UNCHANGED kind /\ UNCHANGED tif /\ UNCHANGED hist /\ UNCHANGED attempt
      /\ UNCHANGED seen /\ UNCHANGED tracked /\ UNCHANGED rows /\ UNCHANGED order_id /\ UNCHANGED previous
      /\ UNCHANGED verification /\ UNCHANGED disturbed
  BY Zenon DEF Verify!NoLookup, Verify!Goto
<1>2. VerifyTypes'
  BY <1>0, <1>1, Zenon DEF VerifyTypes, Verify!Lists
<1>3. History'
  BY <1>0, <1>1, HistoryStays
<1>4. Reads'
  BY <1>0, <1>1, Zenon DEF Reads, Shows, Verify!Now
<1>5. Undisturbed'
  BY <1>0, <1>1, Zenon DEF Undisturbed
<1>6. Current'
  <2>1. ~behind' => Verify!Over(Verify!Now)
    BY <1>1, Zenon
  <2>2. verify_pc' # "compare" /\ kind' # "new"
    BY <1>1
  <2> QED BY <1>1, <2>1, <2>2, Zenon DEF Current, Verify!Now
<1>7. Outcome'
  <2>1. verify_pc # "done" /\ verify_pc' # "done" /\ (disturbed => disturbed')
    BY <1>1
  <2> QED BY <1>0, <1>1, <2>1, OutcomeStays
<1> QED BY <1>2, <1>3, <1>4, <1>5, <1>6, <1>7, Zenon DEF VerifyInv

\* The CSV of the orders is read.
LEMMA VerifyReadOrders == VerifyInv /\ Verify!ReadOrders => VerifyInv'
<1> SUFFICES ASSUME VerifyInv, Verify!ReadOrders PROVE VerifyInv'
  OBVIOUS
<1>0. VerifyTypes /\ History /\ Reads /\ Undisturbed /\ Current /\ Outcome
  BY Zenon DEF VerifyInv
<1>1. PICK v \in Verify!Versions("orders") : \E shown \in Verify!CsvOrders(v) :
        /\ rows' = shown \cup {Verify!Other}
        /\ disturbed' = (disturbed \/ shown # {Verify!CsvRow(o) : o \in Verify!Shown(v)})
        /\ Verify!Saw("orders", v)
  BY Zenon DEF Verify!ReadOrders
<1>2. PICK s \in Verify!CsvOrders(v) :
        /\ rows' = s \cup {Verify!Other}
        /\ disturbed' = (disturbed \/ s # {Verify!CsvRow(o) : o \in Verify!Shown(v)})
        /\ Verify!Saw("orders", v)
  BY <1>1
<1>3. /\ verify_pc = "orders" /\ verify_pc' = "compare"
      /\ UNCHANGED kind /\ UNCHANGED tif /\ UNCHANGED hist /\ UNCHANGED attempt
      /\ UNCHANGED tracked /\ UNCHANGED order_id /\ UNCHANGED previous /\ UNCHANGED verification
      /\ seen' = [seen EXCEPT !["orders"] = v] /\ behind' = (behind \/ v < Len(hist))
  BY <1>2, Zenon DEF Verify!ReadOrders, Verify!Goto, Verify!Saw
<1>4. /\ Len(hist) \in Nat /\ Len(hist) > 0 /\ seen \in [Verify!Lists -> 0 .. Len(hist)]
      /\ disturbed \in BOOLEAN /\ behind \in BOOLEAN
  BY <1>0, VersionIs DEF VerifyTypes
<1>5. v \in 0 .. Len(hist)
  <2>1. seen["orders"] \in 0 .. Len(hist)
    BY <1>4 DEF Verify!Lists
  <2> QED BY <1>1, <1>4, <2>1 DEF Verify!Versions
<1>6. seen' \in [Verify!Lists -> 0 .. Len(hist)]
  BY <1>3, <1>4, <1>5 DEF Verify!Lists
<1> DEFINE same == s = {Verify!CsvRow(o) : o \in Verify!Shown(v)}
<1>7. (~disturbed' => ~disturbed /\ same) /\ (disturbed => disturbed') /\ disturbed' \in BOOLEAN /\ behind' \in BOOLEAN
  BY <1>2, <1>3, <1>4, Zenon
<1>8. /\ IsFiniteSet(rows')
      /\ \A row \in rows' :
           /\ row \in Verify!Row
           /\ row.order_id = "other" \/ \E i \in 1 .. Len(hist) : Shows(row, hist[i]) /\ row.order_id = hist[i].id
  BY <1>0, <1>2, <1>5, CsvIs, Zenon
<1>9. same => s = IF v = 0 THEN {} ELSE {Verify!CsvRow(hist[v])}
  BY <1>0, <1>5, CsvIs, Zenon
<1> HIDE DEF same
<1>10. v # 0 => v \in 1 .. Len(hist)
  BY <1>0, <1>5, VersionIs
<1>11. VerifyTypes'
  BY <1>0, <1>3, <1>6, <1>7, Zenon DEF VerifyTypes, Verify!Lists
<1>12. History'
  BY <1>0, <1>3, HistoryStays
<1>13. Reads'
  BY <1>0, <1>3, <1>8, Zenon DEF Reads, Shows, Verify!Now
<1>14. Undisturbed'
  <2>1. ASSUME ~disturbed' PROVE rows' \subseteq {Verify!Other} \/ \E i \in 1 .. Len(hist) : rows' = {Verify!CsvRow(hist[i]), Verify!Other}
    BY <1>2, <1>7, <1>9, <1>10, <2>1
  <2> QED BY <1>0, <1>3, <1>7, <2>1, Zenon DEF Undisturbed
<1>15. Current'
  <2>1. ASSUME ~behind', ~disturbed'
        PROVE  ~behind /\ ~disturbed /\ rows' = {Verify!CsvRow(Verify!Now), Verify!Other}
    <3>1. v = Len(hist) /\ ~behind /\ ~disturbed /\ same
      <4>1. ~behind /\ ~(v < Len(hist))
        BY <1>3, <1>4, <2>1, Zenon
      <4> QED BY <1>4, <1>5, <1>7, <2>1, <4>1
    <3> QED BY <1>2, <1>4, <1>9, <3>1 DEF Verify!Now
  <2> QED BY <1>0, <1>3, <2>1, Zenon DEF Current, Verify!Now
<1>16. Outcome'
  <2>1. verify_pc # "done" /\ verify_pc' # "done"
    BY <1>3
  <2> QED BY <1>0, <1>3, <1>7, <2>1, OutcomeStays
<1> QED BY <1>11, <1>12, <1>13, <1>14, <1>15, <1>16, Zenon DEF VerifyInv

\* A read fails.
LEMMA VerifyReadFails == VerifyInv /\ Verify!ReadFails => VerifyInv'
<1> SUFFICES ASSUME VerifyInv, Verify!ReadFails PROVE VerifyInv'
  OBVIOUS
<1>0. VerifyTypes /\ History /\ Reads /\ Undisturbed /\ Outcome
  BY Zenon DEF VerifyInv
<1>1. \E code : Verify!Ends(code)
  BY Zenon DEF Verify!ReadFails
<1>2. disturbed' /\ disturbed' = TRUE
  BY Zenon DEF Verify!ReadFails
<1>3. UNCHANGED seen /\ UNCHANGED tracked /\ UNCHANGED rows /\ UNCHANGED order_id /\ UNCHANGED behind
  BY Zenon DEF Verify!ReadFails
<1>4. /\ verify_pc' = "done" /\ UNCHANGED kind /\ UNCHANGED tif /\ UNCHANGED hist /\ UNCHANGED attempt /\ Outcome'
  BY <1>0, <1>1, <1>2, EndsIs
<1>5. VerifyTypes'
  BY <1>0, <1>2, <1>3, <1>4, Zenon DEF VerifyTypes, Verify!Lists
<1>6. History'
  BY <1>0, <1>4, HistoryStays
<1>7. Reads'
  BY <1>0, <1>3, <1>4, Zenon DEF Reads, Shows, Verify!Now
<1>8. Undisturbed' /\ Current'
  BY <1>2, Zenon DEF Undisturbed, Current
<1> QED BY <1>4, <1>5, <1>6, <1>7, <1>8, Zenon DEF VerifyInv

\* Trades and their rows are as many, and add up to the same.
LEMMA TradesAdd ==
  ASSUME NEW S \in SUBSET Trades, IsFiniteSet(S)
  PROVE  LET R == {Verify!TradeRow(t) : t \in S}
         IN /\ IsFiniteSet(R) /\ Cardinality(R) = Cardinality(S) /\ Added(R) = Verify!SumSet(S)
<1> DEFINE Img(T) == {Verify!TradeRow(t) : t \in T}
           Good(T) == /\ IsFiniteSet(Img(T)) /\ Cardinality(Img(T)) = Cardinality(T)
                      /\ Total(Sizes, Img(T)) = Total(Lots, T)
           C == {T \in SUBSET S : ~Good(T)}
<1>1. \A t \in Nat : Verify!TradeRow(t).trade = t /\ Verify!TradeRow(t).volume = t
  BY DEF Verify!TradeRow
<1>2. \A T \in SUBSET S : Numbers(Lots, T) /\ T \in SUBSET Nat /\ IsFiniteSet(T)
  BY OrderBounds, FS_Subset DEF Numbers, Lots
<1>3. \A T \in SUBSET S : Numbers(Sizes, Img(T)) /\ Img(T) \in SUBSET {Verify!TradeRow(t) : t \in Nat}
  BY <1>1, <1>2 DEF Numbers, Sizes
<1>4. Good({})
  <2>1. Img({}) = {}
    OBVIOUS
  <2> QED BY <2>1, FS_EmptySet, TotalEmpty
<1>5. Good(S)
  <2> SUFFICES ASSUME ~Good(S) PROVE FALSE
    OBVIOUS
  <2>1. PICK T \in C : \A U \in C : U \subseteq T => U = T
    <3>1. C \in SUBSET (SUBSET S) /\ C # {}
      OBVIOUS
    <3> HIDE DEF C
    <3> QED BY <3>1, Minimal
  <2>2. T # {} /\ T \in SUBSET S
    BY <1>4
  <2>3. PICK t \in T : TRUE
    BY <2>2
  <2> DEFINE U == T \ {t}
             r == Verify!TradeRow(t)
  <2>4. Good(U) /\ U \in SUBSET S
    BY <2>1, <2>2, <2>3
  <2>5. T = U \cup {t} /\ t \notin U /\ IsFiniteSet(U) /\ IsFiniteSet(T)
    BY <1>2, <2>2, <2>3, <2>4
  <2>6. Img(T) = Img(U) \cup {r}
    BY <2>3
  <2>7. r \notin Img(U)
    <3>1. \A u \in U : Verify!TradeRow(u) # r
      BY <1>1, <1>2, <2>2, <2>3
    <3> QED BY <3>1
  <2>8. Sizes[r] = t /\ Lots[t] = t /\ t \in Nat
    BY <1>1, <1>2, <2>2, <2>3 DEF Sizes, Lots
  <2>9. Numbers(Lots, U \cup {t}) /\ Numbers(Sizes, Img(U) \cup {r})
    BY <1>2, <1>3, <2>2, <2>5, <2>6
  <2> HIDE DEF C, U, r, Img
  <2>10. IsFiniteSet(Img(T)) /\ Cardinality(Img(T)) = Cardinality(Img(U)) + 1 /\ Cardinality(T) = Cardinality(U) + 1
    <3>1. IsFiniteSet(Img(U) \cup {r}) /\ Cardinality(Img(U) \cup {r}) = Cardinality(Img(U)) + 1
      BY <2>4, <2>7, FS_AddElement
    <3>2. Cardinality(U \cup {t}) = Cardinality(U) + 1
      BY <2>5, FS_AddElement
    <3> QED BY <2>5, <2>6, <3>1, <3>2
  <2>11. Total(Sizes, Img(T)) = Total(Sizes, Img(U)) + t
    BY <2>4, <2>6, <2>7, <2>8, <2>9, TotalAdd
  <2>12. Total(Lots, T) = Total(Lots, U) + t
    <3>1. Total(Lots, U \cup {t}) = Total(Lots, U) + Lots[t]
      BY <2>5, <2>9, TotalAdd
    <3> QED BY <2>5, <2>8, <3>1
  <2>13. Good(T)
    BY <2>4, <2>10, <2>11, <2>12
  <2> QED BY <2>1, <2>13 DEF C
<1>6. Verify!SumSet(S) = Total(Lots, S)
  BY <1>2, FillsTotal
<1>7. Added(Img(S)) = Total(Sizes, Img(S))
  BY <1>3, <1>5, RowsTotal, Zenon DEF Added
<1> QED BY <1>5, <1>6, <1>7

\* The trades of a new order, as its comparison takes them from the list.
Linked(v) ==
  {row \in {Verify!TradeRow(t) : t \in UNION {o.fills : o \in Verify!Shown(v)}} \cup {Verify!OtherTrade} :
     row.trade \in tracked.links}

\* They are trades of the order, and linked to it.
LEMMA LinkedIs ==
  ASSUME History, Reads, NEW v \in 0 .. Len(hist)
  PROVE  /\ Linked(v) \subseteq {Verify!TradeRow(t) : t \in Verify!Now.fills}
         /\ Linked(v) \subseteq {Verify!TradeRow(t) : t \in Trades}
         /\ Linked(v) # {} => tracked.links # {}
         /\ v = Len(hist) /\ tracked.links = Verify!Now.fills =>
              Linked(v) = {Verify!TradeRow(t) : t \in Verify!Now.fills}
<1> DEFINE shown == UNION {o.fills : o \in Verify!Shown(v)}
           n == Verify!Now
<1>1. /\ Len(hist) > 0 /\ Len(hist) \in Nat /\ n = hist[Len(hist)]
  BY VersionIs
<1>2. shown = IF v = 0 THEN {} ELSE hist[v].fills
  BY DEF Verify!Shown
<1>3. n.fills \subseteq Trades /\ Trades \subseteq Nat /\ 0 \notin Trades
  BY VersionIs, OrderBounds DEF OrderOK, Orders
<1>4. shown \subseteq n.fills
  BY <1>2, VersionIs
<1>5. tracked.links \subseteq n.fills
  BY DEF Reads
<1>6. (\A t : Verify!TradeRow(t).trade = t) /\ Verify!OtherTrade.trade = 0
  BY DEF Verify!TradeRow, Verify!OtherTrade
<1>7. Linked(v) = {row \in {Verify!TradeRow(t) : t \in shown} \cup {Verify!OtherTrade} : row.trade \in tracked.links}
  BY DEF Linked
<1> HIDE DEF shown, n
<1>8. Linked(v) = {Verify!TradeRow(t) : t \in shown \cap tracked.links}
  BY <1>3, <1>5, <1>6, <1>7
<1>9. v = Len(hist) => shown = n.fills
  BY <1>1, <1>2
<1> QED BY <1>3, <1>4, <1>5, <1>8, <1>9 DEF n

\* An order that is over and current in every list is seen to be.
LEMMA CurrentIsReady ==
  ASSUME VerifyInv, ~behind, ~disturbed, verify_pc = "compare", kind = "new"
  PROVE  /\ Verify!exact_order = Verify!Answer({Verify!CsvRow(Verify!Now)}, TRUE)
         /\ Verify!Final(Verify!CsvRow(Verify!Now))
         /\ Verify!Ready(Linked(Len(hist)), Verify!CsvRow(Verify!Now))
<1>0. History /\ Reads /\ Current
  BY Zenon DEF VerifyInv
<1> DEFINE n == Verify!Now
           r == Verify!CsvRow(Verify!Now)
<1>1. /\ Verify!Over(n) /\ tracked.orders = {r} /\ tracked.links = (IF n.id = "none" THEN {} ELSE n.fills)
      /\ rows = {r, Verify!Other}
  BY <1>0, Zenon DEF Current
<1>2. Verify!exact_order = Verify!Answer({r}, TRUE)
  BY <1>0, <1>1, ExactCurrent
<1>3. OrderOK(n)
  BY <1>0, VersionIs
<1>4. r.status \in {"filled", "cancelled", "rejected"} /\ r.filled = Verify!Filled(n)
  BY <1>1, <1>3, RowOf
<1>5. tracked.links = n.fills /\ n.fills \in SUBSET Trades /\ IsFiniteSet(n.fills)
  BY <1>1, <1>3 DEF OrderOK, Orders
<1>6. Linked(Len(hist)) = {Verify!TradeRow(t) : t \in n.fills}
  <2>1. Len(hist) \in 0 .. Len(hist)
    BY <1>0, VersionIs
  <2> QED BY <1>0, <1>5, <2>1, LinkedIs
<1> HIDE DEF n, r
<1>7. Cardinality(Linked(Len(hist))) = Cardinality(tracked.links) /\ Added(Linked(Len(hist))) = Verify!SumSet(n.fills)
  BY <1>5, <1>6, TradesAdd
<1>8. Verify!Cardinality(Linked(Len(hist))) = Verify!Cardinality(tracked.links)
  BY <1>7, SameCount
<1>9. Verify!Ready(Linked(Len(hist)), r)
  BY <1>4, <1>7, <1>8, Zenon DEF Verify!Ready, Added, Verify!Filled
<1>10. Verify!Final(r)
  BY <1>4, Zenon DEF Verify!Final
<1> QED BY <1>2, <1>9, <1>10 DEF n, r

\* The comparison of a new order.
LEMMA VerifyCompareNew == VerifyInv /\ Verify!CompareNew => VerifyInv'
<1> SUFFICES ASSUME VerifyInv, Verify!CompareNew PROVE VerifyInv'
  OBVIOUS
<1>0. VerifyTypes /\ History /\ Reads /\ Undisturbed /\ Current /\ Outcome
  BY Zenon DEF VerifyInv
<1> DEFINE found == Verify!exact_order
           Order == CHOOSE row \in found.orders : TRUE
           Seen(v) == found.complete /\ Verify!Final(Order) /\ Verify!Ready(Linked(v), Order)
<1>1. PICK v \in Verify!Versions("trades") :
        /\ Verify!Saw("trades", v)
        /\ IF found.error # "NONE" THEN Verify!Ends(found.error)
           ELSE IF found.orders = {} THEN Verify!Again(Verify!Pending)
           ELSE IF Linked(v) # {} /\ Order.order_id # "own" THEN Verify!Ends("TERMINAL_DATA_INVALID")
           ELSE Verify!Concludes(Verify!Verdict(found.orders, Linked(v), Seen(v)))
  BY Zenon DEF Verify!CompareNew, Linked
<1>2. /\ verify_pc = "compare" /\ kind = "new" /\ UNCHANGED tracked /\ UNCHANGED rows /\ UNCHANGED order_id
      /\ UNCHANGED previous /\ UNCHANGED disturbed
  BY Zenon DEF Verify!CompareNew
<1>3. /\ Len(hist) \in Nat /\ Len(hist) > 0 /\ seen \in [Verify!Lists -> 0 .. Len(hist)]
      /\ disturbed \in BOOLEAN /\ behind \in BOOLEAN
  BY <1>0, VersionIs DEF VerifyTypes
<1>4. seen' = [seen EXCEPT !["trades"] = v] /\ behind' = (behind \/ v < Len(hist))
  BY <1>1, Zenon DEF Verify!Saw
<1>5. v \in 0 .. Len(hist)
  <2>1. seen["trades"] \in 0 .. Len(hist)
    BY <1>3 DEF Verify!Lists
  <2> QED BY <1>1, <1>3, <2>1 DEF Verify!Versions
<1>6. seen' \in [Verify!Lists -> 0 .. Len(hist)] /\ behind' \in BOOLEAN
  <2>1. seen' \in [Verify!Lists -> 0 .. Len(hist)]
    BY <1>3, <1>4, <1>5 DEF Verify!Lists
  <2> QED BY <1>4, <2>1, Zenon
<1>7. ~behind' => ~behind /\ v = Len(hist)
  <2>1. ~behind' => ~behind /\ ~(v < Len(hist))
    BY <1>3, <1>4, Zenon
  <2> QED BY <1>3, <1>5, <2>1
<1>8. /\ Linked(v) \subseteq {Verify!TradeRow(t) : t \in Verify!Now.fills}
      /\ Linked(v) \subseteq {Verify!TradeRow(t) : t \in Trades}
      /\ Linked(v) # {} => tracked.links # {}
  BY <1>0, <1>5, LinkedIs
<1>9. found.orders # {} => Order \in found.orders
  <2>1. found.orders # {} => Chosen(found.orders) \in found.orders
    BY ChosenIn
  <2> QED BY <2>1, Zenon DEF Chosen
<1>10. found.orders \subseteq Verify!Row
  BY <1>0, ExactIs
<1>11. ASSUME NEW code, Verify!Ends(code), disturbed PROVE VerifyInv'
  <2>1. /\ verify_pc' = "done" /\ UNCHANGED kind /\ UNCHANGED tif /\ UNCHANGED hist /\ UNCHANGED attempt /\ Outcome'
    BY <1>0, <1>2, <1>11, EndsIs
  <2>2. attempt' \in 1 .. Attempts /\ verify_pc' \in {"lookup", "done"}
    BY <1>0, <2>1 DEF VerifyTypes
  <2> QED BY <1>2, <1>6, <2>1, <2>2, VerifyCompared
<1>12. CASE found.error # "NONE" /\ Verify!Ends(found.error)
  <2>1. disturbed
    BY <1>0, <1>12, ExactUndisturbed
  <2> QED BY <1>11, <1>12, <2>1
<1>13. CASE found.orders = {} /\ Verify!Again(Verify!Pending)
  <2>1. /\ verification' = Verify!Pending /\ UNCHANGED kind /\ UNCHANGED tif /\ UNCHANGED hist
        /\ attempt' \in 1 .. Attempts /\ verify_pc' \in {"lookup", "done"}
    BY <1>0, <1>13, AgainIs
  <2>2. behind' \/ disturbed'
    <3> SUFFICES ASSUME ~behind', ~disturbed PROVE FALSE
      BY <1>2
    <3>1. found = Verify!Answer({Verify!CsvRow(Verify!Now)}, TRUE)
      BY <1>2, <1>7, CurrentIsReady
    <3> HIDE DEF found
    <3> QED BY <1>13, <3>1, AnswerFields
  <2>3. verification' \in Results /\ verification'.status = "pending"
    BY <2>1 DEF Verify!Pending, Results
  <2>4. Outcome'
    <3>1. verification'.status \notin {"observed", "stable", "ambiguous", "unavailable", "raised"}
      BY <2>3
    <3> QED BY <2>2, <2>3, <3>1, Zenon DEF Outcome, Results, Verify!Row, Verify!NoFalseAlarm, Verify!PendingMeansBehind,
      Verify!StableIsConfirmed
  <2> QED BY <1>2, <1>6, <2>1, <2>4, VerifyCompared
<1>14. CASE /\ found.error = "NONE" /\ found.orders # {} /\ Linked(v) # {} /\ Order.order_id # "own"
            /\ Verify!Ends("TERMINAL_DATA_INVALID")
  <2>1. ASSUME ~disturbed PROVE FALSE
    <3>1. PICK row : found.orders = {row} /\ (tracked.links # {} => row.order_id = "own")
      BY <1>0, <1>14, <2>1, ExactUndisturbed
    <3>2. Order = row
      BY <1>9, <3>1
    <3> QED BY <1>8, <1>14, <3>1, <3>2
  <2> QED BY <1>11, <1>14, <2>1
<1>15. CASE /\ found.orders # {}
            /\ Verify!Concludes(Verify!Verdict(found.orders, Linked(v), Seen(v)))
  <2> DEFINE x == Verify!Verdict(found.orders, Linked(v), Seen(v))
  <2>1. /\ verification' = x /\ UNCHANGED kind /\ UNCHANGED tif /\ UNCHANGED hist
        /\ attempt' \in 1 .. Attempts /\ verify_pc' \in {"lookup", "done"}
        /\ x.status \in {"observed", "stable"} => verify_pc' = "done"
    BY <1>0, <1>15, AgainIs
  <2>2. /\ x = [status |-> IF Seen(v) THEN "observed" ELSE "pending", orders |-> found.orders, trades |-> Linked(v)]
    BY Zenon DEF Verify!Verdict
  <2> HIDE DEF x
  <2>3. /\ x.orders = found.orders /\ x.trades = Linked(v) /\ (Seen(v) => x.status = "observed")
        /\ (~Seen(v) => x.status = "pending")
    <3> HIDE DEF found, Seen
    <3> QED BY <2>2
  <2>4. x \in Results
    <3>1. (IF Seen(v) THEN "observed" ELSE "pending")
            \in {"pending", "observed", "ambiguous", "unavailable", "raised", "stable", "changing"}
      <4> HIDE DEF Seen
      <4> QED OBVIOUS
    <3> HIDE DEF found, Seen
    <3> QED BY <1>8, <1>10, <2>2, <3>1, Zenon DEF Results
  <2>5. CASE Seen(v)
    <3>1. PICK row : /\ found.orders = {row}
                     /\ \E i \in 1 .. Len(hist) : /\ Shows(row, hist[i]) /\ row.order_id = hist[i].id
                                                  /\ hist[i].id = "none" => hist[i].end = "rejected"
      BY <1>0, <2>5, ExactIs
    <3>2. Order = row
      BY <1>9, <3>1
    <3>3. Added(Linked(v)) = row.filled
      BY <2>5, <3>2, Zenon DEF Verify!Ready, Added
    <3>4. verification'.orders = {row} /\ verification'.trades = Linked(v) /\ verification'.status = "observed"
      BY <2>1, <2>3, <2>5, <3>1
    <3>5. Observed'
      <4>1. verification'.orders # {}
        BY <3>4
      <4>2. ASSUME NEW z \in verification'.orders PROVE z = row
        BY <3>4, <4>2
      <4>3. Added(verification'.trades) = row.filled
        BY <3>3, <3>4, Zenon
      <4>4. verification'.trades \subseteq {Verify!TradeRow(t) : t \in Verify!Now.fills}
        BY <1>8, <3>4
      <4> QED BY <2>1, <3>1, <4>1, <4>2, <4>3, <4>4, Zenon DEF Observed, Shows, Verify!Now
    <3>6. verify_pc' = "done"
      BY <2>1, <3>4
    <3>7. Outcome'
      <4>1. verification'.status \notin {"pending", "stable", "ambiguous", "unavailable", "raised"}
        BY <3>4
      <4> QED BY <2>1, <2>4, <3>5, <3>6, <4>1, Zenon DEF Outcome, Results, Verify!Row, Verify!NoFalseAlarm,
        Verify!PendingMeansBehind, Verify!StableIsConfirmed
    <3> QED BY <1>2, <1>6, <2>1, <3>7, VerifyCompared
  <2>6. CASE ~Seen(v)
    <3>1. behind' \/ disturbed'
      <4> SUFFICES ASSUME ~behind', ~disturbed PROVE FALSE
        BY <1>2
      <4> DEFINE r == Verify!CsvRow(Verify!Now)
      <4>1. found = Verify!Answer({r}, TRUE) /\ Verify!Final(r) /\ Verify!Ready(Linked(v), r)
        BY <1>2, <1>7, CurrentIsReady
      <4> HIDE DEF r
      <4>2. found.orders = {r} /\ found.complete
        BY <4>1, AnswerFields, Zenon
      <4>3. Order = r
        BY <1>9, <4>2
      <4> QED BY <2>6, <4>1, <4>2, <4>3, Zenon
    <3>2. verification'.status = "pending"
      BY <2>1, <2>3, <2>6
    <3>3. Outcome'
      <4>1. verification'.status \notin {"observed", "stable", "ambiguous", "unavailable", "raised"}
        BY <3>2
      <4> QED BY <2>1, <2>4, <3>1, <4>1, Zenon DEF Outcome, Results, Verify!Row, Verify!NoFalseAlarm,
        Verify!PendingMeansBehind, Verify!StableIsConfirmed
    <3> QED BY <1>2, <1>6, <2>1, <3>3, VerifyCompared
  <2> QED BY <2>5, <2>6
<1> HIDE DEF found, Order, Seen
<1> QED BY <1>1, <1>12, <1>13, <1>14, <1>15, Zenon

\* The comparison of a cancellation.
LEMMA VerifyCompareCancel == VerifyInv /\ Verify!CompareCancel => VerifyInv'
<1> SUFFICES ASSUME VerifyInv, Verify!CompareCancel PROVE VerifyInv'
  OBVIOUS
<1>0. VerifyTypes /\ History /\ Reads /\ Current /\ Outcome
  BY Zenon DEF VerifyInv
<1> DEFINE found == Verify!Numbered("own")
           Seen == Verify!Cardinality(found) = 1 /\ \A row \in found : row.status \in {"cancelled", "filled"}
           x == Verify!Verdict(found, {}, Seen)
<1>1. /\ verify_pc = "compare" /\ kind = "cancel" /\ Verify!Concludes(x)
      /\ UNCHANGED seen /\ UNCHANGED tracked /\ UNCHANGED rows /\ UNCHANGED order_id
      /\ UNCHANGED previous /\ UNCHANGED disturbed /\ UNCHANGED behind
  BY Zenon DEF Verify!CompareCancel
<1>2. /\ verification' = x /\ UNCHANGED kind /\ UNCHANGED tif /\ UNCHANGED hist
      /\ attempt' \in 1 .. Attempts /\ verify_pc' \in {"lookup", "done"}
      /\ x.status \in {"observed", "stable"} => verify_pc' = "done"
  BY <1>0, <1>1, AgainIs
<1>3. x = [status |-> IF Seen THEN "observed" ELSE "pending", orders |-> found, trades |-> {}]
  BY Zenon DEF Verify!Verdict
<1>4. found \subseteq rows /\ found \subseteq Verify!Row /\ \A row \in found : row.order_id = "own"
  BY <1>0 DEF Verify!Numbered, Reads
<1>5. seen' \in [Verify!Lists -> 0 .. Len(hist)] /\ behind' \in BOOLEAN
  BY <1>0, <1>1 DEF VerifyTypes
<1>6. Verify!Cardinality(found) = Cardinality(found)
  BY SameCount
<1> HIDE DEF x
<1>7. /\ x.orders = found /\ x.trades = {} /\ (Seen => x.status = "observed") /\ (~Seen => x.status = "pending")
  <2> HIDE DEF found, Seen
  <2> QED BY <1>3
<1>8. x \in Results
  <2>1. (IF Seen THEN "observed" ELSE "pending")
          \in {"pending", "observed", "ambiguous", "unavailable", "raised", "stable", "changing"}
    <3> HIDE DEF Seen
    <3> QED OBVIOUS
  <2>2. {} \in SUBSET {Verify!TradeRow(t) : t \in Trades}
    OBVIOUS
  <2> HIDE DEF found, Seen
  <2> QED BY <1>3, <1>4, <2>1, <2>2, Zenon DEF Results
<1>9. CASE Seen
  <2>1. found # {}
    BY <1>6, <1>9, FS_EmptySet
  <2>2. verification'.orders = found /\ verification'.status = "observed"
    BY <1>2, <1>7, <1>9
  <2>3. ASSUME NEW row \in found
        PROVE  \E i \in 1 .. Len(hist) : /\ Shows(row, hist[i]) /\ row.order_id = hist[i].id
                                         /\ hist[i].id = "none" => hist[i].end = "rejected"
    <3>1. row \in rows /\ row.order_id = "own"
      BY <1>4, <2>3
    <3>2. PICK i \in 1 .. Len(hist) : Shows(row, hist[i]) /\ row.order_id = hist[i].id
      BY <1>0, <3>1 DEF Reads
    <3> QED BY <3>1, <3>2
  <2>4. kind' # "new"
    BY <1>1, <1>2
  <2> HIDE DEF found
  <2>5. Observed'
    BY <1>2, <2>1, <2>2, <2>3, <2>4, Zenon DEF Observed, Shows
  <2>6. verify_pc' = "done"
    BY <1>2, <2>2
  <2>7. Outcome'
    <3>1. verification'.status \notin {"pending", "stable", "ambiguous", "unavailable", "raised"}
      BY <2>2
    <3> QED BY <1>2, <1>8, <2>5, <2>6, <3>1, Zenon DEF Outcome, Results, Verify!Row, Verify!NoFalseAlarm,
      Verify!PendingMeansBehind, Verify!StableIsConfirmed
  <2> QED BY <1>1, <1>2, <1>5, <2>7, VerifyCompared
<1>10. CASE ~Seen
  <2>1. behind' \/ disturbed'
    <3> SUFFICES ASSUME ~behind, ~disturbed PROVE FALSE
      BY <1>1
    <3> DEFINE n == Verify!Now
               r == Verify!CsvRow(Verify!Now)
    <3>1. Verify!Over(n) /\ rows = {r, Verify!Other}
      BY <1>0, <1>1, Zenon DEF Current
    <3>2. OrderOK(n) /\ n.id = "own" /\ n.end # "rejected"
      BY <1>0, <1>1, VersionIs DEF OrderOK
    <3>3. r.order_id = "own" /\ r.status \in {"filled", "cancelled"}
      BY <3>1, <3>2, RowOf
    <3>4. Verify!Other.order_id = "other"
      BY DEF Verify!Other
    <3> HIDE DEF n, r
    <3>5. found = {r}
      BY <3>1, <3>3, <3>4 DEF Verify!Numbered
    <3>6. Cardinality(found) = 1
      BY <3>5, FS_Singleton
    <3> QED BY <1>6, <1>10, <3>3, <3>5, <3>6
  <2>2. verification'.status = "pending"
    BY <1>2, <1>7, <1>10
  <2>3. Outcome'
    <3>1. verification'.status \notin {"observed", "stable", "ambiguous", "unavailable", "raised"}
      BY <2>2
    <3> QED BY <1>2, <1>8, <2>1, <3>1, Zenon DEF Outcome, Results, Verify!Row, Verify!NoFalseAlarm,
      Verify!PendingMeansBehind, Verify!StableIsConfirmed
  <2> QED BY <1>1, <1>2, <1>5, <2>3, VerifyCompared
<1> QED BY <1>9, <1>10

\* The consistency of a repeated read.
LEMMA ConsistencyIs ==
  ASSUME NEW found \in SUBSET Verify!Row, NEW confirmed
  PROVE  LET x == Verify!Consistency(found, confirmed)
         IN /\ x \in Results /\ x.orders = found /\ x.status \in {"stable", "changing"}
            /\ x.status = "stable" => confirmed
<1> DEFINE x == Verify!Consistency(found, confirmed)
<1>1. \/ x = [status |-> "stable", orders |-> found, trades |-> {}] /\ confirmed
      \/ x = [status |-> "changing", orders |-> found, trades |-> {}]
  BY Zenon DEF Verify!Consistency
<1>2. {} \in SUBSET {Verify!TradeRow(t) : t \in Trades}
  OBVIOUS
<1> HIDE DEF x
<1>3. /\ [status |-> "stable", orders |-> found, trades |-> {}] \in Results
      /\ [status |-> "changing", orders |-> found, trades |-> {}] \in Results
  BY <1>2 DEF Results
<1>4. x \in Results
  BY <1>1, <1>3, Zenon
<1> QED BY <1>1, <1>4 DEF x

\* The comparison of a repeated read of a reference.
LEMMA VerifyCompareReference == VerifyInv /\ Verify!CompareReference => VerifyInv'
<1> SUFFICES ASSUME VerifyInv, Verify!CompareReference PROVE VerifyInv'
  OBVIOUS
<1>0. VerifyTypes /\ History /\ Reads /\ Undisturbed /\ Outcome
  BY Zenon DEF VerifyInv
<1> DEFINE found == Verify!exact_order
           confirmed == found.complete \/ tracked.orders = {}
           x == Verify!Consistency(found.orders, confirmed)
<1>1. /\ verify_pc = "compare" /\ kind = "reference"
      /\ UNCHANGED seen /\ UNCHANGED tracked /\ UNCHANGED rows /\ UNCHANGED order_id
      /\ UNCHANGED disturbed /\ UNCHANGED behind
      /\ \/ found.error # "NONE" /\ Verify!Ends(found.error)
         \/ Verify!Concludes(x)
  BY Zenon DEF Verify!CompareReference
<1>2. seen' \in [Verify!Lists -> 0 .. Len(hist)] /\ behind' \in BOOLEAN
  BY <1>0, <1>1 DEF VerifyTypes
<1>3. CASE found.error # "NONE" /\ Verify!Ends(found.error)
  <2>1. disturbed
    BY <1>0, <1>3, ExactUndisturbed
  <2>2. /\ verify_pc' = "done" /\ UNCHANGED kind /\ UNCHANGED tif /\ UNCHANGED hist /\ UNCHANGED attempt /\ Outcome'
    BY <1>0, <1>1, <1>3, <2>1, EndsIs
  <2>3. attempt' \in 1 .. Attempts /\ verify_pc' \in {"lookup", "done"}
    BY <1>0, <2>2 DEF VerifyTypes
  <2> QED BY <1>1, <1>2, <2>2, <2>3, VerifyCompared
<1>4. CASE Verify!Concludes(x)
  <2>1. /\ verification' = x /\ UNCHANGED kind /\ UNCHANGED tif /\ UNCHANGED hist
        /\ attempt' \in 1 .. Attempts /\ verify_pc' \in {"lookup", "done"}
        /\ x.status \in {"observed", "stable"} => verify_pc' = "done"
    BY <1>0, <1>4, AgainIs
  <2>2. found.orders \in SUBSET Verify!Row
    BY <1>0, ExactIs
  <2>3. x \in Results /\ x.orders = found.orders /\ x.status \in {"stable", "changing"} /\ (x.status = "stable" => confirmed)
    <3> HIDE DEF found, confirmed
    <3> QED BY <2>2, ConsistencyIs
  <2>4. confirmed => found.orders \subseteq rows \/ \A row \in found.orders : row.order_id = "none" /\ row.status = "rejected"
    BY <1>0, ExactIs
  <2> HIDE DEF found, confirmed, x
  <2>5. verification'.status \notin {"pending", "observed", "ambiguous", "unavailable", "raised"}
    BY <2>1, <2>3
  <2>6. verification'.status = "stable" =>
          \/ verification'.orders \subseteq rows'
          \/ \A row \in verification'.orders : row.order_id = "none" /\ row.status = "rejected"
    BY <1>1, <2>1, <2>3, <2>4
  <2>7. verification'.status \in {"observed", "stable"} => verify_pc' = "done"
    BY <2>1
  <2>8. Outcome'
    <3>1. Verify!NoFalseAlarm' /\ Verify!PendingMeansBehind' /\ (verification'.status = "observed" => Observed')
      BY <2>5, Zenon DEF Verify!NoFalseAlarm, Verify!PendingMeansBehind
    <3>2. Verify!StableIsConfirmed'
      BY <2>6, Zenon DEF Verify!StableIsConfirmed
    <3>3. verification' \in Results
      BY <2>1, <2>3
    <3> QED BY <2>7, <3>1, <3>2, <3>3, Zenon DEF Outcome, Results, Verify!Row
  <2> QED BY <1>1, <1>2, <2>1, <2>8, VerifyCompared
<1> QED BY <1>1, <1>3, <1>4

\* The comparison of a repeated read of a table.
LEMMA VerifyCompareTable == VerifyInv /\ Verify!CompareTable => VerifyInv'
<1> SUFFICES ASSUME VerifyInv, Verify!CompareTable PROVE VerifyInv'
  OBVIOUS
<1>0. VerifyTypes /\ History /\ Reads /\ Outcome
  BY Zenon DEF VerifyInv
<1> DEFINE x == Verify!Consistency(rows, TRUE)
<1>1. /\ verify_pc = "compare" /\ kind = "table"
      /\ UNCHANGED seen /\ UNCHANGED tracked /\ UNCHANGED rows /\ UNCHANGED order_id
      /\ UNCHANGED disturbed /\ UNCHANGED behind /\ Verify!Concludes(x)
  BY Zenon DEF Verify!CompareTable
<1>2. seen' \in [Verify!Lists -> 0 .. Len(hist)] /\ behind' \in BOOLEAN
  BY <1>0, <1>1 DEF VerifyTypes
<1>3. /\ verification' = x /\ UNCHANGED kind /\ UNCHANGED tif /\ UNCHANGED hist
      /\ attempt' \in 1 .. Attempts /\ verify_pc' \in {"lookup", "done"}
      /\ x.status \in {"observed", "stable"} => verify_pc' = "done"
  BY <1>0, <1>1, AgainIs
<1>4. x \in Results /\ x.status \in {"stable", "changing"}
  <2>1. rows \in SUBSET Verify!Row
    BY <1>0 DEF Reads
  <2> QED BY <2>1, ConsistencyIs
<1> HIDE DEF x
<1>5. verification'.status \notin {"pending", "observed", "ambiguous", "unavailable", "raised"} /\ kind' # "reference"
  BY <1>1, <1>3, <1>4
<1>6. verification'.status \in {"observed", "stable"} => verify_pc' = "done"
  BY <1>3
<1>7. Outcome'
  <2>1. /\ Verify!NoFalseAlarm' /\ Verify!PendingMeansBehind' /\ (verification'.status = "observed" => Observed')
        /\ Verify!StableIsConfirmed'
    BY <1>5, Zenon DEF Verify!NoFalseAlarm, Verify!PendingMeansBehind, Verify!StableIsConfirmed
  <2>2. verification' \in Results
    BY <1>3, <1>4
  <2> QED BY <1>6, <2>1, <2>2, Zenon DEF Outcome, Results, Verify!Row
<1> QED BY <1>1, <1>2, <1>3, <1>7, VerifyCompared

\* The verification begins in its invariant.
LEMMA VerifyInit == Init => VerifyInv
<1> SUFFICES ASSUME Init PROVE VerifyInv
  OBVIOUS
<1>1. /\ kind \in {"new", "cancel", "reference", "table"} /\ tif \in {"IOC", "GFD"}
      /\ hist = <<Verify!NewOrder(kind)>> /\ seen = [l \in Verify!Lists |-> 0]
      /\ verify_pc = "lookup" /\ attempt = 1
      /\ tracked = Verify!NoOrders /\ rows = {} /\ order_id = "none"
      /\ verification = Verify!Pending /\ disturbed = FALSE /\ behind = TRUE
  BY Zenon DEF Init, Verify!Init
<1> DEFINE n == Verify!NewOrder(kind)
<1>2. n.id \in {"none", "own"} /\ n.fills = {} /\ n.end = "none" /\ n \in Orders /\ (kind = "cancel" => n.id = "own")
  BY DEF Verify!NewOrder, Orders
<1>3. Verify!Filled(n) = 0 /\ IsFiniteSet(n.fills)
  <2>1. {} \in SUBSET Trades /\ IsFiniteSet({})
    BY FS_EmptySet
  <2> QED BY <1>2, <2>1, FilledIs DEF Verify!Filled
<1> HIDE DEF n
<1>4. OrderOK(n) /\ ~Verify!Over(n)
  BY <1>2, <1>3, OrderBounds DEF OrderOK, Verify!Over
<1>5. hist = <<n>> /\ Len(hist) = 1 /\ hist[1] = n
  BY <1>1 DEF n
<1>6. History
  <2>1. hist \in Seq(Orders) /\ hist # <<>> /\ Verify!Now = n
    BY <1>2, <1>5 DEF Verify!Now
  <2>2. \A i \in 1 .. Len(hist) : i = 1 /\ hist[i] = n
    BY <1>5
  <2> QED BY <1>4, <1>5, <2>1, <2>2 DEF History
<1>7. VerifyTypes
  <2>1. 1 \in 1 .. Attempts /\ seen \in [Verify!Lists -> 0 .. Len(hist)]
    BY <1>1, <1>5, OrderBounds
  <2> QED BY <1>1, <2>1, Zenon DEF VerifyTypes
<1>8. tracked.orders = {} /\ tracked.links = {}
  BY <1>1 DEF Verify!NoOrders
<1>9. Reads
  BY <1>1, <1>8, FS_EmptySet DEF Reads
<1>10. Undisturbed
  BY <1>1, <1>8 DEF Undisturbed
<1>11. Current
  BY <1>1 DEF Current
<1>12. Outcome
  <2>1. verification \in Results /\ verification.status = "pending"
    BY <1>1 DEF Results, Verify!Pending
  <2> QED BY <1>1, <2>1 DEF Outcome, Verify!NoFalseAlarm, Verify!PendingMeansBehind, Verify!StableIsConfirmed
<1> QED BY <1>6, <1>7, <1>9, <1>10, <1>11, <1>12, Zenon DEF VerifyInv

\* Every step of the readings keeps the invariant of the verification.
LEMMA VerifyStep == VerifyInv /\ [Next]_vars => VerifyInv'
<1> SUFFICES ASSUME VerifyInv, [Next]_vars PROVE VerifyInv'
  OBVIOUS
<1>1. UNCHANGED verifyVars \/ Verify!Next
  BY Zenon DEF Next, vars
<1>2. CASE UNCHANGED verifyVars
  BY <1>2, VerifyStutter
<1>3. CASE Verify!Next
  <2>1. ASSUME Verify!Done PROVE VerifyInv'
    <3>1. UNCHANGED verifyVars
      BY <2>1, Zenon DEF Verify!Done, Verify!vars, verifyVars
    <3> QED BY <3>1, VerifyStutter
  <2> QED BY <1>3, <2>1, VerifyExchange, VerifyLookup, VerifyNoLookup, VerifyReadOrders, VerifyReadFails, VerifyCompareNew,
    VerifyCompareCancel, VerifyCompareReference, VerifyCompareTable, Zenon DEF Verify!Next
<1> QED BY <1>1, <1>2, <1>3

\* What was read stays a version of the order that was sent, and every answer rests on such readings
\* (verification.py observe, query and query_reference; tracking.py).
THEOREM VerifyInvariant == Spec => []VerifyInv
<1> QED BY VerifyInit, VerifyStep, PTL DEF Spec

\* "observed" is true of the order that was sent, and a stable answer about a reference is confirmed,
\* whatever each list showed when (verification.py observe and query_reference).
THEOREM ObservationTrue == Spec => []ObservedIsTrue
<1>1. VerifyInv => ObservedIsTrue
  <2> SUFFICES ASSUME VerifyInv PROVE ObservedIsTrue
    OBVIOUS
  <2>0. History /\ Outcome
    BY Zenon DEF VerifyInv
  <2>1. Verify!StableIsConfirmed
    BY <2>0, Zenon DEF Outcome
  <2>2. ASSUME verification.status = "observed", NEW row \in verification.orders
        PROVE  /\ row.order_id = "own" \/ (row.order_id = "none" /\ Verify!Now.end = "rejected")
               /\ kind = "new" => /\ verification.trades \subseteq {Verify!TradeRow(t) : t \in Verify!Now.fills}
                                  /\ Added(verification.trades) = row.filled
               /\ row.status \in {"filled", "cancelled", "rejected"} =>
                    /\ row.filled = Verify!Filled(Verify!Now)
                    /\ IF row.status = "filled" THEN Verify!Filled(Verify!Now) = Volume ELSE Verify!Now.end = row.status
    <3>1. Observed
      BY <2>0, <2>2, Zenon DEF Outcome
    <3>2. PICK i \in 1 .. Len(hist) : /\ Shows(row, hist[i]) /\ row.order_id = hist[i].id
                                      /\ hist[i].id = "none" => hist[i].end = "rejected"
      BY <2>2, <3>1 DEF Observed
    <3>3. /\ OrderOK(hist[i]) /\ hist[i].id \in {"none", "own"} /\ (Verify!Over(hist[i]) => hist[i] = Verify!Now)
      BY <2>0, VersionIs DEF History
    <3>4. hist[i].end = "rejected" => Verify!Over(hist[i])
      BY DEF Verify!Over
    <3>5. row.status \in {"filled", "cancelled", "rejected"} =>
            /\ hist[i] = Verify!Now /\ row.filled = Verify!Filled(hist[i])
            /\ IF row.status = "filled" THEN Verify!Filled(hist[i]) = Volume ELSE hist[i].end = row.status
      BY <3>2, <3>3, RowOf DEF Shows
    <3>6. kind = "new" => /\ verification.trades \subseteq {Verify!TradeRow(t) : t \in Verify!Now.fills}
                          /\ Added(verification.trades) = row.filled
      BY <2>2, <3>1, Zenon DEF Observed
    <3> QED BY <3>2, <3>3, <3>4, <3>5, <3>6
  <2>3. verification.status = "observed" => verification.orders # {}
    BY <2>0, Zenon DEF Outcome, Observed
  <2>4. Verify!ObservedIsTrue
    BY <2>2, <2>3, Zenon DEF Verify!ObservedIsTrue, Added
  <2> QED BY <2>1, <2>4, Zenon DEF ObservedIsTrue
<1> QED BY <1>1, VerifyInvariant, PTL

\* Lists that merely lag are never called conflicting, and an order that is over and shown in every list is
\* never left pending (verification.py observe).
THEOREM LagPending == Spec => []LagIsPending
<1>1. VerifyInv => LagIsPending
  BY Zenon DEF VerifyInv, Outcome, LagIsPending
<1> QED BY <1>1, VerifyInvariant, PTL

\* The exchange's number, once recorded, is never replaced: another one is ambiguous (verification.py observe).
LEMMA NumberStays == [Next]_vars => (order_id # "none" => order_id' = order_id)
<1> SUFFICES ASSUME [Next]_vars, order_id # "none" PROVE order_id' = order_id
  OBVIOUS
<1>1. UNCHANGED verifyVars \/ Verify!Next
  BY Zenon DEF Next, vars
<1>2. CASE UNCHANGED verifyVars
  BY <1>2, Zenon DEF verifyVars
<1>3. CASE Verify!Lookup
  <2>1. PICK s : Verify!Identify(s)
    BY <1>3, Zenon DEF Verify!Lookup
  <2>2. \/ UNCHANGED order_id
        \/ Verify!Identifiers(s) \ {order_id} = {} /\ order_id' \in Verify!Identifiers(s)
    BY <2>1 DEF Verify!Identify
  <2> QED BY <2>2
<1>4. Verify!Exchange \/ Verify!NoLookup \/ Verify!ReadOrders \/ Verify!ReadFails \/ Verify!CompareNew \/ Verify!CompareCancel
      \/ Verify!CompareReference \/ Verify!CompareTable \/ Verify!Done => UNCHANGED order_id
  BY Zenon DEF Verify!Exchange, Verify!Numbers, Verify!Fills, Verify!Cancels, Verify!Rejects, Verify!Becomes, Verify!NoLookup,
    Verify!ReadOrders, Verify!ReadFails, Verify!CompareNew, Verify!CompareCancel, Verify!CompareReference, Verify!CompareTable,
    Verify!Done, Verify!vars
<1> QED BY <1>1, <1>2, <1>3, <1>4, Zenon DEF Verify!Next

\* Every variable of a verification stays in its domain, and no row of the order is ever of unknown status.
LEMMA VerifyTyped == VerifyInv => Verify!TypeOK
<1> SUFFICES ASSUME VerifyInv PROVE Verify!TypeOK
  OBVIOUS
<1>0. VerifyTypes /\ History /\ Reads /\ Outcome
  BY Zenon DEF VerifyInv
<1>1. tracked.links \subseteq Trades
  <2>1. Verify!Now.fills \subseteq Trades
    BY <1>0, VersionIs DEF OrderOK, Orders
  <2> QED BY <1>0, <2>1 DEF Reads
<1>2. tracked.orders \subseteq Verify!Row /\ rows \subseteq Verify!Row
  BY <1>0 DEF Reads
<1>3. /\ verification.orders \subseteq Verify!Row
      /\ verification.status \in {"pending", "observed", "ambiguous", "unavailable", "raised", "stable", "changing"}
  BY <1>0 DEF Outcome, Results
<1> QED BY <1>0, <1>1, <1>2, <1>3, Zenon DEF VerifyTypes, Verify!TypeOK

-----------------------------------------------------------------------------
(***************************************************************************)
(* The parts together.                                                     *)
(***************************************************************************)

\* Every part's state stays in its type.
THEOREM Types == Spec => []TypesOK
<1>1. ScreenInv /\ VerifyInv /\ PriceInv /\ StoreInv => TypesOK
  BY ScreenTyped, VerifyTyped, PriceTyped, StoreTyped, Zenon DEF ScreenInv, TypesOK
<1> QED BY <1>1, ScreenInvariant, VerifyInvariant, PriceInvariant, StoreInvariant, PTL

\* What a later step relies on is never lost or replaced: the evidence of an operation whose effect is
\* unknown survives crashes, cleans of either process and its own finish (artifacts.py), and the
\* exchange's number, once recorded, stays (verification.py).
THEOREM RecordIsKept == Spec => RecordKept
<1> DEFINE A == order_id # "none" => order_id' = order_id
<1>1. StoreInv => Store!EvidenceKept
  BY DEF StoreInv, Evidence
<1>2. [Next]_vars => [A]_(Verify!vars)
  BY NumberStays
<1> QED BY <1>1, <1>2, StoreInvariant, PTL DEF Spec, RecordKept, Verify!NumberKept

=============================================================================
