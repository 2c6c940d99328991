----------------------------- MODULE MCReadings -----------------------------
(***************************************************************************)
(* What the bridge concludes from what it reads, and keeps: the tables and *)
(* dialogs on the screen, the verification of an order over lists that     *)
(* lag, the price of an order, and the artifacts.  They share no variable, *)
(* so each behaviour moves one of them, part, and leaves the others as     *)
(* they begin.                                                             *)
(***************************************************************************)
EXTENDS ScreenPart

CONSTANTS
  Trades, Volume, Attempts,                                 \* the order that is verified
  Tick, Noise, Ratio, Whole, MaxPrice, Volumes,             \* price rules
  MaxDirs, MaxSize, Maximum, Disk, MinimumFree, Reserve     \* artifacts

VARIABLES
  part,
  kind, tif, hist, seen, verify_pc, attempt, tracked, rows, order_id, previous, verification,
  disturbed, behind,
  order, info, price,
  dirs, holder, call, current, unknown

Verify == INSTANCE Verification WITH
  Kinds <- {"new", "cancel", "reference", "table"},
  Faults <- {"two", "renumber", "conflict", "torn", "session"},
  pc <- verify_pc, result <- verification
Prices == INSTANCE Pricing WITH result <- price
Store == INSTANCE Artifacts

ASSUME ConstantsAssumption ==
  Verify!Constants /\ Prices!Constants /\ Store!Constants

verifyVars == <<kind, tif, hist, seen, verify_pc, attempt, tracked, rows, order_id, previous,
                verification, disturbed, behind>>
priceVars == <<order, info, price>>
storeVars == <<dirs, holder, call, current, unknown>>
vars == <<part, screenVars, verifyVars, priceVars, storeVars>>

\* The order and the instrument of the behaviours in which no price is decided.
AnOrder == [kind |-> "limit", side |-> "buy", price |-> Tick, volume |-> 1]
AnInstrument ==
  [known |-> TRUE, trading |-> TRUE, lower |-> Tick, upper |-> Tick, least |-> 1, most |-> 1]

Init ==
  /\ Screen!Init /\ Verify!Init /\ Store!Init
  /\ \/ /\ part \in {"screen", "verification", "artifacts"}
        /\ order = AnOrder /\ info = AnInstrument /\ Prices!Init
     \/ part = "prices" /\ Prices!Init
  /\ part = "screen" \/ table.full
  /\ part = "verification" \/ (kind = "new" /\ tif = "GFD")

Next ==
  \/ part = "screen" /\ Screen!Next /\ UNCHANGED <<part, verifyVars, priceVars, storeVars>>
  \/ part = "verification" /\ Verify!Next /\ UNCHANGED <<part, screenVars, priceVars, storeVars>>
  \/ part = "prices" /\ Prices!Next /\ UNCHANGED <<part, screenVars, verifyVars, storeVars>>
  \/ part = "artifacts" /\ Store!Next /\ UNCHANGED <<part, screenVars, verifyVars, priceVars>>

Spec == Init /\ [][Next]_vars

\* Every part's state stays in its type.
TypesOK == Screen!TypeOK /\ Verify!TypeOK /\ Prices!TypeOK /\ Store!TypeOK

\* What the screen returns is trusted for a reason: a table is complete and was located in this
\* operation, a balance was shown after its own question, and a modifier that is still down
\* is remembered (gui.py grid, balance, key).
ScreenTrusted == Screen!TableIsComplete /\ Screen!BalanceShownHere /\ Screen!HeldIsRemembered

\* A recovery acts only on what it has recognised, although windows change between the look
\* and the act (gui.py ensure_ready, readiness.c).
RecoversOnlyKnown == Screen!RecoversOnlyKnown

\* "observed" is true of the order that was sent, and a stable answer about a reference is
\* confirmed, whatever each list showed when (verification.py observe and query_reference).
ObservedIsTrue == Verify!ObservedIsTrue /\ Verify!StableIsConfirmed

\* Lists that merely lag are never called conflicting, and an order that is over and shown
\* in every list is never left pending (verification.py observe).
LagIsPending == Verify!NoFalseAlarm /\ Verify!PendingMeansBehind

\* An order goes out at the best legal price that is no worse than the one asked for, is refused
\* only for a reason, and its price needs no second adjustment (pricing.py).
PriceIsRight ==
  Prices!BestLegalPrice /\ Prices!RefusedWithReason /\ Prices!Stable /\ Prices!MarketAtLimit

\* What a later step relies on is never lost or replaced: the evidence of an operation whose
\* effect is unknown survives crashes, cleans of either process and its own finish (artifacts.py),
\* and the exchange's number, once recorded, stays (verification.py).
RecordKept == []Store!EvidenceKept /\ Verify!NumberKept

\* A new directory starts within the budget and the free disk, with older ended directories
\* removed first (artifacts.py create and _ensure).
BudgetHonoured == Store!BudgetHonoured /\ Store!OldestFirst /\ Store!RefusedOnlyWhenFull

=============================================================================
