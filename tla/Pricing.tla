------------------------------ MODULE Pricing -------------------------------
(***************************************************************************)
(* Which price an order is sent with (terminal/pricing.py, and             *)
(* emulate_market of market.py), checked against what the price should be. *)
(*                                                                         *)
(* Prices are whole numbers of a unit much smaller than the tick; they are *)
(* exact fractions in the code.  Noise is the code's epsilon, a            *)
(* billionth of the tick there; only that two of it are less than a tick   *)
(* matters.  The permitted excess over a limit is a fraction of the limit. *)
(***************************************************************************)
EXTENDS Integers, Sequences, SequencesExt

CONSTANTS
  Tick,        \* the price tick, in units
  Noise,       \* epsilon, in units
  Ratio,       \* price_max_deviation_ratio, in units of 1 / Whole
  Whole,
  MaxPrice,    \* bound: prices and limits
  Volumes      \* volumes and volume limits

\* What the constants must be.
Constants ==
  /\ {Tick, Whole} \subseteq Nat \ {0} /\ {Noise, Ratio, MaxPrice} \subseteq Nat
  /\ 2 * Noise < Tick /\ Volumes \subseteq Nat

VARIABLES
  order,     \* kind, side, price and volume
  info,      \* the instrument as read: known, trading, price limits, volume limits
  result     \* the effective price and its reasons, or the error

vars == <<order, info, result>>

Pending == [status |-> "pending", price |-> 0, reasons |-> <<>>]
Error(status) == [status |-> status, price |-> 0, reasons |-> <<>>]
Price(p, reasons) == [status |-> "ok", price |-> p, reasons |-> reasons]

Init ==
  /\ order \in [kind : {"limit", "market"}, side : {"buy", "sell"}, price : 1 .. MaxPrice, volume : Volumes \ {0}]
  /\ info \in [known : BOOLEAN, trading : BOOLEAN, lower : 0 .. MaxPrice, upper : 0 .. MaxPrice,
               least : Volumes, most : Volumes]
  /\ result = Pending

-----------------------------------------------------------------------------
(* The algorithm.                                                          *)

Floor(p) == p \div Tick
Ceil(p) == -((-p) \div Tick)
OnGrid(p) == p % Tick = 0

\* price_rules: the limits are usable and there is a price between them.
Usable ==
  /\ info.known /\ info.lower > 0 /\ info.upper > 0 /\ info.lower <= info.upper
  /\ Ceil(info.lower) <= Floor(info.upper)

VolumesUsable == info.least >= 1 /\ info.most >= info.least

\* validate_limit: 503 for unusable data, 422 for an order outside of them.
ValidateLimit(p) ==
  IF ~Usable \/ ~VolumesUsable THEN "503"
  ELSE IF order.volume \notin info.least .. info.most \/ p \notin info.lower .. info.upper \/ ~OnGrid(p) THEN "422"
  ELSE "ok"

\* The nearest tick, half a tick upwards.
Nearest(p) == (IF 2 * (p % Tick) >= Tick THEN Floor(p) + 1 ELSE Floor(p)) * Tick

Near(p, q) == p - q <= Noise /\ q - p <= Noise

Denoised(p) == IF Near(p, Nearest(p)) THEN Nearest(p) ELSE p

\* Mutant of Beyond: the sell side takes the excess from the wrong side of its limit.
BeyondWrong(side, p) ==
  IF side = "buy" THEN p * Whole - info.upper * (Whole + Ratio) ELSE info.lower * (Whole + Ratio) - p * Whole

\* How far the price is beyond the permitted excess over its own limit, in
\* units of 1 / Whole.
Beyond(side, p) ==
  IF side = "buy" THEN p * Whole - info.upper * (Whole + Ratio) ELSE info.lower * (Whole - Ratio) - p * Whole

\* A buyer's price is rounded down, a seller's up.
Aligned(side, p) == (IF side = "buy" THEN Floor(p) ELSE Ceil(p)) * Tick

\* A buyer's price below the lower limit, a seller's above the upper one.
Hopeless(side, p) == IF side = "buy" THEN p < info.lower ELSE p > info.upper
Outside(side, p) == IF side = "buy" THEN p > info.upper ELSE p < info.lower

Limit(side) == IF side = "buy" THEN info.upper ELSE info.lower

If(c, reason) == IF c THEN <<reason>> ELSE <<>>

NormalizeLimit(side, requested) ==
  LET price == Denoised(requested)
      clipped == IF Outside(side, price) THEN Limit(side) ELSE price
      actual == Aligned(side, clipped)
      noisy == price # requested \/ (Outside(side, price) /\ Beyond(side, price) > 0)
      reasons == If(noisy, "float_noise") \o If(clipped # price, "limit") \o If(actual # clipped, "tick")
  IN IF ~Usable \/ ~VolumesUsable THEN Error("503")
     ELSE IF order.volume \notin info.least .. info.most THEN Error("422")
     ELSE IF Hopeless(side, price) THEN Error("422")
     ELSE IF Outside(side, price) /\ Beyond(side, price) > Noise * Whole THEN Error("422")
     ELSE IF actual <= 0 \/ actual \notin info.lower .. info.upper THEN Error("422")
     ELSE IF ValidateLimit(actual) # "ok" THEN Error(ValidateLimit(actual))
     ELSE Price(actual, reasons)

\* A market order is a limit order at the limit, which must be on the grid.
EmulateMarket(side) ==
  IF ~info.trading THEN Error("409")
  ELSE IF ~Usable THEN Error("503")
  ELSE IF ~OnGrid(Limit(side)) THEN Error("503")
  ELSE IF ValidateLimit(Limit(side)) # "ok" THEN Error(ValidateLimit(Limit(side)))
  ELSE Price(Limit(side), <<>>)

\* What execute decides before the order is entered.
Decide ==
  /\ result = Pending
  /\ result' = IF order.kind = "limit" THEN NormalizeLimit(order.side, order.price) ELSE EmulateMarket(order.side)
  /\ UNCHANGED <<order, info>>

\* limit_ioc and limit check the price once more against the same data.
Revalidate ==
  /\ result.status = "ok"
  /\ result' = IF ValidateLimit(result.price) = "ok" THEN result ELSE Error("late")
  /\ UNCHANGED <<order, info>>

Next == Decide \/ Revalidate

Spec == Init /\ [][Next]_vars

-----------------------------------------------------------------------------
(* What the price should be.                                               *)

Legal == {p \in info.lower .. info.upper : OnGrid(p)}

\* The legal prices that are no worse than asked, up to the noise.
Acceptable == {p \in Legal : IF order.side = "buy" THEN p <= order.price + Noise ELSE p >= order.price - Noise}

Best(S) == CHOOSE p \in S : \A q \in S : IF order.side = "buy" THEN q <= p ELSE q >= p

Ok == result.status = "ok"

\* Every variable stays in its domain; the second check of the entry points never
\* refuses ("late") what the first has accepted.
TypeOK ==
  /\ result.status \in {"pending", "ok", "409", "422", "503"} /\ result.price \in Nat
  /\ Len(result.reasons) <= 3

\* A limit order goes out with the best legal price that is no worse than the one
\* asked for: nothing legal and closer to the request is passed over, and a buyer
\* never pays, a seller never gets, more than a rounding error off.
BestLegalPrice == Ok /\ order.kind = "limit" => Acceptable # {} /\ result.price = Best(Acceptable)

\* A limit order is refused as wrong only if its volume is out of bounds, no legal
\* price is acceptable, or it lies beyond the limit by more than the configured
\* share of that limit.
RefusedWithReason ==
  result.status = "422" /\ order.kind = "limit" =>
    \/ order.volume \notin info.least .. info.most
    \/ Acceptable = {}
    \/ IF order.side = "buy" THEN order.price * Whole > info.upper * (Whole + Ratio)
       ELSE order.price * Whole < info.lower * (Whole - Ratio)

\* The effective price needs no further adjustment: normalised again, as a repeated
\* request would, it stays, with no reason given; and a price that was changed says why.
Stable ==
  Ok /\ order.kind = "limit" =>
    /\ NormalizeLimit(order.side, result.price) = Price(result.price, <<>>)
    /\ result.price # order.price <=> result.reasons # <<>>

\* A market order is sent at the legal price that most surely trades.
MarketAtLimit == Ok /\ order.kind = "market" => result.price = Best(Legal)

=============================================================================
