------------------------------ MODULE SymbolFilter ------------------------------
(***************************************************************************)
(* The trading rules of a symbol (bnb/utils/SymbolFilter): rounding a      *)
(* price or a quantity and validating it.  A number is an integer, in a    *)
(* unit so small that the decimals of the exchange and the doubles of the  *)
(* program are multiples of it.  A filter the exchange did not send has    *)
(* zeros, as ExchangeInfo::createSymbolFilter leaves them.                 *)
(***************************************************************************)
EXTENDS Integers

CONSTANTS MaxDouble,  \* numeric_limits<double>::max()
          Rounding    \* the double an exact result is rounded to

ASSUME MaxDoubleAssumption == MaxDouble \in Nat \ {0}

\* What IEEE 754 asks of rounding to nearest: a double stays as it is, and the
\* order is kept.
ASSUME RoundingAssumption ==
  /\ Rounding \in [0..MaxDouble -> 0..MaxDouble]
  /\ Rounding[0] = 0 /\ Rounding[MaxDouble] = MaxDouble
  /\ \A x \in 0..MaxDouble : Rounding[Rounding[x]] = Rounding[x]
  /\ \A x \in 1..MaxDouble : Rounding[x - 1] <= Rounding[x]

\* Of a result above the largest double only that it is above is kept.
Nearest(x) == IF x \in 0..MaxDouble THEN Rounding[x] ELSE x

Larger(a, b)      == IF a < b THEN b ELSE a
Smaller(a, b)     == IF b < a THEN b ELSE a
Clamp(v, lo, hi)  == Smaller(Larger(v, lo), hi)

\* A maximum of zero is no maximum.
Limit(max) == IF max = 0 THEN MaxDouble ELSE max

\* Mutant: rounding up leaves the remainder in.
RoundToNearestKeeps(value, stepSize, roundUp) ==
  IF stepSize = 0 \/ value % stepSize = 0 THEN value
  ELSE Nearest(IF roundUp THEN value + stepSize ELSE value - (value % stepSize))

\* Mutant: always rounds up.
RoundToNearestUp(value, stepSize, roundUp) ==
  IF stepSize = 0 \/ value % stepSize = 0 THEN value
  ELSE Nearest(Nearest(value - (value % stepSize)) + stepSize)

\* fmod of two doubles is exact, the difference and the sum are rounded.  The step is
\* a double, not the decimal it was read from, and so the remainder of a multiple of
\* the decimal need not be zero: with a step of 0.1, that of 0.3 is almost the step.
RoundToNearest(value, stepSize, roundUp) ==
  IF stepSize = 0 \/ value % stepSize = 0 THEN value
  ELSE LET down == Nearest(value - (value % stepSize))
       IN  IF roundUp THEN Nearest(down + stepSize) ELSE down

RoundPrice(f, price, roundUp) ==
  Clamp(RoundToNearest(price, f.price.step, roundUp), f.price.min, Limit(f.price.max))

\* The lot is the coarser of LOT_SIZE and MARKET_LOT_SIZE, the maximum the
\* smaller; the minima are not used.
LotSize(f) == Larger(f.marketLot.step, f.lot.step)
MaxQty(f)  == Smaller(Limit(f.marketLot.max), Limit(f.lot.max))

\* Mutant: a maximum of zero is taken for a maximum.
RoundQtyZeroLimit(f, qty, roundUp) ==
  Clamp(RoundToNearest(qty, LotSize(f), roundUp), 0, Smaller(f.marketLot.max, f.lot.max))

RoundQty(f, qty, roundUp) ==
  Clamp(RoundToNearest(qty, LotSize(f), roundUp), 0, MaxQty(f))

ValidatePrice(f, price)  == price = RoundPrice(f, price, FALSE)
ValidateQuantity(f, qty) == qty = RoundQty(f, qty, FALSE)

\* Mutant: MIN_NOTIONAL is not looked at.
ValidateNotionalOnly(f, price, qty) ==
  f.notional.min <= Nearest(price * qty) /\ Nearest(price * qty) <= f.notional.max

\* Whether the filters apply to market orders is not looked at, and a missing
\* maximum is zero.
ValidateNotional(f, price, qty) ==
  LET notional == Nearest(price * qty)
  IN  /\ f.notional.min <= notional /\ notional <= f.notional.max
      /\ f.minNotional <= notional

ValidateMaxPosition(f, position) == position <= f.maxPosition

=============================================================================
