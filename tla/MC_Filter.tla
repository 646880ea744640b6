-------------------------------- MODULE MC_Filter --------------------------------
(***************************************************************************)
(* FilterRules over small lists of filters, in tenths, and over small      *)
(* doubles: a sign-less IEEE 754 format of nine bits.  The unit is         *)
(* 1/(5 * 2^12), of which a tenth is 2048 and a one 5 * 2^12.              *)
(***************************************************************************)
EXTENDS FilterRules

CONSTANTS Steps, MarketSteps, PriceSteps, Minima, Maxima  \* in tenths

Tenth == 2048

\* The distance of the doubles around x, and rounding to the nearest, of two to
\* the even one.  The ones nearest to a tenth are 2045, 2050, 2055.
Spacing(x)   == 5 * 2^(CHOOSE e \in 0..8 : x < 5 * 2^(9 + e) /\ (e = 0 \/ x >= 5 * 2^(8 + e)))
ToNearest(x) ==
  LET ulp  == Spacing(x)
      m    == x \div ulp
      twice == 2 * (x % ulp)
  IN  IF twice < ulp \/ (twice = ulp /\ m % 2 = 0) THEN m * ulp ELSE (m + 1) * ulp
NineBits == [x \in 0..MaxDouble |-> ToNearest(x)]

TenthsOf(S) == {Tenth * n : n \in S}

Entries(types, steps) ==
  {e \in [type : types, min : TenthsOf(Minima), max : TenthsOf(Maxima), step : TenthsOf(steps)] :
     (e.step # 0 => e.min % e.step = 0 /\ e.max % e.step = 0) /\ e.min <= Limit(e.max)}

Notionals ==
  [type : {"NOTIONAL"}, min : TenthsOf({4}), max : TenthsOf({6, 20}), applyMin : BOOLEAN,
   applyMax : BOOLEAN, avgPriceMins : {"number"}]
MinNotionals ==
  [type : {"MIN_NOTIONAL"}, min : TenthsOf({9}), applyMin : BOOLEAN, avgPriceMins : {"text"}]
MaxPositions == [type : {"MAX_POSITION"}, max : TenthsOf({5})]

\* At most one filter of each type; a price filter plays no part in a quantity.
Maybe(entries) == {<<>>} \cup {<<e>> : e \in entries}
SmallLists ==
  {<<p>> : p \in Entries({"PRICE_FILTER"}, PriceSteps)}
    \cup {l \o m \o n \o k \o x :
            l \in Maybe(Entries({"LOT_SIZE"}, Steps)),
            m \in Maybe({e \in Entries({"MARKET_LOT_SIZE"}, MarketSteps) : e.min = 0}),
            n \in Maybe(Notionals), k \in Maybe(MinNotionals), x \in Maybe(MaxPositions)}

SmallPositions == TenthsOf({0, 5, 6})
TwoTenths      == 2 * Tenth
Quantities     == 15 * Tenth
Amounts        == 45 * Tenth

=============================================================================
