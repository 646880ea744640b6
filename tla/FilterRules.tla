------------------------------- MODULE FilterRules -------------------------------
(***************************************************************************)
(* SymbolFilter under lists of filters, as ExchangeInfo reads them, and    *)
(* the exchange's own view of them.  The exchange counts in decimals, the  *)
(* program in doubles: a decimal quantity walks from 0 up under each list, *)
(* and the program owns the double nearest to it.                          *)
(***************************************************************************)
EXTENDS ExchangeInfo

CONSTANTS FilterLists,        \* of the symbols of the exchange
          MaxValue,           \* of the quantities
          Prices, Positions,  \* at which an order is validated; prices are whole numbers
          MaxAmount,          \* of quantities, their values and positions
          TextUnit,           \* see BNBRequests
          Grain,              \* the last decimal: every decimal is a multiple of it
          Precision           \* 2^53 for doubles

Requests == INSTANCE BNBRequests

\* The numbers of a filter are decimals; its bounds are zero or multiples of its
\* step, and its maximum is not below its minimum; a symbol has at most one filter of
\* each type.
Decimal(x) == x % Grain = 0

OnGrid(entry) ==
  /\ entry.type \in Bounding =>
       /\ Decimal(entry.min) /\ Decimal(entry.max) /\ Decimal(entry.step)
       /\ entry.step # 0 => entry.min % entry.step = 0 /\ entry.max % entry.step = 0
       /\ entry.min <= Limit(entry.max)
       /\ Nearest(MaxValue) + Nearest(entry.step) <= MaxDouble
  /\ entry.type \in {"NOTIONAL", "MIN_NOTIONAL"} => Decimal(entry.min)
  /\ entry.type \in {"NOTIONAL", "MAX_POSITION"} => Decimal(entry.max)

ASSUME ListsAssumption ==
  \A list \in FilterLists :
    /\ list \in Seq(ToSet(list))
    /\ \A i \in DOMAIN list : HasNumbers(list[i]) /\ OnGrid(list[i])
    /\ \A i, j \in DOMAIN list : list[i].type = list[j].type => i = j

\* A double is off by less than a Precision-th, in relation to the number or, of the
\* smallest ones, to the last decimal.
ASSUME PrecisionAssumption ==
  /\ Grain \in Nat \ {0} /\ Precision \in Nat \ {0}
  /\ \A x \in 0..MaxDouble :
       /\ Precision * (x - Nearest(x)) <= Larger(x, Grain)
       /\ Precision * (Nearest(x) - x) <= Larger(x, Grain)

\* No amount is so large that its last decimals are lost in a double.
ASSUME ValuesAssumption ==
  /\ TextUnit \in Nat \ {0} /\ Decimal(TextUnit)
  /\ MaxAmount \in Nat /\ MaxAmount + 2 * Grain <= MaxDouble
  /\ 8 * (MaxAmount + Grain) <= Precision * Grain
  /\ MaxValue \in 0..MaxAmount
  /\ Prices \subseteq Nat /\ \A price \in Prices : price * MaxValue <= MaxAmount
  /\ Positions \subseteq 0..MaxAmount /\ \A position \in Positions : Decimal(position)

VARIABLES filters, value

WalkInit == value = 0 /\ filters \in FilterLists

WalkNext ==
  /\ value + Grain <= MaxValue
  /\ value' = value + Grain
  /\ UNCHANGED filters

WalkSpec == WalkInit /\ [][WalkNext]_<<filters, value>>

filter == CreateSymbolFilter(filters)
owned  == Nearest(value)

Has(type)  == \E i \in DOMAIN filters : filters[i].type = type
Sent(type) == LastEntry(filters, type)

\* The lot and the maximum of the exchange, in decimals.
SentLot == Larger(Sent("MARKET_LOT_SIZE").step, Sent("LOT_SIZE").step)
SentMax == Smaller(Limit(Sent("MARKET_LOT_SIZE").max), Limit(Sent("LOT_SIZE").max))

\* A step of which every multiple is a double: 1 and 0.5 are, 0.1 is not.
Exact(step) == step # 0 => \A k \in 0..(MaxDouble \div step) : Nearest(k * step) = k * step
-----------------------------------------------------------------------------
\* An order the strategy sizes by rounding down what it owns does not spend more,
\* and not more than a maximum allows.  So does the text of its request, when the
\* lot has no more decimals than a text, in decimals and whatever the doubles: a
\* remainder that is wrong loses a step, it never adds one.
SentQtyWithinMeans ==
  LET qty == RoundQty(filter, owned, FALSE)
  IN  /\ qty <= owned /\ qty <= MaxQty(filter)
      /\ SentLot # 0 /\ SentLot % TextUnit = 0 =>
           /\ Requests!TextOf(qty) <= value
           /\ SentMax % TextUnit = 0 => Requests!TextOf(qty) <= SentMax

\* What rounding returns, up or down, passes the validation of the same filter,
\* unless the step has multiples that are no doubles (0.9 rounds down to 0.8 under a
\* step of 0.1, and so 0.95, which rounds to 0.9, is not validated then), or the
\* maximum is off the grid of the lot.
RoundedValidates ==
  \A up \in BOOLEAN :
    /\ Exact(Sent("PRICE_FILTER").step) => ValidatePrice(filter, RoundPrice(filter, owned, up))
    /\ /\ Exact(SentLot)
       /\ SentLot # 0 => \A type \in {"LOT_SIZE", "MARKET_LOT_SIZE"} : Sent(type).max % SentLot = 0
       => ValidateQuantity(filter, RoundQty(filter, owned, up))

Validates(price, position) ==
  /\ ValidateQuantity(filter, owned)
  /\ ValidateNotional(filter, price, owned)
  /\ ValidateMaxPosition(filter, Nearest(position))

\* What the validators of SymbolFilter accept the exchange takes, but for two
\* cases: a quantity below a minimum, which they do not look at, and two lots of
\* which the coarser is no multiple of the other.
ValidationSound ==
  \A price \in Prices, position \in Positions : Validates(price, position) =>
    \A i \in DOMAIN filters :
      \/ ExchangeTakes(filters[i], price, value, position)
      \/ /\ filters[i].type \in {"LOT_SIZE", "MARKET_LOT_SIZE"}
         /\ \/ value < filters[i].min
            \/ filters[i].step # 0 /\ SentLot % filters[i].step # 0

\* A notional that is just a bound, and its double another than that of the bound.
AstrayAt(price, bound) == price * value = bound /\ Nearest(price * owned) # Nearest(bound)

\* What the exchange takes the validators accept, but for: a lot with multiples that
\* are no doubles, when the remainder of this one is not zero (0.3 under a lot of
\* 0.1); a list without NOTIONAL or MAX_POSITION, whose missing maximum is zero; a
\* bound of the notional that does not apply to market orders; and a notional on the
\* bound that its double misses (3 * 0.1 is above 0.3).
ValidationComplete ==
  \A price \in Prices, position \in Positions :
    (\A i \in DOMAIN filters : ExchangeTakes(filters[i], price, value, position)) =>
      /\ \/ ValidateQuantity(filter, owned)
         \/ ~Exact(SentLot) /\ owned % LotSize(filter) # 0
      /\ \/ ValidateNotional(filter, price, owned)
         \/ ~Has("NOTIONAL")
         \/ \E i \in DOMAIN filters :
              \/ /\ filters[i].type \in {"NOTIONAL", "MIN_NOTIONAL"}
                 /\ \/ ~filters[i].applyMin /\ price * value < filters[i].min
                    \/ AstrayAt(price, filters[i].min)
              \/ /\ filters[i].type = "NOTIONAL"
                 /\ \/ ~filters[i].applyMax /\ price * value > filters[i].max
                    \/ AstrayAt(price, filters[i].max)
      /\ Has("MAX_POSITION") => ValidateMaxPosition(filter, Nearest(position))

=============================================================================
