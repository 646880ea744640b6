----------------------------- MODULE ExchangeInfo -----------------------------
(***************************************************************************)
(* The symbols of an exchangeInfo response (bnb/utils/ExchangeInfo), with  *)
(* their filters, and what the exchange does with the same filters.  The   *)
(* entry of a filter is a record with its type, its numbers, which are     *)
(* decimals, whether it applies to market orders, and whether avgPriceMins *)
(* is a number or a text.                                                  *)
(***************************************************************************)
EXTENDS SymbolFilter, Sequences, SequencesExt

\* The elements of a sequence that are in a set, in their order.  (As SelectSeq,
\* which the provers have no definition of.)
Keep(seq, S) ==
  LET kept[i \in 0..Len(seq)] ==
        IF i = 0 THEN <<>>
        ELSE IF seq[i] \in S THEN Append(kept[i - 1], seq[i]) ELSE kept[i - 1]
  IN  kept[Len(seq)]

NoEntry == [min |-> 0, max |-> 0, step |-> 0]

\* A later entry of a type replaces an earlier one; what is not sent is zero.
LastEntry(filterJson, type) ==
  LET i == SelectLastInSeq(filterJson, LAMBDA entry : entry.type = type)
  IN  IF i = 0 THEN NoEntry ELSE filterJson[i]

\* std::stod: the double nearest to the decimal that was sent.
Stod(decimal) == Nearest(decimal)

Bounds(entry) == [min |-> Stod(entry.min), max |-> Stod(entry.max), step |-> Stod(entry.step)]

\* Other types are left aside.
CreateSymbolFilter(filterJson) ==
  LET last(type) == LastEntry(filterJson, type)
  IN  [price       |-> Bounds(last("PRICE_FILTER")),
       lot         |-> Bounds(last("LOT_SIZE")),
       marketLot   |-> Bounds(last("MARKET_LOT_SIZE")),
       notional    |-> [min |-> Stod(last("NOTIONAL").min), max |-> Stod(last("NOTIONAL").max)],
       minNotional |-> Stod(last("MIN_NOTIONAL").min),
       maxPosition |-> Stod(last("MAX_POSITION").max)]

\* The filters with a minimum, a maximum and a step.
Bounding == {"PRICE_FILTER", "LOT_SIZE", "MARKET_LOT_SIZE"}

\* What the exchange sends: numbers, and none above the largest one.
HasNumbers(entry) ==
  /\ entry.type \in Bounding => {entry.min, entry.max, entry.step} \subseteq 0..MaxDouble
  /\ entry.type \in {"NOTIONAL", "MIN_NOTIONAL"} => entry.min \in Nat
  /\ entry.type = "NOTIONAL" => entry.max \in Nat
  /\ entry.type = "MAX_POSITION" => entry.max \in Nat

\* avgPriceMins is read as a number in one filter and as a text in the other; the
\* wrong kind throws.
Parses(entry) ==
  /\ entry.type = "NOTIONAL" => entry.avgPriceMins = "number"
  /\ entry.type = "MIN_NOTIONAL" => entry.avgPriceMins = "text"

ParsesAll(listed) == \A i \in DOMAIN listed.filters : Parses(listed.filters[i])

NewSymbol(listed) == [name |-> listed.name, base |-> listed.base, quote |-> listed.quote,
                      filter |-> CreateSymbolFilter(listed.filters)]

\* The symbols that trade, up to the first one whose filters do not parse; the
\* exception is caught outside the loop.
TradedSymbols(listed) ==
  LET traded == Keep(listed, {s \in ToSet(listed) : s.trading})
      bad    == SelectInSeq(traded, LAMBDA s : ~ParsesAll(s))
      kept   == IF bad = 0 THEN traded ELSE SubSeq(traded, 1, bad - 1)
  IN  [i \in DOMAIN kept |-> NewSymbol(kept[i])]
-----------------------------------------------------------------------------
\* The exchange: whether a filter lets a market order through, at the average
\* price, with the position it leads to, on decimals.  A zero sets no limit.
ExchangeTakes(entry, price, qty, position) ==
  CASE entry.type \in {"LOT_SIZE", "MARKET_LOT_SIZE"} ->
         /\ entry.min <= qty /\ qty <= Limit(entry.max)
         /\ entry.step # 0 => qty % entry.step = 0
    [] entry.type \in {"NOTIONAL", "MIN_NOTIONAL"} ->
         /\ entry.applyMin => entry.min <= price * qty
         /\ entry.type = "NOTIONAL" /\ entry.applyMax => price * qty <= entry.max
    [] entry.type = "MAX_POSITION" -> position <= entry.max
    [] OTHER -> TRUE

=============================================================================
