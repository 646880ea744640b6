-------------------------------- MODULE ArbPaths --------------------------------
(***************************************************************************)
(* The pure part of strategies/CircularArb: the arbitrage paths over a     *)
(* list of symbols, and the profit of a path.  An order has a symbol and a *)
(* way, and gets a quantity and a price when its path is evaluated.        *)
(*                                                                         *)
(* Amounts are integers: the products and the fee, which the code computes *)
(* in double, are rounded down to the unit.                                *)
(***************************************************************************)
EXTENDS ExchangeInfo

CONSTANTS FeeNum, FeeDen  \* FEE, as a fraction of the amount

ASSUME FeeAssumption == FeeNum \in Nat /\ FeeDen \in Nat \ {0} /\ FeeNum <= FeeDen

NewOrder(s, way) == [symbol |-> s, way |-> way, qty |-> 0, price |-> 0]

\* operator== of Symbol: the name and the filter do not count.
SameSymbol(s1, s2) == s1.base = s2.base /\ s1.quote = s2.quote

StartingAsset(o)  == IF o.way = "BUY" THEN o.symbol.quote ELSE o.symbol.base
ResultingAsset(o) == IF o.way = "BUY" THEN o.symbol.base ELSE o.symbol.quote

\* The orders that spend the coin, in the order of the list.
GetPossibleOrders(coin, symbols) ==
  LET related == Keep(symbols, {s \in ToSet(symbols) : coin \in {s.base, s.quote}})
  IN  [i \in DOMAIN related |->
         NewOrder(related[i], IF coin = related[i].base THEN "SELL" ELSE "BUY")]

UnusedSymbols(path, symbols) ==
  Keep(symbols, {s \in ToSet(symbols) : \A i \in DOMAIN path : ~SameSymbol(path[i].symbol, s)})

\* Mutant: the last order may end in any asset.
ExtensionsAnyEnd(path, symbols, startingAsset, last) ==
  LET next == GetPossibleOrders(ResultingAsset(path[Len(path)]), UnusedSymbols(path, symbols))
  IN  [i \in DOMAIN next |-> Append(path, next[i])]

\* The continuations of a path; those of the last turn must end in the asset
\* the path started from.
Extensions(path, symbols, startingAsset, last) ==
  LET possible == GetPossibleOrders(ResultingAsset(path[Len(path)]), UnusedSymbols(path, symbols))
      next == Keep(possible,
                   {o \in ToSet(possible) : last => ResultingAsset(o) = startingAsset})
  IN  [i \in DOMAIN next |-> Append(path, next[i])]

ComputeArbitragePaths(symbols, startingAsset, depth) ==
  LET first == GetPossibleOrders(startingAsset, symbols)
      paths[k \in 1..depth] ==
        IF k = 1 THEN [i \in DOMAIN first |-> <<first[i]>>]
        ELSE FlattenSeq([i \in DOMAIN paths[k - 1] |->
               Extensions(paths[k - 1][i], symbols, startingAsset, k = depth)])
  IN  paths[depth]
-----------------------------------------------------------------------------
NoSignal == [found |-> FALSE]

AfterFee(amount) == (amount * (FeeDen - FeeNum)) \div FeeDen

\* Mutant: the fee is taken off the profit only.
FillIgnoringFee(order, amount, book) ==
  LET price == IF order.way = "SELL" THEN book.bid ELSE book.ask
      qty   == RoundQty(order.symbol.filter,
                        IF order.way = "SELL" THEN amount ELSE amount \div book.ask, FALSE)
  IN  [order |-> [order EXCEPT !.qty = qty, !.price = price],
       amount |-> IF order.way = "SELL" THEN qty * price ELSE qty]

\* One leg: sell to the bid or buy from the ask as much as the amount allows;
\* the amount after the fee is what the next leg can spend.
Fill(order, amount, book) ==
  LET price == IF order.way = "SELL" THEN book.bid ELSE book.ask
      qty   == RoundQty(order.symbol.filter,
                        IF order.way = "SELL" THEN amount ELSE amount \div book.ask, FALSE)
  IN  [order |-> [order EXCEPT !.qty = qty, !.price = price],
       amount |-> AfterFee(IF order.way = "SELL" THEN qty * price ELSE qty)]

\* evaluatePath: no signal when an amount is zero, the book of a symbol is not
\* known, or nothing is gained.
EvaluatePath(path, balance, marketData) ==
  LET leg[i \in 0..Len(path)] ==
        IF i = 0 THEN [order |-> path[1], amount |-> balance]
        ELSE LET name == path[i].symbol.name
             IN  IF leg[i - 1].amount = 0 \/ name \notin DOMAIN marketData
                 THEN [order |-> path[i], amount |-> 0]
                 ELSE Fill(path[i], leg[i - 1].amount, marketData[name])
      evaluable == \A i \in DOMAIN path : leg[i - 1].amount # 0
                     /\ path[i].symbol.name \in DOMAIN marketData
      pnl == leg[Len(path)].amount - balance
  IN  IF evaluable /\ pnl > 0
      THEN [found |-> TRUE, pnl |-> pnl, orders |-> [i \in DOMAIN path |-> leg[i].order]]
      ELSE NoSignal

Uses(path, name) == \E i \in DOMAIN path : path[i].symbol.name = name

\* Mutant: the evaluation of the last path is the result, a signal or not.
FindSignalLast(paths, name, balance, marketData) ==
  LET last == SelectLastInSeq(paths, LAMBDA path : Uses(path, name))
  IN  IF last = 0 THEN NoSignal ELSE EvaluatePath(paths[last], balance, marketData)

\* onMarketData: of the paths that use the symbol, the last profitable one; the
\* variable maxPnl stays 0.
FindSignal(paths, name, balance, marketData) ==
  LET last == SelectLastInSeq(paths, LAMBDA path :
                Uses(path, name) /\ EvaluatePath(path, balance, marketData).found)
  IN  IF last = 0 THEN NoSignal ELSE EvaluatePath(paths[last], balance, marketData)

=============================================================================
