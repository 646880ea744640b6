----------------------------- MODULE MC_CircularArb -----------------------------
(***************************************************************************)
(* CircularArb over small markets: one triangle with prices that move, and *)
(* every list of up to four pairs of three assets.                         *)
(***************************************************************************)
EXTENDS CircularArb, TLC

AsIs == [x \in 0..MaxDouble |-> x]

Filters(lotStep, maxQty) ==
  <<[type |-> "LOT_SIZE", min |-> 0, max |-> maxQty, step |-> lotStep],
    [type |-> "NOTIONAL", min |-> 0, max |-> 0, avgPriceMins |-> "number"]>>
Pair(name, base, quote, filters) ==
  [name |-> name, base |-> base, quote |-> quote, filters |-> filters, trading |-> TRUE]
Book(bid, ask) == [bid |-> bid, ask |-> ask]

\* BTC/USDT, ETH/BTC, ETH/USDT, and BNB/USDT, which is on no triangle.
BTCUSDT == Pair(1, "BTC", "USDT", Filters(1, 0))
ETHBTC  == Pair(2, "ETH", "BTC", Filters(2, 0))
ETHUSDT == Pair(3, "ETH", "USDT", Filters(1, 150))
BNBUSDT == Pair(4, "BNB", "USDT", Filters(1, 0))

OneTriangle == {<<BTCUSDT, ETHBTC, ETHUSDT, BNBUSDT>>, <<ETHUSDT, BNBUSDT, BTCUSDT, ETHBTC>>}

\* The second ETH/BTC book makes one direction of the triangle profitable, the
\* second ETH/USDT book the other one.
Moving == (1 :> <<Book(10, 11)>>) @@ (2 :> <<Book(2, 2), Book(3, 3), Book(2, 2)>>)
          @@ (3 :> <<Book(20, 21), Book(24, 25)>>) @@ (4 :> <<Book(5, 5)>>)

\* Three assets and the six pairs of them, and two pairs more: one that does not
\* trade and one whose filters do not parse.
PairOf(n) ==
  LET pairs == <<<<"BTC", "USDT">>, <<"USDT", "BTC">>, <<"ETH", "USDT">>, <<"USDT", "ETH">>,
                 <<"ETH", "BTC">>, <<"BTC", "ETH">>>>
  IN  Pair(10 + n, pairs[n][1], pairs[n][2], Filters(1, 0))
Odd == {[PairOf(1) EXCEPT !.name = 17, !.trading = FALSE],
        [PairOf(3) EXCEPT !.name = 18, !.filters[2].type = "MIN_NOTIONAL"]}

\* Every list of up to four pairs, and every list of three pairs that make a
\* triangle, with an odd one somewhere.
PairLists == {[i \in DOMAIN l |-> PairOf(l[i])] :
                l \in {k \in UNION {[1..n -> 1..6] : n \in 0..4} : IsInjective(k)}}
TriangleLists == {l \in PairLists : Len(l) = 3 /\ \A k \in {1, 3, 5} :
                    \E i \in 1..3 : l[i].name \in {10 + k, 11 + k}}
ListsOfPairs == PairLists \cup {InsertAt(l, i, s) : l \in TriangleLists, i \in 1..4, s \in Odd}

\* The books of these pairs stay as they are, and profit from no path.
SmallMarkets == OneTriangle \cup ListsOfPairs
SmallBooks   == Moving @@ [n \in 11..18 |-> <<Book(1, 1)>>]

=============================================================================
