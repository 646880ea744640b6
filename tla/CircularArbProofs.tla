--------------------------- MODULE CircularArbProofs ---------------------------
(***************************************************************************)
(* Proofs about CircularArb: the paths it computes, the view of the books  *)
(* it keeps, and the signals it finds.  FilterProofs has the lemmas on     *)
(* sequences and on filters.                                               *)
(***************************************************************************)
EXTENDS CircularArb, FilterProofs, FiniteSetTheorems

(* The paths.                                                              *)

OrdersOf(T) == {NewOrder(s, way) : s \in T, way \in {"BUY", "SELL"}}

\* What is known of a list of symbols.
GoodSymbols(symbols, R) ==
  symbols \in Seq(R) /\ IsInjective(symbols) /\ \A s \in R : s.base # s.quote

LEMMA OrderFields ==
  ASSUME NEW s, NEW way
  PROVE  /\ NewOrder(s, way).symbol = s /\ NewOrder(s, way).way = way
         /\ NewOrder(s, way).qty = 0 /\ NewOrder(s, way).price = 0
BY DEF NewOrder

\* getPossibleOrders returns the orders that spend the coin, each once.
LEMMA PossibleOrders ==
  ASSUME NEW R, NEW symbols, GoodSymbols(symbols, R), NEW coin
  PROVE  /\ GetPossibleOrders(coin, symbols) \in Seq(OrdersOf(R))
         /\ ToSet(GetPossibleOrders(coin, symbols)) =
              {o \in OrdersOf(ToSet(symbols)) : StartingAsset(o) = coin}
         /\ IsInjective(GetPossibleOrders(coin, symbols))
<1> DEFINE S == {s \in ToSet(symbols) : coin \in {s.base, s.quote}}
           related == Keep(symbols, S)
           way(s) == IF coin = s.base THEN "SELL" ELSE "BUY"
           out == [i \in DOMAIN related |-> NewOrder(related[i], way(related[i]))]
<1>1. GetPossibleOrders(coin, symbols) = out
  BY DEF GetPossibleOrders
<1>2. /\ related \in Seq(R) /\ ToSet(related) = ToSet(symbols) \cap S
      /\ IsInjective(related)
  BY KeepRange DEF GoodSymbols
<1>3. ToSet(symbols) \subseteq R /\ \A s \in R : s.base # s.quote
  BY DEF GoodSymbols, ToSet
<1>4. ToSet(related) = S
  BY <1>2
<1>5. \A s \in S : s \in R /\ s \in ToSet(symbols) /\ coin \in {s.base, s.quote}
  BY <1>3
<1>6. \A s \in ToSet(symbols) : coin \in {s.base, s.quote} => s \in S
  OBVIOUS
<1> HIDE DEF related, S
<1>7. \A i \in DOMAIN related : related[i] \in S
  BY <1>4 DEF ToSet
<1>8. \A s \in S : \E i \in DOMAIN related : related[i] = s
  BY <1>4 DEF ToSet
<1>9. out \in Seq(OrdersOf(R))
  <2>1. Len(related) \in Nat /\ DOMAIN related = 1..Len(related)
    BY <1>2
  <2>2. \A i \in DOMAIN related : NewOrder(related[i], way(related[i])) \in OrdersOf(R)
    BY <1>5, <1>7 DEF OrdersOf
  <2> QED
    BY <2>1, <2>2
<1>10. ASSUME NEW i \in DOMAIN out
       PROVE  out[i] \in OrdersOf(ToSet(symbols)) /\ StartingAsset(out[i]) = coin
  <2>1. related[i] \in S
    BY <1>7
  <2>2. out[i] = NewOrder(related[i], way(related[i]))
    OBVIOUS
  <2>3. way(related[i]) \in {"BUY", "SELL"}
    OBVIOUS
  <2>4. out[i] \in OrdersOf(ToSet(symbols))
    BY <1>5, <2>1, <2>2, <2>3 DEF OrdersOf
  <2>5. StartingAsset(out[i]) = coin
    BY <1>5, <2>1, <2>2 DEF StartingAsset, NewOrder
  <2> QED
    BY <2>4, <2>5
<1>11. ASSUME NEW s \in ToSet(symbols), NEW w \in {"BUY", "SELL"},
              StartingAsset(NewOrder(s, w)) = coin
       PROVE  \E i \in DOMAIN out : out[i] = NewOrder(s, w)
  <2>1. coin = IF w = "BUY" THEN s.quote ELSE s.base
    BY <1>11 DEF StartingAsset, NewOrder
  <2>2. s \in S /\ way(s) = w
    BY <1>3, <1>6, <2>1
  <2>3. PICK i \in DOMAIN related : related[i] = s
    BY <1>8, <2>2
  <2> QED
    BY <2>2, <2>3
<1>12. ToSet(out) = {o \in OrdersOf(ToSet(symbols)) : StartingAsset(o) = coin}
  <2> HIDE DEF out
  <2>1. \A o \in ToSet(out) : o \in OrdersOf(ToSet(symbols)) /\ StartingAsset(o) = coin
    BY <1>10 DEF ToSet
  <2>2. ASSUME NEW o \in OrdersOf(ToSet(symbols)), StartingAsset(o) = coin
        PROVE  o \in ToSet(out)
    <3>1. PICK s \in ToSet(symbols), w \in {"BUY", "SELL"} : o = NewOrder(s, w)
      BY <2>2 DEF OrdersOf
    <3> QED
      BY <1>11, <2>2, <3>1 DEF ToSet
  <2> QED
    BY <2>1, <2>2
<1>13. ASSUME NEW i \in DOMAIN out, NEW j \in DOMAIN out, out[i] = out[j]
       PROVE  i = j
  <2>1. related[i] = related[j]
    BY <1>13, OrderFields
  <2> QED
    BY <1>2, <2>1 DEF IsInjective
<1> QED
  BY <1>1, <1>9, <1>12, <1>13 DEF IsInjective

\* The orders that may continue a path at depth k.
Continues(path, T, start, k) ==
  {o \in OrdersOf(T) :
     /\ StartingAsset(o) = ResultingAsset(path[Len(path)])
     /\ \A i \in DOMAIN path : ~SameSymbol(path[i].symbol, o.symbol)
     /\ k = 3 => ResultingAsset(o) = start}

\* Part of a list of symbols.
LEMMA GoodUnused ==
  ASSUME NEW R, NEW symbols, GoodSymbols(symbols, R), NEW path
  PROVE  /\ GoodSymbols(UnusedSymbols(path, symbols), R)
         /\ ToSet(UnusedSymbols(path, symbols)) =
              {s \in ToSet(symbols) : \A i \in DOMAIN path : ~SameSymbol(path[i].symbol, s)}
<1> DEFINE S == {s \in ToSet(symbols) : \A i \in DOMAIN path : ~SameSymbol(path[i].symbol, s)}
<1>1. UnusedSymbols(path, symbols) = Keep(symbols, S)
  BY DEF UnusedSymbols
<1>2. S \subseteq ToSet(symbols)
  OBVIOUS
<1> HIDE DEF S
<1>3. /\ Keep(symbols, S) \in Seq(R) /\ ToSet(Keep(symbols, S)) = ToSet(symbols) \cap S
      /\ IsInjective(Keep(symbols, S))
  BY KeepRange DEF GoodSymbols
<1> QED
  BY <1>1, <1>2, <1>3 DEF GoodSymbols, S

\* Sequences that differ in their last element, or before it, are different.
LEMMA AppendCancels ==
  ASSUME NEW A, NEW p \in Seq(A), NEW q \in Seq(A), NEW a \in A, NEW b \in A,
         Append(p, a) = Append(q, b)
  PROVE  p = q /\ a = b
<1>1. Len(p) = Len(q)
  <2>1. Len(Append(p, a)) = Len(p) + 1 /\ Len(Append(q, b)) = Len(q) + 1
    OBVIOUS
  <2>2. Len(p) \in Nat /\ Len(q) \in Nat
    OBVIOUS
  <2> QED
    BY <2>1, <2>2
<1>2. a = Append(p, a)[Len(p) + 1] /\ b = Append(q, b)[Len(q) + 1]
  OBVIOUS
<1>3. \A i \in 1..Len(p) : p[i] = Append(p, a)[i] /\ q[i] = Append(q, b)[i]
  BY <1>1
<1>4. \A i \in 1..Len(p) : p[i] = q[i]
  BY <1>3
<1> QED
  BY <1>1, <1>2, <1>4

\* The extensions of a path, each once.
LEMMA ExtensionsAre ==
  ASSUME NEW R, NEW symbols, GoodSymbols(symbols, R),
         NEW path \in Seq(OrdersOf(R)), NEW start, NEW k
  PROVE  /\ Extensions(path, symbols, start, k = 3) \in Seq(Seq(OrdersOf(R)))
         /\ ToSet(Extensions(path, symbols, start, k = 3)) =
              {Append(path, o) : o \in Continues(path, ToSet(symbols), start, k)}
         /\ IsInjective(Extensions(path, symbols, start, k = 3))
<1> DEFINE unused == UnusedSymbols(path, symbols)
           coin == ResultingAsset(path[Len(path)])
           possible == GetPossibleOrders(coin, unused)
           S == {o \in ToSet(possible) : k = 3 => ResultingAsset(o) = start}
           next == Keep(possible, S)
           out == [i \in DOMAIN next |-> Append(path, next[i])]
<1>1. Extensions(path, symbols, start, k = 3) = out
  BY DEF Extensions
<1>2. /\ GoodSymbols(unused, R)
      /\ ToSet(unused) = {s \in ToSet(symbols) : \A i \in DOMAIN path : ~SameSymbol(path[i].symbol, s)}
  BY GoodUnused
<1>3. /\ possible \in Seq(OrdersOf(R)) /\ IsInjective(possible)
      /\ ToSet(possible) = {o \in OrdersOf(ToSet(unused)) : StartingAsset(o) = coin}
  <2> HIDE DEF unused, coin, possible, S, next, out
  <2>1. GoodSymbols(unused, R)
    BY <1>2
  <2>2. /\ GetPossibleOrders(coin, unused) \in Seq(OrdersOf(R))
        /\ IsInjective(GetPossibleOrders(coin, unused))
        /\ ToSet(GetPossibleOrders(coin, unused)) =
             {o \in OrdersOf(ToSet(unused)) : StartingAsset(o) = coin}
    BY <2>1, PossibleOrders
  <2> QED
    BY <2>2 DEF possible
<1>4. S \subseteq ToSet(possible)
  OBVIOUS
<1>5. /\ next \in Seq(OrdersOf(R)) /\ IsInjective(next) /\ ToSet(next) = S
  <2> HIDE DEF possible, S
  <2>1. /\ Keep(possible, S) \in Seq(OrdersOf(R)) /\ IsInjective(Keep(possible, S))
        /\ ToSet(Keep(possible, S)) = ToSet(possible) \cap S
    BY <1>3, KeepRange
  <2> QED
    BY <1>4, <2>1
<1>6. S = Continues(path, ToSet(symbols), start, k)
  <2> HIDE DEF unused, possible
  <2>1. \A o : o \in OrdersOf(ToSet(unused)) <=>
                 /\ o \in OrdersOf(ToSet(symbols))
                 /\ \A i \in DOMAIN path : ~SameSymbol(path[i].symbol, o.symbol)
    BY <1>2, OrderFields DEF OrdersOf
  <2>2. S = {o \in OrdersOf(ToSet(unused)) :
               StartingAsset(o) = coin /\ (k = 3 => ResultingAsset(o) = start)}
    BY <1>3
  <2> QED
    BY <2>1, <2>2 DEF Continues
<1> HIDE DEF next, S
<1>7. Len(next) \in Nat /\ DOMAIN next = 1..Len(next) /\ \A i \in DOMAIN next : next[i] \in OrdersOf(R)
  BY <1>5
<1>8. out \in Seq(Seq(OrdersOf(R)))
  <2>1. \A i \in DOMAIN next : Append(path, next[i]) \in Seq(OrdersOf(R))
    BY <1>7
  <2> QED
    BY <1>7, <2>1
<1>9. ToSet(out) = {Append(path, o) : o \in S}
  BY <1>5 DEF ToSet
<1>10. ASSUME NEW i \in DOMAIN out, NEW j \in DOMAIN out, out[i] = out[j]
       PROVE  i = j
  <2>1. next[i] = next[j]
    BY <1>7, <1>10, AppendCancels
  <2> QED
    BY <1>5, <2>1 DEF IsInjective
<1> QED
  BY <1>1, <1>6, <1>8, <1>9, <1>10 DEF IsInjective

\* The paths of one order more.
Extended(paths, T, start, k) ==
  UNION {{Append(p, o) : o \in Continues(p, T, start, k)} : p \in paths}

ExtendAll(prev, symbols, start, k) ==
  FlattenSeq([i \in DOMAIN prev |-> Extensions(prev[i], symbols, start, k = 3)])

LEMMA AllExtended ==
  ASSUME NEW R, NEW symbols, GoodSymbols(symbols, R),
         NEW prev \in Seq(Seq(OrdersOf(R))), IsInjective(prev), NEW start, NEW k,
         NEW next, next = ExtendAll(prev, symbols, start, k)
  PROVE  /\ next \in Seq(Seq(OrdersOf(R))) /\ IsInjective(next)
         /\ ToSet(next) = Extended(ToSet(prev), ToSet(symbols), start, k)
<1> DEFINE Path == Seq(OrdersOf(R))
           more(p) == {Append(p, o) : o \in Continues(p, ToSet(symbols), start, k)}
           parts == [i \in DOMAIN prev |-> Extensions(prev[i], symbols, start, k = 3)]
<1>1. Len(prev) \in Nat /\ DOMAIN prev = 1..Len(prev) /\ \A i \in DOMAIN prev : prev[i] \in Path
  OBVIOUS
<1>2. next = FlattenSeq(parts)
  BY DEF ExtendAll
<1> HIDE DEF more
<1>3. \A i \in DOMAIN prev :
        /\ Extensions(prev[i], symbols, start, k = 3) \in Seq(Path)
        /\ ToSet(Extensions(prev[i], symbols, start, k = 3)) = more(prev[i])
        /\ IsInjective(Extensions(prev[i], symbols, start, k = 3))
  BY <1>1, ExtensionsAre DEF more
<1>4. DOMAIN parts = DOMAIN prev /\ \A i \in DOMAIN prev :
        parts[i] \in Seq(Path) /\ ToSet(parts[i]) = more(prev[i]) /\ IsInjective(parts[i])
  BY <1>3
<1>5. parts \in Seq(Seq(Path))
  <2> HIDE DEF Path
  <2> QED
    BY <1>1, <1>3
<1> HIDE DEF parts
<1>6. ASSUME NEW i \in DOMAIN parts, NEW j \in DOMAIN parts, i # j
      PROVE  ToSet(parts[i]) \cap ToSet(parts[j]) = {}
  <2>1. prev[i] # prev[j]
    BY <1>4, <1>6 DEF IsInjective
  <2> SUFFICES ASSUME NEW x \in more(prev[i]), x \in more(prev[j]) PROVE FALSE
    BY <1>4
  <2>2. PICK o \in OrdersOf(ToSet(symbols)) : x = Append(prev[i], o)
    BY DEF more, Continues
  <2>3. PICK u \in OrdersOf(ToSet(symbols)) : x = Append(prev[j], u)
    BY DEF more, Continues
  <2>4. prev[i] \in Path /\ prev[j] \in Path
    BY <1>1, <1>4
  <2>5. OrdersOf(ToSet(symbols)) \subseteq OrdersOf(R)
    BY DEF OrdersOf, GoodSymbols, ToSet
  <2>6. o \in OrdersOf(R) /\ u \in OrdersOf(R) /\ Append(prev[i], o) = Append(prev[j], u)
    BY <2>2, <2>3, <2>5
  <2>7. prev[i] = prev[j]
    <3> DEFINE A == OrdersOf(R)
               p == prev[i]
               q == prev[j]
    <3>1. p \in Seq(A) /\ q \in Seq(A) /\ o \in A /\ u \in A /\ Append(p, o) = Append(q, u)
      BY <2>4, <2>6
    <3> HIDE DEF A, p, q
    <3>2. p = q
      BY <3>1, AppendCancels
    <3> QED
      BY <3>2 DEF p, q
  <2> QED
    BY <2>1, <2>7
<1>7. /\ FlattenSeq(parts) \in Seq(Path)
      /\ ToSet(FlattenSeq(parts)) = UNION {ToSet(parts[i]) : i \in DOMAIN parts}
      /\ IsInjective(FlattenSeq(parts))
  <2> HIDE DEF Path
  <2>1. \A i \in DOMAIN parts : IsInjective(parts[i])
    BY <1>4
  <2> QED
    BY <1>5, <1>6, <2>1, FlattenRange
<1>8. UNION {ToSet(parts[i]) : i \in DOMAIN parts} = UNION {more(p) : p \in ToSet(prev)}
  <2>1. ASSUME NEW i \in DOMAIN parts
        PROVE  ToSet(parts[i]) = more(prev[i]) /\ prev[i] \in ToSet(prev)
    BY <1>4 DEF ToSet
  <2>2. ASSUME NEW p \in ToSet(prev)
        PROVE  \E i \in DOMAIN parts : ToSet(parts[i]) = more(p)
    BY <1>4 DEF ToSet
  <2> QED
    BY <2>1, <2>2
<1> QED
  BY <1>2, <1>7, <1>8 DEF Extended, more

\* computeArbitragePaths, at its depth of three.
LEMMA ThreeOrders ==
  ASSUME NEW R, NEW symbols, GoodSymbols(symbols, R), NEW start,
         NEW paths, paths = ComputeArbitragePaths(symbols, start, 3)
  PROVE  /\ paths \in Seq(Seq(OrdersOf(R))) /\ IsInjective(paths)
         /\ LET T == ToSet(symbols)
                one == {<<o>> : o \in {u \in OrdersOf(T) : StartingAsset(u) = start}}
            IN  ToSet(paths) = Extended(Extended(one, T, start, 2), T, start, 3)
<1> DEFINE first == GetPossibleOrders(start, symbols)
           D(f) == [k \in 1..3 |->
                      IF k = 1 THEN [i \in DOMAIN first |-> <<first[i]>>]
                      ELSE FlattenSeq([i \in DOMAIN f[k - 1] |->
                             Extensions(f[k - 1][i], symbols, start, k = 3)])]
           found == CHOOSE f : f = D(f)
           one == [i \in DOMAIN first |-> <<first[i]>>]
           two == ExtendAll(one, symbols, start, 2)
           three == ExtendAll(two, symbols, start, 3)
           E(f) == [k \in 1..3 |-> IF k = 1 THEN one ELSE ExtendAll(f[k - 1], symbols, start, k)]
           g == [k \in 1..3 |-> IF k = 1 THEN one ELSE IF k = 2 THEN two ELSE three]
<1>1. paths = found[3]
  BY DEF ComputeArbitragePaths
<1>2. \A f : D(f) = E(f)
  BY DEF ExtendAll
<1> HIDE DEF D, one
<1>3. g = E(g)
  <2> HIDE DEF two, three
  <2>1. g[1] = one /\ g[2] = two /\ g[3] = three /\ g = [k \in 1..3 |-> g[k]]
    OBVIOUS
  <2>2. ASSUME NEW k \in 1..3
        PROVE  g[k] = IF k = 1 THEN one ELSE ExtendAll(g[k - 1], symbols, start, k)
    <3> HIDE DEF g
    <3>1. CASE k = 1
      BY <2>1, <3>1
    <3>2. CASE k = 2
      BY <2>1, <3>2 DEF two
    <3>3. CASE k = 3
      BY <2>1, <3>3 DEF three
    <3> QED
      BY <3>1, <3>2, <3>3
  <2> HIDE DEF g
  <2> QED
    BY <2>1, <2>2
<1>4. found = E(found)
  <2> HIDE DEF E, g
  <2>1. g = D(g)
    BY <1>2, <1>3
  <2>2. found = D(found)
    BY <2>1
  <2> QED
    BY <1>2, <2>2
<1> HIDE DEF found
<1>5. /\ found[1] = one /\ found[2] = ExtendAll(found[1], symbols, start, 2)
      /\ found[3] = ExtendAll(found[2], symbols, start, 3)
  BY <1>4
<1>6. /\ first \in Seq(OrdersOf(R)) /\ IsInjective(first)
      /\ ToSet(first) = {u \in OrdersOf(ToSet(symbols)) : StartingAsset(u) = start}
  BY PossibleOrders
<1> DEFINE Path == Seq(OrdersOf(R))
           T == ToSet(symbols)
           ones == {<<o>> : o \in {u \in OrdersOf(T) : StartingAsset(u) = start}}
<1>7. one \in Seq(Path) /\ IsInjective(one) /\ ToSet(one) = ones
  <2> USE DEF one
  <2> HIDE DEF first
  <2>1. Len(first) \in Nat /\ DOMAIN first = 1..Len(first)
        /\ \A i \in DOMAIN first : first[i] \in OrdersOf(R)
    BY <1>6
  <2>2. \A i \in DOMAIN first : <<first[i]>> \in Path
    BY <2>1
  <2>3. one \in Seq(Path)
    <3> HIDE DEF Path
    <3> QED
      BY <2>1, <2>2
  <2>4. IsInjective(one)
    BY <1>6 DEF IsInjective
  <2>5. ToSet(one) = ones
    BY <1>6 DEF ToSet
  <2> QED
    BY <2>3, <2>4, <2>5
<1> HIDE DEF ones, first, g
<1>8. /\ found[2] \in Seq(Path) /\ IsInjective(found[2])
      /\ ToSet(found[2]) = Extended(ones, T, start, 2)
  BY <1>5, <1>7, AllExtended
<1>9. /\ found[3] \in Seq(Path) /\ IsInjective(found[3])
      /\ ToSet(found[3]) = Extended(Extended(ones, T, start, 2), T, start, 3)
  BY <1>5, <1>8, AllExtended
<1> QED
  BY <1>1, <1>9 DEF ones

\* The symbols of a list that can be traded, see Triangles.
Known(list) ==
  {i \in DOMAIN list :
     list[i].trading /\ \A j \in 1..i : list[j].trading => ParsesAll(list[j])}

\* Distinct names make distinct symbols.
LEMMA NewSymbols ==
  ASSUME NEW list \in SymbolLists, NEW i \in DOMAIN list, NEW j \in DOMAIN list,
         NewSymbol(list[i]) = NewSymbol(list[j])
  PROVE  i = j
<1>1. NewSymbol(list[i]).name = list[i].name /\ NewSymbol(list[j]).name = list[j].name
  BY DEF NewSymbol
<1> QED
  BY <1>1, SymbolsAssumption

\* getSymbols: the symbols that can be traded, each once.
LEMMA TradedAre ==
  ASSUME NEW list \in SymbolLists, NEW R, R = {NewSymbol(list[i]) : i \in DOMAIN list}
  PROVE  /\ GoodSymbols(TradedSymbols(list), R)
         /\ ToSet(TradedSymbols(list)) = {NewSymbol(list[i]) : i \in Known(list)}
<1> DEFINE S == {s \in ToSet(list) : s.trading}
           traded == Keep(list, S)
           Bad == {i \in 1..Len(traded) : ~ParsesAll(traded[i])}
           bad == IF Bad # {} THEN Min(Bad) ELSE 0
           kept == IF bad = 0 THEN traded ELSE SubSeq(traded, 1, bad - 1)
           m == IF bad = 0 THEN Len(traded) ELSE bad - 1
           out == [i \in DOMAIN kept |-> NewSymbol(kept[i])]
<1>1. TradedSymbols(list) = out
  BY DEF TradedSymbols, SelectInSeq
<1>2. /\ list \in Seq(ToSet(list)) /\ DOMAIN list = 1..Len(list) /\ Len(list) \in Nat
      /\ \A i \in DOMAIN list : list[i] \in ToSet(list) /\ list[i].base # list[i].quote
  BY SymbolsAssumption
<1>3. traded \in Seq(ToSet(list)) /\ \E e : Embeds(e, traded, list, S, Len(list))
  BY <1>2, KeepEmbeds
<1> HIDE DEF traded
<1>4. Len(traded) \in Nat /\ DOMAIN traded = 1..Len(traded)
  BY <1>3
<1>5. PICK e : Embeds(e, traded, list, S, Len(list))
  BY <1>3
<1>6. /\ \A k \in 1..Len(traded) : e[k] \in DOMAIN list /\ traded[k] = list[e[k]] /\ list[e[k]].trading
      /\ \A k, l \in 1..Len(traded) : k < l => e[k] < e[l]
      /\ \A i \in DOMAIN list : list[i].trading => \E k \in 1..Len(traded) : e[k] = i
  BY <1>2, <1>5 DEF Embeds
<1> HIDE DEF S
<1>7. /\ bad \in 0..Len(traded)
      /\ bad # 0 => bad \in Bad /\ \A k \in Bad : bad <= k
      /\ bad = 0 => Bad = {}
  <2>1. Bad \in SUBSET (1..Len(traded))
    OBVIOUS
  <2>2. CASE Bad # {}
    <3>1. Min(Bad) \in Bad /\ \A k \in Bad : Min(Bad) <= k
      <4> HIDE DEF Bad
      <4> QED
        BY <1>4, <2>1, <2>2, SmallestPosition
    <3>2. Min(Bad) \in 1..Len(traded) /\ bad = Min(Bad)
      BY <2>2, <3>1
    <3> QED
      BY <1>4, <2>2, <3>1, <3>2
  <2>3. CASE Bad = {}
    BY <1>4, <2>3
  <2> QED
    BY <2>2, <2>3
<1> HIDE DEF bad
<1>8. m \in 0..Len(traded) /\ \A k \in 1..Len(traded) : k <= m <=> \A l \in 1..k : ParsesAll(traded[l])
  <2>1. CASE bad = 0
    <3>1. \A k \in 1..Len(traded) : ParsesAll(traded[k])
      BY <1>7, <2>1
    <3>2. m = Len(traded) /\ \A k \in 1..Len(traded) : k <= m /\ 1..k \subseteq 1..Len(traded)
      BY <1>4, <2>1
    <3> QED
      BY <1>4, <3>1, <3>2
  <2>2. CASE bad # 0
    <3>1. m = bad - 1 /\ bad \in 1..Len(traded) /\ ~ParsesAll(traded[bad])
          /\ \A k \in 1..Len(traded) : ~ParsesAll(traded[k]) => bad <= k
      BY <1>4, <1>7, <2>2
    <3>2. m \in 0..Len(traded)
      BY <1>4, <3>1
    <3>3. ASSUME NEW k \in 1..Len(traded), k <= m, NEW l \in 1..k PROVE ParsesAll(traded[l])
      <4>1. l \in 1..Len(traded) /\ l < bad
        BY <1>4, <3>1, <3>3
      <4> QED
        BY <1>4, <3>1, <4>1
    <3>4. ASSUME NEW k \in 1..Len(traded), ~(k <= m) PROVE bad \in 1..k
      BY <1>4, <3>1, <3>4
    <3> QED
      BY <3>1, <3>2, <3>3, <3>4
  <2> QED
    BY <2>1, <2>2
<1>9. kept \in Seq(ToSet(list)) /\ DOMAIN kept = 1..m /\ \A k \in 1..m : kept[k] = traded[k]
  <2>1. CASE bad = 0
    BY <1>3, <1>4, <2>1
  <2>2. CASE bad # 0
    BY <1>3, <1>4, <1>7, <2>2
  <2> QED
    BY <2>1, <2>2
<1> HIDE DEF kept, m, Bad
<1>10. m \in Nat /\ 1..m \subseteq 1..Len(traded)
  BY <1>4, <1>8
<1>11. \A k \in 1..m : e[k] \in DOMAIN list /\ kept[k] = list[e[k]]
  BY <1>6, <1>9, <1>10
<1>12. out \in Seq(R) /\ DOMAIN out = 1..m /\ \A k \in 1..m : out[k] = NewSymbol(list[e[k]])
  <2>1. \A k \in 1..m : NewSymbol(kept[k]) \in R /\ NewSymbol(kept[k]) = NewSymbol(list[e[k]])
    BY <1>11
  <2> QED
    BY <1>9, <1>10, <2>1
<1> HIDE DEF out
<1>13. ASSUME NEW k \in 1..m PROVE e[k] \in Known(list)
  <2>1. k \in 1..Len(traded) /\ \A l \in 1..k : ParsesAll(traded[l])
    BY <1>8, <1>10
  <2>2. ASSUME NEW j \in 1..e[k], list[j].trading PROVE ParsesAll(list[j])
    <3>1. e[k] \in Nat /\ j \in DOMAIN list
      BY <1>2, <1>11
    <3>2. PICK l \in 1..Len(traded) : e[l] = j
      BY <1>6, <2>2, <3>1
    <3>3. ~(k < l)
      <4>1. e[l] <= e[k] /\ e[l] \in Nat
        BY <3>1, <3>2
      <4> QED
        BY <1>6, <2>1, <3>1, <4>1
    <3>4. l \in 1..k
      BY <1>4, <2>1, <3>3
    <3> QED
      BY <1>6, <2>1, <3>2, <3>4
  <2>3. e[k] \in DOMAIN list /\ list[e[k]].trading
    BY <1>6, <2>1
  <2> QED
    BY <2>2, <2>3 DEF Known
<1>14. ASSUME NEW i \in Known(list) PROVE \E k \in 1..m : e[k] = i
  <2>1. i \in DOMAIN list /\ list[i].trading /\ \A j \in 1..i : list[j].trading => ParsesAll(list[j])
    BY DEF Known
  <2>2. PICK k \in 1..Len(traded) : e[k] = i
    BY <1>6, <2>1
  <2>3. ASSUME NEW l \in 1..k PROVE ParsesAll(traded[l])
    <3>1. l \in 1..Len(traded) /\ (l = k \/ l < k)
      BY <1>4
    <3>2. e[l] \in DOMAIN list /\ e[l] <= e[k]
      <4>1. e[l] \in DOMAIN list /\ (l < k => e[l] < e[k])
        BY <1>6, <3>1
      <4>2. e[l] \in Nat /\ e[k] \in Nat
        BY <1>2, <2>1, <2>2, <4>1
      <4> QED
        BY <3>1, <4>1, <4>2
    <3>3. e[l] \in 1..i
      BY <1>2, <2>1, <2>2, <3>2
    <3> QED
      BY <1>6, <2>1, <3>1, <3>3
  <2>4. k \in 1..m
    BY <1>4, <1>8, <2>3
  <2> QED
    BY <2>2, <2>4
<1>15. ToSet(out) = {NewSymbol(list[i]) : i \in Known(list)}
  BY <1>12, <1>13, <1>14 DEF ToSet
<1>16. ASSUME NEW k \in DOMAIN out, NEW l \in DOMAIN out, out[k] = out[l] PROVE k = l
  <2>1. k \in 1..m /\ l \in 1..m /\ NewSymbol(list[e[k]]) = NewSymbol(list[e[l]])
    BY <1>12, <1>16
  <2>2. e[k] = e[l]
    BY <1>11, <2>1, NewSymbols
  <2>3. k \in 1..Len(traded) /\ l \in 1..Len(traded) /\ k \in Nat /\ l \in Nat
        /\ e[k] \in Nat /\ e[l] \in Nat
    BY <1>2, <1>6, <1>10, <2>1
  <2> QED
    BY <1>6, <2>2, <2>3
<1>17. \A s \in R : s.base # s.quote
  BY <1>2 DEF NewSymbol
<1> QED
  BY <1>1, <1>12, <1>15, <1>16, <1>17 DEF GoodSymbols, IsInjective

\* The orders of all symbols that can be traded.
AllOrders == OrdersOf({NewSymbol(symbolsList[i]) : i \in Known(symbolsList)})

\* What a triangle is.
LEMMA TriangleIs ==
  Triangles = {p \in {<<a, b, c>> : a \in AllOrders, b \in AllOrders, c \in AllOrders} :
                 /\ StartingAsset(p[1]) = StartingAssetName
                 /\ ResultingAsset(p[1]) = StartingAsset(p[2])
                 /\ ResultingAsset(p[2]) = StartingAsset(p[3])
                 /\ ResultingAsset(p[3]) = StartingAssetName
                 /\ \A i, j \in 1..3 : i # j => ~SameSymbol(p[i].symbol, p[j].symbol)}
<1>1. AllOrders = {NewOrder(NewSymbol(symbolsList[i]), way) :
                     i \in Known(symbolsList), way \in {"BUY", "SELL"}}
  BY DEF AllOrders, OrdersOf
<1>2. Known(symbolsList) =
        {i \in DOMAIN symbolsList :
           symbolsList[i].trading /\ \A j \in 1..i : symbolsList[j].trading => ParsesAll(symbolsList[j])}
  BY DEF Known
<1> QED
  BY <1>1, <1>2 DEF Triangles

LEMMA AppendedOrder ==
  ASSUME NEW a, NEW b, NEW c
  PROVE  Append(<<a>>, b) = <<a, b>> /\ Append(<<a, b>>, c) = <<a, b, c>>
<1> DEFINE A == {a, b, c}
           p == Append(<<a>>, b)
           q == Append(<<a, b>>, c)
<1>1. <<a>> \in Seq(A) /\ <<a, b>> \in Seq(A) /\ b \in A /\ c \in A
  OBVIOUS
<1>2. p \in Seq(A) /\ Len(p) = 2 /\ p[1] = a /\ p[2] = b
  BY <1>1
<1>3. q \in Seq(A) /\ Len(q) = 3 /\ q[1] = a /\ q[2] = b /\ q[3] = c
  BY <1>1
<1> HIDE DEF p, q
<1>4. p = <<a, b>>
  BY <1>2
<1>5. q = <<a, b, c>>
  BY <1>3
<1> QED
  BY <1>4, <1>5 DEF p, q

LEMMA InExtended ==
  ASSUME NEW paths, NEW T, NEW start, NEW k, NEW x
  PROVE  x \in Extended(paths, T, start, k) <=>
           \E p \in paths : \E o \in Continues(p, T, start, k) : x = Append(p, o)
BY DEF Extended

\* computeArbitragePaths finds every triangle, once.
LEMMA TrianglesFound ==
  ASSUME symbolsList \in SymbolLists,
         NEW paths, paths = ComputeArbitragePaths(TradedSymbols(symbolsList), StartingAssetName, 3)
  PROVE  paths \in Seq(Triangles) /\ IsInjective(paths) /\ ToSet(paths) = Triangles
<1> DEFINE R == {NewSymbol(symbolsList[i]) : i \in DOMAIN symbolsList}
           symbols == TradedSymbols(symbolsList)
           T == ToSet(symbols)
           start == StartingAssetName
           ones == {<<o>> : o \in {u \in OrdersOf(T) : StartingAsset(u) = start}}
           twos == Extended(ones, T, start, 2)
           threes == Extended(twos, T, start, 3)
<1>1. GoodSymbols(symbols, R) /\ OrdersOf(T) = AllOrders
  BY TradedAre DEF AllOrders
<1>2. paths \in Seq(Seq(OrdersOf(R))) /\ IsInjective(paths) /\ ToSet(paths) = threes
  <2> HIDE DEF symbols, R
  <2>1. paths = ComputeArbitragePaths(symbols, StartingAssetName, 3)
    BY DEF symbols
  <2> QED
    BY <1>1, <2>1, ThreeOrders
<1>3. \A x : x \in ones <=> \E a \in AllOrders : StartingAsset(a) = start /\ x = <<a>>
  BY <1>1
<1> HIDE DEF T, ones
<1>4. \A a, b : b \in Continues(<<a>>, T, start, 2) <=>
                  /\ b \in AllOrders /\ StartingAsset(b) = ResultingAsset(a)
                  /\ ~SameSymbol(a.symbol, b.symbol)
  <2>1. ASSUME NEW a, NEW b
        PROVE  b \in Continues(<<a>>, T, start, 2) <=>
                  /\ b \in AllOrders /\ StartingAsset(b) = ResultingAsset(a)
                  /\ ~SameSymbol(a.symbol, b.symbol)
    <3> DEFINE p == <<a>>
    <3>1. Len(p) = 1 /\ DOMAIN p = {1} /\ p[1] = a
      OBVIOUS
    <3> HIDE DEF p
    <3>2. b \in Continues(p, T, start, 2) <=>
                  /\ b \in AllOrders /\ StartingAsset(b) = ResultingAsset(a)
                  /\ ~SameSymbol(a.symbol, b.symbol)
      BY <1>1, <3>1 DEF Continues
    <3> QED
      BY <3>2 DEF p
  <2> QED
    BY <2>1
<1>5. \A a, b, c : c \in Continues(<<a, b>>, T, start, 3) <=>
                     /\ c \in AllOrders /\ StartingAsset(c) = ResultingAsset(b)
                     /\ ~SameSymbol(a.symbol, c.symbol) /\ ~SameSymbol(b.symbol, c.symbol)
                     /\ ResultingAsset(c) = start
  <2>1. ASSUME NEW a, NEW b, NEW c
        PROVE  c \in Continues(<<a, b>>, T, start, 3) <=>
                     /\ c \in AllOrders /\ StartingAsset(c) = ResultingAsset(b)
                     /\ ~SameSymbol(a.symbol, c.symbol) /\ ~SameSymbol(b.symbol, c.symbol)
                     /\ ResultingAsset(c) = start
    <3> DEFINE p == <<a, b>>
    <3>1. Len(p) = 2 /\ DOMAIN p = {1, 2} /\ p[1] = a /\ p[2] = b
      OBVIOUS
    <3> HIDE DEF p
    <3>2. c \in Continues(p, T, start, 3) <=>
                     /\ c \in AllOrders /\ StartingAsset(c) = ResultingAsset(b)
                     /\ ~SameSymbol(a.symbol, c.symbol) /\ ~SameSymbol(b.symbol, c.symbol)
                     /\ ResultingAsset(c) = start
      BY <1>1, <3>1 DEF Continues
    <3> QED
      BY <3>2 DEF p
  <2> QED
    BY <2>1
<1>6. \A x : x \in twos <=>
        \E a, b \in AllOrders :
           /\ StartingAsset(a) = start /\ StartingAsset(b) = ResultingAsset(a)
           /\ ~SameSymbol(a.symbol, b.symbol) /\ x = <<a, b>>
  <2>1. \A a, b : Append(<<a>>, b) = <<a, b>>
    BY AppendedOrder
  <2>2. ASSUME NEW x \in twos
        PROVE  \E a, b \in AllOrders :
                 /\ StartingAsset(a) = start /\ StartingAsset(b) = ResultingAsset(a)
                 /\ ~SameSymbol(a.symbol, b.symbol) /\ x = <<a, b>>
    <3>1. PICK p \in ones : \E b \in Continues(p, T, start, 2) : x = Append(p, b)
      BY InExtended
    <3>2. PICK a \in AllOrders : StartingAsset(a) = start /\ p = <<a>>
      BY <1>3
    <3>3. PICK b \in Continues(<<a>>, T, start, 2) : x = <<a, b>>
      BY <2>1, <3>1, <3>2
    <3> QED
      BY <1>4, <3>2, <3>3
  <2>3. ASSUME NEW a \in AllOrders, NEW b \in AllOrders,
               StartingAsset(a) = start, StartingAsset(b) = ResultingAsset(a),
               ~SameSymbol(a.symbol, b.symbol)
        PROVE  <<a, b>> \in twos
    <3>1. <<a>> \in ones
      BY <1>3, <2>3
    <3>2. b \in Continues(<<a>>, T, start, 2)
      BY <1>4, <2>3
    <3>3. \A p : p \in ones /\ b \in Continues(p, T, start, 2) => Append(p, b) \in twos
      BY InExtended
    <3>4. Append(<<a>>, b) \in twos
      BY <3>1, <3>2, <3>3
    <3> HIDE DEF twos
    <3> QED
      BY <2>1, <3>4
  <2> HIDE DEF twos
  <2> QED
    BY <2>2, <2>3
<1> HIDE DEF twos
<1>7. \A x : x \in threes <=>
        \E a, b, c \in AllOrders :
           /\ StartingAsset(a) = start /\ StartingAsset(b) = ResultingAsset(a)
           /\ ~SameSymbol(a.symbol, b.symbol)
           /\ StartingAsset(c) = ResultingAsset(b) /\ ResultingAsset(c) = start
           /\ ~SameSymbol(a.symbol, c.symbol) /\ ~SameSymbol(b.symbol, c.symbol)
           /\ x = <<a, b, c>>
  <2>1. \A a, b, c : Append(<<a, b>>, c) = <<a, b, c>>
    BY AppendedOrder
  <2>2. ASSUME NEW x \in threes
        PROVE  \E a, b, c \in AllOrders :
                  /\ StartingAsset(a) = start /\ StartingAsset(b) = ResultingAsset(a)
                  /\ ~SameSymbol(a.symbol, b.symbol)
                  /\ StartingAsset(c) = ResultingAsset(b) /\ ResultingAsset(c) = start
                  /\ ~SameSymbol(a.symbol, c.symbol) /\ ~SameSymbol(b.symbol, c.symbol)
                  /\ x = <<a, b, c>>
    <3>1. PICK p \in twos : \E c \in Continues(p, T, start, 3) : x = Append(p, c)
      BY InExtended
    <3>2. PICK a \in AllOrders, b \in AllOrders :
             /\ StartingAsset(a) = start /\ StartingAsset(b) = ResultingAsset(a)
             /\ ~SameSymbol(a.symbol, b.symbol) /\ p = <<a, b>>
      BY <1>6
    <3>3. PICK c \in Continues(<<a, b>>, T, start, 3) : x = <<a, b, c>>
      BY <2>1, <3>1, <3>2
    <3> QED
      BY <1>5, <3>2, <3>3
  <2>3. ASSUME NEW a \in AllOrders, NEW b \in AllOrders, NEW c \in AllOrders,
               StartingAsset(a) = start, StartingAsset(b) = ResultingAsset(a),
               ~SameSymbol(a.symbol, b.symbol),
               StartingAsset(c) = ResultingAsset(b), ResultingAsset(c) = start,
               ~SameSymbol(a.symbol, c.symbol), ~SameSymbol(b.symbol, c.symbol)
        PROVE  <<a, b, c>> \in threes
    <3>1. <<a, b>> \in twos
      BY <1>6, <2>3
    <3>2. c \in Continues(<<a, b>>, T, start, 3)
      BY <1>5, <2>3
    <3>3. \A p : p \in twos /\ c \in Continues(p, T, start, 3) => Append(p, c) \in threes
      BY InExtended
    <3>4. Append(<<a, b>>, c) \in threes
      BY <3>1, <3>2, <3>3
    <3> HIDE DEF threes
    <3> QED
      BY <2>1, <3>4
  <2> HIDE DEF threes
  <2> QED
    BY <2>2, <2>3
<1> HIDE DEF threes
<1>8. \A s, u : SameSymbol(s, u) <=> SameSymbol(u, s)
  BY DEF SameSymbol
<1>9. ASSUME NEW a \in AllOrders, NEW b \in AllOrders, NEW c \in AllOrders
      PROVE  <<a, b, c>> \in Triangles <=>
               /\ StartingAsset(a) = start /\ StartingAsset(b) = ResultingAsset(a)
               /\ ~SameSymbol(a.symbol, b.symbol)
               /\ StartingAsset(c) = ResultingAsset(b) /\ ResultingAsset(c) = start
               /\ ~SameSymbol(a.symbol, c.symbol) /\ ~SameSymbol(b.symbol, c.symbol)
  <2> DEFINE p == <<a, b, c>>
  <2>1. p[1] = a /\ p[2] = b /\ p[3] = c
    OBVIOUS
  <2>2. p \in {<<x, y, z>> : x \in AllOrders, y \in AllOrders, z \in AllOrders}
    OBVIOUS
  <2> HIDE DEF p
  <2>3. (\A i, j \in 1..3 : i # j => ~SameSymbol(p[i].symbol, p[j].symbol)) <=>
          /\ ~SameSymbol(a.symbol, b.symbol) /\ ~SameSymbol(a.symbol, c.symbol)
          /\ ~SameSymbol(b.symbol, c.symbol)
    BY <1>8, <2>1
  <2>4. p \in Triangles <=>
               /\ StartingAsset(a) = start /\ StartingAsset(b) = ResultingAsset(a)
               /\ ~SameSymbol(a.symbol, b.symbol)
               /\ StartingAsset(c) = ResultingAsset(b) /\ ResultingAsset(c) = start
               /\ ~SameSymbol(a.symbol, c.symbol) /\ ~SameSymbol(b.symbol, c.symbol)
    BY <2>1, <2>2, <2>3, TriangleIs
  <2> QED
    BY <2>4 DEF p
<1>10. \A x \in Triangles : \E a, b, c \in AllOrders : x = <<a, b, c>>
  BY TriangleIs
<1>11. threes = Triangles
  <2> HIDE DEF start
  <2>1. \A x \in threes : x \in Triangles
    BY <1>7, <1>9
  <2>2. \A x \in Triangles : x \in threes
    BY <1>7, <1>9, <1>10
  <2> QED
    BY <2>1, <2>2
<1>12. paths \in Seq(Triangles)
  <2>1. Len(paths) \in Nat /\ DOMAIN paths = 1..Len(paths) /\ paths = [i \in 1..Len(paths) |-> paths[i]]
    BY <1>2
  <2>2. \A i \in DOMAIN paths : paths[i] \in Triangles
    BY <1>2, <1>11 DEF ToSet
  <2> QED
    BY <2>1, <2>2
<1> QED
  BY <1>2, <1>11, <1>12

-----------------------------------------------------------------------------
(* The signals.                                                            *)

\* The lot and the maximum of the symbols that are listed.
LEMMA ListedFilter ==
  ASSUME NEW list \in SymbolLists, NEW i \in DOMAIN list
  PROVE  LotSize(NewSymbol(list[i]).filter) \in Nat /\ MaxQty(NewSymbol(list[i]).filter) \in Nat
<1> DEFINE entries == list[i].filters
           f == NewSymbol(list[i]).filter
<1>1. /\ entries \in Seq(ToSet(entries))
      /\ \A k \in DOMAIN entries : HasNumbers(entries[k])
  BY SymbolsAssumption
<1>2. ASSUME NEW type \in Bounding
      PROVE  LastEntry(entries, type).step \in Nat /\ LastEntry(entries, type).max \in Nat
  <2>1. CASE LastEntry(entries, type) = NoEntry
    BY <2>1 DEF NoEntry
  <2>2. ASSUME NEW k \in DOMAIN entries, entries[k].type = type,
               LastEntry(entries, type) = entries[k]
        PROVE  LastEntry(entries, type).step \in Nat /\ LastEntry(entries, type).max \in Nat
    <3>1. entries[k].step \in 0..MaxDouble /\ entries[k].max \in 0..MaxDouble
      BY <1>1, <2>2 DEF HasNumbers
    <3> QED
      BY <2>2, <3>1, MaxDoubleAssumption
  <2> HIDE DEF entries
  <2> QED
    BY <1>1, <2>1, <2>2, EntryIs
<1>3. /\ f.lot = Bounds(LastEntry(entries, "LOT_SIZE"))
      /\ f.marketLot = Bounds(LastEntry(entries, "MARKET_LOT_SIZE"))
  BY DEF NewSymbol, CreateSymbolFilter
<1>4. /\ f.lot.step \in Nat /\ f.lot.max \in Nat
      /\ f.marketLot.step \in Nat /\ f.marketLot.max \in Nat
  <2> HIDE DEF f, entries
  <2>1. ASSUME NEW entry, entry.step \in Nat, entry.max \in Nat
        PROVE  Bounds(entry).step \in Nat /\ Bounds(entry).max \in Nat
    BY <2>1, NearestIs DEF Bounds, Stod
  <2> QED
    BY <1>2, <1>3, <2>1 DEF Bounding
<1> HIDE DEF f
<1>5. LotSize(f) \in Nat /\ MaxQty(f) \in Nat
  BY <1>4, MaxDoubleAssumption DEF LotSize, MaxQty, Larger, Smaller, Limit
<1> QED
  BY <1>5 DEF f

\* An order of a path: its symbol has a name with a book, and a filter with numbers.
GoodOrder(o) ==
  /\ \E s, way : o = NewOrder(s, way) /\ way \in {"BUY", "SELL"}
  /\ o.symbol.name \in Name
  /\ LotSize(o.symbol.filter) \in Nat /\ MaxQty(o.symbol.filter) \in Nat

LEMMA TriangleOrders ==
  ASSUME symbolsList \in SymbolLists, NEW p \in Triangles
  PROVE  /\ Len(p) = 3 /\ DOMAIN p = 1..3
         /\ \A i \in 1..3 : GoodOrder(p[i])
<1>1. \A o \in AllOrders : GoodOrder(o)
  <2> SUFFICES ASSUME NEW o \in AllOrders PROVE GoodOrder(o)
    OBVIOUS
  <2>1. PICK i \in DOMAIN symbolsList, way \in {"BUY", "SELL"} :
          o = NewOrder(NewSymbol(symbolsList[i]), way)
    BY DEF AllOrders, OrdersOf, Known
  <2>2. o.symbol = NewSymbol(symbolsList[i])
    BY <2>1, OrderFields
  <2>3. o.symbol.name \in Name
    BY <2>2, SymbolsAssumption DEF NewSymbol
  <2>4. LotSize(o.symbol.filter) \in Nat /\ MaxQty(o.symbol.filter) \in Nat
    BY <2>2, ListedFilter
  <2> QED
    BY <2>1, <2>3, <2>4 DEF GoodOrder
<1>2. PICK a \in AllOrders, b \in AllOrders, c \in AllOrders : p = <<a, b, c>>
  BY TriangleIs
<1> QED
  BY <1>1, <1>2

\* A leg spends no more than the amount, and the amount after it is what it returns.
LEMMA FillIs ==
  ASSUME NEW o, GoodOrder(o), NEW amount \in Nat,
         NEW book, book.bid \in Nat \ {0}, book.ask \in Nat \ {0},
         NEW l, l = Fill(o, amount, book)
  PROVE  l.amount \in Nat /\ Spends(l.order) <= amount /\ Returns(l.order) = l.amount
<1> DEFINE price == IF o.way = "SELL" THEN book.bid ELSE book.ask
           means == IF o.way = "SELL" THEN amount ELSE amount \div book.ask
           qty == RoundQty(o.symbol.filter, means, FALSE)
           gain == IF o.way = "SELL" THEN qty * price ELSE qty
<1>1. PICK s, way : o = NewOrder(s, way) /\ way \in {"BUY", "SELL"}
  BY DEF GoodOrder
<1>2. l.order = [o EXCEPT !.qty = qty, !.price = price] /\ l.amount = AfterFee(gain)
  BY DEF Fill
<1>3. o = [symbol |-> s, way |-> way, qty |-> 0, price |-> 0]
  BY <1>1 DEF NewOrder
<1>4. means \in Nat /\ price \in Nat /\ (o.way # "SELL" => means * book.ask <= amount)
  <2>1. amount \div book.ask \in Nat
    BY DivMod
  <2>2. (amount \div book.ask) * book.ask <= amount
    <3> DEFINE q == amount \div book.ask
               r == amount % book.ask
    <3>1. q \in Nat /\ r \in 0..(book.ask - 1) /\ amount = book.ask * q + r
      BY DivMod
    <3> HIDE DEF q, r
    <3>2. q * book.ask <= amount
      BY <3>1
    <3> QED
      BY <3>2 DEF q
  <2> QED
    BY <2>1, <2>2
<1>5. qty \in Nat /\ qty <= means
  <2> DEFINE r == RoundToNearest(means, LotSize(o.symbol.filter), FALSE)
  <2>1. LotSize(o.symbol.filter) \in Nat /\ MaxQty(o.symbol.filter) \in Nat
    BY DEF GoodOrder
  <2> HIDE DEF means
  <2>2. Nearest(means) = means
    BY <1>4, ExactAssumption, MaxDoubleAssumption DEF Nearest
  <2>3. qty \in Nat /\ qty <= r /\ r <= means /\ r \in Nat
    BY <1>4, <2>1, <2>2, RoundQtyIs
  <2> HIDE DEF qty, r
  <2> QED
    BY <1>4, <2>3
<1> HIDE DEF qty, means, price
<1>6. l.order.qty = qty /\ l.order.price = price /\ l.order.way = o.way
  BY <1>2, <1>3
<1>7. Returns(l.order) = l.amount
  BY <1>2, <1>6 DEF Returns
<1>8. Spends(l.order) <= amount
  <2>1. CASE o.way = "SELL"
    BY <1>4, <1>5, <1>6, <2>1 DEF Spends, means
  <2>2. CASE o.way # "SELL"
    <3>1. qty * price <= means * price /\ price = book.ask
      BY <1>4, <1>5, <2>2 DEF price
    <3>2. means * price \in Nat /\ means * price <= amount /\ qty * price \in Nat
      BY <1>4, <1>5, <2>2, <3>1
    <3> QED
      BY <1>6, <2>2, <3>1, <3>2 DEF Spends
  <2> QED
    BY <2>1, <2>2
<1>9. l.amount \in Nat
  <2>1. gain \in Nat
    BY <1>4, <1>5
  <2> HIDE DEF gain
  <2>2. gain * (FeeDen - FeeNum) \in Nat /\ FeeDen \in Nat \ {0}
    BY <2>1, FeeAssumption
  <2>3. (gain * (FeeDen - FeeNum)) \div FeeDen \in Nat
    BY <2>2, DivMod
  <2> QED
    BY <1>2, <2>3 DEF AfterFee
<1> QED
  BY <1>7, <1>8, <1>9

\* A signal whose orders are still to be sent.
SignalOf(pnl, orders) == [found |-> TRUE, pnl |-> pnl, orders |-> orders]
ToSend(orders) == (\E R : orders \in Seq(R)) /\ orders # <<>> /\ Len(orders) <= 3
IsSignal(s) == \E pnl, orders : s = SignalOf(pnl, orders) /\ ToSend(orders)

\* See SignalAffordable.
Affordable(s, balance) ==
  /\ Spends(s.orders[1]) <= balance
  /\ \A i \in 1..2 : Spends(s.orders[i + 1]) <= Returns(s.orders[i])
  /\ Returns(s.orders[3]) = balance + s.pnl /\ s.pnl > 0

GoodBooks(books) ==
  \A n \in DOMAIN books : books[n].bid \in Nat \ {0} /\ books[n].ask \in Nat \ {0}

LEMMA NotEmpty ==
  ASSUME NEW R, NEW s \in Seq(R), Len(s) = 3
  PROVE  s # <<>>
OBVIOUS

\* evaluatePath of a triangle.
LEMMA Evaluated ==
  ASSUME NEW p, Len(p) = 3, DOMAIN p = 1..3, \A i \in 1..3 : GoodOrder(p[i]),
         NEW balance \in Nat, NEW books, GoodBooks(books),
         NEW r, r = EvaluatePath(p, balance, books)
  PROVE  \/ r = NoSignal
         \/ IsSignal(r) /\ Affordable(r, balance)
<1> DEFINE next(i, l) == LET name == p[i].symbol.name
                         IN  IF l.amount = 0 \/ name \notin DOMAIN books
                             THEN [order |-> p[i], amount |-> 0]
                             ELSE Fill(p[i], l.amount, books[name])
           l0 == [order |-> p[1], amount |-> balance]
           l1 == next(1, l0)
           l2 == next(2, l1)
           l3 == next(3, l2)
           D(f) == [i \in 0..Len(p) |-> IF i = 0 THEN l0 ELSE next(i, f[i - 1])]
           leg == CHOOSE f : f = D(f)
           evaluable == \A i \in DOMAIN p : leg[i - 1].amount # 0
                          /\ p[i].symbol.name \in DOMAIN books
           gain == leg[Len(p)].amount - balance
           orders == [i \in DOMAIN p |-> leg[i].order]
<1>1. r = IF evaluable /\ gain > 0
          THEN [found |-> TRUE, pnl |-> gain, orders |-> orders]
          ELSE NoSignal
  BY DEF EvaluatePath
<1> HIDE DEF next, l0
<1>2. leg = D(leg)
  <2> DEFINE g == [i \in 0..3 |-> IF i = 0 THEN l0 ELSE IF i = 1 THEN l1 ELSE IF i = 2 THEN l2 ELSE l3]
  <2>1. g[0] = l0 /\ g[1] = next(1, g[0]) /\ g[2] = next(2, g[1]) /\ g[3] = next(3, g[2])
        /\ g = [i \in 0..3 |-> g[i]]
    OBVIOUS
  <2> HIDE DEF g
  <2>2. \A i \in 0..3 : g[i] = IF i = 0 THEN l0 ELSE next(i, g[i - 1])
    <3>1. \A i \in 0..3 : i = 0 \/ i = 1 \/ i = 2 \/ i = 3
      OBVIOUS
    <3> QED
      BY <2>1, <3>1
  <2>3. g = D(g)
    BY <2>1, <2>2
  <2> HIDE DEF D
  <2> QED
    BY <2>3
<1> HIDE DEF leg
<1>3. leg[0] = l0 /\ \A i \in 1..3 : leg[i] = next(i, leg[i - 1])
  BY <1>2
<1> SUFFICES ASSUME evaluable, gain > 0, r = [found |-> TRUE, pnl |-> gain, orders |-> orders]
             PROVE  IsSignal(r) /\ Affordable(r, balance)
  BY <1>1
<1>4. ASSUME NEW i \in 1..3, leg[i - 1].amount \in Nat
      PROVE  /\ leg[i].amount \in Nat
             /\ Spends(leg[i].order) <= leg[i - 1].amount
             /\ Returns(leg[i].order) = leg[i].amount
  <2> DEFINE amount == leg[i - 1].amount
             book == books[p[i].symbol.name]
  <2>1. amount # 0 /\ p[i].symbol.name \in DOMAIN books
    OBVIOUS
  <2>2. leg[i] = Fill(p[i], amount, book)
    BY <1>3, <2>1 DEF next
  <2>3. book.bid \in Nat \ {0} /\ book.ask \in Nat \ {0} /\ GoodOrder(p[i])
    BY <2>1 DEF GoodBooks
  <2>4. amount \in Nat
    BY <1>4
  <2> HIDE DEF amount, book
  <2>5. /\ leg[i].amount \in Nat /\ Spends(leg[i].order) <= amount
        /\ Returns(leg[i].order) = leg[i].amount
    BY <2>2, <2>3, <2>4, FillIs
  <2> QED
    BY <2>5 DEF amount
<1>5. leg[0].amount = balance
  BY <1>3 DEF l0
<1>6. /\ leg[1].amount \in Nat /\ Spends(leg[1].order) <= balance
      /\ Returns(leg[1].order) = leg[1].amount
  BY <1>4, <1>5
<1>7. /\ leg[2].amount \in Nat /\ Spends(leg[2].order) <= leg[1].amount
      /\ Returns(leg[2].order) = leg[2].amount
  BY <1>4, <1>6
<1>8. /\ leg[3].amount \in Nat /\ Spends(leg[3].order) <= leg[2].amount
      /\ Returns(leg[3].order) = leg[3].amount
  BY <1>4, <1>7
<1>9. gain = leg[3].amount - balance
  OBVIOUS
<1>10. orders \in Seq({leg[i].order : i \in 1..3}) /\ Len(orders) = 3
       /\ \A i \in 1..3 : orders[i] = leg[i].order
  OBVIOUS
<1> HIDE DEF gain, orders, evaluable
<1>11. r.orders = orders /\ r.pnl = gain
  OBVIOUS
<1>12. Affordable(r, balance)
  BY <1>6, <1>7, <1>8, <1>9, <1>10, <1>11 DEF Affordable
<1>13. ToSend(orders)
  BY <1>10, NotEmpty DEF ToSend
<1>14. r = SignalOf(gain, orders)
  BY DEF SignalOf
<1> QED
  BY <1>12, <1>13, <1>14 DEF IsSignal

\* onMarketData: what it finds is a signal of a triangle, and it overlooks none.
LEMMA SignalFound ==
  ASSUME symbolsList \in SymbolLists, NEW paths \in Seq(Triangles),
         NEW balance \in Nat, NEW books, GoodBooks(books), NEW name,
         NEW r, r = FindSignal(paths, name, balance, books)
  PROVE  /\ \/ r = NoSignal
            \/ IsSignal(r) /\ Affordable(r, balance)
         /\ r = NoSignal => \A i \in DOMAIN paths : Uses(paths[i], name) =>
                              ~EvaluatePath(paths[i], balance, books).found
<1> DEFINE I == {i \in 1..Len(paths) : Uses(paths[i], name)
                                         /\ EvaluatePath(paths[i], balance, books).found}
<1>1. Len(paths) \in Nat /\ DOMAIN paths = 1..Len(paths) /\ \A i \in DOMAIN paths : paths[i] \in Triangles
  OBVIOUS
<1>2. r = LET i == IF I # {} THEN Max(I) ELSE 0
          IN  IF i = 0 THEN NoSignal ELSE EvaluatePath(paths[i], balance, books)
  BY DEF FindSignal, SelectLastInSeq
<1>3. \A i \in DOMAIN paths :
        LET q == EvaluatePath(paths[i], balance, books)
        IN  q = NoSignal \/ (IsSignal(q) /\ Affordable(q, balance))
  <2> SUFFICES ASSUME NEW i \in DOMAIN paths, NEW q, q = EvaluatePath(paths[i], balance, books)
               PROVE  q = NoSignal \/ (IsSignal(q) /\ Affordable(q, balance))
    OBVIOUS
  <2>1. Len(paths[i]) = 3 /\ DOMAIN paths[i] = 1..3 /\ \A j \in 1..3 : GoodOrder(paths[i][j])
    BY <1>1, TriangleOrders
  <2> QED
    BY <2>1, Evaluated
<1>4. CASE I = {}
  BY <1>1, <1>2, <1>4
<1>5. CASE I # {}
  <2>1. Max(I) \in I
    <3>1. I \in SUBSET (1..Len(paths))
      OBVIOUS
    <3> HIDE DEF I
    <3> QED
      BY <1>1, <1>5, <3>1, LargestPosition
  <2>2. /\ Max(I) \in DOMAIN paths /\ Max(I) # 0
        /\ EvaluatePath(paths[Max(I)], balance, books).found
    BY <1>1, <2>1
  <2>3. r = EvaluatePath(paths[Max(I)], balance, books) /\ r.found
    BY <1>2, <1>5, <2>2
  <2>4. r # NoSignal
    BY <2>3 DEF NoSignal
  <2> QED
    BY <1>3, <2>2, <2>3, <2>4
<1> QED
  BY <1>4, <1>5
-----------------------------------------------------------------------------
(* The invariant.                                                          *)

Tasks == Startup \cup {"subscribe", "getUpdate", "order", "terminated", "ended"}

\* Only the last request can be without an answer, and only while Main is in it.
CallInv ==
  /\ requestId \in 0..MaxRequests /\ issued = 1..requestId
  /\ step \in {"send", "ask", "wait", "use"} /\ (step # "send" => requestId > 0)
  /\ reply \in [ReqId -> [Name -> Nat] \cup {Error, NoReply}]
  /\ \A r \in ReqId : r > requestId => reply[r] = NoReply
  /\ \A r \in ReqId : r < requestId => reply[r] # NoReply
  /\ step \in {"send", "use"} /\ requestId > 0 => reply[requestId] # NoReply
  /\ asking = [c \in {Main} |-> IF step = "wait" THEN requestId ELSE NoRequest]
  /\ DOMAIN result = {Main} /\ (step = "use" => result[Main] = reply[requestId])

Unread == (Len(taken) + 1)..Len(arrived)

\* Versions only grow, from the strategy's view over the unread frames to the market.
FeedInv ==
  /\ market \in [Name -> Nat] /\ \A n \in Name : market[n] \in 1..Len(Books[n])
  /\ marketData_ \in [Name -> Nat] /\ \A n \in Name : marketData_[n] <= market[n]
  /\ fed \subseteq Name /\ missed \subseteq Name
  /\ arrived \in Seq(Name \X Nat) /\ taken \in Seq(Name \X Nat) /\ Len(taken) <= Len(arrived)
  /\ \A i \in Unread : /\ marketData_[arrived[i][1]] <= arrived[i][2]
                       /\ arrived[i][2] <= market[arrived[i][1]]
  /\ \A i, j \in Unread : i < j /\ arrived[i][1] = arrived[j][1] => arrived[i][2] <= arrived[j][2]
  /\ \A r \in ReqId : reply[r] \in [Name -> Nat] => \A n \in Name : reply[r][n] <= market[n]
  /\ task \in Startup \cup {"subscribe"} => fed = {} /\ arrived = <<>>
  /\ task \in Startup => \A n \in Name : marketData_[n] = 0

TaskInv ==
  /\ symbolsList \in SymbolLists /\ stratPaths_ \in Seq(Triangles)
  /\ task \in Tasks
  /\ task \in {"subscribe", "getUpdate", "ended"} => step = "send"
  /\ balance_ \in {0, Balance}
  /\ task = "order" => IsSignal(signal)
  /\ task \notin {"order", "ended"} => signal = NoSignal

\* The market's book of a name is the strategy's, or is on its way to it.
Seen(n) ==
  marketData_[n] = market[n] \/ \E i \in Unread : arrived[i] = <<n, market[n]>>

StaleInv ==
  /\ task = "ticker" /\ step # "send" /\ reply[requestId] = Error => missed = Name
  /\ task = "ticker" /\ step # "send" /\ reply[requestId] \notin {Error, NoReply} =>
       \A n \in Name \ missed : reply[requestId][n] = market[n]
  /\ task \in {"subscribe", "getUpdate", "order"} => \A n \in RelatedSymbols \ missed : Seen(n)

ArbInv == TaskInv /\ SignalAffordable /\ CallInv /\ FeedInv /\ StaleInv

LEMMA ArbInit == Init => ArbInv
<1> SUFFICES ASSUME Init PROVE ArbInv
  OBVIOUS
<1> USE DEF Init, Broker!RRInit, Feeder!USInit
<1>1. TaskInv
  BY DEF TaskInv, Tasks, Startup
<1>2. CallInv
  BY NumbersAssumption DEF CallInv, ReqId
<1>3. FeedInv
  <2>1. \A n \in Name : 1 \in 1..Len(Books[n])
    <3> SUFFICES ASSUME NEW n \in Name PROVE 1 \in 1..Len(Books[n])
      OBVIOUS
    <3>1. Books[n] \in Seq(ToSet(Books[n])) /\ Books[n] # <<>>
      BY BooksAssumption
    <3> QED
      BY <3>1
  <2>2. \A r \in ReqId : reply[r] \notin [Name -> Nat]
    BY ErrorAssumption
  <2> QED
    BY <2>1, <2>2 DEF FeedInv, Unread, Startup
<1>4. StaleInv
  BY DEF StaleInv, Startup
<1>5. SignalAffordable
  BY DEF SignalAffordable, NoSignal
<1> QED
  BY <1>1, <1>2, <1>3, <1>4, <1>5 DEF ArbInv

\* The list stays, and the paths once they are computed.
LEMMA ListStays ==
  ASSUME [Next]_vars
  PROVE  /\ symbolsList' = symbolsList /\ Triangles' = Triangles
         /\ task # "exchangeInfo" => stratPaths_' = stratPaths_ /\ RelatedSymbols' = RelatedSymbols
<1> USE DEF vars, brokerVars, feederVars, worldVars, stratVars, mainVars
<1>1. symbolsList' = symbolsList
  BY DEF Next, Trading, MarketMoves, Answers, FeedLost, SendRequest, GetResponse,
    GetResponseThrows, ResponseReturned, ExchangeInfo, AccountInformation,
    SymbolOrderBookTicker, SubscribeToTickers, GetUpdate, OnMarketData, TakeUpdate,
    OrderAnswered, Use
<1>2. task # "exchangeInfo" => stratPaths_' = stratPaths_
  BY DEF Next, Trading, MarketMoves, Answers, FeedLost, SendRequest, GetResponse,
    GetResponseThrows, ResponseReturned, ExchangeInfo, AccountInformation,
    SymbolOrderBookTicker, SubscribeToTickers, GetUpdate, OnMarketData, TakeUpdate,
    OrderAnswered, Use
<1>3. Triangles' = Triangles
  BY <1>1 DEF Triangles
<1> QED
  BY <1>1, <1>2, <1>3 DEF RelatedSymbols

\* The names of the paths have books.
LEMMA RelatedNames ==
  ASSUME TaskInv
  PROVE  RelatedSymbols \subseteq Name
<1> SUFFICES ASSUME NEW i \in DOMAIN stratPaths_, NEW j \in 1..3
             PROVE  stratPaths_[i][j].symbol.name \in Name
  BY DEF RelatedSymbols
<1>1. stratPaths_[i] \in Triangles
  BY DEF TaskInv
<1> QED
  BY <1>1, TriangleOrders DEF TaskInv, GoodOrder

LEMMA CallStep == ArbInv /\ [Next]_vars => CallInv'
<1> SUFFICES ASSUME ArbInv, [Next]_vars PROVE CallInv'
  OBVIOUS
<1> USE NumbersAssumption DEF ArbInv, brokerVars, feederVars, worldVars, stratVars, mainVars, ReqId
<1>1. CASE brokerVars' = brokerVars /\ step' = step /\ requestId' = requestId
  BY <1>1 DEF CallInv
<1>2. ASSUME NEW n \in Name, MarketMoves(n) PROVE CallInv'
  BY <1>1, <1>2 DEF MarketMoves
<1>3. ASSUME NEW r \in ReqId, Answers(r) PROVE CallInv'
  <2>1. PICK v \in [Name -> Nat] \cup {Error} : Broker!Answer(r, v)
    BY <1>3 DEF Answers, FeedInv
  <2>2. step' = step /\ requestId' = requestId
    BY <1>3 DEF Answers
  <2>3. v # NoReply
    BY ErrorAssumption
  <2> QED
    BY <2>1, <2>2, <2>3 DEF Broker!Answer, CallInv
<1>4. CASE SendRequest
  <2>1. /\ step = "send" /\ step' = "ask" /\ requestId' = requestId + 1
        /\ requestId < MaxRequests /\ issued' = issued \cup {requestId + 1}
        /\ reply' = reply /\ asking' = asking /\ result' = result
    BY <1>4 DEF SendRequest, Broker!Issue
  <2>2. requestId \in Nat /\ requestId' \in 0..MaxRequests
    BY <2>1 DEF CallInv
  <2>3. issued' = 1..requestId'
    <3>1. 1..(requestId + 1) = (1..requestId) \cup {requestId + 1}
      BY <2>2
    <3> QED
      BY <2>1, <3>1 DEF CallInv
  <2>4. /\ \A r \in ReqId : r > requestId' => reply'[r] = NoReply
        /\ \A r \in ReqId : r < requestId' => reply'[r] # NoReply
    <3>1. \A r \in ReqId : r < requestId + 1 => r < requestId \/ (r = requestId /\ requestId > 0)
      BY <2>2
    <3>2. \A r \in ReqId : r > requestId + 1 => r > requestId
      BY <2>2
    <3> QED
      BY <2>1, <3>1, <3>2 DEF CallInv
  <2> QED
    BY <2>1, <2>2, <2>3, <2>4 DEF CallInv
<1>5. CASE GetResponse
  BY <1>5 DEF GetResponse, Broker!Ask, CallInv
<1>6. CASE GetResponseThrows
  <2>1. /\ step = "ask" /\ step' = "send" /\ requestId' = requestId
        /\ requestId \in issued => reply[requestId] # NoReply
        /\ issued' = issued /\ reply' = reply /\ asking' = asking
        /\ DOMAIN result' = DOMAIN result
    BY <1>6 DEF GetResponseThrows, Broker!Refuse
  <2> QED
    BY <2>1 DEF CallInv
<1>7. CASE ResponseReturned
  <2>1. /\ step = "wait" /\ step' = "use" /\ requestId' = requestId
        /\ reply[asking[Main]] # NoReply /\ result' = [result EXCEPT ![Main] = reply[asking[Main]]]
        /\ asking' = [asking EXCEPT ![Main] = NoRequest]
        /\ issued' = issued /\ reply' = reply
    BY <1>7 DEF ResponseReturned, Broker!Deliver
  <2>2. asking[Main] = requestId
    BY <2>1 DEF CallInv
  <2> QED
    BY <2>1, <2>2 DEF CallInv
<1>8. ASSUME NEW t, NEW next, Use(t, next) PROVE CallInv'
  BY <1>8 DEF Use, CallInv
<1>9. CASE ExchangeInfo
  BY <1>8, <1>9 DEF ExchangeInfo
<1>10. CASE AccountInformation
  BY <1>8, <1>10 DEF AccountInformation
<1>11. CASE SymbolOrderBookTicker
  BY <1>8, <1>11 DEF SymbolOrderBookTicker
<1>12. CASE SubscribeToTickers
  BY <1>1, <1>12 DEF SubscribeToTickers
<1>13. CASE GetUpdate
  BY <1>1, <1>13 DEF GetUpdate
<1>14. CASE OnMarketData
  BY <1>1, <1>14 DEF OnMarketData, TakeUpdate
<1>15. CASE OrderAnswered
  BY <1>8, <1>15 DEF OrderAnswered
<1>16. CASE FeedLost
  BY <1>1, <1>16 DEF FeedLost
<1>17. CASE UNCHANGED vars
  BY <1>1, <1>17 DEF vars
<1> QED
  BY <1>2, <1>3, <1>4, <1>5, <1>6, <1>7, <1>9, <1>10, <1>11, <1>12, <1>13, <1>14, <1>15,
    <1>16, <1>17 DEF Next, Trading

LEMMA OrdersReplaced ==
  ASSUME NEW found, NEW pnl, NEW orders, NEW t
  PROVE  [[found |-> found, pnl |-> pnl, orders |-> orders] EXCEPT !.orders = t]
           = [found |-> found, pnl |-> pnl, orders |-> t]
<1> DEFINE s == [found |-> found, pnl |-> pnl, orders |-> orders]
           u == [s EXCEPT !.orders = t]
           v == [found |-> found, pnl |-> pnl, orders |-> t]
<1>1. DOMAIN u = DOMAIN v
  OBVIOUS
<1>2. \A x \in DOMAIN v : u[x] = v[x]
  OBVIOUS
<1> QED
  BY <1>1, <1>2

LEMMA SignalWith ==
  ASSUME NEW pnl, NEW orders, NEW t
  PROVE  /\ [SignalOf(pnl, orders) EXCEPT !.orders = t] = SignalOf(pnl, t)
         /\ SignalOf(pnl, t).orders = t
<1>1. SignalOf(pnl, t).orders = t
  BY DEF SignalOf
<1>2. [SignalOf(pnl, orders) EXCEPT !.orders = t] = SignalOf(pnl, t)
  <2> DEFINE yes == TRUE
  <2> HIDE DEF yes
  <2>1. \A o : SignalOf(pnl, o) = [found |-> yes, pnl |-> pnl, orders |-> o]
    BY DEF SignalOf, yes
  <2> QED
    BY <2>1, OrdersReplaced
<1> QED
  BY <1>1, <1>2

\* The orders of a signal that are left when one is answered.
LEMMA SignalLeft ==
  ASSUME NEW s, IsSignal(s), Len(s.orders) > 1
  PROVE  LET left == [s EXCEPT !.orders = Tail(@)]
         IN  IsSignal(left) /\ Len(left.orders) < 3
<1>1. PICK pnl, orders, R : /\ s = SignalOf(pnl, orders)
                            /\ orders \in Seq(R) /\ orders # <<>> /\ Len(orders) <= 3
  BY DEF IsSignal, ToSend
<1> DEFINE t == Tail(orders)
           left == [s EXCEPT !.orders = Tail(@)]
<1>2. s.orders = orders
  BY <1>1 DEF SignalOf
<1>3. t \in Seq(R) /\ Len(t) = Len(orders) - 1 /\ Len(orders) > 1 /\ Len(orders) \in Nat
  BY <1>1, <1>2
<1>4. left = SignalOf(pnl, t) /\ left.orders = t
  <2>1. left = [s EXCEPT !.orders = t]
    BY <1>2
  <2> HIDE DEF left, t
  <2> QED
    BY <1>1, <2>1, SignalWith
<1> HIDE DEF t, left
<1>5. t # <<>> /\ Len(t) < 3
  BY <1>1, <1>3
<1>6. ToSend(t)
  BY <1>3, <1>5 DEF ToSend
<1>7. IsSignal(left)
  BY <1>4, <1>6 DEF IsSignal
<1> QED
  BY <1>4, <1>5, <1>7 DEF left

\* The strategy's view has books for all the names it knows.
LEMMA ViewBooks ==
  ASSUME NEW data \in [Name -> Nat], \A n \in Name : data[n] <= Len(Books[n])
  PROVE  GoodBooks(BookOf(data))
<1> SUFFICES ASSUME NEW n \in DOMAIN BookOf(data)
             PROVE  BookOf(data)[n].bid \in Nat \ {0} /\ BookOf(data)[n].ask \in Nat \ {0}
  BY DEF GoodBooks
<1>1. n \in Name /\ data[n] # 0 /\ BookOf(data)[n] = Books[n][data[n]]
  BY DEF BookOf
<1>2. Books[n] \in Seq(ToSet(Books[n])) /\ data[n] \in 1..Len(Books[n])
  BY <1>1, BooksAssumption
<1>3. data[n] \in DOMAIN Books[n]
  BY <1>2
<1> QED
  BY <1>1, <1>3, BooksAssumption

\* What an update makes of the strategy's view, and the signal it leads to.
LEMMA UpdateTaken ==
  ASSUME ArbInv, OnMarketData
  PROVE  LET f == NextFrame
         IN  /\ f \in Name \X Nat /\ Len(taken) + 1 \in Unread
             /\ marketData_[f[1]] <= f[2] /\ f[2] <= market[f[1]]
             /\ marketData_' = [marketData_ EXCEPT ![f[1]] = f[2]]
             /\ marketData_' \in [Name -> Nat] /\ \A n \in Name : marketData_'[n] <= market[n]
             /\ signal' = FindSignal(stratPaths_, f[1], balance_, BookOf(marketData_'))
             /\ \/ signal' = NoSignal
                \/ IsSignal(signal') /\ Affordable(signal', balance_)
             /\ signal' = NoSignal =>
                  \A i \in DOMAIN stratPaths_ : Uses(stratPaths_[i], f[1]) =>
                    ~EvaluatePath(stratPaths_[i], balance_, BookOf(marketData_')).found
             /\ task = "getUpdate" /\ task' = IF signal'.found THEN "order" ELSE "getUpdate"
<1> DEFINE f == NextFrame
           data == [marketData_ EXCEPT ![f[1]] = f[2]]
<1>1. /\ arrived \in Seq(Name \X Nat) /\ taken \in Seq(Name \X Nat)
      /\ Len(taken) < Len(arrived) /\ Len(taken) \in Nat /\ Len(arrived) \in Nat
  BY DEF OnMarketData, TakeUpdate, Feeder!Take, ArbInv, FeedInv
<1>2. Len(taken) + 1 \in Unread /\ Len(taken) + 1 \in 1..Len(arrived)
  BY <1>1 DEF Unread
<1>3. f \in Name \X Nat
  BY <1>1, <1>2 DEF NextFrame
<1>4. marketData_[f[1]] <= f[2] /\ f[2] <= market[f[1]]
  BY <1>2 DEF ArbInv, FeedInv, NextFrame
<1>5. /\ task = "getUpdate" /\ marketData_' = data
      /\ signal' = FindSignal(stratPaths_, f[1], balance_, BookOf(data))
      /\ task' = IF signal'.found THEN "order" ELSE "getUpdate"
  BY DEF OnMarketData, TakeUpdate
<1> HIDE DEF f
<1>6. /\ market \in [Name -> Nat] /\ marketData_ \in [Name -> Nat]
      /\ \A n \in Name : marketData_[n] <= market[n] /\ market[n] \in 1..Len(Books[n])
  BY DEF ArbInv, FeedInv
<1>7. data \in [Name -> Nat] /\ \A n \in Name : data[n] <= market[n]
  BY <1>3, <1>4, <1>6
<1>8. \A n \in Name : data[n] <= Len(Books[n])
  <2> SUFFICES ASSUME NEW n \in Name PROVE data[n] <= Len(Books[n])
    OBVIOUS
  <2>1. data[n] \in Nat /\ data[n] <= market[n] /\ market[n] \in 1..Len(Books[n])
    BY <1>6, <1>7
  <2>2. Len(Books[n]) \in Nat
    BY BooksAssumption
  <2> QED
    BY <2>1, <2>2
<1> HIDE DEF data
<1>9. GoodBooks(BookOf(data))
  BY <1>7, <1>8, ViewBooks
<1>10. symbolsList \in SymbolLists /\ stratPaths_ \in Seq(Triangles) /\ balance_ \in Nat
  BY NumbersAssumption DEF ArbInv, TaskInv
<1>11. /\ \/ signal' = NoSignal
          \/ IsSignal(signal') /\ Affordable(signal', balance_)
       /\ signal' = NoSignal =>
            \A i \in DOMAIN stratPaths_ : Uses(stratPaths_[i], f[1]) =>
              ~EvaluatePath(stratPaths_[i], balance_, BookOf(data)).found
  <2> DEFINE r == FindSignal(stratPaths_, f[1], balance_, BookOf(data))
             books == BookOf(data)
  <2> HIDE DEF books
  <2>1. r = FindSignal(stratPaths_, f[1], balance_, books)
    BY DEF books
  <2> HIDE DEF r
  <2>2. /\ \/ r = NoSignal
           \/ IsSignal(r) /\ Affordable(r, balance_)
        /\ r = NoSignal => \A i \in DOMAIN stratPaths_ : Uses(stratPaths_[i], f[1]) =>
                              ~EvaluatePath(stratPaths_[i], balance_, books).found
    BY <1>9, <1>10, <2>1, SignalFound DEF books
  <2>3. signal' = r
    BY <1>5 DEF r
  <2> QED
    BY <2>2, <2>3 DEF books
<1> QED
  BY <1>2, <1>3, <1>4, <1>5, <1>7, <1>11 DEF f, data

\* The invariant says nothing of a step that leaves the strategy alone.
LEMMA SignalKept ==
  ASSUME SignalAffordable, signal' = signal \/ signal' = NoSignal,
         balance_' = balance_ \/ signal = NoSignal
  PROVE  SignalAffordable'
<1>1. CASE signal' = NoSignal
  BY <1>1 DEF SignalAffordable, NoSignal
<1>2. CASE signal' = signal /\ balance_' = balance_
  BY <1>2 DEF SignalAffordable
<1> QED
  BY <1>1, <1>2

LEMMA TaskStep == ArbInv /\ [Next]_vars => TaskInv' /\ SignalAffordable'
<1> SUFFICES ASSUME ArbInv, [Next]_vars PROVE TaskInv' /\ SignalAffordable'
  OBVIOUS
<1>1. /\ TaskInv /\ SignalAffordable /\ symbolsList' = symbolsList /\ Triangles' = Triangles
      /\ balance_ \in {0, Balance}
  BY ListStays DEF ArbInv, TaskInv
<1>2. CASE stratVars' = stratVars /\ step' = step /\ task' = task
  BY <1>1, <1>2, SignalKept DEF TaskInv, stratVars
<1>3. ASSUME NEW n \in Name, MarketMoves(n) PROVE TaskInv' /\ SignalAffordable'
  BY <1>2, <1>3 DEF MarketMoves, mainVars
<1>4. ASSUME NEW r \in ReqId, Answers(r) PROVE TaskInv' /\ SignalAffordable'
  BY <1>2, <1>4 DEF Answers, mainVars
<1>5. ASSUME task \in Startup \cup {"order"}, task' = task, stratVars' = stratVars
      PROVE  TaskInv' /\ SignalAffordable'
  <2>1. SignalAffordable'
    BY <1>1, <1>5, SignalKept DEF stratVars
  <2> QED
    BY <1>1, <1>5, <2>1 DEF TaskInv, stratVars, Startup
<1>6. CASE SendRequest
  BY <1>5, <1>6 DEF SendRequest
<1>7. ASSUME step # "send", task # "terminated" PROVE task \in Startup \cup {"order"}
  BY <1>1, <1>7 DEF TaskInv, Tasks, Startup
<1>8. CASE GetResponse
  BY <1>5, <1>7, <1>8 DEF GetResponse
<1>9. CASE GetResponseThrows
  <2>1. SignalAffordable'
    BY <1>1, <1>9, SignalKept DEF GetResponseThrows, stratVars
  <2> QED
    BY <1>1, <1>9, <2>1 DEF GetResponseThrows, stratVars, TaskInv, Tasks
<1>10. CASE ResponseReturned
  BY <1>5, <1>7, <1>10 DEF ResponseReturned
<1>11. CASE ExchangeInfo
  <2>1. /\ task = "exchangeInfo" /\ task' \in {"terminated", "account"} /\ step' = "send"
        /\ balance_' = balance_ /\ signal' = signal
        /\ \/ stratPaths_' = stratPaths_
           \/ stratPaths_' = ComputeArbitragePaths(TradedSymbols(symbolsList), StartingAssetName, 3)
    BY <1>11 DEF ExchangeInfo, Use
  <2>2. stratPaths_' \in Seq(Triangles)
    BY <1>1, <2>1, TrianglesFound DEF TaskInv
  <2>3. SignalAffordable'
    BY <1>1, <2>1, SignalKept
  <2> QED
    BY <1>1, <2>1, <2>2, <2>3 DEF TaskInv, Tasks, Startup
<1>12. CASE AccountInformation
  <2>1. /\ task = "account" /\ task' = "ticker" /\ step' = "send" /\ signal' = signal
        /\ stratPaths_' = stratPaths_ /\ balance_' \in {0, Balance}
    BY <1>12 DEF AccountInformation, Use
  <2>2. SignalAffordable'
    BY <1>1, <2>1, SignalKept DEF TaskInv
  <2> QED
    BY <1>1, <2>1, <2>2 DEF TaskInv, Tasks, Startup
<1>13. CASE SymbolOrderBookTicker
  <2>1. /\ task = "ticker" /\ task' = "subscribe" /\ step' = "send" /\ signal' = signal
        /\ stratPaths_' = stratPaths_ /\ balance_' = balance_
    BY <1>13 DEF SymbolOrderBookTicker, Use
  <2>2. SignalAffordable'
    BY <1>1, <2>1, SignalKept DEF TaskInv
  <2> QED
    BY <1>1, <2>1, <2>2 DEF TaskInv, Tasks, Startup
<1>14. CASE SubscribeToTickers
  <2>1. /\ task = "subscribe" /\ task' = "getUpdate" /\ step' = step /\ signal' = signal
        /\ stratPaths_' = stratPaths_ /\ balance_' = balance_
    BY <1>14 DEF SubscribeToTickers, stratVars
  <2>2. SignalAffordable'
    BY <1>1, <2>1, SignalKept DEF TaskInv
  <2> QED
    BY <1>1, <2>1, <2>2 DEF TaskInv, Tasks, Startup
<1>15. CASE GetUpdate
  BY <1>2, <1>15 DEF GetUpdate, mainVars
<1>16. CASE OnMarketData
  <2>1. /\ step' = step /\ stratPaths_' = stratPaths_ /\ balance_' = balance_
    BY <1>16 DEF OnMarketData, TakeUpdate
  <2>2. /\ task = "getUpdate" /\ task' = IF signal'.found THEN "order" ELSE "getUpdate"
        /\ \/ signal' = NoSignal
           \/ IsSignal(signal') /\ Affordable(signal', balance_)
    BY <1>16, UpdateTaken
  <2>3. CASE signal' = NoSignal
    <3>1. task' = "getUpdate"
      BY <2>2, <2>3 DEF NoSignal
    <3>2. SignalAffordable'
      BY <1>1, <2>3, <2>1, SignalKept
    <3> QED
      BY <1>1, <2>1, <2>2, <2>3, <3>1, <3>2 DEF TaskInv, Tasks
  <2>4. CASE IsSignal(signal') /\ Affordable(signal', balance_)
    <3>1. signal'.found
      BY <2>4 DEF IsSignal, SignalOf
    <3>2. SignalAffordable'
      BY <2>1, <2>4 DEF SignalAffordable, Affordable, Spends, Returns
    <3> QED
      BY <1>1, <2>1, <2>2, <2>4, <3>1, <3>2 DEF TaskInv, Tasks
  <2> QED
    BY <2>2, <2>3, <2>4
<1>17. CASE OrderAnswered
  <2>1. /\ task = "order" /\ step' = "send" /\ stratPaths_' = stratPaths_ /\ balance_' = balance_
        /\ task' = IF Len(signal.orders) > 1 THEN "order" ELSE "getUpdate"
        /\ signal' = IF Len(signal.orders) > 1 THEN [signal EXCEPT !.orders = Tail(@)] ELSE NoSignal
    BY <1>17 DEF OrderAnswered, Use
  <2>2. CASE Len(signal.orders) > 1
    <3>1. IsSignal(signal') /\ Len(signal'.orders) < 3
      BY <1>1, <2>1, <2>2, SignalLeft DEF TaskInv
    <3>2. SignalAffordable'
      BY <3>1 DEF SignalAffordable
    <3> QED
      BY <1>1, <2>1, <2>2, <3>1, <3>2 DEF TaskInv, Tasks
  <2>3. CASE ~(Len(signal.orders) > 1)
    <3>1. SignalAffordable'
      BY <1>1, <2>1, <2>3, SignalKept
    <3> QED
      BY <1>1, <2>1, <2>3, <3>1 DEF TaskInv, Tasks
  <2> QED
    BY <2>2, <2>3
<1>18. CASE FeedLost
  <2>1. /\ task \notin {"terminated", "ended"} /\ step' = step
        /\ stratPaths_' = stratPaths_ /\ balance_' = balance_
        /\ \/ task' = "terminated" /\ signal' = NoSignal
           \/ task' = task /\ signal' = signal
    BY <1>18 DEF FeedLost
  <2>2. SignalAffordable'
    BY <1>1, <2>1, SignalKept
  <2> QED
    BY <1>1, <2>1, <2>2 DEF TaskInv, Tasks
<1>19. CASE UNCHANGED vars
  BY <1>2, <1>19 DEF vars, mainVars
<1> QED
  BY <1>3, <1>4, <1>6, <1>8, <1>9, <1>10, <1>11, <1>12, <1>13, <1>14, <1>15, <1>16, <1>17,
    <1>18, <1>19 DEF Next, Trading

\* A step that moves no book and hands out no frame.
LEMMA FeedKept ==
  ASSUME FeedInv, market' = market, marketData_' = marketData_, arrived' = arrived,
         taken' = taken, reply' = reply, missed' \subseteq Name, fed' = fed \/ fed' = {},
         task' \in Startup => task \in Startup,
         task' = "subscribe" => task \in Startup \cup {"subscribe"}
  PROVE  FeedInv'
BY DEF FeedInv, Unread

LEMMA BookMoves ==
  ASSUME FeedInv, NEW n \in Name, MarketMoves(n)
  PROVE  FeedInv'
<1>1. /\ market' = [market EXCEPT ![n] = @ + 1] /\ market[n] < Len(Books[n])
      /\ marketData_' = marketData_ /\ reply' = reply /\ fed' = fed /\ taken' = taken
      /\ task' = task
      /\ missed' \subseteq Name
      /\ \/ n \in fed /\ arrived' = Append(arrived, <<n, market[n] + 1>>)
         \/ arrived' = arrived
  BY DEF MarketMoves, Feeder!Arrive, FeedInv, brokerVars, feederVars, stratVars, mainVars
<1>2. /\ market \in [Name -> Nat] /\ \A k \in Name : market[k] \in 1..Len(Books[k])
      /\ marketData_ \in [Name -> Nat]
      /\ arrived \in Seq(Name \X Nat) /\ taken \in Seq(Name \X Nat) /\ Len(taken) <= Len(arrived)
      /\ Len(taken) \in Nat /\ Len(arrived) \in Nat
  BY DEF FeedInv
<1>3. /\ market' \in [Name -> Nat]
      /\ \A k \in Name : market[k] <= market'[k] /\ market'[k] \in 1..Len(Books[k])
  <2> SUFFICES ASSUME NEW k \in Name
               PROVE  market'[k] \in Nat /\ market[k] <= market'[k] /\ market'[k] \in 1..Len(Books[k])
    BY <1>1, <1>2
  <2>1. Len(Books[n]) \in Nat
    BY BooksAssumption
  <2>2. market[k] \in Nat /\ market[n] \in 1..Len(Books[n]) /\ market[k] \in 1..Len(Books[k])
    BY <1>2
  <2>3. CASE k = n
    <3>1. market'[k] = market[n] + 1
      BY <1>1, <1>2, <2>3
    <3> QED
      BY <1>1, <2>1, <2>2, <2>3, <3>1
  <2>4. CASE k # n
    <3>1. market'[k] = market[k]
      BY <1>1, <1>2, <2>4
    <3> QED
      BY <2>2, <3>1
  <2> QED
    BY <2>3, <2>4
<1>4. \A k \in Name : marketData_[k] <= market'[k]
  BY <1>2, <1>3 DEF FeedInv
<1>5. \A r \in ReqId : reply[r] \in [Name -> Nat] => \A k \in Name : reply[r][k] <= market'[k]
  <2> SUFFICES ASSUME NEW r \in ReqId, reply[r] \in [Name -> Nat], NEW k \in Name
               PROVE  reply[r][k] <= market'[k]
    OBVIOUS
  <2>1. reply[r][k] \in Nat /\ reply[r][k] <= market[k]
    BY DEF FeedInv
  <2> QED
    BY <1>2, <1>3, <2>1
<1>6. \A i \in Unread : /\ i \in 1..Len(arrived) /\ arrived[i] \in Name \X Nat
                        /\ marketData_[arrived[i][1]] <= arrived[i][2]
                        /\ arrived[i][2] <= market'[arrived[i][1]]
  <2> SUFFICES ASSUME NEW i \in Unread
               PROVE  /\ i \in 1..Len(arrived) /\ arrived[i] \in Name \X Nat
                      /\ marketData_[arrived[i][1]] <= arrived[i][2]
                      /\ arrived[i][2] <= market'[arrived[i][1]]
    OBVIOUS
  <2>1. i \in 1..Len(arrived)
    BY <1>2 DEF Unread
  <2>2. arrived[i] \in Name \X Nat
    BY <1>2, <2>1
  <2>3. /\ marketData_[arrived[i][1]] <= arrived[i][2]
        /\ arrived[i][2] <= market[arrived[i][1]]
    BY DEF FeedInv
  <2>4. arrived[i][2] <= market'[arrived[i][1]]
    <3> DEFINE k == arrived[i][1]
               v == arrived[i][2]
    <3>1. k \in Name /\ v \in Nat /\ v <= market[k]
      BY <2>2, <2>3
    <3> HIDE DEF k, v
    <3>2. market[k] <= market'[k] /\ market[k] \in Nat /\ market'[k] \in Nat
      BY <1>2, <1>3, <3>1
    <3>3. v <= market'[k]
      BY <3>1, <3>2
    <3> QED
      BY <3>3 DEF k, v
  <2> QED
    BY <2>1, <2>2, <2>3, <2>4
<1>7. CASE arrived' = arrived
  <2>1. Unread' = Unread
    BY <1>1, <1>7 DEF Unread
  <2> QED
    BY <1>1, <1>2, <1>3, <1>4, <1>5, <1>6, <1>7, <2>1 DEF FeedInv
<1>8. CASE n \in fed /\ arrived' = Append(arrived, <<n, market[n] + 1>>)
  <2> DEFINE last == Len(arrived) + 1
             f == <<n, market[n] + 1>>
  <2>1. f \in Name \X Nat /\ f[1] = n /\ f[2] = market'[n] /\ marketData_[n] <= f[2]
    BY <1>1, <1>2, <1>4
  <2> HIDE DEF f
  <2>2. /\ arrived' \in Seq(Name \X Nat) /\ Len(arrived') = last /\ arrived'[last] = f
        /\ \A i \in Unread : arrived'[i] = arrived[i] /\ i < last
    BY <1>2, <1>6, <1>8, <2>1 DEF f
  <2>3. Unread' = Unread \cup {last} /\ Len(taken') <= Len(arrived')
    <3> DEFINE a == Len(taken)
               b == Len(arrived)
    <3>1. Unread' = (a + 1)..(b + 1) /\ Unread = (a + 1)..b
      BY <1>1, <2>2 DEF Unread
    <3>2. a \in Nat /\ b \in Nat /\ a <= b
      BY <1>2
    <3>3. Len(taken') = a /\ Len(arrived') = b + 1
      BY <1>1, <2>2
    <3> HIDE DEF a, b
    <3>4. (a + 1)..(b + 1) = ((a + 1)..b) \cup {b + 1}
      BY <3>2
    <3>5. last = b + 1
      BY DEF b
    <3> QED
      BY <3>1, <3>2, <3>3, <3>4, <3>5
  <2>4. \A i \in Unread' : /\ marketData_[arrived'[i][1]] <= arrived'[i][2]
                           /\ arrived'[i][2] <= market'[arrived'[i][1]]
    <3>1. f[2] <= market'[n]
      BY <2>1
    <3> QED
      BY <1>6, <2>1, <2>2, <2>3, <3>1
  <2>5. ASSUME NEW i \in Unread', NEW j \in Unread', i < j, arrived'[i][1] = arrived'[j][1]
        PROVE  arrived'[i][2] <= arrived'[j][2]
    <3>1. CASE j = last
      <4>1. i \in Unread
        BY <1>2, <2>3, <2>5, <3>1
      <4>2. arrived'[i] = arrived[i] /\ arrived[i][2] <= market'[n]
        BY <1>6, <2>1, <2>2, <2>5, <3>1, <4>1
      <4> QED
        BY <2>1, <2>2, <3>1, <4>2
    <3>2. CASE j # last
      <4>1. j \in Unread
        BY <2>3, <3>2
      <4>2. i \in Unread
        BY <1>2, <1>6, <2>2, <2>3, <2>5, <4>1
      <4> QED
        BY <2>2, <2>5, <4>1, <4>2 DEF FeedInv
    <3> QED
      BY <3>1, <3>2
  <2>6. task \notin Startup \cup {"subscribe"}
    BY <1>8 DEF FeedInv
  <2> QED
    BY <1>1, <1>2, <1>3, <1>4, <1>5, <2>2, <2>3, <2>4, <2>5, <2>6 DEF FeedInv
<1> QED
  BY <1>1, <1>7, <1>8

\* The snapshot is of a moment of the market.
LEMMA SnapshotTaken ==
  ASSUME ArbInv, SymbolOrderBookTicker
  PROVE  /\ task = "ticker" /\ step = "use" /\ task' = "subscribe" /\ requestId \in ReqId
         /\ arrived = <<>> /\ Unread = {} /\ fed = {}
         /\ reply[requestId] \in [Name -> Nat] \cup {Error}
         /\ marketData_' = [n \in Name |-> IF n \in RelatedSymbols /\ reply[requestId] # Error
                                           THEN reply[requestId][n] ELSE 0]
         /\ marketData_' \in [Name -> Nat]
         /\ \A n \in Name : marketData_'[n] <= market[n]
<1>1. /\ task = "ticker" /\ step = "use" /\ task' = "subscribe"
      /\ marketData_' = [n \in Name |-> IF n \in RelatedSymbols /\ result[Main] # Error
                                        THEN result[Main][n] ELSE 0]
  BY DEF SymbolOrderBookTicker, Use
<1>2. requestId \in ReqId /\ result[Main] = reply[requestId] /\ reply[requestId] # NoReply
  BY <1>1, NumbersAssumption DEF ArbInv, CallInv, ReqId
<1>3. reply[requestId] \in [Name -> Nat] \cup {Error}
  BY <1>2 DEF ArbInv, CallInv
<1>4. arrived = <<>> /\ Unread = {} /\ fed = {}
  <2>1. /\ arrived = <<>> /\ fed = {} /\ taken \in Seq(Name \X Nat)
        /\ Len(taken) <= Len(arrived)
    BY <1>1 DEF ArbInv, FeedInv, Startup
  <2> QED
    BY <2>1 DEF Unread
<1>5. marketData_' \in [Name -> Nat] /\ \A n \in Name : marketData_'[n] <= market[n]
  <2> SUFFICES ASSUME NEW n \in Name
               PROVE  marketData_'[n] \in Nat /\ marketData_'[n] <= market[n]
    BY <1>1
  <2>1. market[n] \in Nat
    BY DEF ArbInv, FeedInv
  <2>2. CASE n \in RelatedSymbols /\ reply[requestId] # Error
    <3>1. reply[requestId] \in [Name -> Nat]
      BY <1>3, <2>2
    <3>2. reply[requestId][n] \in Nat /\ reply[requestId][n] <= market[n]
      BY <1>2, <3>1 DEF ArbInv, FeedInv
    <3> QED
      BY <1>1, <1>2, <2>2, <3>2
  <2>3. CASE ~(n \in RelatedSymbols /\ reply[requestId] # Error)
    BY <1>1, <1>2, <2>1, <2>3
  <2> QED
    BY <2>2, <2>3
<1> QED
  BY <1>1, <1>2, <1>3, <1>4, <1>5

LEMMA FeedStep == ArbInv /\ [Next]_vars => FeedInv'
<1> SUFFICES ASSUME ArbInv, [Next]_vars PROVE FeedInv'
  OBVIOUS
<1>1. FeedInv /\ missed \subseteq Name
  BY DEF ArbInv, FeedInv
<1>2. ASSUME brokerVars' = brokerVars, feederVars' = feederVars, market' = market,
             marketData_' = marketData_, missed' = missed, fed' = fed,
             task' \in Startup => task \in Startup,
             task' = "subscribe" => task \in Startup \cup {"subscribe"}
      PROVE  FeedInv'
  BY <1>1, <1>2, FeedKept DEF brokerVars, feederVars
<1>3. ASSUME NEW n \in Name, MarketMoves(n) PROVE FeedInv'
  BY <1>1, <1>3, BookMoves
<1>4. ASSUME NEW r \in ReqId, Answers(r) PROVE FeedInv'
  <2>1. PICK v \in {market, Error} : reply' = [reply EXCEPT ![r] = v]
    BY <1>4 DEF Answers, Broker!Answer
  <2>2. \A q \in ReqId : reply'[q] \in [Name -> Nat] => \A n \in Name : reply'[q][n] <= market[n]
    <3> SUFFICES ASSUME NEW q \in ReqId, reply'[q] \in [Name -> Nat], NEW n \in Name
                 PROVE  reply'[q][n] <= market[n]
      OBVIOUS
    <3>1. reply'[q] = IF q = r THEN v ELSE reply[q]
      BY <2>1 DEF ArbInv, CallInv
    <3>2. market[n] \in Nat
      BY DEF ArbInv, FeedInv
    <3>3. CASE q = r
      BY <3>1, <3>2, <3>3, ErrorAssumption
    <3>4. CASE q # r
      BY <1>1, <3>1, <3>4 DEF FeedInv
    <3> QED
      BY <3>3, <3>4
  <2>3. market' = market /\ marketData_' = marketData_ /\ fed' = fed /\ task' = task
        /\ arrived' = arrived /\ taken' = taken /\ missed' \subseteq Name
    BY <1>1, <1>4 DEF Answers, feederVars, stratVars, mainVars
  <2>4. Unread' = Unread
    BY <2>3 DEF Unread
  <2> QED
    BY <1>1, <2>2, <2>3, <2>4 DEF FeedInv
<1>5. CASE SendRequest
  <2>1. reply' = reply
    BY <1>5 DEF SendRequest, Broker!Issue
  <2> QED
    BY <1>1, <1>5, <2>1, FeedKept DEF SendRequest, feederVars, worldVars, stratVars
<1>6. CASE GetResponse
  <2>1. reply' = reply
    BY <1>6 DEF GetResponse, Broker!Ask
  <2> QED
    BY <1>1, <1>6, <2>1, FeedKept DEF GetResponse, feederVars, worldVars, stratVars
<1>7. CASE GetResponseThrows
  <2>1. reply' = reply /\ task' \in {"ended", "terminated"}
    BY <1>7 DEF GetResponseThrows, Broker!Refuse
  <2> QED
    BY <1>1, <1>7, <2>1, FeedKept DEF GetResponseThrows, feederVars, worldVars, stratVars, Startup
<1>8. CASE ResponseReturned
  <2>1. reply' = reply
    BY <1>8 DEF ResponseReturned, Broker!Deliver
  <2> QED
    BY <1>1, <1>8, <2>1, FeedKept DEF ResponseReturned, feederVars, worldVars, stratVars
<1>9. CASE ExchangeInfo
  BY <1>2, <1>9 DEF ExchangeInfo, Use, Startup, worldVars
<1>10. CASE AccountInformation
  BY <1>2, <1>10 DEF AccountInformation, Use, Startup, worldVars
<1>11. CASE SymbolOrderBookTicker
  <2>1. /\ task' = "subscribe" /\ arrived = <<>> /\ Unread = {} /\ fed = {}
        /\ marketData_' \in [Name -> Nat] /\ \A n \in Name : marketData_'[n] <= market[n]
    BY <1>11, SnapshotTaken
  <2>2. brokerVars' = brokerVars /\ feederVars' = feederVars /\ worldVars' = worldVars
    BY <1>11 DEF SymbolOrderBookTicker, Use
  <2>3. Unread' = {}
    BY <2>1, <2>2 DEF Unread, feederVars
  <2> QED
    BY <1>1, <2>1, <2>2, <2>3 DEF FeedInv, brokerVars, feederVars, worldVars, Startup
<1>12. CASE SubscribeToTickers
  <2>1. task' = "getUpdate" /\ fed' \subseteq Name
    BY <1>12, RelatedNames DEF SubscribeToTickers, Subscribable, ArbInv
  <2>2. /\ market' = market /\ marketData_' = marketData_ /\ missed' = missed
        /\ arrived' = arrived /\ taken' = taken /\ reply' = reply
    BY <1>12 DEF SubscribeToTickers, brokerVars, feederVars, stratVars
  <2>3. Unread' = Unread
    BY <2>2 DEF Unread
  <2> QED
    BY <1>1, <2>1, <2>2, <2>3 DEF FeedInv, Startup
<1>13. CASE GetUpdate
  <2>1. arrived' = arrived /\ taken' = taken
    BY <1>13 DEF GetUpdate, Feeder!Ask
  <2> QED
    BY <1>1, <1>13, <2>1, FeedKept DEF GetUpdate, brokerVars, worldVars, stratVars, mainVars
<1>14. CASE OnMarketData
  <2> DEFINE f == NextFrame
             first == Len(taken) + 1
  <2>1. /\ f \in Name \X Nat /\ first \in Unread
        /\ marketData_' = [marketData_ EXCEPT ![f[1]] = f[2]]
        /\ marketData_' \in [Name -> Nat] /\ \A n \in Name : marketData_'[n] <= market[n]
        /\ task' \in {"order", "getUpdate"}
    BY <1>14, UpdateTaken
  <2>2. /\ arrived' = arrived /\ taken' = Append(taken, f) /\ Len(taken) < Len(arrived)
        /\ market' = market /\ reply' = reply /\ fed' = fed /\ missed' = missed
    BY <1>14 DEF OnMarketData, TakeUpdate, Feeder!Take, NextFrame, brokerVars, worldVars
  <2>3. /\ arrived \in Seq(Name \X Nat) /\ taken \in Seq(Name \X Nat)
        /\ Len(taken) \in Nat /\ Len(arrived) \in Nat
        /\ \A n \in Name : marketData_[n] \in Nat
    BY <1>1 DEF FeedInv
  <2>4. f = arrived[first]
    BY DEF NextFrame
  <2> HIDE DEF f
  <2>5. /\ taken' \in Seq(Name \X Nat) /\ Len(taken') = first /\ Len(taken') <= Len(arrived)
    BY <2>1, <2>2, <2>3
  <2>6. \A i \in Unread' : i \in Unread /\ first < i
    BY <2>2, <2>3, <2>5 DEF Unread
  <2>7. ASSUME NEW i \in Unread'
        PROVE  /\ marketData_'[arrived[i][1]] <= arrived[i][2]
               /\ arrived[i][2] <= market[arrived[i][1]]
    <3>1. /\ i \in Unread /\ first < i /\ marketData_[arrived[i][1]] <= arrived[i][2]
          /\ arrived[i][2] <= market[arrived[i][1]]
      BY <1>1, <2>6 DEF FeedInv
    <3>2. i \in 1..Len(arrived)
      BY <2>3, <3>1 DEF Unread
    <3>3. arrived[i][1] \in Name
      BY <2>3, <3>2
    <3>4. CASE arrived[i][1] = f[1]
      <4>1. f[2] <= arrived[i][2]
        BY <1>1, <2>1, <2>4, <3>1, <3>4 DEF FeedInv
      <4> QED
        BY <1>1, <2>1, <3>1, <3>3, <3>4, <4>1 DEF FeedInv
    <3>5. CASE arrived[i][1] # f[1]
      <4>1. marketData_'[arrived[i][1]] = marketData_[arrived[i][1]]
        BY <1>1, <2>1, <3>3, <3>5 DEF FeedInv
      <4> QED
        BY <3>1, <4>1
    <3> QED
      BY <3>4, <3>5
  <2>8. \A i, j \in Unread' : i < j /\ arrived[i][1] = arrived[j][1] => arrived[i][2] <= arrived[j][2]
    BY <1>1, <2>6 DEF FeedInv
  <2> HIDE DEF first
  <2> QED
    BY <1>1, <2>1, <2>2, <2>5, <2>7, <2>8 DEF FeedInv, Startup
<1>15. CASE OrderAnswered
  BY <1>2, <1>15 DEF OrderAnswered, Use, Startup, worldVars
<1>16. CASE FeedLost
  <2>1. /\ arrived' = arrived /\ taken' = taken /\ reply' = reply /\ market' = market
        /\ marketData_' = marketData_ /\ missed' = missed
        /\ fed' = fed \/ fed' = {}
        /\ task' = task \/ task' = "terminated"
    BY <1>16 DEF FeedLost, Feeder!Stop, feederVars, brokerVars
  <2> QED
    BY <1>1, <2>1, FeedKept DEF Startup
<1>17. CASE UNCHANGED vars
  BY <1>2, <1>17 DEF vars, worldVars, stratVars, mainVars
<1> QED
  BY <1>3, <1>4, <1>5, <1>6, <1>7, <1>8, <1>9, <1>10, <1>11, <1>12, <1>13, <1>14, <1>15,
    <1>16, <1>17 DEF Next, Trading

Watching == {"subscribe", "getUpdate", "order"}

\* A step that moves no book, takes no frame and brings no answer.
LEMMA StaleKept ==
  ASSUME StaleInv, market' = market, marketData_' = marketData_, arrived' = arrived,
         taken' = taken, missed' = missed, reply' = reply, requestId' = requestId,
         task' = "ticker" /\ step' # "send" => task = "ticker" /\ step # "send",
         task' \in Watching => task \in Watching /\ RelatedSymbols' = RelatedSymbols
  PROVE  StaleInv'
<1>1. \A n : Seen(n)' = Seen(n)
  BY DEF Seen, Unread
<1>2. task' \in Watching => \A n \in RelatedSymbols' \ missed' : Seen(n)'
  BY <1>1 DEF StaleInv, Watching
<1> QED
  BY <1>2 DEF StaleInv, Watching

LEMMA StaleStep == ArbInv /\ [Next]_vars => StaleInv'
<1> SUFFICES ASSUME ArbInv, [Next]_vars PROVE StaleInv'
  OBVIOUS
<1>1. StaleInv /\ (task \in Watching => RelatedSymbols' = RelatedSymbols)
  BY ListStays DEF ArbInv, Watching
<1>2. /\ market \in [Name -> Nat] /\ marketData_ \in [Name -> Nat] /\ missed \subseteq Name
      /\ arrived \in Seq(Name \X Nat) /\ Len(taken) \in Nat /\ Len(arrived) \in Nat
  BY DEF ArbInv, FeedInv
<1>3. ASSUME NEW n \in Name, MarketMoves(n) PROVE StaleInv'
  <2>1. /\ market' = [market EXCEPT ![n] = @ + 1] /\ marketData_' = marketData_ /\ taken' = taken
        /\ reply' = reply /\ requestId' = requestId /\ task' = task /\ step' = step
        /\ \/ /\ n \in fed /\ arrived' = Append(arrived, <<n, market[n] + 1>>)
              /\ missed' = missed \ {n}
           \/ n \notin fed /\ arrived' = arrived /\ missed' = missed \cup {n}
    BY <1>3 DEF MarketMoves, Feeder!Arrive, brokerVars, feederVars, stratVars, mainVars
  <2>2. CASE task = "ticker"
    <3>1. missed' = missed \cup {n}
      BY <2>1, <2>2 DEF ArbInv, FeedInv, Startup
    <3>2. \A k \in Name \ missed' : k \in Name \ missed /\ market'[k] = market[k]
      BY <1>2, <2>1, <3>1
    <3> QED
      BY <1>1, <1>2, <2>1, <2>2, <3>1, <3>2 DEF StaleInv
  <2>3. CASE task \in Watching
    <3>1. ASSUME NEW k \in RelatedSymbols \ missed' PROVE Seen(k)'
      <4>1. k \in Name
        BY RelatedNames DEF ArbInv
      <4>2. CASE k = n
        <5>1. n \in fed /\ arrived' = Append(arrived, <<n, market[n] + 1>>)
          BY <2>1, <3>1, <4>2
        <5>2. market'[n] = market[n] + 1 /\ market[n] + 1 \in Nat
          BY <1>2, <2>1
        <5>3. arrived'[Len(arrived) + 1] = <<n, market'[n]>> /\ Len(arrived') = Len(arrived) + 1
          BY <1>2, <5>1, <5>2
        <5>4. Len(arrived) + 1 \in Unread'
          BY <1>2, <2>1, <5>3 DEF Unread, ArbInv, FeedInv
        <5> QED
          BY <4>2, <5>3, <5>4 DEF Seen
      <4>3. CASE k # n
        <5>1. Seen(k) /\ market'[k] = market[k]
          BY <1>1, <1>2, <2>1, <2>3, <3>1, <4>1, <4>3 DEF StaleInv, Watching
        <5>2. ASSUME NEW i \in Unread PROVE i \in Unread' /\ arrived'[i] = arrived[i]
          <6>1. i \in 1..Len(arrived)
            BY <1>2 DEF Unread
          <6>2. Len(arrived) <= Len(arrived') /\ Len(arrived') \in Nat /\ arrived'[i] = arrived[i]
            <7>1. <<n, market[n] + 1>> \in Name \X Nat
              BY <1>2
            <7>2. CASE arrived' = arrived
              BY <1>2, <6>1, <7>2
            <7>3. CASE arrived' = Append(arrived, <<n, market[n] + 1>>)
              BY <1>2, <6>1, <7>1, <7>3
            <7> QED
              BY <2>1, <7>2, <7>3
          <6> QED
            BY <1>2, <2>1, <6>1, <6>2 DEF Unread
        <5> QED
          BY <2>1, <5>1, <5>2 DEF Seen
      <4> QED
        BY <4>2, <4>3
    <3> QED
      BY <1>1, <2>1, <2>3, <3>1 DEF StaleInv, Watching
  <2> QED
    BY <2>1, <2>2, <2>3 DEF StaleInv, Watching
<1>4. ASSUME NEW r \in ReqId, Answers(r) PROVE StaleInv'
  <2>1. /\ r \in issued /\ reply[r] = NoReply /\ task' = task /\ step' = step
        /\ requestId' = requestId /\ market' = market /\ marketData_' = marketData_
        /\ arrived' = arrived /\ taken' = taken
        /\ \/ /\ reply' = [reply EXCEPT ![r] = market]
              /\ missed' = IF task = "ticker" THEN {} ELSE missed
           \/ /\ reply' = [reply EXCEPT ![r] = Error]
              /\ missed' = IF task = "ticker" THEN Name ELSE missed
    BY <1>4 DEF Answers, Broker!Answer, feederVars, stratVars, mainVars
  <2>2. r = requestId
    <3>1. r \in 1..requestId /\ requestId \in Nat /\ ~(r < requestId)
      BY <1>4, <2>1, NumbersAssumption DEF ArbInv, CallInv
    <3> QED
      BY <3>1
  <2>3. CASE task = "ticker"
    <3>1. \/ reply'[requestId] = market /\ missed' = {}
          \/ reply'[requestId] = Error /\ missed' = Name
      BY <2>1, <2>2, <2>3 DEF ArbInv, CallInv
    <3>2. market # Error
      BY <1>2, ErrorAssumption
    <3> QED
      BY <2>1, <2>3, <3>1, <3>2 DEF StaleInv
  <2>4. CASE task # "ticker"
    <3>1. \A n : Seen(n)' = Seen(n)
      BY <2>1 DEF Seen, Unread
    <3>2. task' \in Watching => \A n \in RelatedSymbols' \ missed' : Seen(n)'
      BY <1>1, <2>1, <2>4, <3>1 DEF StaleInv, Watching
    <3> QED
      BY <2>1, <2>4, <3>2 DEF StaleInv, Watching
  <2> QED
    BY <2>3, <2>4
<1>5. CASE SendRequest
  <2>1. /\ task' = task /\ requestId' = requestId + 1 /\ reply' = reply /\ missed' = missed
        /\ requestId < MaxRequests
        /\ market' = market /\ marketData_' = marketData_ /\ arrived' = arrived /\ taken' = taken
    BY <1>5 DEF SendRequest, Broker!Issue, feederVars, worldVars, stratVars
  <2>2. reply'[requestId'] = NoReply
    <3>1. requestId' \in ReqId /\ requestId' > requestId
      BY <2>1, NumbersAssumption DEF ArbInv, CallInv, ReqId
    <3> QED
      BY <2>1, <3>1 DEF ArbInv, CallInv
  <2>3. \A n : Seen(n)' = Seen(n)
    BY <2>1 DEF Seen, Unread
  <2>4. task' \in Watching => \A n \in RelatedSymbols' \ missed' : Seen(n)'
    BY <1>1, <2>1, <2>3 DEF StaleInv, Watching
  <2> QED
    BY <2>2, <2>4, ErrorAssumption DEF StaleInv, Watching
<1>6. CASE GetResponse
  <2>1. reply' = reply /\ step = "ask"
    BY <1>6 DEF GetResponse, Broker!Ask
  <2> QED
    BY <1>1, <1>6, <2>1, StaleKept DEF GetResponse, feederVars, worldVars, stratVars
<1>7. CASE GetResponseThrows
  <2>1. task' \in {"ended", "terminated"}
    BY <1>7 DEF GetResponseThrows
  <2> QED
    BY <2>1 DEF StaleInv
<1>8. CASE ResponseReturned
  <2>1. reply' = reply /\ step = "wait"
    BY <1>8 DEF ResponseReturned, Broker!Deliver
  <2> QED
    BY <1>1, <1>8, <2>1, StaleKept DEF ResponseReturned, feederVars, worldVars, stratVars
<1>9. CASE ExchangeInfo
  BY <1>9 DEF ExchangeInfo, Use, StaleInv
<1>10. CASE AccountInformation
  BY <1>10 DEF AccountInformation, Use, StaleInv
<1>11. CASE SymbolOrderBookTicker
  <2>1. /\ task = "ticker" /\ step = "use" /\ task' = "subscribe" /\ requestId \in ReqId
        /\ reply[requestId] \in [Name -> Nat] \cup {Error}
        /\ marketData_' = [n \in Name |-> IF n \in RelatedSymbols /\ reply[requestId] # Error
                                          THEN reply[requestId][n] ELSE 0]
    BY <1>11, SnapshotTaken
  <2>2. market' = market /\ missed' = missed /\ RelatedSymbols' = RelatedSymbols
    BY <1>11, <2>1, ListStays DEF SymbolOrderBookTicker, Use, worldVars
  <2>3. ASSUME NEW n \in RelatedSymbols \ missed PROVE Seen(n)'
    <3>1. n \in Name
      BY RelatedNames DEF ArbInv
    <3>2. reply[requestId] # Error
      BY <1>1, <2>1, <2>3, <3>1 DEF StaleInv
    <3>3. reply[requestId] # NoReply
      BY <2>1, <3>2, ErrorAssumption
    <3>4. reply[requestId][n] = market[n]
      BY <1>1, <2>1, <2>3, <3>1, <3>2, <3>3 DEF StaleInv
    <3> QED
      BY <2>1, <2>2, <3>1, <3>2, <3>4 DEF Seen
  <2> QED
    BY <2>1, <2>2, <2>3 DEF StaleInv
<1>12. CASE SubscribeToTickers
  <2>1. /\ market' = market /\ marketData_' = marketData_ /\ missed' = missed
        /\ arrived' = arrived /\ taken' = taken /\ reply' = reply /\ requestId' = requestId
        /\ task = "subscribe" /\ task' = "getUpdate"
    BY <1>12 DEF SubscribeToTickers, brokerVars, feederVars, stratVars
  <2> QED
    BY <1>1, <2>1, StaleKept DEF Watching
<1>13. CASE GetUpdate
  <2>1. arrived' = arrived /\ taken' = taken
    BY <1>13 DEF GetUpdate, Feeder!Ask
  <2> QED
    BY <1>1, <1>13, <2>1, StaleKept DEF GetUpdate, brokerVars, worldVars, stratVars, mainVars
<1>14. CASE OnMarketData
  <2> DEFINE f == NextFrame
             first == Len(taken) + 1
  <2>1. /\ f \in Name \X Nat /\ first \in Unread /\ marketData_[f[1]] <= f[2] /\ f[2] <= market[f[1]]
        /\ marketData_' = [marketData_ EXCEPT ![f[1]] = f[2]]
        /\ task = "getUpdate" /\ task' \in {"order", "getUpdate"}
    BY <1>14, UpdateTaken
  <2>2. /\ arrived' = arrived /\ taken' = Append(taken, f) /\ market' = market /\ missed' = missed
    BY <1>14 DEF OnMarketData, TakeUpdate, Feeder!Take, NextFrame, brokerVars, worldVars
  <2>3. f = arrived[first]
    BY DEF NextFrame
  <2> HIDE DEF f
  <2>4. Unread' = (first + 1)..Len(arrived) /\ Unread = first..Len(arrived)
    <3>1. Len(taken') = first
      BY <2>1, <2>2 DEF ArbInv, FeedInv
    <3> QED
      BY <2>2, <3>1 DEF Unread
  <2>5. ASSUME NEW n \in RelatedSymbols \ missed PROVE Seen(n)'
    <3>1. n \in Name /\ Seen(n) /\ market[n] \in Nat
      BY <1>1, <1>2, <2>1, RelatedNames DEF ArbInv, StaleInv
    <3>2. CASE marketData_[n] = market[n]
      <4>1. marketData_'[n] = market[n]
        <5>1. CASE n = f[1]
          BY <1>2, <2>1, <3>1, <3>2, <5>1
        <5>2. CASE n # f[1]
          BY <1>2, <2>1, <3>1, <3>2, <5>2
        <5> QED
          BY <5>1, <5>2
      <4> QED
        BY <2>2, <4>1 DEF Seen
    <3>3. ASSUME NEW i \in Unread, arrived[i] = <<n, market[n]>> PROVE Seen(n)'
      <4>1. CASE i = first
        <5>1. f[1] = n /\ f[2] = market[n]
          BY <2>3, <3>3, <4>1
        <5>2. marketData_'[n] = market[n]
          BY <1>2, <2>1, <3>1, <5>1
        <5> QED
          BY <2>2, <5>2 DEF Seen
      <4>2. CASE i # first
        <5>1. i \in Unread'
          BY <1>2, <2>4, <4>2
        <5> QED
          BY <2>2, <3>3, <5>1 DEF Seen
      <4> QED
        BY <4>1, <4>2
    <3> QED
      BY <3>1, <3>2, <3>3 DEF Seen
  <2> QED
    BY <1>1, <2>1, <2>2, <2>5 DEF StaleInv, Watching
<1>15. CASE OrderAnswered
  <2>1. /\ market' = market /\ marketData_' = marketData_ /\ missed' = missed
        /\ arrived' = arrived /\ taken' = taken /\ reply' = reply /\ requestId' = requestId
        /\ task = "order" /\ task' \in {"order", "getUpdate"}
    BY <1>15 DEF OrderAnswered, Use, brokerVars, feederVars, worldVars
  <2> QED
    BY <1>1, <2>1, StaleKept DEF Watching
<1>16. CASE FeedLost
  <2>1. /\ market' = market /\ marketData_' = marketData_ /\ missed' = missed
        /\ arrived' = arrived /\ taken' = taken /\ reply' = reply /\ requestId' = requestId
        /\ step' = step /\ (task' = task \/ task' = "terminated")
    BY <1>16 DEF FeedLost, Feeder!Stop, feederVars, brokerVars
  <2> QED
    BY <1>1, <2>1, StaleKept DEF Watching
<1>17. CASE UNCHANGED vars
  BY <1>1, <1>17, StaleKept DEF vars, brokerVars, feederVars, worldVars, stratVars, mainVars
<1> QED
  BY <1>3, <1>4, <1>5, <1>6, <1>7, <1>8, <1>9, <1>10, <1>11, <1>12, <1>13, <1>14, <1>15,
    <1>16, <1>17 DEF Next, Trading

-----------------------------------------------------------------------------
(* The theorems.                                                           *)

\* The invariant the others follow from: the call in progress, the frames between
\* the market and the strategy's view, and what the strategy holds.
THEOREM ArbInvariant == Spec => []ArbInv
<1>1. ArbInv /\ [Next]_vars => ArbInv'
  BY TaskStep, CallStep, FeedStep, StaleStep DEF ArbInv
<1> QED
  BY <1>1, ArbInit, PTL DEF Spec

\* Types, and a signal only while its orders are being sent.
THEOREM TypeCorrect == Spec => []TypeOK
<1>1. ArbInv => TypeOK
  <2> SUFFICES ASSUME ArbInv PROVE TypeOK
    OBVIOUS
  <2>1. issued \subseteq ReqId /\ requestId \in 0..MaxRequests /\ step \in {"send", "ask", "wait", "use"}
    BY NumbersAssumption DEF ArbInv, CallInv, ReqId
  <2>2. /\ DOMAIN arrived = 1..Len(arrived) /\ Len(taken) <= Len(arrived)
        /\ market \in [Name -> Nat] /\ marketData_ \in [Name -> Nat]
        /\ fed \subseteq Name /\ missed \subseteq Name
    BY DEF ArbInv, FeedInv
  <2>3. task = "order" => signal.orders # <<>>
    BY DEF ArbInv, TaskInv, IsSignal, SignalOf, ToSend
  <2> QED
    BY <2>1, <2>2, <2>3 DEF TypeOK, ArbInv, TaskInv, Tasks
<1> QED
  BY <1>1, ArbInvariant, PTL

\* With an empty queue, a book the strategy has wrong is one that is not fed, or that
\* moved between the snapshot and the subscription and not since.
THEOREM StaleOnlyMissed == Spec => []StaleOnlyIfMissed
<1>1. ArbInv => StaleOnlyIfMissed
  <2> SUFFICES ASSUME ArbInv, task = "getUpdate", taken = arrived, NEW n \in RelatedSymbols,
                      n \notin missed
               PROVE  marketData_[n] = market[n]
    BY DEF StaleOnlyIfMissed
  <2>1. Unread = {}
    <3>1. Len(taken) = Len(arrived) /\ Len(arrived) \in Nat
      BY DEF ArbInv, FeedInv
    <3> QED
      BY <3>1 DEF Unread
  <2>2. Seen(n)
    BY DEF ArbInv, StaleInv
  <2> QED
    BY <2>1, <2>2 DEF Seen
<1> QED
  BY <1>1, ArbInvariant, PTL

\* Every order of a signal can be paid from the one before it, after the fee, and
\* the balance grows.
THEOREM SignalsAffordable == Spec => []SignalAffordable
<1>1. ArbInv => SignalAffordable
  BY DEF ArbInv
<1> QED
  BY <1>1, ArbInvariant, PTL

\* A path is computed for every triangle, exactly once, and then kept.
THEOREM PathsComputed == Spec => PathsAreTriangles
<1> DEFINE A == IF task = "exchangeInfo" /\ task' = "account"
                THEN ToSet(stratPaths_') = Triangles /\ Len(stratPaths_') = Cardinality(Triangles)
                ELSE stratPaths_' = stratPaths_
<1>1. ArbInv /\ [Next]_vars => [A]_vars
  <2> SUFFICES ASSUME ArbInv, [Next]_vars PROVE A
    OBVIOUS
  <2>1. CASE task = "exchangeInfo" /\ task' = "account"
    <3>1. stratPaths_' = ComputeArbitragePaths(TradedSymbols(symbolsList), StartingAssetName, 3)
      <4> USE <2>1 DEF vars, mainVars
      <4>1. ExchangeInfo
        BY DEF Next, Trading, MarketMoves, Answers, FeedLost, SendRequest, GetResponse,
          GetResponseThrows, ResponseReturned, AccountInformation, SymbolOrderBookTicker,
          SubscribeToTickers, GetUpdate, OnMarketData, TakeUpdate, OrderAnswered, Use
      <4> QED
        BY <4>1 DEF ExchangeInfo, Use
    <3> DEFINE p == stratPaths_'
    <3>2. p \in Seq(Triangles) /\ IsInjective(p) /\ ToSet(p) = Triangles
      BY <3>1, TrianglesFound DEF ArbInv, TaskInv
    <3> HIDE DEF p
    <3>3. Len(p) \in Nat /\ p \in [1..Len(p) -> Triangles] /\ DOMAIN p = 1..Len(p)
      BY <3>2
    <3>4. \A t \in Triangles : \E i \in 1..Len(p) : p[i] = t
      BY <3>2, <3>3 DEF ToSet
    <3>5. p \in Bijection(1..Len(p), Triangles)
      BY <3>2, <3>3, <3>4 DEF Bijection, Injection, Surjection
    <3>6. Cardinality(Triangles) = Len(p)
      BY <3>3, <3>5, FS_CountingElements DEF ExistsBijection
    <3> QED
      BY <2>1, <3>2, <3>6 DEF p
  <2>2. CASE ~(task = "exchangeInfo" /\ task' = "account")
    <3> USE DEF vars, stratVars
    <3>1. stratPaths_' = stratPaths_
      BY <2>2 DEF Next, Trading, MarketMoves, Answers, FeedLost, SendRequest, GetResponse,
        GetResponseThrows, ResponseReturned, ExchangeInfo, AccountInformation,
        SymbolOrderBookTicker, SubscribeToTickers, GetUpdate, OnMarketData, TakeUpdate,
        OrderAnswered, Use
    <3> QED
      BY <2>2, <3>1
  <2> QED
    BY <2>1, <2>2
<1> QED
  BY <1>1, ArbInvariant, PTL DEF Spec, PathsAreTriangles

\* The steps that change the strategy's view.
LEMMA ViewChanges ==
  ASSUME [Next]_vars
  PROVE  marketData_' = marketData_ \/ SymbolOrderBookTicker \/ OnMarketData
BY DEF Next, Trading, MarketMoves, Answers, FeedLost, SendRequest, GetResponse,
  GetResponseThrows, ResponseReturned, ExchangeInfo, AccountInformation,
  SubscribeToTickers, GetUpdate, OrderAnswered, Use, vars, stratVars

\* No book of the strategy goes back in time.
THEOREM ViewNeverRegresses == Spec => MarketDataNeverRegresses
<1> DEFINE A == \A n \in Name : marketData_'[n] >= marketData_[n]
<1>1. ArbInv /\ [Next]_vars => [A]_vars
  <2> SUFFICES ASSUME ArbInv, [Next]_vars, NEW n \in Name PROVE marketData_'[n] >= marketData_[n]
    OBVIOUS
  <2>1. marketData_ \in [Name -> Nat]
    BY DEF ArbInv, FeedInv
  <2>2. CASE marketData_' = marketData_
    BY <2>1, <2>2
  <2>3. CASE SymbolOrderBookTicker
    <3>1. marketData_[n] = 0
      BY <2>3 DEF SymbolOrderBookTicker, Use, ArbInv, FeedInv, Startup
    <3>2. marketData_'[n] \in Nat
      BY <2>3, SnapshotTaken
    <3> QED
      BY <3>1, <3>2
  <2>4. CASE OnMarketData
    <3> DEFINE f == NextFrame
    <3>1. /\ f \in Name \X Nat /\ marketData_[f[1]] <= f[2]
          /\ marketData_' = [marketData_ EXCEPT ![f[1]] = f[2]]
      BY <2>4, UpdateTaken
    <3> HIDE DEF f
    <3> QED
      BY <2>1, <3>1
  <2> QED
    BY <2>2, <2>3, <2>4, ViewChanges
<1> QED
  BY <1>1, ArbInvariant, PTL DEF Spec, MarketDataNeverRegresses

\* No profitable path of the symbol that moved is overlooked.
THEOREM NoneOverlooked == Spec => NoSignalOverlooked
<1> DEFINE A == \A n \in Name :
                  marketData_'[n] # marketData_[n] /\ task = "getUpdate" /\ task' = "getUpdate" =>
                    \A i \in DOMAIN stratPaths_ :
                      Uses(stratPaths_[i], n) =>
                        ~EvaluatePath(stratPaths_[i], balance_, BookOf(marketData_')).found
<1>1. ArbInv /\ [Next]_vars => [A]_vars
  <2> SUFFICES ASSUME ArbInv, [Next]_vars, NEW n \in Name, marketData_'[n] # marketData_[n],
                      task = "getUpdate", task' = "getUpdate"
               PROVE  \A i \in DOMAIN stratPaths_ :
                        Uses(stratPaths_[i], n) =>
                          ~EvaluatePath(stratPaths_[i], balance_, BookOf(marketData_')).found
    OBVIOUS
  <2>1. OnMarketData
    BY ViewChanges DEF SymbolOrderBookTicker, Use
  <2> DEFINE f == NextFrame
             overlooked(name) == \E i \in DOMAIN stratPaths_ :
               Uses(stratPaths_[i], name)
                 /\ EvaluatePath(stratPaths_[i], balance_, BookOf(marketData_')).found
  <2>2. /\ f \in Name \X Nat /\ marketData_' = [marketData_ EXCEPT ![f[1]] = f[2]]
        /\ signal' = NoSignal \/ IsSignal(signal')
        /\ signal' = NoSignal => ~overlooked(f[1])
        /\ task' = IF signal'.found THEN "order" ELSE "getUpdate"
    BY <2>1, UpdateTaken
  <2> HIDE DEF f, overlooked
  <2>3. f[1] = n
    BY <2>2 DEF ArbInv, FeedInv
  <2>4. IsSignal(signal') => signal'.found
    BY DEF IsSignal, SignalOf
  <2>5. signal' = NoSignal
    BY <2>2, <2>4
  <2>6. ~overlooked(n)
    BY <2>2, <2>3, <2>5
  <2> QED
    BY <2>6 DEF overlooked
<1> QED
  BY <1>1, ArbInvariant, PTL DEF Spec, NoSignalOverlooked

=============================================================================
