------------------------------ MODULE FilterProofs ------------------------------
(***************************************************************************)
(* Proofs about sequences of data, and about FilterRules.                  *)
(*                                                                         *)
(* The induction theorems of the library take an operator, which the       *)
(* provers cannot instantiate; WFMin takes a set, and the principles that  *)
(* follow from it are stated here for sets too.                            *)
(***************************************************************************)
EXTENDS FilterRules, TLAPS, WellFoundedInduction

\* A set of natural numbers has a least one.
LEMMA Smallest ==
  ASSUME NEW T \in SUBSET Nat, T # {}
  PROVE  \E m \in T : \A k \in T : m <= k
<1> DEFINE R == {ss \in Nat \X Nat : ss[1] < ss[2]}
<1>1. OpToRel(<, Nat) = R
  BY DEF OpToRel
<1>2. ASSUME NEW k \in Nat, NEW m \in Nat, k < m
      PROVE  <<k, m>> \in R
  BY <1>2
<1> HIDE DEF R
<1>3. PICK m \in T : \A k \in T : ~(<<k, m>> \in R)
  BY <1>1, NatLessThanWellFounded, WFMin
<1>4. \A k \in T : ~(k < m)
  BY <1>2, <1>3
<1> QED
  BY <1>4

\* Induction: a set with 0 and with the successor of each number in it up to n.
LEMMA InductionTo ==
  ASSUME NEW n \in Nat, NEW T, 0 \in T, \A k \in 0..(n - 1) : k \in T => k + 1 \in T
  PROVE  0..n \subseteq T
<1> SUFFICES ASSUME (0..n) \ T # {} PROVE FALSE
  OBVIOUS
<1> DEFINE U == (0..n) \ T
<1>1. U \in SUBSET Nat /\ U # {}
  OBVIOUS
<1>2. PICK m \in U : \A k \in U : m <= k
  <2> HIDE DEF U
  <2> QED
    BY <1>1, Smallest
<1>3. m # 0 /\ m - 1 \in 0..(n - 1) /\ m - 1 \notin U
  BY <1>2
<1> QED
  BY <1>2, <1>3

\* A set of positions has a largest one, and Max returns it.
LEMMA LargestPosition ==
  ASSUME NEW n \in Nat, NEW T \in SUBSET (1..n), T # {}
  PROVE  Max(T) \in T /\ \A k \in T : k <= Max(T)
<1> DEFINE U == {n - x : x \in T}
<1>1. U \in SUBSET Nat /\ U # {}
  <2>1. \A x \in T : x \in 1..n /\ n - x \in Nat
    OBVIOUS
  <2> QED
    BY <2>1
<1>2. PICK m \in U : \A k \in U : m <= k
  <2> HIDE DEF U
  <2> QED
    BY <1>1, Smallest
<1>3. \E x \in T : \A k \in T : k <= x
  <2>1. PICK x \in T : m = n - x
    BY <1>2
  <2>2. ASSUME NEW k \in T PROVE k <= x
    <3>1. m <= n - k /\ k \in Nat /\ x \in Nat
      BY <1>2
    <3> QED
      BY <2>1, <3>1
  <2> QED
    BY <2>2
<1> QED
  BY <1>3 DEF Max

LEMMA SmallestPosition ==
  ASSUME NEW n \in Nat, NEW T \in SUBSET (1..n), T # {}
  PROVE  Min(T) \in T /\ \A k \in T : Min(T) <= k
<1>1. T \in SUBSET Nat
  OBVIOUS
<1>2. \E x \in T : \A k \in T : x <= k
  BY <1>1, Smallest
<1> QED
  BY <1>2 DEF Min

\* The functions defined by recursion over 0..n, whose next value is given by h.
NextValues(n, V) == [1..n -> [V -> V]]
Recursions(n, V, base, h) ==
  {g \in [0..n -> V] : g[0] = base /\ \A i \in 1..n : g[i] = h[i][g[i - 1]]}

\* There is one.
LEMMA RecursionTo ==
  ASSUME NEW n \in Nat, NEW V, NEW base \in V, NEW h \in NextValues(n, V)
  PROVE  Recursions(n, V, base, h) # {}
<1> USE DEF NextValues
<1> DEFINE Defines(g, k) == /\ g \in [0..k -> V] /\ g[0] = base
                            /\ \A i \in 1..k : g[i] = h[i][g[i - 1]]
           T == {k \in 0..n : \E g : Defines(g, k)}
<1>1. 0 \in T
  <2>1. Defines([i \in 0..0 |-> base], 0)
    OBVIOUS
  <2> HIDE DEF Defines
  <2> QED
    BY <2>1
<1>2. ASSUME NEW k \in 0..(n - 1), k \in T PROVE k + 1 \in T
  <2>1. PICK g : Defines(g, k)
    BY <1>2
  <2> DEFINE f == [i \in 0..(k + 1) |-> IF i = k + 1 THEN h[k + 1][g[k]] ELSE g[i]]
  <2>2. g[k] \in V /\ h[k + 1][g[k]] \in V
    BY <2>1
  <2>3. f \in [0..(k + 1) -> V] /\ f[0] = base
    BY <2>1, <2>2
  <2>4. ASSUME NEW i \in 1..(k + 1) PROVE f[i] = h[i][f[i - 1]]
    <3>1. f[i - 1] = g[i - 1]
      OBVIOUS
    <3>2. CASE i = k + 1
      BY <3>1, <3>2
    <3>3. CASE i \in 1..k
      BY <2>1, <3>1, <3>3
    <3> QED
      BY <3>2, <3>3
  <2>5. Defines(f, k + 1)
    BY <2>3, <2>4
  <2> HIDE DEF Defines
  <2> QED
    BY <2>5
<1>3. n \in T
  <2> HIDE DEF T
  <2>1. 0..n \subseteq T
    BY <1>1, <1>2, InductionTo
  <2> QED
    BY <2>1
<1> QED
  BY <1>3 DEF Recursions

\* What Keep is made of: the part kept of each prefix.
LEMMA KeepDef ==
  ASSUME NEW R, NEW seq \in Seq(R), NEW S
  PROVE  \E f \in [0..Len(seq) -> Seq(R)] :
           /\ f[0] = <<>> /\ Keep(seq, S) = f[Len(seq)]
           /\ \A i \in 1..Len(seq) :
                f[i] = IF seq[i] \in S THEN Append(f[i - 1], seq[i]) ELSE f[i - 1]
<1> DEFINE n == Len(seq)
           V == Seq(R)
           next(i, v) == IF seq[i] \in S THEN Append(v, seq[i]) ELSE v
           D(f) == [i \in 0..n |-> IF i = 0 THEN <<>> ELSE next(i, f[i - 1])]
           kept == CHOOSE f : f = D(f)
           h == [i \in 1..n |-> [v \in V |-> next(i, v)]]
<1>1. n \in Nat /\ \A i \in 1..n : seq[i] \in R
  OBVIOUS
<1>2. <<>> \in V /\ \A i \in 1..n, v \in V : next(i, v) \in V
  BY <1>1
<1>3. Keep(seq, S) = kept[n]
  BY DEF Keep
<1> HIDE DEF n, V, next
<1>4. h \in NextValues(n, V) /\ \A i \in 1..n, v \in V : h[i][v] = next(i, v)
  BY <1>2 DEF NextValues
<1>5. PICK g \in [0..n -> V] : g[0] = <<>> /\ \A i \in 1..n : g[i] = h[i][g[i - 1]]
  <2> HIDE DEF h
  <2>1. Recursions(n, V, <<>>, h) # {}
    BY <1>1, <1>2, <1>4, RecursionTo
  <2> QED
    BY <2>1 DEF Recursions
<1>6. \A i \in 1..n : g[i - 1] \in V /\ g[i] = next(i, g[i - 1])
  <2> HIDE DEF h
  <2>1. \A i \in 1..n : i - 1 \in 0..n
    BY <1>1
  <2> QED
    BY <1>4, <1>5, <2>1
<1>7. g = D(g)
  BY <1>5, <1>6
<1>8. kept = D(kept)
  BY <1>7
<1> HIDE DEF kept
<1>9. kept[0] = <<>> /\ \A i \in 1..n : kept[i] = next(i, kept[i - 1])
  BY <1>1, <1>8
<1> DEFINE T == {k \in 0..n : kept[k] \in V}
<1>10. 0 \in T
  BY <1>1, <1>2, <1>9
<1>11. ASSUME NEW k \in 0..(n - 1), k \in T PROVE k + 1 \in T
  <2>1. k + 1 \in 1..n /\ kept[k + 1] = next(k + 1, kept[k])
    BY <1>1, <1>9
  <2> QED
    BY <1>1, <1>2, <1>11, <2>1
<1>12. 0..n \subseteq T
  <2> HIDE DEF T
  <2> QED
    BY <1>1, <1>10, <1>11, InductionTo
<1>13. kept \in [0..n -> V]
  BY <1>8, <1>12
<1> QED
  BY <1>3, <1>9, <1>13 DEF n, V, next

\* e embeds the sequence out in the elements of seq up to k that are in S: in
\* their order, and all of them.
Embeds(e, out, seq, S, k) ==
  /\ e \in [1..Len(out) -> 1..k]
  /\ \A i \in 1..Len(out) : out[i] = seq[e[i]] /\ seq[e[i]] \in S
  /\ \A i, j \in 1..Len(out) : i < j => e[i] < e[j]
  /\ \A i \in 1..k : seq[i] \in S => \E j \in 1..Len(out) : e[j] = i

\* What Keep returns.
LEMMA KeepEmbeds ==
  ASSUME NEW R, NEW seq \in Seq(R), NEW S
  PROVE  Keep(seq, S) \in Seq(R) /\ \E e : Embeds(e, Keep(seq, S), seq, S, Len(seq))
<1> SUFFICES ASSUME NEW f \in [0..Len(seq) -> Seq(R)],
                    f[0] = <<>>, Keep(seq, S) = f[Len(seq)],
                    \A i \in 1..Len(seq) :
                      f[i] = IF seq[i] \in S THEN Append(f[i - 1], seq[i]) ELSE f[i - 1]
             PROVE  Keep(seq, S) \in Seq(R) /\ \E e : Embeds(e, Keep(seq, S), seq, S, Len(seq))
  BY KeepDef
<1> DEFINE n == Len(seq)
<1>1. /\ f \in [0..n -> Seq(R)] /\ f[0] = <<>> /\ Keep(seq, S) = f[n]
      /\ \A i \in 1..n : f[i] = IF seq[i] \in S THEN Append(f[i - 1], seq[i]) ELSE f[i - 1]
  OBVIOUS
<1> DEFINE T == {k \in 0..n : \E e : Embeds(e, f[k], seq, S, k)}
<1>2. n \in Nat
  OBVIOUS
<1> HIDE DEF n
<1>3. 0 \in T
  <2>1. Embeds([i \in 1..0 |-> 0], f[0], seq, S, 0)
    BY <1>1 DEF Embeds
  <2> QED
    BY <1>2, <2>1
<1>4. ASSUME NEW k \in 0..(n - 1), k \in T PROVE k + 1 \in T
  <2>1. PICK e : Embeds(e, f[k], seq, S, k)
    BY <1>4
  <2>2. f[k] \in Seq(R) /\ f[k + 1] \in Seq(R)
        /\ f[k + 1] = IF seq[k + 1] \in S THEN Append(f[k], seq[k + 1]) ELSE f[k]
    BY <1>1, <1>2
  <2>3. CASE seq[k + 1] \notin S
    <3>1. Embeds(e, f[k + 1], seq, S, k + 1)
      BY <2>1, <2>2, <2>3 DEF Embeds
    <3> QED
      BY <1>2, <3>1
  <2>4. CASE seq[k + 1] \in S
    <3> DEFINE m == Len(f[k])
               d == [i \in 1..(m + 1) |-> IF i = m + 1 THEN k + 1 ELSE e[i]]
    <3>1. /\ m \in Nat /\ Len(f[k + 1]) = m + 1 /\ f[k + 1][m + 1] = seq[k + 1]
          /\ \A i \in 1..m : f[k + 1][i] = f[k][i]
      BY <2>2, <2>4
    <3> HIDE DEF m
    <3>2. /\ e \in [1..m -> 1..k] /\ \A i \in 1..m : f[k][i] = seq[e[i]] /\ seq[e[i]] \in S
          /\ \A i, j \in 1..m : i < j => e[i] < e[j]
          /\ \A i \in 1..k : seq[i] \in S => \E j \in 1..m : e[j] = i
      BY <2>1 DEF Embeds, m
    <3>3. d \in [1..(m + 1) -> 1..(k + 1)]
      BY <3>1, <3>2
    <3>4. \A i \in 1..(m + 1) : f[k + 1][i] = seq[d[i]] /\ seq[d[i]] \in S
      BY <2>4, <3>1, <3>2
    <3>5. \A i, j \in 1..(m + 1) : i < j => d[i] < d[j]
      BY <3>1, <3>2
    <3>6. ASSUME NEW i \in 1..(k + 1), seq[i] \in S PROVE \E j \in 1..(m + 1) : d[j] = i
      <4>1. CASE i = k + 1
        BY <3>1, <4>1
      <4>2. CASE i \in 1..k
        <5>1. PICK j \in 1..m : e[j] = i
          BY <3>2, <3>6, <4>2
        <5> QED
          BY <3>1, <5>1
      <4> QED
        BY <4>1, <4>2
    <3>7. Embeds(d, f[k + 1], seq, S, k + 1)
      BY <3>1, <3>3, <3>4, <3>5, <3>6 DEF Embeds
    <3> QED
      BY <1>2, <3>7
  <2> QED
    BY <2>3, <2>4
<1>5. n \in T
  <2> HIDE DEF T
  <2>1. 0..n \subseteq T
    BY <1>2, <1>3, <1>4, InductionTo
  <2> QED
    BY <1>2, <2>1
<1> QED
  BY <1>1, <1>2, <1>5 DEF n

\* Keep returns the elements in S, each once if seq has each once.
LEMMA KeepRange ==
  ASSUME NEW R, NEW seq \in Seq(R), NEW S
  PROVE  /\ Keep(seq, S) \in Seq(R) /\ ToSet(Keep(seq, S)) = ToSet(seq) \cap S
         /\ IsInjective(seq) => IsInjective(Keep(seq, S))
<1> DEFINE out == Keep(seq, S)
<1>1. PICK e : Embeds(e, out, seq, S, Len(seq))
  BY KeepEmbeds
<1>2. out \in Seq(R)
  BY KeepEmbeds
<1> HIDE DEF out
<1>3. /\ DOMAIN out = 1..Len(out) /\ DOMAIN seq = 1..Len(seq)
      /\ Len(out) \in Nat /\ Len(seq) \in Nat
  BY <1>2
<1>4. ToSet(out) = ToSet(seq) \cap S
  <2>1. ASSUME NEW i \in DOMAIN out PROVE out[i] \in ToSet(seq) \cap S
    <3>1. e[i] \in DOMAIN seq /\ out[i] = seq[e[i]] /\ seq[e[i]] \in S
      BY <1>1, <1>3 DEF Embeds
    <3> QED
      BY <3>1 DEF ToSet
  <2>2. ASSUME NEW i \in DOMAIN seq, seq[i] \in S PROVE seq[i] \in ToSet(out)
    <3>1. PICK j \in DOMAIN out : e[j] = i /\ out[j] = seq[i]
      BY <1>1, <1>3, <2>2 DEF Embeds
    <3> QED
      BY <3>1 DEF ToSet
  <2> QED
    BY <2>1, <2>2 DEF ToSet
<1>5. ASSUME IsInjective(seq), NEW i \in DOMAIN out, NEW j \in DOMAIN out, out[i] = out[j]
      PROVE  i = j
  <2>1. e[i] = e[j]
    BY <1>1, <1>3, <1>5 DEF Embeds, IsInjective
  <2> QED
    BY <1>1, <1>3, <2>1 DEF Embeds
<1> QED
  BY <1>2, <1>4, <1>5 DEF IsInjective, out

\* The elements of a concatenation.
LEMMA ConcatRange ==
  ASSUME NEW R, NEW s \in Seq(R), NEW t \in Seq(R)
  PROVE  /\ s \o t \in Seq(R) /\ ToSet(s \o t) = ToSet(s) \cup ToSet(t)
         /\ IsInjective(s) /\ IsInjective(t) /\ ToSet(s) \cap ToSet(t) = {} =>
              IsInjective(s \o t)
<1> DEFINE c == s \o t
<1>1. /\ Len(s) \in Nat /\ Len(t) \in Nat /\ DOMAIN s = 1..Len(s) /\ DOMAIN t = 1..Len(t)
      /\ c \in Seq(R) /\ Len(c) = Len(s) + Len(t) /\ DOMAIN c = 1..(Len(s) + Len(t))
      /\ \A i \in 1..Len(s) : c[i] = s[i]
      /\ \A i \in 1..(Len(s) + Len(t)) : i > Len(s) => c[i] = t[i - Len(s)]
  OBVIOUS
<1> HIDE DEF c
<1>2. ASSUME NEW i \in DOMAIN c
      PROVE  \/ i \in DOMAIN s /\ c[i] = s[i]
             \/ i - Len(s) \in DOMAIN t /\ c[i] = t[i - Len(s)] /\ i > Len(s)
  BY <1>1
<1>3. \A i \in DOMAIN s : i \in DOMAIN c /\ c[i] = s[i]
  BY <1>1
<1>4. ASSUME NEW i \in DOMAIN t
      PROVE  i + Len(s) \in DOMAIN c /\ c[i + Len(s)] = t[i]
  <2>1. i + Len(s) \in 1..(Len(s) + Len(t)) /\ i + Len(s) > Len(s) /\ (i + Len(s)) - Len(s) = i
    BY <1>1
  <2> QED
    BY <1>1, <2>1
<1>5. ToSet(c) = ToSet(s) \cup ToSet(t)
  <2>1. ToSet(c) \subseteq ToSet(s) \cup ToSet(t)
    BY <1>2 DEF ToSet
  <2>2. ToSet(s) \subseteq ToSet(c)
    BY <1>3 DEF ToSet
  <2>3. ToSet(t) \subseteq ToSet(c)
    BY <1>4 DEF ToSet
  <2> QED
    BY <2>1, <2>2, <2>3
<1>6. ASSUME IsInjective(s), IsInjective(t), ToSet(s) \cap ToSet(t) = {},
             NEW i \in DOMAIN c, NEW j \in DOMAIN c, c[i] = c[j]
      PROVE  i = j
  <2>1. \A k \in DOMAIN s, l \in DOMAIN t : s[k] # t[l]
    BY <1>6 DEF ToSet
  <2> QED
    BY <1>1, <1>2, <1>6, <2>1 DEF IsInjective
<1> QED
  BY <1>1, <1>5, <1>6 DEF IsInjective, c

\* What FlattenSeq is made of: the concatenation of each prefix.
LEMMA FlattenDef ==
  ASSUME NEW R, NEW seqs \in Seq(Seq(R))
  PROVE  \E f \in [0..Len(seqs) -> Seq(R)] :
           /\ f[0] = <<>> /\ FlattenSeq(seqs) = f[Len(seqs)]
           /\ \A i \in 1..Len(seqs) : f[i] = f[i - 1] \o seqs[i]
<1> DEFINE n == Len(seqs)
           V == Seq(R)
           next(i, v) == v \o seqs[i]
           D(f) == [i \in 1..n |-> IF i = 1 THEN seqs[1] ELSE next(i, f[i - 1])]
           E(f) == [i \in 1..n |-> IF i = 1 THEN seqs[i] ELSE f[i - 1] \o seqs[i]]
           flat == CHOOSE f : f = E(f)
           h == [i \in 1..n |-> [v \in V |-> next(i, v)]]
<1>1. n \in Nat /\ \A i \in 1..n : seqs[i] \in V
  OBVIOUS
<1>2. <<>> \in V /\ \A i \in 1..n, v \in V : next(i, v) \in V
  BY <1>1
<1>3. \A i \in 1..n : next(i, <<>>) = seqs[i]
  BY <1>1
<1>4. FlattenSeq(seqs) = IF n = 0 THEN <<>> ELSE flat[n]
  BY DEF FlattenSeq
<1>5. \A f : E(f) = D(f)
  OBVIOUS
<1> HIDE DEF n, V, next
<1>6. h \in NextValues(n, V) /\ \A i \in 1..n, v \in V : h[i][v] = next(i, v)
  BY <1>2 DEF NextValues
<1>7. PICK g \in [0..n -> V] : g[0] = <<>> /\ \A i \in 1..n : g[i] = h[i][g[i - 1]]
  <2> HIDE DEF h
  <2>1. Recursions(n, V, <<>>, h) # {}
    BY <1>1, <1>2, <1>6, RecursionTo
  <2> QED
    BY <2>1 DEF Recursions
<1>8. \A i \in 1..n : g[i - 1] \in V /\ g[i] = next(i, g[i - 1])
  <2> HIDE DEF h
  <2>1. \A i \in 1..n : i - 1 \in 0..n
    BY <1>1
  <2> QED
    BY <1>6, <1>7, <2>1
<1> DEFINE tail == [i \in 1..n |-> g[i]]
<1>9. tail = D(tail)
  BY <1>1, <1>3, <1>7, <1>8
<1>10. flat = D(flat)
  <2> HIDE DEF tail, D, E
  <2>1. tail = E(tail)
    BY <1>5, <1>9
  <2>2. flat = E(flat)
    BY <2>1
  <2> QED
    BY <1>5, <2>2
<1> HIDE DEF flat
<1> DEFINE T == {k \in 0..n : k # 0 => flat[k] = g[k]}
<1>11. 0 \in T
  BY <1>1
<1>12. ASSUME NEW k \in 0..(n - 1), k \in T PROVE k + 1 \in T
  <2>1. k + 1 \in 1..n /\ g[k + 1] = next(k + 1, g[k])
    BY <1>1, <1>8
  <2>2. flat[k + 1] = IF k = 0 THEN seqs[1] ELSE next(k + 1, flat[k])
    BY <1>1, <1>10, <2>1
  <2> QED
    BY <1>1, <1>3, <1>7, <1>12, <2>1, <2>2
<1>13. 0..n \subseteq T
  <2> HIDE DEF T
  <2> QED
    BY <1>1, <1>11, <1>12, InductionTo
<1>14. FlattenSeq(seqs) = g[n]
  BY <1>1, <1>4, <1>7, <1>13
<1> QED
  BY <1>7, <1>8, <1>14 DEF n, V, next

\* FlattenSeq returns the elements of all parts, each once if no two parts share
\* one and each has each once.
LEMMA FlattenRange ==
  ASSUME NEW R, NEW seqs \in Seq(Seq(R))
  PROVE  /\ FlattenSeq(seqs) \in Seq(R)
         /\ ToSet(FlattenSeq(seqs)) = UNION {ToSet(seqs[i]) : i \in DOMAIN seqs}
         /\ /\ \A i \in DOMAIN seqs : IsInjective(seqs[i])
            /\ \A i, j \in DOMAIN seqs : i # j => ToSet(seqs[i]) \cap ToSet(seqs[j]) = {}
            => IsInjective(FlattenSeq(seqs))
<1> SUFFICES ASSUME NEW f \in [0..Len(seqs) -> Seq(R)],
                    f[0] = <<>>, FlattenSeq(seqs) = f[Len(seqs)],
                    \A i \in 1..Len(seqs) : f[i] = f[i - 1] \o seqs[i]
             PROVE  /\ f[Len(seqs)] \in Seq(R)
                    /\ ToSet(f[Len(seqs)]) = UNION {ToSet(seqs[i]) : i \in 1..Len(seqs)}
                    /\ /\ \A i \in 1..Len(seqs) : IsInjective(seqs[i])
                       /\ \A i, j \in 1..Len(seqs) : i # j => ToSet(seqs[i]) \cap ToSet(seqs[j]) = {}
                       => IsInjective(f[Len(seqs)])
  <2>1. DOMAIN seqs = 1..Len(seqs)
    OBVIOUS
  <2>2. PICK f \in [0..Len(seqs) -> Seq(R)] :
          /\ f[0] = <<>> /\ FlattenSeq(seqs) = f[Len(seqs)]
          /\ \A i \in 1..Len(seqs) : f[i] = f[i - 1] \o seqs[i]
    BY FlattenDef
  <2> DEFINE last == FlattenSeq(seqs)
  <2>3. last = f[Len(seqs)]
    BY <2>2
  <2> HIDE DEF last
  <2>4. /\ last \in Seq(R)
        /\ ToSet(last) = UNION {ToSet(seqs[i]) : i \in 1..Len(seqs)}
        /\ /\ \A i \in 1..Len(seqs) : IsInjective(seqs[i])
           /\ \A i, j \in 1..Len(seqs) : i # j => ToSet(seqs[i]) \cap ToSet(seqs[j]) = {}
           => IsInjective(last)
    BY <2>2, <2>3
  <2> QED
    BY <2>1, <2>4 DEF last
<1> DEFINE n == Len(seqs)
           Apart == /\ \A i \in 1..n : IsInjective(seqs[i])
                    /\ \A i, j \in 1..n : i # j => ToSet(seqs[i]) \cap ToSet(seqs[j]) = {}
           T == {k \in 0..n : /\ ToSet(f[k]) = UNION {ToSet(seqs[i]) : i \in 1..k}
                              /\ Apart => IsInjective(f[k])}
<1>1. /\ n \in Nat /\ f[0] = <<>>
      /\ \A i \in 0..n : f[i] \in Seq(R)
      /\ \A i \in 1..n : seqs[i] \in Seq(R)
      /\ \A i \in 1..n : f[i] = f[i - 1] \o seqs[i]
  <2>1. n \in Nat
    OBVIOUS
  <2>2. \A i \in 1..n : seqs[i] \in Seq(R)
    OBVIOUS
  <2> QED
    BY <2>1, <2>2
<1>2. 0 \in T
  BY DEF ToSet, IsInjective
<1> HIDE DEF n
<1>3. ASSUME NEW k \in 0..(n - 1), k \in T PROVE k + 1 \in T
  <2> DEFINE s == f[k]
             t == seqs[k + 1]
  <2>1. /\ k + 1 \in 1..n /\ s \in Seq(R) /\ t \in Seq(R) /\ f[k + 1] = s \o t
        /\ 1..(k + 1) = (1..k) \cup {k + 1} /\ k + 1 \notin 1..k /\ 1..k \subseteq 1..n
    <3>1. k + 1 \in 1..n /\ k \in 0..n /\ (k + 1) - 1 = k
      BY <1>1
    <3>2. 1..(k + 1) = (1..k) \cup {k + 1} /\ k + 1 \notin 1..k /\ 1..k \subseteq 1..n
      <4>1. k \in Nat /\ k < n
        BY <1>1
      <4>2. 1..(k + 1) = (1..k) \cup {k + 1}
        BY <4>1
      <4>3. k + 1 \notin 1..k
        BY <4>1
      <4>4. 1..k \subseteq 1..n
        BY <1>1, <4>1
      <4> QED
        BY <4>2, <4>3, <4>4
    <3>3. s \in Seq(R) /\ t \in Seq(R) /\ f[k + 1] = s \o t
      BY <1>1, <3>1
    <3> QED
      BY <3>1, <3>2, <3>3
  <2> HIDE DEF s, t
  <2>2. /\ ToSet(s \o t) = ToSet(s) \cup ToSet(t)
        /\ IsInjective(s) /\ IsInjective(t) /\ ToSet(s) \cap ToSet(t) = {} =>
             IsInjective(s \o t)
    BY <2>1, ConcatRange
  <2>3. ToSet(s) = UNION {ToSet(seqs[i]) : i \in 1..k} /\ (Apart => IsInjective(s))
    BY <1>3 DEF s
  <2>4. ToSet(f[k + 1]) = UNION {ToSet(seqs[i]) : i \in 1..(k + 1)}
    BY <2>1, <2>2, <2>3 DEF t
  <2>5. ASSUME Apart PROVE IsInjective(f[k + 1])
    <3>1. IsInjective(t) /\ ToSet(s) \cap ToSet(t) = {}
      <4>1. \A i \in 1..k : ToSet(seqs[i]) \cap ToSet(t) = {}
        BY <2>1, <2>5 DEF t
      <4>2. IsInjective(t)
        BY <2>1, <2>5 DEF t
      <4> QED
        BY <2>3, <4>1, <4>2
    <3> QED
      BY <2>1, <2>2, <2>3, <2>5, <3>1
  <2>6. k + 1 \in 0..n
    BY <1>1, <2>1
  <2> HIDE DEF Apart
  <2> QED
    BY <2>4, <2>5, <2>6
<1>4. n \in T
  <2> HIDE DEF T
  <2>1. 0..n \subseteq T
    BY <1>1, <1>2, <1>3, InductionTo
  <2> QED
    BY <1>1, <2>1
<1> QED
  BY <1>1, <1>4 DEF n
-----------------------------------------------------------------------------
\* Division with remainder.
LEMMA DivMod ==
  ASSUME NEW a \in Nat, NEW b \in Nat \ {0}
  PROVE  a \div b \in Nat /\ a % b \in 0..(b - 1) /\ a = b * (a \div b) + (a % b)
OBVIOUS

\* A multiple leaves no remainder.
LEMMA ModOfProduct ==
  ASSUME NEW k \in Nat, NEW b \in Nat \ {0}
  PROVE  (b * k) % b = 0
<1> DEFINE q == (b * k) \div b
           r == (b * k) % b
<1>1. b * k \in Nat
  OBVIOUS
<1>2. q \in Nat /\ r \in 0..(b - 1) /\ b * k = b * q + r
  BY <1>1, DivMod
<1> HIDE DEF q, r
<1>3. r = b * (k - q)
  BY <1>2
<1>4. CASE k - q >= 1
  BY <1>2, <1>3, <1>4
<1>5. CASE k - q <= 0
  BY <1>2, <1>3, <1>5
<1>6. r = 0
  BY <1>2, <1>4, <1>5
<1> QED
  BY <1>6 DEF r

LEMMA Multiple ==
  ASSUME NEW a \in Nat, NEW b \in Nat \ {0}, a % b = 0
  PROVE  \E k \in Nat : a = b * k
<1>1. a \div b \in Nat /\ a = b * (a \div b)
  BY DivMod
<1> QED
  BY <1>1

\* A multiple of a multiple.
LEMMA MultipleOfMultiple ==
  ASSUME NEW a \in Nat, NEW b \in Nat \ {0}, NEW c \in Nat \ {0}, a % b = 0, b % c = 0
  PROVE  a % c = 0
<1>1. PICK k \in Nat : a = b * k
  BY Multiple
<1>2. PICK l \in Nat : b = c * l
  BY Multiple
<1>3. l * k \in Nat /\ a = c * (l * k)
  BY <1>1, <1>2
<1> QED
  BY <1>3, ModOfProduct

LEMMA DivBelow ==
  ASSUME NEW a \in Nat, NEW b \in Nat \ {0}, NEW k \in Nat, a < b * (k + 1)
  PROVE  a \div b <= k
<1> DEFINE q == a \div b
           r == a % b
<1>1. q \in Nat /\ r \in 0..(b - 1) /\ a = b * q + r
  BY DivMod
<1> HIDE DEF q, r
<1>2. CASE q >= k + 1
  <2>1. b * q >= b * (k + 1)
    BY <1>1, <1>2
  <2> QED
    BY <1>1, <2>1
<1> QED
  BY <1>1, <1>2 DEF q

\* Division keeps the order.
LEMMA DivMonotone ==
  ASSUME NEW a \in Nat, NEW c \in Nat, NEW b \in Nat \ {0}, a <= c
  PROVE  a \div b <= c \div b
<1> DEFINE q == c \div b
           r == c % b
<1>1. q \in Nat /\ r \in 0..(b - 1) /\ c = b * q + r
  BY DivMod
<1> HIDE DEF q, r
<1>2. b * (q + 1) = b * q + b
  BY <1>1
<1>3. a < b * (q + 1)
  BY <1>1, <1>2
<1> QED
  BY <1>1, <1>3, DivBelow DEF q

LEMMA LessByCancel ==
  ASSUME NEW p \in Nat \ {0}, NEW a \in Int, NEW b \in Int, p * a <= p * b
  PROVE  a <= b
<1>1. CASE a >= b + 1
  <2>1. p * a >= p * (b + 1)
    BY <1>1
  <2> QED
    BY <2>1
<1> QED
  BY <1>1

\* Of two multiples of g, the larger one is larger by g at least.
LEMMA MultiplesApart ==
  ASSUME NEW g \in Nat \ {0}, NEW a \in Nat, NEW b \in Nat, a % g = 0, b % g = 0, a < b
  PROVE  a + g <= b
<1>1. PICK k \in Nat : a = g * k
  BY Multiple
<1>2. PICK l \in Nat : b = g * l
  BY Multiple
<1>3. CASE l <= k
  <2>1. g * l <= g * k
    BY <1>3
  <2> QED
    BY <1>1, <1>2, <2>1
<1>4. CASE l >= k + 1
  <2>1. g * l >= g * (k + 1) /\ g * (k + 1) = g * k + g
    BY <1>4
  <2> QED
    BY <1>1, <1>2, <2>1
<1> QED
  BY <1>3, <1>4

LEMMA MultipleOfSum ==
  ASSUME NEW g \in Nat \ {0}, NEW a \in Nat, a % g = 0
  PROVE  (a + g) % g = 0
<1>1. PICK k \in Nat : a = g * k
  BY Multiple
<1>2. a + g = g * (k + 1) /\ k + 1 \in Nat
  BY <1>1
<1> QED
  BY <1>2, ModOfProduct

LEMMA MultipleOfTimes ==
  ASSUME NEW g \in Nat \ {0}, NEW a \in Nat, a % g = 0, NEW n \in Nat
  PROVE  n * a \in Nat /\ (n * a) % g = 0
<1>1. PICK k \in Nat : a = g * k
  BY Multiple
<1>2. n * k \in Nat /\ n * a = g * (n * k)
  BY <1>1
<1>3. (g * (n * k)) % g = 0
  BY <1>2, ModOfProduct
<1>4. n * a \in Nat
  OBVIOUS
<1> QED
  BY <1>2, <1>3, <1>4
-----------------------------------------------------------------------------
(* Texts of numbers.                                                       *)

LEMMA TextMonotone ==
  ASSUME NEW x \in Nat, NEW y \in Nat, TextUnit \in Nat \ {0}, x <= y
  PROVE  Requests!TextOf(x) \in Nat /\ Requests!TextOf(x) <= Requests!TextOf(y)
<1> DEFINE U == TextUnit
           a == (2 * x + U) \div (2 * U)
           c == (2 * y + U) \div (2 * U)
<1>1. 2 * x + U \in Nat /\ 2 * y + U \in Nat /\ 2 * U \in Nat \ {0} /\ 2 * x + U <= 2 * y + U
  OBVIOUS
<1>2. a \in Nat /\ c \in Nat /\ a <= c
  BY <1>1, DivMod, DivMonotone
<1>3. Requests!TextOf(x) = a * U /\ Requests!TextOf(y) = c * U
  BY DEF Requests!TextOf
<1> HIDE DEF a, c
<1> QED
  BY <1>2, <1>3

\* A number close to one that a text can show has the text of that one.
LEMMA TextNear ==
  ASSUME NEW x \in Nat, NEW m \in Nat, TextUnit \in Nat \ {0}, m % TextUnit = 0,
         4 * (x - m) <= TextUnit, 4 * (m - x) <= TextUnit
  PROVE  Requests!TextOf(x) = m
<1> DEFINE U == TextUnit
           q == (2 * x + U) \div (2 * U)
           r == (2 * x + U) % (2 * U)
<1>1. PICK k \in Nat : m = U * k
  BY Multiple
<1>2. 2 * x + U \in Nat /\ 2 * U \in Nat \ {0}
  OBVIOUS
<1>3. q \in Nat /\ r \in 0..(2 * U - 1) /\ 2 * x + U = (2 * U) * q + r
  BY <1>2, DivMod
<1>4. Requests!TextOf(x) = q * U
  BY DEF Requests!TextOf
<1> HIDE DEF q, r
<1>5. (2 * U) * q = 2 * (U * q)
  BY <1>3
<1> DEFINE n == U * q
<1>6. n \in Nat /\ 2 * x + U = 2 * n + r
  BY <1>3, <1>5
<1>7. CASE q >= k + 1
  <2>1. n >= U * (k + 1) /\ U * (k + 1) = m + U
    BY <1>1, <1>3, <1>7
  <2> HIDE DEF n
  <2> QED
    BY <1>3, <1>6, <2>1
<1>8. CASE k >= q + 1
  <2>1. m >= U * (q + 1) /\ U * (q + 1) = n + U
    BY <1>1, <1>3, <1>8
  <2> HIDE DEF n
  <2> QED
    BY <1>3, <1>6, <2>1
<1>9. CASE q = k
  BY <1>1, <1>4, <1>9
<1> QED
  BY <1>3, <1>7, <1>8, <1>9
-----------------------------------------------------------------------------
(* Doubles.                                                                *)

\* Rounding keeps the order, and what is rounded is a double.
LEMMA NearestIs ==
  ASSUME NEW x \in Nat
  PROVE  /\ Nearest(x) \in Nat /\ Nearest(Nearest(x)) = Nearest(x)
         /\ x <= MaxDouble <=> Nearest(x) <= MaxDouble
         /\ Nearest(0) = 0 /\ Nearest(MaxDouble) = MaxDouble
<1>1. MaxDouble \in Nat /\ 0 \in 0..MaxDouble /\ MaxDouble \in 0..MaxDouble
  BY MaxDoubleAssumption
<1>2. CASE x \in 0..MaxDouble
  <2>1. Rounding[x] \in 0..MaxDouble /\ Rounding[Rounding[x]] = Rounding[x]
    BY <1>2, RoundingAssumption
  <2> QED
    BY <1>1, <1>2, <2>1, RoundingAssumption DEF Nearest
<1>3. CASE x \notin 0..MaxDouble
  BY <1>1, <1>3, RoundingAssumption DEF Nearest
<1> QED
  BY <1>2, <1>3

LEMMA NearestMonotone ==
  ASSUME NEW x \in Nat, NEW y \in Nat, x <= y
  PROVE  Nearest(x) <= Nearest(y)
<1>1. MaxDouble \in Nat
  BY MaxDoubleAssumption
<1>2. CASE y > MaxDouble
  <2>1. Nearest(y) = y
    BY <1>1, <1>2 DEF Nearest
  <2>2. x <= MaxDouble => Nearest(x) <= MaxDouble
    BY NearestIs
  <2>3. x > MaxDouble => Nearest(x) = x
    BY <1>1 DEF Nearest
  <2>4. Nearest(x) \in Nat
    BY NearestIs
  <2> QED
    BY <1>1, <1>2, <2>1, <2>2, <2>3, <2>4
<1>3. CASE y <= MaxDouble
  <2> DEFINE n == y - x
             T == {k \in 0..n : Rounding[x] <= Rounding[x + k]}
  <2>1. n \in Nat /\ x \in 0..MaxDouble /\ y \in 0..MaxDouble /\ \A k \in 0..n : x + k \in 0..MaxDouble
    BY <1>1, <1>3
  <2>2. \A k \in 0..n : Rounding[x + k] \in 0..MaxDouble
    BY <2>1, RoundingAssumption
  <2>3. 0 \in T
    <3>1. x + 0 = x /\ 0 \in 0..n
      BY <2>1
    <3>2. Rounding[x] \in Nat
      BY <2>1, RoundingAssumption
    <3> QED
      BY <3>1, <3>2
  <2>4. ASSUME NEW k \in 0..(n - 1), k \in T PROVE k + 1 \in T
    <3>1. k + 1 \in 0..n /\ x + (k + 1) \in 1..MaxDouble /\ (x + (k + 1)) - 1 = x + k
      BY <1>1, <2>1
    <3>2. Rounding[x + k] <= Rounding[x + (k + 1)]
      BY <3>1, RoundingAssumption
    <3>3. Rounding[x] \in Nat /\ Rounding[x + k] \in Nat /\ Rounding[x + (k + 1)] \in Nat
      BY <2>1, <2>2, <3>1, RoundingAssumption
    <3>4. Rounding[x] <= Rounding[x + k]
      BY <2>4
    <3> QED
      BY <3>1, <3>2, <3>3, <3>4
  <2>5. n \in T
    <3> HIDE DEF T
    <3>1. 0..n \subseteq T
      BY <2>1, <2>3, <2>4, InductionTo
    <3> QED
      BY <2>1, <3>1
  <2>6. x + n = y
    BY <2>1
  <2>7. Rounding[x] <= Rounding[y]
    BY <2>5, <2>6
  <2> QED
    BY <2>1, <2>7 DEF Nearest
<1> QED
  BY <1>1, <1>2, <1>3

\* What fmod and the subtraction make of a double: the double nearest to the
\* multiple of the step below it, and none above it.
LEMMA RoundedIs ==
  ASSUME NEW d \in Nat, Nearest(d) = d, NEW step \in Nat
  PROVE  LET r == RoundToNearest(d, step, FALSE)
         IN  /\ r \in Nat /\ r <= d
             /\ step # 0 => r = Nearest(step * (d \div step)) /\ step * (d \div step) <= d
<1>1. CASE step = 0
  BY <1>1 DEF RoundToNearest
<1>2. CASE step # 0
  <2> DEFINE q == d \div step
             m == d % step
             b == step * q
             r == RoundToNearest(d, step, FALSE)
  <2>1. q \in Nat /\ m \in 0..(step - 1) /\ d = step * q + m
    BY <1>2, DivMod
  <2>2. m = 0 => r = d
    BY DEF RoundToNearest
  <2>3. m # 0 => r = Nearest(d - m)
    BY <1>2 DEF RoundToNearest
  <2> HIDE DEF q, m, r
  <2>4. b \in Nat /\ d = b + m
    BY <2>1
  <2> HIDE DEF b
  <2>5. r = Nearest(b) /\ b <= d
    <3>1. d - m = b /\ (m = 0 => d = b) /\ b <= d
      BY <2>1, <2>4
    <3> QED
      BY <2>2, <2>3, <3>1
  <2>6. Nearest(b) \in Nat /\ Nearest(b) <= Nearest(d)
    BY <2>4, <2>5, NearestIs, NearestMonotone
  <2> QED
    BY <2>5, <2>6 DEF b, q, r
<1> QED
  BY <1>1, <1>2

\* The quantity rounded down is the value, or a smaller one.
LEMMA RoundQtyIs ==
  ASSUME NEW f, NEW qty \in Nat, Nearest(qty) = qty, LotSize(f) \in Nat, MaxQty(f) \in Nat
  PROVE  LET r == RoundToNearest(qty, LotSize(f), FALSE)
         IN  /\ RoundQty(f, qty, FALSE) = Smaller(r, MaxQty(f))
             /\ RoundQty(f, qty, FALSE) \in Nat
             /\ RoundQty(f, qty, FALSE) <= r /\ r <= qty /\ RoundQty(f, qty, FALSE) <= MaxQty(f)
             /\ r \in Nat
<1> DEFINE r == RoundToNearest(qty, LotSize(f), FALSE)
           q == RoundQty(f, qty, FALSE)
<1>1. r \in Nat /\ r <= qty
  BY RoundedIs
<1>2. q = Smaller(Larger(r, 0), MaxQty(f))
  BY DEF RoundQty, Clamp
<1> HIDE DEF r, q
<1>3. q = Smaller(r, MaxQty(f))
  BY <1>1, <1>2 DEF Larger
<1>4. q \in Nat /\ q <= r /\ q <= MaxQty(f)
  BY <1>1, <1>3 DEF Smaller
<1> QED
  BY <1>1, <1>3, <1>4 DEF r, q
-----------------------------------------------------------------------------
\* The last entry of a type is one of the list, or there is none.
LEMMA EntryIs ==
  ASSUME NEW R, NEW list \in Seq(R), NEW type
  PROVE  \/ \E i \in DOMAIN list : list[i].type = type /\ LastEntry(list, type) = list[i]
         \/ /\ \A i \in DOMAIN list : list[i].type # type
            /\ LastEntry(list, type) = NoEntry
<1> DEFINE I == {i \in 1..Len(list) : list[i].type = type}
<1>1. Len(list) \in Nat /\ DOMAIN list = 1..Len(list) /\ I \in SUBSET (1..Len(list))
  OBVIOUS
<1>2. LastEntry(list, type) =
        LET i == IF I # {} THEN Max(I) ELSE 0 IN IF i = 0 THEN NoEntry ELSE list[i]
  BY DEF LastEntry, SelectLastInSeq
<1>3. CASE I = {}
  BY <1>1, <1>2, <1>3
<1>4. CASE I # {}
  <2>1. Max(I) \in I
    <3> HIDE DEF I
    <3> QED
      BY <1>1, <1>4, LargestPosition
  <2>2. Max(I) \in DOMAIN list /\ Max(I) # 0 /\ list[Max(I)].type = type
    BY <1>1, <2>1
  <2> QED
    BY <1>2, <1>4, <2>2
<1> QED
  BY <1>3, <1>4

-----------------------------------------------------------------------------
(* Doubles and decimals.                                                   *)

LEMMA PrecisionIs ==
  /\ Precision \in Nat /\ Precision >= 8 /\ Grain \in Nat \ {0}
  /\ MaxDouble \in Nat \ {0} /\ MaxAmount \in Nat /\ MaxAmount + 2 * Grain <= MaxDouble
  /\ MaxValue \in 0..MaxAmount /\ 8 * (MaxAmount + Grain) <= Precision * Grain
<1>1. /\ Precision \in Nat \ {0} /\ Grain \in Nat \ {0} /\ MaxAmount \in Nat
      /\ 8 * (MaxAmount + Grain) <= Precision * Grain
  BY PrecisionAssumption, ValuesAssumption
<1>2. Grain * 8 <= Grain * Precision
  BY <1>1
<1>3. Precision >= 8
  BY <1>1, <1>2, LessByCancel
<1> QED
  BY <1>1, <1>3, MaxDoubleAssumption, ValuesAssumption

\* The double of an amount is off by an eighth of the last decimal at most.
LEMMA Close ==
  ASSUME NEW x \in 0..(MaxAmount + Grain)
  PROVE  8 * (Nearest(x) - x) <= Grain /\ 8 * (x - Nearest(x)) <= Grain
<1>1. /\ Precision \in Nat \ {0} /\ Grain \in Nat \ {0} /\ MaxAmount \in Nat
      /\ 8 * (MaxAmount + Grain) <= Precision * Grain /\ x \in 0..MaxDouble /\ x \in Nat
  BY PrecisionIs
<1>2. Nearest(x) \in Nat
  BY <1>1, NearestIs
<1>3. Larger(x, Grain) <= MaxAmount + Grain
  BY <1>1 DEF Larger
<1>4. /\ Precision * (x - Nearest(x)) <= MaxAmount + Grain
      /\ Precision * (Nearest(x) - x) <= MaxAmount + Grain
  <2>1. /\ Precision * (x - Nearest(x)) <= Larger(x, Grain)
        /\ Precision * (Nearest(x) - x) <= Larger(x, Grain)
    BY <1>1, PrecisionAssumption
  <2>2. Larger(x, Grain) \in Int
    BY <1>1 DEF Larger
  <2>3. Precision * (x - Nearest(x)) \in Int /\ Precision * (Nearest(x) - x) \in Int
    BY <1>1, <1>2
  <2> QED
    BY <1>1, <1>3, <2>1, <2>2, <2>3
<1>5. ASSUME NEW e \in Int, Precision * e <= MaxAmount + Grain PROVE 8 * e <= Grain
  <2>1. Precision * (8 * e) = 8 * (Precision * e) /\ Precision * e \in Int
    BY <1>1
  <2>2. Precision * (8 * e) <= Precision * Grain
    BY <1>1, <1>5, <2>1
  <2> QED
    BY <1>1, <2>2, LessByCancel
<1>6. x - Nearest(x) \in Int /\ Nearest(x) - x \in Int
  BY <1>1, <1>2
<1> QED
  BY <1>4, <1>5, <1>6

\* The double of a result close to a decimal w is on the side of the double of
\* another decimal on which w is.
LEMMA Apart ==
  ASSUME NEW w \in 0..MaxAmount, Decimal(w), NEW b \in Nat, Decimal(b),
         NEW n \in Nat, 8 * (n - w) <= Grain, 8 * (w - n) <= Grain
  PROVE  (b > w => Nearest(b) > Nearest(n)) /\ (b < w => Nearest(b) < Nearest(n))
<1>1. /\ Grain \in Nat \ {0} /\ MaxAmount \in Nat /\ w \in Nat
      /\ n \in 0..(MaxAmount + Grain) /\ w + Grain \in 0..(MaxAmount + Grain)
  BY PrecisionIs
<1>2. Nearest(n) \in Nat /\ 8 * (Nearest(n) - n) <= Grain /\ 8 * (n - Nearest(n)) <= Grain
  BY <1>1, Close, NearestIs
<1>3. Nearest(b) \in Nat
  BY NearestIs
<1>4. ASSUME b > w PROVE Nearest(b) > Nearest(n)
  <2>1. w + Grain <= b
    BY <1>1, <1>4, MultiplesApart DEF Decimal
  <2>2. Nearest(w + Grain) <= Nearest(b)
    BY <1>1, <2>1, NearestMonotone
  <2>3. Nearest(w + Grain) \in Nat /\ 8 * ((w + Grain) - Nearest(w + Grain)) <= Grain
    BY <1>1, Close, NearestIs
  <2> QED
    BY <1>1, <1>2, <1>3, <2>2, <2>3
<1>5. ASSUME b < w PROVE Nearest(b) < Nearest(n)
  <2>1. b + Grain <= w
    BY <1>1, <1>5, MultiplesApart DEF Decimal
  <2>2. b \in 0..(MaxAmount + Grain)
    BY <1>1, <2>1
  <2>3. 8 * (Nearest(b) - b) <= Grain
    BY <2>2, Close
  <2> QED
    BY <1>1, <1>2, <1>3, <2>1, <2>3
<1> QED
  BY <1>4, <1>5

LEMMA DistancesAdd ==
  ASSUME NEW x \in Nat, NEW y \in Nat, NEW z \in Nat, NEW g \in Nat,
         8 * (x - y) <= g, 8 * (y - x) <= g, 8 * (y - z) <= g, 8 * (z - y) <= g
  PROVE  4 * (x - z) <= g /\ 4 * (z - x) <= g
OBVIOUS

\* A quantity that is rounded down on doubles, under a step s: the double returned is
\* that of a multiple of s, in decimals, and one that is not above the quantity.
LEMMA RoundedOnGrid ==
  ASSUME NEW v \in 0..MaxValue, Decimal(v), NEW s \in 1..MaxDouble, Decimal(s),
         NEW r, r = RoundToNearest(Nearest(v), Nearest(s), FALSE)
  PROVE  /\ r \in Nat /\ r <= Nearest(v) /\ Nearest(s) \in Nat \ {0}
         /\ \E m \in 0..v : m % s = 0 /\ Decimal(m) /\ 4 * (r - m) <= Grain /\ 4 * (m - r) <= Grain
<1> DEFINE P == Precision
           G == Grain
           d == Nearest(v)
           t == Nearest(s)
<1>1. /\ P \in Nat /\ P >= 8 /\ G \in Nat \ {0} /\ MaxDouble \in Nat /\ MaxAmount \in Nat
      /\ v \in 0..MaxAmount /\ v \in Nat /\ s \in Nat \ {0} /\ s \in 0..MaxDouble /\ v \in 0..MaxDouble
      /\ 8 * (MaxAmount + G) <= P * G
  BY PrecisionIs
<1>2. d \in Nat /\ t \in Nat /\ Nearest(d) = d
  BY <1>1, NearestIs
<1>3. G <= s
  <2>1. 0 % G = 0
    BY <1>1
  <2> QED
    BY <1>1, <2>1, MultiplesApart DEF Decimal
<1>4. P * (s - t) <= s /\ P * (t - s) <= s
  <2>1. Larger(s, Grain) = s
    BY <1>1, <1>3 DEF Larger
  <2> QED
    BY <1>1, <2>1, PrecisionAssumption
<1>5. 8 * (d - v) <= G /\ 8 * (v - d) <= G
  BY <1>1, Close
<1> HIDE DEF P, G, d, t
<1>6. t # 0
  <2>1. CASE t = 0
    <3>1. P * s <= s /\ 8 * s <= P * s
      BY <1>1, <1>4, <2>1
    <3> QED
      BY <1>1, <3>1
  <2> QED
    BY <2>1
<1> DEFINE k == d \div t
<1>7. k \in Nat /\ r \in Nat /\ r <= d /\ r = Nearest(t * k) /\ t * k <= d
  <2>1. r = RoundToNearest(d, t, FALSE)
    BY DEF d, t
  <2> QED
    BY <1>2, <1>6, <2>1, RoundedIs, DivMod
<1> HIDE DEF k
<1> DEFINE a == s * k
           b == t * k
<1>8. a \in Nat /\ b \in Nat /\ b <= d /\ r = Nearest(b)
  <2>1. s * k \in Nat /\ t * k \in Nat
    BY <1>1, <1>2, <1>7
  <2> QED
    BY <1>7, <2>1
<1>9. P * (a - b) <= a /\ P * (b - a) <= a
  <2>1. (P * (s - t)) * k <= s * k /\ (P * (t - s)) * k <= s * k
    <3>1. P * (s - t) \in Int /\ P * (t - s) \in Int
      BY <1>1, <1>2
    <3> QED
      BY <1>1, <1>4, <1>7, <3>1
  <2>2. (P * (s - t)) * k = P * (s * k - t * k) /\ (P * (t - s)) * k = P * (t * k - s * k)
    BY <1>1, <1>2, <1>7
  <2> QED
    BY <2>1, <2>2
<1>10. a % s = 0 /\ Decimal(a)
  <2>1. (s * k) % s = 0
    BY <1>1, <1>7, ModOfProduct
  <2>2. (k * s) % Grain = 0
    BY <1>1, <1>7, MultipleOfTimes DEF Decimal, G
  <2>3. k * s = s * k
    BY <1>1, <1>7
  <2> QED
    BY <2>1, <2>2, <2>3 DEF Decimal
<1> HIDE DEF a, b
<1>11. a <= v
  <2>1. CASE a > v
    <3>1. a >= v + G
      BY <1>1, <1>8, <1>10, <2>1, MultiplesApart DEF Decimal, G
    <3>2. 8 * (a - b) >= 7 * G
      BY <1>1, <1>2, <1>5, <1>8, <3>1
    \* Then a is far from b, and only a number larger than any amount is.
    <3>3. 8 * (P * (a - b)) = P * (8 * (a - b)) /\ P * (8 * (a - b)) >= P * (7 * G)
      BY <1>1, <1>8, <3>2
    <3>4. P * (7 * G) = 7 * (P * G) /\ P * G \in Nat
      BY <1>1
    <3>5. 8 * a >= 7 * (P * G)
      BY <1>1, <1>8, <1>9, <3>3, <3>4
    <3>6. 7 * (P * G) >= 56 * (MaxAmount + G)
      BY <1>1, <3>4
    <3>7. a >= 7 * (MaxAmount + G)
      BY <1>1, <1>8, <3>5, <3>6
    <3>8. 8 * b <= 8 * MaxAmount + G
      BY <1>1, <1>2, <1>5, <1>8
    <3>9. 2 * b >= a
      <4>1. 8 * (a - b) <= P * (a - b)
        BY <1>1, <1>8, <3>2
      <4> QED
        BY <1>1, <1>8, <1>9, <4>1
    <3> QED
      BY <1>1, <1>8, <3>7, <3>8, <3>9
  <2> QED
    BY <1>1, <1>8, <2>1
<1>12. 8 * (a - b) <= G /\ 8 * (b - a) <= G
  <2>1. ASSUME NEW e \in Int, P * e <= a PROVE 8 * e <= G
    <3>1. P * (8 * e) = 8 * (P * e) /\ P * e \in Int
      BY <1>1
    <3>2. P * (8 * e) <= P * G
      BY <1>1, <1>8, <1>11, <2>1, <3>1
    <3> QED
      BY <1>1, <3>2, LessByCancel
  <2>2. a - b \in Int /\ b - a \in Int
    BY <1>8
  <2> QED
    BY <1>9, <2>1, <2>2
<1>13. 8 * (r - b) <= G /\ 8 * (b - r) <= G
  <2>1. b \in 0..(MaxAmount + Grain)
    BY <1>1, <1>2, <1>5, <1>8 DEF G
  <2> QED
    BY <1>8, <2>1, Close DEF G
<1>14. 4 * (r - a) <= G /\ 4 * (a - r) <= G
  <2>1. r \in Nat
    BY <1>7
  <2>2. a \in Nat /\ b \in Nat
    BY <1>8
  <2>3. G \in Nat
    BY <1>1
  <2> QED
    BY <1>12, <1>13, <2>1, <2>2, <2>3, DistancesAdd
<1>15. a \in 0..v
  BY <1>1, <1>8, <1>11
<1> QED
  BY <1>2, <1>6, <1>7, <1>10, <1>14, <1>15 DEF G, d, t


\* What is rounded and clamped does not change when it is again, when every multiple
\* of the step is a double, the lower bound is one, and the upper one is too or is too
\* far to be reached.
StaysRounded(v, step, up, lo, hi) ==
  LET p == Clamp(RoundToNearest(v, step, up), lo, hi)
  IN  p = Clamp(RoundToNearest(p, step, FALSE), lo, hi)

LEMMA ExactMultiple ==
  ASSUME NEW step \in Nat \ {0}, Exact(step), NEW x \in 0..MaxDouble, x % step = 0
  PROVE  Nearest(x) = x
<1>1. MaxDouble \in Nat /\ x \in Nat
  BY MaxDoubleAssumption
<1>2. x \div step \in 0..(MaxDouble \div step)
  <2>1. x \div step \in Nat /\ MaxDouble \div step \in Nat
    BY <1>1, DivMod
  <2>2. x \div step <= MaxDouble \div step
    BY <1>1, DivMonotone
  <2> QED
    BY <2>1, <2>2
<1>3. (x \div step) * step = x
  BY <1>1, DivMod
<1> QED
  BY <1>2, <1>3 DEF Exact

LEMMA RoundedExactly ==
  ASSUME NEW v \in Nat, NEW step \in Nat \ {0}, Exact(step), NEW up \in BOOLEAN, v + step <= MaxDouble
  PROVE  LET r == RoundToNearest(v, step, up)
         IN  r \in Nat /\ r % step = 0 /\ r <= v + step
<1>1. CASE v % step = 0
  BY <1>1 DEF RoundToNearest
<1>2. CASE v % step # 0
  <2> DEFINE q == v \div step
             m == v % step
             b == step * q
  <2>1. q \in Nat /\ m \in 0..(step - 1) /\ v = step * q + m /\ MaxDouble \in Nat
    BY DivMod, MaxDoubleAssumption
  <2>2. RoundToNearest(v, step, up) =
          IF up THEN Nearest(Nearest(v - m) + step) ELSE Nearest(v - m)
    BY <1>2 DEF RoundToNearest
  <2> HIDE DEF q, m
  <2>3. step * (q + 1) = step * q + step /\ step * q \in Nat
    BY <2>1
  <2>4. b % step = 0 /\ (b + step) % step = 0
    <3>1. (step * q) % step = 0 /\ (step * (q + 1)) % step = 0
      BY <2>1, ModOfProduct
    <3> QED
      BY <2>3, <3>1
  <2> HIDE DEF b
  <2>5. v - m = b /\ b \in Nat /\ b <= v
    BY <2>1, <2>3 DEF b
  <2>6. b \in 0..MaxDouble /\ b + step \in 0..MaxDouble
    BY <2>1, <2>5
  <2>7. Nearest(b) = b /\ Nearest(b + step) = b + step
    BY <2>4, <2>6, ExactMultiple
  <2>8. RoundToNearest(v, step, up) = IF up THEN b + step ELSE b
    BY <2>2, <2>5, <2>7
  <2> QED
    BY <2>4, <2>5, <2>8
<1> QED
  BY <1>1, <1>2

LEMMA RoundedStays ==
  ASSUME NEW v \in Nat, NEW step \in Nat, NEW lo \in Nat, NEW hi \in Nat, NEW up \in BOOLEAN,
         Exact(step), lo <= hi, v + step <= MaxDouble,
         step # 0 => lo % step = 0 /\ (hi % step = 0 \/ v + step <= hi)
  PROVE  StaysRounded(v, step, up, lo, hi)
<1> DEFINE r == RoundToNearest(v, step, up)
           p == Clamp(r, lo, hi)
<1>1. r \in Nat /\ (step # 0 => r % step = 0 /\ r <= v + step)
  <2>1. CASE step = 0
    BY <2>1 DEF RoundToNearest
  <2>2. CASE step # 0
    <3> HIDE DEF r
    <3>1. step \in Nat \ {0}
      BY <2>2
    <3> QED
      BY <3>1, RoundedExactly DEF r
  <2> QED
    BY <2>1, <2>2
<1> HIDE DEF r
<1>2. p \in Nat /\ lo <= p /\ p <= hi /\ p \in {r, lo, hi} /\ (p = hi => r = hi \/ lo = hi \/ r > hi)
  BY <1>1 DEF Clamp, Larger, Smaller
<1> HIDE DEF p
<1>3. step = 0 \/ p % step = 0
  BY <1>1, <1>2
<1>4. RoundToNearest(p, step, FALSE) = p
  BY <1>3 DEF RoundToNearest
<1>5. Clamp(p, lo, hi) = p
  BY <1>2 DEF Clamp, Larger, Smaller
<1> QED
  BY <1>4, <1>5 DEF StaysRounded, p, r
-----------------------------------------------------------------------------
(* The walk.                                                               *)

Walked == filters \in FilterLists /\ value \in 0..MaxValue /\ Decimal(value)

LEMMA WalkStays == WalkSpec => []Walked
<1>1. Grain \in Nat \ {0} /\ MaxValue \in Nat
  BY PrecisionIs
<1>2. WalkInit => Walked
  BY <1>1 DEF WalkInit, Walked, Decimal
<1>3. Walked /\ [WalkNext]_<<filters, value>> => Walked'
  <2> SUFFICES ASSUME Walked, [WalkNext]_<<filters, value>> PROVE Walked'
    OBVIOUS
  <2>1. CASE WalkNext
    <3>1. value \in Nat /\ value' = value + Grain /\ value + Grain <= MaxValue
          /\ filters' \in FilterLists
      BY <1>1, <2>1 DEF WalkNext, Walked
    <3>2. (value + Grain) % Grain = 0
      BY <1>1, <3>1, MultipleOfSum DEF Walked, Decimal
    <3> QED
      BY <1>1, <3>1, <3>2 DEF Walked, Decimal
  <2>2. CASE UNCHANGED <<filters, value>>
    BY <2>2 DEF Walked
  <2> QED
    BY <2>1, <2>2
<1> QED
  BY <1>2, <1>3, PTL DEF WalkSpec

\* The numbers the exchange sent in the bounds of a price or a quantity.
GoodBounds(e) ==
  /\ e.min \in 0..MaxDouble /\ e.max \in 0..MaxDouble /\ e.step \in 0..MaxDouble
  /\ Decimal(e.min) /\ Decimal(e.max) /\ Decimal(e.step)
  /\ e.min <= Limit(e.max) /\ Nearest(MaxValue) + Nearest(e.step) <= MaxDouble
  /\ e.step # 0 => e.min % e.step = 0 /\ e.max % e.step = 0

LEMMA NoEntryIs ==
  /\ Decimal(0) /\ NoEntry.min = 0 /\ NoEntry.max = 0 /\ NoEntry.step = 0
  /\ GoodBounds(NoEntry)
<1>1. /\ Grain \in Nat \ {0} /\ MaxDouble \in Nat \ {0} /\ MaxValue \in Nat
      /\ MaxValue <= MaxDouble
  BY PrecisionIs
<1>2. Nearest(MaxValue) \in Nat /\ Nearest(MaxValue) <= MaxDouble /\ Nearest(0) = 0
  BY <1>1, NearestIs
<1>3. Decimal(0)
  BY <1>1 DEF Decimal
<1>4. NoEntry.min = 0 /\ NoEntry.max = 0 /\ NoEntry.step = 0
  BY DEF NoEntry
<1>5. Limit(0) = MaxDouble
  BY DEF Limit
<1> QED
  BY <1>1, <1>2, <1>3, <1>4, <1>5 DEF GoodBounds

LEMMA SentIs ==
  ASSUME Walked
  PROVE  /\ \A type \in Bounding : GoodBounds(Sent(type))
         /\ \A type \in {"NOTIONAL", "MIN_NOTIONAL"} :
              Sent(type).min \in Nat /\ Decimal(Sent(type).min)
         /\ \A type \in {"NOTIONAL", "MAX_POSITION"} :
              Sent(type).max \in Nat /\ Decimal(Sent(type).max)
<1>1. /\ filters \in Seq(ToSet(filters))
      /\ \A i \in DOMAIN filters : HasNumbers(filters[i]) /\ OnGrid(filters[i])
  BY ListsAssumption DEF Walked
<1>2. ASSUME NEW type \in Bounding PROVE GoodBounds(Sent(type))
  <2>1. CASE Sent(type) = NoEntry
    BY <2>1, NoEntryIs
  <2>2. ASSUME NEW i \in DOMAIN filters, filters[i].type = type, Sent(type) = filters[i]
        PROVE  GoodBounds(Sent(type))
    <3>1. GoodBounds(filters[i])
      BY <1>1, <1>2, <2>2 DEF GoodBounds, HasNumbers, OnGrid
    <3> QED
      BY <2>2, <3>1
  <2> QED
    BY <1>1, <2>1, <2>2, EntryIs DEF Sent
<1>3. ASSUME NEW type \in {"NOTIONAL", "MIN_NOTIONAL"}
      PROVE  Sent(type).min \in Nat /\ Decimal(Sent(type).min)
  <2>1. CASE Sent(type) = NoEntry
    BY <2>1, NoEntryIs
  <2>2. ASSUME NEW i \in DOMAIN filters, filters[i].type = type, Sent(type) = filters[i]
        PROVE  Sent(type).min \in Nat /\ Decimal(Sent(type).min)
    BY <1>1, <2>2 DEF HasNumbers, OnGrid
  <2> QED
    BY <1>1, <2>1, <2>2, EntryIs DEF Sent
<1>4. ASSUME NEW type \in {"NOTIONAL", "MAX_POSITION"}
      PROVE  Sent(type).max \in Nat /\ Decimal(Sent(type).max)
  <2>1. CASE Sent(type) = NoEntry
    BY <2>1, NoEntryIs
  <2>2. ASSUME NEW i \in DOMAIN filters, filters[i].type = type, Sent(type) = filters[i]
        PROVE  Sent(type).max \in Nat /\ Decimal(Sent(type).max)
    BY <1>1, <2>2 DEF HasNumbers, OnGrid
  <2> QED
    BY <1>1, <2>1, <2>2, EntryIs DEF Sent
<1> QED
  BY <1>2, <1>3, <1>4

\* A filter of the list is the one that is read.
LEMMA EntryRead ==
  ASSUME Walked, NEW i \in DOMAIN filters
  PROVE  \A type : filters[i].type = type => Sent(type) = filters[i]
<1>1. /\ filters \in Seq(ToSet(filters))
      /\ \A j \in DOMAIN filters : filters[j].type = filters[i].type => j = i
  BY ListsAssumption DEF Walked
<1> QED
  BY <1>1, EntryIs DEF Sent

\* The filter has the doubles of what was sent.
LEMMA FilterRead ==
  /\ filter.price = Bounds(Sent("PRICE_FILTER"))
  /\ filter.lot = Bounds(Sent("LOT_SIZE"))
  /\ filter.marketLot = Bounds(Sent("MARKET_LOT_SIZE"))
  /\ filter.notional.min = Nearest(Sent("NOTIONAL").min)
  /\ filter.notional.max = Nearest(Sent("NOTIONAL").max)
  /\ filter.minNotional = Nearest(Sent("MIN_NOTIONAL").min)
  /\ filter.maxPosition = Nearest(Sent("MAX_POSITION").max)
BY DEF filter, CreateSymbolFilter, Stod, Sent

\* A maximum that is not sent is none as a double either.
LEMMA LimitRead ==
  ASSUME NEW m \in 0..MaxDouble, Decimal(m)
  PROVE  /\ Limit(m) \in 1..MaxDouble /\ Limit(Nearest(m)) = Nearest(Limit(m))
         /\ Decimal(Limit(m)) \/ Limit(m) = MaxDouble
<1>1. MaxDouble \in Nat \ {0} /\ m \in Nat /\ Grain \in Nat \ {0}
  BY PrecisionIs
<1>2. Nearest(0) = 0 /\ Nearest(MaxDouble) = MaxDouble
  BY NearestIs
<1>3. CASE m = 0
  BY <1>1, <1>2, <1>3 DEF Limit
<1>4. CASE m # 0
  <2>1. Nearest(m) # 0
    <3>1. 0 \in 0..MaxAmount /\ Decimal(0)
      BY PrecisionIs, NoEntryIs
    <3>2. 8 * (0 - 0) <= Grain
      BY <1>1
    <3>3. Nearest(m) > Nearest(0)
      BY <1>1, <1>4, <3>1, <3>2, Apart
    <3> QED
      BY <1>1, <1>2, <3>3, NearestIs
  <2> QED
    BY <1>1, <1>4, <2>1 DEF Limit
<1> QED
  BY <1>3, <1>4

\* The lot and the maximum of the filter are the doubles of those of the exchange.
LEMMA LotRead ==
  ASSUME Walked
  PROVE  /\ SentLot \in 0..MaxDouble /\ Decimal(SentLot) /\ LotSize(filter) = Nearest(SentLot)
         /\ SentLot \in {Sent("LOT_SIZE").step, Sent("MARKET_LOT_SIZE").step}
         /\ SentMax \in 1..MaxDouble /\ MaxQty(filter) = Nearest(SentMax)
         /\ Decimal(SentMax) \/ SentMax = MaxDouble
         /\ SentMax \in {Limit(Sent("LOT_SIZE").max), Limit(Sent("MARKET_LOT_SIZE").max)}
         /\ \A type \in {"LOT_SIZE", "MARKET_LOT_SIZE"} :
              Sent(type).step <= SentLot /\ SentMax <= Limit(Sent(type).max)
<1> DEFINE a == Sent("MARKET_LOT_SIZE")
           b == Sent("LOT_SIZE")
<1>1. GoodBounds(a) /\ GoodBounds(b) /\ MaxDouble \in Nat
  BY SentIs, MaxDoubleAssumption DEF Bounding
<1>2. /\ filter.marketLot = Bounds(a) /\ filter.lot = Bounds(b)
      /\ SentLot = Larger(a.step, b.step) /\ SentMax = Smaller(Limit(a.max), Limit(b.max))
  BY FilterRead DEF SentLot, SentMax
<1> HIDE DEF a, b
<1>3. /\ a.step \in 0..MaxDouble /\ Decimal(a.step) /\ b.step \in 0..MaxDouble /\ Decimal(b.step)
      /\ a.max \in 0..MaxDouble /\ Decimal(a.max) /\ b.max \in 0..MaxDouble /\ Decimal(b.max)
  BY <1>1 DEF GoodBounds
<1>4. /\ LotSize(filter) = Larger(Nearest(a.step), Nearest(b.step))
      /\ MaxQty(filter) = Smaller(Limit(Nearest(a.max)), Limit(Nearest(b.max)))
  BY <1>2 DEF LotSize, MaxQty, Bounds, Stod
<1>5. ASSUME NEW x \in 0..MaxDouble, NEW y \in 0..MaxDouble
      PROVE  /\ Larger(Nearest(x), Nearest(y)) = Nearest(Larger(x, y))
             /\ Smaller(Nearest(x), Nearest(y)) = Nearest(Smaller(x, y))
  <2>1. x \in Nat /\ y \in Nat /\ Nearest(x) \in Nat /\ Nearest(y) \in Nat
    BY NearestIs
  <2>2. (x <= y => Nearest(x) <= Nearest(y)) /\ (y <= x => Nearest(y) <= Nearest(x))
    BY <2>1, NearestMonotone
  <2> QED
    BY <2>1, <2>2 DEF Larger, Smaller
<1>6. /\ Limit(a.max) \in 1..MaxDouble /\ Limit(Nearest(a.max)) = Nearest(Limit(a.max))
      /\ Limit(b.max) \in 1..MaxDouble /\ Limit(Nearest(b.max)) = Nearest(Limit(b.max))
      /\ Decimal(Limit(a.max)) \/ Limit(a.max) = MaxDouble
      /\ Decimal(Limit(b.max)) \/ Limit(b.max) = MaxDouble
  BY <1>3, LimitRead
<1>7. LotSize(filter) = Nearest(SentLot)
  BY <1>2, <1>3, <1>4, <1>5
<1>8. MaxQty(filter) = Nearest(SentMax)
  <2>1. Limit(a.max) \in 0..MaxDouble /\ Limit(b.max) \in 0..MaxDouble
    BY <1>6
  <2> QED
    BY <1>2, <1>4, <1>5, <1>6, <2>1
<1>9. /\ SentLot \in {a.step, b.step} /\ a.step <= SentLot /\ b.step <= SentLot
  BY <1>2, <1>3 DEF Larger
<1>10. /\ SentMax \in {Limit(a.max), Limit(b.max)}
       /\ SentMax <= Limit(a.max) /\ SentMax <= Limit(b.max)
  BY <1>2, <1>6 DEF Smaller
<1>11. SentLot \in 0..MaxDouble /\ Decimal(SentLot)
  BY <1>3, <1>9
<1>12. SentMax \in 1..MaxDouble /\ (Decimal(SentMax) \/ SentMax = MaxDouble)
  BY <1>6, <1>10
<1> QED
  BY <1>7, <1>8, <1>9, <1>10, <1>11, <1>12 DEF a, b

\* What is owned.
LEMMA OwnedIs ==
  ASSUME Walked
  PROVE  /\ value \in Nat /\ value \in 0..MaxAmount /\ value < MaxDouble
         /\ owned \in Nat /\ Nearest(owned) = owned /\ owned <= Nearest(MaxValue)
         /\ 8 * (owned - value) <= Grain /\ 8 * (value - owned) <= Grain
<1>1. /\ value \in Nat /\ value \in 0..MaxAmount /\ value <= MaxValue /\ MaxValue \in Nat
      /\ value \in 0..(MaxAmount + Grain) /\ value < MaxDouble
  BY PrecisionIs DEF Walked
<1>2. owned \in Nat /\ Nearest(owned) = owned
  BY <1>1, NearestIs DEF owned
<1>3. owned <= Nearest(MaxValue)
  BY <1>1, NearestMonotone DEF owned
<1>4. 8 * (owned - value) <= Grain /\ 8 * (value - owned) <= Grain
  BY <1>1, Close DEF owned
<1> QED
  BY <1>1, <1>2, <1>3, <1>4

\* The decimal on the grid of the lot that the rounded quantity stands for.
LEMMA RoundedQtyIs ==
  ASSUME Walked
  PROVE  LET r == RoundToNearest(owned, LotSize(filter), FALSE)
             qty == RoundQty(filter, owned, FALSE)
         IN  /\ r \in Nat /\ qty \in Nat /\ r <= owned /\ qty = Smaller(r, MaxQty(filter))
             /\ qty <= r /\ qty <= MaxQty(filter)
             /\ SentLot # 0 =>
                  \E m \in 0..value : /\ m % SentLot = 0 /\ Decimal(m)
                                      /\ 4 * (r - m) <= Grain /\ 4 * (m - r) <= Grain
<1> DEFINE r == RoundToNearest(owned, LotSize(filter), FALSE)
<1>1. /\ SentLot \in 0..MaxDouble /\ Decimal(SentLot) /\ LotSize(filter) = Nearest(SentLot)
      /\ SentMax \in 1..MaxDouble /\ MaxQty(filter) = Nearest(SentMax) /\ MaxDouble \in Nat
  BY LotRead, MaxDoubleAssumption
<1>2. LotSize(filter) \in Nat /\ MaxQty(filter) \in Nat /\ owned \in Nat /\ Nearest(owned) = owned
  BY <1>1, OwnedIs, NearestIs
<1>3. /\ RoundQty(filter, owned, FALSE) = Smaller(r, MaxQty(filter))
      /\ RoundQty(filter, owned, FALSE) \in Nat /\ RoundQty(filter, owned, FALSE) <= r
      /\ r \in Nat /\ r <= owned /\ RoundQty(filter, owned, FALSE) <= MaxQty(filter)
  BY <1>2, RoundQtyIs
<1>4. ASSUME SentLot # 0
      PROVE  \E m \in 0..value : /\ m % SentLot = 0 /\ Decimal(m)
                                 /\ 4 * (r - m) <= Grain /\ 4 * (m - r) <= Grain
  <2>1. value \in 0..MaxValue /\ Decimal(value) /\ SentLot \in 1..MaxDouble
    BY <1>1, <1>4 DEF Walked
  <2>2. r = RoundToNearest(Nearest(value), Nearest(SentLot), FALSE)
    BY <1>1 DEF owned
  <2> HIDE DEF r
  <2> QED
    BY <1>1, <2>1, <2>2, RoundedOnGrid
<1> QED
  BY <1>3, <1>4


\* SymbolFilter::roundQty never asks for more than there is, whatever the filters:
\* not in the number, and not in the text a request has of it.
THEOREM SentQtyHolds == WalkSpec => []SentQtyWithinMeans
<1>1. ASSUME Walked PROVE SentQtyWithinMeans
  <2> DEFINE qty == RoundQty(filter, owned, FALSE)
             max == MaxQty(filter)
             r == RoundToNearest(owned, LotSize(filter), FALSE)
  <2>1. /\ r \in Nat /\ qty \in Nat /\ r <= owned /\ qty <= r /\ qty <= max
        /\ SentLot # 0 =>
             \E m \in 0..value : /\ m % SentLot = 0 /\ Decimal(m)
                                 /\ 4 * (r - m) <= Grain /\ 4 * (m - r) <= Grain
    BY <1>1, RoundedQtyIs
  <2>2. /\ SentLot \in Nat /\ SentMax \in 1..MaxDouble /\ MaxDouble \in Nat /\ max = Nearest(SentMax)
    BY <1>1, LotRead, MaxDoubleAssumption
  <2>3. value \in Nat /\ value \in 0..MaxAmount /\ owned \in Nat /\ max \in Nat
    BY <1>1, <2>2, OwnedIs, NearestIs
  <2>4. TextUnit \in Nat \ {0} /\ Grain \in Nat \ {0} /\ Grain <= TextUnit
    <3>1. TextUnit \in Nat \ {0} /\ TextUnit % Grain = 0 /\ Grain \in Nat \ {0} /\ 0 % Grain = 0
      BY ValuesAssumption, PrecisionIs DEF Decimal
    <3> QED
      BY <3>1, MultiplesApart
  <2> HIDE DEF qty, max, r
  <2>5. ASSUME SentLot # 0, SentLot % TextUnit = 0
        PROVE  /\ Requests!TextOf(qty) <= value
               /\ SentMax % TextUnit = 0 => Requests!TextOf(qty) <= SentMax
    <3>1. PICK m \in 0..value : /\ m % SentLot = 0
                                /\ 4 * (r - m) <= Grain /\ 4 * (m - r) <= Grain
      BY <2>1, <2>5
    <3>2. m \in Nat /\ m % TextUnit = 0
      <4>1. m \in Nat /\ SentLot \in Nat \ {0} /\ TextUnit \in Nat \ {0}
        BY <2>2, <2>3, <2>4, <2>5
      <4>2. m % TextUnit = 0
        BY <2>5, <3>1, <4>1, MultipleOfMultiple
      <4> QED
        BY <4>1, <4>2
    <3>3. Requests!TextOf(r) = m
      <4>1. 4 * (r - m) <= TextUnit /\ 4 * (m - r) <= TextUnit
        BY <2>1, <2>4, <3>1, <3>2
      <4> QED
        BY <2>1, <2>4, <3>2, <4>1, TextNear
    <3>4. Requests!TextOf(qty) \in Nat /\ Requests!TextOf(qty) <= value
      <4>1. Requests!TextOf(qty) \in Nat /\ Requests!TextOf(qty) <= Requests!TextOf(r)
        BY <2>1, <2>4, TextMonotone
      <4> QED
        BY <2>3, <3>1, <3>3, <4>1
    <3>5. ASSUME SentMax % TextUnit = 0 PROVE Requests!TextOf(qty) <= SentMax
      <4>1. CASE SentMax >= value
        BY <2>2, <2>3, <3>4, <4>1
      <4>2. CASE SentMax < value
        <5>1. SentMax \in Nat /\ SentMax \in 0..(MaxAmount + Grain)
          BY <2>2, <2>3, <2>4, <4>2, PrecisionIs
        <5>2. 8 * (max - SentMax) <= Grain /\ 8 * (SentMax - max) <= Grain
          BY <2>2, <5>1, Close
        <5>3. 4 * (max - SentMax) <= TextUnit /\ 4 * (SentMax - max) <= TextUnit
          BY <2>3, <2>4, <5>1, <5>2
        <5>4. Requests!TextOf(max) = SentMax
          BY <2>3, <2>4, <3>5, <5>1, <5>3, TextNear
        <5>5. Requests!TextOf(qty) <= Requests!TextOf(max)
          BY <2>1, <2>3, <2>4, TextMonotone
        <5> QED
          BY <5>4, <5>5
      <4> QED
        BY <2>2, <2>3, <4>1, <4>2
    <3> QED
      BY <3>4, <3>5
  <2>6. qty <= owned
    BY <2>1, <2>3
  <2> QED
    BY <2>1, <2>5, <2>6 DEF SentQtyWithinMeans, qty, max
<1> QED
  BY <1>1, WalkStays, PTL

\* The multiples of a step that are doubles stay as they are when they are read.
LEMMA ExactRead ==
  ASSUME NEW step \in 1..MaxDouble, Exact(step), NEW x \in 0..MaxDouble, x % step = 0
  PROVE  Nearest(x) = x /\ Nearest(step) = step
<1>1. step \in Nat \ {0} /\ step \in 0..MaxDouble /\ MaxDouble \in Nat
  BY MaxDoubleAssumption
<1>2. (step * 1) % step = 0 /\ step * 1 = step
  BY <1>1, ModOfProduct
<1> QED
  BY <1>1, <1>2, ExactMultiple

\* What SymbolFilter rounds it validates, when the multiples of the step are doubles.
THEOREM RoundedValidatesHolds == WalkSpec => []RoundedValidates
<1>1. ASSUME Walked, NEW up \in BOOLEAN, Exact(Sent("PRICE_FILTER").step)
      PROVE  ValidatePrice(filter, RoundPrice(filter, owned, up))
  <2> DEFINE e == Sent("PRICE_FILTER")
             lo == filter.price.min
             hi == Limit(filter.price.max)
  <2>1. GoodBounds(e) /\ MaxDouble \in Nat \ {0}
    BY <1>1, SentIs, MaxDoubleAssumption DEF Bounding
  <2>2. /\ filter.price.step = Nearest(e.step) /\ lo = Nearest(e.min)
        /\ filter.price.max = Nearest(e.max)
    BY FilterRead DEF Bounds, Stod
  <2>3. owned \in Nat /\ owned <= Nearest(MaxValue) /\ Exact(e.step)
    BY <1>1, OwnedIs
  <2> HIDE DEF e
  <2>4. /\ e.min \in 0..MaxDouble /\ e.max \in 0..MaxDouble /\ e.step \in 0..MaxDouble
        /\ Decimal(e.max) /\ e.min <= Limit(e.max)
        /\ Nearest(MaxValue) + Nearest(e.step) <= MaxDouble
        /\ e.step # 0 => e.min % e.step = 0 /\ e.max % e.step = 0
    BY <2>1 DEF GoodBounds
  <2>5. Limit(e.max) \in 1..MaxDouble /\ hi = Nearest(Limit(e.max))
    BY <2>2, <2>4, LimitRead
  <2>6. lo \in Nat /\ hi \in Nat /\ lo <= hi
    <3>1. e.min \in Nat /\ Limit(e.max) \in Nat
      BY <2>1, <2>4, <2>5
    <3> HIDE DEF lo, hi
    <3> QED
      BY <2>2, <2>4, <2>5, <3>1, NearestIs, NearestMonotone
  <2>7. Nearest(MaxValue) \in Nat
    BY NearestIs, PrecisionIs
  <2>8. StaysRounded(owned, filter.price.step, up, lo, hi)
    <3>1. CASE e.step = 0
      <4>1. filter.price.step = 0
        BY <2>2, <3>1, NearestIs
      <4>2. owned + 0 <= MaxDouble
        <5>1. Nearest(MaxValue) + 0 <= MaxDouble
          BY <2>4, <3>1, NearestIs
        <5> QED
          BY <2>1, <2>3, <2>7, <5>1
      <4>3. Exact(0)
        BY DEF Exact
      <4> HIDE DEF lo, hi
      <4>4. StaysRounded(owned, 0, up, lo, hi)
        BY <2>3, <2>6, <4>2, <4>3, RoundedStays
      <4> QED
        BY <4>1, <4>4
    <3>2. CASE e.step # 0
      <4>1. e.step \in 1..MaxDouble /\ e.step \in Nat
        BY <2>1, <2>4, <3>2
      <4>2. Nearest(e.step) = e.step /\ lo = e.min /\ filter.price.max = e.max
        BY <2>2, <2>3, <2>4, <3>2, <4>1, ExactRead
      <4>3. owned + e.step <= MaxDouble
        BY <2>1, <2>3, <2>4, <2>7, <4>1, <4>2
      <4>4. hi % e.step = 0 \/ owned + e.step <= hi
        BY <2>4, <3>2, <4>2, <4>3 DEF Limit
      <4>5. lo % e.step = 0
        BY <2>4, <3>2, <4>2
      <4> HIDE DEF lo, hi
      <4>6. StaysRounded(owned, e.step, up, lo, hi)
        BY <2>3, <2>6, <4>1, <4>3, <4>4, <4>5, RoundedStays
      <4> QED
        BY <2>2, <4>2, <4>6
    <3> QED
      BY <3>1, <3>2
  <2> QED
    BY <2>8 DEF StaysRounded, ValidatePrice, RoundPrice
<1>2. ASSUME Walked, NEW up \in BOOLEAN, Exact(SentLot),
             SentLot # 0 =>
               \A type \in {"LOT_SIZE", "MARKET_LOT_SIZE"} : Sent(type).max % SentLot = 0
      PROVE  ValidateQuantity(filter, RoundQty(filter, owned, up))
  <2> DEFINE hi == MaxQty(filter)
  <2>1. /\ SentLot \in 0..MaxDouble /\ LotSize(filter) = Nearest(SentLot)
        /\ SentLot \in {Sent("LOT_SIZE").step, Sent("MARKET_LOT_SIZE").step}
        /\ SentMax \in 1..MaxDouble /\ hi = Nearest(SentMax) /\ MaxDouble \in Nat \ {0}
        /\ SentMax \in {Limit(Sent("LOT_SIZE").max), Limit(Sent("MARKET_LOT_SIZE").max)}
    BY <1>2, LotRead, MaxDoubleAssumption
  <2>2. owned \in Nat /\ owned <= Nearest(MaxValue) /\ Nearest(MaxValue) \in Nat
    BY <1>2, OwnedIs, NearestIs, PrecisionIs
  <2>3. GoodBounds(Sent("LOT_SIZE")) /\ GoodBounds(Sent("MARKET_LOT_SIZE"))
    BY <1>2, SentIs DEF Bounding
  <2>4. Nearest(MaxValue) + Nearest(SentLot) <= MaxDouble
    BY <2>1, <2>3 DEF GoodBounds
  <2>5. hi \in Nat /\ 0 <= hi
    BY <2>1, NearestIs
  <2>6. StaysRounded(owned, LotSize(filter), up, 0, hi)
    <3>1. CASE SentLot = 0
      <4>1. LotSize(filter) = 0
        BY <2>1, <3>1, NearestIs
      <4>2. owned + 0 <= MaxDouble
        <5>1. Nearest(MaxValue) + 0 <= MaxDouble
          BY <2>4, <3>1, NearestIs
        <5> QED
          BY <2>1, <2>2, <5>1
      <4>3. Exact(0)
        BY DEF Exact
      <4> HIDE DEF hi
      <4>4. StaysRounded(owned, 0, up, 0, hi)
        BY <2>2, <2>5, <4>2, <4>3, RoundedStays
      <4> QED
        BY <4>1, <4>4
    <3>2. CASE SentLot # 0
      <4>1. SentLot \in 1..MaxDouble /\ SentLot \in Nat \ {0}
        BY <2>1, <3>2
      <4>2. 0 % SentLot = 0
        BY <4>1
      <4>3. Nearest(SentLot) = SentLot
        BY <1>2, <2>1, <4>1, <4>2, ExactRead
      <4>4. owned + SentLot <= MaxDouble
        BY <2>1, <2>2, <2>4, <4>1, <4>3
      <4>5. hi % SentLot = 0 \/ hi = MaxDouble
        <5>1. SentMax % SentLot = 0 \/ SentMax = MaxDouble
          BY <1>2, <2>1, <3>2 DEF Limit
        <5>2. CASE SentMax % SentLot = 0
          <6>1. SentMax \in 0..MaxDouble
            BY <2>1
          <6>2. Nearest(SentMax) = SentMax
            BY <1>2, <4>1, <5>2, <6>1, ExactRead
          <6> QED
            BY <2>1, <5>2, <6>2
        <5>3. CASE SentMax = MaxDouble
          BY <2>1, <5>3, NearestIs
        <5> QED
          BY <5>1, <5>2, <5>3
      <4> HIDE DEF hi
      <4>6. hi % SentLot = 0 \/ owned + SentLot <= hi
        BY <4>4, <4>5
      <4>7. StaysRounded(owned, SentLot, up, 0, hi)
        BY <1>2, <2>2, <2>5, <4>1, <4>2, <4>4, <4>6, RoundedStays
      <4> QED
        BY <2>1, <4>3, <4>7
    <3> QED
      BY <3>1, <3>2
  <2> QED
    BY <2>6 DEF StaysRounded, ValidateQuantity, RoundQty
<1>3. ASSUME Walked PROVE RoundedValidates
  <2>1. ASSUME NEW up \in BOOLEAN
        PROVE  /\ Exact(Sent("PRICE_FILTER").step) =>
                    ValidatePrice(filter, RoundPrice(filter, owned, up))
               /\ /\ Exact(SentLot)
                  /\ SentLot # 0 =>
                       \A type \in {"LOT_SIZE", "MARKET_LOT_SIZE"} : Sent(type).max % SentLot = 0
                  => ValidateQuantity(filter, RoundQty(filter, owned, up))
    BY <1>1, <1>2, <1>3
  <2> QED
    BY <2>1 DEF RoundedValidates
<1> QED
  BY <1>3, WalkStays, PTL


\* What a quantity must be to be validated.
LEMMA ValidatedIs ==
  ASSUME Walked
  PROVE  ValidateQuantity(filter, owned) <=>
           /\ owned <= MaxQty(filter)
           /\ RoundToNearest(owned, LotSize(filter), FALSE) = owned
<1> DEFINE q == RoundQty(filter, owned, FALSE)
           r == RoundToNearest(owned, LotSize(filter), FALSE)
           max == MaxQty(filter)
<1>1. r \in Nat /\ q \in Nat /\ r <= owned /\ q = Smaller(r, max) /\ q <= r /\ q <= max
  BY RoundedQtyIs
<1>2. owned \in Nat /\ max \in Nat
  <2>1. SentMax \in Nat /\ max = Nearest(SentMax)
    BY LotRead, MaxDoubleAssumption
  <2> QED
    BY <2>1, OwnedIs, NearestIs
<1>3. ValidateQuantity(filter, owned) <=> owned = q
  BY DEF ValidateQuantity
<1> HIDE DEF q, r, max
<1>4. owned = q <=> owned <= max /\ r = owned
  BY <1>1, <1>2 DEF Smaller
<1> QED
  BY <1>3, <1>4 DEF r, max

\* A quantity that is validated is on the grid of the exchange's lot and not above
\* its maximum, in decimals.
LEMMA ValidatedOnGrid ==
  ASSUME Walked, ValidateQuantity(filter, owned)
  PROVE  value <= SentMax /\ (SentLot # 0 => value % SentLot = 0)
<1>1. /\ value \in Nat /\ value \in 0..MaxAmount /\ value < MaxDouble /\ owned \in Nat
      /\ 8 * (owned - value) <= Grain /\ 8 * (value - owned) <= Grain
      /\ Decimal(value) /\ Grain \in Nat \ {0} /\ MaxDouble \in Nat
  BY OwnedIs, PrecisionIs DEF Walked
<1>2. owned <= MaxQty(filter) /\ RoundToNearest(owned, LotSize(filter), FALSE) = owned
  BY ValidatedIs
<1>3. /\ SentMax \in 1..MaxDouble /\ MaxQty(filter) = Nearest(SentMax)
      /\ Decimal(SentMax) \/ SentMax = MaxDouble
  BY LotRead
<1>4. value <= SentMax
  <2>1. CASE SentMax = MaxDouble
    BY <1>1, <2>1
  <2>2. CASE Decimal(SentMax) /\ SentMax < value
    <3>1. SentMax \in Nat /\ 8 * (value - value) <= Grain
      BY <1>1, <1>3
    <3>2. Nearest(SentMax) < Nearest(value)
      BY <1>1, <2>2, <3>1, Apart
    <3>3. Nearest(SentMax) \in Nat /\ Nearest(value) = owned
      BY <3>1, NearestIs DEF owned
    <3> QED
      BY <1>1, <1>2, <1>3, <3>2, <3>3
  <2> QED
    BY <1>1, <1>3, <2>1, <2>2
<1>5. ASSUME SentLot # 0 PROVE value % SentLot = 0
  <2>1. PICK m \in 0..value : /\ m % SentLot = 0 /\ Decimal(m)
                              /\ 4 * (owned - m) <= Grain /\ 4 * (m - owned) <= Grain
    BY <1>2, <1>5, RoundedQtyIs
  <2>2. CASE m < value
    <3>1. m \in Nat /\ m % Grain = 0 /\ value % Grain = 0
      BY <1>1, <2>1 DEF Decimal
    <3>2. m + Grain <= value
      BY <1>1, <2>2, <3>1, MultiplesApart
    <3> QED
      BY <1>1, <2>1, <3>1, <3>2
  <2>3. CASE m = value
    BY <2>1, <2>3
  <2> QED
    BY <1>1, <2>2, <2>3
<1> QED
  BY <1>4, <1>5

\* The value of what is owned, and that of the decimal quantity.
LEMMA NotionalIs ==
  ASSUME Walked, NEW price \in Prices
  PROVE  /\ price * owned \in Nat /\ price * value \in 0..MaxAmount /\ Decimal(price * value)
         /\ 8 * (price * owned - price * value) <= Grain
         /\ 8 * (price * value - price * owned) <= Grain
<1>1. /\ price \in Nat /\ price * MaxValue <= MaxAmount /\ MaxAmount \in Nat /\ MaxDouble \in Nat
      /\ Precision \in Nat \ {0} /\ Grain \in Nat \ {0} /\ 8 * (MaxAmount + Grain) <= Precision * Grain
      /\ value \in Nat /\ value <= MaxValue /\ MaxValue \in Nat /\ owned \in Nat /\ Decimal(value)
      /\ value \in 0..MaxDouble
  BY ValuesAssumption, PrecisionIs, OwnedIs DEF Walked
<1> DEFINE w == price * value
           n == price * owned
<1>2. w \in Nat /\ w <= price * MaxValue /\ n \in Nat /\ price * MaxValue \in Nat
  BY <1>1
<1>3. w \in 0..MaxAmount /\ Decimal(w)
  <2>1. w % Grain = 0
    BY <1>1, MultipleOfTimes DEF Decimal
  <2> HIDE DEF w
  <2> QED
    BY <1>1, <1>2, <2>1 DEF Decimal
<1>4. CASE value = 0
  <2>1. owned = 0
    BY <1>1, <1>4, NearestIs DEF owned
  <2>2. w = 0 /\ n = 0
    BY <1>1, <1>4, <2>1
  <2> QED
    BY <1>1, <1>3, <2>2
<1>5. CASE value # 0
  <2>1. 0 % Grain = 0
    BY <1>1
  <2>2. Grain <= value
    BY <1>1, <1>5, <2>1, MultiplesApart DEF Decimal
  <2>3. Larger(value, Grain) = value
    BY <1>1, <2>2 DEF Larger
  <2>4. Precision * (value - owned) <= value /\ Precision * (owned - value) <= value
    BY <1>1, <2>3, PrecisionAssumption DEF owned
  <2>5. ASSUME NEW e \in Int, Precision * e <= value PROVE 8 * (price * e) <= Grain
    <3>1. price * (Precision * e) <= w
      BY <1>1, <2>5
    <3>2. price * (Precision * e) = Precision * (price * e) /\ price * e \in Int
      BY <1>1
    <3> DEFINE x == price * e
    <3> HIDE DEF x, w
    <3>3. Precision * x <= MaxAmount /\ x \in Int
      BY <1>1, <1>3, <3>1, <3>2 DEF x
    <3>4. Precision * (8 * x) = 8 * (Precision * x) /\ Precision * x \in Int
      BY <1>1, <3>3
    <3>5. Precision * (8 * x) <= Precision * Grain
      BY <1>1, <3>3, <3>4
    <3>6. 8 * x <= Grain
      BY <1>1, <3>3, <3>5, LessByCancel
    <3> QED
      BY <3>6 DEF x
  <2>6. price * (owned - value) = n - w /\ price * (value - owned) = w - n
    BY <1>1
  <2>7. owned - value \in Int /\ value - owned \in Int
    BY <1>1
  <2> HIDE DEF n, w
  <2>8. 8 * (n - w) <= Grain /\ 8 * (w - n) <= Grain
    BY <2>4, <2>5, <2>6, <2>7
  <2> QED
    BY <1>2, <1>3, <2>8 DEF n, w
<1> QED
  BY <1>4, <1>5

\* The validators of SymbolFilter accept nothing the exchange refuses, but in the
\* two cases the property names.
THEOREM ValidationSoundHolds == WalkSpec => []ValidationSound
<1>1. ASSUME Walked, NEW price \in Prices, NEW position \in Positions,
             Validates(price, position), NEW i \in DOMAIN filters
      PROVE  \/ ExchangeTakes(filters[i], price, value, position)
             \/ /\ filters[i].type \in {"LOT_SIZE", "MARKET_LOT_SIZE"}
                /\ \/ value < filters[i].min
                   \/ filters[i].step # 0 /\ SentLot % filters[i].step # 0
  <2> DEFINE e == filters[i]
             notional == price * value
             computed == price * owned
  <2>1. /\ ValidateQuantity(filter, owned) /\ ValidateNotional(filter, price, owned)
        /\ ValidateMaxPosition(filter, Nearest(position)) /\ Sent(e.type) = e
    <3>1. Sent(e.type) = e
      <4>1. LastEntry(filters, e.type) = e
        BY <1>1, EntryRead DEF Sent
      <4> QED
        BY <4>1 DEF Sent
    <3> QED
      BY <1>1, <3>1 DEF Validates
  <2>2. /\ computed \in Nat /\ notional \in 0..MaxAmount /\ Decimal(notional)
        /\ 8 * (computed - notional) <= Grain /\ 8 * (notional - computed) <= Grain
    BY <1>1, NotionalIs
  <2>3. Grain \in Nat \ {0} /\ MaxAmount \in Nat /\ MaxDouble \in Nat
    BY PrecisionIs
  <2> HIDE DEF e, notional, computed
  <2>4. CASE e.type \in {"LOT_SIZE", "MARKET_LOT_SIZE"}
    <3>1. GoodBounds(e)
      BY <1>1, <2>1, <2>4, SentIs DEF Bounding
    <3>2. /\ e.min \in Nat /\ e.step \in Nat /\ e.max \in 0..MaxDouble /\ Decimal(e.max)
          /\ Limit(e.max) \in 1..MaxDouble
      BY <2>3, <3>1, LimitRead DEF GoodBounds
    <3>3. /\ value \in Nat /\ value <= SentMax /\ (SentLot # 0 => value % SentLot = 0)
          /\ SentLot \in Nat /\ e.step <= SentLot /\ SentMax \in Nat /\ SentMax <= Limit(e.max)
      BY <1>1, <2>1, <2>3, <2>4, ValidatedOnGrid, LotRead, OwnedIs
    <3>4. value <= Limit(e.max)
      BY <2>3, <3>2, <3>3
    <3>5. e.step # 0 /\ SentLot % e.step = 0 => value % e.step = 0
      <4> SUFFICES ASSUME e.step # 0, SentLot % e.step = 0 PROVE value % e.step = 0
        OBVIOUS
      <4>1. SentLot \in Nat \ {0} /\ e.step \in Nat \ {0}
        BY <3>2, <3>3
      <4> QED
        BY <3>3, <4>1, MultipleOfMultiple
    <3>6. \/ ExchangeTakes(e, price, value, position)
          \/ value < e.min
          \/ e.step # 0 /\ SentLot % e.step # 0
      BY <2>4, <3>2, <3>3, <3>4, <3>5 DEF ExchangeTakes
    <3> QED
      BY <2>4, <3>6 DEF e
  <2>5. CASE e.type = "NOTIONAL"
    <3>1. /\ e.min \in Nat /\ e.max \in Nat /\ Decimal(e.min) /\ Decimal(e.max)
      BY <1>1, <2>1, <2>5, SentIs
    <3>2. filter.notional.min = Nearest(e.min) /\ filter.notional.max = Nearest(e.max)
      BY <2>1, <2>5, FilterRead
    <3>3. Nearest(e.min) <= Nearest(computed) /\ Nearest(computed) <= Nearest(e.max)
      BY <2>1, <3>2 DEF ValidateNotional, computed
    <3>4. Nearest(computed) \in Nat /\ Nearest(e.min) \in Nat /\ Nearest(e.max) \in Nat
      BY <2>2, <3>1, NearestIs
    <3>5. /\ e.min > notional => Nearest(e.min) > Nearest(computed)
          /\ e.max < notional => Nearest(e.max) < Nearest(computed)
      BY <2>2, <3>1, Apart
    <3>6. e.min <= notional /\ notional <= e.max
      BY <2>2, <2>3, <3>1, <3>3, <3>4, <3>5
    <3> QED
      BY <2>5, <3>6 DEF ExchangeTakes, e, notional
  <2>6. CASE e.type = "MIN_NOTIONAL"
    <3>1. e.min \in Nat /\ Decimal(e.min)
      BY <1>1, <2>1, <2>6, SentIs
    <3>2. filter.minNotional = Nearest(e.min)
      BY <2>1, <2>6, FilterRead
    <3>3. Nearest(e.min) <= Nearest(computed)
      BY <2>1, <3>2 DEF ValidateNotional, computed
    <3>4. Nearest(computed) \in Nat /\ Nearest(e.min) \in Nat
      BY <2>2, <3>1, NearestIs
    <3>5. e.min > notional => Nearest(e.min) > Nearest(computed)
      BY <2>2, <3>1, Apart
    <3>6. e.min <= notional
      BY <2>2, <2>3, <3>1, <3>3, <3>4, <3>5
    <3> QED
      BY <2>6, <3>6 DEF ExchangeTakes, e, notional
  <2>7. CASE e.type = "MAX_POSITION"
    <3>1. e.max \in Nat /\ Decimal(e.max)
      BY <1>1, <2>1, <2>7, SentIs
    <3>2. filter.maxPosition = Nearest(e.max)
      BY <2>1, <2>7, FilterRead
    <3>3. Nearest(position) <= Nearest(e.max)
      BY <2>1, <3>2 DEF ValidateMaxPosition
    <3>4. position \in 0..MaxAmount /\ Decimal(position) /\ position \in Nat
      BY <2>3, ValuesAssumption
    <3>5. Nearest(position) \in Nat /\ Nearest(e.max) \in Nat
      BY <3>1, <3>4, NearestIs
    <3>6. 8 * (position - position) <= Grain
      BY <2>3, <3>4
    <3>7. e.max < position => Nearest(e.max) < Nearest(position)
      BY <3>1, <3>4, <3>6, Apart
    <3>8. position <= e.max
      BY <3>1, <3>3, <3>4, <3>5, <3>7
    <3> QED
      BY <2>7, <3>8 DEF ExchangeTakes, e
  <2>8. CASE e.type \notin {"LOT_SIZE", "MARKET_LOT_SIZE", "NOTIONAL", "MIN_NOTIONAL",
                            "MAX_POSITION"}
    BY <2>8 DEF ExchangeTakes, e
  <2> QED
    BY <2>4, <2>5, <2>6, <2>7, <2>8
<1>2. ASSUME Walked PROVE ValidationSound
  BY <1>1, <1>2 DEF ValidationSound
<1> QED
  BY <1>2, WalkStays, PTL


\* They accept what the exchange takes, but in the cases the property names.
THEOREM ValidationCompleteHolds == WalkSpec => []ValidationComplete
<1>1. ASSUME Walked, NEW price \in Prices, NEW position \in Positions,
             \A i \in DOMAIN filters : ExchangeTakes(filters[i], price, value, position)
      PROVE  /\ \/ ValidateQuantity(filter, owned)
                \/ ~Exact(SentLot) /\ owned % LotSize(filter) # 0
             /\ \/ ValidateNotional(filter, price, owned)
                \/ ~Has("NOTIONAL")
                \/ \E i \in DOMAIN filters :
                     \/ /\ filters[i].type \in {"NOTIONAL", "MIN_NOTIONAL"}
                        /\ \/ ~filters[i].applyMin /\ price * value < filters[i].min
                           \/ AstrayAt(price, filters[i].min)
                     \/ /\ filters[i].type = "NOTIONAL"
                        /\ \/ ~filters[i].applyMax /\ price * value > filters[i].max
                           \/ AstrayAt(price, filters[i].max)
             /\ Has("MAX_POSITION") => ValidateMaxPosition(filter, Nearest(position))
  <2>1. filters \in Seq(ToSet(filters))
    BY <1>1, ListsAssumption DEF Walked
  <2>2. /\ value \in Nat /\ value \in 0..MaxDouble /\ owned \in Nat /\ MaxDouble \in Nat
        /\ value <= MaxDouble
    BY <1>1, OwnedIs, MaxDoubleAssumption
  <2>3. ASSUME NEW type \in {"LOT_SIZE", "MARKET_LOT_SIZE"}
        PROVE  value <= Limit(Sent(type).max) /\ (Sent(type).step # 0 => value % Sent(type).step = 0)
    <3>1. CASE Sent(type) = NoEntry
      BY <2>2, <3>1, NoEntryIs DEF Limit
    <3>2. ASSUME NEW i \in DOMAIN filters, filters[i].type = type, Sent(type) = filters[i]
          PROVE  value <= Limit(Sent(type).max) /\ (Sent(type).step # 0 => value % Sent(type).step = 0)
      <4>1. ExchangeTakes(filters[i], price, value, position)
        BY <1>1
      <4>2. value <= Limit(filters[i].max) /\ (filters[i].step # 0 => value % filters[i].step = 0)
        BY <2>3, <3>2, <4>1 DEF ExchangeTakes
      <4> QED
        BY <3>2, <4>2
    <3> QED
      BY <2>1, <3>1, <3>2, EntryIs DEF Sent
  <2>4. \/ ValidateQuantity(filter, owned)
        \/ ~Exact(SentLot) /\ owned % LotSize(filter) # 0
    <3>1. /\ SentLot \in 0..MaxDouble /\ LotSize(filter) = Nearest(SentLot)
          /\ SentLot \in {Sent("LOT_SIZE").step, Sent("MARKET_LOT_SIZE").step}
          /\ SentMax \in 1..MaxDouble /\ MaxQty(filter) = Nearest(SentMax)
          /\ SentMax \in {Limit(Sent("LOT_SIZE").max), Limit(Sent("MARKET_LOT_SIZE").max)}
      BY <1>1, LotRead
    <3>2. value <= SentMax /\ (SentLot # 0 => value % SentLot = 0)
      BY <2>3, <3>1
    <3>3. owned <= MaxQty(filter)
      <4>1. SentMax \in Nat
        BY <2>2, <3>1
      <4> QED
        BY <2>2, <3>1, <3>2, <4>1, NearestMonotone DEF owned
    <3>4. ASSUME SentLot # 0, Exact(SentLot) PROVE owned % LotSize(filter) = 0
      <4>1. SentLot \in 1..MaxDouble
        BY <2>2, <3>1, <3>4
      <4>2. Nearest(value) = value /\ Nearest(SentLot) = SentLot
        BY <2>2, <3>2, <3>4, <4>1, ExactRead
      <4> QED
        BY <3>1, <3>2, <3>4, <4>2 DEF owned
    <3>5. SentLot = 0 => LotSize(filter) = 0
      BY <2>2, <3>1, NearestIs
    <3>6. LotSize(filter) = 0 \/ owned % LotSize(filter) = 0
            => RoundToNearest(owned, LotSize(filter), FALSE) = owned
      BY DEF RoundToNearest
    <3>7. Exact(0)
      BY DEF Exact
    <3> QED
      BY <1>1, <3>3, <3>4, <3>5, <3>6, <3>7, ValidatedIs
  <2>5. ASSUME Has("NOTIONAL"),
               \A i \in DOMAIN filters :
                 /\ filters[i].type \in {"NOTIONAL", "MIN_NOTIONAL"} =>
                      /\ filters[i].applyMin \/ ~(price * value < filters[i].min)
                      /\ ~AstrayAt(price, filters[i].min)
                 /\ filters[i].type = "NOTIONAL" =>
                      /\ filters[i].applyMax \/ ~(price * value > filters[i].max)
                      /\ ~AstrayAt(price, filters[i].max)
        PROVE  ValidateNotional(filter, price, owned)
    <3> DEFINE notional == price * value
               computed == price * owned
    <3>1. /\ computed \in Nat /\ notional \in 0..MaxAmount /\ Decimal(notional)
          /\ 8 * (computed - notional) <= Grain /\ 8 * (notional - computed) <= Grain
      BY <1>1, NotionalIs
    <3>2. notional \in Nat /\ Nearest(computed) \in Nat
      <4> HIDE DEF notional, computed
      <4> QED
        BY <3>1, NearestIs, PrecisionIs
    <3>3. ASSUME NEW b \in Nat, Decimal(b), b <= notional, ~AstrayAt(price, b)
          PROVE  Nearest(b) <= Nearest(computed)
      <4>1. notional = b => Nearest(computed) = Nearest(b)
        BY <3>3 DEF AstrayAt
      <4> HIDE DEF notional, computed
      <4>2. b < notional => Nearest(b) < Nearest(computed)
        BY <3>1, <3>3, Apart
      <4>3. Nearest(b) \in Nat
        BY NearestIs
      <4> QED
        BY <3>2, <3>3, <4>1, <4>2, <4>3
    <3>4. ASSUME NEW b \in Nat, Decimal(b), notional <= b, ~AstrayAt(price, b)
          PROVE  Nearest(computed) <= Nearest(b)
      <4>1. notional = b => Nearest(computed) = Nearest(b)
        BY <3>4 DEF AstrayAt
      <4> HIDE DEF notional, computed
      <4>2. b > notional => Nearest(b) > Nearest(computed)
        BY <3>1, <3>4, Apart
      <4>3. Nearest(b) \in Nat
        BY NearestIs
      <4> QED
        BY <3>2, <3>4, <4>1, <4>2, <4>3
    <3>5. filter.notional.min <= Nearest(computed) /\ Nearest(computed) <= filter.notional.max
      <4>1. PICK i \in DOMAIN filters : filters[i].type = "NOTIONAL"
        BY <2>5 DEF Has
      <4> DEFINE e == filters[i]
      <4>2. Sent("NOTIONAL") = e
        BY <1>1, <4>1, EntryRead
      <4>3. /\ e.min \in Nat /\ Decimal(e.min) /\ e.max \in Nat /\ Decimal(e.max)
            /\ filter.notional.min = Nearest(e.min) /\ filter.notional.max = Nearest(e.max)
        BY <1>1, <4>2, SentIs, FilterRead
      <4>4. /\ e.applyMin => e.min <= notional
            /\ e.applyMax => notional <= e.max
        BY <1>1, <4>1 DEF ExchangeTakes
      <4>5. /\ e.applyMin \/ ~(notional < e.min)
            /\ e.applyMax \/ ~(notional > e.max)
            /\ ~AstrayAt(price, e.min) /\ ~AstrayAt(price, e.max)
        BY <2>5, <4>1
      <4>6. e.min <= notional /\ notional <= e.max
        <5> HIDE DEF notional, e
        <5> QED
          BY <3>2, <4>3, <4>4, <4>5
      <4> HIDE DEF notional, computed, e
      <4> QED
        BY <3>3, <3>4, <4>3, <4>5, <4>6
    <3>6. filter.minNotional <= Nearest(computed)
      <4>1. filter.minNotional = Nearest(Sent("MIN_NOTIONAL").min)
        BY FilterRead
      <4>2. CASE Sent("MIN_NOTIONAL") = NoEntry
        <5>1. filter.minNotional = 0
          BY <4>1, <4>2, NoEntryIs, NearestIs
        <5> HIDE DEF computed
        <5> QED
          BY <3>2, <5>1
      <4>3. ASSUME NEW i \in DOMAIN filters, filters[i].type = "MIN_NOTIONAL",
                   Sent("MIN_NOTIONAL") = filters[i]
            PROVE  filter.minNotional <= Nearest(computed)
        <5> DEFINE e == filters[i]
        <5>1. e.min \in Nat /\ Decimal(e.min) /\ filter.minNotional = Nearest(e.min)
          BY <1>1, <4>1, <4>3, SentIs
        <5>2. e.applyMin => e.min <= notional
          BY <1>1, <4>3 DEF ExchangeTakes
        <5>3. (e.applyMin \/ ~(notional < e.min)) /\ ~AstrayAt(price, e.min)
          BY <2>5, <4>3
        <5>4. e.min <= notional
          <6> HIDE DEF notional, e
          <6> QED
            BY <3>2, <5>1, <5>2, <5>3
        <5> HIDE DEF notional, computed, e
        <5> QED
          BY <3>3, <5>1, <5>3, <5>4
      <4> QED
        BY <2>1, <4>2, <4>3, EntryIs DEF Sent
    <3> QED
      BY <3>5, <3>6 DEF ValidateNotional
  <2>6. ASSUME Has("MAX_POSITION") PROVE ValidateMaxPosition(filter, Nearest(position))
    <3>1. PICK i \in DOMAIN filters : filters[i].type = "MAX_POSITION"
      BY <2>6 DEF Has
    <3>2. Sent("MAX_POSITION") = filters[i]
      BY <1>1, <3>1, EntryRead
    <3>3. position <= filters[i].max
      BY <1>1, <3>1 DEF ExchangeTakes
    <3>4. filter.maxPosition = Nearest(filters[i].max) /\ filters[i].max \in Nat
      BY <1>1, <3>2, SentIs, FilterRead
    <3>5. position \in Nat
      BY ValuesAssumption
    <3>6. Nearest(position) <= Nearest(filters[i].max)
      BY <3>3, <3>4, <3>5, NearestMonotone
    <3> QED
      BY <3>4, <3>6 DEF ValidateMaxPosition
  <2> QED
    BY <2>4, <2>5, <2>6
<1>2. ASSUME Walked PROVE ValidationComplete
  BY <1>1, <1>2 DEF ValidationComplete
<1> QED
  BY <1>2, WalkStays, PTL

=============================================================================
