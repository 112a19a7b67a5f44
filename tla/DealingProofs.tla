----------------------------- MODULE DealingProofs -----------------------------
(***************************************************************************)
(* Proofs about the operators of Circuit, Sharing, Dealing and             *)
(* AssistedDealing, for any field, circuit, number of parties and PRG:     *)
(* the folds they are made of, the levels of a circuit, the generators of  *)
(* the comparison circuits, sharings, and the dealer's pass, whose result  *)
(* is sound (DealerDealt).                                                 *)
(***************************************************************************)
EXTENDS AssistedDealing, FiniteSetTheorems, SequenceTheorems, WellFoundedInduction, TLAPS

-----------------------------------------------------------------------------
(* Induction over the natural numbers, as a fact about sets.               *)

\* A set of natural numbers that is not empty has a least element.
LEMMA LeastOf ==
  ASSUME NEW T, T \subseteq Nat, T # {}
  PROVE  \E m \in T : \A k \in T : m <= k
<1> DEFINE R == {p \in Nat \X Nat : p[1] < p[2]}
<1>1. OpToRel(<, Nat) = R
  BY Zenon DEF OpToRel
<1>2. IsWellFoundedOn(OpToRel(<, Nat), Nat)
  BY NatLessThanWellFounded, Zenon
<1>3. IsWellFoundedOn(R, Nat)
  BY <1>1, <1>2, Zenon
<1>4. \A i, j \in Nat : i < j => <<i, j>> \in R
  OBVIOUS
<1> HIDE DEF R
<1>5. PICK m \in T : \A k \in T : <<k, m>> \notin R
  BY <1>3, WFMin
<1>6. \A k \in T : ~(k < m)
  BY <1>4, <1>5
<1> QED
  BY <1>6

\* A set that holds 0, and with a number the next, holds all of them.
LEMMA SetInduction ==
  ASSUME NEW T, 0 \in T, \A n \in Nat : n \in T => n + 1 \in T
  PROVE  Nat \subseteq T
<1> SUFFICES ASSUME NEW n \in Nat, n \notin T PROVE FALSE
  OBVIOUS
<1> DEFINE B == {i \in Nat : i \notin T}
<1>1. B \subseteq Nat /\ B # {}
  OBVIOUS
<1>2. PICK m \in B : \A k \in B : m <= k
  <2> HIDE DEF B
  <2> QED BY <1>1, LeastOf
<1>3. m \in Nat /\ m # 0
  OBVIOUS
<1>4. m - 1 \in Nat /\ m - 1 \notin B
  BY <1>2, <1>3
<1>5. (m - 1) + 1 \in T /\ (m - 1) + 1 = m
  BY <1>3, <1>4
<1> QED
  BY <1>5

-----------------------------------------------------------------------------
(* Sequences one after the other: f lists what there is after each of s.   *)

Runs(f, s, n) == f = [d \in 1 .. n |-> IF d = 1 THEN s[d] ELSE f[d - 1] \o s[d]]

\* The partial concatenations of a sequence of sequences exist.
LEMMA RunsExist ==
  ASSUME NEW s, NEW n \in Nat
  PROVE  \E f : Runs(f, s, n)
<1> DEFINE T == {i \in Nat : \E f : Runs(f, s, i)}
<1>1. 0 \in T
  <2>1. Runs([d \in 1 .. 0 |-> <<>>], s, 0)
    BY DEF Runs
  <2> QED BY <2>1
<1>2. ASSUME NEW i \in Nat, i \in T PROVE i + 1 \in T
  <2>1. PICK f : Runs(f, s, i)
    BY <1>2
  <2> DEFINE g == [d \in 1 .. (i + 1) |-> IF d = i + 1 THEN (IF i = 0 THEN s[d] ELSE f[i] \o s[d]) ELSE f[d]]
  <2>2. ASSUME NEW d \in 1 .. (i + 1)
        PROVE  g[d] = IF d = 1 THEN s[d] ELSE g[d - 1] \o s[d]
    <3>1. CASE d = i + 1
      <4>1. d # 1 => d - 1 = i /\ d - 1 \in 1 .. (i + 1) /\ d - 1 # i + 1 /\ i # 0
        BY <3>1
      <4>2. d = 1 => i = 0
        BY <3>1
      <4> QED BY <3>1, <4>1, <4>2
    <3>2. CASE d # i + 1
      <4>1. d \in 1 .. i /\ (d # 1 => d - 1 \in 1 .. (i + 1) /\ d - 1 # i + 1)
        BY <3>2
      <4>2. f[d] = IF d = 1 THEN s[d] ELSE f[d - 1] \o s[d]
        BY <2>1, <4>1 DEF Runs
      <4> QED BY <3>2, <4>1, <4>2
    <3> QED BY <3>1, <3>2
  <2>3. g = [d \in 1 .. (i + 1) |-> g[d]]
    OBVIOUS
  <2>4. Runs(g, s, i + 1)
    <3> HIDE DEF g
    <3> QED BY <2>2, <2>3, Zenon DEF Runs
  <2> QED BY <2>4
<1>3. Nat \subseteq T
  <2> HIDE DEF T
  <2> QED BY <1>1, <1>2, SetInduction
<1> QED
  BY <1>3

\* FlattenSeq, unfolded: f[k] is what the first k sequences of s come to.
Flat(f, s, X) ==
  /\ f[0] = <<>> /\ f[Len(s)] = FlattenSeq(s)
  /\ \A k \in 0 .. Len(s) : f[k] \in Seq(X)
  /\ \A k \in 1 .. Len(s) : f[k] = f[k - 1] \o s[k]

\* FlattenSeq adds up the sequences one after the other.
LEMMA FlattenIs ==
  ASSUME NEW X, NEW s \in Seq(Seq(X))
  PROVE  \E f : Flat(f, s, X)
<1> DEFINE n == Len(s)
           r == CHOOSE f : Runs(f, s, n)
<1>0. n \in Nat
  BY LenProperties
<1>1. Runs(r, s, n)
  <2>1. \E f : Runs(f, s, n)
    BY <1>0, RunsExist
  <2> QED BY <2>1
<1>2. FlattenSeq(s) = IF n = 0 THEN s ELSE r[n]
  BY DEF FlattenSeq, Runs
<1>3. \A d \in 1 .. n : s[d] \in Seq(X)
  BY ElementOfSeq
<1>4. n = 0 => s = <<>>
  BY EmptySeq DEF n
<1> HIDE DEF r
<1>5. \A d \in 1 .. n : r[d] = IF d = 1 THEN s[d] ELSE r[d - 1] \o s[d]
  <2> HIDE DEF n
  <2> QED BY <1>1, Zenon DEF Runs
<1> DEFINE f == [k \in 0 .. n |-> IF k = 0 THEN <<>> ELSE r[k]]
<1>6. f[0] = <<>> /\ \A k \in 1 .. n : f[k] = r[k]
  <2> HIDE DEF n
  <2> QED BY <1>0
<1> HIDE DEF n, f
<1>7. \A k \in 1 .. n : f[k] = f[k - 1] \o s[k]
  <2> TAKE k \in 1 .. n
  <2>1. CASE k = 1
    <3>1. f[1] = s[1] /\ s[1] \in Seq(X) /\ f[1 - 1] = <<>>
      BY <1>3, <1>5, <1>6, <2>1
    <3> QED BY <2>1, <3>1, ConcatEmptySeq
  <2>2. CASE k # 1
    <3>1. k - 1 \in 1 .. n
      BY <1>0, <2>2
    <3>2. f[k - 1] = r[k - 1] /\ f[k] = r[k] /\ r[k] = r[k - 1] \o s[k]
      BY <1>5, <1>6, <2>2, <3>1
    <3> QED BY <3>2
  <2> QED BY <2>1, <2>2
<1> DEFINE T == {k \in Nat : k <= n => f[k] \in Seq(X)}
<1>8. 0 \in T
  BY <1>6, EmptySeq
<1>9. ASSUME NEW k \in Nat, k \in T PROVE k + 1 \in T
  <2> SUFFICES ASSUME k + 1 <= n PROVE f[k + 1] \in Seq(X)
    OBVIOUS
  <2>1. k + 1 \in 1 .. n /\ (k + 1) - 1 = k /\ f[k] \in Seq(X)
    BY <1>0, <1>9
  <2>2. f[k + 1] = f[k] \o s[k + 1] /\ s[k + 1] \in Seq(X)
    BY <1>3, <1>7, <2>1
  <2> QED BY <2>1, <2>2, ConcatProperties
<1>10. Nat \subseteq T
  <2> HIDE DEF T
  <2> QED BY <1>8, <1>9, SetInduction
<1>11. \A k \in 0 .. n : f[k] \in Seq(X)
  BY <1>0, <1>10
<1>12. f[n] = FlattenSeq(s)
  <2>1. n \in 1 .. n \/ n = 0
    BY <1>0
  <2> QED BY <1>2, <1>4, <1>6, <2>1
<1> QED
  BY <1>6, <1>7, <1>11, <1>12 DEF n, Flat

-----------------------------------------------------------------------------
(* The levels of a circuit of N gates, lev giving the level of each.       *)

Before(lev, v, w)    == lev[v] < lev[w] \/ (lev[v] = lev[w] /\ v < w)
AllBefore(lev, a, b) == \A v \in ToSet(a), w \in ToSet(b) : Before(lev, v, w)
InOrder(lev, q)      == \A i, j \in 1 .. Len(q) : i < j => Before(lev, q[i], q[j])

\* Two sequences in order, all of one before all of the other, are in order one behind the other.
LEMMA ConcatInOrder ==
  ASSUME NEW N \in Nat, NEW lev \in [1 .. N -> Nat],
         NEW a \in Seq(1 .. N), NEW b \in Seq(1 .. N), InOrder(lev, a), InOrder(lev, b),
         AllBefore(lev, a, b)
  PROVE  InOrder(lev, a \o b) /\ a \o b \in Seq(1 .. N) /\ ToSet(a \o b) = ToSet(a) \cup ToSet(b)
<1>0. PICK m \in Nat, n \in Nat : m = Len(a) /\ n = Len(b)
  BY LenProperties
<1> DEFINE c == a \o b
<1>1. c \in Seq(1 .. N) /\ Len(c) = m + n
  BY <1>0, ConcatProperties
<1>2. \A i \in 1 .. m + n : c[i] = IF i <= m THEN a[i] ELSE b[i - m]
  BY <1>0, ConcatProperties
<1>3. DOMAIN a = 1 .. m /\ DOMAIN b = 1 .. n /\ DOMAIN c = 1 .. m + n
  BY <1>0, <1>1, LenProperties
<1>4. /\ \A i, j \in 1 .. m : i < j => Before(lev, a[i], a[j])
      /\ \A i, j \in 1 .. n : i < j => Before(lev, b[i], b[j])
  BY <1>0 DEF InOrder
<1> HIDE DEF c
<1>5. \A i \in 1 .. m, j \in 1 .. n : Before(lev, a[i], b[j])
  <2> TAKE i \in 1 .. m, j \in 1 .. n
  <2>1. a[i] \in ToSet(a) /\ b[j] \in ToSet(b)
    BY <1>3 DEF ToSet
  <2> QED BY <2>1 DEF AllBefore
<1>6. InOrder(lev, c)
  <2> SUFFICES ASSUME NEW i \in 1 .. m + n, NEW j \in 1 .. m + n, i < j
               PROVE  Before(lev, c[i], c[j])
    BY <1>1 DEF InOrder
  <2>1. CASE j <= m
    <3>1. i \in 1 .. m /\ j \in 1 .. m
      BY <2>1
    <3> QED BY <1>2, <1>4, <2>1, <3>1
  <2>2. CASE i <= m /\ j > m
    <3>1. i \in 1 .. m /\ j - m \in 1 .. n
      BY <2>2
    <3>2. c[i] = a[i] /\ c[j] = b[j - m]
      BY <1>2, <2>2
    <3> QED BY <1>5, <3>1, <3>2
  <2>3. CASE i > m
    <3>1. i - m \in 1 .. n /\ j - m \in 1 .. n /\ i - m < j - m
      BY <2>3
    <3>2. c[i] = b[i - m] /\ c[j] = b[j - m]
      BY <1>2, <2>3
    <3> QED BY <1>4, <3>1, <3>2
  <2> QED BY <2>1, <2>2, <2>3
<1>7. ToSet(c) = {c[i] : i \in 1 .. m + n} /\ ToSet(a) = {a[i] : i \in 1 .. m} /\ ToSet(b) = {b[i] : i \in 1 .. n}
  BY <1>3 DEF ToSet
<1>8. ASSUME NEW i \in 1 .. m + n PROVE c[i] \in ToSet(a) \cup ToSet(b)
  <2>1. CASE i <= m
    <3>1. i \in 1 .. m /\ c[i] = a[i]
      BY <1>2, <2>1
    <3> QED BY <1>7, <3>1
  <2>2. CASE i > m
    <3>1. i - m \in 1 .. n /\ c[i] = b[i - m]
      BY <1>2, <2>2
    <3> QED BY <1>7, <3>1
  <2> QED BY <2>1, <2>2
<1>9. ASSUME NEW i \in 1 .. m PROVE a[i] \in ToSet(c)
  <2>1. i \in 1 .. m + n /\ c[i] = a[i]
    BY <1>2
  <2> QED BY <1>7, <2>1
<1>10. ASSUME NEW i \in 1 .. n PROVE b[i] \in ToSet(c)
  <2>1. m + i \in 1 .. m + n /\ ~(m + i <= m) /\ (m + i) - m = i
    OBVIOUS
  <2>2. c[m + i] = b[i]
    BY <1>2, <2>1
  <2> QED BY <1>7, <2>1, <2>2
<1>11. ToSet(c) = ToSet(a) \cup ToSet(b)
  BY <1>7, <1>8, <1>9, <1>10
<1> QED
  BY <1>1, <1>6, <1>11 DEF c

\* One level: the wires of level d, in the circuit's order.
Level(N, lev, d) == FlattenSeq([w \in 1 .. N |-> IF lev[w] = d THEN <<w>> ELSE <<>>])

\* A level holds the wires of its number, in order.
LEMMA LevelInOrder ==
  ASSUME NEW N \in Nat, NEW lev \in [1 .. N -> Nat], NEW d \in Nat
  PROVE  /\ Level(N, lev, d) \in Seq(1 .. N) /\ InOrder(lev, Level(N, lev, d))
         /\ ToSet(Level(N, lev, d)) = {w \in 1 .. N : lev[w] = d}
<1> DEFINE s == [w \in 1 .. N |-> IF lev[w] = d THEN <<w>> ELSE <<>>]
           L0(k) == {w \in 1 .. k : lev[w] = d}
<1>1. s \in Seq(Seq(1 .. N)) /\ Len(s) = N
  <2>1. ASSUME NEW w \in 1 .. N PROVE s[w] \in Seq(1 .. N)
    <3>1. <<w>> \in Seq(1 .. N) /\ <<>> \in Seq(1 .. N)
      OBVIOUS
    <3> QED BY <3>1
  <2>2. s \in [1 .. N -> Seq(1 .. N)]
    BY <2>1
  <2> HIDE DEF s
  <2> QED BY <2>2
<1>2. \A w \in 1 .. N : s[w] = IF lev[w] = d THEN <<w>> ELSE <<>>
  OBVIOUS
<1>3. Level(N, lev, d) = FlattenSeq(s)
  BY DEF Level
<1> HIDE DEF s
<1>4. PICK f : Flat(f, s, 1 .. N)
  BY <1>1, FlattenIs
<1> DEFINE T == {k \in Nat : k <= N => /\ f[k] \in Seq(1 .. N) /\ InOrder(lev, f[k])
                                       /\ ToSet(f[k]) = L0(k)}
<1>5. 0 \in T
  <2>1. f[0] = <<>>
    BY <1>4 DEF Flat
  <2>2. f[0] \in Seq(1 .. N) /\ Len(f[0]) = 0 /\ ToSet(f[0]) = {}
    BY <2>1 DEF ToSet
  <2>3. InOrder(lev, f[0])
    BY <2>2 DEF InOrder
  <2> QED BY <2>2, <2>3
<1>6. ASSUME NEW k \in Nat, k \in T PROVE k + 1 \in T
  <2> SUFFICES ASSUME k + 1 <= N
               PROVE  /\ f[k + 1] \in Seq(1 .. N) /\ InOrder(lev, f[k + 1])
                      /\ ToSet(f[k + 1]) = L0(k + 1)
    OBVIOUS
  <2>1. k + 1 \in 1 .. N /\ (k + 1) - 1 = k
    OBVIOUS
  <2>2. f[k + 1] = f[k] \o s[k + 1]
    BY <1>1, <1>4, <2>1 DEF Flat
  <2>3. f[k] \in Seq(1 .. N) /\ InOrder(lev, f[k]) /\ ToSet(f[k]) = L0(k)
    BY <1>6
  <2>4. CASE lev[k + 1] = d
    <3>1. s[k + 1] = <<k + 1>>
      BY <1>2, <2>1, <2>4
    <3> DEFINE b == <<k + 1>>
    <3>2. b \in Seq(1 .. N) /\ Len(b) = 1 /\ ToSet(b) = {k + 1}
      BY <2>1 DEF ToSet
    <3>3. InOrder(lev, b)
      BY <3>2 DEF InOrder
    <3>4. AllBefore(lev, f[k], b)
      BY <2>1, <2>3, <2>4, <3>2 DEF Before, AllBefore
    <3>5. L0(k) \cup {k + 1} = L0(k + 1)
      BY <2>1, <2>4
    <3> DEFINE a == f[k]
    <3>6. InOrder(lev, a \o b) /\ a \o b \in Seq(1 .. N) /\ ToSet(a \o b) = ToSet(a) \cup ToSet(b)
      <4>1. a \in Seq(1 .. N) /\ InOrder(lev, a)
        BY <2>3
      <4>2. AllBefore(lev, a, b)
        BY <3>4
      <4> HIDE DEF a, b, T, L0
      <4> QED BY <3>2, <3>3, <4>1, <4>2, ConcatInOrder, SMTT(40)
    <3> QED BY <2>2, <2>3, <3>1, <3>2, <3>5, <3>6 DEF a, b
  <2>5. CASE lev[k + 1] # d
    <3>1. s[k + 1] = <<>>
      BY <1>2, <2>1, <2>5
    <3>2. f[k + 1] = f[k]
      BY <2>2, <2>3, <3>1, ConcatEmptySeq
    <3>3. L0(k + 1) = L0(k)
      BY <2>1, <2>5
    <3> QED BY <2>3, <3>2, <3>3
  <2> QED BY <2>4, <2>5
<1>7. Nat \subseteq T
  <2> HIDE DEF T
  <2> QED BY <1>5, <1>6, SetInduction
<1>8. f[N] = FlattenSeq(s)
  BY <1>1, <1>4 DEF Flat
<1> QED
  BY <1>3, <1>7, <1>8

\* All levels one after the other.
LEMMA LevelsInOrder ==
  ASSUME NEW N \in Nat, NEW lev \in [1 .. N -> Nat], NEW D \in Nat,
         NEW levels, levels = [d \in 1 .. D |-> Level(N, lev, d - 1)],
         \A w \in 1 .. N : lev[w] < D
  PROVE  /\ FlattenSeq(levels) \in Seq(1 .. N) /\ InOrder(lev, FlattenSeq(levels))
         /\ ToSet(FlattenSeq(levels)) = 1 .. N
<1> DEFINE Upto(k) == {w \in 1 .. N : lev[w] < k}
<1>1. \A d \in 1 .. D : /\ levels[d] \in Seq(1 .. N) /\ InOrder(lev, levels[d])
                        /\ ToSet(levels[d]) = {w \in 1 .. N : lev[w] = d - 1}
  <2> TAKE d \in 1 .. D
  <2>1. levels[d] = Level(N, lev, d - 1) /\ d - 1 \in Nat
    OBVIOUS
  <2> QED BY <2>1, LevelInOrder
<1>2. levels \in Seq(Seq(1 .. N)) /\ Len(levels) = D
  <2>1. levels \in [1 .. D -> Seq(1 .. N)]
    BY <1>1
  <2> QED BY <2>1
<1>3. PICK f : Flat(f, levels, 1 .. N)
  BY <1>2, FlattenIs
<1> DEFINE T == {k \in Nat : k <= D => /\ f[k] \in Seq(1 .. N) /\ InOrder(lev, f[k])
                                       /\ ToSet(f[k]) = Upto(k)}
<1>4. 0 \in T
  <2>1. f[0] = <<>>
    BY <1>3 DEF Flat
  <2>2. f[0] \in Seq(1 .. N) /\ Len(f[0]) = 0 /\ ToSet(f[0]) = {}
    BY <2>1 DEF ToSet
  <2>3. InOrder(lev, f[0])
    BY <2>2 DEF InOrder
  <2> QED BY <2>2, <2>3
<1>5. ASSUME NEW k \in Nat, k \in T PROVE k + 1 \in T
  <2> SUFFICES ASSUME k + 1 <= D
               PROVE  /\ f[k + 1] \in Seq(1 .. N) /\ InOrder(lev, f[k + 1])
                      /\ ToSet(f[k + 1]) = Upto(k + 1)
    OBVIOUS
  <2>1. k + 1 \in 1 .. D /\ (k + 1) - 1 = k
    OBVIOUS
  <2>2. f[k + 1] = f[k] \o levels[k + 1]
    BY <1>2, <1>3, <2>1 DEF Flat
  <2> DEFINE a == f[k]
             b == levels[k + 1]
  <2>3. a \in Seq(1 .. N) /\ InOrder(lev, a) /\ ToSet(a) = Upto(k)
    BY <1>5
  <2>4. b \in Seq(1 .. N) /\ InOrder(lev, b) /\ ToSet(b) = {w \in 1 .. N : lev[w] = k}
    BY <1>1, <2>1
  <2>5. AllBefore(lev, a, b)
    BY <2>3, <2>4 DEF Before, AllBefore
  <2>6. ToSet(a) \cup ToSet(b) = Upto(k + 1)
    <3>1. Upto(k) \cup {w \in 1 .. N : lev[w] = k} = Upto(k + 1)
      OBVIOUS
    <3> HIDE DEF Upto, a, b
    <3> QED BY <2>3, <2>4, <3>1
  <2>7. f[k + 1] = a \o b
    BY <2>2
  <2> HIDE DEF a, b, T, Upto
  <2>8. InOrder(lev, a \o b) /\ a \o b \in Seq(1 .. N) /\ ToSet(a \o b) = ToSet(a) \cup ToSet(b)
    <3>1. a \in Seq(1 .. N) /\ InOrder(lev, a) /\ b \in Seq(1 .. N) /\ InOrder(lev, b)
      BY <2>3, <2>4
    <3>2. N \in Nat /\ lev \in [1 .. N -> Nat]
      OBVIOUS
    <3> QED BY ONLY <2>5, <3>1, <3>2, ConcatInOrder
  <2> QED BY <2>3, <2>6, <2>7, <2>8
<1>6. Nat \subseteq T
  <2> HIDE DEF T
  <2> QED BY <1>4, <1>5, SetInduction
<1>7. f[D] = FlattenSeq(levels)
  BY <1>2, <1>3 DEF Flat
<1>8. Upto(D) = 1 .. N
  OBVIOUS
<1> QED
  <2>1. D \in T
    <3> HIDE DEF T
    <3> QED BY <1>6
  <2>2. f[D] \in Seq(1 .. N) /\ InOrder(lev, f[D]) /\ ToSet(f[D]) = Upto(D)
    BY <2>1
  <2> HIDE DEF T, Upto
  <2> QED BY <1>7, <1>8, <2>2

\* What is in order is in it once.
LEMMA InOrderOnce ==
  ASSUME NEW N \in Nat, NEW lev \in [1 .. N -> Nat], NEW q \in Seq(1 .. N),
         InOrder(lev, q), ToSet(q) = 1 .. N
  PROVE  /\ Len(q) = N
         /\ \A i, j \in 1 .. Len(q) : Before(lev, q[i], q[j]) => i < j
<1>0. PICK n \in Nat : n = Len(q)
  BY LenProperties
<1>1. q \in [1 .. n -> 1 .. N] /\ DOMAIN q = 1 .. n
  BY <1>0, LenProperties
<1>2. \A i, j \in 1 .. n : i < j => Before(lev, q[i], q[j])
  BY <1>0 DEF InOrder
<1>3. \A v, w \in 1 .. N : Before(lev, v, w) => v # w /\ ~Before(lev, w, v)
  BY DEF Before
<1>4. \A i, j \in 1 .. n : i # j => q[i] # q[j]
  <2> TAKE i \in 1 .. n, j \in 1 .. n
  <2>1. q[i] \in 1 .. N /\ q[j] \in 1 .. N
    BY <1>1
  <2>2. i < j => q[i] # q[j]
    BY <1>2, <1>3, <2>1
  <2>3. j < i => q[i] # q[j]
    BY <1>2, <1>3, <2>1
  <2> QED BY <2>2, <2>3
<1>5. \A w \in 1 .. N : \E i \in 1 .. n : q[i] = w
  BY <1>1 DEF ToSet
<1>6. q \in Bijection(1 .. n, 1 .. N)
  BY <1>1, <1>4, <1>5 DEF Bijection, Injection, Surjection, IsInjective
<1>7. ExistsBijection(1 .. n, 1 .. N)
  BY <1>6 DEF ExistsBijection
<1>8. Cardinality(1 .. N) = n
  BY <1>7, FS_CountingElements
<1>9. Cardinality(1 .. N) = N
  BY FS_Interval
<1>10. \A i, j \in 1 .. n : Before(lev, q[i], q[j]) => i < j
  <2> SUFFICES ASSUME NEW i \in 1 .. n, NEW j \in 1 .. n, Before(lev, q[i], q[j]), ~(i < j)
               PROVE  FALSE
    OBVIOUS
  <2>1. q[i] \in 1 .. N /\ q[j] \in 1 .. N
    BY <1>1
  <2>2. CASE i = j
    BY <1>3, <2>1, <2>2
  <2>3. CASE j < i
    BY <1>2, <1>3, <2>1, <2>3
  <2> QED BY <2>2, <2>3
<1> QED
  BY <1>0, <1>8, <1>9, <1>10

-----------------------------------------------------------------------------
(* The greatest of finitely many numbers.                                  *)

\* A set of numbers with a bound has a greatest element.
LEMMA MaxIs ==
  ASSUME NEW S, S \subseteq Nat, S # {}, NEW b \in Nat, \A x \in S : x <= b
  PROVE  Max(S) \in S /\ \A x \in S : x <= Max(S)
<1> DEFINE B == {c \in Nat : \A x \in S : x <= c}
<1>1. PICK m \in B : \A c \in B : m <= c
  <2>1. B \subseteq Nat /\ B # {}
    OBVIOUS
  <2> HIDE DEF B
  <2> QED BY <2>1, LeastOf
<1>2. m \in S
  <2> SUFFICES ASSUME m \notin S PROVE FALSE
    OBVIOUS
  <2>1. PICK x \in S : TRUE
    OBVIOUS
  <2>2. m \in Nat /\ x \in Nat /\ x <= m /\ x # m
    OBVIOUS
  <2>3. m - 1 \in B
    BY <2>2
  <2> QED BY <1>1, <2>2, <2>3
<1>3. \A x \in S : m >= x
  BY <1>1
<1>4. Max(S) \in S /\ \A x \in S : Max(S) >= x
  BY <1>2, <1>3, Zenon DEF Max
<1> QED
  BY <1>4

\* Finitely many numbers have a bound.
LEMMA BoundOf ==
  ASSUME NEW n \in Nat, NEW f, \A i \in 1 .. n : f[i] \in Nat
  PROVE  \E b \in Nat : \A i \in 1 .. n : f[i] <= b
<1> DEFINE T == {k \in Nat : k <= n => \E b \in Nat : \A i \in 1 .. k : f[i] <= b}
<1>1. 0 \in T
  OBVIOUS
<1>2. ASSUME NEW k \in Nat, k \in T PROVE k + 1 \in T
  <2> SUFFICES ASSUME k + 1 <= n PROVE \E b \in Nat : \A i \in 1 .. k + 1 : f[i] <= b
    OBVIOUS
  <2>1. PICK b \in Nat : \A i \in 1 .. k : f[i] <= b
    BY <1>2
  <2>2. f[k + 1] \in Nat
    OBVIOUS
  <2>3. PICK c \in Nat : b <= c /\ f[k + 1] <= c
    <3>1. CASE b <= f[k + 1]
      BY <2>2, <3>1
    <3>2. CASE f[k + 1] <= b
      BY <2>2, <3>2
    <3> QED BY <2>2, <3>1, <3>2
  <2>4. \A i \in 1 .. k + 1 : f[i] <= c
    <3> TAKE i \in 1 .. k + 1
    <3>1. CASE i = k + 1
      BY <2>3, <3>1
    <3>2. CASE i # k + 1
      <4>1. i \in 1 .. k /\ f[i] \in Nat
        BY <3>2
      <4> QED BY <2>1, <2>3, <4>1
    <3> QED BY <3>1, <3>2
  <2> QED BY <2>4
<1>3. Nat \subseteq T
  <2> HIDE DEF T
  <2> QED BY <1>1, <1>2, SetInduction
<1>4. n \in T
  <2> HIDE DEF T
  <2> QED BY <1>3
<1> QED
  BY <1>4

-----------------------------------------------------------------------------
(* orderGatesByLevel: the level of each gate.                              *)

Unlevelled == Linear \cup {"Inp"}

\* The greatest level among the inputs of a gate.
Reach(level, ins) == Max({0} \cup {level[w] : w \in ToSet(ins)})

\* The greatest input level is a number no input level exceeds.
LEMMA ReachIs ==
  ASSUME NEW level, NEW ins \in Seq(Nat), \A w \in ToSet(ins) : level[w] \in Nat
  PROVE  Reach(level, ins) \in Nat /\ \A w \in ToSet(ins) : level[w] <= Reach(level, ins)
<1> DEFINE S == {0} \cup {level[w] : w \in ToSet(ins)}
           f == [i \in 1 .. Len(ins) |-> level[ins[i]]]
<1>0. PICK n \in Nat : n = Len(ins)
  BY LenProperties
<1>1. ToSet(ins) = {ins[i] : i \in 1 .. n}
  BY <1>0, LenProperties DEF ToSet
<1>2. \A i \in 1 .. n : f[i] = level[ins[i]] /\ f[i] \in Nat
  BY <1>0, <1>1
<1>3. PICK b \in Nat : \A i \in 1 .. n : f[i] <= b
  <2> HIDE DEF f
  <2> QED BY <1>2, BoundOf
<1>4. S \subseteq Nat /\ S # {}
  OBVIOUS
<1>5. \A x \in S : x <= b
  <2> SUFFICES ASSUME NEW w \in ToSet(ins) PROVE level[w] <= b
    OBVIOUS
  <2> QED BY <1>1, <1>2, <1>3
<1>6. Reach(level, ins) = Max(S) /\ \A w \in ToSet(ins) : level[w] \in S
  BY DEF Reach
<1> HIDE DEF S
<1>7. Max(S) \in S /\ \A x \in S : x <= Max(S)
  BY <1>4, <1>5, MaxIs
<1> QED
  BY <1>4, <1>6, <1>7

LevelSteps(f, gates, n) ==
  f = [k \in 0 .. n |-> IF k = 0 THEN <<>> ELSE LevelOf(f[k - 1], gates[k])]

\* The levels, gate by gate, exist.
LEMMA LevelStepsExist ==
  ASSUME NEW gates, NEW n \in Nat
  PROVE  \E f : LevelSteps(f, gates, n)
<1> DEFINE T == {i \in Nat : \E f : LevelSteps(f, gates, i)}
<1>1. 0 \in T
  <2>1. LevelSteps([k \in 0 .. 0 |-> <<>>], gates, 0)
    BY DEF LevelSteps
  <2> QED BY <2>1
<1>2. ASSUME NEW i \in Nat, i \in T PROVE i + 1 \in T
  <2>1. PICK f : LevelSteps(f, gates, i)
    BY <1>2
  <2> DEFINE g == [k \in 0 .. (i + 1) |-> IF k = i + 1 THEN LevelOf(f[i], gates[k]) ELSE f[k]]
  <2>2. ASSUME NEW k \in 0 .. (i + 1)
        PROVE  g[k] = IF k = 0 THEN <<>> ELSE LevelOf(g[k - 1], gates[k])
    <3>1. CASE k = i + 1
      <4>1. k # 0 /\ k - 1 = i /\ k - 1 \in 0 .. (i + 1) /\ k - 1 # i + 1
        BY <3>1
      <4>2. g[k] = LevelOf(f[i], gates[k]) /\ g[k - 1] = f[i]
        BY <3>1, <4>1
      <4> QED BY <4>1, <4>2
    <3>2. CASE k # i + 1
      <4>1. k \in 0 .. i /\ (k # 0 => k - 1 \in 0 .. (i + 1) /\ k - 1 # i + 1)
        BY <3>2
      <4>2. f[k] = IF k = 0 THEN <<>> ELSE LevelOf(f[k - 1], gates[k])
        BY <2>1, <4>1 DEF LevelSteps
      <4>3. g[k] = f[k] /\ (k # 0 => g[k - 1] = f[k - 1])
        BY <3>2, <4>1
      <4> QED BY <4>2, <4>3
    <3> QED BY <3>1, <3>2
  <2>3. g = [k \in 0 .. (i + 1) |-> g[k]]
    OBVIOUS
  <2>4. LevelSteps(g, gates, i + 1)
    <3> HIDE DEF g
    <3> QED BY <2>2, <2>3, Zenon DEF LevelSteps
  <2> QED BY <2>4
<1>3. Nat \subseteq T
  <2> HIDE DEF T
  <2> QED BY <1>1, <1>2, SetInduction
<1> QED
  BY <1>3

\* What addGate has made sure of.
LEMMA CircuitReads ==
  ASSUME NEW gates, IsCircuit(gates), NEW w \in 1 .. Len(gates)
  PROVE  /\ gates \in Seq(Gates) /\ Len(gates) \in Nat /\ DOMAIN gates = 1 .. Len(gates)
         /\ gates[w].ins \in Seq(Nat) /\ ToSet(gates[w].ins) \subseteq 1 .. w - 1
         /\ gates[w].type = "Inp" => ToSet(gates[w].ins) = {}
<1>1. gates \in Seq(Gates)
  BY DEF IsCircuit
<1>2. Len(gates) \in Nat /\ DOMAIN gates = 1 .. Len(gates)
  BY <1>1, LenProperties
<1>3. CanAdd(SubSeq(gates, 1, w - 1), gates[w])
  BY <1>2 DEF IsCircuit
<1>4. SubSeq(gates, 1, w - 1) \in Seq(Gates) /\ Len(SubSeq(gates, 1, w - 1)) = w - 1
  <2>1. \A i \in 1 .. w - 1 : gates[i] \in Gates
    BY <1>1, <1>2, ElementOfSeq
  <2>2. 1 \in Int /\ w - 1 \in Int /\ w - 1 >= 0
    BY <1>2
  <2>3. /\ SubSeq(gates, 1, w - 1) \in Seq(Gates)
        /\ Len(SubSeq(gates, 1, w - 1)) = IF 1 <= w - 1 THEN (w - 1) - 1 + 1 ELSE 0
    BY <2>1, <2>2, SubSeqProperties
  <2> QED BY <2>2, <2>3
<1>5. DOMAIN SubSeq(gates, 1, w - 1) = 1 .. w - 1
  BY <1>4, LenProperties
<1>6. gates[w].ins \in Seq(Nat) /\ ToSet(gates[w].ins) \subseteq 1 .. w - 1
  BY <1>3, <1>5 DEF CanAdd, Gates
<1>7. ASSUME gates[w].type = "Inp" PROVE ToSet(gates[w].ins) = {}
  <2>1. gates[w] = Inp
    BY <1>3, <1>7 DEF CanAdd, FIn2, FIn3, FIn4, ConstOp, FIn1, SIMD
  <2>2. gates[w].ins = <<>>
    BY <2>1 DEF Inp, Gate
  <2> QED BY <2>2 DEF ToSet
<1> QED
  BY <1>1, <1>2, <1>6, <1>7

\* A gate is not above its inputs' levels, and one that deepens is behind them.
Leveled(lev, gates, n) ==
  /\ lev \in Seq(Nat) /\ Len(lev) = n
  /\ \A w \in 1 .. n : \A v \in ToSet(gates[w].ins) :
       lev[v] <= lev[w] /\ (gates[w].type \notin Unlevelled => lev[v] < lev[w])

\* One gate more: its level is as it should be, those before it stay.
LEMMA LeveledStep ==
  ASSUME NEW gates, IsCircuit(gates), NEW k \in Nat, k + 1 <= Len(gates),
         NEW lev, Leveled(lev, gates, k)
  PROVE  Leveled(LevelOf(lev, gates[k + 1]), gates, k + 1)
<1>0. PICK N \in Nat : N = Len(gates)
  BY LenProperties DEF IsCircuit
<1>1. \A w \in 1 .. N : gates[w].ins \in Seq(Nat) /\ ToSet(gates[w].ins) \subseteq 1 .. w - 1
  BY <1>0, CircuitReads
<1> DEFINE g == gates[k + 1]
           r == Reach(lev, g.ins)
           step == IF g.type \in Unlevelled THEN 0 ELSE 1
           m == r + step
           new == Append(lev, m)
<1>2. LevelOf(lev, g) = new
  BY DEF LevelOf, Reach, Unlevelled
<1>3. lev \in Seq(Nat) /\ Len(lev) = k /\ \A i \in 1 .. k : lev[i] \in Nat
  BY ElementOfSeq DEF Leveled
<1>4. g.ins \in Seq(Nat) /\ ToSet(g.ins) \subseteq 1 .. k
  <2>1. k + 1 \in 1 .. N /\ (k + 1) - 1 = k
    BY <1>0
  <2> HIDE DEF r, m
  <2> QED BY <1>1, <2>1
<1>5. r \in Nat /\ \A w \in ToSet(g.ins) : lev[w] <= r
  <2>1. \A w \in ToSet(g.ins) : lev[w] \in Nat
    BY <1>3, <1>4
  <2> HIDE DEF g
  <2> QED BY <1>4, <2>1, ReachIs
<1>6. step \in Nat /\ (g.type \notin Unlevelled => step = 1)
  OBVIOUS
<1> HIDE DEF r, step
<1>7. m \in Nat /\ r <= m /\ (g.type \notin Unlevelled => r < m)
  BY <1>5, <1>6
<1> HIDE DEF m
<1>8. /\ new \in Seq(Nat) /\ Len(new) = k + 1 /\ new[k + 1] = m
      /\ \A i \in 1 .. k : new[i] = lev[i]
  BY <1>3, <1>7
<1> HIDE DEF new
<1>9. ASSUME NEW w \in 1 .. k + 1, NEW v \in ToSet(gates[w].ins)
      PROVE  new[v] <= new[w] /\ (gates[w].type \notin Unlevelled => new[v] < new[w])
  <2>1. CASE w = k + 1
    <3>1. v \in ToSet(g.ins) /\ v \in 1 .. k
      BY <1>4, <1>9, <2>1
    <3>2. lev[v] <= r /\ lev[v] \in Nat /\ new[v] = lev[v] /\ new[w] = m
      BY <1>3, <1>5, <1>8, <2>1, <3>1
    <3>3. gates[w].type \notin Unlevelled => r < m
      BY <1>7, <2>1
    <3>4. r <= m
      BY <1>7
    <3> HIDE DEF g
    <3> QED BY <1>5, <1>7, <3>2, <3>3, <3>4
  <2>2. CASE w # k + 1
    <3>1. w \in 1 .. k /\ w \in 1 .. N
      BY <1>0, <2>2
    <3>2. v \in 1 .. k
      <4>1. v \in 1 .. w - 1
        BY <1>1, <1>9, <3>1
      <4> QED BY <3>1, <4>1
    <3>3. new[v] = lev[v] /\ new[w] = lev[w]
      BY <1>8, <3>1, <3>2
    <3> QED BY <1>9, <3>1, <3>3 DEF Leveled
  <2> QED BY <2>1, <2>2
<1> QED
  BY <1>2, <1>8, <1>9 DEF Leveled

\* All gates are on a level as it should be.
LEMMA GateLevelIs ==
  ASSUME NEW gates, IsCircuit(gates)
  PROVE  Leveled(GateLevel(gates), gates, Len(gates))
<1>0. PICK N \in Nat : N = Len(gates)
  BY LenProperties DEF IsCircuit
<1> DEFINE f == CHOOSE f : LevelSteps(f, gates, N)
<1>1. LevelSteps(f, gates, N)
  <2>1. \E g : LevelSteps(g, gates, N)
    BY LevelStepsExist
  <2> QED BY <2>1
<1>2. GateLevel(gates) = f[N]
  BY <1>0 DEF GateLevel, LevelSteps
<1> HIDE DEF f
<1>3. \A k \in 0 .. N : f[k] = IF k = 0 THEN <<>> ELSE LevelOf(f[k - 1], gates[k])
  BY <1>1, Zenon DEF LevelSteps
<1> DEFINE T == {k \in Nat : k <= N => Leveled(f[k], gates, k)}
<1>4. 0 \in T
  <2>1. f[0] = <<>>
    BY <1>3
  <2>2. Leveled(f[0], gates, 0)
    BY <2>1 DEF Leveled
  <2> QED BY <2>2
<1>5. ASSUME NEW k \in Nat, k \in T PROVE k + 1 \in T
  <2> SUFFICES ASSUME k + 1 <= N PROVE Leveled(f[k + 1], gates, k + 1)
    OBVIOUS
  <2>1. Leveled(f[k], gates, k)
    BY <1>5
  <2>2. k + 1 \in 0 .. N /\ k + 1 # 0 /\ (k + 1) - 1 = k
    OBVIOUS
  <2>3. f[k + 1] = LevelOf(f[k], gates[k + 1])
    BY <1>3, <2>2
  <2> QED BY <1>0, <2>1, <2>3, LeveledStep
<1>6. Nat \subseteq T
  <2> HIDE DEF T
  <2> QED BY <1>4, <1>5, SetInduction
<1>7. N \in T
  <2> HIDE DEF T
  <2> QED BY <1>6
<1> QED
  BY <1>0, <1>2, <1>7

\* GatesByLevel, in terms of Level.
LEMMA GatesByLevelIs ==
  ASSUME NEW gates, IsCircuit(gates), NEW N, N = Len(gates), NEW lev, lev = GateLevel(gates)
  PROVE  /\ N \in Nat /\ lev \in [1 .. N -> Nat]
         /\ \A w \in 1 .. N : \A v \in ToSet(gates[w].ins) :
              /\ v \in 1 .. N /\ v < w /\ lev[v] <= lev[w]
              /\ gates[w].type \notin Linear => lev[v] < lev[w]
         /\ \E D \in Nat : /\ GatesByLevel(gates) = [d \in 1 .. D |-> Level(N, lev, d - 1)]
                           /\ \A w \in 1 .. N : lev[w] < D
<1>1. N \in Nat /\ DOMAIN gates = 1 .. N
  BY LenProperties DEF IsCircuit
<1>2. Leveled(lev, gates, N)
  BY GateLevelIs
<1>3. lev \in [1 .. N -> Nat] /\ DOMAIN lev = 1 .. N
  BY <1>2, LenProperties DEF Leveled
<1>4. ASSUME NEW w \in 1 .. N, NEW v \in ToSet(gates[w].ins)
      PROVE  /\ v \in 1 .. N /\ v < w /\ lev[v] <= lev[w]
             /\ gates[w].type \notin Linear => lev[v] < lev[w]
  <2>1. ToSet(gates[w].ins) \subseteq 1 .. w - 1 /\ gates[w].type # "Inp"
    BY <1>4, CircuitReads
  <2>2. v \in 1 .. w - 1
    BY <2>1
  <2>3. lev[v] <= lev[w] /\ (gates[w].type \notin Unlevelled => lev[v] < lev[w])
    BY <1>2 DEF Leveled
  <2> QED BY <1>1, <2>1, <2>2, <2>3 DEF Unlevelled
<1> DEFINE S == {0} \cup ToSet(lev)
           D == Max(S) + 1
<1>5. Max(S) \in Nat /\ \A w \in 1 .. N : lev[w] <= Max(S)
  <2>1. PICK b \in Nat : \A w \in 1 .. N : lev[w] <= b
    BY <1>1, <1>3, BoundOf
  <2>2. S \subseteq Nat /\ S # {} /\ \A w \in 1 .. N : lev[w] \in S
    BY <1>3 DEF ToSet
  <2>3. \A x \in S : x <= b
    BY <1>3, <2>1 DEF ToSet
  <2> HIDE DEF S
  <2>4. Max(S) \in S /\ \A x \in S : x <= Max(S)
    BY <2>2, <2>3, MaxIs
  <2> QED BY <2>2, <2>4
<1>6. D \in Nat /\ \A w \in 1 .. N : lev[w] < D
  <2> HIDE DEF S
  <2> QED BY <1>3, <1>5
<1>7. GatesByLevel(gates) = [d \in 1 .. D |-> Level(N, lev, d - 1)]
  BY <1>1, Zenon DEF GatesByLevel, Level
<1> HIDE DEF D
<1> QED
  BY <1>1, <1>3, <1>4, <1>6, <1>7

-----------------------------------------------------------------------------
(* Congruence.                                                             *)

Cong(a, b, m) == \E k \in Int : a = b + k * m

\* A number is congruent to its remainder.
LEMMA CongMod ==
  ASSUME NEW a \in Int, NEW m \in Nat \ {0}
  PROVE  Cong(a % m, a, m) /\ a % m \in 0 .. m - 1
<1>1. a = m * (a \div m) + (a % m) /\ a \div m \in Int /\ a % m \in 0 .. m - 1
  OBVIOUS
<1> DEFINE q == a \div m
           r == a % m
<1> HIDE DEF q, r
<1>2. r = a + (-q) * m /\ -q \in Int
  BY <1>1 DEF q, r
<1>3. Cong(r, a, m)
  BY <1>2 DEF Cong
<1> QED
  BY <1>1, <1>3 DEF r

\* Congruent numbers have the same remainder.
LEMMA CongEq ==
  ASSUME NEW a \in Int, NEW b \in Int, NEW m \in Nat \ {0}, Cong(a, b, m)
  PROVE  a % m = b % m
<1>1. PICK k \in Int : a = b + k * m
  BY DEF Cong
<1>2. b = m * (b \div m) + (b % m) /\ b \div m \in Int /\ b % m \in 0 .. m - 1
  OBVIOUS
<1> DEFINE q == b \div m
           r == b % m
<1> HIDE DEF q, r
<1>3. b = m * q + r /\ q \in Int /\ r \in 0 .. m - 1
  BY <1>2 DEF q, r
<1>4. k + q \in Int /\ a = (k + q) * m + r
  BY <1>1, <1>3
<1>5. ASSUME NEW p \in Int, a = p * m + r PROVE a % m = r
  BY <1>3, <1>5
<1>6. a % m = r
  BY <1>4, <1>5
<1> QED
  BY <1>6 DEF r

\* Congruence is an equivalence that sums and multiples respect.
LEMMA CongRefl ==
  ASSUME NEW a \in Int, NEW m \in Int
  PROVE  Cong(a, a, m)
<1>1. a = a + 0 * m
  OBVIOUS
<1> QED
  BY <1>1 DEF Cong

\* Congruence can be turned round.
LEMMA CongSym ==
  ASSUME NEW a \in Int, NEW b \in Int, NEW m \in Int, Cong(a, b, m)
  PROVE  Cong(b, a, m)
<1>1. PICK k \in Int : a = b + k * m
  BY DEF Cong
<1>2. b = a + (-k) * m /\ -k \in Int
  BY <1>1
<1> QED
  BY <1>2 DEF Cong

\* Congruence carries on.
LEMMA CongTrans ==
  ASSUME NEW a \in Int, NEW b \in Int, NEW c \in Int, NEW m \in Int, Cong(a, b, m), Cong(b, c, m)
  PROVE  Cong(a, c, m)
<1>1. PICK k \in Int : a = b + k * m
  BY DEF Cong
<1>2. PICK l \in Int : b = c + l * m
  BY DEF Cong
<1>3. a = c + (k + l) * m /\ k + l \in Int
  BY <1>1, <1>2
<1> QED
  BY <1>3 DEF Cong

\* Congruent numbers have congruent sums.
LEMMA CongAdd ==
  ASSUME NEW a \in Int, NEW b \in Int, NEW c \in Int, NEW d \in Int, NEW m \in Int,
         Cong(a, b, m), Cong(c, d, m)
  PROVE  Cong(a + c, b + d, m)
<1>1. PICK k \in Int : a = b + k * m
  BY DEF Cong
<1>2. PICK l \in Int : c = d + l * m
  BY DEF Cong
<1>3. a + c = (b + d) + (k + l) * m /\ k + l \in Int
  BY <1>1, <1>2
<1> QED
  BY <1>3 DEF Cong

\* Congruent numbers have congruent multiples.
LEMMA CongTimes ==
  ASSUME NEW a \in Int, NEW b \in Int, NEW c \in Int, NEW m \in Int, Cong(a, b, m)
  PROVE  Cong(c * a, c * b, m)
<1>1. PICK k \in Int : a = b + k * m
  BY DEF Cong
<1>2. c * a = c * b + (c * k) * m /\ c * k \in Int
  BY <1>1
<1> QED
  BY <1>2 DEF Cong

-----------------------------------------------------------------------------
(* The folds of the community modules: c chooses what comes next, h takes  *)
(* it in.                                                                  *)

Iterates(f, S, c, base, h) ==
  \A s \in SUBSET S : f[s] = IF s = {} THEN base ELSE h[c[s]][f[s \ {c[s]}]]

\* What a fold over a finite set comes to, from each of its subsets, exists.
LEMMA IterExists ==
  ASSUME NEW S, IsFiniteSet(S), NEW c, \A s \in SUBSET S : s # {} => c[s] \in s,
         NEW T, NEW base \in T, NEW h \in [S -> [T -> T]]
  PROVE  \E f \in [SUBSET S -> T] : Iterates(f, S, c, base, h)
<1> DEFINE B(n) == {s \in SUBSET S : Cardinality(s) <= n}
           Good(n) == \E f \in [B(n) -> T] :
                        \A s \in B(n) : f[s] = IF s = {} THEN base ELSE h[c[s]][f[s \ {c[s]}]]
           G == {n \in Nat : Good(n)}
<1>0. \A s \in SUBSET S : IsFiniteSet(s) /\ Cardinality(s) \in Nat
  BY FS_Subset, FS_CardinalityType
<1>1. 0 \in G
  <2>1. B(0) = {{}}
    <3>1. \A s \in SUBSET S : Cardinality(s) <= 0 <=> s = {}
      BY <1>0, FS_EmptySet
    <3> QED BY <3>1
  <2> DEFINE f == [s \in B(0) |-> base]
  <2>2. f \in [B(0) -> T] /\ \A s \in B(0) : f[s] = base /\ s = {}
    BY <2>1
  <2> QED BY <2>2
<1>2. ASSUME NEW n \in Nat, n \in G PROVE n + 1 \in G
  <2>1. PICK f \in [B(n) -> T] : \A s \in B(n) : f[s] = IF s = {} THEN base ELSE h[c[s]][f[s \ {c[s]}]]
    BY <1>2
  <2>2. ASSUME NEW s \in B(n + 1), s # {} PROVE s \ {c[s]} \in B(n) /\ c[s] \in S
    <3>1. c[s] \in s /\ IsFiniteSet(s) /\ Cardinality(s) \in Nat
      BY <1>0, <2>2
    <3>2. Cardinality(s \ {c[s]}) = Cardinality(s) - 1
      BY <3>1, FS_RemoveElement
    <3> QED BY <2>2, <3>1, <3>2
  <2> DEFINE g == [s \in B(n + 1) |-> IF s = {} THEN base ELSE h[c[s]][f[s \ {c[s]}]]]
  <2>3. \A s \in B(n + 1) : g[s] = IF s = {} THEN base ELSE h[c[s]][f[s \ {c[s]}]]
    OBVIOUS
  <2>4. \A s \in B(n + 1) : g[s] \in T
    <3> TAKE s \in B(n + 1)
    <3>1. CASE s = {}
      BY <3>1
    <3>2. CASE s # {}
      <4>1. s \ {c[s]} \in B(n) /\ c[s] \in S
        BY <2>2, <3>2
      <4> HIDE DEF B, g
      <4>2. f[s \ {c[s]}] \in T /\ h[c[s]] \in [T -> T]
        BY <4>1
      <4>3. g[s] = h[c[s]][f[s \ {c[s]}]]
        BY <2>3, <3>2
      <4> QED BY <4>2, <4>3
    <3> QED BY <3>1, <3>2
  <2>5. g \in [B(n + 1) -> T]
    BY <2>4
  <2>6. \A s \in B(n) : s \in B(n + 1)
    BY <1>0
  <2> HIDE DEF g
  <2>7. \A s \in B(n) : g[s] = f[s]
    <3> HIDE DEF B
    <3> QED BY <2>1, <2>3, <2>6
  <2>8. \A s \in B(n + 1) : g[s] = IF s = {} THEN base ELSE h[c[s]][g[s \ {c[s]}]]
    <3> HIDE DEF B
    <3> QED BY <2>2, <2>3, <2>7
  <2>9. Good(n + 1)
    <3> HIDE DEF B
    <3> QED BY <2>5, <2>8
  <2> HIDE DEF Good
  <2> QED BY <2>9
<1>3. Nat \subseteq G
  <2> HIDE DEF G
  <2> QED BY <1>1, <1>2, SetInduction
<1>4. Cardinality(S) \in G
  <2> HIDE DEF G
  <2> QED BY <1>0, <1>3
<1>5. B(Cardinality(S)) = SUBSET S
  BY <1>0, FS_Subset
<1> QED
  BY <1>4, <1>5 DEF Iterates

\* Two functions that iterate alike on a set do so on what is in both domains.
LEMMA IterSame ==
  ASSUME NEW S, IsFiniteSet(S), NEW R \in SUBSET S, NEW c, \A s \in SUBSET S : s # {} => c[s] \in s,
         NEW base, NEW h, NEW f, NEW g, Iterates(f, S, c, base, h), Iterates(g, R, c, base, h)
  PROVE  \A s \in SUBSET R : f[s] = g[s]
<1> DEFINE G == {n \in Nat : \A s \in SUBSET R : Cardinality(s) = n => f[s] = g[s]}
<1>0. \A s \in SUBSET R : s \in SUBSET S /\ IsFiniteSet(s) /\ Cardinality(s) \in Nat
  BY FS_Subset, FS_CardinalityType
<1>1. 0 \in G
  <2>1. \A s \in SUBSET R : Cardinality(s) = 0 => s = {}
    BY <1>0, FS_EmptySet
  <2>2. f[{}] = base /\ g[{}] = base
    BY DEF Iterates
  <2> QED BY <2>1, <2>2
<1>2. ASSUME NEW n \in Nat, n \in G PROVE n + 1 \in G
  <2> SUFFICES ASSUME NEW s \in SUBSET R, Cardinality(s) = n + 1 PROVE f[s] = g[s]
    OBVIOUS
  <2>1. s # {}
    BY FS_EmptySet
  <2>2. s \in SUBSET S /\ c[s] \in s
    BY <1>0, <2>1
  <2>3. s \ {c[s]} \in SUBSET R /\ Cardinality(s \ {c[s]}) = n
    <3>1. IsFiniteSet(s)
      BY <1>0
    <3>2. Cardinality(s \ {c[s]}) = Cardinality(s) - 1
      BY <2>2, <3>1, FS_RemoveElement
    <3> QED BY <3>2
  <2>4. f[s \ {c[s]}] = g[s \ {c[s]}]
    BY <1>2, <2>3
  <2>5. f[s] = h[c[s]][f[s \ {c[s]}]] /\ g[s] = h[c[s]][g[s \ {c[s]}]]
    BY <2>1, <2>2 DEF Iterates
  <2> QED BY <2>4, <2>5
<1>3. Nat \subseteq G
  <2> HIDE DEF G
  <2> QED BY <1>1, <1>2, SetInduction
<1>4. ASSUME NEW s \in SUBSET R PROVE f[s] = g[s]
  <2>1. Cardinality(s) \in G
    <3> HIDE DEF G
    <3> QED BY <1>0, <1>3
  <2> QED BY <2>1
<1> QED
  BY <1>4

\* SumFunctionOnSet is such a fold.
SumOn(f, S)  == SumFunctionOnSet(f, S)
AnyOf(S)     == [s \in SUBSET S |-> CHOOSE x \in s : TRUE]
Adding(f, S) == [x \in S |-> [t \in Int |-> f[x] + t]]

\* A sum of integers is such a fold.
LEMMA SumIterates ==
  ASSUME NEW S, IsFiniteSet(S), NEW f, \A x \in S : f[x] \in Int
  PROVE  \E g \in [SUBSET S -> Int] :
           Iterates(g, S, AnyOf(S), 0, Adding(f, S)) /\ SumOn(f, S) = g[S]
<1> DEFINE choose(s) == CHOOSE x \in s : TRUE
           Sums(g) == g = [s \in SUBSET S |-> IF s = {} THEN 0 ELSE f[choose(s)] + g[s \ {choose(s)}]]
           it == CHOOSE g : Sums(g)
<1>1. \A s \in SUBSET S : s # {} => AnyOf(S)[s] = choose(s) /\ choose(s) \in s
  BY DEF AnyOf
<1>2. Adding(f, S) \in [S -> [Int -> Int]] /\ \A x \in S, t \in Int : Adding(f, S)[x][t] = f[x] + t
  BY DEF Adding
<1>3. SumOn(f, S) = it[S]
  BY Zenon DEF SumOn, SumFunctionOnSet, FoldFunctionOnSet, MapThenFoldSet
<1> HIDE DEF choose
<1>4. PICK g \in [SUBSET S -> Int] : Iterates(g, S, AnyOf(S), 0, Adding(f, S))
  <2>1. (\A s \in SUBSET S : s # {} => AnyOf(S)[s] \in s) /\ 0 \in Int
    BY <1>1
  <2> DEFINE c == AnyOf(S)
             h == Adding(f, S)
  <2>2. (\A s \in SUBSET S : s # {} => c[s] \in s) /\ h \in [S -> [Int -> Int]]
    BY <1>2, <2>1
  <2> HIDE DEF Sums, it, c, h
  <2>3. \E g \in [SUBSET S -> Int] : Iterates(g, S, c, 0, h)
    BY ONLY IsFiniteSet(S), <2>2, 0 \in Int, IterExists
  <2> QED BY <2>3 DEF c, h
<1>5. ASSUME NEW k \in [SUBSET S -> Int], NEW s \in SUBSET S, s # {}
      PROVE  Adding(f, S)[AnyOf(S)[s]][k[s \ {AnyOf(S)[s]}]] = f[choose(s)] + k[s \ {choose(s)}]
  <2>1. choose(s) \in S /\ AnyOf(S)[s] = choose(s) /\ k[s \ {choose(s)}] \in Int
    BY <1>1, <1>5
  <2> QED BY <1>2, <2>1
<1>6. Sums(g)
  <2>1. \A s \in SUBSET S : g[s] = IF s = {} THEN 0 ELSE f[choose(s)] + g[s \ {choose(s)}]
    BY <1>4, <1>5 DEF Iterates
  <2> QED BY <2>1
<1>7. Sums(it)
  <2> HIDE DEF Sums
  <2> QED BY <1>6
<1> HIDE DEF it
<1>8. \A s \in SUBSET S : it[s] = IF s = {} THEN 0 ELSE f[choose(s)] + it[s \ {choose(s)}]
  BY <1>7, Zenon
<1> DEFINE G == {n \in Nat : \A s \in SUBSET S : Cardinality(s) = n => it[s] = g[s]}
<1>9. \A s \in SUBSET S : IsFiniteSet(s) /\ Cardinality(s) \in Nat
  BY FS_Subset, FS_CardinalityType
<1>10. 0 \in G
  <2>1. \A s \in SUBSET S : Cardinality(s) = 0 => s = {}
    BY <1>9, FS_EmptySet
  <2>2. it[{}] = 0 /\ g[{}] = 0
    BY <1>4, <1>8 DEF Iterates
  <2> QED BY <2>1, <2>2
<1>11. ASSUME NEW n \in Nat, n \in G PROVE n + 1 \in G
  <2> SUFFICES ASSUME NEW s \in SUBSET S, Cardinality(s) = n + 1 PROVE it[s] = g[s]
    OBVIOUS
  <2>1. s # {}
    <3>1. Cardinality({}) = 0 /\ n + 1 # 0
      BY FS_EmptySet
    <3>2. s = {} => Cardinality(s) = Cardinality({})
      OBVIOUS
    <3> QED BY <3>1, <3>2
  <2>2. choose(s) \in s /\ s \ {choose(s)} \in SUBSET S
    BY <1>1, <2>1
  <2>3. Cardinality(s \ {choose(s)}) = n
    <3> DEFINE x == choose(s)
    <3>1. IsFiniteSet(s) /\ x \in s /\ Cardinality(s) = n + 1
      BY <1>9, <2>2
    <3> HIDE DEF x
    <3>2. Cardinality(s \ {x}) = Cardinality(s) - 1
      BY ONLY <3>1, FS_RemoveElement
    <3>3. Cardinality(s \ {x}) = n
      BY ONLY <3>1, <3>2, n \in Nat
    <3> QED BY <3>3 DEF x
  <2>4. it[s \ {choose(s)}] = g[s \ {choose(s)}]
    BY <1>11, <2>2, <2>3
  <2>5. g[s] = f[choose(s)] + g[s \ {choose(s)}]
    BY <1>4, <1>5, <2>1 DEF Iterates
  <2>6. it[s] = f[choose(s)] + it[s \ {choose(s)}]
    BY <1>8, <2>1
  <2> QED BY <2>4, <2>5, <2>6
<1>12. Nat \subseteq G
  <2> HIDE DEF G
  <2> QED BY <1>10, <1>11, SetInduction
<1>13. it[S] = g[S]
  <2>1. Cardinality(S) \in G
    <3> HIDE DEF G
    <3> QED BY <1>9, <1>12
  <2> QED BY <2>1
<1> QED
  BY <1>3, <1>4, <1>13

\* A sum of integers is an integer.
LEMMA SumType ==
  ASSUME NEW S, IsFiniteSet(S), NEW f, \A x \in S : f[x] \in Int
  PROVE  SumOn(f, S) \in Int /\ (S = {} => SumOn(f, S) = 0)
<1>1. PICK g \in [SUBSET S -> Int] :
        Iterates(g, S, AnyOf(S), 0, Adding(f, S)) /\ SumOn(f, S) = g[S]
  BY SumIterates
<1>2. S = {} => g[S] = 0
  BY <1>1 DEF Iterates
<1>3. g[S] \in Int
  BY <1>1
<1> QED
  BY <1>1, <1>2, <1>3

\* The first element that is chosen can be taken out.
LEMMA SumFirst ==
  ASSUME NEW S, IsFiniteSet(S), S # {}, NEW f, \A x \in S : f[x] \in Int
  PROVE  \E c \in S : SumOn(f, S) = f[c] + SumOn(f, S \ {c})
<1> DEFINE c == CHOOSE x \in S : TRUE
           R == S \ {c}
<1>1. PICK g \in [SUBSET S -> Int] :
        Iterates(g, S, AnyOf(S), 0, Adding(f, S)) /\ SumOn(f, S) = g[S]
  BY SumIterates
<1>2. c \in S /\ AnyOf(S)[S] = c /\ R \in SUBSET S
  BY DEF AnyOf
<1> HIDE DEF c
<1>3. IsFiniteSet(R) /\ \A x \in R : f[x] \in Int
  BY FS_Subset
<1> HIDE DEF R
<1>4. PICK k \in [SUBSET R -> Int] :
        Iterates(k, R, AnyOf(R), 0, Adding(f, R)) /\ SumOn(f, R) = k[R]
  BY <1>3, SumIterates
<1>5. g[S] = f[c] + g[R]
  <2>1. g[S] = Adding(f, S)[c][g[R]]
    BY <1>1, <1>2 DEF Iterates, R
  <2>2. g[R] \in Int
    BY <1>2
  <2>3. \A t \in Int : Adding(f, S)[c][t] = f[c] + t
    BY <1>2 DEF Adding
  <2> QED BY <2>1, <2>2, <2>3
<1>6. Iterates(k, R, AnyOf(S), 0, Adding(f, S))
  <2> SUFFICES ASSUME NEW s \in SUBSET R
               PROVE  k[s] = IF s = {} THEN 0 ELSE Adding(f, S)[AnyOf(S)[s]][k[s \ {AnyOf(S)[s]}]]
    BY DEF Iterates
  <2>1. k[s] = IF s = {} THEN 0 ELSE Adding(f, R)[AnyOf(R)[s]][k[s \ {AnyOf(R)[s]}]]
    BY <1>4 DEF Iterates
  <2>2. CASE s # {}
    <3> DEFINE d == CHOOSE x \in s : TRUE
    <3>1. AnyOf(R)[s] = d /\ AnyOf(S)[s] = d /\ d \in R /\ d \in S
      BY <1>2, <2>2 DEF AnyOf
    <3> HIDE DEF d
    <3>2. k[s \ {d}] \in Int
      BY <1>4
    <3>3. \A t \in Int : Adding(f, S)[d][t] = f[d] + t /\ Adding(f, R)[d][t] = f[d] + t
      BY <3>1 DEF Adding
    <3> QED BY <2>1, <2>2, <3>1, <3>2, <3>3
  <2> QED BY <2>1, <2>2
<1>7. \A s \in SUBSET R : g[s] = k[s]
  <2>1. \A s \in SUBSET S : s # {} => AnyOf(S)[s] \in s
    BY DEF AnyOf
  <2> DEFINE a == AnyOf(S)
             h == Adding(f, S)
  <2>2. /\ \A s \in SUBSET S : s # {} => a[s] \in s
        /\ Iterates(g, S, a, 0, h) /\ Iterates(k, R, a, 0, h)
    BY <1>1, <1>6, <2>1
  <2> HIDE DEF a, h
  <2> QED BY <1>2, <2>2, IterSame
<1>8. SumOn(f, S) = f[c] + SumOn(f, R)
  BY <1>1, <1>4, <1>5, <1>7
<1> QED
  BY <1>2, <1>8 DEF R

\* ... and so can any other.
LEMMA SumPick ==
  ASSUME NEW S, IsFiniteSet(S), NEW f, \A x \in S : f[x] \in Int, NEW x \in S
  PROVE  SumOn(f, S) = f[x] + SumOn(f, S \ {x})
<1> DEFINE G == {n \in Nat : \A s \in SUBSET S : Cardinality(s) = n =>
                               \A y \in s : SumOn(f, s) = f[y] + SumOn(f, s \ {y})}
<1>0. \A s \in SUBSET S : IsFiniteSet(s) /\ Cardinality(s) \in Nat /\ \A y \in s : f[y] \in Int
  BY FS_Subset, FS_CardinalityType
<1>1. 0 \in G
  <2>1. \A s \in SUBSET S : Cardinality(s) = 0 => s = {}
    BY <1>0, FS_EmptySet
  <2> QED BY <2>1
<1>2. ASSUME NEW n \in Nat, n \in G PROVE n + 1 \in G
  <2> SUFFICES ASSUME NEW s \in SUBSET S, Cardinality(s) = n + 1, NEW y \in s
               PROVE  SumOn(f, s) = f[y] + SumOn(f, s \ {y})
    OBVIOUS
  <2>1. PICK c \in s : SumOn(f, s) = f[c] + SumOn(f, s \ {c})
    <3>1. IsFiniteSet(s) /\ s # {} /\ \A z \in s : f[z] \in Int
      BY <1>0
    <3> HIDE DEF G
    <3> QED BY <3>1, SumFirst
  <2>2. CASE c = y
    BY <2>1, <2>2
  <2>3. CASE c # y
    <3>1. IsFiniteSet(s) /\ Cardinality(s) \in Nat
      BY <1>0
    <3>2. /\ s \ {c} \in SUBSET S /\ Cardinality(s \ {c}) = n /\ y \in s \ {c}
          /\ s \ {y} \in SUBSET S /\ Cardinality(s \ {y}) = n /\ c \in s \ {y}
      <4>1. IsFiniteSet(s)
        BY <3>1
      <4> HIDE DEF G
      <4>2. Cardinality(s \ {c}) = Cardinality(s) - 1
        BY <4>1, FS_RemoveElement
      <4>3. Cardinality(s \ {y}) = Cardinality(s) - 1
        BY <4>1, FS_RemoveElement
      <4> QED BY <2>3, <4>2, <4>3
    <3>3. /\ SumOn(f, s \ {c}) = f[y] + SumOn(f, (s \ {c}) \ {y})
          /\ SumOn(f, s \ {y}) = f[c] + SumOn(f, (s \ {y}) \ {c})
      BY <1>2, <3>2
    <3>4. (s \ {c}) \ {y} = (s \ {y}) \ {c}
      OBVIOUS
    <3> DEFINE r == (s \ {y}) \ {c}
    <3>5. SumOn(f, r) \in Int
      <4>1. r \in SUBSET S
        OBVIOUS
      <4>2. IsFiniteSet(r) /\ \A z \in r : f[z] \in Int
        BY <1>0, <4>1
      <4> HIDE DEF r, G
      <4> QED BY <4>2, SumType
    <3>6. f[c] \in Int /\ f[y] \in Int
      OBVIOUS
    <3> DEFINE t == SumOn(f, r)
    <3>7. SumOn(f, s) = f[c] + (f[y] + t) /\ SumOn(f, s \ {y}) = f[c] + t /\ t \in Int
      BY <2>1, <3>3, <3>4, <3>5
    <3> HIDE DEF t, G
    <3> QED BY <3>6, <3>7
  <2> QED BY <2>2, <2>3
<1>3. Nat \subseteq G
  <2> HIDE DEF G
  <2> QED BY <1>1, <1>2, SetInduction
<1>4. Cardinality(S) \in G
  <2> HIDE DEF G
  <2> QED BY <1>0, <1>3
<1> QED
  BY <1>4

\* Sums are linear, up to a multiple of m.
LEMMA SumLinear ==
  ASSUME NEW S, IsFiniteSet(S), NEW m \in Int, NEW a \in Int, NEW b \in Int, NEW f, NEW g, NEW h,
         \A x \in S : /\ f[x] \in Int /\ g[x] \in Int /\ h[x] \in Int
                      /\ Cong(h[x], a * f[x] + b * g[x], m)
  PROVE  Cong(SumOn(h, S), a * SumOn(f, S) + b * SumOn(g, S), m)
<1> DEFINE F(s) == SumOn(f, s)
           B(s) == SumOn(g, s)
           H(s) == SumOn(h, s)
           G == {n \in Nat : \A s \in SUBSET S : Cardinality(s) = n => Cong(H(s), a * F(s) + b * B(s), m)}
<1>0. \A s \in SUBSET S : /\ IsFiniteSet(s) /\ Cardinality(s) \in Nat
                          /\ \A x \in s : f[x] \in Int /\ g[x] \in Int /\ h[x] \in Int
  BY FS_Subset, FS_CardinalityType
<1>1. \A s \in SUBSET S : F(s) \in Int /\ B(s) \in Int /\ H(s) \in Int
  BY <1>0, SumType
<1>2. F({}) = 0 /\ B({}) = 0 /\ H({}) = 0
  BY <1>0, SumType
<1>3. \A s \in SUBSET S : \A x \in s :
        F(s) = f[x] + F(s \ {x}) /\ B(s) = g[x] + B(s \ {x}) /\ H(s) = h[x] + H(s \ {x})
  BY <1>0, SumPick
<1> HIDE DEF F, B, H
<1>4. 0 \in G
  <2>1. \A s \in SUBSET S : Cardinality(s) = 0 => s = {}
    BY <1>0, FS_EmptySet
  <2>2. Cong(H({}), a * F({}) + b * B({}), m)
    <3>1. a * 0 + b * 0 = 0 /\ Cong(0, 0, m)
      BY CongRefl
    <3> QED BY <1>2, <3>1
  <2> QED BY <2>1, <2>2
<1>5. ASSUME NEW n \in Nat, n \in G PROVE n + 1 \in G
  <2> SUFFICES ASSUME NEW s \in SUBSET S, Cardinality(s) = n + 1
               PROVE  Cong(H(s), a * F(s) + b * B(s), m)
    OBVIOUS
  <2>1. PICK x \in s : TRUE
    <3>1. Cardinality({}) = 0 /\ n + 1 # 0
      BY FS_EmptySet
    <3>2. s = {} => Cardinality(s) = Cardinality({})
      OBVIOUS
    <3> QED BY <3>1, <3>2
  <2> DEFINE r == s \ {x}
  <2>2. r \in SUBSET S /\ Cardinality(r) = n
    <3>1. IsFiniteSet(s)
      BY <1>0
    <3>2. Cardinality(r) = Cardinality(s) - 1
      BY <3>1, FS_RemoveElement
    <3> QED BY <3>2
  <2>3. Cong(H(r), a * F(r) + b * B(r), m)
    BY <1>5, <2>2
  <2>4. F(s) = f[x] + F(r) /\ B(s) = g[x] + B(r) /\ H(s) = h[x] + H(r)
    BY <1>3
  <2>5. F(r) \in Int /\ B(r) \in Int /\ H(r) \in Int
    BY <1>1, <2>2
  <2> HIDE DEF r, G
  <2>6. f[x] \in Int /\ g[x] \in Int /\ h[x] \in Int /\ Cong(h[x], a * f[x] + b * g[x], m)
    OBVIOUS
  <2>7. PICK k \in Int : H(r) = (a * F(r) + b * B(r)) + k * m
    BY <2>3 DEF Cong
  <2>8. PICK l \in Int : h[x] = (a * f[x] + b * g[x]) + l * m
    BY <2>6 DEF Cong
  <2>9. h[x] + H(r) = (a * (f[x] + F(r)) + b * (g[x] + B(r))) + (k + l) * m /\ k + l \in Int
    BY <2>5, <2>6, <2>7, <2>8
  <2> QED BY <2>4, <2>9 DEF Cong
<1>6. Nat \subseteq G
  <2> HIDE DEF G
  <2> QED BY <1>4, <1>5, SetInduction
<1>7. Cardinality(S) \in G
  <2> HIDE DEF G
  <2> QED BY <1>0, <1>6
<1> QED
  BY <1>7 DEF F, B, H

\* Functions that agree have the same sum.
LEMMA SumSame ==
  ASSUME NEW S, IsFiniteSet(S), NEW f, NEW g, \A x \in S : f[x] \in Int /\ g[x] = f[x]
  PROVE  SumOn(g, S) = SumOn(f, S)
<1>1. \A x \in S : /\ f[x] \in Int /\ g[x] \in Int
                   /\ Cong(g[x], 1 * f[x] + 0 * f[x], 0)
  <2> TAKE x \in S
  <2>1. f[x] \in Int /\ g[x] = (1 * f[x] + 0 * f[x]) + 0 * 0
    OBVIOUS
  <2> QED BY <2>1 DEF Cong
<1>2. Cong(SumOn(g, S), 1 * SumOn(f, S) + 0 * SumOn(f, S), 0)
  BY <1>1, SumLinear
<1>3. SumOn(f, S) \in Int /\ SumOn(g, S) \in Int
  BY <1>1, SumType
<1> QED
  BY <1>2, <1>3 DEF Cong

\* What a fold chooses to begin with does not matter for its type.
LEMMA IterType ==
  ASSUME NEW S, IsFiniteSet(S), NEW c, \A s \in SUBSET S : s # {} => c[s] \in s, NEW T, NEW f,
         f[{}] \in T, \A s \in SUBSET S : s # {} /\ f[s \ {c[s]}] \in T => f[s] \in T
  PROVE  f[S] \in T
<1> DEFINE G == {n \in Nat : \A s \in SUBSET S : Cardinality(s) = n => f[s] \in T}
<1>0. \A s \in SUBSET S : IsFiniteSet(s) /\ Cardinality(s) \in Nat
  BY FS_Subset, FS_CardinalityType
<1>1. 0 \in G
  <2>1. \A s \in SUBSET S : Cardinality(s) = 0 => s = {}
    BY <1>0, FS_EmptySet
  <2> QED BY <2>1
<1>2. ASSUME NEW n \in Nat, n \in G PROVE n + 1 \in G
  <2> SUFFICES ASSUME NEW s \in SUBSET S, Cardinality(s) = n + 1 PROVE f[s] \in T
    OBVIOUS
  <2>1. s # {}
    <3>1. Cardinality({}) = 0 /\ n + 1 # 0
      BY FS_EmptySet
    <3>2. s = {} => Cardinality(s) = Cardinality({})
      OBVIOUS
    <3> QED BY <3>1, <3>2
  <2>2. c[s] \in s /\ s \ {c[s]} \in SUBSET S
    BY <2>1
  <2>3. Cardinality(s \ {c[s]}) = n
    <3>1. IsFiniteSet(s)
      BY <1>0
    <3>2. Cardinality(s \ {c[s]}) = Cardinality(s) - 1
      BY <2>2, <3>1, FS_RemoveElement
    <3> QED BY <3>2
  <2> QED BY <1>2, <2>1, <2>2, <2>3
<1>3. Nat \subseteq G
  <2> HIDE DEF G
  <2> QED BY <1>1, <1>2, SetInduction
<1>4. Cardinality(S) \in G
  <2> HIDE DEF G
  <2> QED BY <1>0, <1>3
<1> QED
  BY <1>4

LastOf(S) == [s \in SUBSET S |-> Max(s)]

\* The last of the first numbers can be chosen.
LEMMA LastIs ==
  ASSUME NEW n \in Nat
  PROVE  /\ IsFiniteSet(1 .. n)
         /\ \A s \in SUBSET (1 .. n) : s # {} => Max(s) \in s /\ LastOf(1 .. n)[s] = Max(s)
<1>1. ASSUME NEW s \in SUBSET (1 .. n), s # {} PROVE Max(s) \in s
  <2>1. s \subseteq Nat /\ \A x \in s : x <= n
    OBVIOUS
  <2> QED BY <1>1, <2>1, MaxIs
<1>2. IsFiniteSet(1 .. n)
  BY FS_Interval
<1> QED
  BY <1>1, <1>2 DEF LastOf

\* A product of integers is an integer.
LEMMA ProductType ==
  ASSUME NEW n \in Nat, NEW xs, DOMAIN xs = 1 .. n, \A i \in 1 .. n : xs[i] \in Int
  PROVE  Product(xs) \in Int
<1> DEFINE S == 1 .. n
           c == LastOf(S)
           h == [x \in S |-> [t \in Int |-> t * xs[x]]]
           It(g) == g = [s \in SUBSET S |-> IF s = {} THEN 1 ELSE g[s \ {Max(s)}] * xs[Max(s)]]
           it == CHOOSE g : It(g)
<1>1. IsFiniteSet(S) /\ \A s \in SUBSET S : s # {} => c[s] \in s /\ c[s] = Max(s)
  BY LastIs
<1>2. h \in [S -> [Int -> Int]] /\ \A x \in S, t \in Int : h[x][t] = t * xs[x]
  OBVIOUS
<1>3. Product(xs) = it[S]
  BY Zenon DEF Product, FoldLeft, MapThenFoldSet
<1> HIDE DEF c, h
<1>4. PICK g \in [SUBSET S -> Int] : Iterates(g, S, c, 1, h)
  <2> HIDE DEF S, It, it
  <2> QED BY <1>1, <1>2, 1 \in Int, IterExists
<1>5. It(g)
  <2>1. \A s \in SUBSET S : g[s] = IF s = {} THEN 1 ELSE g[s \ {Max(s)}] * xs[Max(s)]
    <3> TAKE s \in SUBSET S
    <3>1. CASE s # {}
      <4>1. c[s] = Max(s) /\ Max(s) \in S /\ g[s \ {Max(s)}] \in Int
        BY <1>1, <3>1
      <4>2. g[s] = h[c[s]][g[s \ {c[s]}]]
        BY <1>4, <3>1 DEF Iterates
      <4> QED BY <1>2, <3>1, <4>1, <4>2
    <3>2. CASE s = {}
      BY <1>4, <3>2 DEF Iterates
    <3> QED BY <3>1, <3>2
  <2> QED BY <2>1
<1>6. It(it)
  <2> HIDE DEF It
  <2> QED BY <1>5
<1> HIDE DEF it
<1>7. \A s \in SUBSET S : it[s] = IF s = {} THEN 1 ELSE it[s \ {Max(s)}] * xs[Max(s)]
  BY <1>6, Zenon
<1>8. it[{}] \in Int /\ \A s \in SUBSET S : s # {} /\ it[s \ {c[s]}] \in Int => it[s] \in Int
  <2>1. it[{}] = 1
    BY <1>7
  <2>2. ASSUME NEW s \in SUBSET S, s # {}, it[s \ {c[s]}] \in Int PROVE it[s] \in Int
    <3>1. it[s] = it[s \ {c[s]}] * xs[c[s]] /\ c[s] \in S
      BY <1>1, <1>7, <2>2
    <3> QED BY <2>2, <3>1
  <2>3. it[{}] \in Int
    BY <2>1
  <2> QED BY <2>2, <2>3, Zenon
<1>9. it[S] \in Int
  <2> HIDE DEF S, It
  <2> QED BY <1>1, <1>8, IterType
<1> QED
  BY <1>3, <1>9

\* So is an inner product.
LEMMA InnerProdType ==
  ASSUME NEW v, NEW ins, Len(ins) \in Nat, \A i \in 1 .. Len(ins) : v[ins[i]] \in Int
  PROVE  InnerProd(v, ins) \in Int
<1> DEFINE H == Half(ins)
           S == 1 .. H
           E(i) == v[ins[i]] * v[ins[i + H]]
           c == LastOf(S)
           h == [x \in S |-> [t \in Int |-> t + E(x)]]
           is == [i \in 1 .. H |-> i]
           It(g) == g = [s \in SUBSET S |-> IF s = {} THEN 0 ELSE g[s \ {Max(s)}] + E(is[Max(s)])]
           it == CHOOSE g : It(g)
<1>0. H \in Nat /\ 2 * H <= Len(ins)
  BY DEF Half
<1> HIDE DEF H
<1>1. IsFiniteSet(S) /\ \A s \in SUBSET S : s # {} => c[s] \in s /\ c[s] = Max(s)
  BY <1>0, LastIs
<1>2. \A x \in S : E(x) \in Int /\ is[x] = x
  BY <1>0, SMTT(40)
<1>3. DOMAIN is = S
  OBVIOUS
<1> HIDE DEF E
<1>4. h \in [S -> [Int -> Int]] /\ \A x \in S, t \in Int : h[x][t] = t + E(x)
  BY <1>2
<1>5. InnerProd(v, ins) = it[S]
  BY <1>3, Zenon DEF InnerProd, FoldLeft, MapThenFoldSet, H, E
<1> HIDE DEF c, h, is
<1>6. PICK g \in [SUBSET S -> Int] : Iterates(g, S, c, 0, h)
  <2> HIDE DEF S, It, it
  <2> QED BY <1>1, <1>4, 0 \in Int, IterExists
<1>7. It(g)
  <2>1. \A s \in SUBSET S : g[s] = IF s = {} THEN 0 ELSE g[s \ {Max(s)}] + E(is[Max(s)])
    <3> TAKE s \in SUBSET S
    <3>1. CASE s # {}
      <4>1. c[s] = Max(s) /\ Max(s) \in S /\ g[s \ {Max(s)}] \in Int
        BY <1>1, <3>1
      <4>2. g[s] = h[c[s]][g[s \ {c[s]}]]
        BY <1>6, <3>1 DEF Iterates
      <4> QED BY <1>2, <1>4, <3>1, <4>1, <4>2
    <3>2. CASE s = {}
      BY <1>6, <3>2 DEF Iterates
    <3> QED BY <3>1, <3>2
  <2> QED BY <2>1
<1>8. It(it)
  <2> HIDE DEF It
  <2> QED BY <1>7
<1> HIDE DEF it
<1>9. \A s \in SUBSET S : it[s] = IF s = {} THEN 0 ELSE it[s \ {Max(s)}] + E(is[Max(s)])
  BY <1>8, Zenon
<1>10. it[{}] \in Int /\ \A s \in SUBSET S : s # {} /\ it[s \ {c[s]}] \in Int => it[s] \in Int
  <2>1. it[{}] = 0
    BY <1>9
  <2>2. ASSUME NEW s \in SUBSET S, s # {}, it[s \ {c[s]}] \in Int PROVE it[s] \in Int
    <3>1. it[s] = it[s \ {c[s]}] + E(c[s]) /\ c[s] \in S
      BY <1>1, <1>2, <1>9, <2>2
    <3> QED BY <1>2, <2>2, <3>1
  <2>3. it[{}] \in Int
    BY <2>1
  <2> QED BY <2>2, <2>3, Zenon
<1>11. it[S] \in Int
  <2> HIDE DEF S, It
  <2> QED BY <1>1, <1>10, IterType, ZenonT(60)
<1> QED
  BY <1>5, <1>11

-----------------------------------------------------------------------------
(* InTurn.  All the steps it is used with, as one operator, so that what   *)
(* holds of one loop is said once.                                         *)

Do(kind, a, s, x) ==
  CASE kind = "share"  -> RandomShareSecret(s, a, x)
    [] kind = "eqz"    -> MultKGate(s, a, x)
    [] kind = "ltz"    -> PrefixORGate(s, x)
    [] kind = "field"  -> FieldGate(a, s, x)
    [] kind = "bool"   -> BoolGate(a, s, x)
    [] kind = "give"   -> HelperShareSecret(s, "sec", x)
    [] kind = "take"   -> PartyShare(s, "sec")
    [] kind = "helper" -> HelperGate(a, s, x)
    [] kind = "party"  -> PartyGate(a, s, x)
    [] kind = "mult"   -> MultLayer(s, x)
    [] kind = "or"     -> PrefixLayer(s, x)

\* f has the states of a loop over xs that begins with start.
Steps(f, kind, a, start, xs, n) ==
  f = [i \in 0 .. n |-> IF i = 0 THEN start ELSE Do(kind, a, f[i - 1], xs[i])]

\* The states of a loop exist.
LEMMA StepsExist ==
  ASSUME NEW kind, NEW a, NEW start, NEW xs, NEW n \in Nat
  PROVE  \E f : Steps(f, kind, a, start, xs, n)
<1> DEFINE T == {i \in Nat : \E f : Steps(f, kind, a, start, xs, i)}
<1>1. 0 \in T
  <2>1. Steps([i \in 0 .. 0 |-> start], kind, a, start, xs, 0)
    BY DEF Steps
  <2> QED BY <2>1
<1>2. ASSUME NEW i \in Nat, i \in T PROVE i + 1 \in T
  <2>1. PICK f : Steps(f, kind, a, start, xs, i)
    BY <1>2
  <2>2. \A k \in 0 .. i : f[k] = IF k = 0 THEN start ELSE Do(kind, a, f[k - 1], xs[k])
    BY <2>1, Zenon DEF Steps
  <2> DEFINE g == [k \in 0 .. (i + 1) |-> IF k = i + 1 THEN Do(kind, a, f[i], xs[k]) ELSE f[k]]
  <2>3. ASSUME NEW k \in 0 .. (i + 1)
        PROVE  g[k] = IF k = 0 THEN start ELSE Do(kind, a, g[k - 1], xs[k])
    <3>1. CASE k = i + 1
      <4>1. k - 1 = i /\ k - 1 \in 0 .. (i + 1) /\ k - 1 # i + 1 /\ k # 0
        BY <3>1
      <4>2. g[k] = Do(kind, a, f[i], xs[k]) /\ g[k - 1] = f[i]
        BY <3>1, <4>1
      <4> QED BY <4>1, <4>2
    <3>2. CASE k # i + 1
      <4>1. k \in 0 .. i /\ (k # 0 => k - 1 \in 0 .. (i + 1) /\ k - 1 # i + 1)
        BY <3>2
      <4>2. g[k] = f[k] /\ (k # 0 => g[k - 1] = f[k - 1])
        BY <3>2, <4>1
      <4> QED BY <2>2, <4>1, <4>2
    <3> QED BY <3>1, <3>2
  <2>4. g = [k \in 0 .. (i + 1) |-> g[k]]
    OBVIOUS
  <2>5. Steps(g, kind, a, start, xs, i + 1)
    <3> HIDE DEF g
    <3> QED BY <2>3, <2>4, Zenon DEF Steps
  <2> QED BY <2>5
<1>3. Nat \subseteq T
  <2> HIDE DEF T
  <2> QED BY <1>1, <1>2, SetInduction
<1>4. n \in T
  <2> HIDE DEF T
  <2> QED BY <1>3
<1> QED
  BY <1>4

\* What a loop comes to: its last state.
Loop(result, kind, a, start, xs) ==
  \E f : /\ f[0] = start /\ f[Len(xs)] = result
         /\ \A n \in 1 .. Len(xs) : f[n] = Do(kind, a, f[n - 1], xs[n])

\* How InTurn, unfolded, is such a loop.
Turned(f, kind, a, start, xs) ==
  f = [n \in 0 .. Len(xs) |->
         IF n = 0 THEN start ELSE CHOOSE t \in {Do(kind, a, r, xs[n]) : r \in {f[n - 1]}} : TRUE]

\* InTurn is such a loop.
LEMMA TurnedLoop ==
  ASSUME NEW kind, NEW a, NEW start, NEW xs, Len(xs) \in Nat
  PROVE  Loop((CHOOSE f : Turned(f, kind, a, start, xs))[Len(xs)], kind, a, start, xs)
<1> DEFINE N == Len(xs)
           it == CHOOSE f : Turned(f, kind, a, start, xs)
<1>1. \A s, x : (CHOOSE t \in {Do(kind, a, r, x) : r \in {s}} : TRUE) = Do(kind, a, s, x)
  OBVIOUS
<1>2. PICK g : Steps(g, kind, a, start, xs, N)
  BY StepsExist
<1>3. Turned(g, kind, a, start, xs)
  BY <1>1, <1>2 DEF Steps, Turned
<1>4. Turned(it, kind, a, start, xs)
  BY <1>3
<1> HIDE DEF it
<1>5. \A n \in 0 .. N : it[n] = IF n = 0 THEN start ELSE CHOOSE t \in {Do(kind, a, r, xs[n]) : r \in {it[n - 1]}} : TRUE
  BY <1>4, Zenon DEF Turned
<1>6. \A n \in 0 .. N : it[n] = IF n = 0 THEN start ELSE Do(kind, a, it[n - 1], xs[n])
  BY <1>1, <1>5
<1>7. it[0] = start /\ \A n \in 1 .. N : it[n] = Do(kind, a, it[n - 1], xs[n])
  <2>1. N \in Nat
    OBVIOUS
  <2> HIDE DEF N
  <2> QED BY <1>6, <2>1
<1> QED
  BY <1>7 DEF Loop, it

\* ... and so is ShareAll.
LEMMA ShareAllLoop ==
  ASSUME NEW st, NEW r, NEW secrets, Len(secrets) \in Nat
  PROVE  Loop(ShareAll(st, r, secrets), "share", r, st, secrets)
<1>1. ShareAll(st, r, secrets) = (CHOOSE f : Turned(f, "share", r, st, secrets))[Len(secrets)]
  BY DEF ShareAll, InTurn, Turned, Do
<1> QED
  BY <1>1, TurnedLoop

\* What holds at the start of a loop and is kept by its steps holds at its end.
LEMMA LoopEnds ==
  ASSUME NEW N \in Nat, NEW G, 0 \in G, \A n \in 0 .. N - 1 : n \in G => n + 1 \in G
  PROVE  N \in G
<1> DEFINE T == {n \in Nat : n <= N => n \in G}
<1>1. 0 \in T
  OBVIOUS
<1>2. ASSUME NEW n \in Nat, n \in T PROVE n + 1 \in T
  BY <1>2
<1>3. Nat \subseteq T
  <2> HIDE DEF T
  <2> QED BY <1>1, <1>2, SetInduction
<1> QED
  BY <1>3

-----------------------------------------------------------------------------
(* Sharings whose tags add up.                                             *)

Pairs   == [val : Int, tag : Int]
Vals(s) == [h \in DOMAIN s |-> s[h].val]
Tags(s) == [h \in DOMAIN s |-> s[h].tag]

\* The sharings a dealer may have: the tags add up to the key times the secret.
\* k[r] is the key of ring r.
Sound(s, r, k)  == Cong(SumOn(Tags(s), Parties), k[r] * SumOn(Vals(s), Parties), r)
Shares(r, k) == {s \in [Parties -> Pairs] : Sound(s, r, k)}

\* Once changes no value.
LEMMA OnceIs == \A f : Once(f) = f
  BY DEF Once

\* The moduli are positive.
LEMMA RingsAre ==
  /\ 2 \in Rings /\ P \in Rings /\ P # 2 /\ Rings = {2, P}
  /\ \A r \in Rings : r \in Nat \ {0} /\ r \in Int
  BY PowersAssumption DEF Rings

\* The dealer holds the pairs of all parties, the last of which is NP.
LEMMA PartiesAre ==
  /\ IsFiniteSet(Parties) /\ Parties \subseteq Nat /\ Holders(0) = Parties
  /\ NP \in Parties /\ Parties \ {NP} = 1 .. NP - 1 /\ IsFiniteSet(Parties \ {NP})
<1>1. IsFiniteSet(Parties) /\ Parties \subseteq Nat /\ NP \in Nat \ {0, 1}
  BY DealingAssumption, FS_Interval DEF Parties
<1> QED
  BY <1>1, FS_Subset DEF Holders, Parties

\* AuthAddShare, and TPShare on it: linear combinations of sharings.
LEMMA PairsClosed ==
  ASSUME NEW a \in Pairs, NEW b \in Pairs, NEW c \in Int, NEW r \in Nat \ {0}
  PROVE  /\ PairPlus(a, b, r) \in Pairs /\ PairTimes(a, c, r) \in Pairs
         /\ Cong(PairPlus(a, b, r).val, 1 * a.val + 1 * b.val, r)
         /\ Cong(PairPlus(a, b, r).tag, 1 * a.tag + 1 * b.tag, r)
         /\ Cong(PairTimes(a, c, r).val, c * a.val + 0 * a.val, r)
         /\ Cong(PairTimes(a, c, r).tag, c * a.tag + 0 * a.tag, r)
<1>1. a.val \in Int /\ a.tag \in Int /\ b.val \in Int /\ b.tag \in Int
  BY DEF Pairs
<1>2. \A x \in Int : x % r \in Int /\ Cong(x % r, x, r)
  BY CongMod
<1>3. /\ 1 * a.val + 1 * b.val = a.val + b.val /\ 1 * a.tag + 1 * b.tag = a.tag + b.tag
      /\ c * a.val + 0 * a.val = a.val * c /\ c * a.tag + 0 * a.tag = a.tag * c
      /\ a.val + b.val \in Int /\ a.tag + b.tag \in Int /\ a.val * c \in Int /\ a.tag * c \in Int
  BY <1>1
<1> QED
  BY <1>2, <1>3 DEF PairPlus, PairTimes, Pair, Pairs

\* A combination of two sound sharings, pair by pair, is sound.
LEMMA LinearSound ==
  ASSUME NEW r \in Rings, NEW k \in [Rings -> Int],
         NEW s \in Shares(r, k), NEW t \in Shares(r, k), NEW u \in [Parties -> Pairs],
         NEW a \in Int, NEW b \in Int,
         \A h \in Parties : /\ Cong(u[h].val, a * s[h].val + b * t[h].val, r)
                               /\ Cong(u[h].tag, a * s[h].tag + b * t[h].tag, r)
  PROVE  u \in Shares(r, k)
<1>0. r \in Nat \ {0} /\ r \in Int /\ k[r] \in Int
  BY RingsAre
<1>1. s \in [Parties -> Pairs] /\ t \in [Parties -> Pairs]
  BY DEF Shares
<1>2. Sound(u, r, k)
  <2>1. /\ s \in [Parties -> Pairs] /\ t \in [Parties -> Pairs] /\ IsFiniteSet(Parties)
        /\ u \in [Parties -> Pairs]
    BY <1>1, PartiesAre
  <2> DEFINE sv == Vals(s)
             tv == Vals(t)
             uv == Vals(u)
             sg == Tags(s)
             tg == Tags(t)
             ug == Tags(u)
  <2>2. \A h \in Parties : s[h] \in Pairs /\ t[h] \in Pairs /\ u[h] \in Pairs
    BY <2>1
  <2>3. \A h \in Parties : /\ sv[h] \in Int /\ tv[h] \in Int /\ uv[h] \in Int
                           /\ Cong(uv[h], a * sv[h] + b * tv[h], r)
    <3> TAKE h \in Parties
    <3>1. sv[h] = s[h].val /\ tv[h] = t[h].val /\ uv[h] = u[h].val
      BY <2>1 DEF Vals
    <3>2. Cong(u[h].val, a * s[h].val + b * t[h].val, r)
      BY <2>1
    <3> HIDE DEF sv, tv, uv
    <3> QED BY <2>2, <3>1, <3>2 DEF Pairs
  <2>4. \A h \in Parties : /\ sg[h] \in Int /\ tg[h] \in Int /\ ug[h] \in Int
                           /\ Cong(ug[h], a * sg[h] + b * tg[h], r)
    <3> TAKE h \in Parties
    <3>1. sg[h] = s[h].tag /\ tg[h] = t[h].tag /\ ug[h] = u[h].tag
      BY <2>1 DEF Tags
    <3>2. Cong(u[h].tag, a * s[h].tag + b * t[h].tag, r)
      BY <2>1
    <3> HIDE DEF sg, tg, ug
    <3> QED BY <2>2, <3>1, <3>2 DEF Pairs
  <2> DEFINE SV == SumOn(sv, Parties)
             TV == SumOn(tv, Parties)
             UV == SumOn(uv, Parties)
             SG == SumOn(sg, Parties)
             TG == SumOn(tg, Parties)
             UG == SumOn(ug, Parties)
  <2>5. Cong(SG, k[r] * SV, r) /\ Cong(TG, k[r] * TV, r)
    BY DEF Shares, Sound
  <2> HIDE DEF sv, tv, uv, sg, tg, ug
  <2>6. SV \in Int /\ TV \in Int /\ UV \in Int /\ SG \in Int /\ TG \in Int /\ UG \in Int
    BY <2>1, <2>3, <2>4, SumType
  <2>7. Cong(UV, a * SV + b * TV, r) /\ Cong(UG, a * SG + b * TG, r)
    BY <1>0, <2>1, <2>3, <2>4, SumLinear
  <2> HIDE DEF SV, TV, UV, SG, TG, UG
  <2> DEFINE q == k[r]
  <2>8. q \in Int /\ Cong(SG, q * SV, r) /\ Cong(TG, q * TV, r)
    BY <1>0, <2>5
  <2> HIDE DEF q
  <2>9. Cong(a * SG + b * TG, a * (q * SV) + b * (q * TV), r)
    <3>1. Cong(a * SG, a * (q * SV), r) /\ Cong(b * TG, b * (q * TV), r)
      <4> DEFINE qs == q * SV
                 qt == q * TV
      <4>1. qs \in Int /\ qt \in Int /\ Cong(SG, qs, r) /\ Cong(TG, qt, r)
        BY <2>6, <2>8
      <4> HIDE DEF qs, qt
      <4>2. Cong(a * SG, a * qs, r) /\ Cong(b * TG, b * qt, r)
        BY <1>0, <2>6, <4>1, CongTimes
      <4> QED BY <4>2 DEF qs, qt
    <3>2. a * SG \in Int /\ a * (q * SV) \in Int /\ b * TG \in Int /\ b * (q * TV) \in Int
      BY <2>6, <2>8
    <3> QED BY <1>0, <3>1, <3>2, CongAdd
  <2>10. Cong(q * UV, q * (a * SV + b * TV), r)
    <3>1. a * SV + b * TV \in Int
      BY <2>6
    <3> QED BY <1>0, <2>6, <2>7, <2>8, <3>1, CongTimes
  <2>11. q * (a * SV + b * TV) = a * (q * SV) + b * (q * TV)
    BY <2>6, <2>8
  <2> DEFINE x == a * SG + b * TG
             y == a * (q * SV) + b * (q * TV)
             z == q * UV
  <2>12. x \in Int /\ y \in Int /\ z \in Int /\ Cong(UG, x, r) /\ Cong(x, y, r) /\ Cong(z, y, r)
    BY <2>6, <2>7, <2>8, <2>9, <2>10, <2>11
  <2> HIDE DEF x, y, z
  <2>13. Cong(UG, y, r) /\ Cong(y, z, r)
    BY <1>0, <2>6, <2>12, CongTrans, CongSym
  <2>14. Cong(UG, z, r)
    BY <1>0, <2>6, <2>12, <2>13, CongTrans
  <2> QED BY <2>14 DEF Sound, q, z, UG, UV, uv, ug
<1> QED
  BY <1>2 DEF Shares

\* TPShare +=
LEMMA PlusSound ==
  ASSUME NEW r \in Rings, NEW k \in [Rings -> Int],
         NEW s \in Shares(r, k), NEW t \in Shares(r, k)
  PROVE  Plus(s, t, r) \in Shares(r, k)
<1> DEFINE u == [h \in Parties |-> PairPlus(s[h], t[h], r)]
<1>0. r \in Nat \ {0}
  BY RingsAre
<1>1. s \in [Parties -> Pairs] /\ t \in [Parties -> Pairs]
  BY DEF Shares
<1>2. Plus(s, t, r) = u
  BY <1>1, OnceIs DEF Plus
<1>3. \A h \in Parties : /\ u[h] = PairPlus(s[h], t[h], r) /\ u[h] \in Pairs
                            /\ Cong(u[h].val, 1 * s[h].val + 1 * t[h].val, r)
                            /\ Cong(u[h].tag, 1 * s[h].tag + 1 * t[h].tag, r)
  BY <1>0, <1>1, 1 \in Int, PairsClosed
<1>4. u \in [Parties -> Pairs]
  BY <1>3
<1> HIDE DEF u
<1>5. u \in Shares(r, k)
  BY <1>3, <1>4, 1 \in Int, LinearSound
<1> QED
  BY <1>2, <1>5

\* TPShare *= by a ring element.
LEMMA TimesSound ==
  ASSUME NEW r \in Rings, NEW k \in [Rings -> Int],
         NEW s \in Shares(r, k), NEW c \in Int
  PROVE  Times(s, c, r) \in Shares(r, k)
<1> DEFINE u == [h \in Parties |-> PairTimes(s[h], c, r)]
<1>0. r \in Nat \ {0}
  BY RingsAre
<1>1. s \in [Parties -> Pairs]
  BY DEF Shares
<1>2. Times(s, c, r) = u
  BY <1>1, OnceIs DEF Times
<1>3. \A h \in Parties : /\ u[h] = PairTimes(s[h], c, r) /\ u[h] \in Pairs
                            /\ Cong(u[h].val, c * s[h].val + 0 * s[h].val, r)
                            /\ Cong(u[h].tag, c * s[h].tag + 0 * s[h].tag, r)
  BY <1>0, <1>1, PairsClosed
<1>4. u \in [Parties -> Pairs]
  BY <1>3
<1> HIDE DEF u
<1>5. u \in Shares(r, k)
  BY <1>3, <1>4, 0 \in Int, LinearSound
<1> QED
  BY <1>2, <1>5

\* Linear gates: the masks of their wires are sharings again.
LEMMA LinearMaskSound ==
  ASSUME NEW r \in Rings, NEW k \in [Rings -> Int], NEW g \in Gates,
         g.type \in Linear, FIn2(g) \/ ConstOp(g),
         NEW pre, \A w \in ToSet(g.ins) : pre[w].mask \in Shares(r, k)
  PROVE  LinearMask(pre, g, r) \in Shares(r, k)
<1>1. FIn2(g) \/ ConstOp(g)
  OBVIOUS
<1>2. g.ins \in Seq(Nat) /\ g.cval \in Int
  BY DEF Gates
<1>3. g.ins[1] \in ToSet(g.ins) /\ (FIn2(g) => g.ins[2] \in ToSet(g.ins))
  BY <1>1, <1>2, LenProperties DEF FIn2, ConstOp, ToSet
<1>4. pre[g.ins[1]].mask \in Shares(r, k) /\ (FIn2(g) => pre[g.ins[2]].mask \in Shares(r, k))
  BY <1>3
<1>5. CASE g.type = "Add"
  <2>1. FIn2(g)
    BY <1>1, <1>5 DEF ConstOp
  <2>2. LinearMask(pre, g, r) = Plus(pre[g.ins[1]].mask, pre[g.ins[2]].mask, r)
    BY <1>5 DEF LinearMask
  <2> QED BY <1>4, <2>1, <2>2, PlusSound
<1>6. CASE g.type = "Sub"
  <2>1. FIn2(g)
    BY <1>1, <1>6 DEF ConstOp
  <2>2. LinearMask(pre, g, r)
          = Plus(pre[g.ins[1]].mask, Times(pre[g.ins[2]].mask, -1, r), r)
    BY <1>6 DEF LinearMask, Minus
  <2>3. Times(pre[g.ins[2]].mask, -1, r) \in Shares(r, k)
    BY <1>4, <2>1, -1 \in Int, TimesSound
  <2> QED BY <1>4, <2>2, <2>3, PlusSound
<1>7. CASE g.type = "ConstAdd"
  BY <1>4, <1>7 DEF LinearMask
<1>8. CASE g.type = "ConstMul"
  <2>1. LinearMask(pre, g, r) = Times(pre[g.ins[1]].mask, g.cval, r)
    BY <1>8 DEF LinearMask
  <2> QED BY <1>2, <1>4, <2>1, TimesSound
<1> QED
  BY <1>5, <1>6, <1>7, <1>8 DEF Linear

-----------------------------------------------------------------------------
(* The state of the dealer.                                                *)

\* The fields of Fresh.
IsNode(st) ==
  st = [id |-> st.id, seed |-> st.seed, pos |-> st.pos, key |-> st.key, vec |-> st.vec,
        idx |-> st.idx, made |-> st.made, inner |-> st.inner, pre |-> st.pre]

\* st is a state of the dealer, with the keys k.
Deals(st, k) ==
  /\ IsNode(st) /\ st.id = 0 /\ st.seed \in Nat /\ st.pos \in [Streams -> Nat]
  /\ st.key \in [Rings -> [Parties -> Int]] /\ \A r \in Rings : MacKey(st, r) = k[r]

\* From st to t, one more sharing of ring r has been made.
Makes(st, t, r, k) ==
  /\ Deals(t, k) /\ t.inner = st.inner /\ t.pre = st.pre
  /\ \E s \in Shares(r, k) : t.made = Append(st.made, s)

\* The draws are numbers.
PrgTyped == \A seed, s, i \in Nat : Prg(seed, s, i) \in Int

\* The streams the dealer draws from.
LEMMA StreamsAre ==
  /\ Streams \subseteq Nat /\ Parties \subseteq Streams /\ AllStream \in Streams
  /\ SelfStream(0) \in Streams
BY DealingAssumption DEF Streams, SelfStream, AllStream, Parties

\* A draw is an integer.
LEMMA DrawType ==
  ASSUME PrgTyped, NEW st, st.seed \in Nat, st.pos \in [Streams -> Nat], NEW s \in Streams,
         NEW i \in Nat, NEW r \in Rings
  PROVE  DrawAt(st, s, i, r) \in Int
<1>1. s \in Nat /\ st.pos[s] + i \in Nat
  BY StreamsAre
<1>2. Prg(st.seed, s, st.pos[s] + i) \in Int
  BY <1>1 DEF PrgTyped
<1> QED
  BY <1>2, RingsAre, CongMod DEF DrawAt

\* A node that differs from a dealer in pos, vec, idx, made, inner and pre only.
LEMMA DealsOn ==
  ASSUME NEW st, NEW k, Deals(st, k), NEW t, IsNode(t), t.id = st.id, t.seed = st.seed,
         t.key = st.key, t.pos \in [Streams -> Nat]
  PROVE  Deals(t, k)
BY DEF Deals, MacKey

\* Draws move the streams, nothing else.
LEMMA AdvanceIs ==
  ASSUME NEW st, NEW k, Deals(st, k), NEW S, NEW c \in Nat
  PROVE  /\ Deals(Advance(st, S, c), k) /\ Advance(st, S, c).made = st.made
         /\ Advance(st, S, c).inner = st.inner /\ Advance(st, S, c).pre = st.pre
         /\ Advance(st, S, c).vec = st.vec /\ Advance(st, S, c).seed = st.seed
         /\ Advance(st, S, c).key = st.key
<1> DEFINE pos == [s \in Streams |-> IF s \in S THEN st.pos[s] + c ELSE st.pos[s]]
           t == [st EXCEPT !.pos = pos]
<1>1. IsNode(st) /\ st.pos \in [Streams -> Nat]
  BY DEF Deals
<1>2. pos \in [Streams -> Nat]
  BY <1>1
<1>3. Advance(st, S, c) = t
  BY <1>1, OnceIs DEF Advance
<1> HIDE DEF pos
<1>4. /\ IsNode(t) /\ t.pos = pos /\ t.made = st.made /\ t.inner = st.inner /\ t.pre = st.pre
      /\ t.vec = st.vec /\ t.seed = st.seed /\ t.key = st.key /\ t.id = st.id
  BY <1>1 DEF IsNode
<1> HIDE DEF t
<1> QED
  BY <1>2, <1>3, <1>4, DealsOn

\* Make appends a sharing, and changes nothing else.
LEMMA MakeIs ==
  ASSUME NEW st, NEW k, Deals(st, k), NEW share
  PROVE  /\ Deals(Make(st, share), k) /\ Make(st, share).made = Append(st.made, share)
         /\ Make(st, share).inner = st.inner /\ Make(st, share).pre = st.pre
<1> DEFINE a == Make(st, share)
<1>1. /\ IsNode(a) /\ a.made = Append(st.made, share) /\ a.inner = st.inner /\ a.pre = st.pre
      /\ a.id = st.id /\ a.seed = st.seed /\ a.key = st.key /\ a.pos = st.pos
  <2>1. IsNode(st) /\ Once(share) = share
    BY OnceIs DEF Deals
  <2> QED BY <2>1 DEF IsNode, Make
<1> HIDE DEF a
<1>2. Deals(a, k)
  <2>1. a.pos \in [Streams -> Nat]
    BY <1>1 DEF Deals
  <2> QED BY <1>1, <2>1, DealsOn
<1> QED
  BY <1>1, <1>2 DEF a

\* All ways to make a sharing end like this.
LEMMA PushMakes ==
  ASSUME NEW st, NEW k, Deals(st, k), NEW r, NEW share \in Shares(r, k), NEW S, NEW c \in Nat,
         NEW v, NEW xs, NEW q
  PROVE  Makes(st, ForNP(Advance(Make(st, share), S, c), q, v, xs), r, k)
<1> DEFINE a == Make(st, share)
           b == Advance(a, S, c)
<1>1. /\ Deals(a, k) /\ a.made = Append(st.made, share) /\ a.inner = st.inner
      /\ a.pre = st.pre
  BY MakeIs
<1> HIDE DEF a
<1>3. Deals(b, k) /\ b.made = a.made /\ b.inner = a.inner /\ b.pre = a.pre
  BY <1>1, AdvanceIs
<1> HIDE DEF b
<1> DEFINE new == b.vec[q][v] \o xs
           d == [b EXCEPT !.vec[q][v] = new]
<1> HIDE DEF new
<1>4. ForNP(b, q, v, xs) = d
  <2>1. b.id = 0
    BY <1>3 DEF Deals
  <2>2. 0 # NP
    BY DealingAssumption
  <2> QED BY <2>1, <2>2, Zenon DEF ForNP, new
<1>5. /\ IsNode(d) /\ d.made = b.made /\ d.inner = b.inner /\ d.pre = b.pre
      /\ d.id = b.id /\ d.seed = b.seed /\ d.key = b.key /\ d.pos = b.pos
  <2>1. IsNode(b)
    BY <1>3 DEF Deals
  <2> QED BY <2>1 DEF IsNode
<1> HIDE DEF d
<1>6. Deals(d, k)
  <2>1. d.pos \in [Streams -> Nat]
    BY <1>3, <1>5 DEF Deals
  <2> QED BY <1>3, <1>5, <2>1, DealsOn
<1>7. ForNP(Advance(Make(st, share), S, c), q, v, xs) = d
  BY <1>4 DEF a, b
<1> QED
  BY <1>1, <1>3, <1>5, <1>6, <1>7 DEF Makes

\* Party NP gets what is left of a sum.
LEMMA RestOf ==
  ASSUME NEW a \in Int, NEW b \in Int, NEW r \in Nat \ {0}
  PROVE  (a - b) % r \in Int /\ Cong(((a - b) % r) + b, a, r)
<1>1. a - b \in Int /\ (a - b) % r \in Int /\ Cong((a - b) % r, a - b, r) /\ r \in Int
  BY CongMod
<1>2. Cong(b, b, r)
  BY <1>1, CongRefl
<1> DEFINE c == (a - b) % r
           d == a - b
<1>3. c \in Int /\ d \in Int /\ Cong(c, d, r) /\ d + b = a
  BY <1>1
<1> HIDE DEF c, d
<1>4. Cong(c + b, d + b, r)
  BY <1>1, <1>2, <1>3, CongAdd
<1> QED
  BY <1>3, <1>4 DEF c

\* The last party's pair makes the sums of value and tag right.
LEMMA LastSound ==
  ASSUME NEW r \in Rings, NEW k \in [Rings -> Int], NEW s \in [Parties -> Pairs],
         NEW secret \in Int,
         Cong(s[NP].val + SumOn(Vals(s), Parties \ {NP}), secret, r),
         Cong(s[NP].tag + SumOn(Tags(s), Parties \ {NP}), k[r] * secret, r)
  PROVE  s \in Shares(r, k)
<1> DEFINE H == Parties \ {NP}
           vals == Vals(s)
           tags == Tags(s)
           key == k[r]
<1>1. r \in Int /\ key \in Int /\ IsFiniteSet(Parties) /\ NP \in Parties
  BY RingsAre, PartiesAre
<1>2. \A h \in Parties : /\ vals[h] = s[h].val /\ tags[h] = s[h].tag
                         /\ vals[h] \in Int /\ tags[h] \in Int
  <2> TAKE h \in Parties
  <2>1. s[h] \in Pairs
    OBVIOUS
  <2>2. vals[h] = s[h].val /\ tags[h] = s[h].tag
    BY DEF Vals, Tags
  <2> QED BY <2>1, <2>2 DEF Pairs
<1> HIDE DEF vals, tags, key
<1>3. /\ SumOn(vals, Parties) = vals[NP] + SumOn(vals, H)
      /\ SumOn(tags, Parties) = tags[NP] + SumOn(tags, H)
  BY <1>1, <1>2, SumPick
<1>4. SumOn(vals, Parties) \in Int /\ SumOn(tags, Parties) \in Int
  BY <1>1, <1>2, SumType
<1> DEFINE V == SumOn(vals, Parties)
           T == SumOn(tags, Parties)
<1>5. Cong(V, secret, r) /\ Cong(T, key * secret, r)
  BY <1>1, <1>2, <1>3 DEF vals, tags, key
<1>6. V \in Int /\ T \in Int
  BY <1>4
<1> HIDE DEF V, T
<1>7. Cong(key * V, key * secret, r)
  BY <1>1, <1>5, <1>6, CongTimes
<1> DEFINE a == key * V
           b == key * secret
<1>8. a \in Int /\ b \in Int /\ Cong(a, b, r) /\ Cong(T, b, r)
  BY <1>1, <1>5, <1>6, <1>7
<1> HIDE DEF a, b
<1>9. Cong(b, a, r)
  BY <1>1, <1>8, CongSym
<1>10. Cong(T, a, r)
  BY <1>1, <1>6, <1>8, <1>9, CongTrans
<1> QED
  BY <1>10 DEF Shares, Sound, a, key, T, V, vals, tags

\* The last pair makes the values add up to the secret and the tags to its tag.
LEMMA SharedSound ==
  ASSUME NEW r \in Rings, NEW k \in [Rings -> Int], NEW secret \in Int,
         NEW val \in [Parties \ {NP} -> Int], NEW tag \in [Parties \ {NP} -> Int],
         NEW s, s = [h \in Parties |->
                       IF h = NP THEN Pair((secret - SumFunction(val)) % r,
                                           (k[r] * secret - SumFunction(tag)) % r)
                       ELSE Pair(val[h], tag[h])]
  PROVE  s \in Shares(r, k)
<1> DEFINE H == Parties \ {NP}
           V == SumOn(val, H)
           T == SumOn(tag, H)
           c == k[r] * secret
<1>1. r \in Nat \ {0} /\ c \in Int /\ IsFiniteSet(H) /\ NP \in Parties
  BY RingsAre, PartiesAre
<1>2. V \in Int /\ T \in Int
  BY <1>1, SumType
<1>3. SumFunction(val) = V /\ SumFunction(tag) = T
  BY DEF SumFunction, SumFunctionOnSet, SumOn
<1> HIDE DEF V, T, c
<1>4. /\ (secret - V) % r \in Int /\ Cong(((secret - V) % r) + V, secret, r)
      /\ (c - T) % r \in Int /\ Cong(((c - T) % r) + T, c, r)
  BY <1>1, <1>2, RestOf
<1>5. s = [h \in Parties |-> IF h = NP THEN Pair((secret - V) % r, (c - T) % r)
                              ELSE Pair(val[h], tag[h])]
  BY <1>3 DEF c
<1>6. s[NP] = Pair((secret - V) % r, (c - T) % r) /\ \A h \in H : s[h] = Pair(val[h], tag[h])
  BY <1>1, <1>5
<1>7. s \in [Parties -> Pairs]
  BY <1>1, <1>4, <1>5 DEF Pairs, Pair
<1>8. \A h \in H : /\ val[h] \in Int /\ tag[h] \in Int
                   /\ Vals(s)[h] = val[h] /\ Tags(s)[h] = tag[h]
  BY <1>6, <1>7 DEF Vals, Tags, Pair
<1>9. SumOn(Vals(s), H) = V /\ SumOn(Tags(s), H) = T
  <2> DEFINE vals == Vals(s)
             tags == Tags(s)
  <2>1. \A h \in H : vals[h] = val[h] /\ tags[h] = tag[h] /\ val[h] \in Int /\ tag[h] \in Int
    BY <1>8
  <2> HIDE DEF vals, tags
  <2>2. SumOn(vals, H) = SumOn(val, H) /\ SumOn(tags, H) = SumOn(tag, H)
    BY <1>1, <2>1, SumSame
  <2> QED BY <2>2 DEF V, T, vals, tags
<1>10. s[NP].val = (secret - V) % r /\ s[NP].tag = (c - T) % r
  BY <1>6 DEF Pair
<1>11. /\ Cong(s[NP].val + SumOn(Vals(s), Parties \ {NP}), secret, r)
       /\ Cong(s[NP].tag + SumOn(Tags(s), Parties \ {NP}), k[r] * secret, r)
  BY <1>4, <1>9, <1>10 DEF c
<1> QED
  BY <1>7, <1>11, LastSound

\* Only the tag of NP makes up for the others: the secret is what the values add up to.
LEMMA RandomSound ==
  ASSUME NEW r \in Rings, NEW k \in [Rings -> Int],
         NEW val \in [Parties -> Int], NEW tag \in [Parties -> Int],
         NEW s, s = [h \in Parties |->
                       Pair(val[h], IF h = NP
                                    THEN (k[r] * SumFunction(val)
                                            - SumFunctionOnSet(tag, Parties \ {NP})) % r
                                    ELSE tag[h])]
  PROVE  s \in Shares(r, k)
<1> DEFINE H == Parties \ {NP}
           V == SumOn(val, Parties)
           W == SumOn(val, H)
           T == SumOn(tag, H)
           c == k[r] * V
<1>1. r \in Nat \ {0} /\ k[r] \in Int /\ IsFiniteSet(H) /\ IsFiniteSet(Parties) /\ NP \in Parties
  BY RingsAre, PartiesAre
<1>2. V \in Int /\ T \in Int /\ W \in Int
  <2>1. \A h \in H : val[h] \in Int /\ tag[h] \in Int
    OBVIOUS
  <2>2. \A h \in Parties : val[h] \in Int
    OBVIOUS
  <2> QED BY <1>1, <2>1, <2>2, SumType
<1>3. SumFunction(val) = V /\ SumFunctionOnSet(tag, H) = T
  BY DEF SumFunction, SumFunctionOnSet, SumOn
<1>4. V = val[NP] + W
  <2>1. \A h \in Parties : val[h] \in Int
    OBVIOUS
  <2> QED BY <1>1, <2>1, SumPick
<1> HIDE DEF V, T, W
<1>5. c \in Int
  BY <1>1, <1>2
<1> DEFINE last == (c - T) % r
<1>6. s = [h \in Parties |-> Pair(val[h], IF h = NP THEN last ELSE tag[h])]
  BY <1>3
<1> HIDE DEF c
<1>7. last \in Int /\ Cong(last + T, c, r)
  BY <1>1, <1>2, <1>5, RestOf
<1> HIDE DEF last
<1>8. s[NP] = Pair(val[NP], last) /\ \A h \in H : s[h] = Pair(val[h], tag[h])
  BY <1>1, <1>6
<1>9. s \in [Parties -> Pairs]
  <2>1. \A h \in Parties : Pair(val[h], IF h = NP THEN last ELSE tag[h]) \in Pairs
    BY <1>7 DEF Pairs, Pair
  <2> QED BY ONLY <1>6, <2>1
<1>10. SumOn(Vals(s), H) = W /\ SumOn(Tags(s), H) = T
  <2> DEFINE vals == Vals(s)
             tags == Tags(s)
  <2>1. \A h \in H : vals[h] = val[h] /\ tags[h] = tag[h] /\ val[h] \in Int /\ tag[h] \in Int
    BY <1>8, <1>9 DEF Vals, Tags, Pair
  <2> HIDE DEF vals, tags
  <2>2. SumOn(vals, H) = SumOn(val, H) /\ SumOn(tags, H) = SumOn(tag, H)
    BY <1>1, <2>1, SumSame
  <2> QED BY <2>2 DEF W, T, vals, tags
<1>11. s[NP].val = val[NP] /\ s[NP].tag = last
  BY ONLY <1>8 DEF Pair
<1>12. Cong(s[NP].val + SumOn(Vals(s), H), V, r)
  <2>1. r \in Int
    BY <1>1
  <2> QED BY <1>2, <1>4, <1>10, <1>11, <2>1, CongRefl
<1>13. Cong(s[NP].tag + SumOn(Tags(s), H), k[r] * V, r)
  BY <1>7, <1>10, <1>11 DEF c
<1> QED
  BY <1>2, <1>9, <1>12, <1>13, LastSound

\* randomShare makes a sound sharing.
LEMMA RandomShareMakes ==
  ASSUME PrgTyped, NEW k \in [Rings -> Int], NEW st, Deals(st, k), NEW r \in Rings
  PROVE  Makes(st, RandomShare(st, r), r, k)
<1> DEFINE val == [h \in Parties |-> DrawAt(st, h, 0, r)]
           tag == [h \in Parties |-> DrawAt(st, h, 1, r)]
           tagn == (k[r] * SumFunction(val) - SumFunctionOnSet(tag, Parties \ {NP})) % r
           s == [h \in Parties |-> Pair(val[h], IF h = NP THEN tagn ELSE tag[h])]
<1>1. \A h \in Parties : DrawAt(st, h, 0, r) \in Int /\ DrawAt(st, h, 1, r) \in Int
  <2>1. 0 \in Nat /\ 1 \in Nat /\ st.seed \in Nat /\ st.pos \in [Streams -> Nat] /\ Parties \subseteq Streams
    BY StreamsAre DEF Deals
  <2> QED BY <2>1, DrawType
<1>2. val \in [Parties -> Int] /\ tag \in [Parties -> Int]
  BY <1>1
<1>3. s \in Shares(r, k)
  <2> HIDE DEF val, tag
  <2> QED BY <1>2, RandomSound
<1>4. st.id = 0 /\ MacKey(st, r) = k[r] /\ Holders(0) = Parties
  BY PartiesAre DEF Deals
<1>5. RandomShare(st, r) = ForNP(Advance(Make(st, s), Parties, 2), r, "sh", <<tagn>>)
  BY <1>4, Zenon DEF RandomShare
<1> HIDE DEF s, tagn
<1>6. 2 \in Nat
  OBVIOUS
<1> QED
  BY <1>3, <1>5, <1>6, PushMakes

\* So does a sharing of a given secret,
LEMMA SharedByMakes ==
  ASSUME PrgTyped, NEW k \in [Rings -> Int], NEW st, Deals(st, k), NEW r \in Rings, NEW v,
         NEW secret \in Int
  PROVE  Makes(st, SharedBy(st, r, v, secret), r, k)
<1> DEFINE H == Parties \ {NP}
           val == [h \in H |-> DrawAt(st, h, 0, r)]
           tag == [h \in H |-> DrawAt(st, h, 1, r)]
           last == Pair((secret - SumFunction(val)) % r, (k[r] * secret - SumFunction(tag)) % r)
           s == [h \in Parties |-> IF h = NP THEN last ELSE Pair(val[h], tag[h])]
<1>1. \A h \in H : DrawAt(st, h, 0, r) \in Int /\ DrawAt(st, h, 1, r) \in Int
  <2>1. 0 \in Nat /\ 1 \in Nat /\ st.seed \in Nat /\ st.pos \in [Streams -> Nat] /\ H \subseteq Streams
    BY StreamsAre DEF Deals
  <2> QED BY <2>1, DrawType
<1>2. val \in [H -> Int] /\ tag \in [H -> Int]
  BY <1>1
<1>3. s \in Shares(r, k)
  <2> HIDE DEF val, tag
  <2> QED BY <1>2, SharedSound, ZenonT(60)
<1>4. st.id = 0 /\ MacKey(st, r) = k[r] /\ Holders(0) = Parties
  BY PartiesAre DEF Deals
<1>5. SharedBy(st, r, v, secret) = ForNP(Advance(Make(st, s), H, 2), r, v, <<last.val, last.tag>>)
  BY <1>4, Zenon DEF SharedBy
<1> HIDE DEF s, last
<1>6. 2 \in Nat
  OBVIOUS
<1> QED
  BY <1>3, <1>5, <1>6, PushMakes

\* randomShareSecret,
LEMMA RandomShareSecretMakes ==
  ASSUME PrgTyped, NEW k \in [Rings -> Int], NEW st, Deals(st, k), NEW r \in Rings,
         NEW secret \in Int
  PROVE  Makes(st, RandomShareSecret(st, r, secret), r, k)
BY SharedByMakes DEF RandomShareSecret

\* randomShareWithParty,
LEMMA RandomShareWithPartyMakes ==
  ASSUME PrgTyped, NEW k \in [Rings -> Int], NEW st, Deals(st, k), NEW r \in Rings,
         NEW owner \in Nodes
  PROVE  /\ Makes(st, RandomShareWithParty(st, r, owner), r, k)
         /\ Owned(st, owner, r) \in Int
<1> DEFINE t == Advance(st, {OwnerStream(owner)}, 1)
           secret == Owned(st, owner, r)
<1>1. /\ st.id = 0 /\ st.seed \in Nat /\ st.pos \in [Streams -> Nat]
      /\ 0 \in Nat /\ OwnerStream(owner) \in Streams
  BY StreamsAre DEF Deals, OwnerStream, Nodes, Parties
<1>2. secret \in Int
  <2>1. secret = DrawAt(st, OwnerStream(owner), 0, r)
    BY <1>1 DEF Owned
  <2> QED BY <1>1, <2>1, DrawType
<1>3. Deals(t, k) /\ t.made = st.made /\ t.inner = st.inner /\ t.pre = st.pre
  <2>1. 1 \in Nat
    OBVIOUS
  <2> QED BY <2>1, AdvanceIs
<1>4. RandomShareWithParty(st, r, owner) = SharedBy(t, r, "party", secret)
  BY <1>1 DEF RandomShareWithParty
<1> HIDE DEF t, secret
<1>5. Makes(t, SharedBy(t, r, "party", secret), r, k)
  BY <1>2, <1>3, SharedByMakes
<1> QED
  BY <1>2, <1>3, <1>4, <1>5 DEF Makes, secret

\* The helper of assistedMPC makes its sharings the same way.
LEMMA HelperShareSecretMakes ==
  ASSUME PrgTyped, NEW k \in [Rings -> Int], NEW st, Deals(st, k), NEW v, NEW secret \in Int
  PROVE  Makes(st, HelperShareSecret(st, v, secret), P, k)
<1> DEFINE H == 1 .. NP - 1
           S == SelfStream(0)
           val == [i \in H |-> DrawAt(st, S, 2 * i - 2, P)]
           tag == [i \in H |-> DrawAt(st, S, 2 * i - 1, P)]
           drawn == [i \in H |-> Pair(DrawAt(st, S, 2 * i - 2, P), DrawAt(st, S, 2 * i - 1, P))]
           last == Pair((secret - SumFunction([i \in DOMAIN drawn |-> drawn[i].val])) % P,
                        (MacKey(st, P) * secret - SumFunction([i \in DOMAIN drawn |-> drawn[i].tag])) % P)
           s == [i \in Parties |-> IF i = NP THEN last ELSE drawn[i]]
           a == Make(st, s)
           b == Advance(a, {S}, 2 * (NP - 1))
           c == [b EXCEPT !.vec = [p \in Parties |-> Given(@[p], v, s[p])]]
<1>0. P \in Rings /\ H = Parties \ {NP}
  BY RingsAre, PartiesAre
<1>7. MacKey(st, P) = k[P]
  BY <1>0 DEF Deals
<1>1. \A i \in H : DrawAt(st, S, 2 * i - 2, P) \in Int /\ DrawAt(st, S, 2 * i - 1, P) \in Int
  <2>1. st.seed \in Nat /\ st.pos \in [Streams -> Nat] /\ S \in Streams
    BY StreamsAre DEF Deals
  <2>2. \A i \in H : 2 * i - 2 \in Nat /\ 2 * i - 1 \in Nat
    BY DealingAssumption
  <2> QED BY <1>0, <2>1, <2>2, DrawType
<1>2. val \in [Parties \ {NP} -> Int] /\ tag \in [Parties \ {NP} -> Int]
  BY <1>0, <1>1
<1>3. /\ [i \in DOMAIN drawn |-> drawn[i].val] = val
      /\ [i \in DOMAIN drawn |-> drawn[i].tag] = tag
  BY DEF Pair
<1>4. \A i \in H : drawn[i] = Pair(val[i], tag[i])
  OBVIOUS
<1>5. s = [h \in Parties |-> IF h = NP THEN Pair((secret - SumFunction(val)) % P,
                                                 (k[P] * secret - SumFunction(tag)) % P)
                             ELSE Pair(val[h], tag[h])]
  <2>1. last = Pair((secret - SumFunction(val)) % P, (k[P] * secret - SumFunction(tag)) % P)
    BY <1>3, <1>7, Zenon
  <2>2. \A h \in Parties : h # NP => h \in H
    BY <1>0
  <2> HIDE DEF last, val, tag, drawn
  <2> QED BY <1>4, <2>1, <2>2
<1>6. s \in Shares(P, k)
  <2> HIDE DEF val, tag, s
  <2> QED BY <1>0, <1>2, <1>5, SharedSound, ZenonT(60)
<1>8. HelperShareSecret(st, v, secret) = c
  BY Zenon DEF HelperShareSecret
<1> HIDE DEF s
<1>9. /\ Deals(a, k) /\ a.made = Append(st.made, s) /\ a.inner = st.inner
      /\ a.pre = st.pre
  BY MakeIs
<1> HIDE DEF a
<1>11. Deals(b, k) /\ b.made = a.made /\ b.inner = a.inner /\ b.pre = a.pre
  <2>1. 2 * (NP - 1) \in Nat
    BY DealingAssumption
  <2> QED BY <1>9, <2>1, AdvanceIs
<1> HIDE DEF b
<1> DEFINE new == [p \in Parties |-> Given(b.vec[p], v, s[p])]
           d == [b EXCEPT !.vec = new]
<1>12. c = d
  OBVIOUS
<1> HIDE DEF new, c
<1>13. /\ IsNode(d) /\ d.made = b.made /\ d.inner = b.inner /\ d.pre = b.pre
       /\ d.id = b.id /\ d.seed = b.seed /\ d.key = b.key /\ d.pos = b.pos
  <2>1. IsNode(b)
    BY <1>11 DEF Deals
  <2> QED BY <2>1 DEF IsNode
<1> HIDE DEF d
<1>14. Deals(d, k)
  <2>1. d.pos \in [Streams -> Nat]
    BY <1>11, <1>13 DEF Deals
  <2> QED BY <1>11, <1>13, <2>1, DealsOn
<1> QED
  BY <1>6, <1>8, <1>9, <1>11, <1>12, <1>13, <1>14 DEF Makes

\* randomShare_Helper,
LEMMA HelperShareMakes ==
  ASSUME PrgTyped, NEW k \in [Rings -> Int], NEW st, Deals(st, k)
  PROVE  Makes(st, HelperShare(st), P, k)
<1> DEFINE t == Advance(st, {SelfStream(0)}, 1)
           secret == DrawAt(st, SelfStream(0), 0, P)
<1>1. secret \in Int
  <2>1. st.seed \in Nat /\ st.pos \in [Streams -> Nat] /\ SelfStream(0) \in Streams /\ 0 \in Nat
    BY StreamsAre DEF Deals
  <2> QED BY <2>1, RingsAre, DrawType
<1>2. Deals(t, k) /\ t.made = st.made /\ t.inner = st.inner /\ t.pre = st.pre
  <2>1. 1 \in Nat
    OBVIOUS
  <2> QED BY <2>1, AdvanceIs
<1>3. HelperShare(st) = HelperShareSecret(t, "sh", secret)
  BY DEF HelperShare
<1> HIDE DEF t, secret
<1>4. Makes(t, HelperShareSecret(t, "sh", secret), P, k)
  BY <1>1, <1>2, HelperShareSecretMakes
<1> QED
  BY <1>2, <1>3, <1>4 DEF Makes

\* and randomShareWithParty_Helper.
LEMMA HelperShareWithPartyMakes ==
  ASSUME PrgTyped, NEW k \in [Rings -> Int], NEW st, Deals(st, k), NEW owner
  PROVE  Makes(st, HelperShareWithParty(st, owner), P, k)
<1> DEFINE t == Advance(st, {SelfStream(0)}, 1)
           secret == DrawAt(st, SelfStream(0), 0, P)
           b == HelperShareSecret(t, "party", secret)
           d == [b EXCEPT !.vec[owner].party = Append(@, secret)]
<1>1. secret \in Int
  <2>1. st.seed \in Nat /\ st.pos \in [Streams -> Nat] /\ SelfStream(0) \in Streams /\ 0 \in Nat
    BY StreamsAre DEF Deals
  <2> QED BY <2>1, RingsAre, DrawType
<1>2. Deals(t, k) /\ t.made = st.made /\ t.inner = st.inner /\ t.pre = st.pre
  <2>1. 1 \in Nat
    OBVIOUS
  <2> QED BY <2>1, AdvanceIs
<1>3. HelperShareWithParty(st, owner) = d
  BY Zenon DEF HelperShareWithParty
<1> HIDE DEF t, secret
<1>4. Makes(t, b, P, k)
  BY <1>1, <1>2, HelperShareSecretMakes
<1> HIDE DEF b
<1> DEFINE new == Append(b.vec[owner].party, secret)
           e == [b EXCEPT !.vec[owner].party = new]
<1>5. d = e
  OBVIOUS
<1> HIDE DEF new, d
<1>6. /\ IsNode(e) /\ e.made = b.made /\ e.inner = b.inner /\ e.pre = b.pre
      /\ e.id = b.id /\ e.seed = b.seed /\ e.key = b.key /\ e.pos = b.pos
  <2>1. IsNode(b)
    BY <1>4 DEF Deals, Makes
  <2> QED BY <2>1 DEF IsNode
<1> HIDE DEF e
<1>7. Deals(e, k)
  <2>1. Deals(b, k) /\ e.pos \in [Streams -> Nat]
    BY <1>4, <1>6 DEF Deals, Makes
  <2> QED BY <1>6, <2>1, DealsOn
<1> QED
  BY <1>2, <1>3, <1>4, <1>5, <1>6, <1>7 DEF Makes

\* Before the key setup the keys are zero, after it they are drawn.
LEMMA AnyKeys ==
  ASSUME NEW st, IsNode(st), st.id = 0, st.seed \in Nat, st.pos \in [Streams -> Nat],
         st.key \in [Rings -> [Parties -> Int]]
  PROVE  \E k \in [Rings -> Int] : Deals(st, k)
<1> DEFINE k == [r \in Rings |-> MacKey(st, r)]
<1>1. \A r \in Rings : MacKey(st, r) \in Int
  <2> TAKE r \in Rings
  <2> DEFINE f == st.key[r]
  <2>1. f \in [Parties -> Int] /\ IsFiniteSet(Parties) /\ r \in Nat \ {0}
    BY PartiesAre, RingsAre
  <2>2. SumFunction(f) = SumOn(f, Parties)
    BY <2>1 DEF SumFunction, SumFunctionOnSet, SumOn
  <2> HIDE DEF f
  <2>3. \A p \in Parties : f[p] \in Int
    BY <2>1
  <2>4. SumFunction(f) \in Int
    BY <2>1, <2>2, <2>3, SumType
  <2> QED BY <2>1, <2>4, CongMod, SMTT(40) DEF MacKey, f
<1>2. k \in [Rings -> Int]
  BY <1>1
<1>3. Deals(st, k)
  BY DEF Deals
<1> QED
  BY <1>2, <1>3

\* The dealer begins with no sharings.
LEMMA FreshDeals ==
  ASSUME NEW seed \in Nat
  PROVE  /\ \E k \in [Rings -> Int] : Deals(Fresh(0, seed), k)
         /\ \E k \in [Rings -> Int] : Deals(AssistedFresh(0, seed), k)
         /\ Fresh(0, seed).made = <<>> /\ Fresh(0, seed).inner = <<>> /\ Fresh(0, seed).pre = <<>>
         /\ AssistedFresh(0, seed).made = <<>> /\ AssistedFresh(0, seed).inner = <<>>
         /\ AssistedFresh(0, seed).pre = <<>>
<1> DEFINE st == Fresh(0, seed)
           as == AssistedFresh(0, seed)
           pos == [s \in Streams |-> 0]
           key == [r \in Rings |-> [h \in Parties |-> 0]]
<1>1. pos \in [Streams -> Nat] /\ key \in [Rings -> [Parties -> Int]]
  OBVIOUS
<1>2. /\ IsNode(st) /\ st.id = 0 /\ st.seed = seed /\ st.pos = pos /\ st.key = key
      /\ st.made = <<>> /\ st.inner = <<>> /\ st.pre = <<>>
  BY PartiesAre DEF Fresh, IsNode
<1>3. as = [st EXCEPT !.vec = [p \in Parties |-> Vectors], !.idx = [sh |-> 0, sec |-> 0, party |-> 0]]
  BY DEF AssistedFresh
<1> HIDE DEF pos, key, st
<1>4. /\ IsNode(as) /\ as.id = 0 /\ as.seed = seed /\ as.pos = pos /\ as.key = key
      /\ as.made = <<>> /\ as.inner = <<>> /\ as.pre = <<>>
  <2> DEFINE vec == [p \in Parties |-> Vectors]
             idx == [sh |-> 0, sec |-> 0, party |-> 0]
  <2> HIDE DEF vec, idx
  <2>1. as = [st EXCEPT !.vec = vec, !.idx = idx]
    BY <1>3 DEF vec, idx
  <2> HIDE DEF as
  <2> QED BY <1>2, <2>1 DEF IsNode
<1> HIDE DEF as
<1>5. (\E k \in [Rings -> Int] : Deals(st, k)) /\ \E k \in [Rings -> Int] : Deals(as, k)
  BY <1>1, <1>2, <1>4, AnyKeys
<1> QED
  BY <1>2, <1>4, <1>5 DEF st, as

\* A key setup changes the keys of one ring.
LEMMA KeySetupDeals ==
  ASSUME PrgTyped, NEW j \in [Rings -> Int], NEW st, Deals(st, j), NEW r \in Rings
  PROVE  /\ \E k \in [Rings -> Int] : Deals(KeySetup(st, r), k)
         /\ KeySetup(st, r).made = st.made /\ KeySetup(st, r).inner = st.inner
         /\ KeySetup(st, r).pre = st.pre
<1> DEFINE drawn == [h \in Parties |-> DrawAt(st, h, 0, r)]
           a == [st EXCEPT !.key[r] = drawn]
           b == Advance(a, Parties, 1)
<1>1. /\ IsNode(st) /\ st.id = 0 /\ st.seed \in Nat /\ st.pos \in [Streams -> Nat]
      /\ st.key \in [Rings -> [Parties -> Int]] /\ DOMAIN st.key[r] = Parties
  BY DEF Deals
<1>2. drawn \in [Parties -> Int]
  <2>1. \A h \in Parties : h \in Streams /\ 0 \in Nat
    BY StreamsAre
  <2>2. \A h \in Parties : DrawAt(st, h, 0, r) \in Int
    BY <1>1, <2>1, DrawType
  <2> QED BY <2>2
<1>3. KeySetup(st, r) = b
  BY <1>1, OnceIs, Zenon DEF KeySetup
<1> HIDE DEF drawn
<1>4. /\ IsNode(a) /\ a.id = st.id /\ a.seed = st.seed /\ a.pos = st.pos
      /\ a.key = [st.key EXCEPT ![r] = drawn]
      /\ a.made = st.made /\ a.inner = st.inner /\ a.pre = st.pre
  <2> DEFINE new == [st.key EXCEPT ![r] = drawn]
             c == [st EXCEPT !.key = new]
  <2>1. a = c
    OBVIOUS
  <2> HIDE DEF new, a
  <2>2. /\ IsNode(c) /\ c.id = st.id /\ c.seed = st.seed /\ c.pos = st.pos /\ c.key = new
        /\ c.made = st.made /\ c.inner = st.inner /\ c.pre = st.pre
    BY <1>1 DEF IsNode
  <2> HIDE DEF c
  <2> QED BY <2>1, <2>2 DEF new
<1> HIDE DEF a
<1>5. a.key \in [Rings -> [Parties -> Int]]
  BY <1>1, <1>2, <1>4
<1>6. PICK k \in [Rings -> Int] : Deals(a, k)
  BY <1>1, <1>4, <1>5, AnyKeys
<1>7. Deals(b, k) /\ b.made = a.made /\ b.inner = a.inner /\ b.pre = a.pre
  <2>1. 1 \in Nat
    OBVIOUS
  <2> QED BY <1>6, <2>1, AdvanceIs
<1> HIDE DEF b
<1> QED
  BY <1>3, <1>4, <1>7

\* From st to t, n more sharings of ring r have been made.
MakesAll(st, t, r, k, n) ==
  /\ Deals(t, k) /\ t.inner = st.inner /\ t.pre = st.pre
  /\ t.made \in Seq(Shares(r, k)) /\ Len(t.made) = Len(st.made) + n

\* One sharing is a list of one.
LEMMA MakesOne ==
  ASSUME NEW st, NEW t, NEW r, NEW k, Makes(st, t, r, k), st.made \in Seq(Shares(r, k))
  PROVE  /\ MakesAll(st, t, r, k, 1) /\ Len(st.made) \in Nat
         /\ \A i \in 1 .. Len(st.made) : t.made[i] = st.made[i]
<1>1. PICK s \in Shares(r, k) : t.made = Append(st.made, s)
  BY DEF Makes
<1> DEFINE m == st.made
           S == Shares(r, k)
<1>2. m \in Seq(S) /\ s \in S /\ t.made = Append(m, s)
  BY <1>1
<1> HIDE DEF m, S
<1>3. /\ t.made \in Seq(S) /\ Len(t.made) = Len(m) + 1 /\ Len(m) \in Nat
      /\ \A i \in 1 .. Len(m) : t.made[i] = m[i]
  BY <1>2
<1> QED
  BY <1>3 DEF MakesAll, Makes, m, S

\* One sharing for each secret.
LEMMA SharesLoop ==
  ASSUME PrgTyped, NEW k \in [Rings -> Int], NEW kind \in {"share", "give"}, NEW r \in Rings,
         kind = "give" => r = P,
         NEW st, Deals(st, k), st.made \in Seq(Shares(r, k)),
         NEW xs, NEW N \in Nat, N = Len(xs), \A i \in 1 .. N : xs[i] \in Int,
         NEW result, Loop(result, kind, r, st, xs)
  PROVE  MakesAll(st, result, r, k, N)
<1>1. PICK f : /\ f[0] = st /\ f[N] = result
               /\ \A n \in 1 .. N : f[n] = Do(kind, r, f[n - 1], xs[n])
  BY DEF Loop
<1> DEFINE G == {n \in 0 .. N : MakesAll(st, f[n], r, k, n)}
<1>2. Len(st.made) \in Nat
  BY LenProperties
<1>3. 0 \in G
  BY <1>1, <1>2 DEF MakesAll
<1>4. ASSUME NEW n \in 0 .. N - 1, n \in G PROVE n + 1 \in G
  <2> DEFINE s == f[n]
             x == xs[n + 1]
             t == f[n + 1]
  <2>1. n + 1 \in 1 .. N /\ (n + 1) - 1 = n
    OBVIOUS
  <2>2. x \in Int /\ t = Do(kind, r, s, x) /\ MakesAll(st, s, r, k, n)
    BY <1>1, <1>4, <2>1
  <2> HIDE DEF s, x, t
  <2>3. Makes(s, t, r, k)
    <3>1. CASE kind = "share"
      <4>1. t = RandomShareSecret(s, r, x)
        BY <2>2, <3>1 DEF Do
      <4> QED BY <2>2, <4>1, RandomShareSecretMakes DEF MakesAll
    <3>2. CASE kind = "give"
      <4>1. t = HelperShareSecret(s, "sec", x)
        BY <2>2, <3>2 DEF Do
      <4> QED BY <2>2, <3>2, <4>1, HelperShareSecretMakes DEF MakesAll
    <3> QED BY <3>1, <3>2
  <2>4. MakesAll(s, t, r, k, 1)
    BY <2>2, <2>3, MakesOne DEF MakesAll
  <2>5. MakesAll(st, t, r, k, n + 1)
    <3>1. Len(t.made) = Len(s.made) + 1 /\ Len(s.made) = Len(st.made) + n
      BY <2>2, <2>4 DEF MakesAll
    <3>2. Len(t.made) = Len(st.made) + (n + 1)
      <4> DEFINE l0 == Len(st.made)
                 l1 == Len(s.made)
                 l2 == Len(t.made)
      <4>1. l0 \in Nat /\ l1 = l0 + n /\ l2 = l1 + 1 /\ n \in Nat
        BY <1>2, <3>1
      <4> HIDE DEF l0, l1, l2
      <4>2. l2 = l0 + (n + 1)
        BY ONLY <4>1
      <4> QED BY <4>2 DEF l0, l2
    <3> QED BY <2>2, <2>4, <3>2 DEF MakesAll
  <2> QED BY <2>1, <2>5 DEF t
<1>5. N \in G
  <2> HIDE DEF G
  <2> QED BY <1>3, <1>4, LoopEnds
<1> QED
  BY <1>1, <1>5

\* ShareAll makes a sound sharing of each secret.
LEMMA ShareAllMakes ==
  ASSUME PrgTyped, NEW k \in [Rings -> Int], NEW r \in Rings,
         NEW st, Deals(st, k), st.made \in Seq(Shares(r, k)),
         NEW xs, NEW N \in Nat, N = Len(xs), \A i \in 1 .. N : xs[i] \in Int
  PROVE  MakesAll(st, ShareAll(st, r, xs), r, k, N)
<1>1. Loop(ShareAll(st, r, xs), "share", r, st, xs)
  BY ShareAllLoop
<1>2. "share" \in {"share", "give"} /\ "share" # "give"
  OBVIOUS
<1> QED
  BY <1>1, <1>2, SharesLoop

-----------------------------------------------------------------------------
(* The gates that have sharings of their own.                              *)

GateSound(g, r, k) == g.mask \in Shares(r, k) /\ g.parts \in Seq(Shares(r, k))

\* The masks of the wires that g reads are there.
ReadsSound(pre, g, r, k) ==
  \A w \in ToSet(g.ins) : w \in DOMAIN pre /\ pre[w].mask \in Shares(r, k)

\* From st to t, the sharings of one gate have been made.
MakesGate(st, t, r, k) ==
  /\ Deals(t, k) /\ t.inner = st.inner /\ t.pre = st.pre /\ GateSound(MadeGate(t), r, k)

\* The sharings made for a gate are sound: the mask, and the parts behind it.
LEMMA MakesAllGate ==
  ASSUME NEW st, NEW t, NEW r, NEW k, NEW n \in Nat \ {0}, MakesAll(st, t, r, k, n),
         st.made = <<>>
  PROVE  MakesGate(st, t, r, k)
<1> DEFINE m == t.made
           S == Shares(r, k)
<1>1. m \in Seq(S) /\ Len(m) = n
  BY DEF MakesAll
<1> HIDE DEF m, S
<1>2. Head(m) \in S /\ Tail(m) \in Seq(S)
  <2>1. m # <<>>
    BY <1>1
  <2> QED BY <1>1, <2>1
<1>3. MadeGate(t).mask = Head(m) /\ MadeGate(t).parts = Tail(m)
  BY DEF MadeGate, PreGate, m
<1> QED
  BY <1>2, <1>3 DEF MakesAll, MakesGate, GateSound, S

\* ... when there is only the mask, too.
LEMMA MakesOneGate ==
  ASSUME NEW st, NEW t, NEW r, NEW k, Makes(st, t, r, k), st.made = <<>>
  PROVE  MakesGate(st, t, r, k)
<1>1. st.made \in Seq(Shares(r, k))
  OBVIOUS
<1>2. MakesAll(st, t, r, k, 1)
  BY <1>1, MakesOne
<1>3. 1 \in Nat \ {0}
  OBVIOUS
<1> QED
  BY <1>2, <1>3, MakesAllGate

\* The secret of a sharing is the sum of its values.
LEMMA SecretType ==
  ASSUME NEW k, NEW r \in Rings, NEW s \in Shares(r, k)
  PROVE  Secret(s, r) \in Int /\ Secret(s, r) = SumOn(Vals(s), Parties) % r
<1> DEFINE f == Vals(s)
<1>1. s \in [Parties -> Pairs] /\ r \in Nat \ {0} /\ IsFiniteSet(Parties)
  BY RingsAre, PartiesAre DEF Shares
<1>2. DOMAIN f = Parties /\ \A h \in Parties : f[h] \in Int
  BY <1>1 DEF Vals, Pairs
<1>3. Secret(s, r) = SumOn(f, Parties) % r
  BY <1>2 DEF Secret, SumFunction, SumFunctionOnSet, SumOn, Vals
<1> HIDE DEF f
<1>4. SumOn(f, Parties) \in Int
  BY <1>1, <1>2, SumType
<1> QED
  BY <1>1, <1>3, <1>4, CongMod DEF f

\* The secret of a mask is an integer.
LEMMA MaskSecretType ==
  ASSUME NEW k, NEW r \in Rings, NEW st, NEW pre, NEW w, pre[w].mask \in Shares(r, k)
  PROVE  MaskSecret(st, pre, w, r) \in Int
BY SecretType DEF MaskSecret

\* kMul, kMul3 and kMul4, whose products are of inputs that are there.
MulGate(g) == g \in Gates /\ g.type \in Muls /\ (FIn2(g) \/ FIn3(g) \/ FIn4(g))

\* The products of a multiplication are of its own inputs.
LEMMA ProductSetsAre ==
  ASSUME NEW g, MulGate(g)
  PROVE  ProductSets[g.type] \in Seq(Seq(1 .. Len(g.ins))) /\ Len(ProductSets[g.type]) \in Nat \ {0}
<1> DEFINE n == Len(g.ins)
<1>1. CASE g.type = "Mul"
  <2>1. n = 2
    BY <1>1 DEF MulGate, FIn2, FIn3, FIn4
  <2>2. ProductSets[g.type] = <<<<1, 2>>>>
    BY <1>1 DEF ProductSets
  <2> HIDE DEF n
  <2>3. <<1, 2>> \in Seq(1 .. n)
    BY <2>1
  <2> QED BY <2>2, <2>3 DEF n
<1>2. CASE g.type = "Mul3"
  <2>1. n = 3
    BY <1>2 DEF MulGate, FIn2, FIn3, FIn4
  <2>2. ProductSets[g.type] = <<<<1, 2>>, <<1, 3>>, <<2, 3>>, <<1, 2, 3>>>>
    BY <1>2 DEF ProductSets
  <2> HIDE DEF n
  <2>3. <<1, 2>> \in Seq(1 .. n) /\ <<1, 3>> \in Seq(1 .. n) /\ <<2, 3>> \in Seq(1 .. n)
    BY <2>1
  <2>4. <<1, 2, 3>> \in Seq(1 .. n)
    BY <2>1
  <2> DEFINE a == <<1, 2>>
             b == <<1, 3>>
             c == <<2, 3>>
             d == <<1, 2, 3>>
             S == Seq(1 .. n)
  <2>5. /\ a \in S /\ b \in S /\ c \in S /\ d \in S
        /\ ProductSets[g.type] = <<a, b, c, d>>
    BY <2>2, <2>3, <2>4
  <2> HIDE DEF a, b, c, d, S
  <2>6. <<a, b, c, d>> \in Seq(S) /\ Len(<<a, b, c, d>>) = 4
    BY ONLY <2>5
  <2> QED BY <2>5, <2>6 DEF n, S
<1>3. CASE g.type = "Mul4"
  <2>1. n = 4
    BY <1>3 DEF MulGate, FIn2, FIn3, FIn4
  <2> DEFINE a == <<1, 2>>
             b == <<1, 3>>
             c == <<1, 4>>
             d == <<2, 3>>
             e == <<2, 4>>
             f == <<3, 4>>
             h == <<1, 2, 3>>
             i == <<1, 2, 4>>
             j == <<1, 3, 4>>
             k == <<2, 3, 4>>
             l == <<1, 2, 3, 4>>
             S == Seq(1 .. n)
  <2> HIDE DEF n
  <2>2. a \in S /\ b \in S /\ c \in S /\ d \in S /\ e \in S /\ f \in S
    BY <2>1
  <2>3. h \in S /\ i \in S
    BY <2>1
  <2>4. j \in S /\ k \in S
    BY <2>1
  <2>5. l \in S
    BY <2>1
  <2>6. ProductSets[g.type] = <<a, b, c, d, e, f, h, i, j, k, l>>
    BY <1>3 DEF ProductSets
  <2> HIDE DEF a, b, c, d, e, f, h, i, j, k, l, S
  <2>7. /\ <<a, b, c, d, e, f, h, i, j, k, l>> \in Seq(S)
        /\ Len(<<a, b, c, d, e, f, h, i, j, k, l>>) = 11
    BY ONLY <2>2, <2>3, <2>4, <2>5
  <2> QED BY <2>6, <2>7 DEF n, S
<1> QED
  BY <1>1, <1>2, <1>3 DEF MulGate, Muls

\* The products of the input masks are integers.
LEMMA MulSecretsType ==
  ASSUME NEW k, NEW r \in Rings, NEW st, NEW pre, NEW g, MulGate(g), ReadsSound(pre, g, r, k)
  PROVE  \E N \in Nat \ {0} : /\ Len(MulSecrets(st, pre, g, r)) = N
                              /\ \A i \in 1 .. N : MulSecrets(st, pre, g, r)[i] \in Int
<1> DEFINE sets == ProductSets[g.type]
           n == Len(g.ins)
           N == Len(sets)
           mask(w) == MaskSecret(st, pre, w, r)
           factors(s) == [j \in DOMAIN s |-> mask(g.ins[s[j]])]
           q == [i \in DOMAIN sets |-> Product(factors(sets[i])) % r]
<1>1. sets \in Seq(Seq(1 .. n)) /\ N \in Nat \ {0}
  BY ProductSetsAre
<1>2. \A i \in 1 .. n : mask(g.ins[i]) \in Int
  <2> TAKE i \in 1 .. n
  <2>1. g.ins \in Seq(Nat)
    BY DEF MulGate, Gates
  <2>2. g.ins[i] \in ToSet(g.ins)
    BY <2>1, LenProperties DEF ToSet
  <2> QED BY <2>2, MaskSecretType DEF ReadsSound
<1>3. MulSecrets(st, pre, g, r) = q
  BY Zenon DEF MulSecrets
<1> HIDE DEF sets
<1>4. DOMAIN sets = 1 .. N /\ N \in Nat
  BY <1>1, LenProperties
<1> HIDE DEF N
<1>5. ASSUME NEW i \in 1 .. N
      PROVE  Product(factors(sets[i])) % r \in Int
  <2> DEFINE s == sets[i]
             m == Len(s)
             f == factors(s)
  <2>1. s \in Seq(1 .. n)
    BY <1>1, <1>4, ElementOfSeq DEF N
  <2> HIDE DEF s
  <2>2. m \in Nat /\ DOMAIN s = 1 .. m /\ \A j \in 1 .. m : s[j] \in 1 .. n
    BY <2>1, LenProperties, ElementOfSeq
  <2>3. DOMAIN f = 1 .. m /\ \A j \in 1 .. m : f[j] \in Int
    BY <1>2, <2>2
  <2> HIDE DEF f, m
  <2>4. Product(f) \in Int
    BY <2>2, <2>3, ProductType
  <2>5. r \in Nat \ {0}
    BY RingsAre
  <2>6. Product(f) % r \in Int
    BY <2>4, <2>5, CongMod
  <2> QED BY <2>6 DEF f, s
<1>6. DOMAIN q = 1 .. N /\ \A i \in 1 .. N : q[i] \in Int
  BY <1>4, <1>5
<1> HIDE DEF q, factors
<1>7. Len(q) = N
  BY <1>4, <1>6
<1> QED
  BY <1>1, <1>3, <1>6, <1>7 DEF N

\* kMul, kMul3 and kMul4 make a sound gate.
LEMMA MulMasksMake ==
  ASSUME PrgTyped, NEW k \in [Rings -> Int], NEW r \in Rings, NEW st, Deals(st, k),
         st.made = <<>>, NEW pre, NEW g, MulGate(g), ReadsSound(pre, g, r, k)
  PROVE  MakesGate(st, MulMasks(st, pre, g, r), r, k)
<1> DEFINE s == RandomShare(st, r)
           xs == MulSecrets(st, pre, g, r)
           t == ShareAll(s, r, xs)
<1>1. st.made \in Seq(Shares(r, k)) /\ Len(st.made) = 0
  OBVIOUS
<1>2. Makes(st, s, r, k)
  BY RandomShareMakes
<1> HIDE DEF s
<1>3. MakesAll(st, s, r, k, 1)
  BY <1>1, <1>2, MakesOne
<1>4. PICK N \in Nat \ {0} : Len(xs) = N /\ \A i \in 1 .. N : xs[i] \in Int
  BY MulSecretsType
<1> HIDE DEF xs
<1>5. MakesAll(s, t, r, k, N)
  <2>1. N \in Nat /\ N = Len(xs) /\ Deals(s, k) /\ s.made \in Seq(Shares(r, k))
    BY <1>3, <1>4 DEF MakesAll
  <2> QED BY <1>4, <2>1, ShareAllMakes
<1> HIDE DEF t
<1>6. MakesAll(st, t, r, k, N + 1) /\ N + 1 \in Nat \ {0}
  <2> DEFINE l1 == Len(s.made)
             l2 == Len(t.made)
  <2>1. l1 = 0 + 1 /\ l2 = l1 + N
    BY <1>1, <1>3, <1>5 DEF MakesAll
  <2> HIDE DEF l1, l2
  <2>2. l2 = 0 + (N + 1) /\ N + 1 \in Nat \ {0}
    BY ONLY <2>1, N \in Nat \ {0}
  <2> QED BY <1>1, <1>3, <1>5, <2>2 DEF MakesAll, l2
<1>7. MakesGate(st, t, r, k)
  BY <1>6, MakesAllGate
<1> QED
  BY <1>7 DEF MulMasks, t, s, xs

\* kDotprod
DotGate(g) == g \in Gates /\ g.type = "Dotprod" /\ SIMD(g)

\* kDotprod makes a sound gate.
LEMMA DotMasksMake ==
  ASSUME PrgTyped, NEW k \in [Rings -> Int], NEW r \in Rings, NEW st, Deals(st, k),
         st.made = <<>>, NEW pre, NEW g, DotGate(g), ReadsSound(pre, g, r, k)
  PROVE  MakesGate(st, DotMasks(st, pre, g, r), r, k)
<1> DEFINE s == RandomShare(st, r)
           v == [w \in DOMAIN pre |-> MaskSecret(st, pre, w, r)]
           x == InnerProd(v, g.ins) % r
           t == RandomShareSecret(s, r, x)
<1>1. st.made \in Seq(Shares(r, k)) /\ Len(st.made) = 0
  OBVIOUS
<1>2. Makes(st, s, r, k)
  BY RandomShareMakes
<1> HIDE DEF s
<1>3. MakesAll(st, s, r, k, 1)
  BY <1>1, <1>2, MakesOne
<1>4. x \in Int
  <2>1. g.ins \in Seq(Nat) /\ Len(g.ins) \in Nat
    BY LenProperties DEF DotGate, Gates
  <2>2. \A i \in 1 .. Len(g.ins) : v[g.ins[i]] \in Int
    <3> TAKE i \in 1 .. Len(g.ins)
    <3>1. g.ins[i] \in ToSet(g.ins)
      BY <2>1, LenProperties DEF ToSet
    <3> QED BY <3>1, MaskSecretType DEF ReadsSound
  <2> HIDE DEF v
  <2>3. InnerProd(v, g.ins) \in Int
    BY <2>1, <2>2, InnerProdType
  <2>4. r \in Nat \ {0}
    BY RingsAre
  <2> QED BY <2>3, <2>4, CongMod
<1>5. DotMasks(st, pre, g, r) = t
  BY Zenon DEF DotMasks, DotSecret, s
<1> HIDE DEF x
<1>6. Makes(s, t, r, k)
  BY <1>3, <1>4, RandomShareSecretMakes DEF MakesAll
<1> HIDE DEF t
<1>7. MakesAll(s, t, r, k, 1)
  BY <1>3, <1>6, MakesOne DEF MakesAll
<1>8. MakesAll(st, t, r, k, 2) /\ 2 \in Nat \ {0}
  <2> DEFINE l1 == Len(s.made)
             l2 == Len(t.made)
  <2>1. l1 = 0 + 1 /\ l2 = l1 + 1
    BY <1>1, <1>3, <1>7 DEF MakesAll
  <2> HIDE DEF l1, l2
  <2>2. l2 = 0 + 2
    BY ONLY <2>1
  <2> QED BY <1>1, <1>3, <1>7, <2>2 DEF MakesAll, l2
<1> QED
  BY <1>5, <1>8, MakesAllGate

-----------------------------------------------------------------------------
(* The Boolean circuits of the comparison gates.                           *)

\* g may be added to a circuit of n gates.
Takes(g, n) ==
  /\ g \in Gates /\ ToSet(g.ins) \subseteq 1 .. n
  /\ g = Inp \/ FIn2(g) \/ FIn3(g) \/ FIn4(g) \/ ConstOp(g) \/ FIn1(g) \/ SIMD(g)

\* A circuit is one that addGate has taken gate by gate.
LEMMA CircuitTakes ==
  ASSUME NEW gates \in Seq(Gates)
  PROVE  IsCircuit(gates) <=> \A w \in 1 .. Len(gates) : Takes(gates[w], w - 1)
<1>1. Len(gates) \in Nat /\ DOMAIN gates = 1 .. Len(gates)
  BY LenProperties
<1>2. ASSUME NEW w \in 1 .. Len(gates)
      PROVE  CanAdd(SubSeq(gates, 1, w - 1), gates[w]) <=> Takes(gates[w], w - 1)
  <2>1. \A i \in 1 .. w - 1 : gates[i] \in Gates
    BY <1>1, ElementOfSeq
  <2>2. 1 \in Int /\ w - 1 \in Int /\ w - 1 >= 0
    BY <1>1
  <2>3. /\ SubSeq(gates, 1, w - 1) \in Seq(Gates)
        /\ Len(SubSeq(gates, 1, w - 1)) = IF 1 <= w - 1 THEN (w - 1) - 1 + 1 ELSE 0
    BY <2>1, <2>2, SubSeqProperties
  <2>4. DOMAIN SubSeq(gates, 1, w - 1) = 1 .. w - 1
    <3>1. Len(SubSeq(gates, 1, w - 1)) = w - 1
      BY <2>2, <2>3
    <3> QED BY <2>3, <3>1, LenProperties
  <2> QED BY <2>4 DEF CanAdd, Takes
<1> QED
  BY <1>1, <1>2 DEF IsCircuit

\* A circuit whose gates are of the types T.
Built(gates, T) == IsCircuit(gates) /\ \A w \in DOMAIN gates : gates[w].type \in T

\* Gates that read the circuit so far may be added to it.
LEMMA BuiltMore ==
  ASSUME NEW T, NEW gates, Built(gates, T), NEW N, N = Len(gates), NEW M \in Nat, NEW new,
         DOMAIN new = 1 .. M, \A t \in 1 .. M : Takes(new[t], N) /\ new[t].type \in T,
         new = [t \in 1 .. M |-> new[t]]
  PROVE  /\ Built(gates \o new, T) /\ N \in Nat /\ Len(gates \o new) = N + M
         /\ \A w \in 1 .. N : (gates \o new)[w] = gates[w]
         /\ \A t \in 1 .. M : (gates \o new)[N + t] = new[t]
<1> DEFINE all == gates \o new
<1>1. gates \in Seq(Gates) /\ N \in Nat /\ DOMAIN gates = 1 .. N
  BY LenProperties DEF Built, IsCircuit
<1>2. new \in Seq(Gates) /\ Len(new) = M
  <2>1. \A t \in 1 .. M : new[t] \in Gates
    BY DEF Takes
  <2>2. new \in [1 .. M -> Gates]
    BY <2>1
  <2> QED BY <2>2
<1>3. /\ all \in Seq(Gates) /\ Len(all) = N + M
      /\ \A i \in 1 .. N + M : all[i] = IF i <= N THEN gates[i] ELSE new[i - N]
  BY <1>1, <1>2, ConcatProperties
<1> HIDE DEF all
<1>4. /\ \A w \in 1 .. N : all[w] = gates[w]
      /\ \A t \in 1 .. M : all[N + t] = new[t]
  <2>1. \A w \in 1 .. N : w \in 1 .. N + M /\ w <= N
    BY <1>1
  <2>2. \A t \in 1 .. M : N + t \in 1 .. N + M /\ ~(N + t <= N) /\ (N + t) - N = t
    BY <1>1
  <2>3. \A w \in 1 .. N : all[w] = gates[w]
    BY <1>3, <2>1
  <2>4. \A t \in 1 .. M : all[N + t] = new[(N + t) - N]
    BY <1>3, <2>2
  <2> QED BY <2>2, <2>3, <2>4
<1>5. DOMAIN all = 1 .. N + M
  BY <1>3, LenProperties
<1>6. ASSUME NEW w \in 1 .. N + M
      PROVE  Takes(all[w], w - 1) /\ all[w].type \in T
  <2>1. CASE w \in 1 .. N
    <3>1. Takes(gates[w], w - 1)
      BY <1>1, <2>1, CircuitTakes DEF Built
    <3> QED BY <1>1, <1>4, <2>1, <3>1 DEF Built
  <2>2. CASE w \notin 1 .. N
    <3>1. w - N \in 1 .. M /\ w = N + (w - N) /\ N <= w - 1
      BY <1>1, <2>2
    <3>2. all[w] = new[w - N] /\ Takes(new[w - N], N) /\ new[w - N].type \in T
      BY <1>4, <3>1
    <3>3. 1 .. N \subseteq 1 .. w - 1
      BY <1>1, <3>1
    <3> QED BY <3>2, <3>3 DEF Takes
  <2> QED BY <2>1, <2>2
<1>7. IsCircuit(all)
  BY <1>3, <1>6, CircuitTakes
<1> QED
  BY <1>1, <1>3, <1>4, <1>5, <1>6, <1>7 DEF Built, all

\* newInputWire is always taken.
LEMMA InpTakes == Takes(Inp, 0) /\ \A n \in Nat : Takes(Inp, n)
<1>1. Inp.ins = <<>> /\ ToSet(Inp.ins) = {}
  BY DEF Inp, Gate, ToSet
<1>2. Inp \in Gates
  <2>1. <<>> \in Seq(Nat) /\ "Inp" \in GateTypes /\ 0 \in Int
    BY DEF GateTypes
  <2> QED BY <2>1 DEF Inp, Gate, Gates
<1> QED
  BY <1>1, <1>2 DEF Takes

\* Input wires alone are a circuit.
LEMMA InputsBuilt ==
  ASSUME NEW n \in Nat, NEW T, "Inp" \in T
  PROVE  /\ Built(Inputs(n), T) /\ Len(Inputs(n)) = n
         /\ \A w \in 1 .. n : Inputs(n)[w] = Inp
<1> DEFINE gates == Inputs(n)
<1>1. gates \in [1 .. n -> Gates] /\ \A w \in 1 .. n : gates[w] = Inp
  BY InpTakes DEF Inputs, Takes
<1>2. gates \in Seq(Gates) /\ Len(gates) = n /\ DOMAIN gates = 1 .. n
  BY <1>1
<1>3. \A w \in 1 .. n : Takes(gates[w], w - 1) /\ gates[w].type \in T
  <2> TAKE w \in 1 .. n
  <2>1. w - 1 \in Nat /\ Inp.type = "Inp"
    BY DEF Inp, Gate
  <2> QED BY <1>1, <2>1, InpTakes
<1> HIDE DEF gates
<1>4. IsCircuit(gates)
  BY <1>2, <1>3, CircuitTakes
<1> QED
  BY <1>1, <1>2, <1>3, <1>4 DEF Built, gates

\* The powers of 4 up to K.
LEMMA PowersAre ==
  /\ L \in Nat \ {0} /\ \A l \in 0 .. L : 4 ^ l \in Nat \ {0}
  /\ \A l \in 0 .. L : \E c \in Nat \ {0} : K = c * 4 ^ l
  /\ K \in Nat \ {0} /\ 4 ^ 0 = 1
<1>1. L \in Nat \ {0} /\ 4 ^ 0 = 1 /\ \A l \in 0 .. L - 1 : 4 ^ (l + 1) = 4 * 4 ^ l
  BY CircuitAssumption, PowersAssumption
<1> DEFINE p == [l \in 0 .. L |-> 4 ^ l]
<1>6. \A l \in 0 .. L : p[l] = 4 ^ l
  OBVIOUS
<1> HIDE DEF p
<1>2. p[0] = 1 /\ \A l \in 0 .. L - 1 : p[l + 1] = 4 * p[l]
  <2>1. 0 \in 0 .. L /\ \A l \in 0 .. L - 1 : l \in 0 .. L /\ l + 1 \in 0 .. L
    BY <1>1
  <2>2. p[0] = 4 ^ 0
    BY <1>6, <2>1
  <2>3. ASSUME NEW l \in 0 .. L - 1 PROVE p[l + 1] = 4 * p[l]
    <3>1. p[l] = 4 ^ l /\ p[l + 1] = 4 ^ (l + 1) /\ 4 ^ (l + 1) = 4 * 4 ^ l
      BY <1>1, <1>6, <2>1
    <3> QED BY <3>1
  <2> QED BY <1>1, <2>2, <2>3
<1>3. ASSUME NEW l \in 0 .. L PROVE p[l] \in Nat \ {0}
  <2> DEFINE G == {i \in 0 .. L : p[i] \in Nat \ {0}}
  <2>1. 0 \in G
    BY <1>1, <1>2
  <2>2. ASSUME NEW n \in 0 .. l - 1, n \in G PROVE n + 1 \in G
    <3>1. n \in 0 .. L - 1 /\ n + 1 \in 0 .. L
      BY <1>1
    <3>2. p[n + 1] = 4 * p[n] /\ p[n] \in Nat \ {0}
      BY <1>2, <2>2, <3>1
    <3>3. p[n + 1] \in Nat \ {0}
      BY <3>2
    <3> QED BY <3>1, <3>3
  <2>3. l \in G
    <3> HIDE DEF G
    <3> QED BY <2>1, <2>2, l \in Nat, LoopEnds
  <2> QED BY <2>3
<1>4. ASSUME NEW h \in 0 .. L PROVE \E c \in Nat \ {0} : p[L] = c * p[L - h]
  <2> DEFINE H == {i \in 0 .. L : \E c \in Nat \ {0} : p[L] = c * p[L - i]}
  <2>1. 0 \in H
    <3>1. 0 \in 0 .. L /\ L - 0 = L /\ L \in 0 .. L /\ 1 \in Nat \ {0}
      BY <1>1
    <3>2. p[L] = 1 * p[L]
      BY <1>3, <3>1
    <3>3. p[L] = 1 * p[L - 0]
      BY <3>1, <3>2
    <3> QED BY <3>1, <3>3
  <2>2. ASSUME NEW n \in 0 .. h - 1, n \in H PROVE n + 1 \in H
    <3>1. PICK c \in Nat \ {0} : p[L] = c * p[L - n]
      BY <2>2
    <3> DEFINE i == L - (n + 1)
    <3>2. i \in 0 .. L - 1 /\ i \in 0 .. L /\ i + 1 = L - n /\ n + 1 \in 0 .. L
      BY <1>1
    <3> HIDE DEF i
    <3>3. p[i + 1] = 4 * p[i] /\ p[i] \in Nat
      BY <1>2, <1>3, <3>2
    <3>4. p[L] = c * (4 * p[i])
      BY <3>1, <3>2, <3>3
    <3>5. c * (4 * p[i]) = (4 * c) * p[i] /\ 4 * c \in Nat \ {0}
      BY <3>3
    <3>6. \E d \in Nat \ {0} : p[L] = d * p[i]
      BY <3>4, <3>5
    <3> QED BY <3>2, <3>6 DEF i
  <2>3. h \in H
    <3> HIDE DEF H
    <3> QED BY <2>1, <2>2, h \in Nat, LoopEnds
  <2> QED BY <2>3
<1>5. ASSUME NEW l \in 0 .. L PROVE \E c \in Nat \ {0} : p[L] = c * p[l]
  <2>1. L - l \in 0 .. L /\ L - (L - l) = l
    BY <1>1
  <2>2. \E c \in Nat \ {0} : p[L] = c * p[L - (L - l)]
    BY <1>4, <2>1
  <2> QED BY <2>1, <2>2
<1>7. K = p[L] /\ p[L] \in Nat \ {0}
  BY <1>1, <1>3, <1>6 DEF K
<1> QED
  BY <1>1, <1>3, <1>5, <1>6, <1>7

\* The levels of a tree, from the lowest.
LEMMA LevelsAre ==
  ASSUME NEW lg \in Nat
  PROVE  Len(Levels(lg)) = lg /\ \A n \in 1 .. lg : Levels(lg)[n] = n
BY DEF Levels

\* generateMultK: a tree of kMul4 gates over the inputs.
Products == {"Inp"} \cup Muls

Tree(acc, m) ==
  /\ Built(acc.gates, Products) /\ acc.row \in [1 .. m -> 1 .. Len(acc.gates)]
  /\ \A w \in DOMAIN acc.gates : acc.gates[w].type = "Inp" => w \in 1 .. K

\* A layer of the tree has a quarter of the wires below it.
LEMMA TreeGrows ==
  ASSUME NEW acc, NEW m \in Nat, Tree(acc, 4 * m), NEW level
  PROVE  Tree(MultLayer(acc, level), m)
<1> DEFINE gates == acc.gates
           row == acc.row
           N == Len(gates)
           new == [j \in 1 .. m |-> Gate("Mul4", SubSeq(row, 4 * j - 3, 4 * j))]
           all == gates \o new
           next == [j \in 1 .. m |-> N + j]
<1>1. Built(gates, Products) /\ row \in [1 .. 4 * m -> 1 .. N] /\ N \in Nat /\ 4 * m \in Nat
  BY LenProperties DEF Tree, Built, IsCircuit
<1>2. Len(row) = 4 * m
  BY <1>1
<1>3. Len(row) \div 4 = m
  BY <1>2
<1>4. MultLayer(acc, level) = [gates |-> all, row |-> next]
  BY <1>3 DEF MultLayer
<1>5. \A w \in DOMAIN gates : gates[w].type = "Inp" => w \in 1 .. K
  BY DEF Tree
<1> HIDE DEF gates, row, N
<1>6. ASSUME NEW j \in 1 .. m
      PROVE  Takes(Gate("Mul4", SubSeq(row, 4 * j - 3, 4 * j)), N)
  <2> DEFINE ins == SubSeq(row, 4 * j - 3, 4 * j)
             a == 4 * j - 3
             b == 4 * j
  <2>1. a \in Int /\ b \in Int /\ 1 <= a /\ a <= b /\ b <= 4 * m /\ (b - a) + 1 = 4
    BY <1>1
  <2> HIDE DEF a, b
  <2>2. \A i \in a .. b : row[i] \in 1 .. N
    BY <1>1, <2>1
  <2>3. ins \in Seq(1 .. N) /\ Len(ins) = IF a <= b THEN b - a + 1 ELSE 0
    BY <2>1, <2>2, SubSeqProperties DEF a, b
  <2>4. Len(ins) = 4
    BY <2>1, <2>3
  <2> HIDE DEF ins
  <2>5. ToSet(ins) \subseteq 1 .. N /\ ins \in Seq(Nat)
    BY <1>1, <2>3, ElementOfSeq, LenProperties, SeqMonotonic DEF ToSet
  <2> DEFINE g == Gate("Mul4", ins)
  <2>6. g.type = "Mul4" /\ g.ins = ins /\ g \in Gates
    BY <2>5 DEF Gate, Gates, GateTypes
  <2> HIDE DEF g
  <2>7. Takes(g, N)
    BY <2>4, <2>5, <2>6 DEF Takes, FIn4
  <2> QED BY <2>7 DEF g, ins
<1>7. \A j \in 1 .. m : Takes(new[j], N) /\ new[j].type = "Mul4" /\ new[j].type \in Products
  BY <1>6 DEF Gate, Products, Muls
<1>8. DOMAIN new = 1 .. m /\ new = [j \in 1 .. m |-> new[j]]
  OBVIOUS
<1> HIDE DEF new
<1>9. /\ Built(all, Products) /\ Len(all) = N + m
      /\ \A w \in 1 .. N : all[w] = gates[w]
      /\ \A j \in 1 .. m : all[N + j] = new[j]
  BY <1>1, <1>7, <1>8, BuiltMore, SMTT(40) DEF N
<1> HIDE DEF all
<1>10. next \in [1 .. m -> 1 .. Len(all)]
  BY <1>1, <1>9
<1>11. DOMAIN all = 1 .. N + m /\ DOMAIN gates = 1 .. N
  BY <1>1, <1>9, LenProperties DEF Built, IsCircuit, N
<1>12. ASSUME NEW w \in DOMAIN all, all[w].type = "Inp" PROVE w \in 1 .. K
  <2>1. CASE w \in 1 .. N
    BY <1>5, <1>9, <1>11, <1>12, <2>1
  <2>2. CASE w \notin 1 .. N
    <3>1. w - N \in 1 .. m /\ w = N + (w - N)
      BY <1>1, <1>11, <2>2
    <3>2. all[w].type = "Mul4"
      BY <1>7, <1>9, <3>1
    <3> QED BY <1>12, <3>2
  <2> QED BY <2>1, <2>2
<1> HIDE DEF next
<1> QED
  BY <1>4, <1>9, <1>10, <1>12 DEF Tree

\* generateMultK: a circuit of multiplications over K inputs.
LEMMA MultKIs ==
  /\ Built(MultK.gates, Products) /\ MultK.outputs[1] \in DOMAIN MultK.gates
  /\ \A w \in DOMAIN MultK.gates : MultK.gates[w].type = "Inp" => w \in 1 .. K
<1> DEFINE start == [gates |-> Inputs(K), row |-> [x \in 1 .. K |-> x]]
           xs == Levels(L)
           acc == InTurn(MultLayer, start, xs)
<1>1. L \in Nat /\ K \in Nat /\ Len(xs) = L /\ \A n \in 1 .. L : xs[n] = n
  BY PowersAre, LevelsAre
<1>2. MultK = Circ(acc.gates, <<acc.row[1]>>)
  BY DEF MultK, GenerateMultK, K
<1>3. acc = (CHOOSE f : Turned(f, "mult", 0, start, xs))[Len(xs)]
  BY DEF InTurn, Turned, Do
<1> HIDE DEF acc, xs
<1>4. Loop(acc, "mult", 0, start, xs)
  BY <1>1, <1>3, TurnedLoop
<1>5. PICK f : /\ f[0] = start /\ f[L] = acc
               /\ \A n \in 1 .. L : f[n] = Do("mult", 0, f[n - 1], xs[n])
  BY <1>1, <1>4 DEF Loop
<1> DEFINE G == {n \in 0 .. L : Tree(f[n], 4 ^ (L - n))}
<1>6. 0 \in G
  <2>1. Built(Inputs(K), Products) /\ Len(Inputs(K)) = K
    BY <1>1, InputsBuilt DEF Products
  <2>2. DOMAIN Inputs(K) = 1 .. K
    BY DEF Inputs
  <2>3. start.gates = Inputs(K) /\ start.row \in [1 .. K -> 1 .. K]
    OBVIOUS
  <2>4. Tree(start, K)
    BY <2>1, <2>2, <2>3 DEF Tree
  <2>5. L - 0 = L /\ K = 4 ^ L
    BY <1>1 DEF K
  <2> QED BY <1>1, <1>5, <2>4, <2>5
<1>7. ASSUME NEW n \in 0 .. L - 1, n \in G PROVE n + 1 \in G
  <2> DEFINE l == L - (n + 1)
  <2>1. l \in 0 .. L - 1 /\ l \in 0 .. L /\ l + 1 = L - n
    BY <1>1
  <2>2. 4 ^ (l + 1) = 4 * 4 ^ l /\ 4 ^ l \in Nat
    BY <2>1, PowersAre, PowersAssumption
  <2>3. Tree(f[n], 4 * 4 ^ l)
    BY <1>7, <2>1, <2>2
  <2>4. n + 1 \in 1 .. L /\ (n + 1) - 1 = n
    BY <1>1
  <2>5. f[n + 1] = MultLayer(f[n], xs[n + 1])
    BY <1>5, <2>4 DEF Do
  <2>6. Tree(f[n + 1], 4 ^ l)
    BY <2>2, <2>3, <2>5, TreeGrows
  <2> QED BY <2>4, <2>6
<1>8. L \in G
  <2> HIDE DEF G
  <2> QED BY <1>1, <1>6, <1>7, LoopEnds
<1>9. Tree(acc, 1)
  <2>1. L - L = 0 /\ 4 ^ 0 = 1
    BY <1>1, PowersAre
  <2> QED BY <1>5, <1>8, <2>1
<1>10. acc.row[1] \in DOMAIN acc.gates
  <2>1. acc.row[1] \in 1 .. Len(acc.gates)
    BY <1>9 DEF Tree
  <2> QED BY <1>9, <2>1, LenProperties DEF Tree, Built, IsCircuit
<1>11. MultK.gates = acc.gates /\ MultK.outputs = <<acc.row[1]>>
  BY <1>2 DEF Circ
<1> QED
  BY <1>9, <1>10, <1>11 DEF Tree

\* Where wire x is in the blocks of 4 * B wires.
LEMMA BlockIs ==
  ASSUME NEW B \in Nat \ {0}, NEW c \in Nat \ {0}, NEW n, n = c * (4 * B), NEW x \in 1 .. n
  PROVE  /\ ((x - 1) \div (4 * B)) * 4 * B \in Nat
         /\ ((x - 1) \div (4 * B)) * 4 * B + 4 * B <= n
         /\ (x - 1) % 4 \in 0 .. 3 /\ ((x - 1) \div 4) % B \in 0 .. B - 1
         /\ 4 * (((x - 1) % (4 * B)) % B) + ((x - 1) % (4 * B)) \div B \in 0 .. 4 * B - 1
<1> DEFINE D == 4 * B
           z == x - 1
<1>1. D \in Nat \ {0} /\ n \in Nat /\ n = c * D /\ z \in Nat /\ z < n
  BY DEF D
<1>2. D = 4 * B
  OBVIOUS
<1> HIDE DEF D, z
<1> DEFINE q == z \div D
           y == z % D
<1>3. z = D * q + y /\ q \in Int /\ y \in 0 .. D - 1
  BY <1>1
<1> HIDE DEF q, y
<1>4. q \in Nat
  <2> SUFFICES ASSUME q < 0 PROVE FALSE
    BY <1>3
  <2>1. q <= -1
    BY <1>3
  <2>2. D * q <= -D
    BY <1>1, <1>3, <2>1
  <2> QED BY <1>1, <1>3, <2>2
<1>5. q < c
  <2> SUFFICES ASSUME q >= c PROVE FALSE
    BY <1>3
  <2>1. D * q >= c * D
    BY <1>1, <1>3
  <2> QED BY <1>1, <1>3, <2>1
<1>6. q + 1 <= c
  BY <1>3, <1>5
<1>7. D * (q + 1) <= n
  BY <1>1, <1>4, <1>6
<1>8. q * 4 * B = D * q /\ D * (q + 1) = D * q + D /\ D * q \in Nat
  BY <1>1, <1>2, <1>4
<1>9. q * 4 * B \in Nat /\ q * 4 * B + 4 * B <= n
  BY <1>2, <1>7, <1>8
<1>10. z % 4 \in 0 .. 3 /\ z \div 4 \in Int
  BY <1>1
<1>11. (z \div 4) % B \in 0 .. B - 1
  BY <1>10
<1> DEFINE i == y \div B
           j == y % B
<1>12. y = B * i + j /\ i \in Int /\ j \in 0 .. B - 1 /\ y \in Nat
  BY <1>3
<1> HIDE DEF i, j
<1>13. i >= 0
  <2> SUFFICES ASSUME i < 0 PROVE FALSE
    BY <1>12
  <2>1. i <= -1
    BY <1>12
  <2>2. B * i <= -B
    BY <1>12, <2>1
  <2> QED BY <1>12, <2>2
<1>14. i <= 3
  <2> SUFFICES ASSUME i >= 4 PROVE FALSE
    BY <1>12
  <2>1. B * i >= 4 * B
    BY <1>12
  <2> QED BY <1>2, <1>3, <1>12, <2>1
<1>15. 4 * j + i \in 0 .. 4 * B - 1
  BY <1>12, <1>13, <1>14
<1> QED
  BY <1>9, <1>10, <1>11, <1>15 DEF z, q, y, D, i, j

Allowed == {"Inp", "Dotprod"} \cup Linear \cup Muls

\* The state between two layers.
Network(acc, n) ==
  /\ Built(acc.gates, Allowed) /\ acc.row \in [1 .. n -> 1 .. Len(acc.gates)]
  /\ Len(acc.gates) \in Nat /\ 2 * n <= Len(acc.gates)

\* A gate is taken with as many inputs as its type has, all built before it.
LEMMA GateIs ==
  ASSUME NEW type \in GateTypes, NEW n \in Nat, NEW ins \in Seq(Nat), NEW N \in Nat,
         Len(ins) = n, DOMAIN ins = 1 .. n, \A i \in 1 .. n : ins[i] \in 1 .. N,
         \/ type = "ConstAdd" /\ n = 1
         \/ type \in {"Add", "Mul"} /\ n = 2
         \/ type = "Mul3" /\ n = 3
         \/ type = "Mul4" /\ n = 4
         \/ type = "Dotprod" /\ n % 2 = 0
  PROVE  Takes(Gate(type, ins), N) /\ Gate(type, ins).type = type /\ type \in Allowed
<1> DEFINE g == Gate(type, ins)
<1>1. g.type = type /\ g.ins = ins /\ g \in Gates
  BY DEF Gate, Gates
<1>2. ToSet(ins) \subseteq 1 .. N
  BY DEF ToSet
<1>3. type \in Allowed
  BY DEF Allowed, Linear, Muls
<1> HIDE DEF g
<1>4. Takes(g, N)
  BY <1>1, <1>2 DEF Takes, FIn2, FIn3, FIn4, ConstOp, SIMD
<1> QED
  BY <1>1, <1>3, <1>4 DEF g

\* A gate with a constant is taken on a wire built before it.
LEMMA ConstGateIs ==
  ASSUME NEW N \in Nat, NEW in \in 1 .. N, NEW cval \in Int
  PROVE  /\ Takes(ConstGate("ConstAdd", in, cval), N)
         /\ ConstGate("ConstAdd", in, cval).type = "ConstAdd"
<1> DEFINE g == ConstGate("ConstAdd", in, cval)
           ins == <<in>>
<1>1. ins \in Seq(Nat) /\ Len(ins) = 1 /\ ToSet(ins) \subseteq 1 .. N
  BY DEF ToSet
<1> HIDE DEF ins
<1>2. g.type = "ConstAdd" /\ g.ins = ins /\ g \in Gates
  BY <1>1 DEF ConstGate, Gates, GateTypes, ins
<1> HIDE DEF g
<1> QED
  BY <1>1, <1>2 DEF Takes, ConstOp, g

\* A gate of a prefix layer is taken.
LEMMA PrefixGateIs ==
  ASSUME NEW B \in Nat \ {0}, NEW c \in Nat \ {0}, NEW n, n = c * (4 * B), NEW N \in Nat,
         NEW row \in [1 .. n -> 1 .. N], NEW t \in 1 .. n
  PROVE  Takes(PrefixGate(t, B, row, 0), N) /\ PrefixGate(t, B, row, 0).type \in Allowed
<1> DEFINE a == (t - 1) % 4
           i == ((t - 1) \div 4) % B
           start == ((t - 1) \div (4 * B)) * 4 * B
           ins == [b \in 1 .. a + 1 |-> IF b <= a THEN row[start + b * B + 0]
                                        ELSE row[start + a * B + i + 1]]
           type == <<"ConstAdd", "Mul", "Mul3", "Mul4">>[a + 1]
<1>1. start \in Nat /\ start + 4 * B <= n /\ a \in 0 .. 3 /\ i \in 0 .. B - 1 /\ n \in Nat
  <2>1. /\ ((t - 1) \div (4 * B)) * 4 * B \in Nat
        /\ ((t - 1) \div (4 * B)) * 4 * B + 4 * B <= n
        /\ (t - 1) % 4 \in 0 .. 3 /\ ((t - 1) \div 4) % B \in 0 .. B - 1
    BY BlockIs
  <2>2. n \in Nat
    OBVIOUS
  <2> QED BY <2>1, <2>2, Zenon
<1>2. PrefixGate(t, B, row, 0) = Gate(type, ins)
  BY Zenon DEF PrefixGate
<1> HIDE DEF a, i, start
<1>3. \A b \in 1 .. 3 : b * B >= B /\ b * B <= 3 * B /\ b * B \in Nat
  OBVIOUS
<1>4. \A b \in 1 .. 3 : start + b * B + 0 \in 1 .. n
  BY <1>1, <1>3
<1>5. start + a * B + i + 1 \in 1 .. n
  <2>1. a * B <= 3 * B /\ a * B \in Nat
    BY <1>1
  <2> QED BY <1>1, <2>1
<1>6. \A b \in 1 .. a + 1 : ins[b] \in 1 .. N
  <2> TAKE b \in 1 .. a + 1
  <2>1. CASE b <= a
    <3>1. b \in 1 .. 3
      BY <1>1, <2>1
    <3> QED BY <1>4, <2>1, <3>1
  <2>2. CASE ~(b <= a)
    BY <1>5, <2>2
  <2> QED BY <2>1, <2>2
<1>7. DOMAIN ins = 1 .. a + 1 /\ a + 1 \in Nat
  BY <1>1
<1>8. ins \in [1 .. a + 1 -> 1 .. N]
  BY <1>6
<1> HIDE DEF ins
<1>9. ins \in Seq(Nat) /\ Len(ins) = a + 1
  BY <1>7, <1>8
<1>10. /\ a + 1 \in 1 .. 4 /\ type \in GateTypes
       /\ \/ type = "ConstAdd" /\ a + 1 = 1
          \/ type \in {"Add", "Mul"} /\ a + 1 = 2
          \/ type = "Mul3" /\ a + 1 = 3
          \/ type = "Mul4" /\ a + 1 = 4
  <2>1. a + 1 = 1 \/ a + 1 = 2 \/ a + 1 = 3 \/ a + 1 = 4
    BY <1>1
  <2> DEFINE m == a + 1
  <2>2. m = 1 \/ m = 2 \/ m = 3 \/ m = 4
    BY <2>1
  <2> HIDE DEF m
  <2>3. type = <<"ConstAdd", "Mul", "Mul3", "Mul4">>[m]
    BY DEF m
  <2> HIDE DEF type
  <2>4. /\ m = 1 => type = "ConstAdd"
        /\ m = 2 => type = "Mul"
        /\ m = 3 => type = "Mul3"
        /\ m = 4 => type = "Mul4"
    BY <2>3
  <2>5. /\ m \in 1 .. 4 /\ type \in GateTypes
        /\ \/ type = "ConstAdd" /\ m = 1
           \/ type \in {"Add", "Mul"} /\ m = 2
           \/ type = "Mul3" /\ m = 3
           \/ type = "Mul4" /\ m = 4
    BY <2>2, <2>4 DEF GateTypes
  <2> QED BY <2>5 DEF m
<1> HIDE DEF type
<1>11. Takes(Gate(type, ins), N) /\ Gate(type, ins).type = type /\ type \in Allowed
  BY <1>6, <1>7, <1>9, <1>10, GateIs
<1> QED
  BY <1>2, <1>11

\* A layer on the rows of a network.
LEMMA NetworkGrows ==
  ASSUME NEW acc, NEW n \in Nat, Network(acc, n), NEW M \in Nat, NEW new,
         new = [t \in 1 .. M |-> new[t]],
         \A t \in 1 .. M : Takes(new[t], Len(acc.gates)) /\ new[t].type \in Allowed,
         NEW next, next \in [1 .. n -> 1 .. Len(acc.gates) + M]
  PROVE  /\ Network([gates |-> acc.gates \o new, row |-> next], n)
         /\ Len(acc.gates \o new) = Len(acc.gates) + M
<1> DEFINE gates == acc.gates
           N == Len(gates)
           all == gates \o new
<1>1. Built(gates, Allowed) /\ N \in Nat /\ 2 * n <= N /\ DOMAIN new = 1 .. M
  BY DEF Network
<1>2. next \in [1 .. n -> 1 .. N + M]
  OBVIOUS
<1>3. \A t \in 1 .. M : Takes(new[t], N) /\ new[t].type \in Allowed
  OBVIOUS
<1> HIDE DEF gates, N
<1>4. Built(all, Allowed) /\ Len(all) = N + M
  BY <1>1, <1>3, BuiltMore, SMTT(40) DEF N
<1> HIDE DEF all
<1>5. next \in [1 .. n -> 1 .. Len(all)] /\ Len(all) \in Nat /\ 2 * n <= Len(all)
  BY <1>1, <1>2, <1>4
<1> DEFINE out == [gates |-> all, row |-> next]
<1>6. out.gates = all /\ out.row = next
  OBVIOUS
<1> HIDE DEF out
<1>7. Network(out, n)
  BY <1>4, <1>5, <1>6 DEF Network
<1> QED
  BY <1>4, <1>7 DEF out, all, N, gates

\* A layer of the prefix products.
LEMMA PrefixLayerIs ==
  ASSUME NEW B \in Nat \ {0}, NEW c \in Nat \ {0}, NEW n, n = c * (4 * B), NEW level,
         B = 4 ^ (level - 1), NEW acc, Network(acc, n)
  PROVE  Network(PrefixLayer(acc, level), n)
<1> DEFINE gates == acc.gates
           row == acc.row
           N == Len(gates)
           new == [t \in 1 .. n |-> PrefixGate(t, B, row, 0)]
           y(x) == (x - 1) % (4 * B)
           next == [x \in 1 .. n |-> N + ((x - 1) \div (4 * B)) * 4 * B
                                     + 4 * (y(x) % B) + y(x) \div B + 1]
<1>1. n \in Nat /\ N \in Nat /\ row \in [1 .. n -> 1 .. N] /\ DOMAIN row = 1 .. n
  BY DEF Network
<1>2. PrefixLayer(acc, level) = [gates |-> gates \o new, row |-> next]
  BY <1>1, Zenon DEF PrefixLayer
<1> HIDE DEF row, N
<1>3. \A t \in 1 .. n : Takes(new[t], N) /\ new[t].type \in Allowed
  BY <1>1, PrefixGateIs
<1>4. ASSUME NEW x \in 1 .. n PROVE next[x] \in 1 .. N + n
  <2> DEFINE start == ((x - 1) \div (4 * B)) * 4 * B
             i == 4 * (y(x) % B) + y(x) \div B
  <2>1. start \in Nat /\ start + 4 * B <= n /\ i \in 0 .. 4 * B - 1
    <3>1. /\ ((x - 1) \div (4 * B)) * 4 * B \in Nat
          /\ ((x - 1) \div (4 * B)) * 4 * B + 4 * B <= n
          /\ 4 * (((x - 1) % (4 * B)) % B) + ((x - 1) % (4 * B)) \div B \in 0 .. 4 * B - 1
      BY BlockIs
    <3> QED BY <3>1, Zenon
  <2>2. next[x] = N + start + i + 1
    <3> DEFINE j == 4 * (y(x) % B)
               k == y(x) \div B
    <3>1. next[x] = N + start + j + k + 1
      BY Zenon
    <3>2. B \in Nat \ {0} /\ y(x) \in Int
      OBVIOUS
    <3>3. j \in Int /\ k \in Int /\ i = j + k
      <4> DEFINE z == y(x)
      <4>1. z \in Int
        BY <3>2
      <4> HIDE DEF z
      <4>2. 4 * (z % B) \in Int /\ z \div B \in Int
        BY <3>2, <4>1
      <4> QED BY <4>2 DEF z
    <3> HIDE DEF i, j, k, start, next
    <3> QED BY <1>1, <2>1, <3>1, <3>3
  <2> HIDE DEF start, i, next
  <2> QED BY <1>1, <2>1, <2>2, SMTT(40)
<1>5. next \in [1 .. n -> 1 .. N + n]
  BY <1>4, ZenonT(60)
<1>6. new = [t \in 1 .. n |-> new[t]]
  OBVIOUS
<1> HIDE DEF new, next
<1>7. Network([gates |-> gates \o new, row |-> next], n)
  BY <1>1, <1>3, <1>5, <1>6, NetworkGrows DEF N
<1> QED
  BY <1>2, <1>7

\* The differences of neighbouring rows.
LEMMA ChangesIs ==
  ASSUME NEW n \in Nat \ {0}, NEW k, NEW acc, Network(acc, n)
  PROVE  Network(Changes(acc, k), n)
<1> DEFINE gates == acc.gates
           row == acc.row
           N == Len(gates)
           a == [x \in 1 .. n |-> ConstGate("ConstAdd", row[x], 1)]
           b == [x \in 1 .. n |-> IF x % k = 1 THEN ConstGate("ConstAdd", N + x, 0)
                                  ELSE Gate("Add", <<N + x, N + x - 1>>)]
           next == [x \in 1 .. n |-> N + n + x]
           mid == [gates |-> gates \o a, row |-> row]
<1>1. N \in Nat /\ row \in [1 .. n -> 1 .. N] /\ 2 * n <= N /\ Len(row) = n
  BY DEF Network
<1>2. Changes(acc, k) = [gates |-> (gates \o a) \o b, row |-> next]
  BY <1>1, Zenon DEF Changes
<1> HIDE DEF row, N
<1>3. \A x \in 1 .. n : Takes(a[x], N) /\ a[x].type \in Allowed
  <2>1. 1 \in Int /\ "ConstAdd" \in Allowed
    BY DEF Allowed, Linear
  <2> QED BY <1>1, <2>1, ConstGateIs
<1>4. a = [x \in 1 .. n |-> a[x]] /\ row \in [1 .. n -> 1 .. N + n]
  BY <1>1
<1> HIDE DEF a
<1>5. Network(mid, n) /\ Len(gates \o a) = N + n
  BY <1>1, <1>3, <1>4, NetworkGrows, ZenonT(60) DEF N
<1>6. Len(mid.gates) = N + n /\ mid.gates = gates \o a
  BY <1>5
<1> HIDE DEF mid
<1>7. ASSUME NEW x \in 1 .. n PROVE Takes(b[x], N + n) /\ b[x].type \in Allowed
  <2>1. N + n \in Nat /\ N + x \in 1 .. N + n /\ N + x - 1 \in 1 .. N + n
    BY <1>1
  <2>2. CASE x % k = 1
    <3>1. b[x] = ConstGate("ConstAdd", N + x, 0)
      BY <2>2
    <3>2. 0 \in Int /\ "ConstAdd" \in Allowed
      BY DEF Allowed, Linear
    <3> HIDE DEF b
    <3> QED BY <2>1, <3>1, <3>2, ConstGateIs
  <2>3. CASE x % k # 1
    <3> DEFINE ins == <<N + x, N + x - 1>>
    <3>1. b[x] = Gate("Add", ins)
      BY <2>3
    <3>2. /\ ins \in Seq(Nat) /\ Len(ins) = 2 /\ DOMAIN ins = 1 .. 2
          /\ \A i \in 1 .. 2 : ins[i] \in 1 .. N + n
      BY <2>1
    <3> HIDE DEF ins, b
    <3>3. "Add" \in GateTypes /\ 2 \in Nat /\ "Add" \in {"Add", "Mul"}
      BY DEF GateTypes
    <3>4. Takes(Gate("Add", ins), N + n) /\ Gate("Add", ins).type = "Add" /\ "Add" \in Allowed
      BY <2>1, <3>2, <3>3, GateIs
    <3> QED BY <3>1, <3>4
  <2> QED BY <2>2, <2>3
<1>8. b = [x \in 1 .. n |-> b[x]]
  OBVIOUS
<1> HIDE DEF b
<1>9. next \in [1 .. n -> 1 .. (N + n) + n]
  BY <1>1
<1> HIDE DEF next
<1>10. Network([gates |-> mid.gates \o b, row |-> next], n)
  BY <1>5, <1>6, <1>7, <1>8, <1>9, NetworkGrows
<1> QED
  BY <1>2, <1>6, <1>10

\* Two sequences, one behind the other.
LEMMA Joins ==
  ASSUME NEW S, NEW a \in Seq(S), NEW b \in Seq(S), NEW m \in Nat, NEW n \in Nat,
         Len(a) = m, Len(b) = n
  PROVE  a \o b \in Seq(S) /\ Len(a \o b) = m + n
  BY ConcatProperties

\* The last gate of generateParaPrefixOR, over the wires in r and the last n of 2 * n inputs.
LEMMA SelectIs ==
  ASSUME NEW n \in Nat \ {0}, NEW N \in Nat, 2 * n <= N, NEW r \in [1 .. n -> 1 .. N],
         NEW z, z = [x \in 1 .. n |-> 1], NEW d, d = [x \in 1 .. n |-> n + x]
  PROVE  /\ Takes(Gate("Dotprod", z \o r \o z \o d), N)
         /\ Gate("Dotprod", z \o r \o z \o d).type \in Allowed
<1> DEFINE S == 1 .. N
           zr == z \o r
           zrz == (z \o r) \o z
           ins == ((z \o r) \o z) \o d
<1>1. z \in [1 .. n -> S] /\ d \in [1 .. n -> S]
  OBVIOUS
<1>2. z \in Seq(S) /\ Len(z) = n /\ r \in Seq(S) /\ Len(r) = n /\ d \in Seq(S) /\ Len(d) = n
  BY <1>1
<1> HIDE DEF S
<1>3. zr \in Seq(S) /\ Len(zr) = n + n
  <2>0. n \in Nat
    OBVIOUS
  <2> QED BY ONLY <1>2, <2>0, Joins DEF zr
<1>4. zrz \in Seq(S) /\ Len(zrz) = (n + n) + n
  <2> HIDE DEF zr
  <2>1. zrz = zr \o z
    BY DEF zr
  <2>2. n \in Nat /\ n + n \in Nat
    OBVIOUS
  <2> HIDE DEF zrz
  <2> QED BY ONLY <1>2, <1>3, <2>1, <2>2, Joins
<1>5. ins \in Seq(S) /\ Len(ins) = ((n + n) + n) + n
  <2> HIDE DEF zrz
  <2>1. ins = zrz \o d
    BY DEF zrz
  <2>2. n \in Nat /\ (n + n) + n \in Nat
    OBVIOUS
  <2> HIDE DEF ins
  <2> QED BY ONLY <1>2, <1>4, <2>1, <2>2, Joins
<1> DEFINE m == 4 * n
<1>6. Len(ins) = m /\ m \in Nat /\ m % 2 = 0
  BY <1>5
<1> HIDE DEF ins, m
<1>7. ins \in Seq(Nat) /\ DOMAIN ins = 1 .. m /\ \A i \in 1 .. m : ins[i] \in 1 .. N
  <2>1. S \subseteq Nat
    BY DEF S
  <2> QED BY <1>5, <1>6, <2>1, SeqMonotonic, LenProperties, ElementOfSeq DEF S
<1>8. "Dotprod" \in GateTypes
  BY DEF GateTypes
<1>9. Takes(Gate("Dotprod", ins), N) /\ Gate("Dotprod", ins).type = "Dotprod" /\ "Dotprod" \in Allowed
  BY <1>6, <1>7, <1>8, GateIs
<1> QED
  BY <1>9 DEF ins

\* generateParaPrefixOR: a circuit over 4 * K inputs.
LEMMA PrefixORIs ==
  /\ Built(PrefixOR.gates, Allowed) /\ PrefixOR.outputs[1] \in DOMAIN PrefixOR.gates
<1> DEFINE n == 2 * K
           start == [gates |-> Inputs(2 * n), row |-> [x \in 1 .. n |-> x]]
           xs == Levels(L)
           acc == InTurn(PrefixLayer, start, xs)
           z == Changes(acc, K)
           zeros == [x \in 1 .. n |-> 1]
           last == [x \in 1 .. n |-> n + x]
           g == Gate("Dotprod", zeros \o z.row \o zeros \o last)
<1>1. /\ L \in Nat /\ K \in Nat \ {0} /\ n \in Nat \ {0} /\ Len(xs) = L
      /\ \A i \in 1 .. L : xs[i] = i
  BY PowersAre, LevelsAre
<1>2. PrefixOR = Circ(Append(z.gates, g), <<Len(z.gates) + 1>>)
  BY Zenon DEF PrefixOR, GenerateParaPrefixOR, K
<1>3. acc = (CHOOSE f : Turned(f, "or", 0, start, xs))[Len(xs)]
  BY DEF InTurn, Turned, Do
<1> HIDE DEF acc, xs
<1>4. Loop(acc, "or", 0, start, xs)
  BY <1>1, <1>3, TurnedLoop
<1>5. PICK f : /\ f[0] = start /\ f[L] = acc
               /\ \A i \in 1 .. L : f[i] = Do("or", 0, f[i - 1], xs[i])
  BY <1>1, <1>4 DEF Loop
<1> DEFINE G == {i \in 0 .. L : Network(f[i], n)}
<1>6. 0 \in G
  <2> DEFINE m == 2 * n
  <2>0. m \in Nat /\ n <= m /\ "Inp" \in Allowed
    BY <1>1 DEF Allowed
  <2>1. start.gates = Inputs(m) /\ start.row = [x \in 1 .. n |-> x]
    OBVIOUS
  <2> HIDE DEF start
  <2>2. Built(Inputs(m), Allowed) /\ Len(Inputs(m)) = m
    <3> HIDE DEF m
    <3> QED BY <2>0, InputsBuilt
  <2>3. start.row \in [1 .. n -> 1 .. m]
    BY <1>1, <2>0, <2>1
  <2>4. Network(start, n)
    BY <2>0, <2>1, <2>2, <2>3 DEF Network
  <2> HIDE DEF n
  <2> QED BY <1>1, <1>5, <2>4
<1>7. ASSUME NEW i \in 0 .. L - 1, i \in G PROVE i + 1 \in G
  <2> DEFINE level == i + 1
             B == 4 ^ (level - 1)
  <2>1. level \in 1 .. L /\ level - 1 = i /\ i \in 0 .. L
    BY <1>1
  <2>2. B = 4 ^ i
    BY <2>1
  <2>3. B \in Nat \ {0}
    BY <2>1, <2>2, PowersAre
  <2>4. 4 ^ level = 4 * B
    BY <2>2, PowersAssumption
  <2>5. PICK c \in Nat \ {0} : K = c * 4 ^ level
    <3>1. level \in 0 .. L
      BY <2>1
    <3> HIDE DEF level
    <3> QED BY <3>1, PowersAre
  <2>6. n = (2 * c) * (4 * B) /\ 2 * c \in Nat \ {0}
    <3>1. K = c * (4 * B)
      BY <2>4, <2>5
    <3> HIDE DEF B
    <3> QED BY <2>3, <3>1
  <2> DEFINE e == 2 * c
  <2>7. e \in Nat \ {0} /\ n = e * (4 * B) /\ B = 4 ^ (level - 1)
    BY <2>6
  <2>8. f[level] = PrefixLayer(f[i], level)
    <3>1. f[level] = Do("or", 0, f[level - 1], xs[level])
      BY <1>5, <2>1
    <3> QED BY <1>1, <2>1, <3>1 DEF Do
  <2>9. Network(f[i], n)
    BY <1>7
  <2> HIDE DEF e, B, n, level
  <2>10. Network(PrefixLayer(f[i], level), n)
    BY <2>3, <2>7, <2>9, PrefixLayerIs
  <2> QED BY <1>1, <2>1, <2>8, <2>10 DEF level
<1>8. L \in G
  <2> HIDE DEF G
  <2> QED BY <1>1, <1>6, <1>7, LoopEnds
<1>9. Network(acc, n)
  BY <1>5, <1>8
<1> HIDE DEF G, n
<1>10. Network(z, n)
  BY <1>1, <1>9, ChangesIs
<1> DEFINE N == Len(z.gates)
           new == [t \in 1 .. 1 |-> g]
<1> HIDE DEF z
<1>11. Built(z.gates, Allowed) /\ N \in Nat /\ 2 * n <= N /\ z.row \in [1 .. n -> 1 .. N]
  BY <1>10 DEF Network
<1>12. Takes(g, N) /\ g.type \in Allowed
  <2> HIDE DEF N
  <2> QED BY <1>1, <1>11, SelectIs
<1> HIDE DEF g
<1>13. Append(z.gates, g) = z.gates \o new
  <2>1. z.gates \in Seq(Gates) /\ g \in Gates
    BY <1>11, <1>12 DEF Built, IsCircuit, Takes
  <2>2. new = <<g>>
    OBVIOUS
  <2> QED BY <2>1, <2>2, AppendIsConcat
<1>14. Built(z.gates \o new, Allowed) /\ Len(z.gates \o new) = N + 1
  <2>1. /\ DOMAIN new = 1 .. 1 /\ new = [t \in 1 .. 1 |-> new[t]]
        /\ \A t \in 1 .. 1 : Takes(new[t], N) /\ new[t].type \in Allowed
    BY <1>12
  <2> DEFINE gates == z.gates
  <2>2. Built(gates, Allowed) /\ N = Len(gates) /\ N \in Nat
    BY <1>11
  <2>3. 1 \in Nat
    OBVIOUS
  <2> DEFINE M == 1
             A == Allowed
  <2>4. /\ M \in Nat /\ DOMAIN new = 1 .. M /\ new = [t \in 1 .. M |-> new[t]]
        /\ \A t \in 1 .. M : Takes(new[t], N) /\ new[t].type \in A
    BY <2>1, <2>3
  <2>5. Built(gates, A)
    BY <2>2
  <2> HIDE DEF new, N, gates, M, A
  <2>6. Built(gates \o new, A) /\ Len(gates \o new) = N + M
    BY ONLY <2>2, <2>4, <2>5, BuiltMore
  <2> QED BY <2>6 DEF gates, M, A
<1> HIDE DEF new
<1>15. PrefixOR.gates = z.gates \o new /\ PrefixOR.outputs[1] = N + 1
  BY <1>2, <1>13 DEF Circ
<1> DEFINE all == z.gates \o new
<1>16. N + 1 \in DOMAIN all
  <2>1. all \in Seq(Gates) /\ Len(all) = N + 1
    BY <1>14 DEF Built, IsCircuit
  <2> HIDE DEF all
  <2>2. DOMAIN all = 1 .. N + 1
    BY <2>1, LenProperties
  <2> QED BY <1>11, <2>2
<1> QED
  BY <1>14, <1>15, <1>16

\* generateMultK and generateParaPrefixOR, as kEqz and kLtz call them, make circuits that
\* addGate takes gate by gate, and whose outputs are wires of theirs, whatever the width.
THEOREM ComparisonCircuits ==
  \A c \in {MultK, PrefixOR} : IsCircuit(c.gates) /\ c.outputs[1] \in DOMAIN c.gates
  BY MultKIs, PrefixORIs DEF Built

-----------------------------------------------------------------------------
(* The gates of a circuit, in the order in which the dealer goes through   *)
(* them.                                                                   *)

\* The first n gates of an order.
First(order, n) == {order[i] : i \in 1 .. n}

\* The first wires of an order, one more.
LEMMA FirstMore ==
  ASSUME NEW order, NEW n \in Nat
  PROVE  First(order, n + 1) = First(order, n) \cup {order[n + 1]} /\ First(order, 0) = {}
<1>1. 1 .. n + 1 = (1 .. n) \cup {n + 1}
  OBVIOUS
<1>2. 1 .. 0 = {}
  OBVIOUS
<1>3. First(order, n + 1) = {order[i] : i \in (1 .. n) \cup {n + 1}}
  BY <1>1 DEF First
<1> QED
  BY <1>2, <1>3 DEF First

\* Every gate comes once, behind the gates it reads.
LEMMA LevelsOf ==
  ASSUME NEW gates, IsCircuit(gates), NEW N, N = Len(gates), NEW lev, lev = GateLevel(gates)
  PROVE  \E D \in Nat : /\ GatesByLevel(gates) = [d \in 1 .. D |-> Level(N, lev, d - 1)]
                       /\ \A w \in 1 .. N : lev[w] < D
  BY GatesByLevelIs

\* Level by level, every gate comes once and behind the gates it reads.
LEMMA OrderIs ==
  ASSUME NEW gates, IsCircuit(gates), NEW N, N = Len(gates), NEW lev, lev = GateLevel(gates),
         NEW order, order = CircuitOrder(gates)
  PROVE  /\ N \in Nat /\ Len(order) = N /\ First(order, N) = 1 .. N
         /\ \A i \in 1 .. N : /\ order[i] \in 1 .. N
                             /\ ToSet(gates[order[i]].ins) \subseteq First(order, i - 1)
<1>1. /\ N \in Nat /\ lev \in [1 .. N -> Nat]
      /\ \A w \in 1 .. N : \A v \in ToSet(gates[w].ins) :
           v \in 1 .. N /\ v < w /\ lev[v] <= lev[w]
  BY GatesByLevelIs
<1> DEFINE levels == GatesByLevel(gates)
<1>2. PICK D \in Nat : /\ levels = [d \in 1 .. D |-> Level(N, lev, d - 1)]
                       /\ \A w \in 1 .. N : lev[w] < D
  BY LevelsOf
<1>8. order = FlattenSeq(levels)
  BY DEF CircuitOrder
<1> HIDE DEF levels
<1>3. order \in Seq(1 .. N) /\ InOrder(lev, order) /\ ToSet(order) = 1 .. N
  <2>1. /\ FlattenSeq(levels) \in Seq(1 .. N) /\ InOrder(lev, FlattenSeq(levels))
        /\ ToSet(FlattenSeq(levels)) = 1 .. N
    BY ONLY <1>1, <1>2, LevelsInOrder
  <2> QED BY <1>8, <2>1, Zenon
<1>4. Len(order) = N /\ \A i, j \in 1 .. N : Before(lev, order[i], order[j]) => i < j
  BY <1>1, <1>3, InOrderOnce
<1>5. DOMAIN order = 1 .. N /\ order \in [1 .. N -> 1 .. N]
  BY <1>1, <1>3, <1>4, LenProperties
<1>6. First(order, N) = 1 .. N
  BY <1>3, <1>5 DEF First, ToSet
<1>7. ASSUME NEW i \in 1 .. N, NEW v \in ToSet(gates[order[i]].ins)
      PROVE  v \in First(order, i - 1)
  <2>1. order[i] \in 1 .. N
    BY <1>5
  <2>2. v \in 1 .. N /\ Before(lev, v, order[i])
    BY <1>1, <1>7, <2>1 DEF Before
  <2>3. PICK j \in 1 .. N : order[j] = v
    BY <1>6, <2>2 DEF First
  <2>4. j < i
    BY <1>4, <2>2, <2>3
  <2>5. j \in 1 .. i - 1
    BY <2>4
  <2> QED BY <2>3, <2>5 DEF First
<1> QED
  BY <1>1, <1>4, <1>5, <1>6, <1>7

\* What the builder accepts, by type.
LEMMA TakesIs ==
  ASSUME NEW g, NEW n, Takes(g, n)
  PROVE  /\ g \in Gates /\ ToSet(g.ins) \subseteq 1 .. n
         /\ g.type = "Inp" => g = Inp
         /\ g.type \in Muls => MulGate(g)
         /\ g.type = "Dotprod" => DotGate(g)
         /\ g.type \in Linear => FIn2(g) \/ ConstOp(g)
         /\ g.type \in {"Eqz", "Ltz"} => FIn1(g)
<1>0. /\ g = Inp => g.type = "Inp"
      /\ FIn2(g) => g.type \in {"Add", "Mul", "Sub"}
      /\ FIn3(g) => g.type = "Mul3"
      /\ FIn4(g) => g.type = "Mul4"
      /\ ConstOp(g) => g.type \in {"ConstAdd", "ConstMul"}
      /\ FIn1(g) => g.type \in {"Relu", "Msb", "Eqz", "Ltz"}
      /\ SIMD(g) => g.type \in {"Dotprod", "Trdotp"}
  <2>1. g = Inp => g.type = "Inp"
    BY DEF Inp, Gate
  <2>2. /\ FIn2(g) => g.type \in {"Add", "Mul", "Sub"}
        /\ FIn3(g) => g.type = "Mul3"
        /\ FIn4(g) => g.type = "Mul4"
    BY Zenon DEF FIn2, FIn3, FIn4
  <2>3. /\ ConstOp(g) => g.type \in {"ConstAdd", "ConstMul"}
        /\ FIn1(g) => g.type \in {"Relu", "Msb", "Eqz", "Ltz"}
        /\ SIMD(g) => g.type \in {"Dotprod", "Trdotp"}
    BY Zenon DEF FIn1, ConstOp, SIMD
  <2> QED BY <2>1, <2>2, <2>3
<1>1. \/ g = Inp /\ g.type = "Inp"
      \/ g.type \in {"Add", "Mul", "Sub"} /\ FIn2(g)
      \/ g.type = "Mul3" /\ FIn3(g)
      \/ g.type = "Mul4" /\ FIn4(g)
      \/ g.type \in {"ConstAdd", "ConstMul"} /\ ConstOp(g)
      \/ g.type \in {"Relu", "Msb", "Eqz", "Ltz"} /\ FIn1(g)
      \/ g.type \in {"Dotprod", "Trdotp"} /\ SIMD(g)
  BY <1>0 DEF Takes
<1>2. g \in Gates /\ ToSet(g.ins) \subseteq 1 .. n
  BY DEF Takes
<1> QED
  BY <1>1, <1>2 DEF Muls, Linear, MulGate, DotGate

-----------------------------------------------------------------------------
(* The Boolean circuit of a comparison.                                    *)

\* What has been made may be set aside and put back.
LEMMA SetMadeIs ==
  ASSUME NEW k, NEW st, Deals(st, k), NEW m, NEW t, t = [st EXCEPT !.made = m]
  PROVE  Deals(t, k) /\ t.made = m /\ t.inner = st.inner /\ t.pre = st.pre
<1>1. IsNode(st)
  BY DEF Deals
<1>2. /\ IsNode(t) /\ t.id = st.id /\ t.seed = st.seed /\ t.key = st.key /\ t.pos = st.pos
      /\ t.made = m /\ t.inner = st.inner /\ t.pre = st.pre
  BY <1>1 DEF IsNode
<1>3. t.pos \in [Streams -> Nat]
  BY <1>2 DEF Deals
<1> QED
  BY ONLY <1>2, <1>3, Deals(st, k), DealsOn

\* A gate of the Boolean circuit of a comparison is noted.
LEMMA SetInnerIs ==
  ASSUME NEW k, NEW st, Deals(st, k), NEW f, NEW t, t = [st EXCEPT !.inner = f]
  PROVE  Deals(t, k) /\ t.made = st.made /\ t.inner = f /\ t.pre = st.pre
<1>1. IsNode(st)
  BY DEF Deals
<1>2. /\ IsNode(t) /\ t.id = st.id /\ t.seed = st.seed /\ t.key = st.key /\ t.pos = st.pos
      /\ t.made = st.made /\ t.inner = f /\ t.pre = st.pre
  BY <1>1 DEF IsNode
<1>3. t.pos \in [Streams -> Nat]
  BY <1>2 DEF Deals
<1> QED
  BY ONLY <1>2, <1>3, Deals(st, k), DealsOn

\* With(f, x, y) is f, with y at x.
LEMMA WithIs == \A f, x, y : With(f, x, y) = [v \in DOMAIN f \cup {x} |-> IF v = x THEN y ELSE f[v]]
  BY OnceIs DEF With

\* s has what st has, and the Boolean gates W.
Inner(st, s, k, W) ==
  /\ Deals(s, k) /\ s.made = st.made /\ s.pre = st.pre
  /\ DOMAIN s.inner = W /\ \A w \in W : GateSound(s.inner[w], 2, k)

\* A sound gate is added to the Boolean circuit of a comparison,
LEMMA SetInnerGate ==
  ASSUME NEW k, NEW st, NEW s, NEW W, Inner(st, s, k, W), NEW w, NEW g, GateSound(g, 2, k)
  PROVE  Inner(st, SetInner(s, w, g), k, W \cup {w})
<1> DEFINE h == s.inner
           more == With(h, w, g)
           t == [s EXCEPT !.inner = more]
<1>0. DOMAIN h = W
  BY DEF Inner
<1> HIDE DEF h
<1>1. /\ DOMAIN more = W \cup {w} /\ more[w] = g /\ \A v \in W : v # w => more[v] = h[v]
  <2>1. more = [v \in DOMAIN h \cup {w} |-> IF v = w THEN g ELSE h[v]]
    BY WithIs
  <2> HIDE DEF more
  <2> QED BY <1>0, <2>1
<1> HIDE DEF more
<1>2. Deals(t, k) /\ t.made = s.made /\ t.inner = more /\ t.pre = s.pre
  BY SetInnerIs DEF Inner
<1>3. t = SetInner(s, w, g)
  BY DEF SetInner, more, h
<1> HIDE DEF t
<1>4. \A v \in W \cup {w} : GateSound(t.inner[v], 2, k)
  BY <1>1, <1>2 DEF Inner, h
<1> QED
  BY <1>1, <1>2, <1>3, <1>4 DEF Inner

\* and so is one from the sharings that have been made for it.
LEMMA MadeInnerGate ==
  ASSUME NEW k, NEW st, NEW s, NEW W, Inner(st, s, k, W), NEW w, NEW a, a.inner = s.inner, a.pre = s.pre,
         NEW t, MakesGate(a, t, 2, k)
  PROVE  Inner(st, [InnerMade(t, w) EXCEPT !.made = s.made], k, W \cup {w})
<1> DEFINE g == MadeGate(t)
           b == SetInner(t, w, g)
           c == [b EXCEPT !.made = s.made]
<1>1. Inner(t, t, k, W) /\ GateSound(g, 2, k)
  BY DEF MakesGate, Inner
<1> HIDE DEF g
<1>2. Inner(t, b, k, W \cup {w})
  BY <1>1, SetInnerGate
<1> HIDE DEF b
<1>3. Deals(c, k) /\ c.made = s.made /\ c.inner = b.inner /\ c.pre = b.pre
  BY <1>2, SetMadeIs DEF Inner
<1>4. c = [InnerMade(t, w) EXCEPT !.made = s.made]
  BY DEF InnerMade, b, g
<1> HIDE DEF c
<1>5. Inner(st, c, k, W \cup {w})
  BY <1>2, <1>3 DEF Inner, MakesGate
<1> QED
  BY <1>4, <1>5

\* What the dealer has of the Boolean gates that a gate reads.
LEMMA InnerReads ==
  ASSUME NEW k, NEW st, NEW s, NEW W, Inner(st, s, k, W), NEW g, ToSet(g.ins) \subseteq W
  PROVE  ReadsSound(s.inner, g, 2, k)
  BY DEF Inner, ReadsSound, GateSound

\* A gate of a circuit that is built reads gates before it.
LEMMA GateOf ==
  ASSUME NEW T, NEW gates, Built(gates, T), NEW w \in DOMAIN gates
  PROVE  w \in Nat /\ Takes(gates[w], w - 1) /\ gates[w].type \in T
<1>1. gates \in Seq(Gates) /\ DOMAIN gates = 1 .. Len(gates) /\ Len(gates) \in Nat
  BY LenProperties DEF Built, IsCircuit
<1> QED
  BY <1>1, CircuitTakes DEF Built

\* One gate of the circuit of kEqz is dealt soundly.
LEMMA MultKGateInner ==
  ASSUME PrgTyped, NEW k \in [Rings -> Int], NEW st, NEW s, NEW W, Inner(st, s, k, W),
         NEW bits, \A i \in 1 .. K : bits[i] \in Int,
         NEW w \in DOMAIN MultK.gates, ToSet(MultK.gates[w].ins) \subseteq W
  PROVE  Inner(st, MultKGate(s, bits, w), k, W \cup {w})
<1> DEFINE a == [s EXCEPT !.made = <<>>]
           g == MultK.gates[w]
           t == IF g.type = "Inp" THEN RandomShareSecret(a, 2, bits[w])
                ELSE MulMasks(a, a.inner, g, 2)
<1>1. 2 \in Rings
  BY RingsAre
<1>2. MultKGate(s, bits, w) = [InnerMade(t, w) EXCEPT !.made = s.made]
  BY Zenon DEF MultKGate, Inside
<1>3. Deals(a, k) /\ a.made = <<>> /\ a.inner = s.inner /\ a.pre = s.pre
  BY SetMadeIs DEF Inner
<1> HIDE DEF a
<1>4. Takes(g, w - 1) /\ g.type \in Products /\ (g.type = "Inp" => w \in 1 .. K)
  BY MultKIs, GateOf
<1> HIDE DEF g
<1>5. ReadsSound(a.inner, g, 2, k)
  BY <1>3, InnerReads DEF g
<1>6. MakesGate(a, t, 2, k)
  <2>1. CASE g.type = "Inp"
    <3>1. bits[w] \in Int
      BY <1>4, <2>1
    <3>2. Makes(a, t, 2, k)
      BY <1>1, <1>3, <2>1, <3>1, RandomShareSecretMakes
    <3> QED BY <1>3, <3>2, MakesOneGate
  <2>2. CASE g.type # "Inp"
    <3>1. MulGate(g)
      BY <1>4, <2>2, TakesIs DEF Products
    <3> QED BY <1>1, <1>3, <1>5, <2>2, <3>1, MulMasksMake
  <2> QED BY <2>1, <2>2
<1> HIDE DEF t
<1> QED
  BY <1>2, <1>3, <1>6, MadeInnerGate

\* The loop of kEqz over the gates of MultK.
LEMMA EqzInner ==
  ASSUME PrgTyped, NEW k \in [Rings -> Int], NEW st, Deals(st, k), st.inner = <<>>,
         NEW bits, \A i \in 1 .. K : bits[i] \in Int,
         NEW result, Loop(result, "eqz", bits, st, MultKOrder)
  PROVE  Inner(st, result, k, DOMAIN MultK.gates)
<1> DEFINE gates == MultK.gates
           N == Len(gates)
           order == MultKOrder
<1>1. IsCircuit(gates) /\ DOMAIN gates = 1 .. N
  BY MultKIs, LenProperties DEF Built, IsCircuit
<1>2. order = CircuitOrder(gates)
  BY DEF MultKOrder
<1> HIDE DEF gates, order
<1>3. /\ N \in Nat /\ Len(order) = N /\ First(order, N) = 1 .. N
      /\ \A i \in 1 .. N : /\ order[i] \in 1 .. N
                          /\ ToSet(gates[order[i]].ins) \subseteq First(order, i - 1)
  <2> DEFINE lev == GateLevel(gates)
  <2>1. lev = GateLevel(gates) /\ N = Len(gates)
    OBVIOUS
  <2> HIDE DEF lev, N
  <2> QED BY <1>1, <1>2, <2>1, OrderIs
<1>4. PICK f : /\ f[0] = st /\ f[N] = result
               /\ \A i \in 1 .. N : f[i] = Do("eqz", bits, f[i - 1], order[i])
  BY <1>3 DEF Loop, order
<1> HIDE DEF N
<1> DEFINE G == {i \in 0 .. N : Inner(st, f[i], k, First(order, i))}
<1>5. 0 \in G
  <2>1. First(order, 0) = {} /\ DOMAIN st.inner = {}
    BY FirstMore
  <2>2. Inner(st, st, k, {})
    BY <2>1 DEF Inner
  <2>3. 0 \in 0 .. N
    BY <1>3
  <2>4. Inner(st, f[0], k, First(order, 0))
    BY <1>4, <2>1, <2>2
  <2> QED BY ONLY <2>3, <2>4
<1>6. ASSUME NEW i \in 0 .. N - 1, i \in G PROVE i + 1 \in G
  <2> DEFINE w == order[i + 1]
             s == f[i]
             W == First(order, i)
  <2>1. i + 1 \in 1 .. N /\ (i + 1) - 1 = i /\ i \in Nat
    BY <1>3
  <2>2. w \in 1 .. N /\ ToSet(gates[w].ins) \subseteq W
    BY <1>3, <2>1
  <2>3. First(order, i + 1) = W \cup {w}
    BY <2>1, FirstMore
  <2>4. f[i + 1] = MultKGate(s, bits, w)
    BY <1>4, <2>1 DEF Do
  <2>5. Inner(st, s, k, W)
    BY <1>6
  <2>6. w \in DOMAIN MultK.gates /\ ToSet(MultK.gates[w].ins) \subseteq W
    BY <1>1, <2>2 DEF gates
  <2> HIDE DEF w, s, W
  <2>7. Inner(st, MultKGate(s, bits, w), k, W \cup {w})
    BY <2>5, <2>6, MultKGateInner
  <2>8. Inner(st, f[i + 1], k, First(order, i + 1))
    BY <2>3, <2>4, <2>7
  <2>9. i + 1 \in 0 .. N
    BY <2>1
  <2> QED BY ONLY <2>8, <2>9
<1>7. N \in G
  <2> HIDE DEF G
  <2> QED BY <1>3, <1>5, <1>6, LoopEnds
<1> QED
  BY <1>1, <1>3, <1>4, <1>7 DEF gates

\* kLtz: the inputs of PrefixOR, all dealt at once.
PrefixORWires == {v \in DOMAIN PrefixOR.gates : PrefixOR.gates[v] = Inp}

\* So are the inputs of the circuit of kLtz,
LEMMA PrefixORInputsInner ==
  ASSUME PrgTyped, NEW k \in [Rings -> Int], NEW st, Deals(st, k),
         NEW bits, bits \in [1 .. K -> Int]
  PROVE  Inner(st, PrefixORInputs(st, bits), k, PrefixORWires)
<1> DEFINE a == [st EXCEPT !.made = <<>>]
           xs == Reverse(bits)
           t == ShareAll(a, 2, xs)
           m == t.made
           gs == [w \in PrefixORWires |-> PreGate(m[((w - 1) % K) + 1], <<>>)]
           b == [t EXCEPT !.inner = gs]
           c == [b EXCEPT !.made = st.made]
<1>1. 2 \in Rings /\ K \in Nat \ {0}
  BY RingsAre, PowersAre
<1>2. PrefixORInputs(st, bits) = c
  BY Zenon DEF PrefixORInputs, Inside, PrefixORWires
<1>3. Deals(a, k) /\ a.made = <<>> /\ a.inner = st.inner /\ a.pre = st.pre
  <2>1. Deals(st, k) /\ a = [st EXCEPT !.made = <<>>]
    OBVIOUS
  <2> HIDE DEF a
  <2> QED BY ONLY <2>1, SetMadeIs, SMTT(40)
<1> HIDE DEF a
<1>4. Len(xs) = K /\ \A i \in 1 .. K : xs[i] \in Int
  <2>1. Len(bits) = K
    BY <1>1
  <2>2. xs = [i \in 1 .. K |-> bits[(K - i) + 1]]
    BY <2>1 DEF Reverse
  <2>3. \A i \in 1 .. K : (K - i) + 1 \in 1 .. K
    BY <1>1
  <2> HIDE DEF xs
  <2> QED BY <1>1, <2>2, <2>3
<1> HIDE DEF xs
<1>5. MakesAll(a, t, 2, k, K)
  <2>1. a.made \in Seq(Shares(2, k)) /\ K \in Nat
    BY <1>1, <1>3
  <2>2. K = Len(xs) /\ \A i \in 1 .. K : xs[i] \in Int
    BY <1>4
  <2> QED BY <1>1, <1>3, <2>1, <2>2, ShareAllMakes
<1> HIDE DEF t
<1>6. m \in Seq(Shares(2, k)) /\ Len(m) = K
  <2>1. Len(a.made) = 0
    BY <1>3
  <2> QED BY <1>1, <1>5, <2>1 DEF MakesAll
<1> HIDE DEF m
<1>7. \A w \in PrefixORWires : GateSound(gs[w], 2, k)
  <2> TAKE w \in PrefixORWires
  <2>1. w \in Nat
    BY PrefixORIs, GateOf DEF PrefixORWires
  <2>2. ((w - 1) % K) + 1 \in 1 .. K
    BY <1>1, <2>1
  <2>3. m[((w - 1) % K) + 1] \in Shares(2, k)
    BY <1>6, <2>2, ElementOfSeq
  <2> DEFINE s == m[((w - 1) % K) + 1]
  <2>4. gs[w] = PreGate(s, <<>>)
    OBVIOUS
  <2> HIDE DEF s, gs
  <2>5. gs[w].mask = s /\ gs[w].parts = <<>>
    BY <2>4 DEF PreGate
  <2> QED BY <2>3, <2>5 DEF GateSound, s
<1>8. DOMAIN gs = PrefixORWires
  OBVIOUS
<1> HIDE DEF gs
<1>9. Deals(b, k) /\ b.made = t.made /\ b.inner = gs /\ b.pre = t.pre
  <2>1. Deals(t, k) /\ b = [t EXCEPT !.inner = gs]
    BY <1>5 DEF MakesAll
  <2> HIDE DEF b
  <2> QED BY ONLY <2>1, SetInnerIs
<1> HIDE DEF b
<1>10. Deals(c, k) /\ c.made = st.made /\ c.inner = b.inner /\ c.pre = b.pre
  BY <1>9, SetMadeIs
<1> HIDE DEF c
<1> QED
  BY <1>2, <1>3, <1>5, <1>7, <1>8, <1>9, <1>10 DEF Inner, MakesAll

\* and its gates.
LEMMA PrefixORGateInner ==
  ASSUME PrgTyped, NEW k \in [Rings -> Int], NEW st, NEW s, NEW W, Inner(st, s, k, W),
         NEW w \in DOMAIN PrefixOR.gates, ToSet(PrefixOR.gates[w].ins) \subseteq W,
         PrefixOR.gates[w] = Inp => w \in W
  PROVE  Inner(st, PrefixORGate(s, w), k, W \cup {w})
<1> DEFINE g == PrefixOR.gates[w]
<1>1. 2 \in Rings
  BY RingsAre
<1>2. Takes(g, w - 1) /\ g.type \in Allowed
  BY PrefixORIs, GateOf
<1>3. /\ g \in Gates /\ (g.type = "Inp" => g = Inp) /\ (g.type \in Muls => MulGate(g))
      /\ (g.type = "Dotprod" => DotGate(g)) /\ (g.type \in Linear => FIn2(g) \/ ConstOp(g))
  BY <1>2, TakesIs
<1>4. ReadsSound(s.inner, g, 2, k)
  BY InnerReads
<1>5. ToSet(g.ins) \subseteq W /\ (g = Inp => w \in W)
  OBVIOUS
<1>6. PrefixORGate(s, w) =
        CASE g.type = "Inp"    -> s
          [] g.type \in Linear -> SetInner(s, w, PreGate(LinearMask(s.inner, g, 2), <<>>))
          [] OTHER             -> PrefixORProduct(s, g, w)
  BY Zenon DEF PrefixORGate
<1> HIDE DEF g
<1>7. CASE g.type = "Inp"
  <2>1. PrefixORGate(s, w) = s
    BY <1>6, <1>7 DEF Linear
  <2>2. W \cup {w} = W
    BY <1>3, <1>5, <1>7
  <2> QED BY <2>1, <2>2
<1>8. CASE g.type \in Linear
  <2> DEFINE mask == LinearMask(s.inner, g, 2)
             new == PreGate(mask, <<>>)
  <2>1. PrefixORGate(s, w) = SetInner(s, w, new)
    BY <1>6, <1>8 DEF Linear
  <2>2. mask \in Shares(2, k)
    BY <1>1, <1>3, <1>4, <1>8, LinearMaskSound DEF ReadsSound
  <2> HIDE DEF mask
  <2>3. GateSound(new, 2, k)
    <3>1. new.mask = mask /\ new.parts = <<>>
      BY DEF PreGate
    <3> HIDE DEF new
    <3> QED BY <2>2, <3>1 DEF GateSound
  <2> HIDE DEF new
  <2> QED BY <2>1, <2>3, SetInnerGate
<1>9. CASE g.type \in {"Dotprod"} \cup Muls
  <2> DEFINE a == [s EXCEPT !.made = <<>>]
             t == IF g.type = "Dotprod" THEN DotMasks(a, a.inner, g, 2)
                  ELSE MulMasks(a, a.inner, g, 2)
             new == [InnerMade(t, w) EXCEPT !.made = s.made]
  <2>1. PrefixORGate(s, w) = PrefixORProduct(s, g, w)
    BY <1>6, <1>9 DEF Linear, Muls
  <2>2. PrefixORProduct(s, g, w) = new
    BY Zenon DEF PrefixORProduct, Inside
  <2>3. Deals(a, k) /\ a.made = <<>> /\ a.inner = s.inner /\ a.pre = s.pre
    BY SetMadeIs DEF Inner
  <2> HIDE DEF a
  <2>4. ReadsSound(a.inner, g, 2, k)
    BY <1>4, <2>3
  <2>5. MakesGate(a, t, 2, k)
    <3>1. CASE g.type = "Dotprod"
      BY <1>1, <1>3, <2>3, <2>4, <3>1, DotMasksMake
    <3>2. CASE g.type # "Dotprod"
      <4>1. MulGate(g)
        BY <1>3, <1>9, <3>2
      <4> QED BY <1>1, <2>3, <2>4, <3>2, <4>1, MulMasksMake
    <3> QED BY <3>1, <3>2
  <2> HIDE DEF t
  <2>6. Inner(st, new, k, W \cup {w})
    BY <2>3, <2>5, MadeInnerGate
  <2> QED BY <2>1, <2>2, <2>6
<1> QED
  BY <1>2, <1>7, <1>8, <1>9 DEF Allowed

\* The loop of kLtz over the gates of PrefixOR.
LEMMA LtzInner ==
  ASSUME PrgTyped, NEW k \in [Rings -> Int], NEW st, NEW s, Inner(st, s, k, PrefixORWires),
         NEW any, NEW result, Loop(result, "ltz", any, s, PrefixOROrder)
  PROVE  Inner(st, result, k, DOMAIN PrefixOR.gates)
<1> DEFINE gates == PrefixOR.gates
           N == Len(gates)
           order == PrefixOROrder
           Done(i) == PrefixORWires \cup First(order, i)
<1>1. IsCircuit(gates) /\ DOMAIN gates = 1 .. N
  BY PrefixORIs, LenProperties DEF Built, IsCircuit
<1>2. order = CircuitOrder(gates)
  BY DEF PrefixOROrder
<1> HIDE DEF gates, order
<1>3. /\ N \in Nat /\ Len(order) = N /\ First(order, N) = 1 .. N
      /\ \A i \in 1 .. N : /\ order[i] \in 1 .. N
                          /\ ToSet(gates[order[i]].ins) \subseteq First(order, i - 1)
  <2> DEFINE lev == GateLevel(gates)
  <2>1. lev = GateLevel(gates) /\ N = Len(gates)
    OBVIOUS
  <2> HIDE DEF lev, N
  <2> QED BY <1>1, <1>2, <2>1, OrderIs
<1>4. PICK f : /\ f[0] = s /\ f[N] = result
               /\ \A i \in 1 .. N : f[i] = Do("ltz", any, f[i - 1], order[i])
  BY <1>3 DEF Loop, order
<1> HIDE DEF N
<1> DEFINE G == {i \in 0 .. N : Inner(st, f[i], k, Done(i))}
<1>5. 0 \in G
  <2>1. Done(0) = PrefixORWires
    BY FirstMore
  <2>2. 0 \in 0 .. N
    BY <1>3
  <2>3. Inner(st, f[0], k, Done(0))
    BY <1>4, <2>1
  <2> QED BY ONLY <2>2, <2>3
<1>6. ASSUME NEW i \in 0 .. N - 1, i \in G PROVE i + 1 \in G
  <2> DEFINE w == order[i + 1]
             a == f[i]
             W == Done(i)
  <2>1. i + 1 \in 1 .. N /\ (i + 1) - 1 = i /\ i \in Nat
    BY <1>3
  <2>2. w \in 1 .. N /\ ToSet(gates[w].ins) \subseteq W
    BY <1>3, <2>1
  <2>3. Done(i + 1) = W \cup {w}
    BY <2>1, FirstMore
  <2>4. f[i + 1] = PrefixORGate(a, w)
    BY <1>4, <2>1 DEF Do
  <2>5. Inner(st, a, k, W)
    BY <1>6
  <2>6. /\ w \in DOMAIN PrefixOR.gates /\ ToSet(PrefixOR.gates[w].ins) \subseteq W
        /\ PrefixOR.gates[w] = Inp => w \in W
    BY <1>1, <2>2 DEF gates, PrefixORWires
  <2> HIDE DEF w, a, W, Done
  <2>7. Inner(st, PrefixORGate(a, w), k, W \cup {w})
    BY <2>5, <2>6, PrefixORGateInner
  <2>8. Inner(st, f[i + 1], k, Done(i + 1))
    BY <2>3, <2>4, <2>7
  <2>9. i + 1 \in 0 .. N
    BY <2>1
  <2> QED BY ONLY <2>8, <2>9
<1>7. N \in G
  <2> HIDE DEF G
  <2> QED BY <1>3, <1>5, <1>6, LoopEnds
<1>8. Done(N) = DOMAIN gates
  BY <1>1, <1>3 DEF PrefixORWires, gates
<1> QED
  BY <1>4, <1>7, <1>8 DEF gates

-----------------------------------------------------------------------------
(* setWireMasks, gate by gate.                                             *)

\* A gate with its Boolean circuit.
AllSound(g, r, k) ==
  GateSound(g, r, k) /\ \A v \in DOMAIN g.inner : GateSound(g.inner[v], 2, k)

\* The dealer is through with the gates W, and with nothing else.
DealtGates(s, r, k, W) ==
  /\ Deals(s, k) /\ s.made = <<>> /\ s.inner = <<>>
  /\ DOMAIN s.pre = W /\ \A w \in W : AllSound(s.pre[w], r, k)

\* A gate is through: the dealer has its sound gate, and nothing else is open.
LEMMA SetPreDealt ==
  ASSUME NEW r, NEW k, NEW st, NEW W, DealtGates(st, r, k, W), NEW s, Deals(s, k),
         s.pre = st.pre, NEW w, NEW g, AllSound(g, r, k)
  PROVE  DealtGates(SetPre(s, w, g), r, k, W \cup {w})
<1> DEFINE h == s.pre
           more == With(h, w, g)
           t == [s EXCEPT !.pre = more, !.made = <<>>, !.inner = <<>>]
<1>0. DOMAIN h = W /\ \A v \in W : AllSound(h[v], r, k)
  BY DEF DealtGates
<1>1. t = SetPre(s, w, g)
  BY Zenon DEF SetPre
<1> HIDE DEF h
<1>2. /\ DOMAIN more = W \cup {w} /\ more[w] = g /\ \A v \in W : v # w => more[v] = h[v]
  <2>1. more = [v \in DOMAIN h \cup {w} |-> IF v = w THEN g ELSE h[v]]
    BY WithIs
  <2> HIDE DEF more
  <2> QED BY <1>0, <2>1
<1> HIDE DEF more
<1>3. /\ IsNode(t) /\ t.id = s.id /\ t.seed = s.seed /\ t.key = s.key /\ t.pos = s.pos
      /\ t.made = <<>> /\ t.inner = <<>> /\ t.pre = more
  <2> DEFINE a == [s EXCEPT !.pre = more]
             b == [a EXCEPT !.made = <<>>]
             c == [b EXCEPT !.inner = <<>>]
  <2>1. IsNode(s) /\ t = c
    BY DEF Deals
  <2> HIDE DEF t
  <2>2. /\ IsNode(a) /\ a.id = s.id /\ a.seed = s.seed /\ a.key = s.key /\ a.pos = s.pos
        /\ a.pre = more
    BY <2>1 DEF IsNode
  <2> HIDE DEF a
  <2>3. /\ IsNode(b) /\ b.id = a.id /\ b.seed = a.seed /\ b.key = a.key /\ b.pos = a.pos
        /\ b.made = <<>> /\ b.pre = a.pre
    BY <2>2 DEF IsNode
  <2> HIDE DEF b
  <2>4. /\ IsNode(c) /\ c.id = b.id /\ c.seed = b.seed /\ c.key = b.key /\ c.pos = b.pos
        /\ c.made = b.made /\ c.inner = <<>> /\ c.pre = b.pre
    BY <2>3 DEF IsNode
  <2> HIDE DEF c
  <2> QED BY <2>1, <2>2, <2>3, <2>4
<1> HIDE DEF t
<1>4. Deals(t, k)
  <2>1. t.pos \in [Streams -> Nat]
    BY <1>3 DEF Deals
  <2> QED BY ONLY <1>3, <2>1, Deals(s, k), DealsOn
<1>5. \A v \in W \cup {w} : AllSound(t.pre[v], r, k)
  BY <1>0, <1>2, <1>3
<1> QED
  BY <1>1, <1>2, <1>3, <1>4, <1>5 DEF DealtGates

\* A gate without a Boolean circuit is sound when its sharings are.
LEMMA MadeSound ==
  ASSUME NEW st, NEW t, NEW r, NEW k, MakesGate(st, t, r, k), NEW x
  PROVE  AllSound(MadeGate(t), r, k) /\ AllSound([MadeGate(t) EXCEPT !.value = x], r, k)
<1> DEFINE g == MadeGate(t)
           h == [g EXCEPT !.value = x]
<1>1. /\ g.inner = <<>> /\ h.inner = <<>> /\ h.mask = g.mask /\ h.parts = g.parts
      /\ DOMAIN g.inner = {}
  BY DEF MadeGate, PreGate
<1>2. GateSound(g, r, k)
  BY DEF MakesGate
<1> HIDE DEF g, h
<1>3. AllSound(g, r, k) /\ AllSound(h, r, k)
  BY <1>1, <1>2 DEF AllSound, GateSound
<1> QED
  BY <1>3 DEF g, h

\* The gate from the sharings that have been made for it.
LEMMA PreMadeDealt ==
  ASSUME NEW r, NEW k, NEW st, NEW W, DealtGates(st, r, k, W), NEW t, MakesGate(st, t, r, k),
         NEW w, NEW x
  PROVE  /\ DealtGates(PreMade(t, w), r, k, W \cup {w})
         /\ DealtGates(SetPre(t, w, [MadeGate(t) EXCEPT !.value = x]), r, k, W \cup {w})
<1> DEFINE g == MadeGate(t)
           h == [MadeGate(t) EXCEPT !.value = x]
<1>1. AllSound(g, r, k) /\ AllSound(h, r, k)
  BY MadeSound
<1>2. Deals(t, k) /\ t.pre = st.pre
  BY DEF MakesGate
<1> HIDE DEF g, h
<1>3. DealtGates(SetPre(t, w, g), r, k, W \cup {w}) /\ DealtGates(SetPre(t, w, h), r, k, W \cup {w})
  BY <1>1, <1>2, SetPreDealt
<1>4. PreMade(t, w) = SetPre(t, w, g)
  BY DEF PreMade, g
<1> QED
  BY <1>3, <1>4 DEF h

\* The masks of linear gates, multiplications and dot products, in both rings.
LEMMA LinearDealt ==
  ASSUME NEW r \in Rings, NEW k \in [Rings -> Int], NEW st, NEW W, DealtGates(st, r, k, W),
         NEW g \in Gates, g.type \in Linear, FIn2(g) \/ ConstOp(g), ToSet(g.ins) \subseteq W, NEW w
  PROVE  DealtGates(SetPre(st, w, PreGate(LinearMask(st.pre, g, r), <<>>)), r, k, W \cup {w})
<1> DEFINE mask == LinearMask(st.pre, g, r)
           new == PreGate(mask, <<>>)
<1>1. \A v \in ToSet(g.ins) : st.pre[v].mask \in Shares(r, k)
  BY DEF DealtGates, AllSound, GateSound
<1>2. mask \in Shares(r, k)
  BY <1>1, LinearMaskSound
<1> HIDE DEF mask
<1>3. new.mask = mask /\ new.parts = <<>> /\ new.inner = <<>> /\ DOMAIN new.inner = {}
  BY DEF PreGate
<1> HIDE DEF new
<1>4. AllSound(new, r, k)
  BY <1>2, <1>3 DEF AllSound, GateSound
<1>5. DealtGates(SetPre(st, w, new), r, k, W \cup {w})
  <2>1. Deals(st, k) /\ DealtGates(st, r, k, W) /\ st.pre = st.pre
    BY DEF DealtGates
  <2> QED BY ONLY <1>4, <2>1, SetPreDealt
<1> QED
  BY <1>5 DEF new, mask

\* kMul, kMul3, kMul4 and kDotprod.
LEMMA ProductDealt ==
  ASSUME PrgTyped, NEW r \in Rings, NEW k \in [Rings -> Int], NEW st, NEW W,
         DealtGates(st, r, k, W), NEW g, ToSet(g.ins) \subseteq W, NEW w
  PROVE  /\ MulGate(g) => DealtGates(PreMade(MulMasks(st, st.pre, g, r), w), r, k, W \cup {w})
         /\ DotGate(g) => DealtGates(PreMade(DotMasks(st, st.pre, g, r), w), r, k, W \cup {w})
<1>1. ReadsSound(st.pre, g, r, k) /\ Deals(st, k) /\ st.made = <<>>
  BY DEF DealtGates, AllSound, GateSound, ReadsSound
<1>2. MulGate(g) => MakesGate(st, MulMasks(st, st.pre, g, r), r, k)
  BY <1>1, MulMasksMake
<1>3. DotGate(g) => MakesGate(st, DotMasks(st, st.pre, g, r), r, k)
  BY <1>1, DotMasksMake
<1> QED
  BY <1>2, <1>3, PreMadeDealt

\* Inputs.
LEMMA InputDealt ==
  ASSUME PrgTyped, NEW r \in Rings, NEW k \in [Rings -> Int], NEW st, NEW W,
         DealtGates(st, r, k, W), NEW owner \in Nodes, NEW w, NEW x
  PROVE  LET t == RandomShareWithParty(st, r, owner)
         IN  DealtGates(SetPre(t, w, [MadeGate(t) EXCEPT !.value = x]), r, k, W \cup {w})
<1> DEFINE t == RandomShareWithParty(st, r, owner)
<1>1. Deals(st, k) /\ st.made = <<>>
  BY DEF DealtGates
<1>2. Makes(st, t, r, k)
  BY <1>1, RandomShareWithPartyMakes
<1> HIDE DEF t
<1>3. MakesGate(st, t, r, k)
  BY <1>1, <1>2, MakesOneGate
<1>4. DealtGates(SetPre(t, w, [MadeGate(t) EXCEPT !.value = x]), r, k, W \cup {w})
  BY <1>3, PreMadeDealt
<1> QED
  BY <1>4 DEF t

\* Comparisons.
LEMMA ComparisonDealt ==
  ASSUME NEW k \in [Rings -> Int], NEW st, NEW W, DealtGates(st, P, k, W), NEW s, Deals(s, k),
         s.pre = st.pre, \A v \in DOMAIN s.inner : GateSound(s.inner[v], 2, k),
         NEW maskW \in Shares(P, k), NEW maskB \in Shares(P, k), NEW pad, NEW w
  PROVE  DealtGates(Comparison(s, w, maskW, maskB, pad), P, k, W \cup {w})
<1> DEFINE mask == ComparisonMask(maskW, maskB)
           parts == <<maskW, maskB>>
           h == s.inner
           new == [PreGate(mask, parts) EXCEPT !.inner = h, !.pad = pad]
<1>1. P \in Rings
  BY RingsAre
<1>2. mask \in Shares(P, k)
  <2> DEFINE a == Times(maskW, -2, P)
             b == Times(maskB, -1, P)
  <2>1. a \in Shares(P, k) /\ b \in Shares(P, k)
    BY <1>1, TimesSound
  <2>2. mask = Plus(a, b, P)
    BY DEF ComparisonMask
  <2> HIDE DEF a, b
  <2> QED BY <1>1, <2>1, <2>2, PlusSound
<1>3. parts \in Seq(Shares(P, k))
  OBVIOUS
<1>4. Comparison(s, w, maskW, maskB, pad) = SetPre(s, w, new)
  BY DEF Comparison
<1> HIDE DEF mask, parts
<1>5. new.mask = mask /\ new.parts = parts /\ new.inner = h
  BY DEF PreGate
<1> HIDE DEF new
<1>6. AllSound(new, P, k)
  BY <1>2, <1>3, <1>5 DEF AllSound, GateSound
<1> QED
  BY <1>4, <1>6, SetPreDealt

\* Bit2A makes a sound sharing of the mask bit.
LEMMA MaskBitMakes ==
  ASSUME PrgTyped, NEW k \in [Rings -> Int], NEW st, NEW s, NEW W, Inner(st, s, k, W), NEW out \in W
  PROVE  Makes(s, ShareMaskBit(s, out), P, k)
<1> DEFINE x == MaskSecret(s, s.inner, out, 2)
<1>1. 2 \in Rings /\ P \in Rings /\ Deals(s, k) /\ s.inner[out].mask \in Shares(2, k)
  BY RingsAre DEF Inner, GateSound
<1>2. x \in Int
  BY <1>1, MaskSecretType
<1>3. ShareMaskBit(s, out) = RandomShareSecret(s, P, x)
  BY DEF ShareMaskBit
<1> HIDE DEF x
<1> QED
  BY <1>1, <1>2, <1>3, RandomShareSecretMakes

\* The padded input and its bits are numbers.
LEMMA BitsType ==
  ASSUME NEW r \in Int
  PROVE  BitsOf(r) \in [1 .. K -> Int]
<1>1. \A i \in 1 .. K : i - 1 \in 0 .. K
  BY PowersAre
<1>2. ASSUME NEW i \in 1 .. K PROVE Bit(r, i - 1) \in Int
  <2> DEFINE q == 2 ^ (i - 1)
  <2>1. q \in Nat \ {0}
    BY <1>1, PowersAssumption
  <2> HIDE DEF q
  <2>2. (r \div q) % 2 \in Int
    <3>1. r \div q \in Int
      BY <2>1
    <3> QED BY <3>1
  <2> QED BY <2>2 DEF Bit, q
<1> QED
  BY <1>2 DEF BitsOf

\* The pad and the padded mask are integers.
LEMMA PaddedType ==
  ASSUME PrgTyped, NEW k \in [Rings -> Int], NEW st, Deals(st, k), NEW w,
         st.pre[w].mask \in Shares(P, k)
  PROVE  PadOf(st) \in Int /\ RValue(st, PadOf(st), w) \in Int
<1>1. PadOf(st) \in Int
  BY StreamsAre, RingsAre, DrawType DEF PadOf, Deals
<1> DEFINE pad == PadOf(st)
           x == MaskSecret(st, st.pre, w, P)
<1>2. x \in Int /\ P \in Nat \ {0}
  BY RingsAre, MaskSecretType
<1>3. RValue(st, pad, w) = IF st.id = 0 THEN (pad + x) % P ELSE 0
  BY DEF RValue
<1> HIDE DEF pad, x
<1>4. (pad + x) % P \in Int
  BY <1>1, <1>2 DEF pad
<1> QED
  BY <1>1, <1>3, <1>4 DEF pad

\* The circuit of kEqz is dealt in a loop,
LEMMA EqzLoop ==
  ASSUME NEW st, NEW w, NEW pad, NEW r, Len(MultKOrder) \in Nat
  PROVE  \E s : /\ Loop(s, "eqz", BitsOf(r), RandomShareSecret(PadDrawn(st), P, r), MultKOrder)
                /\ EqzFrom(st, w, pad, r) = EqzMade(ShareMaskBit(s, MultK.outputs[1]), w, pad)
<1> DEFINE bits == BitsOf(r)
           start == RandomShareSecret(PadDrawn(st), P, r)
           xs == MultKOrder
           s == (CHOOSE f : Turned(f, "eqz", bits, start, xs))[Len(xs)]
<1>1. EqzFrom(st, w, pad, r) = EqzMade(ShareMaskBit(s, MultK.outputs[1]), w, pad)
  BY DEF EqzFrom, InTurn, Turned, Do
<1>2. Loop(s, "eqz", bits, start, xs)
  <2> HIDE DEF bits, start, xs
  <2> QED BY TurnedLoop DEF xs
<1> QED
  BY <1>1, <1>2, Zenon

\* and that of kLtz.
LEMMA LtzLoop ==
  ASSUME NEW st, NEW w, NEW pad, NEW r, Len(PrefixOROrder) \in Nat
  PROVE  \E s : /\ Loop(s, "ltz", 0, PrefixORInputs(PadDrawn(st), BitsOf(r)), PrefixOROrder)
                /\ LtzFrom(st, w, pad, r)
                     = LtzMade(RandomShare(ShareMaskBit(s, PrefixOR.outputs[1]), P), w, pad)
<1> DEFINE start == PrefixORInputs(PadDrawn(st), BitsOf(r))
           xs == PrefixOROrder
           s == (CHOOSE f : Turned(f, "ltz", 0, start, xs))[Len(xs)]
<1>1. LtzFrom(st, w, pad, r) = LtzMade(RandomShare(ShareMaskBit(s, PrefixOR.outputs[1]), P), w, pad)
  BY DEF LtzFrom, InTurn, Turned, Do
<1>2. Loop(s, "ltz", 0, start, xs)
  <2> HIDE DEF start, xs
  <2> QED BY TurnedLoop DEF xs
<1> QED
  BY <1>1, <1>2, Zenon

\* A circuit in its order is as long as it is.
LEMMA OrderLength ==
  ASSUME NEW T, NEW gates, Built(gates, T)
  PROVE  Len(CircuitOrder(gates)) \in Nat
<1> DEFINE N == Len(gates)
           lev == GateLevel(gates)
           order == CircuitOrder(gates)
<1>1. IsCircuit(gates) /\ N = Len(gates) /\ lev = GateLevel(gates) /\ order = CircuitOrder(gates)
  BY DEF Built
<1> HIDE DEF N, lev, order
<1>2. N \in Nat /\ Len(order) = N
  BY ONLY <1>1, OrderIs
<1> QED
  BY <1>1, <1>2

\* Sequences of two and three.
LEMMA Appends ==
  ASSUME NEW S, NEW a \in S, NEW b \in S, NEW c \in S
  PROVE  Append(<<a>>, b) = <<a, b>> /\ Append(<<a, b>>, c) = <<a, b, c>>
<1> DEFINE x == <<a>>
           y == <<a, b>>
           z == <<a, b, c>>
<1>1. x \in Seq(S) /\ Len(x) = 1 /\ x[1] = a
  OBVIOUS
<1>2. y \in Seq(S) /\ Len(y) = 2 /\ y[1] = a /\ y[2] = b
  OBVIOUS
<1>3. z \in Seq(S) /\ Len(z) = 3 /\ z[1] = a /\ z[2] = b /\ z[3] = c
  OBVIOUS
<1> HIDE DEF x, y, z
<1>4. Append(x, b) = y
  <2>1. /\ Append(x, b) \in Seq(S) /\ Len(Append(x, b)) = 2
        /\ Append(x, b)[1] = a /\ Append(x, b)[2] = b
    <3>1. 1 \in 1 .. Len(x) /\ Len(x) + 1 = 2
      BY <1>1
    <3> DEFINE new == Append(x, b)
    <3>2. new \in Seq(S) /\ Len(new) = Len(x) + 1
      BY ONLY <1>1, b \in S, AppendProperties, ZenonT(40)
    <3>3. \A i \in 1 .. Len(x) : new[i] = x[i]
      BY ONLY <1>1, b \in S, AppendProperties, SMTT(40)
    <3>4. new[Len(x) + 1] = b
      BY ONLY <1>1, b \in S, AppendProperties, ZenonT(40)
    <3> HIDE DEF new
    <3>5. Len(new) = 2 /\ new[1] = x[1] /\ new[2] = b
      BY <3>1, <3>2, <3>3, <3>4
    <3> QED BY <1>1, <3>2, <3>5 DEF new
  <2>2. \A i \in 1 .. 2 : i = 1 \/ i = 2
    OBVIOUS
  <2> QED BY <1>2, <2>1, <2>2, SeqEqual
<1>5. Append(y, c) = z
  <2>1. /\ Append(y, c) \in Seq(S) /\ Len(Append(y, c)) = 3
        /\ Append(y, c)[1] = a /\ Append(y, c)[2] = b /\ Append(y, c)[3] = c
    <3>1. 1 \in 1 .. Len(y) /\ 2 \in 1 .. Len(y) /\ Len(y) + 1 = 3
      BY <1>2
    <3> DEFINE new == Append(y, c)
    <3>2. new \in Seq(S) /\ Len(new) = Len(y) + 1
      BY ONLY <1>2, c \in S, AppendProperties, ZenonT(40)
    <3>3. \A i \in 1 .. Len(y) : new[i] = y[i]
      BY ONLY <1>2, c \in S, AppendProperties, SMTT(40)
    <3>4. new[Len(y) + 1] = c
      BY ONLY <1>2, c \in S, AppendProperties, SMTT(40)
    <3> HIDE DEF new
    <3>5. Len(new) = 3 /\ new[1] = y[1] /\ new[2] = y[2] /\ new[3] = c
      BY <3>1, <3>2, <3>3, <3>4
    <3> QED BY <1>2, <3>2, <3>5 DEF new
  <2>2. \A i \in 1 .. 3 : i = 1 \/ i = 2 \/ i = 3
    OBVIOUS
  <2> QED BY <1>3, <2>1, <2>2, SeqEqual
<1> QED
  BY <1>4, <1>5 DEF x, y, z

\* The input of a comparison.
LEMMA OneInput ==
  ASSUME NEW g \in Gates, FIn1(g)
  PROVE  g.ins[1] \in ToSet(g.ins)
<1>1. g.ins \in Seq(Nat) /\ Len(g.ins) = 1
  BY DEF Gates, FIn1
<1> QED
  BY <1>1, LenProperties DEF ToSet

\* kEqz.
LEMMA EqzDealt ==
  ASSUME PrgTyped, NEW k \in [Rings -> Int], NEW st, NEW W, DealtGates(st, P, k, W),
         NEW g \in Gates, FIn1(g), ToSet(g.ins) \subseteq W, NEW w
  PROVE  DealtGates(FieldEqz(st, g, w), P, k, W \cup {w})
<1> DEFINE in == g.ins[1]
           out == MultK.outputs[1]
           s1 == RandomShare(st, P)
           pad == PadOf(s1)
           r == RValue(s1, pad, in)
           s2 == PadDrawn(s1)
           s3 == RandomShareSecret(s2, P, r)
<1>1. P \in Rings /\ Deals(st, k) /\ st.made = <<>> /\ st.inner = <<>>
  BY RingsAre DEF DealtGates
<1>2. st.pre[in].mask \in Shares(P, k)
  <2>1. in \in W
    BY OneInput
  <2> QED BY <2>1 DEF DealtGates, AllSound, GateSound
<1> HIDE DEF in
<1>3. Makes(st, s1, P, k)
  BY <1>1, RandomShareMakes
<1> HIDE DEF s1
<1>4. PICK m1 \in Shares(P, k) : s1.made = <<m1>>
  <2>1. PICK m \in Shares(P, k) : s1.made = Append(<<>>, m)
    BY <1>1, <1>3 DEF Makes
  <2> QED BY <2>1
<1>5. Deals(s1, k) /\ s1.inner = <<>> /\ s1.pre = st.pre
  BY <1>1, <1>3 DEF Makes
<1>6. pad \in Int /\ r \in Int
  BY <1>2, <1>5, PaddedType
<1> HIDE DEF r
<1>7. Deals(s2, k) /\ s2.made = <<m1>> /\ s2.inner = <<>> /\ s2.pre = st.pre
  BY <1>4, <1>5, 1 \in Nat, AdvanceIs DEF PadDrawn
<1> HIDE DEF s2
<1>8. Makes(s2, s3, P, k)
  BY <1>1, <1>6, <1>7, RandomShareSecretMakes
<1> HIDE DEF s3
<1>9. PICK m2 \in Shares(P, k) : s3.made = <<m1, m2>>
  <2>1. PICK m \in Shares(P, k) : s3.made = Append(<<m1>>, m)
    BY <1>7, <1>8 DEF Makes
  <2>2. Append(<<m1>>, m) = <<m1, m>>
    BY Appends
  <2> QED BY <2>1, <2>2, Zenon
<1>10. Deals(s3, k) /\ s3.inner = <<>> /\ s3.pre = st.pre
  BY <1>7, <1>8 DEF Makes
<1>11. PICK s4 : /\ Loop(s4, "eqz", BitsOf(r), s3, MultKOrder)
                 /\ EqzFrom(s1, w, pad, r) = EqzMade(ShareMaskBit(s4, out), w, pad)
  <2>1. Len(MultKOrder) \in Nat
    BY MultKIs, OrderLength DEF MultKOrder
  <2> HIDE DEF pad
  <2> QED BY <2>1, EqzLoop DEF s3, s2
<1>12. Inner(s3, s4, k, DOMAIN MultK.gates)
  <2> DEFINE bits == BitsOf(r)
  <2>1. \A i \in 1 .. K : bits[i] \in Int
    BY <1>6, BitsType
  <2>2. Loop(s4, "eqz", bits, s3, MultKOrder)
    BY <1>11
  <2> HIDE DEF bits
  <2> QED BY <1>10, <2>1, <2>2, EqzInner
<1> DEFINE s5 == ShareMaskBit(s4, out)
<1>13. Makes(s4, s5, P, k)
  BY <1>12, MultKIs, MaskBitMakes
<1>14. FieldEqz(st, g, w) = EqzMade(s5, w, pad)
  BY <1>11, Zenon DEF FieldEqz, EqzMasked, s1, pad, r, in, s5
<1> HIDE DEF s5, pad
<1>15. PICK m3 \in Shares(P, k) : s5.made = <<m1, m2, m3>>
  <2>1. PICK m \in Shares(P, k) : s5.made = Append(<<m1, m2>>, m)
    BY <1>9, <1>12, <1>13 DEF Makes, Inner
  <2>2. Append(<<m1, m2>>, m) = <<m1, m2, m>>
    BY Appends
  <2> QED BY <2>1, <2>2, Zenon
<1>16. Deals(s5, k) /\ s5.pre = st.pre /\ \A v \in DOMAIN s5.inner : GateSound(s5.inner[v], 2, k)
  BY <1>10, <1>12, <1>13 DEF Makes, Inner
<1>17. EqzMade(s5, w, pad) = Comparison(s5, w, m1, m3, pad)
  BY <1>15 DEF EqzMade
<1> QED
  BY <1>14, <1>16, <1>17, ComparisonDealt

\* kLtz.
LEMMA LtzDealt ==
  ASSUME PrgTyped, NEW k \in [Rings -> Int], NEW st, NEW W, DealtGates(st, P, k, W),
         NEW g \in Gates, FIn1(g), ToSet(g.ins) \subseteq W, NEW w
  PROVE  DealtGates(FieldLtz(st, g, w), P, k, W \cup {w})
<1> DEFINE in == g.ins[1]
           out == PrefixOR.outputs[1]
           pad == PadOf(st)
           r == RValue(st, pad, in)
           s1 == PadDrawn(st)
           s2 == PrefixORInputs(s1, BitsOf(r))
<1>1. P \in Rings /\ Deals(st, k) /\ st.made = <<>> /\ st.inner = <<>>
  BY RingsAre DEF DealtGates
<1>2. st.pre[in].mask \in Shares(P, k)
  <2>1. in \in W
    BY OneInput
  <2> QED BY <2>1 DEF DealtGates, AllSound, GateSound
<1> HIDE DEF in
<1>3. pad \in Int /\ r \in Int
  BY <1>1, <1>2, PaddedType
<1> HIDE DEF r
<1>4. Deals(s1, k) /\ s1.made = <<>> /\ s1.pre = st.pre
  BY <1>1, 1 \in Nat, AdvanceIs DEF PadDrawn
<1> HIDE DEF s1
<1>5. Inner(s1, s2, k, PrefixORWires)
  <2> DEFINE bits == BitsOf(r)
  <2>1. bits \in [1 .. K -> Int]
    BY <1>3, BitsType
  <2> HIDE DEF bits
  <2>2. Inner(s1, PrefixORInputs(s1, bits), k, PrefixORWires)
    BY <1>4, <2>1, PrefixORInputsInner
  <2> QED BY <2>2 DEF bits
<1> HIDE DEF s2
<1>6. PICK s3 : /\ Loop(s3, "ltz", 0, s2, PrefixOROrder)
                /\ LtzFrom(st, w, pad, r) = LtzMade(RandomShare(ShareMaskBit(s3, out), P), w, pad)
  <2>1. Len(PrefixOROrder) \in Nat
    BY PrefixORIs, OrderLength DEF PrefixOROrder
  <2> HIDE DEF pad
  <2> QED BY <2>1, LtzLoop DEF s2, s1
<1>7. Inner(s1, s3, k, DOMAIN PrefixOR.gates)
  BY <1>5, <1>6, LtzInner
<1> DEFINE s4 == ShareMaskBit(s3, out)
           s5 == RandomShare(s4, P)
<1>8. Makes(s3, s4, P, k)
  BY <1>7, PrefixORIs, MaskBitMakes
<1>9. FieldLtz(st, g, w) = LtzMade(s5, w, pad)
  BY <1>6, Zenon DEF FieldLtz, pad, r, in, s5, s4
<1> HIDE DEF s4, pad
<1>10. PICK m1 \in Shares(P, k) : s4.made = <<m1>>
  <2>1. PICK m \in Shares(P, k) : s4.made = Append(<<>>, m)
    BY <1>4, <1>7, <1>8 DEF Makes, Inner
  <2> QED BY <2>1
<1>11. Deals(s4, k) /\ s4.pre = st.pre /\ s4.inner = s3.inner
  BY <1>4, <1>7, <1>8 DEF Makes, Inner
<1>12. Makes(s4, s5, P, k)
  BY <1>1, <1>11, RandomShareMakes
<1> HIDE DEF s5
<1>13. PICK m2 \in Shares(P, k) : s5.made = <<m1, m2>>
  <2>1. PICK m \in Shares(P, k) : s5.made = Append(<<m1>>, m)
    BY <1>10, <1>12 DEF Makes
  <2>2. Append(<<m1>>, m) = <<m1, m>>
    BY Appends
  <2> QED BY <2>1, <2>2, Zenon
<1>14. Deals(s5, k) /\ s5.pre = st.pre /\ \A v \in DOMAIN s5.inner : GateSound(s5.inner[v], 2, k)
  BY <1>7, <1>11, <1>12 DEF Makes, Inner
<1>15. LtzMade(s5, w, pad) = Comparison(s5, w, m2, m1, pad)
  BY <1>13 DEF LtzMade
<1> QED
  BY <1>9, <1>14, <1>15, ComparisonDealt

\* What the pass of a scheme has cases for, and what an input needs.
Handled(kind) ==
  CASE kind = "field"  -> {"Inp", "Dotprod", "Eqz", "Ltz"} \cup Linear \cup Muls
    [] kind = "bool"   -> {"Inp", "Dotprod"} \cup Linear \cup Muls
    [] kind = "helper" -> {"Inp", "Mul", "Mul3"} \cup Linear
Covered(kind, job, w) ==
  LET g == job.gates[w]
  IN  /\ g.type \in Handled(kind)
      /\ g.type = "Inp" => job.owner[w] \in Nodes /\ (kind = "bool" => job.bitMask[w] \in Int)

\* setWireMasksParty of OfflineEvaluator, one gate.
LEMMA FieldGateDealt ==
  ASSUME PrgTyped, NEW k \in [Rings -> Int], NEW st, NEW W, DealtGates(st, P, k, W), NEW job,
         NEW w, NEW n, Takes(job.gates[w], n), ToSet(job.gates[w].ins) \subseteq W,
         Covered("field", job, w)
  PROVE  DealtGates(FieldGate(job, st, w), P, k, W \cup {w})
<1> DEFINE g == job.gates[w]
<1>1. /\ g \in Gates /\ (g.type \in Muls => MulGate(g))
      /\ (g.type = "Dotprod" => DotGate(g)) /\ (g.type \in Linear => FIn2(g) \/ ConstOp(g))
      /\ (g.type \in {"Eqz", "Ltz"} => FIn1(g))
  BY TakesIs
<1>2. /\ g.type \in {"Inp", "Dotprod", "Eqz", "Ltz"} \cup Linear \cup Muls
      /\ g.type = "Inp" => job.owner[w] \in Nodes
  BY DEF Covered, Handled
<1>3. FieldGate(job, st, w) =
        CASE g.type = "Inp"     -> FieldInput(job, st, w)
          [] g.type \in Linear  -> FieldLinear(st, g, w)
          [] g.type \in Muls    -> FieldMul(st, g, w)
          [] g.type = "Dotprod" -> FieldDotprod(st, g, w)
          [] g.type = "Eqz"     -> FieldEqz(st, g, w)
          [] g.type = "Ltz"     -> FieldLtz(st, g, w)
  BY Zenon DEF FieldGate
<1>4. P \in Rings /\ ToSet(g.ins) \subseteq W
  BY RingsAre
<1> HIDE DEF g
<1>5. CASE g.type = "Inp"
  <2> DEFINE owner == job.owner[w]
             t == RandomShareWithParty(st, P, owner)
             x == Owned(st, owner, P)
  <2>1. FieldGate(job, st, w) = FieldInput(job, st, w)
    BY <1>3, <1>5 DEF Linear, Muls
  <2>2. FieldInput(job, st, w) = SetPre(t, w, [MadeGate(t) EXCEPT !.value = x])
    BY Zenon DEF FieldInput
  <2>3. owner \in Nodes
    BY <1>2, <1>5
  <2> HIDE DEF owner, x
  <2>4. DealtGates(SetPre(t, w, [MadeGate(t) EXCEPT !.value = x]), P, k, W \cup {w})
    BY <1>4, <2>3, InputDealt
  <2> QED BY <2>1, <2>2, <2>4
<1>6. CASE g.type \in Linear
  <2>1. FieldGate(job, st, w) = FieldLinear(st, g, w)
    BY <1>3, <1>6 DEF Linear, Muls
  <2> DEFINE new == PreGate(LinearMask(st.pre, g, P), <<>>)
  <2>2. FieldLinear(st, g, w) = SetPre(st, w, new)
    BY DEF FieldLinear
  <2>3. /\ P \in Rings /\ k \in [Rings -> Int] /\ DealtGates(st, P, k, W) /\ g \in Gates
        /\ g.type \in Linear /\ (FIn2(g) \/ ConstOp(g)) /\ ToSet(g.ins) \subseteq W
    BY <1>1, <1>4, <1>6
  <2>4. DealtGates(SetPre(st, w, new), P, k, W \cup {w})
    BY ONLY <2>3, LinearDealt
  <2> QED BY <2>1, <2>2, <2>4
<1>7. CASE g.type \in Muls
  <2>1. FieldGate(job, st, w) = FieldMul(st, g, w)
    BY <1>3, <1>7 DEF Linear, Muls
  <2> QED BY <1>1, <1>4, <1>7, <2>1, ProductDealt DEF FieldMul
<1>8. CASE g.type = "Dotprod"
  <2>1. FieldGate(job, st, w) = FieldDotprod(st, g, w)
    BY <1>3, <1>8 DEF Linear, Muls
  <2> QED BY <1>1, <1>4, <1>8, <2>1, ProductDealt DEF FieldDotprod
<1>9. CASE g.type = "Eqz"
  <2>1. FieldGate(job, st, w) = FieldEqz(st, g, w)
    BY <1>3, <1>9 DEF Linear, Muls
  <2> QED BY <1>1, <1>4, <1>9, <2>1, EqzDealt
<1>10. CASE g.type = "Ltz"
  <2>1. FieldGate(job, st, w) = FieldLtz(st, g, w)
    BY <1>3, <1>10 DEF Linear, Muls
  <2> QED BY <1>1, <1>4, <1>10, <2>1, LtzDealt
<1> QED
  BY <1>2, <1>5, <1>6, <1>7, <1>8, <1>9, <1>10

\* setWireMasksParty of OfflineBoolEvaluator, one gate.
LEMMA BoolGateDealt ==
  ASSUME PrgTyped, NEW k \in [Rings -> Int], NEW st, NEW W, DealtGates(st, 2, k, W), NEW job,
         NEW w, NEW n, Takes(job.gates[w], n), ToSet(job.gates[w].ins) \subseteq W,
         Covered("bool", job, w)
  PROVE  DealtGates(BoolGate(job, st, w), 2, k, W \cup {w})
<1> DEFINE g == job.gates[w]
<1>1. /\ g \in Gates /\ (g.type \in Muls => MulGate(g))
      /\ (g.type = "Dotprod" => DotGate(g)) /\ (g.type \in Linear => FIn2(g) \/ ConstOp(g))
  BY TakesIs
<1>2. /\ g.type \in {"Inp", "Dotprod"} \cup Linear \cup Muls
      /\ g.type = "Inp" => job.owner[w] \in Nodes /\ job.bitMask[w] \in Int
  BY DEF Covered, Handled
<1>3. BoolGate(job, st, w) =
        CASE g.type = "Inp"     -> BoolInput(job, st, w)
          [] g.type \in Linear  -> BoolLinear(st, g, w)
          [] g.type \in Muls    -> BoolMul(st, g, w)
          [] g.type = "Dotprod" -> BoolDotprod(st, g, w)
  BY Zenon DEF BoolGate
<1>4. 2 \in Rings /\ ToSet(g.ins) \subseteq W
  BY RingsAre
<1> HIDE DEF g
<1>5. CASE g.type = "Inp"
  <2> DEFINE owner == job.owner[w]
             mask == job.bitMask[w]
             t == IF owner = 0 THEN RandomShareSecret(st, 2, mask)
                  ELSE RandomShareWithParty(st, 2, owner)
             x == IF owner = 0 THEN 0 ELSE Owned(st, owner, 2)
  <2>1. BoolGate(job, st, w) = BoolInput(job, st, w)
    BY <1>3, <1>5 DEF Linear, Muls
  <2>2. BoolInput(job, st, w) = SetPre(t, w, [MadeGate(t) EXCEPT !.value = x])
    BY Zenon DEF BoolInput
  <2>3. owner \in Nodes /\ mask \in Int
    BY <1>2, <1>5
  <2>4. Deals(st, k) /\ st.made = <<>>
    BY DEF DealtGates
  <2> HIDE DEF owner, mask, x
  <2>5. Makes(st, t, 2, k)
    <3>1. CASE owner = 0
      BY <1>4, <2>3, <2>4, <3>1, RandomShareSecretMakes
    <3>2. CASE owner # 0
      BY <1>4, <2>3, <2>4, <3>2, RandomShareWithPartyMakes
    <3> QED BY <3>1, <3>2
  <2> HIDE DEF t
  <2>6. MakesGate(st, t, 2, k)
    BY <2>4, <2>5, MakesOneGate
  <2>7. DealtGates(SetPre(t, w, [MadeGate(t) EXCEPT !.value = x]), 2, k, W \cup {w})
    BY <2>6, PreMadeDealt
  <2> QED BY <2>1, <2>2, <2>7
<1>6. CASE g.type \in Linear
  <2>1. BoolGate(job, st, w) = BoolLinear(st, g, w)
    BY <1>3, <1>6 DEF Linear, Muls
  <2> DEFINE new == PreGate(LinearMask(st.pre, g, 2), <<>>)
  <2>2. BoolLinear(st, g, w) = SetPre(st, w, new)
    BY DEF BoolLinear
  <2>3. /\ 2 \in Rings /\ k \in [Rings -> Int] /\ DealtGates(st, 2, k, W) /\ g \in Gates
        /\ g.type \in Linear /\ (FIn2(g) \/ ConstOp(g)) /\ ToSet(g.ins) \subseteq W
    BY <1>1, <1>4, <1>6
  <2>4. DealtGates(SetPre(st, w, new), 2, k, W \cup {w})
    BY ONLY <2>3, LinearDealt
  <2> QED BY <2>1, <2>2, <2>4
<1>7. CASE g.type \in Muls
  <2>1. BoolGate(job, st, w) = BoolMul(st, g, w)
    BY <1>3, <1>7 DEF Linear, Muls
  <2> QED BY <1>1, <1>4, <1>7, <2>1, ProductDealt DEF BoolMul
<1>8. CASE g.type = "Dotprod"
  <2>1. BoolGate(job, st, w) = BoolDotprod(st, g, w)
    BY <1>3, <1>8 DEF Linear, Muls
  <2> QED BY <1>1, <1>4, <1>8, <2>1, ProductDealt DEF BoolDotprod
<1> QED
  BY <1>2, <1>5, <1>6, <1>7, <1>8

\* The products of the helper of assistedMPC are shared in a loop.
LEMMA HelperMulLoop ==
  ASSUME NEW st, NEW g, NEW w, Len(HelperProducts(st, g)) \in Nat
  PROVE  \E s : /\ Loop(s, "give", P, HelperShare(st), HelperProducts(st, g))
                /\ HelperMul(st, g, w) = PreMade(s, w)
<1> DEFINE start == HelperShare(st)
           xs == HelperProducts(st, g)
           s == (CHOOSE f : Turned(f, "give", P, start, xs))[Len(xs)]
<1>1. HelperMul(st, g, w) = PreMade(s, w)
  BY DEF HelperMul, InTurn, Turned, Do
<1>2. Loop(s, "give", P, start, xs)
  <2>1. Len(xs) \in Nat
    OBVIOUS
  <2> HIDE DEF start, xs
  <2> QED BY <2>1, TurnedLoop
<1> QED
  BY <1>1, <1>2, Zenon

\* kMul and kMul3 of the helper.
LEMMA HelperMulDealt ==
  ASSUME PrgTyped, NEW k \in [Rings -> Int], NEW st, NEW W, DealtGates(st, P, k, W),
         NEW g \in Gates, g.type \in {"Mul", "Mul3"}, MulGate(g), ToSet(g.ins) \subseteq W, NEW w
  PROVE  DealtGates(HelperMul(st, g, w), P, k, W \cup {w})
<1> DEFINE xs == HelperProducts(st, g)
           s == HelperShare(st)
           mask(v) == MaskSecret(st, st.pre, v, P)
<1>1. P \in Rings /\ Deals(st, k) /\ st.made = <<>> /\ P \in Nat \ {0}
  BY RingsAre DEF DealtGates
<1>2. PICK N \in Nat \ {0} : Len(xs) = N /\ \A i \in 1 .. N : xs[i] \in Int
  <2>1. g.ins[1] \in W /\ g.ins[2] \in W
    <3>1. g.ins \in Seq(Nat) /\ (Len(g.ins) = 2 \/ Len(g.ins) = 3)
      BY DEF Gates, MulGate, FIn2, FIn3, FIn4
    <3>2. 1 \in DOMAIN g.ins /\ 2 \in DOMAIN g.ins
      BY <3>1, LenProperties
    <3> QED BY <3>2 DEF ToSet
  <2> DEFINE a == mask(g.ins[1])
             b == mask(g.ins[2])
             ab == (a * b) % P
  <2>2. a \in Int /\ b \in Int
    <3>1. /\ st.pre[g.ins[1]].mask \in Shares(P, k)
          /\ st.pre[g.ins[2]].mask \in Shares(P, k)
      BY <2>1 DEF DealtGates, AllSound, GateSound
    <3> QED BY <1>1, <3>1, MaskSecretType
  <2>3. xs = IF g.type = "Mul" THEN <<ab>> ELSE <<ab, ab, ab, ab>>
    BY DEF HelperProducts
  <2> HIDE DEF a, b
  <2>4. ab \in Int
    <3> DEFINE c == a * b
    <3>1. c \in Int
      BY <2>2
    <3> HIDE DEF c
    <3> QED BY <1>1, <3>1 DEF c
  <2> HIDE DEF xs, ab
  <2>5. CASE g.type = "Mul"
    <3>1. Len(xs) = 1 /\ \A i \in 1 .. 1 : xs[i] \in Int
      BY <2>3, <2>4, <2>5
    <3> QED BY <3>1, 1 \in Nat \ {0}
  <2>6. CASE g.type # "Mul"
    <3>1. Len(xs) = 4 /\ \A i \in 1 .. 4 : xs[i] \in Int
      BY <2>3, <2>4, <2>6
    <3> QED BY <3>1, 4 \in Nat \ {0}
  <2> QED BY <2>5, <2>6
<1>3. PICK t : Loop(t, "give", P, s, xs) /\ HelperMul(st, g, w) = PreMade(t, w)
  <2>1. Len(HelperProducts(st, g)) \in Nat
    BY <1>2
  <2> QED BY <2>1, HelperMulLoop
<1>4. Makes(st, s, P, k)
  BY <1>1, HelperShareMakes
<1> HIDE DEF s, xs
<1>5. MakesAll(st, s, P, k, 1)
  <2>1. st.made \in Seq(Shares(P, k))
    BY <1>1
  <2> QED BY <1>4, <2>1, MakesOne
<1>6. MakesAll(s, t, P, k, N)
  <2>1. /\ N \in Nat /\ N = Len(xs) /\ Deals(s, k) /\ s.made \in Seq(Shares(P, k))
        /\ "give" \in {"share", "give"}
    BY <1>2, <1>5 DEF MakesAll
  <2> QED BY <1>1, <1>2, <1>3, <2>1, SharesLoop
<1>7. MakesAll(st, t, P, k, N + 1) /\ N + 1 \in Nat \ {0}
  <2> DEFINE l1 == Len(s.made)
             l2 == Len(t.made)
  <2>1. l1 = 0 + 1 /\ l2 = l1 + N
    BY <1>1, <1>5, <1>6 DEF MakesAll
  <2> HIDE DEF l1, l2
  <2>2. l2 = 0 + (N + 1) /\ N + 1 \in Nat \ {0}
    BY ONLY <2>1, N \in Nat \ {0}
  <2> QED BY <1>1, <1>5, <1>6, <2>2 DEF MakesAll, l2
<1>8. MakesGate(st, t, P, k)
  BY <1>1, <1>7, MakesAllGate
<1>9. DealtGates(PreMade(t, w), P, k, W \cup {w})
  BY ONLY <1>8, DealtGates(st, P, k, W), PreMadeDealt
<1> QED
  BY <1>3, <1>9

\* setWireMasksHelper, one gate.
LEMMA HelperGateDealt ==
  ASSUME PrgTyped, NEW k \in [Rings -> Int], NEW st, NEW W, DealtGates(st, P, k, W), NEW job,
         NEW w, NEW n, Takes(job.gates[w], n), ToSet(job.gates[w].ins) \subseteq W,
         Covered("helper", job, w)
  PROVE  DealtGates(HelperGate(job, st, w), P, k, W \cup {w})
<1> DEFINE g == job.gates[w]
<1>1. /\ g \in Gates /\ (g.type \in Muls => MulGate(g))
      /\ (g.type \in Linear => FIn2(g) \/ ConstOp(g))
  BY TakesIs
<1>2. g.type \in {"Inp", "Mul", "Mul3"} \cup Linear
  BY DEF Covered, Handled
<1>3. HelperGate(job, st, w) =
        CASE g.type = "Inp"             -> HelperInput(HelperShareWithParty(st, job.owner[w]), w)
          [] g.type \in Linear          -> FieldLinear(st, g, w)
          [] g.type \in {"Mul", "Mul3"} -> HelperMul(st, g, w)
  BY Zenon DEF HelperGate
<1>4. P \in Rings /\ ToSet(g.ins) \subseteq W
  BY RingsAre
<1> HIDE DEF g
<1>5. CASE g.type = "Inp"
  <2> DEFINE t == HelperShareWithParty(st, job.owner[w])
             x == Secret(t.made[1], P)
  <2>1. HelperGate(job, st, w) = HelperInput(t, w)
    BY <1>3, <1>5 DEF Linear
  <2>2. HelperInput(t, w) = SetPre(t, w, [MadeGate(t) EXCEPT !.value = x])
    BY Zenon DEF HelperInput
  <2>3. Deals(st, k) /\ st.made = <<>>
    BY DEF DealtGates
  <2>4. Makes(st, t, P, k)
    BY <2>3, HelperShareWithPartyMakes
  <2> HIDE DEF t, x
  <2>5. MakesGate(st, t, P, k)
    BY <2>3, <2>4, MakesOneGate
  <2>6. DealtGates(SetPre(t, w, [MadeGate(t) EXCEPT !.value = x]), P, k, W \cup {w})
    BY <2>5, PreMadeDealt
  <2> QED BY <2>1, <2>2, <2>6
<1>6. CASE g.type \in Linear
  <2>1. HelperGate(job, st, w) = FieldLinear(st, g, w)
    BY <1>3, <1>6 DEF Linear
  <2> DEFINE new == PreGate(LinearMask(st.pre, g, P), <<>>)
  <2>2. FieldLinear(st, g, w) = SetPre(st, w, new)
    BY DEF FieldLinear
  <2>3. /\ P \in Rings /\ k \in [Rings -> Int] /\ DealtGates(st, P, k, W) /\ g \in Gates
        /\ g.type \in Linear /\ (FIn2(g) \/ ConstOp(g)) /\ ToSet(g.ins) \subseteq W
    BY <1>1, <1>4, <1>6
  <2>4. DealtGates(SetPre(st, w, new), P, k, W \cup {w})
    BY ONLY <2>3, LinearDealt
  <2> QED BY <2>1, <2>2, <2>4
<1>7. CASE g.type \in {"Mul", "Mul3"}
  <2>1. HelperGate(job, st, w) = HelperMul(st, g, w)
    BY <1>3, <1>7 DEF Linear
  <2>2. MulGate(g)
    BY <1>1, <1>7 DEF Muls
  <2> QED BY <1>1, <1>4, <1>7, <2>1, <2>2, HelperMulDealt
<1> QED
  BY <1>2, <1>5, <1>6, <1>7

\* The passes.
Ring(kind) == IF kind = "bool" THEN 2 ELSE P

\* What is dealt from start on.
LEMMA PassDealt ==
  ASSUME PrgTyped, NEW kind \in {"field", "bool", "helper"}, NEW k \in [Rings -> Int], NEW st,
         DealtGates(st, Ring(kind), k, {}), NEW job, IsCircuit(job.gates),
         \A w \in DOMAIN job.gates : Covered(kind, job, w),
         NEW result, Loop(result, kind, job, st, CircuitOrder(job.gates))
  PROVE  DealtGates(result, Ring(kind), k, DOMAIN job.gates)
<1> DEFINE gates == job.gates
           r == Ring(kind)
           N == Len(gates)
           order == CircuitOrder(gates)
<1>1. DOMAIN gates = 1 .. N /\ gates \in Seq(Gates) /\ IsCircuit(gates)
  BY LenProperties DEF IsCircuit
<1>2. Loop(result, kind, job, st, order) /\ \A w \in 1 .. N : Covered(kind, job, w)
  BY <1>1
<1>3. /\ N \in Nat /\ Len(order) = N /\ First(order, N) = 1 .. N
      /\ \A i \in 1 .. N : /\ order[i] \in 1 .. N
                          /\ ToSet(gates[order[i]].ins) \subseteq First(order, i - 1)
  <2> DEFINE lev == GateLevel(gates)
             ord == order
  <2>1. lev = GateLevel(gates) /\ N = Len(gates) /\ ord = CircuitOrder(gates)
    OBVIOUS
  <2> HIDE DEF lev, N, gates, ord
  <2>2. /\ N \in Nat /\ Len(ord) = N /\ First(ord, N) = 1 .. N
        /\ \A i \in 1 .. N : /\ ord[i] \in 1 .. N
                            /\ ToSet(gates[ord[i]].ins) \subseteq First(ord, i - 1)
    BY ONLY <1>1, <2>1, OrderIs
  <2> QED BY <2>2 DEF ord
<1>4. \A w \in 1 .. N : Takes(gates[w], w - 1)
  BY <1>1, CircuitTakes
<1>5. DealtGates(st, r, k, {})
  OBVIOUS
<1> HIDE DEF order
<1>6. PICK f : /\ f[0] = st /\ f[N] = result
               /\ \A i \in 1 .. N : f[i] = Do(kind, job, f[i - 1], order[i])
  BY <1>2, <1>3 DEF Loop
<1> HIDE DEF N, r
<1> DEFINE G == {i \in 0 .. N : DealtGates(f[i], r, k, First(order, i))}
<1>7. 0 \in G
  <2>1. First(order, 0) = {} /\ 0 \in 0 .. N
    BY <1>3, FirstMore
  <2>2. DealtGates(f[0], r, k, First(order, 0))
    BY <1>5, <1>6, <2>1
  <2> QED BY ONLY <2>1, <2>2
<1>8. ASSUME NEW i \in 0 .. N - 1, i \in G PROVE i + 1 \in G
  <2> DEFINE w == order[i + 1]
             s == f[i]
             W == First(order, i)
             t == f[i + 1]
             n == w - 1
  <2>1. i + 1 \in 1 .. N /\ (i + 1) - 1 = i /\ i \in Nat
    BY <1>3
  <2>2. w \in 1 .. N /\ ToSet(gates[w].ins) \subseteq W
    BY <1>3, <2>1
  <2>3. First(order, i + 1) = W \cup {w}
    BY <2>1, FirstMore
  <2>4. t = Do(kind, job, s, w)
    BY <1>6, <2>1
  <2>5. DealtGates(s, r, k, W)
    BY <1>8
  <2>6. Takes(job.gates[w], n) /\ ToSet(job.gates[w].ins) \subseteq W /\ Covered(kind, job, w)
    BY <1>2, <1>4, <2>2
  <2> HIDE DEF w, s, W, t, n
  <2>7. DealtGates(t, r, k, W \cup {w})
    <3>1. CASE kind = "field"
      <4>1. t = FieldGate(job, s, w) /\ r = P
        BY <2>4, <3>1 DEF Do, r, Ring
      <4> QED BY <2>5, <2>6, <3>1, <4>1, FieldGateDealt
    <3>2. CASE kind = "bool"
      <4>1. t = BoolGate(job, s, w) /\ r = 2
        BY <2>4, <3>2 DEF Do, r, Ring
      <4> QED BY <2>5, <2>6, <3>2, <4>1, BoolGateDealt
    <3>3. CASE kind = "helper"
      <4>1. t = HelperGate(job, s, w) /\ r = P
        BY <2>4, <3>3 DEF Do, r, Ring
      <4> QED BY <2>5, <2>6, <3>3, <4>1, HelperGateDealt
    <3> QED BY <3>1, <3>2, <3>3
  <2>8. DealtGates(f[i + 1], r, k, First(order, i + 1))
    BY <2>3, <2>7 DEF t
  <2>9. i + 1 \in 0 .. N
    BY <2>1
  <2> QED BY ONLY <2>8, <2>9
<1>9. N \in G
  <2> HIDE DEF G
  <2> QED BY <1>3, <1>7, <1>8, LoopEnds
<1> QED
  BY <1>1, <1>3, <1>6, <1>9 DEF r

\* The passes are loops over the circuit in its order.
LEMMA PassLoops ==
  ASSUME NEW job, NEW st, Len(FlattenSeq(job.levels)) \in Nat
  PROVE  /\ Loop(FieldPass(job, st), "field", job, KeySetup(KeySetup(st, P), 2), FlattenSeq(job.levels))
         /\ Loop(BoolPass(job, st), "bool", job, KeySetup(st, 2), FlattenSeq(job.levels))
         /\ Loop(HelperPass(job, st), "helper", job, KeySetup(KeySetup(st, P), 2), FlattenSeq(job.levels))
<1> DEFINE xs == FlattenSeq(job.levels)
           s1 == KeySetup(KeySetup(st, P), 2)
           s2 == KeySetup(st, 2)
<1>1. FieldPass(job, st) = (CHOOSE f : Turned(f, "field", job, s1, xs))[Len(xs)]
  BY DEF FieldPass, InTurn, Turned, Do
<1>2. BoolPass(job, st) = (CHOOSE f : Turned(f, "bool", job, s2, xs))[Len(xs)]
  BY DEF BoolPass, InTurn, Turned, Do
<1>3. HelperPass(job, st) = (CHOOSE f : Turned(f, "helper", job, s1, xs))[Len(xs)]
  BY DEF HelperPass, InTurn, Turned, Do
<1>4. Len(xs) \in Nat
  OBVIOUS
<1> HIDE DEF xs, s1, s2
<1>5. /\ Loop(FieldPass(job, st), "field", job, s1, xs) /\ Loop(BoolPass(job, st), "bool", job, s2, xs)
      /\ Loop(HelperPass(job, st), "helper", job, s1, xs)
  BY <1>1, <1>2, <1>3, <1>4, TurnedLoop
<1> QED
  BY <1>5, Zenon DEF xs, s1, s2

\* The dealer's state after its pass, for a seed, some keys and any circuit that is covered.
LEMMA DealerDealt ==
  ASSUME PrgTyped, NEW kind \in {"field", "bool", "helper"}, NEW seed \in Nat, NEW job,
         IsCircuit(job.gates), job.levels = GatesByLevel(job.gates),
         \A w \in DOMAIN job.gates : Covered(kind, job, w)
  PROVE  LET st == CASE kind = "field"  -> FieldPass(job, Fresh(0, seed))
                     [] kind = "bool"   -> BoolPass(job, Fresh(0, seed))
                     [] kind = "helper" -> HelperPass(job, AssistedFresh(0, seed))
         IN  \E k \in [Rings -> Int] : DealtGates(st, Ring(kind), k, DOMAIN job.gates)
<1> DEFINE a == IF kind = "helper" THEN AssistedFresh(0, seed) ELSE Fresh(0, seed)
           b == KeySetup(a, P)
           c == IF kind = "bool" THEN KeySetup(a, 2) ELSE KeySetup(b, 2)
           order == CircuitOrder(job.gates)
<1>1. order = FlattenSeq(job.levels) /\ Len(order) \in Nat
  <2>1. Built(job.gates, {job.gates[w].type : w \in DOMAIN job.gates})
    BY DEF Built
  <2> QED BY <2>1, OrderLength DEF CircuitOrder
<1>2. 2 \in Rings /\ P \in Rings
  BY RingsAre
<1>3. PICK i \in [Rings -> Int] : Deals(a, i)
  BY FreshDeals
<1>4. a.made = <<>> /\ a.inner = <<>> /\ a.pre = <<>>
  BY FreshDeals
<1> DEFINE st == CASE kind = "field"  -> FieldPass(job, Fresh(0, seed))
                   [] kind = "bool"   -> BoolPass(job, Fresh(0, seed))
                   [] kind = "helper" -> HelperPass(job, AssistedFresh(0, seed))
<1>5. Loop(st, kind, job, c, order)
  <2>1. CASE kind = "field"
    BY <1>1, <2>1, PassLoops
  <2>2. CASE kind = "bool"
    BY <1>1, <2>2, PassLoops
  <2>3. CASE kind = "helper"
    BY <1>1, <2>3, PassLoops
  <2> QED BY <2>1, <2>2, <2>3
<1> HIDE DEF a, st
<1>6. PICK j \in [Rings -> Int] : Deals(b, j)
  BY <1>2, <1>3, KeySetupDeals
<1>7. b.made = <<>> /\ b.inner = <<>> /\ b.pre = <<>>
  BY <1>2, <1>3, <1>4, KeySetupDeals
<1> HIDE DEF b
<1>8. PICK k \in [Rings -> Int] : Deals(c, k)
  BY <1>2, <1>3, <1>6, KeySetupDeals
<1>9. c.made = <<>> /\ c.inner = <<>> /\ c.pre = <<>>
  BY <1>2, <1>3, <1>4, <1>6, <1>7, KeySetupDeals
<1> HIDE DEF c
<1>10. DealtGates(c, Ring(kind), k, {})
  BY <1>8, <1>9 DEF DealtGates
<1>11. DealtGates(st, Ring(kind), k, DOMAIN job.gates)
  BY <1>5, <1>10, PassDealt
<1> QED
  BY <1>11 DEF st
=============================================================================
