------------------------- MODULE OnlineRoundProofs -------------------------
(***************************************************************************)
(* Proofs of what OnlineRound promises: types, that every gate is opened   *)
(* to the sum of all shares, that outputs are verified, that nothing is    *)
(* left in the pipes.                                                      *)
(*                                                                         *)
(* The first half is about data.  The rounds of a circuit are sequences of *)
(* gates; packing them by kind puts each gate where unpacking looks for it *)
(* (PackedRight, UnpackedRight), and the slices cover what is packed       *)
(* (SlicesCover).  What one party ever sends another is one Stream, a      *)
(* message for each input and two for each round.                          *)
(*                                                                         *)
(* The second half is the invariant RoundInv.  From where a party is one   *)
(* can count the messages it has Sent and Got; the pipe holds what is in   *)
(* the stream between the two counts (Streams), and a party's stores hold  *)
(* the sums of the shares it has added so far (Stores).  Messages may be   *)
(* empty, so a party can be ahead of its peer by those.  The dealer's      *)
(* conversation is counted in the same way (Dealing).                      *)
(***************************************************************************)
EXTENDS OnlineRound, FiniteSetTheorems, SequenceTheorems, WellFoundedInduction, TLAPS

-----------------------------------------------------------------------------
(* Induction over the natural numbers, as a fact about sets.               *)

\* A set of natural numbers that is not empty has a least element.
LEMMA LeastOf ==
  ASSUME NEW T, T \subseteq Nat, T # {}
  PROVE  \E m \in T : \A k \in T : m <= k
<1> DEFINE R == {p \in Nat \X Nat : p[1] < p[2]}
<1>1. OpToRel(<, Nat) = R
  BY Zenon DEF OpToRel
<1>2. IsWellFoundedOn(OpToRel(<, Nat), Nat)
  BY NatLessThanWellFounded, Zenon
<1>3. IsWellFoundedOn(R, Nat)
  BY <1>1, <1>2, Zenon
<1>4. \A i, j \in Nat : i < j => <<i, j>> \in R
  OBVIOUS
<1> HIDE DEF R
<1>5. PICK m \in T : \A k \in T : <<k, m>> \notin R
  BY <1>3, WFMin
<1>6. \A k \in T : ~(k < m)
  BY <1>4, <1>5
<1> QED
  BY <1>6

\* A set that holds 0, and with a number the next, holds all of them.
LEMMA SetInduction ==
  ASSUME NEW T, 0 \in T, \A n \in Nat : n \in T => n + 1 \in T
  PROVE  Nat \subseteq T
<1> SUFFICES ASSUME NEW n \in Nat, n \notin T PROVE FALSE
  OBVIOUS
<1> DEFINE B == {i \in Nat : i \notin T}
<1>1. B \subseteq Nat /\ B # {}
  OBVIOUS
<1>2. PICK m \in B : \A k \in B : m <= k
  <2> HIDE DEF B
  <2> QED BY <1>1, LeastOf
<1>3. m \in Nat /\ m # 0
  OBVIOUS
<1>4. m - 1 \in Nat /\ m - 1 \notin B
  BY <1>2, <1>3
<1>5. (m - 1) + 1 \in T /\ (m - 1) + 1 = m
  BY <1>3, <1>4
<1> QED
  BY <1>5

-----------------------------------------------------------------------------
(* Concat.  Runs: f lists what Concat has after each of the first n        *)
(* sequences of s.                                                         *)

Runs(f, s, n) == f = [d \in 0 .. n |-> IF d = 0 THEN <<>> ELSE f[d - 1] \o s[d]]

LEMMA RunsExist ==
  ASSUME NEW s, NEW n \in Nat
  PROVE  \E f : Runs(f, s, n)
<1> DEFINE T == {i \in Nat : \E f : Runs(f, s, i)}
<1>1. 0 \in T
  <2>1. Runs([d \in 0 .. 0 |-> <<>>], s, 0)
    BY DEF Runs
  <2> QED BY <2>1
<1>2. ASSUME NEW i \in Nat, i \in T PROVE i + 1 \in T
  <2>1. PICK f : Runs(f, s, i)
    BY <1>2
  <2> DEFINE g == [d \in 0 .. (i + 1) |-> IF d = i + 1 THEN f[i] \o s[d] ELSE f[d]]
  <2>2. ASSUME NEW d \in 0 .. (i + 1)
        PROVE  g[d] = IF d = 0 THEN <<>> ELSE g[d - 1] \o s[d]
    <3>1. CASE d = 0
      <4>1. f[0] = <<>>
        BY <2>1 DEF Runs
      <4> QED BY <3>1, <4>1
    <3>2. CASE d = i + 1
      <4>1. d - 1 = i /\ d # 0 /\ d - 1 \in 0 .. (i + 1) /\ d - 1 # i + 1
        BY <3>2
      <4> QED BY <3>2, <4>1
    <3>3. CASE d # 0 /\ d # i + 1
      <4>1. d \in 0 .. i /\ d - 1 \in 0 .. (i + 1) /\ d - 1 # i + 1
        BY <3>3
      <4>2. f[d] = f[d - 1] \o s[d]
        BY <2>1, <3>3, <4>1 DEF Runs
      <4> QED BY <3>3, <4>1, <4>2
    <3> QED BY <3>1, <3>2, <3>3
  <2>3. g = [d \in 0 .. (i + 1) |-> g[d]]
    OBVIOUS
  <2>4. Runs(g, s, i + 1)
    <3> HIDE DEF g
    <3> QED BY <2>2, <2>3, Zenon DEF Runs
  <2> QED BY <2>4
<1>3. Nat \subseteq T
  <2> HIDE DEF T
  <2> QED BY <1>1, <1>2, SetInduction
<1> QED
  BY <1>3

\* What has come after k sequences depends on those only.
LEMMA RunsAgree ==
  ASSUME NEW s, NEW t, NEW f, NEW g, NEW n \in Nat, NEW m \in Nat,
         Runs(f, s, n), Runs(g, t, m),
         NEW l \in Nat, l <= n, l <= m, \A i \in 1 .. l : s[i] = t[i]
  PROVE  f[l] = g[l]
<1> DEFINE T == {k \in Nat : k <= l => f[k] = g[k]}
<1>1. 0 \in T
  BY DEF Runs
<1>2. ASSUME NEW k \in Nat, k \in T PROVE k + 1 \in T
  <2> SUFFICES ASSUME k + 1 <= l PROVE f[k + 1] = g[k + 1]
    OBVIOUS
  <2>1. f[k] = g[k] /\ s[k + 1] = t[k + 1]
    BY <1>2
  <2>2. k + 1 \in 0 .. n /\ k + 1 \in 0 .. m /\ k + 1 # 0 /\ (k + 1) - 1 = k
    OBVIOUS
  <2>3. f[k + 1] = f[k] \o s[k + 1] /\ g[k + 1] = g[k] \o t[k + 1]
    BY <2>2 DEF Runs
  <2> QED BY <2>1, <2>3
<1>3. Nat \subseteq T
  <2> HIDE DEF T
  <2> QED BY <1>1, <1>2, SetInduction
<1> QED
  BY <1>3

LEMMA ConcatIs ==
  ASSUME NEW s, Len(s) \in Nat
  PROVE  \E f : Runs(f, s, Len(s)) /\ Concat(s) = f[Len(s)]
<1> DEFINE upto == CHOOSE f : Runs(f, s, Len(s))
<1>1. \E f : Runs(f, s, Len(s))
  BY RunsExist
<1>2. Runs(upto, s, Len(s))
  BY <1>1
<1>3. Concat(s) = upto[Len(s)]
  BY DEF Concat, Runs
<1> HIDE DEF upto
<1> QED
  BY <1>2, <1>3

\* Concat over one sequence more.
LEMMA ConcatMore ==
  ASSUME NEW s, NEW t, Len(s) \in Nat, Len(t) = Len(s) + 1,
         \A i \in 1 .. Len(s) : s[i] = t[i]
  PROVE  Concat(t) = Concat(s) \o t[Len(t)]
<1>1. PICK f : Runs(f, s, Len(s)) /\ Concat(s) = f[Len(s)]
  BY ConcatIs
<1>2. PICK g : Runs(g, t, Len(t)) /\ Concat(t) = g[Len(t)]
  BY ConcatIs
<1>3. f[Len(s)] = g[Len(s)]
  BY <1>1, <1>2, RunsAgree
<1>4. Len(t) \in 0 .. Len(t) /\ Len(t) # 0 /\ Len(t) - 1 = Len(s)
  OBVIOUS
<1>5. g[Len(t)] = g[Len(s)] \o t[Len(t)]
  BY <1>2, <1>4 DEF Runs
<1> QED
  BY <1>1, <1>2, <1>3, <1>5

LEMMA ConcatSeq ==
  ASSUME NEW X, NEW s \in Seq(Seq(X))
  PROVE  Concat(s) \in Seq(X)
<1>0. Len(s) \in Nat
  BY LenProperties
<1>1. PICK f : Runs(f, s, Len(s)) /\ Concat(s) = f[Len(s)]
  BY <1>0, ConcatIs
<1> DEFINE T == {k \in Nat : k <= Len(s) => f[k] \in Seq(X)}
<1>2. 0 \in T
  BY <1>0, <1>1, EmptySeq DEF Runs
<1>3. ASSUME NEW k \in Nat, k \in T PROVE k + 1 \in T
  <2> SUFFICES ASSUME k + 1 <= Len(s) PROVE f[k + 1] \in Seq(X)
    OBVIOUS
  <2>1. k + 1 \in 0 .. Len(s) /\ k + 1 # 0 /\ (k + 1) - 1 = k /\ k + 1 \in 1 .. Len(s)
    BY <1>0
  <2>2. f[k + 1] = f[k] \o s[k + 1]
    BY <1>1, <2>1 DEF Runs
  <2>3. f[k] \in Seq(X) /\ s[k + 1] \in Seq(X)
    BY <1>0, <1>3, <2>1, ElementOfSeq
  <2> QED BY <2>2, <2>3, ConcatProperties
<1>4. Nat \subseteq T
  <2> HIDE DEF T
  <2> QED BY <1>2, <1>3, SetInduction
<1> QED
  BY <1>0, <1>1, <1>4

\* The elements x[i] with i in K, in order: as many as there are in K, each
\* where the count of those before it says.
Picks(c, K, X, x) ==
  /\ c \in Seq(X)
  /\ Len(c) = Cardinality(K)
  /\ \A i \in K : /\ Cardinality(K \cap (1 .. (i - 1))) + 1 \in 1 .. Len(c)
                  /\ c[Cardinality(K \cap (1 .. (i - 1))) + 1] = x[i]
  /\ \A j \in 1 .. Len(c) : \E i \in K : c[j] = x[i]

LEMMA ConcatPicks ==
  ASSUME NEW n \in Nat, NEW K \in SUBSET (1 .. n), NEW X, NEW x \in [1 .. n -> X],
         NEW s, s = [i \in 1 .. n |-> IF i \in K THEN <<x[i]>> ELSE <<>>]
  PROVE  Picks(Concat(s), K, X, x)
<1> DEFINE C(k) == Cardinality(K \cap (1 .. k))
<1>0. Len(s) = n
  OBVIOUS
<1>1. PICK f : Runs(f, s, n) /\ Concat(s) = f[n]
  BY <1>0, ConcatIs
<1>2. \A k \in Nat : IsFiniteSet(K \cap (1 .. k)) /\ C(k) \in Nat
  <2> TAKE k \in Nat
  <2>1. IsFiniteSet(1 .. k) /\ K \cap (1 .. k) \in SUBSET (1 .. k)
    BY FS_Interval
  <2> QED BY <2>1, FS_Subset, FS_CardinalityType
<1>3. \A k \in Nat : C(k + 1) = IF k + 1 \in K THEN C(k) + 1 ELSE C(k)
  <2> TAKE k \in Nat
  <2>1. CASE k + 1 \in K
    <3>1. K \cap (1 .. (k + 1)) = (K \cap (1 .. k)) \cup {k + 1} /\ k + 1 \notin K \cap (1 .. k)
      BY <2>1
    <3>2. IsFiniteSet(K \cap (1 .. k))
      BY <1>2
    <3> QED BY <2>1, <3>1, <3>2, FS_AddElement
  <2>2. CASE k + 1 \notin K
    <3>1. K \cap (1 .. (k + 1)) = K \cap (1 .. k)
      BY <2>2
    <3> QED BY <2>2, <3>1
  <2> QED BY <2>1, <2>2
<1>4. C(0) = 0
  <2>1. K \cap (1 .. 0) = {}
    OBVIOUS
  <2> QED BY <2>1, FS_EmptySet
<1> DEFINE P(k) == /\ f[k] \in Seq(X)
                   /\ Len(f[k]) = C(k)
                   /\ \A i \in K : i <= k => /\ C(i - 1) + 1 \in 1 .. C(k)
                                             /\ f[k][C(i - 1) + 1] = x[i]
                   /\ \A j \in 1 .. C(k) : \E i \in K : f[k][j] = x[i]
           T == {k \in Nat : k <= n => P(k)}
<1> HIDE DEF C
<1>5. 0 \in T
  <2>1. f[0] = <<>>
    BY <1>1 DEF Runs
  <2>2. f[0] \in Seq(X) /\ Len(f[0]) = C(0)
    BY <1>4, <2>1, EmptySeq
  <2>3. \A i \in K : ~(i <= 0)
    OBVIOUS
  <2>4. 1 .. C(0) = {}
    BY <1>4
  <2> QED BY <2>2, <2>3, <2>4
<1>6. ASSUME NEW k \in Nat, k \in T PROVE k + 1 \in T
  <2> SUFFICES ASSUME k + 1 <= n PROVE P(k + 1)
    OBVIOUS
  <2>0. k <= n
    OBVIOUS
  <2>1. P(k)
    BY <1>6, <2>0, Zenon
  <2>2. k + 1 \in 0 .. n /\ k + 1 # 0 /\ (k + 1) - 1 = k /\ k + 1 \in 1 .. n
    OBVIOUS
  <2>3. f[k + 1] = f[k] \o s[k + 1]
    BY <1>1, <2>2 DEF Runs
  <2>4. C(k) \in Nat
    BY <1>2
  <2>5. CASE k + 1 \in K
    <3> DEFINE e == x[k + 1]
    <3>1. s[k + 1] = <<e>> /\ e \in X
      BY <2>2, <2>5
    <3> HIDE DEF e
    <3>2. /\ f[k + 1] = Append(f[k], e)
          /\ f[k + 1] \in Seq(X)
          /\ Len(f[k + 1]) = C(k) + 1
          /\ \A j \in 1 .. C(k) : f[k + 1][j] = f[k][j]
          /\ f[k + 1][C(k) + 1] = e
      <4>1. f[k + 1] = Append(f[k], e)
        <5>1. f[k] \in Seq(X) /\ f[k + 1] = f[k] \o <<e>>
          BY <2>1, <2>3, <3>1, Zenon
        <5> QED BY <3>1, <5>1, AppendIsConcat, Zenon
      <4> QED BY <2>1, <3>1, <4>1, AppendProperties
    <3>3. C(k + 1) = C(k) + 1
      BY <1>3, <2>5
    <3>4. ASSUME NEW i \in K, i <= k + 1
          PROVE  C(i - 1) + 1 \in 1 .. C(k + 1) /\ f[k + 1][C(i - 1) + 1] = x[i]
      <4>1. CASE i = k + 1
        <5>1. i - 1 = k
          BY <4>1
        <5> QED BY <2>4, <3>2, <3>3, <4>1, <5>1 DEF e
      <4>2. CASE i # k + 1
        <5>0. i <= k
          BY <3>4, <4>2
        <5>1. C(i - 1) + 1 \in 1 .. C(k) /\ f[k][C(i - 1) + 1] = x[i]
          BY <2>1, <5>0, Zenon
        <5> QED BY <2>4, <3>2, <3>3, <5>1
      <4> QED BY <4>1, <4>2
    <3>5. ASSUME NEW j \in 1 .. C(k + 1) PROVE \E i \in K : f[k + 1][j] = x[i]
      <4>1. CASE j = C(k) + 1
        BY <2>5, <3>2, <4>1 DEF e
      <4>2. CASE j # C(k) + 1
        <5>1. j \in 1 .. C(k)
          BY <2>4, <3>3, <4>2
        <5> QED BY <2>1, <3>2, <5>1
      <4> QED BY <4>1, <4>2
    <3> QED BY <3>2, <3>3, <3>4, <3>5
  <2>6. CASE k + 1 \notin K
    <3>1. s[k + 1] = <<>>
      BY <2>2, <2>6
    <3>2. f[k + 1] = f[k]
      BY <2>1, <2>3, <3>1, ConcatEmptySeq
    <3>3. C(k + 1) = C(k)
      BY <1>3, <2>6
    <3> QED BY <2>1, <2>6, <3>2, <3>3
  <2> QED BY <2>5, <2>6
<1>7. Nat \subseteq T
  <2> HIDE DEF T
  <2> QED BY <1>5, <1>6, SetInduction
<1>8. P(n)
  BY <1>7
<1>9. C(n) = Cardinality(K)
  <2>1. K \cap (1 .. n) = K
    OBVIOUS
  <2> QED BY <2>1 DEF C
<1>10. \A i \in K : i <= n
  OBVIOUS
<1> QED
  BY <1>1, <1>8, <1>9, <1>10 DEF C, Picks

-----------------------------------------------------------------------------
(* The rounds and the order in which a round's openings are packed.        *)

Openings == GatesIn(Levels) \X ({"field"} \cup BoolGates)

LEMMA ComparedSeq ==
  ASSUME NEW d \in 1 .. Depth, NEW kind
  PROVE  Compared(d, kind) \in Seq(GatesIn(Levels))
<1> DEFINE G == GatesIn(Levels)
           t == [i \in 1 .. Len(Levels[d]) |->
                   IF Kind[Levels[d][i]] = kind THEN <<Levels[d][i]>> ELSE <<>>]
<1> HIDE DEF G
<1>1. Levels \in Seq(Seq(G))
  BY RoundAssumption DEF G
<1>2. Levels[d] \in Seq(G)
  BY <1>1, ElementOfSeq DEF Depth
<1>3. Len(Levels[d]) \in Nat /\ \A i \in 1 .. Len(Levels[d]) : Levels[d][i] \in G
  BY <1>2, LenProperties, ElementOfSeq
<1>4. \A i \in 1 .. Len(Levels[d]) : t[i] \in Seq(G)
  BY <1>3
<1>5. t \in Seq(Seq(G))
  BY <1>3, <1>4
<1>6. Concat(t) \in Seq(G)
  <2> HIDE DEF t
  <2> QED BY <1>5, ConcatSeq
<1> QED
  BY <1>6 DEF Compared, G

\* A quotient of what is below a product.
LEMMA QuotientBelow ==
  ASSUME NEW n \in Nat, NEW m \in Nat, NEW a \in Nat, a < n * m
  PROVE  m # 0 /\ a \div m \in Nat /\ a \div m < n /\ a % m \in 0 .. (m - 1)
<1>1. m # 0
  OBVIOUS
<1>2. PICK q \in Nat : q = a \div m
  BY <1>1
<1>3. a % m \in 0 .. (m - 1)
  BY <1>1
<1>4. a >= q * m
  BY <1>1, <1>2
<1>5. ASSUME q >= n PROVE FALSE
  <2>1. PICK e \in Nat : q = n + e
    <3>1. q - n \in Nat /\ q = n + (q - n)
      BY <1>5
    <3> QED BY <3>1
  <2>2. q * m = n * m + e * m /\ e * m \in Nat
    BY <2>1
  <2> QED BY <1>4, <2>2
<1> QED
  BY <1>1, <1>2, <1>3, <1>5

LEMMA BoolRoundsSeq ==
  ASSUME NEW d \in 1 .. Depth, NEW kind \in {"eqz", "ltz"}
  PROVE  BoolRounds(d, kind) \in Seq(Seq(Openings))
<1> DEFINE gs == Compared(d, kind)
           levels == BoolLevels[kind]
           Round(bs) == [i \in 1 .. (Len(gs) * Len(bs)) |->
                           <<gs[(i - 1) \div Len(bs) + 1], bs[((i - 1) % Len(bs)) + 1]>>]
<1>1. gs \in Seq(GatesIn(Levels)) /\ levels \in Seq(Seq(BoolGates))
  BY ComparedSeq, RoundAssumption
<1>2. ASSUME NEW l \in 1 .. Len(levels) PROVE Round(levels[l]) \in Seq(Openings)
  <2> DEFINE bs == levels[l]
  <2>1. bs \in Seq(BoolGates)
    BY <1>1, ElementOfSeq
  <2> HIDE DEF bs, gs
  <2>2. Len(gs) \in Nat /\ Len(bs) \in Nat
    BY <1>1, <2>1, LenProperties
  <2>3. Len(gs) * Len(bs) \in Nat
    BY <2>2
  <2>4. ASSUME NEW i \in 1 .. (Len(gs) * Len(bs))
        PROVE  <<gs[(i - 1) \div Len(bs) + 1], bs[((i - 1) % Len(bs)) + 1]>> \in Openings
    <3>1. i - 1 \in Nat /\ i - 1 < Len(gs) * Len(bs)
      BY <2>3
    <3> DEFINE a == i - 1
    <3>2. a \in Nat /\ a < Len(gs) * Len(bs)
      BY <3>1
    <3> HIDE DEF a
    <3>3. a \div Len(bs) \in Nat /\ a \div Len(bs) < Len(gs) /\ a % Len(bs) \in 0 .. (Len(bs) - 1)
      BY <2>2, <3>2, QuotientBelow
    <3> DEFINE u == a \div Len(bs)
               v == a % Len(bs)
    <3>4. u + 1 \in 1 .. Len(gs) /\ v + 1 \in 1 .. Len(bs)
      <4>1. u \in Nat /\ u < Len(gs) /\ v \in 0 .. (Len(bs) - 1)
        BY <3>3
      <4> HIDE DEF u, v
      <4> QED BY <2>2, <4>1
    <3> HIDE DEF u, v
    <3>5. gs[u + 1] \in GatesIn(Levels) /\ bs[v + 1] \in BoolGates
      BY <1>1, <2>1, <3>4, ElementOfSeq
    <3> QED BY <3>5 DEF Openings, u, v, a
  <2>5. Round(bs) \in [1 .. (Len(gs) * Len(bs)) -> Openings]
    BY <2>4
  <2>6. Round(bs) \in Seq(Openings)
    <3> DEFINE n == Len(gs) * Len(bs)
               R == Round(bs)
    <3>1. n \in Nat /\ R \in [1 .. n -> Openings]
      BY <2>3, <2>5
    <3> HIDE DEF n, R
    <3>2. R \in Seq(Openings)
      BY <3>1, SeqDef
    <3> QED BY <3>2 DEF R
  <2> QED BY <2>6 DEF bs
<1> HIDE DEF Round
<1>3. [l \in 1 .. Len(levels) |-> Round(levels[l])] \in Seq(Seq(Openings))
  <2> DEFINE R == [l \in 1 .. Len(levels) |-> Round(levels[l])]
             n == Len(levels)
             S == Seq(Openings)
  <2>1. n \in Nat
    BY <1>1, LenProperties
  <2>2. R \in [1 .. n -> S]
    BY <1>2
  <2> HIDE DEF R, n, S
  <2>3. R \in Seq(S)
    BY <2>1, <2>2, SeqDef
  <2> QED BY <2>3 DEF R, S
<1>4. BoolRounds(d, kind) = IF gs = <<>> THEN <<>> ELSE [l \in 1 .. Len(levels) |-> Round(levels[l])]
  BY DEF BoolRounds, Round
<1> QED
  BY <1>3, <1>4, EmptySeq

LEMMA LevelRoundsSeq ==
  ASSUME NEW d \in 1 .. Depth
  PROVE  LevelRounds(d) \in Seq(Seq(Openings)) /\ Len(LevelRounds(d)) >= 1
<1> DEFINE last == [i \in 1 .. Len(Levels[d]) |-> <<Levels[d][i], "field">>]
           b == BoolRounds(d, "eqz") \o BoolRounds(d, "ltz")
           S == Seq(Openings)
<1>1. Levels \in Seq(Seq(GatesIn(Levels)))
  BY RoundAssumption
<1>2. Levels[d] \in Seq(GatesIn(Levels))
  BY <1>1, ElementOfSeq DEF Depth
<1>3. Len(Levels[d]) \in Nat /\ \A i \in 1 .. Len(Levels[d]) : Levels[d][i] \in GatesIn(Levels)
  BY <1>2, LenProperties, ElementOfSeq
<1>4. \A i \in 1 .. Len(Levels[d]) : <<Levels[d][i], "field">> \in Openings
  BY <1>3 DEF Openings
<1>5. last \in S
  <2> DEFINE n == Len(Levels[d])
  <2>1. n \in Nat /\ last \in [1 .. n -> Openings]
    BY <1>3, <1>4
  <2> HIDE DEF n, last
  <2> QED BY <2>1, SeqDef
<1>6. b \in Seq(S)
  BY BoolRoundsSeq, ConcatProperties
<1> HIDE DEF last, b, S
<1>7. b \o <<last>> \in Seq(S) /\ Len(b \o <<last>>) = Len(b) + 1
  <2>1. b \o <<last>> = Append(b, last)
    BY <1>5, <1>6, AppendIsConcat
  <2> QED BY <1>5, <1>6, <2>1, AppendProperties
<1>8. Len(b) \in Nat
  BY <1>6, LenProperties
<1>9. LevelRounds(d) = b \o <<last>>
  BY DEF LevelRounds, b, last
<1> QED
  BY <1>7, <1>8, <1>9 DEF S

LEMMA DepthType == Depth \in Nat /\ Depth >= 1
<1>1. Levels \in Seq(Seq(GatesIn(Levels))) /\ Levels # <<>>
  BY RoundAssumption
<1> QED
  BY <1>1, EmptySeq DEF Depth

LEMMA RoundsSeq ==
  Rounds \in Seq(Seq(Openings)) /\ Len(Rounds) \in Nat /\ Len(Rounds) >= 1
<1> DEFINE S == Seq(Openings)
           t == [d \in 1 .. Depth |-> LevelRounds(d)]
           s == [d \in 1 .. (Depth - 1) |-> LevelRounds(d)]
<1>1. t \in [1 .. Depth -> Seq(S)] /\ s \in [1 .. (Depth - 1) -> Seq(S)]
  BY LevelRoundsSeq, DepthType
<1>2. Len(t) = Depth /\ Len(s) = Depth - 1
  BY DepthType
<1>3. \A i \in 1 .. Len(s) : s[i] = t[i]
  BY <1>2, DepthType
<1>4. t[Depth] = LevelRounds(Depth) /\ LevelRounds(Depth) \in Seq(S) /\ Len(LevelRounds(Depth)) >= 1
  BY LevelRoundsSeq, DepthType
<1> HIDE DEF S, t, s
<1>5. t \in Seq(Seq(S)) /\ s \in Seq(Seq(S))
  <2>1. Depth \in Nat /\ Depth - 1 \in Nat
    BY DepthType
  <2> QED BY <1>1, <2>1, SeqDef
<1>6. Concat(t) \in Seq(S) /\ Concat(s) \in Seq(S)
  BY <1>5, ConcatSeq
<1>7. Concat(t) = Concat(s) \o t[Depth]
  <2>1. Len(s) \in Nat /\ Len(t) = Len(s) + 1
    BY <1>2, DepthType
  <2> QED BY <1>2, <1>3, <2>1, ConcatMore
<1>8. Len(Concat(s)) \in Nat /\ Len(t[Depth]) \in Nat /\ Len(Concat(t)) = Len(Concat(s)) + Len(t[Depth])
  BY <1>4, <1>6, <1>7, ConcatProperties, LenProperties
<1>9. Rounds = Concat(t)
  BY DEF Rounds, t
<1> QED
  BY <1>4, <1>6, <1>8, <1>9 DEF S

\* Every round opens gates, each of a kind.
LEMMA RoundGates ==
  ASSUME NEW r \in 1 .. Len(Rounds)
  PROVE  /\ Rounds[r] \in Seq(Gates)
         /\ Len(Rounds[r]) \in Nat
         /\ \A i \in 1 .. Len(Rounds[r]) : Rounds[r][i] \in Gates
<1>1. Rounds[r] \in Seq(Openings)
  BY RoundsSeq, ElementOfSeq
<1>2. Len(Rounds[r]) \in Nat /\ Rounds[r] = [i \in 1 .. Len(Rounds[r]) |-> Rounds[r][i]]
  BY <1>1, LenProperties
<1>3. \A i \in 1 .. Len(Rounds[r]) : Rounds[r][i] \in Gates
  BY DEF Gates, GatesIn
<1>4. Rounds[r] \in [1 .. Len(Rounds[r]) -> Gates]
  BY <1>2, <1>3
<1> QED
  BY <1>2, <1>3, <1>4, SeqDef

LEMMA GateInRound ==
  ASSUME NEW g \in Gates
  PROVE  \E r \in 1 .. Len(Rounds) : \E i \in 1 .. Len(Rounds[r]) : Rounds[r][i] = g
BY DEF Gates, GatesIn

LEMMA KindType ==
  ASSUME NEW x \in Gates
  PROVE  GateKind(x) \in Kinds
<1>1. PICK r \in 1 .. Len(Rounds) : \E i \in 1 .. Len(Rounds[r]) : Rounds[r][i] = x
  BY GateInRound
<1>2. x \in Openings
  <2>1. Rounds[r] \in Seq(Openings)
    BY RoundsSeq, ElementOfSeq
  <2> QED BY <1>1, <2>1, ElementOfSeq
<1>3. x[1] \in GatesIn(Levels) /\ x[2] \in {"field"} \cup BoolGates
  BY <1>2 DEF Openings
<1> QED
  BY <1>3, RoundAssumption, Zenon DEF GateKind

\* Where the gates of a kind are in a round.
KindAt(r, kind) == {i \in 1 .. Len(Rounds[r]) : GateKind(Rounds[r][i]) = kind}

KindPicked(r, kind, seq) ==
  /\ seq \in Seq(Gates)
  /\ Len(seq) = Cardinality(KindAt(r, kind))
  /\ \A i \in KindAt(r, kind) :
       Rank(r, i) \in Nat /\ Rank(r, i) + 1 \in 1 .. Len(seq) /\ seq[Rank(r, i) + 1] = Rounds[r][i]
  /\ \A j \in 1 .. Len(seq) : \E i \in KindAt(r, kind) : seq[j] = Rounds[r][i]

LEMMA OfKindIs ==
  ASSUME NEW r \in 1 .. Len(Rounds), NEW kind
  PROVE  KindPicked(r, kind, OfKind(r, kind))
<1> DEFINE n == Len(Rounds[r])
           K == KindAt(r, kind)
           x == [i \in 1 .. n |-> Rounds[r][i]]
           s == [i \in 1 .. n |-> IF GateKind(Rounds[r][i]) = kind THEN <<Rounds[r][i]>> ELSE <<>>]
<1>1. n \in Nat /\ K \in SUBSET (1 .. n) /\ x \in [1 .. n -> Gates]
  BY RoundGates DEF KindAt
<1>2. s = [i \in 1 .. n |-> IF i \in K THEN <<x[i]>> ELSE <<>>]
  BY DEF KindAt
<1>3. OfKind(r, kind) = Concat(s)
  BY DEF OfKind
<1>4. \A i \in K : Rank(r, i) = Cardinality(K \cap (1 .. (i - 1))) /\ x[i] = Rounds[r][i]
  <2> TAKE i \in K
  <2>1. i \in 1 .. n /\ GateKind(Rounds[r][i]) = kind
    BY DEF KindAt
  <2>2. \A j \in 1 .. (i - 1) : j \in 1 .. n
    BY <1>1, <2>1
  <2>3. {j \in 1 .. (i - 1) : GateKind(Rounds[r][j]) = GateKind(Rounds[r][i])} = K \cap (1 .. (i - 1))
    BY <2>1, <2>2 DEF KindAt
  <2> QED BY <2>1, <2>3 DEF Rank
<1>6. \A i \in K : Cardinality(K \cap (1 .. (i - 1))) \in Nat
  <2> TAKE i \in K
  <2>1. i \in Int /\ K \cap (1 .. (i - 1)) \in SUBSET (1 .. (i - 1))
    BY <1>1
  <2>2. IsFiniteSet(1 .. (i - 1))
    BY <2>1, FS_Interval
  <2> QED BY <2>1, <2>2, FS_Subset, FS_CardinalityType
<1> HIDE DEF n, K, x, s
<1>5. Picks(Concat(s), K, Gates, x)
  BY <1>1, <1>2, ConcatPicks
<1> QED
  BY <1>3, <1>4, <1>5, <1>6, Zenon DEF K, Picks, KindPicked

\* Sequences one after the other: the b-th one's elements come after from[b].
Placed(c, X, n, q, from) ==
  /\ c \in Seq(X)
  /\ Len(c) = from[n + 1]
  /\ \A b \in 1 .. n : \A j \in 1 .. Len(q[b]) :
       from[b] + j \in 1 .. from[n + 1] /\ c[from[b] + j] = q[b][j]
  /\ \A i \in 1 .. from[n + 1] :
       \E b \in 1 .. n : \E j \in 1 .. Len(q[b]) : c[i] = q[b][j]

LEMMA ConcatPlaces ==
  ASSUME NEW X, NEW n \in Nat, NEW q \in [1 .. n -> Seq(X)], NEW from \in [1 .. (n + 1) -> Nat],
         from[1] = 0, \A b \in 1 .. n : from[b + 1] = from[b] + Len(q[b])
  PROVE  Placed(Concat(q), X, n, q, from)
<1>1. Len(q) = n
  OBVIOUS
<1>2. PICK f : Runs(f, q, n) /\ Concat(q) = f[n]
  BY <1>1, ConcatIs
<1> DEFINE Found(k) == \A b \in 1 .. k : \A j \in 1 .. Len(q[b]) :
                         from[b] + j \in 1 .. from[k + 1] /\ f[k][from[b] + j] = q[b][j]
           Only(k) == \A i \in 1 .. from[k + 1] :
                        \E b \in 1 .. k : \E j \in 1 .. Len(q[b]) : f[k][i] = q[b][j]
           P(k) == f[k] \in Seq(X) /\ Len(f[k]) = from[k + 1] /\ Found(k) /\ Only(k)
           T == {k \in Nat : k <= n => P(k)}
<1>3. 0 \in T
  <2>1. f[0] = <<>> /\ from[0 + 1] = 0
    BY <1>2 DEF Runs
  <2>2. f[0] \in Seq(X) /\ Len(f[0]) = from[0 + 1]
    BY <2>1, EmptySeq
  <2>3. 1 .. 0 = {} /\ 1 .. from[0 + 1] = {}
    BY <2>1
  <2>4. Found(0) /\ Only(0)
    BY <2>3
  <2> QED BY <2>2, <2>4
<1>4. ASSUME NEW k \in Nat, k \in T PROVE k + 1 \in T
  <2> HIDE DEF P
  <2> SUFFICES ASSUME k + 1 <= n PROVE P(k + 1)
    OBVIOUS
  <2> USE DEF P
  <2>1. k <= n
    OBVIOUS
  <2>2. P(k)
    BY <1>4, <2>1, Zenon
  <2> DEFINE u == f[k]
             v == q[k + 1]
             w == f[k + 1]
             a == from[k + 1]
             c == from[(k + 1) + 1]
  <2>3. k + 1 \in 0 .. n /\ k + 1 # 0 /\ (k + 1) - 1 = k /\ k + 1 \in 1 .. n
    OBVIOUS
  <2>4. w = u \o v /\ v \in Seq(X) /\ c = a + Len(v) /\ a \in Nat /\ c \in Nat
    <3>1. f[k + 1] = f[k] \o q[k + 1]
      BY <1>2, <2>3 DEF Runs
    <3>2. q[k + 1] \in Seq(X) /\ from[(k + 1) + 1] = from[k + 1] + Len(q[k + 1])
      BY <2>3, Zenon
    <3>3. k + 1 \in 1 .. (n + 1) /\ (k + 1) + 1 \in 1 .. (n + 1)
      OBVIOUS
    <3>4. from[k + 1] \in Nat /\ from[(k + 1) + 1] \in Nat
      BY <3>3, Zenon
    <3> QED BY <3>1, <3>2, <3>4, Zenon
  <2>5. u \in Seq(X) /\ Len(u) = a /\ Len(v) \in Nat
    BY <2>2, <2>4, LenProperties
  <2>6. /\ w \in Seq(X) /\ Len(w) = c
        /\ \A i \in 1 .. c : w[i] = IF i <= a THEN u[i] ELSE v[i - a]
    <3> HIDE DEF u, v, w, a, c
    <3> QED BY <2>4, <2>5, ConcatProperties
  <2>7. ASSUME NEW b \in 1 .. (k + 1), NEW j \in 1 .. Len(q[b])
        PROVE  from[b] + j \in 1 .. c /\ w[from[b] + j] = q[b][j]
    <3>1. CASE b = k + 1
      <4>1. j \in 1 .. Len(v) /\ from[b] = a /\ q[b] = v
        BY <3>1
      <4> HIDE DEF u, v, w, a, c
      <4>2. a + j \in 1 .. c /\ ~(a + j <= a) /\ (a + j) - a = j
        BY <2>4, <2>5, <4>1
      <4> QED BY <2>6, <4>1, <4>2
    <3>2. CASE b # k + 1
      <4>1. b \in 1 .. k
        BY <3>2
      <4>2. from[b] + j \in 1 .. a /\ u[from[b] + j] = q[b][j]
        BY <2>2, <4>1
      <4> HIDE DEF u, v, w, a, c
      <4> DEFINE i == from[b] + j
      <4>3. i \in 1 .. a
        BY <4>2
      <4> HIDE DEF i
      <4>4. i \in 1 .. c /\ i <= a
        BY <2>4, <2>5, <4>3
      <4>5. w[i] = u[i]
        BY <2>6, <4>4
      <4> QED BY <4>2, <4>4, <4>5 DEF i
    <3> QED BY <3>1, <3>2
  <2>8. ASSUME NEW i \in 1 .. c
        PROVE  \E b \in 1 .. (k + 1) : \E j \in 1 .. Len(q[b]) : w[i] = q[b][j]
    <3>1. CASE i <= a
      <4>1. i \in 1 .. a /\ w[i] = u[i]
        <5> HIDE DEF u, v, w, a, c
        <5> QED BY <2>4, <2>6, <3>1
      <4>2. PICK b \in 1 .. k : \E j \in 1 .. Len(q[b]) : u[i] = q[b][j]
        BY <2>2, <4>1
      <4>3. b \in 1 .. (k + 1)
        OBVIOUS
      <4> QED BY <4>1, <4>2, <4>3
    <3>2. CASE ~(i <= a)
      <4>1. w[i] = v[i - a] /\ i - a \in 1 .. Len(v)
        <5> HIDE DEF u, v, w, a, c
        <5> QED BY <2>4, <2>5, <2>6, <3>2
      <4>2. k + 1 \in 1 .. (k + 1)
        OBVIOUS
      <4> QED BY <4>1, <4>2
    <3> QED BY <3>1, <3>2
  <2> QED BY <2>6, <2>7, <2>8
<1>5. Nat \subseteq T
  <2> HIDE DEF T
  <2> QED BY <1>3, <1>4, SetInduction
<1>6. P(n)
  BY <1>5
<1> QED
  BY <1>2, <1>6 DEF Placed

\* The kinds before a kind in the packing order, and the elements they take.
LEMMA OffsetStart ==
  ASSUME NEW r \in 1 .. Len(Rounds)
  PROVE  Offset(r, Order[1]) = 0
<1>1. Before(Order[1]) = {}
  BY DEF Before, Order
<1>2. {i \in 1 .. Len(Rounds[r]) : GateKind(Rounds[r][i]) \in Before(Order[1])} = {}
  BY <1>1
<1> QED
  BY <1>2, FS_EmptySet DEF Offset

LEMMA OffsetMore ==
  ASSUME NEW r \in 1 .. Len(Rounds), NEW b \in 1 .. 5
  PROVE  Offset(r, Order[b + 1]) = Offset(r, Order[b]) + Len(OfKind(r, Order[b]))
<1> DEFINE A == {i \in 1 .. Len(Rounds[r]) : GateKind(Rounds[r][i]) \in Before(Order[b])}
           B == {i \in 1 .. Len(Rounds[r]) : GateKind(Rounds[r][i]) \in Before(Order[b + 1])}
           K == KindAt(r, Order[b])
<1>1. Before(Order[b + 1]) = Before(Order[b]) \cup {Order[b]} /\ Order[b] \notin Before(Order[b])
  BY SMTT(60) DEF Before, Order
<1>2. B = A \cup K /\ A \cap K = {}
  BY <1>1 DEF KindAt
<1>3. IsFiniteSet(A) /\ IsFiniteSet(K)
  <2>1. IsFiniteSet(1 .. Len(Rounds[r]))
    BY RoundGates, FS_Interval
  <2>2. A \in SUBSET (1 .. Len(Rounds[r])) /\ K \in SUBSET (1 .. Len(Rounds[r]))
    BY DEF KindAt
  <2> HIDE DEF A, K
  <2> QED BY <2>1, <2>2, FS_Subset
<1>4. Cardinality(A) \in Nat /\ Cardinality(K) \in Nat /\ Cardinality(A \cap K) = 0
  BY <1>2, <1>3, FS_CardinalityType, FS_EmptySet
<1>5. Cardinality(B) = Cardinality(A) + Cardinality(K)
  <2> HIDE DEF A, B, K
  <2>1. Cardinality(A \cup K) = Cardinality(A) + Cardinality(K) - Cardinality(A \cap K)
    BY <1>3, FS_Union
  <2> QED BY <1>2, <1>4, <2>1
<1> QED
  BY <1>5, OfKindIs, Zenon DEF Offset, KindPicked

LEMMA OffsetType ==
  ASSUME NEW r \in 1 .. Len(Rounds), NEW kind
  PROVE  Offset(r, kind) \in Nat
<1> DEFINE A == {i \in 1 .. Len(Rounds[r]) : GateKind(Rounds[r][i]) \in Before(kind)}
<1>1. IsFiniteSet(1 .. Len(Rounds[r])) /\ A \in SUBSET (1 .. Len(Rounds[r]))
  BY RoundGates, FS_Interval
<1> HIDE DEF A
<1>2. Cardinality(A) \in Nat
  BY <1>1, FS_Subset, FS_CardinalityType
<1> QED
  BY <1>2 DEF Offset, A

\* The places of round r whose gate is opened, and those gates.
Opens(r) == {i \in 1 .. Len(Rounds[r]) : GateKind(Rounds[r][i]) # "linear"}

OpenedIn(r) == {Rounds[r][i] : i \in Opens(r)}

\* The element of the i-th gate of the round is where unpacking looks for it.
LEMMA PackedRight ==
  ASSUME NEW r \in 1 .. Len(Rounds)
  PROVE  /\ Packed[r] \in Seq(Gates) /\ Total(r) \in Nat
         /\ \A i \in Opens(r) : LET at == Offset(r, GateKind(Rounds[r][i])) + Rank(r, i) + 1
                                IN  at \in 1 .. Total(r) /\ Packed[r][at] = Rounds[r][i]
         /\ \A j \in 1 .. Total(r) : Packed[r][j] \in OpenedIn(r)
<1> DEFINE q == [b \in 1 .. 6 |-> OfKind(r, Order[b])]
           from == [b \in 1 .. 7 |-> IF b = 7 THEN Offset(r, Order[6]) + Len(OfKind(r, Order[6]))
                                              ELSE Offset(r, Order[b])]
           S == Seq(Gates)
<1>1. \A b \in 1 .. 6 : q[b] = OfKind(r, Order[b]) /\ q[b] \in S /\ Len(q[b]) \in Nat
  BY OfKindIs, LenProperties DEF KindPicked
<1>2. q \in [1 .. 6 -> S]
  BY <1>1
<1>3. from \in [1 .. (6 + 1) -> Nat]
  BY <1>1, OffsetType
<1>4. from[1] = 0
  BY OffsetStart
<1>5. \A b \in 1 .. 6 : from[b + 1] = from[b] + Len(q[b])
  <2> TAKE b \in 1 .. 6
  <2>1. CASE b = 6
    BY <2>1
  <2>2. CASE b # 6
    <3>1. b \in 1 .. 5 /\ b + 1 \in 1 .. 7 /\ b + 1 # 7 /\ b \in 1 .. 7 /\ b # 7
      BY <2>2
    <3> QED BY <1>1, <3>1, OffsetMore
  <2> QED BY <2>1, <2>2
<1>6. \A b \in 1 .. 6 : from[b] = Offset(r, Order[b])
  OBVIOUS
<1>7. Packed[r] = Concat(q)
  BY DEF Packed
<1> HIDE DEF q, from, S
<1>8. /\ Concat(q) \in Seq(Gates)
      /\ Len(Concat(q)) = from[7]
      /\ \A b \in 1 .. 6 : \A j \in 1 .. Len(q[b]) :
           from[b] + j \in 1 .. from[7] /\ Concat(q)[from[b] + j] = q[b][j]
      /\ \A i \in 1 .. from[7] :
           \E b \in 1 .. 6 : \E j \in 1 .. Len(q[b]) : Concat(q)[i] = q[b][j]
  <2>1. Placed(Concat(q), Gates, 6, q, from)
    BY <1>2, <1>3, <1>4, <1>5, ConcatPlaces DEF S
  <2>2. 6 + 1 = 7
    OBVIOUS
  <2> QED BY <2>1, <2>2, Zenon DEF Placed
<1>9. Total(r) = from[7] /\ from[7] \in Nat
  BY <1>3, <1>7, <1>8 DEF Total
<1>10. ASSUME NEW i \in Opens(r)
       PROVE  LET at == Offset(r, GateKind(Rounds[r][i])) + Rank(r, i) + 1
              IN  at \in 1 .. Total(r) /\ Packed[r][at] = Rounds[r][i]
  <2>1. i \in 1 .. Len(Rounds[r]) /\ GateKind(Rounds[r][i]) \in Kinds \ {"linear"}
    BY RoundGates, KindType DEF Opens
  <2>2. PICK b \in 1 .. 6 : Order[b] = GateKind(Rounds[r][i])
    <3>1. /\ Order[1] = "mul" /\ Order[2] = "mul3" /\ Order[3] = "mul4"
          /\ Order[4] = "dotprod" /\ Order[5] = "eqz" /\ Order[6] = "ltz"
      BY DEF Order
    <3>2. 1 \in 1 .. 6 /\ 2 \in 1 .. 6 /\ 3 \in 1 .. 6 /\ 4 \in 1 .. 6 /\ 5 \in 1 .. 6 /\ 6 \in 1 .. 6
      OBVIOUS
    <3> QED BY <2>1, <3>1, <3>2, Zenon DEF Kinds
  <2>3. i \in KindAt(r, Order[b])
    BY <2>1, <2>2 DEF KindAt
  <2> DEFINE j == Rank(r, i) + 1
  <2>4. j \in 1 .. Len(q[b]) /\ q[b][j] = Rounds[r][i]
    <3>1. KindPicked(r, Order[b], q[b])
      BY <1>1, OfKindIs
    <3> QED BY <2>3, <3>1, Zenon DEF KindPicked
  <2>5. Offset(r, GateKind(Rounds[r][i])) + Rank(r, i) + 1 = from[b] + j
    <3>1. Rank(r, i) \in Int
      BY <2>3, OfKindIs DEF KindPicked
    <3>2. from[b] \in Nat /\ from[b] = Offset(r, GateKind(Rounds[r][i]))
      BY <1>3, <1>6, <2>2
    <3> QED BY <3>1, <3>2
  <2> HIDE DEF j
  <2>6. from[b] + j \in 1 .. from[7] /\ Concat(q)[from[b] + j] = Rounds[r][i]
    BY <1>8, <2>4
  <2> QED BY <1>7, <1>9, <2>5, <2>6
<1>11. ASSUME NEW k \in 1 .. Total(r) PROVE Packed[r][k] \in OpenedIn(r)
  <2>1. PICK b \in 1 .. 6 : \E j \in 1 .. Len(q[b]) : Concat(q)[k] = q[b][j]
    BY <1>8, <1>9
  <2>2. PICK j \in 1 .. Len(q[b]) : Concat(q)[k] = q[b][j]
    BY <2>1
  <2>3. PICK i \in KindAt(r, Order[b]) : q[b][j] = Rounds[r][i]
    <3>1. KindPicked(r, Order[b], q[b])
      BY <1>1, OfKindIs
    <3> QED BY <3>1, Zenon DEF KindPicked
  <2>4. Order[b] # "linear"
    BY DEF Order
  <2>5. i \in Opens(r)
    BY <2>3, <2>4 DEF KindAt, Opens
  <2> QED BY <1>7, <2>2, <2>3, <2>5 DEF OpenedIn
<1> QED
  BY <1>7, <1>8, <1>9, <1>10, <1>11

\* Unpacking gives every gate that is opened the element packed for it.
LEMMA UnpackedRight ==
  ASSUME NEW r \in 1 .. Len(Rounds), NEW values, NEW val,
         \A k \in 1 .. Total(r) : values[k] = val[Packed[r][k]]
  PROVE  /\ DOMAIN Unpacked(r, values) = OpenedIn(r)
         /\ \A x \in OpenedIn(r) : Unpacked(r, values)[x] = val[x]
<1>1. Unpacked(r, values) =
        [x \in OpenedIn(r) |->
           values[Offset(r, GateKind(x)) + Rank(r, CHOOSE i \in Opens(r) : Rounds[r][i] = x) + 1]]
  BY DEF Unpacked, OpenedIn, Opens
<1>2. ASSUME NEW x \in OpenedIn(r) PROVE Unpacked(r, values)[x] = val[x]
  <2> DEFINE i == CHOOSE i \in Opens(r) : Rounds[r][i] = x
             at == Offset(r, GateKind(x)) + Rank(r, i) + 1
  <2>1. i \in Opens(r) /\ Rounds[r][i] = x
    BY DEF OpenedIn
  <2>2. Unpacked(r, values)[x] = values[at]
    BY <1>1
  <2> HIDE DEF i
  <2>3. at \in 1 .. Total(r) /\ Packed[r][at] = x
    BY <2>1, PackedRight
  <2> QED BY <2>2, <2>3
<1> QED
  BY <1>1, <1>2

-----------------------------------------------------------------------------
(* The slices of a round cover its elements, and the loops over the peers. *)

LEMMA PartyNumbers == NP \in Nat /\ NP >= 2
BY RoundAssumption

LEMMA SliceType ==
  ASSUME NEW r \in 1 .. Len(Rounds), NEW q \in Parties
  PROVE  /\ PerParty(r) \in Nat /\ SliceLen(r, q) \in Nat /\ SliceFrom(r, q) \in Nat
         /\ SliceFrom(r, q) + SliceLen(r, q) <= Total(r)
         /\ q # NP => SliceLen(r, q) = PerParty(r)
         /\ SliceFrom(r, q) + PerParty(r) = q * PerParty(r)
         /\ SliceFrom(r, NP) + SliceLen(r, NP) = Total(r)
<1>1. Total(r) \in Nat /\ NP \in Nat \ {0} /\ q \in Nat /\ q >= 1 /\ q <= NP
  BY PackedRight, PartyNumbers DEF Parties
<1>2. PICK t \in Nat : t = Total(r)
  BY <1>1
<1>3. PICK pp \in Nat : pp = t \div NP
  BY <1>1
<1>4. PICK rest \in Nat : rest = t % NP
  BY <1>1
<1>5. t = NP * pp + rest
  BY <1>1, <1>3, <1>4
<1>6. /\ PerParty(r) = pp
      /\ SliceLen(r, q) = IF q = NP THEN pp + rest ELSE pp
      /\ SliceFrom(r, q) = (q - 1) * pp
      /\ SliceLen(r, NP) = pp + rest
      /\ SliceFrom(r, NP) = (NP - 1) * pp
  BY <1>2, <1>3, <1>4 DEF PerParty, SliceLen, SliceFrom
<1>7. (q - 1) * pp \in Nat /\ (q - 1) * pp + pp = q * pp /\ (NP - 1) * pp + pp = NP * pp
  BY <1>1
<1>8. q * pp <= NP * pp
  <2>1. PICK e \in Nat : NP = q + e
    <3>1. NP - q \in Nat /\ NP = q + (NP - q)
      BY <1>1
    <3> QED BY <3>1
  <2>2. NP * pp = q * pp + e * pp /\ e * pp \in Nat /\ q * pp \in Nat
    BY <1>1, <2>1
  <2> QED BY <2>2
<1>9. (NP - 1) * pp \in Nat /\ NP * pp \in Nat /\ q * pp \in Nat
  BY <1>1
<1> QED
  BY <1>1, <1>2, <1>5, <1>6, <1>7, <1>8, <1>9

InSlice(r, q) == (SliceFrom(r, q) + 1) .. (SliceFrom(r, q) + SliceLen(r, q))

LEMMA SliceInside ==
  ASSUME NEW r \in 1 .. Len(Rounds), NEW q \in Parties
  PROVE  /\ \A i \in InSlice(r, q) : /\ i \in 1 .. Total(r)
                                     /\ i - SliceFrom(r, q) \in 1 .. SliceLen(r, q)
         /\ \A k \in 1 .. SliceLen(r, q) : SliceFrom(r, q) + k \in InSlice(r, q)
         /\ Total(r) \in Nat
<1>1. Total(r) \in Nat
  BY PackedRight
<1> QED
  BY <1>1, SliceType DEF InSlice

LEMMA SlicesCover ==
  ASSUME NEW r \in 1 .. Len(Rounds), NEW i \in 1 .. Total(r)
  PROVE  \E q \in Parties : i \in InSlice(r, q)
<1>1. Total(r) \in Nat
  BY PackedRight
<1>2. \A q \in Parties : q \in Nat /\ SliceFrom(r, q) \in Nat /\ SliceLen(r, q) \in Nat
  BY SliceType DEF Parties
<1>3. NP \in Parties
  BY PartyNumbers DEF Parties
<1> DEFINE B == {q \in Parties : i <= SliceFrom(r, q) + SliceLen(r, q)}
<1>4. NP \in B
  BY <1>1, <1>3, SliceType
<1>5. PICK q \in B : \A k \in B : q <= k
  <2>1. B \subseteq Nat /\ B # {}
    BY <1>2, <1>4
  <2> HIDE DEF B
  <2> QED BY <2>1, LeastOf
<1>6. CASE q = 1
  <2>1. 1 \in Parties /\ SliceFrom(r, 1) = 0
    <3>1. 1 \in Parties /\ PerParty(r) \in Nat
      BY PartyNumbers, SliceType DEF Parties
    <3> QED BY <3>1 DEF SliceFrom
  <2> QED BY <1>1, <1>2, <1>6, <2>1 DEF InSlice
<1>7. CASE q # 1
  <2>1. q - 1 \in Parties /\ q - 1 \notin B /\ q - 1 # NP /\ q \in Parties
    BY <1>2, <1>5, <1>7, PartyNumbers DEF Parties
  <2>2. i > SliceFrom(r, q - 1) + SliceLen(r, q - 1)
    BY <1>1, <1>2, <2>1
  <2>3. SliceFrom(r, q - 1) + SliceLen(r, q - 1) = (q - 1) * PerParty(r)
    BY <2>1, SliceType
  <2>4. SliceFrom(r, q) = (q - 1) * PerParty(r)
    BY DEF SliceFrom
  <2>5. i > SliceFrom(r, q)
    BY <2>2, <2>3, <2>4
  <2> QED BY <1>1, <1>2, <2>1, <2>5 DEF InSlice
<1> QED
  BY <1>6, <1>7

\* The next peer of a loop: the least one, with nobody but n passed over.
LEMMA FirstIs ==
  ASSUME NEW n \in Nodes, NEW q \in Nat, q >= 1, PeersFrom(n, q) # {}
  PROVE  /\ First(n, q) \in Parties \ {n} /\ First(n, q) >= q
         /\ \A s \in Parties \ {n} : s >= q => First(n, q) <= s
<1>1. PeersFrom(n, q) \subseteq Nat
  BY PartyNumbers DEF PeersFrom
<1>2. \E r \in PeersFrom(n, q) : \A s \in PeersFrom(n, q) : r <= s
  <2> HIDE DEF PeersFrom
  <2> QED BY <1>1, LeastOf
<1>3. First(n, q) \in PeersFrom(n, q) /\ \A s \in PeersFrom(n, q) : First(n, q) <= s
  BY <1>2 DEF First
<1>4. \A s \in Parties \ {n} : s >= q => s \in PeersFrom(n, q)
  BY PartyNumbers DEF PeersFrom, Parties
<1>5. First(n, q) \in Parties \ {n} /\ First(n, q) >= q
  BY <1>3, PartyNumbers DEF PeersFrom, Parties
<1> QED
  BY <1>3, <1>4, <1>5

LEMMA FirstPeer ==
  ASSUME NEW n \in Nodes
  PROVE  First(n, 1) \in Parties \ {n} /\ \A s \in Parties \ {n} : First(n, 1) <= s
<1>1. PeersFrom(n, 1) # {}
  <2>1. 1 \in 1 .. NP /\ 2 \in 1 .. NP
    BY PartyNumbers
  <2> QED BY <2>1 DEF PeersFrom
<1>2. \A s \in Parties : s >= 1
  BY DEF Parties
<1> QED
  BY <1>1, <1>2, FirstIs

\* Which peers lie behind the next one, and behind the last one.
LEMMA NextPeer ==
  ASSUME NEW n \in Nodes, NEW q \in Parties \ {n}
  PROVE  /\ PeersFrom(n, q + 1) # {} =>
              /\ First(n, q + 1) \in Parties \ {n}
              /\ \A s \in Parties \ {n} : s < First(n, q + 1) <=> s <= q
         /\ PeersFrom(n, q + 1) = {} => \A s \in Parties \ {n} : s <= q
<1>1. q \in Nat /\ q >= 1 /\ \A s \in Parties : s \in Nat
  BY DEF Parties
<1>2. CASE PeersFrom(n, q + 1) # {}
  <2>1. /\ First(n, q + 1) \in Parties \ {n} /\ First(n, q + 1) >= q + 1
        /\ \A s \in Parties \ {n} : s >= q + 1 => First(n, q + 1) <= s
    BY <1>1, <1>2, FirstIs
  <2>2. ASSUME NEW s \in Parties \ {n} PROVE s < First(n, q + 1) <=> s <= q
    <3> DEFINE f == First(n, q + 1)
    <3>1. f \in Nat /\ f >= q + 1 /\ s \in Nat /\ (s >= q + 1 => f <= s)
      BY <1>1, <2>1
    <3> HIDE DEF f
    <3>2. s < f <=> s <= q
      BY <1>1, <3>1
    <3> QED BY <3>2 DEF f
  <2> QED BY <1>2, <2>1, <2>2
<1>3. CASE PeersFrom(n, q + 1) = {}
  <2>1. \A s \in Parties \ {n} : s <= q
    BY <1>1, <1>3, PartyNumbers DEF PeersFrom, Parties
  <2> QED BY <1>3, <2>1
<1> QED
  BY <1>2, <1>3

-----------------------------------------------------------------------------
(* What one party sends another, over the whole run.  w is the set of the  *)
(* wrong shares.                                                           *)

SumOf(w, x, S) == SetToBag({<<x, p, <<x, p>> \in w>> : p \in S})

Element == Nat \cup {SetToBag(S) : S \in SUBSET (Gates \X Parties \X BOOLEAN)}

\* m's shares of n's slice in round r, and the sums of m's own slice.
SliceMessage(w, m, n, r) ==
  [i \in 1 .. SliceLen(r, n) |-> SumOf(w, Packed[r][SliceFrom(r, n) + i], {m})]

SumsMessage(w, m, r) ==
  [i \in 1 .. SliceLen(r, m) |-> SumOf(w, Packed[r][SliceFrom(r, m) + i], Parties)]

\* The j-th message: one for each input, then two for each round.  It is
\* empty for another party's input.
Message(w, m, n, j) ==
  IF j <= Len(Inputs) THEN IF Inputs[j] = m THEN <<j>> ELSE <<>>
  ELSE LET r == (j - Len(Inputs) + 1) \div 2
       IN  IF j = Len(Inputs) + 2 * r THEN SumsMessage(w, m, r) ELSE SliceMessage(w, m, n, r)

AllMessages == Len(Inputs) + 2 * Len(Rounds)

\* The elements of the first j messages.
Stream(w, m, n, j) == Concat([k \in 1 .. j |-> Message(w, m, n, k)])

\* How many messages a party has sent to q and has taken from q, when it is
\* at label c of step s, with e for the peer of its loop.
Base(c, s) == IF c = "input" THEN s - 1 ELSE Len(Inputs) + 2 * (s - 1)

SentBy(p, c, e, s, q) ==
  Base(c, s) +
  (IF \/ c = "input" /\ Inputs[s] = p /\ e > q
      \/ c = "slices" /\ e > q
      \/ c \in {"gather", "sums", "collect"} THEN 1 ELSE 0) +
  (IF (c = "sums" /\ e > q) \/ c = "collect" THEN 1 ELSE 0)

GotBy(c, e, s, q) ==
  Base(c, s) +
  (IF (c = "gather" /\ e > q) \/ c \in {"sums", "collect"} THEN 1 ELSE 0) +
  (IF c = "collect" /\ e > q THEN 1 ELSE 0)

Sent(p, q) == SentBy(p, pc[p], peer[p], step[p], q)
Got(p, q)  == GotBy(pc[p], peer[p], step[p], q)

-----------------------------------------------------------------------------
(* The parts of the invariant.                                             *)

RoundPc == {"slices", "gather", "sums", "collect"}
AfterPc == {"key", "omega", "verdict", "masks", "done", "abort"}

\* The labels a party can be at in a step of the circuit.
InOrder(c, s) ==
  /\ c \in NodePc /\ s \in Nat
  /\ c = "input" => s \in 1 .. Len(Inputs)
  /\ c \in RoundPc => s \in 1 .. Len(Rounds)
  /\ c \in AfterPc => s = Len(Rounds) + 1

\* Where the nodes are.
Control ==
  /\ pc \in [Nodes -> NodePc]
  /\ peer \in [Nodes -> Parties]
  /\ \A n \in Nodes : peer[n] # n
  /\ step \in [Nodes -> Nat]
  /\ pc[0] \in AfterPc /\ step[0] = 1
  /\ \A p \in Parties : InOrder(pc[p], step[p])

Faults ==
  /\ broken \subseteq Fragile
  /\ threw \subseteq Nodes
  /\ \A t \in wrong : \E r \in 1 .. Len(Rounds), g \in Gates, p \in Parties :
                        t = <<g, p>> /\ g \in OpenedIn(r)

\* What a party has taken from the pipe and what is in it is what was sent.
Streams ==
  /\ pipe = [mn \in Nodes \X Nodes |-> pipe[mn]]
  /\ \A n \in Nodes : pipe[<<n, n>>] = <<>>
  /\ \A p, q \in Parties : p # q =>
       /\ pipe[<<p, q>>] \in Seq(Element)
       /\ Stream(wrong, p, q, Got(q, p)) \o pipe[<<p, q>>] = Stream(wrong, p, q, Sent(p, q))

\* The masked inputs p knows.
WireRight(p) ==
  wire[p] = [i \in 1 .. (IF pc[p] = "input" THEN step[p] - 1 ELSE Len(Inputs)) |-> i]

\* The parties whose shares p has added up.
Added(p) == IF pc[p] = "gather" THEN {p} \cup {q \in Parties \ {p} : q < peer[p]} ELSE Parties

AddingRight(p) ==
  pc[p] \in {"gather", "sums"} =>
    acc[p] = [i \in 1 .. SliceLen(step[p], p) |->
                SumOf(wrong, Packed[step[p]][SliceFrom(step[p], p) + i], Added(p))]

\* The slices p has all the sums of.
Summed(p) == {p} \cup {q \in Parties \ {p} : q < peer[p]}

CollectingRight(p) ==
  pc[p] = "collect" =>
    \A q \in Summed(p) : \A i \in InSlice(step[p], q) :
      agg[p][i] = SumOf(wrong, Packed[step[p]][i], Parties)

RoundsDone(p) == IF pc[p] = "input" THEN 0 ELSE step[p] - 1

OpenedUpTo(k) == UNION {OpenedIn(r) : r \in 1 .. k}

OpenedSoFar(p) ==
  opened[p] = [g \in OpenedUpTo(RoundsDone(p)) |-> SumOf(wrong, g, Parties)]

Local(p) == WireRight(p) /\ AddingRight(p) /\ CollectingRight(p) /\ OpenedSoFar(p)

Stores ==
  /\ wire = [p \in Parties |-> wire[p]]
  /\ acc = [p \in Parties |-> acc[p]]
  /\ agg = [p \in Parties |-> agg[p]]
  /\ opened = [p \in Parties |-> opened[p]]
  /\ \A p \in Parties : Local(p)

\* The dealer's messages to a party: how many it has sent, and p has taken.
FromTheDealer(b, k) == <<"cc_key", b, "output_masks">>[k]

Given(p) ==
  CASE pc[0] = "key"     -> IF peer[0] > p THEN 1 ELSE 0
    [] pc[0] = "omega"   -> 1
    [] pc[0] = "verdict" -> IF peer[0] > p THEN 2 ELSE 1
    [] pc[0] = "abort"   -> 2
    [] pc[0] = "masks"   -> IF peer[0] > p THEN 3 ELSE 2
    [] OTHER             -> 3

Taken(p) ==
  CASE pc[p] \in {"omega", "verdict"} -> 1
    [] pc[p] \in {"masks", "abort"}   -> 2
    [] pc[p] = "done"                 -> 3
    [] OTHER                          -> 0

\* The omegas on their way to the dealer and the ones it has.
Answered(p) == pc[p] \in {"verdict", "masks", "abort", "done"}

Asked(p) ==
  \/ pc[0] = "omega" /\ peer[0] > p
  \/ pc[0] \in {"verdict", "masks", "abort", "done"}

Dealing ==
  /\ \A p \in Parties :
       /\ Taken(p) <= Given(p)
       /\ pipe[<<0, p>>] = [k \in 1 .. (Given(p) - Taken(p)) |-> FromTheDealer(bad, Taken(p) + k)]
       /\ Asked(p) => Answered(p)
       /\ pipe[<<p, 0>>] = IF Answered(p) /\ ~Asked(p) THEN <<Omega(p)>> ELSE <<>>
       /\ pc[p] \in {"masks", "done"} => bad = {}
       /\ pc[p] = "abort" => bad # {}
  /\ bad = UNION {Omega(p) : p \in {p \in Parties : Asked(p)}}
  /\ pc[0] \in {"masks", "done"} => bad = {}
  /\ pc[0] = "abort" => bad # {}

RoundInv ==
  /\ Control /\ Faults /\ Streams /\ Stores /\ Dealing

-----------------------------------------------------------------------------
(* Field elements.                                                         *)

LEMMA SumType ==
  ASSUME NEW w, NEW x \in Gates, NEW S \in SUBSET Parties
  PROVE  SumOf(w, x, S) \in Element
<1> DEFINE B == {<<x, p, <<x, p>> \in w>> : p \in S}
<1>1. B \in SUBSET (Gates \X Parties \X BOOLEAN)
  <2>1. \A p \in S : (<<x, p>> \in w) \in BOOLEAN /\ p \in Parties
    OBVIOUS
  <2>2. \A p \in S : \A f \in BOOLEAN : <<x, p, f>> \in Gates \X Parties \X BOOLEAN
    OBVIOUS
  <2>3. \A p \in S : <<x, p, <<x, p>> \in w>> \in Gates \X Parties \X BOOLEAN
    BY <2>1, <2>2, Zenon
  <2> QED BY <2>3, Zenon
<1> HIDE DEF B
<1>2. SetToBag(B) \in Element
  BY <1>1 DEF Element
<1> QED
  BY <1>2 DEF SumOf, B

\* Adding up: no share is counted twice.
LEMMA SumPlus ==
  ASSUME NEW w, NEW x, NEW S, NEW T, S \cap T = {}
  PROVE  SumOf(w, x, S) (+) SumOf(w, x, T) = SumOf(w, x, S \cup T)
<1> DEFINE B(U) == {<<x, p, <<x, p>> \in w>> : p \in U}
<1>1. B(S) \cap B(T) = {} /\ B(S) \cup B(T) = B(S \cup T)
  <2> DEFINE t(p) == <<x, p, <<x, p>> \in w>>
  <2>1. \A p : t(p)[2] = p
    BY Zenon
  <2> HIDE DEF t
  <2>2. {t(p) : p \in S} \cap {t(p) : p \in T} = {}
    BY <2>1
  <2>3. {t(p) : p \in S} \cup {t(p) : p \in T} = {t(p) : p \in S \cup T}
    OBVIOUS
  <2> QED BY <2>2, <2>3, Zenon DEF t
<1> DEFINE b == B(S)
           c == B(T)
<1>2. SetToBag(b) = [e \in b |-> 1] /\ SetToBag(c) = [e \in c |-> 1]
  BY DEF SetToBag
<1>3. SetToBag(b \cup c) = [e \in b \cup c |-> 1]
  BY DEF SetToBag
<1>4. b \cap c = {}
  BY <1>1
<1> HIDE DEF b, c
<1>5. SetToBag(b) (+) SetToBag(c) = [e \in b \cup c |-> 1]
  <2>1. DOMAIN SetToBag(b) = b /\ DOMAIN SetToBag(c) = c
    BY <1>2
  <2>2. \A e \in b \cup c : (IF e \in b THEN SetToBag(b)[e] ELSE 0) + (IF e \in c THEN SetToBag(c)[e] ELSE 0) = 1
    BY <1>2, <1>4
  <2>3. SetToBag(b) (+) SetToBag(c) =
          [e \in b \cup c |-> (IF e \in b THEN SetToBag(b)[e] ELSE 0) + (IF e \in c THEN SetToBag(c)[e] ELSE 0)]
    BY <2>1, Zenon DEF (+)
  <2> QED BY <2>2, <2>3
<1>6. SetToBag(b) (+) SetToBag(c) = SetToBag(b \cup c)
  BY <1>3, <1>5
<1> QED
  BY <1>1, <1>6 DEF SumOf, b, c

LEMMA SharesAre ==
  ASSUME NEW p, NEW x
  PROVE  /\ Share(p, x) = SumOf(wrong, x, {p})
         /\ Opening(x) = SumOf(wrong, x, Parties)
         /\ True(x) = SumOf({}, x, Parties)
<1>1. {<<x, q, <<x, q>> \in wrong>> : q \in {p}} = {<<x, p, <<x, p>> \in wrong>>}
  OBVIOUS
<1>2. {<<x, q, <<x, q>> \in {}>> : q \in Parties} = {<<x, q, FALSE>> : q \in Parties}
  <2>1. \A q : (<<x, q>> \in {}) = FALSE
    OBVIOUS
  <2>2. \A q \in Parties : <<x, q, <<x, q>> \in {}>> = <<x, q, FALSE>>
    BY <2>1, Zenon
  <2> QED BY <2>2, Zenon
<1> QED
  BY <1>1, <1>2, Zenon DEF Share, Opening, True, SumOf

\* A sum depends on the shares that are in it.
LEMMA SumSame ==
  ASSUME NEW w, NEW v, NEW x, NEW S, \A p \in S : <<x, p>> \in w <=> <<x, p>> \in v
  PROVE  SumOf(w, x, S) = SumOf(v, x, S)
<1>1. \A p \in S : <<x, p, <<x, p>> \in w>> = <<x, p, <<x, p>> \in v>>
  <2> TAKE p \in S
  <2>1. (<<x, p>> \in w) = (<<x, p>> \in v)
    OBVIOUS
  <2> QED BY <2>1, Zenon
<1>2. {<<x, p, <<x, p>> \in w>> : p \in S} = {<<x, p, <<x, p>> \in v>> : p \in S}
  BY <1>1, Zenon
<1> QED
  BY <1>2, Zenon DEF SumOf

\* And a wrong one shows.
LEMMA WrongShows ==
  ASSUME NEW w, NEW x, NEW p \in Parties, <<x, p>> \in w
  PROVE  SumOf(w, x, Parties) # SumOf({}, x, Parties)
<1> DEFINE b == {<<x, q, <<x, q>> \in w>> : q \in Parties}
           c == {<<x, q, <<x, q>> \in {}>> : q \in Parties}
<1>1. <<x, p, TRUE>> \in b
  <2>1. <<x, p, TRUE>> = <<x, p, <<x, p>> \in w>>
    OBVIOUS
  <2> QED BY <2>1, Zenon
<1>2. <<x, p, TRUE>> \notin c
  OBVIOUS
<1> HIDE DEF b, c
<1>3. DOMAIN SetToBag(b) = b /\ DOMAIN SetToBag(c) = c
  BY DEF SetToBag
<1>4. SetToBag(b) # SetToBag(c)
  BY <1>1, <1>2, <1>3
<1> QED
  BY <1>4 DEF SumOf, b, c

-----------------------------------------------------------------------------
(* Messages and streams.                                                   *)

LEMMA Counts ==
  /\ Len(Inputs) \in Nat /\ Len(Rounds) \in Nat /\ Len(Rounds) >= 1 /\ AllMessages \in Nat
  /\ \A i \in 1 .. Len(Inputs) : Inputs[i] \in Parties
<1>1. Inputs \in Seq(Parties)
  BY RoundAssumption
<1> QED
  BY <1>1, LenProperties, ElementOfSeq, RoundsSeq DEF AllMessages

LEMMA InputMessage ==
  ASSUME NEW w, NEW m \in Parties, NEW n \in Parties, NEW j \in 1 .. Len(Inputs)
  PROVE  Message(w, m, n, j) = IF Inputs[j] = m THEN <<j>> ELSE <<>>
BY Counts DEF Message

LEMMA RoundMessages ==
  ASSUME NEW w, NEW m \in Parties, NEW n \in Parties, NEW r \in 1 .. Len(Rounds)
  PROVE  /\ Message(w, m, n, Len(Inputs) + 2 * (r - 1) + 1) = SliceMessage(w, m, n, r)
         /\ Message(w, m, n, Len(Inputs) + 2 * (r - 1) + 2) = SumsMessage(w, m, r)
<1>1. PICK i \in Nat : i = Len(Inputs)
  BY Counts
<1>2. r \in Nat /\ r >= 1
  BY Counts
<1> DEFINE odd == i + 2 * (r - 1) + 1
           even == i + 2 * (r - 1) + 2
<1>3. /\ ~(odd <= i) /\ (odd - i + 1) \div 2 = r /\ odd # i + 2 * r
      /\ ~(even <= i) /\ (even - i + 1) \div 2 = r /\ even = i + 2 * r
  BY <1>2
<1> HIDE DEF odd, even
<1>4. Message(w, m, n, odd) = SliceMessage(w, m, n, r)
  BY <1>1, <1>3 DEF Message
<1>5. Message(w, m, n, even) = SumsMessage(w, m, r)
  BY <1>1, <1>3 DEF Message
<1> QED
  BY <1>1, <1>4, <1>5 DEF odd, even

\* A message belongs to an input or is one of a round's two.
LEMMA WhichMessage ==
  ASSUME NEW j \in 1 .. AllMessages
  PROVE  \/ j \in 1 .. Len(Inputs)
         \/ \E r \in 1 .. Len(Rounds) : \/ j = Len(Inputs) + 2 * (r - 1) + 1
                                        \/ j = Len(Inputs) + 2 * (r - 1) + 2
<1>1. PICK i \in Nat : i = Len(Inputs)
  BY Counts
<1>2. PICK l \in Nat : l = Len(Rounds)
  BY Counts
<1>3. j \in 1 .. (i + 2 * l)
  BY <1>1, <1>2 DEF AllMessages
<1> SUFFICES ASSUME j > i PROVE \E r \in 1 .. l : j = i + 2 * (r - 1) + 1 \/ j = i + 2 * (r - 1) + 2
  BY <1>1, <1>2, <1>3
<1> DEFINE r == (j - i + 1) \div 2
<1>4. r \in 1 .. l /\ (j = i + 2 * (r - 1) + 1 \/ j = i + 2 * (r - 1) + 2)
  BY <1>3
<1> QED
  BY <1>4

LEMMA RoundMessageType ==
  ASSUME NEW w, NEW m \in Parties, NEW n \in Parties, NEW r \in 1 .. Len(Rounds)
  PROVE  /\ SliceMessage(w, m, n, r) \in Seq(Element) /\ Len(SliceMessage(w, m, n, r)) = SliceLen(r, n)
         /\ SumsMessage(w, m, r) \in Seq(Element) /\ Len(SumsMessage(w, m, r)) = SliceLen(r, m)
<1>1. ASSUME NEW q \in Parties, NEW S \in SUBSET Parties, NEW k \in 1 .. SliceLen(r, q)
      PROVE  SumOf(w, Packed[r][SliceFrom(r, q) + k], S) \in Element
  <2>1. SliceFrom(r, q) + k \in 1 .. Total(r)
    BY SliceInside
  <2>2. Packed[r][SliceFrom(r, q) + k] \in Gates
    BY <2>1, PackedRight, ElementOfSeq DEF Total
  <2> QED BY <2>2, SumType
<1>2. {m} \in SUBSET Parties
  OBVIOUS
<1>3. SliceMessage(w, m, n, r) \in [1 .. SliceLen(r, n) -> Element]
  BY <1>1, <1>2 DEF SliceMessage
<1>4. SumsMessage(w, m, r) \in [1 .. SliceLen(r, m) -> Element]
  BY <1>1 DEF SumsMessage
<1>5. SliceLen(r, n) \in Nat /\ SliceLen(r, m) \in Nat
  BY SliceType
<1>6. \A k \in Nat : \A s \in [1 .. k -> Element] : s \in Seq(Element) /\ Len(s) = k
  BY SeqDef, LenProperties
<1> QED
  BY <1>3, <1>4, <1>5, <1>6, Zenon

LEMMA MessageType ==
  ASSUME NEW w, NEW m \in Parties, NEW n \in Parties, NEW j \in 1 .. AllMessages
  PROVE  Message(w, m, n, j) \in Seq(Element) /\ Len(Message(w, m, n, j)) \in Nat
<1>1. Message(w, m, n, j) \in Seq(Element)
  <2>1. CASE j \in 1 .. Len(Inputs)
    <3>1. j \in Element
      BY <2>1 DEF Element
    <3>2. <<j>> \in Seq(Element) /\ <<>> \in Seq(Element)
      BY <3>1
    <3> QED BY <2>1, <3>2, InputMessage
  <2>2. CASE j \notin 1 .. Len(Inputs)
    <3>1. PICK r \in 1 .. Len(Rounds) : \/ j = Len(Inputs) + 2 * (r - 1) + 1
                                        \/ j = Len(Inputs) + 2 * (r - 1) + 2
      BY <2>2, WhichMessage
    <3> QED BY <3>1, RoundMessages, RoundMessageType
  <2> QED BY <2>1, <2>2
<1> QED
  BY <1>1, LenProperties

\* How long it is does not depend on what is wrong.
LEMMA MessageLength ==
  ASSUME NEW w, NEW v, NEW m \in Parties, NEW n \in Parties, NEW j \in 1 .. AllMessages
  PROVE  Len(Message(w, m, n, j)) = Len(Message(v, m, n, j))
<1>1. CASE j \in 1 .. Len(Inputs)
  BY <1>1, InputMessage
<1>2. CASE j \notin 1 .. Len(Inputs)
  <2>1. PICK r \in 1 .. Len(Rounds) : \/ j = Len(Inputs) + 2 * (r - 1) + 1
                                      \/ j = Len(Inputs) + 2 * (r - 1) + 2
    BY <1>2, WhichMessage
  <2> QED BY <2>1, RoundMessages, RoundMessageType
<1> QED
  BY <1>1, <1>2

LEMMA Joining ==
  /\ \A x, y \in Seq(Element) : x \o y \in Seq(Element)
  /\ \A x, y, z \in Seq(Element) : (x \o y) \o z = x \o (y \o z)
BY ConcatProperties, ConcatAssociative

LEMMA StreamType ==
  ASSUME NEW w, NEW m \in Parties, NEW n \in Parties, NEW j \in 0 .. AllMessages
  PROVE  Stream(w, m, n, j) \in Seq(Element) /\ Len(Stream(w, m, n, j)) \in Nat
<1> DEFINE s == [k \in 1 .. j |-> Message(w, m, n, k)]
           S == Seq(Element)
<1>1. j \in Nat /\ \A k \in 1 .. j : k \in 1 .. AllMessages
  BY Counts
<1>2. s \in [1 .. j -> S]
  BY <1>1, MessageType
<1> HIDE DEF s, S
<1>3. s \in Seq(S)
  BY <1>1, <1>2, SeqDef
<1>4. Concat(s) \in Seq(Element)
  BY <1>3, ConcatSeq DEF S
<1> QED
  BY <1>4, LenProperties DEF Stream, s

LEMMA StreamNext ==
  ASSUME NEW w, NEW m \in Parties, NEW n \in Parties, NEW j \in 0 .. AllMessages
  PROVE  Stream(w, m, n, j + 1) = Stream(w, m, n, j) \o Message(w, m, n, j + 1)
<1> DEFINE s == [k \in 1 .. j |-> Message(w, m, n, k)]
           t == [k \in 1 .. (j + 1) |-> Message(w, m, n, k)]
<1>1. j \in Nat
  BY Counts
<1>2. Len(s) = j /\ Len(t) = j + 1 /\ \A i \in 1 .. j : s[i] = t[i]
  BY <1>1
<1>3. t[j + 1] = Message(w, m, n, j + 1)
  BY <1>1
<1>4. Concat(t) = Concat(s) \o t[j + 1]
  <2> HIDE DEF s, t
  <2>1. Len(s) \in Nat /\ Len(t) = Len(s) + 1 /\ \A i \in 1 .. Len(s) : s[i] = t[i]
    BY <1>1, <1>2
  <2> QED BY <1>2, <2>1, ConcatMore
<1> QED
  BY <1>3, <1>4 DEF Stream

\* A longer stream goes on where a shorter one ends.
LEMMA StreamPrefix ==
  ASSUME NEW w, NEW m \in Parties, NEW n \in Parties,
         NEW j \in 0 .. AllMessages, NEW k \in j .. AllMessages
  PROVE  \E t \in Seq(Element) : Stream(w, m, n, k) = Stream(w, m, n, j) \o t
<1> DEFINE St(i) == Stream(w, m, n, i)
           T == {d \in Nat : j + d <= AllMessages => \E t \in Seq(Element) : St(j + d) = St(j) \o t}
<1>0. j \in Nat /\ AllMessages \in Nat /\ k \in Nat
  BY Counts
<1>1. 0 \in T
  <2>1. St(j) \o <<>> = St(j) /\ <<>> \in Seq(Element) /\ j + 0 = j
    BY <1>0, StreamType, ConcatEmptySeq
  <2> HIDE DEF St
  <2> QED BY <2>1
<1>2. ASSUME NEW d \in Nat, d \in T PROVE d + 1 \in T
  <2> SUFFICES ASSUME j + (d + 1) <= AllMessages
               PROVE  \E t \in Seq(Element) : St(j + (d + 1)) = St(j) \o t
    OBVIOUS
  <2> DEFINE i == j + d
  <2>1. i \in 0 .. AllMessages /\ i + 1 \in 1 .. AllMessages /\ i + 1 = j + (d + 1) /\ i <= AllMessages
    BY <1>0
  <2>2. PICK t \in Seq(Element) : St(i) = St(j) \o t
    BY <1>2, <2>1
  <2> HIDE DEF i
  <2>3. St(i + 1) = St(i) \o Message(w, m, n, i + 1)
    BY <2>1, StreamNext
  <2>4. Message(w, m, n, i + 1) \in Seq(Element) /\ St(j) \in Seq(Element)
    BY <2>1, MessageType, StreamType
  <2> HIDE DEF St
  <2>5. St(i + 1) = St(j) \o (t \o Message(w, m, n, i + 1))
    <3> DEFINE a == St(j)
               e == Message(w, m, n, i + 1)
    <3>1. St(i + 1) = (a \o t) \o e /\ a \in Seq(Element) /\ e \in Seq(Element)
      BY <2>2, <2>3, <2>4, Zenon
    <3> HIDE DEF a, e
    <3>2. (a \o t) \o e = a \o (t \o e)
      BY <3>1, Joining
    <3> QED BY <3>1, <3>2, Zenon DEF a, e
  <2>6. t \o Message(w, m, n, i + 1) \in Seq(Element)
    BY <2>4, ConcatProperties
  <2> QED BY <2>1, <2>5, <2>6
<1>3. Nat \subseteq T
  <2> HIDE DEF T
  <2> QED BY <1>1, <1>2, SetInduction
<1>4. k - j \in T /\ j + (k - j) = k
  <2>1. k - j \in Nat
    BY <1>0
  <2> HIDE DEF T
  <2> QED BY <1>0, <1>3, <2>1
<1> QED
  BY <1>0, <1>4

\* What is sent comes after what was.
LEMMA SendNext ==
  ASSUME NEW w, NEW m \in Parties, NEW n \in Parties,
         NEW g \in 0 .. AllMessages, NEW s \in 0 .. AllMessages, s + 1 <= AllMessages,
         NEW queue \in Seq(Element), Stream(w, m, n, g) \o queue = Stream(w, m, n, s)
  PROVE  /\ queue \o Message(w, m, n, s + 1) \in Seq(Element)
         /\ Stream(w, m, n, g) \o (queue \o Message(w, m, n, s + 1)) = Stream(w, m, n, s + 1)
<1>1. s + 1 \in 1 .. AllMessages
  BY Counts
<1>2. Message(w, m, n, s + 1) \in Seq(Element) /\ Stream(w, m, n, g) \in Seq(Element)
  BY <1>1, MessageType, StreamType
<1>3. Stream(w, m, n, s + 1) = Stream(w, m, n, s) \o Message(w, m, n, s + 1)
  BY StreamNext
<1> DEFINE a == Stream(w, m, n, g)
           e == Message(w, m, n, s + 1)
<1>4. a \o queue = Stream(w, m, n, s)
  OBVIOUS
<1> HIDE DEF a, e
<1>5. queue \o e \in Seq(Element) /\ (a \o queue) \o e = a \o (queue \o e)
  BY <1>2, Joining DEF a, e
<1>6. a \o (queue \o e) = Stream(w, m, n, s) \o e
  BY <1>4, <1>5
<1> QED
  BY <1>3, <1>5, <1>6, Zenon DEF a, e

\* What a receipt of len elements takes from a pipe, and what it leaves.
Front(queue, len) == SubSeq(queue, 1, len)
Rest(queue, len)  == SubSeq(queue, len + 1, Len(queue))

\* The message after the g-th has len elements, and they are there.
Readable(w, m, n, g, queue, len) ==
  len = Len(Message(w, m, n, g + 1)) /\ Len(queue) >= len

ReadRight(w, m, n, g, s, queue, len) ==
  /\ Front(queue, len) = Message(w, m, n, g + 1)
  /\ Rest(queue, len) \in Seq(Element)
  /\ Stream(w, m, n, g + 1) \o Rest(queue, len) = Stream(w, m, n, s)
  /\ len > 0 => g + 1 <= s

\* What is received is the next message, if there is as much in the pipe.
LEMMA ReceiveNext ==
  ASSUME NEW w, NEW m \in Parties, NEW n \in Parties,
         NEW g \in 0 .. AllMessages, NEW s \in 0 .. AllMessages, g + 1 <= AllMessages,
         NEW queue \in Seq(Element), Stream(w, m, n, g) \o queue = Stream(w, m, n, s),
         NEW len \in Nat, Readable(w, m, n, g, queue, len)
  PROVE  ReadRight(w, m, n, g, s, queue, len)
<1> DEFINE a == Stream(w, m, n, g)
           b == Stream(w, m, n, s)
           e == Message(w, m, n, g + 1)
           rest == SubSeq(queue, len + 1, Len(queue))
<1>0. len = Len(Message(w, m, n, g + 1)) /\ Len(queue) >= len
  BY DEF Readable
<1>1. g + 1 \in 1 .. AllMessages /\ g \in Nat /\ s \in Nat /\ g + 1 \in 0 .. AllMessages
  BY Counts
<1>2. /\ a \in Seq(Element) /\ b \in Seq(Element) /\ e \in Seq(Element)
      /\ len = Len(e) /\ len \in Nat /\ Len(queue) \in Nat /\ Len(queue) >= len
  BY <1>0, <1>1, MessageType, StreamType, LenProperties
<1>3. Stream(w, m, n, g + 1) = a \o e
  BY StreamNext
<1>4. rest \in Seq(Element)
  <2>1. \A i \in (len + 1) .. Len(queue) : queue[i] \in Element
    BY <1>2, ElementOfSeq
  <2> QED BY <1>2, <2>1, SubSeqProperties
<1>5. /\ SubSeq(queue, 1, len) = e
      /\ e \o rest = queue
      /\ len > 0 => g + 1 <= s
  <2>1. CASE g + 1 <= s
    <3>1. PICK t \in Seq(Element) : b = (a \o e) \o t
      <4>1. s \in (g + 1) .. AllMessages
        BY <1>1, <2>1
      <4>2. PICK t \in Seq(Element) : b = Stream(w, m, n, g + 1) \o t
        BY <1>1, <4>1, StreamPrefix
      <4> QED BY <1>3, <4>2, Zenon
    <3> HIDE DEF a, b, e
    <3>0. a \o queue = b
      BY DEF a, b
    <3>2. a \o queue = a \o (e \o t) /\ e \o t \in Seq(Element)
      BY <1>2, <3>0, <3>1, Joining, Zenon
    <3>3. queue = e \o t
      BY <1>2, <3>2, ConcatSimplifications
    <3>4. len = Len(e)
      BY <1>2
    <3>5. Len(e \o t) = Len(e) + Len(t) /\ Len(t) \in Nat
      BY <1>2, ConcatProperties, LenProperties
    <3>6. \A i \in 1 .. (Len(e) + Len(t)) : (e \o t)[i] = IF i <= Len(e) THEN e[i] ELSE t[i - Len(e)]
      BY <1>2, ConcatProperties
    <3>7. SubSeq(queue, 1, len) = e
      <4>1. /\ SubSeq(queue, 1, len) \in Seq(Element) /\ Len(SubSeq(queue, 1, len)) = len
            /\ \A i \in 1 .. len : SubSeq(queue, 1, len)[i] = queue[i]
        <5>1. \A i \in 1 .. len : queue[i] \in Element
          BY <1>2, ElementOfSeq
        <5> QED BY <1>2, <5>1, SubSeqProperties
      <4>2. \A i \in 1 .. len : queue[i] = e[i]
        BY <1>2, <3>3, <3>4, <3>5, <3>6
      <4> QED BY <1>2, <3>4, <4>1, <4>2, SeqEqual
    <3>8. rest = t
      <4>1. /\ Len(rest) = Len(t)
            /\ \A i \in 1 .. Len(t) : rest[i] = queue[len + i]
        <5>1. \A i \in (len + 1) .. Len(queue) : queue[i] \in Element
          BY <1>2, ElementOfSeq
        <5>2. /\ Len(rest) = IF len + 1 <= Len(queue) THEN Len(queue) - (len + 1) + 1 ELSE 0
              /\ \A i \in 1 .. (Len(queue) - (len + 1) + 1) : rest[i] = queue[(len + 1) + i - 1]
          BY <1>2, <5>1, SubSeqProperties
        <5> HIDE DEF rest
        <5>3. Len(queue) = len + Len(t) /\ len \in Nat /\ Len(t) \in Nat
          BY <1>2, <3>3, <3>4, <3>5
        <5>4. Len(queue) - (len + 1) + 1 = Len(t)
          BY <5>3
        <5>5. Len(rest) = Len(t)
          BY <5>2, <5>3
        <5>6. \A i \in 1 .. Len(t) : (len + 1) + i - 1 = len + i
          BY <5>3
        <5> QED BY <5>2, <5>4, <5>5, <5>6
      <4>2. \A i \in 1 .. Len(t) : queue[len + i] = t[i]
        BY <1>2, <3>3, <3>4, <3>5, <3>6
      <4> HIDE DEF rest
      <4> QED BY <1>4, <4>1, <4>2, SeqEqual
    <3> QED BY <2>1, <3>3, <3>7, <3>8
  <2>2. CASE ~(g + 1 <= s)
    <3>1. PICK t \in Seq(Element) : a = b \o t
      <4>1. g \in s .. AllMessages
        BY <1>1, <2>2
      <4> QED BY <4>1, StreamPrefix
    <3> HIDE DEF a, b, e
    <3>0. a \o queue = b
      BY DEF a, b
    <3>2. b \o (t \o queue) = b /\ t \o queue \in Seq(Element)
      <4>1. (b \o t) \o queue = b \o (t \o queue) /\ t \o queue \in Seq(Element)
        BY <1>2, Joining
      <4> QED BY <3>0, <3>1, <4>1, Zenon
    <3>3. t \o queue = <<>>
      BY <1>2, <3>2, ConcatSimplifications
    <3>4. queue = <<>>
      BY <3>3, ConcatSimplifications
    <3>5. len = 0 /\ Len(queue) = 0
      BY <1>2, <3>4
    <3>6. e = <<>>
      BY <1>2, <3>5, EmptySeq DEF e
    <3>7. SubSeq(queue, 1, len) = <<>> /\ rest = <<>>
      BY <1>2, <3>5, SubSeqEmpty
    <3> QED BY <3>4, <3>5, <3>6, <3>7, ConcatEmptySeq
  <2> QED BY <2>1, <2>2
<1>6. (a \o e) \o rest = b
  <2>1. a \o queue = b
    OBVIOUS
  <2> HIDE DEF a, b, e, rest
  <2>2. (a \o e) \o rest = a \o (e \o rest)
    BY <1>2, <1>4, Joining
  <2> QED BY <1>5, <2>1, <2>2, Zenon
<1>7. Front(queue, len) = SubSeq(queue, 1, len) /\ Rest(queue, len) = rest
  BY DEF Front, Rest
<1> QED
  BY <1>3, <1>4, <1>5, <1>6, <1>7 DEF ReadRight

\* Only messages that are empty can have been taken before they were sent.
LEMMA NotBeforeSent ==
  ASSUME NEW w, NEW m \in Parties, NEW n \in Parties,
         NEW g \in 0 .. AllMessages, NEW s \in 0 .. AllMessages,
         NEW queue \in Seq(Element), Stream(w, m, n, g) \o queue = Stream(w, m, n, s),
         NEW j \in (s + 1) .. g
  PROVE  Message(w, m, n, j) = <<>>
<1> DEFINE St(i) == Stream(w, m, n, i)
           e == Message(w, m, n, j)
<1>1. /\ g \in Nat /\ s \in Nat /\ j \in 1 .. AllMessages /\ j - 1 \in 0 .. AllMessages
      /\ j - 1 \in s .. AllMessages /\ g \in j .. AllMessages /\ j \in 0 .. AllMessages
      /\ (j - 1) + 1 = j
  BY Counts
<1>2. PICK t \in Seq(Element) : St(j - 1) = St(s) \o t
  BY <1>1, StreamPrefix
<1>3. PICK u \in Seq(Element) : St(g) = St(j) \o u
  BY <1>1, StreamPrefix
<1>4. St(j) = St(j - 1) \o e
  BY <1>1, StreamNext
<1>5. e \in Seq(Element) /\ St(s) \in Seq(Element) /\ St(g) \in Seq(Element)
  BY <1>1, MessageType, StreamType
<1>6. St(g) \o queue = St(s)
  OBVIOUS
<1> HIDE DEF St, e
<1>7. St(s) = (((St(s) \o t) \o e) \o u) \o queue
  BY <1>2, <1>3, <1>4, <1>6
<1> DEFINE a == St(s) \o t
           b == a \o e
           c == b \o u
<1>8. /\ a \in Seq(Element) /\ Len(a) = Len(St(s)) + Len(t)
  BY <1>5, ConcatProperties
<1> HIDE DEF a
<1>9. b \in Seq(Element) /\ Len(b) = Len(a) + Len(e)
  BY <1>5, <1>8, ConcatProperties
<1> HIDE DEF b
<1>10. c \in Seq(Element) /\ Len(c) = Len(b) + Len(u)
  BY <1>9, ConcatProperties
<1> HIDE DEF c
<1>11. Len(c \o queue) = Len(c) + Len(queue)
  BY <1>10, ConcatProperties
<1>12. c \o queue = St(s)
  BY <1>7 DEF a, b, c
<1>13. Len(St(s)) \in Nat /\ Len(t) \in Nat /\ Len(e) \in Nat /\ Len(u) \in Nat /\ Len(queue) \in Nat
  BY <1>5, LenProperties
<1>14. Len(e) = 0
  BY <1>8, <1>9, <1>10, <1>11, <1>12, <1>13
<1> QED
  BY <1>5, <1>14, EmptySeq DEF e

-----------------------------------------------------------------------------
(* How a step moves the node that takes it.                                *)

\* The other nodes stay where they are.
Others(n) ==
  \A m \in Nodes \ {n} : pc'[m] = pc[m] /\ peer'[m] = peer[m] /\ step'[m] = step[m]

\* The node's loop goes on to the next peer, or is over and it is at c.
LoopStep(n, c) ==
  \/ /\ ~Last(n) /\ pc'[n] = pc[n]
     /\ \A s \in Parties \ {n} : peer'[n] > s <=> peer[n] >= s
  \/ /\ Last(n) /\ pc'[n] = c
     /\ \A s \in Parties \ {n} : peer[n] >= s /\ ~(peer'[n] > s)

PcTypes ==
  /\ pc' \in [Nodes -> NodePc]
  /\ peer' \in [Nodes -> Parties]
  /\ \A n \in Nodes : peer'[n] # n

LEMMA NodeNumbers ==
  /\ Nodes = Parties \cup {0} /\ 0 \notin Parties
  /\ \A p \in Parties : p \in Nat
BY PartyNumbers DEF Nodes, Parties

LEMMA LoopIs ==
  ASSUME Control, NEW n \in Nodes, NEW c \in NodePc, Loop(n, c)
  PROVE  /\ PcTypes /\ LoopStep(n, c)
         /\ \A m \in Nodes \ {n} : pc'[m] = pc[m] /\ peer'[m] = peer[m]
<1>0. /\ pc \in [Nodes -> NodePc] /\ peer \in [Nodes -> Parties] /\ peer[n] \in Parties \ {n}
      /\ \A m \in Nodes : peer[m] # m
  BY DEF Control
<1>1. CASE PeersFrom(n, peer[n] + 1) # {}
  <2> DEFINE f == First(n, peer[n] + 1)
  <2>1. peer' = [peer EXCEPT ![n] = f] /\ pc' = pc
    BY <1>1 DEF Loop
  <2>2. f \in Parties \ {n} /\ \A s \in Parties \ {n} : s < f <=> s <= peer[n]
    BY <1>0, <1>1, NextPeer
  <2> HIDE DEF f
  <2>3. PcTypes
    BY <1>0, <2>1, <2>2 DEF PcTypes
  <2>4. \A s \in Parties \ {n} : peer'[n] > s <=> peer[n] >= s
    <3>1. f \in Nat /\ peer[n] \in Nat /\ \A s \in Parties : s \in Nat
      BY <1>0, <2>2, NodeNumbers
    <3> QED BY <1>0, <2>1, <2>2, <3>1
  <2> QED BY <1>0, <1>1, <2>1, <2>3, <2>4 DEF LoopStep, Last
<1>2. CASE PeersFrom(n, peer[n] + 1) = {}
  <2> DEFINE f == First(n, 1)
  <2>1. peer' = [peer EXCEPT ![n] = f] /\ pc' = [pc EXCEPT ![n] = c]
    BY <1>2 DEF Loop
  <2>2. f \in Parties \ {n} /\ \A s \in Parties \ {n} : f <= s
    BY FirstPeer
  <2>3. \A s \in Parties \ {n} : s <= peer[n]
    BY <1>0, <1>2, NextPeer
  <2> HIDE DEF f
  <2>4. PcTypes
    BY <1>0, <2>1, <2>2 DEF PcTypes
  <2>5. \A s \in Parties \ {n} : peer[n] >= s /\ ~(peer'[n] > s)
    <3>1. f \in Nat /\ peer[n] \in Nat /\ \A s \in Parties : s \in Nat
      BY <1>0, <2>2, NodeNumbers
    <3> QED BY <1>0, <2>1, <2>2, <2>3, <3>1
  <2> QED BY <1>0, <1>2, <2>1, <2>4, <2>5 DEF LoopStep, Last
<1> QED
  BY <1>1, <1>2

LEMMA GotoIs ==
  ASSUME Control, NEW n \in Nodes, NEW c \in NodePc, Goto(n, c)
  PROVE  /\ PcTypes /\ pc'[n] = c
         /\ \A s \in Parties \ {n} : ~(peer'[n] > s)
         /\ \A m \in Nodes \ {n} : pc'[m] = pc[m] /\ peer'[m] = peer[m]
<1> DEFINE f == First(n, 1)
<1>0. /\ pc \in [Nodes -> NodePc] /\ peer \in [Nodes -> Parties] /\ \A m \in Nodes : peer[m] # m
  BY DEF Control
<1>1. peer' = [peer EXCEPT ![n] = f] /\ pc' = [pc EXCEPT ![n] = c]
  BY DEF Goto
<1>2. f \in Parties \ {n} /\ \A s \in Parties \ {n} : f <= s
  BY FirstPeer
<1> HIDE DEF f
<1>3. f \in Nat /\ \A s \in Parties : s \in Nat
  BY <1>2, NodeNumbers
<1>4. \A s \in Parties \ {n} : ~(f > s)
  BY <1>2, <1>3
<1> QED
  BY <1>0, <1>1, <1>2, <1>4 DEF PcTypes

\* All peers come after the first.
LEMMA AtLast ==
  ASSUME Control, NEW n \in Nodes, Last(n)
  PROVE  \A s \in Parties \ {n} : peer[n] >= s
<1>1. peer[n] \in Parties \ {n} /\ PeersFrom(n, peer[n] + 1) = {}
  BY DEF Control, Last
<1>2. \A s \in Parties \ {n} : s <= peer[n]
  BY <1>1, NextPeer
<1> QED
  BY <1>1, <1>2, NodeNumbers

\* The pipes.
Grows(m, n, els) ==
  /\ pipe' = [mn \in Nodes \X Nodes |-> pipe'[mn]]
  /\ pipe'[<<m, n>>] = pipe[<<m, n>>] \o els
  /\ \A a, b \in Nodes : a # m \/ b # n => pipe'[<<a, b>>] = pipe[<<a, b>>]

Shrinks(m, n, len) ==
  /\ pipe' = [mn \in Nodes \X Nodes |-> pipe'[mn]]
  /\ Len(pipe[<<m, n>>]) >= len
  /\ pipe'[<<m, n>>] = Rest(pipe[<<m, n>>], len)
  /\ \A a, b \in Nodes : a # m \/ b # n => pipe'[<<a, b>>] = pipe[<<a, b>>]

LEMMA SendIs ==
  ASSUME Streams, NEW m \in Nodes, NEW n \in Nodes, NEW els, Send(m, n, els)
  PROVE  Grows(m, n, els)
<1> DEFINE e == pipe[<<m, n>>] \o els
<1>1. pipe = [mn \in Nodes \X Nodes |-> pipe[mn]] /\ pipe' = [pipe EXCEPT ![<<m, n>>] = e]
  BY DEF Streams, Send
<1> HIDE DEF e
<1>2. <<m, n>> \in Nodes \X Nodes /\ \A a, b \in Nodes : <<a, b>> \in Nodes \X Nodes
  OBVIOUS
<1>3. \A a, b \in Nodes : a # m \/ b # n => <<a, b>> # <<m, n>>
  OBVIOUS
<1> QED
  BY <1>1, <1>2, <1>3 DEF e, Grows

LEMMA RecvIs ==
  ASSUME Streams, NEW m \in Nodes, NEW n \in Nodes, NEW len, Recv(n, m, len)
  PROVE  Shrinks(m, n, len)
<1> DEFINE e == Rest(pipe[<<m, n>>], len)
<1>1. /\ pipe = [mn \in Nodes \X Nodes |-> pipe[mn]] /\ pipe' = [pipe EXCEPT ![<<m, n>>] = e]
      /\ Len(pipe[<<m, n>>]) >= len
  BY DEF Streams, Recv, Rest
<1> HIDE DEF e
<1>2. <<m, n>> \in Nodes \X Nodes /\ \A a, b \in Nodes : <<a, b>> \in Nodes \X Nodes
  OBVIOUS
<1>3. \A a, b \in Nodes : a # m \/ b # n => <<a, b>> # <<m, n>>
  OBVIOUS
<1> QED
  BY <1>1, <1>2, <1>3 DEF e, Shrinks

LEMMA CountTypes ==
  ASSUME NEW c, NEW s, InOrder(c, s), NEW p \in Parties, NEW q \in Parties, NEW e \in Parties
  PROVE  SentBy(p, c, e, s, q) \in 0 .. AllMessages /\ GotBy(c, e, s, q) \in 0 .. AllMessages
<1>1. PICK i \in Nat : i = Len(Inputs)
  BY Counts
<1>2. PICK l \in Nat : l = Len(Rounds)
  BY Counts
<1>3. c \in {"input"} \cup RoundPc \cup AfterPc /\ s \in Nat
  BY DEF InOrder, NodePc, RoundPc, AfterPc
<1>4. CASE c = "input"
  BY <1>1, <1>2, <1>4 DEF InOrder, SentBy, GotBy, Base, AllMessages
<1>5. CASE c \in RoundPc
  <2>1. s \in 1 .. l /\ c # "input"
    BY <1>2, <1>5 DEF InOrder, RoundPc
  <2> QED BY <1>1, <1>2, <2>1 DEF SentBy, GotBy, Base, AllMessages
<1>6. CASE c \in AfterPc
  <2>1. s = l + 1 /\ c \notin RoundPc /\ c # "input"
    BY <1>2, <1>6 DEF InOrder, RoundPc, AfterPc
  <2> QED BY <1>1, <1>2, <2>1 DEF SentBy, GotBy, Base, AllMessages, RoundPc
<1> QED
  BY <1>3, <1>4, <1>5, <1>6

LEMMA CountsAre ==
  ASSUME NEW p \in Parties, NEW q \in Parties
  PROVE  /\ Control => Sent(p, q) \in 0 .. AllMessages /\ Got(p, q) \in 0 .. AllMessages
         /\ Control' => Sent(p, q)' \in 0 .. AllMessages /\ Got(p, q)' \in 0 .. AllMessages
<1>1. Control => InOrder(pc[p], step[p]) /\ peer[p] \in Parties
  BY NodeNumbers DEF Control
<1>2. Control' => InOrder(pc'[p], step'[p]) /\ peer'[p] \in Parties
  BY NodeNumbers DEF Control
<1> QED
  BY <1>1, <1>2, CountTypes DEF Sent, Got

\* What a step does to the streams from p to q, and from q to p: a message
\* is sent, or received, or it is an empty one and there is nothing to do.
SendsTo(p, q) ==
  \/ Sent(p, q)' = Sent(p, q) /\ pipe'[<<p, q>>] = pipe[<<p, q>>]
  \/ /\ Sent(p, q)' = Sent(p, q) + 1
     /\ pipe'[<<p, q>>] = pipe[<<p, q>>] \o Message(wrong, p, q, Sent(p, q) + 1)
  \/ /\ Sent(p, q)' = Sent(p, q) + 1
     /\ pipe'[<<p, q>>] = pipe[<<p, q>>] /\ Message(wrong, p, q, Sent(p, q) + 1) = <<>>

Takes(p, q, len) ==
  /\ Got(p, q)' = Got(p, q) + 1
  /\ Readable(wrong, q, p, Got(p, q), pipe[<<q, p>>], len)
  /\ pipe'[<<q, p>>] = Rest(pipe[<<q, p>>], len)

TakesFrom(p, q) ==
  \/ Got(p, q)' = Got(p, q) /\ pipe'[<<q, p>>] = pipe[<<q, p>>]
  \/ \E len \in Nat : Takes(p, q, len)
  \/ /\ Got(p, q)' = Got(p, q) + 1
     /\ pipe'[<<q, p>>] = pipe[<<q, p>>] /\ Message(wrong, q, p, Got(p, q) + 1) = <<>>

LEMMA SendsStep ==
  ASSUME Control, Control', Streams, NEW p \in Parties, NEW q \in Parties, p # q,
         wrong' = wrong, Got(q, p)' = Got(q, p), SendsTo(p, q)
  PROVE  /\ pipe'[<<p, q>>] \in Seq(Element)
         /\ Stream(wrong, p, q, Got(q, p)') \o pipe'[<<p, q>>] = Stream(wrong, p, q, Sent(p, q)')
<1> DEFINE queue == pipe[<<p, q>>]
           g == Got(q, p)
           s == Sent(p, q)
<1>1. g \in 0 .. AllMessages /\ s \in 0 .. AllMessages /\ s \in Nat
  BY CountsAre, Counts
<1>2. s' \in 0 .. AllMessages
  BY CountsAre
<1>3. queue \in Seq(Element) /\ Stream(wrong, p, q, g) \o queue = Stream(wrong, p, q, s)
  BY DEF Streams
<1>4. CASE s' = s /\ pipe'[<<p, q>>] = queue
  BY <1>3, <1>4
<1>5. CASE s' = s + 1
  <2>1. s + 1 <= AllMessages
    BY <1>2, <1>5, Counts
  <2> DEFINE e == Message(wrong, p, q, s + 1)
  <2>2. /\ queue \o e \in Seq(Element)
        /\ Stream(wrong, p, q, g) \o (queue \o e) = Stream(wrong, p, q, s + 1)
    <3> HIDE DEF queue, g, s
    <3> QED BY <1>1, <1>3, <2>1, SendNext
  <2>3. CASE pipe'[<<p, q>>] = queue \o e
    BY <1>5, <2>2, <2>3
  <2>4. CASE pipe'[<<p, q>>] = queue /\ e = <<>>
    <3>1. queue \o e = queue
      BY <1>3, <2>4, ConcatEmptySeq
    <3> QED BY <1>5, <2>2, <2>4, <3>1
  <2>5. s + 1 # s
    BY <1>1
  <2> QED BY <1>5, <2>3, <2>4, <2>5 DEF SendsTo
<1> QED
  BY <1>4, <1>5 DEF SendsTo

LEMMA TakesStep ==
  ASSUME Control, Control', Streams, NEW p \in Parties, NEW q \in Parties, p # q,
         wrong' = wrong, Sent(q, p)' = Sent(q, p), TakesFrom(p, q)
  PROVE  /\ pipe'[<<q, p>>] \in Seq(Element)
         /\ Stream(wrong, q, p, Got(p, q)') \o pipe'[<<q, p>>] = Stream(wrong, q, p, Sent(q, p)')
<1> DEFINE queue == pipe[<<q, p>>]
           g == Got(p, q)
           s == Sent(q, p)
<1>1. g \in 0 .. AllMessages /\ s \in 0 .. AllMessages /\ g \in Nat
  BY CountsAre, Counts
<1>2. g' \in 0 .. AllMessages
  BY CountsAre
<1>3. queue \in Seq(Element) /\ Stream(wrong, q, p, g) \o queue = Stream(wrong, q, p, s)
  BY DEF Streams
<1>4. CASE g' = g /\ pipe'[<<q, p>>] = queue
  BY <1>3, <1>4
<1>5. CASE \E len \in Nat : Takes(p, q, len)
  <2>1. PICK len \in Nat : Takes(p, q, len)
    BY <1>5
  <2>2. /\ g' = g + 1 /\ Readable(wrong, q, p, g, queue, len)
        /\ pipe'[<<q, p>>] = Rest(queue, len)
    BY <2>1 DEF Takes
  <2>3. g + 1 <= AllMessages
    BY <1>2, <2>2, Counts
  <2>4. /\ Rest(queue, len) \in Seq(Element)
        /\ Stream(wrong, q, p, g + 1) \o Rest(queue, len) = Stream(wrong, q, p, s)
    <3> HIDE DEF queue, g, s
    <3>1. /\ g \in 0 .. AllMessages /\ s \in 0 .. AllMessages
          /\ queue \in Seq(Element) /\ Stream(wrong, q, p, g) \o queue = Stream(wrong, q, p, s)
      BY <1>1, <1>3
    <3>2. Readable(wrong, q, p, g, queue, len)
      BY <2>2
    <3>3. ReadRight(wrong, q, p, g, s, queue, len)
      BY <3>1, <3>2, <2>3, ReceiveNext
    <3> QED BY <3>3 DEF ReadRight
  <2> QED BY <2>2, <2>4
<1>6. CASE /\ g' = g + 1
           /\ pipe'[<<q, p>>] = queue /\ Message(wrong, q, p, g + 1) = <<>>
  <2>1. g + 1 <= AllMessages
    BY <1>2, <1>6, Counts
  <2>2. Stream(wrong, q, p, g + 1) = Stream(wrong, q, p, g) \o Message(wrong, q, p, g + 1)
    <3> HIDE DEF g
    <3> QED BY <1>1, StreamNext
  <2>3. Stream(wrong, q, p, g) \in Seq(Element)
    <3> HIDE DEF g
    <3> QED BY <1>1, StreamType
  <2>4. Stream(wrong, q, p, g + 1) = Stream(wrong, q, p, g)
    BY <1>6, <2>2, <2>3, ConcatEmptySeq
  <2> QED BY <1>3, <1>6, <2>4
<1> QED
  BY <1>4, <1>5, <1>6 DEF TakesFrom

\* A node's step keeps the streams in order if it does so with its own.
LEMMA StreamsStep ==
  ASSUME Control, Control', Streams, wrong' = wrong, NEW n \in Nodes, Others(n),
         pipe' = [mn \in Nodes \X Nodes |-> pipe'[mn]],
         \A a, b \in Nodes : (a = b \/ (a # n /\ b # n)) => pipe'[<<a, b>>] = pipe[<<a, b>>],
         n \in Parties => \A q \in Parties \ {n} : SendsTo(n, q) /\ TakesFrom(n, q)
  PROVE  Streams'
<1>1. \A m \in Nodes : pipe'[<<m, m>>] = <<>>
  BY DEF Streams
<1>2. ASSUME NEW p \in Parties, NEW q \in Parties, p # q
      PROVE  /\ pipe'[<<p, q>>] \in Seq(Element)
             /\ Stream(wrong, p, q, Got(q, p)') \o pipe'[<<p, q>>] = Stream(wrong, p, q, Sent(p, q)')
  <2>1. p \in Nodes /\ q \in Nodes
    BY NodeNumbers
  <2>2. p # n => Sent(p, q)' = Sent(p, q) /\ Got(p, q)' = Got(p, q)
    BY <2>1 DEF Others, Sent, Got
  <2>3. q # n => Sent(q, p)' = Sent(q, p) /\ Got(q, p)' = Got(q, p)
    BY <2>1 DEF Others, Sent, Got
  <2>4. CASE n = p
    BY <1>2, <2>3, <2>4, SendsStep
  <2>5. CASE n = q
    BY <1>2, <2>2, <2>5, TakesStep
  <2>6. CASE n # p /\ n # q
    <3>1. pipe'[<<p, q>>] = pipe[<<p, q>>]
      BY <2>1, <2>6
    <3> QED BY <1>2, <2>2, <2>3, <2>6, <3>1 DEF Streams
  <2> QED BY <2>4, <2>5, <2>6
<1>3. \A p, q \in Parties : p # q =>
       /\ pipe'[<<p, q>>] \in Seq(Element)
       /\ Stream(wrong', p, q, Got(q, p)') \o pipe'[<<p, q>>] = Stream(wrong', p, q, Sent(p, q)')
  BY <1>2
<1> QED
  BY <1>1, <1>3, Zenon DEF Streams

-----------------------------------------------------------------------------
(* What has to be shown of a step of node n, the rest being as it was.     *)

LEMMA ControlStep ==
  ASSUME Control, PcTypes, step' \in [Nodes -> Nat], NEW n \in Nodes, Others(n),
         n \in Parties => InOrder(pc'[n], step'[n]),
         n = 0 => pc'[0] \in AfterPc /\ step'[0] = 1
  PROVE  Control'
<1>1. pc'[0] \in AfterPc /\ step'[0] = 1
  BY NodeNumbers DEF Control, Others
<1>2. ASSUME NEW p \in Parties PROVE InOrder(pc'[p], step'[p])
  BY NodeNumbers DEF Control, Others
<1> QED
  BY <1>1, <1>2 DEF Control, PcTypes

LEMMA LocalSame ==
  ASSUME NEW p \in Parties, Local(p), wrong' = wrong,
         pc'[p] = pc[p], peer'[p] = peer[p], step'[p] = step[p],
         wire'[p] = wire[p], acc'[p] = acc[p], agg'[p] = agg[p], opened'[p] = opened[p]
  PROVE  Local(p)'
<1>1. WireRight(p)'
  BY DEF Local, WireRight
<1>2. Added(p)' = Added(p) /\ Summed(p)' = Summed(p) /\ RoundsDone(p)' = RoundsDone(p)
  BY DEF Added, Summed, RoundsDone
<1>3. AddingRight(p)'
  BY <1>2, Zenon DEF Local, AddingRight
<1>4. CollectingRight(p)'
  BY <1>2, Zenon DEF Local, CollectingRight
<1>5. OpenedSoFar(p)'
  BY <1>2, Zenon DEF Local, OpenedSoFar
<1> QED
  BY <1>1, <1>3, <1>4, <1>5 DEF Local

StoreTypes ==
  /\ wire = [p \in Parties |-> wire[p]]
  /\ acc = [p \in Parties |-> acc[p]]
  /\ agg = [p \in Parties |-> agg[p]]
  /\ opened = [p \in Parties |-> opened[p]]

LEMMA StoresStep ==
  ASSUME Stores, wrong' = wrong, NEW n \in Nodes, Others(n), StoreTypes',
         \A p \in Parties \ {n} : /\ wire'[p] = wire[p] /\ acc'[p] = acc[p]
                                  /\ agg'[p] = agg[p] /\ opened'[p] = opened[p],
         n \in Parties => Local(n)'
  PROVE  Stores'
<1>1. ASSUME NEW p \in Parties PROVE Local(p)'
  <2>1. CASE p = n
    BY <2>1
  <2>2. CASE p # n
    <3>1. p \in Nodes \ {n} /\ Local(p)
      BY <2>2, NodeNumbers DEF Stores
    <3>2. pc'[p] = pc[p] /\ peer'[p] = peer[p] /\ step'[p] = step[p]
      BY <3>1 DEF Others
    <3> QED BY <2>2, <3>1, <3>2, LocalSame
  <2> QED BY <2>1, <2>2
<1> QED
  BY <1>1, Zenon DEF Stores, StoreTypes

\* Before a party has answered the dealer the two do not get mixed up.
EarlyPc == {"input", "key"} \cup RoundPc

LEMMA DealingStep ==
  ASSUME Control, Dealing, bad' = bad, NEW n \in Parties, Others(n),
         pc[n] \in EarlyPc, pc'[n] \in EarlyPc,
         \A p \in Parties : pipe'[<<0, p>>] = pipe[<<0, p>>] /\ pipe'[<<p, 0>>] = pipe[<<p, 0>>],
         \A p \in Parties \ {n} : opened'[p] = opened[p]
  PROVE  Dealing'
<1>1. 0 \in Nodes \ {n} /\ \A p \in Parties \ {n} : p \in Nodes \ {n}
  BY NodeNumbers
<1>2. pc'[0] = pc[0] /\ peer'[0] = peer[0]
  BY <1>1 DEF Others
<1>3. \A p \in Parties \ {n} : pc'[p] = pc[p]
  BY <1>1 DEF Others
<1>4. ASSUME NEW p \in Parties
      PROVE  /\ Given(p)' = Given(p) /\ Taken(p)' = Taken(p)
             /\ Asked(p)' <=> Asked(p)
             /\ Answered(p)' <=> Answered(p)
  <2>1. Given(p)' = Given(p) /\ (Asked(p)' <=> Asked(p))
    BY <1>2 DEF Given, Asked
  <2>2. CASE p = n
    BY <2>1, <2>2 DEF EarlyPc, RoundPc, Taken, Answered
  <2>3. CASE p # n
    BY <1>3, <2>1, <2>3 DEF Taken, Answered
  <2> QED BY <2>2, <2>3
<1>5. ~Answered(n) /\ ~Asked(n) /\ pc'[n] \notin {"masks", "done", "abort"}
  <2>1. ~Answered(n) /\ pc'[n] \notin {"masks", "done", "abort"}
    BY DEF EarlyPc, RoundPc, Answered
  <2> QED BY <2>1 DEF Dealing
<1>6. \A p \in Parties \ {n} : Omega(p)' = Omega(p)
  BY DEF Omega
<1>7. ASSUME NEW p \in Parties
      PROVE  /\ Taken(p)' <= Given(p)'
             /\ pipe'[<<0, p>>] = [k \in 1 .. (Given(p)' - Taken(p)') |-> FromTheDealer(bad', Taken(p)' + k)]
             /\ Asked(p)' => Answered(p)'
             /\ pc'[p] \in {"masks", "done"} => bad' = {}
             /\ pc'[p] = "abort" => bad' # {}
  <2>2. pipe'[<<0, p>>] = [k \in 1 .. (Given(p)' - Taken(p)') |-> FromTheDealer(bad', Taken(p)' + k)]
    <3>1. pipe[<<0, p>>] = [k \in 1 .. (Given(p) - Taken(p)) |-> FromTheDealer(bad, Taken(p) + k)]
      BY Zenon DEF Dealing
    <3>2. pipe'[<<0, p>>] = pipe[<<0, p>>] /\ Given(p)' = Given(p) /\ Taken(p)' = Taken(p)
      BY <1>4
    <3> QED BY <3>1, <3>2, Zenon
  <2>3. pc'[p] \in {"masks", "done", "abort"} => pc'[p] = pc[p]
    BY <1>3, <1>5
  <2> QED BY <1>4, <2>2, <2>3 DEF Dealing
<1>8. ASSUME NEW p \in Parties
      PROVE  pipe'[<<p, 0>>] = IF Answered(p)' /\ ~Asked(p)' THEN <<Omega(p)'>> ELSE <<>>
  <2>1. CASE p = n
    BY <1>4, <1>5, <2>1 DEF Dealing
  <2>2. CASE p # n
    BY <1>4, <1>6, <2>2 DEF Dealing
  <2> QED BY <2>1, <2>2
<1>9. bad' = UNION {Omega(p)' : p \in {p \in Parties : Asked(p)'}}
  <2>1. {p \in Parties : Asked(p)'} = {p \in Parties : Asked(p)}
    BY <1>4
  <2>2. \A p \in {p \in Parties : Asked(p)} : Omega(p)' = Omega(p)
    BY <1>5, <1>6
  <2>3. {Omega(p)' : p \in {p \in Parties : Asked(p)}} = {Omega(p) : p \in {p \in Parties : Asked(p)}}
    BY <2>2
  <2> QED BY <2>1, <2>3 DEF Dealing
<1> QED
  BY <1>2, <1>7, <1>8, <1>9 DEF Dealing

-----------------------------------------------------------------------------
(* The counts of a party as its loops go on.                               *)

\* At the start of a loop everything before it is sent and received.
LEMMA Fresh ==
  ASSUME NEW p, NEW q, NEW c \in {"input", "slices"} \cup AfterPc, NEW e, NEW s,
         ~(e > q), Base(c, s) \in Nat
  PROVE  SentBy(p, c, e, s, q) = Base(c, s) /\ GotBy(c, e, s, q) = Base(c, s)
BY DEF SentBy, GotBy, AfterPc

LEMMA FreshCounts ==
  ASSUME NEW p, NEW q, pc'[p] \in {"input", "slices"} \cup AfterPc,
         ~(peer'[p] > q), Base(pc'[p], step'[p]) \in Nat
  PROVE  Sent(p, q)' = Base(pc'[p], step'[p]) /\ Got(p, q)' = Base(pc'[p], step'[p])
<1> DEFINE c == pc'[p]
           e == peer'[p]
           s == step'[p]
<1>1. c \in {"input", "slices"} \cup AfterPc /\ ~(e > q) /\ Base(c, s) \in Nat
  OBVIOUS
<1>2. Sent(p, q)' = SentBy(p, c, e, s, q) /\ Got(p, q)' = GotBy(c, e, s, q)
  BY DEF Sent, Got
<1> HIDE DEF c, e, s
<1>3. SentBy(p, c, e, s, q) = Base(c, s) /\ GotBy(c, e, s, q) = Base(c, s)
  BY <1>1, Fresh
<1> QED
  BY <1>2, <1>3 DEF c, e, s

\* Where a loop's messages are in the streams.
LEMMA RoundCounts ==
  ASSUME Control, NEW p \in Parties, NEW q \in Parties \ {p}, pc[p] \in RoundPc
  PROVE  /\ step[p] \in 1 .. Len(Rounds) /\ step[p] \in Nat
         /\ Base(pc[p], step[p]) = Len(Inputs) + 2 * (step[p] - 1)
         /\ Base(pc[p], step[p]) \in Nat
         /\ Sent(p, q) = Base(pc[p], step[p]) +
              (CASE pc[p] = "slices" -> IF peer[p] > q THEN 1 ELSE 0
                 [] pc[p] = "gather" -> 1
                 [] pc[p] = "sums"   -> IF peer[p] > q THEN 2 ELSE 1
                 [] OTHER            -> 2)
         /\ Got(p, q) = Base(pc[p], step[p]) +
              (CASE pc[p] = "slices" -> 0
                 [] pc[p] = "gather" -> IF peer[p] > q THEN 1 ELSE 0
                 [] pc[p] = "sums"   -> 1
                 [] OTHER            -> IF peer[p] > q THEN 2 ELSE 1)
<1>1. step[p] \in 1 .. Len(Rounds) /\ step[p] \in Nat
  BY Counts DEF Control, InOrder
<1>2. Base(pc[p], step[p]) = Len(Inputs) + 2 * (step[p] - 1)
  BY DEF Base, RoundPc
<1>3. Base(pc[p], step[p]) \in Nat
  BY <1>1, <1>2, Counts
<1>4. CASE pc[p] = "slices"
  BY <1>1, <1>2, <1>3, <1>4 DEF Sent, Got, SentBy, GotBy
<1>5. CASE pc[p] = "gather"
  BY <1>1, <1>2, <1>3, <1>5 DEF Sent, Got, SentBy, GotBy
<1>6. CASE pc[p] = "sums"
  BY <1>1, <1>2, <1>3, <1>6 DEF Sent, Got, SentBy, GotBy
<1>7. CASE pc[p] = "collect"
  BY <1>1, <1>2, <1>3, <1>7 DEF Sent, Got, SentBy, GotBy
<1> QED
  BY <1>4, <1>5, <1>6, <1>7 DEF RoundPc

\* A round of a loop is one more message sent to, or received from, its peer.
LEMMA LoopCounts ==
  ASSUME Control, Control', NEW p \in Parties, NEW q \in Parties \ {p}, NEW d, LoopStep(p, d),
         step'[p] = step[p],
         \/ pc[p] = "slices" /\ d = "gather"
         \/ pc[p] = "gather" /\ d = "sums"
         \/ pc[p] = "sums" /\ d = "collect"
  PROVE  /\ pc[p] \in {"slices", "sums"} =>
              /\ Got(p, q)' = Got(p, q)
              /\ peer[p] = q => Sent(p, q)' = Sent(p, q) + 1
              /\ peer[p] # q => Sent(p, q)' = Sent(p, q)
         /\ pc[p] = "gather" =>
              /\ Sent(p, q)' = Sent(p, q)
              /\ peer[p] = q => Got(p, q)' = Got(p, q) + 1
              /\ peer[p] # q => Got(p, q)' = Got(p, q)
<1> DEFINE b == Len(Inputs) + 2 * (step[p] - 1)
<1>1. /\ b \in Nat
      /\ Base("slices", step[p]) = b /\ Base("gather", step[p]) = b
      /\ Base("sums", step[p]) = b /\ Base("collect", step[p]) = b
  BY RoundCounts DEF Base, RoundPc
<1>2. peer[p] \in Nat /\ peer'[p] \in Nat /\ q \in Nat
  BY NodeNumbers DEF Control
<1>3. \/ pc'[p] = pc[p] /\ (peer'[p] > q <=> peer[p] >= q)
      \/ pc'[p] = d /\ peer[p] >= q /\ ~(peer'[p] > q)
  BY DEF LoopStep
<1>4. peer[p] >= q <=> peer[p] > q \/ peer[p] = q
  BY <1>2
<1>5. ~(peer[p] > q /\ peer[p] = q)
  BY <1>2
<1> HIDE DEF b
<1> QED
  BY <1>1, <1>3, <1>4, <1>5 DEF Sent, Got, SentBy, GotBy

-----------------------------------------------------------------------------
(* The steps of a round.                                                   *)

LEMMA SharesType ==
  ASSUME NEW p \in Parties, NEW r \in 1 .. Len(Rounds)
  PROVE  /\ Shares(p, r) \in Seq(Element) /\ Len(Shares(p, r)) = Total(r)
         /\ \A i \in 1 .. Total(r) : Shares(p, r)[i] = SumOf(wrong, Packed[r][i], {p})
<1>1. Total(r) \in Nat /\ Len(Packed[r]) = Total(r)
  BY PackedRight DEF Total
<1>2. \A i \in 1 .. Total(r) : Packed[r][i] \in Gates
  BY <1>1, PackedRight, ElementOfSeq
<1>3. {p} \in SUBSET Parties
  OBVIOUS
<1>4. \A i \in 1 .. Total(r) : SumOf(wrong, Packed[r][i], {p}) \in Element
  BY <1>2, <1>3, SumType
<1>5. Shares(p, r) = [i \in 1 .. Total(r) |-> SumOf(wrong, Packed[r][i], {p})]
  BY <1>1, SharesAre, Zenon DEF Shares
<1>6. Shares(p, r) \in [1 .. Total(r) -> Element]
  BY <1>4, <1>5
<1>7. \A k \in Nat : \A s \in [1 .. k -> Element] : s \in Seq(Element) /\ Len(s) = k
  BY SeqDef, LenProperties
<1> QED
  BY <1>1, <1>5, <1>6, <1>7

\* What a party sends as another's slice.
LEMMA SliceIs ==
  ASSUME NEW p \in Parties, NEW q \in Parties, NEW r \in 1 .. Len(Rounds)
  PROVE  Slice(r, q, Shares(p, r)) = SliceMessage(wrong, p, q, r)
<1> DEFINE s == Shares(p, r)
           f == SliceFrom(r, q)
           l == SliceLen(r, q)
<1>1. f \in Nat /\ l \in Nat /\ f + l <= Total(r) /\ Total(r) \in Nat
  BY SliceType, PackedRight
<1>2. s \in Seq(Element) /\ Len(s) = Total(r)
  BY SharesType
<1>3. \A i \in 1 .. l : s[f + i] = SumOf(wrong, Packed[r][f + i], {p})
  <2>1. \A i \in 1 .. l : f + i \in 1 .. Total(r)
    BY <1>1
  <2> HIDE DEF f, l
  <2> QED BY <2>1, SharesType
<1>4. /\ SliceMessage(wrong, p, q, r) \in Seq(Element) /\ Len(SliceMessage(wrong, p, q, r)) = l
      /\ \A i \in 1 .. l : SliceMessage(wrong, p, q, r)[i] = SumOf(wrong, Packed[r][f + i], {p})
  <2>1. SliceMessage(wrong, p, q, r) = [i \in 1 .. l |-> SumOf(wrong, Packed[r][f + i], {p})]
    BY DEF SliceMessage
  <2> HIDE DEF f, l
  <2>2. \A i \in 1 .. l : SliceMessage(wrong, p, q, r)[i] = SumOf(wrong, Packed[r][f + i], {p})
    BY <2>1
  <2> QED BY <2>2, RoundMessageType DEF l
<1> HIDE DEF s, f, l
<1>5. /\ SubSeq(s, f + 1, f + l) \in Seq(Element) /\ Len(SubSeq(s, f + 1, f + l)) = l
      /\ \A i \in 1 .. l : SubSeq(s, f + 1, f + l)[i] = s[f + i]
  <2>1. \A i \in (f + 1) .. (f + l) : s[i] \in Element
    BY <1>1, <1>2, ElementOfSeq
  <2>2. /\ SubSeq(s, f + 1, f + l) \in Seq(Element)
        /\ Len(SubSeq(s, f + 1, f + l)) = IF f + 1 <= f + l THEN (f + l) - (f + 1) + 1 ELSE 0
        /\ \A i \in 1 .. ((f + l) - (f + 1) + 1) : SubSeq(s, f + 1, f + l)[i] = s[(f + 1) + i - 1]
    BY <1>1, <2>1, SubSeqProperties
  <2>3. (f + l) - (f + 1) + 1 = l /\ \A i \in 1 .. l : (f + 1) + i - 1 = f + i
    BY <1>1
  <2> QED BY <1>1, <2>2, <2>3
<1>6. SubSeq(s, f + 1, f + l) = SliceMessage(wrong, p, q, r)
  BY <1>1, <1>3, <1>4, <1>5, SeqEqual
<1> QED
  BY <1>6 DEF Slice, s, f, l

\* A step of one of the round's loops.
LEMMA LoopKeeps ==
  ASSUME RoundInv, NEW p \in Parties, pc[p] \in RoundPc, NEW d \in RoundPc, Loop(p, d),
         UNCHANGED <<step, wire, opened, bad, broken, threw, wrong>>,
         pipe' = [mn \in Nodes \X Nodes |-> pipe'[mn]],
         \A a, b \in Nodes : (a = 0 \/ b = 0 \/ a = b \/ (a # p /\ b # p)) => pipe'[<<a, b>>] = pipe[<<a, b>>],
         PcTypes /\ Control' => \A q \in Parties \ {p} : SendsTo(p, q) /\ TakesFrom(p, q),
         acc' = [q \in Parties |-> acc'[q]], agg' = [q \in Parties |-> agg'[q]],
         \A q \in Parties \ {p} : acc'[q] = acc[q] /\ agg'[q] = agg[q],
         AddingRight(p)', CollectingRight(p)'
  PROVE  RoundInv'
<1>1. p \in Nodes /\ d \in NodePc /\ 0 \in Nodes /\ p # 0 /\ \A q \in Parties : q \in Nodes
  BY NodeNumbers DEF RoundPc, NodePc
<1>2. Control /\ Faults /\ Streams /\ Stores /\ Dealing
  BY DEF RoundInv
<1>3. PcTypes /\ LoopStep(p, d) /\ Others(p)
  BY <1>1, <1>2, LoopIs DEF Others
<1>4. pc'[p] \in RoundPc
  BY <1>3 DEF LoopStep
<1>5. Control'
  <2>1. step' \in [Nodes -> Nat] /\ step'[p] \in 1 .. Len(Rounds) /\ step'[p] \in Nat
    BY <1>2 DEF Control, InOrder
  <2>2. InOrder(pc'[p], step'[p])
    BY <1>4, <2>1 DEF InOrder, RoundPc, AfterPc, NodePc
  <2> QED BY <1>1, <1>2, <1>3, <2>1, <2>2, ControlStep
<1>6. Faults'
  BY <1>2 DEF Faults
<1>7. Streams'
  <2>1. \A q \in Parties \ {p} : SendsTo(p, q) /\ TakesFrom(p, q)
    BY <1>3, <1>5
  <2> QED BY <1>1, <1>2, <1>3, <1>5, <2>1, StreamsStep
<1>8. Stores'
  <2>1. WireRight(p)' /\ OpenedSoFar(p)'
    <3>1. Local(p)
      BY <1>2 DEF Stores
    <3>2. pc[p] # "input" /\ pc'[p] # "input"
      BY <1>4 DEF RoundPc
    <3>3. RoundsDone(p)' = RoundsDone(p)
      BY <3>2 DEF RoundsDone
    <3> QED BY <3>1, <3>2, <3>3 DEF Local, WireRight, OpenedSoFar
  <2>2. Local(p)'
    BY <2>1 DEF Local
  <2>3. StoreTypes'
    BY <1>2, Zenon DEF Stores, StoreTypes
  <2> QED BY <1>1, <1>2, <1>3, <2>2, <2>3, StoresStep
<1>9. Dealing'
  <2>1. pc[p] \in EarlyPc /\ pc'[p] \in EarlyPc
    BY <1>4 DEF EarlyPc
  <2>2. \A q \in Parties : pipe'[<<0, q>>] = pipe[<<0, q>>] /\ pipe'[<<q, 0>>] = pipe[<<q, 0>>]
    BY <1>1
  <2> QED BY <1>2, <1>3, <2>1, <2>2, DealingStep
<1> QED
  BY <1>5, <1>6, <1>7, <1>8, <1>9 DEF RoundInv

\* The peer of a loop.
LEMMA PeerIs ==
  ASSUME Control, NEW p \in Parties
  PROVE  /\ p \in Nodes /\ peer[p] \in Parties /\ peer[p] \in Nodes /\ peer[p] # p /\ peer[p] # 0
         /\ peer[p] \in Nat /\ ~(peer[p] > peer[p])
BY NodeNumbers DEF Control

\* One message to the peer e, or from it, and none to the others.
LEMMA SendsToPeer ==
  ASSUME Control, NEW p \in Parties, NEW q \in Parties \ {p}, NEW e \in Parties, NEW els,
         Grows(p, e, els),
         e = q => Sent(p, q)' = Sent(p, q) + 1 /\ Message(wrong, p, q, Sent(p, q) + 1) = els,
         e # q => Sent(p, q)' = Sent(p, q)
  PROVE  SendsTo(p, q)
<1>1. CASE q = e
  <2>1. Sent(p, q)' = Sent(p, q) + 1
    BY <1>1
  <2>2. pipe'[<<p, q>>] = pipe[<<p, q>>] \o Message(wrong, p, q, Sent(p, q) + 1)
    BY <1>1 DEF Grows
  <2> QED BY <2>1, <2>2, Zenon DEF SendsTo
<1>2. CASE q # e
  <2>1. pipe'[<<p, q>>] = pipe[<<p, q>>]
    BY <1>2, NodeNumbers DEF Grows
  <2>3. Sent(p, q)' = Sent(p, q)
    BY <1>2
  <2> QED BY <2>1, <2>3, Zenon DEF SendsTo
<1> QED
  BY <1>1, <1>2

LEMMA TakesFromPeer ==
  ASSUME Control, NEW p \in Parties, NEW q \in Parties \ {p}, NEW e \in Parties, NEW len \in Nat,
         Shrinks(e, p, len),
         e # q => Got(p, q)' = Got(p, q),
         e = q => Got(p, q)' = Got(p, q) + 1 /\ Readable(wrong, q, p, Got(p, q), pipe[<<q, p>>], len)
  PROVE  TakesFrom(p, q)
<1>1. CASE q = e
  <2>1. Got(p, q)' = Got(p, q) + 1
    BY <1>1
  <2>2. Takes(p, q, len)
    BY <1>1, <2>1, Zenon DEF Takes, Shrinks
  <2> QED BY <2>2, Zenon DEF TakesFrom
<1>2. CASE q # e
  <2>1. pipe'[<<q, p>>] = pipe[<<q, p>>]
    BY <1>2, NodeNumbers DEF Shrinks
  <2>3. Got(p, q)' = Got(p, q)
    BY <1>2
  <2> QED BY <2>1, <2>3, Zenon DEF TakesFrom
<1> QED
  BY <1>1, <1>2

LEMMA ReceiptIs ==
  ASSUME Control, Streams, NEW p \in Parties, NEW e \in Parties \ {p}, NEW len \in Nat,
         Got(p, e) + 1 <= AllMessages,
         len = Len(Message(wrong, e, p, Got(p, e) + 1)), Len(pipe[<<e, p>>]) >= len
  PROVE  /\ Readable(wrong, e, p, Got(p, e), pipe[<<e, p>>], len)
         /\ Received(p, e, len) = Message(wrong, e, p, Got(p, e) + 1)
<1> DEFINE queue == pipe[<<e, p>>]
           g == Got(p, e)
           s == Sent(e, p)
<1>1. Readable(wrong, e, p, g, queue, len)
  BY DEF Readable
<1>2. g \in 0 .. AllMessages /\ s \in 0 .. AllMessages
  BY CountsAre
<1>3. queue \in Seq(Element) /\ Stream(wrong, e, p, g) \o queue = Stream(wrong, e, p, s)
  BY DEF Streams
<1>4. ReadRight(wrong, e, p, g, s, queue, len)
  <2>1. g + 1 <= AllMessages
    OBVIOUS
  <2> HIDE DEF queue, g, s
  <2> QED BY <1>1, <1>2, <1>3, <2>1, ReceiveNext
<1>5. Front(queue, len) = Message(wrong, e, p, g + 1)
  BY <1>4, Zenon DEF ReadRight
<1> QED
  BY <1>1, <1>5, Zenon DEF Front, Received

LEMMA SendSliceKeeps ==
  ASSUME RoundInv, NEW p \in Parties, SendSlice(p)
  PROVE  RoundInv'
<1> DEFINE e == peer[p]
           r == step[p]
<1>1. /\ Control /\ Streams /\ Stores
      /\ pc[p] = "slices" /\ Send(p, e, Slice(r, e, Shares(p, r))) /\ Loop(p, "gather")
      /\ acc' = IF Last(p) THEN [acc EXCEPT ![p] = Slice(r, p, Shares(p, r))] ELSE acc
      /\ UNCHANGED <<step, wire, agg, opened, bad, broken, threw, wrong>>
  BY Zenon DEF RoundInv, SendSlice, Rnd
<1>2. p \in Nodes /\ e \in Parties /\ e \in Nodes /\ e # p /\ e # 0
  BY <1>1, PeerIs
<1>3. r \in 1 .. Len(Rounds) /\ r \in Nat
  BY <1>1, Counts DEF Control, InOrder, RoundPc
<1>4. Slice(r, e, Shares(p, r)) = SliceMessage(wrong, p, e, r) /\ Slice(r, p, Shares(p, r)) = SliceMessage(wrong, p, p, r)
  BY <1>2, <1>3, SliceIs
<1>5. Grows(p, e, SliceMessage(wrong, p, e, r))
  BY <1>1, <1>2, <1>4, SendIs
<1>6. PcTypes /\ LoopStep(p, "gather")
  BY <1>1, <1>2, LoopIs DEF NodePc
<1>7. ASSUME Control', NEW q \in Parties \ {p} PROVE SendsTo(p, q) /\ TakesFrom(p, q)
  <2>1. /\ Got(p, q)' = Got(p, q)
        /\ e = q => Sent(p, q)' = Sent(p, q) + 1
        /\ e # q => Sent(p, q)' = Sent(p, q)
    BY <1>1, <1>6, <1>7, LoopCounts
  <2>2. TakesFrom(p, q)
    <3>1. q \in Nodes /\ q # p
      BY NodeNumbers
    <3>2. pipe'[<<q, p>>] = pipe[<<q, p>>]
      BY <1>2, <1>5, <3>1 DEF Grows
    <3> QED BY <2>1, <3>2 DEF TakesFrom
  <2>3. ASSUME e = q PROVE Message(wrong, p, q, Sent(p, q) + 1) = SliceMessage(wrong, p, e, r)
    <3>1. ~(e > q) /\ pc[p] \in RoundPc
      BY <1>1, <2>3, PeerIs DEF RoundPc
    <3>2. /\ Base(pc[p], r) = Len(Inputs) + 2 * (r - 1) /\ Base(pc[p], r) \in Nat
          /\ Sent(p, q) = Base(pc[p], r) + 0
      BY <1>1, <3>1, RoundCounts
    <3>3. Sent(p, q) + 1 = Len(Inputs) + 2 * (r - 1) + 1
      BY <3>2
    <3>4. Message(wrong, p, q, Len(Inputs) + 2 * (r - 1) + 1) = SliceMessage(wrong, p, q, r)
      <4> HIDE DEF r
      <4> QED BY <1>3, RoundMessages
    <3> QED BY <2>3, <3>3, <3>4, Zenon
  <2>4. SendsTo(p, q)
    <3> DEFINE els == SliceMessage(wrong, p, e, r)
    <3> HIDE DEF els, e
    <3> QED BY <1>1, <1>2, <1>5, <2>1, <2>3, SendsToPeer DEF els
  <2> QED BY <2>2, <2>4
<1>8. acc' = [q \in Parties |-> acc'[q]] /\ \A q \in Parties \ {p} : acc'[q] = acc[q]
  BY <1>1 DEF Stores
<1>9. AddingRight(p)'
  <2>1. CASE Last(p)
    <3>1. pc'[p] = "gather" /\ \A q \in Parties \ {p} : ~(peer'[p] > q)
      BY <1>6, <2>1 DEF LoopStep
    <3>2. acc'[p] = SliceMessage(wrong, p, p, r)
      BY <1>1, <1>4, <2>1 DEF Stores
    <3>3. Added(p)' = {p}
      <4>1. \A q \in Parties \ {p} : ~(q < peer'[p])
        BY <3>1
      <4> QED BY <3>1, <4>1 DEF Added
    <3>4. acc'[p] = [i \in 1 .. SliceLen(r, p) |-> SumOf(wrong, Packed[r][SliceFrom(r, p) + i], {p})]
      BY <3>2 DEF SliceMessage
    <3>5. step'[p] = r /\ wrong' = wrong
      BY <1>1
    <3> QED BY <3>3, <3>4, <3>5, Zenon DEF AddingRight
  <2>2. CASE ~Last(p)
    BY <1>1, <1>6, <2>2 DEF LoopStep, AddingRight
  <2> QED BY <2>1, <2>2
<1>10. CollectingRight(p)'
  BY <1>1, <1>6 DEF LoopStep, CollectingRight
<1>11. agg' = [q \in Parties |-> agg'[q]] /\ \A q \in Parties \ {p} : agg'[q] = agg[q]
  BY <1>1 DEF Stores
<1>12. \A a, b \in Nodes : (a = 0 \/ b = 0 \/ a = b \/ (a # p /\ b # p)) => pipe'[<<a, b>>] = pipe[<<a, b>>]
  BY <1>2, <1>5, NodeNumbers DEF Grows
<1>13. pc[p] \in RoundPc /\ "gather" \in RoundPc
  BY <1>1 DEF RoundPc
<1> QED
  BY <1>1, <1>5, <1>7, <1>8, <1>9, <1>10, <1>11, <1>12, <1>13, LoopKeeps DEF Grows

LEMMA SendSumsKeeps ==
  ASSUME RoundInv, NEW p \in Parties, SendSums(p)
  PROVE  RoundInv'
<1> DEFINE e == peer[p]
           r == step[p]
           none == [i \in 1 .. Total(r) |-> EmptyBag]
<1>1. /\ Control /\ Streams /\ Stores
      /\ pc[p] = "sums" /\ Send(p, e, acc[p]) /\ Loop(p, "collect")
      /\ agg' = IF Last(p) THEN [agg EXCEPT ![p] = Place(r, p, acc[p], none)] ELSE agg
      /\ UNCHANGED <<step, wire, acc, opened, bad, broken, threw, wrong>>
  BY Zenon DEF RoundInv, SendSums, Rnd
<1>2. p \in Nodes /\ e \in Parties /\ e \in Nodes /\ e # p /\ e # 0
  BY <1>1, PeerIs
<1>3. r \in 1 .. Len(Rounds) /\ r \in Nat
  BY <1>1, Counts DEF Control, InOrder, RoundPc
<1>4. acc[p] = SumsMessage(wrong, p, r)
  BY <1>1, Zenon DEF Stores, Local, AddingRight, Added, SumsMessage
<1>5. Grows(p, e, acc[p])
  BY <1>1, <1>2, SendIs
<1>6. PcTypes /\ LoopStep(p, "collect")
  BY <1>1, <1>2, LoopIs DEF NodePc
<1>7. ASSUME Control', NEW q \in Parties \ {p} PROVE SendsTo(p, q) /\ TakesFrom(p, q)
  <2>1. /\ Got(p, q)' = Got(p, q)
        /\ e = q => Sent(p, q)' = Sent(p, q) + 1
        /\ e # q => Sent(p, q)' = Sent(p, q)
    BY <1>1, <1>6, <1>7, LoopCounts
  <2>2. TakesFrom(p, q)
    <3>1. pipe'[<<q, p>>] = pipe[<<q, p>>]
      BY <1>2, <1>5, NodeNumbers DEF Grows
    <3> QED BY <2>1, <3>1 DEF TakesFrom
  <2>3. ASSUME e = q PROVE Message(wrong, p, q, Sent(p, q) + 1) = acc[p]
    <3>1. ~(e > q) /\ pc[p] \in RoundPc
      BY <1>1, <2>3, PeerIs DEF RoundPc
    <3>2. /\ Base(pc[p], r) = Len(Inputs) + 2 * (r - 1) /\ Base(pc[p], r) \in Nat
          /\ Sent(p, q) = Base(pc[p], r) + 1
      BY <1>1, <3>1, RoundCounts
    <3>3. Sent(p, q) + 1 = Len(Inputs) + 2 * (r - 1) + 2
      BY <3>2
    <3>4. Message(wrong, p, q, Len(Inputs) + 2 * (r - 1) + 2) = SumsMessage(wrong, p, r)
      <4> HIDE DEF r
      <4> QED BY <1>3, RoundMessages
    <3> QED BY <1>4, <3>3, <3>4, Zenon
  <2>4. SendsTo(p, q)
    <3> HIDE DEF e
    <3> QED BY <1>1, <1>2, <1>5, <2>1, <2>3, SendsToPeer
  <2> QED BY <2>2, <2>4
<1>8. agg' = [q \in Parties |-> agg'[q]] /\ \A q \in Parties \ {p} : agg'[q] = agg[q]
  BY <1>1 DEF Stores
<1>9. AddingRight(p)'
  <2>1. CASE Last(p)
    BY <1>6, <2>1 DEF LoopStep, AddingRight
  <2>2. CASE ~Last(p)
    <3>1. pc'[p] = pc[p]
      BY <1>6, <2>2 DEF LoopStep
    <3>2. Added(p)' = Added(p)
      BY <1>1, <3>1 DEF Added
    <3> QED BY <1>1, <3>1, <3>2, Zenon DEF Stores, Local, AddingRight
  <2> QED BY <2>1, <2>2
<1>10. CollectingRight(p)'
  <2>1. CASE Last(p)
    <3>1. \A q \in Parties \ {p} : ~(peer'[p] > q)
      BY <1>6, <2>1 DEF LoopStep
    <3>2. Summed(p)' = {p}
      <4>1. \A q \in Parties \ {p} : ~(q < peer'[p])
        BY <3>1
      <4> QED BY <4>1 DEF Summed
    <3>3. ASSUME NEW i \in InSlice(r, p) PROVE agg'[p][i] = SumOf(wrong, Packed[r][i], Parties)
      <4>1. agg'[p] = Place(r, p, acc[p], none)
        BY <1>1, <2>1 DEF Stores
      <4>2. i \in 1 .. Total(r) /\ i - SliceFrom(r, p) \in 1 .. SliceLen(r, p)
        BY <1>3, SliceInside
      <4>3. agg'[p][i] = acc[p][i - SliceFrom(r, p)]
        BY <4>1, <4>2 DEF Place, InSlice
      <4>4. acc[p][i - SliceFrom(r, p)] = SumOf(wrong, Packed[r][SliceFrom(r, p) + (i - SliceFrom(r, p))], Parties)
        BY <1>4, <4>2 DEF SumsMessage
      <4>5. SliceFrom(r, p) + (i - SliceFrom(r, p)) = i
        BY <1>3, <4>2, SliceType, PackedRight
      <4> QED BY <4>3, <4>4, <4>5
    <3>4. step'[p] = r /\ wrong' = wrong
      BY <1>1
    <3> QED BY <3>2, <3>3, <3>4, Zenon DEF CollectingRight
  <2>2. CASE ~Last(p)
    BY <1>1, <1>6, <2>2 DEF LoopStep, CollectingRight
  <2> QED BY <2>1, <2>2
<1>11. acc' = [q \in Parties |-> acc'[q]] /\ \A q \in Parties \ {p} : acc'[q] = acc[q]
  BY <1>1 DEF Stores
<1>12. \A a, b \in Nodes : (a = 0 \/ b = 0 \/ a = b \/ (a # p /\ b # p)) => pipe'[<<a, b>>] = pipe[<<a, b>>]
  BY <1>2, <1>5, NodeNumbers DEF Grows
<1>13. pc[p] \in RoundPc /\ "collect" \in RoundPc
  BY <1>1 DEF RoundPc
<1> QED
  BY <1>1, <1>5, <1>7, <1>8, <1>9, <1>10, <1>11, <1>12, <1>13, LoopKeeps DEF Grows

\* The parties added up once the peer's shares are.
LEMMA AddedNext ==
  ASSUME NEW p \in Parties, pc[p] = "gather", peer[p] \in Parties \ {p}, LoopStep(p, "sums")
  PROVE  peer[p] \notin Added(p) /\ Added(p)' = Added(p) \cup {peer[p]}
<1>1. \A q \in Parties : q \in Nat
  BY NodeNumbers
<1>2. Added(p) = {p} \cup {q \in Parties \ {p} : q < peer[p]}
  BY DEF Added
<1>3. Added(p) \cup {peer[p]} = {p} \cup {q \in Parties \ {p} : q <= peer[p]}
  BY <1>1, <1>2
<1>4. CASE pc'[p] = "gather" /\ \A s \in Parties \ {p} : peer'[p] > s <=> peer[p] >= s
  <2>1. Added(p)' = {p} \cup {q \in Parties \ {p} : q < peer'[p]}
    BY <1>4 DEF Added
  <2>2. \A q \in Parties \ {p} : q < peer'[p] <=> q <= peer[p]
    BY <1>4
  <2> QED BY <1>1, <1>2, <1>3, <2>1, <2>2
<1>5. CASE pc'[p] = "sums" /\ \A s \in Parties \ {p} : peer[p] >= s
  <2>1. Added(p)' = Parties
    BY <1>5 DEF Added
  <2>2. \A q \in Parties \ {p} : q <= peer[p]
    BY <1>5
  <2> QED BY <1>1, <1>2, <1>3, <2>1, <2>2
<1> QED
  BY <1>4, <1>5 DEF LoopStep

LEMMA GatherSliceKeeps ==
  ASSUME RoundInv, NEW p \in Parties, GatherSlice(p)
  PROVE  RoundInv'
<1> DEFINE e == peer[p]
           r == step[p]
           len == SliceLen(r, p)
<1>1. /\ Control /\ Streams /\ Stores
      /\ pc[p] = "gather" /\ Recv(p, e, len) /\ Loop(p, "sums")
      /\ acc' = [acc EXCEPT ![p] = PlusAll(acc[p], Received(p, e, len))]
      /\ UNCHANGED <<step, wire, agg, opened, bad, broken, threw, wrong>>
  BY Zenon DEF RoundInv, GatherSlice, Rnd, OwnLen
<1>2. p \in Nodes /\ e \in Parties /\ e \in Nodes /\ e # p /\ e # 0
  BY <1>1, PeerIs
<1>3. r \in 1 .. Len(Rounds) /\ r \in Nat
  BY <1>1, Counts DEF Control, InOrder, RoundPc
<1>4. len \in Nat
  BY <1>3, SliceType
<1>5. Shrinks(e, p, len)
  BY <1>1, <1>2, RecvIs
<1>6. PcTypes /\ LoopStep(p, "sums")
  BY <1>1, <1>2, LoopIs DEF NodePc
<1>7. /\ Readable(wrong, e, p, Got(p, e), pipe[<<e, p>>], len)
      /\ Received(p, e, len) = SliceMessage(wrong, e, p, r)
  <2>1. pc[p] \in RoundPc /\ ~(e > e)
    BY <1>1, PeerIs DEF RoundPc
  <2>2. /\ Base(pc[p], r) = Len(Inputs) + 2 * (r - 1) /\ Base(pc[p], r) \in Nat
        /\ Got(p, e) = Base(pc[p], r) + 0
    BY <1>1, <1>2, <2>1, RoundCounts
  <2>3. Got(p, e) + 1 = Len(Inputs) + 2 * (r - 1) + 1
    BY <2>2
  <2>4. Got(p, e) + 1 <= AllMessages
    BY <1>3, <2>3, Counts DEF AllMessages
  <2>5. Message(wrong, e, p, Len(Inputs) + 2 * (r - 1) + 1) = SliceMessage(wrong, e, p, r)
    <3> HIDE DEF r, e
    <3> QED BY <1>2, <1>3, RoundMessages
  <2>6. Message(wrong, e, p, Got(p, e) + 1) = SliceMessage(wrong, e, p, r)
    BY <2>3, <2>5, Zenon
  <2>7. len = Len(Message(wrong, e, p, Got(p, e) + 1))
    BY <1>2, <1>3, <2>6, RoundMessageType
  <2>8. Len(pipe[<<e, p>>]) >= len
    BY <1>5 DEF Shrinks
  <2> HIDE DEF e, r, len
  <2>9. /\ Readable(wrong, e, p, Got(p, e), pipe[<<e, p>>], len)
        /\ Received(p, e, len) = Message(wrong, e, p, Got(p, e) + 1)
    BY <1>1, <1>2, <1>4, <2>4, <2>7, <2>8, ReceiptIs
  <2> QED BY <2>6, <2>9, Zenon
<1>8. ASSUME Control', NEW q \in Parties \ {p} PROVE SendsTo(p, q) /\ TakesFrom(p, q)
  <2>1. /\ Sent(p, q)' = Sent(p, q)
        /\ e = q => Got(p, q)' = Got(p, q) + 1
        /\ e # q => Got(p, q)' = Got(p, q)
    BY <1>1, <1>6, <1>8, LoopCounts
  <2>2. SendsTo(p, q)
    <3>1. pipe'[<<p, q>>] = pipe[<<p, q>>]
      BY <1>2, <1>5, NodeNumbers DEF Shrinks
    <3> QED BY <2>1, <3>1, Zenon DEF SendsTo
  <2>3. TakesFrom(p, q)
    <3> HIDE DEF e, len
    <3> QED BY <1>1, <1>2, <1>4, <1>5, <1>7, <2>1, TakesFromPeer
  <2> QED BY <2>2, <2>3
<1>9. AddingRight(p)'
  <2> DEFINE x(i) == Packed[r][SliceFrom(r, p) + i]
             own == Added(p)
  <2>1. e \notin own /\ Added(p)' = own \cup {e}
    BY <1>1, <1>2, <1>6, AddedNext
  <2>2. acc[p] = [i \in 1 .. len |-> SumOf(wrong, x(i), own)]
    BY <1>1, Zenon DEF Stores, Local, AddingRight
  <2>3. Received(p, e, len) = [i \in 1 .. len |-> SumOf(wrong, x(i), {e})]
    BY <1>7, Zenon DEF SliceMessage
  <2>4. acc'[p] = PlusAll(acc[p], Received(p, e, len))
    BY <1>1 DEF Stores
  <2> HIDE DEF x, own, e, len
  <2>5. Len(acc[p]) = len
    BY <1>4, <2>2
  <2>6. acc'[p] = [i \in 1 .. len |-> acc[p][i] (+) Received(p, e, len)[i]]
    BY <2>4, <2>5, Zenon DEF PlusAll
  <2>7. \A i \in 1 .. len : acc[p][i] (+) Received(p, e, len)[i] = SumOf(wrong, x(i), own \cup {e})
    <3> TAKE i \in 1 .. len
    <3>1. acc[p][i] = SumOf(wrong, x(i), own) /\ Received(p, e, len)[i] = SumOf(wrong, x(i), {e})
      BY <2>2, <2>3
    <3>2. own \cap {e} = {}
      BY <2>1
    <3>3. SumOf(wrong, x(i), own) (+) SumOf(wrong, x(i), {e}) = SumOf(wrong, x(i), own \cup {e})
      BY <3>2, SumPlus
    <3> QED BY <3>1, <3>3, Zenon
  <2>8. acc'[p] = [i \in 1 .. len |-> SumOf(wrong, x(i), own \cup {e})]
    BY <2>6, <2>7, Zenon
  <2>9. step'[p] = r /\ wrong' = wrong
    BY <1>1
  <2> QED BY <2>1, <2>8, <2>9, Zenon DEF AddingRight, x, len
<1>10. CollectingRight(p)'
  BY <1>1, <1>6 DEF LoopStep, CollectingRight
<1>11. acc' = [q \in Parties |-> acc'[q]] /\ \A q \in Parties \ {p} : acc'[q] = acc[q]
  BY <1>1 DEF Stores
<1>12. agg' = [q \in Parties |-> agg'[q]] /\ \A q \in Parties \ {p} : agg'[q] = agg[q]
  BY <1>1 DEF Stores
<1>13. \A a, b \in Nodes : (a = 0 \/ b = 0 \/ a = b \/ (a # p /\ b # p)) => pipe'[<<a, b>>] = pipe[<<a, b>>]
  BY <1>2, <1>5, NodeNumbers DEF Shrinks
<1>14. pc[p] \in RoundPc /\ "sums" \in RoundPc
  BY <1>1 DEF RoundPc
<1> QED
  BY <1>1, <1>5, <1>8, <1>9, <1>10, <1>11, <1>12, <1>13, <1>14, LoopKeeps DEF Shrinks

\* The sums a party has once it has taken the peer's.
CollectedBy(p, values) ==
  \A q \in Summed(p) \cup {peer[p]} : \A i \in InSlice(step[p], q) :
    values[i] = SumOf(wrong, Packed[step[p]][i], Parties)

LEMMA SumsIn ==
  ASSUME RoundInv, NEW p \in Parties, CollectSums(p)
  PROVE  LET e      == peer[p]
             len    == SliceLen(step[p], e)
             values == Place(step[p], e, Received(p, e, len), agg[p])
         IN  /\ len \in Nat /\ Shrinks(e, p, len)
             /\ Readable(wrong, e, p, Got(p, e), pipe[<<e, p>>], len)
             /\ agg' = [agg EXCEPT ![p] = values]
             /\ CollectedBy(p, values)
             /\ IF Last(p) THEN FinishRound(p, values)
                ELSE Loop(p, "collect") /\ UNCHANGED <<opened, step>>
<1> DEFINE e == peer[p]
           r == step[p]
           len == SliceLen(r, e)
           values == Place(r, e, Received(p, e, len), agg[p])
<1>1. /\ Control /\ Streams /\ Stores
      /\ pc[p] = "collect" /\ Recv(p, e, len)
      /\ agg' = [agg EXCEPT ![p] = values]
      /\ IF Last(p) THEN FinishRound(p, values)
         ELSE Loop(p, "collect") /\ UNCHANGED <<opened, step>>
  BY Zenon DEF RoundInv, CollectSums, Rnd
<1>2. p \in Nodes /\ e \in Parties /\ e \in Nodes /\ e # p /\ e # 0
  BY <1>1, PeerIs
<1>3. r \in 1 .. Len(Rounds) /\ r \in Nat
  BY <1>1, Counts DEF Control, InOrder, RoundPc
<1>4. len \in Nat
  BY <1>2, <1>3, SliceType
<1>5. Shrinks(e, p, len)
  BY <1>1, <1>2, RecvIs
<1>6. /\ Readable(wrong, e, p, Got(p, e), pipe[<<e, p>>], len)
      /\ Received(p, e, len) = SumsMessage(wrong, e, r)
  <2>1. pc[p] \in RoundPc /\ ~(e > e)
    BY <1>1, PeerIs DEF RoundPc
  <2>2. /\ Base(pc[p], r) = Len(Inputs) + 2 * (r - 1) /\ Base(pc[p], r) \in Nat
        /\ Got(p, e) = Base(pc[p], r) + 1
    BY <1>1, <1>2, <2>1, RoundCounts
  <2>3. Got(p, e) + 1 = Len(Inputs) + 2 * (r - 1) + 2
    BY <2>2
  <2>4. Got(p, e) + 1 <= AllMessages
    BY <1>3, <2>3, Counts DEF AllMessages
  <2>5. Message(wrong, e, p, Len(Inputs) + 2 * (r - 1) + 2) = SumsMessage(wrong, e, r)
    <3> HIDE DEF r, e
    <3> QED BY <1>2, <1>3, RoundMessages
  <2>6. Message(wrong, e, p, Got(p, e) + 1) = SumsMessage(wrong, e, r)
    BY <2>3, <2>5, Zenon
  <2>7. len = Len(Message(wrong, e, p, Got(p, e) + 1))
    <3>1. Len(SumsMessage(wrong, e, r)) = len
      <4> HIDE DEF r, e
      <4> QED BY <1>2, <1>3, RoundMessageType DEF len
    <3> QED BY <2>6, <3>1, Zenon
  <2>8. Len(pipe[<<e, p>>]) >= len
    BY <1>5 DEF Shrinks
  <2> HIDE DEF e, r, len
  <2>9. /\ Readable(wrong, e, p, Got(p, e), pipe[<<e, p>>], len)
        /\ Received(p, e, len) = Message(wrong, e, p, Got(p, e) + 1)
    BY <1>1, <1>2, <1>4, <2>4, <2>7, <2>8, ReceiptIs
  <2> QED BY <2>6, <2>9, Zenon
<1>7. CollectedBy(p, values)
  <2> DEFINE sum(i) == SumOf(wrong, Packed[r][i], Parties)
  <2>1. \A i \in InSlice(r, e) : i \in 1 .. Total(r) /\ values[i] = sum(i)
    <3> TAKE i \in InSlice(r, e)
    <3>1. i \in 1 .. Total(r) /\ i - SliceFrom(r, e) \in 1 .. len
      BY <1>2, <1>3, SliceInside
    <3>2. values[i] = Received(p, e, len)[i - SliceFrom(r, e)]
      BY <3>1 DEF Place, InSlice
    <3>3. Received(p, e, len)[i - SliceFrom(r, e)]
            = SumOf(wrong, Packed[r][SliceFrom(r, e) + (i - SliceFrom(r, e))], Parties)
      BY <1>6, <3>1 DEF SumsMessage
    <3>4. SliceFrom(r, e) + (i - SliceFrom(r, e)) = i
      BY <1>2, <1>3, <3>1, SliceType, PackedRight
    <3> QED BY <3>1, <3>2, <3>3, <3>4
  <2>2. \A q \in Summed(p) : \A i \in InSlice(r, q) : i \in 1 .. Total(r) /\ agg[p][i] = sum(i)
    <3> TAKE q \in Summed(p)
    <3>1. q \in Parties
      BY DEF Summed
    <3>2. \A i \in InSlice(r, q) : i \in 1 .. Total(r)
      BY <1>3, <3>1, SliceInside
    <3>3. \A i \in InSlice(r, q) : agg[p][i] = sum(i)
      BY <1>1, Zenon DEF Stores, Local, CollectingRight
    <3> QED BY <3>2, <3>3
  <2>3. \A i \in 1 .. Total(r) : i \notin InSlice(r, e) => values[i] = agg[p][i]
    BY DEF Place, InSlice
  <2> HIDE DEF values, sum
  <2>4. \A q \in Summed(p) \cup {e} : \A i \in InSlice(r, q) : values[i] = sum(i)
    BY <2>1, <2>2, <2>3
  <2> QED BY <2>4, Zenon DEF CollectedBy, sum
<1> QED
  BY <1>1, <1>4, <1>5, <1>6, <1>7, Zenon

LEMMA CollectGoesOn ==
  ASSUME RoundInv, NEW p \in Parties, CollectSums(p), ~Last(p)
  PROVE  RoundInv'
<1> DEFINE e == peer[p]
           r == step[p]
           len == SliceLen(r, e)
           values == Place(r, e, Received(p, e, len), agg[p])
<1>1. /\ Control /\ Streams /\ Stores /\ pc[p] = "collect"
      /\ UNCHANGED <<wire, acc, bad, broken, threw, wrong>>
  BY DEF RoundInv, CollectSums
<1>2. /\ len \in Nat /\ Shrinks(e, p, len)
      /\ Readable(wrong, e, p, Got(p, e), pipe[<<e, p>>], len)
      /\ agg' = [agg EXCEPT ![p] = values]
      /\ CollectedBy(p, values)
      /\ Loop(p, "collect") /\ UNCHANGED <<opened, step>>
  BY SumsIn, Zenon
<1> HIDE DEF len, values
<1>3. p \in Nodes /\ e \in Parties /\ e \in Nodes /\ e # p /\ e # 0
  BY <1>1, PeerIs
<1>4. PcTypes /\ LoopStep(p, "collect")
  BY <1>1, <1>2, <1>3, LoopIs DEF NodePc
<1>5. pc'[p] = pc[p] /\ \A s \in Parties \ {p} : peer'[p] > s <=> e >= s
  BY <1>4 DEF LoopStep
<1>6. pc[p] \in RoundPc /\ "collect" \in RoundPc
  BY <1>1 DEF RoundPc
<1>7. ASSUME Control', NEW q \in Parties \ {p} PROVE SendsTo(p, q) /\ TakesFrom(p, q)
  <2>1. Sent(p, q)' = Sent(p, q)
    BY <1>1, <1>2, <1>5 DEF Sent, SentBy
  <2>2. /\ e = q => Got(p, q)' = Got(p, q) + 1
        /\ e # q => Got(p, q)' = Got(p, q)
    <3>1. peer'[p] > q <=> e > q \/ e = q
      BY <1>3, <1>5, NodeNumbers
    <3>2. ~(e > q /\ e = q)
      BY <1>3, NodeNumbers
    <3>3. Base(pc[p], r) \in Nat
      BY <1>1, <1>6, RoundCounts
    <3>4. pc'[p] = "collect" /\ step'[p] = r
      BY <1>1, <1>2, <1>5
    <3>5. Got(p, q) = Base("collect", r) + (IF e > q THEN 2 ELSE 1)
      BY <1>1, <1>6, RoundCounts
    <3>6. Got(p, q)' = Base("collect", r) + 1 + (IF peer'[p] > q THEN 1 ELSE 0)
      BY <1>1, <3>3, <3>4 DEF Got, GotBy
    <3> HIDE DEF e, r
    <3> QED BY <1>1, <3>1, <3>2, <3>3, <3>5, <3>6
  <2>3. SendsTo(p, q)
    <3>1. pipe'[<<p, q>>] = pipe[<<p, q>>]
      BY <1>2, <1>3, NodeNumbers DEF Shrinks
    <3> QED BY <2>1, <3>1, Zenon DEF SendsTo
  <2>4. TakesFrom(p, q)
    <3> HIDE DEF e
    <3> QED BY <1>1, <1>2, <1>3, <2>2, TakesFromPeer
  <2> QED BY <2>3, <2>4
<1>8. AddingRight(p)'
  BY <1>1, <1>5 DEF AddingRight
<1>9. CollectingRight(p)'
  <2>1. Summed(p)' = Summed(p) \cup {e}
    <3>1. \A q \in Parties \ {p} : q < peer'[p] <=> q < e \/ q = e
      BY <1>3, <1>5, NodeNumbers
    <3> QED BY <1>3, <3>1 DEF Summed
  <2>2. agg'[p] = values
    BY <1>1, <1>2 DEF Stores
  <2>3. \A q \in Summed(p)' : \A i \in InSlice(r, q) : agg'[p][i] = SumOf(wrong, Packed[r][i], Parties)
    BY <1>2, <2>1, <2>2, Zenon DEF CollectedBy
  <2>4. step'[p] = r /\ wrong' = wrong
    BY <1>1, <1>2
  <2> QED BY <2>3, <2>4, Zenon DEF CollectingRight
<1>10. acc' = [q \in Parties |-> acc'[q]] /\ \A q \in Parties \ {p} : acc'[q] = acc[q]
  BY <1>1 DEF Stores
<1>11. agg' = [q \in Parties |-> agg'[q]] /\ \A q \in Parties \ {p} : agg'[q] = agg[q]
  BY <1>1, <1>2 DEF Stores
<1>12. \A a, b \in Nodes : (a = 0 \/ b = 0 \/ a = b \/ (a # p /\ b # p)) => pipe'[<<a, b>>] = pipe[<<a, b>>]
  BY <1>2, <1>3, NodeNumbers DEF Shrinks
<1> QED
  BY <1>1, <1>2, <1>6, <1>7, <1>8, <1>9, <1>10, <1>11, <1>12, LoopKeeps DEF Shrinks

\* When all sums are in, the round's gates get the sums of all shares.
LEMMA RoundIsOpened ==
  ASSUME RoundInv, NEW p \in Parties, pc[p] = "collect", Last(p), NEW values, CollectedBy(p, values)
  PROVE  /\ DOMAIN Unpacked(step[p], values) = OpenedIn(step[p])
         /\ \A x \in OpenedIn(step[p]) : Unpacked(step[p], values)[x] = SumOf(wrong, x, Parties)
<1> DEFINE r == step[p]
           val == [x \in OpenedIn(r) |-> SumOf(wrong, x, Parties)]
<1>1. Control /\ p \in Nodes /\ peer[p] \in Parties /\ r \in 1 .. Len(Rounds)
  BY NodeNumbers DEF RoundInv, Control, InOrder, RoundPc
<1>2. \A q \in Parties : q \in Summed(p) \cup {peer[p]}
  <2>1. \A q \in Parties \ {p} : peer[p] >= q
    BY <1>1, AtLast
  <2>2. \A q \in Parties \ {p} : q < peer[p] \/ q = peer[p]
    BY <1>1, <2>1, NodeNumbers
  <2> QED BY <2>2 DEF Summed
<1>3. \A k \in 1 .. Total(r) : values[k] = val[Packed[r][k]]
  <2> TAKE k \in 1 .. Total(r)
  <2>1. PICK q \in Parties : k \in InSlice(r, q)
    BY <1>1, SlicesCover
  <2>2. values[k] = SumOf(wrong, Packed[r][k], Parties)
    BY <1>2, <2>1 DEF CollectedBy
  <2>3. Packed[r][k] \in OpenedIn(r)
    BY <1>1, PackedRight
  <2> QED BY <2>2, <2>3
<1> HIDE DEF r, val
<1>4. /\ DOMAIN Unpacked(r, values) = OpenedIn(r)
      /\ \A x \in OpenedIn(r) : Unpacked(r, values)[x] = val[x]
  BY <1>1, <1>3, UnpackedRight
<1> QED
  BY <1>4 DEF val, r

LEMMA CollectFinishes ==
  ASSUME RoundInv, NEW p \in Parties, CollectSums(p), Last(p)
  PROVE  RoundInv'
<1> DEFINE e == peer[p]
           r == step[p]
           len == SliceLen(r, e)
           values == Place(r, e, Received(p, e, len), agg[p])
           next == IF r < Len(Rounds) THEN "slices" ELSE "key"
<1>1. /\ Control /\ Faults /\ Streams /\ Stores /\ Dealing /\ pc[p] = "collect"
      /\ UNCHANGED <<wire, acc, bad, broken, threw, wrong>>
  BY DEF RoundInv, CollectSums
<1>2. /\ len \in Nat /\ Shrinks(e, p, len)
      /\ Readable(wrong, e, p, Got(p, e), pipe[<<e, p>>], len)
      /\ agg' = [agg EXCEPT ![p] = values]
      /\ CollectedBy(p, values)
      /\ FinishRound(p, values)
  BY SumsIn, Zenon
<1>3. p \in Nodes /\ e \in Parties /\ e \in Nodes /\ e # p /\ e # 0
  BY <1>1, PeerIs
<1>4. r \in 1 .. Len(Rounds) /\ r \in Nat /\ Len(Rounds) \in Nat
  BY <1>1, Counts DEF Control, InOrder, RoundPc
<1>5. /\ DOMAIN Unpacked(r, values) = OpenedIn(r)
      /\ \A x \in OpenedIn(r) : Unpacked(r, values)[x] = SumOf(wrong, x, Parties)
  <2> HIDE DEF values
  <2> QED BY <1>1, <1>2, RoundIsOpened
<1> HIDE DEF len, values
<1>6. /\ step' = [step EXCEPT ![p] = r + 1] /\ Goto(p, next)
      /\ opened' = [opened EXCEPT ![p] =
           [g \in DOMAIN opened[p] \cup DOMAIN Unpacked(r, values) |->
              IF g \in DOMAIN opened[p] THEN opened[p][g] ELSE Unpacked(r, values)[g]]]
  BY <1>2, Zenon DEF FinishRound, Rnd
<1>7. next \in {"slices", "key"} /\ next \in NodePc
  BY DEF NodePc
<1>8. /\ PcTypes /\ pc'[p] = next
      /\ \A s \in Parties \ {p} : ~(peer'[p] > s)
      /\ \A m \in Nodes \ {p} : pc'[m] = pc[m] /\ peer'[m] = peer[m]
  <2> HIDE DEF next
  <2> QED BY <1>1, <1>3, <1>6, <1>7, GotoIs
<1>9. /\ step' \in [Nodes -> Nat] /\ step'[p] = r + 1
      /\ \A m \in Nodes \ {p} : step'[m] = step[m]
  BY <1>1, <1>3, <1>4, <1>6 DEF Control
<1>10. Others(p)
  BY <1>8, <1>9 DEF Others
<1>11. Control'
  <2>1. r < Len(Rounds) => r + 1 \in 1 .. Len(Rounds)
    BY <1>4
  <2>2. ~(r < Len(Rounds)) => r + 1 = Len(Rounds) + 1
    BY <1>4
  <2>3. r + 1 \in Nat
    BY <1>4
  <2>4. InOrder(next, r + 1)
    BY <2>1, <2>2, <2>3 DEF InOrder, NodePc, RoundPc, AfterPc
  <2>5. InOrder(pc'[p], step'[p])
    BY <1>8, <1>9, <2>4
  <2> QED BY <1>1, <1>3, <1>8, <1>9, <1>10, <2>5, NodeNumbers, ControlStep
<1>12. Faults'
  BY <1>1 DEF Faults
<1>13. Streams'
  <2>1. ASSUME NEW q \in Parties \ {p} PROVE SendsTo(p, q) /\ TakesFrom(p, q)
    <3>0. pc[p] \in RoundPc
      BY <1>1 DEF RoundPc
    <3> DEFINE b == Len(Inputs) + 2 * (r - 1)
    <3>1. b \in Nat /\ Sent(p, q) = b + 2 /\ Got(p, q) = b + (IF e > q THEN 2 ELSE 1)
      BY <1>1, <3>0, RoundCounts
    <3>2. Base(pc'[p], step'[p]) = b + 2
      <4>1. pc'[p] # "input"
        BY <1>7, <1>8
      <4>2. Base(pc'[p], step'[p]) = Len(Inputs) + 2 * ((r + 1) - 1)
        BY <1>9, <4>1 DEF Base
      <4> QED BY <1>4, <4>2, Counts
    <3> HIDE DEF b
    <3>3. Sent(p, q)' = b + 2 /\ Got(p, q)' = b + 2
      <4>1. pc'[p] \in {"input", "slices"} \cup AfterPc
        BY <1>8 DEF AfterPc
      <4>2. ~(peer'[p] > q) /\ Base(pc'[p], step'[p]) \in Nat
        BY <1>8, <3>1, <3>2
      <4> QED BY <3>2, <4>1, <4>2, FreshCounts
    <3>4. SendsTo(p, q)
      <4>1. pipe'[<<p, q>>] = pipe[<<p, q>>]
        BY <1>2, <1>3, NodeNumbers DEF Shrinks
      <4> QED BY <3>1, <3>3, <4>1, Zenon DEF SendsTo
    <3>5. /\ e = q => Got(p, q)' = Got(p, q) + 1
          /\ e # q => Got(p, q)' = Got(p, q)
      <4>1. e >= q
        BY <1>1, <1>3, AtLast
      <4>2. e \in Nat /\ q \in Nat
        BY <1>3, NodeNumbers
      <4> HIDE DEF e
      <4> QED BY <3>1, <3>3, <4>1, <4>2
    <3>6. TakesFrom(p, q)
      <4> HIDE DEF e
      <4> QED BY <1>1, <1>2, <1>3, <3>5, TakesFromPeer
    <3> QED BY <3>4, <3>6
  <2>2. pipe' = [mn \in Nodes \X Nodes |-> pipe'[mn]]
    BY <1>2 DEF Shrinks
  <2>3. \A a, b \in Nodes : (a = b \/ (a # p /\ b # p)) => pipe'[<<a, b>>] = pipe[<<a, b>>]
    BY <1>2, <1>3 DEF Shrinks
  <2>4. wrong' = wrong
    BY <1>1
  <2> QED BY <1>1, <1>3, <1>10, <1>11, <2>1, <2>2, <2>3, <2>4, StreamsStep
<1>14. \A q \in Parties \ {p} : opened'[q] = opened[q]
  BY <1>1, <1>6 DEF Stores
<1>15. Stores'
  <2>1. Local(p) /\ opened[p] = [g \in OpenedUpTo(r - 1) |-> SumOf(wrong, g, Parties)]
    BY <1>1, Zenon DEF Stores, Local, OpenedSoFar, RoundsDone
  <2>2. OpenedUpTo(r) = OpenedUpTo(r - 1) \cup OpenedIn(r)
    <3>1. 1 .. r = (1 .. (r - 1)) \cup {r}
      BY <1>4
    <3>2. {OpenedIn(k) : k \in 1 .. r} = {OpenedIn(k) : k \in 1 .. (r - 1)} \cup {OpenedIn(r)}
      BY <3>1
    <3> QED BY <3>2 DEF OpenedUpTo
  <2>3. opened'[p] = [g \in OpenedUpTo(r) |-> SumOf(wrong, g, Parties)]
    <3> DEFINE new == [g \in DOMAIN opened[p] \cup DOMAIN Unpacked(r, values) |->
                         IF g \in DOMAIN opened[p] THEN opened[p][g] ELSE Unpacked(r, values)[g]]
               old == OpenedUpTo(r - 1)
               sum(g) == SumOf(wrong, g, Parties)
    <3>1. opened'[p] = new
      <4> HIDE DEF new
      <4>1. opened' = [opened EXCEPT ![p] = new]
        BY <1>6 DEF new
      <4> QED BY <1>1, <4>1 DEF Stores
    <3>2. DOMAIN opened[p] = old /\ \A g \in old : opened[p][g] = sum(g)
      BY <2>1
    <3>3. DOMAIN Unpacked(r, values) = OpenedIn(r) /\ \A g \in OpenedIn(r) : Unpacked(r, values)[g] = sum(g)
      BY <1>5
    <3> HIDE DEF old, sum, r
    <3>4. new = [g \in old \cup OpenedIn(r) |-> sum(g)]
      <4>1. \A g \in old \cup OpenedIn(r) :
              (IF g \in DOMAIN opened[p] THEN opened[p][g] ELSE Unpacked(r, values)[g]) = sum(g)
        BY <3>2, <3>3
      <4> QED BY <3>2, <3>3, <4>1
    <3> QED BY <2>2, <3>1, <3>4, Zenon DEF old, sum
  <2>4. pc'[p] # "input" /\ RoundsDone(p)' = r
    <3>1. pc'[p] # "input" /\ (r + 1) - 1 = r
      BY <1>4, <1>7, <1>8
    <3> QED BY <1>9, <3>1 DEF RoundsDone
  <2>5. OpenedSoFar(p)'
    BY <1>1, <2>3, <2>4, Zenon DEF OpenedSoFar
  <2>6. WireRight(p)'
    BY <1>1, <2>1, <2>4 DEF Local, WireRight
  <2>7. AddingRight(p)' /\ CollectingRight(p)'
    BY <1>7, <1>8 DEF AddingRight, CollectingRight
  <2>8. Local(p)'
    BY <2>5, <2>6, <2>7 DEF Local
  <2>9. StoreTypes'
    BY <1>1, <1>2, <1>6 DEF Stores, StoreTypes
  <2>10. \A q \in Parties \ {p} : /\ wire'[q] = wire[q] /\ acc'[q] = acc[q]
                                  /\ agg'[q] = agg[q] /\ opened'[q] = opened[q]
    BY <1>1, <1>2, <1>14 DEF Stores
  <2> QED BY <1>1, <1>3, <1>10, <2>8, <2>9, <2>10, StoresStep
<1>16. Dealing'
  <2>1. pc[p] \in EarlyPc /\ pc'[p] \in EarlyPc
    BY <1>1, <1>8 DEF EarlyPc, RoundPc
  <2>2. \A q \in Parties : pipe'[<<0, q>>] = pipe[<<0, q>>] /\ pipe'[<<q, 0>>] = pipe[<<q, 0>>]
    BY <1>2, <1>3, NodeNumbers DEF Shrinks
  <2> QED BY <1>1, <1>10, <1>14, <2>1, <2>2, DealingStep
<1> QED
  BY <1>11, <1>12, <1>13, <1>15, <1>16 DEF RoundInv

LEMMA CollectSumsKeeps ==
  ASSUME RoundInv, NEW p \in Parties, CollectSums(p)
  PROVE  RoundInv'
BY CollectGoesOn, CollectFinishes

-----------------------------------------------------------------------------
(* The inputs.                                                             *)

\* A party is done with an input gate.
InputDone(p) ==
  /\ PcTypes /\ Others(p) /\ step' \in [Nodes -> Nat]
  /\ pc'[p] \in {"input", "slices"} /\ InOrder(pc'[p], step'[p])
  /\ Base(pc'[p], step'[p]) = step[p]
  /\ pc'[p] = "input" => step'[p] = step[p] + 1
  /\ pc'[p] = "slices" => step'[p] = 1 /\ step[p] = Len(Inputs)
  /\ \A s \in Parties \ {p} : ~(peer'[p] > s)

LEMMA NextInputIs ==
  ASSUME Control, NEW p \in Parties, pc[p] = "input", NextInput(p)
  PROVE  InputDone(p)
<1> DEFINE s == step[p]
<1>1. p \in Nodes /\ s \in Nat /\ s \in 1 .. Len(Inputs) /\ Len(Inputs) \in Nat
  BY NodeNumbers, Counts DEF Control, InOrder
<1>2. CASE s < Len(Inputs)
  <2>1. step' = [step EXCEPT ![p] = s + 1] /\ Goto(p, "input")
    BY <1>2 DEF NextInput, Inp
  <2>2. /\ PcTypes /\ pc'[p] = "input"
        /\ \A q \in Parties \ {p} : ~(peer'[p] > q)
        /\ \A m \in Nodes \ {p} : pc'[m] = pc[m] /\ peer'[m] = peer[m]
    BY <1>1, <2>1, GotoIs DEF NodePc
  <2>3. /\ step' \in [Nodes -> Nat] /\ step'[p] = s + 1
        /\ \A m \in Nodes \ {p} : step'[m] = step[m]
    BY <1>1, <2>1 DEF Control
  <2>4. InOrder("input", s + 1) /\ Base("input", s + 1) = s
    BY <1>1, <1>2 DEF InOrder, NodePc, RoundPc, AfterPc, Base
  <2>5. pc'[p] = "input" /\ pc'[p] # "slices"
    BY <2>2
  <2> QED BY <2>2, <2>3, <2>4, <2>5, Zenon DEF InputDone, Others
<1>3. CASE ~(s < Len(Inputs))
  <2>1. step' = [step EXCEPT ![p] = 1] /\ Goto(p, "slices")
    BY <1>3 DEF NextInput, Inp
  <2>2. /\ PcTypes /\ pc'[p] = "slices"
        /\ \A q \in Parties \ {p} : ~(peer'[p] > q)
        /\ \A m \in Nodes \ {p} : pc'[m] = pc[m] /\ peer'[m] = peer[m]
    BY <1>1, <2>1, GotoIs DEF NodePc
  <2>3. /\ step' \in [Nodes -> Nat] /\ step'[p] = 1
        /\ \A m \in Nodes \ {p} : step'[m] = step[m]
    BY <1>1, <2>1 DEF Control
  <2>4. s = Len(Inputs)
    BY <1>1, <1>3
  <2>5. InOrder("slices", 1) /\ Base("slices", 1) = s
    BY <1>1, <2>4, Counts DEF InOrder, NodePc, RoundPc, AfterPc, Base
  <2>6. pc'[p] = "slices" /\ pc'[p] # "input"
    BY <2>2
  <2> QED BY <2>2, <2>3, <2>4, <2>5, <2>6, Zenon DEF InputDone, Others
<1> QED
  BY <1>2, <1>3

\* The counts of a party that is at an input gate.
LEMMA InputCounts ==
  ASSUME Control, NEW p \in Parties, NEW q \in Parties \ {p}, pc[p] = "input"
  PROVE  /\ step[p] \in 1 .. Len(Inputs) /\ step[p] \in Nat /\ (step[p] - 1) + 1 = step[p]
         /\ Got(p, q) = step[p] - 1
         /\ Sent(p, q) = IF Inputs[step[p]] = p /\ peer[p] > q THEN step[p] ELSE step[p] - 1
<1>1. step[p] \in 1 .. Len(Inputs) /\ step[p] \in Nat
  BY Counts DEF Control, InOrder
<1>2. Base("input", step[p]) = step[p] - 1
  BY DEF Base
<1> QED
  BY <1>1, <1>2 DEF Sent, Got, SentBy, GotBy

\* What has to be shown of the step that gets a party done with an input.
LEMMA InputKeeps ==
  ASSUME RoundInv, NEW p \in Parties, pc[p] = "input", InputDone(p),
         UNCHANGED <<acc, agg, opened, bad, broken, threw, wrong>>,
         wire' = [wire EXCEPT ![p] = [i \in 1 .. step[p] |-> i]],
         pipe' = [mn \in Nodes \X Nodes |-> pipe'[mn]],
         \A a, b \in Nodes : (a = 0 \/ b = 0 \/ a = b \/ (a # p /\ b # p)) => pipe'[<<a, b>>] = pipe[<<a, b>>],
         Control' => \A q \in Parties \ {p} : SendsTo(p, q) /\ TakesFrom(p, q)
  PROVE  RoundInv'
<1>1. p \in Nodes /\ 0 \in Nodes /\ p # 0 /\ \A q \in Parties : q \in Nodes
  BY NodeNumbers
<1>2. Control /\ Faults /\ Streams /\ Stores /\ Dealing
  BY DEF RoundInv
<1>3. /\ PcTypes /\ Others(p) /\ step' \in [Nodes -> Nat] /\ InOrder(pc'[p], step'[p])
      /\ pc'[p] \in {"input", "slices"}
      /\ pc'[p] = "input" => step'[p] = step[p] + 1
      /\ pc'[p] = "slices" => step'[p] = 1 /\ step[p] = Len(Inputs)
  BY DEF InputDone
<1>4. Control'
  BY <1>1, <1>2, <1>3, ControlStep
<1>5. Faults'
  BY <1>2 DEF Faults
<1>6. Streams'
  <2>1. \A q \in Parties \ {p} : SendsTo(p, q) /\ TakesFrom(p, q)
    BY <1>4
  <2> QED BY <1>1, <1>2, <1>3, <1>4, <2>1, StreamsStep
<1>7. Stores'
  <2>1. step[p] \in Nat /\ step[p] \in 1 .. Len(Inputs)
    BY <1>2, Counts DEF Control, InOrder
  <2>2. wire'[p] = [i \in 1 .. step[p] |-> i]
    BY <1>2 DEF Stores
  <2>3. step[p] = IF pc'[p] = "input" THEN step'[p] - 1 ELSE Len(Inputs)
    <3>1. CASE pc'[p] = "input"
      <4>1. step'[p] = step[p] + 1
        BY <1>3, <3>1
      <4>2. step'[p] - 1 = step[p]
        BY <2>1, <4>1
      <4> QED BY <3>1, <4>2
    <3>2. CASE pc'[p] = "slices"
      BY <1>3, <3>2
    <3> QED BY <1>3, <3>1, <3>2
  <2>4. WireRight(p)'
    BY <2>2, <2>3, Zenon DEF WireRight
  <2>5. RoundsDone(p) = 0 /\ RoundsDone(p)' = 0
    BY <1>3 DEF RoundsDone
  <2>6. OpenedSoFar(p)'
    <3>1. OpenedSoFar(p)
      BY <1>2 DEF Stores, Local
    <3>2. opened' = opened /\ wrong' = wrong /\ RoundsDone(p)' = RoundsDone(p)
      BY <2>5
    <3> QED BY <3>1, <3>2, Zenon DEF OpenedSoFar
  <2>7. AddingRight(p)' /\ CollectingRight(p)'
    BY <1>3 DEF AddingRight, CollectingRight
  <2>8. Local(p)'
    BY <2>4, <2>6, <2>7 DEF Local
  <2>9. StoreTypes'
    BY <1>2 DEF Stores, StoreTypes
  <2>10. \A q \in Parties \ {p} : /\ wire'[q] = wire[q] /\ acc'[q] = acc[q]
                                  /\ agg'[q] = agg[q] /\ opened'[q] = opened[q]
    BY <1>2 DEF Stores
  <2> QED BY <1>1, <1>2, <1>3, <2>8, <2>9, <2>10, StoresStep
<1>8. Dealing'
  <2>1. pc[p] \in EarlyPc /\ pc'[p] \in EarlyPc
    BY <1>3 DEF EarlyPc, RoundPc
  <2>2. \A q \in Parties : pipe'[<<0, q>>] = pipe[<<0, q>>] /\ pipe'[<<q, 0>>] = pipe[<<q, 0>>]
    BY <1>1
  <2> QED BY <1>2, <1>3, <2>1, <2>2, DealingStep
<1> QED
  BY <1>4, <1>5, <1>6, <1>7, <1>8 DEF RoundInv

LEMMA RecvInputKeeps ==
  ASSUME RoundInv, NEW p \in Parties, RecvInput(p)
  PROVE  RoundInv'
<1> DEFINE s == step[p]
           o == Inputs[s]
<1>1. /\ Control /\ Streams /\ Stores
      /\ pc[p] = "input" /\ o # p /\ Recv(p, o, 1)
      /\ wire' = [wire EXCEPT ![p] = wire[p] \o Received(p, o, 1)]
      /\ NextInput(p)
      /\ UNCHANGED <<acc, agg, opened, bad, broken, threw, wrong>>
  BY Zenon DEF RoundInv, RecvInput, Inp
<1>2. s \in 1 .. Len(Inputs) /\ s \in Nat /\ (s - 1) + 1 = s /\ s \in 1 .. AllMessages
  BY <1>1, Counts DEF Control, InOrder, AllMessages
<1>3. p \in Nodes /\ o \in Parties \ {p} /\ o \in Nodes /\ o # 0
  BY <1>1, <1>2, NodeNumbers, Counts
<1>4. Shrinks(o, p, 1)
  BY <1>1, <1>3, RecvIs
<1>5. InputDone(p)
  BY <1>1, NextInputIs
<1>6. \A q \in Parties \ {p} : Got(p, q) = s - 1 /\ Sent(p, q) = s - 1
  BY <1>1, InputCounts
<1>7. /\ \A m, n \in Parties : Message(wrong, m, n, s) = IF o = m THEN <<s>> ELSE <<>>
  BY <1>2, InputMessage
<1>8. /\ Readable(wrong, o, p, Got(p, o), pipe[<<o, p>>], 1)
      /\ Received(p, o, 1) = <<s>>
  <2>1. Got(p, o) + 1 = s
    BY <1>2, <1>3, <1>6
  <2>2. Message(wrong, o, p, Got(p, o) + 1) = <<s>>
    BY <1>3, <1>7, <2>1
  <2>3. 1 = Len(Message(wrong, o, p, Got(p, o) + 1)) /\ Got(p, o) + 1 <= AllMessages
    BY <1>2, <2>1, <2>2, Counts
  <2>4. Len(pipe[<<o, p>>]) >= 1
    BY <1>4 DEF Shrinks
  <2> HIDE DEF o
  <2>5. /\ Readable(wrong, o, p, Got(p, o), pipe[<<o, p>>], 1)
        /\ Received(p, o, 1) = Message(wrong, o, p, Got(p, o) + 1)
    BY <1>1, <1>3, <2>3, <2>4, ReceiptIs
  <2> QED BY <2>2, <2>5, Zenon
<1>9. ASSUME Control', NEW q \in Parties \ {p} PROVE SendsTo(p, q) /\ TakesFrom(p, q)
  <2>1. Got(p, q)' = s /\ Sent(p, q)' = s
    <3>1. pc'[p] \in {"input", "slices"} \cup AfterPc /\ ~(peer'[p] > q) /\ Base(pc'[p], step'[p]) = s
      BY <1>5 DEF InputDone
    <3> QED BY <1>2, <3>1, FreshCounts
  <2>2. Got(p, q) + 1 = s /\ Sent(p, q) + 1 = s
    BY <1>2, <1>6
  <2>3. SendsTo(p, q)
    <3>1. pipe'[<<p, q>>] = pipe[<<p, q>>]
      BY <1>3, <1>4, NodeNumbers DEF Shrinks
    <3>2. Message(wrong, p, q, Sent(p, q) + 1) = <<>>
      BY <1>3, <1>7, <2>2
    <3> QED BY <2>1, <2>2, <3>1, <3>2, Zenon DEF SendsTo
  <2>4. CASE q = o
    <3>1. Takes(p, q, 1)
      BY <1>4, <1>8, <2>1, <2>2, <2>4, Zenon DEF Takes, Shrinks
    <3>2. TakesFrom(p, q)
      BY <3>1 DEF TakesFrom
    <3> QED BY <2>3, <3>2
  <2>5. CASE q # o
    <3>1. pipe'[<<q, p>>] = pipe[<<q, p>>]
      BY <1>3, <1>4, <2>5, NodeNumbers DEF Shrinks
    <3>2. Message(wrong, q, p, Got(p, q) + 1) = <<>>
      BY <1>7, <2>2, <2>5
    <3>3. TakesFrom(p, q)
      BY <2>1, <2>2, <3>1, <3>2, Zenon DEF TakesFrom
    <3> QED BY <2>3, <3>3
  <2> QED BY <2>4, <2>5
<1>10. wire' = [wire EXCEPT ![p] = [i \in 1 .. s |-> i]]
  <2>1. wire[p] = [i \in 1 .. (s - 1) |-> i]
    BY <1>1, Zenon DEF Stores, Local, WireRight
  <2> DEFINE t == s - 1
  <2>2. t \in Nat /\ s = t + 1
    BY <1>2
  <2> HIDE DEF t
  <2>3. [i \in 1 .. t |-> i] \o <<t + 1>> = [i \in 1 .. (t + 1) |-> i]
    BY <2>2
  <2>4. wire[p] \o Received(p, o, 1) = [i \in 1 .. s |-> i]
    BY <1>8, <2>1, <2>2, <2>3 DEF t
  <2> QED BY <1>1, <2>4, Zenon
<1>11. pipe' = [mn \in Nodes \X Nodes |-> pipe'[mn]]
  BY <1>4 DEF Shrinks
<1>12. \A a, b \in Nodes : (a = 0 \/ b = 0 \/ a = b \/ (a # p /\ b # p)) => pipe'[<<a, b>>] = pipe[<<a, b>>]
  BY <1>3, <1>4, NodeNumbers DEF Shrinks
<1> QED
  BY <1>1, <1>5, <1>9, <1>10, <1>11, <1>12, InputKeeps

LEMMA SendInputEnds ==
  ASSUME RoundInv, NEW p \in Parties, SendInput(p), Last(p)
  PROVE  RoundInv'
<1> DEFINE s == step[p]
           e == peer[p]
<1>1. /\ Control /\ Streams /\ Stores
      /\ pc[p] = "input" /\ Inputs[s] = p /\ Send(p, e, <<s>>)
      /\ NextInput(p) /\ wire' = [wire EXCEPT ![p] = Append(wire[p], s)]
      /\ UNCHANGED <<acc, agg, opened, bad, broken, threw, wrong>>
  BY Zenon DEF RoundInv, SendInput, Inp
<1>2. s \in 1 .. Len(Inputs) /\ s \in Nat /\ (s - 1) + 1 = s
  BY <1>1, Counts DEF Control, InOrder
<1>3. p \in Nodes /\ e \in Parties /\ e \in Nodes /\ e # p /\ e # 0
  BY <1>1, PeerIs
<1>4. Grows(p, e, <<s>>)
  BY <1>1, <1>3, SendIs
<1>5. InputDone(p)
  BY <1>1, NextInputIs
<1>6. \A m, n \in Parties : Message(wrong, m, n, s) = IF p = m THEN <<s>> ELSE <<>>
  BY <1>1, <1>2, InputMessage
<1>7. ASSUME Control', NEW q \in Parties \ {p} PROVE SendsTo(p, q) /\ TakesFrom(p, q)
  <2>1. Got(p, q)' = s /\ Sent(p, q)' = s
    <3>1. pc'[p] \in {"input", "slices"} \cup AfterPc /\ ~(peer'[p] > q) /\ Base(pc'[p], step'[p]) = s
      BY <1>5 DEF InputDone
    <3> QED BY <1>2, <3>1, FreshCounts
  <2>2. Got(p, q) = s - 1 /\ Sent(p, q) = IF e > q THEN s ELSE s - 1
    BY <1>1, InputCounts
  <2>3. TakesFrom(p, q)
    <3>1. pipe'[<<q, p>>] = pipe[<<q, p>>]
      BY <1>3, <1>4, NodeNumbers DEF Grows
    <3>2. Got(p, q)' = Got(p, q) + 1 /\ Got(p, q) + 1 = s
      BY <1>2, <2>1, <2>2
    <3>3. Message(wrong, q, p, Got(p, q) + 1) = <<>>
      BY <1>6, <3>2
    <3> QED BY <3>1, <3>2, <3>3, Zenon DEF TakesFrom
  <2>4. /\ e = q => Sent(p, q)' = Sent(p, q) + 1 /\ Message(wrong, p, q, Sent(p, q) + 1) = <<s>>
        /\ e # q => Sent(p, q)' = Sent(p, q)
    <3>1. e >= q /\ e \in Nat /\ q \in Nat
      BY <1>1, <1>3, AtLast, NodeNumbers
    <3>2. CASE e = q
      <4>1. Sent(p, q) = s - 1
        BY <1>1, <2>2, <3>2, PeerIs
      <4>2. Sent(p, q)' = Sent(p, q) + 1 /\ Sent(p, q) + 1 = s
        BY <1>2, <2>1, <4>1
      <4> QED BY <1>6, <3>2, <4>2
    <3>3. CASE e # q
      <4>1. e > q
        BY <3>1, <3>3
      <4> QED BY <2>1, <2>2, <3>3, <4>1
    <3> QED BY <3>2, <3>3
  <2>5. SendsTo(p, q)
    <3> HIDE DEF e, s
    <3> QED BY <1>1, <1>3, <1>4, <2>4, SendsToPeer
  <2> QED BY <2>3, <2>5
<1>8. wire' = [wire EXCEPT ![p] = [i \in 1 .. s |-> i]]
  <2>1. wire[p] = [i \in 1 .. (s - 1) |-> i]
    BY <1>1, Zenon DEF Stores, Local, WireRight
  <2> DEFINE t == s - 1
  <2>2. t \in Nat /\ s = t + 1
    BY <1>2
  <2> HIDE DEF t
  <2>3. Append([i \in 1 .. t |-> i], t + 1) = [i \in 1 .. (t + 1) |-> i]
    BY <2>2
  <2>4. Append(wire[p], s) = [i \in 1 .. s |-> i]
    BY <2>1, <2>2, <2>3 DEF t
  <2> QED BY <1>1, <2>4, Zenon
<1>9. pipe' = [mn \in Nodes \X Nodes |-> pipe'[mn]]
  BY <1>4 DEF Grows
<1>10. \A a, b \in Nodes : (a = 0 \/ b = 0 \/ a = b \/ (a # p /\ b # p)) => pipe'[<<a, b>>] = pipe[<<a, b>>]
  BY <1>3, <1>4, NodeNumbers DEF Grows
<1> QED
  BY <1>1, <1>5, <1>7, <1>8, <1>9, <1>10, InputKeeps

LEMMA SendInputGoesOn ==
  ASSUME RoundInv, NEW p \in Parties, SendInput(p), ~Last(p)
  PROVE  RoundInv'
<1> DEFINE s == step[p]
           e == peer[p]
<1>1. /\ Control /\ Faults /\ Streams /\ Stores /\ Dealing
      /\ pc[p] = "input" /\ Inputs[s] = p /\ Send(p, e, <<s>>)
      /\ Loop(p, "input")
      /\ UNCHANGED <<step, wire, acc, agg, opened, bad, broken, threw, wrong>>
  BY Zenon DEF RoundInv, SendInput, Inp
<1>2. s \in 1 .. Len(Inputs) /\ s \in Nat /\ (s - 1) + 1 = s
  BY <1>1, Counts DEF Control, InOrder
<1>3. p \in Nodes /\ e \in Parties /\ e \in Nodes /\ e # p /\ e # 0
  BY <1>1, PeerIs
<1>4. Grows(p, e, <<s>>)
  BY <1>1, <1>3, SendIs
<1>5. PcTypes /\ LoopStep(p, "input") /\ Others(p)
  BY <1>1, <1>3, LoopIs DEF NodePc, Others
<1>6. pc'[p] = "input" /\ \A q \in Parties \ {p} : peer'[p] > q <=> e >= q
  BY <1>1, <1>5 DEF LoopStep
<1>7. Control'
  <2>1. step' \in [Nodes -> Nat] /\ InOrder(pc'[p], step'[p])
    BY <1>1, <1>6 DEF Control
  <2> QED BY <1>1, <1>3, <1>5, <2>1, NodeNumbers, ControlStep
<1>8. Faults'
  BY <1>1 DEF Faults
<1>9. Streams'
  <2>1. ASSUME NEW q \in Parties \ {p} PROVE SendsTo(p, q) /\ TakesFrom(p, q)
    <3>1. /\ Got(p, q) = s - 1 /\ Got(p, q)' = s - 1
          /\ Sent(p, q) = IF e > q THEN s ELSE s - 1
          /\ Sent(p, q)' = IF peer'[p] > q THEN s ELSE s - 1
      <4>1. step'[p] = s /\ Base("input", s) = s - 1
        BY <1>1 DEF Base
      <4>2. Got(p, q)' = s - 1 /\ Sent(p, q)' = IF peer'[p] > q THEN s ELSE s - 1
        <5> DEFINE f == peer'[p]
        <5>1. /\ Got(p, q)' = GotBy("input", f, s, q) /\ Sent(p, q)' = SentBy(p, "input", f, s, q)
          BY <1>6, <4>1 DEF Got, Sent
        <5> HIDE DEF f
        <5>2. GotBy("input", f, s, q) = s - 1 /\ SentBy(p, "input", f, s, q) = IF f > q THEN s ELSE s - 1
          BY <1>1, <1>2, <4>1 DEF GotBy, SentBy
        <5> QED BY <5>1, <5>2 DEF f
      <4> QED BY <1>1, <4>2, InputCounts
    <3>2. TakesFrom(p, q)
      <4>1. pipe'[<<q, p>>] = pipe[<<q, p>>]
        BY <1>3, <1>4, NodeNumbers DEF Grows
      <4> QED BY <3>1, <4>1, Zenon DEF TakesFrom
    <3>3. /\ e = q => Sent(p, q)' = Sent(p, q) + 1 /\ Message(wrong, p, q, Sent(p, q) + 1) = <<s>>
          /\ e # q => Sent(p, q)' = Sent(p, q)
      <4>1. e \in Nat /\ q \in Nat
        BY <1>3, NodeNumbers
      <4>2. CASE e = q
        <5>1. ~(e > q) /\ e >= q
          BY <4>1, <4>2
        <5>2. Sent(p, q) = s - 1 /\ Sent(p, q)' = s
          BY <1>6, <3>1, <5>1
        <5>3. Sent(p, q)' = Sent(p, q) + 1 /\ Sent(p, q) + 1 = s
          BY <1>2, <5>2
        <5>4. Message(wrong, p, q, s) = <<s>>
          BY <1>1, <1>2, InputMessage
        <5> QED BY <4>2, <5>3, <5>4
      <4>3. CASE e # q
        <5>1. e > q <=> e >= q
          BY <4>1, <4>3
        <5> QED BY <1>6, <3>1, <4>3, <5>1
      <4> QED BY <4>2, <4>3
    <3>4. SendsTo(p, q)
      <4> HIDE DEF e, s
      <4> QED BY <1>1, <1>3, <1>4, <3>3, SendsToPeer
    <3> QED BY <3>2, <3>4
  <2>2. pipe' = [mn \in Nodes \X Nodes |-> pipe'[mn]]
    BY <1>4 DEF Grows
  <2>3. \A a, b \in Nodes : (a = b \/ (a # p /\ b # p)) => pipe'[<<a, b>>] = pipe[<<a, b>>]
    BY <1>3, <1>4 DEF Grows
  <2>4. wrong' = wrong
    BY <1>1
  <2> QED BY <1>1, <1>3, <1>5, <1>7, <2>1, <2>2, <2>3, <2>4, StreamsStep
<1>10. Stores'
  <2>1. WireRight(p)' /\ AddingRight(p)' /\ CollectingRight(p)'
    BY <1>1, <1>6 DEF Stores, Local, WireRight, AddingRight, CollectingRight
  <2>2. OpenedSoFar(p)'
    <3>1. OpenedSoFar(p)
      BY <1>1 DEF Stores, Local
    <3>2. opened' = opened /\ wrong' = wrong /\ RoundsDone(p)' = RoundsDone(p)
      BY <1>1, <1>6 DEF RoundsDone
    <3> QED BY <3>1, <3>2, Zenon DEF OpenedSoFar
  <2>3. Local(p)'
    BY <2>1, <2>2 DEF Local
  <2>4. StoreTypes'
    BY <1>1 DEF Stores, StoreTypes
  <2>5. \A q \in Parties \ {p} : /\ wire'[q] = wire[q] /\ acc'[q] = acc[q]
                                 /\ agg'[q] = agg[q] /\ opened'[q] = opened[q]
    BY <1>1
  <2> QED BY <1>1, <1>3, <1>5, <2>3, <2>4, <2>5, StoresStep
<1>11. Dealing'
  <2>1. pc[p] \in EarlyPc /\ pc'[p] \in EarlyPc
    BY <1>1, <1>6 DEF EarlyPc
  <2>2. \A q \in Parties : pipe'[<<0, q>>] = pipe[<<0, q>>] /\ pipe'[<<q, 0>>] = pipe[<<q, 0>>]
    BY <1>3, <1>4, NodeNumbers DEF Grows
  <2> QED BY <1>1, <1>5, <2>1, <2>2, DealingStep
<1> QED
  BY <1>7, <1>8, <1>9, <1>10, <1>11 DEF RoundInv

LEMMA SendInputKeeps ==
  ASSUME RoundInv, NEW p \in Parties, SendInput(p)
  PROVE  RoundInv'
BY SendInputGoesOn, SendInputEnds

-----------------------------------------------------------------------------
(* The dealer.                                                             *)

\* Steps between a node and the dealer do not concern the parties' streams.
LEMMA TalkKeeps ==
  ASSUME RoundInv, NEW n \in Nodes, pc[n] \in AfterPc, pc'[n] \in AfterPc, PcTypes,
         \A m \in Nodes \ {n} : pc'[m] = pc[m] /\ peer'[m] = peer[m],
         UNCHANGED <<step, wire, acc, agg, opened, wrong, broken, threw>>,
         pipe' = [mn \in Nodes \X Nodes |-> pipe'[mn]],
         \A a, b \in Nodes : (a = b \/ (a # 0 /\ b # 0) \/ (a # n /\ b # n)) => pipe'[<<a, b>>] = pipe[<<a, b>>]
  PROVE  Control' /\ Faults' /\ Streams' /\ Stores' /\ Others(n)
<1>1. Control /\ Faults /\ Streams /\ Stores
  BY DEF RoundInv
<1>2. Others(n)
  BY DEF Others
<1>3. pc[n] # "input" /\ pc'[n] # "input" /\ pc[n] \notin RoundPc /\ pc'[n] \notin RoundPc
  BY DEF AfterPc, RoundPc
<1>4. Control'
  <2>1. step' \in [Nodes -> Nat] /\ step'[n] = step[n] /\ step[0] = 1
    BY <1>1 DEF Control
  <2>2. n \in Parties => InOrder(pc'[n], step'[n])
    <3>1. n \in Parties => InOrder(pc[n], step[n])
      BY <1>1 DEF Control
    <3> QED BY <1>3, <2>1, <3>1 DEF InOrder, AfterPc, NodePc
  <2> QED BY <1>1, <1>2, <2>1, <2>2, ControlStep
<1>5. Faults'
  BY <1>1 DEF Faults
<1>6. Streams'
  <2>1. ASSUME n \in Parties, NEW q \in Parties \ {n} PROVE SendsTo(n, q) /\ TakesFrom(n, q)
    <3>1. pipe'[<<n, q>>] = pipe[<<n, q>>] /\ pipe'[<<q, n>>] = pipe[<<q, n>>]
      BY <2>1, NodeNumbers
    <3>2. Base(pc'[n], step'[n]) = Base(pc[n], step[n])
      BY <1>3 DEF Base
    <3>3. Sent(n, q)' = Sent(n, q) /\ Got(n, q)' = Got(n, q)
      BY <1>3, <3>2 DEF Sent, Got, SentBy, GotBy, RoundPc
    <3> QED BY <3>1, <3>3, Zenon DEF SendsTo, TakesFrom
  <2>2. wrong' = wrong
    OBVIOUS
  <2>3. \A a, b \in Nodes : (a = b \/ (a # n /\ b # n)) => pipe'[<<a, b>>] = pipe[<<a, b>>]
    OBVIOUS
  <2> QED BY <1>1, <1>2, <1>4, <2>1, <2>2, <2>3, StreamsStep
<1>7. Stores'
  <2>1. ASSUME n \in Parties PROVE Local(n)'
    <3>1. Local(n)
      BY <1>1, <2>1 DEF Stores
    <3>2. WireRight(n)' /\ AddingRight(n)' /\ CollectingRight(n)'
      BY <1>3, <3>1 DEF Local, WireRight, AddingRight, CollectingRight, RoundPc
    <3>3. opened' = opened /\ wrong' = wrong /\ RoundsDone(n)' = RoundsDone(n)
      BY <1>3 DEF RoundsDone
    <3>4. OpenedSoFar(n)'
      BY <3>1, <3>3, Zenon DEF OpenedSoFar, Local
    <3> QED BY <3>2, <3>4 DEF Local
  <2>2. StoreTypes'
    BY <1>1 DEF Stores, StoreTypes
  <2>3. \A q \in Parties \ {n} : /\ wire'[q] = wire[q] /\ acc'[q] = acc[q]
                                 /\ agg'[q] = agg[q] /\ opened'[q] = opened[q]
    OBVIOUS
  <2>4. wrong' = wrong
    OBVIOUS
  <2> QED BY <1>1, <1>2, <2>1, <2>2, <2>3, <2>4, StoresStep
<1> QED
  BY <1>2, <1>4, <1>5, <1>6, <1>7

\* The dealer's messages number t + 1 to g, which are in its pipe to a party.
Queue(b, g, t) == [k \in 1 .. (g - t) |-> FromTheDealer(b, t + k)]

LEMMA QueueGrows ==
  ASSUME NEW b, NEW g \in Nat, NEW t \in Nat, t <= g
  PROVE  Queue(b, g, t) \o <<FromTheDealer(b, g + 1)>> = Queue(b, g + 1, t)
<1> DEFINE l == g - t
<1>1. l \in Nat /\ (g + 1) - t = l + 1 /\ t + (l + 1) = g + 1
  OBVIOUS
<1> HIDE DEF l
<1>2. Len([k \in 1 .. l |-> FromTheDealer(b, t + k)]) = l
  BY <1>1
<1>3. [k \in 1 .. l |-> FromTheDealer(b, t + k)] \o <<FromTheDealer(b, t + (l + 1))>> =
        [k \in 1 .. (l + 1) |-> FromTheDealer(b, t + k)]
  BY <1>1
<1> QED
  BY <1>1, <1>3 DEF Queue, l

LEMMA QueueShrinks ==
  ASSUME NEW b, NEW g \in Nat, NEW t \in Nat, Len(Queue(b, g, t)) >= 1, t <= g
  PROVE  /\ t + 1 <= g
         /\ SubSeq(Queue(b, g, t), 1, 1)[1] = FromTheDealer(b, t + 1)
         /\ Rest(Queue(b, g, t), 1) = Queue(b, g, t + 1)
<1> DEFINE l == g - t
           q == [k \in 1 .. l |-> FromTheDealer(b, t + k)]
<1>1. l \in Nat /\ g - (t + 1) = l - 1 /\ g = t + l
  OBVIOUS
<1>2. Queue(b, g, t) = q
  BY DEF Queue
<1> HIDE DEF l
<1>3. Len(q) = l /\ l >= 1
  BY <1>1, <1>2
<1>4. SubSeq(q, 1, 1)[1] = FromTheDealer(b, t + 1)
  BY <1>1, <1>3
<1>5. SubSeq(q, 1 + 1, l) = [k \in 1 .. (l - 1) |-> FromTheDealer(b, (t + 1) + k)]
  <2>1. \A k \in 1 .. (l - 1) : t + ((1 + 1) + k - 1) = (t + 1) + k /\ (1 + 1) + k - 1 \in 1 .. l
    BY <1>1
  <2>2. SubSeq(q, 1 + 1, l) = [k \in 1 .. (l - 1) |-> q[(1 + 1) + k - 1]]
    BY <1>1, <1>3
  <2> QED BY <2>1, <2>2
<1> QED
  BY <1>1, <1>2, <1>3, <1>4, <1>5 DEF Rest, Queue

\* The dealer's part of the invariant, of one party.
DealtTo(p) ==
  /\ Taken(p) <= Given(p)
  /\ pipe[<<0, p>>] = Queue(bad, Given(p), Taken(p))
  /\ Asked(p) => Answered(p)
  /\ pipe[<<p, 0>>] = IF Answered(p) /\ ~Asked(p) THEN <<Omega(p)>> ELSE <<>>
  /\ pc[p] \in {"masks", "done"} => bad = {}
  /\ pc[p] = "abort" => bad # {}

FoundBad ==
  /\ bad = UNION {Omega(p) : p \in {p \in Parties : Asked(p)}}
  /\ pc[0] \in {"masks", "done"} => bad = {}
  /\ pc[0] = "abort" => bad # {}

LEMMA DealingIs ==
  /\ Dealing => (\A p \in Parties : DealtTo(p)) /\ FoundBad
  /\ (\A p \in Parties : DealtTo(p))' /\ FoundBad' => Dealing'
<1>1. Dealing <=> (\A p \in Parties : DealtTo(p)) /\ FoundBad
  BY Zenon DEF Dealing, DealtTo, FoundBad, Queue
<1>2. Dealing' <=> (\A p \in Parties : DealtTo(p))' /\ FoundBad'
  BY <1>1, PTL
<1> QED
  BY <1>1, <1>2

LEMMA DealerSendsKeeps ==
  ASSUME RoundInv, NEW label, NEW el, NEW next, DealerSends(label, <<el>>, next),
         \/ label = "key" /\ next = "omega" /\ el = "cc_key"
         \/ label = "verdict" /\ next = AfterVerdict(bad) /\ el = bad
         \/ label = "masks" /\ next = "done" /\ el = "output_masks"
  PROVE  RoundInv'
<1> DEFINE e == peer[0]
<1>1. /\ Control /\ Streams /\ Dealing
      /\ pc[0] = label /\ Send(0, e, <<el>>) /\ Loop(0, next)
      /\ UNCHANGED <<step, wire, acc, agg, opened, bad, wrong, broken, threw>>
  BY DEF RoundInv, DealerSends, local
<1>2. 0 \in Nodes /\ e \in Parties /\ e \in Nodes /\ e # 0 /\ Parties \ {0} = Parties /\ e \in Nat
  BY <1>1, NodeNumbers DEF Control
<1>3. Grows(0, e, <<el>>)
  BY <1>1, <1>2, SendIs
<1>4. next \in AfterPc /\ next \in NodePc /\ label \in AfterPc
  BY DEF AfterPc, NodePc, AfterVerdict
<1>5. PcTypes /\ LoopStep(0, next) /\ \A m \in Nodes \ {0} : pc'[m] = pc[m] /\ peer'[m] = peer[m]
  BY <1>1, <1>2, <1>4, LoopIs
<1>6. pc'[0] \in AfterPc
  BY <1>1, <1>4, <1>5 DEF LoopStep
<1>7. Control' /\ Faults' /\ Streams' /\ Stores'
  <2>1. pipe' = [mn \in Nodes \X Nodes |-> pipe'[mn]]
    BY <1>3 DEF Grows
  <2>2. \A a, b \in Nodes : (a = b \/ (a # 0 /\ b # 0) \/ (a # 0 /\ b # 0)) => pipe'[<<a, b>>] = pipe[<<a, b>>]
    BY <1>2, <1>3 DEF Grows
  <2>3. pc[0] \in AfterPc
    BY <1>1, <1>4
  <2> QED BY <1>1, <1>2, <1>5, <1>6, <2>1, <2>2, <2>3, TalkKeeps
<1>8. ASSUME NEW p \in Parties
      PROVE  /\ Given(p) \in Nat /\ Taken(p)' = Taken(p) /\ Taken(p) \in Nat
             /\ e = p => Given(p)' = Given(p) + 1 /\ el = FromTheDealer(bad, Given(p) + 1)
             /\ e # p => Given(p)' = Given(p)
             /\ Asked(p)' <=> Asked(p)
  <2>1. p \in Nodes \ {0} /\ p \in Nat
    BY <1>2, NodeNumbers
  <2>2. pc'[p] = pc[p]
    BY <1>5, <2>1
  <2>3. Taken(p)' = Taken(p) /\ Taken(p) \in Nat /\ Given(p) \in Nat
    BY <2>2 DEF Taken, Given
  <2>4. \/ pc'[0] = label /\ (peer'[0] > p <=> e >= p)
        \/ pc'[0] = next /\ e >= p /\ ~(peer'[0] > p)
    BY <1>1, <1>2, <1>5 DEF LoopStep
  <2>5. (e >= p <=> e > p \/ e = p) /\ ~(e > p /\ e = p)
    BY <1>2, <2>1
  <2>6. next = "masks" \/ next = "abort" \/ next = "omega" \/ next = "done"
    BY DEF AfterVerdict
  <2> HIDE DEF e
  <2>7. CASE label = "key"
    <3>1. next = "omega" /\ el = "cc_key"
      BY <2>7
    <3>2. Given(p) = IF e > p THEN 1 ELSE 0
      BY <1>1, <2>7 DEF Given, e
    <3>3. Given(p)' = IF e >= p THEN 1 ELSE 0
      BY <2>4, <2>7, <3>1 DEF Given
    <3>4. e = p => el = FromTheDealer(bad, Given(p) + 1)
      BY <2>5, <3>1, <3>2 DEF FromTheDealer
    <3>5. ~Asked(p) /\ ~Asked(p)'
      BY <1>1, <2>4, <2>7, <3>1 DEF Asked
    <3> QED BY <2>3, <2>5, <3>2, <3>3, <3>4, <3>5
  <2>8. CASE label = "verdict"
    <3>1. next \in {"masks", "abort"} /\ el = bad
      BY <2>8 DEF AfterVerdict
    <3>2. Given(p) = IF e > p THEN 2 ELSE 1
      BY <1>1, <2>8 DEF Given, e
    <3>3. Given(p)' = IF e >= p THEN 2 ELSE 1
      BY <2>4, <2>8, <3>1 DEF Given
    <3>4. e = p => el = FromTheDealer(bad, Given(p) + 1)
      BY <2>5, <3>1, <3>2 DEF FromTheDealer
    <3>5. Asked(p) /\ Asked(p)'
      BY <1>1, <2>4, <2>8, <3>1 DEF Asked
    <3> QED BY <2>3, <2>5, <3>2, <3>3, <3>4, <3>5
  <2>9. CASE label = "masks"
    <3>1. next = "done" /\ el = "output_masks"
      BY <2>9
    <3>2. Given(p) = IF e > p THEN 3 ELSE 2
      BY <1>1, <2>9 DEF Given, e
    <3>3. Given(p)' = IF e >= p THEN 3 ELSE 2
      BY <2>4, <2>9, <3>1 DEF Given
    <3>4. e = p => el = FromTheDealer(bad, Given(p) + 1)
      BY <2>5, <3>1, <3>2 DEF FromTheDealer
    <3>5. Asked(p) /\ Asked(p)'
      BY <1>1, <2>4, <2>9, <3>1 DEF Asked
    <3> QED BY <2>3, <2>5, <3>2, <3>3, <3>4, <3>5
  <2> QED BY <2>7, <2>8, <2>9
<1>9. bad' = bad /\ \A p \in Parties : Omega(p)' = Omega(p) /\ pc'[p] = pc[p]
  BY <1>1, <1>2, <1>5, NodeNumbers DEF Omega
<1>10. ASSUME NEW p \in Parties PROVE DealtTo(p)'
  <2>1. DealtTo(p)
    BY <1>1, DealingIs
  <2>2. Taken(p)' <= Given(p)' /\ pipe'[<<0, p>>] = Queue(bad, Given(p)', Taken(p)')
    <3>1. CASE e = p
      <4> DEFINE g == Given(p)
                 t == Taken(p)
                 x == FromTheDealer(bad, g + 1)
      <4>1. pipe'[<<0, p>>] = pipe[<<0, p>>] \o <<x>>
        BY <1>3, <1>8, <3>1 DEF Grows
      <4>2. pipe[<<0, p>>] = Queue(bad, g, t) /\ g \in Nat /\ t \in Nat /\ t <= g
        BY <1>8, <2>1 DEF DealtTo
      <4>3. Queue(bad, g, t) \o <<x>> = Queue(bad, g + 1, t)
        <5> HIDE DEF g, t
        <5> QED BY <4>2, QueueGrows
      <4>4. Given(p)' = g + 1 /\ Taken(p)' = t
        BY <1>8, <3>1
      <4> QED BY <4>1, <4>2, <4>3, <4>4
    <3>2. CASE e # p
      <4>1. pipe'[<<0, p>>] = pipe[<<0, p>>]
        BY <1>2, <1>3, <3>2, NodeNumbers DEF Grows
      <4>2. Given(p)' = Given(p) /\ Taken(p)' = Taken(p)
        BY <1>8, <3>2
      <4> QED BY <2>1, <4>1, <4>2 DEF DealtTo
    <3> QED BY <3>1, <3>2
  <2>3. pipe'[<<p, 0>>] = pipe[<<p, 0>>]
    BY <1>2, <1>3, NodeNumbers DEF Grows
  <2>4. Answered(p)' <=> Answered(p)
    BY <1>9 DEF Answered
  <2> QED BY <1>8, <1>9, <2>1, <2>2, <2>3, <2>4 DEF DealtTo
<1>11. FoundBad'
  <2>1. FoundBad
    BY <1>1, DealingIs
  <2>2. {p \in Parties : Asked(p)'} = {p \in Parties : Asked(p)}
    BY <1>8
  <2>3. {Omega(p)' : p \in {p \in Parties : Asked(p)'}} = {Omega(p) : p \in {p \in Parties : Asked(p)}}
    BY <1>9, <2>2
  <2>4. bad' = UNION {Omega(p)' : p \in {p \in Parties : Asked(p)'}}
    BY <1>9, <2>1, <2>3 DEF FoundBad
  <2>5. (pc'[0] \in {"masks", "done"} => bad = {}) /\ (pc'[0] = "abort" => bad # {})
    <3>1. pc'[0] = label \/ pc'[0] = next
      BY <1>1, <1>5 DEF LoopStep
    <3>2. (label \in {"masks", "done"} => bad = {}) /\ label # "abort"
      BY <1>1, <2>1 DEF FoundBad
    <3>3. (next \in {"masks", "done"} => bad = {}) /\ (next = "abort" => bad # {})
      BY <3>2 DEF AfterVerdict
    <3> QED BY <3>1, <3>2, <3>3
  <2> QED BY <1>9, <2>4, <2>5 DEF FoundBad
<1>12. Dealing'
  <2>1. (\A p \in Parties : DealtTo(p))'
    BY <1>10
  <2> QED BY <1>11, <2>1, DealingIs
<1> QED
  BY <1>7, <1>12 DEF RoundInv

LEMMA RecvOmegaKeeps ==
  ASSUME RoundInv, RecvOmega
  PROVE  RoundInv'
<1> DEFINE e == peer[0]
<1>1. /\ Control /\ Streams /\ Dealing
      /\ pc[0] = "omega" /\ Recv(0, e, 1) /\ Loop(0, "verdict")
      /\ bad' = bad \cup SubSeq(pipe[<<e, 0>>], 1, 1)[1]
      /\ UNCHANGED <<step, wire, acc, agg, opened, wrong, broken, threw>>
  BY DEF RoundInv, RecvOmega, Received
<1>2. 0 \in Nodes /\ e \in Parties /\ e \in Nodes /\ e # 0 /\ Parties \ {0} = Parties /\ e \in Nat
  BY <1>1, NodeNumbers DEF Control
<1>3. Shrinks(e, 0, 1)
  BY <1>1, <1>2, RecvIs
<1>4. PcTypes /\ LoopStep(0, "verdict") /\ \A m \in Nodes \ {0} : pc'[m] = pc[m] /\ peer'[m] = peer[m]
  BY <1>1, <1>2, LoopIs DEF NodePc
<1>5. pc[0] \in AfterPc /\ pc'[0] \in AfterPc
  BY <1>1, <1>4 DEF LoopStep, AfterPc
<1>6. Control' /\ Faults' /\ Streams' /\ Stores'
  <2>1. pipe' = [mn \in Nodes \X Nodes |-> pipe'[mn]]
    BY <1>3 DEF Shrinks
  <2>2. \A a, b \in Nodes : (a = b \/ (a # 0 /\ b # 0) \/ (a # 0 /\ b # 0)) => pipe'[<<a, b>>] = pipe[<<a, b>>]
    BY <1>2, <1>3 DEF Shrinks
  <2> QED BY <1>1, <1>2, <1>4, <1>5, <2>1, <2>2, TalkKeeps
<1>7. ASSUME NEW p \in Parties
      PROVE  /\ Given(p) = 1 /\ Given(p)' = 1 /\ Taken(p)' = Taken(p) /\ Taken(p) \in Nat
             /\ Asked(p)' <=> Asked(p) \/ p = e
             /\ Answered(p)' <=> Answered(p)
             /\ pc'[p] = pc[p] /\ Omega(p)' = Omega(p)
  <2>1. p \in Nodes \ {0} /\ p \in Nat
    BY <1>2, NodeNumbers
  <2>2. pc'[p] = pc[p] /\ opened' = opened
    BY <1>1, <1>4, <2>1
  <2>3. \/ pc'[0] = "omega" /\ (peer'[0] > p <=> e >= p)
        \/ pc'[0] = "verdict" /\ e >= p /\ ~(peer'[0] > p)
    BY <1>1, <1>2, <1>4 DEF LoopStep
  <2>4. e >= p <=> e > p \/ e = p
    BY <1>2, <2>1
  <2>5. Given(p) = 1 /\ Given(p)' = 1
    BY <1>1, <2>3 DEF Given
  <2>6. Asked(p) <=> e > p
    BY <1>1 DEF Asked
  <2>7. Asked(p)' <=> e >= p
    BY <2>3 DEF Asked
  <2> QED BY <2>2, <2>4, <2>5, <2>6, <2>7 DEF Taken, Answered, Omega
<1>8. ~Asked(e)
  BY <1>1, PeerIs, <1>2, NodeNumbers DEF Asked
<1>9. Answered(e) /\ pipe[<<e, 0>>] = <<Omega(e)>>
  <2>1. DealtTo(e) /\ Len(pipe[<<e, 0>>]) >= 1
    BY <1>1, <1>2, <1>3, DealingIs DEF Shrinks
  <2>2. pipe[<<e, 0>>] # <<>>
    BY <2>1
  <2> QED BY <2>1, <2>2 DEF DealtTo
<1>10. bad' = bad \cup Omega(e) /\ pipe'[<<e, 0>>] = <<>>
  <2>1. SubSeq(<<Omega(e)>>, 1, 1)[1] = Omega(e) /\ Rest(<<Omega(e)>>, 1) = <<>>
    BY DEF Rest
  <2>2. pipe'[<<e, 0>>] = Rest(pipe[<<e, 0>>], 1)
    BY <1>3 DEF Shrinks
  <2> QED BY <1>1, <1>9, <2>1, <2>2
<1>11. ASSUME NEW p \in Parties PROVE DealtTo(p)'
  <2>1. DealtTo(p)
    BY <1>1, DealingIs
  <2>2. Taken(p) \in {0, 1} /\ pc[p] \notin {"masks", "done", "abort"}
    <3>1. Taken(p) <= 1
      BY <1>7, <2>1 DEF DealtTo
    <3>2. Taken(p) \in {0, 1}
      BY <1>7, <3>1
    <3>3. pc[p] \in {"masks", "done", "abort"} => Taken(p) > 1
      BY DEF Taken
    <3> QED BY <3>1, <3>2, <3>3
  <2>3. pipe'[<<0, p>>] = Queue(bad', Given(p)', Taken(p)')
    <3>1. pipe'[<<0, p>>] = pipe[<<0, p>>]
      BY <1>2, <1>3, NodeNumbers DEF Shrinks
    <3>2. \A k \in 1 .. (1 - Taken(p)) : Taken(p) + k = 1
      BY <2>2
    <3>3. FromTheDealer(bad, 1) = FromTheDealer(bad', 1)
      BY DEF FromTheDealer
    <3>4. Queue(bad, 1, Taken(p)) = Queue(bad', 1, Taken(p))
      BY <3>2, <3>3 DEF Queue
    <3> QED BY <1>7, <2>1, <3>1, <3>4 DEF DealtTo
  <2>4. pipe'[<<p, 0>>] = IF Answered(p)' /\ ~Asked(p)' THEN <<Omega(p)'>> ELSE <<>>
    <3>1. CASE p = e
      BY <1>7, <1>10, <3>1
    <3>2. CASE p # e
      <4>1. pipe'[<<p, 0>>] = pipe[<<p, 0>>]
        BY <1>2, <1>3, <3>2, NodeNumbers DEF Shrinks
      <4> QED BY <1>7, <2>1, <3>2, <4>1 DEF DealtTo
    <3> QED BY <3>1, <3>2
  <2>5. Asked(p)' => Answered(p)'
    BY <1>7, <1>9, <2>1 DEF DealtTo
  <2>6. Taken(p)' <= Given(p)'
    BY <1>7, <2>1 DEF DealtTo
  <2>7. pc'[p] \notin {"masks", "done", "abort"}
    BY <1>7, <2>2
  <2> QED BY <2>3, <2>4, <2>5, <2>6, <2>7 DEF DealtTo
<1>12. FoundBad'
  <2>1. bad = UNION {Omega(p) : p \in {p \in Parties : Asked(p)}}
    BY <1>1, DealingIs DEF FoundBad
  <2>2. {p \in Parties : Asked(p)'} = {p \in Parties : Asked(p)} \cup {e}
    BY <1>2, <1>7
  <2>3. {Omega(p)' : p \in {p \in Parties : Asked(p)'}} =
          {Omega(p) : p \in {p \in Parties : Asked(p)}} \cup {Omega(e)}
    BY <1>2, <1>7, <2>2
  <2>4. bad' = UNION {Omega(p)' : p \in {p \in Parties : Asked(p)'}}
    BY <1>10, <2>1, <2>3
  <2>5. pc'[0] \notin {"masks", "done", "abort"}
    BY <1>1, <1>4 DEF LoopStep
  <2> QED BY <2>4, <2>5 DEF FoundBad
<1>13. Dealing'
  <2>1. (\A p \in Parties : DealtTo(p))'
    BY <1>11
  <2> QED BY <1>12, <2>1, DealingIs
<1> QED
  BY <1>6, <1>13 DEF RoundInv

\* What has to be shown of a party's step on the way to the outputs.
LEMMA PartyDealing ==
  ASSUME RoundInv, NEW n \in Parties, bad' = bad, opened' = opened,
         \A m \in Nodes \ {n} : pc'[m] = pc[m] /\ peer'[m] = peer[m],
         \A p \in Parties \ {n} : pipe'[<<0, p>>] = pipe[<<0, p>>] /\ pipe'[<<p, 0>>] = pipe[<<p, 0>>],
         DealtTo(n)'
  PROVE  Dealing'
<1>1. Dealing /\ 0 \in Nodes \ {n} /\ \A p \in Parties \ {n} : p \in Nodes \ {n}
  BY NodeNumbers DEF RoundInv
<1>2. pc'[0] = pc[0] /\ peer'[0] = peer[0] /\ \A p \in Parties \ {n} : pc'[p] = pc[p]
  BY <1>1
<1>3. \A p \in Parties : (Asked(p)' <=> Asked(p)) /\ Omega(p)' = Omega(p) /\ Given(p)' = Given(p)
  BY <1>2 DEF Asked, Omega, Given
<1>4. ASSUME NEW p \in Parties PROVE DealtTo(p)'
  <2>1. CASE p = n
    BY <2>1
  <2>2. CASE p # n
    <3>1. DealtTo(p)
      BY <1>1, DealingIs
    <3>2. Taken(p)' = Taken(p) /\ (Answered(p)' <=> Answered(p)) /\ pc'[p] = pc[p]
      BY <1>2, <2>2 DEF Taken, Answered
    <3>3. pipe'[<<0, p>>] = pipe[<<0, p>>] /\ pipe'[<<p, 0>>] = pipe[<<p, 0>>]
      BY <2>2
    <3> QED BY <1>3, <3>1, <3>2, <3>3 DEF DealtTo
  <2> QED BY <2>1, <2>2
<1>5. FoundBad'
  <2>1. FoundBad
    BY <1>1, DealingIs
  <2>2. {p \in Parties : Asked(p)'} = {p \in Parties : Asked(p)}
    BY <1>3
  <2>3. {Omega(p)' : p \in {p \in Parties : Asked(p)'}} = {Omega(p) : p \in {p \in Parties : Asked(p)}}
    BY <1>3, <2>2
  <2> QED BY <1>2, <2>1, <2>3 DEF FoundBad
<1>6. (\A p \in Parties : DealtTo(p))'
  BY <1>4
<1> QED
  BY <1>5, <1>6, DealingIs

\* A party's step on the way to the outputs leaves the parties' streams alone.
LEMMA PartyTalks ==
  ASSUME RoundInv, NEW n \in Parties, pc[n] \in AfterPc, NEW c \in AfterPc, Goto(n, c),
         UNCHANGED <<broken, threw, local>>,
         Grows(n, 0, <<Omega(n)>>) \/ Shrinks(0, n, 1)
  PROVE  /\ Control' /\ Faults' /\ Streams' /\ Stores'
         /\ pc'[n] = c /\ bad' = bad /\ opened' = opened
         /\ \A m \in Nodes \ {n} : pc'[m] = pc[m] /\ peer'[m] = peer[m]
         /\ \A p \in Parties \ {n} : pipe'[<<0, p>>] = pipe[<<0, p>>] /\ pipe'[<<p, 0>>] = pipe[<<p, 0>>]
         /\ Given(n)' = Given(n) /\ (Asked(n)' <=> Asked(n)) /\ Omega(n)' = Omega(n)
<1>0. Control /\ n \in Nodes /\ c \in NodePc /\ 0 \in Nodes \ {n} /\ n # 0
  BY NodeNumbers DEF RoundInv, AfterPc, NodePc
<1>1. UNCHANGED <<step, wire, acc, agg, opened, bad, wrong, broken, threw>>
  BY DEF local
<1>2. PcTypes /\ pc'[n] = c /\ \A m \in Nodes \ {n} : pc'[m] = pc[m] /\ peer'[m] = peer[m]
  BY <1>0, GotoIs
<1>3. pipe' = [mn \in Nodes \X Nodes |-> pipe'[mn]]
  BY DEF Grows, Shrinks
<1>4. \A a, b \in Nodes : (a # n \/ b # 0) /\ (a # 0 \/ b # n) => pipe'[<<a, b>>] = pipe[<<a, b>>]
  BY DEF Grows, Shrinks
<1>5. \A a, b \in Nodes : (a = b \/ (a # 0 /\ b # 0) \/ (a # n /\ b # n)) => pipe'[<<a, b>>] = pipe[<<a, b>>]
  BY <1>0, <1>4
<1>6. Control' /\ Faults' /\ Streams' /\ Stores'
  BY <1>0, <1>1, <1>2, <1>3, <1>5, TalkKeeps
<1>7. \A p \in Parties \ {n} : pipe'[<<0, p>>] = pipe[<<0, p>>] /\ pipe'[<<p, 0>>] = pipe[<<p, 0>>]
  BY <1>0, <1>4, NodeNumbers
<1>8. pc'[0] = pc[0] /\ peer'[0] = peer[0]
  BY <1>0, <1>2
<1>9. Given(n)' = Given(n) /\ (Asked(n)' <=> Asked(n)) /\ Omega(n)' = Omega(n)
  BY <1>1, <1>8 DEF Given, Asked, Omega
<1> QED
  BY <1>1, <1>2, <1>6, <1>7, <1>9

\* RecvKey, RecvVerdict, RecvMasks.
LEMMA PartyTakesKeeps ==
  ASSUME RoundInv, NEW n \in Parties, NEW label, NEW next, FromDealer(n, label, next),
         \/ label = "key" /\ next = "omega"
         \/ label = "verdict" /\ next = IF Received(n, 0, 1)[1] = {} THEN "masks" ELSE "abort"
         \/ label = "masks" /\ next = "done"
  PROVE  RoundInv'
<1>1. /\ Streams /\ Dealing /\ pc[n] = label /\ Recv(n, 0, 1) /\ Goto(n, next)
      /\ UNCHANGED <<broken, threw, local>>
  BY DEF RoundInv, FromDealer
<1>2. 0 \in Nodes /\ n \in Nodes /\ pc[n] \in AfterPc /\ next \in AfterPc
  BY <1>1, NodeNumbers DEF AfterPc
<1>3. Shrinks(0, n, 1)
  BY <1>1, <1>2, RecvIs
<1>4. /\ Control' /\ Faults' /\ Streams' /\ Stores'
      /\ pc'[n] = next /\ bad' = bad /\ opened' = opened
      /\ \A m \in Nodes \ {n} : pc'[m] = pc[m] /\ peer'[m] = peer[m]
      /\ \A p \in Parties \ {n} : pipe'[<<0, p>>] = pipe[<<0, p>>] /\ pipe'[<<p, 0>>] = pipe[<<p, 0>>]
      /\ Given(n)' = Given(n) /\ (Asked(n)' <=> Asked(n)) /\ Omega(n)' = Omega(n)
  BY <1>1, <1>2, <1>3, PartyTalks
<1>5. DealtTo(n)
  BY <1>1, DealingIs
<1> DEFINE g == Given(n)
           t == Taken(n)
           head == SubSeq(pipe[<<0, n>>], 1, 1)[1]
<1>6. g \in Nat /\ t \in Nat /\ t <= g /\ pipe[<<0, n>>] = Queue(bad, g, t)
  BY <1>5 DEF DealtTo, Given, Taken
<1>7. Len(Queue(bad, g, t)) >= 1 /\ pipe'[<<0, n>>] = Rest(pipe[<<0, n>>], 1)
  BY <1>3, <1>6 DEF Shrinks
<1>8. t + 1 <= g /\ head = FromTheDealer(bad, t + 1) /\ pipe'[<<0, n>>] = Queue(bad, g, t + 1)
  <2> HIDE DEF g, t
  <2> QED BY <1>6, <1>7, QueueShrinks
<1>9. /\ Taken(n)' = t + 1 /\ (Answered(n)' <=> Answered(n))
      /\ pc'[n] \in {"masks", "done"} => bad = {}
      /\ pc'[n] = "abort" => bad # {}
  <2>1. CASE label = "key"
    BY <1>1, <1>4, <2>1 DEF Taken, Answered
  <2>2. CASE label = "verdict"
    <3>1. t = 1
      BY <1>1, <2>2 DEF Taken
    <3>2. head = bad
      BY <1>8, <3>1 DEF FromTheDealer
    <3>3. next = IF bad = {} THEN "masks" ELSE "abort"
      BY <2>2, <3>2 DEF Received
    <3> QED BY <1>1, <1>4, <2>2, <3>1, <3>3 DEF Taken, Answered
  <2>3. CASE label = "masks"
    <3>1. bad = {}
      BY <1>1, <1>5, <2>3 DEF DealtTo
    <3> QED BY <1>1, <1>4, <2>3, <3>1 DEF Taken, Answered
  <2> QED BY <2>1, <2>2, <2>3
<1>10. pipe'[<<n, 0>>] = pipe[<<n, 0>>]
  BY <1>2, <1>3, NodeNumbers DEF Shrinks
<1>11. DealtTo(n)'
  BY <1>4, <1>5, <1>6, <1>8, <1>9, <1>10 DEF DealtTo
<1>12. Dealing'
  BY <1>4, <1>11, PartyDealing
<1> QED
  BY <1>4, <1>12 DEF RoundInv

LEMMA SendOmegaKeeps ==
  ASSUME RoundInv, NEW n \in Parties, SendOmega(n)
  PROVE  RoundInv'
<1>1. /\ Streams /\ Dealing /\ pc[n] = "omega" /\ Send(n, 0, <<Omega(n)>>) /\ Goto(n, "verdict")
      /\ UNCHANGED <<broken, threw, local>>
  BY DEF RoundInv, SendOmega
<1>2. 0 \in Nodes /\ n \in Nodes /\ pc[n] \in AfterPc /\ "verdict" \in AfterPc
  BY <1>1, NodeNumbers DEF AfterPc
<1>3. Grows(n, 0, <<Omega(n)>>)
  BY <1>1, <1>2, SendIs
<1>4. /\ Control' /\ Faults' /\ Streams' /\ Stores'
      /\ pc'[n] = "verdict" /\ bad' = bad /\ opened' = opened
      /\ \A m \in Nodes \ {n} : pc'[m] = pc[m] /\ peer'[m] = peer[m]
      /\ \A p \in Parties \ {n} : pipe'[<<0, p>>] = pipe[<<0, p>>] /\ pipe'[<<p, 0>>] = pipe[<<p, 0>>]
      /\ Given(n)' = Given(n) /\ (Asked(n)' <=> Asked(n)) /\ Omega(n)' = Omega(n)
  BY <1>1, <1>2, <1>3, PartyTalks
<1>5. DealtTo(n)
  BY <1>1, DealingIs
<1>6. Taken(n)' = Taken(n) /\ Answered(n)' /\ ~Answered(n)
  BY <1>1, <1>4 DEF Taken, Answered
<1>7. ~Asked(n) /\ pipe[<<n, 0>>] = <<>>
  BY <1>5, <1>6 DEF DealtTo
<1>8. pipe'[<<n, 0>>] = <<Omega(n)>>
  <2>1. \A x : <<>> \o <<x>> = <<x>>
    OBVIOUS
  <2> QED BY <1>3, <1>7, <2>1, Zenon DEF Grows
<1>9. pipe'[<<0, n>>] = pipe[<<0, n>>]
  BY <1>2, <1>3, NodeNumbers DEF Grows
<1>10. DealtTo(n)'
  BY <1>4, <1>5, <1>6, <1>7, <1>8, <1>9 DEF DealtTo
<1>11. Dealing'
  BY <1>4, <1>10, PartyDealing
<1> QED
  BY <1>4, <1>11 DEF RoundInv

-----------------------------------------------------------------------------
(* What can go wrong.                                                      *)

StandStill == UNCHANGED <<pc, peer, step, wire, acc, agg, opened, bad, pipe>>

LEMMA StillDealing ==
  ASSUME RoundInv, StandStill
  PROVE  /\ Control' /\ Dealing'
         /\ \A p, q : Sent(p, q)' = Sent(p, q) /\ Got(p, q)' = Got(p, q)
<1>1. Control /\ Dealing /\ StandStill
  BY DEF RoundInv
<1>2. Control'
  BY <1>1 DEF Control, StandStill
<1>3. \A p, q : Sent(p, q)' = Sent(p, q) /\ Got(p, q)' = Got(p, q)
  BY <1>1, Zenon DEF Sent, Got, StandStill
<1>4. Dealing'
  <2>1. (\A p \in Parties : DealtTo(p)) /\ FoundBad
    BY <1>1, DealingIs
  <2>2. \A p \in Parties : /\ (Asked(p)' <=> Asked(p)) /\ (Answered(p)' <=> Answered(p))
                           /\ Given(p)' = Given(p) /\ Taken(p)' = Taken(p) /\ Omega(p)' = Omega(p)
    BY <1>1 DEF Asked, Answered, Given, Taken, Omega, StandStill
  <2>3. (\A p \in Parties : DealtTo(p))'
    BY <1>1, <2>1, <2>2 DEF DealtTo, StandStill
  <2>4. {p \in Parties : Asked(p)'} = {p \in Parties : Asked(p)}
    BY <2>2
  <2>5. {Omega(p)' : p \in {p \in Parties : Asked(p)'}} = {Omega(p) : p \in {p \in Parties : Asked(p)}}
    BY <2>2, <2>4
  <2>6. FoundBad'
    BY <1>1, <2>1, <2>5 DEF FoundBad, StandStill
  <2> QED BY <2>3, <2>6, DealingIs
<1> QED
  BY <1>2, <1>3, <1>4

\* A step that only breaks a pipe end or stops a node.
LEMMA StillKeeps ==
  ASSUME RoundInv, StandStill, wrong' = wrong
  PROVE  Control' /\ Streams' /\ Stores' /\ Dealing'
<1>1. Streams /\ Stores /\ StandStill
  BY DEF RoundInv
<1>2. Streams'
  BY <1>1, StillDealing, Zenon DEF Streams, StandStill
<1>3. Stores'
  <2>1. \A p \in Parties : Local(p)'
    BY <1>1, LocalSame DEF Stores, StandStill
  <2> QED BY <1>1, <2>1 DEF Stores, StandStill
<1> QED
  BY <1>2, <1>3, StillDealing

LEMMA ThrowKeeps ==
  ASSUME RoundInv, NEW n \in Nodes, Throw(n)
  PROVE  RoundInv'
<1>1. StandStill /\ wrong' = wrong /\ broken' = broken /\ threw' = threw \cup {n}
  BY DEF Throw, local, StandStill
<1>2. Faults'
  BY <1>1 DEF RoundInv, Faults
<1> QED
  BY <1>1, <1>2, StillKeeps DEF RoundInv

LEMMA BreakKeeps ==
  ASSUME RoundInv, NEW end \in Fragile, Break(end)
  PROVE  RoundInv'
<1>1. StandStill /\ wrong' = wrong /\ broken' = broken \cup {end} /\ threw' = threw
  BY DEF Break, local, StandStill
<1>2. Faults'
  BY <1>1 DEF RoundInv, Faults
<1> QED
  BY <1>1, <1>2, StillKeeps DEF RoundInv

LEMMA StutterKeeps ==
  ASSUME RoundInv, UNCHANGED vars
  PROVE  RoundInv'
<1>1. StandStill /\ wrong' = wrong /\ broken' = broken /\ threw' = threw
  BY DEF vars, local, StandStill
<1>2. Faults'
  BY <1>1 DEF RoundInv, Faults
<1> QED
  BY <1>1, <1>2, StillKeeps DEF RoundInv

\* A gate is opened in one round.
LEMMA OpenedOnce ==
  ASSUME NEW r \in 1 .. Len(Rounds), NEW s \in 1 .. Len(Rounds), NEW x \in OpenedIn(r), x \in OpenedIn(s)
  PROVE  r = s
<1>1. PICK i \in 1 .. Len(Rounds[r]) : Rounds[r][i] = x
  BY DEF OpenedIn, Opens
<1>2. PICK j \in 1 .. Len(Rounds[s]) : Rounds[s][j] = x
  BY DEF OpenedIn, Opens
<1> QED
  BY <1>1, <1>2, OnceAssumption

\* How many messages a party has sent another when it starts on round r.
StartOf(r) == Len(Inputs) + 2 * (r - 1)

\* A message can only be taken before it is sent when it has no elements.
LEMMA TakenIsSent ==
  ASSUME RoundInv, NEW m \in Parties, NEW n \in Parties \ {m}, NEW r \in 1 .. Len(Rounds)
  PROVE  /\ Got(n, m) >= StartOf(r) + 1 /\ Sent(m, n) < StartOf(r) + 1 => SliceLen(r, n) = 0
         /\ Got(n, m) >= StartOf(r) + 2 /\ Sent(m, n) < StartOf(r) + 2 => SliceLen(r, m) = 0
<1> DEFINE q == pipe[<<m, n>>]
           g == Got(n, m)
           s == Sent(m, n)
<1>1. g \in 0 .. AllMessages /\ s \in 0 .. AllMessages /\ AllMessages \in Nat
  BY Counts, CountsAre DEF RoundInv
<1>2. q \in Seq(Element) /\ Stream(wrong, m, n, g) \o q = Stream(wrong, m, n, s)
  BY DEF RoundInv, Streams
<1>3. StartOf(r) \in Nat
  BY Counts DEF StartOf
<1> HIDE DEF q, g, s
<1>4. ASSUME NEW j \in Nat, s < j, g >= j PROVE Len(Message(wrong, m, n, j)) = 0
  <2>1. j \in (s + 1) .. g
    BY <1>1, <1>4
  <2>2. Message(wrong, m, n, j) = <<>>
    BY <1>1, <1>2, <2>1, NotBeforeSent
  <2> QED BY <2>2
<1>5. /\ Message(wrong, m, n, StartOf(r) + 1) = SliceMessage(wrong, m, n, r)
      /\ Message(wrong, m, n, StartOf(r) + 2) = SumsMessage(wrong, m, r)
  BY RoundMessages DEF StartOf
<1>6. Len(SliceMessage(wrong, m, n, r)) = SliceLen(r, n) /\ Len(SumsMessage(wrong, m, r)) = SliceLen(r, m)
  BY RoundMessageType
<1>7. g >= StartOf(r) + 1 /\ s < StartOf(r) + 1 => SliceLen(r, n) = 0
  BY <1>3, <1>4, <1>5, <1>6
<1>8. g >= StartOf(r) + 2 /\ s < StartOf(r) + 2 => SliceLen(r, m) = 0
  BY <1>3, <1>4, <1>5, <1>6
<1> QED
  BY <1>7, <1>8 DEF g, s

\* A party sends its sums of a round when it has all shares of its slice.
LEMMA SumsAfterSlices ==
  ASSUME Control, NEW b \in Parties, NEW q \in Parties \ {b}, NEW p \in Parties \ {b},
         NEW r \in 1 .. Len(Rounds), Sent(b, q) >= StartOf(r) + 2
  PROVE  Got(b, p) >= StartOf(r) + 1
<1>1. PICK i \in Nat : i = Len(Inputs)
  BY Counts
<1>2. PICK l \in Nat : l = Len(Rounds)
  BY Counts
<1>3. InOrder(pc[b], step[b])
  BY DEF Control
<1>4. pc[b] \in {"input"} \cup RoundPc \cup AfterPc
  BY <1>3 DEF InOrder, NodePc, RoundPc, AfterPc
<1>5. r \in 1 .. l /\ StartOf(r) = i + 2 * (r - 1) /\ Sent(b, q) \in Nat /\ Got(b, p) \in Nat
  BY <1>1, <1>2, Counts, CountsAre DEF StartOf
<1>6. CASE pc[b] = "input"
  <2>1. step[b] \in 1 .. i
    BY <1>1, <1>3, <1>6 DEF InOrder
  <2>2. Sent(b, q) <= i
    BY <1>6, <2>1 DEF Sent, SentBy, Base
  <2> QED BY <1>1, <1>5, <2>2
<1>7. CASE pc[b] \in RoundPc
  <2> DEFINE s == step[b]
             B == Base(pc[b], s)
  <2>1. s \in Nat /\ B \in Nat /\ B = i + 2 * (s - 1)
    BY <1>1, <1>7, RoundCounts
  <2>2. /\ Sent(b, q) <= B + 2 /\ Got(b, p) >= B
        /\ Sent(b, q) <= B + 1 \/ Got(b, p) >= B + 1
    <3>1. CASE pc[b] = "slices"
      <4>1. Sent(b, q) = B + (IF peer[b] > q THEN 1 ELSE 0) /\ Got(b, p) = B + 0
        BY <1>7, <3>1, RoundCounts
      <4> HIDE DEF B
      <4> QED BY <2>1, <4>1
    <3>2. CASE pc[b] = "gather"
      <4>1. Sent(b, q) = B + 1 /\ Got(b, p) = B + (IF peer[b] > p THEN 1 ELSE 0)
        BY <1>7, <3>2, RoundCounts
      <4> HIDE DEF B
      <4> QED BY <2>1, <4>1
    <3>3. CASE pc[b] = "sums"
      <4>1. Sent(b, q) = B + (IF peer[b] > q THEN 2 ELSE 1) /\ Got(b, p) = B + 1
        BY <1>7, <3>3, RoundCounts
      <4> HIDE DEF B
      <4> QED BY <2>1, <4>1
    <3>4. CASE pc[b] = "collect"
      <4>1. Sent(b, q) = B + 2 /\ Got(b, p) = B + (IF peer[b] > p THEN 2 ELSE 1)
        BY <1>7, <3>4, RoundCounts
      <4> HIDE DEF B
      <4> QED BY <2>1, <4>1
    <3> QED BY <1>7, <3>1, <3>2, <3>3, <3>4 DEF RoundPc
  <2> HIDE DEF s, B
  <2>3. CASE s > r
    BY <1>5, <2>1, <2>2, <2>3
  <2>4. CASE s <= r
    BY <1>5, <2>1, <2>2, <2>4
  <2> QED BY <1>5, <2>1, <2>3, <2>4
<1>8. CASE pc[b] \in AfterPc
  <2>1. step[b] = l + 1 /\ pc[b] \notin {"input", "gather", "sums", "collect"}
    BY <1>2, <1>3, <1>8 DEF InOrder, AfterPc
  <2>2. Base(pc[b], step[b]) = i + 2 * l
    BY <1>1, <2>1 DEF Base
  <2>3. Got(b, p) = i + 2 * l
    BY <2>1, <2>2 DEF Got, GotBy
  <2> QED BY <1>5, <2>3
<1> QED
  BY <1>4, <1>6, <1>7, <1>8

\* Party p computes a share of gate g, of the round it starts on, wrongly.
Starts(p)    == pc[p] = "slices" /\ peer[p] = First(p, 1)
Mistake(p, g) == Starts(p) /\ g \in OpenedIn(step[p]) /\ wrong' = wrong \cup {<<g, p>>}

LEMMA StartCounts ==
  ASSUME Control, NEW p \in Parties, Starts(p)
  PROVE  /\ step[p] \in 1 .. Len(Rounds) /\ StartOf(step[p]) \in Nat
         /\ \A q \in Parties \ {p} : Sent(p, q) = StartOf(step[p])
<1>1. pc[p] \in RoundPc /\ p \in Nodes /\ pc[p] = "slices"
  BY NodeNumbers DEF Starts, RoundPc
<1>2. \A q \in Parties \ {p} : ~(peer[p] > q)
  <2>1. First(p, 1) \in Nat /\ (\A q \in Parties : q \in Nat) /\ \A q \in Parties \ {p} : First(p, 1) <= q
    BY <1>1, FirstPeer, NodeNumbers
  <2> QED BY <2>1 DEF Starts
<1>3. step[p] \in 1 .. Len(Rounds) /\ StartOf(step[p]) \in Nat
  <2>1. step[p] \in 1 .. Len(Rounds)
    BY <1>1 DEF Control, InOrder
  <2> QED BY <2>1, Counts DEF StartOf
<1>4. ASSUME NEW q \in Parties \ {p} PROVE Sent(p, q) = StartOf(step[p])
  <2>1. Sent(p, q) = Base(pc[p], step[p]) + 0 /\ Base(pc[p], step[p]) = StartOf(step[p])
    BY <1>1, <1>2, RoundCounts DEF StartOf
  <2> QED BY <1>3, <2>1
<1> QED
  BY <1>3, <1>4

\* Then nobody has p's shares of its slice, so nobody has sent or received
\* sums of the round, but for the slices that are empty.
LEMMA NoSumsYet ==
  ASSUME RoundInv, NEW p \in Parties, Starts(p), NEW b \in Parties, SliceLen(step[p], b) # 0
  PROVE  /\ b # p => Got(b, p) < StartOf(step[p]) + 1
         /\ \A q \in Parties \ {b} : /\ Sent(b, q) < StartOf(step[p]) + 2
                                     /\ Got(q, b) < StartOf(step[p]) + 2
<1> DEFINE r == step[p]
           s == StartOf(r)
<1>1. Control /\ r \in 1 .. Len(Rounds) /\ s \in Nat /\ \A q \in Parties \ {p} : Sent(p, q) = s
  BY StartCounts DEF RoundInv
<1>2. \A m, n \in Parties : Sent(m, n) \in Nat /\ Got(m, n) \in Nat
  BY <1>1, CountsAre
<1> HIDE DEF r
<1>3. b # p => Got(b, p) < s + 1
  <2>1. b # p => ~(Got(b, p) >= s + 1 /\ Sent(p, b) < s + 1)
    BY <1>1, TakenIsSent DEF r
  <2> HIDE DEF s
  <2> QED BY <1>1, <1>2, <2>1
<1>4. ASSUME NEW q \in Parties \ {b} PROVE Sent(b, q) < s + 2
  <2>1. CASE b = p
    <3> HIDE DEF s
    <3> QED BY <1>1, <1>2, <2>1
  <2>2. CASE b # p
    <3>1. Sent(b, q) >= s + 2 => Got(b, p) >= s + 1
      BY <1>1, <2>2, SumsAfterSlices
    <3>2. Sent(b, q) \in Nat /\ Got(b, p) \in Nat /\ s \in Nat /\ Got(b, p) < s + 1
      BY <1>1, <1>2, <1>3, <2>2
    <3> HIDE DEF s
    <3> QED BY <3>1, <3>2
  <2> QED BY <2>1, <2>2
<1>5. ASSUME NEW q \in Parties \ {b} PROVE Got(q, b) < s + 2
  <2>1. ~(Got(q, b) >= s + 2 /\ Sent(b, q) < s + 2)
    BY <1>1, TakenIsSent DEF r
  <2> HIDE DEF s
  <2> QED BY <1>1, <1>2, <1>4, <2>1
<1> QED
  BY <1>3, <1>4, <1>5 DEF r

\* The sum of other shares stays what it is.
LEMMA OthersSum ==
  ASSUME NEW p, NEW g, Mistake(p, g), NEW x, NEW S, x # g \/ p \notin S
  PROVE  SumOf(wrong', x, S) = SumOf(wrong, x, S)
<1> DEFINE v == wrong'
<1>1. \A q \in S : <<x, q>> \in v <=> <<x, q>> \in wrong
  BY DEF Mistake
<1> HIDE DEF v
<1>2. SumOf(v, x, S) = SumOf(wrong, x, S)
  BY <1>1, SumSame
<1> QED
  BY <1>2 DEF v

\* So no message that anybody has sent or received changes.
LEMMA MessageSame ==
  ASSUME RoundInv, NEW p \in Parties, NEW g, Mistake(p, g),
         NEW m \in Parties, NEW n \in Parties \ {m},
         NEW j \in 1 .. AllMessages, j <= Sent(m, n) \/ j <= Got(n, m)
  PROVE  Message(wrong', m, n, j) = Message(wrong, m, n, j)
<1> DEFINE r == step[p]
<1>1. /\ Control /\ Starts(p) /\ g \in OpenedIn(r) /\ wrong' = wrong \cup {<<g, p>>}
      /\ r \in 1 .. Len(Rounds) /\ StartOf(r) \in Nat
      /\ \A q \in Parties \ {p} : Sent(p, q) = StartOf(r)
  BY StartCounts DEF RoundInv, Mistake
<1>2. Sent(m, n) \in 0 .. AllMessages /\ Got(n, m) \in 0 .. AllMessages /\ AllMessages \in Nat /\ j \in Nat
  BY <1>1, Counts, CountsAre
<1>3. CASE j > Sent(m, n)
  <2>1. j \in (Sent(m, n) + 1) .. Got(n, m)
    BY <1>2, <1>3
  <2>2. pipe[<<m, n>>] \in Seq(Element) /\ Stream(wrong, m, n, Got(n, m)) \o pipe[<<m, n>>] = Stream(wrong, m, n, Sent(m, n))
    BY DEF RoundInv, Streams
  <2>3. Message(wrong, m, n, j) = <<>>
    <3> DEFINE q == pipe[<<m, n>>]
               got == Got(n, m)
               sent == Sent(m, n)
    <3>1. got \in 0 .. AllMessages /\ sent \in 0 .. AllMessages /\ q \in Seq(Element) /\ j \in (sent + 1) .. got
      BY <1>2, <2>1, <2>2
    <3>2. Stream(wrong, m, n, got) \o q = Stream(wrong, m, n, sent)
      BY <2>2
    <3> HIDE DEF q, got, sent
    <3> QED BY <3>1, <3>2, NotBeforeSent
  <2>4. Len(Message(wrong', m, n, j)) = 0
    BY <2>3, MessageLength
  <2>5. Message(wrong', m, n, j) \in Seq(Element)
    BY MessageType
  <2> QED BY <2>3, <2>4, <2>5, EmptySeq
<1>4. CASE j <= Sent(m, n)
  <2>1. CASE j \in 1 .. Len(Inputs)
    BY <2>1, InputMessage
  <2>2. ASSUME NEW s \in 1 .. Len(Rounds), j = StartOf(s) + 1
        PROVE  Message(wrong', m, n, j) = Message(wrong, m, n, j)
    <3>1. ASSUME NEW k \in 1 .. SliceLen(s, n)
          PROVE  SumOf(wrong', Packed[s][SliceFrom(s, n) + k], {m}) = SumOf(wrong, Packed[s][SliceFrom(s, n) + k], {m})
      <4> DEFINE x == Packed[s][SliceFrom(s, n) + k]
      <4>1. x \in OpenedIn(s)
        BY SliceInside, PackedRight
      <4>2. x # g \/ p # m
        <5> SUFFICES ASSUME x = g, p = m PROVE FALSE
          OBVIOUS
        <5>1. s = r
          BY <1>1, <4>1, OpenedOnce
        <5>2. Sent(m, n) = StartOf(s)
          BY <1>1, <5>1
        <5> QED BY <1>1, <1>4, <2>2, <5>1, <5>2
      <4> HIDE DEF x
      <4>3. x # g \/ p \notin {m}
        BY <4>2
      <4>4. SumOf(wrong', x, {m}) = SumOf(wrong, x, {m})
        BY <4>3, OthersSum
      <4> QED BY <1>1, <4>4, Zenon DEF x
    <3>2. SliceMessage(wrong', m, n, s) = SliceMessage(wrong, m, n, s)
      BY <3>1, Zenon DEF SliceMessage
    <3>3. /\ Message(wrong', m, n, StartOf(s) + 1) = SliceMessage(wrong', m, n, s)
          /\ Message(wrong, m, n, StartOf(s) + 1) = SliceMessage(wrong, m, n, s)
      BY RoundMessages, Zenon DEF StartOf
    <3> QED BY <2>2, <3>2, <3>3, Zenon
  <2>3. ASSUME NEW s \in 1 .. Len(Rounds), j = StartOf(s) + 2
        PROVE  Message(wrong', m, n, j) = Message(wrong, m, n, j)
    <3>1. ASSUME NEW k \in 1 .. SliceLen(s, m)
          PROVE  SumOf(wrong', Packed[s][SliceFrom(s, m) + k], Parties) = SumOf(wrong, Packed[s][SliceFrom(s, m) + k], Parties)
      <4> DEFINE x == Packed[s][SliceFrom(s, m) + k]
      <4>1. x \in OpenedIn(s)
        BY SliceInside, PackedRight
      <4>2. x # g
        <5> SUFFICES ASSUME x = g PROVE FALSE
          OBVIOUS
        <5>1. s = r
          BY <1>1, <4>1, OpenedOnce
        <5>2. SliceLen(r, m) # 0
          BY <1>1, <5>1, SliceType
        <5>3. Sent(m, n) < StartOf(r) + 2
          BY <1>1, <5>2, NoSumsYet
        <5> QED BY <1>1, <1>2, <1>4, <2>3, <5>1, <5>3
      <4> HIDE DEF x
      <4>3. SumOf(wrong', x, Parties) = SumOf(wrong, x, Parties)
        BY <4>2, OthersSum
      <4> QED BY <1>1, <4>3, Zenon DEF x
    <3>2. SumsMessage(wrong', m, s) = SumsMessage(wrong, m, s)
      BY <3>1, Zenon DEF SumsMessage
    <3>3. /\ Message(wrong', m, n, StartOf(s) + 2) = SumsMessage(wrong', m, s)
          /\ Message(wrong, m, n, StartOf(s) + 2) = SumsMessage(wrong, m, s)
      BY RoundMessages, Zenon DEF StartOf
    <3> QED BY <2>3, <3>2, <3>3, Zenon
  <2> QED BY <2>1, <2>2, <2>3, WhichMessage DEF StartOf
<1> QED
  BY <1>2, <1>3, <1>4

LEMMA MistakeStreams ==
  ASSUME RoundInv, NEW p \in Parties, NEW g, Mistake(p, g), StandStill
  PROVE  Streams'
<1>1. Streams /\ Control /\ pipe' = pipe
  BY DEF RoundInv, StandStill
<1>2. \A m, n : Sent(m, n)' = Sent(m, n) /\ Got(m, n)' = Got(m, n)
  BY StillDealing
<1>3. ASSUME NEW m \in Parties, NEW n \in Parties \ {m}, NEW k \in 0 .. AllMessages, k <= Sent(m, n) \/ k <= Got(n, m)
      PROVE  Stream(wrong', m, n, k) = Stream(wrong, m, n, k)
  <2>1. /\ Sent(m, n) \in Nat /\ Got(n, m) \in Nat /\ AllMessages \in Nat /\ k \in Nat
    BY <1>1, Counts, CountsAre
  <2>2. ASSUME NEW j \in 1 .. k PROVE Message(wrong', m, n, j) = Message(wrong, m, n, j)
    <3>1. j \in 1 .. AllMessages /\ (j <= Sent(m, n) \/ j <= Got(n, m))
      BY <1>3, <2>1
    <3> QED BY <3>1, MessageSame
  <2>3. [j \in 1 .. k |-> Message(wrong', m, n, j)] = [j \in 1 .. k |-> Message(wrong, m, n, j)]
    BY <2>2, Zenon
  <2> QED BY <2>3, Zenon DEF Stream
<1>4. ASSUME NEW m \in Parties, NEW n \in Parties, m # n
      PROVE  /\ Stream(wrong', m, n, Got(n, m)) = Stream(wrong, m, n, Got(n, m))
             /\ Stream(wrong', m, n, Sent(m, n)) = Stream(wrong, m, n, Sent(m, n))
  <2>1. n \in Parties \ {m}
    BY <1>4
  <2>2. Got(n, m) \in 0 .. AllMessages /\ Sent(m, n) \in 0 .. AllMessages
    BY <1>1, CountsAre
  <2>3. Got(n, m) <= Got(n, m) /\ Sent(m, n) <= Sent(m, n)
    BY <2>2, Counts
  <2> QED BY <1>3, <2>1, <2>2, <2>3
<1>5. ASSUME NEW m \in Parties, NEW n \in Parties, m # n
      PROVE  /\ pipe'[<<m, n>>] \in Seq(Element)
             /\ Stream(wrong', m, n, Got(n, m)') \o pipe'[<<m, n>>] = Stream(wrong', m, n, Sent(m, n)')
  <2>1. /\ pipe[<<m, n>>] \in Seq(Element)
        /\ Stream(wrong, m, n, Got(n, m)) \o pipe[<<m, n>>] = Stream(wrong, m, n, Sent(m, n))
    BY <1>1, <1>5 DEF Streams
  <2> QED BY <1>1, <1>2, <1>4, <1>5, <2>1, Zenon
<1>6. pipe' = [mn \in Nodes \X Nodes |-> pipe'[mn]] /\ \A n \in Nodes : pipe'[<<n, n>>] = <<>>
  BY <1>1, Zenon DEF Streams
<1> QED
  BY <1>5, <1>6, Zenon DEF Streams

\* Nor does anything a party has put together.
LEMMA MistakeStores ==
  ASSUME RoundInv, NEW p \in Parties, NEW g, Mistake(p, g), StandStill
  PROVE  Stores'
<1> DEFINE r == step[p]
<1>1. /\ Control /\ Stores /\ Starts(p) /\ g \in OpenedIn(r) /\ pc[p] = "slices"
      /\ r \in 1 .. Len(Rounds) /\ StartOf(r) \in Nat
  BY StartCounts DEF RoundInv, Mistake, Starts
<1> HIDE DEF r
<1>2. \A m, n \in Parties : Sent(m, n) \in Nat /\ Got(m, n) \in Nat
  BY <1>1, CountsAre
<1>3. ASSUME NEW b \in Parties, SliceLen(r, b) # 0
      PROVE  /\ b # p => Got(b, p) < StartOf(r) + 1
             /\ \A q \in Parties \ {b} : Got(q, b) < StartOf(r) + 2
  BY <1>1, <1>3, NoSumsYet DEF r
<1>4. ASSUME NEW q \in Parties PROVE Local(q)'
  <2>1. Local(q)
    BY <1>1 DEF Stores
  <2>2. /\ pc'[q] = pc[q] /\ peer'[q] = peer[q] /\ step'[q] = step[q]
        /\ wire'[q] = wire[q] /\ acc'[q] = acc[q] /\ agg'[q] = agg[q] /\ opened'[q] = opened[q]
    BY DEF StandStill
  <2>3. /\ Added(q)' = Added(q) /\ Summed(q)' = Summed(q) /\ RoundsDone(q)' = RoundsDone(q)
    BY <2>2 DEF Added, Summed, RoundsDone
  <2>4. WireRight(q)'
    BY <2>1, <2>2 DEF Local, WireRight
  <2>5. AddingRight(q)'
    <3> SUFFICES ASSUME pc[q] \in {"gather", "sums"} PROVE AddingRight(q)'
      BY <2>2 DEF AddingRight
    <3> DEFINE s == step[q]
               x(i) == Packed[s][SliceFrom(s, q) + i]
    <3>1. pc[q] \in RoundPc /\ q # p
      BY <1>1 DEF RoundPc
    <3>2. s \in 1 .. Len(Rounds) /\ Base(pc[q], s) = StartOf(s)
      BY <1>1, <3>1, RoundCounts DEF StartOf
    <3>3. ASSUME NEW i \in 1 .. SliceLen(s, q)
          PROVE  SumOf(wrong', x(i), Added(q)) = SumOf(wrong, x(i), Added(q))
      <4>1. x(i) \in OpenedIn(s)
        BY <3>2, SliceInside, PackedRight
      <4>2. x(i) # g \/ p \notin Added(q)
        <5> SUFFICES ASSUME x(i) = g, p \in Added(q) PROVE FALSE
          OBVIOUS
        <5>1. s = r
          BY <1>1, <3>2, <4>1, OpenedOnce
        <5>2. SliceLen(r, q) # 0
          BY <3>2, <5>1, SliceType
        <5>3. Got(q, p) < StartOf(r) + 1
          BY <1>3, <3>1, <5>2
        <5>4. Got(q, p) = StartOf(r) + 1
          <6>1. CASE pc[q] = "gather"
            <7>1. peer[q] > p
              <8>1. p < peer[q]
                BY <3>1, <6>1 DEF Added
              <8> QED BY <1>1, <8>1, NodeNumbers DEF Control
            <7> QED BY <1>1, <3>1, <3>2, <5>1, <6>1, <7>1, RoundCounts
          <6>2. CASE pc[q] = "sums"
            BY <1>1, <3>1, <3>2, <5>1, <6>2, RoundCounts
          <6> QED BY <6>1, <6>2
        <5> QED BY <1>1, <5>3, <5>4
      <4> HIDE DEF x
      <4> QED BY <4>2, OthersSum
    <3>4. acc[q] = [i \in 1 .. SliceLen(s, q) |-> SumOf(wrong, x(i), Added(q))]
      BY <2>1 DEF Local, AddingRight
    <3>5. acc'[q] = [i \in 1 .. SliceLen(s, q) |-> SumOf(wrong', x(i), Added(q)')]
      BY <2>2, <2>3, <3>3, <3>4, Zenon
    <3> QED BY <2>2, <3>5, Zenon DEF AddingRight
  <2>6. CollectingRight(q)'
    <3> SUFFICES ASSUME pc[q] = "collect" PROVE CollectingRight(q)'
      BY <2>2 DEF CollectingRight
    <3> DEFINE s == step[q]
    <3>1. pc[q] \in RoundPc /\ q # p
      BY <1>1 DEF RoundPc
    <3>2. s \in 1 .. Len(Rounds) /\ Base(pc[q], s) = StartOf(s)
      BY <1>1, <3>1, RoundCounts DEF StartOf
    <3>3. ASSUME NEW b \in Summed(q), NEW i \in InSlice(s, b)
          PROVE  SumOf(wrong', Packed[s][i], Parties) = SumOf(wrong, Packed[s][i], Parties)
      <4> DEFINE x == Packed[s][i]
      <4>1. b \in Parties /\ i - SliceFrom(s, b) \in 1 .. SliceLen(s, b)
        BY <3>2, SliceInside DEF Summed
      <4>2. x \in OpenedIn(s)
        BY <3>2, <4>1, SliceInside, PackedRight
      <4>3. x # g
        <5> SUFFICES ASSUME x = g PROVE FALSE
          OBVIOUS
        <5>1. s = r
          BY <1>1, <3>2, <4>2, OpenedOnce
        <5>2. SliceLen(r, b) # 0
          BY <3>2, <4>1, <5>1, SliceType
        <5>3. CASE b = q
          <6>1. Got(q, p) < StartOf(r) + 1
            BY <1>3, <3>1, <5>2, <5>3
          <6>2. Got(q, p) = StartOf(r) + (IF peer[q] > p THEN 2 ELSE 1)
            BY <1>1, <3>1, <3>2, <5>1, RoundCounts
          <6> QED BY <1>1, <6>1, <6>2
        <5>4. CASE b # q
          <6>1. Got(q, b) < StartOf(r) + 2
            BY <1>3, <4>1, <5>2, <5>4
          <6>2. peer[q] > b
            <7>1. b < peer[q]
              BY <5>4 DEF Summed
            <7> QED BY <1>1, <4>1, <7>1, NodeNumbers DEF Control
          <6>3. Got(q, b) = StartOf(r) + 2
            BY <1>1, <3>1, <3>2, <4>1, <5>1, <5>4, <6>2, RoundCounts
          <6> QED BY <1>1, <6>1, <6>3
        <5> QED BY <5>3, <5>4
      <4> HIDE DEF x
      <4>4. SumOf(wrong', x, Parties) = SumOf(wrong, x, Parties)
        BY <4>3, OthersSum
      <4> QED BY <4>4 DEF x
    <3>4. \A b \in Summed(q) : \A i \in InSlice(s, b) : agg[q][i] = SumOf(wrong, Packed[s][i], Parties)
      BY <2>1 DEF Local, CollectingRight
    <3>5. \A b \in Summed(q)' : \A i \in InSlice(s, b) : agg'[q][i] = SumOf(wrong', Packed[s][i], Parties)
      BY <2>2, <2>3, <3>3, <3>4, Zenon
    <3> QED BY <2>2, <3>5, Zenon DEF CollectingRight
  <2>7. OpenedSoFar(q)'
    <3>1. g \notin OpenedUpTo(RoundsDone(q))
      <4> SUFFICES ASSUME NEW s \in 1 .. RoundsDone(q), g \in OpenedIn(s) PROVE FALSE
        BY DEF OpenedUpTo
      <4>1. PICK i \in Nat : i = Len(Inputs)
        BY Counts
      <4>2. InOrder(pc[q], step[q]) /\ step[q] \in Nat
        BY <1>1 DEF Control, InOrder
      <4>3. pc[q] # "input" /\ RoundsDone(q) = step[q] - 1 /\ s <= step[q] - 1 /\ s >= 1
        BY <4>2 DEF RoundsDone
      <4>4. s \in 1 .. Len(Rounds)
        BY <4>2, <4>3, Counts DEF InOrder, NodePc, RoundPc, AfterPc
      <4>5. s = r
        BY <1>1, <4>4, OpenedOnce
      <4>6. q # p
        <5>1. step[q] # step[p]
          BY <4>2, <4>3, <4>5 DEF r
        <5> QED BY <5>1
      <4>7. \A b \in Parties : Got(q, b) >= StartOf(r) + 2
        <5> TAKE b \in Parties
        <5>1. Base(pc[q], step[q]) = i + 2 * (step[q] - 1)
          BY <4>1, <4>3 DEF Base
        <5> DEFINE B == Base(pc[q], step[q])
        <5>2. B \in Nat /\ B >= i + 2 * (s - 1) + 2
          BY <4>2, <4>3, <5>1
        <5>3. StartOf(r) = i + 2 * (s - 1)
          BY <4>1, <4>5 DEF StartOf
        <5>4. Got(q, b) >= B
          <6> DEFINE u == IF (pc[q] = "gather" /\ peer[q] > b) \/ pc[q] \in {"sums", "collect"} THEN 1 ELSE 0
                     v == IF pc[q] = "collect" /\ peer[q] > b THEN 1 ELSE 0
          <6>1. u \in Nat /\ v \in Nat
            OBVIOUS
          <6>2. Got(q, b) = B + u + v
            BY Zenon DEF Got, GotBy
          <6> HIDE DEF u, v, B
          <6> QED BY <5>2, <6>1, <6>2
        <5>5. Got(q, b) \in Nat
          BY <1>2
        <5> HIDE DEF B
        <5> QED BY <4>1, <4>4, <5>2, <5>3, <5>4, <5>5
      <4>8. PICK k \in 1 .. Total(r) : TRUE
        <5>1. PICK a \in Opens(r) : Rounds[r][a] = g
          BY <1>1 DEF OpenedIn
        <5> QED BY <1>1, <5>1, PackedRight
      <4>9. PICK b \in Parties : k \in InSlice(r, b)
        BY <1>1, SlicesCover
      <4>10. SliceLen(r, b) # 0
        <5>1. k - SliceFrom(r, b) \in 1 .. SliceLen(r, b)
          BY <1>1, <4>9, SliceInside
        <5> QED BY <1>1, <5>1, SliceType
      <4>11. CASE b = q
        <5>1. Got(q, p) < StartOf(r) + 1
          BY <1>3, <4>6, <4>10, <4>11
        <5>2. Got(q, p) >= StartOf(r) + 2 /\ Got(q, p) \in Nat /\ StartOf(r) \in Nat
          BY <1>1, <1>2, <4>7
        <5> QED BY <5>1, <5>2
      <4>12. CASE b # q
        <5>1. Got(q, b) < StartOf(r) + 2
          BY <1>3, <4>10, <4>12
        <5>2. Got(q, b) >= StartOf(r) + 2 /\ Got(q, b) \in Nat /\ StartOf(r) \in Nat
          BY <1>1, <1>2, <4>7
        <5> QED BY <5>1, <5>2
      <4> QED BY <4>11, <4>12
    <3>2. \A x \in OpenedUpTo(RoundsDone(q)) : SumOf(wrong', x, Parties) = SumOf(wrong, x, Parties)
      BY <3>1, OthersSum
    <3>3. opened[q] = [x \in OpenedUpTo(RoundsDone(q)) |-> SumOf(wrong, x, Parties)]
      BY <2>1 DEF Local, OpenedSoFar
    <3>4. opened'[q] = [x \in OpenedUpTo(RoundsDone(q)) |-> SumOf(wrong', x, Parties)]
      BY <2>2, <3>2, <3>3, Zenon
    <3> QED BY <2>3, <3>4, Zenon DEF OpenedSoFar
  <2> QED BY <2>4, <2>5, <2>6, <2>7 DEF Local
<1>5. StoreTypes'
  BY <1>1 DEF Stores, StoreTypes, StandStill
<1> QED
  BY <1>4, <1>5 DEF Stores, StoreTypes

LEMMA MiscomputeKeeps ==
  ASSUME RoundInv, NEW p \in Parties, NEW g \in Gates, Miscompute(p, g)
  PROVE  RoundInv'
<1>1. /\ StandStill /\ broken' = broken /\ threw' = threw /\ wrong' = wrong \cup {<<g, p>>}
      /\ Starts(p) /\ \E i \in 1 .. Total(step[p]) : Packed[step[p]][i] = g
  BY DEF Miscompute, StandStill, Starts, Rnd
<1>2. step[p] \in 1 .. Len(Rounds)
  BY <1>1, StartCounts DEF RoundInv
<1>3. g \in OpenedIn(step[p])
  BY <1>1, <1>2, PackedRight
<1>4. Mistake(p, g)
  BY <1>1, <1>3 DEF Mistake
<1>5. Faults'
  <2>1. Faults
    BY DEF RoundInv
  <2> QED BY <1>1, <1>2, <1>3, <2>1 DEF Faults
<1> QED
  BY <1>1, <1>4, <1>5, StillDealing, MistakeStreams, MistakeStores DEF RoundInv

-----------------------------------------------------------------------------
(* The invariant.                                                          *)

LEMMA InitKeeps == Init => RoundInv
<1> SUFFICES ASSUME Init PROVE RoundInv
  OBVIOUS
<1>1. /\ pc = [n \in Nodes |-> IF n = 0 THEN "key" ELSE IF Inputs = <<>> THEN "slices" ELSE "input"]
      /\ peer = [n \in Nodes |-> First(n, 1)]
      /\ step = [n \in Nodes |-> 1]
      /\ wire = [p \in Parties |-> <<>>]
      /\ acc = [p \in Parties |-> <<>>]
      /\ agg = [p \in Parties |-> <<>>]
      /\ opened = [p \in Parties |-> [g \in {} |-> EmptyBag]]
      /\ bad = {}
      /\ pipe = [mn \in Nodes \X Nodes |-> <<>>]
      /\ broken = {} /\ threw = {} /\ wrong = {}
  BY DEF Init
<1>2. \A n \in Nodes : First(n, 1) \in Parties \ {n} /\ \A q \in Parties \ {n} : First(n, 1) <= q
  BY FirstPeer
<1>3. 0 \in Nodes /\ pc[0] = "key" /\ step[0] = 1 /\ \A p \in Parties : p \in Nodes /\ p # 0
  BY <1>1, NodeNumbers
<1>4. ASSUME NEW p \in Parties
      PROVE  /\ step[p] = 1 /\ InOrder(pc[p], step[p])
             /\ pc[p] \in {"input", "slices"} /\ Base(pc[p], step[p]) = 0
  <2>1. step[p] = 1 /\ pc[p] = IF Inputs = <<>> THEN "slices" ELSE "input"
    BY <1>1, <1>3
  <2>2. Inputs = <<>> <=> Len(Inputs) = 0
    BY EmptySeq, RoundAssumption
  <2>3. Inputs = <<>> => pc[p] = "slices" /\ Base(pc[p], step[p]) = 0
    BY <2>1, <2>2 DEF Base
  <2>4. Inputs # <<>> => pc[p] = "input" /\ Base(pc[p], step[p]) = 0 /\ 1 \in 1 .. Len(Inputs)
    BY <2>1, <2>2, Counts DEF Base
  <2>5. 1 \in 1 .. Len(Rounds)
    BY Counts
  <2> QED BY <2>1, <2>3, <2>4, <2>5 DEF InOrder, NodePc, RoundPc, AfterPc
<1>5. Control
  <2>1. pc \in [Nodes -> NodePc] /\ pc[0] \in AfterPc
    BY <1>1, <1>3 DEF NodePc, AfterPc
  <2>2. peer \in [Nodes -> Parties] /\ \A n \in Nodes : peer[n] # n
    BY <1>1, <1>2
  <2> QED BY <1>1, <1>3, <1>4, <2>1, <2>2 DEF Control
<1>6. Faults
  BY <1>1 DEF Faults
<1>7. Streams
  <2>1. \A n \in Nodes : pipe[<<n, n>>] = <<>>
    BY <1>1
  <2>2. ASSUME NEW p \in Parties, NEW q \in Parties, p # q
        PROVE  /\ pipe[<<p, q>>] = <<>> /\ pipe[<<p, q>>] \in Seq(Element)
               /\ Stream(wrong, p, q, Got(q, p)) \o pipe[<<p, q>>] = Stream(wrong, p, q, Sent(p, q))
    <3>1. pipe[<<p, q>>] = <<>> /\ <<>> \in Seq(Element)
      BY <1>1, <1>3
    <3>2. ASSUME NEW m \in Parties, NEW n \in Parties, m # n PROVE Sent(m, n) = 0 /\ Got(m, n) = 0
      <4>1. First(m, 1) <= n /\ First(m, 1) \in Nat /\ n \in Nat /\ peer[m] = First(m, 1)
        BY <1>1, <1>2, <1>3, <3>2, NodeNumbers
      <4>2. ~(peer[m] > n)
        BY <4>1
      <4>3. pc[m] \in {"input", "slices"} \cup AfterPc /\ Base(pc[m], step[m]) = 0 /\ 0 \in Nat
        BY <1>4
      <4> DEFINE c == pc[m]
                 e == peer[m]
                 s == step[m]
      <4>4. c \in {"input", "slices"} \cup AfterPc /\ Base(c, s) = 0 /\ Base(c, s) \in Nat /\ ~(e > n)
        BY <4>2, <4>3
      <4>5. Sent(m, n) = SentBy(m, c, e, s, n) /\ Got(m, n) = GotBy(c, e, s, n)
        BY DEF Sent, Got
      <4> HIDE DEF c, e, s
      <4>6. SentBy(m, c, e, s, n) = Base(c, s) /\ GotBy(c, e, s, n) = Base(c, s)
        BY <4>4, Fresh
      <4> QED BY <4>4, <4>5, <4>6
    <3>3. Sent(p, q) = 0 /\ Got(q, p) = 0
      BY <2>2, <3>2
    <3>4. Stream(wrong, p, q, 0) \in Seq(Element)
      BY StreamType, Counts
    <3>5. Stream(wrong, p, q, 0) \o <<>> = Stream(wrong, p, q, 0)
      BY <3>4, ConcatEmptySeq
    <3> QED BY <3>1, <3>3, <3>5
  <2> QED BY <1>1, <2>1, <2>2 DEF Streams
<1>8. Stores
  <2>1. ASSUME NEW p \in Parties PROVE Local(p)
    <3>1. wire[p] = <<>> /\ opened[p] = [g \in {} |-> EmptyBag]
      BY <1>1
    <3>2. WireRight(p)
      <4>1. (IF pc[p] = "input" THEN step[p] - 1 ELSE Len(Inputs)) = 0
        BY <1>4 DEF Base
      <4>2. [i \in 1 .. 0 |-> i] = <<>>
        OBVIOUS
      <4> QED BY <3>1, <4>1, <4>2, Zenon DEF WireRight
    <3>3. AddingRight(p) /\ CollectingRight(p)
      BY <1>4 DEF AddingRight, CollectingRight
    <3>4. OpenedSoFar(p)
      <4>1. RoundsDone(p) = 0
        BY <1>4 DEF RoundsDone
      <4>2. OpenedUpTo(0) = {}
        BY DEF OpenedUpTo
      <4> QED BY <3>1, <4>1, <4>2 DEF OpenedSoFar
    <3> QED BY <3>2, <3>3, <3>4 DEF Local
  <2> QED BY <1>1, <2>1 DEF Stores
<1>9. Dealing
  <2>1. ASSUME NEW p \in Parties
        PROVE  Given(p) = 0 /\ Taken(p) = 0 /\ ~Answered(p) /\ ~Asked(p) /\ pc[p] \notin {"masks", "done", "abort"}
    <3>1. ~(peer[0] > p)
      <4>1. First(0, 1) <= p /\ First(0, 1) \in Nat /\ p \in Nat /\ peer[0] = First(0, 1)
        BY <1>1, <1>2, <1>3, NodeNumbers
      <4> QED BY <4>1
    <3> QED BY <1>3, <1>4, <3>1 DEF Given, Taken, Answered, Asked
  <2>2. ASSUME NEW p \in Parties PROVE pipe[<<0, p>>] = <<>> /\ pipe[<<p, 0>>] = <<>>
    BY <1>1, <1>3
  <2>3. [k \in 1 .. (0 - 0) |-> FromTheDealer(bad, 0 + k)] = <<>>
    OBVIOUS
  <2>4. bad = UNION {Omega(p) : p \in {p \in Parties : Asked(p)}}
    BY <1>1, <2>1
  <2>5. \A p \in Parties : pipe[<<0, p>>] = [k \in 1 .. (Given(p) - Taken(p)) |-> FromTheDealer(bad, Taken(p) + k)]
    BY <2>1, <2>2, <2>3
  <2> QED BY <1>3, <2>1, <2>2, <2>4, <2>5 DEF Dealing
<1> QED
  BY <1>5, <1>6, <1>7, <1>8, <1>9 DEF RoundInv

LEMMA PartyKeeps ==
  ASSUME RoundInv, NEW p \in Parties, Party(p)
  PROVE  RoundInv'
<1>1. CASE SendInput(p)
  BY <1>1, SendInputKeeps
<1>2. CASE RecvInput(p)
  BY <1>2, RecvInputKeeps
<1>3. CASE SendSlice(p)
  BY <1>3, SendSliceKeeps
<1>4. CASE GatherSlice(p)
  BY <1>4, GatherSliceKeeps
<1>5. CASE SendSums(p)
  BY <1>5, SendSumsKeeps
<1>6. CASE CollectSums(p)
  BY <1>6, CollectSumsKeeps
<1>7. CASE RecvKey(p)
  BY <1>7, PartyTakesKeeps DEF RecvKey
<1>8. CASE SendOmega(p)
  BY <1>8, SendOmegaKeeps
<1>9. CASE RecvVerdict(p)
  <2> DEFINE next == IF Received(p, 0, 1)[1] = {} THEN "masks" ELSE "abort"
  <2>1. FromDealer(p, "verdict", next)
    BY <1>9 DEF RecvVerdict, FromDealer
  <2> QED BY <2>1, PartyTakesKeeps
<1>10. CASE RecvMasks(p)
  BY <1>10, PartyTakesKeeps DEF RecvMasks
<1> QED
  BY <1>1, <1>2, <1>3, <1>4, <1>5, <1>6, <1>7, <1>8, <1>9, <1>10 DEF Party

LEMMA DealerKeeps ==
  ASSUME RoundInv, Dealer
  PROVE  RoundInv'
<1>1. CASE SendKey
  BY <1>1, DealerSendsKeeps DEF SendKey
<1>2. CASE RecvOmega
  BY <1>2, RecvOmegaKeeps
<1>3. CASE SendVerdict
  BY <1>3, DealerSendsKeeps DEF SendVerdict
<1>4. CASE SendMasks
  BY <1>4, DealerSendsKeeps DEF SendMasks
<1> QED
  BY <1>1, <1>2, <1>3, <1>4 DEF Dealer

LEMMA NextKeeps ==
  ASSUME RoundInv, [Next]_vars
  PROVE  RoundInv'
<1>1. CASE Dealer
  BY <1>1, DealerKeeps
<1>2. ASSUME NEW p \in Parties, Party(p) PROVE RoundInv'
  BY <1>2, PartyKeeps
<1>3. ASSUME NEW n \in Nodes, Throw(n) PROVE RoundInv'
  BY <1>3, ThrowKeeps
<1>4. ASSUME NEW end \in Fragile, Break(end) PROVE RoundInv'
  BY <1>4, BreakKeeps
<1>5. ASSUME NEW p \in Parties, NEW g \in Gates, Miscompute(p, g) PROVE RoundInv'
  BY <1>5, MiscomputeKeeps
<1>6. CASE UNCHANGED vars
  BY <1>6, StutterKeeps
<1> QED
  BY <1>1, <1>2, <1>3, <1>4, <1>5, <1>6 DEF Next, Work

\* The inductive invariant.
THEOREM RoundInvariant == Spec => []RoundInv
<1>1. RoundInv /\ [Next]_vars => RoundInv'
  BY NextKeeps
<1> QED
  BY InitKeeps, <1>1, PTL DEF Spec

-----------------------------------------------------------------------------
(* What follows from it.                                                   *)

LEMMA UpToInGates ==
  ASSUME NEW k \in 0 .. Len(Rounds)
  PROVE  OpenedUpTo(k) \subseteq Gates
<1> SUFFICES ASSUME NEW r \in 1 .. k, NEW x \in OpenedIn(r) PROVE x \in Gates
  BY DEF OpenedUpTo
<1>1. r \in 1 .. Len(Rounds)
  BY Counts
<1>2. PICK i \in 1 .. Len(Rounds[r]) : Rounds[r][i] = x
  BY DEF OpenedIn, Opens
<1> QED
  BY <1>1, <1>2, RoundGates

LEMMA InvTypes == RoundInv => TypeOK
<1> SUFFICES ASSUME RoundInv PROVE TypeOK
  OBVIOUS
<1>1. Control /\ Faults /\ Stores /\ FoundBad
  BY DealingIs DEF RoundInv
<1>2. \A n \in Nodes : step[n] \in 1 .. (Len(Inputs) + Len(Rounds) + 1)
  <2> TAKE n \in Nodes
  <2>1. CASE n = 0
    BY <1>1, <2>1, Counts DEF Control
  <2>2. CASE n # 0
    <3>1. InOrder(pc[n], step[n])
      BY <1>1, <2>2, NodeNumbers DEF Control
    <3> QED BY <3>1, Counts DEF InOrder, NodePc, RoundPc, AfterPc
  <2> QED BY <2>1, <2>2
<1>3. ASSUME NEW p \in Parties PROVE DOMAIN opened[p] \subseteq Gates
  <2>1. opened[p] = [g \in OpenedUpTo(RoundsDone(p)) |-> SumOf(wrong, g, Parties)]
    BY <1>1 DEF Stores, Local, OpenedSoFar
  <2>2. RoundsDone(p) \in 0 .. Len(Rounds)
    <3>1. InOrder(pc[p], step[p])
      BY <1>1 DEF Control
    <3> QED BY <3>1, Counts DEF RoundsDone, InOrder, NodePc, RoundPc, AfterPc
  <2> QED BY <2>1, <2>2, UpToInGates
<1>4. bad \subseteq Gates
  BY <1>1 DEF FoundBad, Omega
<1>5. wrong \subseteq Gates \X Parties
  BY <1>1 DEF Faults
<1> QED
  BY <1>1, <1>2, <1>3, <1>4, <1>5 DEF TypeOK, Control, Faults

\* Types: the nodes' program counters, loop variables and stores, the set the
\* dealer keeps of the gates it found wrong; the variable pid of a loop of
\* evaluateGatesAtDepthPartySend and Recv never comes to the party itself.
THEOREM RoundTypes == Spec => []TypeOK
BY RoundInvariant, InvTypes, PTL

LEMMA InvOpenedRight == RoundInv => OpenedRight
<1> SUFFICES ASSUME RoundInv, NEW p \in Parties
             PROVE  /\ \A i \in 1 .. Len(wire[p]) : wire[p][i] = i
                    /\ \A g \in DOMAIN opened[p] : opened[p][g] = Opening(g)
  BY DEF OpenedRight
<1>1. WireRight(p) /\ OpenedSoFar(p) /\ InOrder(pc[p], step[p])
  BY DEF RoundInv, Stores, Local, Control
<1>2. \A i \in 1 .. Len(wire[p]) : wire[p][i] = i
  <2> DEFINE l == IF pc[p] = "input" THEN step[p] - 1 ELSE Len(Inputs)
  <2>1. l \in Nat
    BY <1>1, Counts DEF InOrder
  <2>2. wire[p] = [i \in 1 .. l |-> i]
    BY <1>1 DEF WireRight
  <2> HIDE DEF l
  <2> QED BY <2>1, <2>2
<1>3. \A g \in DOMAIN opened[p] : opened[p][g] = SumOf(wrong, g, Parties)
  BY <1>1 DEF OpenedSoFar
<1> QED
  BY <1>2, <1>3, SharesAre

\* Whatever the order in which slices and sums are sent and received, every
\* gate a party has evaluated is opened to the sum of one share of that gate
\* from each party, and every masked input is the one its owner sent: packing
\* by kind, cutting into slices, adding up, spreading the sums and unpacking
\* (evaluateGatesAtDepthPartySend and Recv, of both evaluators) fit together.
THEOREM OpenedRightly == Spec => []OpenedRight
BY RoundInvariant, InvOpenedRight, PTL

\* The dealer gets to a verdict only with the omegas of all parties, which
\* are sent when all rounds are over.
LEMMA VerdictIsComplete ==
  ASSUME RoundInv, NEW n \in Nodes, pc[n] \in {"masks", "done"}
  PROVE  /\ bad = {}
         /\ \A p \in Parties : Asked(p) /\ Omega(p) = {} /\ RoundsDone(p) = Len(Rounds)
<1>1. Control /\ FoundBad /\ \A p \in Parties : DealtTo(p)
  BY DealingIs DEF RoundInv
<1>2. bad = {}
  BY <1>1, NodeNumbers DEF FoundBad, DealtTo
<1>3. pc[0] \in {"verdict", "abort", "masks", "done"}
  <2>1. CASE n = 0
    BY <2>1
  <2>2. CASE n # 0
    <3>1. n \in Parties /\ Taken(n) <= Given(n)
      BY <1>1, <2>2, NodeNumbers DEF DealtTo
    <3>2. Taken(n) \in {2, 3} /\ Given(n) \in Nat
      BY DEF Taken, Given
    <3>3. pc[0] \in {"key", "omega"} => Given(n) <= 1
      BY DEF Given
    <3>4. pc[0] \notin {"key", "omega"}
      BY <3>1, <3>2, <3>3
    <3> QED BY <1>1, <3>4 DEF Control, AfterPc
  <2> QED BY <2>1, <2>2
<1>4. \A p \in Parties : Asked(p)
  BY <1>3 DEF Asked
<1>5. \A p \in Parties : Omega(p) = {}
  <2>1. \A p \in Parties : Omega(p) \subseteq bad
    BY <1>1, <1>4 DEF FoundBad
  <2> QED BY <1>2, <2>1
<1>6. ASSUME NEW p \in Parties PROVE RoundsDone(p) = Len(Rounds)
  <2>1. Answered(p) /\ InOrder(pc[p], step[p])
    BY <1>1, <1>4 DEF DealtTo, Control
  <2>2. pc[p] # "input" /\ step[p] = Len(Rounds) + 1
    BY <2>1 DEF Answered, InOrder, AfterPc
  <2> QED BY <2>2, Counts DEF RoundsDone
<1> QED
  BY <1>2, <1>4, <1>5, <1>6

LEMMA InvOutputsVerified == RoundInv => OutputsVerified
<1> SUFFICES ASSUME RoundInv, NEW n \in Nodes, pc[n] \in {"masks", "done"},
                    NEW t \in wrong, t[1][2] = "field",
                    GateKind(t[1]) \in {"mul", "mul3", "mul4", "dotprod"}
             PROVE  FALSE
  BY DEF OutputsVerified
<1>1. PICK r \in 1 .. Len(Rounds), g \in Gates, p \in Parties : t = <<g, p>> /\ g \in OpenedIn(r)
  BY DEF RoundInv, Faults
<1>2. t[1] = g
  BY <1>1
<1>3. Omega(p) = {} /\ RoundsDone(p) = Len(Rounds)
  BY VerdictIsComplete
<1>4. opened[p] = [x \in OpenedUpTo(Len(Rounds)) |-> SumOf(wrong, x, Parties)]
  BY <1>3 DEF RoundInv, Stores, Local, OpenedSoFar
<1>5. g \in OpenedUpTo(Len(Rounds))
  BY <1>1 DEF OpenedUpTo
<1>6. opened[p][g] = SumOf(wrong, g, Parties)
  BY <1>4, <1>5
<1>7. opened[p][g] # True(g)
  BY <1>1, <1>6, WrongShows, SharesAre
<1>8. g \in Omega(p)
  BY <1>2, <1>7 DEF Omega, Checked
<1> QED
  BY <1>3, <1>8

\* MACVerification stands between a wrong product and the outputs: when the
\* dealer or any party has got as far as getOutputs, no share of a gate of
\* the circuit that MACVerification checks was wrong.
THEOREM VerifiedOutputs == Spec => []OutputsVerified
BY RoundInvariant, InvOutputsVerified, PTL

LEMMA InvNothingLeft == RoundInv => NothingLeft
<1> SUFFICES ASSUME RoundInv, \A n \in Nodes : pc[n] \in {"done", "abort"},
                    NEW m \in Nodes, NEW n \in Nodes
             PROVE  pipe[<<m, n>>] = <<>>
  BY DEF NothingLeft
<1>1. /\ Control /\ Streams /\ FoundBad /\ 0 \in Nodes
      /\ \A p \in Parties : DealtTo(p) /\ p \in Nodes
  BY DealingIs, NodeNumbers DEF RoundInv
<1>2. CASE m = n
  BY <1>1, <1>2 DEF Streams
<1>3. CASE m = 0 /\ n \in Parties
  <2>1. pc[0] \in {"done", "abort"} /\ pc[n] \in {"done", "abort"}
    BY <1>1
  <2>2. pc[0] = pc[n]
    <3>1. (pc[0] \in {"masks", "done"} => bad = {}) /\ (pc[0] = "abort" => bad # {})
      BY <1>1 DEF FoundBad
    <3>2. (pc[n] \in {"masks", "done"} => bad = {}) /\ (pc[n] = "abort" => bad # {})
      BY <1>1, <1>3 DEF DealtTo
    <3> QED BY <2>1, <3>1, <3>2
  <2>3. Given(n) - Taken(n) = 0
    BY <2>1, <2>2 DEF Given, Taken
  <2>4. Queue(bad, Given(n), Taken(n)) = <<>>
    BY <2>3 DEF Queue
  <2> QED BY <1>1, <1>3, <2>4 DEF DealtTo
<1>4. CASE m \in Parties /\ n = 0
  <2>1. Asked(m)
    BY <1>1 DEF Asked
  <2> QED BY <1>1, <1>4, <2>1 DEF DealtTo
<1>5. CASE m \in Parties /\ n \in Parties /\ m # n
  <2> DEFINE q == pipe[<<m, n>>]
             s == Stream(wrong, m, n, AllMessages)
  <2>1. ASSUME NEW a \in Parties, NEW b \in Parties PROVE Sent(a, b) = AllMessages /\ Got(a, b) = AllMessages
    <3>1. pc[a] \in {"done", "abort"} /\ InOrder(pc[a], step[a])
      BY <1>1 DEF Control
    <3>2. step[a] = Len(Rounds) + 1
      BY <3>1 DEF InOrder, AfterPc
    <3>3. Base(pc[a], step[a]) = AllMessages
      BY <3>1, <3>2, Counts DEF Base, AllMessages
    <3> QED BY <3>1, <3>3, Counts DEF Sent, Got, SentBy, GotBy
  <2>2. q \in Seq(Element) /\ s \o q = s
    BY <1>1, <1>5, <2>1 DEF Streams
  <2>3. s \in Seq(Element)
    BY <1>5, StreamType, Counts
  <2> HIDE DEF q, s
  <2>4. Len(q) = 0
    <3>1. Len(s \o q) = Len(s) + Len(q) /\ Len(s) \in Nat /\ Len(q) \in Nat
      BY <2>2, <2>3, ConcatProperties, LenProperties
    <3> QED BY <2>2, <3>1
  <2>5. q = <<>>
    BY <2>2, <2>4, EmptySeq
  <2> QED BY <2>5 DEF q
<1> QED
  BY <1>2, <1>3, <1>4, <1>5, NodeNumbers

\* Everybody receives exactly what it is sent: when all nodes have come to
\* the end of evaluateCircuit, by either branch after MACVerification, all
\* pipes are empty and the next use of the network starts in step.
THEOREM NothingLeftOver == Spec => []NothingLeft
BY RoundInvariant, InvNothingLeft, PTL
=============================================================================
