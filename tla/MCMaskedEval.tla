---------------------------- MODULE MCMaskedEval ----------------------------
(* Instances of MaskedEval for TLC.                                        *)
EXTENDS MaskedEval

\* Seed 200 is the one of the code: all streams are equal then.
SomePrg(seed, stream, i) ==
  LET s == IF seed = 200 THEN 1 ELSE stream + 2
  IN  ((seed + 7 * s) * (i + 3) * (i + 3) + s * i + 5 * s * s) % 1009

Blank(scheme, owner, x) ==
  [scheme |-> scheme, mod |-> 2, seed |-> 200, gates |-> Inputs(2), outputs |-> <<>>,
   levels |-> <<>>, rounds |-> <<>>, owner |-> owner, x |-> x, random |-> FALSE,
   bitMask |-> <<1, 1, 0, 1>>, gen |-> "none", lg |-> 1, queue |-> <<>>]

Drawn(jobs)       == {[j EXCEPT !.random = TRUE] : j \in jobs}
Seeded(jobs, S)   == {[j EXCEPT !.seed = s] : j \in jobs, s \in S}

\* Zero, the values around M = 7 and half the range of the bits, P - 1; inputs of
\* one party, of two with and without the last, and of the dealer.
FieldJobs ==
  Seeded({Blank("field", <<1, 3, 2, 3>>, x) : x \in {<<0, 12, 5, 1>>, <<6, 8, 0, 3>>}}, {200, 3})
  \cup Drawn({Blank("field", <<2, 2, 3, 1>>, <<>>)})
  \cup {Blank("field", <<0, 1, 2, 3>>, <<1, 2, 3, 4>>)}
BoolJobs ==
  Seeded({Blank("bool", <<3, 1, 2, 3>>, x) : x \in {<<1, 1, 0, 1>>, <<0, 1, 1, 0>>}}, {200, 3})
  \cup Drawn({Blank("bool", <<2, 2, 3, 1>>, <<>>)})
  \cup {Blank("bool", <<0, 1, 2, 3>>, <<1, 1, 1, 1>>)}
AssistedJobs == Seeded({Blank("assisted", <<3, 1, 2, 3>>, <<1, 2, 3, 4>>)}, {200, 3})

Bits(n) == [1 .. n -> {0, 1}]
Generated(gen, lg, c, xs) ==
  {[Blank("plain", <<>>, x) EXCEPT !.gates = c.gates, !.outputs = c.outputs,
                                   !.gen = gen, !.lg = lg] : x \in xs}
\* Sixteen bits whose first zero is the z-th.
ZeroAt(z) == [i \in 1 .. 16 |-> IF i < z THEN 1 ELSE IF i = z THEN 0 ELSE (i * i + z) % 2]
Double(S) == {a \o b : a \in S, b \in S}
\* Pairs of n-bit numbers, chosen for how far the carries of their sums run.
Binary(n, a)     == [i \in 1 .. n |-> Bit(a, i - 1)]
Carries(n, sums) == {Binary(n, s[1]) \o Binary(n, s[2]) : s \in sums}
Bids(n)   == {[i \in 1 .. n * n + n |-> IF i <= n * n THEN 0 ELSE b[i - n * n]] : b \in [1 .. n -> {0, 2, 5}]}

\* Two banks and three, small amounts and balances, two iterations, in the ring
\* of the K-bit integers.
Netting(queue, n) ==
  {[j EXCEPT !.queue = queue, !.mod = 2 ^ K] :
     j \in Generated("gridlock", 2, GenerateGridlock(queue, n, 2),
                     {a \o b \o [i \in DOMAIN queue |-> 1] :
                        a \in [DOMAIN queue -> {1, 2}], b \in [1 .. n -> {0, 1}]})}

PlainJobs ==
  Generated("multK", 1, GenerateMultK(1), Bits(4))
  \cup Generated("multK", 2, GenerateMultK(2), {ZeroAt(z) : z \in {1, 8, 16, 17}})
  \cup Generated("prefixAND", 1, GenerateParaPrefixAND(1, 2), Double(Bits(4)))
  \cup Generated("prefixAND", 2, GenerateParaPrefixAND(2, 2),
                 {ZeroAt(5) \o ZeroAt(17), ZeroAt(12) \o ZeroAt(1)})
  \cup Generated("prefixOR", 1, GenerateParaPrefixOR(1, 2),
                 {a \o d \o d : a \in Double(Bits(4)), d \in {<<1, 0, 1, 1>>}})
  \cup Generated("ppa", 2, GeneratePPA(2), Double(Bits(4)))
  \cup Generated("ppa", 3, GeneratePPA(3), Carries(8, {<<1, 127>>, <<170, 86>>, <<17, 94>>}))
  \cup Generated("ppaMSB", 2, GeneratePPAMSB(2), Double(Bits(4)))
  \cup Generated("ppaMSB", 4, GeneratePPAMSB(4),
                 Carries(16, {<<1, 32767>>, <<43690, 21846>>, <<4097, 12030>>}))
  \cup Netting(<<<<1, 2>>, <<2, 1>>, <<1, 2>>, <<1, 2>>>>, 2)
  \cup Netting(<<<<1, 2>>, <<2, 3>>, <<3, 1>>>>, 3)
  \cup {[j EXCEPT !.mod = P] : j \in Generated("auction", 1, GenerateAuction(1), Bids(2))
                                     \cup Generated("auction", 2, GenerateAuction(2), Bids(4))}

SomeJobs == FieldJobs \cup BoolJobs \cup AssistedJobs \cup PlainJobs

Multiplications == {Gate("Mul", <<1, 2>>), Gate("Mul3", <<1, 2, 1>>), Gate("Mul4", <<2, 1, 2, 2>>),
                    Gate("Dotprod", <<1, 2, 2, 2>>)}

\* Two inputs, then a gate, then gates that read it and may share its level.
SomeMenu(j) ==
  CASE Len(j.gates) = 2 /\ j.scheme = "field" ->
         Multiplications \cup {Gate("Eqz", <<1>>), Gate("Ltz", <<2>>), Gate("Sub", <<1, 2>>)}
    [] Len(j.gates) = 2 /\ j.scheme = "bool" -> Multiplications
    [] Len(j.gates) = 2 /\ j.scheme = "assisted" ->
         {Gate("Mul", <<1, 2>>), Gate("Mul3", <<1, 2, 1>>), Gate("Sub", <<1, 2>>)}
    [] Len(j.gates) = 3 /\ j.scheme = "field" ->
         {Gate("Add", <<3, 1>>), Gate("Mul", <<3, 2>>), Gate("Ltz", <<3>>), Gate("Eqz", <<1>>),
          ConstGate("ConstAdd", 3, 4), ConstGate("ConstMul", 3, -2), Inp}
    [] Len(j.gates) = 3 /\ j.scheme \in {"bool", "assisted"} ->
         {Gate("Add", <<3, 1>>), Gate("Mul", <<3, 2>>), Gate("Mul", <<2, 1>>),
          ConstGate("ConstAdd", 3, 1), Inp}
    [] OTHER -> {}

\* generatePrefixAND at sixteen bits (the code has 64) of ones but one zero: the first
\* bit of the last quarter, as in its test (input[60] there), and the second bit of all.
OnesBut(z)  == [i \in 1 .. 32 |-> IF i = z THEN 0 ELSE 1]
PrefixJobs  == Generated("prefixFirst", 2, GeneratePrefixAND(2), {OnesBut(13), OnesBut(2)})
NoMenu(j)   == {}

\* A value that is not zero, tested for zero.
EqzJobs    == Seeded({Blank("field", <<1, 3>>, <<x, 0>>) : x \in {5, 12}}, {200, 3})
EqzMenu(j) == IF Len(j.gates) = 2 THEN {Gate("Eqz", <<1>>)} ELSE {}
=============================================================================
