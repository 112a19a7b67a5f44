------------------------------- MODULE Circuit -------------------------------
(***************************************************************************)
(* Circuit<R> of utils/circuit.h: circuits built gate by gate, put in      *)
(* levels by multiplicative depth, evaluated on plaintext inputs, and the  *)
(* generators of the Boolean circuits the comparison gates use.            *)
(*                                                                         *)
(* A circuit is a sequence of gates; wire w is the output of the w-th gate *)
(* (the code counts from 0).  The ring R is given by its modulus: P for    *)
(* Field and 2 for BoolRing.  The width of the generators, 64 in the code, *)
(* is 4^lg here, as the prefix networks need it to be a power of 4; the    *)
(* adders need a power of 2 and have 2^lg bits.                            *)
(*                                                                         *)
(* An operator named Bad... here and in the modules that extend this one   *)
(* is a faulty variant of the definition after it.                         *)
(***************************************************************************)
EXTENDS Integers, Sequences, SequencesExt

CONSTANTS
  P,        \* the prime of Field
  L,        \* a field element is decomposed into 4^L bits
  FRACTION  \* the number of fraction bits

K == 4 ^ L

\* FoldLeft with every step evaluated before the next one begins.
InTurn(Step(_, _), start, xs) ==
  LET after[n \in 0 .. Len(xs)] ==
        IF n = 0 THEN start ELSE CHOOSE t \in {Step(r, xs[n]) : r \in {after[n - 1]}} : TRUE
  IN  after[Len(xs)]

ASSUME CircuitAssumption ==
  /\ L \in Nat \ {0} /\ FRACTION \in Nat
  /\ P \in 2 ^ (K - 1) .. 2 ^ K /\ \A d \in 2 .. P - 1 : P % d # 0

\* What the proofs use of the powers that occur here.
ASSUME PowersAssumption ==
  /\ P \in Nat \ 0 .. 2
  /\ 4 ^ 0 = 1 /\ \A l \in 0 .. L - 1 : 4 ^ (l + 1) = 4 * 4 ^ l
  /\ \A i \in 0 .. K : 2 ^ i \in Nat \ {0}

-----------------------------------------------------------------------------
(* Gates.  A SIMD gate has its two operand vectors one after the other.    *)

GateTypes == {"Inp", "Add", "Mul", "Mul3", "Mul4", "Sub", "ConstAdd", "ConstMul", "Relu", "Msb",
              "Eqz", "Ltz", "Dotprod", "Trdotp"}
Gates     == [type : GateTypes, ins : Seq(Nat), cval : Int]

Gate(type, ins)           == [type |-> type, ins |-> ins, cval |-> 0]
ConstGate(type, in, cval) == [type |-> type, ins |-> <<in>>, cval |-> cval]
Inp                       == Gate("Inp", <<>>)
Inputs(n)                 == [i \in 1 .. n |-> Inp]

FIn2(g)    == g.type \in {"Add", "Mul", "Sub"} /\ Len(g.ins) = 2
FIn3(g)    == g.type = "Mul3" /\ Len(g.ins) = 3
FIn4(g)    == g.type = "Mul4" /\ Len(g.ins) = 4
ConstOp(g) == g.type \in {"ConstAdd", "ConstMul"} /\ Len(g.ins) = 1
FIn1(g)    == g.type \in {"Relu", "Msb", "Eqz", "Ltz"} /\ Len(g.ins) = 1
SIMD(g)    == g.type \in {"Dotprod", "Trdotp"} /\ Len(g.ins) % 2 = 0

\* What newInputWire, addGate and addConstOpGate accept on top of gates.
CanAdd(gates, g) ==
  /\ g \in Gates
  /\ g = Inp \/ FIn2(g) \/ FIn3(g) \/ FIn4(g) \/ ConstOp(g) \/ FIn1(g) \/ SIMD(g)
  /\ ToSet(g.ins) \subseteq DOMAIN gates

\* What has been built gate by gate.
IsCircuit(gates) ==
  gates \in Seq(Gates) /\ \A w \in DOMAIN gates : CanAdd(SubSeq(gates, 1, w - 1), gates[w])

-----------------------------------------------------------------------------
(* orderGatesByLevel()                                                     *)

Linear == {"Add", "Sub", "ConstAdd", "ConstMul"}

\* The last input of a gate is forgotten.
BadLevelOf(level, g) ==
  Append(level, Max({0} \cup {level[w] : w \in ToSet(SubSeq(g.ins, 1, Len(g.ins) - 1))})
                + (IF g.type \in Linear \cup {"Inp"} THEN 0 ELSE 1))

\* gate_level: linear gates do not deepen the circuit, inputs have depth 0.
LevelOf(level, g) ==
  Append(level, Max({0} \cup {level[w] : w \in ToSet(g.ins)})
                + (IF g.type \in Linear \cup {"Inp"} THEN 0 ELSE 1))
GateLevel(gates) ==
  LET level[n \in 0 .. Len(gates)] ==
        IF n = 0 THEN <<>> ELSE LevelOf(level[n - 1], gates[n])
  IN  level[Len(gates)]

\* gates_by_level: the gates of each depth from 0, in the circuit's order.
GatesByLevel(gates) ==
  LET level == GateLevel(gates)
  IN  [d \in 1 .. Max({0} \cup ToSet(level)) + 1 |->
         FlattenSeq([w \in DOMAIN gates |-> IF level[w] = d - 1 THEN <<w>> ELSE <<>>])]

-----------------------------------------------------------------------------
(* evaluate()                                                              *)

Bit(v, i)  == (v \div 2 ^ i) % 2
Half(ins)  == Len(ins) \div 2

Product(xs)     == FoldLeft(LAMBDA x, y : x * y, 1, xs)
InnerProd(v, ins) ==
  FoldLeft(LAMBDA x, i : x + v[ins[i]] * v[ins[i + Half(ins)]], 0,
           [i \in 1 .. Half(ins) |-> i])

\* bitDecomposeTwo(v)[63]; in BoolRing the bit itself.
TopBit(v, m) == IF m = 2 THEN v ELSE Bit(v, K - 1)

GateValue(g, v, m) ==
  LET x == [i \in DOMAIN g.ins |-> v[g.ins[i]]]
  IN  CASE g.type \in {"Mul", "Mul3", "Mul4"} -> Product(x) % m
        [] g.type = "Add"      -> (x[1] + x[2]) % m
        [] g.type = "Sub"      -> (x[1] - x[2]) % m
        [] g.type = "ConstAdd" -> (x[1] + g.cval) % m
        [] g.type = "ConstMul" -> (x[1] * g.cval) % m
        [] g.type = "Eqz"      -> IF x[1] = 0 THEN 1 ELSE 0
        [] g.type \in {"Ltz", "Msb"} -> TopBit(x[1], m)
        [] g.type = "Relu"     -> IF TopBit(x[1], m) = 1 THEN 0 ELSE x[1]
        [] g.type = "Dotprod"  -> InnerProd(v, g.ins) % m
        [] g.type = "Trdotp"   -> (InnerProd(v, g.ins) % m) \div 2 ^ FRACTION

\* wires after all levels; x[w] is the value of input wire w.
EvaluateGate(gates, x, m, v, w) ==
  v @@ (w :> IF gates[w].type = "Inp" THEN x[w] ELSE GateValue(gates[w], v, m))
Evaluate(gates, x, m) ==
  LET gate(v, w)      == EvaluateGate(gates, x, m, v, w)
      level(v, wires) == InTurn(gate, v, wires)
  IN  InTurn(level, <<>>, GatesByLevel(gates))

-----------------------------------------------------------------------------
(* The generators.  A building step has the gates so far and the row of    *)
(* wires (leveli) that the next layer works on.                            *)

Circ(gates, outputs) == [gates |-> gates, outputs |-> outputs]
Levels(lg)           == [level \in 1 .. lg |-> level]

\* One layer of the prefix networks over blocks of 4 * B wires.  The t-th gate
\* multiplies a wire of quarter a of its block with the last wire of each quarter
\* before it (off = 0), or with the one after that (off = 1).
PrefixGate(t, B, row, off) ==
  LET a     == (t - 1) % 4
      i     == ((t - 1) \div 4) % B
      start == ((t - 1) \div (4 * B)) * 4 * B
  IN  Gate(<<"ConstAdd", "Mul", "Mul3", "Mul4">>[a + 1],
           [b \in 1 .. a + 1 |-> IF b <= a THEN row[start + b * B + off]
                                           ELSE row[start + a * B + i + 1]])

PrefixLayer(acc, level) ==
  LET B    == 4 ^ (level - 1)
      row  == acc.row
      base == Len(acc.gates)
  IN  [gates |-> acc.gates \o [t \in DOMAIN row |-> PrefixGate(t, B, row, 0)],
       row   |-> [x \in DOMAIN row |->
                    LET y == (x - 1) % (4 * B)
                    IN  base + ((x - 1) \div (4 * B)) * 4 * B
                        + 4 * (y % B) + y \div B + 1]]

\* generatePrefixAND's layer: the first quarter keeps its wires and the heads
\* are the first wires of the quarters, not the last ones.
FirstHeadLayer(acc, level) ==
  LET B    == 4 ^ (level - 1)
      row  == acc.row
      base == Len(acc.gates)
      all  == [t \in DOMAIN row |-> PrefixGate(t, B, row, 1)]
  IN  [gates |-> acc.gates \o SelectSeq(all, LAMBDA g : g.type # "ConstAdd"),
       row   |-> [x \in DOMAIN row |->
                    LET y == (x - 1) % (4 * B)
                    IN  IF y < B THEN row[x]
                        ELSE base + ((x - 1) \div (4 * B)) * 3 * B
                             + 3 * (y % B) + y \div B]]

\* The stretches are not kept apart.
BadChanges(acc, k) ==
  LET n    == Len(acc.row)
      base == Len(acc.gates)
  IN  [gates |-> acc.gates
         \o [x \in 1 .. n |-> ConstGate("ConstAdd", acc.row[x], 1)]
         \o [x \in 1 .. n |-> IF x = 1 THEN ConstGate("ConstAdd", base + x, 0)
                              ELSE Gate("Add", <<base + x, base + x - 1>>)],
       row   |-> [x \in 1 .. n |-> base + n + x]]

\* wv = not leveli, wz = where wv changes; every stretch of k wires on its own.
Changes(acc, k) ==
  LET n    == Len(acc.row)
      base == Len(acc.gates)
  IN  [gates |-> acc.gates
         \o [x \in 1 .. n |-> ConstGate("ConstAdd", acc.row[x], 1)]
         \o [x \in 1 .. n |-> IF x % k = 1 THEN ConstGate("ConstAdd", base + x, 0)
                              ELSE Gate("Add", <<base + x, base + x - 1>>)],
       row   |-> [x \in 1 .. n |-> base + n + x]]

GeneratePrefixAND(lg) ==
  LET k   == 4 ^ lg
      acc == InTurn(FirstHeadLayer, [gates |-> Inputs(2 * k), row |-> [x \in 1 .. k |-> x]],
                    Levels(lg))
      z   == Changes(acc, k)
      wu  == Len(z.gates) + 1
  IN  Circ(z.gates \o <<Gate("Dotprod", z.row \o [x \in 1 .. k |-> k + x]),
                        ConstGate("ConstAdd", wu, 1)>>,
           <<wu + 1>>)

\* All prefixes but the first of each repetition are outputs; lastAND is built
\* but not an output.
GenerateParaPrefixAND(lg, repeat) ==
  LET k   == 4 ^ lg
      n   == repeat * k
      acc == InTurn(PrefixLayer, [gates |-> Inputs(n), row |-> [x \in 1 .. n |-> x]],
                    Levels(lg))
  IN  Circ(acc.gates \o [r \in 1 .. repeat |-> Gate("Mul", <<acc.row[2], acc.row[3]>>)],
           SelectSeq(acc.row, LAMBDA w : \A r \in 1 .. repeat : w # acc.row[(r - 1) * k + 1]))

\* inp1 and inp2 start with n entries of wire 0, to which the others are
\* appended: n copies of the first input's square are part of the sum.
GenerateParaPrefixOR(lg, repeat) ==
  LET k     == 4 ^ lg
      n     == repeat * k
      acc   == InTurn(PrefixLayer, [gates |-> Inputs(2 * n), row |-> [x \in 1 .. n |-> x]],
                      Levels(lg))
      z     == Changes(acc, k)
      zeros == [x \in 1 .. n |-> 1]
  IN  Circ(Append(z.gates, Gate("Dotprod", zeros \o z.row \o zeros \o [x \in 1 .. n |-> n + x])),
           <<Len(z.gates) + 1>>)

MultLayer(acc, level) ==
  [gates |-> acc.gates \o [j \in 1 .. Len(acc.row) \div 4 |->
                             Gate("Mul4", SubSeq(acc.row, 4 * j - 3, 4 * j))],
   row   |-> [j \in 1 .. Len(acc.row) \div 4 |-> Len(acc.gates) + j]]

GenerateMultK(lg) ==
  LET k   == 4 ^ lg
      acc == InTurn(MultLayer, [gates |-> Inputs(k), row |-> [x \in 1 .. k |-> x]], Levels(lg))
  IN  Circ(acc.gates, <<acc.row[1]>>)

\* The two prefix adders: input_a and input_b have their lowest bit first, p
\* and g are the propagate and generate wires of the bits.
AdderStart(n) ==
  [gates |-> Inputs(2 * n)
             \o [x \in 1 .. 2 * n |-> LET i == (x + 1) \div 2
                                      IN  Gate(IF x % 2 = 1 THEN "Add" ELSE "Mul", <<i, n + i>>)],
   p |-> [i \in 1 .. n |-> 2 * n + 2 * i - 1],
   g |-> [i \in 1 .. n |-> 2 * n + 2 * i]]

\* Bit x takes in what bit y generates and propagates.
Absorb(acc, xy) ==
  LET x == xy[1]  y == xy[2]  w == Len(acc.gates)
  IN  [gates |-> acc.gates \o <<Gate("Mul", <<acc.p[x], acc.g[y]>>),
                                Gate("Add", <<acc.g[x], w + 1>>),
                                Gate("Mul", <<acc.p[x], acc.p[y]>>)>>,
       p |-> [acc.p EXCEPT ![x] = w + 3],
       g |-> [acc.g EXCEPT ![x] = w + 2]]

\* The pairs of one level of generatePPA: the upper half of each block of
\* 2 * H bits absorbs the highest bit of the lower half.
PPAPairs(n, level) ==
  LET H == 2 ^ (level - 1)
  IN  [t \in 1 .. n \div 2 |-> LET top == ((t - 1) \div H) * 2 * H + H
                               IN  <<top + ((t - 1) % H) + 1, top>>]

\* ... and of generatePPAMSB: only the highest bit of each block does, in the
\* last block the highest but one, as bit n - 1 has no carry to give.
PPAMSBPairs(n, level) ==
  LET H     == 2 ^ (level - 1)
      count == n \div (2 * H)
      pairs == [t \in 1 .. count |-> <<IF t < count THEN 2 * H * t ELSE n - 1, 2 * H * t - H>>]
  IN  IF level = 1 THEN SubSeq(pairs, 1, count - 1) ELSE pairs

Adder(n, pairs) == InTurn(Absorb, AdderStart(n), FlattenSeq(pairs))

GeneratePPA(lg) ==
  LET n   == 2 ^ lg
      acc == Adder(n, [level \in 1 .. lg |-> PPAPairs(n, level)])
      w   == Len(acc.gates) + 1
  IN  Circ(acc.gates \o <<Gate("Add", <<1, n + 1>>)>>
           \o [x \in 1 .. 2 * (n - 1) |->
                 LET i == (x + 1) \div 2 + 1
                 IN  IF x % 2 = 1 THEN Gate("Add", <<i, n + i>>)
                     ELSE Gate("Add", <<w + x - 1, acc.g[i - 1]>>)],
           [i \in 1 .. n |-> w + 2 * (i - 1)])

GeneratePPAMSB(lg) ==
  LET n   == 2 ^ lg
      acc == Adder(n, [level \in 1 .. lg |-> PPAMSBPairs(n, level)])
      w   == Len(acc.gates) + 1
  IN  Circ(acc.gates \o <<Gate("Add", <<n, 2 * n>>), Gate("Add", <<w, acc.g[n - 1]>>)>>,
           <<w + 1>>)

\* One comparison of the tournament: the smaller of x and y is replaced by
\* (1 - (x - y < 0)) * (x - y) + y.
Larger(w, x, y) ==
  <<Gate("Sub", <<x, y>>), Gate("Ltz", <<w + 1>>), ConstGate("ConstMul", w + 2, -1),
    ConstGate("ConstAdd", w + 3, 1), Gate("Mul", <<w + 4, w + 1>>), Gate("Add", <<w + 5, y>>)>>

AuctionLayer(acc, level) ==
  LET n    == Len(acc.row) \div 2
      base == Len(acc.gates)
  IN  [gates |-> acc.gates \o FlattenSeq([i \in 1 .. n |->
                   Larger(base + 6 * (i - 1), acc.row[2 * i - 1], acc.row[2 * i])]),
       row   |-> [i \in 1 .. n |-> base + 6 * i]]

\* N bids behind an N x N permutation that is an input but not used.
GenerateAuction(lgN) ==
  LET N   == 2 ^ lgN
      acc == InTurn(AuctionLayer,
                    [gates |-> Inputs(N * N + N), row |-> [i \in 1 .. N |-> N * N + i]],
                    Levels(lgN))
  IN  Circ(acc.gates, <<acc.row[1]>>)
=============================================================================
