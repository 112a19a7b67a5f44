--------------------------- MODULE MaskedEvalProofs ---------------------------
(***************************************************************************)
(* Proofs about MaskedEval, for any jobs that newInputWire, addGate and    *)
(* setWireMasks take: the circuit and its levels, and the tags of what the *)
(* dealer deals.                                                           *)
(***************************************************************************)
EXTENDS MaskedEval, DealingProofs

-----------------------------------------------------------------------------
(* The circuit of a job, and its levels.                                   *)

\* A job has the fields of JobType.
IsJob(j) ==
  j = [scheme |-> j.scheme, seed |-> j.seed, mod |-> j.mod, gates |-> j.gates,
       outputs |-> j.outputs, levels |-> j.levels, rounds |-> j.rounds, owner |-> j.owner,
       x |-> j.x, random |-> j.random, bitMask |-> j.bitMask, gen |-> j.gen, lg |-> j.lg,
       queue |-> j.queue]

\* The circuit is one of addGate's at any time, and its levels are its own.
CircuitInv ==
  /\ IsJob(job) /\ IsCircuit(job.gates)
  /\ phase = "run" => job.levels = GatesByLevel(job.gates)

\* orderGatesByLevel sets the levels of a job, and leaves its circuit alone.
LEMMA OrderedIs ==
  ASSUME NEW j, IsJob(j)
  PROVE  /\ IsJob(Ordered(j)) /\ Ordered(j).gates = j.gates
         /\ Ordered(j).levels = GatesByLevel(j.gates)
<1> DEFINE k == [j EXCEPT !.levels = GatesByLevel(j.gates)]
<1>1. IsJob(k) /\ k.gates = j.gates /\ k.levels = GatesByLevel(j.gates)
  BY DEF IsJob
<1> DEFINE o == [k EXCEPT !.rounds = RoundsOf(k)]
<1>2. Ordered(j) = o
  BY DEF Ordered
<1> HIDE DEF k
<1>3. IsJob(o) /\ o.gates = k.gates /\ o.levels = k.levels
  BY <1>1 DEF IsJob
<1> QED
  BY <1>1, <1>2, <1>3

\* What addGate takes makes a circuit a longer circuit.
LEMMA CircuitGrows ==
  ASSUME NEW gates, IsCircuit(gates), NEW g, CanAdd(gates, g)
  PROVE  IsCircuit(Append(gates, g))
<1>0. PICK N \in Nat : N = Len(gates)
  BY LenProperties DEF IsCircuit
<1>1. gates \in Seq(Gates) /\ g \in Gates
  BY DEF IsCircuit, CanAdd
<1> DEFINE new == Append(gates, g)
<1>2. /\ new \in Seq(Gates) /\ Len(new) = N + 1 /\ new[N + 1] = g
      /\ \A i \in 1 .. N : new[i] = gates[i]
  BY <1>0, <1>1
<1>3. DOMAIN new = 1 .. N + 1 /\ DOMAIN gates = 1 .. N
  BY <1>0, <1>1, <1>2, LenProperties
<1> HIDE DEF new
<1>4. ASSUME NEW w \in 1 .. N + 1
      PROVE  SubSeq(new, 1, w - 1) = SubSeq(gates, 1, w - 1)
  <2>1. \A i \in 1 .. w - 1 : new[i] = gates[i] /\ gates[i] \in Gates
    BY <1>0, <1>1, <1>2, ElementOfSeq
  <2>2. 1 \in Int /\ w - 1 \in Int
    OBVIOUS
  <2>3. /\ SubSeq(gates, 1, w - 1) \in Seq(Gates)
        /\ Len(SubSeq(gates, 1, w - 1)) = IF 1 <= w - 1 THEN (w - 1) - 1 + 1 ELSE 0
        /\ \A i \in 1 .. (w - 1) - 1 + 1 : SubSeq(gates, 1, w - 1)[i] = gates[1 + i - 1]
    BY <2>1, <2>2, SubSeqProperties
  <2>4. /\ SubSeq(new, 1, w - 1) \in Seq(Gates)
        /\ Len(SubSeq(new, 1, w - 1)) = IF 1 <= w - 1 THEN (w - 1) - 1 + 1 ELSE 0
        /\ \A i \in 1 .. (w - 1) - 1 + 1 : SubSeq(new, 1, w - 1)[i] = new[1 + i - 1]
    BY <2>1, <2>2, SubSeqProperties
  <2>5. \A i \in 1 .. (w - 1) - 1 + 1 : 1 + i - 1 = i /\ i \in 1 .. w - 1
    OBVIOUS
  <2>6. \A i \in 1 .. (w - 1) - 1 + 1 : SubSeq(new, 1, w - 1)[i] = SubSeq(gates, 1, w - 1)[i]
    BY <2>1, <2>3, <2>4, <2>5
  <2>7. \A i \in 1 .. Len(SubSeq(new, 1, w - 1)) : i \in 1 .. (w - 1) - 1 + 1
    BY <2>4
  <2> QED BY <2>3, <2>4, <2>6, <2>7, SeqEqual
<1>5. SubSeq(gates, 1, N) = gates
  BY <1>0, <1>1, SubSeqFull
<1>6. ASSUME NEW w \in 1 .. N + 1
      PROVE  CanAdd(SubSeq(new, 1, w - 1), new[w])
  <2>1. CASE w = N + 1
    <3>1. w - 1 = N
      BY <2>1
    <3> QED BY <1>2, <1>4, <1>5, <2>1, <3>1
  <2>2. CASE w # N + 1
    <3>1. w \in 1 .. N
      BY <2>2
    <3>2. CanAdd(SubSeq(gates, 1, w - 1), gates[w])
      BY <1>3, <3>1 DEF IsCircuit
    <3> QED BY <1>2, <1>4, <3>1, <3>2
  <2> QED BY <2>1, <2>2
<1> QED
  BY <1>2, <1>3, <1>6 DEF IsCircuit, new

\* A job starts from a circuit.
LEMMA CircuitInit == Init => CircuitInv
<1> SUFFICES ASSUME Init PROVE CircuitInv
  OBVIOUS
<1>1. PICK j \in Jobs : /\ job = IF j.scheme = "plain" THEN Ordered(j) ELSE j
                        /\ phase = IF j.scheme = "plain" THEN "run" ELSE "build"
  BY Zenon DEF Init
<1>2. IsJob(j)
  BY JobsAssumption DEF JobType, IsJob
<1>3. IsCircuit(j.gates)
  BY JobsAssumption
<1> QED
  BY <1>1, <1>2, <1>3, OrderedIs DEF CircuitInv

\* Every step keeps it a circuit.
LEMMA CircuitStep == CircuitInv /\ [Next]_vars => CircuitInv'
<1> SUFFICES ASSUME CircuitInv, [Next]_vars PROVE CircuitInv'
  OBVIOUS
<1>1. CASE UNCHANGED <<job, phase>>
  BY <1>1 DEF CircuitInv
<1>2. ASSUME NEW g, AddGate(g) PROVE CircuitInv'
  <2>1. /\ job' = [job EXCEPT !.gates = Append(job.gates, g)] /\ CanAdd(job.gates, g)
        /\ phase' = phase /\ phase = "build"
    BY <1>2 DEF AddGate
  <2>2. IsJob(job') /\ job'.gates = Append(job.gates, g)
    BY <2>1 DEF CircuitInv, IsJob
  <2>3. IsCircuit(job'.gates)
    BY <2>1, <2>2, CircuitGrows DEF CircuitInv
  <2> QED BY <2>1, <2>2, <2>3 DEF CircuitInv
<1>3. CASE Finish
  <2> DEFINE j == [job EXCEPT !.outputs = <<Len(job.gates)>>]
  <2>1. job' = Ordered(j) /\ phase' = "run"
    BY <1>3 DEF Finish
  <2>2. IsJob(j) /\ j.gates = job.gates
    BY DEF CircuitInv, IsJob
  <2> HIDE DEF j
  <2>3. IsJob(job') /\ job'.gates = job.gates /\ job'.levels = GatesByLevel(job'.gates)
    BY <2>1, <2>2, OrderedIs
  <2> QED BY <2>3 DEF CircuitInv
<1>4. ASSUME ~\E g \in Menu(job) : AddGate(g), ~Finish
      PROVE  UNCHANGED <<job, phase>>
  BY <1>4, Zenon
     DEF Next, vars, PlainEval, DealField, DealBool, DealAssisted, Deal, RelayInput, Aggregate,
         StartOnline, SetInput, SetRandomInput, SendBoolInput, TakeBoolInput, PostField,
         PostComparison, PostBool, CloseField, CloseComparison, CloseBool, GetOutputs
<1> QED
  BY <1>1, <1>2, <1>3, <1>4

\* At any time the circuit of a job is one that newInputWire and addGate have built, and
\* orderGatesByLevel has given it the levels that it has.
THEOREM CircuitAlways == Spec => []CircuitInv
  BY CircuitInit, CircuitStep, PTL DEF Spec

\* The comment on LevelOrderedCircuit, of every circuit that can be built: the levels
\* hold every gate once, behind the gates it reads, and a gate that is opened reads
\* wires of earlier levels only.
LEMMA CircuitLevels == CircuitInv => LevelsOrdered
<1> SUFFICES ASSUME CircuitInv, phase = "run" PROVE LevelsOrdered
  BY DEF LevelsOrdered
<1> DEFINE gates == job.gates
           N == Len(gates)
           lev == GateLevel(gates)
           order == FlattenSeq(job.levels)
<1>1. job.levels = GatesByLevel(gates) /\ IsCircuit(gates)
  BY DEF CircuitInv
<1>2. DOMAIN gates = 1 .. N
  BY <1>1, LenProperties DEF IsCircuit
<1> HIDE DEF lev, N
<1>3. /\ N \in Nat /\ lev \in [1 .. N -> Nat]
      /\ \A w \in 1 .. N : \A v \in ToSet(gates[w].ins) :
           /\ v \in 1 .. N /\ v < w /\ lev[v] <= lev[w]
           /\ gates[w].type \notin Linear => lev[v] < lev[w]
  BY <1>1, GatesByLevelIs DEF lev, N
<1>4. PICK D \in Nat : /\ job.levels = [d \in 1 .. D |-> Level(N, lev, d - 1)]
                       /\ \A w \in 1 .. N : lev[w] < D
  <2>1. \E D \in Nat : /\ GatesByLevel(gates) = [d \in 1 .. D |-> Level(N, lev, d - 1)]
                       /\ \A w \in 1 .. N : lev[w] < D
    BY <1>1, GatesByLevelIs, ZenonT(60) DEF lev, N
  <2> QED BY <1>1, <2>1, Zenon
<1>5. order \in Seq(1 .. N) /\ InOrder(lev, order) /\ ToSet(order) = 1 .. N
  BY <1>3, <1>4, LevelsInOrder, ZenonT(60)
<1> HIDE DEF order
<1>6. Len(order) = N /\ \A i, j \in 1 .. Len(order) : Before(lev, order[i], order[j]) => i < j
  BY <1>3, <1>5, InOrderOnce
<1>7. DOMAIN order = 1 .. N /\ \A w \in 1 .. N : \E i \in 1 .. N : order[i] = w
  BY <1>5, <1>6, LenProperties DEF ToSet
<1> DEFINE place == [w \in ToSet(order) |-> CHOOSE i \in DOMAIN order : order[i] = w]
           depth == [w \in ToSet(order) |-> CHOOSE d \in DOMAIN job.levels : w \in ToSet(job.levels[d])]
<1>8. \A w \in 1 .. N : place[w] \in 1 .. N /\ order[place[w]] = w
  BY <1>5, <1>7
<1>9. \A w \in 1 .. N : depth[w] = lev[w] + 1
  <2> TAKE w \in 1 .. N
  <2>1. DOMAIN job.levels = 1 .. D
    BY <1>4
  <2>2. ASSUME NEW d \in 1 .. D PROVE w \in ToSet(job.levels[d]) <=> d = lev[w] + 1
    <3>1. job.levels[d] = Level(N, lev, d - 1) /\ d - 1 \in Nat
      BY <1>4
    <3>2. ToSet(job.levels[d]) = {v \in 1 .. N : lev[v] = d - 1}
      BY <1>3, <3>1, LevelInOrder
    <3>3. lev[w] \in Nat
      BY <1>3
    <3> QED BY <3>2, <3>3
  <2>3. lev[w] + 1 \in 1 .. D
    BY <1>3, <1>4
  <2>4. depth[w] = CHOOSE d \in 1 .. D : w \in ToSet(job.levels[d])
    BY <1>5, <2>1
  <2> QED BY <2>2, <2>3, <2>4
<1>10. ASSUME NEW w \in 1 .. N, NEW v \in ToSet(gates[w].ins)
       PROVE  place[v] < place[w] /\ (gates[w].type \notin Linear => depth[v] < depth[w])
  <2>1. v \in 1 .. N /\ Before(lev, v, w) /\ (gates[w].type \notin Linear => lev[v] < lev[w])
    BY <1>3 DEF Before
  <2>2. /\ place[v] \in 1 .. N /\ place[w] \in 1 .. N
        /\ order[place[v]] = v /\ order[place[w]] = w
    BY <1>8, <2>1
  <2>3. depth[v] = lev[v] + 1 /\ depth[w] = lev[w] + 1 /\ lev[v] \in Nat /\ lev[w] \in Nat
    BY <1>3, <1>9, <2>1
  <2> HIDE DEF place, depth
  <2>4. place[v] < place[w]
    BY <1>6, <2>1, <2>2
  <2> QED BY <2>1, <2>3, <2>4
<1> HIDE DEF place, depth
<1>11. /\ Len(order) = N /\ ToSet(order) = 1 .. N
       /\ \A w \in 1 .. N : \A v \in ToSet(gates[w].ins) :
            place[v] < place[w] /\ (gates[w].type \notin Linear => depth[v] < depth[w])
  BY <1>5, <1>6, <1>10
<1> QED
  BY <1>2, <1>11, Zenon DEF LevelsOrdered, order, place, depth, N

\* The comment on LevelOrderedCircuit holds of every circuit orderGatesByLevel gets: the
\* levels have every gate once and behind the gates it reads, and a gate that is opened
\* reads wires of earlier levels only.
THEOREM LevelsAlwaysOrdered == Spec => []LevelsOrdered
  BY CircuitAlways, CircuitLevels, PTL

-----------------------------------------------------------------------------
(* What the dealer deals.                                                  *)

\* A sharing whose tags add up is one that Tagged accepts.
LEMMA TaggedIs ==
  ASSUME NEW k \in [Rings -> Int], NEW r \in Rings, NEW s \in Shares(r, k), Deals(off[0], k)
  PROVE  Tagged(s, r)
<1> DEFINE v == SumOn(Vals(s), Parties)
           t == SumOn(Tags(s), Parties)
           x == MacKey(off[0], r)
           y == Secret(s, r)
<1>1. x = k[r] /\ x \in Int
  BY DEF Deals
<1>2. r \in Nat \ {0} /\ r \in Int
  BY RingsAre
<1>3. y \in Int /\ y = v % r
  BY SecretType
<1>4. s \in [Parties -> Pairs] /\ IsFiniteSet(Parties)
  BY PartiesAre DEF Shares
<1>5. v \in Int
  <2> DEFINE f == Vals(s)
  <2>1. \A h \in Parties : f[h] \in Int
    BY <1>4 DEF Vals, Pairs
  <2> HIDE DEF f
  <2>2. SumOn(f, Parties) \in Int
    BY <1>4, <2>1, SumType
  <2> QED BY <2>2 DEF f
<1>6. t \in Int /\ SumFunction([h \in DOMAIN s |-> s[h].tag]) = t
  <2> DEFINE f == Tags(s)
  <2>1. DOMAIN f = Parties /\ \A h \in Parties : f[h] \in Int
    BY <1>4 DEF Tags, Pairs
  <2>2. SumFunction([h \in DOMAIN s |-> s[h].tag]) = SumOn(f, Parties)
    BY <2>1 DEF SumFunction, SumFunctionOnSet, SumOn, Tags
  <2> HIDE DEF f
  <2>3. SumOn(f, Parties) \in Int
    BY <1>4, <2>1, SumType
  <2> QED BY <2>2, <2>3 DEF f
<1>7. Cong(t, k[r] * v, r)
  BY DEF Shares, Sound
<1> HIDE DEF v, t, x, y
<1>8. Cong(y, v, r)
  BY <1>2, <1>3, <1>5, CongMod
<1>9. Cong(t, x * v, r)
  BY <1>1, <1>7
<1>10. PICK a \in Int : y = v + a * r
  BY <1>8 DEF Cong
<1>11. PICK b \in Int : t = x * v + b * r
  BY <1>9 DEF Cong
<1>12. x * y = x * v + (x * a) * r /\ x * a \in Int /\ x * v \in Int
  BY <1>1, <1>2, <1>5, <1>10
<1>13. x * y - t = 0 + (x * a - b) * r /\ x * a - b \in Int
  BY <1>2, <1>11, <1>12
<1>14. x * y - t \in Int
  BY <1>1, <1>3, <1>6
<1>15. (x * y - t) % r = 0 % r
  <2> DEFINE z == x * y - t
  <2>1. z \in Int /\ 0 \in Int
    BY <1>14
  <2>2. Cong(z, 0, r)
    BY <1>13 DEF Cong
  <2> HIDE DEF z
  <2>3. z % r = 0 % r
    BY <1>2, <2>1, <2>2, CongEq
  <2> QED BY <2>3 DEF z
<1>16. 0 % r = 0
  BY <1>2
<1>17. (MacKey(off[0], r) * Secret(s, r) - SumFunction([h \in DOMAIN s |-> s[h].tag])) % r = 0
  BY <1>6, <1>15, <1>16 DEF x, y
<1> QED
  BY <1>17 DEF Tagged

\* What a job is made of: the inputs that setWireMasks looks up are there.
JobInv ==
  /\ job.scheme \in Schemes /\ job.seed \in Nat
  /\ job.owner \in Seq(Nodes) /\ job.bitMask \in Seq({0, 1})
  /\ \A w \in DOMAIN job.gates : HasCase(job, job.gates[w], w)

\* Once the dealer has dealt, the circuit stays as it is, and there are keys under which
\* all the dealer has is sound.
DealtInv ==
  Dealt(0) => /\ phase = "run" /\ job.scheme # "plain"
              /\ \E k \in [Rings -> Int] : DealtGates(off[0], Mod, k, DOMAIN job.gates)

\* setAsOutput and orderGatesByLevel leave the rest of a job alone.
LEMMA OrderedKeeps ==
  ASSUME NEW j, IsJob(j)
  PROVE  /\ Ordered(j).scheme = j.scheme /\ Ordered(j).seed = j.seed
         /\ Ordered(j).owner = j.owner /\ Ordered(j).bitMask = j.bitMask
         /\ Ordered(j).mod = j.mod
<1> DEFINE k == [j EXCEPT !.levels = GatesByLevel(j.gates)]
<1>1. /\ IsJob(k) /\ k.scheme = j.scheme /\ k.seed = j.seed /\ k.owner = j.owner
      /\ k.bitMask = j.bitMask /\ k.mod = j.mod
  BY DEF IsJob
<1> DEFINE o == [k EXCEPT !.rounds = RoundsOf(k)]
<1>2. Ordered(j) = o
  BY DEF Ordered
<1> HIDE DEF k
<1>3. /\ o.scheme = k.scheme /\ o.seed = k.seed /\ o.owner = k.owner
      /\ o.bitMask = k.bitMask /\ o.mod = k.mod
  BY <1>1 DEF IsJob
<1> QED
  BY <1>1, <1>2, <1>3

\* A job starts with inputs that setWireMasks finds.
LEMMA JobInit == Init => JobInv
<1> SUFFICES ASSUME Init PROVE JobInv
  OBVIOUS
<1>1. PICK j \in Jobs : job = IF j.scheme = "plain" THEN Ordered(j) ELSE j
  BY Zenon DEF Init
<1>2. /\ j.scheme \in Schemes /\ j.seed \in Nat /\ j.owner \in Seq(Nodes)
      /\ j.bitMask \in Seq({0, 1})
  BY JobsAssumption DEF JobType
<1>3. IsJob(j)
  BY JobsAssumption DEF JobType, IsJob
<1>4. \A w \in DOMAIN j.gates : HasCase(j, j.gates[w], w)
  BY JobsAssumption
<1>5. CASE j.scheme # "plain"
  BY <1>1, <1>2, <1>4, <1>5 DEF JobInv
<1>6. CASE j.scheme = "plain"
  <2>1. job = Ordered(j)
    BY <1>1, <1>6
  <2>2. /\ job.scheme = "plain" /\ job.seed = j.seed /\ job.owner = j.owner
        /\ job.bitMask = j.bitMask
    BY <1>3, <1>6, <2>1, OrderedKeeps
  <2>3. \A w \in DOMAIN job.gates : HasCase(job, job.gates[w], w)
    BY <2>2, Zenon DEF HasCase
  <2>4. /\ job.scheme \in Schemes /\ job.seed \in Nat /\ job.owner \in Seq(Nodes)
        /\ job.bitMask \in Seq({0, 1})
    BY <1>2, <1>6, <2>2
  <2> QED BY <2>3, <2>4, Zenon DEF JobInv
<1> QED
  BY <1>5, <1>6

\* Building the circuit adds a gate that setWireMasks has a case for.
LEMMA JobStep == CircuitInv /\ JobInv /\ [Next]_vars => JobInv'
<1> SUFFICES ASSUME CircuitInv, JobInv, [Next]_vars PROVE JobInv'
  OBVIOUS
<1>0. IsJob(job) /\ job.gates \in Seq(Gates)
  BY DEF CircuitInv, IsCircuit
<1>1. CASE UNCHANGED job
  BY <1>1 DEF JobInv, HasCase
<1>2. ASSUME NEW g, AddGate(g) PROVE JobInv'
  <2> DEFINE N == Len(job.gates)
             new == Append(job.gates, g)
             j == [job EXCEPT !.gates = new]
  <2>1. job' = j /\ HasCase(job, g, N + 1) /\ g \in Gates
    BY <1>2 DEF AddGate, CanAdd
  <2>2. /\ j.gates = new /\ j.scheme = job.scheme /\ j.seed = job.seed
        /\ j.owner = job.owner /\ j.bitMask = job.bitMask
    BY <1>0 DEF IsJob
  <2>3. /\ N \in Nat /\ DOMAIN new = 1 .. N + 1 /\ DOMAIN job.gates = 1 .. N /\ new[N + 1] = g
        /\ \A w \in 1 .. N : new[w] = job.gates[w]
    BY <1>0, <2>1, LenProperties
  <2>4. \A w \in DOMAIN job.gates : HasCase(job, job.gates[w], w)
    BY DEF JobInv
  <2> HIDE DEF N, new, j
  <2>5. \A w \in 1 .. N + 1 : w = N + 1 \/ w \in 1 .. N
    BY <2>3
  <2>6. \A w \in DOMAIN new : HasCase(job, new[w], w)
    BY <2>1, <2>3, <2>4, <2>5
  <2>7. \A w \in DOMAIN j.gates : HasCase(j, j.gates[w], w)
    BY <2>2, <2>6, Zenon DEF HasCase
  <2>8. /\ j.scheme \in Schemes /\ j.seed \in Nat /\ j.owner \in Seq(Nodes)
        /\ j.bitMask \in Seq({0, 1})
    BY <2>2 DEF JobInv
  <2> QED BY <2>1, <2>7, <2>8, Zenon DEF JobInv
<1>3. CASE Finish
  <2> DEFINE i == [job EXCEPT !.outputs = <<Len(job.gates)>>]
             j == Ordered(i)
  <2>1. job' = j
    BY <1>3 DEF Finish
  <2>2. /\ IsJob(i) /\ i.gates = job.gates /\ i.scheme = job.scheme /\ i.seed = job.seed
        /\ i.owner = job.owner /\ i.bitMask = job.bitMask
    BY <1>0 DEF IsJob
  <2> HIDE DEF i
  <2>3. /\ j.gates = job.gates /\ j.scheme = job.scheme /\ j.seed = job.seed
        /\ j.owner = job.owner /\ j.bitMask = job.bitMask
    BY <2>2, OrderedIs, OrderedKeeps
  <2> HIDE DEF j
  <2>4. \A w \in DOMAIN j.gates : HasCase(j, j.gates[w], w)
    BY <2>3, Zenon DEF JobInv, HasCase
  <2>5. /\ j.scheme \in Schemes /\ j.seed \in Nat /\ j.owner \in Seq(Nodes)
        /\ j.bitMask \in Seq({0, 1})
    BY <2>3 DEF JobInv
  <2> QED BY <2>1, <2>4, <2>5, Zenon DEF JobInv
<1>4. ASSUME ~\E g \in Menu(job) : AddGate(g), ~Finish
      PROVE  UNCHANGED job
  BY <1>4, Zenon
     DEF Next, vars, PlainEval, DealField, DealBool, DealAssisted, Deal, RelayInput, Aggregate,
         StartOnline, SetInput, SetRandomInput, SendBoolInput, TakeBoolInput, PostField,
         PostComparison, PostBool, CloseField, CloseComparison, CloseBool, GetOutputs
<1> QED
  BY <1>1, <1>2, <1>3, <1>4

\* The pass that deals the masks of a scheme.
KindOf(scheme) ==
  CASE scheme = "field" -> "field" [] scheme = "bool" -> "bool" [] scheme = "assisted" -> "helper"

\* setWireMasks has a case for every gate of the job.
LEMMA CasesCovered ==
  ASSUME JobInv, NEW kind \in {"field", "bool", "helper"}, kind = KindOf(job.scheme),
         job.scheme \in {"field", "bool", "assisted"}, NEW w \in DOMAIN job.gates
  PROVE  Covered(kind, job, w)
<1>1. HasCase(job, job.gates[w], w) /\ job.owner \in Seq(Nodes) /\ job.bitMask \in Seq({0, 1})
  BY DEF JobInv
<1>2. \A v \in DOMAIN job.owner : job.owner[v] \in Nodes
  BY <1>1
<1>3. \A v \in DOMAIN job.bitMask : job.bitMask[v] \in Int
  BY <1>1
<1>4. CASE job.scheme = "field"
  <2>1. /\ kind = "field" /\ job.gates[w].type \in Cases["field"]
        /\ job.gates[w].type = "Inp" => w \in DOMAIN job.owner
    BY <1>1, <1>4 DEF HasCase, KindOf
  <2>2. job.gates[w].type \in Handled("field")
    BY <2>1, Zenon DEF Cases, Handled
  <2> QED BY <1>2, <2>1, <2>2 DEF Covered
<1>5. CASE job.scheme = "bool"
  <2>1. /\ kind = "bool" /\ job.gates[w].type \in Cases["bool"]
        /\ job.gates[w].type = "Inp" => w \in DOMAIN job.owner /\ w \in DOMAIN job.bitMask
    BY <1>1, <1>5 DEF HasCase, KindOf
  <2>2. job.gates[w].type \in Handled("bool")
    BY <2>1 DEF Cases, Handled
  <2> QED BY <1>2, <1>3, <2>1, <2>2 DEF Covered
<1>6. CASE job.scheme = "assisted"
  <2>1. /\ kind = "helper" /\ job.gates[w].type \in Cases["assisted"]
        /\ job.gates[w].type = "Inp" => w \in DOMAIN job.owner
    BY <1>1, <1>6 DEF HasCase, KindOf
  <2>2. job.gates[w].type \in Handled("helper")
    BY <2>1 DEF Cases, Handled
  <2> QED BY <1>2, <2>1, <2>2 DEF Covered
<1> QED
  BY <1>4, <1>5, <1>6

\* Nobody has dealt at the start.
LEMMA DealtInit == Init => DealtInv
<1> SUFFICES ASSUME Init PROVE ~Dealt(0)
  BY DEF DealtInv
<1>1. off = <<>>
  BY DEF Init
<1> QED
  BY <1>1 DEF Dealt

\* What a node deals with is what it is at.
LEMMA DealIs ==
  ASSUME NEW n, NEW st, NEW message, Deal(n, st, message)
  PROVE  /\ DOMAIN off' = DOMAIN off \cup {n} /\ off'[n] = st
         /\ \A m \in DOMAIN off : m # n => off'[m] = off[m]
         /\ UNCHANGED <<job, phase>>
<1>1. off' = With(off, n, st) /\ UNCHANGED <<job, phase>>
  BY DEF Deal
<1>2. With(off, n, st) = [v \in DOMAIN off \cup {n} |-> IF v = n THEN st ELSE off[v]]
  BY WithIs
<1> QED
  BY <1>1, <1>2

\* The dealer's pass, and nothing after it, makes its state.
LEMMA DealtByDealer ==
  ASSUME PrgTyped, CircuitInv, JobInv, phase = "run", NEW kind \in {"field", "bool", "helper"},
         kind = KindOf(job.scheme), job.scheme \in {"field", "bool", "assisted"}, NEW st,
         st = CASE kind = "field"  -> FieldPass(job, Fresh(0, job.seed))
                [] kind = "bool"   -> BoolPass(job, Fresh(0, job.seed))
                [] kind = "helper" -> HelperPass(job, AssistedFresh(0, job.seed)),
         UNCHANGED <<job, phase>>, Dealt(0)', off'[0] = st
  PROVE  DealtInv'
<1>1. /\ job.seed \in Nat /\ IsCircuit(job.gates) /\ job.levels = GatesByLevel(job.gates)
      /\ \A w \in DOMAIN job.gates : Covered(kind, job, w)
  BY CasesCovered DEF CircuitInv, JobInv
<1>2. PICK k \in [Rings -> Int] : DealtGates(st, Ring(kind), k, DOMAIN job.gates)
  BY <1>1, DealerDealt
<1>3. Ring(kind) = Mod
  BY DEF Ring, Mod, KindOf
<1>4. DealtGates(off'[0], Mod, k, DOMAIN job.gates)
  BY <1>2, <1>3
<1>5. Mod' = Mod /\ job' = job /\ phase' = "run"
  BY DEF Mod
<1>6. DealtGates(off[0]', Mod', k, DOMAIN job'.gates)
  BY <1>4, <1>5
<1> QED
  BY <1>5, <1>6 DEF DealtInv

\* Every other node leaves the dealer's state alone.
LEMMA DealtByOther ==
  ASSUME DealtInv, UNCHANGED <<job, phase>>, Dealt(0)' => Dealt(0) /\ off'[0] = off[0]
  PROVE  DealtInv'
<1> SUFFICES ASSUME Dealt(0)' PROVE DealtInv'
  BY DEF DealtInv
<1>1. PICK k \in [Rings -> Int] : DealtGates(off[0], Mod, k, DOMAIN job.gates)
  BY DEF DealtInv
<1>2. phase = "run" /\ job.scheme # "plain"
  BY DEF DealtInv
<1>3. Mod' = Mod /\ off[0]' = off[0] /\ job' = job /\ phase' = phase
  BY DEF Mod
<1>4. DealtGates(off[0]', Mod', k, DOMAIN job'.gates)
  BY <1>1, <1>3
<1> QED
  BY <1>2, <1>3, <1>4 DEF DealtInv

\* Every step keeps what the dealer has sound.
LEMMA DealtStep ==
  PrgTyped /\ CircuitInv /\ JobInv /\ DealtInv /\ [Next]_vars => DealtInv'
<1> SUFFICES ASSUME PrgTyped, CircuitInv, JobInv, DealtInv, [Next]_vars PROVE DealtInv'
  OBVIOUS
<1>0. NP # 0
  BY DealingAssumption
<1>1. CASE UNCHANGED <<job, phase, off>>
  BY <1>1, DealtByOther DEF Dealt
<1>2. ASSUME phase = "build", UNCHANGED off PROVE DealtInv'
  BY <1>2 DEF DealtInv, Dealt
<1>3. ASSUME NEW n, NEW st, NEW message, Deal(n, st, message), n # 0 PROVE DealtInv'
  <2>1. /\ DOMAIN off' = DOMAIN off \cup {n} /\ n # 0
        /\ \A m \in DOMAIN off : m # n => off'[m] = off[m]
    BY <1>3, DealIs
  <2>2. Dealt(0)' => Dealt(0) /\ off'[0] = off[0]
    BY <2>1 DEF Dealt
  <2> QED BY <1>3, <2>2, DealIs, DealtByOther
<1>4. ASSUME NEW n \in Nodes, DealField(n) PROVE DealtInv'
  <2>1. CASE n = 0
    <3> DEFINE st == FieldPass(job, Fresh(0, job.seed))
    <3>1. CanDeal(0) /\ job.scheme = "field" /\ Deal(0, st, FieldMessage(st))
      BY <1>0, <1>4, <2>1, Zenon DEF DealField
    <3> HIDE DEF st
    <3>2. Dealt(0)' /\ off'[0] = st /\ UNCHANGED <<job, phase>> /\ phase = "run"
      BY <3>1, DealIs DEF Dealt, CanDeal
    <3> QED BY <3>1, <3>2, DealtByDealer DEF st, KindOf
  <2>2. CASE n # 0
    <3>1. \E st, message : Deal(n, st, message)
      BY <1>4, Zenon DEF DealField
    <3> QED BY <1>3, <2>2, <3>1
  <2> QED BY <2>1, <2>2
<1>5. ASSUME NEW n \in Nodes, DealBool(n) PROVE DealtInv'
  <2>1. CASE n = 0
    <3> DEFINE st == BoolPass(job, Fresh(0, job.seed))
    <3>1. CanDeal(0) /\ job.scheme = "bool" /\ Deal(0, st, BoolMessage(st))
      BY <1>0, <1>5, <2>1, Zenon DEF DealBool
    <3> HIDE DEF st
    <3>2. Dealt(0)' /\ off'[0] = st /\ UNCHANGED <<job, phase>> /\ phase = "run"
      BY <3>1, DealIs DEF Dealt, CanDeal
    <3> QED BY <3>1, <3>2, DealtByDealer DEF st, KindOf
  <2>2. CASE n # 0
    <3>1. \E st, message : Deal(n, st, message)
      BY <1>5, Zenon DEF DealBool
    <3> QED BY <1>3, <2>2, <3>1
  <2> QED BY <2>1, <2>2
<1>6. ASSUME NEW n \in Nodes, DealAssisted(n) PROVE DealtInv'
  <2>1. CASE n = 0
    <3> DEFINE st == HelperPass(job, AssistedFresh(0, job.seed))
    <3>1. /\ CanDeal(0) /\ job.scheme = "assisted"
          /\ Deal(0, st, [p \in Parties |-> HelperMessage(st, p)])
      BY <1>6, <2>1, Zenon DEF DealAssisted
    <3> HIDE DEF st
    <3>2. Dealt(0)' /\ off'[0] = st /\ UNCHANGED <<job, phase>> /\ phase = "run"
      BY <3>1, DealIs DEF Dealt, CanDeal
    <3> QED BY <3>1, <3>2, DealtByDealer DEF st, KindOf
  <2>2. CASE n # 0
    <3>1. \E st, message : Deal(n, st, message)
      BY <1>6, Zenon DEF DealAssisted
    <3> QED BY <1>3, <2>2, <3>1
  <2> QED BY <2>1, <2>2
<1>7. ASSUME NEW g, AddGate(g) PROVE DealtInv'
  BY <1>2, <1>7 DEF AddGate
<1>8. CASE Finish
  BY <1>2, <1>8 DEF Finish
<1>9. ASSUME ~\E g \in Menu(job) : AddGate(g), ~Finish,
             ~\E n \in Nodes : DealField(n) \/ DealBool(n) \/ DealAssisted(n)
      PROVE  UNCHANGED <<job, phase, off>>
  BY <1>9, Zenon
     DEF Next, vars, PlainEval, RelayInput, Aggregate, StartOnline, SetInput, SetRandomInput,
         SendBoolInput, TakeBoolInput, PostField, PostComparison, PostBool, CloseField,
         CloseComparison, CloseBool, GetOutputs
<1> QED
  BY <1>1, <1>4, <1>5, <1>6, <1>7, <1>8, <1>9

\* What is sound passes the test of DealtAuthentic.
LEMMA DealtIsAuthentic == DealtInv => DealtAuthentic
<1> SUFFICES ASSUME DealtInv, Dealt(0), NEW w \in DOMAIN job.gates
             PROVE  /\ TaggedGate(off[0].pre[w], Mod)
                    /\ \A v \in DOMAIN off[0].pre[w].inner : TaggedGate(off[0].pre[w].inner[v], 2)
  BY Zenon DEF DealtAuthentic
<1>1. PICK k \in [Rings -> Int] : DealtGates(off[0], Mod, k, DOMAIN job.gates)
  BY DEF DealtInv
<1>2. Mod \in Rings /\ 2 \in Rings
  BY RingsAre DEF DealtInv, Mod
<1>3. Deals(off[0], k) /\ AllSound(off[0].pre[w], Mod, k)
  BY <1>1 DEF DealtGates
<1>4. ASSUME NEW g, NEW r \in Rings, GateSound(g, r, k) PROVE TaggedGate(g, r)
  <2>1. g.mask \in Shares(r, k) /\ \A i \in DOMAIN g.parts : g.parts[i] \in Shares(r, k)
    BY <1>4, ElementOfSeq, LenProperties DEF GateSound
  <2>2. \A s \in Shares(r, k) : Tagged(s, r)
    BY <1>3, TaggedIs
  <2> QED BY <2>1, <2>2 DEF TaggedGate
<1> QED
  BY <1>2, <1>3, <1>4 DEF AllSound

\* setWireMasks of all three offline evaluators: whatever the PRG yields, the ring, the
\* number of parties and the circuit, the tags of every sharing the dealer has dealt add
\* up to the MAC key times its secret, those inside kEqz and kLtz too.
THEOREM DealtAlwaysAuthentic ==
  ASSUME PrgTyped
  PROVE  Spec => []DealtAuthentic
<1>1. Init => CircuitInv /\ JobInv /\ DealtInv
  BY CircuitInit, JobInit, DealtInit
<1>2. CircuitInv /\ JobInv /\ DealtInv /\ [Next]_vars => (CircuitInv /\ JobInv /\ DealtInv)'
  BY CircuitStep, JobStep, DealtStep
<1>3. DealtInv => DealtAuthentic
  BY DealtIsAuthentic
<1> QED
  BY <1>1, <1>2, <1>3, PTL DEF Spec
=============================================================================
