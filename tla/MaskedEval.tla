----------------------------- MODULE MaskedEval -----------------------------
(***************************************************************************)
(* From a circuit to its outputs: the circuit is built and put in levels   *)
(* (Circuit), the wire masks are dealt (Dealing, AssistedDealing), and the *)
(* parties 1 .. NP evaluate the gates level by level on masked values, as  *)
(* OnlineEvaluator, BoolEval and BoolEvaluator do.  This module has the    *)
(* values; the messages of a round are OnlineRound's, and a round is here  *)
(* an append-only board: a party posts its openings, and goes on when the  *)
(* openings of all are there.                                              *)
(*                                                                         *)
(* A job is one run of the program.  Its scheme is "field" (asterisk's     *)
(* OfflineEvaluator and OnlineEvaluator), "bool" (the Boolean evaluators), *)
(* "assisted" (assistedMPC, which has the offline phase only) or "plain"   *)
(* (evaluate() on the circuit of a generator).                             *)
(***************************************************************************)
EXTENDS AssistedDealing, Gridlock

CONSTANTS
  Jobs,      \* the jobs: records with
             \*   scheme, seed; mod: the ring of a "plain" job
             \*   gates, outputs: the circuit, or what it starts from
             \*   levels, rounds: empty, set when the circuit is complete
             \*   owner, x: input wire -> its party, its value
             \*   random: whether setRandomInputs takes the place of setInputs
             \*   bitMask: input wire of the dealer -> its mask
             \*   gen, lg: the generator of a "plain" job and its size
             \*   queue: the transactions of "gridlock", lg its iterations
  Menu(_),   \* Menu(job): the gates that may be added next
  MaxGates   \* bound on the gates of a circuit that is built

Schemes == {"field", "bool", "assisted", "plain"}
JobType ==
  [scheme : Schemes, seed : Nat, mod : Nat \ {0}, gates : Seq(Gates), outputs : Seq(Nat),
   levels : {<<>>}, rounds : {<<>>}, owner : Seq(Nodes), x : Seq(Int), random : BOOLEAN,
   bitMask : Seq({0, 1}), gen : STRING, lg : Nat, queue : Seq(Nat \X Nat)]

\* What setWireMasks of a scheme has a case for.  input_pid_map has an owner for each
\* input, which is not the helper of assistedMPC, and bit_mask_map has a bit.
Cases ==
  [field    |-> {"Inp", "Dotprod", "Eqz", "Ltz"} \cup Linear \cup Muls,
   bool     |-> {"Inp", "Dotprod"} \cup Linear \cup Muls,
   assisted |-> {"Inp", "Mul", "Mul3"} \cup Linear]
HasCase(j, g, w) ==
  j.scheme # "plain" =>
    /\ g.type \in Cases[j.scheme]
    /\ g.type = "Inp" => /\ w \in DOMAIN j.owner
                         /\ j.scheme = "assisted" => j.owner[w] # 0
                         /\ j.scheme = "bool" => w \in DOMAIN j.bitMask

\* A job starts from what newInputWire and addGate have built.
ASSUME JobsAssumption ==
  /\ Jobs \subseteq JobType
  /\ \A gates \in {j.gates : j \in Jobs} : IsCircuit(gates)
  /\ \A j \in Jobs : \A w \in DOMAIN j.gates : HasCase(j, j.gates[w], w)

VARIABLES
  job,     \* the job with its circuit
  phase,   \* "build", then "run"
  off,     \* off[n], for the nodes that have dealt: see Dealing
  msg,     \* the dealer's message to NP, or to each party
  sent,    \* input wire -> the masked input its owner sent
  relayed, \* input wire -> the masked input the dealer passed on
  on,      \* on[p]: see Started
  posted,  \* posted[p]: the openings of each round p has posted
  agg,     \* the sums the dealer has passed on, one for each Boolean round
  out      \* out[p]: the outputs of p, out[0]: those of evaluate()

vars == <<job, phase, off, msg, sent, relayed, on, posted, agg, out>>

Mod == IF job.scheme = "plain" THEN job.mod ELSE IF job.scheme = "bool" THEN 2 ELSE P

-----------------------------------------------------------------------------
(* Building the circuit.                                                   *)

AddGate(g) ==
  /\ phase = "build" /\ Len(job.gates) < MaxGates
  /\ CanAdd(job.gates, g) /\ HasCase(job, g, Len(job.gates) + 1)
  /\ job' = [job EXCEPT !.gates = Append(@, g)]
  /\ UNCHANGED <<phase, off, msg, sent, relayed, on, posted, agg, out>>

GatesAt(j, d, types) == SelectSeq(j.levels[d], LAMBDA w : j.gates[w].type \in types)
Opened == Muls \cup {"Dotprod"}

MultKLevels    == GatesByLevel(MultK.gates)
PrefixORLevels == GatesByLevel(PrefixOR.gates)
InnerCircuit(kind) == IF kind = "eqz" THEN MultK ELSE PrefixOR
InnerLevels(kind)  == IF kind = "eqz" THEN MultKLevels ELSE PrefixORLevels

Round(kind, d, e) == [kind |-> kind, d |-> d, e |-> e]

\* evaluateGatesAtDepth for each depth: eqzEvaluate and ltzEvaluate, if the
\* level has such gates, with a round for each level of their circuit, then the
\* gates of the level.
RoundsOf(j) ==
  LET inner(d, kind, type) ==
        IF GatesAt(j, d, {type}) = <<>> THEN <<>>
        ELSE [e \in DOMAIN InnerLevels(kind) |-> Round(kind, d, e)]
  IN  IF j.scheme = "bool" THEN [d \in DOMAIN j.levels |-> Round("bool", d, 0)]
      ELSE FlattenSeq([d \in DOMAIN j.levels |->
             inner(d, "eqz", "Eqz") \o inner(d, "ltz", "Ltz") \o <<Round("field", d, 0)>>])

Ordered(j) == LET k == [j EXCEPT !.levels = GatesByLevel(j.gates)]
              IN  [k EXCEPT !.rounds = RoundsOf(k)]

\* setAsOutput and orderGatesByLevel.
Finish ==
  /\ phase = "build"
  /\ job' = Ordered([job EXCEPT !.outputs = <<Len(job.gates)>>])
  /\ phase' = "run"
  /\ UNCHANGED <<off, msg, sent, relayed, on, posted, agg, out>>

\* evaluate() of a generated circuit.
PlainEval ==
  /\ phase = "run" /\ job.scheme = "plain" /\ 0 \notin DOMAIN out
  /\ LET wire == Evaluate(job.gates, job.x, Mod)
     IN  out' = (0 :> [i \in DOMAIN job.outputs |-> wire[job.outputs[i]]])
  /\ UNCHANGED <<job, phase, off, msg, sent, relayed, on, posted, agg>>

-----------------------------------------------------------------------------
(* setWireMasks of the three offline evaluators.                           *)

Dealt(n)   == n \in DOMAIN off
CanDeal(n) == phase = "run" /\ ~Dealt(n)

\* n has dealt with state st; the message is the dealer's.
Deal(n, st, message) ==
  /\ off' = With(off, n, st)
  /\ msg' = IF n = 0 THEN message ELSE msg
  /\ UNCHANGED <<job, phase, sent, relayed, on, posted, agg, out>>

DealField(n) ==
  /\ CanDeal(n) /\ job.scheme = "field" /\ (n = NP => Dealt(0))
  /\ LET st == FieldPass(job, IF n = NP THEN FieldReceived(Fresh(n, job.seed), msg)
                              ELSE Fresh(n, job.seed))
     IN  Deal(n, st, FieldMessage(st))

DealBool(n) ==
  /\ CanDeal(n) /\ job.scheme = "bool" /\ (n = NP => Dealt(0))
  /\ LET st == BoolPass(job, IF n = NP THEN BoolReceived(Fresh(n, job.seed), msg)
                             ELSE Fresh(n, job.seed))
     IN  Deal(n, st, BoolMessage(st))

DealAssisted(n) ==
  /\ CanDeal(n) /\ job.scheme = "assisted" /\ (n # 0 => Dealt(0))
  /\ LET st == IF n = 0 THEN HelperPass(job, AssistedFresh(0, job.seed))
               ELSE PartyPass(job, PartyReceived(AssistedFresh(n, job.seed), msg[n]))
     IN  Deal(n, st, [p \in Parties |-> HelperMessage(st, p)])

-----------------------------------------------------------------------------
(* What a party has online:                                                *)
(*   inp   the number of input gates it is through with                    *)
(*   pos   its draws from all_minus_0()                                    *)
(*   wire  wires_, masked; q and qsh: q_val_ and q_sh_                     *)
(*   cmp   comparison gate -> the wires of its BoolEval circuit            *)
(*   pad   opening -> r_sum, for the round it has posted                   *)
(*   at    the round it is in                                              *)

Started == [inp |-> 0, pos |-> 0, wire |-> <<>>, q |-> <<>>, qsh |-> <<>>, cmp |-> <<>>,
            pad |-> <<>>, at |-> 1]

InputGates == SelectSeq(job.levels[1], LAMBDA w : job.gates[w] = Inp)
NextInput(p) == InputGates[on[p].inp + 1]
Online(p) == p \in DOMAIN on

\* The dealer's inputs are for the offline phase only: no evaluator reads them.
StartOnline(p) ==
  /\ Dealt(p) /\ ~Online(p) /\ job.scheme \in {"field", "bool"}
  /\ \A i \in DOMAIN InputGates : job.owner[InputGates[i]] # 0
  /\ on' = on @@ (p :> Started)
  /\ posted' = posted @@ (p :> <<>>)
  /\ UNCHANGED <<job, phase, off, msg, sent, relayed, agg, out>>

AtInput(p) == Online(p) /\ on[p].inp < Len(InputGates)

TakeWire(p, value, draws) ==
  on' = [on EXCEPT ![p].inp = @ + 1, ![p].pos = @ + draws,
                   ![p].wire = @ @@ (NextInput(p) :> value)]

\* setInputs of OnlineEvaluator: the owner sends mask + input to all.
SetInput(p) ==
  /\ AtInput(p) /\ job.scheme = "field" /\ ~job.random
  /\ LET w == NextInput(p)
         q == (off[p].pre[w].value + job.x[w]) % P
     IN  IF job.owner[w] = p
         THEN TakeWire(p, q, 0) /\ sent' = sent @@ (w :> q)
         ELSE w \in DOMAIN sent /\ TakeWire(p, sent[w], 0) /\ UNCHANGED sent
  /\ UNCHANGED <<job, phase, off, msg, relayed, posted, agg, out>>

\* setRandomInputs: the masked values themselves are drawn, one from all() for
\* each input.
SetRandomInput(p) ==
  /\ AtInput(p) /\ job.random
  /\ TakeWire(p, Prg(job.seed, AllStream, on[p].inp) % Mod, 0)
  /\ UNCHANGED <<job, phase, off, msg, sent, relayed, posted, agg, out>>

\* setInputs of BoolEvaluator: the owner sends mask + input + r_in to the
\* dealer, the dealer to all, who take off the r_in they have drawn.
RIn(p) == Prg(job.seed, AllMinus0Stream, on[p].pos) % 2

SendBoolInput(p) ==
  /\ AtInput(p) /\ job.scheme = "bool" /\ ~job.random
  /\ job.owner[NextInput(p)] = p /\ NextInput(p) \notin DOMAIN sent
  /\ sent' = sent @@ (NextInput(p) :>
               (off[p].pre[NextInput(p)].value + job.x[NextInput(p)] + RIn(p)) % 2)
  /\ UNCHANGED <<job, phase, off, msg, relayed, on, posted, agg, out>>

RelayInput ==
  /\ Dealt(0) /\ job.scheme = "bool" /\ Cardinality(DOMAIN relayed) < Len(InputGates)
  /\ LET w == InputGates[Cardinality(DOMAIN relayed) + 1]
     IN  w \in DOMAIN sent /\ relayed' = relayed @@ (w :> sent[w])
  /\ UNCHANGED <<job, phase, off, msg, sent, on, posted, agg, out>>

TakeBoolInput(p) ==
  /\ AtInput(p) /\ job.scheme = "bool" /\ ~job.random
  /\ NextInput(p) \in DOMAIN relayed
  /\ TakeWire(p, (relayed[NextInput(p)] - RIn(p)) % 2, 1)
  /\ UNCHANGED <<job, phase, off, msg, sent, relayed, posted, agg, out>>

-----------------------------------------------------------------------------
(* The opening of a gate: with masked inputs m and input masks d, party p's *)
(* share of (product of the m - d) + mask.                                 *)

\* The product of the m over the inputs that are not in S.
Others(g, S, wire) ==
  Product([i \in DOMAIN g.ins |-> IF i \in S THEN 1 ELSE wire[g.ins[i]]])
Sign(n) == IF n % 2 = 0 THEN 1 ELSE -1

MulShare(p, pre, g, w, wire, r) ==
  LET sets    == ProductSets[g.type]
      singles == [i \in DOMAIN g.ins |-> PairTimes(pre[g.ins[i]].mask[p], -Others(g, {i}, wire), r)]
      prods   == [i \in DOMAIN sets |->
                    PairTimes(pre[w].parts[i][p],
                              Sign(Len(sets[i])) * Others(g, ToSet(sets[i]), wire), r)]
  IN  Add(FoldLeft(LAMBDA a, b : PairPlus(a, b, r), pre[w].mask[p], singles \o prods),
          off[p].key[r][p], Others(g, {}, wire), p, r)

DotShare(p, pre, g, w, wire, r) ==
  LET h     == Half(g.ins)
      terms == [i \in DOMAIN g.ins |->
                  PairTimes(pre[g.ins[i]].mask[p],
                            -wire[g.ins[IF i <= h THEN i + h ELSE i - h]], r)]
  IN  Add(FoldLeft(LAMBDA a, b : PairPlus(a, b, r),
                   PairPlus(pre[w].mask[p], pre[w].parts[1][p], r), terms),
          off[p].key[r][p], InnerProd(wire, g.ins), p, r)

GateShare(p, pre, g, w, wire, r) ==
  IF g.type = "Dotprod" THEN DotShare(p, pre, g, w, wire, r) ELSE MulShare(p, pre, g, w, wire, r)

\* Boolean openings are padded: NP bits are drawn for each, in the order of the
\* openings, of which a party adds its own to the value, and NP times to the
\* tag; r_sum is the sum of all.
PadBit(pos, n, i) == Prg(job.seed, AllMinus0Stream, pos + (n - 1) * NP + i - 1) % 2
PadSum(pos, n)    == SumFunction([i \in Parties |-> PadBit(pos, n, i)]) % 2
Padded(p, share, bit) ==
  FoldLeft(LAMBDA s, i : AddWithAdder(s, off[p].key[2][p], bit, p, i, 2), share,
           [i \in Parties |-> i])

-----------------------------------------------------------------------------
(* eqzEvaluate and ltzEvaluate: the inputs of BoolEval, the share to open. *)

RoundOf(p) == job.rounds[on[p].at]
Comparisons(round) ==
  GatesAt(job, round.d, IF round.kind = "eqz" THEN {"Eqz"} ELSE {"Ltz"})

M == (P + 1) \div 2

EqzInputs(p, g) ==
  LET val == (on[p].wire[job.gates[g].ins[1]] + off[p].pre[g].pad) % P
  IN  [w \in 1 .. K |-> 1 - Bit(val, w - 1)]

Val2(p, g) == (on[p].wire[job.gates[g].ins[1]] + off[p].pre[g].pad + M) % P
LtzInputs(p, g) ==
  LET val  == (on[p].wire[job.gates[g].ins[1]] + off[p].pre[g].pad) % P
      val2 == Val2(p, g)
  IN  [w \in 1 .. 4 * K |-> CASE w <= K                -> 1 - Bit(val, K - w)
                              [] w > K /\ w <= 2 * K   -> 1 - Bit(val2, 2 * K - w)
                              [] w > 2 * K             -> 0]

\* m_b, from the masked output of the Boolean circuit.
EqzBit(p, g) == on[p].cmp[g][MultK.outputs[1]]

\* Without the test of val2.
BadLtzBit(p, g) == on[p].cmp[g][PrefixOR.outputs[1]]
LtzBit(p, g) == (on[p].cmp[g][PrefixOR.outputs[1]] + (IF Val2(p, g) < M THEN 1 ELSE 0)) % 2

EqzShare(p, g) ==
  LET pre == off[p].pre[g]
  IN  PairMinus(pre.parts[1][p], PairTimes(pre.parts[2][p], EqzBit(p, g), P), P)
LtzShare(p, g) ==
  LET pre == off[p].pre[g]
  IN  PairPlus(pre.parts[1][p], PairTimes(pre.parts[2][p], LtzBit(p, g), P), P)

-----------------------------------------------------------------------------
(* Rounds.                                                                 *)

\* What is opened: gates, and in BoolEval the gates of each comparison.
Openings(round) ==
  CASE round.kind = "field" -> GatesAt(job, round.d, Opened \cup {"Eqz", "Ltz"})
    [] round.kind = "bool"  -> GatesAt(job, round.d, Opened)
    [] OTHER -> LET inner == InnerCircuit(round.kind).gates
                    open  == SelectSeq(InnerLevels(round.kind)[round.e],
                                       LAMBDA w : inner[w].type \in Opened)
                    gates == Comparisons(round)
                IN  FlattenSeq([i \in DOMAIN gates |-> [j \in DOMAIN open |-> <<gates[i], open[j]>>]])

\* evaluateGatesAtDepthPartySend of OnlineEvaluator, and the shares that
\* eqzEvaluate and ltzEvaluate have left.
FieldShare(p, w) ==
  LET g == job.gates[w]
  IN  CASE g.type = "Eqz" -> EqzShare(p, w)
        [] g.type = "Ltz" -> LtzShare(p, w)
        [] OTHER          -> GateShare(p, off[p].pre, g, w, on[p].wire, P)

InPost(p) ==
  /\ Online(p) /\ on[p].inp = Len(InputGates) /\ on[p].at <= Len(job.rounds)
  /\ Len(posted[p]) = on[p].at - 1

PostField(p) ==
  /\ InPost(p) /\ RoundOf(p).kind = "field"
  /\ LET shares == [w \in ToSet(Openings(RoundOf(p))) |-> FieldShare(p, w)]
     IN  /\ posted' = [posted EXCEPT ![p] = Append(@, [w \in DOMAIN shares |-> shares[w].val])]
         /\ on' = [on EXCEPT ![p].qsh = @ @@ shares]
  /\ UNCHANGED <<job, phase, off, msg, sent, relayed, agg, out>>

\* evaluateGatesAtDepthPartySend of BoolEval.  At the first level the inputs are
\* set and the generator is new.
BoolEvalStart(p, round) ==
  IF round.e # 1 THEN on[p]
  ELSE [on[p] EXCEPT !.pos = 0,
                     !.cmp = [g \in ToSet(Comparisons(round)) |->
                                IF round.kind = "eqz" THEN EqzInputs(p, g) ELSE LtzInputs(p, g)] @@ @]

BoolPost(p, me, items, share) ==
  LET n(x)   == CHOOSE i \in DOMAIN items : items[i] = x
      shares == [x \in ToSet(items) |-> Padded(p, share[x], PadBit(me.pos, n(x), p))]
  IN  /\ posted' = [posted EXCEPT ![p] = Append(@, [x \in ToSet(items) |-> shares[x].val])]
      /\ on' = [on EXCEPT ![p] = [me EXCEPT !.pos = @ + NP * Len(items),
                                            !.pad = [x \in ToSet(items) |-> PadSum(me.pos, n(x))]]]

PostComparison(p) ==
  /\ InPost(p) /\ RoundOf(p).kind \in {"eqz", "ltz"}
  /\ LET round    == RoundOf(p)
         me       == BoolEvalStart(p, round)
         share    == [x \in ToSet(Openings(round)) |->
                        GateShare(p, off[p].pre[x[1]].inner, InnerCircuit(round.kind).gates[x[2]],
                                  x[2], me.cmp[x[1]], 2)]
     IN  BoolPost(p, me, Openings(round), share)
  /\ UNCHANGED <<job, phase, off, msg, sent, relayed, agg, out>>

\* evaluateGatesAtDepthPartySend of BoolEvaluator.
PostBool(p) ==
  /\ InPost(p) /\ RoundOf(p).kind = "bool"
  /\ LET share == [w \in ToSet(Openings(RoundOf(p))) |->
                     GateShare(p, off[p].pre, job.gates[w], w, on[p].wire, 2)]
     IN  BoolPost(p, on[p], Openings(RoundOf(p)), share)
  /\ UNCHANGED <<job, phase, off, msg, sent, relayed, agg, out>>

\* BoolEvaluator's dealer adds up the packed openings of a level, which are in the
\* order of their types.
ByType(items) ==
  FlattenSeq([i \in 1 .. 4 |->
    SelectSeq(items, LAMBDA w : job.gates[w].type = <<"Mul", "Mul3", "Mul4", "Dotprod">>[i])])

AddedUp(d, items) ==
  LET packed(p) == Pack([i \in DOMAIN items |-> posted[p][d][items[i]]])
      sum       == [i \in DOMAIN items |->
                      SumFunction([p \in Parties |-> Unpack(packed(p), Len(items))[i]]) % 2]
  IN  [x \in ToSet(items) |->
         Unpack(Pack(sum), Len(items))[CHOOSE i \in DOMAIN items : items[i] = x]]

Aggregate ==
  LET d == Len(agg) + 1
  IN  /\ Dealt(0) /\ job.scheme = "bool" /\ d <= Len(job.rounds)
      /\ \A p \in Parties : Online(p) /\ Len(posted[p]) >= d
      /\ agg' = Append(agg, AddedUp(d, ByType(Openings(job.rounds[d]))))
      /\ UNCHANGED <<job, phase, off, msg, sent, relayed, on, posted, out>>

InClose(p) == Online(p) /\ on[p].at <= Len(job.rounds) /\ Len(posted[p]) = on[p].at
AllPosted(p) == \A o \in Parties : Online(o) /\ Len(posted[o]) >= on[p].at
OpenedSum(p, m) ==
  [x \in DOMAIN posted[p][on[p].at] |->
     SumFunction([o \in Parties |-> posted[o][on[p].at][x]]) % m]

\* A gate with a constant is passed over.
BadFieldWire(p, wire, q, w) ==
  LET g == job.gates[w]
  IN  CASE g.type \in {"Inp", "ConstAdd", "ConstMul"} -> wire
        [] g.type \in Linear     -> wire @@ (w :> GateValue(g, wire, P))
        [] g.type \in Opened     -> wire @@ (w :> q[w])
        [] g.type = "Eqz"        -> wire @@ (w :> (EqzBit(p, w) - 2 * q[w]) % P)
        [] g.type = "Ltz"        -> wire @@ (w :> (LtzBit(p, w) - 2 * q[w]) % P)

\* evaluateGatesAtDepthPartyRecv of OnlineEvaluator: the gates of the level in
\* order, linear gates on masked wires.
FieldWire(p, wire, q, w) ==
  LET g == job.gates[w]
  IN  CASE g.type = "Inp"        -> wire
        [] g.type \in Linear     -> wire @@ (w :> GateValue(g, wire, P))
        [] g.type \in Opened     -> wire @@ (w :> q[w])
        [] g.type = "Eqz"        -> wire @@ (w :> (EqzBit(p, w) - 2 * q[w]) % P)
        [] g.type = "Ltz"        -> wire @@ (w :> (LtzBit(p, w) - 2 * q[w]) % P)

CloseField(p) ==
  /\ InClose(p) /\ RoundOf(p).kind = "field" /\ AllPosted(p)
  /\ LET q == OpenedSum(p, P)
     IN  on' = [on EXCEPT ![p].q = @ @@ q, ![p].at = @ + 1,
                          ![p].wire = FoldLeft(LAMBDA v, w : FieldWire(p, v, q, w), @,
                                               job.levels[RoundOf(p).d])]
  /\ UNCHANGED <<job, phase, off, msg, sent, relayed, posted, agg, out>>

\* evaluateGatesAtDepthPartyRecv of BoolEval and BoolEvaluator.  The inputs are
\* there; q[w] is padded with pad[w].
BoolWire(wire, g, w, q, pad) ==
  CASE g.type = "Inp"    -> wire
    [] g.type \in Linear -> wire @@ (w :> GateValue(g, wire, 2))
    [] g.type \in Opened -> wire @@ (w :> (q - pad) % 2)

CloseComparison(p) ==
  /\ InClose(p) /\ RoundOf(p).kind \in {"eqz", "ltz"} /\ AllPosted(p)
  /\ LET round == RoundOf(p)
         inner == InnerCircuit(round.kind).gates
         q     == OpenedSum(p, 2)
         opened(g, w) == IF inner[w].type \in Opened THEN q[<<g, w>>] ELSE 0
         pad(g, w)    == IF inner[w].type \in Opened THEN on[p].pad[<<g, w>>] ELSE 0
         level(g) == FoldLeft(LAMBDA v, w : BoolWire(v, inner[w], w, opened(g, w), pad(g, w)),
                              on[p].cmp[g], InnerLevels(round.kind)[round.e])
     IN  on' = [on EXCEPT ![p].at = @ + 1, ![p].pad = <<>>,
                          ![p].cmp = [g \in ToSet(Comparisons(round)) |-> level(g)] @@ @]
  /\ UNCHANGED <<job, phase, off, msg, sent, relayed, posted, agg, out>>

CloseBool(p) ==
  /\ InClose(p) /\ RoundOf(p).kind = "bool" /\ Len(agg) >= on[p].at
  /\ LET q == agg[on[p].at]
         opened(f, w) == IF job.gates[w].type \in Opened THEN f[w] ELSE 0
     IN  on' = [on EXCEPT ![p].at = @ + 1, ![p].pad = <<>>, ![p].q = @ @@ q,
                  ![p].wire = FoldLeft(LAMBDA v, w : BoolWire(v, job.gates[w], w, opened(q, w),
                                                              opened(on[p].pad, w)),
                                       @, job.levels[RoundOf(p).d])]
  /\ UNCHANGED <<job, phase, off, msg, sent, relayed, posted, agg, out>>

-----------------------------------------------------------------------------
(* MACVerification and getOutputs.                                         *)

Done(p) == Online(p) /\ on[p].at > Len(job.rounds)

\* The parties' terms of one opened value add up to zero.
MacOk(w) ==
  SumFunction([p \in Parties |-> on[p].q[w] * off[p].key[P][p] - on[p].qsh[w].tag]) % P = 0
Verified == \A w \in DOMAIN job.gates : job.gates[w].type \in Opened => MacOk(w)

OutputMasks == IF job.scheme = "bool"
               THEN [i \in DOMAIN job.outputs |-> Secret(BoolOutputMasks(job, off[0])[i], 2)]
               ELSE FieldOutputMasks(job, off[0])

GetOutputs(p) ==
  /\ Done(p) /\ p \notin DOMAIN out /\ Dealt(0)
  /\ job.scheme = "field" => \A o \in Parties : Done(o)
  /\ out' = out @@ (p :> [i \in DOMAIN job.outputs |->
              IF job.scheme = "field" /\ ~Verified THEN 0
              ELSE (on[p].wire[job.outputs[i]] - OutputMasks[i]) % Mod])
  /\ UNCHANGED <<job, phase, off, msg, sent, relayed, on, posted, agg>>

-----------------------------------------------------------------------------
Init ==
  /\ \E j \in Jobs :
       /\ job = IF j.scheme = "plain" THEN Ordered(j) ELSE j
       /\ phase = IF j.scheme = "plain" THEN "run" ELSE "build"
  /\ off = <<>> /\ msg = <<>> /\ sent = <<>> /\ relayed = <<>>
  /\ on = <<>> /\ posted = <<>> /\ agg = <<>> /\ out = <<>>

Next ==
  \/ \E g \in Menu(job) : AddGate(g)
  \/ Finish \/ PlainEval
  \/ \E n \in Nodes : DealField(n) \/ DealBool(n) \/ DealAssisted(n)
  \/ RelayInput \/ Aggregate
  \/ \E p \in Parties :
       \/ StartOnline(p)
       \/ SetInput(p) \/ SetRandomInput(p) \/ SendBoolInput(p) \/ TakeBoolInput(p)
       \/ PostField(p) \/ PostComparison(p) \/ PostBool(p)
       \/ CloseField(p) \/ CloseComparison(p) \/ CloseBool(p)
       \/ GetOutputs(p)

Spec == Init /\ [][Next]_vars

-----------------------------------------------------------------------------
(* Properties.                                                             *)

\* Every variable has the shape its comment gives.
TypeOK ==
  /\ job.scheme \in Schemes /\ phase \in {"build", "run"}
  /\ DOMAIN off \subseteq Nodes /\ DOMAIN on \subseteq Parties
  /\ \A n \in DOMAIN off : DOMAIN off[n].pre = DOMAIN job.gates
  /\ DOMAIN posted = DOMAIN on
  /\ \A p \in DOMAIN on :
       /\ on[p].inp \in 0 .. Len(InputGates) /\ on[p].at \in 1 .. Len(job.rounds) + 1
       /\ \A w \in DOMAIN on[p].wire : w \in DOMAIN job.gates /\ on[p].wire[w] \in 0 .. Mod - 1
       /\ Done(p) => DOMAIN on[p].wire = DOMAIN job.gates
  /\ \A p \in DOMAIN out : \A i \in DOMAIN out[p] : out[p][i] \in 0 .. Mod - 1

\* The plaintext inputs: with setRandomInputs, what the masked ones stand for.
MaskOf(w) == Secret(off[0].pre[w].mask, Mod)
Plain ==
  [w \in ToSet(InputGates) |->
     IF job.random
     THEN LET i == CHOOSE k \in DOMAIN InputGates : InputGates[k] = w
          IN  ((Prg(job.seed, AllStream, i - 1) % Mod) - MaskOf(w)) % Mod
     ELSE job.x[w]]
Reference == Evaluate(job.gates, Plain, Mod)

\* The gates whose masked evaluation is that of evaluate(): not an Eqz of a
\* nonzero value (see EqzAsEvaluate), not an Ltz of a value from M up to half the
\* range of the bits, which only evaluate() takes to be positive, and nothing
\* that depends on such a gate.
Exact(value) ==
  LET own(g) == /\ g.type = "Eqz" => value[g.ins[1]] = 0
                /\ g.type = "Ltz" => value[g.ins[1]] \notin M .. 2 ^ (K - 1) - 1
  IN  FoldLeft(LAMBDA e, g : Append(e, own(g) /\ \A w \in ToSet(g.ins) : e[w]), <<>>, job.gates)

\* Masked evaluation computes what evaluate() computes: on every wire a party
\* has reached, its masked value less the mask the dealer knows is the plaintext
\* value, and so are the outputs.  Dealer, parties and the Boolean circuits of the
\* comparisons have to fit together for that, gate by gate.
MaskedRight ==
  Dealt(0) /\ DOMAIN on # {} =>
    LET value == Reference
        exact == Exact(value)
    IN  /\ \A p \in DOMAIN on : \A w \in DOMAIN on[p].wire :
             exact[w] => (on[p].wire[w] - MaskOf(w)) % Mod = value[w]
        /\ \A p \in DOMAIN out : \A i \in DOMAIN job.outputs :
             exact[job.outputs[i]] => out[p][i] = value[job.outputs[i]]

\* Each on its own, dealer and parties come to the same shares: they have drawn
\* equally often from every stream they have in common, what was sent for the
\* vectors is read to the end, and the owner of an input knows its mask.
SameGate(a, b, p) ==
  /\ a.mask[p] = b.mask[p] /\ a.pad = b.pad
  /\ Len(a.parts) = Len(b.parts) /\ \A i \in DOMAIN a.parts : a.parts[i][p] = b.parts[i][p]
ReadToTheEnd(p) ==
  IF job.scheme = "assisted"
  THEN \A v \in DOMAIN off[p].vec : off[p].idx[v] = Len(off[p].vec[v])
  ELSE p = NP => \A r \in Rings : \A v \in DOMAIN off[p].vec[r] :
                   off[p].idx[r][v] = Len(off[p].vec[r][v])
InStep ==
  Dealt(0) => \A p \in DOMAIN off \ {0} :
    /\ \A s \in {p, AllStream} : off[p].pos[s] = off[0].pos[s]
    /\ ReadToTheEnd(p)
    /\ \A w \in DOMAIN job.gates :
         LET mine == off[p].pre[w]  theirs == off[0].pre[w]
         IN  /\ SameGate(mine, theirs, p)
             /\ DOMAIN mine.inner = DOMAIN theirs.inner
             /\ \A v \in DOMAIN mine.inner : SameGate(mine.inner[v], theirs.inner[v], p)
             /\ job.gates[w] = Inp /\ job.owner[w] = p => mine.value = MaskOf(w)

\* What is dealt is authenticated: the tags of every sharing add up to the key times
\* its secret, of the sharings inside a comparison too.
Tagged(s, r) ==
  (MacKey(off[0], r) * Secret(s, r) - SumFunction([h \in DOMAIN s |-> s[h].tag])) % r = 0
TaggedGate(pre, r) == Tagged(pre.mask, r) /\ \A i \in DOMAIN pre.parts : Tagged(pre.parts[i], r)
DealtAuthentic ==
  Dealt(0) => \A w \in DOMAIN job.gates :
    /\ TaggedGate(off[0].pre[w], Mod)
    /\ \A v \in DOMAIN off[0].pre[w].inner : TaggedGate(off[0].pre[w].inner[v], 2)

\* ... and it stays so online: every value the parties open passes the test of
\* MACVerification.
MacSound ==
  /\ DealtAuthentic
  /\ job.scheme = "field" /\ DOMAIN on = Parties =>
       \A w \in DOMAIN job.gates : (\A p \in Parties : w \in DOMAIN on[p].q) => MacOk(w)

\* The comment on LevelOrderedCircuit: every gate is in one level, behind the
\* gates it reads, and a gate that is opened reads wires of earlier levels only,
\* whose openings are over when the party computes its share.
LevelsOrdered ==
  phase = "run" =>
    LET order == FlattenSeq(job.levels)
        place == [w \in ToSet(order) |-> CHOOSE i \in DOMAIN order : order[i] = w]
        depth == [w \in ToSet(order) |-> CHOOSE d \in DOMAIN job.levels : w \in ToSet(job.levels[d])]
    IN  /\ Len(order) = Len(job.gates) /\ ToSet(order) = DOMAIN job.gates
        /\ \A w \in DOMAIN job.gates : \A v \in ToSet(job.gates[w].ins) :
             /\ place[v] < place[w]
             /\ job.gates[w].type \notin Linear => depth[v] < depth[w]

\* What the generators promise, on the bits or bids x from a position on.
Row(from, n)     == [i \in 1 .. n |-> job.x[from + i]]
Number(bits)     == FoldLeft(LAMBDA v, i : v + bits[i] * 2 ^ (i - 1), 0, [i \in DOMAIN bits |-> i])
AllOnes(bits, i) == IF \A j \in 1 .. i : bits[j] = 1 THEN 1 ELSE 0
AtFirstZero(bits, d) ==
  LET zeros == {i \in DOMAIN bits : bits[i] = 0} IN IF zeros = {} THEN 0 ELSE d[Min(zeros)]
\* An iteration of the gridlock algorithm on a run of it so far: every overdrawn
\* bank drops the last of its transactions that are left.
Netted(run, k) ==
  LET t == Len(job.queue)
      owe(b, side)  == SumFunction([i \in {j \in run.left : job.queue[j][side] = b} |-> job.x[i]])
      overdrawn == {b \in 1 .. Len(job.x) - 2 * t : job.x[t + b] - owe(b, 1) + owe(b, 2) < 0}
      of(b)     == {i \in run.left : job.queue[i][1] = b}
      left      == run.left \ {Max(of(b)) : b \in {a \in overdrawn : of(a) # {}}}
  IN  [left |-> left,
       says |-> run.says \o <<IF overdrawn = {} THEN 1 ELSE 0, IF left = {} THEN 1 ELSE 0>>]

Promised ==
  LET k == (IF job.gen \in {"ppa", "ppaMSB"} THEN 2 ELSE 4) ^ job.lg
  IN  CASE job.gen = "multK" -> <<AllOnes(Row(0, k), k)>>
        [] job.gen = "prefixAND" ->
             [i \in 1 .. 2 * (k - 1) |-> AllOnes(Row(((i - 1) \div (k - 1)) * k, k),
                                                 ((i - 1) % (k - 1)) + 2)]
        [] job.gen = "prefixOR" ->
             <<(AtFirstZero(Row(0, k), Row(2 * k, k)) + AtFirstZero(Row(k, k), Row(3 * k, k))) % 2>>
        [] job.gen = "ppa" ->
             LET sum == Number(Row(0, k)) + Number(Row(k, k))
             IN  [i \in 1 .. k |-> Bit(sum, i - 1)]
        [] job.gen = "ppaMSB" -> <<Bit(Number(Row(0, k)) + Number(Row(k, k)), k - 1)>>
        [] job.gen = "gridlock" ->
             LET run == FoldLeft(Netted, [left |-> DOMAIN job.queue, says |-> <<>>], Levels(job.lg))
             IN  run.says \o [i \in DOMAIN job.queue |-> IF i \in run.left THEN 1 ELSE 0]
        [] job.gen = "auction" ->
             LET N == 2 ^ job.lg IN <<Max(ToSet(Row(N * N, N)))>>

\* Every generated circuit but that of generatePrefixAND, which PrefixAsTest is
\* about, computes the function it is built for: the conjunction of all bits (Eqz),
\* of each prefix, the entry of d at the first zero (Ltz), the sum and its highest
\* bit, the highest bid, the transactions that can be settled.
GeneratedRight ==
  job.scheme = "plain" /\ job.gen # "prefixFirst" /\ 0 \in DOMAIN out => out[0] = Promised

\* The test PrefixAND in test/utils.cpp states, of the output of generatePrefixAND:
\* BOOST_TEST(output[0] == out), where out is 1 less the sum of the d_i with
\* z_i = exp_out_i + exp_out_(i-1), and exp_out_i says that there is a zero up to i.
ExpOut(bits, i) == 1 - AllOnes(bits, i)

PrefixAsTest ==
  LET k    == 4 ^ job.lg
      bits == Row(0, k)
      d    == Row(k, k)
      z(i) == ExpOut(bits, i) + ExpOut(bits, i - 1)
  IN  job.gen = "prefixFirst" /\ 0 \in DOMAIN out =>
        out[0] = <<(1 - SumFunction([i \in 2 .. k |-> d[i] * z(i)])) % 2>>

\* The test EQZ_non_zero in test/online.cpp states, of the outputs of an Eqz of a value that
\* is not zero: BOOST_TEST(output == exp_output), where exp_output is evaluate()'s.
\* eqzEvaluate subtracts mask_b times the masked bit where its comment has it added.
EqzAsEvaluate ==
  \A p \in DOMAIN out : job.scheme = "field" =>
    out[p] = [i \in DOMAIN job.outputs |-> Reference[job.outputs[i]]]
=============================================================================
