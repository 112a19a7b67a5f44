----------------------------- MODULE OnlineRound -----------------------------
(***************************************************************************)
(* OnlineEvaluator::evaluateCircuit(): the messages of the online phase    *)
(* among the computing parties 1 .. NP and the dealer 0, over ordered      *)
(* pipes that may break (what BusPipe promises).                           *)
(*                                                                         *)
(* setInputs() broadcasts the masked inputs.  evaluateGatesAtDepth() opens *)
(* the gates of one level: the openings are split into one slice per       *)
(* party, everyone sends everyone its shares of that one's slice, each     *)
(* adds up its own slice and sends the sums to all.  Before that the       *)
(* comparison gates of the level run a Boolean circuit each, all of them   *)
(* side by side: BoolEval opens the gates of each of its levels in the     *)
(* same way.  Such an exchange, of either kind, is called a round here.    *)
(* MACVerification() and getOutputs() go through the dealer; the circuit   *)
(* has outputs.                                                            *)
(*                                                                         *)
(* A field element that is opened is represented by the shares it is the   *)
(* sum of.  send() does not block, recv() blocks until all it asks for has *)
(* come and asks the pipe for field elements, not for messages.            *)
(*                                                                         *)
(* An operator named Bad... is a faulty variant of the definition after    *)
(* it: a run is shown to notice the fault when it takes that one's place.  *)
(***************************************************************************)
EXTENDS Integers, Sequences, FiniteSets, Bags

CONSTANTS
  NP,         \* nP_
  Inputs,     \* the input gates, in order: Inputs[i] is the owner's id
  Levels,     \* Levels[d]: the gates of level d in circuit order
  BoolLevels, \* BoolLevels[kind]: multk_circ_ ("eqz") and prefixOR_circ_ ("ltz")
  Kind,       \* Kind[g]: the type of gate g, of either circuit
  Fragile,    \* the pipe ends that may be poisoned, <<"tx" or "rx", sender, receiver>>
  MaxFaults   \* bound on the pipe ends that are poisoned and the wrong shares

Parties == 1 .. NP
Nodes   == 0 .. NP
Depth   == Len(Levels)
Kinds   == {"mul", "mul3", "mul4", "dotprod", "eqz", "ltz", "linear"}

GatesIn(levels) == UNION {{levels[d][i] : i \in 1 .. Len(levels[d])} : d \in 1 .. Len(levels)}
BoolGates       == UNION {GatesIn(BoolLevels[kind]) : kind \in {"eqz", "ltz"}}

ASSUME RoundAssumption ==
  /\ NP \in Nat \ {0, 1}
  /\ Inputs \in Seq(Parties)
  /\ Levels \in Seq(Seq(GatesIn(Levels))) \ {<<>>}
  /\ BoolLevels \in [{"eqz", "ltz"} -> Seq(Seq(BoolGates))]
  /\ Kind \in [GatesIn(Levels) \cup BoolGates -> Kinds]
  /\ \A b \in BoolGates : Kind[b] \notin {"eqz", "ltz"}
  /\ Fragile \subseteq {"tx", "rx"} \X Nodes \X Nodes
  /\ MaxFaults \in Nat

VARIABLES
  pc,      \* pc[n]: see NodePc
  peer,    \* peer[n]: the loop variable pid (or i) of the running loop
  step,    \* step[n]: the input gate, then the round, that n is at
  wire,    \* wire[p]: the masked inputs p knows; the i-th one's value is i
  acc,     \* acc[p]: agg_values_send, p's own slice
  agg,     \* agg[p]: agg_values
  opened,  \* opened[p]: gate -> q_val_ for the gates p has opened
  bad,     \* gates the dealer has found wrong: empty iff res = 0
  pipe,    \* pipe[<<m, n>>]: what m has sent and n has not received yet
  broken,  \* poisoned pipe ends
  threw,   \* the nodes that have thrown and stopped where they were
  wrong    \* shares that are wrong, <<gate, party>>

local == <<step, wire, acc, agg, opened, bad, wrong>>
vars  == <<pc, peer, pipe, broken, threw, local>>

NodePc == {"input", "slices", "gather", "sums", "collect",
           "key", "omega", "verdict", "masks", "done", "abort"}

-----------------------------------------------------------------------------
(* The rounds.  A gate that is opened is <<g, "field">>, gate g of the     *)
(* circuit, or <<g, b>>, gate b of the Boolean circuit of gate g.          *)

GateKind(x) == IF x[2] = "field" THEN Kind[x[1]] ELSE Kind[x[2]]

\* The sequences of s one after the other.
Concat(s) ==
  LET upto[d \in 0 .. Len(s)] == IF d = 0 THEN <<>> ELSE upto[d - 1] \o s[d]
  IN  upto[Len(s)]

\* The comparison gates of level d: eqz_gates, ltz_gates.
Compared(d, kind) ==
  Concat([i \in 1 .. Len(Levels[d]) |->
            IF Kind[Levels[d][i]] = kind THEN <<Levels[d][i]>> ELSE <<>>])

\* evaluateAllLevels: one round per level, the gates' circuits one after
\* the other in it.
BoolRounds(d, kind) ==
  LET gs == Compared(d, kind)
      Round(bs) == [i \in 1 .. (Len(gs) * Len(bs)) |->
                      <<gs[(i - 1) \div Len(bs) + 1], bs[((i - 1) % Len(bs)) + 1]>>]
  IN  IF gs = <<>> THEN <<>>
      ELSE [l \in 1 .. Len(BoolLevels[kind]) |-> Round(BoolLevels[kind][l])]

\* The level's own round comes after those of its comparison gates.
LevelRounds(d) ==
  BoolRounds(d, "eqz") \o BoolRounds(d, "ltz") \o
  << [i \in 1 .. Len(Levels[d]) |-> <<Levels[d][i], "field">>] >>

\* All rounds of the circuit, level by level.
Rounds == Concat([d \in 1 .. Depth |-> LevelRounds(d)])

Gates == GatesIn(Rounds)

\* A gate stands at one place of its circuit, so it is opened in one round.
ASSUME OnceAssumption ==
  \A r, s \in 1 .. Len(Rounds) :
    \A i \in 1 .. Len(Rounds[r]), j \in 1 .. Len(Rounds[s]) :
      Rounds[r][i] = Rounds[s][j] => r = s

-----------------------------------------------------------------------------
(* A field element is the bag of the shares it is the sum of; a share of   *)
(* gate x that party p computed is <<x, p, whether it is wrong>>.          *)

Share(p, x) == SetToBag({<<x, p, <<x, p>> \in wrong>>})
Opening(x)  == SetToBag({<<x, p, <<x, p>> \in wrong>> : p \in Parties})
True(x)     == SetToBag({<<x, p, FALSE>> : p \in Parties})

PlusAll(v, w) == [i \in 1 .. Len(v) |-> v[i] (+) w[i]]

(* The order in which a round's openings are packed: by kind.              *)
Order == <<"mul", "mul3", "mul4", "dotprod", "eqz", "ltz">>

OfKind(r, kind) ==
  Concat([i \in 1 .. Len(Rounds[r]) |->
            IF GateKind(Rounds[r][i]) = kind THEN <<Rounds[r][i]>> ELSE <<>>])

\* online_comm_to_TP: which gate each element belongs to.
Packed == [r \in 1 .. Len(Rounds) |-> Concat([b \in 1 .. 6 |-> OfKind(r, Order[b])])]

Shares(p, r) == [i \in 1 .. Len(Packed[r]) |-> Share(p, Packed[r][i])]

\* Kinds that are packed before the given one.
BadBefore(kind) == {Order[a] : a \in {a \in 1 .. 6 : a # 3 /\ \E b \in (a + 1) .. 6 : Order[b] = kind}}
Before(kind) == {Order[a] : a \in {a \in 1 .. 6 : \E b \in (a + 1) .. 6 : Order[b] = kind}}

\* Where the elements of one kind start in agg_values.
Offset(r, kind) ==
  Cardinality({i \in 1 .. Len(Rounds[r]) : GateKind(Rounds[r][i]) \in Before(kind)})

\* idx_mult, idx_mult3, ...: how many gates of its kind come before the i-th.
Rank(r, i) ==
  Cardinality({j \in 1 .. (i - 1) : GateKind(Rounds[r][j]) = GateKind(Rounds[r][i])})

\* evaluateGatesAtDepthPartyRecv: the value each gate of the round gets.
Unpacked(r, values) ==
  LET at == {i \in 1 .. Len(Rounds[r]) : GateKind(Rounds[r][i]) # "linear"}
  IN  [x \in {Rounds[r][i] : i \in at} |->
         LET i == CHOOSE i \in at : Rounds[r][i] = x
         IN  values[Offset(r, GateKind(x)) + Rank(r, i) + 1]]

(* The slices: per_party_comm elements each, the rest to the last party.   *)
Total(r)    == Len(Packed[r])
PerParty(r) == Total(r) \div NP

SliceLen(r, q)   == IF q = NP THEN PerParty(r) + (Total(r) % NP) ELSE PerParty(r)
SliceFrom(r, q)  == (q - 1) * PerParty(r)
Slice(r, q, seq) == SubSeq(seq, SliceFrom(r, q) + 1, SliceFrom(r, q) + SliceLen(r, q))

\* agg_values with one slice filled in.
Place(r, q, slice, values) ==
  [i \in 1 .. Total(r) |->
     IF i \in (SliceFrom(r, q) + 1) .. (SliceFrom(r, q) + SliceLen(r, q))
     THEN slice[i - SliceFrom(r, q)] ELSE values[i]]

-----------------------------------------------------------------------------
(* NetIOMP::send and recv; a node that has thrown makes no more calls.     *)

Send(m, n, elements) ==
  /\ m \notin threw
  /\ <<"tx", m, n>> \notin broken
  /\ pipe' = [pipe EXCEPT ![<<m, n>>] = @ \o elements]

Recv(n, m, len) ==
  /\ n \notin threw
  /\ <<"rx", m, n>> \notin broken
  /\ Len(pipe[<<m, n>>]) >= len
  /\ pipe' = [pipe EXCEPT ![<<m, n>>] = SubSeq(@, len + 1, Len(@))]

Received(n, m, len) == SubSeq(pipe[<<m, n>>], 1, len)

\* "for (pid = 1; pid <= nP_; pid++) if (id_ == pid) continue;"
BadPeersFrom(n, q) == q .. NP
PeersFrom(n, q) == (q .. NP) \ {n}

First(n, q) == CHOOSE r \in PeersFrom(n, q) : \A s \in PeersFrom(n, q) : r <= s

\* One round of such a loop; after the last one, on to label.
Loop(n, label) ==
  IF PeersFrom(n, peer[n] + 1) # {}
  THEN peer' = [peer EXCEPT ![n] = First(n, peer[n] + 1)] /\ pc' = pc
  ELSE peer' = [peer EXCEPT ![n] = First(n, 1)] /\ pc' = [pc EXCEPT ![n] = label]

Last(n) == PeersFrom(n, peer[n] + 1) = {}

Goto(n, label) == pc' = [pc EXCEPT ![n] = label] /\ peer' = [peer EXCEPT ![n] = First(n, 1)]

-----------------------------------------------------------------------------
(* setInputs() of party p.                                                 *)

Inp(p) == step[p]

\* The next input gate, or the first round.
NextInput(p) ==
  IF Inp(p) < Len(Inputs)
  THEN step' = [step EXCEPT ![p] = @ + 1] /\ Goto(p, "input")
  ELSE step' = [step EXCEPT ![p] = 1] /\ Goto(p, "slices")

\* The owner sends the masked value to one party after the other.
SendInput(p) ==
  /\ pc[p] = "input" /\ Inputs[Inp(p)] = p
  /\ Send(p, peer[p], <<Inp(p)>>)
  /\ IF Last(p)
     THEN NextInput(p) /\ wire' = [wire EXCEPT ![p] = Append(@, Inp(p))]
     ELSE Loop(p, "input") /\ UNCHANGED <<step, wire>>
  /\ UNCHANGED <<acc, agg, opened, bad, broken, threw, wrong>>

RecvInput(p) ==
  /\ pc[p] = "input" /\ Inputs[Inp(p)] # p
  /\ Recv(p, Inputs[Inp(p)], 1)
  /\ wire' = [wire EXCEPT ![p] = @ \o Received(p, Inputs[Inp(p)], 1)]
  /\ NextInput(p)
  /\ UNCHANGED <<acc, agg, opened, bad, broken, threw, wrong>>

-----------------------------------------------------------------------------
(* A round of party p: evaluateGatesAtDepth(), of either evaluator.        *)

Rnd(p) == step[p]

\* Send a peer its slice of p's shares; in the end start on p's own slice.
SendSlice(p) ==
  /\ pc[p] = "slices"
  /\ Send(p, peer[p], Slice(Rnd(p), peer[p], Shares(p, Rnd(p))))
  /\ Loop(p, "gather")
  /\ acc' = IF Last(p)
            THEN [acc EXCEPT ![p] = Slice(Rnd(p), p, Shares(p, Rnd(p)))] ELSE acc
  /\ UNCHANGED <<step, wire, agg, opened, bad, broken, threw, wrong>>

BadOwnLen(p) == SliceLen(Rnd(p), NP)
OwnLen(p)    == SliceLen(Rnd(p), p)

\* Add a peer's shares of p's slice.
GatherSlice(p) ==
  LET len == OwnLen(p)
  IN  /\ pc[p] = "gather"
      /\ Recv(p, peer[p], len)
      /\ acc' = [acc EXCEPT ![p] = PlusAll(@, Received(p, peer[p], len))]
      /\ Loop(p, "sums")
      /\ UNCHANGED <<step, wire, agg, opened, bad, broken, threw, wrong>>

\* Send a peer the sums; in the end put them into p's own agg_values.
SendSums(p) ==
  /\ pc[p] = "sums"
  /\ Send(p, peer[p], acc[p])
  /\ Loop(p, "collect")
  /\ agg' = IF Last(p)
            THEN [agg EXCEPT ![p] = Place(Rnd(p), p, acc[p], [i \in 1 .. Total(Rnd(p)) |-> EmptyBag])]
            ELSE agg
  /\ UNCHANGED <<step, wire, acc, opened, bad, broken, threw, wrong>>

\* The values the round's gates get once all sums are in; the next round.
FinishRound(p, values) ==
  /\ opened' = [opened EXCEPT ![p] = [g \in DOMAIN @ \cup DOMAIN Unpacked(Rnd(p), values) |->
                  IF g \in DOMAIN @ THEN @[g] ELSE Unpacked(Rnd(p), values)[g]]]
  /\ step' = [step EXCEPT ![p] = @ + 1]
  /\ Goto(p, IF Rnd(p) < Len(Rounds) THEN "slices" ELSE "key")

\* Take a peer's sums of its slice.
CollectSums(p) ==
  LET len    == SliceLen(Rnd(p), peer[p])
      values == Place(Rnd(p), peer[p], Received(p, peer[p], len), agg[p])
  IN  /\ pc[p] = "collect"
      /\ Recv(p, peer[p], len)
      /\ agg' = [agg EXCEPT ![p] = values]
      /\ IF Last(p)
         THEN FinishRound(p, values)
         ELSE Loop(p, "collect") /\ UNCHANGED <<opened, step>>
      /\ UNCHANGED <<wire, acc, bad, broken, threw, wrong>>

-----------------------------------------------------------------------------
(* MACVerification() and getOutputs().  A party's omega is nonzero when a  *)
(* gate it checks was opened to something else than what the tags say.     *)

BadChecked == {"mul", "dotprod", "mul3"}

\* The gate types MACVerification has a case for.
Checked == {"mul", "dotprod", "mul3", "mul4"}

Omega(p) ==
  {g \in Gates : g[2] = "field" /\ GateKind(g) \in Checked /\ opened[p][g] # True(g)}

\* The dealer sends something to all parties in turn.
DealerSends(label, elements, next) ==
  /\ pc[0] = label
  /\ Send(0, peer[0], elements)
  /\ Loop(0, next)
  /\ UNCHANGED <<broken, threw, local>>

SendKey == DealerSends("key", <<"cc_key">>, "omega")

RecvOmega ==
  /\ pc[0] = "omega"
  /\ Recv(0, peer[0], 1)
  /\ bad' = bad \cup Received(0, peer[0], 1)[1]
  /\ Loop(0, "verdict")
  /\ UNCHANGED <<step, wire, acc, agg, opened, wrong, broken, threw>>

BadAfterVerdict(res) == "masks"

\* evaluateCircuit: go on to getOutputs only if MACVerification succeeded.
AfterVerdict(res) == IF res = {} THEN "masks" ELSE "abort"

SendVerdict == DealerSends("verdict", <<bad>>, AfterVerdict(bad))

SendMasks == DealerSends("masks", <<"output_masks">>, "done")

\* A party receives one element from the dealer.
FromDealer(p, label, next) ==
  /\ pc[p] = label
  /\ Recv(p, 0, 1)
  /\ Goto(p, next)
  /\ UNCHANGED <<broken, threw, local>>

RecvKey(p) == FromDealer(p, "key", "omega")

SendOmega(p) ==
  /\ pc[p] = "omega"
  /\ Send(p, 0, <<Omega(p)>>)
  /\ Goto(p, "verdict")
  /\ UNCHANGED <<broken, threw, local>>

RecvVerdict(p) ==
  /\ pc[p] = "verdict"
  /\ Recv(p, 0, 1)
  /\ Goto(p, IF Received(p, 0, 1)[1] = {} THEN "masks" ELSE "abort")
  /\ UNCHANGED <<broken, threw, local>>

RecvMasks(p) == FromDealer(p, "masks", "done")

-----------------------------------------------------------------------------
(* What can go wrong: a pipe end is poisoned, the next call that uses it   *)
(* throws and its node stops; a party computes a share wrongly.            *)

Break(end) ==
  /\ Cardinality(broken) + Cardinality(wrong) < MaxFaults
  /\ broken' = broken \cup {end}
  /\ UNCHANGED <<pc, peer, pipe, threw, local>>

\* The pipe end that node n's next call uses.
NextEnd(n) ==
  CASE pc[n] \in {"slices", "sums"}               -> <<"tx", n, peer[n]>>
    [] pc[n] \in {"gather", "collect"}            -> <<"rx", peer[n], n>>
    [] pc[n] = "input" /\ Inputs[Inp(n)] = n      -> <<"tx", n, peer[n]>>
    [] pc[n] = "input" /\ Inputs[Inp(n)] # n      -> <<"rx", Inputs[Inp(n)], n>>
    [] n = 0 /\ pc[n] \in {"key", "verdict", "masks"} -> <<"tx", 0, peer[0]>>
    [] n = 0 /\ pc[n] = "omega"                   -> <<"rx", peer[0], 0>>
    [] n # 0 /\ pc[n] \in {"key", "verdict", "masks"} -> <<"rx", 0, n>>
    [] n # 0 /\ pc[n] = "omega"                   -> <<"tx", n, 0>>
    [] OTHER                                      -> <<"none", n, n>>

Throw(n) ==
  /\ n \notin threw /\ NextEnd(n) \in broken
  /\ threw' = threw \cup {n}
  /\ UNCHANGED <<pc, peer, pipe, broken, local>>

\* A party starts a round with a wrong share of one of its gates.
Miscompute(p, g) ==
  /\ Cardinality(broken) + Cardinality(wrong) < MaxFaults
  /\ pc[p] = "slices" /\ peer[p] = First(p, 1) /\ p \notin threw
  /\ \E i \in 1 .. Total(Rnd(p)) : Packed[Rnd(p)][i] = g
  /\ wrong' = wrong \cup {<<g, p>>}
  /\ UNCHANGED <<pc, peer, pipe, broken, threw, step, wire, acc, agg, opened, bad>>

-----------------------------------------------------------------------------
Init ==
  /\ pc = [n \in Nodes |-> IF n = 0 THEN "key" ELSE IF Inputs = <<>> THEN "slices" ELSE "input"]
  /\ peer = [n \in Nodes |-> First(n, 1)]
  /\ step = [n \in Nodes |-> 1]
  /\ wire = [p \in Parties |-> <<>>]
  /\ acc = [p \in Parties |-> <<>>]
  /\ agg = [p \in Parties |-> <<>>]
  /\ opened = [p \in Parties |-> [g \in {} |-> EmptyBag]]
  /\ bad = {}
  /\ pipe = [mn \in Nodes \X Nodes |-> <<>>]
  /\ broken = {} /\ threw = {} /\ wrong = {}

Dealer == SendKey \/ RecvOmega \/ SendVerdict \/ SendMasks

Party(p) ==
  \/ SendInput(p) \/ RecvInput(p)
  \/ SendSlice(p) \/ GatherSlice(p) \/ SendSums(p) \/ CollectSums(p)
  \/ RecvKey(p) \/ SendOmega(p) \/ RecvVerdict(p) \/ RecvMasks(p)

Work == Dealer \/ \E p \in Parties : Party(p)

Next ==
  \/ Work
  \/ \E n \in Nodes : Throw(n)
  \/ \E end \in Fragile : Break(end)
  \/ \E p \in Parties, g \in Gates : Miscompute(p, g)

Spec == Init /\ [][Next]_vars

(* The nodes keep running: some node goes on as long as any of them can.   *)
FairSpec == Spec /\ WF_vars(Work)

-----------------------------------------------------------------------------
(* The types; a loop over the peers never comes to the node itself.        *)
TypeOK ==
  /\ pc \in [Nodes -> NodePc]
  /\ \A n \in Nodes : peer[n] \in Parties \ {n}
  /\ \A n \in Nodes : step[n] \in 1 .. (Len(Inputs) + Len(Rounds) + 1)
  /\ \A p \in Parties : DOMAIN opened[p] \subseteq Gates
  /\ bad \subseteq Gates
  /\ broken \subseteq Fragile
  /\ threw \subseteq Nodes
  /\ wrong \subseteq Gates \X Parties

(* Every gate a party has evaluated is opened to the sum of all parties'   *)
(* shares of that gate, each of them once: slicing, adding up, spreading,  *)
(* packing by kind and unpacking fit together, whatever the parties' pace, *)
(* also where a slice is empty or the last one is longer.  And every input *)
(* is the value its owner sent for it.  So all parties agree on all wires. *)
OpenedRight ==
  \A p \in Parties :
    /\ \A i \in 1 .. Len(wire[p]) : wire[p][i] = i
    /\ \A g \in DOMAIN opened[p] : opened[p][g] = Opening(g)

(* Nobody gets as far as the outputs if a product or dot product of the    *)
(* circuit was opened to a wrong value: the dealer keeps the output masks  *)
(* to itself and every party aborts.  (MACVerification has no case for     *)
(* comparison gates, nor does it see the gates of their circuits.)         *)
OutputsVerified ==
  \A n \in Nodes : pc[n] \in {"masks", "done"} =>
    \A t \in wrong : t[1][2] = "field" => GateKind(t[1]) \notin {"mul", "mul3", "mul4", "dotprod"}

(* Nobody receives more, or less, than it is sent: when all have come to   *)
(* the end, by whichever branch, no pipe holds anything that the next use  *)
(* of the network would take for its own.                                  *)
NothingLeft ==
  (\A n \in Nodes : pc[n] \in {"done", "abort"}) => \A mn \in Nodes \X Nodes : pipe[mn] = <<>>

(* Unless a pipe breaks everybody comes to an end: there is no cycle of    *)
(* parties that wait for each other's messages.                            *)
Completes == <>(broken # {} \/ \A n \in Nodes : pc[n] \in {"done", "abort"})
=============================================================================
