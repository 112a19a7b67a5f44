------------------------------- MODULE Dealing -------------------------------
(***************************************************************************)
(* OfflineEvaluator and OfflineBoolEvaluator of asterisk/: how the dealer  *)
(* 0 and the parties 1 .. NP come to their shares of the wire masks.  Each *)
(* runs the same pass over the circuit and draws from the PRG streams it   *)
(* has in common with the others; only what party NP cannot draw is sent,  *)
(* by the dealer, after the dealer's own pass and before NP's.             *)
(*                                                                         *)
(* st is what one node has while it deals:                                 *)
(*   id    the node, seed: the PRG seed                                    *)
(*   pos   stream -> the number of draws                                   *)
(*   key   ring -> holder -> key share                                     *)
(*   vec   ring -> rand_sh, rand_sh_sec and rand_sh_party ("sh", "sec",    *)
(*         "party"); idx: how far NP has read them                         *)
(*   made  the sharings made for the gate at hand                          *)
(*   inner the gates of the Boolean circuit of the comparison at hand      *)
(*   pre   wire -> preproc_.gates                                          *)
(* A ring is its modulus.  In the code all streams are seeded alike, here  *)
(* Prg may tell them apart.  keyGen and the locals of a pass that say no   *)
(* more than pre does are left out.                                        *)
(***************************************************************************)
EXTENDS Circuit, Sharing

CONSTANTS
  NP,           \* nP_
  Prg(_, _, _)  \* Prg(seed, stream, i): the i-th draw from a stream

ASSUME DealingAssumption == NP \in Nat \ {0, 1}

Parties == 1 .. NP
Nodes   == 0 .. NP
Rings   == {2, P}

-----------------------------------------------------------------------------
(* RandGenPool.  Stream i of 1 .. NP is pi(i) at the dealer and p0() at    *)
(* party i.                                                                *)

AllStream       == 0
AllMinus0Stream == NP + 1
SelfStream(n)   == NP + 2 + n
Streams         == 0 .. SelfStream(NP)

DrawAt(st, s, i, r) == Prg(st.seed, s, st.pos[s] + i) % r
Advance(st, S, n)   == [st EXCEPT !.pos = Once([s \in DOMAIN @ |-> IF s \in S THEN @[s] + n ELSE @[s]])]

Holders(n) == IF n = 0 THEN Parties ELSE {n}

Fresh(n, seed) ==
  LET kinds == [r \in Rings |-> [sh |-> <<>>, sec |-> <<>>, party |-> <<>>]]
  IN  [id |-> n, seed |-> seed, pos |-> [s \in Streams |-> 0],
       key |-> [r \in Rings |-> [h \in Holders(n) |-> 0]],
       vec |-> kinds, idx |-> [r \in Rings |-> [sh |-> 0, sec |-> 0, party |-> 0]],
       made |-> <<>>, inner |-> <<>>, pre |-> <<>>]

\* The key setup of setWireMasksParty.
KeySetup(st, r) ==
  Advance([st EXCEPT !.key[r] = Once([h \in DOMAIN @ |-> DrawAt(st, h, 0, r)])],
          DOMAIN st.key[r], 1)

MacKey(st, r) == SumFunction(st.key[r]) % r

-----------------------------------------------------------------------------
(* The three ways to make a sharing.  The dealer appends what is for NP to *)
(* one of the vectors, NP reads the entry its index is at (0 past the end, *)
(* where the code reads outside the vector).                               *)

Entry(st, r, v, i) == LET j == st.idx[r][v] + i
                      IN  IF j <= Len(st.vec[r][v]) THEN st.vec[r][v][j] ELSE 0

\* NP's index moves by one, whatever was read.
BadForNP(st, r, v, xs) ==
  CASE st.id = 0  -> [st EXCEPT !.vec[r][v] = @ \o xs]
    [] st.id = NP -> [st EXCEPT !.idx[r][v] = @ + 1]
    [] OTHER      -> st

ForNP(st, r, v, xs) ==
  CASE st.id = 0  -> [st EXCEPT !.vec[r][v] = @ \o xs]
    [] st.id = NP -> [st EXCEPT !.idx[r][v] = @ + Len(xs)]
    [] OTHER      -> st

Make(st, share) == [st EXCEPT !.made = Append(@, Once(share))]

\* randomShare(): all parties draw a value and a tag; NP's tag is discarded for
\* the one that makes the sum right.
RandomShare(st, r) ==
  LET H    == Holders(st.id)
      val  == [h \in H |-> DrawAt(st, h, 0, r)]
      tag  == [h \in H |-> DrawAt(st, h, 1, r)]
      tagn == IF st.id = 0
              THEN (MacKey(st, r) * SumFunction(val) - SumFunctionOnSet(tag, H \ {NP})) % r
              ELSE Entry(st, r, "sh", 1)
  IN  ForNP(Advance(Make(st, [h \in H |-> Pair(val[h], IF h = NP THEN tagn ELSE tag[h])]), H, 2),
            r, "sh", <<tagn>>)

\* A sharing of a secret the dealer knows: NP draws nothing.
SharedBy(st, r, v, secret) ==
  LET H    == Holders(st.id) \ {NP}
      val  == [h \in H |-> DrawAt(st, h, 0, r)]
      tag  == [h \in H |-> DrawAt(st, h, 1, r)]
      last == IF st.id = 0 THEN Pair((secret - SumFunction(val)) % r,
                                     (MacKey(st, r) * secret - SumFunction(tag)) % r)
              ELSE Pair(Entry(st, r, v, 1), Entry(st, r, v, 2))
  IN  ForNP(Advance(Make(st, [h \in Holders(st.id) |-> IF h = NP THEN last
                                                       ELSE Pair(val[h], tag[h])]), H, 2),
            r, v, <<last.val, last.tag>>)

RandomShareSecret(st, r, secret) == SharedBy(st, r, "sec", secret)

\* randomShareWithParty(): the secret is drawn by the dealer and the owner.
OwnerStream(owner)       == IF owner = 0 THEN SelfStream(0) ELSE owner
Owned(st, owner, r)      == IF st.id \in {0, owner} THEN DrawAt(st, OwnerStream(owner), 0, r) ELSE 0
RandomShareWithParty(st, r, owner) ==
  SharedBy(IF st.id \in {0, owner} THEN Advance(st, {OwnerStream(owner)}, 1) ELSE st,
           r, "party", Owned(st, owner, r))

-----------------------------------------------------------------------------
(* Preprocessed gates: the mask of the output wire, the sharings that come *)
(* with it, and for a comparison its Boolean circuit and its pad.          *)

PreGate(mask, parts) ==
  [mask |-> mask, parts |-> parts, inner |-> <<>>, pad |-> 0, value |-> 0]
SetPre(st, w, pre)  == [st EXCEPT !.pre = With(@, w, pre), !.made = <<>>, !.inner = <<>>]

\* Linear gates: the mask is the same combination of the input masks.
LinearMask(pre, g, r) ==
  LET mask(i) == pre[g.ins[i]].mask
  IN  CASE g.type = "Add"      -> Plus(mask(1), mask(2), r)
        [] g.type = "Sub"      -> Minus(mask(1), mask(2), r)
        [] g.type = "ConstAdd" -> mask(1)
        [] g.type = "ConstMul" -> Times(mask(1), g.cval, r)

\* The products of input masks that are shared, in this order.
ProductSets ==
  [Mul  |-> <<<<1, 2>>>>,
   Mul3 |-> <<<<1, 2>>, <<1, 3>>, <<2, 3>>, <<1, 2, 3>>>>,
   Mul4 |-> <<<<1, 2>>, <<1, 3>>, <<1, 4>>, <<2, 3>>, <<2, 4>>, <<3, 4>>, <<1, 2, 3>>,
              <<1, 2, 4>>, <<1, 3, 4>>, <<2, 3, 4>>, <<1, 2, 3, 4>>>>]

MaskSecret(st, pre, w, r) == IF st.id = 0 THEN Secret(pre[w].mask, r) ELSE 0

MulSecrets(st, pre, g, r) ==
  LET sets == ProductSets[g.type]
  IN  [i \in DOMAIN sets |->
         Product([j \in DOMAIN sets[i] |-> MaskSecret(st, pre, g.ins[sets[i][j]], r)]) % r]

DotSecret(st, pre, g, r) ==
  InnerProd([w \in DOMAIN pre |-> MaskSecret(st, pre, w, r)], g.ins) % r

ShareAll(st, r, secrets) == InTurn(LAMBDA s, x : RandomShareSecret(s, r, x), st, secrets)

\* kMul, kMul3, kMul4: a fresh mask, then the products.  kDotprod: one product.
MulMasks(st, pre, g, r) == ShareAll(RandomShare(st, r), r, MulSecrets(st, pre, g, r))
DotMasks(st, pre, g, r) == RandomShareSecret(RandomShare(st, r), r, DotSecret(st, pre, g, r))

\* The gate whose mask was made first and its other sharings after it.
MadeGate(st)   == PreGate(Head(st.made), Tail(st.made))
PreMade(st, w) == SetPre(st, w, MadeGate(st))

Muls == {"Mul", "Mul3", "Mul4"}

-----------------------------------------------------------------------------
(* The Boolean circuits of the comparison gates.                           *)

MultK        == GenerateMultK(L)
PrefixOR     == GenerateParaPrefixOR(L, 2)
CircuitOrder(gates) == FlattenSeq(GatesByLevel(gates))
MultKOrder    == CircuitOrder(MultK.gates)
PrefixOROrder == CircuitOrder(PrefixOR.gates)

\* One gate of it is dealt apart from what the comparison has made so far.
Inside(st, Deal(_)) ==
  LET done == Deal([st EXCEPT !.made = <<>>]) IN [done EXCEPT !.made = st.made]
SetInner(st, w, pre) == [st EXCEPT !.inner = With(@, w, pre)]
InnerMade(st, w)     == SetInner(st, w, MadeGate(st))

\* kEqz: the inputs of MultK are masked by the bits of r.
MultKGate(st, bits, w) ==
  LET g == MultK.gates[w]
      deal(s) == InnerMade(IF g.type = "Inp" THEN RandomShareSecret(s, 2, bits[w])
                           ELSE MulMasks(s, s.inner, g, 2), w)
  IN  Inside(st, deal)

\* kLtz: both operands of PrefixOR have the same masks, bits of r from the
\* highest down.
PrefixORInputs(st, bits) ==
  LET deal(s) == LET t == ShareAll(s, 2, Reverse(bits))
                 IN  [t EXCEPT !.inner = [w \in {v \in DOMAIN PrefixOR.gates : PrefixOR.gates[v] = Inp}
                                            |-> PreGate(t.made[((w - 1) % K) + 1], <<>>)]]
  IN  Inside(st, deal)

PrefixORProduct(st, g, w) ==
  LET deal(s) == InnerMade(IF g.type = "Dotprod" THEN DotMasks(s, s.inner, g, 2)
                           ELSE MulMasks(s, s.inner, g, 2), w)
  IN  Inside(st, deal)

PrefixORGate(st, w) ==
  LET g == PrefixOR.gates[w]
  IN  CASE g.type = "Inp"    -> st
        [] g.type \in Linear -> SetInner(st, w, PreGate(LinearMask(st.inner, g, 2), <<>>))
        [] OTHER             -> PrefixORProduct(st, g, w)

-----------------------------------------------------------------------------
(* setWireMasksParty of OfflineEvaluator, gate by gate.                    *)

FieldInput(job, st, w) ==
  LET owner == job.owner[w]
      t     == RandomShareWithParty(st, P, owner)
  IN  SetPre(t, w, [MadeGate(t) EXCEPT !.value = Owned(st, owner, P)])

FieldLinear(st, g, w)  == SetPre(st, w, PreGate(LinearMask(st.pre, g, P), <<>>))
FieldMul(st, g, w)     == PreMade(MulMasks(st, st.pre, g, P), w)
FieldDotprod(st, g, w) == PreMade(DotMasks(st, st.pre, g, P), w)

\* padded_val from all(); the dealer masks the padded input with r and shares
\* the bits of r.
PadOf(st)          == DrawAt(st, AllStream, 0, P)
PadDrawn(st)       == Advance(st, {AllStream}, 1)
RValue(st, pad, w) == IF st.id = 0 THEN (pad + MaskSecret(st, st.pre, w, P)) % P ELSE 0
BitsOf(r)          == [i \in 1 .. K |-> Bit(r, i - 1)]

\* Bit2A: the mask bit of the Boolean circuit's output as a field element.
ShareMaskBit(st, out) == RandomShareSecret(st, P, MaskSecret(st, st.inner, out, 2))

ComparisonMask(maskW, maskB) == Plus(Times(maskW, -2, P), Times(maskB, -1, P), P)

\* The gate with its masks and pad, from what has been made for it.
Comparison(st, w, maskW, maskB, pad) ==
  SetPre(st, w, [PreGate(ComparisonMask(maskW, maskB), <<maskW, maskB>>)
                   EXCEPT !.inner = st.inner, !.pad = pad])

\* made: mask_w, rval, mask_b
EqzMade(st, w, pad) == Comparison(st, w, st.made[1], st.made[3], pad)
EqzFrom(st, w, pad, r) ==
  LET gate(s, v) == MultKGate(s, BitsOf(r), v)
  IN  EqzMade(ShareMaskBit(InTurn(gate, RandomShareSecret(PadDrawn(st), P, r), MultKOrder),
                           MultK.outputs[1]),
              w, pad)
EqzMasked(st, g, w) == EqzFrom(st, w, PadOf(st), RValue(st, PadOf(st), g.ins[1]))
FieldEqz(st, g, w)  == EqzMasked(RandomShare(st, P), g, w)

\* made: mask_b, mask_w
LtzMade(st, w, pad) == Comparison(st, w, st.made[2], st.made[1], pad)
LtzFrom(st, w, pad, r) ==
  LtzMade(RandomShare(ShareMaskBit(InTurn(PrefixORGate, PrefixORInputs(PadDrawn(st), BitsOf(r)),
                                          PrefixOROrder),
                                   PrefixOR.outputs[1]), P),
          w, pad)
FieldLtz(st, g, w) == LtzFrom(st, w, PadOf(st), RValue(st, PadOf(st), g.ins[1]))

FieldGate(job, st, w) ==
  LET g == job.gates[w]
  IN  CASE g.type = "Inp"     -> FieldInput(job, st, w)
        [] g.type \in Linear  -> FieldLinear(st, g, w)
        [] g.type \in Muls    -> FieldMul(st, g, w)
        [] g.type = "Dotprod" -> FieldDotprod(st, g, w)
        [] g.type = "Eqz"     -> FieldEqz(st, g, w)
        [] g.type = "Ltz"     -> FieldLtz(st, g, w)

FieldPass(job, st) ==
  InTurn(LAMBDA s, w : FieldGate(job, s, w), KeySetup(KeySetup(st, P), 2), FlattenSeq(job.levels))

-----------------------------------------------------------------------------
(* setWireMasksParty of OfflineBoolEvaluator.  An input of the dealer is   *)
(* masked by a bit that is given (bit_mask_map), and has no mask_value.    *)

BoolInput(job, st, w) ==
  LET owner == job.owner[w]
      t == IF owner = 0 THEN RandomShareSecret(st, 2, job.bitMask[w])
           ELSE RandomShareWithParty(st, 2, owner)
  IN  SetPre(t, w, [MadeGate(t) EXCEPT !.value = IF owner = 0 THEN 0 ELSE Owned(st, owner, 2)])

BoolLinear(st, g, w) == SetPre(st, w, PreGate(LinearMask(st.pre, g, 2), <<>>))
BoolMul(st, g, w)     == PreMade(MulMasks(st, st.pre, g, 2), w)
BoolDotprod(st, g, w) == PreMade(DotMasks(st, st.pre, g, 2), w)

BoolGate(job, st, w) ==
  LET g == job.gates[w]
  IN  CASE g.type = "Inp"              -> BoolInput(job, st, w)
        [] g.type \in Linear           -> BoolLinear(st, g, w)
        [] g.type \in Muls             -> BoolMul(st, g, w)
        [] g.type = "Dotprod"          -> BoolDotprod(st, g, w)

BoolPass(job, st) ==
  InTurn(LAMBDA s, w : BoolGate(job, s, w), KeySetup(st, 2), FlattenSeq(job.levels))

-----------------------------------------------------------------------------
(* setWireMasks: the vectors the dealer sends to NP, one after the other   *)
(* behind their lengths; OfflineEvaluator packs the bits.                  *)

Joined(v)      == v.sh \o v.sec \o v.party
LengthsOf(v)   == <<Len(v.sh), Len(v.sec), Len(v.party)>>
Split(xs, len) == [sh    |-> SubSeq(xs, 1, len[1]),
                   sec   |-> SubSeq(xs, len[1] + 1, len[1] + len[2]),
                   party |-> SubSeq(xs, len[1] + len[2] + 1, len[1] + len[2] + len[3])]

FieldMessage(st) ==
  [lengths |-> [r \in Rings |-> LengthsOf(st.vec[r])],
   arith   |-> Joined(st.vec[P]),
   bool    |-> Pack(Joined(st.vec[2]))]

FieldReceived(st, msg) ==
  LET len == msg.lengths
  IN  [st EXCEPT !.vec[P] = Split(msg.arith, len[P]),
                 !.vec[2] = Split(Unpack(msg.bool, len[2][1] + len[2][2] + len[2][3]), len[2])]

BoolMessage(st)       == [lengths |-> LengthsOf(st.vec[2]), data |-> Joined(st.vec[2])]
BoolReceived(st, msg) == [st EXCEPT !.vec[2] = Split(msg.data, msg.lengths)]

\* getOutputMasks: the dealer's secrets, and their sharings for Booleans.
FieldOutputMasks(job, st) ==
  [i \in DOMAIN job.outputs |-> MaskSecret(st, st.pre, job.outputs[i], P)]
BoolOutputMasks(job, st) == [i \in DOMAIN job.outputs |-> st.pre[job.outputs[i]].mask]
=============================================================================
