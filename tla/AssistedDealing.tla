--------------------------- MODULE AssistedDealing ---------------------------
(***************************************************************************)
(* OfflineEvaluator of assistedMPC/: the helper 0 draws all sharings from  *)
(* its own stream and sends every party its pairs; the parties draw only   *)
(* their keys.  The state of a node is as in Dealing, but vec maps each    *)
(* party to its vectors at the helper, and idx belongs to all parties.     *)
(* Only field elements are dealt: the Boolean vectors stay empty.          *)
(***************************************************************************)
EXTENDS Dealing

Vectors == [sh |-> <<>>, sec |-> <<>>, party |-> <<>>]

AssistedFresh(n, seed) ==
  [Fresh(n, seed) EXCEPT !.vec = IF n = 0 THEN [p \in Parties |-> Vectors] ELSE Vectors,
                         !.idx = [sh |-> 0, sec |-> 0, party |-> 0]]

\* vectors, with a pair at the end of vector v.
Given(vectors, v, pair) == [vectors EXCEPT ![v] = @ \o <<pair.val, pair.tag>>]

\* randomShareSecret_Helper: party i's pair goes to its vector v, that of NP
\* last, which makes the sums right.
HelperShareSecret(st, v, secret) ==
  LET S     == SelfStream(0)
      drawn == [i \in 1 .. NP - 1 |-> Pair(DrawAt(st, S, 2 * i - 2, P), DrawAt(st, S, 2 * i - 1, P))]
      last  == Pair((secret - SumFunction([i \in DOMAIN drawn |-> drawn[i].val])) % P,
                    (MacKey(st, P) * secret
                       - SumFunction([i \in DOMAIN drawn |-> drawn[i].tag])) % P)
      share == [i \in Parties |-> IF i = NP THEN last ELSE drawn[i]]
  IN  [Advance(Make(st, share), {S}, 2 * (NP - 1)) EXCEPT
         !.vec = [p \in Parties |-> Given(@[p], v, share[p])]]

\* randomShare_Helper: of a secret drawn before.
HelperShare(st) ==
  HelperShareSecret(Advance(st, {SelfStream(0)}, 1), "sh", DrawAt(st, SelfStream(0), 0, P))

\* randomShareWithParty_Helper: the owner gets the secret behind its pair.
HelperShareWithParty(st, owner) ==
  LET secret == DrawAt(st, SelfStream(0), 0, P)
  IN  [HelperShareSecret(Advance(st, {SelfStream(0)}, 1), "party", secret) EXCEPT
         !.vec[owner].party = Append(@, secret)]

\* randomShare_Party, randomShareSecret_Party, randomShareWithParty_Party
PartyEntry(st, v, i) == IF st.idx[v] + i <= Len(st.vec[v]) THEN st.vec[v][st.idx[v] + i] ELSE 0
PartyShare(st, v) ==
  [Make(st, [h \in {st.id} |-> Pair(PartyEntry(st, v, 1), PartyEntry(st, v, 2))]) EXCEPT !.idx[v] = @ + 2]

\* randomShareWithParty_Dealer
PartyOwnShare(st) == [PartyShare(st, "party") EXCEPT !.idx.party = @ + 1]

-----------------------------------------------------------------------------
(* setWireMasksHelper and setWireMasksParty.                               *)

\* The products the helper shares for kMul3: tp_ab four times.
HelperProducts(st, g) ==
  LET ab == (MaskSecret(st, st.pre, g.ins[1], P) * MaskSecret(st, st.pre, g.ins[2], P)) % P
  IN  IF g.type = "Mul" THEN <<ab>> ELSE <<ab, ab, ab, ab>>

HelperInput(st, w)  == SetPre(st, w, [MadeGate(st) EXCEPT !.value = Secret(st.made[1], P)])
HelperMul(st, g, w) ==
  LET share(s, x) == HelperShareSecret(s, "sec", x)
  IN  PreMade(InTurn(share, HelperShare(st), HelperProducts(st, g)), w)

HelperGate(job, st, w) ==
  LET g == job.gates[w]
  IN  CASE g.type = "Inp"             -> HelperInput(HelperShareWithParty(st, job.owner[w]), w)
        [] g.type \in Linear          -> FieldLinear(st, g, w)
        [] g.type \in {"Mul", "Mul3"} -> HelperMul(st, g, w)

PartyInput(job, st, w) ==
  IF job.owner[w] # st.id THEN PreMade(PartyShare(st, "party"), w)
  ELSE LET own(t) == SetPre(t, w, [MadeGate(t) EXCEPT !.value = PartyEntry(st, "party", 3)])
       IN  own(PartyOwnShare(st))
PartyMul(st, g, w) ==
  LET take(s, x) == PartyShare(s, "sec")
  IN  PreMade(InTurn(take, PartyShare(st, "sh"), ProductSets[g.type]), w)

PartyGate(job, st, w) ==
  LET g == job.gates[w]
  IN  CASE g.type = "Inp"             -> PartyInput(job, st, w)
        [] g.type \in Linear          -> FieldLinear(st, g, w)
        [] g.type \in {"Mul", "Mul3"} -> PartyMul(st, g, w)

HelperPass(job, st) ==
  InTurn(LAMBDA s, w : HelperGate(job, s, w), KeySetup(KeySetup(st, P), 2), FlattenSeq(job.levels))
PartyPass(job, st) ==
  InTurn(LAMBDA s, w : PartyGate(job, s, w), KeySetup(KeySetup(st, P), 2), FlattenSeq(job.levels))

\* setWireMasks: the message to party p.
HelperMessage(st, p)   == [lengths |-> LengthsOf(st.vec[p]), arith |-> Joined(st.vec[p])]
PartyReceived(st, msg) == [st EXCEPT !.vec = Split(msg.arith, msg.lengths)]
=============================================================================
