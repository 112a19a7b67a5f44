------------------------------- MODULE Sharing -------------------------------
(***************************************************************************)
(* AuthAddShare<R> and TPShare<R> of asterisk/sharing.h: additive shares   *)
(* of a secret with an additively shared MAC tag, key * secret.            *)
(*                                                                         *)
(* A pair [val, tag] is what one party has of a sharing (AuthAddShare).  A *)
(* sharing as a node knows it maps the parties whose pair it knows to the  *)
(* pairs: all parties at the dealer (TPShare), itself alone at a party.    *)
(* The key shares are not part of it, as every share of a node carries the *)
(* same ones.  The ring is given by its modulus m.                         *)
(***************************************************************************)
EXTENDS Integers, Sequences, SequencesExt

Pair(val, tag) == [val |-> val, tag |-> tag]

\* f, evaluated once: TLC evaluates a function constructor again at every use.
Once(f) == CHOOSE g \in {f} : g = g

\* f, with y at x.
With(f, x, y) == Once([v \in DOMAIN f \cup {x} |-> IF v = x THEN y ELSE f[v]])

\* AuthAddShare: +=, *= by a ring element, -=.
PairPlus(a, b, m)  == Pair((a.val + b.val) % m, (a.tag + b.tag) % m)
PairTimes(a, c, m) == Pair((a.val * c) % m, (a.tag * c) % m)
PairMinus(a, b, m) == PairPlus(a, PairTimes(b, -1, m), m)

\* Only the party that adds to its value adds to its tag.
BadAddWithAdder(a, key, val, pid, adder, m) ==
  IF pid = adder THEN Pair((a.val + val) % m, (a.tag + key * val) % m) ELSE a

\* add(val, pid): party 1 adds val to its value, all add their key share * val
\* to the tag; addWithAdder has another party in the place of party 1.
AddWithAdder(a, key, val, pid, adder, m) ==
  Pair((a.val + (IF pid = adder THEN val ELSE 0)) % m, (a.tag + key * val) % m)
Add(a, key, val, pid, m) == AddWithAdder(a, key, val, pid, 1, m)

\* TPShare: the same for all pairs the dealer has.
Plus(s, t, m)  == Once([h \in DOMAIN s |-> PairPlus(s[h], t[h], m)])
Times(s, c, m) == Once([h \in DOMAIN s |-> PairTimes(s[h], c, m)])
Minus(s, t, m) == Plus(s, Times(t, -1, m), m)

Secret(s, m)   == SumFunction([h \in DOMAIN s |-> s[h].val]) % m

-----------------------------------------------------------------------------
(* BoolRing::pack and unpack: eight bits in a byte.  pack puts the first   *)
(* bit lowest, unpack takes the lowest first.                              *)

Pack(bits) ==
  [b \in 1 .. (Len(bits) + 7) \div 8 |->
     LET bit(j) == IF 8 * (b - 1) + j <= Len(bits) THEN bits[8 * (b - 1) + j] ELSE 0
     IN  bit(1) + 2 * bit(2) + 4 * bit(3) + 8 * bit(4)
         + 16 * bit(5) + 32 * bit(6) + 64 * bit(7) + 128 * bit(8)]

Unpack(packed, len) ==
  [i \in 1 .. len |-> (packed[(i - 1) \div 8 + 1]
                       \div <<1, 2, 4, 8, 16, 32, 64, 128>>[((i - 1) % 8) + 1]) % 2]
=============================================================================
