------------------------------- MODULE Gridlock -------------------------------
(***************************************************************************)
(* SoDoGridLock<R> of utils/liquidity_matching.h: a circuit that settles a *)
(* queue of transactions between banks.  An iteration has every bank that  *)
(* would be overdrawn drop a transaction, and says whether no bank would   *)
(* be, and whether no transaction is left.                                 *)
(*                                                                         *)
(* queue is a sequence of <<source, destination>>, banks are 1 .. n.  The  *)
(* circuit under construction is a record:                                 *)
(*   gates, outputs  as in Circuit                                         *)
(*   row             the wires that the next step works on                 *)
(*   selected        the indicator of each transaction                     *)
(*   vs, vr          what each bank pays and receives, 0 for no wire       *)
(*   balance         new_balance                                           *)
(*   neg, pos        is_negative_balance and is_positive_balance           *)
(***************************************************************************)
EXTENDS Circuit, Sharing

Put(c, gs) == [c EXCEPT !.gates = @ \o gs, !.row = Once([i \in DOMAIN gs |-> Len(c.gates) + i])]

\* The wires of the row, negated: 1 - w.
Negated(c, row) ==
  LET n == Len(row)
      d == Put(c, [x \in 1 .. 2 * n |->
                     IF x % 2 = 1 THEN ConstGate("ConstMul", row[(x + 1) \div 2], -1)
                     ELSE ConstGate("ConstAdd", Len(c.gates) + x - 1, 1)])
  IN  [d EXCEPT !.row = Once([i \in 1 .. n |-> Len(c.gates) + 2 * i])]

\* newTransaction for the queue, initBalances, initSelectedSet.
GridlockInputs(queue, n) ==
  LET t == Len(queue)  none == [b \in 1 .. n |-> 0]
  IN  [gates |-> Inputs(2 * t + n), outputs |-> <<>>, row |-> <<>>,
       selected |-> [i \in 1 .. t |-> t + n + i], vs |-> none, vr |-> none,
       balance |-> none, neg |-> none, pos |-> none]

\* treeMult(): pairs are multiplied until one wire is left; an odd one waits.
TreeLayer(c, k) ==
  LET n == Len(c.row)
      d == Put(c, [i \in 1 .. n \div 2 |-> Gate("Mul", <<c.row[2 * i - 1], c.row[2 * i]>>)])
  IN  IF n = 1 THEN c
      ELSE IF n % 2 = 0 THEN d ELSE [d EXCEPT !.row = Append(@, c.row[n])]
TreeMult(c) == InTurn(TreeLayer, c, [k \in DOMAIN c.row |-> k])
OutputTree(c) == LET d == TreeMult(c) IN [d EXCEPT !.outputs = Append(@, d.row[1])]

\* w is one more amount that the bank pays (vs) or receives (vr).
Tally(c, side, bank, w) ==
  IF c[side][bank] = 0 THEN [c EXCEPT ![side][bank] = w]
  ELSE [c EXCEPT !.gates = Append(@, Gate("Add", <<c[side][bank], w>>)),
                 ![side][bank] = Len(c.gates) + 1]
TallyBoth(c, txn, w) == Tally(Tally(c, "vs", txn[1], w), "vr", txn[2], w)

Settle(c, type, bank, w) ==
  IF w = 0 THEN c
  ELSE [c EXCEPT !.gates = Append(@, Gate(type, <<c.balance[bank], w>>)),
                 !.balance[bank] = Len(c.gates) + 1]

NewBalances(c, queue, n) ==
  LET none     == [b \in 1 .. n |-> 0]
      filtered == Put([c EXCEPT !.vs = none, !.vr = none,
                                !.balance = [b \in 1 .. n |-> Len(queue) + b]],
                      [i \in DOMAIN queue |-> Gate("Mul", <<c.selected[i], i>>)])
      tally(d, i)  == TallyBoth(d, queue[i], d.row[i])
      settle(d, b) == Settle(Settle(d, "Sub", b, d.vs[b]), "Add", b, d.vr[b])
  IN  InTurn(settle, InTurn(tally, filtered, [i \in DOMAIN queue |-> i]), [b \in 1 .. n |-> b])

Signs(c) ==
  LET d == Put(c, [b \in DOMAIN c.balance |-> Gate("Msb", <<c.balance[b]>>)])
      e == Negated(d, d.row)
  IN  [e EXCEPT !.neg = d.row, !.pos = e.row]

\* The faulty variant drops the first selected transaction, not the last.
BadKeep(c, selected, stxn, j, bank) ==
  LET w == Len(c.gates)
  IN  IF j = 1
      THEN [c EXCEPT !.gates = Append(@, Gate("Mul", <<selected[stxn[j]], c.pos[bank]>>)),
                     !.selected[stxn[j]] = w + 1]
      ELSE [c EXCEPT !.gates = @ \o <<Gate("Mul", <<selected[stxn[j]], selected[stxn[j - 1]]>>),
                                      Gate("Mul", <<w + 1, c.neg[bank]>>),
                                      Gate("Mul", <<selected[stxn[j]], c.pos[bank]>>),
                                      Gate("Add", <<w + 2, w + 3>>)>>,
                     !.selected[stxn[j]] = w + 4]

\* A transaction stays if its bank is not overdrawn, or if the next one of its
\* bank is selected too.
Keep(c, selected, stxn, j, bank) ==
  LET w == Len(c.gates)
  IN  IF j = Len(stxn)
      THEN [c EXCEPT !.gates = Append(@, Gate("Mul", <<selected[stxn[j]], c.pos[bank]>>)),
                     !.selected[stxn[j]] = w + 1]
      ELSE [c EXCEPT !.gates = @ \o <<Gate("Mul", <<selected[stxn[j]], selected[stxn[j + 1]]>>),
                                      Gate("Mul", <<w + 1, c.neg[bank]>>),
                                      Gate("Mul", <<selected[stxn[j]], c.pos[bank]>>),
                                      Gate("Add", <<w + 2, w + 3>>)>>,
                     !.selected[stxn[j]] = w + 4]

KeepAll(c, queue, bank) ==
  LET stxn    == SelectSeq([i \in DOMAIN queue |-> i], LAMBDA i : queue[i][1] = bank)
      keep(d, j) == Keep(d, c.selected, stxn, j, bank)
  IN  InTurn(keep, c, [j \in DOMAIN stxn |-> j])

UpdateSelectedTransactions(c, queue, n) ==
  LET signs      == Signs(NewBalances(c, queue, n))
      keep(d, b) == KeepAll(d, queue, b)
      kept       == InTurn(keep, OutputTree([signs EXCEPT !.row = signs.pos]), [b \in 1 .. n |-> b])
  IN  OutputTree(Negated(kept, kept.selected))

\* Some iterations, and the transactions that are left as outputs behind theirs.
GenerateGridlock(queue, n, iterations) ==
  LET update(c, k) == UpdateSelectedTransactions(c, queue, n)
      c == InTurn(update, GridlockInputs(queue, n), [k \in 1 .. iterations |-> k])
  IN  Circ(c.gates, c.outputs \o c.selected)
=============================================================================
