----------------------------- MODULE MCTdmaGate -----------------------------
(* Instances of TdmaGate for TLC: parties 0 and 1, party 0 with two        *)
(* sending threads, its application (1) and its pump (2).                  *)
EXTENDS TdmaGate

PartyOf == [t \in 1 .. 3 |-> IF t = 3 THEN 1 ELSE 0]

\* A schedule as from_json_file may give: nobody owns the last slot.
IdleSlot == [s \in 0 .. 2 |-> IF s = 2 THEN {} ELSE {s}]

\* Party 1's view of the shared clock is one unit ahead of party 0's.
OneSkew == [p \in 0 .. 1 |-> p]
=============================================================================
