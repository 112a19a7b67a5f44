------------------------------ MODULE MCBusPipe ------------------------------
(* Instances of BusPipe for TLC: what the sending application sends.       *)
EXTENDS BusPipe

\* A two-fragment message between two single-fragment ones.
UnitsWindow == [s \in 0 .. 2 |-> IF s = 1 THEN 2 ELSE 1]

\* A message of two fragments, then an empty one.
UnitsMixed == [s \in 0 .. 1 |-> IF s = 0 THEN 2 ELSE 0]
=============================================================================
