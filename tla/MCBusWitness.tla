---------------------------- MODULE MCBusWitness ----------------------------
(* Instances of BusWitness, a pipe with a witness beside it, for TLC.      *)
EXTENDS BusWitness

\* A message of two fragments, an empty one, and one of a single fragment.
UnitsGap == [s \in 0 .. 2 |-> CASE s = 0 -> 2 [] s = 1 -> 0 [] OTHER -> 1]
=============================================================================
