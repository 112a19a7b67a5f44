---------------------------- MODULE MCOnlineRound ----------------------------
(* Instances of OnlineRound for TLC.                                       *)
EXTENDS OnlineRound

\* A level whose circuit order is not the packing order and that has two
\* equality tests, then a level of fewer openings than parties.
SomeLevels == << <<"m4", "m1", "lin", "e1", "e2">>, <<"m2">> >>

\* The equality test's circuit: one level of two gates.
SomeBoolLevels == [kind \in {"eqz", "ltz"} |-> IF kind = "eqz" THEN << <<"b4", "b1">> >> ELSE <<>>]

SomeKind ==
  [g \in {"m4", "m1", "lin", "e1", "e2", "m2", "b4", "b1"} |->
     CASE g \in {"m1", "m2", "b1"} -> "mul"
       [] g \in {"m4", "b4"}       -> "mul4"
       [] g = "lin"                -> "linear"
       [] g \in {"e1", "e2"}       -> "eqz"]

\* One input of party 3 and, after it, one of party 1.
SomeInputs == <<3, 1>>

\* Ends of pipes between parties, to the dealer and from the dealer.
SomeEnds == {<<"tx", 1, 2>>, <<"rx", 3, 1>>, <<"tx", 2, 0>>, <<"rx", 1, 0>>,
             <<"tx", 0, 1>>, <<"rx", 0, 3>>}
=============================================================================
