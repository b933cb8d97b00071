--------------------------- MODULE MCJeedomControl ---------------------------
(***************************************************************************)
(* One request goroutine, two of the set topic. Telling: the readings that *)
(* say something of the switch. AnyLoad: a load of zero too.               *)
(***************************************************************************)
EXTENDS JeedomControl, TLC

Telling == {<<"state", "on">>, <<"state", "off">>, <<"code", "off">>, <<"load", "positive">>}
Symmetry == Permutations(Handlers)

\* Of what disturbs a command, at most two things happen (and failed saves).
TwoDisturbances == spent.readings + spent.passes + spent.failures + spent.crashes <= 2

AnyLoad == Telling \cup {<<"load", "zero">>}
=============================================================================
