------------------------------ MODULE MCNights ------------------------------
(* Small instances of Nights for TLC. *)
EXTENDS Nights, TLC

CONSTANTS f1, f2, f3, n1, n2, daemon, cli, main

TwoFiles   == {f1, f2}
ThreeFiles == {f1, f2, f3}
OneNight   == {n1}
TwoNights  == {n1, n2}
AllN1      == [f \in Files |-> n1]
LastN2     == [f \in Files |-> IF f = f2 THEN n2 ELSE n1]
OnePoller  == {daemon}
WithCli    == {daemon, cli}

(* Bound of the runs: at most one thing goes wrong. *)
OneTrouble == budget.crashes + budget.outages + budget.fails + budget.excludes + budget.removals + budget.rebuilds + budget.unplanned <= 1
=============================================================================
