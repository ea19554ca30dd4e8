------------------------------ MODULE MCRigSync ------------------------------
(* Instances of RigSync for TLC: two targets, the first with two filters.  *)
EXTENDS RigSync

CONSTANTS A, B

Targets     == {1, 2}
Plans       == {1, 2, 3}
PlanEach    == {1, 3}
OwnerOf     == [p \in Plans |-> IF p = 3 THEN 2 ELSE 1]
FilterOf    == [p \in Plans |-> IF p = 2 THEN "O" ELSE "H"]
SameFilter  == [p \in Plans |-> "H"]
DesiredOne  == [p \in Plans |-> 1]
DesiredTwo  == [p \in Plans |-> IF p = 1 THEN 2 ELSE 1]
TwoProjects == [t \in Targets |-> IF t = 1 THEN A ELSE B]
OneLoose    == [t \in Targets |-> IF t = 1 THEN A ELSE None]
PlansFirst  == {1, 2}
OneEach     == {1, 3}

Single      == [perProject |-> FALSE, columns |-> TRUE]
PerHub      == [perProject |-> TRUE, columns |-> TRUE]
TooOld      == [perProject |-> TRUE, columns |-> FALSE]
SecondOne   == {2}
NoSwitch    == {}
Upgrade     == {<<Single, PerHub>>}
PluginNew   == {<<TooOld, PerHub>>}
Back        == {<<PerHub, Single>>}
BothWays    == Upgrade \cup Back
=============================================================================
