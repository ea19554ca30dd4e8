------------------------------- MODULE MCJobs -------------------------------
(* Small instances of Jobs for TLC. *)
EXTENDS JobsInv

CONSTANTS daemon, cli, dark, night, merge, later

OneExecutor  == {daemon}
ByHand       == {cli}
TwoExecutors == {daemon, cli}

(* A night stack that needs a dark master, and the merge it leads to. *)
Four == {dark, night, later, merge}
Three     == {dark, night, merge}
TwoStacks == {dark, night, later}
PlanNight == {{dark, night}}
PlanTwice == {{dark, night}, {dark, later}, {later}}
RankOf    == [j \in Job |-> CASE j = dark -> 0 [] j = merge -> 3 [] OTHER -> 2]
DepsOf    == [j \in Job |-> IF j \in {night, later} THEN {dark} ELSE {}]
DepsAlias == [j \in Job |-> IF j = night THEN {dark} ELSE {}]
StackOf   == [j \in Job |-> CASE j = dark -> None [] j = later -> night [] OTHER -> j]
FollowOf  == [j \in Job |-> IF j = night /\ merge \in Job THEN {merge} ELSE {}]
NoStack   == [j \in Job |-> None]
LaterToo  == [j \in Job |-> IF j = night THEN later ELSE j]
SamePlan  == [j \in Job |-> j]
OnlyMerge == {merge}
OnlyDark  == {dark}
OnlyNight == {night}
OnlyLater == {later}
Nothing   == {}

(* At most two troubles of any kind, or one. *)
OneTrouble  == budget.faults + budget.escapes + budget.crashes + budget.reruns <= 1
TwoTroubles == budget.faults + budget.escapes + budget.crashes + budget.reruns <= 2
=============================================================================
