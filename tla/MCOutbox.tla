------------------------------ MODULE MCOutbox ------------------------------
(* Small instances of Outbox for TLC. *)
EXTENDS Outbox, TLC

CONSTANTS frame1, job1, job2, status, quality, daemon, cli

None       == {}
OneFrame   == {frame1}
OneJob     == {job1}
TwoJobs    == {job1, job2}
OneField   == {status}
TwoFields  == {status, quality}
Daemon     == {daemon}
DaemonCli  == {daemon, cli}

(* Bound of the runs: at most two things go wrong. *)
TwoTroubles == budget.outages + budget.refusals + budget.crashes + budget.operator <= 2
OneTrouble == budget.outages + budget.refusals + budget.crashes + budget.operator <= 1
=============================================================================
