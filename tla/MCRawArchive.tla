---------------------------- MODULE MCRawArchive ----------------------------
(* Small instances of RawArchive for TLC. *)
EXTENDS RawArchiveInv, TLC

CONSTANTS f1, f2, c1, c2

TwoFiles  == {f1, f2}
OneFile   == {f1}
OneFrame  == {c1}
TwoFrames == {c1, c2}
NoFrames  == {}
Symmetry  == Permutations(TwoFiles)

DiskFaults == {"rig", "spool", "nas", "user"}
AllFaults  == DiskFaults \cup {"s3"}
NoFaults   == {}
SpoolFaults == {"spool"}
ObjectFaults == {"s3", "spool"}

(* Bound of the runs: at most two things go wrong. *)
Troubles    == budget.faults + budget.crashes + budget.outages + budget.disturbs
TwoTroubles == Troubles <= 2

(* Bound of the liveness run.  One file: two things go wrong, a disturbance    *)
(* at the rig or a rotten spooled file alone.  Two files: at most a rotten     *)
(* spooled file goes wrong, and nothing is cleaned up.                        *)
Rotten    == \E c \in Frames : spool[c] = "bad"
Uncleaned == /\ cl = IdleRun
             /\ \A f \in Files : /\ row[f].st # "cleaned"
                                 /\ row[f].st = "collected" => row[f].sha \in spoolRow /\ nasRep[row[f].sha] # "cleaned"
Single    == wrote[f2] = None /\ TwoTroubles /\ (budget.disturbs = 0 \/ Troubles = 1)
Pair      == Uncleaned /\ wrote[f2] # c1 /\ (Troubles = 0 \/ (Troubles = 1 /\ Rotten))
OneOrTwo  == wrote[f1] # c2 /\ IF wrote[f2] # None \/ Rotten THEN Pair ELSE Single
=============================================================================
