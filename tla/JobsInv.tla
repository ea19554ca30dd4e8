------------------------------ MODULE JobsInv -------------------------------
(***************************************************************************)
(* The inductive invariant of Jobs, for one executor.                       *)
(***************************************************************************)
EXTENDS Jobs

Single == \A p, q \in Executors : p = q

Before   == {"begin", "stage", "clear", "launch", "run", "read"}
Settling == {"intend", "publish", "follow", "succeed"}
Working  == Before \cup Settling \cup {"tidy"}
Busy     == (Before \ {"begin"}) \cup Settling

(* A finished run that is not settled yet has all that recovery needs, and   *)
(* its job is one that recovery looks for.  Attempts count the failures, and *)
(* only a failed job has used them up.                                       *)
JobHeld(j) ==
    /\ past[j].finished /\ j \notin Merges => j \in intent /\ work[j] # 0 /\ Is(j, Interrupted)
    /\ past[j].fails <= row[j].attempts
    /\ past[j].fails <= MaxAttempts
    /\ past[j].fails = MaxAttempts => Is(j, {"failed"})

(* What an executor holds.  A job it has chosen, and will empty the work     *)
(* directory of, has no finished run; the job it runs stays staging or       *)
(* running, so that nobody else touches it.                                  *)
Chosen(p) ==
    exe[p].pc \in Before \cup {"tidy"} /\ exe[p].job \notin Merges => ~past[exe[p].job].finished

Counted(p) ==
    LET e == exe[p] IN
    /\ e.pc \in {"begin", "tidy"} => past[e.job].fails < MaxAttempts
    /\ e.pc \in {"begin", "stage", "clear", "launch"} => past[e.job].fails <= e.attempts
    /\ e.pc \in {"run", "read"} \/ (e.pc \in {"intend", "publish"} /\ ~e.recovers)
         => past[e.job].fails < row[e.job].attempts

ExecutorHeld(p) ==
    LET e == exe[p] IN
    /\ e.pc \in Working => e.job \in Job
    /\ Chosen(p) /\ Counted(p)
    /\ e.pc \in Busy => Is(e.job, Interrupted)
    /\ e.pc \in Settling => e.out # 0
    /\ e.pc = "intend" => work[e.job] # 0
    /\ e.pc \in {"follow", "succeed"} /\ e.job \notin Merges \cup References => product[e.job] = e.out
    /\ \A j \in e.todo : Is(j, Interrupted) /\ j # e.job

IInv ==
    /\ TypeOK /\ ResultRecorded /\ AlarmsAgree
    /\ \A j \in Job : JobHeld(j)
    /\ \A p \in Executors : ExecutorHeld(p)
=============================================================================
