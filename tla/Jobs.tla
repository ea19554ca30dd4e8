-------------------------------- MODULE Jobs --------------------------------
(***************************************************************************)
(* The job queue: planned jobs are inserted once for each plan, staged, run *)
(* through PixInsight and published.  An executor is altaird's processing   *)
(* worker, or `altair run` in its own process; they share the catalog and   *)
(* the work directories, and pi_lock holds within altaird only.  A job is    *)
(* named by its plan_hash.  Nothing else may change the catalog within a     *)
(* transaction; everything may change between two.                          *)
(***************************************************************************)
EXTENDS Naturals, FiniteSets

CONSTANTS
    Job, None,
    Plans,          \* the sets of jobs one plan_night or plan_merge may insert
    Rank,           \* PRIORITY of each job's kind
    Deps,           \* depends_on_json: the jobs that build a job's masters
    Stack,          \* what a NIGHT_STACK or MERGE stacks, None for other kinds
    Follow,         \* the merge that publishing a night stack plans
    Resolved,       \* the plan with every reference given by SHA-256
    Merges,         \* jobs of kind MERGE
    References,     \* jobs of kind PROJECT_REFERENCE
    Large, Cold,    \* jobs whose inputs need an approval, or an S3 restore
    Executors, Daemons,     \* altaird is a daemon, `altair run` is not
    MaxAttempts,
    MaxRuns, MaxPlans, MaxFaults, MaxEscapes, MaxCrashes, MaxReruns   \* bounds

Absent   == "absent"
Waiting  == {"queued", "waiting_data"}
ACTIVE   == Waiting \cup {"staging", "running"}
DEAD     == {"failed", "blocked", "skipped", "superseded"}
Statuses == ACTIVE \cup DEAD \cup {"succeeded", Absent}

ASSUME JobsAssumption ==
    /\ Plans \subseteq SUBSET Job /\ None \notin Job
    /\ Merges \subseteq Job /\ References \subseteq Job /\ Large \subseteq Job /\ Cold \subseteq Job
    /\ Rank \in [Job -> Nat] /\ Deps \in [Job -> SUBSET Job] /\ Follow \in [Job -> SUBSET Job]
    /\ Resolved \in [Job -> Job] /\ DOMAIN Stack = Job
    /\ {MaxAttempts, MaxRuns, MaxPlans, MaxFaults, MaxEscapes, MaxCrashes, MaxReruns} \subseteq Nat

VARIABLES
    row,        \* jobs: status, attempts, not_before in the future, resolved_hash set, result_json
    intent,     \* publish_intents
    product,    \* the output the job's master row names, 0 if none
    alarm,      \* open JOB_FAILED issues
    work,       \* work directories: 0, or the output a result.json in them reports
    exe,        \* each executor: what it does next, and with which job
    data,       \* per job: inputs readable, fetch decision, approval asked, S3 restore
    room,       \* the work disk has room
    past,       \* history: per job, PixInsight runs, failures since queued, run finished and not yet settled
    budget

vars == <<row, intent, product, alarm, work, exe, data, room, past, budget>>

Steps == {"off", "idle", "recover", "choose", "begin", "stage", "clear", "launch", "run", "read", "intend", "publish", "follow", "succeed", "tidy"}
Off   == [pc |-> "off", job |-> None, attempts |-> 0, out |-> 0, todo |-> {}, tried |-> {}, recovers |-> FALSE]

NewRow  == [status |-> "queued", attempts |-> 0, held |-> FALSE, resolved |-> FALSE, result |-> 0]
NoRow   == [NewRow EXCEPT !.status = Absent]

Outputs == 0..MaxRuns

Rows     == [status : Statuses, attempts : Nat, held : BOOLEAN, resolved : BOOLEAN, result : Outputs]
Memories == [pc : Steps, job : Job \cup {None}, attempts : Nat, out : Outputs, todo : SUBSET Job, tried : SUBSET Job,
             recovers : BOOLEAN]
Inputs   == [here : BOOLEAN, decision : {"none", "approved", "denied"}, asked : BOOLEAN, restore : {"none", "restoring", "done"}]
Pasts    == [runs : Outputs, fails : Nat, finished : BOOLEAN]

TypeOK ==
    /\ row \in [Job -> Rows]
    /\ intent \subseteq Job /\ alarm \subseteq Job
    /\ product \in [Job -> Outputs] /\ work \in [Job -> Outputs]
    /\ exe \in [Executors -> Memories]
    /\ data \in [Job -> Inputs] /\ room \in BOOLEAN
    /\ past \in [Job -> Pasts]
    /\ budget \in [plans : Nat, faults : Nat, escapes : Nat, crashes : Nat, reruns : Nat]

Init ==
    /\ row = [j \in Job |-> NoRow] /\ intent = {} /\ alarm = {}
    /\ product = [j \in Job |-> 0] /\ work = [j \in Job |-> 0]
    /\ exe = [p \in Executors |-> Off]
    /\ data = [j \in Job |-> [here |-> TRUE, decision |-> "none", asked |-> FALSE, restore |-> "none"]]
    /\ room = TRUE
    /\ past = [j \in Job |-> [runs |-> 0, fails |-> 0, finished |-> FALSE]]
    /\ budget = [plans |-> 0, faults |-> 0, escapes |-> 0, crashes |-> 0, reruns |-> 0]

Is(j, S)     == row[j].status \in S
Known        == {j \in Job : row[j].status # Absent}
Built(j)     == product[j] # 0
Spend(what, most) == budget[what] < most /\ budget' = [budget EXCEPT ![what] = @ + 1]

Catalog == <<row, intent, product, alarm>>
World   == <<data, room>>

-----------------------------------------------------------------------------
(* Planning: insert_job for each job of the plan, in one transaction.       *)

(* A plan's row: its own, or that of the plan it resolves (the newest such, *)
(* if there are several; here all of them).                                 *)
Existing(h) == IF h \in Known THEN {h} ELSE {j \in Known : row[j].resolved /\ Resolved[j] = h}

Requeue(r) == [r EXCEPT !.status = "queued", !.attempts = 0, !.held = FALSE]

Superseded(new) ==
    {j \in Job \ new : /\ Is(j, Waiting \cup {"blocked"}) /\ Stack[j] # None
                       /\ \E h \in new : Stack[h] = Stack[j]}

Insert(P) ==
    LET new   == {h \in P : Existing(h) = {}}
        again == {j \in UNION {Existing(h) : h \in P} : Is(j, DEAD)}
        old   == Superseded(new)
    IN [j \in Job |-> IF j \in new THEN NewRow
                      ELSE IF j \in again THEN Requeue(row[j])
                      ELSE IF j \in old THEN [row[j] EXCEPT !.status = "superseded"]
                      ELSE row[j]]

Forget(from, to) ==
    past' = [j \in Job |-> IF from[j].status \notin ACTIVE /\ to[j].status = "queued"
                           THEN [past[j] EXCEPT !.fails = 0, !.finished = FALSE] ELSE past[j]]

(* A night plan names a master by SHA-256 once it is built, and by the job   *)
(* that builds it before; it asks for no master that is built.               *)
Current(h) ==
    /\ \A d \in Deps[h] : ~Built(d)
    /\ \A j \in Job : Deps[j] # {} /\ Resolved[j] = h /\ j # h => \A d \in Deps[j] : Built(d)
    /\ (\E j \in Job : h \in Deps[j]) => ~Built(h)

Plan(P) ==
    /\ \A h \in P : Current(h) /\ Deps[h] \subseteq P \cup Known
    /\ row' = Insert(P) /\ row' # row
    /\ Spend("plans", MaxPlans)
    /\ Forget(row, row')
    /\ UNCHANGED <<intent, product, alarm, work, exe, room, data>>

-----------------------------------------------------------------------------
(* An executor starts: altaird's start, or `altair run`.  It first recovers  *)
(* the jobs left staging or running: one with a publish intent and a         *)
(* result.json in its work directory is published from there, another is     *)
(* queued again.  The two phases of a MERGE write theirs one level down.     *)

(* Mutant: a job still being staged is not looked for. *)
OnlyRunning == {"running"}

Interrupted == {"staging", "running"}

Start(p) ==
    /\ exe[p].pc = "off"
    /\ exe' = [exe EXCEPT ![p] = [Off EXCEPT !.pc = "recover", !.todo = {j \in Job : Is(j, Interrupted)}]]
    /\ UNCHANGED <<Catalog, World, work, past, budget>>

Goto(p, pc) == exe' = [exe EXCEPT ![p].pc = pc]

(* On to the next job, which is not tried again in this pass. *)
Leave(p, tried) ==
    exe' = [exe EXCEPT ![p] = [Off EXCEPT !.pc = IF exe[p].recovers THEN "recover" ELSE "choose",
                                 !.todo = exe[p].todo, !.tried = exe[p].tried \cup tried]]

HasResult(j) == work[j] # 0 /\ j \notin Merges

Republish(p, j) ==
    /\ j \in intent /\ HasResult(j)
    /\ exe' = [exe EXCEPT ![p] = [@ EXCEPT !.pc = "intend", !.job = j, !.out = work[j], !.todo = exe[p].todo \ {j},
                                    !.recovers = TRUE]]
    /\ UNCHANGED <<row, intent>>

RunAgain(p, j) ==
    /\ ~(j \in intent /\ HasResult(j))
    /\ intent' = intent \ {j}
    /\ row' = [row EXCEPT ![j].status = "queued"]
    /\ exe' = [exe EXCEPT ![p].todo = @ \ {j}]

Recover(p) ==
    /\ exe[p].pc = "recover"
    /\ \/ \E j \in exe[p].todo : Republish(p, j) \/ RunAgain(p, j)
       \/ /\ exe[p].todo = {} /\ UNCHANGED <<row, intent>>
          /\ exe' = [exe EXCEPT ![p] = [Off EXCEPT !.pc = IF p \in Daemons THEN "idle" ELSE "choose"]]
    /\ UNCHANGED <<product, alarm, World, work, past, budget>>

-----------------------------------------------------------------------------
(* candidates: unblock what a dependency no longer blocks, block what a dead *)
(* one does, and take the first of the rest.                                 *)

Dead(j)  == \E d \in Deps[j] : Is(d, DEAD)
Ready(j) == \A d \in Deps[j] : Is(d, {"succeeded"})

(* Mutant: a blocked job waits for `altair rerun`. *)
NeverBack(j) == FALSE

Unblocked(j) == Is(j, {"blocked"}) /\ ~Dead(j)

(* One level of dependencies in a pass; the next pass sees what this one did. *)
Sorted(j) == IF Unblocked(j) THEN "queued"
             ELSE IF Is(j, Waiting) /\ ~row[j].held /\ Dead(j) THEN "blocked"
             ELSE row[j].status

Candidates(p) ==
    {j \in Job \ exe[p].tried : (Is(j, Waiting) \/ Sorted(j) = "queued") /\ ~row[j].held /\ Ready(j)}

(* altaird waits for its next pass, `altair run` is done. *)
PassEnds(p) == exe' = [exe EXCEPT ![p] = [Off EXCEPT !.pc = IF p \in Daemons THEN "idle" ELSE "off"]]

Choose(p) ==
    /\ exe[p].pc = "choose"
    /\ row' = [j \in Job |-> [row[j] EXCEPT !.status = Sorted(j)]]
    /\ \/ \E j \in Candidates(p) :
            /\ \A k \in Candidates(p) : Rank[j] <= Rank[k]
            /\ exe' = [exe EXCEPT ![p] = [@ EXCEPT !.pc = "begin", !.job = j, !.attempts = row[j].attempts]]
       \/ Candidates(p) = {} /\ PassEnds(p)
    /\ UNCHANGED <<intent, product, alarm, World, work, past, budget>>

(* altaird starts a pass if a job is active. *)
Tick(p) ==
    /\ exe[p].pc = "idle" /\ \E j \in Job : Is(j, ACTIVE)
    /\ Goto(p, "choose")
    /\ UNCHANGED <<Catalog, World, work, past, budget>>

-----------------------------------------------------------------------------
(* _execute, by the row that candidates read. *)

(* The status is overwritten, whatever it has become. *)
Begin(p) ==
    /\ exe[p].pc = "begin"
    /\ row' = [row EXCEPT ![exe[p].job].status = "staging"]
    /\ Goto(p, "stage")
    /\ UNCHANGED <<intent, product, alarm, World, work, past, budget>>

Wait(r) == [r EXCEPT !.status = "waiting_data", !.held = TRUE]

Allowed(j)  == j \in Large => data[j].decision = "approved"
Staged(j)   == data[j].here /\ Allowed(j) /\ (j \in Cold => data[j].restore = "done")

(* An approval is asked for, or a restore; a denied job just waits. *)
Request(j) ==
    LET d == data[j] IN
    [d EXCEPT !.asked = @ \/ (d.here /\ j \in Large /\ d.decision = "none"),
              !.restore = IF d.here /\ Allowed(j) /\ j \in Cold /\ @ = "none" THEN "restoring" ELSE @]

Stage(p) ==
    /\ exe[p].pc = "stage"
    /\ LET j == exe[p].job IN
       \/ /\ ~Ready(j)
          /\ row' = [row EXCEPT ![j] = Wait(@)]
          /\ Leave(p, {j}) /\ UNCHANGED data
       \/ /\ Ready(j) /\ ~Staged(j)
          /\ row' = [row EXCEPT ![j] = [Wait(@) EXCEPT !.resolved = TRUE]]
          /\ data' = [data EXCEPT ![j] = Request(j)]
          /\ Leave(p, {j})
       \/ /\ Ready(j) /\ Staged(j)
          /\ row' = [row EXCEPT ![j].resolved = TRUE]
          /\ Goto(p, "clear") /\ UNCHANGED data
    /\ UNCHANGED <<intent, product, alarm, room, work, past, budget>>

(* The work directory of an earlier run goes before the disk guard. *)
Clear(p) ==
    /\ exe[p].pc = "clear"
    /\ LET j == exe[p].job IN
       /\ work' = [work EXCEPT ![j] = 0]
       /\ \/ room /\ Goto(p, "launch") /\ UNCHANGED row
          \/ ~room /\ row' = [row EXCEPT ![j] = Wait(@)] /\ Leave(p, {j})
    /\ UNCHANGED <<intent, product, alarm, World, past, budget>>

Launch(p) ==
    /\ exe[p].pc = "launch"
    /\ row' = [row EXCEPT ![exe[p].job] = [@ EXCEPT !.status = "running", !.attempts = exe[p].attempts + 1]]
    /\ Goto(p, "run")
    /\ UNCHANGED <<intent, product, alarm, World, work, past, budget>>

(* PixInsight writes result.json, or ends without, is killed or reports an   *)
(* error.                                                                    *)
PixInsight(p) ==
    /\ exe[p].pc = "run"
    /\ LET j == exe[p].job IN
       \/ /\ past[j].runs < MaxRuns
          /\ past' = [past EXCEPT ![j].runs = @ + 1]
          /\ work' = [work EXCEPT ![j] = past[j].runs + 1]
       \/ UNCHANGED <<past, work>>
    /\ Goto(p, "read")
    /\ UNCHANGED <<Catalog, World, budget>>

Retries(j) == row[j].attempts < MaxAttempts

Fail(p, retry) ==
    LET j     == exe[p].job
        again == retry /\ Retries(j)
    IN /\ row' = [row EXCEPT ![j] = IF again THEN [@ EXCEPT !.status = "queued", !.held = TRUE]
                                    ELSE [@ EXCEPT !.status = "failed"]]
       /\ alarm' = IF again THEN alarm ELSE alarm \cup {j}
       /\ past' = [past EXCEPT ![j].fails = @ + 1, ![j].finished = FALSE]
       /\ Leave(p, IF again THEN {j} ELSE {})

Read(p) ==
    /\ exe[p].pc = "read"
    /\ \/ /\ work[exe[p].job] # 0
          /\ exe' = [exe EXCEPT ![p] = [@ EXCEPT !.pc = "intend", !.out = work[exe[p].job]]]
          /\ UNCHANGED <<row, alarm, past>>
       \/ \E retry \in BOOLEAN : (~retry => exe[p].job \in Merges) /\ Fail(p, retry)
    /\ UNCHANGED <<intent, product, World, work, budget>>

-----------------------------------------------------------------------------
(* _finish: record the intent, publish, succeed and drop the intent, tidy up. *)

Intend(p) ==
    /\ exe[p].pc = "intend"
    /\ intent' = intent \cup {exe[p].job}
    /\ past' = [past EXCEPT ![exe[p].job].finished = TRUE]
    /\ Goto(p, "publish")
    /\ UNCHANGED <<row, product, alarm, World, work, budget>>

(* The newest master of a night or key replaces the older one; the row of a  *)
(* MERGE is kept by its plan_hash, and a project keeps its first reference.  *)
Keeps(j) == j \in Merges \cup References /\ Built(j)

(* Mutant: an error while a master is registered is only logged. *)
PublishTried(p) ==
    /\ exe[p].pc = "publish"
    /\ UNCHANGED <<row, intent, product, alarm, World, work, past, budget>>
    /\ Goto(p, "follow")

Publish(p) ==
    /\ exe[p].pc = "publish"
    /\ LET j == exe[p].job IN
       product' = [product EXCEPT ![j] = IF Keeps(j) THEN @ ELSE exe[p].out]
    /\ Goto(p, "follow")
    /\ UNCHANGED <<row, intent, alarm, World, work, past, budget>>

(* The output fails its checks: no retry.  While recovering, any error means *)
(* running again.                                                            *)
GiveUp(p) ==
    LET j == exe[p].job IN
    /\ row' = [row EXCEPT ![j].status = "queued"]
    /\ intent' = intent \ {j}
    /\ past' = [past EXCEPT ![j].finished = FALSE]
    /\ Leave(p, {})
    /\ UNCHANGED alarm

Reject(p) ==
    /\ exe[p].pc = "publish"
    /\ IF exe[p].recovers THEN GiveUp(p) ELSE Fail(p, FALSE) /\ UNCHANGED intent
    /\ UNCHANGED <<product, World, work, budget>>

(* A merge is planned if the gates leave enough nights to merge. *)
FollowUp(p) ==
    /\ exe[p].pc = "follow"
    /\ row' = Insert(Follow[exe[p].job]) \/ row' = row
    /\ Forget(row, row')
    /\ Goto(p, "succeed")
    /\ UNCHANGED <<intent, product, alarm, World, work, budget>>

Resolve(j) == alarm' = alarm \ {j}

Succeed(p) ==
    /\ exe[p].pc = "succeed"
    /\ LET j == exe[p].job IN
       /\ row' = [row EXCEPT ![j] = [@ EXCEPT !.status = "succeeded", !.result = exe[p].out]]
       /\ intent' = intent \ {j} /\ Resolve(j)
       /\ past' = [past EXCEPT ![j].finished = FALSE]
    /\ Goto(p, "tidy")
    /\ UNCHANGED <<product, World, work, budget>>

Tidy(p) ==
    /\ exe[p].pc = "tidy"
    /\ work' = [work EXCEPT ![exe[p].job] = 0]
    /\ Leave(p, {})
    /\ UNCHANGED <<Catalog, World, past, budget>>

-----------------------------------------------------------------------------
(* Faults. *)

Crash(p) ==
    /\ exe[p].pc # "off"
    /\ Spend("crashes", MaxCrashes)
    /\ exe' = [exe EXCEPT ![p] = Off]
    /\ UNCHANGED <<Catalog, World, work, past>>

(* An error that _execute does not expect, from a disk or S3, ends run_all;  *)
(* altaird logs it and carries on.  The job keeps its status.  recover()     *)
(* queues it again, even when its success is recorded already.               *)
Escape(p) ==
    /\ exe[p].pc \in {"stage", "clear", "launch", "run", "publish", "follow", "tidy"}
    /\ Spend("escapes", MaxEscapes)
    /\ IF exe[p].recovers THEN GiveUp(p)
       ELSE PassEnds(p) /\ UNCHANGED <<row, intent, alarm, past>>
    /\ UNCHANGED <<product, World, work>>

Lose(j) ==
    /\ data[j].here /\ Spend("faults", MaxFaults)
    /\ data' = [data EXCEPT ![j].here = FALSE]
    /\ UNCHANGED <<Catalog, room, work, exe, past>>

FillDisk ==
    /\ room /\ Spend("faults", MaxFaults) /\ room' = FALSE
    /\ UNCHANGED <<Catalog, data, work, exe, past>>

-----------------------------------------------------------------------------
(* Everything else: time, storage, housekeeping, the operator and the Hub.   *)

Elapse(j) ==
    /\ row[j].held
    /\ row' = [row EXCEPT ![j].held = FALSE]
    /\ UNCHANGED <<intent, product, alarm, World, work, exe, past, budget>>

Return(j) ==
    /\ ~data[j].here
    /\ data' = [data EXCEPT ![j].here = TRUE]
    /\ UNCHANGED <<Catalog, room, work, exe, past, budget>>

FreeDisk ==
    /\ ~room /\ room' = TRUE
    /\ UNCHANGED <<Catalog, data, work, exe, past, budget>>

(* The restore poller finds the object back, and queues the job that asked. *)
PollRestore(j) ==
    /\ data[j].restore = "restoring"
    /\ data' = [data EXCEPT ![j].restore = "done"]
    /\ row' = IF Is(j, {"waiting_data"}) THEN [row EXCEPT ![j].status = "queued"] ELSE row
    /\ UNCHANGED <<intent, product, alarm, room, work, exe, past, budget>>

(* `altair storage approve` and `deny`; the Hub's decision is only recorded. *)
Decide(j, decision, local) ==
    /\ data[j].asked /\ data[j].decision # decision
    /\ data' = [data EXCEPT ![j].decision = decision]
    /\ row' = IF local /\ Is(j, {"waiting_data"})
              THEN [row EXCEPT ![j].status = IF decision = "approved" THEN "queued" ELSE "skipped"] ELSE row
    /\ UNCHANGED <<intent, product, alarm, room, work, exe, past, budget>>

(* `altair rerun --job`. *)
Rerun(j) ==
    /\ j \in Known /\ ~Is(j, {"running", "staging"})
    /\ Spend("reruns", MaxReruns)
    /\ row' = [row EXCEPT ![j] = Requeue(@)]
    /\ Resolve(j)
    /\ past' = [past EXCEPT ![j] = [@ EXCEPT !.fails = 0, !.finished = FALSE]]
    /\ UNCHANGED <<intent, product, World, work, exe>>

(* Mutant: a directory is in use while its job waits for it. *)
InWaiting(j) == Is(j, Waiting)

InUse(j) == Is(j, ACTIVE)

(* Housekeeping: work directories of jobs that are not active go in the end. *)
Cleanup(j) ==
    /\ ~InUse(j) /\ work[j] # 0
    /\ work' = [work EXCEPT ![j] = 0]
    /\ UNCHANGED <<Catalog, World, exe, past, budget>>

Execute(p) ==
    \/ Recover(p) \/ Choose(p) \/ Tick(p)
    \/ Begin(p) \/ Stage(p) \/ Clear(p) \/ Launch(p) \/ PixInsight(p) \/ Read(p)
    \/ Intend(p) \/ Publish(p) \/ Reject(p) \/ FollowUp(p) \/ Succeed(p) \/ Tidy(p)

Outside(j) ==
    \/ Elapse(j) \/ Return(j) \/ PollRestore(j) \/ Lose(j) \/ Rerun(j) \/ Cleanup(j)
    \/ \E decision \in {"approved", "denied"}, local \in BOOLEAN : Decide(j, decision, local)

Next ==
    \/ \E P \in Plans : Plan(P)
    \/ \E p \in Executors : Start(p) \/ Execute(p) \/ Crash(p) \/ Escape(p)
    \/ \E j \in Job : Outside(j)
    \/ FillDisk \/ FreeDisk

Spec == Init /\ [][Next]_vars

(* altaird is restarted and ticks, a run ends at its timeout at the latest,  *)
(* back-off times pass, and lost inputs come back.                           *)
Fairness ==
    /\ \A p \in Executors : WF_vars(Start(p)) /\ WF_vars(Execute(p))
    /\ \A j \in Job : WF_vars(Elapse(j)) /\ WF_vars(Return(j)) /\ WF_vars(PollRestore(j))
    /\ WF_vars(FreeDisk)

FairSpec == Spec /\ Fairness

-----------------------------------------------------------------------------
(* What a finished job reports as its output (result_json) is what its       *)
(* master row names, so that the jobs and the Hub, which read the one, and   *)
(* the merge and the rebuild, which read the other, speak of the same file.  *)
(* A MERGE or a PROJECT_REFERENCE that is run again breaks it: Keeps.        *)
ResultRecorded == \A j \in Job \ (Merges \cup References) : Is(j, {"succeeded"}) => row[j].result = product[j] /\ Built(j)

(* A run that finished is not repeated: whatever crashes or fails before the *)
(* job has succeeded, recovery publishes from the work directory, which      *)
(* nothing empties meanwhile, or rejects the output.                         *)
Launches(p) == exe[p].pc = "launch" /\ exe'[p].pc = "run"
NoSecondRun == [][\A p \in Executors : Launches(p) => exe[p].job \in Merges \/ ~past[exe[p].job].finished]_vars

(* The same for every kind, as docs/pixinsight-cli.md:122-123 says.          *)
CrashNeedsNoRun == [][\A p \in Executors : Launches(p) => ~past[exe[p].job].finished]_vars

(* A job fails at most MaxAttempts times before somebody asks for it again,  *)
(* although `altair rerun` resets the count while an executor holds it.      *)
FailuresBounded == \A j \in Job : past[j].fails <= MaxAttempts

(* A failed job has an open JOB_FAILED issue and a finished one has none,    *)
(* whoever queued it again in between.                                       *)
AlarmsAgree == \A j \in Job : (Is(j, {"failed"}) => j \in alarm) /\ (Is(j, {"succeeded"}) => j \notin alarm)

(* Every active job ends in time, or waits for a decision that it asked for; *)
(* no crash leaves one behind.  An error outside the run is not recorded on  *)
(* the job, so only a restart ends one that met it: EveryJobEnds.            *)
Ended(j) == Is(j, DEAD \cup {"succeeded"})
Waits(j) == data[j].asked /\ ~Allowed(j)
JobsEnd  == \A j \in Job : Is(j, ACTIVE) ~> Ended(j) \/ Waits(j) \/ budget.escapes > 0

(* Every active job ends in time or waits, whatever raises an error.         *)
EveryJobEnds == \A j \in Job : Is(j, ACTIVE) ~> Ended(j) \/ Waits(j)

(* A job blocked by a dependency does not stay so once the dependency has    *)
(* succeeded, although altaird starts no pass when no job is active.         *)
BlockedRuns == \A j \in Job : Is(j, {"blocked"}) /\ Ready(j) ~> ~(Is(j, {"blocked"}) /\ Ready(j))

(* "One PixInsight job at a time" (docs/SPEC.md:1956).                       *)
OneAtATime == \A p, q \in Executors : exe[p].pc = "run" /\ exe[q].pc = "run" => p = q

(* A plan that names a master by SHA-256 is the same work as the one that    *)
(* named the job building it (plan.py:128-129), so one of them is run.       *)
SameWorkOnce == \A j \in Job : Resolved[j] # j => ~(Built(j) /\ Built(Resolved[j]))
=============================================================================
