----------------------------- MODULE JobsProofs -----------------------------
(***************************************************************************)
(* What Jobs keeps: its types, for every number of executors, and with one  *)
(* executor IInv and the properties of the run that follow from it. At the  *)
(* end, what Staging keeps of the restores that jobs wait for.              *)
(***************************************************************************)
EXTENDS JobsInv, TLAPS

-----------------------------------------------------------------------------
(* Types. *)

Budgets == [plans : Nat, faults : Nat, escapes : Nat, crashes : Nat, reruns : Nat]

LEMMA Assumed ==
    /\ \A j \in Job : j # None
    /\ MaxAttempts \in Nat /\ MaxRuns \in Nat /\ MaxPlans \in Nat /\ MaxFaults \in Nat
    /\ MaxEscapes \in Nat /\ MaxCrashes \in Nat /\ MaxReruns \in Nat
    /\ \A P \in Plans : P \subseteq Job
    /\ \A j \in Job : Follow[j] \subseteq Job
    /\ \A j \in Job : Deps[j] \subseteq Job
  BY JobsAssumption

LEMMA OffTyped == Off \in Memories
  BY Assumed DEF Off, Memories, Steps, Outputs

LEMMA StatusTyped == ASSUME NEW r \in Rows, NEW s \in Statuses PROVE [r EXCEPT !.status = s] \in Rows
  BY DEF Rows

LEMMA NewRowTyped ==
    /\ NewRow \in Rows /\ NoRow \in Rows
    /\ NewRow.status = "queued" /\ NewRow.attempts = 0
    /\ NoRow.status = "absent" /\ NoRow.attempts = 0
<1>1. 0 \in Outputs
  BY Assumed DEF Outputs
<1>2. {"queued", Absent} \subseteq Statuses
  BY DEF Statuses, ACTIVE, Waiting
<1>3. NewRow \in Rows
  BY <1>1, <1>2 DEF NewRow, Rows
<1>4. NoRow \in Rows
  BY <1>2, <1>3, StatusTyped DEF NoRow
<1>5. NoRow.status = "absent" /\ NoRow.attempts = 0
  BY <1>3 DEF NoRow, NewRow, Absent, Rows
<1> QED
  BY <1>3, <1>4, <1>5 DEF NewRow

LEMMA PcTyped == ASSUME NEW m \in Memories, NEW s \in Steps PROVE [m EXCEPT !.pc = s] \in Memories
  BY DEF Memories

(* Nobody else moves. *)
Alone(p) == \A q \in Executors : q # p => exe'[q] = exe[q]

LEMMA MemoryTyped ==
  ASSUME TypeOK, NEW p \in Executors, NEW m \in Memories, exe' = [exe EXCEPT ![p] = m]
  PROVE exe' \in [Executors -> Memories] /\ exe'[p] = m /\ Alone(p)
  BY DEF TypeOK, Alone

LEMMA GotoTyped ==
  ASSUME TypeOK, NEW p \in Executors, NEW s \in Steps, Goto(p, s)
  PROVE /\ exe' \in [Executors -> Memories]
        /\ exe'[p] = [exe[p] EXCEPT !.pc = s] /\ Alone(p)
<1>1. [exe[p] EXCEPT !.pc = s] \in Memories
  BY PcTyped DEF TypeOK
<1>2. exe' = [exe EXCEPT ![p] = [exe[p] EXCEPT !.pc = s]]
  BY DEF Goto, TypeOK
<1> QED
  BY <1>1, <1>2, MemoryTyped

LEMMA LeaveTyped ==
  ASSUME TypeOK, NEW p \in Executors, NEW tried \in SUBSET Job, Leave(p, tried)
  PROVE /\ exe' \in [Executors -> Memories]
        /\ exe'[p].pc = (IF exe[p].recovers THEN "recover" ELSE "choose")
        /\ exe'[p].todo = exe[p].todo /\ exe'[p].job = None /\ Alone(p)
<1> DEFINE m == [Off EXCEPT !.pc = IF exe[p].recovers THEN "recover" ELSE "choose",
                            !.todo = exe[p].todo, !.tried = exe[p].tried \cup tried]
<1>1. exe[p].todo \in SUBSET Job /\ exe[p].tried \in SUBSET Job
  BY DEF TypeOK, Memories
<1>2. m \in Memories
  BY <1>1, OffTyped DEF Memories, Steps, Off
<1>3. exe' = [exe EXCEPT ![p] = m]
  BY DEF Leave
<1>4. m.pc = (IF exe[p].recovers THEN "recover" ELSE "choose") /\ m.todo = exe[p].todo /\ m.job = None
  BY DEF Off
<1> QED
  BY <1>2, <1>3, <1>4, MemoryTyped

LEMMA PassEndsTyped ==
  ASSUME TypeOK, NEW p \in Executors, PassEnds(p)
  PROVE exe' \in [Executors -> Memories] /\ exe'[p].todo = {} /\ exe'[p].pc \in {"idle", "off"} /\ Alone(p)
<1> DEFINE m == [Off EXCEPT !.pc = IF p \in Daemons THEN "idle" ELSE "off"]
<1>1. m \in Memories
  BY OffTyped DEF Memories, Steps, Off
<1>2. exe' = [exe EXCEPT ![p] = m]
  BY DEF PassEnds
<1>3. m.todo = {} /\ m.pc \in {"idle", "off"}
  BY DEF Off
<1> QED
  BY <1>1, <1>2, <1>3, MemoryTyped

LEMMA SpendTyped ==
  ASSUME TypeOK, NEW what \in {"plans", "faults", "escapes", "crashes", "reruns"}, NEW most, Spend(what, most)
  PROVE budget' \in Budgets
  BY DEF TypeOK, Spend, Budgets

LEMMA InsertTyped ==
  ASSUME TypeOK, NEW P \in SUBSET Job
  PROVE Insert(P) \in [Job -> Rows]
<1> DEFINE new == {h \in P : Existing(h) = {}}
           again == {j \in UNION {Existing(h) : h \in P} : Is(j, DEAD)}
           old == Superseded(new)
           f(j) == IF j \in new THEN NewRow
                   ELSE IF j \in again THEN Requeue(row[j])
                   ELSE IF j \in old THEN [row[j] EXCEPT !.status = "superseded"]
                   ELSE row[j]
<1>1. ASSUME NEW j \in Job PROVE f(j) \in Rows
  <2>1. row[j] \in Rows
    BY DEF TypeOK
  <2>2. Requeue(row[j]) \in Rows
    BY <2>1 DEF Requeue, Rows, Statuses, ACTIVE, Waiting
  <2>3. [row[j] EXCEPT !.status = "superseded"] \in Rows
    BY <2>1 DEF Rows, Statuses, DEAD
  <2> QED
    BY <2>1, <2>2, <2>3, NewRowTyped
<1>2. Insert(P) = [j \in Job |-> f(j)]
  BY DEF Insert
<1> QED
  BY <1>1, <1>2

LEMMA ForgetTyped ==
  ASSUME TypeOK, NEW from, NEW to, Forget(from, to)
  PROVE past' \in [Job -> Pasts]
<1>1. ASSUME NEW j \in Job
      PROVE past[j] \in Pasts /\ [past[j] EXCEPT !.fails = 0, !.finished = FALSE] \in Pasts
  BY DEF TypeOK, Pasts
<1> QED
  BY <1>1 DEF Forget

-----------------------------------------------------------------------------
(* Type correctness, one lemma for each group of actions. *)

(* A row, an executor's memory, a job's inputs or history is replaced. *)
LEMMA RowTyped ==
  ASSUME TypeOK, NEW j \in Job, NEW r \in Rows, row' = [row EXCEPT ![j] = r]
  PROVE row' \in [Job -> Rows]
  BY DEF TypeOK

LEMMA PastTyped ==
  ASSUME TypeOK, NEW j \in Job, NEW r \in Pasts, past' = [past EXCEPT ![j] = r]
  PROVE past' \in [Job -> Pasts]
  BY DEF TypeOK

LEMMA InitTyped == Init => TypeOK
<1> SUFFICES ASSUME Init PROVE TypeOK
  OBVIOUS
<1>1. 0 \in Outputs
  BY Assumed DEF Outputs
<1> QED
  BY <1>1, OffTyped, NewRowTyped DEF Init, TypeOK, Inputs, Pasts

LEMMA PlanTyped == ASSUME TypeOK, NEW P \in Plans, Plan(P) PROVE TypeOK'
<1>1. row' \in [Job -> Rows]
  BY InsertTyped, Assumed DEF Plan
<1>2. past' \in [Job -> Pasts]
  BY ForgetTyped DEF Plan
<1>3. budget' \in Budgets
  BY SpendTyped DEF Plan
<1> QED
  BY <1>1, <1>2, <1>3 DEF Plan, TypeOK, Budgets

LEMMA StartTyped == ASSUME TypeOK, NEW p \in Executors, Start(p) PROVE TypeOK'
<1>1. [Off EXCEPT !.pc = "recover", !.todo = {j \in Job : Is(j, Interrupted)}] \in Memories
  BY OffTyped DEF Memories, Steps
<1>2. exe' \in [Executors -> Memories]
  BY <1>1, MemoryTyped DEF Start
<1> QED
  BY <1>2 DEF Start, TypeOK, Catalog, World

LEMMA QueuedTyped ==
  ASSUME TypeOK, NEW j \in Job, NEW s \in Statuses, row' = [row EXCEPT ![j].status = s]
  PROVE row' \in [Job -> Rows]
  BY StatusTyped DEF TypeOK

LEMMA RecoverTyped == ASSUME TypeOK, NEW p \in Executors, Recover(p) PROVE TypeOK'
<1> USE DEF Recover, World
<1>1. exe[p] \in Memories
  BY DEF TypeOK
<1>2. CASE \E j \in exe[p].todo : Republish(p, j)
  <2>1. PICK j \in exe[p].todo : Republish(p, j)
    BY <1>2
  <2>2. j \in Job /\ work[j] \in Outputs
    BY <1>1 DEF TypeOK, Memories
  <2>3. [exe[p] EXCEPT !.pc = "intend", !.job = j, !.out = work[j], !.todo = exe[p].todo \ {j}, !.recovers = TRUE] \in Memories
    BY <1>1, <2>2 DEF Memories, Steps
  <2>4. exe' \in [Executors -> Memories]
    BY <2>1, <2>3, MemoryTyped DEF Republish
  <2> QED
    BY <2>1, <2>4 DEF Republish, TypeOK
<1>3. CASE \E j \in exe[p].todo : RunAgain(p, j)
  <2>1. PICK j \in exe[p].todo : RunAgain(p, j)
    BY <1>3
  <2>2. j \in Job
    BY <1>1 DEF Memories
  <2>3. [exe[p] EXCEPT !.todo = exe[p].todo \ {j}] \in Memories
    BY <1>1 DEF Memories
  <2>4. exe' \in [Executors -> Memories]
    BY <2>1, <2>3, MemoryTyped DEF RunAgain
  <2>5. row' \in [Job -> Rows]
    BY <2>1, <2>2, QueuedTyped DEF RunAgain, Statuses, ACTIVE, Waiting
  <2> QED
    BY <2>1, <2>4, <2>5 DEF RunAgain, TypeOK
<1>4. CASE exe' = [exe EXCEPT ![p] = [Off EXCEPT !.pc = IF p \in Daemons THEN "idle" ELSE "choose"]] /\ UNCHANGED <<row, intent>>
  <2>1. [Off EXCEPT !.pc = IF p \in Daemons THEN "idle" ELSE "choose"] \in Memories
    BY OffTyped DEF Memories, Steps
  <2> QED
    BY <1>4, <2>1, MemoryTyped DEF TypeOK
<1> QED
  BY <1>2, <1>3, <1>4

LEMMA ChooseTyped == ASSUME TypeOK, NEW p \in Executors, Choose(p) PROVE TypeOK'
<1>1. row' \in [Job -> Rows]
  <2>1. ASSUME NEW j \in Job PROVE [row[j] EXCEPT !.status = Sorted(j)] \in Rows
    <3>1. row[j] \in Rows /\ row[j].status \in Statuses
      BY DEF TypeOK, Rows
    <3>2. Sorted(j) \in Statuses
      BY <3>1 DEF Sorted, Statuses, ACTIVE, Waiting, DEAD
    <3> QED
      BY <3>1, <3>2, StatusTyped
  <2> QED
    BY <2>1 DEF Choose
<1>2. exe' \in [Executors -> Memories]
  <2>1. CASE PassEnds(p)
    BY <2>1, PassEndsTyped
  <2>2. CASE \E j \in Candidates(p) : exe' = [exe EXCEPT ![p] = [@ EXCEPT !.pc = "begin", !.job = j, !.attempts = row[j].attempts]]
    <3>1. PICK j \in Candidates(p) : exe' = [exe EXCEPT ![p] = [exe[p] EXCEPT !.pc = "begin", !.job = j, !.attempts = row[j].attempts]]
      BY <2>2 DEF TypeOK
    <3>2. j \in Job /\ row[j].attempts \in Nat
      BY DEF Candidates, TypeOK, Rows
    <3>3. exe[p] \in Memories
      BY DEF TypeOK
    <3>4. [exe[p] EXCEPT !.pc = "begin", !.job = j, !.attempts = row[j].attempts] \in Memories
      BY <3>2, <3>3 DEF Memories, Steps
    <3> QED
      BY <3>1, <3>4, MemoryTyped
  <2> QED
    BY <2>1, <2>2 DEF Choose
<1> QED
  BY <1>1, <1>2 DEF Choose, TypeOK, World

LEMMA TickTyped == ASSUME TypeOK, NEW p \in Executors, Tick(p) PROVE TypeOK'
<1>1. exe' \in [Executors -> Memories]
  BY GotoTyped DEF Tick, Steps
<1> QED
  BY <1>1 DEF Tick, TypeOK, Catalog, World

LEMMA BeginTyped == ASSUME TypeOK, NEW p \in Executors, exe[p].job \in Job, Begin(p) PROVE TypeOK'
<1>1. exe' \in [Executors -> Memories]
  BY GotoTyped DEF Begin, Steps
<1>2. row' \in [Job -> Rows]
  BY QueuedTyped DEF Begin, Statuses, ACTIVE
<1> QED
  BY <1>1, <1>2 DEF Begin, TypeOK, World

LEMMA WaitTyped == ASSUME NEW r \in Rows PROVE Wait(r) \in Rows /\ [Wait(r) EXCEPT !.resolved = TRUE] \in Rows
  BY DEF Wait, Rows, Statuses, ACTIVE, Waiting

LEMMA RequestTyped == ASSUME TypeOK, NEW j \in Job PROVE Request(j) \in Inputs
<1> DEFINE d == data[j]
           a == d.asked \/ (d.here /\ j \in Large /\ d.decision = "none")
           r == IF d.here /\ Allowed(j) /\ j \in Cold /\ d.restore = "none" THEN "restoring" ELSE d.restore
<1>1. d \in Inputs
  BY DEF TypeOK
<1>2. a \in BOOLEAN
  BY <1>1 DEF Inputs
<1>3. r \in {"none", "restoring", "done"}
  BY <1>1 DEF Inputs
<1>4. Request(j) = [d EXCEPT !.asked = a, !.restore = r]
  BY <1>1 DEF Request, Inputs
<1> HIDE DEF a, r, d
<1> QED
  BY <1>1, <1>2, <1>3, <1>4 DEF Inputs

LEMMA StageTyped == ASSUME TypeOK, NEW p \in Executors, exe[p].job \in Job, Stage(p) PROVE TypeOK'
<1> DEFINE j == exe[p].job
<1>1. row[j] \in Rows
  BY DEF TypeOK
<1>2. CASE row' = [row EXCEPT ![j] = Wait(row[j])] /\ Leave(p, {j}) /\ UNCHANGED data
  BY <1>1, <1>2, RowTyped, WaitTyped, LeaveTyped DEF Stage, TypeOK
<1>3. CASE /\ row' = [row EXCEPT ![j] = [Wait(row[j]) EXCEPT !.resolved = TRUE]]
           /\ data' = [data EXCEPT ![j] = Request(j)]
           /\ Leave(p, {j})
  <2>1. row' \in [Job -> Rows]
    BY <1>1, <1>3, RowTyped, WaitTyped
  <2>2. data' \in [Job -> Inputs]
    BY <1>3, RequestTyped DEF TypeOK
  <2>3. exe' \in [Executors -> Memories]
    BY <1>3, LeaveTyped
  <2> QED
    BY <2>1, <2>2, <2>3 DEF Stage, TypeOK
<1>4. CASE row' = [row EXCEPT ![j].resolved = TRUE] /\ Goto(p, "clear") /\ UNCHANGED data
  <2>1. [row[j] EXCEPT !.resolved = TRUE] \in Rows
    BY <1>1 DEF Rows
  <2>2. row' \in [Job -> Rows]
    BY <1>4, <2>1, RowTyped
  <2>3. exe' \in [Executors -> Memories]
    BY <1>4, GotoTyped DEF Steps
  <2> QED
    BY <1>4, <2>2, <2>3 DEF Stage, TypeOK
<1> QED
  BY <1>1, <1>2, <1>3, <1>4 DEF Stage, TypeOK

LEMMA ClearTyped == ASSUME TypeOK, NEW p \in Executors, exe[p].job \in Job, Clear(p) PROVE TypeOK'
<1> DEFINE j == exe[p].job
<1>1. work' \in [Job -> Outputs]
  BY Assumed DEF Clear, TypeOK, Outputs
<1>2. CASE Goto(p, "launch") /\ UNCHANGED row
  BY <1>1, <1>2, GotoTyped DEF Clear, TypeOK, World, Steps
<1>3. CASE row' = [row EXCEPT ![j] = Wait(@)] /\ Leave(p, {j})
  <2>1. row' = [row EXCEPT ![j] = Wait(row[j])] /\ row[j] \in Rows
    BY <1>3 DEF TypeOK
  <2>2. row' \in [Job -> Rows]
    BY <2>1, RowTyped, WaitTyped
  <2>3. exe' \in [Executors -> Memories]
    BY <1>3, LeaveTyped
  <2> QED
    BY <1>1, <2>2, <2>3 DEF Clear, TypeOK, World
<1> QED
  BY <1>2, <1>3 DEF Clear

LEMMA LaunchTyped == ASSUME TypeOK, NEW p \in Executors, exe[p].job \in Job, Launch(p) PROVE TypeOK'
<1> DEFINE j == exe[p].job
           r == [row[j] EXCEPT !.status = "running", !.attempts = exe[p].attempts + 1]
<1>1. row[j] \in Rows /\ exe[p] \in Memories
  BY DEF TypeOK
<1>a. exe[p].attempts + 1 \in Nat /\ "running" \in Statuses
  BY <1>1 DEF Memories, Statuses, ACTIVE
<1>2. r \in Rows
  BY <1>1, <1>a DEF Rows
<1>3. row' = [row EXCEPT ![j] = r]
  BY DEF Launch, TypeOK
<1>4. row' \in [Job -> Rows]
  BY <1>2, <1>3, RowTyped
<1>5. exe' \in [Executors -> Memories]
  BY GotoTyped DEF Launch, Steps
<1> QED
  BY <1>4, <1>5 DEF Launch, TypeOK, World

LEMMA PixInsightTyped == ASSUME TypeOK, NEW p \in Executors, exe[p].job \in Job, PixInsight(p) PROVE TypeOK'
<1> DEFINE j == exe[p].job
<1>1. past[j] \in Pasts
  BY DEF TypeOK
<1>2. work' \in [Job -> Outputs] /\ past' \in [Job -> Pasts]
  <2>1. CASE UNCHANGED <<past, work>>
    BY <2>1 DEF TypeOK
  <2>2. CASE past[j].runs < MaxRuns /\ past' = [past EXCEPT ![j].runs = @ + 1] /\ work' = [work EXCEPT ![j] = past[j].runs + 1]
    <3>1. past[j].runs + 1 \in Outputs
      BY <1>1, <2>2, Assumed DEF Pasts, Outputs
    <3>2. [past[j] EXCEPT !.runs = past[j].runs + 1] \in Pasts
      BY <1>1, <3>1 DEF Pasts
    <3>3. past' = [past EXCEPT ![j] = [past[j] EXCEPT !.runs = past[j].runs + 1]]
      BY <2>2 DEF TypeOK
    <3>4. past' \in [Job -> Pasts]
      BY <3>2, <3>3, PastTyped
    <3> QED
      BY <2>2, <3>1, <3>4 DEF TypeOK
  <2> QED
    BY <2>1, <2>2 DEF PixInsight
<1>3. exe' \in [Executors -> Memories]
  BY GotoTyped DEF PixInsight, Steps
<1> QED
  BY <1>2, <1>3 DEF PixInsight, TypeOK, World, Catalog

LEMMA FailTyped ==
  ASSUME TypeOK, NEW p \in Executors, exe[p].job \in Job, NEW retry \in BOOLEAN, Fail(p, retry)
  PROVE row' \in [Job -> Rows] /\ alarm' \subseteq Job /\ past' \in [Job -> Pasts] /\ exe' \in [Executors -> Memories]
<1> DEFINE j     == exe[p].job
           again == retry /\ Retries(j)
           r     == IF again THEN [row[j] EXCEPT !.status = "queued", !.held = TRUE] ELSE [row[j] EXCEPT !.status = "failed"]
<1>1. row[j] \in Rows /\ past[j] \in Pasts
  BY DEF TypeOK
<1>2. r \in Rows
  BY <1>1 DEF Rows, Statuses, ACTIVE, Waiting, DEAD
<1>3. row' = [row EXCEPT ![j] = r]
  BY DEF Fail, TypeOK
<1>a. past[j].fails + 1 \in Nat
  BY <1>1 DEF Pasts
<1>4. [past[j] EXCEPT !.fails = past[j].fails + 1, !.finished = FALSE] \in Pasts
  BY <1>1, <1>a DEF Pasts
<1>b. past' = [past EXCEPT ![j].fails = @ + 1, ![j].finished = FALSE]
  BY DEF Fail
<1>5. past' = [past EXCEPT ![j] = [past[j] EXCEPT !.fails = past[j].fails + 1, !.finished = FALSE]]
  BY <1>b DEF TypeOK
<1>6. exe' \in [Executors -> Memories]
  BY LeaveTyped DEF Fail
<1>7. alarm' \subseteq Job
  BY DEF Fail, TypeOK
<1> QED
  BY <1>2, <1>3, <1>4, <1>5, <1>6, <1>7, RowTyped, PastTyped

LEMMA ReadTyped == ASSUME TypeOK, NEW p \in Executors, exe[p].job \in Job, Read(p) PROVE TypeOK'
<1> DEFINE j == exe[p].job
<1>1. CASE exe' = [exe EXCEPT ![p] = [@ EXCEPT !.pc = "intend", !.out = work[j]]] /\ UNCHANGED <<row, alarm, past>>
  <2>1. exe[p] \in Memories /\ work[j] \in Outputs
    BY DEF TypeOK
  <2>2. [exe[p] EXCEPT !.pc = "intend", !.out = work[j]] \in Memories
    BY <2>1 DEF Memories, Steps
  <2>3. exe' = [exe EXCEPT ![p] = [exe[p] EXCEPT !.pc = "intend", !.out = work[j]]]
    BY <1>1 DEF TypeOK
  <2> QED
    BY <1>1, <2>2, <2>3, MemoryTyped DEF Read, TypeOK, World
<1>2. CASE \E retry \in BOOLEAN : Fail(p, retry)
  BY <1>2, FailTyped DEF Read, TypeOK, World
<1> QED
  BY <1>1, <1>2 DEF Read

LEMMA FinishedTyped ==
  ASSUME TypeOK, NEW j \in Job, NEW b \in BOOLEAN, past' = [past EXCEPT ![j].finished = b]
  PROVE past' \in [Job -> Pasts]
<1>1. [past[j] EXCEPT !.finished = b] \in Pasts
  BY DEF TypeOK, Pasts
<1> QED
  BY <1>1 DEF TypeOK

LEMMA IntendTyped == ASSUME TypeOK, NEW p \in Executors, exe[p].job \in Job, Intend(p) PROVE TypeOK'
<1>1. past' \in [Job -> Pasts]
  BY FinishedTyped DEF Intend
<1>2. exe' \in [Executors -> Memories]
  BY GotoTyped DEF Intend, Steps
<1> QED
  BY <1>1, <1>2 DEF Intend, TypeOK, World

LEMMA PublishTyped == ASSUME TypeOK, NEW p \in Executors, exe[p].job \in Job, Publish(p) PROVE TypeOK'
<1>1. product' \in [Job -> Outputs]
  BY DEF Publish, TypeOK, Memories
<1>2. exe' \in [Executors -> Memories]
  BY GotoTyped DEF Publish, Steps
<1> QED
  BY <1>1, <1>2 DEF Publish, TypeOK, World

LEMMA GiveUpTyped ==
  ASSUME TypeOK, NEW p \in Executors, exe[p].job \in Job, GiveUp(p)
  PROVE /\ row' \in [Job -> Rows] /\ intent' \subseteq Job /\ alarm' \subseteq Job
        /\ past' \in [Job -> Pasts] /\ exe' \in [Executors -> Memories]
<1>1. row' \in [Job -> Rows]
  BY QueuedTyped DEF GiveUp, Statuses, ACTIVE, Waiting
<1>2. past' \in [Job -> Pasts]
  BY FinishedTyped DEF GiveUp
<1>3. exe' \in [Executors -> Memories]
  BY LeaveTyped DEF GiveUp
<1> QED
  BY <1>1, <1>2, <1>3 DEF GiveUp, TypeOK

LEMMA RejectTyped == ASSUME TypeOK, NEW p \in Executors, exe[p].job \in Job, Reject(p) PROVE TypeOK'
<1>1. CASE GiveUp(p)
  BY <1>1, GiveUpTyped DEF Reject, TypeOK, World
<1>2. CASE Fail(p, FALSE) /\ UNCHANGED intent
  BY <1>2, FailTyped DEF Reject, TypeOK, World
<1> QED
  BY <1>1, <1>2 DEF Reject

LEMMA FollowUpTyped == ASSUME TypeOK, NEW p \in Executors, exe[p].job \in Job, FollowUp(p) PROVE TypeOK'
<1>1. row' \in [Job -> Rows]
  BY InsertTyped, Assumed DEF FollowUp, TypeOK
<1>2. past' \in [Job -> Pasts]
  BY ForgetTyped DEF FollowUp
<1>3. exe' \in [Executors -> Memories]
  BY GotoTyped DEF FollowUp, Steps
<1> QED
  BY <1>1, <1>2, <1>3 DEF FollowUp, TypeOK, World

LEMMA SucceedTyped == ASSUME TypeOK, NEW p \in Executors, exe[p].job \in Job, Succeed(p) PROVE TypeOK'
<1> DEFINE j == exe[p].job
<1>1. [row[j] EXCEPT !.status = "succeeded", !.result = exe[p].out] \in Rows
  <2>1. row[j] \in Rows /\ exe[p].out \in Outputs /\ "succeeded" \in Statuses
    BY DEF TypeOK, Memories, Statuses
  <2> QED
    BY <2>1 DEF Rows
<1>2. row' = [row EXCEPT ![j] = [row[j] EXCEPT !.status = "succeeded", !.result = exe[p].out]]
  BY DEF Succeed, TypeOK
<1>3. row' \in [Job -> Rows]
  BY <1>1, <1>2, RowTyped
<1>4. past' \in [Job -> Pasts]
  BY FinishedTyped DEF Succeed
<1>5. exe' \in [Executors -> Memories]
  BY GotoTyped DEF Succeed, Steps
<1> QED
  BY <1>3, <1>4, <1>5 DEF Succeed, Resolve, TypeOK, World

LEMMA TidyTyped == ASSUME TypeOK, NEW p \in Executors, exe[p].job \in Job, Tidy(p) PROVE TypeOK'
<1>1. work' \in [Job -> Outputs]
  BY Assumed DEF Tidy, TypeOK, Outputs
<1>2. exe' \in [Executors -> Memories]
  BY LeaveTyped DEF Tidy
<1> QED
  BY <1>1, <1>2 DEF Tidy, TypeOK, World, Catalog

LEMMA CrashTyped == ASSUME TypeOK, NEW p \in Executors, Crash(p) PROVE TypeOK'
<1>1. budget' \in Budgets
  BY SpendTyped DEF Crash
<1>2. exe' \in [Executors -> Memories]
  BY OffTyped, MemoryTyped DEF Crash
<1> QED
  BY <1>1, <1>2 DEF Crash, TypeOK, World, Catalog, Budgets

LEMMA EscapeTyped == ASSUME TypeOK, NEW p \in Executors, exe[p].job \in Job, Escape(p) PROVE TypeOK'
<1>1. budget' \in Budgets
  BY SpendTyped DEF Escape
<1>2. CASE GiveUp(p)
  BY <1>1, <1>2, GiveUpTyped DEF Escape, TypeOK, World, Budgets
<1>3. CASE PassEnds(p) /\ UNCHANGED <<row, intent, alarm, past>>
  BY <1>1, <1>3, PassEndsTyped DEF Escape, TypeOK, World, Budgets
<1> QED
  BY <1>2, <1>3 DEF Escape

(* The steps of everybody else leave the executors alone. *)
LEMMA ShareTyped == ASSUME TypeOK, NEW j \in Job, Lose(j) \/ Return(j) \/ FillDisk \/ FreeDisk \/ Cleanup(j) PROVE TypeOK'
<1>1. \A b \in BOOLEAN : [data[j] EXCEPT !.here = b] \in Inputs
  BY DEF TypeOK, Inputs
<1>2. CASE Lose(j)
  BY <1>1, <1>2, SpendTyped DEF Lose, TypeOK, Catalog, Budgets
<1>3. CASE Return(j)
  BY <1>1, <1>3 DEF Return, TypeOK, Catalog
<1>4. CASE FillDisk
  BY <1>4, SpendTyped DEF FillDisk, TypeOK, Catalog, Budgets
<1>5. CASE FreeDisk
  BY <1>5 DEF FreeDisk, TypeOK, Catalog
<1>6. CASE Cleanup(j)
  BY <1>6, Assumed DEF Cleanup, TypeOK, Catalog, World, Outputs
<1> QED
  BY <1>2, <1>3, <1>4, <1>5, <1>6

LEMMA ElapseTyped == ASSUME TypeOK, NEW j \in Job, Elapse(j) PROVE TypeOK'
<1>1. [row[j] EXCEPT !.held = FALSE] \in Rows
  BY DEF TypeOK, Rows
<1> QED
  BY <1>1 DEF Elapse, TypeOK, World

LEMMA PollRestoreTyped == ASSUME TypeOK, NEW j \in Job, PollRestore(j) PROVE TypeOK'
<1>1. [data[j] EXCEPT !.restore = "done"] \in Inputs
  BY DEF TypeOK, Inputs
<1>2. data' \in [Job -> Inputs]
  BY <1>1 DEF PollRestore, TypeOK
<1>3. row' \in [Job -> Rows]
  BY QueuedTyped DEF PollRestore, TypeOK, Statuses, ACTIVE, Waiting
<1> QED
  BY <1>2, <1>3 DEF PollRestore, TypeOK

LEMMA DecideTyped ==
  ASSUME TypeOK, NEW j \in Job, NEW d \in {"approved", "denied"}, NEW local \in BOOLEAN, Decide(j, d, local)
  PROVE TypeOK'
<1>1. [data[j] EXCEPT !.decision = d] \in Inputs
  BY DEF TypeOK, Inputs
<1>2. data' \in [Job -> Inputs]
  BY <1>1 DEF Decide, TypeOK
<1>3. row' \in [Job -> Rows]
  <2>1. {"queued", "skipped"} \subseteq Statuses
    BY DEF Statuses, ACTIVE, Waiting, DEAD
  <2>2. CASE row' = row
    BY <2>2 DEF TypeOK
  <2>3. CASE row' = [row EXCEPT ![j].status = IF d = "approved" THEN "queued" ELSE "skipped"]
    BY <2>1, <2>3, QueuedTyped
  <2> QED
    BY <2>2, <2>3 DEF Decide
<1> QED
  BY <1>2, <1>3 DEF Decide, TypeOK

LEMMA RerunTyped == ASSUME TypeOK, NEW j \in Job, Rerun(j) PROVE TypeOK'
<1>1. row[j] \in Rows /\ past[j] \in Pasts
  BY DEF TypeOK
<1>2. Requeue(row[j]) \in Rows
  BY <1>1 DEF Requeue, Rows, Statuses, ACTIVE, Waiting
<1>3. [past[j] EXCEPT !.fails = 0, !.finished = FALSE] \in Pasts
  BY <1>1 DEF Pasts
<1>4. row' \in [Job -> Rows] /\ past' \in [Job -> Pasts]
  BY <1>2, <1>3 DEF Rerun, TypeOK
<1>5. budget' \in Budgets
  BY SpendTyped DEF Rerun
<1> QED
  BY <1>4, <1>5 DEF Rerun, Resolve, TypeOK, World, Budgets

(* A working executor has a job, whoever else is at work. *)
HasJob(p) == exe[p].pc \in Working => exe[p].job \in Job
Typed     == TypeOK /\ \A p \in Executors : HasJob(p)

LEMMA HasJobKept ==
  ASSUME Typed, NEW p \in Executors, Alone(p), exe'[p].pc \in Working => exe'[p].job \in Job
  PROVE \A q \in Executors : HasJob(q)'
  BY DEF Typed, HasJob, Alone

LEMMA SameExecutors == ASSUME Typed, exe' = exe PROVE \A q \in Executors : HasJob(q)'
  BY DEF Typed, HasJob

LEMMA ExecuteTyped == ASSUME Typed, NEW p \in Executors, Execute(p) PROVE Typed'
<1> USE DEF Working, Before, Settling
<1>0. TypeOK /\ HasJob(p)
  BY DEF Typed
<1>a. exe[p].pc \in Working => exe[p].job \in Job
  BY <1>0 DEF HasJob
<1>1. CASE Recover(p)
  <2>1. exe[p] \in Memories
    BY <1>0 DEF TypeOK
  <2>2. TypeOK'
    BY <1>0, <1>1, RecoverTyped
  <2>3. CASE \E j \in exe[p].todo : Republish(p, j)
    <3>1. PICK j \in exe[p].todo : Republish(p, j)
      BY <2>3
    <3>2. j \in Job
      BY <2>1 DEF Memories
    <3>3. exe'[p].job = j /\ Alone(p)
      BY <1>0, <2>1, <3>1 DEF Republish, TypeOK, Alone, Memories
    <3> QED
      BY <2>2, <3>2, <3>3, HasJobKept DEF Typed
  <2>4. CASE \E j \in exe[p].todo : RunAgain(p, j)
    <3>1. exe'[p].pc = "recover" /\ Alone(p)
      BY <1>0, <1>1, <2>1, <2>4 DEF RunAgain, TypeOK, Alone, Memories, Recover
    <3> QED
      BY <2>2, <3>1, HasJobKept DEF Typed
  <2>5. CASE exe' = [exe EXCEPT ![p] = [Off EXCEPT !.pc = IF p \in Daemons THEN "idle" ELSE "choose"]]
    <3>1. exe'[p].pc \in {"idle", "choose"} /\ Alone(p)
      BY <1>0, <2>5 DEF TypeOK, Alone, Off
    <3> QED
      BY <2>2, <3>1, HasJobKept DEF Typed
  <2> QED
    BY <1>1, <2>3, <2>4, <2>5 DEF Recover
<1>2. CASE Choose(p)
  <2>1. TypeOK'
    BY <1>0, <1>2, ChooseTyped
  <2>2. CASE PassEnds(p)
    BY <1>0, <2>1, <2>2, PassEndsTyped, HasJobKept DEF Typed
  <2>3. CASE \E j \in Candidates(p) : exe' = [exe EXCEPT ![p] = [@ EXCEPT !.pc = "begin", !.job = j, !.attempts = row[j].attempts]]
    <3>1. PICK j \in Candidates(p) : exe' = [exe EXCEPT ![p] = [@ EXCEPT !.pc = "begin", !.job = j, !.attempts = row[j].attempts]]
      BY <2>3
    <3>2. j \in Job
      BY DEF Candidates
    <3>3. exe[p] \in Memories
      BY <1>0 DEF TypeOK
    <3>4. exe'[p].job = j /\ Alone(p)
      BY <1>0, <3>1, <3>3 DEF TypeOK, Alone, Memories
    <3> QED
      BY <2>1, <3>2, <3>4, HasJobKept DEF Typed
  <2> QED
    BY <1>2, <2>2, <2>3 DEF Choose
<1>3. CASE Tick(p)
  <2>1. exe'[p].pc = "choose" /\ Alone(p)
    <3>1. exe'[p] = [exe[p] EXCEPT !.pc = "choose"] /\ Alone(p)
      BY <1>0, <1>3, GotoTyped DEF Tick, Steps
    <3> QED
      BY <1>0, <3>1 DEF TypeOK, Memories
  <2> QED
    BY <1>0, <1>3, <2>1, TickTyped, HasJobKept DEF Typed
<1>g. ASSUME NEW s \in Steps, Goto(p, s), exe[p].pc \in Working, TypeOK' PROVE Typed'
  <2>1. exe'[p] = [exe[p] EXCEPT !.pc = s] /\ Alone(p)
    BY <1>0, <1>g, GotoTyped
  <2>2. exe'[p].job = exe[p].job
    BY <1>0, <2>1 DEF TypeOK, Memories
  <2> QED
    BY <1>a, <1>g, <2>1, <2>2, HasJobKept DEF Typed
<1>l. ASSUME NEW tried \in SUBSET Job, Leave(p, tried), TypeOK' PROVE Typed'
  <2>1. exe'[p].pc \in {"recover", "choose"} /\ Alone(p)
    BY <1>0, <1>l, LeaveTyped
  <2> QED
    BY <1>l, <2>1, HasJobKept DEF Typed
<1>f. ASSUME NEW retry \in BOOLEAN, Fail(p, retry), exe[p].job \in Job, TypeOK' PROVE Typed'
  BY <1>f, <1>l DEF Fail
<1>4. CASE Begin(p)
  BY <1>0, <1>a, <1>4, <1>g, BeginTyped DEF Begin, Steps
<1>5. CASE Stage(p)
  BY <1>0, <1>a, <1>5, <1>g, <1>l, StageTyped DEF Stage, Steps
<1>6. CASE Clear(p)
  BY <1>0, <1>a, <1>6, <1>g, <1>l, ClearTyped DEF Clear, Steps
<1>7. CASE Launch(p)
  BY <1>0, <1>a, <1>7, <1>g, LaunchTyped DEF Launch, Steps
<1>8. CASE PixInsight(p)
  BY <1>0, <1>a, <1>8, <1>g, PixInsightTyped DEF PixInsight, Steps
<1>9. CASE Read(p)
  <2>1. TypeOK' /\ exe[p].job \in Job
    BY <1>0, <1>a, <1>9, ReadTyped DEF Read
  <2>2. CASE \E retry \in BOOLEAN : Fail(p, retry)
    BY <1>f, <2>1, <2>2
  <2>3. CASE exe' = [exe EXCEPT ![p] = [@ EXCEPT !.pc = "intend", !.out = work[exe[p].job]]]
    <3>1. exe[p] \in Memories
      BY <1>0 DEF TypeOK
    <3>2. exe'[p].job = exe[p].job /\ Alone(p)
      BY <1>0, <2>3, <3>1 DEF TypeOK, Memories, Alone
    <3> QED
      BY <2>1, <3>2, HasJobKept DEF Typed
  <2> QED
    BY <1>9, <2>2, <2>3 DEF Read
<1>10. CASE Intend(p)
  BY <1>0, <1>a, <1>10, <1>g, IntendTyped DEF Intend, Steps
<1>11. CASE Publish(p)
  BY <1>0, <1>a, <1>11, <1>g, PublishTyped DEF Publish, Steps
<1>12. CASE Reject(p)
  BY <1>0, <1>a, <1>12, <1>f, <1>l, RejectTyped DEF Reject, GiveUp
<1>13. CASE FollowUp(p)
  BY <1>0, <1>a, <1>13, <1>g, FollowUpTyped DEF FollowUp, Steps
<1>14. CASE Succeed(p)
  BY <1>0, <1>a, <1>14, <1>g, SucceedTyped DEF Succeed, Steps
<1>15. CASE Tidy(p)
  BY <1>0, <1>a, <1>15, <1>l, TidyTyped DEF Tidy
<1> QED
  BY <1>1, <1>2, <1>3, <1>4, <1>5, <1>6, <1>7, <1>8, <1>9, <1>10, <1>11, <1>12, <1>13, <1>14, <1>15 DEF Execute

LEMMA TypedStep == Typed /\ [Next]_vars => Typed'
<1> SUFFICES ASSUME Typed, [Next]_vars PROVE Typed'
  OBVIOUS
<1> USE DEF Typed
<1>1. CASE \E P \in Plans : Plan(P)
  BY <1>1, PlanTyped, SameExecutors DEF Plan
<1>2. ASSUME NEW p \in Executors, Start(p) PROVE Typed'
  <2>1. exe'[p].pc = "recover" /\ Alone(p)
    BY <1>2 DEF Start, TypeOK, Alone, Off
  <2> QED
    BY <1>2, <2>1, StartTyped, HasJobKept DEF Working, Before, Settling
<1>3. ASSUME NEW p \in Executors, Execute(p) PROVE Typed'
  BY <1>3, ExecuteTyped
<1>4. ASSUME NEW p \in Executors, Crash(p) PROVE Typed'
  <2>1. exe'[p].pc = "off" /\ Alone(p)
    BY <1>4 DEF Crash, TypeOK, Alone, Off
  <2> QED
    BY <1>4, <2>1, CrashTyped, HasJobKept DEF Working, Before, Settling
<1>5. ASSUME NEW p \in Executors, Escape(p) PROVE Typed'
  <2>1. exe[p].job \in Job
    BY <1>5 DEF Escape, HasJob, Working, Before, Settling
  <2>2. exe'[p].pc \in {"recover", "choose", "idle", "off"} /\ Alone(p)
    BY <1>5, <2>1, LeaveTyped, PassEndsTyped DEF Escape, GiveUp
  <2> QED
    BY <1>5, <2>1, <2>2, EscapeTyped, HasJobKept DEF Working, Before, Settling
<1>6. ASSUME NEW j \in Job, Outside(j) PROVE Typed'
  <2>1. exe' = exe
    BY <1>6 DEF Outside, Elapse, Return, PollRestore, Lose, Rerun, Cleanup, Decide
  <2>2. TypeOK'
    BY <1>6, ElapseTyped, ShareTyped, PollRestoreTyped, RerunTyped, DecideTyped DEF Outside
  <2> QED
    BY <2>1, <2>2, SameExecutors
<1>7. CASE FillDisk \/ FreeDisk
  <2>1. exe' = exe
    BY <1>7 DEF FillDisk, FreeDisk
  <2>2. TypeOK'
    BY <1>7, SpendTyped DEF FillDisk, FreeDisk, TypeOK, Catalog, Budgets
  <2> QED
    BY <2>1, <2>2, SameExecutors
<1>8. CASE UNCHANGED vars
  BY <1>8, SameExecutors DEF vars, TypeOK
<1> QED
  BY <1>1, <1>2, <1>3, <1>4, <1>5, <1>6, <1>7, <1>8 DEF Next

(* The types of the catalog, the directories and the executors' memories.   *)
THEOREM JobsTypeCorrect == Spec => []TypeOK
<1>1. Init => Typed
  BY InitTyped DEF Init, Typed, HasJob, Off, Working, Before, Settling
<1>2. Typed /\ [Next]_vars => Typed'
  BY TypedStep
<1>3. Typed => TypeOK
  BY DEF Typed
<1> QED
  BY <1>1, <1>2, <1>3, PTL DEF Spec

-----------------------------------------------------------------------------
(* What one executor keeps, whatever crashes, fails, is rerun or planned    *)
(* meanwhile.  The steps of everybody else are gentle: they leave the jobs  *)
(* that recovery looks for alone, start the count of the others again or    *)
(* keep it, and neither fail nor finish one.                                *)

(* What IInv says of one job. *)
Recorded(j) == j \notin Merges \cup References /\ Is(j, {"succeeded"}) => row[j].result = product[j] /\ Built(j)
Agrees(j)   == (Is(j, {"failed"}) => j \in alarm) /\ (Is(j, {"succeeded"}) => j \notin alarm)
Kept(j)     == JobHeld(j) /\ Recorded(j) /\ Agrees(j)

LEMMA IInvParts == IInv <=> TypeOK /\ (\A j \in Job : Kept(j)) /\ (\A p \in Executors : ExecutorHeld(p))
  BY DEF IInv, Kept, Recorded, Agrees, ResultRecorded, AlarmsAgree

LEMMA IInvPartsNext == TypeOK' /\ (\A j \in Job : Kept(j)') /\ (\A p \in Executors : ExecutorHeld(p)') => IInv'
  BY DEF IInv, Kept, Recorded, Agrees, ResultRecorded, AlarmsAgree

LEMMA IInvTyped == IInv => Typed
  BY DEF IInv, ExecutorHeld, Typed, HasJob

LEMMA Fields ==
  ASSUME TypeOK, NEW j \in Job
  PROVE /\ row[j].status \in Statuses /\ row[j].attempts \in Nat
        /\ past[j].fails \in Nat /\ past[j].finished \in BOOLEAN
  BY DEF TypeOK, Rows, Pasts

-----------------------------------------------------------------------------
(* A gentle step. *)

Gentle(j) ==
    /\ row'[j].status \in Statuses
    /\ Is(j, Interrupted) => /\ row'[j].status = row[j].status /\ row'[j].attempts = row[j].attempts
                             /\ past'[j] = past[j] /\ work'[j] = work[j]
    /\ j \in intent <=> j \in intent'
    /\ product'[j] = product[j]
    /\ \/ past'[j].fails = 0 /\ past'[j].finished = FALSE
       \/ /\ past'[j].fails = past[j].fails /\ past'[j].finished = past[j].finished
          /\ row'[j].attempts = row[j].attempts
          /\ row[j].status = "failed" => row'[j].status = "failed"
    /\ row'[j].status = "failed" => row[j].status = "failed" /\ (j \in alarm => j \in alarm')
    /\ row'[j].status = "succeeded" => row[j].status = "succeeded" /\ row'[j].result = row[j].result
    /\ j \in alarm' => j \in alarm

LEMMA GentleKeeps ==
  ASSUME MaxAttempts # 0, TypeOK, TypeOK', NEW j \in Job, Kept(j), Gentle(j)
  PROVE Kept(j)'
<1>1. /\ row[j].attempts \in Nat /\ past[j].fails \in Nat /\ past[j].finished \in BOOLEAN
      /\ row'[j].attempts \in Nat /\ past'[j].fails \in Nat /\ past'[j].finished \in BOOLEAN
      /\ MaxAttempts \in Nat
  BY Assumed DEF TypeOK, Rows, Pasts
<1>2. JobHeld(j)'
  BY <1>1 DEF Kept, JobHeld, Gentle, Is, Interrupted
<1>3. Recorded(j)'
  BY DEF Kept, Recorded, Gentle, Is, Built
<1>4. Agrees(j)'
  BY DEF Kept, Agrees, Gentle, Is
<1> QED
  BY <1>2, <1>3, <1>4 DEF Kept

LEMMA GentleHeld ==
  ASSUME MaxAttempts # 0, TypeOK, TypeOK', NEW p \in Executors, ExecutorHeld(p), exe' = exe,
         \A j \in Job : Gentle(j)
  PROVE ExecutorHeld(p)'
<1> DEFINE e == exe[p]
<1>1. /\ e.attempts \in Nat /\ e.todo \subseteq Job /\ MaxAttempts \in Nat
  BY Assumed DEF TypeOK, Memories
<1>2. CASE e.pc \in Working
  <2>1. e.job \in Job
    BY <1>2 DEF ExecutorHeld
  <2>2. Gentle(e.job)
    BY <2>1
  <2>3. /\ row[e.job].attempts \in Nat /\ past[e.job].fails \in Nat /\ past[e.job].finished \in BOOLEAN
        /\ row'[e.job].attempts \in Nat /\ past'[e.job].fails \in Nat /\ past'[e.job].finished \in BOOLEAN
    BY <2>1 DEF TypeOK, Rows, Pasts
  <2>4. Chosen(p)'
    BY <2>2, <2>3 DEF ExecutorHeld, Chosen, Gentle
  <2>5. e.pc \in Busy => Is(e.job, Interrupted)
    BY DEF ExecutorHeld
  <2>6. Counted(p)'
    BY <1>1, <2>2, <2>3, <2>5 DEF ExecutorHeld, Counted, Gentle, Busy, Before, Settling
  <2>7. \A j \in e.todo : Is(j, Interrupted)' /\ j # e.job
    BY <1>1 DEF ExecutorHeld, Gentle, Is
  <2>8. e.pc \in Busy => Is(e.job, Interrupted)' /\ work'[e.job] = work[e.job]
    BY <2>2, <2>5 DEF Gentle, Is
  <2> QED
    BY <2>1, <2>2, <2>4, <2>6, <2>7, <2>8 DEF ExecutorHeld, Gentle, Busy, Settling
<1>3. CASE e.pc \notin Working
  <2>1. \A j \in e.todo : Is(j, Interrupted)' /\ j # e.job
    BY <1>1 DEF ExecutorHeld, Gentle, Is
  <2> QED
    BY <1>3, <2>1 DEF ExecutorHeld, Chosen, Counted, Working, Before, Settling, Busy
<1> QED
  BY <1>2, <1>3

(* A step that leaves a job alone is gentle to it. *)
Untouched(j) ==
    /\ row'[j] = row[j] /\ past'[j] = past[j] /\ work'[j] = work[j] /\ product'[j] = product[j]
    /\ j \in intent <=> j \in intent'
    /\ j \in alarm <=> j \in alarm'

LEMMA UntouchedGentle == ASSUME TypeOK, NEW j \in Job, Untouched(j) PROVE Gentle(j)
  BY Fields DEF Untouched, Gentle

-----------------------------------------------------------------------------
(* The steps of everybody else. *)

(* A plan takes over the dead rows of its jobs, and the waiting rows that it *)
(* supersedes.                                                               *)
LEMMA InsertGentle ==
  ASSUME TypeOK, \A j \in Job : JobHeld(j), NEW P \in SUBSET Job, row' = Insert(P), Forget(row, row'),
         UNCHANGED <<intent, product, alarm, work>>, NEW j \in Job
  PROVE Gentle(j)
<1> DEFINE new == {h \in P : Existing(h) = {}}
           again == {k \in UNION {Existing(h) : h \in P} : Is(k, DEAD)}
           old == Superseded(new)
<1>1. row'[j] = IF j \in new THEN NewRow
                ELSE IF j \in again THEN Requeue(row[j])
                ELSE IF j \in old THEN [row[j] EXCEPT !.status = "superseded"]
                ELSE row[j]
  BY DEF Insert
<1>2. past'[j] = IF row[j].status \notin ACTIVE /\ row'[j].status = "queued"
                 THEN [past[j] EXCEPT !.fails = 0, !.finished = FALSE] ELSE past[j]
  BY DEF Forget
<1>3. row[j] \in Rows /\ past[j] \in Pasts
  BY DEF TypeOK
<1>4. ASSUME row[j].status \notin ACTIVE, row'[j].status = "queued"
      PROVE past'[j].fails = 0 /\ past'[j].finished = FALSE
  BY <1>2, <1>3, <1>4 DEF Pasts
<1>5. CASE j \in new
  <2>1. row[j].status = "absent"
    BY <1>5 DEF Existing, Known, Absent
  <2>2. row'[j].status = "queued"
    BY <1>1, <1>5, NewRowTyped
  <2> QED
    BY <1>4, <2>1, <2>2 DEF Gentle, Is, Interrupted, ACTIVE, Waiting, Statuses
<1>6. CASE j \notin new /\ j \in again
  <2>1. row[j].status \in DEAD
    BY <1>6 DEF Is
  <2>2. row'[j].status = "queued"
    BY <1>1, <1>3, <1>6 DEF Requeue, Rows
  <2> QED
    BY <1>4, <2>1, <2>2 DEF Gentle, Is, Interrupted, ACTIVE, Waiting, Statuses, DEAD
<1>7. CASE j \notin new /\ j \notin again /\ j \in old
  <2>1. row[j].status \in Waiting \cup {"blocked"}
    BY <1>7 DEF Superseded, Is
  <2>2. row'[j].status = "superseded" /\ row'[j].attempts = row[j].attempts
    BY <1>1, <1>3, <1>7 DEF Rows
  <2>3. past'[j] = past[j]
    BY <1>2, <2>2
  <2> QED
    BY <2>1, <2>2, <2>3 DEF Gentle, Is, Interrupted, Waiting, Statuses, DEAD
<1>8. CASE row'[j] = row[j]
  <2>1. past'[j] = past[j]
    BY <1>2, <1>8 DEF ACTIVE, Waiting
  <2> QED
    BY <1>8, <2>1, UntouchedGentle DEF Untouched
<1> QED
  BY <1>1, <1>5, <1>6, <1>7, <1>8

(* A waiting or blocked row may change its status, unless to an end that     *)
(* an executor settles.                                                      *)
LEMMA MovedGentle ==
  ASSUME TypeOK, NEW j \in Job, row[j].status \in Waiting \cup {"blocked"},
         row'[j].status \in Statuses \ {"failed", "succeeded"}, row'[j].attempts = row[j].attempts,
         UNCHANGED <<intent, product, alarm, work, past>>
  PROVE Gentle(j)
  BY DEF Gentle, Is, Interrupted, Waiting

LEMMA OutsideGentle ==
  ASSUME TypeOK, NEW k \in Job, Outside(k), NEW j \in Job
  PROVE Gentle(j)
<1>0. row[k] \in Rows /\ row[j] \in Rows /\ past[k] \in Pasts /\ row[j].status \in Statuses
  BY DEF TypeOK, Rows
<1>1. CASE Elapse(k)
  <2>1. row'[j].status = row[j].status /\ row'[j].attempts = row[j].attempts /\ row'[j].result = row[j].result
    BY <1>0, <1>1 DEF Elapse, TypeOK, Rows
  <2> QED
    BY <1>0, <1>1, <2>1 DEF Elapse, Gentle
<1>2. CASE Return(k) \/ Lose(k)
  BY <1>2, UntouchedGentle DEF Return, Lose, Untouched, Catalog
<1>3. CASE PollRestore(k)
  <2>1. CASE row' = row
    BY <1>3, <2>1, UntouchedGentle DEF PollRestore, Untouched
  <2>2. CASE row' = [row EXCEPT ![k].status = "queued"] /\ Is(k, {"waiting_data"})
    <3>1. CASE j = k
      <4>1. row'[j].status = "queued" /\ row'[j].attempts = row[j].attempts
        BY <1>0, <2>2, <3>1 DEF TypeOK, Rows
      <4> QED
        BY <1>3, <2>2, <3>1, <4>1, MovedGentle DEF PollRestore, Is, Waiting, Statuses, ACTIVE
    <3>2. CASE j # k
      BY <1>3, <2>2, <3>2, UntouchedGentle DEF PollRestore, Untouched, TypeOK
    <3> QED
      BY <3>1, <3>2
  <2> QED
    BY <1>3, <2>1, <2>2 DEF PollRestore
<1>4. CASE Rerun(k)
  <2>1. CASE j = k
    <3>1. row'[k] = Requeue(row[k]) /\ past'[k] = [past[k] EXCEPT !.fails = 0, !.finished = FALSE]
      BY <1>4 DEF Rerun, TypeOK
    <3>2. row'[k].status = "queued" /\ past'[k].fails = 0 /\ past'[k].finished = FALSE
      BY <1>0, <3>1 DEF Requeue, Rows, Pasts
    <3> QED
      BY <1>4, <2>1, <3>2 DEF Rerun, Resolve, Gentle, Is, Interrupted, Statuses, ACTIVE, Waiting
  <2>2. CASE j # k
    BY <1>4, <2>2, UntouchedGentle DEF Rerun, Resolve, Untouched, TypeOK
  <2> QED
    BY <2>1, <2>2
<1>5. CASE Cleanup(k)
  <2>1. CASE j = k
    BY <1>0, <1>5, <2>1 DEF Cleanup, InUse, Catalog, Gentle, Is, Interrupted, ACTIVE
  <2>2. CASE j # k
    BY <1>5, <2>2, UntouchedGentle DEF Cleanup, Catalog, Untouched, TypeOK
  <2> QED
    BY <2>1, <2>2
<1>6. CASE \E d \in {"approved", "denied"}, local \in BOOLEAN : Decide(k, d, local)
  <2>1. PICK d \in {"approved", "denied"}, local \in BOOLEAN : Decide(k, d, local)
    BY <1>6
  <2>2. CASE row' = row
    BY <2>1, <2>2, UntouchedGentle DEF Decide, Untouched
  <2>3. CASE row' = [row EXCEPT ![k].status = IF d = "approved" THEN "queued" ELSE "skipped"] /\ Is(k, {"waiting_data"})
    <3>1. CASE j = k
      <4>1. row'[j].status \in {"queued", "skipped"} /\ row'[j].attempts = row[j].attempts
        BY <1>0, <2>3, <3>1 DEF TypeOK, Rows
      <4> QED
        BY <2>1, <2>3, <3>1, <4>1, MovedGentle DEF Decide, Is, Waiting, Statuses, ACTIVE, DEAD
    <3>2. CASE j # k
      BY <2>1, <2>3, <3>2, UntouchedGentle DEF Decide, Untouched, TypeOK
    <3> QED
      BY <3>1, <3>2
  <2> QED
    BY <2>1, <2>2, <2>3 DEF Decide
<1> QED
  BY <1>1, <1>2, <1>3, <1>4, <1>5, <1>6 DEF Outside

LEMMA DiskGentle == ASSUME TypeOK, FillDisk \/ FreeDisk, NEW j \in Job PROVE Gentle(j)
  BY UntouchedGentle DEF FillDisk, FreeDisk, Catalog, Untouched

(* candidates blocks and unblocks. *)
LEMMA ChooseGentle == ASSUME TypeOK, NEW p \in Executors, Choose(p), NEW j \in Job PROVE Gentle(j)
<1>0. row[j] \in Rows /\ row[j].status \in Statuses
  BY DEF TypeOK, Rows
<1>1. row'[j] = [row[j] EXCEPT !.status = Sorted(j)]
  BY DEF Choose
<1>2. row'[j].status = Sorted(j) /\ row'[j].attempts = row[j].attempts /\ row'[j].result = row[j].result
  BY <1>0, <1>1 DEF Rows
<1>3. CASE row[j].status \in Waiting \cup {"blocked"}
  <2>1. Sorted(j) \in Statuses \ {"failed", "succeeded"}
    BY <1>0, <1>3 DEF Sorted, Statuses, ACTIVE, Waiting, DEAD
  <2> QED
    BY <1>2, <1>3, <2>1, MovedGentle DEF Choose
<1>4. CASE row[j].status \notin Waiting \cup {"blocked"}
  <2>1. Sorted(j) = row[j].status
    BY <1>4 DEF Sorted, Unblocked, Is
  <2> QED
    BY <1>0, <1>2, <2>1 DEF Choose, Gentle
<1> QED
  BY <1>3, <1>4

-----------------------------------------------------------------------------
(* The steps of the executor, which touch the job it holds.                  *)

LEMMA OthersKept ==
  ASSUME MaxAttempts # 0, IInv, TypeOK', NEW j \in Job, Kept(j)', \A k \in Job \ {j} : Untouched(k)
  PROVE \A k \in Job : Kept(k)'
<1>1. TypeOK /\ \A k \in Job : Kept(k)
  BY IInvParts
<1> QED
  BY <1>1, UntouchedGentle, GentleKeeps

LEMMA AllKept ==
  ASSUME MaxAttempts # 0, IInv, TypeOK', \A k \in Job : Gentle(k)
  PROVE \A k \in Job : Kept(k)'
<1>1. TypeOK /\ \A k \in Job : Kept(k)
  BY IInvParts
<1> QED
  BY <1>1, GentleKeeps

(* An executor between two jobs. *)
LEMMA BetweenHeld ==
  ASSUME NEW p \in Executors, exe'[p].pc \notin Working,
         \A j \in exe'[p].todo : Is(j, Interrupted)' /\ j # exe'[p].job
  PROVE ExecutorHeld(p)'
  BY DEF ExecutorHeld, Chosen, Counted, Working, Before, Settling, Busy

LEMMA GotoFields ==
  ASSUME TypeOK, NEW p \in Executors, NEW s \in Steps, Goto(p, s)
  PROVE /\ exe'[p].pc = s /\ exe'[p].job = exe[p].job /\ exe'[p].attempts = exe[p].attempts
        /\ exe'[p].out = exe[p].out /\ exe'[p].todo = exe[p].todo /\ exe'[p].recovers = exe[p].recovers
<1>1. exe'[p] = [exe[p] EXCEPT !.pc = s] /\ exe[p] \in Memories
  BY GotoTyped DEF TypeOK
<1> QED
  BY <1>1 DEF Memories

LEMMA LeaveHeld ==
  ASSUME TypeOK, NEW p \in Executors, ExecutorHeld(p), NEW tried \in SUBSET Job, Leave(p, tried),
         \A k \in Job \ {exe[p].job} : row'[k] = row[k]
  PROVE ExecutorHeld(p)'
<1>1. exe'[p].pc \in {"recover", "choose"} /\ exe'[p].todo = exe[p].todo /\ exe'[p].job = None
  BY LeaveTyped
<1>2. exe[p].todo \subseteq Job
  BY DEF TypeOK, Memories
<1>3. \A j \in exe[p].todo : Is(j, Interrupted)' /\ j # None
  BY <1>2, Assumed DEF ExecutorHeld, Is
<1> QED
  BY <1>1, <1>3, BetweenHeld DEF Working, Before, Settling

LEMMA PassEndsHeld == ASSUME TypeOK, NEW p \in Executors, PassEnds(p) PROVE ExecutorHeld(p)'
<1>1. exe'[p].pc \in {"idle", "off"} /\ exe'[p].todo = {}
  BY PassEndsTyped
<1> QED
  BY <1>1, BetweenHeld DEF Working, Before, Settling

(* The rest of the jobs to recover are as they were. *)
LEMMA TodoHeld ==
  ASSUME TypeOK, NEW p \in Executors, ExecutorHeld(p), \A k \in Job \ {exe[p].job} : row'[k] = row[k]
  PROVE \A j \in exe[p].todo : Is(j, Interrupted)' /\ j # exe[p].job
<1>1. exe[p].todo \subseteq Job
  BY DEF TypeOK, Memories
<1> QED
  BY <1>1 DEF ExecutorHeld, Is

(* What is known of the job an executor works on. *)
LEMMA Own ==
  ASSUME IInv, TypeOK', NEW p \in Executors, exe[p].pc \in Working
  PROVE /\ TypeOK /\ ExecutorHeld(p) /\ exe[p].job \in Job /\ Kept(exe[p].job)
        /\ row[exe[p].job] \in Rows /\ past[exe[p].job] \in Pasts
        /\ row'[exe[p].job] \in Rows /\ past'[exe[p].job] \in Pasts
        /\ exe[p].attempts \in Nat /\ exe[p].out \in Outputs /\ MaxAttempts \in Nat
        /\ row[exe[p].job].attempts \in Nat
        /\ past[exe[p].job].fails \in Nat /\ past[exe[p].job].finished \in BOOLEAN
<1>1. TypeOK /\ ExecutorHeld(p) /\ exe[p].job \in Job /\ Kept(exe[p].job)
  BY IInvParts DEF ExecutorHeld
<1> QED
  BY <1>1, Assumed DEF TypeOK, Rows, Pasts, Memories

LEMMA StartHeld == ASSUME IInv, NEW p \in Executors, Start(p) PROVE ExecutorHeld(p)'
<1>1. exe'[p] = [Off EXCEPT !.pc = "recover", !.todo = {j \in Job : Is(j, Interrupted)}]
  BY DEF Start, IInv, TypeOK
<1>2. exe'[p].pc = "recover" /\ exe'[p].job = None /\ exe'[p].todo = {j \in Job : Is(j, Interrupted)}
  BY <1>1 DEF Off
<1>3. row' = row
  BY DEF Start, Catalog
<1> QED
  BY <1>2, <1>3, Assumed, BetweenHeld DEF Working, Before, Settling, Is

LEMMA RecoverHeld ==
  ASSUME MaxAttempts # 0, IInv, TypeOK', NEW p \in Executors, Recover(p)
  PROVE (\A k \in Job : Kept(k)') /\ ExecutorHeld(p)'
<1>1. TypeOK /\ ExecutorHeld(p) /\ exe[p] \in Memories /\ \A k \in Job : Kept(k)
  BY IInvParts DEF TypeOK
<1>2. exe[p].todo \subseteq Job /\ \A j \in exe[p].todo : Is(j, Interrupted)
  BY <1>1 DEF Memories, ExecutorHeld
<1>3. CASE \E j \in exe[p].todo : Republish(p, j)
  <2>1. PICK j \in exe[p].todo : Republish(p, j)
    BY <1>3
  <2>2. exe'[p] = [exe[p] EXCEPT !.pc = "intend", !.job = j, !.out = work[j], !.todo = exe[p].todo \ {j}, !.recovers = TRUE]
    BY <1>1, <2>1 DEF Republish, TypeOK
  <2>3. /\ exe'[p].pc = "intend" /\ exe'[p].job = j /\ exe'[p].out = work[j]
        /\ exe'[p].todo = exe[p].todo \ {j} /\ exe'[p].recovers = TRUE
    BY <1>1, <2>2 DEF Memories
  <2>4. row' = row /\ work' = work /\ past' = past /\ \A k \in Job : Untouched(k)
    BY <2>1, <1>3 DEF Republish, Recover, Untouched
  <2>5. ExecutorHeld(p)'
    BY <1>2, <2>1, <2>3, <2>4 DEF ExecutorHeld, Chosen, Counted, Working, Busy, Before, Settling, Republish, HasResult, Is
  <2> QED
    BY <1>1, <2>4, <2>5, UntouchedGentle, AllKept
<1>4. CASE \E j \in exe[p].todo : RunAgain(p, j)
  <2>1. PICK j \in exe[p].todo : RunAgain(p, j)
    BY <1>4
  <2>2. j \in Job /\ Is(j, Interrupted) /\ Kept(j)
    BY <1>1, <1>2
  <2>3. exe'[p] = [exe[p] EXCEPT !.todo = exe[p].todo \ {j}]
    BY <1>1, <2>1 DEF RunAgain, TypeOK
  <2>4. exe'[p].pc = "recover" /\ exe'[p].job = exe[p].job /\ exe'[p].todo = exe[p].todo \ {j}
    BY <1>1, <2>3 DEF Memories, Recover
  <2>5. row'[j].status = "queued" /\ row'[j].attempts = row[j].attempts
    BY <1>1, <2>1, <2>2 DEF RunAgain, TypeOK, Rows
  <2>6. \A k \in Job \ {j} : Untouched(k)
    BY <1>1, <2>1 DEF RunAgain, Recover, Untouched, TypeOK
  <2>7. past'[j] = past[j] /\ work' = work
    BY DEF Recover
  <2>8. JobHeld(j)'
    BY <2>1, <2>2, <2>5, <2>7 DEF Kept, JobHeld, Is, Interrupted, RunAgain, HasResult
  <2>9. Kept(j)'
    BY <2>5, <2>8 DEF Kept, Recorded, Agrees, Is
  <2>10. \A k \in exe[p].todo \ {j} : Is(k, Interrupted)'
    BY <1>2, <2>6 DEF Untouched, Is
  <2>11. ExecutorHeld(p)'
    BY <1>1, <2>4, <2>10, BetweenHeld DEF Working, Before, Settling, ExecutorHeld
  <2> QED
    BY <2>2, <2>6, <2>9, <2>11, OthersKept
<1>5. CASE /\ exe' = [exe EXCEPT ![p] = [Off EXCEPT !.pc = IF p \in Daemons THEN "idle" ELSE "choose"]]
           /\ UNCHANGED <<row, intent>>
  <2>1. exe'[p] = [Off EXCEPT !.pc = IF p \in Daemons THEN "idle" ELSE "choose"]
    BY <1>1, <1>5 DEF TypeOK
  <2>2. exe'[p].pc \in {"idle", "choose"} /\ exe'[p].todo = {}
    BY <2>1 DEF Off
  <2>3. \A k \in Job : Untouched(k)
    BY <1>5 DEF Recover, Untouched
  <2> QED
    BY <1>1, <2>2, <2>3, UntouchedGentle, AllKept, BetweenHeld DEF Working, Before, Settling
<1> QED
  BY <1>3, <1>4, <1>5 DEF Recover

LEMMA ChooseHeld ==
  ASSUME MaxAttempts # 0, IInv, TypeOK', NEW p \in Executors, Choose(p)
  PROVE (\A k \in Job : Kept(k)') /\ ExecutorHeld(p)'
<1>1. TypeOK /\ ExecutorHeld(p) /\ exe[p] \in Memories /\ \A k \in Job : Kept(k)
  BY IInvParts DEF TypeOK
<1>2. \A k \in Job : Kept(k)'
  BY <1>1, ChooseGentle, AllKept
<1>3. CASE \E j \in Candidates(p) : exe' = [exe EXCEPT ![p] = [@ EXCEPT !.pc = "begin", !.job = j, !.attempts = row[j].attempts]]
  <2>1. PICK j \in Candidates(p) : exe' = [exe EXCEPT ![p] = [@ EXCEPT !.pc = "begin", !.job = j, !.attempts = row[j].attempts]]
    BY <1>3
  <2>2. exe'[p] = [exe[p] EXCEPT !.pc = "begin", !.job = j, !.attempts = row[j].attempts]
    BY <1>1, <2>1 DEF TypeOK
  <2>3. exe'[p].pc = "begin" /\ exe'[p].job = j /\ exe'[p].attempts = row[j].attempts /\ exe'[p].todo = exe[p].todo
    BY <1>1, <2>2 DEF Memories
  <2>4. j \in Job /\ row[j].status \in Waiting \cup {"blocked"}
    BY DEF Candidates, Sorted, Unblocked, Is, Waiting
  <2>5. past' = past
    BY DEF Choose
  <2>6. JobHeld(j)
    BY <1>1, <2>4 DEF Kept
  <2>7. past[j].fails \in Nat /\ MaxAttempts \in Nat /\ row[j].attempts \in Nat
    BY <1>1, <2>4, Assumed DEF TypeOK, Rows, Pasts
  <2>8. past[j].fails < MaxAttempts /\ past[j].fails <= row[j].attempts /\ (j \notin Merges => ~past[j].finished)
    BY <2>4, <2>6, <2>7 DEF JobHeld, Is, Waiting, Interrupted
  <2>9. \A k \in exe[p].todo : k \in Job /\ Is(k, Interrupted)
    BY <1>1 DEF Memories, ExecutorHeld
  <2>10. \A k \in exe[p].todo : Is(k, Interrupted)' /\ k # j
    BY <1>1, <2>4, <2>9, ChooseGentle DEF Gentle, Is, Interrupted, Waiting
  <2> QED
    BY <1>2, <2>3, <2>4, <2>5, <2>8, <2>10 DEF ExecutorHeld, Chosen, Counted, Working, Busy, Before, Settling
<1>4. CASE PassEnds(p)
  BY <1>1, <1>2, <1>4, PassEndsHeld
<1> QED
  BY <1>3, <1>4 DEF Choose

LEMMA TickHeld ==
  ASSUME IInv, NEW p \in Executors, Tick(p)
  PROVE ExecutorHeld(p)'
<1>1. TypeOK /\ ExecutorHeld(p)
  BY IInvParts
<1>2. exe'[p].pc = "choose" /\ exe'[p].job = exe[p].job /\ exe'[p].todo = exe[p].todo /\ row' = row
  BY <1>1, GotoFields DEF Tick, Steps, Catalog
<1> QED
  BY <1>1, <1>2, BetweenHeld DEF ExecutorHeld, Working, Before, Settling, Is

LEMMA BeginHeld ==
  ASSUME MaxAttempts # 0, IInv, TypeOK', NEW p \in Executors, NEW j \in Job, j = exe[p].job, Begin(p)
  PROVE (\A k \in Job : Kept(k)') /\ ExecutorHeld(p)'
<1>0. exe[p].pc \in Working /\ exe[p].pc = "begin"
  BY DEF Begin, Working, Before
<1>1. /\ TypeOK /\ ExecutorHeld(p) /\ j \in Job /\ Kept(j) /\ row[j] \in Rows
      /\ MaxAttempts \in Nat /\ past[j].fails \in Nat /\ past[j].finished \in BOOLEAN
  BY <1>0, Own
<1>2. /\ exe'[p].pc = "stage" /\ exe'[p].job = j /\ exe'[p].attempts = exe[p].attempts
      /\ exe'[p].todo = exe[p].todo
  BY <1>1, GotoFields DEF Begin, Steps
<1>3. row'[j].status = "staging" /\ row'[j].attempts = row[j].attempts
  BY <1>1 DEF Begin, TypeOK, Rows
<1>4. \A k \in Job \ {j} : Untouched(k)
  BY <1>1 DEF Begin, Untouched, TypeOK
<1>5. (j \notin Merges => ~past[j].finished) /\ past[j].fails < MaxAttempts /\ past[j].fails <= exe[p].attempts
  BY <1>0, <1>1 DEF ExecutorHeld, Chosen, Counted, Before
<1>6. Kept(j)'
  BY <1>1, <1>3, <1>5 DEF Kept, JobHeld, Recorded, Agrees, Is, Begin
<1>7. \A k \in exe[p].todo : Is(k, Interrupted)' /\ k # j
  BY <1>1, <1>4, TodoHeld DEF Untouched
<1>8. ExecutorHeld(p)'
  BY <1>1, <1>2, <1>3, <1>5, <1>7 DEF Begin, ExecutorHeld, Chosen, Counted, Working, Busy, Before, Settling, Is, Interrupted
<1> QED
  BY <1>1, <1>4, <1>6, <1>8, OthersKept

LEMMA WaitFields ==
  ASSUME NEW r \in Rows
  PROVE /\ Wait(r).status = "waiting_data" /\ Wait(r).attempts = r.attempts
        /\ [Wait(r) EXCEPT !.resolved = TRUE].status = "waiting_data"
        /\ [Wait(r) EXCEPT !.resolved = TRUE].attempts = r.attempts
  BY DEF Wait, Rows

(* A job that is queued, waits or goes on keeps its count, and has no finished run. *)
LEMMA OwnKept ==
  ASSUME IInv, TypeOK', NEW p \in Executors, NEW j \in Job, j = exe[p].job, exe[p].pc \in Busy,
         row'[j].status \in {"queued", "waiting_data", "staging", "running"},
         row'[j].attempts = row[j].attempts,
         past'[j].fails = past[j].fails,
         j \in Merges \/ ~past'[j].finished
  PROVE Kept(j)'
<1>0. exe[p].pc \in Working
  BY DEF Busy, Working
<1>1. Kept(j) /\ ExecutorHeld(p) /\ MaxAttempts \in Nat /\ past[j].fails \in Nat
  BY <1>0, Own
<1>2. Is(j, Interrupted)
  BY <1>1 DEF ExecutorHeld
<1>3. JobHeld(j)'
  BY <1>1, <1>2 DEF Kept, JobHeld, Is, Interrupted
<1>4. Recorded(j)' /\ Agrees(j)'
  BY DEF Recorded, Agrees, Is
<1> QED
  BY <1>3, <1>4 DEF Kept

LEMMA StageHeld ==
  ASSUME MaxAttempts # 0, IInv, TypeOK', NEW p \in Executors, NEW j \in Job, j = exe[p].job, Stage(p)
  PROVE (\A k \in Job : Kept(k)') /\ ExecutorHeld(p)'
<1>0. exe[p].pc \in Working /\ exe[p].pc \in Busy /\ exe[p].pc = "stage"
  BY DEF Stage, Working, Busy, Before
<1>1. /\ TypeOK /\ ExecutorHeld(p) /\ j \in Job /\ row[j] \in Rows /\ past[j].finished \in BOOLEAN
  BY <1>0, Own
<1>2. \A k \in Job \ {j} : Untouched(k)
  BY <1>1 DEF Stage, Untouched, TypeOK
<1>3. (j \notin Merges => ~past[j].finished) /\ Is(j, Interrupted) /\ past[j].fails <= exe[p].attempts
  BY <1>0, <1>1 DEF ExecutorHeld, Chosen, Counted, Before
<1>4. past' = past
  BY DEF Stage
<1>5. CASE row' = [row EXCEPT ![j].resolved = TRUE] /\ Goto(p, "clear")
  <2>1. row'[j].status = row[j].status /\ row'[j].attempts = row[j].attempts
    BY <1>1, <1>5 DEF TypeOK, Rows
  <2>2. Kept(j)'
    BY <1>0, <1>3, <1>4, <2>1, OwnKept DEF Is, Interrupted
  <2>3. /\ exe'[p].pc = "clear" /\ exe'[p].job = j /\ exe'[p].attempts = exe[p].attempts /\ exe'[p].todo = exe[p].todo
    BY <1>1, <1>5, GotoFields DEF Steps
  <2>4. \A k \in exe[p].todo : Is(k, Interrupted)' /\ k # j
    BY <1>1, <1>2, TodoHeld DEF Untouched
  <2>5. ExecutorHeld(p)'
    BY <1>1, <1>3, <1>4, <2>1, <2>3, <2>4 DEF ExecutorHeld, Chosen, Counted, Working, Busy, Before, Settling, Is
  <2> QED
    BY <1>1, <1>2, <2>2, <2>5, OthersKept
<1>6. CASE row'[j] \in {Wait(row[j]), [Wait(row[j]) EXCEPT !.resolved = TRUE]} /\ Leave(p, {j})
  <2>1. row'[j].status = "waiting_data" /\ row'[j].attempts = row[j].attempts
    BY <1>1, <1>6, WaitFields
  <2>2. Kept(j)'
    BY <1>0, <1>3, <1>4, <2>1, OwnKept
  <2>3. ExecutorHeld(p)'
    BY <1>1, <1>2, <1>6, LeaveHeld DEF Untouched
  <2> QED
    BY <1>1, <1>2, <2>2, <2>3, OthersKept
<1>7. CASE row' = [row EXCEPT ![j] = Wait(@)] /\ Leave(p, {j})
  BY <1>1, <1>6, <1>7 DEF TypeOK
<1>8. CASE row' = [row EXCEPT ![j] = [Wait(@) EXCEPT !.resolved = TRUE]] /\ Leave(p, {j})
  BY <1>1, <1>6, <1>8 DEF TypeOK
<1> QED
  BY <1>5, <1>7, <1>8 DEF Stage

LEMMA ClearHeld ==
  ASSUME MaxAttempts # 0, IInv, TypeOK', NEW p \in Executors, NEW j \in Job, j = exe[p].job, Clear(p)
  PROVE (\A k \in Job : Kept(k)') /\ ExecutorHeld(p)'
<1>0. exe[p].pc \in Working /\ exe[p].pc \in Busy /\ exe[p].pc = "clear"
  BY DEF Clear, Working, Busy, Before
<1>1. /\ TypeOK /\ ExecutorHeld(p) /\ j \in Job /\ row[j] \in Rows /\ past[j].finished \in BOOLEAN
  BY <1>0, Own
<1>2. \A k \in Job \ {j} : Untouched(k)
  BY <1>1 DEF Clear, Untouched, TypeOK
<1>3. (j \notin Merges => ~past[j].finished) /\ Is(j, Interrupted) /\ past[j].fails <= exe[p].attempts
  BY <1>0, <1>1 DEF ExecutorHeld, Chosen, Counted, Before
<1>4. past' = past
  BY DEF Clear
<1>5. CASE row' = row /\ Goto(p, "launch")
  <2>1. Kept(j)'
    BY <1>0, <1>3, <1>4, <1>5, OwnKept DEF Is, Interrupted
  <2>2. /\ exe'[p].pc = "launch" /\ exe'[p].job = j /\ exe'[p].attempts = exe[p].attempts /\ exe'[p].todo = exe[p].todo
    BY <1>1, <1>5, GotoFields DEF Steps
  <2>3. \A k \in exe[p].todo : Is(k, Interrupted)' /\ k # j
    BY <1>1, <1>2, TodoHeld DEF Untouched
  <2>4. ExecutorHeld(p)'
    BY <1>1, <1>3, <1>4, <1>5, <2>2, <2>3 DEF ExecutorHeld, Chosen, Counted, Working, Busy, Before, Settling, Is
  <2> QED
    BY <1>1, <1>2, <2>1, <2>4, OthersKept
<1>6. CASE row' = [row EXCEPT ![j] = Wait(@)] /\ Leave(p, {j})
  <2>1. row'[j] = Wait(row[j])
    BY <1>1, <1>6 DEF TypeOK
  <2>2. row'[j].status = "waiting_data" /\ row'[j].attempts = row[j].attempts
    BY <1>1, <2>1, WaitFields
  <2>3. Kept(j)'
    BY <1>0, <1>3, <1>4, <2>2, OwnKept
  <2>4. ExecutorHeld(p)'
    BY <1>1, <1>2, <1>6, LeaveHeld DEF Untouched
  <2> QED
    BY <1>1, <1>2, <2>3, <2>4, OthersKept
<1> QED
  BY <1>5, <1>6 DEF Clear

LEMMA LaunchHeld ==
  ASSUME MaxAttempts # 0, IInv, TypeOK', NEW p \in Executors, NEW j \in Job, j = exe[p].job, Launch(p)
  PROVE (\A k \in Job : Kept(k)') /\ ExecutorHeld(p)'
<1>0. exe[p].pc \in Working /\ exe[p].pc \in Busy /\ exe[p].pc = "launch"
  BY DEF Launch, Working, Busy, Before
<1>1. /\ TypeOK /\ ExecutorHeld(p) /\ Kept(j) /\ row[j] \in Rows /\ past[j].finished \in BOOLEAN
      /\ exe[p].attempts \in Nat /\ MaxAttempts \in Nat /\ past[j].fails \in Nat
  BY <1>0, Own
<1>2. \A k \in Job \ {j} : Untouched(k)
  BY <1>1 DEF Launch, Untouched, TypeOK
<1>3. (j \notin Merges => ~past[j].finished) /\ Is(j, Interrupted) /\ past[j].fails <= exe[p].attempts
  BY <1>0, <1>1 DEF ExecutorHeld, Chosen, Counted, Before
<1>4. row'[j] = [row[j] EXCEPT !.status = "running", !.attempts = exe[p].attempts + 1]
  BY <1>1 DEF Launch, TypeOK
<1>5. row'[j].status = "running" /\ row'[j].attempts = exe[p].attempts + 1
  BY <1>1, <1>4 DEF Rows
<1>6. past' = past
  BY DEF Launch
<1>7. Kept(j)'
  BY <1>1, <1>3, <1>5, <1>6 DEF Kept, JobHeld, Recorded, Agrees, Is, Interrupted
<1>8. exe'[p].pc = "run" /\ exe'[p].job = j /\ exe'[p].todo = exe[p].todo
  BY <1>1, GotoFields DEF Launch, Steps
<1>9. \A k \in exe[p].todo : Is(k, Interrupted)' /\ k # j
  BY <1>1, <1>2, TodoHeld DEF Untouched
<1>10. past[j].fails < exe[p].attempts + 1
  BY <1>1, <1>3
<1>11. ExecutorHeld(p)'
  BY <1>3, <1>5, <1>6, <1>8, <1>9, <1>10 DEF ExecutorHeld, Chosen, Counted, Working, Busy, Before, Settling, Is, Interrupted
<1> QED
  BY <1>2, <1>7, <1>11, OthersKept

LEMMA PixInsightHeld ==
  ASSUME MaxAttempts # 0, IInv, TypeOK', NEW p \in Executors, NEW j \in Job, j = exe[p].job, PixInsight(p)
  PROVE (\A k \in Job : Kept(k)') /\ ExecutorHeld(p)'
<1>0. exe[p].pc \in Working /\ exe[p].pc \in Busy /\ exe[p].pc = "run"
  BY DEF PixInsight, Working, Busy, Before
<1>1. TypeOK /\ ExecutorHeld(p) /\ past[j] \in Pasts /\ past[j].fails \in Nat /\ row[j].attempts \in Nat
  BY <1>0, Own
<1>2. row' = row /\ \A k \in Job \ {j} : Untouched(k)
  BY <1>1 DEF PixInsight, Untouched, TypeOK, Catalog
<1>3. (j \notin Merges => ~past[j].finished) /\ Is(j, Interrupted) /\ past[j].fails < row[j].attempts
  BY <1>0, <1>1 DEF ExecutorHeld, Chosen, Counted, Before
<1>4. past'[j].fails = past[j].fails /\ past'[j].finished = past[j].finished
  BY <1>1 DEF PixInsight, TypeOK, Pasts
<1>5. Kept(j)'
  BY <1>0, <1>2, <1>3, <1>4, OwnKept DEF Is, Interrupted
<1>6. exe'[p].pc = "read" /\ exe'[p].job = j /\ exe'[p].todo = exe[p].todo
  BY <1>1, GotoFields DEF PixInsight, Steps
<1>7. \A k \in exe[p].todo : Is(k, Interrupted)' /\ k # j
  BY <1>1, <1>2, TodoHeld
<1>8. ExecutorHeld(p)'
  BY <1>2, <1>3, <1>4, <1>6, <1>7 DEF ExecutorHeld, Chosen, Counted, Working, Busy, Before, Settling, Is
<1> QED
  BY <1>2, <1>5, <1>8, OthersKept

(* A failure counts below the attempts, and the last one fails the job. *)
LEMMA FailHeld ==
  ASSUME MaxAttempts # 0, IInv, TypeOK', NEW p \in Executors, NEW j \in Job, j = exe[p].job, NEW retry \in BOOLEAN,
         exe[p].pc = "read" \/ (exe[p].pc = "publish" /\ ~exe[p].recovers), Fail(p, retry),
         UNCHANGED <<intent, product, work>>
  PROVE (\A k \in Job : Kept(k)') /\ ExecutorHeld(p)'
<1>0. exe[p].pc \in Working /\ exe[p].pc \in Busy
  BY DEF Working, Busy, Before, Settling
<1>1. /\ TypeOK /\ ExecutorHeld(p) /\ Kept(j) /\ row[j] \in Rows /\ past[j] \in Pasts
      /\ MaxAttempts \in Nat /\ past[j].fails \in Nat /\ row[j].attempts \in Nat
  BY <1>0, Own
<1>2. row'[j] = IF retry /\ Retries(j) THEN [row[j] EXCEPT !.status = "queued", !.held = TRUE]
                                      ELSE [row[j] EXCEPT !.status = "failed"]
  BY <1>1 DEF Fail, TypeOK
<1>3. /\ row'[j].status = (IF retry /\ Retries(j) THEN "queued" ELSE "failed")
      /\ row'[j].attempts = row[j].attempts
  BY <1>1, <1>2 DEF Rows
<1>4. past' = [past EXCEPT ![j].fails = @ + 1, ![j].finished = FALSE]
  BY DEF Fail
<1>5. past'[j].fails = past[j].fails + 1 /\ past'[j].finished = FALSE
  BY <1>1, <1>4 DEF TypeOK, Pasts
<1>6. \A k \in Job \ {j} : Untouched(k)
  BY <1>1, <1>4 DEF Fail, Untouched, TypeOK
<1>7. Is(j, Interrupted) /\ past[j].fails < row[j].attempts
  BY <1>0, <1>1 DEF ExecutorHeld, Counted
<1>8. past[j].fails < MaxAttempts
  BY <1>1, <1>7 DEF Kept, JobHeld, Is, Interrupted
<1>9. retry /\ Retries(j) => row[j].attempts < MaxAttempts
  BY DEF Retries
<1>10. JobHeld(j)'
  BY <1>1, <1>3, <1>5, <1>7, <1>8, <1>9 DEF JobHeld, Is
<1>11. row'[j].status = "failed" => j \in alarm'
  BY <1>3 DEF Fail
<1>12. Kept(j)'
  BY <1>3, <1>10, <1>11 DEF Kept, Recorded, Agrees, Is
<1>13. ExecutorHeld(p)'
  BY <1>1, <1>6, LeaveHeld DEF Fail, Untouched
<1> QED
  BY <1>6, <1>12, <1>13, OthersKept

LEMMA ReadHeld ==
  ASSUME MaxAttempts # 0, IInv, TypeOK', NEW p \in Executors, NEW j \in Job, j = exe[p].job, Read(p)
  PROVE (\A k \in Job : Kept(k)') /\ ExecutorHeld(p)'
<1>0. exe[p].pc \in Working /\ exe[p].pc = "read"
  BY DEF Read, Working, Before
<1>1. TypeOK /\ ExecutorHeld(p) /\ exe[p] \in Memories /\ \A k \in Job : Kept(k)
  BY IInvParts DEF TypeOK
<1>2. CASE \E retry \in BOOLEAN : Fail(p, retry)
  BY <1>0, <1>2, FailHeld DEF Read
<1>3. CASE /\ work[j] # 0 /\ exe' = [exe EXCEPT ![p] = [@ EXCEPT !.pc = "intend", !.out = work[exe[p].job]]]
           /\ UNCHANGED <<row, alarm, past>>
  <2>1. exe'[p] = [exe[p] EXCEPT !.pc = "intend", !.out = work[j]]
    BY <1>1, <1>3 DEF TypeOK
  <2>2. /\ exe'[p].pc = "intend" /\ exe'[p].job = j /\ exe'[p].out = work[j]
        /\ exe'[p].todo = exe[p].todo
    BY <1>1, <2>1 DEF Memories
  <2>3. \A k \in Job : Untouched(k)
    BY <1>3 DEF Read, Untouched
  <2>4. Is(j, Interrupted) /\ past[j].fails < row[j].attempts
    BY <1>0, <1>1 DEF ExecutorHeld, Counted, Busy, Before
  <2>5. \A k \in exe[p].todo : Is(k, Interrupted)' /\ k # j
    BY <1>1, <1>3, TodoHeld
  <2>6. ExecutorHeld(p)'
    BY <1>3, <2>2, <2>4, <2>5 DEF Read, ExecutorHeld, Chosen, Counted, Working, Busy, Before, Settling, Is
  <2> QED
    BY <1>1, <2>3, <2>6, UntouchedGentle, AllKept
<1> QED
  BY <1>2, <1>3 DEF Read

LEMMA IntendHeld ==
  ASSUME MaxAttempts # 0, IInv, TypeOK', NEW p \in Executors, NEW j \in Job, j = exe[p].job, Intend(p)
  PROVE (\A k \in Job : Kept(k)') /\ ExecutorHeld(p)'
<1>0. exe[p].pc \in Working /\ exe[p].pc \in Busy /\ exe[p].pc = "intend"
  BY DEF Intend, Working, Busy, Settling
<1>1. TypeOK /\ ExecutorHeld(p) /\ Kept(j) /\ past[j] \in Pasts /\ past[j].fails \in Nat
  BY <1>0, Own
<1>2. \A k \in Job \ {j} : Untouched(k)
  BY <1>1 DEF Intend, Untouched, TypeOK
<1>3. Is(j, Interrupted) /\ work[j] # 0 /\ exe[p].out # 0 /\ (~exe[p].recovers => past[j].fails < row[j].attempts)
  BY <1>0, <1>1 DEF ExecutorHeld, Counted, Settling
<1>4. past'[j].fails = past[j].fails /\ j \in intent' /\ row' = row /\ work' = work
  BY <1>1 DEF Intend, TypeOK, Pasts
<1>5. JobHeld(j)'
  BY <1>1, <1>3, <1>4 DEF Kept, JobHeld, Is
<1>6. Kept(j)'
  BY <1>1, <1>3, <1>4, <1>5 DEF Intend, Kept, Recorded, Agrees, Is, Interrupted
<1>7. /\ exe'[p].pc = "publish" /\ exe'[p].job = j /\ exe'[p].todo = exe[p].todo
      /\ exe'[p].out = exe[p].out /\ exe'[p].recovers = exe[p].recovers
  BY <1>1, GotoFields DEF Intend, Steps
<1>8. \A k \in exe[p].todo : Is(k, Interrupted)' /\ k # j
  BY <1>1, <1>4, TodoHeld
<1>9. ExecutorHeld(p)'
  BY <1>3, <1>4, <1>7, <1>8 DEF ExecutorHeld, Chosen, Counted, Working, Busy, Before, Settling, Is
<1> QED
  BY <1>2, <1>6, <1>9, OthersKept

LEMMA PublishHeld ==
  ASSUME MaxAttempts # 0, IInv, TypeOK', NEW p \in Executors, NEW j \in Job, j = exe[p].job, Publish(p)
  PROVE (\A k \in Job : Kept(k)') /\ ExecutorHeld(p)'
<1>0. exe[p].pc \in Working /\ exe[p].pc \in Busy /\ exe[p].pc = "publish"
  BY DEF Publish, Working, Busy, Settling
<1>1. TypeOK /\ ExecutorHeld(p) /\ Kept(j)
  BY <1>0, Own
<1>2. row' = row /\ past' = past /\ \A k \in Job \ {j} : Untouched(k)
  BY <1>1 DEF Publish, Untouched, TypeOK
<1>3. Is(j, Interrupted) /\ exe[p].out # 0
  BY <1>0, <1>1 DEF ExecutorHeld, Settling
<1>4. j \notin Merges \cup References => product'[j] = exe[p].out
  BY <1>1 DEF Publish, Keeps, TypeOK
<1>5. Kept(j)'
  BY <1>1, <1>2, <1>3 DEF Publish, Kept, JobHeld, Recorded, Agrees, Is, Interrupted
<1>6. exe'[p].pc = "follow" /\ exe'[p].job = j /\ exe'[p].todo = exe[p].todo /\ exe'[p].out = exe[p].out
  BY <1>1, GotoFields DEF Publish, Steps
<1>7. \A k \in exe[p].todo : Is(k, Interrupted)' /\ k # j
  BY <1>1, <1>2, TodoHeld
<1>8. ExecutorHeld(p)'
  BY <1>2, <1>3, <1>4, <1>6, <1>7 DEF ExecutorHeld, Chosen, Counted, Working, Busy, Before, Settling, Is
<1> QED
  BY <1>2, <1>5, <1>8, OthersKept

LEMMA GiveUpHeld ==
  ASSUME MaxAttempts # 0, IInv, TypeOK', NEW p \in Executors, NEW j \in Job, j = exe[p].job,
         exe[p].pc \in Busy \cup {"tidy"}, GiveUp(p), UNCHANGED <<product, work>>
  PROVE (\A k \in Job : Kept(k)') /\ ExecutorHeld(p)'
<1>0. exe[p].pc \in Working
  BY DEF Working, Busy
<1>1. /\ TypeOK /\ ExecutorHeld(p) /\ Kept(j) /\ row[j] \in Rows /\ past[j] \in Pasts
      /\ MaxAttempts \in Nat /\ past[j].fails \in Nat
  BY <1>0, Own
<1>2. row'[j].status = "queued" /\ row'[j].attempts = row[j].attempts
  BY <1>1 DEF GiveUp, TypeOK, Rows
<1>3. past'[j].fails = past[j].fails /\ past'[j].finished = FALSE
  BY <1>1 DEF GiveUp, TypeOK, Pasts
<1>4. \A k \in Job \ {j} : Untouched(k)
  BY <1>1 DEF GiveUp, Untouched, TypeOK
<1>5. past[j].fails < MaxAttempts
  <2>1. CASE exe[p].pc = "tidy"
    BY <1>1, <2>1 DEF ExecutorHeld, Counted
  <2>2. CASE Is(j, Interrupted)
    BY <1>1, <2>2 DEF Kept, JobHeld, Is, Interrupted
  <2> QED
    BY <1>1, <2>1, <2>2 DEF ExecutorHeld
<1>6. Kept(j)'
  BY <1>1, <1>2, <1>3, <1>5 DEF Kept, JobHeld, Recorded, Agrees, Is
<1>7. ExecutorHeld(p)'
  BY <1>1, <1>4, LeaveHeld DEF GiveUp, Untouched
<1> QED
  BY <1>4, <1>6, <1>7, OthersKept

LEMMA RejectHeld ==
  ASSUME MaxAttempts # 0, IInv, TypeOK', NEW p \in Executors, NEW j \in Job, j = exe[p].job, Reject(p)
  PROVE (\A k \in Job : Kept(k)') /\ ExecutorHeld(p)'
  BY GiveUpHeld, FailHeld DEF Reject, Busy, Settling

LEMMA FollowUpHeld ==
  ASSUME MaxAttempts # 0, IInv, TypeOK', NEW p \in Executors, NEW j \in Job, j = exe[p].job, FollowUp(p)
  PROVE (\A k \in Job : Kept(k)') /\ ExecutorHeld(p)'
<1>0. exe[p].pc \in Working /\ exe[p].pc \in Busy /\ exe[p].pc = "follow"
  BY DEF FollowUp, Working, Busy, Settling
<1>1. TypeOK /\ ExecutorHeld(p) /\ \A k \in Job : Kept(k)
  BY <1>0, Own, IInvParts
<1>2. \A k \in Job : Gentle(k)
  <2>1. CASE row' = row
    <3>1. past' = past
      BY <1>1, <2>1 DEF FollowUp, Forget, TypeOK, ACTIVE, Waiting
    <3> QED
      BY <1>1, <2>1, <3>1, UntouchedGentle DEF FollowUp, Untouched
  <2>2. CASE row' = Insert(Follow[j])
    BY <1>1, <2>2, Assumed, InsertGentle DEF FollowUp, Kept
  <2> QED
    BY <2>1, <2>2 DEF FollowUp
<1>3. \A k \in Job : Kept(k)'
  BY <1>2, AllKept
<1>4. Is(j, Interrupted) /\ exe[p].out # 0 /\ (j \notin Merges \cup References => product[j] = exe[p].out)
  BY <1>0, <1>1 DEF ExecutorHeld, Settling
<1>5. exe'[p].pc = "succeed" /\ exe'[p].job = j /\ exe'[p].todo = exe[p].todo /\ exe'[p].out = exe[p].out
  BY <1>1, GotoFields DEF FollowUp, Steps
<1>6. exe[p].todo \subseteq Job /\ \A k \in exe[p].todo : Is(k, Interrupted) /\ k # j
  BY <1>1 DEF TypeOK, Memories, ExecutorHeld
<1>7. Is(j, Interrupted)' /\ product' = product /\ \A k \in exe[p].todo : Is(k, Interrupted)' /\ k # j
  BY <1>2, <1>4, <1>6 DEF FollowUp, Gentle, Is
<1>8. ExecutorHeld(p)'
  BY <1>4, <1>5, <1>7 DEF ExecutorHeld, Chosen, Counted, Working, Busy, Before, Settling
<1> QED
  BY <1>3, <1>8

LEMMA SucceedHeld ==
  ASSUME MaxAttempts # 0, IInv, TypeOK', NEW p \in Executors, NEW j \in Job, j = exe[p].job, Succeed(p)
  PROVE (\A k \in Job : Kept(k)') /\ ExecutorHeld(p)'
<1>0. exe[p].pc \in Working /\ exe[p].pc \in Busy /\ exe[p].pc = "succeed"
  BY DEF Succeed, Working, Busy, Settling
<1>1. /\ TypeOK /\ ExecutorHeld(p) /\ Kept(j) /\ row[j] \in Rows /\ past[j] \in Pasts
      /\ MaxAttempts \in Nat /\ past[j].fails \in Nat
  BY <1>0, Own
<1>2. row'[j] = [row[j] EXCEPT !.status = "succeeded", !.result = exe[p].out]
  BY <1>1 DEF Succeed, TypeOK
<1>3. row'[j].status = "succeeded" /\ row'[j].result = exe[p].out /\ row'[j].attempts = row[j].attempts
  BY <1>1, <1>2 DEF Rows
<1>4. past'[j].fails = past[j].fails /\ past'[j].finished = FALSE
  BY <1>1 DEF Succeed, TypeOK, Pasts
<1>5. \A k \in Job \ {j} : Untouched(k)
  BY <1>1 DEF Succeed, Resolve, Untouched, TypeOK
<1>6. Is(j, Interrupted) /\ exe[p].out # 0 /\ (j \notin Merges \cup References => product[j] = exe[p].out)
  BY <1>0, <1>1 DEF ExecutorHeld, Settling
<1>7. past[j].fails < MaxAttempts
  BY <1>1, <1>6 DEF Kept, JobHeld, Is, Interrupted
<1>8. JobHeld(j)'
  BY <1>1, <1>3, <1>4, <1>7 DEF Kept, JobHeld
<1>9. Recorded(j)' /\ Agrees(j)'
  BY <1>3, <1>6 DEF Succeed, Resolve, Recorded, Agrees, Is, Built
<1>10. exe'[p].pc = "tidy" /\ exe'[p].job = j /\ exe'[p].todo = exe[p].todo
  BY <1>1, GotoFields DEF Succeed, Steps
<1>11. \A k \in exe[p].todo : Is(k, Interrupted)' /\ k # j
  BY <1>1, <1>5, TodoHeld DEF Untouched
<1>12. ExecutorHeld(p)'
  BY <1>4, <1>7, <1>10, <1>11 DEF ExecutorHeld, Chosen, Counted, Working, Busy, Before, Settling
<1> QED
  BY <1>5, <1>8, <1>9, <1>12, OthersKept DEF Kept

LEMMA TidyHeld ==
  ASSUME MaxAttempts # 0, IInv, TypeOK', NEW p \in Executors, NEW j \in Job, j = exe[p].job, Tidy(p)
  PROVE (\A k \in Job : Kept(k)') /\ ExecutorHeld(p)'
<1>0. exe[p].pc \in Working /\ exe[p].pc = "tidy"
  BY DEF Tidy, Working
<1>1. TypeOK /\ ExecutorHeld(p) /\ Kept(j)
  BY <1>0, Own
<1>2. row' = row /\ past' = past /\ \A k \in Job \ {j} : Untouched(k)
  BY <1>1 DEF Tidy, Untouched, TypeOK, Catalog
<1>3. j \notin Merges => ~past[j].finished
  BY <1>0, <1>1 DEF ExecutorHeld, Chosen
<1>4. Kept(j)'
  BY <1>1, <1>2, <1>3 DEF Tidy, Catalog, Kept, JobHeld, Recorded, Agrees, Is, Built
<1>5. ExecutorHeld(p)'
  BY <1>1, <1>2, LeaveHeld DEF Tidy
<1> QED
  BY <1>2, <1>4, <1>5, OthersKept

LEMMA CrashHeld ==
  ASSUME MaxAttempts # 0, IInv, TypeOK', NEW p \in Executors, Crash(p)
  PROVE (\A k \in Job : Kept(k)') /\ ExecutorHeld(p)'
<1>1. TypeOK /\ \A k \in Job : Untouched(k)
  BY IInvParts DEF Crash, Untouched, Catalog
<1>2. exe'[p].pc = "off" /\ exe'[p].todo = {}
  BY <1>1 DEF Crash, TypeOK, Off
<1> QED
  BY <1>1, <1>2, UntouchedGentle, AllKept, BetweenHeld DEF Working, Before, Settling

LEMMA EscapeHeld ==
  ASSUME MaxAttempts # 0, IInv, TypeOK', NEW p \in Executors, NEW j \in Job, j = exe[p].job, Escape(p)
  PROVE (\A k \in Job : Kept(k)') /\ ExecutorHeld(p)'
<1>1. TypeOK
  BY IInvParts
<1>2. CASE GiveUp(p)
  BY <1>2, GiveUpHeld DEF Escape, Busy, Before, Settling
<1>3. CASE PassEnds(p) /\ UNCHANGED <<row, intent, alarm, past>>
  <2>1. \A k \in Job : Untouched(k)
    BY <1>3 DEF Escape, Untouched
  <2> QED
    BY <1>1, <1>3, <2>1, UntouchedGentle, AllKept, PassEndsHeld
<1> QED
  BY <1>2, <1>3 DEF Escape

-----------------------------------------------------------------------------
(* The invariant, for the one executor there is. *)

LEMMA ExecutorStep ==
  ASSUME Single, MaxAttempts # 0, IInv, TypeOK', NEW p \in Executors, Start(p) \/ Execute(p) \/ Crash(p) \/ Escape(p)
  PROVE IInv'
<1>1. TypeOK /\ ExecutorHeld(p)
  BY IInvParts
<1>2. exe[p].pc \in Working => exe[p].job \in Job
  BY <1>1 DEF ExecutorHeld
<1>3. SUFFICES (\A k \in Job : Kept(k)') /\ ExecutorHeld(p)'
  <2>1. ASSUME NEW q \in Executors, ExecutorHeld(p)' PROVE ExecutorHeld(q)'
    <3>1. q = p
      BY DEF Single
    <3> QED
      BY <2>1, <3>1
  <2> QED
    BY <1>3, <2>1, IInvPartsNext
<1>4. CASE Start(p) \/ Tick(p)
  <2>1. \A k \in Job : Untouched(k)
    BY <1>4 DEF Start, Tick, Catalog, Untouched
  <2> QED
    BY <1>1, <1>4, <2>1, UntouchedGentle, AllKept, StartHeld, TickHeld
<1>5. CASE Recover(p)
  BY <1>5, RecoverHeld
<1>6. CASE Choose(p)
  BY <1>6, ChooseHeld
<1>7. CASE Begin(p)
  BY <1>2, <1>7, BeginHeld DEF Begin, Working, Before
<1>8. CASE Stage(p)
  BY <1>2, <1>8, StageHeld DEF Stage, Working, Before
<1>9. CASE Clear(p)
  BY <1>2, <1>9, ClearHeld DEF Clear, Working, Before
<1>10. CASE Launch(p)
  BY <1>2, <1>10, LaunchHeld DEF Launch, Working, Before
<1>11. CASE PixInsight(p)
  BY <1>2, <1>11, PixInsightHeld DEF PixInsight, Working, Before
<1>12. CASE Read(p)
  BY <1>2, <1>12, ReadHeld DEF Read, Working, Before
<1>13. CASE Intend(p)
  BY <1>2, <1>13, IntendHeld DEF Intend, Working, Settling
<1>14. CASE Publish(p)
  BY <1>2, <1>14, PublishHeld DEF Publish, Working, Settling
<1>15. CASE Reject(p)
  BY <1>2, <1>15, RejectHeld DEF Reject, Working, Settling
<1>16. CASE FollowUp(p)
  BY <1>2, <1>16, FollowUpHeld DEF FollowUp, Working, Settling
<1>17. CASE Succeed(p)
  BY <1>2, <1>17, SucceedHeld DEF Succeed, Working, Settling
<1>18. CASE Tidy(p)
  BY <1>2, <1>18, TidyHeld DEF Tidy, Working
<1>19. CASE Crash(p)
  BY <1>19, CrashHeld
<1>20. CASE Escape(p)
  BY <1>2, <1>20, EscapeHeld DEF Escape, Working, Before, Settling
<1> QED
  BY <1>4, <1>5, <1>6, <1>7, <1>8, <1>9, <1>10, <1>11, <1>12, <1>13, <1>14, <1>15, <1>16, <1>17, <1>18, <1>19, <1>20
  DEF Execute

LEMMA GentleStep ==
  ASSUME MaxAttempts # 0, IInv, TypeOK', exe' = exe, \A k \in Job : Gentle(k)
  PROVE IInv'
<1>1. TypeOK /\ (\A k \in Job : Kept(k)) /\ \A p \in Executors : ExecutorHeld(p)
  BY IInvParts
<1>2. \A k \in Job : Kept(k)'
  BY AllKept
<1>3. \A p \in Executors : ExecutorHeld(p)'
  BY <1>1, GentleHeld
<1> QED
  BY <1>2, <1>3, IInvPartsNext

LEMMA IInvStep == ASSUME Single, MaxAttempts # 0 PROVE IInv /\ [Next]_vars => IInv'
<1> SUFFICES ASSUME IInv, [Next]_vars PROVE IInv'
  OBVIOUS
<1>1. TypeOK' /\ TypeOK /\ \A k \in Job : Kept(k)
  BY IInvTyped, IInvParts, TypedStep DEF Typed
<1>2. ASSUME NEW P \in Plans, Plan(P) PROVE IInv'
  BY <1>1, <1>2, Assumed, InsertGentle, GentleStep DEF Plan, Kept
<1>3. CASE \E p \in Executors : Start(p) \/ Execute(p) \/ Crash(p) \/ Escape(p)
  BY <1>1, <1>3, ExecutorStep
<1>4. ASSUME NEW j \in Job, Outside(j) PROVE IInv'
  <2>1. exe' = exe
    BY <1>4 DEF Outside, Elapse, Return, PollRestore, Lose, Rerun, Cleanup, Decide
  <2> QED
    BY <1>1, <1>4, <2>1, OutsideGentle, GentleStep
<1>5. CASE FillDisk \/ FreeDisk
  BY <1>1, <1>5, DiskGentle, GentleStep DEF FillDisk, FreeDisk
<1>6. CASE UNCHANGED vars
  <2>1. \A k \in Job : Untouched(k)
    BY <1>6 DEF vars, Untouched
  <2> QED
    BY <1>1, <1>6, <2>1, UntouchedGentle, GentleStep DEF vars
<1> QED
  BY <1>2, <1>3, <1>4, <1>5, <1>6 DEF Next

LEMMA IInvInit == ASSUME MaxAttempts # 0, Init PROVE IInv
<1>1. TypeOK
  BY InitTyped
<1>2. ASSUME NEW j \in Job PROVE Kept(j)
  <2>1. row[j] = NoRow /\ past[j].fails = 0 /\ past[j].finished = FALSE
    BY <1>2 DEF Init
  <2> QED
    BY <2>1, NewRowTyped, Assumed DEF Kept, JobHeld, Recorded, Agrees, Is
<1>3. ASSUME NEW p \in Executors PROVE ExecutorHeld(p)
  BY <1>3 DEF Init, Off, ExecutorHeld, Chosen, Counted, Working, Busy, Before, Settling
<1> QED
  BY <1>1, <1>2, <1>3, IInvParts

LEMMA Invariant == ASSUME Single, MaxAttempts # 0 PROVE Spec => []IInv
<1>1. Init => IInv
  BY IInvInit
<1>2. IInv /\ [Next]_vars => IInv'
  BY IInvStep
<1> QED
  BY <1>1, <1>2, PTL DEF Spec

(* publisher.publish, followed by the succeeded row and its result_json: a   *)
(* finished job reports the output that its master row names.                *)
THEOREM ResultRecordedHolds == ASSUME Single, MaxAttempts # 0 PROVE Spec => []ResultRecorded
<1>1. IInv => ResultRecorded
  BY DEF IInv
<1> QED
  BY <1>1, Invariant, PTL

(* executor._fail and the resolution at the end of _finish: a      *)
(* failed job has an open JOB_FAILED issue, a finished one has none.         *)
THEOREM AlarmsAgreeHolds == ASSUME Single, MaxAttempts # 0 PROVE Spec => []AlarmsAgree
<1>1. IInv => AlarmsAgree
  BY DEF IInv
<1> QED
  BY <1>1, Invariant, PTL

(* executor._fail: the failures since a job was last asked for     *)
(* never pass MaxAttempts, although the attempts an executor writes are      *)
(* counted from a row it read earlier.                                       *)
THEOREM FailuresBoundedHolds == ASSUME Single, MaxAttempts # 0 PROVE Spec => []FailuresBounded
<1>1. IInv => FailuresBounded
  BY DEF IInv, JobHeld, FailuresBounded
<1> QED
  BY <1>1, Invariant, PTL

(* executor.recover and publish_intents: no run that finished is repeated,   *)
(* whatever crashes, fails or is asked for before its job has succeeded.     *)
THEOREM NoSecondRunHolds == ASSUME Single, MaxAttempts # 0 PROVE Spec => NoSecondRun
<1>1. ASSUME IInv, NEW p \in Executors, Launches(p)
      PROVE exe[p].job \in Merges \/ ~past[exe[p].job].finished
  BY <1>1 DEF Launches, IInv, ExecutorHeld, Chosen, Before
<1>2. IInv /\ [Next]_vars => [\A p \in Executors : Launches(p) => exe[p].job \in Merges \/ ~past[exe[p].job].finished]_vars
  BY <1>1
<1> QED
  BY <1>2, Invariant, PTL DEF Spec, NoSecondRun

-----------------------------------------------------------------------------
(* The stager, which finds a job's inputs before its run: the restores it asks *)
(* S3 for. Its module shares the jobs with this one and nothing else.         *)

CONSTANTS Blob, Object, Needs, Holder, Ages, MaxSpent
VARIABLES nas, onNas, up, cached, object, replica, asked, job, stager, evicting, aged, spent

Stager == INSTANCE Staging

(* What Staging assumes of its inputs. *)
Served == Needs \in [Job -> SUBSET Blob] /\ Holder \in [Blob -> Object]

(* The part of the type invariant the argument needs. *)
RequestsTyped ==
    /\ replica \in [Object -> {"hot", "cold", "restoring", "restored"}]
    /\ asked \subseteq Job \X Object

Asked == RequestsTyped /\ Stager!RequestsMatchReplicas

LEMMA InitAsked == Stager!Init => Asked
  <1> SUFFICES ASSUME Stager!Init PROVE Asked
    OBVIOUS
  <1>1. PICK cold \in SUBSET Object : replica = [o \in Object |-> IF o \in cold THEN "cold" ELSE "hot"]
    BY DEF Stager!Init
  <1>2. asked = {}
    BY DEF Stager!Init
  <1> QED
    BY <1>1, <1>2 DEF Asked, RequestsTyped, Stager!RequestsMatchReplicas

(* Asking: a new request is for an object without one, and a finished object   *)
(* loses its only request.                                                  *)
LEMMA RestoreKeeps ==
    ASSUME Served, Asked, NEW j \in Job, Stager!Restore(j)
    PROVE  Asked'
  <1> DEFINE done == Stager!Thawed(Stager!Cold(j))
  <1>1. Stager!Cold(j) \subseteq Object /\ done \subseteq Stager!Cold(j) /\ Stager!New(j) \subseteq Stager!Cold(j) \ done
    BY DEF Served, Stager!Cold, Stager!ToFetch, Stager!Thawed, Stager!New
  <1>2. replica' = [o \in Object |-> IF o \in done THEN "restored" ELSE IF o \in Stager!New(j) THEN "restoring" ELSE replica[o]]
    BY DEF Stager!Restore
  <1>3. asked' = {r \in asked : r[2] \notin done} \cup ({j} \X Stager!New(j))
    BY DEF Stager!Restore
  <1>4. \A o \in Stager!New(j), k \in Job : <<k, o>> \notin asked
    BY <1>1 DEF Stager!New, Stager!Requested
  <1>5. RequestsTyped'
    <2>1. replica' \in [Object -> {"hot", "cold", "restoring", "restored"}]
      BY <1>2 DEF Asked, RequestsTyped
    <2>2. asked' \subseteq Job \X Object
      BY <1>1, <1>3 DEF Asked, RequestsTyped
    <2> QED
      BY <2>1, <2>2 DEF RequestsTyped
  <1> HIDE DEF done
  <1>6. ASSUME NEW k \in Job, NEW o \in Object
        PROVE  <<k, o>> \in asked' <=> \/ <<k, o>> \in asked /\ o \notin done
                                       \/ k = j /\ o \in Stager!New(j)
    BY <1>3
  <1>7. ASSUME NEW o \in Object
        PROVE  replica'[o] = "restoring" <=> o \notin done /\ (o \in Stager!New(j) \/ replica[o] = "restoring")
    BY <1>2
  <1>8. ASSUME NEW o \in Object
        PROVE  replica'[o] = "restoring" <=> \E k \in Job : <<k, o>> \in asked'
    BY <1>1, <1>6, <1>7 DEF Asked, Stager!RequestsMatchReplicas
  <1>9. ASSUME NEW o \in Object, NEW k \in Job, NEW l \in Job, <<k, o>> \in asked', <<l, o>> \in asked'
        PROVE  k = l
    BY <1>4, <1>6, <1>9 DEF Asked, Stager!RequestsMatchReplicas
  <1> QED
    BY <1>5, <1>8, <1>9 DEF Asked, Stager!RequestsMatchReplicas

(* Polling: the request closed is the object's only one. *)
LEMMA PollKeeps ==
    ASSUME Asked, NEW j \in Job, NEW o \in Object, Stager!Poll(j, o)
    PROVE  Asked'
  <1>1. asked' = asked \ {<<j, o>>} /\ replica' = [replica EXCEPT ![o] = "restored"]
    BY DEF Stager!Poll, Stager!Restored
  <1>2. RequestsTyped'
    BY <1>1 DEF Asked, RequestsTyped
  <1>3. \A k \in Job : <<k, o>> \notin asked'
    BY <1>1 DEF Asked, Stager!RequestsMatchReplicas, Stager!Poll
  <1>4. ASSUME NEW p \in Object, p # o
        PROVE  /\ replica'[p] = replica[p]
               /\ \A k \in Job : <<k, p>> \in asked' <=> <<k, p>> \in asked
    BY <1>1, <1>4 DEF Asked, RequestsTyped
  <1>5. replica'[o] = "restored"
    BY <1>1 DEF Asked, RequestsTyped
  <1>6. ASSUME NEW p \in Object
        PROVE  replica'[p] = "restoring" <=> \E k \in Job : <<k, p>> \in asked'
    <2>1. CASE p = o
      BY <2>1, <1>3, <1>5
    <2>2. CASE p # o
      BY <2>2, <1>4 DEF Asked, Stager!RequestsMatchReplicas
    <2> QED
      BY <2>1, <2>2
  <1>7. ASSUME NEW p \in Object, NEW k \in Job, NEW l \in Job, <<k, p>> \in asked', <<l, p>> \in asked'
        PROVE  k = l
    BY <1>1, <1>7 DEF Asked, Stager!RequestsMatchReplicas
  <1> QED
    BY <1>2, <1>6, <1>7 DEF Asked, Stager!RequestsMatchReplicas

LEMMA NextAsked == Served /\ Asked /\ [Stager!Next]_(Stager!vars) => Asked'
  <1> SUFFICES ASSUME Served, Asked, [Stager!Next]_(Stager!vars) PROVE Asked'
    OBVIOUS
  <1>0. ASSUME UNCHANGED <<replica, asked>> PROVE Asked'
    BY <1>0 DEF Asked, RequestsTyped, Stager!RequestsMatchReplicas
  <1>1. CASE UNCHANGED Stager!vars
    BY <1>0, <1>1 DEF Stager!vars, Stager!archive
  <1>2. ASSUME NEW j \in Job, Stager!Plan(j) \/ Stager!Defer(j) \/ Stager!Begin(j) PROVE Asked'
    BY <1>0, <1>2 DEF Stager!Plan, Stager!Defer, Stager!Begin, Stager!archive
  <1>3. ASSUME NEW j \in Job, Stager!Restore(j) PROVE Asked'
    BY <1>3, RestoreKeeps
  <1>4. CASE Stager!Work
    BY <1>0, <1>4 DEF Stager!Work, Stager!Fetch, Stager!FetchFails, Stager!Handoff, Stager!Run, Stager!archive
  <1>5. CASE Stager!Restart \/ Stager!EvictRemove \/ Stager!NasGone \/ Stager!NasBack
    BY <1>0, <1>5 DEF Stager!Restart, Stager!EvictRemove, Stager!NasGone, Stager!NasBack, Stager!archive
  <1>6. ASSUME NEW j \in Job, NEW o \in Object, Stager!Poll(j, o) PROVE Asked'
    BY <1>6, PollKeeps
  <1>7. ASSUME NEW j \in Job, NEW o \in Object, Stager!RestartAsking(j, o) PROVE Asked'
    BY <1>0, <1>7 DEF Stager!RestartAsking
  <1>8. ASSUME NEW b \in Blob, Stager!EvictChoose(b) \/ Stager!MoveToS3(b) \/ Stager!LoseFile(b) \/ Stager!Scrub(b) PROVE Asked'
    BY <1>0, <1>8 DEF Stager!EvictChoose, Stager!MoveToS3, Stager!LoseFile, Stager!Scrub, Stager!archive
  <1>9. ASSUME NEW o \in Object, Stager!Cool(o) \/ Stager!Thaw(o) \/ Stager!Expire(o) PROVE Asked'
    BY <1>0, <1>9 DEF Stager!Cool, Stager!Thaw, Stager!Expire
  <1> QED
    BY <1>1, <1>2, <1>3, <1>4, <1>5, <1>6, <1>7, <1>8, <1>9 DEF Stager!Next, Stager!Stage

(* stager.py, _restore and poll_restores: one open request per object being    *)
(* restored and none otherwise, for any number of jobs, blobs and objects, by   *)
(* the invariant itself, which is inductive with the types of its variables.    *)
(* Every input of a job is a blob that one object of S3 holds.                *)
THEOREM RequestsMatch == Served => (Stager!Spec => []Stager!RequestsMatchReplicas)
  <1> SUFFICES ASSUME Served
               PROVE  Stager!Spec => []Stager!RequestsMatchReplicas
    OBVIOUS
  <1>1. Asked => Stager!RequestsMatchReplicas
    BY DEF Asked
  <1> QED
    BY <1>1, InitAsked, NextAsked, PTL DEF Stager!Spec
=============================================================================
