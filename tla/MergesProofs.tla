---------------------------- MODULE MergesProofs ----------------------------
(***************************************************************************)
(* What Merges keeps, for any nights, skies, references, failures, crashes  *)
(* and rebuilds.  Main says how jobs, masters, merges and sidecars belong   *)
(* together; Planned says what is due while no re-plan raced another and no *)
(* rebuild forgot the decisions.                                            *)
(***************************************************************************)
EXTENDS Merges, FiniteSetTheorems, WellFoundedInduction, TLAPS

Sides0 == archive \cup unarchived

IsFinal(p)    == p \in Stack /\ p.kind = "final"
Archives(p)   == IsFinal(p) \/ IsMerge(p)
AtMost(s, t)  == s = t \/ Before(s, t)
Apart(S, v)   == \A s \in S : s.kind = "final" /\ s.version = v /\ \A t \in S : s.night = t.night => s = t
AtJob         == {"run", "store", "commit", "finish"}
Due(p)        == Is(p, {"queued", "failed"}) \/ (Is(p, {"running"}) /\ worker.at \in {"run", "store", "commit"})

(* The worker's job runs, and no other. *)
Working ==
    /\ \A p \in DOMAIN jobs : jobs[p] = "running" <=> p = worker.job
    /\ worker.job # NoPlan => worker.job \in DOMAIN jobs
    /\ worker.at \in AtJob <=> (worker.job # NoPlan /\ worker.at \notin {"evaluate", "record", "insert"})
    /\ worker.at \in {"evaluate", "record", "insert"} => worker.job = NoPlan \/ IsFinal(worker.job)
    /\ user.job = NoPlan

(* Every merge, planned or made, is of one reference and of each night once. *)
MergesApart ==
    /\ \A p \in DOMAIN jobs : IsMerge(p) => Apart(p.inputs, p.version)
    /\ \A m \in multi : Apart(m.plan.inputs, m.plan.version)
    /\ \A s \in Sides0 : IsMerge(s.plan) => Apart(s.plan.inputs, s.plan.version)
    /\ \A p \in {worker, user} : Apart(Eligible(p.seen), p.project.version)

OneCurrent == \A s, t \in Current : s.night = t.night => s = t

(* What was published is in a sidecar, before its rows are. *)
Known(p) == \E x \in Sides0 : x.plan = p /\ (IsMerge(p) => x.version = VersionFor(p))
Stored ==
    /\ \A x \in Sides0 : x.catalog <= catalogs
    /\ \A m \in multi : \E x \in Sides0 : x.plan = m.plan
    /\ \A s \in Finals : \E x \in Sides0 : x.plan = s
    /\ worker.at = "commit" /\ Archives(worker.job) => Known(worker.job)

(* In the first catalog: no plan, reading or sidecar is of a later reference,  *)
(* or of more lights than there are.                                          *)
InTime(s) == s.version <= project.version /\ s.build <= lights[s.night]
Bounded   ==
    catalogs = 0 =>
        /\ \A p \in DOMAIN jobs : IsFinal(p) => InTime(p)
        /\ \A p \in DOMAIN jobs : Reference(p) => p.reference <= project.version
        /\ \A p \in DOMAIN jobs : IsMerge(p) => p.version <= project.version
        /\ \A s \in Finals : InTime(s)
        /\ \A p \in {worker, user} : p.project.version <= project.version
Blocks    ==
    catalogs = 0 => \A x \in Sides0 :
        /\ x.block <= project.version
        /\ IsFinal(x.plan) => x.plan.version <= x.block /\ x.plan.build <= lights[x.plan.night]
        /\ IsMerge(x.plan) => x.plan.version <= x.block

(* In it, a stack or a reference is published once, and only a merge of an     *)
(* older reference is refused.                                               *)
PublishedOnce ==
    catalogs = 0 => \A x \in Sides0 :
        IsMerge(x.plan) \/ Is(x.plan, {"succeeded"}) \/ (x.plan = worker.job /\ worker.at # "run" /\ x.block = project.version)
Refused == catalogs = 0 => \A p \in DOMAIN jobs : jobs[p] = "abandoned" => IsMerge(p) /\ p.version < project.version

(* In it, a stack that may still run is the newest of its night. *)
RunsNewest ==
    catalogs = 0 => \A p \in DOMAIN jobs : IsFinal(p) /\ jobs[p] \in {"queued", "running"} =>
        \A q \in DOMAIN jobs \cup DOMAIN masters : IsFinal(q) /\ q.night = p.night => AtMost(q, p)

(* In it, a master is superseded by a newer one, and one of each night is     *)
(* current.                                                                  *)
Ordered ==
    catalogs = 0 =>
        /\ \A s \in Finals : masters[s].by # NoStack =>
               masters[s].by \in Finals /\ masters[s].by.night = s.night /\ Before(s, masters[s].by)
        /\ \A s \in Finals : \E t \in Current : t.night = s.night

Main == /\ Working /\ MergesApart /\ OneCurrent /\ Stored
        /\ Bounded /\ Blocks /\ PublishedOnce /\ Refused /\ RunsNewest /\ Ordered

-----------------------------------------------------------------------------
(* While nothing lapsed. *)

(* A night with its flat has a stack of the project's reference planned. *)
NightsPlanned ==
    \A n \in Night : lights[n] > 0 /\ n \notin unmatched => StackOf(n, project.version) \in DOMAIN jobs

(* The reference comes before the stacks that need it. *)
Ref == [reference |-> project.version]
ReferenceFirst ==
    /\ project.reference \in {0, project.version}
    /\ project.reference = 0 =>
        /\ \A p \in DOMAIN jobs : IsFinal(p) /\ p.version = project.version => Ref \in DOMAIN jobs /\ jobs[p] # "running"
        /\ ~Is(Ref, {"succeeded"}) /\ ~(worker.at \in {"store", "finish"} /\ worker.job = Ref)
        /\ \A s \in Finals : s.version # project.version

Held ==
    /\ held \subseteq unmatched
    /\ \A f \in flagged : \E s \in Current : s.night = f[1]

(* Somebody is about to read the gates, or a stack is due whose publication does. *)
StackDue == \E p \in DOMAIN jobs : IsFinal(p) /\ Due(p)
GatesDue == worker.at \in {"evaluate", "record"} \/ user.at \in {"evaluate", "record"} \/ StackDue
MergeDue == GatesDue \/ worker.at = "insert" \/ user.at = "insert"

(* Why a master of an older reference is out. *)
OutOfDate(s) == stale \/ s.night \in unmatched
                \/ \E p \in DOMAIN jobs : IsFinal(p) /\ p.night = s.night /\ p.version = project.version /\ Due(p)
StaleExplained == \A s \in Current : s.version # project.version => OutOfDate(s)

FlagsExact == /\ \A s \in Current : Gate(s) \in GATE_ISSUES => <<s.night, Gate(s)>> \in flagged
              /\ \A f \in flagged : \E s \in Current : s.night = f[1] /\ Gate(s) = f[2]

Explained == StaleExplained /\ (GatesDue \/ FlagsExact)

Now == [Idle EXCEPT !.seen = Evaluate, !.project = project]
MergePlanned == MergeDue \/ (Ready(Now) => Is(MergeOf(Now), {"queued", "running", "succeeded", "failed"}))

Planned ==
    ~lapsed => catalogs = 0 /\ worker.at # "gates" /\ NightsPlanned /\ ReferenceFirst /\ Held /\ Explained /\ MergePlanned

-----------------------------------------------------------------------------
(* Everything has its type, and the worker's job is the one that runs. *)

Statuses == {"queued", "running", "abandoned", "succeeded", "failed", "superseded"}
JobsIn   == \A p \in DOMAIN jobs : Plan(p) /\ jobs[p] \in Statuses
Row0     == [by : Stack \cup {NoStack}, status : {"pending", "provisional", "eligible", "blocked", "merged"}]
Process(p) ==
    /\ DOMAIN p = DOMAIN Idle /\ p.at \in Steps /\ (p.job = NoPlan \/ Plan(p.job))
    /\ IsFn(p.seen, Stack, Gates) /\ p.project \in [version : 0..MaxVersion, reference : 0..MaxVersion]
    /\ p.at \in {"record", "insert"} => p.project.version \in Versions
Side(s) == s.type \in Sidecars /\ Plan(s.plan) /\ s.block \in Versions /\ s.version \in Nat /\ s.catalog \in 0..MaxSpent

(* Every rebuild is counted, the versions of the merges have a greatest one,  *)
(* and a sidecar's type says what was made.                                   *)
Counted ==
    /\ catalogs <= spent
    /\ \E k \in Nat : (\A m \in multi : m.version <= k) /\ (\A x \in Sides0 : x.version <= k)
    /\ \A x \in Sides0 : x.type = SidecarType(x.plan) /\ (IsStack(x.plan) => IsFinal(x.plan))

LEMMA Typing ==
    TypeOK <=> /\ project \in [version : Versions, reference : 0..MaxVersion]
               /\ sky \in Skies /\ lights \in [Night -> 0..MaxBuild]
               /\ unmatched \subseteq Night /\ held \subseteq Night
               /\ decision \in [Night -> {"none", "include", "exclude"}]
               /\ flagged \subseteq Night \X GATE_ISSUES /\ stale \in BOOLEAN
               /\ JobsIn /\ IsFn(masters, Stack, Row0)
               /\ multi \subseteq [plan : [inputs : SUBSET Stack, version : Versions], version : Nat]
               /\ (\A s \in Sides0 : Side(s)) /\ catalogs \in 0..MaxSpent
               /\ Process(worker) /\ Process(user)
               /\ invalid \subseteq Stack /\ lapsed \in BOOLEAN /\ spent \in 0..MaxSpent
  BY DEF TypeOK, JobsIn, Statuses, Row0, Process, Side, Sides0

LEMMA TypingNext ==
    TypeOK' <=> /\ project' \in [version : Versions, reference : 0..MaxVersion]
                /\ sky' \in Skies /\ lights' \in [Night -> 0..MaxBuild]
                /\ unmatched' \subseteq Night /\ held' \subseteq Night
                /\ decision' \in [Night -> {"none", "include", "exclude"}]
                /\ flagged' \subseteq Night \X GATE_ISSUES /\ stale' \in BOOLEAN
                /\ JobsIn' /\ IsFn(masters', Stack, Row0)
                /\ multi' \subseteq [plan : [inputs : SUBSET Stack, version : Versions], version : Nat]
                /\ (\A s \in Sides0' : Side(s)) /\ catalogs' \in 0..MaxSpent
                /\ Process(worker') /\ Process(user')
                /\ invalid' \subseteq Stack /\ lapsed' \in BOOLEAN /\ spent' \in 0..MaxSpent
  BY DEF TypeOK, JobsIn, Statuses, Row0, Process, Side, Sides0

LEMMA Constants ==
    /\ MinNights \in Nat /\ MaxBuild \in Nat /\ MaxSpent \in Nat /\ MaxVersion \in Nat \ {0} /\ 1 \in Versions
    /\ IsFiniteSet(Night) /\ Skies \subseteq [Night -> Measured]
    /\ NoStack \notin Stack /\ NoPlan.reference = 0
  BY MergesAssumption DEF Versions, Stack, NoStack, NoPlan, Kinds

LEMMA Plans ==
    ASSUME NEW p, Plan(p)
    PROVE  /\ p # NoPlan
           /\ IsStack(p) <=> p \in Stack
           /\ IsMerge(p) <=> Merge(p)
           /\ ~IsStack(p) /\ ~IsMerge(p) <=> Reference(p)
           /\ IsReference(p) <=> Reference(p)
           /\ ~(IsStack(p) /\ IsMerge(p))
  BY Constants DEF Plan, IsStack, IsMerge, IsReference, Stack, Merge, Reference, NoPlan, Versions

LEMMA Kinds0 ==
    /\ \A s \in Stack : Plan(s) /\ IsStack(s) /\ ~IsMerge(s)
    /\ \A p : Merge(p) => Plan(p) /\ IsMerge(p) /\ ~IsStack(p)
    /\ \A v \in Versions : Plan([reference |-> v]) /\ ~IsMerge([reference |-> v]) /\ ~IsStack([reference |-> v])
  BY DEF Plan, IsStack, IsMerge, Stack, Merge, Reference

LEMMA IdleProcess ==
    /\ Process(Idle) /\ Idle.at = "idle" /\ Idle.job = NoPlan /\ Idle.seen = <<>> /\ Eligible(Idle.seen) = {}
    /\ \A a \in Steps \ {"record", "insert"} : LET p == [Idle EXCEPT !.at = a] IN
         Process(p) /\ p.at = a /\ p.job = NoPlan /\ p.seen = <<>> /\ p.project = Idle.project /\ p.job = NoPlan
    /\ \A a \in Steps \ {"record", "insert"} : \A j : LET p == [Idle EXCEPT !.at = a, !.job = j] IN
         (Plan(j) => Process(p)) /\ p.at = a /\ p.job = j /\ p.seen = <<>> /\ p.project = Idle.project
  BY Constants DEF Process, Idle, Steps, IsFn, Eligible

LEMMA Evaluating ==
    LET p == [Idle EXCEPT !.at = "evaluate"] IN Process(p) /\ p.at = "evaluate" /\ p.job = NoPlan /\ p.seen = <<>> /\ p.project = Idle.project
  <1>1. "evaluate" \in Steps \ {"record", "insert"}
    BY DEF Steps
  <1> QED
    BY <1>1, IdleProcess, Zenon

LEMMA ProcessAt ==
    ASSUME NEW p, Process(p), NEW a \in Steps, a \in {"record", "insert"} => p.project.version \in Versions
    PROVE  LET q == [p EXCEPT !.at = a] IN Process(q) /\ q.at = a /\ q.job = p.job /\ q.seen = p.seen /\ q.project = p.project
  BY DEF Process, Idle

(* insert_job: what it leaves of the jobs, and what it queues. *)
Inserts(P, new) ==
    /\ DOMAIN new = DOMAIN jobs \cup P
    /\ \A q \in DOMAIN new : new[q] \in Statuses
    /\ \A q \in P \ DOMAIN jobs : new[q] = "queued"
    /\ \A q \in P \cap DOMAIN jobs : jobs[q] \in {"failed", "superseded"} => new[q] = "queued"
    /\ \A q \in DOMAIN jobs :
        /\ new[q] = "running" <=> jobs[q] = "running"
        /\ new[q] = "abandoned" <=> jobs[q] = "abandoned"
        /\ new[q] = "succeeded" <=> jobs[q] = "succeeded"
        /\ jobs[q] = "failed" => new[q] \in {"failed", "queued"}
        /\ new[q] = "failed" => jobs[q] = "failed"
        /\ new[q] = "queued" => jobs[q] = "queued" \/ q \in P
        /\ jobs[q] = "queued" => \/ new[q] = "queued" /\ \A p \in P \ DOMAIN jobs : ~Replaces(p, q)
                                 \/ new[q] = "superseded" /\ \E p \in P \ DOMAIN jobs : Replaces(p, q)

LEMMA InsertAllInserts == ASSUME JobsIn, NEW P PROVE Inserts(P, InsertAll(P))
  <1> DEFINE new == InsertAll(P)
             Replaced(q) == \E p \in P \ DOMAIN jobs : Replaces(p, q)
  <1>1. DOMAIN new = DOMAIN jobs \cup P
    BY DEF InsertAll
  <1>2. ASSUME NEW q \in P \ DOMAIN jobs PROVE new[q] = "queued"
    BY DEF InsertAll
  <1>3. ASSUME NEW q \in DOMAIN jobs
        PROVE  new[q] = IF q \in P /\ jobs[q] \in {"failed", "superseded"} THEN "queued"
                        ELSE IF Replaced(q) /\ jobs[q] = "queued" THEN "superseded" ELSE jobs[q]
    <2>1. Replaced(q) /\ jobs[q] = "queued" <=> \E p \in P \ DOMAIN jobs : Replaces(p, q) /\ jobs[q] = "queued"
      OBVIOUS
    <2> HIDE DEF Replaced
    <2> QED
      BY <2>1 DEF InsertAll
  <1> HIDE DEF new
  <1>4. ASSUME NEW q \in DOMAIN jobs, jobs[q] = "queued"
        PROVE  \/ new[q] = "queued" /\ \A p \in P \ DOMAIN jobs : ~Replaces(p, q)
               \/ new[q] = "superseded" /\ \E p \in P \ DOMAIN jobs : Replaces(p, q)
    BY <1>3, <1>4
  <1> HIDE DEF Replaced
  <1>5. ASSUME NEW q \in DOMAIN jobs
        PROVE  /\ new[q] \in Statuses
               /\ q \in P /\ jobs[q] \in {"failed", "superseded"} => new[q] = "queued"
               /\ new[q] = "running" <=> jobs[q] = "running"
               /\ new[q] = "abandoned" <=> jobs[q] = "abandoned"
               /\ new[q] = "succeeded" <=> jobs[q] = "succeeded"
               /\ jobs[q] = "failed" => new[q] \in {"failed", "queued"}
               /\ new[q] = "failed" => jobs[q] = "failed"
               /\ new[q] = "queued" => jobs[q] = "queued" \/ q \in P
    <2>1. jobs[q] \in Statuses
      BY DEF JobsIn
    <2> QED
      BY <1>3, <2>1 DEF Statuses
  <1>6. \A q \in DOMAIN new : new[q] \in Statuses
    BY <1>1, <1>2, <1>5 DEF Statuses
  <1> QED
    <2> HIDE DEF Inserts
    <2>1. \A q \in P \ DOMAIN jobs : new[q] = "queued"
      BY <1>2
    <2>2. \A q \in P \cap DOMAIN jobs : jobs[q] \in {"failed", "superseded"} => new[q] = "queued"
      BY <1>5
    <2>3. Inserts(P, new)
      BY <1>1, <1>4, <1>5, <1>6, <2>1, <2>2, Zenon DEF Inserts
    <2> QED
      BY <2>3 DEF new

LEMMA InsertedInserts == ASSUME JobsIn, NEW p PROVE Inserts({p}, Inserted(p))
  <1>1. CASE p \in DOMAIN jobs
    <2>1. DOMAIN Inserted(p) = DOMAIN jobs \cup {p} /\ {p} \ DOMAIN jobs = {}
      BY <1>1 DEF Inserted
    <2>2. \A q \in DOMAIN jobs : Inserted(p)[q] = IF q = p /\ jobs[q] \in {"failed", "superseded"} THEN "queued" ELSE jobs[q]
      BY <1>1 DEF Inserted
    <2> DEFINE new == Inserted(p)
    <2>3. ASSUME NEW q \in DOMAIN jobs
          PROVE  /\ new[q] \in Statuses
                 /\ q \in {p} /\ jobs[q] \in {"failed", "superseded"} => new[q] = "queued"
                 /\ new[q] = "running" <=> jobs[q] = "running"
                 /\ new[q] = "abandoned" <=> jobs[q] = "abandoned"
                 /\ new[q] = "succeeded" <=> jobs[q] = "succeeded"
                 /\ jobs[q] = "failed" => new[q] \in {"failed", "queued"}
                 /\ new[q] = "failed" => jobs[q] = "failed"
                 /\ new[q] = "queued" => jobs[q] = "queued" \/ q \in {p}
                 /\ jobs[q] = "queued" => new[q] = "queued"
      <3>1. jobs[q] \in Statuses
        BY DEF JobsIn
      <3> HIDE DEF new
      <3>2. new[q] = IF q = p /\ jobs[q] \in {"failed", "superseded"} THEN "queued" ELSE jobs[q]
        BY <2>2 DEF new
      <3> QED
        BY <3>1, <3>2 DEF Statuses
    <2>4. DOMAIN new = DOMAIN jobs
      BY <1>1, <2>1
    <2>5. \A q \in {p} \ DOMAIN jobs : FALSE
      BY <1>1
    <2> HIDE DEF new
    <2>6. DOMAIN new = DOMAIN jobs \cup {p} /\ \A q \in DOMAIN new : new[q] \in Statuses
      BY <1>1, <2>3, <2>4
    <2>7. /\ \A q \in {p} \ DOMAIN jobs : new[q] = "queued"
          /\ \A q \in {p} \cap DOMAIN jobs : jobs[q] \in {"failed", "superseded"} => new[q] = "queued"
      BY <2>3, <2>5
    <2>8. ASSUME NEW q \in DOMAIN jobs, jobs[q] = "queued"
          PROVE  new[q] = "queued" /\ \A r \in {p} \ DOMAIN jobs : ~Replaces(r, q)
      BY <2>3, <2>5, <2>8
    <2>9. Inserts({p}, new)
      BY <2>3, <2>6, <2>7, <2>8, Zenon DEF Inserts
    <2> QED
      BY <2>9 DEF new
  <1>2. CASE p \notin DOMAIN jobs
    <2> DEFINE new == [q \in DOMAIN jobs \cup {p} |-> IF q = p THEN "queued"
                                         ELSE IF Replaces(p, q) /\ jobs[q] = "queued" THEN "superseded" ELSE jobs[q]]
    <2>1. Inserted(p) = new
      BY <1>2 DEF Inserted
    <2>2. DOMAIN new = DOMAIN jobs \cup {p} /\ {p} \ DOMAIN jobs = {p} /\ new[p] = "queued"
      BY <1>2
    <2>3. \A q \in DOMAIN jobs : new[q] = IF Replaces(p, q) /\ jobs[q] = "queued" THEN "superseded" ELSE jobs[q]
      BY <1>2
    <2> HIDE DEF new
    <2>4. ASSUME NEW q \in DOMAIN jobs
          PROVE  /\ new[q] \in Statuses
                 /\ q # p
                 /\ new[q] = "running" <=> jobs[q] = "running"
                 /\ new[q] = "abandoned" <=> jobs[q] = "abandoned"
                 /\ new[q] = "succeeded" <=> jobs[q] = "succeeded"
                 /\ jobs[q] = "failed" => new[q] \in {"failed", "queued"}
                 /\ new[q] = "failed" => jobs[q] = "failed"
                 /\ new[q] = "queued" => jobs[q] = "queued"
                 /\ jobs[q] = "queued" => \/ new[q] = "queued" /\ ~Replaces(p, q)
                                          \/ new[q] = "superseded" /\ Replaces(p, q)
      <3>1. jobs[q] \in Statuses
        BY DEF JobsIn
      <3>2. Replaces(p, q) \in BOOLEAN
        BY DEF Replaces
      <3>3. new[q] = IF Replaces(p, q) /\ jobs[q] = "queued" THEN "superseded" ELSE jobs[q]
        BY <2>3
      <3>4. q # p
        BY <1>2
      <3> QED
        BY <3>1, <3>2, <3>3, <3>4 DEF Statuses
    <2>5. \A q \in DOMAIN new : new[q] \in Statuses
      BY <2>2, <2>4 DEF Statuses
    <2>6. Inserts({p}, new)
      BY <1>2, <2>2, <2>4, <2>5 DEF Inserts
    <2> QED
      BY <2>1, <2>6
  <1> QED
    BY <1>1, <1>2

LEMMA QueuedInserts == ASSUME JobsIn, NEW p PROVE Queued(p) = jobs \/ Inserts({MergeOf(p)}, Queued(p))
  BY InsertedInserts DEF Queued

LEMMA InsertsTyped == ASSUME JobsIn, NEW P, NEW new, Inserts(P, new), \A p \in P : Plan(p), jobs' = new PROVE JobsIn'
  BY DEF Inserts, JobsIn

(* The plans of some nights, from the lights, flats and reference they have. *)
PlansFor(N, proj, un, li) ==
    {[night |-> n, kind |-> IF n \in un THEN "provisional_noflat" ELSE "final", version |-> proj.version, build |-> li[n]] : n \in N}
        \cup (IF proj.reference = 0 /\ ~(N \subseteq un) THEN {[reference |-> proj.version]} ELSE {})

LEMMA PlansForTyped ==
    ASSUME NEW proj \in [version : Versions, reference : 0..MaxVersion], NEW li \in [Night -> 0..MaxBuild],
           NEW N \in SUBSET Night, \A n \in N : li[n] > 0, NEW un
    PROVE  \A p \in PlansFor(N, proj, un, li) :
               /\ Plan(p) /\ ~IsMerge(p) /\ (IsStack(p) => p \in Stack)
               /\ IsStack(p) => p.night \in N /\ p.version = proj.version /\ p.build = li[p.night] /\ (p.kind = "final" <=> p.night \notin un)
               /\ ~IsStack(p) => proj.reference = 0 /\ p = [reference |-> proj.version]
  <1> SUFFICES ASSUME NEW p \in PlansFor(N, proj, un, li)
               PROVE  /\ Plan(p) /\ ~IsMerge(p) /\ (IsStack(p) => p \in Stack)
                      /\ IsStack(p) => p.night \in N /\ p.version = proj.version /\ p.build = li[p.night] /\ (p.kind = "final" <=> p.night \notin un)
                      /\ ~IsStack(p) => proj.reference = 0 /\ p = [reference |-> proj.version]
    OBVIOUS
  <1>0. proj.version \in Versions
    OBVIOUS
  <1>1. CASE \E n \in N : p = [night |-> n, kind |-> IF n \in un THEN "provisional_noflat" ELSE "final", version |-> proj.version, build |-> li[n]]
    <2> PICK n \in N : p = [night |-> n, kind |-> IF n \in un THEN "provisional_noflat" ELSE "final", version |-> proj.version, build |-> li[n]]
      BY <1>1
    <2>1. li[n] \in Builds
      BY Constants DEF Builds
    <2>2. p \in Stack
      BY <1>0, <2>1 DEF Stack, Kinds
    <2>3. Plan(p) /\ IsStack(p) /\ ~IsMerge(p)
      BY <2>2, Kinds0
    <2> QED
      BY <2>2, <2>3
  <1>2. CASE proj.reference = 0 /\ p = [reference |-> proj.version]
    BY <1>0, <1>2, Kinds0
  <1> QED
    BY <1>1, <1>2 DEF PlansFor

-----------------------------------------------------------------------------
Sound == TypeOK /\ Working /\ Counted

(* A request leaves the worker idle, or about to evaluate the gates. *)
LEMMA RequestSound ==
    ASSUME Sound, AtRequests, NEW N \in SUBSET Night, \A n \in N : lights'[n] > 0,
           project' \in [version : Versions, reference : 0..MaxVersion], lights' \in [Night -> 0..MaxBuild],
           unmatched' \subseteq Night, held' \subseteq Night, invalid' \subseteq Stack, spent' \in 0..MaxSpent, spent <= spent',
           UNCHANGED <<sky, decision, flagged, masters, multi, archive, unarchived, catalogs, user, lapsed>>, stale' \in BOOLEAN,
           jobs' = InsertAll(PlansFor(N, project', unmatched', lights')),
           worker' = Idle \/ worker' = [Idle EXCEPT !.at = "evaluate"]
    PROVE  Sound'
  <1> DEFINE P == PlansFor(N, project', unmatched', lights')
  <1>1. \A p \in P : Plan(p)
    BY PlansForTyped
  <1> HIDE DEF P
  <1>2. JobsIn
    BY Typing DEF Sound
  <1>3. Inserts(P, jobs')
    BY <1>2, InsertAllInserts DEF P
  <1>4. JobsIn'
    BY <1>1, <1>2, <1>3, InsertsTyped
  <1>5. Process(worker') /\ worker'.job = NoPlan /\ worker'.at \in {"idle", "evaluate"}
    <2>1. "evaluate" \in Steps
      BY DEF Steps
    <2>2. CASE worker' = Idle
      BY <2>2, IdleProcess
    <2>3. CASE worker' = [Idle EXCEPT !.at = "evaluate"]
      BY <2>1, <2>3, IdleProcess
    <2> QED
      BY <2>2, <2>3
  <1>6. TypeOK'
    <2>1. Typing!2
      BY Typing DEF Sound
    <2> QED
      BY <1>4, <1>5, <2>1, TypingNext DEF Sides0
  <1>7. Working'
    <2>1. worker.job = NoPlan /\ (\A p \in DOMAIN jobs : jobs[p] # "running") /\ user.job = NoPlan
      <3>1. \A p \in DOMAIN jobs : p # NoPlan
        BY <1>2, Plans DEF JobsIn
      <3>2. worker.at = "idle" /\ worker.at \notin AtJob
        BY DEF AtRequests, AtJob
      <3>3. worker.job = NoPlan /\ user.job = NoPlan
        BY <3>2 DEF Sound, Working
      <3> QED
        BY <3>1, <3>3 DEF Sound, Working
    <2>2. \A p \in DOMAIN jobs' : jobs'[p] # "running" /\ p # NoPlan
      <3>1. \A p \in DOMAIN jobs' : p # NoPlan
        BY <1>4, Plans DEF JobsIn
      <3> QED
        BY <1>3, <2>1, <3>1 DEF Inserts
    <2> QED
      BY <1>5, <2>1, <2>2 DEF Working, AtJob
  <1>8. Counted'
    <2>1. catalogs \in Nat /\ spent \in Nat /\ spent' \in Nat
      BY Typing, Constants DEF Sound
    <2> QED
      BY <2>1 DEF Sound, Counted, Sides0
  <1> QED
    BY <1>6, <1>7, <1>8 DEF Sound

LEMMA Spends == ASSUME TypeOK, Spend PROVE spent' \in 0..MaxSpent /\ spent <= spent' /\ spent < spent'
  BY Constants DEF TypeOK, Spend

LEMMA Stays == ASSUME TypeOK, spent' = spent PROVE spent' \in 0..MaxSpent /\ spent <= spent'
  BY Constants DEF TypeOK

LEMMA MoreLights ==
    ASSUME TypeOK, NEW n \in Night, lights[n] < MaxBuild, lights' = [lights EXCEPT ![n] = @ + 1]
    PROVE  lights' \in [Night -> 0..MaxBuild] /\ lights'[n] > 0 /\ \A m \in Night : lights[m] <= lights'[m]
  <1>1. lights \in [Night -> 0..MaxBuild]
    BY DEF TypeOK
  <1>2. lights[n] + 1 \in 0..MaxBuild /\ lights[n] + 1 > 0
    BY <1>1, Constants
  <1> QED
    BY <1>1, <1>2, Constants

(* What a request for one night does to lights, flats and the bound. *)
NightRequest(n) == NightReady(n) \/ EquipmentEvent(n) \/ NewFlats(n) \/ Replan(n)

LEMMA NightRequestSteps ==
    ASSUME TypeOK, NEW n \in Night, NightRequest(n)
    PROVE  /\ AtRequests /\ PlanNight(n)
           /\ lights' \in [Night -> 0..MaxBuild] /\ lights'[n] > 0 /\ \A m \in Night : lights[m] <= lights'[m]
           /\ unmatched' \subseteq Night /\ unmatched \ {n} \subseteq unmatched' /\ unmatched' \ {n} \subseteq unmatched
           /\ invalid' \subseteq Stack
           /\ spent' \in 0..MaxSpent /\ spent <= spent'
  <1>1. CASE NightReady(n)
    <2>1. spent' \in 0..MaxSpent /\ spent <= spent'
      BY <1>1, Spends, Stays DEF NightReady
    <2> QED
      BY <1>1, <2>1, MoreLights DEF NightReady, TypeOK
  <1>2. CASE EquipmentEvent(n)
    <2>1. \A m \in Night : lights[m] <= lights'[m]
      BY <1>2, Constants DEF EquipmentEvent, TypeOK
    <2> QED
      BY <1>2, <2>1, Spends DEF EquipmentEvent, TypeOK
  <1>3. CASE NewFlats(n)
    BY <1>3, MoreLights, Stays DEF NewFlats, TypeOK
  <1>4. CASE Replan(n)
    <2>1. \A m \in Night : lights[m] <= lights'[m]
      BY <1>4, Constants DEF Replan, TypeOK
    <2> QED
      BY <1>4, <2>1, Spends DEF Replan, TypeOK
  <1> QED
    BY <1>1, <1>2, <1>3, <1>4 DEF NightRequest

LEMMA NightRequestSound == ASSUME Sound, NEW n \in Night, NightRequest(n) PROVE Sound'
  <1>1. TypeOK
    BY DEF Sound
  <1> USE NightRequestSteps, <1>1
  <1>2. held' \subseteq Night /\ project' \in [version : Versions, reference : 0..MaxVersion] /\ stale' \in BOOLEAN
    BY DEF PlanNight, TypeOK
  <1>3. jobs' = InsertAll(PlansFor({n}, project', unmatched', lights'))
    BY DEF PlanNight, PlanOf, PlansFor, StackOf
  <1>4. worker' = Idle \/ worker' = [Idle EXCEPT !.at = "evaluate"]
    BY DEF PlanNight
  <1>5. UNCHANGED <<sky, decision, flagged, masters, multi, archive, unarchived, catalogs, user, lapsed>>
    BY DEF PlanNight
  <1>6. \A m \in {n} : lights'[m] > 0
    OBVIOUS
  <1> QED
    BY <1>2, <1>3, <1>4, <1>5, <1>6, RequestSound

LEMMA RereferenceSteps ==
    ASSUME TypeOK, Rereference
    PROVE  \E N \in SUBSET Night :
            /\ N = {n \in Night : lights[n] > 0} /\ \A n \in N : lights'[n] > 0
            /\ jobs' = InsertAll(PlansFor(N, project', unmatched', lights'))
            /\ project' = [version |-> project.version + 1, reference |-> 0] /\ project.version < MaxVersion
            /\ held' = (held \ N) \cup (N \cap unmatched)
            /\ worker' = Idle \/ worker' = [Idle EXCEPT !.at = "evaluate"]
  <1> DEFINE N == {n \in Night : lights[n] > 0}
  <1>1. lights' = lights /\ unmatched' = unmatched
    BY DEF Rereference, Nights
  <1>2. jobs' = InsertAll(PlansFor(N, project', unmatched', lights'))
    BY <1>1 DEF Rereference, PlanOf, PlansFor, StackOf
  <1> WITNESS N \in SUBSET Night
  <1> QED
    BY <1>1, <1>2 DEF Rereference

LEMMA RereferenceSound == ASSUME Sound, Rereference PROVE Sound'
  <1>1. TypeOK
    BY DEF Sound
  <1>2. PICK N \in SUBSET Night :
            /\ N = {n \in Night : lights[n] > 0} /\ \A n \in N : lights'[n] > 0
            /\ jobs' = InsertAll(PlansFor(N, project', unmatched', lights'))
            /\ project' = [version |-> project.version + 1, reference |-> 0] /\ project.version < MaxVersion
            /\ held' = (held \ N) \cup (N \cap unmatched)
            /\ worker' = Idle \/ worker' = [Idle EXCEPT !.at = "evaluate"]
    BY <1>1, RereferenceSteps
  <1>3. AtRequests /\ spent' \in 0..MaxSpent /\ spent <= spent'
    BY <1>1, Spends DEF Rereference
  <1>4. project' \in [version : Versions, reference : 0..MaxVersion]
    <2>1. project.version \in Versions
      BY <1>1 DEF TypeOK
    <2>2. project.version + 1 \in Versions
      BY <1>2, <2>1, Constants DEF Versions
    <2> QED
      BY <1>2, <2>2, Constants
  <1>5. /\ lights' = lights /\ unmatched' = unmatched /\ invalid' = invalid /\ stale' = TRUE
        /\ UNCHANGED <<sky, decision, flagged, masters, multi, archive, unarchived, catalogs, user, lapsed>>
    BY DEF Rereference, Nights
  <1>6. lights' \in [Night -> 0..MaxBuild] /\ unmatched' \subseteq Night /\ held' \subseteq Night /\ invalid' \subseteq Stack /\ stale' \in BOOLEAN
    BY <1>1, <1>2, <1>5 DEF TypeOK
  <1> QED
    BY <1>2, <1>3, <1>4, <1>5, <1>6, RequestSound

(* Decisions, waivers and merge commands start an evaluation and leave jobs, *)
(* masters and the archive alone.                                            *)
Asks == \/ \E n \in Night, d \in {"include", "exclude"} : Decide(n, d)
        \/ MergeCommand \/ \E n \in Night : Waive(n)
        \/ WorkerSees \/ UserSees \/ UserKilled

LEMMA MustHoldNothing ==
    ASSUME Sound
    PROVE  /\ AtRequests \/ worker.at \in {"gates"} => worker.job = NoPlan /\ \A p \in DOMAIN jobs : jobs[p] # "running"
           /\ \A p \in DOMAIN jobs : p # NoPlan
  <1>1. \A p \in DOMAIN jobs : p # NoPlan
    BY Typing, Plans DEF Sound, JobsIn
  <1> QED
    BY <1>1 DEF Sound, Working, AtRequests, AtJob

LEMMA CurrentIn == TypeOK => Current \subseteq Finals /\ Finals \subseteq DOMAIN masters /\ DOMAIN masters \subseteq Stack /\ \A s \in Finals : IsFinal(s)
  BY DEF TypeOK, IsFn, Current, Finals, IsFinal

LEMMA SeeProcess ==
    ASSUME TypeOK, NEW p, Process(p)
    PROVE  LET q == See(p) IN Process(q) /\ q.at = "record" /\ q.job = p.job /\ q.seen = Evaluate /\ q.project = project
  <1>1. DOMAIN Evaluate = Current /\ \A s \in Current : Evaluate[s] \in Gates
    BY DEF Evaluate, Gate, Gates
  <1>2. IsFn(Evaluate, Stack, Gates)
    BY <1>1, CurrentIn DEF IsFn
  <1>3. project \in [version : 0..MaxVersion, reference : 0..MaxVersion] /\ project.version \in Versions
    BY Constants DEF TypeOK, Versions
  <1> DEFINE g == Evaluate
  <1> HIDE DEF g
  <1>4. IsFn(g, Stack, Gates)
    BY <1>2 DEF g
  <1>5. LET q == [p EXCEPT !.at = "record", !.seen = g, !.project = project]
        IN  Process(q) /\ q.at = "record" /\ q.job = p.job /\ q.seen = g /\ q.project = project
    BY <1>3, <1>4 DEF Process, Idle, Steps
  <1> QED
    BY <1>5 DEF See, g

LEMMA AsksSound == ASSUME Sound, Asks PROVE Sound'
  <1>1. TypeOK /\ Process(worker) /\ Process(user)
    BY Typing DEF Sound
  <1>2. spent' \in 0..MaxSpent /\ spent <= spent'
    BY <1>1, Spends, Stays DEF Asks, Decide, MergeCommand, Waive, WorkerSees, UserSees, UserKilled
  <1>3. UNCHANGED <<project, stale, jobs, masters, multi, archive, unarchived, sky, lights, unmatched, catalogs, invalid>>
    BY DEF Asks, Decide, MergeCommand, Waive, WorkerSees, UserSees, UserKilled, Nights, Catalog
  <1>4. decision' \in [Night -> {"none", "include", "exclude"}]
    <2>1. decision \in [Night -> {"none", "include", "exclude"}]
      BY <1>1 DEF TypeOK
    <2> QED
      BY <2>1 DEF Asks, Decide, MergeCommand, Waive, WorkerSees, UserSees, UserKilled, Catalog
  <1>5. held' \subseteq Night /\ flagged' \subseteq Night \X GATE_ISSUES
    <2>1. held \subseteq Night /\ flagged \subseteq Night \X GATE_ISSUES
      BY <1>1 DEF TypeOK
    <2> QED
      BY <2>1 DEF Asks, Decide, MergeCommand, Waive, WorkerSees, UserSees, UserKilled, Catalog
  <1>6. lapsed' \in BOOLEAN
    <2>1. lapsed \in BOOLEAN
      BY <1>1 DEF TypeOK
    <2>2. lapsed' = lapsed \/ lapsed' = TRUE
      BY DEF Asks, Decide, MergeCommand, Waive, WorkerSees, UserSees, UserKilled
    <2> QED
      BY <2>1, <2>2
  <1>e. "evaluate" \in Steps /\ "record" \in Steps /\ "idle" \in Steps
    BY DEF Steps
  <1>7. /\ Process(worker') /\ worker'.job = worker.job
        /\ worker'.at = worker.at \/ (worker.at = "idle" /\ worker'.at = "evaluate") \/ (worker.at = "evaluate" /\ worker'.at = "record")
    <2>1. CASE \E n \in Night, d \in {"include", "exclude"} : Decide(n, d)
      <3>1. worker.at = "idle" /\ worker' = [Idle EXCEPT !.at = "evaluate"]
        BY <2>1 DEF Decide, AtRequests
      <3>2. worker.job = NoPlan
        BY <3>1, MustHoldNothing DEF AtRequests
      <3> QED
        BY <1>e, <3>1, <3>2, IdleProcess
    <2>2. CASE WorkerSees
      BY <1>1, <2>2, SeeProcess DEF WorkerSees
    <2>3. CASE MergeCommand \/ (\E n \in Night : Waive(n)) \/ UserSees \/ UserKilled
      BY <1>1, <2>3 DEF MergeCommand, Waive, UserSees, UserKilled
    <2> QED
      BY <2>1, <2>2, <2>3 DEF Asks
  <1>8. Process(user') /\ user'.job = NoPlan
    <2>1. user.job = NoPlan
      BY DEF Sound, Working
    <2>2. CASE UserSees
      BY <1>1, <2>1, <2>2, SeeProcess DEF UserSees
    <2>3. CASE user' = user
      BY <1>1, <2>1, <2>3
    <2>4. CASE user' = Idle
      BY <2>4, IdleProcess
    <2>5. CASE user' = [Idle EXCEPT !.at = "evaluate"]
      BY <1>e, <2>5, IdleProcess
    <2> QED
      BY <2>2, <2>3, <2>4, <2>5 DEF Asks, Decide, MergeCommand, Waive, WorkerSees, UserKilled
  <1>9. TypeOK'
    BY <1>1, <1>2, <1>3, <1>4, <1>5, <1>6, <1>7, <1>8, Typing, TypingNext DEF JobsIn, Sides0
  <1>10. Working'
    BY <1>3, <1>7, <1>8 DEF Sound, Working, AtJob
  <1>11. Counted'
    <2>1. catalogs \in Nat /\ spent \in Nat /\ spent' \in Nat
      BY <1>1, <1>2, Typing, Constants
    <2> QED
      BY <1>2, <1>3, <2>1 DEF Sound, Counted, Sides0
  <1> QED
    BY <1>9, <1>10, <1>11 DEF Sound

(* A set of numbers has a least one; a bounded one has a greatest. *)
LEMMA Smallest == ASSUME NEW S \in SUBSET Nat, S # {} PROVE \E x \in S : \A y \in S : x <= y
  <1> DEFINE less == OpToRel(<, Nat)
  <1>1. IsWellFoundedOn(less, Nat)
    BY NatLessThanWellFounded
  <1>2. \A m, n \in S : <<m, n>> \in less <=> m < n
    BY DEF OpToRel
  <1> HIDE DEF less
  <1>3. PICK m \in S : \A n \in S : ~(<<n, m>> \in less)
    BY <1>1, WFMin, Zenon
  <1>4. ASSUME NEW n \in S PROVE m <= n
    <2>1. ~(n < m)
      BY <1>2, <1>3
    <2> QED
      BY <2>1
  <1> QED
    BY <1>4

LEMMA Greatest ==
    ASSUME NEW S \in SUBSET Nat, S # {}, NEW k \in Nat, \A x \in S : x <= k
    PROVE  \E x \in S : \A y \in S : y <= x
  <1> DEFINE T == {k - x : x \in S}
             less == OpToRel(<, Nat)
  <1>1. T \subseteq Nat /\ T # {}
    <2>1. ASSUME NEW x \in S PROVE k - x \in Nat /\ k - x \in T
      OBVIOUS
    <2> QED
      BY <2>1
  <1>2. IsWellFoundedOn(less, Nat)
    BY NatLessThanWellFounded
  <1>3. \A m, n \in T : <<m, n>> \in less <=> m < n
    BY <1>1 DEF OpToRel
  <1> HIDE DEF less
  <1>4. PICK m \in T : \A n \in T : ~(<<n, m>> \in less)
    <2> HIDE DEF T
    <2> QED
      BY <1>1, <1>2, WFMin, Zenon
  <1>5. PICK x \in S : m = k - x
    OBVIOUS
  <1>6. ASSUME NEW y \in S PROVE y <= x
    <2>1. k - y \in T /\ ~(k - y < k - x)
      BY <1>3, <1>4, <1>5
    <2> QED
      BY <2>1
  <1> QED
    BY <1>6

LEMMA GreatestIsMax ==
    ASSUME NEW S \in SUBSET Nat, S # {}, NEW k \in Nat, \A x \in S : x <= k
    PROVE  Max(S) \in S /\ \A y \in S : y <= Max(S)
  <1>1. \E x \in S : \A y \in S : x >= y
    BY Greatest
  <1> QED
    BY <1>1 DEF Max

LEMMA NewestIn ==
    ASSUME Sound, multi # {}
    PROVE  Newest(multi) \in multi /\ Newest(multi).version \in Nat /\ \A m \in multi : m.version <= Newest(multi).version
  <1> DEFINE S == {m.version : m \in multi}
  <1>1. \A m \in multi : m.version \in Nat
    BY Typing DEF Sound
  <1>2. PICK k \in Nat : \A m \in multi : m.version <= k
    BY DEF Sound, Counted
  <1>3. PICK x \in S : \A y \in S : y <= x
    <2>1. S \in SUBSET Nat /\ S # {} /\ \A y \in S : y <= k
      BY <1>1, <1>2
    <2> HIDE DEF S
    <2> QED
      BY <2>1, Greatest
  <1>4. \E m \in multi : \A o \in multi : o.version <= m.version
    BY <1>3
  <1> QED
    BY <1>1, <1>4 DEF Newest

LEMMA VersionForIn ==
    ASSUME Sound, NEW p
    PROVE  /\ VersionFor(p) \in Nat
           /\ \A m \in multi : m.plan = p => \E o \in multi : o.plan = p /\ VersionFor(p) = o.version
  <1>1. \A m \in multi : m.version \in Nat
    BY Typing DEF Sound
  <1>2. CASE \E m \in multi : m.plan = p
    <2>1. (CHOOSE m \in multi : m.plan = p) \in multi /\ (CHOOSE m \in multi : m.plan = p).plan = p
      BY <1>2
    <2> QED
      BY <1>1, <1>2, <2>1 DEF VersionFor
  <1>3. CASE ~\E m \in multi : m.plan = p
    <2>1. CASE multi = {}
      BY <1>3, <2>1 DEF VersionFor
    <2>2. CASE multi # {}
      BY <1>3, <2>2, NewestIn DEF VersionFor
    <2> QED
      BY <1>3, <2>1, <2>2
  <1> QED
    BY <1>2, <1>3

-----------------------------------------------------------------------------
(* The worker's jobs. *)

LEMMA JobAt ==
    ASSUME NEW a \in {"run", "store", "commit", "evaluate", "finish"}, NEW j, Plan(j)
    PROVE  LET p == [Idle EXCEPT !.at = a, !.job = j] IN Process(p) /\ p.at = a /\ p.job = j /\ p.seen = <<>> /\ p.project = Idle.project
  <1>1. a \in Steps \ {"record", "insert"}
    BY DEF Steps
  <1>2. LET p == [Idle EXCEPT !.at = a, !.job = j] IN Process(p) /\ p.at = a /\ p.job = j /\ p.seen = <<>> /\ p.project = Idle.project
    BY <1>1, IdleProcess, Zenon
  <1> QED
    BY <1>2

LEMMA RunJobSound == ASSUME Sound, NEW p \in DOMAIN jobs, RunJob(p) PROVE Sound'
  <1>1. worker.job = NoPlan /\ (\A q \in DOMAIN jobs : jobs[q] # "running") /\ p # NoPlan
    BY MustHoldNothing DEF RunJob
  <1>2. Plan(p) /\ JobsIn
    BY Typing DEF Sound, JobsIn
  <1>3. Process(worker') /\ worker'.at = "run" /\ worker'.job = p
    BY <1>2, JobAt DEF RunJob
  <1>4. jobs' = [jobs EXCEPT ![p] = "running"] /\ UNCHANGED <<project, held, decision, flagged, stale, masters, multi, archive, unarchived, Nights, user, invalid, lapsed, spent>>
    BY DEF RunJob
  <1>5. JobsIn'
    BY <1>2, <1>4 DEF JobsIn, Statuses
  <1>6. TypeOK'
    BY <1>3, <1>4, <1>5, Typing, TypingNext DEF Sound, Sides0, Nights
  <1>7. Working'
    BY <1>1, <1>3, <1>4 DEF Sound, Working, AtJob
  <1> QED
    BY <1>4, <1>6, <1>7 DEF Sound, Counted, Sides0, Nights

(* The job of a worker that is at work on one. *)
LEMMA AtWork ==
    ASSUME Sound, worker.at \in AtJob
    PROVE  /\ worker.job \in DOMAIN jobs /\ jobs[worker.job] = "running" /\ Plan(worker.job) /\ worker.job # NoPlan
           /\ \A q \in DOMAIN jobs : jobs[q] = "running" <=> q = worker.job
  <1>1. worker.job \in DOMAIN jobs /\ worker.job # NoPlan
    BY DEF Sound, Working
  <1> QED
    BY <1>1, Typing DEF Sound, Working, JobsIn

(* The job ends, with any other status: the worker is idle. *)
LEMMA EndSound ==
    ASSUME Sound, worker.at \in AtJob, NEW st \in Statuses \ {"running"},
           jobs' = [jobs EXCEPT ![worker.job] = st], worker' = Idle, spent' \in 0..MaxSpent, spent <= spent',
           UNCHANGED <<project, held, decision, flagged, stale, masters, multi, archive, unarchived, Nights, user, invalid, lapsed>>
    PROVE  Sound'
  <1>1. JobsIn'
    BY Typing DEF Sound, JobsIn, Statuses
  <1>2. Process(worker') /\ worker'.job = NoPlan /\ worker'.at = "idle"
    BY IdleProcess
  <1>3. TypeOK'
    BY <1>1, <1>2, Typing, TypingNext DEF Sound, Sides0, Nights
  <1>4. Working'
    <2>1. \A q \in DOMAIN jobs' : jobs'[q] # "running" /\ q # NoPlan
      BY AtWork, MustHoldNothing
    <2> QED
      BY <1>2, <2>1 DEF Sound, Working, AtJob
  <1>5. Counted'
    <2>1. catalogs \in Nat /\ spent \in Nat /\ spent' \in Nat /\ catalogs' = catalogs
      BY Typing, Constants DEF Sound, Nights
    <2> QED
      BY <2>1 DEF Sound, Counted, Sides0
  <1> QED
    BY <1>3, <1>4, <1>5 DEF Sound

LEMMA JobFailsSound == ASSUME Sound, JobFails PROVE Sound'
  <1>1. spent' \in 0..MaxSpent /\ spent <= spent'
    BY Spends DEF JobFails, Sound
  <1> QED
    BY <1>1, EndSound DEF JobFails, Statuses, AtJob

LEMMA FinishSound == ASSUME Sound, Finish PROVE Sound'
  <1>1. spent' \in 0..MaxSpent /\ spent <= spent'
    BY Stays DEF Finish, Sound
  <1> QED
    BY <1>1, EndSound DEF Finish, Statuses, AtJob

LEMMA RefusedSound == ASSUME Sound, NEW alike \in BOOLEAN, StoreRefused(alike) PROVE Sound'
  <1>1. spent' \in 0..MaxSpent /\ spent <= spent'
    BY Stays DEF StoreRefused, Sound
  <1>2. PICK st \in {"abandoned", "queued"} : jobs' = [jobs EXCEPT ![worker.job] = st]
    BY DEF StoreRefused
  <1> QED
    BY <1>1, <1>2, EndSound DEF StoreRefused, Statuses, AtJob

(* Where the publication of a job begins. *)
LEMMA PublicationIn ==
    ASSUME NEW j, Plan(j)
    PROVE  /\ Process(Publication(j)) /\ Publication(j).job = j /\ Publication(j).seen = <<>> /\ Publication(j).project = Idle.project
           /\ Publication(j).at = IF Reference(j) THEN "commit" ELSE "store"
  <1> DEFINE a == IF IsReference(j) THEN "commit" ELSE "store"
  <1>1. a \in Steps \ {"record", "insert"} /\ (IsReference(j) <=> Reference(j))
    BY Plans DEF Steps
  <1>2. Publication(j) = [Idle EXCEPT !.at = a, !.job = j]
    BY DEF Publication
  <1> HIDE DEF a
  <1>3. Process([Idle EXCEPT !.at = a, !.job = j])
    BY <1>1, IdleProcess
  <1>4. [Idle EXCEPT !.at = a, !.job = j].at = a /\ [Idle EXCEPT !.at = a, !.job = j].job = j
        /\ [Idle EXCEPT !.at = a, !.job = j].seen = <<>> /\ [Idle EXCEPT !.at = a, !.job = j].project = Idle.project
    BY DEF Idle
  <1> QED
    BY <1>1, <1>2, <1>3, <1>4 DEF a

LEMMA RunEndsSteps ==
    ASSUME Sound, RunEnds
    PROVE  /\ worker.at = "run" /\ Process(worker') /\ worker'.job = worker.job /\ worker'.seen = <<>> /\ worker'.project = Idle.project
           /\ worker'.at = IF Reference(worker.job) THEN "commit" ELSE "store"
           /\ UNCHANGED <<Catalog, Nights, archive, unarchived, user, invalid, lapsed, spent>>
  <1>1. worker.at = "run" /\ worker' = Publication(worker.job) /\ UNCHANGED <<Catalog, Nights, archive, unarchived, user, invalid, lapsed, spent>>
    BY DEF RunEnds
  <1>2. Plan(worker.job)
    BY <1>1, AtWork DEF AtJob
  <1> QED
    BY <1>1, <1>2, PublicationIn

LEMMA RunEndsSound == ASSUME Sound, RunEnds PROVE Sound'
  <1> USE RunEndsSteps
  <1>1. TypeOK'
    BY Typing, TypingNext DEF Sound, Sides0, Catalog, Nights, JobsIn
  <1>2. Working'
    BY DEF Sound, Working, AtJob, Catalog
  <1> QED
    BY <1>1, <1>2 DEF Sound, Counted, Sides0, Catalog, Nights

LEMMA Requeues ==
    ASSUME NEW P, jobs' = Requeued(P)
    PROVE  DOMAIN jobs' = DOMAIN jobs /\ \A q \in DOMAIN jobs : jobs'[q] = IF q \in P THEN "queued" ELSE jobs[q]
  BY DEF Requeued

LEMMA CrashAt ==
    ASSUME Sound, Crash
    PROVE  /\ \/ /\ worker.job # NoPlan /\ worker.at \in AtJob /\ (worker.at = "run" \/ IsMerge(worker.job))
                 /\ jobs' = Requeued(Abandoned \cup {worker.job}) /\ worker' = Idle
              \/ /\ worker.job # NoPlan /\ worker.at # "run" /\ ~IsMerge(worker.job) /\ jobs' = Requeued(Abandoned)
                 /\ worker'.job = worker.job /\ worker'.at = IF Reference(worker.job) THEN "commit" ELSE "store"
              \/ /\ worker.job = NoPlan /\ worker.at # "gates" /\ jobs' = Requeued(Abandoned) /\ worker'.job = NoPlan
                 /\ worker'.at = IF worker.at = "idle" THEN "idle" ELSE "evaluate"
           /\ Process(worker') /\ worker'.seen = <<>> /\ worker'.project = Idle.project
           /\ spent' \in 0..MaxSpent /\ spent <= spent'
           /\ UNCHANGED <<project, held, decision, flagged, stale, masters, multi, archive, unarchived, Nights, user, invalid, lapsed>>
  <1>1. spent' \in 0..MaxSpent /\ spent <= spent'
    BY Spends DEF Crash, Sound
  <1>2. UNCHANGED <<project, held, decision, flagged, stale, masters, multi, archive, unarchived, Nights, user, invalid, lapsed>> /\ worker.at # "gates"
    BY DEF Crash
  <1>3. CASE worker.job # NoPlan /\ (worker.at = "run" \/ IsMerge(worker.job))
    <2>1. jobs' = Requeued(Abandoned \cup {worker.job}) /\ worker' = Idle
      BY <1>3 DEF Crash
    <2>2. worker.at \in AtJob
      <3>1. IsFinal(worker.job) => ~IsMerge(worker.job)
        BY Kinds0 DEF IsFinal
      <3> QED
        BY <1>3, <3>1 DEF Sound, Working, AtJob
    <2> QED
      BY <1>1, <1>2, <1>3, <2>1, <2>2, IdleProcess
  <1>4. CASE worker.job # NoPlan /\ ~(worker.at = "run" \/ IsMerge(worker.job))
    <2>1. jobs' = Requeued(Abandoned) /\ worker' = Publication(worker.job)
      BY <1>4 DEF Crash
    <2>2. Plan(worker.job)
      BY <1>4, Typing DEF Sound, Process
    <2> QED
      BY <1>1, <1>2, <1>4, <2>1, <2>2, PublicationIn
  <1>5. CASE worker.job = NoPlan
    <2>1. jobs' = Requeued(Abandoned) /\ worker' = IF worker.at = "idle" THEN Idle ELSE [Idle EXCEPT !.at = "evaluate"]
      BY <1>5 DEF Crash
    <2> QED
      BY <1>1, <1>2, <1>5, <2>1, IdleProcess, Evaluating
  <1> QED
    BY <1>3, <1>4, <1>5

LEMMA CrashSound == ASSUME Sound, Crash PROVE Sound'
  <1> USE CrashAt
  <1>1. PICK Q : jobs' = Requeued(Q)
    OBVIOUS
  <1>2. JobsIn'
    BY <1>1, Requeues, Typing DEF Sound, JobsIn, Statuses
  <1>3. TypeOK'
    BY <1>2, Typing, TypingNext DEF Sound, Sides0, Nights
  <1>4. Working'
    <2>1. \A p \in DOMAIN jobs : p # NoPlan
      BY MustHoldNothing
    <2>2. Abandoned \subseteq DOMAIN jobs /\ \A p \in Abandoned : jobs[p] = "abandoned"
      BY DEF Abandoned
    <2>3. CASE worker.job # NoPlan /\ worker.at \in AtJob /\ (worker.at = "run" \/ IsMerge(worker.job)) /\ jobs' = Requeued(Abandoned \cup {worker.job}) /\ worker' = Idle
      <3>1. ASSUME NEW q \in DOMAIN jobs' PROVE jobs'[q] # "running" /\ q # NoPlan
        <4> DEFINE P == Abandoned \cup {worker.job}
        <4>1. q \in DOMAIN jobs /\ jobs'[q] = IF q \in P THEN "queued" ELSE jobs[q]
          <5>1. jobs' = Requeued(P)
            BY <2>3
          <5> HIDE DEF P
          <5> QED
            BY <5>1, Requeues
        <4>2. q # worker.job => jobs[q] # "running"
          BY <4>1 DEF Sound, Working
        <4> QED
          BY <2>1, <4>1, <4>2
      <3> QED
        BY <2>3, <3>1, IdleProcess DEF Sound, Working, AtJob
    <2>4. CASE /\ worker.job # NoPlan /\ worker.at # "run" /\ ~IsMerge(worker.job) /\ jobs' = Requeued(Abandoned)
               /\ worker'.job = worker.job /\ worker'.at = IF Reference(worker.job) THEN "commit" ELSE "store"
      BY <2>1, <2>2, <2>4, Requeues DEF Sound, Working, AtJob
    <2>5. CASE /\ worker.job = NoPlan /\ worker.at # "gates" /\ jobs' = Requeued(Abandoned) /\ worker'.job = NoPlan
               /\ worker'.at = IF worker.at = "idle" THEN "idle" ELSE "evaluate"
      BY <2>1, <2>2, <2>5, Requeues DEF Sound, Working, AtJob
    <2> QED
      BY <2>3, <2>4, <2>5
  <1>5. Counted'
    <2>1. catalogs \in Nat /\ spent \in Nat /\ spent' \in Nat /\ catalogs' = catalogs
      BY Typing, Constants DEF Sound, Nights
    <2> QED
      BY <2>1 DEF Sound, Counted, Sides0
  <1> QED
    BY <1>3, <1>4, <1>5 DEF Sound

LEMMA SidecarIn ==
    ASSUME Sound, worker.at \in AtJob
    PROVE  LET x == Sidecar(worker.job) IN
           /\ Side(x) /\ x.plan = worker.job /\ x.type = SidecarType(worker.job) /\ x.block = project.version /\ x.catalog = catalogs
           /\ IsMerge(worker.job) => x.version = VersionFor(worker.job)
           /\ \A k \in Nat : (\A m \in multi : m.version <= k) => x.version <= k + 1
  <1>1. Plan(worker.job) /\ VersionFor(worker.job) \in Nat
    BY AtWork, VersionForIn
  <1>2. SidecarType(worker.job) \in Sidecars
    BY DEF SidecarType, Sidecars
  <1>3. project.version \in Versions /\ catalogs \in 0..MaxSpent
    BY DEF Sound, TypeOK
  <1>4. ASSUME NEW k \in Nat, \A m \in multi : m.version <= k PROVE VersionFor(worker.job) <= k + 1
    <2>1. CASE \E m \in multi : m.plan = worker.job
      <3>1. PICK o \in multi : VersionFor(worker.job) = o.version
        BY <2>1, VersionForIn
      <3> QED
        BY <1>1, <1>4, <3>1
    <2>2. CASE ~\E m \in multi : m.plan = worker.job
      BY <1>4, <2>2, NewestIn DEF VersionFor
    <2> QED
      BY <2>1, <2>2
  <1> QED
    BY <1>1, <1>2, <1>3, <1>4 DEF Sidecar, Side

LEMMA StoreSteps ==
    ASSUME Sound, NEW nas \in BOOLEAN, NEW alike \in BOOLEAN, Store(nas, alike)
    PROVE  /\ worker.at = "store" /\ Process(worker') /\ worker'.job = worker.job /\ worker'.seen = worker.seen /\ worker'.project = worker.project
           /\ worker'.at = IF Reference(worker.job) THEN "finish" ELSE "commit"
           /\ UNCHANGED <<project, held, decision, flagged, stale, jobs, masters, multi, sky, lights, unmatched, catalogs, user, invalid, lapsed>>
           /\ Sides0 \subseteq Sides0' /\ Sides0' \subseteq Sides0 \cup {Sidecar(worker.job)}
           /\ Archives(worker.job) => Known(worker.job)'
           /\ Sides0' = Sides0 \/ (IsStack(worker.job) => IsFinal(worker.job))
           /\ spent' \in 0..MaxSpent /\ spent <= spent'
  <1> DEFINE new   == Sidecar(worker.job)
             there == {s \in archive : SamePath(s, new)}
             known == Provisional(worker.job) \/ \E s \in there : SameBytes(s, new, alike)
  <1>1. /\ worker.at = "store" /\ worker' = AfterStore /\ Plan(worker.job)
        /\ UNCHANGED <<project, held, decision, flagged, stale, jobs, masters, multi, sky, lights, unmatched, catalogs, user, invalid, lapsed>>
    <2>1. worker.at = "store" /\ worker' = AfterStore
      BY DEF Store
    <2>2. UNCHANGED <<project, held, decision, flagged, stale, jobs, masters, multi, sky, lights, unmatched, catalogs, user, invalid, lapsed>>
      BY DEF Store, Catalog, Nights
    <2> QED
      BY <2>1, <2>2, AtWork DEF AtJob
  <1>2. /\ Process(worker') /\ worker'.job = worker.job /\ worker'.seen = worker.seen /\ worker'.project = worker.project
        /\ worker'.at = IF Reference(worker.job) THEN "finish" ELSE "commit"
    <2>1. Process(worker) /\ "commit" \in Steps /\ "finish" \in Steps /\ (IsReference(worker.job) <=> Reference(worker.job))
      BY <1>1, Typing, Plans DEF Sound, Steps
    <2>2. CASE Reference(worker.job)
      <3>1. worker' = [worker EXCEPT !.at = "finish"]
        BY <1>1, <2>1, <2>2 DEF AfterStore
      <3> QED
        BY <2>1, <2>2, <3>1, ProcessAt
    <2>3. CASE ~Reference(worker.job)
      <3>1. worker' = [worker EXCEPT !.at = "commit"]
        BY <1>1, <2>1, <2>3 DEF AfterStore
      <3> QED
        BY <2>1, <2>3, <3>1, ProcessAt
    <2> QED
      BY <2>2, <2>3
  <1>3. spent' \in 0..MaxSpent /\ spent <= spent'
    BY Spends, Stays DEF Store, Sound
  <1>4. /\ Provisional(worker.job) <=> IsStack(worker.job) /\ ~IsFinal(worker.job)
        /\ Archives(worker.job) => ~Provisional(worker.job)
    <2>1. worker.job \in Stack <=> IsStack(worker.job)
      BY <1>1, Plans
    <2>2. IsMerge(worker.job) => ~IsStack(worker.job)
      BY <1>1, Plans
    <2> QED
      BY <2>1, <2>2 DEF Provisional, Archives, IsFinal
  <1>5. new.plan = worker.job /\ (IsMerge(worker.job) => new.version = VersionFor(worker.job))
    BY <1>1, SidecarIn DEF AtJob
  <1>6. VersionFor(worker.job)' = VersionFor(worker.job)
    BY <1>1, <1>2 DEF VersionFor, Newest
  <1> HIDE DEF new
  <1>7. ASSUME NEW x \in Sides0', SamePath(x, new) PROVE Known(worker.job)'
    BY <1>2, <1>5, <1>6, <1>7 DEF Known, SamePath
  <1>8. CASE known
    <2>1. Sides0' = Sides0
      BY <1>8 DEF Store, Sides0, new
    <2>2. Archives(worker.job) => Known(worker.job)'
      BY <1>4, <1>7, <1>8, <2>1 DEF Sides0
    <2> QED
      BY <1>1, <1>2, <1>3, <2>1, <2>2
  <1>9. CASE ~known
    <2>1. Sides0' = Sides0 \cup {new}
      BY <1>9 DEF Store, Sides0, new
    <2>2. Known(worker.job)'
      BY <1>7, <2>1 DEF SamePath
    <2>3. IsStack(worker.job) => IsFinal(worker.job)
      BY <1>4, <1>9
    <2> QED
      BY <1>1, <1>2, <1>3, <2>1, <2>2, <2>3 DEF new
  <1> QED
    BY <1>8, <1>9

LEMMA StoreSound == ASSUME Sound, NEW nas \in BOOLEAN, NEW alike \in BOOLEAN, Store(nas, alike) PROVE Sound'
  <1> USE StoreSteps
  <1>2. \A x \in Sides0' : Side(x)
    BY SidecarIn, Typing DEF Sound, AtJob
  <1>3. TypeOK'
    BY <1>2, Typing, TypingNext DEF Sound, JobsIn
  <1>4. Working'
    BY DEF Sound, Working, AtJob
  <1>5. Counted'
    <2>1. catalogs \in Nat /\ spent \in Nat /\ spent' \in Nat
      BY Typing, Constants DEF Sound
    <2>2. PICK k \in Nat : (\A m \in multi : m.version <= k) /\ (\A x \in Sides0 : x.version <= k)
      BY DEF Sound, Counted
    <2>3. \A m \in multi : m.version \in Nat
      BY Typing DEF Sound
    <2>4. \A x \in Sides0 : x.version \in Nat
      BY Typing DEF Sound, Side
    <2>5. Sidecar(worker.job).version <= k + 1
      BY <2>2, SidecarIn DEF AtJob
    <2>6. k + 1 \in Nat /\ (\A m \in multi' : m.version <= k + 1) /\ (\A x \in Sides0' : x.version <= k + 1)
      BY <2>2, <2>3, <2>4, <2>5
    <2>7. catalogs' <= spent'
      BY <2>1 DEF Sound, Counted
    <2>8. \A x \in Sides0' : x.type = SidecarType(x.plan) /\ (IsStack(x.plan) => IsFinal(x.plan))
      BY SidecarIn DEF Sound, Counted, AtJob
    <2> QED
      BY <2>6, <2>7, <2>8 DEF Counted
  <1> QED
    BY <1>3, <1>4, <1>5 DEF Sound

LEMMA AfterCommitIn ==
    ASSUME Sound, worker.at = "commit"
    PROVE  /\ Process(AfterCommit) /\ AfterCommit.job = worker.job /\ AfterCommit.seen = worker.seen /\ AfterCommit.project = worker.project
           /\ AfterCommit.at = IF IsFinal(worker.job) THEN "evaluate" ELSE IF Reference(worker.job) THEN "store" ELSE "finish"
  <1> DEFINE a == IF IsFinal(worker.job) THEN "evaluate" ELSE IF Reference(worker.job) THEN "store" ELSE "finish"
  <1>1. Process(worker) /\ a \in Steps \ {"record", "insert"}
    BY Typing DEF Sound, Steps
  <1>2. /\ IsFinal(worker.job) <=> IsStack(worker.job) /\ worker.job.kind = "final"
        /\ IsReference(worker.job) <=> Reference(worker.job)
    BY AtWork, Plans DEF IsFinal, AtJob
  <1>3. AfterCommit = [worker EXCEPT !.at = a]
    BY <1>2 DEF AfterCommit
  <1> HIDE DEF a
  <1>4. LET q == [worker EXCEPT !.at = a] IN Process(q) /\ q.at = a /\ q.job = worker.job /\ q.seen = worker.seen /\ q.project = worker.project
    BY <1>1, ProcessAt
  <1> QED
    BY <1>3, <1>4 DEF a

LEMMA SupersedingRows ==
    ASSUME TypeOK, NEW s \in Stack
    PROVE  /\ IsFn(Superseding(s), Stack, Row0) /\ DOMAIN Superseding(s) = DOMAIN masters \cup {s}
           /\ s \notin DOMAIN masters => Superseding(s)[s].by = NoStack
           /\ s \in DOMAIN masters => Superseding(s)[s].by = masters[s].by
           /\ \A t \in DOMAIN masters \ {s} :
                Superseding(s)[t].by = IF masters[t].by = NoStack /\ t.night = s.night /\ t.kind \in SupersededBy(s) THEN s ELSE masters[t].by
  <1> DEFINE rows == WithRow(s)
             new  == [by |-> NoStack, status |-> IF s.kind = "final" THEN "pending" ELSE "provisional"]
  <1>1. IsFn(masters, Stack, Row0)
    BY Typing
  <1>2. new \in Row0 /\ new.by = NoStack
    BY DEF Row0
  <1>3. /\ DOMAIN rows = DOMAIN masters \cup {s}
        /\ \A t \in DOMAIN masters : rows[t] = masters[t]
        /\ s \notin DOMAIN masters => rows[s] = new
    BY DEF WithRow, Row
  <1>4. IsFn(rows, Stack, Row0)
    <2> HIDE DEF rows, new
    <2> QED
      BY <1>1, <1>2, <1>3 DEF IsFn
  <1> HIDE DEF rows
  <1>5. /\ DOMAIN Superseding(s) = DOMAIN rows
        /\ \A t \in DOMAIN rows : Superseding(s)[t] =
               IF t # s /\ rows[t].by = NoStack /\ t.night = s.night /\ t.kind \in SupersededBy(s) THEN [rows[t] EXCEPT !.by = s] ELSE rows[t]
    BY DEF Superseding, rows
  <1>6. ASSUME NEW t \in DOMAIN rows
        PROVE  /\ Superseding(s)[t] \in Row0
               /\ Superseding(s)[t].by = IF t # s /\ rows[t].by = NoStack /\ t.night = s.night /\ t.kind \in SupersededBy(s) THEN s ELSE rows[t].by
    <2>1. rows[t] \in Row0
      BY <1>4 DEF IsFn
    <2>2. [rows[t] EXCEPT !.by = s] \in Row0 /\ [rows[t] EXCEPT !.by = s].by = s
      BY <2>1 DEF Row0
    <2> QED
      BY <1>5, <2>1, <2>2
  <1>7. IsFn(Superseding(s), Stack, Row0)
    BY <1>3, <1>4, <1>5, <1>6 DEF IsFn
  <1> QED
    BY <1>2, <1>3, <1>5, <1>6, <1>7

LEMMA CommitStackSound == ASSUME Sound, CommitStack PROVE Sound'
  <1>1. worker.at = "commit" /\ worker.job \in Stack
    BY AtWork, Plans DEF CommitStack, AtJob
  <1>2. Process(worker') /\ worker'.job = worker.job /\ worker'.at = IF IsFinal(worker.job) THEN "evaluate" ELSE "finish"
    BY <1>1, AfterCommitIn, Kinds0, Plans DEF CommitStack
  <1>3. IsFn(masters', Stack, Row0)
    BY <1>1, SupersedingRows DEF CommitStack, Sound
  <1>4. UNCHANGED <<project, held, decision, flagged, stale, jobs, multi, archive, unarchived, Nights, user, invalid, lapsed, spent>>
    BY DEF CommitStack
  <1>5. TypeOK'
    BY <1>2, <1>3, <1>4, Typing, TypingNext DEF Sound, JobsIn, Sides0, Nights
  <1>6. Working'
    BY <1>1, <1>2, <1>4, AtWork DEF Sound, Working, AtJob
  <1> QED
    BY <1>4, <1>5, <1>6 DEF Sound, Counted, Sides0, Nights

LEMMA CommitReferenceSound == ASSUME Sound, CommitReference PROVE Sound'
  <1>1. worker.at = "commit" /\ Reference(worker.job)
    BY AtWork, Plans DEF CommitReference, AtJob
  <1>2. ~IsFinal(worker.job)
    BY <1>1, AtWork, Plans DEF IsFinal, AtJob
  <1>3. Process(worker') /\ worker'.job = worker.job /\ worker'.at = "store"
    BY <1>1, <1>2, AfterCommitIn DEF CommitReference
  <1>4. UNCHANGED <<held, decision, flagged, stale, jobs, masters, multi, archive, unarchived, Nights, user, invalid, lapsed, spent>>
    BY DEF CommitReference
  <1>5. project' \in [version : Versions, reference : 0..MaxVersion]
    <2>1. worker.job.reference \in 0..MaxVersion
      BY <1>1, Constants DEF Reference, Versions
    <2> QED
      BY <2>1 DEF CommitReference, Sound, TypeOK
  <1>6. TypeOK'
    BY <1>3, <1>4, <1>5, Typing, TypingNext DEF Sound, JobsIn, Sides0, Nights
  <1>7. Working'
    BY <1>1, <1>3, <1>4, AtWork DEF Sound, Working, AtJob
  <1> QED
    BY <1>4, <1>6, <1>7 DEF Sound, Counted, Sides0, Nights

LEMMA CommitMergeSound == ASSUME Sound, CommitMerge PROVE Sound'
  <1>1. worker.at = "commit" /\ Merge(worker.job) /\ ~IsFinal(worker.job)
    BY AtWork, Plans DEF CommitMerge, IsFinal, AtJob
  <1>2. Process(worker') /\ worker'.job = worker.job /\ worker'.at = "finish"
    BY <1>1, AfterCommitIn, AtWork, Plans DEF CommitMerge, AtJob
  <1>3. UNCHANGED <<project, held, decision, flagged, stale, jobs, archive, unarchived, Nights, user, invalid, lapsed, spent>>
    BY DEF CommitMerge
  <1>4. IsFn(masters', Stack, Row0)
    <2>1. IsFn(masters, Stack, Row0)
      BY Typing DEF Sound
    <2>2. \A s \in DOMAIN masters : [masters[s] EXCEPT !.status = "merged"] \in Row0
      BY <2>1 DEF IsFn, Row0
    <2> QED
      BY <2>1, <2>2 DEF CommitMerge, IsFn
  <1>5. multi' \subseteq [plan : [inputs : SUBSET Stack, version : Versions], version : Nat]
    <2>1. VersionFor(worker.job) \in Nat /\ multi \subseteq [plan : [inputs : SUBSET Stack, version : Versions], version : Nat]
      BY VersionForIn, Typing DEF Sound
    <2>2. worker.job \in [inputs : SUBSET Stack, version : Versions]
      BY <1>1 DEF Merge
    <2> QED
      BY <2>1, <2>2 DEF CommitMerge
  <1>6. TypeOK'
    BY <1>2, <1>3, <1>4, <1>5, Typing, TypingNext DEF Sound, JobsIn, Sides0, Nights
  <1>7. Working'
    BY <1>1, <1>2, <1>3, AtWork DEF Sound, Working, AtJob
  <1>8. Counted'
    <2>1. PICK k \in Nat : (\A m \in multi : m.version <= k) /\ (\A x \in Sides0 : x.version <= k)
      BY DEF Sound, Counted
    <2>2. \A m \in multi : m.version \in Nat
      BY Typing DEF Sound
    <2>3. \A x \in Sides0 : x.version \in Nat
      BY Typing DEF Sound, Side
    <2>4. IsMerge(worker.job)
      BY DEF CommitMerge
    <2>5. VersionFor(worker.job) <= k + 1
      BY <1>1, <2>1, <2>4, SidecarIn DEF AtJob
    <2>6. k + 1 \in Nat /\ (\A m \in multi' : m.version <= k + 1) /\ (\A x \in Sides0' : x.version <= k + 1)
      BY <1>3, <2>1, <2>2, <2>3, <2>5 DEF CommitMerge, Sides0
    <2>7. Sides0' = Sides0 /\ catalogs' = catalogs /\ spent' = spent
      BY <1>3 DEF Sides0, Nights
    <2>8. \A x \in Sides0' : x.type = SidecarType(x.plan) /\ (IsStack(x.plan) => IsFinal(x.plan))
      BY <2>7 DEF Sound, Counted
    <2>9. catalogs' <= spent'
      BY <2>7 DEF Sound, Counted
    <2> QED
      BY <2>6, <2>8, <2>9 DEF Counted
  <1> QED
    BY <1>6, <1>7, <1>8 DEF Sound

-----------------------------------------------------------------------------
(* plan_merge, and the rebuild. *)

LEMMA RecordedRows ==
    ASSUME TypeOK, NEW g
    PROVE  /\ IsFn(Recorded(g), Stack, Row0) /\ DOMAIN Recorded(g) = DOMAIN masters
           /\ \A s \in DOMAIN masters : Recorded(g)[s].by = masters[s].by
  <1>1. IsFn(masters, Stack, Row0)
    BY Typing
  <1>2. DOMAIN Recorded(g) = DOMAIN masters
    BY DEF Recorded
  <1>3. ASSUME NEW s \in DOMAIN masters
        PROVE  Recorded(g)[s] \in Row0 /\ Recorded(g)[s].by = masters[s].by
    <2>1. masters[s] \in Row0
      BY <1>1 DEF IsFn
    <2>2. \A st \in {"eligible", "blocked"} : [masters[s] EXCEPT !.status = st] \in Row0 /\ [masters[s] EXCEPT !.status = st].by = masters[s].by
      BY <2>1 DEF Row0
    <2>3. Recorded(g)[s] = masters[s] \/ \E st \in {"eligible", "blocked"} : Recorded(g)[s] = [masters[s] EXCEPT !.status = st]
      BY DEF Recorded
    <2> QED
      BY <2>1, <2>2, <2>3
  <1> QED
    BY <1>1, <1>2, <1>3 DEF IsFn

LEMMA FlaggedIn ==
    ASSUME TypeOK, NEW g, IsFn(g, Stack, Gates)
    PROVE  Flagged(g) \subseteq Night \X GATE_ISSUES
  <1>1. \A s \in DOMAIN g : s.night \in Night
    BY DEF IsFn, Stack
  <1> QED
    BY <1>1 DEF Flagged, TypeOK

LEMMA EndIn ==
    ASSUME NEW p, Process(p)
    PROVE  /\ Process(End(p)) /\ End(p).job = p.job /\ End(p).seen = <<>> /\ End(p).project = Idle.project
           /\ End(p).at = IF p.job = NoPlan THEN "idle" ELSE "finish"
  <1>1. CASE p.job = NoPlan
    BY <1>1, IdleProcess DEF End
  <1>2. CASE p.job # NoPlan
    <2>1. Plan(p.job)
      BY <1>2 DEF Process
    <2> DEFINE j == p.job
    <2> HIDE DEF j
    <2>2. LET q == [Idle EXCEPT !.at = "finish", !.job = j] IN Process(q) /\ q.at = "finish" /\ q.job = j /\ q.seen = <<>> /\ q.project = Idle.project
      BY <2>1, JobAt DEF j
    <2>3. End(p) = [Idle EXCEPT !.at = "finish", !.job = j]
      BY <1>2 DEF End, j
    <2>4. Process(End(p)) /\ End(p).at = "finish" /\ End(p).job = j /\ End(p).seen = <<>> /\ End(p).project = Idle.project
      BY <2>2, <2>3
    <2> QED
      BY <1>2, <2>4 DEF j
  <1> QED
    BY <1>1, <1>2

LEMMA RecorderIn ==
    ASSUME NEW p, Process(p), p.at = "record"
    PROVE  /\ Process(Recorder(p)) /\ Recorder(p).job = p.job
           /\ Ready(p) => Recorder(p).seen = p.seen /\ Recorder(p).project = p.project /\ Recorder(p).at = "insert"
           /\ ~Ready(p) => Recorder(p) = End(p)
           /\ Recorder(p).at \in {"insert", IF p.job = NoPlan THEN "idle" ELSE "finish"}
  <1>1. CASE Ready(p)
    <2>1. "insert" \in Steps /\ p.project.version \in Versions /\ Recorder(p) = [p EXCEPT !.at = "insert"]
      BY <1>1 DEF Steps, Recorder, Process
    <2> QED
      BY <1>1, <2>1, ProcessAt
  <1>2. CASE ~Ready(p)
    BY <1>2, EndIn DEF Recorder
  <1> QED
    BY <1>1, <1>2

(* One process plans a merge; the other stays as it is. *)
LEMMA RecordSteps ==
    ASSUME TypeOK, NEW p \in {worker, user}, Record(p)
    PROVE  /\ IsFn(masters', Stack, Row0) /\ DOMAIN masters' = DOMAIN masters /\ \A s \in DOMAIN masters : masters'[s].by = masters[s].by
           /\ flagged' \subseteq Night \X GATE_ISSUES /\ stale' \in BOOLEAN /\ lapsed' \in BOOLEAN /\ Process(p) /\ p.at = "record"
           /\ UNCHANGED <<project, held, decision, jobs, multi, archive, unarchived, sky, lights, unmatched, catalogs, invalid, spent>>
  <1>1. Process(p)
    BY Typing
  <1>2. flagged' \subseteq Night \X GATE_ISSUES
    BY <1>1, FlaggedIn DEF Record, Process
  <1>3. stale' \in BOOLEAN /\ lapsed' \in BOOLEAN
    BY DEF Record
  <1> QED
    BY <1>1, <1>2, <1>3, RecordedRows DEF Record, Nights

LEMMA RecordsSound == ASSUME Sound, WorkerRecords \/ UserRecords PROVE Sound'
  <1>1. PICK p \in {worker, user} : Record(p)
    BY DEF WorkerRecords, UserRecords
  <1>2. TypeOK /\ Process(worker) /\ Process(user)
    BY Typing DEF Sound
  <1>3. /\ IsFn(masters', Stack, Row0)
        /\ flagged' \subseteq Night \X GATE_ISSUES /\ stale' \in BOOLEAN /\ lapsed' \in BOOLEAN
        /\ UNCHANGED <<project, held, decision, jobs, multi, archive, unarchived, sky, lights, unmatched, catalogs, invalid, spent>>
    BY <1>1, <1>2, RecordSteps
  <1>4. /\ Process(worker') /\ worker'.job = worker.job /\ Process(user') /\ user'.job = user.job
        /\ worker'.at = worker.at \/ (worker.at = "record" /\ worker'.at \in {"insert", IF worker.job = NoPlan THEN "idle" ELSE "finish"})
    <2>1. CASE WorkerRecords
      <3>1. worker.at = "record" /\ worker' = Recorder(worker) /\ user' = user
        BY <2>1 DEF WorkerRecords, Record
      <3> QED
        BY <1>2, <3>1, RecorderIn
    <2>2. CASE UserRecords
      <3>1. user.at = "record" /\ user' = Recorder(user) /\ worker' = worker
        BY <2>2 DEF UserRecords, Record
      <3>2. Process(Recorder(user)) /\ Recorder(user).job = user.job
        BY <1>2, <3>1, RecorderIn
      <3>3. Process(worker') /\ worker'.job = worker.job /\ worker'.at = worker.at
        BY <1>2, <3>1
      <3>4. Process(user') /\ user'.job = user.job
        BY <3>1, <3>2, Zenon
      <3> QED
        BY <3>3, <3>4
    <2> QED
      BY <2>1, <2>2
  <1>5. TypeOK'
    BY <1>2, <1>3, <1>4, Typing, TypingNext DEF JobsIn, Sides0
  <1>6. Working'
    BY <1>3, <1>4 DEF Sound, Working, AtJob
  <1> QED
    BY <1>3, <1>5, <1>6 DEF Sound, Counted, Sides0

LEMMA MergeOfPlan == ASSUME TypeOK, NEW p \in {worker, user}, p.at = "insert" PROVE Merge(MergeOf(p))
  <1>1. Process(p)
    BY Typing
  <1>2. Eligible(p.seen) \subseteq Stack
    BY <1>1 DEF Process, IsFn, Eligible
  <1> QED
    BY <1>1, <1>2 DEF MergeOf, Merge, Process

(* One process queues its merge; the other stays as it is. *)
LEMMA QueueSteps ==
    ASSUME TypeOK, NEW p \in {worker, user}, Insert(p)
    PROVE  /\ jobs' = jobs \/ Inserts({MergeOf(p)}, jobs')
           /\ Merge(MergeOf(p)) /\ JobsIn' /\ Process(p) /\ p.at = "insert" /\ lapsed' \in BOOLEAN
           /\ UNCHANGED <<project, held, decision, flagged, stale, masters, multi, archive, unarchived, sky, lights, unmatched, catalogs, invalid, spent>>
  <1>1. JobsIn /\ Process(p) /\ p.at = "insert" /\ lapsed \in BOOLEAN
    BY Typing DEF Insert
  <1>2. Merge(MergeOf(p)) /\ Plan(MergeOf(p))
    BY <1>1, MergeOfPlan DEF Plan
  <1>3. jobs' = jobs \/ Inserts({MergeOf(p)}, jobs')
    BY <1>1, QueuedInserts DEF Insert
  <1>4. JobsIn'
    <2>1. CASE jobs' = jobs
      BY <1>1, <2>1 DEF JobsIn
    <2>2. CASE Inserts({MergeOf(p)}, jobs')
      <3> DEFINE P == {MergeOf(p)}
                 new == jobs'
      <3>1. Inserts(P, new) /\ (\A q \in P : Plan(q)) /\ jobs' = new
        BY <1>2, <2>2
      <3> HIDE DEF P
      <3> QED
        BY <1>1, <3>1, InsertsTyped
    <2> QED
      BY <1>3, <2>1, <2>2
  <1> QED
    BY <1>1, <1>2, <1>3, <1>4 DEF Insert, Nights

LEMMA QueuesSound == ASSUME Sound, WorkerQueues \/ UserQueues PROVE Sound'
  <1>1. PICK p \in {worker, user} : Insert(p)
    BY DEF WorkerQueues, UserQueues
  <1>2. TypeOK /\ Process(worker) /\ Process(user)
    BY Typing DEF Sound
  <1>3. /\ jobs' = jobs \/ Inserts({MergeOf(p)}, jobs')
        /\ Merge(MergeOf(p)) /\ JobsIn' /\ lapsed' \in BOOLEAN
        /\ UNCHANGED <<project, held, decision, flagged, stale, masters, multi, archive, unarchived, sky, lights, unmatched, catalogs, invalid, spent>>
    BY <1>1, <1>2, QueueSteps
  <1>4. /\ Process(worker') /\ worker'.job = worker.job /\ Process(user') /\ user'.job = user.job
        /\ worker'.at = worker.at \/ (worker.at = "insert" /\ worker'.at = IF worker.job = NoPlan THEN "idle" ELSE "finish")
    <2>1. CASE WorkerQueues
      <3>1. worker.at = "insert" /\ worker' = End(worker) /\ user' = user
        BY <2>1 DEF WorkerQueues, Insert
      <3> QED
        BY <1>2, <3>1, EndIn
    <2>2. CASE UserQueues
      <3>1. user.at = "insert" /\ user' = End(user) /\ worker' = worker
        BY <2>2 DEF UserQueues, Insert
      <3> QED
        BY <1>2, <3>1, EndIn
    <2> QED
      BY <2>1, <2>2
  <1>5. TypeOK'
    BY <1>2, <1>3, <1>4, Typing, TypingNext DEF Sides0
  <1>6. Working'
    <2>1. \A q \in DOMAIN jobs' : jobs'[q] = "running" <=> q = worker'.job
      <3>1. CASE jobs' = jobs
        BY <1>4, <3>1 DEF Sound, Working, AtJob
      <3>2. CASE Inserts({MergeOf(p)}, jobs')
        <4>1. ASSUME MergeOf(p) \notin DOMAIN jobs PROVE MergeOf(p) # worker.job
          <5>1. Plan(MergeOf(p))
            BY <1>3 DEF Plan
          <5> QED
            BY <4>1, <5>1, Plans DEF Sound, Working, AtJob
        <4>2. ASSUME NEW q \in DOMAIN jobs PROVE jobs'[q] = "running" <=> q = worker.job
          BY <3>2 DEF Sound, Working, Inserts
        <4>3. MergeOf(p) \notin DOMAIN jobs => jobs'[MergeOf(p)] = "queued"
          BY <3>2 DEF Inserts
        <4>4. DOMAIN jobs' = DOMAIN jobs \cup {MergeOf(p)}
          BY <3>2 DEF Inserts
        <4> QED
          BY <1>4, <4>1, <4>2, <4>3, <4>4
      <3> QED
        BY <1>3, <3>1, <3>2
    <2>2. DOMAIN jobs \subseteq DOMAIN jobs'
      BY <1>3 DEF Inserts
    <2> QED
      BY <1>4, <2>1, <2>2 DEF Sound, Working, AtJob
  <1> QED
    BY <1>3, <1>5, <1>6 DEF Sound, Counted, Sides0

LEMMA BackfillSound == ASSUME Sound, NEW S \in SUBSET unarchived, BackfillNas(S) PROVE Sound'
  <1>1. Sides0' = Sides0
    BY DEF BackfillNas, Sides0
  <1>2. UNCHANGED <<project, held, decision, flagged, stale, jobs, masters, multi, sky, lights, unmatched, catalogs, worker, user, invalid, lapsed, spent>>
    BY DEF BackfillNas, Catalog, Nights
  <1>3. TypeOK'
    BY <1>1, <1>2, Typing, TypingNext DEF Sound, JobsIn
  <1> QED
    BY <1>1, <1>2, <1>3 DEF Sound, Counted, Working

LEMMA RebuiltGatesSteps ==
    ASSUME TypeOK, RebuiltGates
    PROVE  /\ IsFn(masters', Stack, Row0) /\ DOMAIN masters' = DOMAIN masters /\ \A s \in DOMAIN masters : masters'[s].by = masters[s].by
           /\ flagged' \subseteq Night \X GATE_ISSUES /\ worker.at = "gates" /\ worker' = Idle
           /\ UNCHANGED <<project, held, decision, stale, jobs, multi, archive, unarchived, sky, lights, unmatched, catalogs, user, invalid, lapsed, spent>>
  <1> DEFINE rows == Recorded(Evaluate)
  <1>1. IsFn(rows, Stack, Row0) /\ DOMAIN rows = DOMAIN masters /\ \A s \in DOMAIN masters : rows[s].by = masters[s].by
    BY RecordedRows
  <1>2. IsFn(Evaluate, Stack, Gates)
    BY CurrentIn DEF Evaluate, Gate, Gates, IsFn
  <1>3. IsFn(masters, Stack, Row0)
    BY Typing
  <1> HIDE DEF rows
  <1>0. PICK merged : masters' = [s \in DOMAIN masters |-> IF rows[s].status = "eligible" /\ s \in merged
                                                           THEN [masters[s] EXCEPT !.status = "merged"] ELSE rows[s]]
    BY DEF RebuiltGates, rows
  <1>4. DOMAIN masters' = DOMAIN masters
    BY <1>0
  <1>5. ASSUME NEW s \in DOMAIN masters
        PROVE  masters'[s] = rows[s] \/ masters'[s] = [masters[s] EXCEPT !.status = "merged"]
    BY <1>0
  <1>6. ASSUME NEW s \in DOMAIN masters
        PROVE  masters'[s] \in Row0 /\ masters'[s].by = masters[s].by
    <2>1. rows[s] \in Row0 /\ rows[s].by = masters[s].by /\ masters[s] \in Row0
      BY <1>1, <1>3 DEF IsFn
    <2>2. [masters[s] EXCEPT !.status = "merged"] \in Row0 /\ [masters[s] EXCEPT !.status = "merged"].by = masters[s].by
      BY <2>1 DEF Row0
    <2> QED
      BY <1>5, <2>1, <2>2
  <1>7. flagged' \subseteq Night \X GATE_ISSUES
    BY <1>2, FlaggedIn DEF RebuiltGates
  <1> QED
    BY <1>3, <1>4, <1>6, <1>7 DEF RebuiltGates, IsFn, Nights

LEMMA RebuiltGatesSound == ASSUME Sound, RebuiltGates PROVE Sound'
  <1> USE DEF Sound
  <1>1. /\ IsFn(masters', Stack, Row0)
        /\ flagged' \subseteq Night \X GATE_ISSUES /\ worker.at = "gates" /\ worker' = Idle
        /\ UNCHANGED <<project, held, decision, stale, jobs, multi, archive, unarchived, sky, lights, unmatched, catalogs, user, invalid, lapsed, spent>>
    BY RebuiltGatesSteps
  <1>2. Process(worker') /\ worker'.job = NoPlan /\ worker'.at = "idle"
    BY <1>1, IdleProcess
  <1>3. TypeOK'
    BY <1>1, <1>2, Typing, TypingNext DEF JobsIn, Sides0
  <1>4. Working'
    BY <1>1, <1>2, MustHoldNothing DEF Working, AtJob
  <1> QED
    BY <1>1, <1>3, <1>4 DEF Counted, Sides0

LEMMA SideKinds ==
    ASSUME Sound
    PROVE  /\ \A x \in Sides("night_master") : Side(x) /\ IsFinal(x.plan) /\ x.plan \in Stack
           /\ \A x \in Sides("project_reference") : Side(x) /\ Reference(x.plan)
           /\ \A x \in Sides("multi_night_master") : Side(x) /\ Merge(x.plan) /\ IsMerge(x.plan)
           /\ \A t : Sides(t) \subseteq archive
  <1>1. \A x \in archive : Side(x) /\ Plan(x.plan) /\ x.type = SidecarType(x.plan) /\ (IsStack(x.plan) => IsFinal(x.plan))
    BY Typing DEF Sound, Counted, Sides0, Side
  <1>2. \A t : Sides(t) \subseteq archive /\ \A x \in Sides(t) : x.type = t
    BY DEF Sides
  <1>3. ASSUME NEW x \in Sides("night_master") PROVE IsFinal(x.plan)
    BY <1>1, <1>2 DEF SidecarType
  <1>4. ASSUME NEW x \in Sides("project_reference") PROVE Reference(x.plan)
    BY <1>1, <1>2, Plans DEF SidecarType
  <1>5. ASSUME NEW x \in Sides("multi_night_master") PROVE Merge(x.plan) /\ IsMerge(x.plan)
    BY <1>1, <1>2, Plans DEF SidecarType
  <1> QED
    BY <1>1, <1>2, <1>3, <1>4, <1>5 DEF IsFinal

LEMMA RebuiltProjectIn ==
    ASSUME Sound
    PROVE  RebuiltProjects \subseteq [version : Versions, reference : 0..MaxVersion]
  <1>1. \A x \in archive : x.block \in Versions
    BY Typing DEF Sound, Side, Sides0
  <1>2. FirstSidecars \subseteq archive
    BY SideKinds DEF FirstSidecars
  <1>3. ASSUME NEW x \in archive PROVE RebuiltProject(x) \in [version : Versions, reference : 0..MaxVersion]
    BY <1>1, <1>3, Constants DEF RebuiltProject, Versions
  <1> QED
    BY <1>2, <1>3, Constants DEF RebuiltProjects, Versions

(* The masters of a rebuilt catalog: those of the sidecars, one of each night current. *)
LEMMA RebuiltMastersIn ==
    ASSUME Sound, NEW last \in Rankings
    PROVE  LET new == RebuiltMasters(last) IN
           /\ IsFn(new, Stack, Row0) /\ DOMAIN new = {x.plan : x \in Sides("night_master")}
           /\ \A s \in DOMAIN new : /\ IsFinal(s) /\ last[s.night] \in DOMAIN new /\ last[s.night].night = s.night
                                    /\ \E x \in Sides("night_master") : x.plan = last[s.night] /\ ~Outranked(x, Sides("night_master"))
                                    /\ new[s].by = IF last[s.night] = s THEN NoStack ELSE last[s.night]
  <1> DEFINE S == Sides("night_master")
             new == RebuiltMasters(last)
  <1>1. \A x \in S : x.plan \in Stack /\ IsFinal(x.plan)
    BY SideKinds
  <1>2. /\ last \in [{x.plan.night : x \in S} -> {x.plan : x \in S}]
        /\ \A n \in DOMAIN last : last[n].night = n /\ \E x \in S : x.plan = last[n] /\ ~Outranked(x, S)
    BY DEF Rankings
  <1>3. DOMAIN new = {x.plan : x \in S} /\ \A s \in DOMAIN new : new[s] = [by |-> IF last[s.night] = s THEN NoStack ELSE last[s.night], status |-> "pending"]
    BY DEF RebuiltMasters
  <1> HIDE DEF S, new
  <1>4. ASSUME NEW s \in DOMAIN new
        PROVE  /\ s \in Stack /\ IsFinal(s) /\ last[s.night] \in DOMAIN new /\ last[s.night].night = s.night
               /\ \E x \in S : x.plan = last[s.night] /\ ~Outranked(x, S)
               /\ last[s.night] \in Stack
    <2>1. PICK x \in S : s = x.plan
      BY <1>3
    <2>2. s.night \in DOMAIN last /\ last[s.night] \in {y.plan : y \in S}
      BY <1>2, <2>1
    <2> QED
      BY <1>1, <1>2, <1>3, <2>1, <2>2
  <1>7. ASSUME NEW s \in DOMAIN new
        PROVE  new[s] \in Row0 /\ new[s].by = IF last[s.night] = s THEN NoStack ELSE last[s.night]
    <2> DEFINE b == IF last[s.night] = s THEN NoStack ELSE last[s.night]
    <2>1. b \in Stack \cup {NoStack}
      BY <1>4
    <2>2. new[s] = [by |-> b, status |-> "pending"]
      BY <1>3
    <2> HIDE DEF b
    <2>3. new[s] \in Row0 /\ new[s].by = b
      BY <2>1, <2>2 DEF Row0
    <2> QED
      BY <2>3 DEF b
  <1>5. IsFn(new, Stack, Row0)
    BY <1>4, <1>7 DEF IsFn
  <1>6. \A s \in DOMAIN new : new[s].by = IF last[s.night] = s THEN NoStack ELSE last[s.night]
    BY <1>7
  <1> QED
    BY <1>3, <1>4, <1>5, <1>6 DEF S, new

LEMMA RebuildSound == ASSUME Sound, Rebuild PROVE Sound'
  <1>1. /\ AtRequests /\ spent' \in 0..MaxSpent /\ spent <= spent' /\ spent < spent'
        /\ project' \in RebuiltProjects /\ multi' = RebuiltMerges
        /\ jobs' = <<>> /\ held' = {} /\ flagged' = {} /\ stale' = FALSE /\ decision' = [n \in Night |-> "none"]
        /\ unarchived' = {} /\ user' = Idle /\ worker' = [Idle EXCEPT !.at = "gates"] /\ lapsed' = TRUE /\ catalogs' = catalogs + 1
        /\ UNCHANGED <<archive, sky, lights, unmatched, invalid>>
    BY Spends DEF Rebuild, Sound
  <1>2. IsFn(masters', Stack, Row0)
    BY RebuiltMastersIn DEF Rebuild
  <1>3. multi' \subseteq [plan : [inputs : SUBSET Stack, version : Versions], version : Nat]
    BY <1>1, SideKinds DEF Side, Merge, RebuiltMerges
  <1>4. Process(worker') /\ worker'.job = NoPlan /\ worker'.at = "gates" /\ Process(user') /\ user'.job = NoPlan
    <2>1. "gates" \in Steps \ {"record", "insert"}
      BY DEF Steps
    <2> QED
      BY <1>1, <2>1, IdleProcess
  <1>5. catalogs' \in 0..MaxSpent /\ catalogs' <= spent'
    <2>1. catalogs \in Nat /\ spent \in Nat /\ spent' \in 0..MaxSpent
      BY <1>1, Typing, Constants DEF Sound
    <2> QED
      BY <1>1, <2>1, Constants DEF Sound, Counted
  <1>6. Sides0' \subseteq Sides0
    BY <1>1 DEF Sides0
  <1>7. JobsIn'
    BY <1>1 DEF JobsIn
  <1>8. TypeOK'
    BY <1>1, <1>2, <1>3, <1>4, <1>5, <1>6, <1>7, RebuiltProjectIn, Typing, TypingNext DEF Sound
  <1>9. Working'
    BY <1>1, <1>4 DEF Working, AtJob
  <1>10. Counted'
    <2>1. \A m \in multi' : \E x \in Sides0 : m.version = x.version
      BY <1>1, SideKinds DEF Sides0, RebuiltMerges
    <2> QED
      BY <1>5, <1>6, <2>1 DEF Sound, Counted
  <1> QED
    BY <1>8, <1>9, <1>10 DEF Sound

LEMMA StutterSound == ASSUME Sound, UNCHANGED vars PROVE Sound'
  BY DEF Sound, vars, TypeOK, Working, Counted, Sides0

LEMMA InitSound == Init => Sound
  <1> SUFFICES ASSUME Init PROVE Sound
    OBVIOUS
  <1>1. Process(worker) /\ Process(user) /\ worker.job = NoPlan /\ worker.at = "idle" /\ user.job = NoPlan
    BY IdleProcess DEF Init
  <1>2. TypeOK
    <2>1. DOMAIN jobs = {} /\ DOMAIN masters = {}
      BY DEF Init
    <2>2. JobsIn /\ IsFn(masters, Stack, Row0)
      BY <2>1 DEF JobsIn, IsFn
    <2>3. project \in [version : Versions, reference : 0..MaxVersion] /\ catalogs \in 0..MaxSpent /\ spent \in 0..MaxSpent
      BY Constants DEF Init
    <2>4. lights \in [Night -> 0..MaxBuild] /\ decision \in [Night -> {"none", "include", "exclude"}]
      BY Constants DEF Init
    <2> QED
      BY <1>1, <2>2, <2>3, <2>4, Typing DEF Init, Sides0
  <1>3. Working /\ Counted
    BY <1>1 DEF Init, Working, AtJob, Counted, Sides0
  <1> QED
    BY <1>2, <1>3 DEF Sound

(* The kinds of steps. *)
JobStep == (\E p \in DOMAIN jobs : RunJob(p)) \/ RunEnds \/ JobFails \/ Finish \/ Crash \/ \E alike \in BOOLEAN : StoreRefused(alike)
LEMMA NextCases ==
    ASSUME [Next]_vars
    PROVE  \/ \E n \in Night : NightRequest(n)
           \/ Rereference \/ Asks \/ JobStep \/ (\E nas, alike \in BOOLEAN : Store(nas, alike))
           \/ CommitStack \/ CommitReference \/ CommitMerge
           \/ WorkerRecords \/ UserRecords \/ WorkerQueues \/ UserQueues
           \/ (\E S \in SUBSET unarchived : BackfillNas(S)) \/ Rebuild \/ RebuiltGates \/ UNCHANGED vars
  BY DEF Next, Requests, Work, User, Failures, NightRequest, Asks, JobStep

LEMMA NextSound == Sound /\ [Next]_vars => Sound'
  <1> SUFFICES ASSUME Sound, [Next]_vars PROVE Sound'
    OBVIOUS
  <1>1. CASE JobStep
    BY <1>1, RunJobSound, RunEndsSound, JobFailsSound, FinishSound, CrashSound, RefusedSound DEF JobStep
  <1> QED
    BY <1>1, NextCases, NightRequestSound, RereferenceSound, AsksSound, StoreSound, CommitStackSound, CommitReferenceSound,
       CommitMergeSound, RecordsSound, QueuesSound, BackfillSound, RebuildSound, RebuiltGatesSound, StutterSound

(* Everything has its type, for any nights, skies and bounds. *)
THEOREM MergesTypeCorrect == Spec => []TypeOK
  <1>1. Sound => TypeOK
    BY DEF Sound
  <1> QED
    BY <1>1, InitSound, NextSound, PTL DEF Spec

-----------------------------------------------------------------------------
(* What the steps change. *)

Standing == DOMAIN masters' = DOMAIN masters /\ \A s \in DOMAIN masters : masters'[s].by = masters[s].by

LEMMA StandingCurrent == Standing => Finals' = Finals /\ Current' = Current
  BY DEF Standing, Finals, Current, IsCurrent

LEMMA StandingKept ==
    ASSUME Sound, [Next]_vars, ~CommitStack, ~Rebuild
    PROVE  Standing
  <1>1. TypeOK /\ IsFn(masters, Stack, Row0)
    BY Typing DEF Sound
  <1>2. CASE \E n \in Night : NightRequest(n)
    BY <1>1, <1>2, NightRequestSteps DEF PlanNight, Standing
  <1>3. CASE WorkerRecords \/ UserRecords
    <2>1. PICK p \in {worker, user} : Record(p)
      BY <1>3 DEF WorkerRecords, UserRecords
    <2> QED
      BY <1>1, <2>1, RecordSteps DEF Standing
  <1>4. CASE WorkerQueues \/ UserQueues
    BY <1>4 DEF WorkerQueues, UserQueues, Insert, Standing
  <1>5. CASE RebuiltGates
    BY <1>1, <1>5, RebuiltGatesSteps DEF Standing
  <1>6. CASE CommitMerge
    <2>1. \A s \in DOMAIN masters : [masters[s] EXCEPT !.status = "merged"].by = masters[s].by
      BY <1>1 DEF IsFn, Row0
    <2> QED
      BY <1>6, <2>1 DEF CommitMerge, Standing
  <1>7. CASE Rereference \/ Asks \/ JobStep \/ (\E nas, alike \in BOOLEAN : Store(nas, alike)) \/ CommitReference \/ (\E S \in SUBSET unarchived : BackfillNas(S)) \/ UNCHANGED vars
    BY <1>7 DEF Rereference, Asks, Decide, MergeCommand, Waive, WorkerSees, UserSees, UserKilled, JobStep, RunJob, RunEnds, JobFails, Finish,
        Crash, StoreRefused, Store, CommitReference, BackfillNas, vars, Catalog, Standing
  <1> QED
    BY <1>2, <1>3, <1>4, <1>5, <1>6, <1>7, NextCases

LEMMA CommitStands ==
    ASSUME Sound, CommitStack
    PROVE  /\ worker.job \in Stack /\ worker.job \in DOMAIN jobs /\ jobs[worker.job] = "running" /\ worker.at = "commit"
           /\ IsFinal(worker.job) =>
                /\ Finals' = Finals \cup {worker.job}
                /\ worker.job \in Current' <=> worker.job \notin Finals \/ worker.job \in Current
                /\ \A t \in Finals \ {worker.job} :
                     /\ t \in Current' <=> t \in Current /\ t.night # worker.job.night
                     /\ masters'[t].by = IF t \in Current /\ t.night = worker.job.night THEN worker.job ELSE masters[t].by
                /\ worker.job \in Finals => masters'[worker.job].by = masters[worker.job].by
                /\ worker.job \notin Finals => masters'[worker.job].by = NoStack
           /\ ~IsFinal(worker.job) => Finals' = Finals /\ Current' = Current /\ \A t \in Finals : masters'[t].by = masters[t].by
  <1> DEFINE s == worker.job
  <1>1. s \in Stack /\ s \in DOMAIN jobs /\ jobs[s] = "running" /\ worker.at = "commit" /\ TypeOK
    BY AtWork, Plans DEF CommitStack, Sound, AtJob
  <1>2. /\ DOMAIN masters' = DOMAIN masters \cup {s}
        /\ s \notin DOMAIN masters => masters'[s].by = NoStack
        /\ s \in DOMAIN masters => masters'[s].by = masters[s].by
        /\ \A t \in DOMAIN masters \ {s} :
             masters'[t].by = IF masters[t].by = NoStack /\ t.night = s.night /\ t.kind \in SupersededBy(s) THEN s ELSE masters[t].by
    BY <1>1, SupersedingRows DEF CommitStack
  <1>3. s # NoStack /\ (s.kind = "final" <=> IsFinal(s)) /\ s.kind \in Kinds
    BY <1>1, Constants DEF IsFinal, Stack
  <1> HIDE DEF s
  <1>4. CASE IsFinal(s)
    <2>1. SupersededBy(s) = Kinds /\ \A t \in Finals : t.kind \in Kinds
      BY <1>3, <1>4 DEF SupersededBy, Finals, Kinds
    <2>2. Finals' = Finals \cup {s} /\ (s \in Finals <=> s \in DOMAIN masters)
      BY <1>2, <1>3, <1>4 DEF Finals
    <2>3. ASSUME NEW t \in Finals \ {s}
          PROVE  /\ t \in Current' <=> t \in Current /\ t.night # s.night
                 /\ masters'[t].by = IF t \in Current /\ t.night = s.night THEN s ELSE masters[t].by
      <3>1. t \in DOMAIN masters \ {s} /\ t \in Finals'
        BY <2>2 DEF Finals
      <3>2. masters'[t].by = IF masters[t].by = NoStack /\ t.night = s.night THEN s ELSE masters[t].by
        BY <1>2, <2>1, <3>1
      <3> QED
        BY <1>3, <3>1, <3>2 DEF Current, IsCurrent
    <2>4. s \in Current' <=> s \notin Finals \/ s \in Current
      BY <1>2, <2>2 DEF Current, IsCurrent
    <2> QED
      BY <1>1, <1>2, <1>4, <2>2, <2>3, <2>4 DEF s
  <1>5. CASE ~IsFinal(s)
    <2>1. SupersededBy(s) = {"provisional_noflat"} /\ \A t \in Finals : t.kind \notin SupersededBy(s) /\ t # s
      BY <1>3, <1>5 DEF SupersededBy, Finals
    <2>2. Finals' = Finals
      BY <1>2, <1>3, <1>5 DEF Finals
    <2>3. \A t \in Finals : masters'[t].by = masters[t].by
      BY <1>2, <2>1 DEF Finals
    <2>4. Current' = Current
      BY <2>2, <2>3 DEF Current, IsCurrent
    <2> QED
      BY <1>1, <1>5, <2>2, <2>3, <2>4 DEF s
  <1> QED
    BY <1>4, <1>5 DEF s

LEMMA RebuildStands ==
    ASSUME Sound, Rebuild
    PROVE  \E last \in Rankings :
             /\ DOMAIN masters' = {x.plan : x \in Sides("night_master")} /\ Finals' = DOMAIN masters'
             /\ \A s \in Finals' : /\ last[s.night] \in Finals' /\ last[s.night].night = s.night
                                   /\ \E x \in Sides("night_master") : x.plan = last[s.night] /\ ~Outranked(x, Sides("night_master"))
                                   /\ masters'[s].by = IF last[s.night] = s THEN NoStack ELSE last[s.night]
                                   /\ s \in Current' <=> last[s.night] = s
  <1>1. PICK last \in Rankings : masters' = RebuiltMasters(last)
    BY DEF Rebuild
  <1>2. /\ DOMAIN masters' = {x.plan : x \in Sides("night_master")}
        /\ \A s \in DOMAIN masters' : /\ IsFinal(s) /\ last[s.night] \in DOMAIN masters' /\ last[s.night].night = s.night
                                      /\ \E x \in Sides("night_master") : x.plan = last[s.night] /\ ~Outranked(x, Sides("night_master"))
                                      /\ masters'[s].by = IF last[s.night] = s THEN NoStack ELSE last[s.night]
    BY <1>1, RebuiltMastersIn
  <1>3. Finals' = DOMAIN masters'
    BY <1>2 DEF Finals, IsFinal
  <1>4. ASSUME NEW s \in Finals' PROVE s \in Current' <=> last[s.night] = s
    <2>1. last[s.night] \in Stack /\ NoStack \notin Stack
      BY <1>2, <1>3, Constants DEF IsFinal
    <2> QED
      BY <1>2, <1>3, <2>1 DEF Current, IsCurrent
  <1> WITNESS last \in Rankings
  <1> QED
    BY <1>2, <1>3, <1>4

LEMMA NextOneCurrent == ASSUME Sound, OneCurrent, [Next]_vars PROVE OneCurrent'
  <1>1. CASE ~CommitStack /\ ~Rebuild
    BY <1>1, StandingKept, StandingCurrent DEF OneCurrent
  <1>2. CASE CommitStack
    <2>1. CASE ~IsFinal(worker.job)
      BY <1>2, <2>1, CommitStands DEF OneCurrent
    <2>2. CASE IsFinal(worker.job)
      <3>1. \A t \in Current' : t = worker.job \/ (t \in Current /\ t.night # worker.job.night)
        BY <1>2, <2>2, CommitStands DEF Current
      <3> QED
        BY <3>1 DEF OneCurrent
    <2> QED
      BY <2>1, <2>2
  <1>3. CASE Rebuild
    <2>1. PICK last \in Rankings : \A s \in Finals' : s \in Current' <=> last[s.night] = s
      BY <1>3, RebuildStands
    <2> QED
      BY <2>1 DEF OneCurrent, Current
  <1> QED
    BY <1>1, <1>2, <1>3

LEMMA SidesKept ==
    ASSUME Sound, [Next]_vars, ~Rebuild
    PROVE  /\ Sides0 \subseteq Sides0' /\ catalogs' = catalogs
           /\ \A x \in Sides0' \ Sides0 : /\ worker.at = "store" /\ x = Sidecar(worker.job)
                                          /\ (IsStack(worker.job) => IsFinal(worker.job)) /\ project' = project /\ lights' = lights
           /\ worker'.at = "commit" /\ Archives(worker'.job) => Known(worker.job)' \/ worker' = worker
  <1>1. CASE \E nas, alike \in BOOLEAN : Store(nas, alike)
    <2> PICK nas \in BOOLEAN, alike \in BOOLEAN : Store(nas, alike)
      BY <1>1
    <2>1. Archives(worker.job) => Known(worker.job)'
      BY StoreSteps
    <2>2. /\ Sides0 \subseteq Sides0' /\ Sides0' \subseteq Sides0 \cup {Sidecar(worker.job)} /\ worker'.job = worker.job
          /\ UNCHANGED <<catalogs, project, lights>> /\ worker.at = "store"
          /\ Sides0' = Sides0 \/ (IsStack(worker.job) => IsFinal(worker.job))
      BY StoreSteps
    <2>3. Archives(worker'.job) => Known(worker.job)'
      BY <2>1, <2>2
    <2> QED
      BY <2>2, <2>3
  <1>2. CASE \E n \in Night : NightRequest(n)
    <2>1. TypeOK
      BY DEF Sound
    <2> PICK n \in Night : PlanNight(n)
      BY <1>2, <2>1, NightRequestSteps
    <2>2. worker'.at # "commit" /\ UNCHANGED <<archive, unarchived, catalogs>>
      BY IdleProcess, Evaluating DEF PlanNight
    <2> QED
      BY <2>2 DEF Sides0
  <1>3. CASE Rereference
    <2>1. worker'.at # "commit" /\ UNCHANGED <<archive, unarchived, catalogs>>
      BY <1>3, IdleProcess, Evaluating DEF Rereference, Nights
    <2> QED
      BY <2>1 DEF Sides0
  <1>4. CASE Asks
    <2>1. UNCHANGED <<archive, unarchived, catalogs>>
      BY <1>4 DEF Asks, Decide, MergeCommand, Waive, WorkerSees, UserSees, UserKilled, Nights, Catalog
    <2>2. worker' = worker \/ worker'.at # "commit"
      <3>1. Process(worker) /\ "evaluate" \in Steps
        BY Typing DEF Sound, Steps
      <3>2. CASE \E n \in Night, d \in {"include", "exclude"} : Decide(n, d)
        BY <3>2, Evaluating DEF Decide
      <3>3. CASE WorkerSees
        BY <3>1, <3>3, SeeProcess DEF WorkerSees, Sound
      <3> QED
        BY <1>4, <3>2, <3>3 DEF Asks, MergeCommand, Waive, UserSees, UserKilled
    <2> QED
      BY <2>1, <2>2 DEF Sides0
  <1>5. CASE JobStep
    <2>1. UNCHANGED <<archive, unarchived, catalogs>>
      BY <1>5 DEF JobStep, RunJob, RunEnds, JobFails, Finish, Crash, StoreRefused, Nights
    <2>2. worker'.at = "commit" => Reference(worker'.job) /\ Plan(worker'.job)
      <3>1. CASE \E p \in DOMAIN jobs : RunJob(p)
        <4> PICK p \in DOMAIN jobs : RunJob(p)
          BY <3>1
        <4> QED
          BY JobAt, Typing DEF RunJob, Sound, JobsIn
      <3>2. CASE Crash
        BY <3>2, CrashAt, IdleProcess, Plans DEF Process
      <3>3. CASE RunEnds
        BY <3>3, RunEndsSteps, AtWork DEF AtJob
      <3> QED
        BY <1>5, <3>1, <3>2, <3>3, IdleProcess DEF JobStep, JobFails, Finish, StoreRefused
    <2>3. worker'.at = "commit" => ~Archives(worker'.job)
      BY <2>2, Plans, Kinds0 DEF Archives, IsFinal
    <2> QED
      BY <2>1, <2>3 DEF Sides0
  <1>6. CASE CommitStack \/ CommitReference \/ CommitMerge
    <2>1. worker.at = "commit" /\ worker' = AfterCommit /\ UNCHANGED <<archive, unarchived, catalogs>>
      BY <1>6 DEF CommitStack, CommitReference, CommitMerge, Nights
    <2> QED
      BY <2>1, AfterCommitIn DEF Sides0
  <1>7. CASE WorkerRecords \/ UserRecords
    <2>1. PICK p \in {worker, user} : Record(p)
      BY <1>7 DEF WorkerRecords, UserRecords
    <2>2. UNCHANGED <<archive, unarchived, catalogs>>
      BY <2>1 DEF Record, Nights
    <2>3. worker' = worker \/ worker'.at # "commit"
      <3>1. Process(worker)
        BY Typing DEF Sound
      <3> QED
        BY <1>7, <3>1, RecorderIn DEF WorkerRecords, UserRecords, Record
    <2> QED
      BY <2>2, <2>3 DEF Sides0
  <1>8. CASE WorkerQueues \/ UserQueues
    <2>1. UNCHANGED <<archive, unarchived, catalogs>>
      BY <1>8 DEF WorkerQueues, UserQueues, Insert, Nights
    <2>3. worker' = worker \/ worker'.at # "commit"
      <3>1. Process(worker)
        BY Typing DEF Sound
      <3> QED
        BY <1>8, <3>1, EndIn DEF WorkerQueues, UserQueues
    <2> QED
      BY <2>1, <2>3 DEF Sides0
  <1>9. CASE (\E S \in SUBSET unarchived : BackfillNas(S)) \/ RebuiltGates \/ UNCHANGED vars
    BY <1>9, IdleProcess DEF BackfillNas, RebuiltGates, vars, Nights, Sides0
  <1> QED
    BY <1>1, <1>2, <1>3, <1>4, <1>5, <1>6, <1>7, <1>8, <1>9, NextCases

LEMMA MultiKept == ASSUME Sound, [Next]_vars, ~CommitMerge, ~Rebuild PROVE multi' = multi
  <1>1. CASE \E n \in Night : NightRequest(n)
    BY <1>1, NightRequestSteps DEF PlanNight, Sound
  <1>2. CASE JobStep \/ Asks
    BY <1>2 DEF JobStep, RunJob, RunEnds, JobFails, Finish, Crash, StoreRefused, Asks, Decide, MergeCommand, Waive, WorkerSees, UserSees, UserKilled, Catalog
  <1>3. CASE WorkerRecords \/ UserRecords \/ WorkerQueues \/ UserQueues
    BY <1>3 DEF WorkerRecords, UserRecords, Record, WorkerQueues, UserQueues, Insert
  <1> QED
    BY <1>1, <1>2, <1>3, NextCases DEF Rereference, Store, Catalog, CommitStack, CommitReference, BackfillNas, RebuiltGates, vars

(* Lights, references and versions only grow, until the catalog is rebuilt. *)
LEMMA Grows ==
    ASSUME Sound, [Next]_vars
    PROVE  /\ \A n \in Night : lights[n] <= lights'[n]
           /\ ~Rebuild => project.version <= project'.version
           /\ ~Rereference /\ ~Rebuild => project'.version = project.version
           /\ ~Rereference /\ ~Rebuild /\ ~CommitReference => project' = project
  <1>1. \A n \in Night : lights[n] \in Nat
    BY Constants DEF Sound, TypeOK
  <1>2. project.version \in Nat /\ project \in [version : Versions, reference : 0..MaxVersion]
    BY Constants DEF Sound, TypeOK, Versions
  <1>3. CASE \E n \in Night : NightRequest(n)
    <2> PICK n \in Night : NightRequest(n)
      BY <1>3
    <2>1. \A m \in Night : lights[m] <= lights'[m]
      BY NightRequestSteps DEF Sound
    <2>2. project' = project
      BY NightRequestSteps DEF PlanNight, Sound
    <2> QED
      BY <1>2, <2>1, <2>2
  <1>4. CASE Rereference
    BY <1>1, <1>2, <1>4 DEF Rereference, Nights
  <1>5. CASE CommitReference
    <2>1. project'.version = project.version
      BY <1>2, <1>5 DEF CommitReference
    <2> QED
      BY <1>1, <1>2, <1>5, <2>1 DEF CommitReference, Nights
  <1>6. CASE JobStep \/ Asks
    <2>1. lights' = lights /\ project' = project
      BY <1>6 DEF JobStep, RunJob, RunEnds, JobFails, Finish, Crash, StoreRefused, Asks, Decide, MergeCommand, Waive, WorkerSees, UserSees, UserKilled, Catalog, Nights
    <2> QED
      BY <1>1, <1>2, <2>1
  <1>7. CASE WorkerRecords \/ UserRecords \/ WorkerQueues \/ UserQueues
    <2>1. lights' = lights /\ project' = project
      BY <1>7 DEF WorkerRecords, UserRecords, Record, WorkerQueues, UserQueues, Insert, Nights
    <2> QED
      BY <1>1, <1>2, <2>1
  <1>8. CASE Rebuild
    BY <1>1, <1>8 DEF Rebuild
  <1>9. CASE (\E nas, alike \in BOOLEAN : Store(nas, alike)) \/ CommitStack \/ CommitMerge \/ (\E S \in SUBSET unarchived : BackfillNas(S)) \/ RebuiltGates \/ UNCHANGED vars
    <2>1. lights' = lights /\ project' = project
      BY <1>9 DEF Store, Catalog, Nights, CommitStack, CommitMerge, BackfillNas, RebuiltGates, vars
    <2> QED
      BY <1>1, <1>2, <2>1
  <1> QED
    BY <1>3, <1>4, <1>5, <1>6, <1>7, <1>8, <1>9, NextCases

(* Planning a merge, a process keeps what it read, or forgets it, or reads    *)
(* the gates as they are.                                                    *)
Took(p, q) == \/ q.seen = <<>> /\ q.project = Idle.project
              \/ q.seen = p.seen /\ q.project = p.project
              \/ q.seen = Evaluate /\ q.project = project

LEMMA PlannerTook ==
    ASSUME NEW p, Process(p), NEW q, (q = Recorder(p) /\ p.at = "record") \/ q = End(p)
    PROVE  Took(p, q)
  <1>1. CASE q = End(p)
    BY <1>1, EndIn DEF Took
  <1>2. CASE q = Recorder(p) /\ p.at = "record" /\ Ready(p)
    BY <1>2, RecorderIn DEF Took
  <1>3. CASE q = Recorder(p) /\ p.at = "record" /\ ~Ready(p)
    BY <1>3, RecorderIn, EndIn DEF Took
  <1> QED
    BY <1>1, <1>2, <1>3

LEMMA Readings == ASSUME Sound, [Next]_vars PROVE Took(worker, worker') /\ Took(user, user')
  <1>1. TypeOK /\ Process(worker) /\ Process(user)
    BY Typing DEF Sound
  <1>2. CASE (\E n \in Night : NightRequest(n)) \/ Rereference
    <2>1. (worker' = Idle \/ worker' = [Idle EXCEPT !.at = "evaluate"]) /\ user' = user
      <3>1. CASE \E n \in Night : NightRequest(n)
        BY <1>1, <3>1, NightRequestSteps DEF PlanNight
      <3> QED
        BY <1>2, <3>1 DEF Rereference
    <2> QED
      BY <2>1, IdleProcess, Evaluating DEF Took
  <1>3. CASE Asks
    <2>1. Took(worker, worker')
      <3>1. CASE \E n \in Night, d \in {"include", "exclude"} : Decide(n, d)
        BY <3>1, Evaluating DEF Decide, Took
      <3>2. CASE WorkerSees
        BY <1>1, <3>2, SeeProcess DEF WorkerSees, Took
      <3>3. CASE worker' = worker
        BY <3>3 DEF Took
      <3> QED
        BY <1>3, <3>1, <3>2, <3>3 DEF Asks, MergeCommand, Waive, UserSees, UserKilled
    <2>2. Took(user, user')
      <3>1. CASE UserSees
        BY <1>1, <3>1, SeeProcess DEF UserSees, Took
      <3>2. CASE user' = user \/ user' = Idle \/ user' = [Idle EXCEPT !.at = "evaluate"]
        BY <3>2, IdleProcess, Evaluating DEF Took
      <3> QED
        BY <1>3, <3>1, <3>2 DEF Asks, Decide, MergeCommand, Waive, WorkerSees, UserKilled
    <2> QED
      BY <2>1, <2>2
  <1>4. CASE JobStep
    <2>1. user' = user
      BY <1>4 DEF JobStep, RunJob, RunEnds, JobFails, Finish, Crash, StoreRefused
    <2>2. worker'.seen = <<>> /\ worker'.project = Idle.project
      <3>1. CASE \E p \in DOMAIN jobs : RunJob(p)
        <4> PICK p \in DOMAIN jobs : RunJob(p)
          BY <3>1
        <4> QED
          BY JobAt, Typing DEF RunJob, Sound, JobsIn
      <3>2. CASE Crash
        BY <3>2, CrashAt, IdleProcess
      <3>3. CASE RunEnds
        BY <3>3, RunEndsSteps
      <3> QED
        BY <1>4, <3>1, <3>2, <3>3, IdleProcess DEF JobStep, JobFails, Finish, StoreRefused
    <2> QED
      BY <2>1, <2>2 DEF Took
  <1>5. CASE \E nas, alike \in BOOLEAN : Store(nas, alike)
    BY <1>5, StoreSteps DEF Took
  <1>6. CASE CommitStack \/ CommitReference \/ CommitMerge
    <2>1. worker.at = "commit" /\ worker' = AfterCommit /\ user' = user
      BY <1>6 DEF CommitStack, CommitReference, CommitMerge
    <2> QED
      BY <2>1, AfterCommitIn DEF Took
  <1>7. CASE WorkerRecords \/ UserRecords \/ WorkerQueues \/ UserQueues
    <2>1. worker' = worker \/ (worker' = Recorder(worker) /\ worker.at = "record") \/ worker' = End(worker)
      BY <1>7 DEF WorkerRecords, UserRecords, WorkerQueues, UserQueues, Record
    <2>2. user' = user \/ (user' = Recorder(user) /\ user.at = "record") \/ user' = End(user)
      BY <1>7 DEF WorkerRecords, UserRecords, WorkerQueues, UserQueues, Record
    <2>3. Took(worker, worker) /\ Took(user, user)
      BY DEF Took
    <2> QED
      BY <1>1, <2>1, <2>2, <2>3, PlannerTook
  <1>8. CASE (\E S \in SUBSET unarchived : BackfillNas(S)) \/ Rebuild \/ RebuiltGates \/ UNCHANGED vars
    <2>1. worker' = worker \/ worker' = Idle \/ worker' = [Idle EXCEPT !.at = "gates"]
      BY <1>8 DEF BackfillNas, Rebuild, RebuiltGates, vars
    <2>2. user' = user \/ user' = Idle
      BY <1>8 DEF BackfillNas, Rebuild, RebuiltGates, vars
    <2>3. [Idle EXCEPT !.at = "gates"].seen = <<>> /\ [Idle EXCEPT !.at = "gates"].project = Idle.project
      BY DEF Idle
    <2> QED
      BY <2>1, <2>2, <2>3, IdleProcess DEF Took
  <1> QED
    BY <1>2, <1>3, <1>4, <1>5, <1>6, <1>7, <1>8, NextCases

-----------------------------------------------------------------------------
(* What the steps do to the jobs. *)

Planning == (\E n \in Night : NightRequest(n)) \/ Rereference
Queueing == WorkerQueues \/ UserQueues

(* altaird's recovery: what becomes of the jobs. *)
LEMMA CrashJobs ==
    ASSUME Sound, Crash
    PROVE  /\ DOMAIN jobs' = DOMAIN jobs
           /\ \A q \in DOMAIN jobs :
                jobs'[q] = IF jobs[q] = "abandoned" \/ (q = worker.job /\ (worker.at = "run" \/ IsMerge(q))) THEN "queued" ELSE jobs[q]
  <1>1. \A q \in DOMAIN jobs : q # NoPlan /\ (q \in Abandoned <=> jobs[q] = "abandoned")
    BY MustHoldNothing DEF Abandoned
  <1>2. CASE worker.job # NoPlan /\ (worker.at = "run" \/ IsMerge(worker.job)) /\ jobs' = Requeued(Abandoned \cup {worker.job})
    <2> DEFINE P == Abandoned \cup {worker.job}
    <2>1. jobs' = Requeued(P) /\ \A q : q \in P <=> q \in Abandoned \/ q = worker.job
      BY <1>2
    <2> HIDE DEF P
    <2> QED
      BY <1>1, <1>2, <2>1, Requeues
  <1>3. CASE jobs' = Requeued(Abandoned) /\ ~(worker.job # NoPlan /\ (worker.at = "run" \/ IsMerge(worker.job)))
    BY <1>1, <1>3, Requeues
  <1>4. worker.job # NoPlan \/ ~\E q \in DOMAIN jobs : q = worker.job
    BY <1>1
  <1> QED
    BY <1>2, <1>3, CrashAt

LEMMA JobsKept ==
    ASSUME Sound, [Next]_vars, ~Planning, ~Queueing, ~Rebuild
    PROVE  /\ DOMAIN jobs' = DOMAIN jobs
           /\ \A p \in DOMAIN jobs : jobs'[p] \in {"queued", "running"} => jobs[p] \in {"queued", "running", "abandoned"}
  <1>1. CASE \E p \in DOMAIN jobs : RunJob(p)
    BY <1>1 DEF RunJob, Is
  <1>2. CASE JobFails \/ Finish
    BY <1>2 DEF JobFails, Finish
  <1>3. CASE Crash
    BY <1>3, CrashJobs DEF Sound, Working
  <1>4. CASE WorkerRecords \/ UserRecords
    BY <1>4 DEF WorkerRecords, UserRecords, Record
  <1>5. CASE \E alike \in BOOLEAN : StoreRefused(alike)
    BY <1>5, AtWork DEF StoreRefused, AtJob
  <1> QED
    BY <1>1, <1>2, <1>3, <1>4, <1>5, NextCases DEF JobStep, Planning, Queueing, Asks, Decide, MergeCommand, Waive, WorkerSees, UserSees, UserKilled,
       Store, RunEnds, Catalog, CommitStack, CommitReference, CommitMerge, BackfillNas, RebuiltGates, vars

(* Requests plan nights of the project's version, with all their lights. *)
LEMMA PlanningJobs ==
    ASSUME Sound, Planning
    PROVE  \E N \in SUBSET Night :
             LET P == PlansFor(N, project', unmatched', lights') IN
             /\ Inserts(P, jobs')
             /\ \A p \in P : /\ Plan(p) /\ ~IsMerge(p)
                             /\ IsFinal(p) => p.night \in N /\ p.version = project'.version /\ p.build = lights'[p.night]
                             /\ Reference(p) => p.reference = project'.version
             /\ AtRequests /\ \A p \in DOMAIN jobs : jobs[p] # "running"
  <1>1. TypeOK' /\ TypeOK /\ JobsIn
    BY NightRequestSound, RereferenceSound, Typing DEF Planning, Sound
  <1>2. AtRequests
    BY <1>1, NightRequestSteps DEF Planning, Rereference
  <1>3. PICK N \in SUBSET Night : jobs' = InsertAll(PlansFor(N, project', unmatched', lights')) /\ \A n \in N : lights'[n] > 0
    <2>1. CASE \E n \in Night : NightRequest(n)
      <3> PICK n \in Night : NightRequest(n)
        BY <2>1
      <3>1. jobs' = InsertAll(PlansFor({n}, project', unmatched', lights'))
        BY <1>1, NightRequestSteps DEF PlanNight, PlanOf, PlansFor, StackOf
      <3>2. {n} \in SUBSET Night /\ \A m \in {n} : lights'[m] > 0
        BY <1>1, NightRequestSteps
      <3> QED
        BY <3>1, <3>2
    <2>2. CASE Rereference
      BY <1>1, <2>2, RereferenceSteps
    <2> QED
      BY <2>1, <2>2 DEF Planning
  <1> DEFINE P == PlansFor(N, project', unmatched', lights')
  <1>4. \A p \in P : /\ Plan(p) /\ ~IsMerge(p) /\ (IsStack(p) => p \in Stack)
                     /\ IsStack(p) => p.night \in N /\ p.version = project'.version /\ p.build = lights'[p.night]
                     /\ ~IsStack(p) => p = [reference |-> project'.version]
    <2>1. project' \in [version : Versions, reference : 0..MaxVersion] /\ lights' \in [Night -> 0..MaxBuild]
      BY <1>1, TypingNext
    <2> QED
      BY <1>3, <2>1, PlansForTyped
  <1> HIDE DEF P
  <1>5. Inserts(P, jobs')
    BY <1>1, <1>3, InsertAllInserts DEF P
  <1>6. ASSUME NEW p \in P
        PROVE  /\ IsFinal(p) => p.night \in N /\ p.version = project'.version /\ p.build = lights'[p.night]
               /\ Reference(p) => p.reference = project'.version
    BY <1>4, Plans, Kinds0 DEF IsFinal
  <1>7. \A p \in DOMAIN jobs : jobs[p] # "running"
    BY <1>2, MustHoldNothing
  <1> QED
    BY <1>2, <1>4, <1>5, <1>6, <1>7 DEF P

LEMMA QueueingJobs ==
    ASSUME Sound, Queueing
    PROVE  \E p \in {worker, user} : (jobs' = jobs \/ Inserts({MergeOf(p)}, jobs')) /\ Merge(MergeOf(p)) /\ IsMerge(MergeOf(p))
  <1>1. PICK p \in {worker, user} : Insert(p)
    BY DEF Queueing, WorkerQueues, UserQueues
  <1> QED
    BY <1>1, QueueSteps, Kinds0 DEF Sound

-----------------------------------------------------------------------------
(* Merges are of one reference. *)

LEMMA EvaluateApart == ASSUME TypeOK, OneCurrent PROVE Apart(Eligible(Evaluate), project.version)
  <1>1. ASSUME NEW s \in Eligible(Evaluate) PROVE s \in Current /\ Gate(s) = "none" /\ s.kind = "final"
    BY DEF Eligible, Evaluate, Current, Finals
  <1>2. ASSUME NEW s, Gate(s) = "none" PROVE s.version = project.version
    BY <1>2 DEF Gate
  <1> QED
    BY <1>1, <1>2 DEF Apart, OneCurrent

LEMMA NextMergesApart == ASSUME Sound, OneCurrent, MergesApart, [Next]_vars PROVE MergesApart'
  <1>1. \A p \in DOMAIN jobs' : IsMerge(p) => Apart(p.inputs, p.version)
    <2>1. CASE Planning
      BY <2>1, PlanningJobs DEF Inserts, MergesApart
    <2>2. CASE Queueing
      <3> PICK p \in {worker, user} : (jobs' = jobs \/ Inserts({MergeOf(p)}, jobs')) /\ Merge(MergeOf(p))
        BY <2>2, QueueingJobs
      <3>1. Apart(MergeOf(p).inputs, MergeOf(p).version)
        BY DEF MergesApart, MergeOf
      <3> QED
        BY <3>1 DEF Inserts, MergesApart
    <2>3. CASE Rebuild
      BY <2>3 DEF Rebuild
    <2> QED
      BY <2>1, <2>2, <2>3, JobsKept DEF MergesApart
  <1>2. \A m \in multi' : Apart(m.plan.inputs, m.plan.version)
    <2>1. CASE CommitMerge
      BY <2>1, AtWork DEF CommitMerge, MergesApart, AtJob
    <2>2. CASE Rebuild
      <3>1. \A m \in multi' : \E x \in Sides("multi_night_master") : m.plan = x.plan
        BY <2>2 DEF Rebuild, RebuiltMerges
      <3>2. \A s \in Sides("multi_night_master") : s \in Sides0 /\ IsMerge(s.plan)
        BY SideKinds DEF Sides0
      <3> QED
        BY <3>1, <3>2 DEF MergesApart
    <2> QED
      BY <2>1, <2>2, MultiKept DEF MergesApart
  <1>3. \A s \in Sides0' : IsMerge(s.plan) => Apart(s.plan.inputs, s.plan.version)
    <2>1. CASE Rebuild
      BY <2>1 DEF Rebuild, Sides0, MergesApart
    <2>2. CASE ~Rebuild
      <3> SUFFICES ASSUME NEW s \in Sides0' \ Sides0, IsMerge(s.plan) PROVE Apart(s.plan.inputs, s.plan.version)
        BY DEF MergesApart
      <3>1. worker.at = "store" /\ s = Sidecar(worker.job)
        BY <2>2, SidesKept
      <3>2. s.plan = worker.job /\ worker.job \in DOMAIN jobs
        BY <3>1, AtWork DEF Sidecar, AtJob
      <3> QED
        BY <3>2 DEF MergesApart
    <2> QED
      BY <2>1, <2>2
  <1>4. ASSUME NEW p \in {worker, user}, NEW q, Took(p, q) PROVE Apart(Eligible(q.seen), q.project.version)
    <2>1. CASE q.seen = <<>>
      BY <2>1, IdleProcess DEF Apart
    <2>2. CASE q.seen = p.seen /\ q.project = p.project
      BY <2>2 DEF MergesApart
    <2>3. CASE q.seen = Evaluate /\ q.project = project
      BY <2>3, EvaluateApart DEF Sound
    <2> QED
      BY <1>4, <2>1, <2>2, <2>3 DEF Took
  <1>5. \A q \in {worker', user'} : Apart(Eligible(q.seen), q.project.version)
    BY <1>4, Readings
  <1> QED
    BY <1>1, <1>2, <1>3, <1>5 DEF MergesApart

LEMMA InitApart == Init => OneCurrent /\ MergesApart
  <1> SUFFICES ASSUME Init PROVE OneCurrent /\ MergesApart
    OBVIOUS
  <1>1. DOMAIN masters = {} /\ DOMAIN jobs = {} /\ multi = {} /\ Sides0 = {} /\ worker = Idle /\ user = Idle
    BY DEF Init, Sides0
  <1> QED
    BY <1>1, IdleProcess DEF OneCurrent, MergesApart, Current, Finals, Apart

(* A multi-night master is made of nights registered to one reference, the    *)
(* one of its plan, each night once: whatever is re-planned, repeated after   *)
(* a crash or rebuilt.                                                       *)
THEOREM MergeOneReferenceHolds == Spec => []MergeOneReference
  <1>1. Init => Sound /\ OneCurrent /\ MergesApart
    BY InitSound, InitApart
  <1>2. Sound /\ OneCurrent /\ MergesApart /\ [Next]_vars => (Sound /\ OneCurrent /\ MergesApart)'
    BY NextSound, NextOneCurrent, NextMergesApart
  <1>3. MergesApart => MergeOneReference
    BY DEF MergesApart, MergeOneReference, Apart
  <1> QED
    BY <1>1, <1>2, <1>3, PTL DEF Spec

-----------------------------------------------------------------------------
(* Sidecars, and the order of the masters of a night. *)

LEMMA SidecarPlans ==
    ASSUME Sound, NEW x \in Sides0
    PROVE  /\ Side(x) /\ Plan(x.plan) /\ x.version \in Nat /\ x.block \in Nat /\ x.catalog \in Nat
           /\ x.type = SidecarType(x.plan) /\ (IsStack(x.plan) => IsFinal(x.plan))
  BY Typing, Constants DEF Sound, Counted, Side, Versions

LEMMA StackNumbers == ASSUME NEW s \in Stack PROVE s.night \in Night /\ s.version \in Nat /\ s.build \in Nat
  BY Constants DEF Stack, Versions, Builds

LEMMA FinalIs ==
    ASSUME NEW s, NEW t, IsFinal(s), IsFinal(t), s.night = t.night, s.version = t.version, s.build = t.build
    PROVE  s = t
  BY DEF IsFinal, Stack

LEMMA BeforeOrder ==
    ASSUME NEW s, NEW t, IsFinal(s), IsFinal(t), s.night = t.night
    PROVE  /\ AtMost(s, t) \/ Before(t, s)
           /\ ~(AtMost(s, t) /\ Before(t, s))
           /\ AtMost(s, t) <=> s.version < t.version \/ (s.version = t.version /\ s.build <= t.build)
  <1>1. s.version \in Nat /\ t.version \in Nat /\ s.build \in Nat /\ t.build \in Nat
    BY StackNumbers DEF IsFinal
  <1>2. s = t <=> s.version = t.version /\ s.build = t.build
    BY FinalIs
  <1> QED
    BY <1>1, <1>2 DEF AtMost, Before

LEMMA FirstCatalog == ASSUME Sound, [Next]_vars, catalogs' = 0 PROVE catalogs = 0 /\ ~Rebuild
  <1>1. catalogs \in Nat
    BY Constants DEF Sound, TypeOK
  <1>2. ~Rebuild
    BY <1>1 DEF Rebuild
  <1> QED
    BY <1>2, SidesKept

(* In the first catalog, everything is of its references. *)
LEMMA VersionGrows ==
    ASSUME Sound, [Next]_vars, ~Rebuild, NEW k \in Nat, k <= project.version
    PROVE  k <= project'.version
  <1>1. project.version \in Nat /\ project'.version \in Nat /\ project.version <= project'.version
    BY NextSound, Grows, Constants DEF Sound, TypeOK, Versions
  <1> QED
    BY <1>1

LEMMA LightsGrow ==
    ASSUME Sound, [Next]_vars, NEW n \in Night, NEW k \in Nat, k <= lights[n]
    PROVE  k <= lights'[n]
  <1>1. lights[n] \in Nat /\ lights'[n] \in Nat /\ lights[n] <= lights'[n]
    <2>1. lights \in [Night -> 0..MaxBuild] /\ lights' \in [Night -> 0..MaxBuild]
      BY NextSound DEF Sound, TypeOK
    <2> QED
      BY <2>1, Grows, Constants
  <1> QED
    BY <1>1

LEMMA StillInTime ==
    ASSUME Sound, [Next]_vars, ~Rebuild, NEW s, IsFinal(s), InTime(s)
    PROVE  InTime(s)'
  BY StackNumbers, VersionGrows, LightsGrow DEF InTime, IsFinal

LEMMA JobVersions ==
    ASSUME Sound, NEW p \in DOMAIN jobs
    PROVE  /\ Reference(p) => p.reference \in Nat
           /\ IsMerge(p) => p.version \in Nat /\ ~IsFinal(p) /\ ~Reference(p)
           /\ IsFinal(p) => ~Reference(p)
  <1>1. Plan(p)
    BY Typing DEF Sound, JobsIn
  <1> QED
    BY <1>1, Plans, Kinds0, Constants DEF Reference, Merge, Versions, IsFinal

LEMMA NextBlocks == ASSUME Sound, Bounded, Blocks, [Next]_vars PROVE Blocks'
  <1> SUFFICES ASSUME catalogs' = 0, NEW x \in Sides0'
               PROVE  /\ x.block <= project'.version
                      /\ IsFinal(x.plan) => x.plan.version <= x.block /\ x.plan.build <= lights'[x.plan.night]
                      /\ IsMerge(x.plan) => x.plan.version <= x.block
    BY DEF Blocks
  <1>1. catalogs = 0 /\ ~Rebuild
    BY FirstCatalog
  <1>2. CASE x \in Sides0
    <2>1. x.block \in Nat /\ (IsFinal(x.plan) => x.plan.night \in Night /\ x.plan.build \in Nat)
      BY <1>2, SidecarPlans, StackNumbers DEF IsFinal
    <2> QED
      BY <1>1, <1>2, <2>1, VersionGrows, LightsGrow DEF Blocks
  <1>3. CASE x \notin Sides0
    <2>1. worker.at = "store" /\ x = Sidecar(worker.job) /\ project' = project /\ lights' = lights
      BY <1>1, <1>3, SidesKept
    <2>2. x.plan = worker.job /\ x.block = project.version
      BY <2>1 DEF Sidecar
    <2>3. worker.job \in DOMAIN jobs /\ project.version \in Nat
      BY <2>1, AtWork, Constants DEF AtJob, Sound, TypeOK, Versions
    <2> QED
      BY <1>1, <2>1, <2>2, <2>3 DEF Bounded, InTime
  <1> QED
    BY <1>2, <1>3

LEMMA NextBounded == ASSUME Sound, Bounded, [Next]_vars PROVE Bounded'
  <1> SUFFICES ASSUME catalogs' = 0
               PROVE  /\ \A p \in DOMAIN jobs' : IsFinal(p) => InTime(p)'
                      /\ \A p \in DOMAIN jobs' : Reference(p) => p.reference <= project'.version
                      /\ \A p \in DOMAIN jobs' : IsMerge(p) => p.version <= project'.version
                      /\ \A s \in Finals' : InTime(s)'
                      /\ \A p \in {worker', user'} : p.project.version <= project'.version
    BY DEF Bounded
  <1>0. project.version \in Nat /\ project'.version \in Nat
    BY NextSound, Constants DEF Sound, TypeOK, Versions
  <1>1. catalogs = 0 /\ ~Rebuild
    BY FirstCatalog
  <1>2. \A p \in {worker, user} : p.project.version \in Nat /\ p.project.version <= project'.version
    <2>1. \A p \in {worker, user} : p.project.version \in Nat /\ p.project.version <= project.version
      BY <1>1, Typing, Constants DEF Bounded, Sound, Process
    <2> QED
      BY <1>1, <2>1, VersionGrows
  <1>3. ASSUME NEW p \in DOMAIN jobs'
        PROVE  /\ IsFinal(p) => InTime(p)'
               /\ Reference(p) => p.reference <= project'.version
               /\ IsMerge(p) => p.version <= project'.version
    <2>1. CASE p \in DOMAIN jobs
      BY <1>1, <2>1, JobVersions, StillInTime, VersionGrows DEF Bounded
    <2>2. CASE p \notin DOMAIN jobs /\ Planning
      <3> PICK N \in SUBSET Night :
             LET P == PlansFor(N, project', unmatched', lights') IN
             /\ Inserts(P, jobs')
             /\ \A q \in P : /\ ~IsMerge(q)
                             /\ IsFinal(q) => q.night \in N /\ q.version = project'.version /\ q.build = lights'[q.night]
                             /\ Reference(q) => q.reference = project'.version
        BY <2>2, PlanningJobs
      <3> DEFINE P == PlansFor(N, project', unmatched', lights')
      <3>1. p \in P
        BY <2>2 DEF Inserts
      <3>2. /\ IsFinal(p) => p.night \in N /\ p.version = project'.version /\ p.build = lights'[p.night]
            /\ Reference(p) => p.reference = project'.version
            /\ ~IsMerge(p)
        BY <3>1
      <3>3. lights' \in [Night -> 0..MaxBuild]
        BY NextSound DEF Sound, TypeOK
      <3> HIDE DEF P
      <3> QED
        BY <1>0, <3>2, <3>3, Constants DEF InTime
    <2>3. CASE p \notin DOMAIN jobs /\ Queueing
      <3>1. PICK r \in {worker, user} : (jobs' = jobs \/ Inserts({MergeOf(r)}, jobs')) /\ Merge(MergeOf(r)) /\ IsMerge(MergeOf(r))
        BY <2>3, QueueingJobs
      <3>2. p = MergeOf(r)
        BY <2>3, <3>1 DEF Inserts
      <3>3. p.version <= project'.version
        BY <1>2, <3>2 DEF MergeOf
      <3>4. ~IsFinal(p) /\ ~Reference(p)
        BY <3>1, <3>2, Plans, Kinds0 DEF IsFinal, Plan
      <3> QED
        BY <3>3, <3>4
    <2> QED
      BY <1>1, <2>1, <2>2, <2>3, JobsKept
  <1>4. \A s \in Finals' : InTime(s)'
    <2>1. \A s \in Finals : IsFinal(s) /\ InTime(s)'
      BY <1>1, CurrentIn, StillInTime DEF Bounded, Sound
    <2>2. CASE CommitStack
      <3>1. Finals' = Finals \/ (IsFinal(worker.job) /\ worker.job \in DOMAIN jobs /\ Finals' = Finals \cup {worker.job})
        BY <2>2, CommitStands
      <3>2. ASSUME IsFinal(worker.job), worker.job \in DOMAIN jobs
            PROVE  worker.job.version <= project'.version /\ worker.job.build <= lights'[worker.job.night]
        BY <1>1, <2>2, <3>2, StillInTime DEF Bounded, InTime, CommitStack, Nights
      <3> QED
        BY <2>1, <3>1, <3>2 DEF InTime
    <2>3. CASE ~CommitStack
      BY <1>1, <2>1, <2>3, StandingKept, StandingCurrent
    <2> QED
      BY <2>2, <2>3
  <1>5. \A p \in {worker', user'} : p.project.version <= project'.version
    <2>1. Idle.project.version = 0 /\ project.version <= project'.version
      BY <1>0, <1>1, Grows DEF Idle
    <2> QED
      BY <1>0, <1>2, <2>1, Readings DEF Took
  <1> QED
    BY <1>3, <1>4, <1>5

(* In the first catalog, the sidecar of what is published is stored once. *)
LEMMA RefusedIs ==
    ASSUME Sound, catalogs = 0, Stored, Blocks, PublishedOnce, NEW alike \in BOOLEAN, StoreRefused(alike)
    PROVE  /\ IsMerge(worker.job) /\ worker.job \in DOMAIN jobs /\ jobs[worker.job] = "running"
           /\ worker.job.version \in Nat /\ worker.job.version < project.version
           /\ jobs' = [jobs EXCEPT ![worker.job] = "abandoned"]
  <1> DEFINE new == Sidecar(worker.job)
  <1>0. worker.at = "store" /\ worker.job \in DOMAIN jobs /\ jobs[worker.job] = "running"
    BY AtWork DEF StoreRefused, AtJob
  <1>1. PICK x \in archive : SamePath(x, new) /\ ~SameBytes(x, new, alike)
    BY DEF StoreRefused
  <1>2. new.plan = worker.job /\ new.block = project.version /\ new.catalog = 0
    BY DEF Sidecar
  <1>3. x \in Sides0 /\ x.plan = worker.job /\ x.catalog = 0
    <2>1. x \in Sides0 /\ x.catalog \in Nat
      BY <1>1, SidecarPlans DEF Sides0
    <2> QED
      BY <1>1, <1>2, <2>1 DEF SamePath, Stored
  <1>4. x.block # project.version
    BY <1>1, <1>2, <1>3 DEF SameBytes
  <1>5. IsMerge(worker.job)
    BY <1>0, <1>3, <1>4 DEF PublishedOnce, Is
  <1>6. worker.job.version \in Nat /\ x.block \in Nat /\ project.version \in Nat
    BY <1>0, <1>3, <1>5, SidecarPlans, JobVersions, Constants DEF Sound, TypeOK, Versions
  <1>7. worker.job.version <= x.block /\ x.block <= project.version
    BY <1>3, <1>5 DEF Blocks
  <1> QED
    BY <1>0, <1>4, <1>5, <1>6, <1>7 DEF StoreRefused

(* What a step does to the jobs that are done or abandoned. *)
LEMMA StatusKept ==
    ASSUME Sound, [Next]_vars, ~Rebuild, NEW p \in DOMAIN jobs
    PROVE  /\ p \in DOMAIN jobs'
           /\ jobs[p] = "succeeded" => jobs'[p] = "succeeded"
           /\ jobs'[p] = "abandoned" => jobs[p] = "abandoned" \/ (p = worker.job /\ \E alike \in BOOLEAN : StoreRefused(alike))
  <1>1. CASE Planning
    BY <1>1, PlanningJobs DEF Inserts
  <1>2. CASE Queueing
    BY <1>2, QueueingJobs DEF Inserts
  <1>3. CASE \E q \in DOMAIN jobs : RunJob(q)
    BY <1>3 DEF RunJob, Is
  <1>4. CASE JobFails \/ Finish \/ \E alike \in BOOLEAN : StoreRefused(alike)
    BY <1>4, AtWork DEF JobFails, Finish, StoreRefused, AtJob
  <1>5. CASE Crash
    BY <1>5, CrashJobs DEF Sound, Working
  <1>6. CASE WorkerRecords \/ UserRecords
    BY <1>6 DEF WorkerRecords, UserRecords, Record
  <1> QED
    BY <1>1, <1>2, <1>3, <1>4, <1>5, <1>6, NextCases DEF JobStep, Planning, Queueing, Asks, Decide, MergeCommand, Waive, WorkerSees, UserSees,
       UserKilled, Store, RunEnds, Catalog, CommitStack, CommitReference, CommitMerge, BackfillNas, RebuiltGates, vars

LEMMA NextRefused == ASSUME Sound, Stored, Blocks, PublishedOnce, Refused, [Next]_vars PROVE Refused'
  <1> SUFFICES ASSUME catalogs' = 0, NEW p \in DOMAIN jobs', jobs'[p] = "abandoned"
               PROVE  IsMerge(p) /\ p.version < project'.version
    BY DEF Refused
  <1>1. catalogs = 0 /\ ~Rebuild
    BY FirstCatalog
  <1>2. p \in DOMAIN jobs
    <2>1. CASE Planning
      BY <2>1, PlanningJobs DEF Inserts
    <2>2. CASE Queueing
      BY <2>2, QueueingJobs DEF Inserts
    <2> QED
      BY <1>1, <2>1, <2>2, JobsKept
  <1>3. IsMerge(p) /\ p.version \in Nat /\ p.version < project.version
    BY <1>1, <1>2, StatusKept, RefusedIs, JobVersions DEF Refused
  <1>4. project.version \in Nat /\ project'.version \in Nat /\ project.version <= project'.version
    BY <1>1, NextSound, Grows, Constants DEF Sound, TypeOK, Versions
  <1> QED
    BY <1>3, <1>4

(* The worker's job stays at its publication until it succeeds. *)
LEMMA StillPublished ==
    ASSUME Sound, [Next]_vars, ~Rebuild, worker.job # NoPlan, worker.at # "run", ~IsMerge(worker.job),
           \A alike \in BOOLEAN : ~StoreRefused(alike)
    PROVE  \/ worker.job \in DOMAIN jobs' /\ jobs'[worker.job] = "succeeded"
           \/ worker'.job = worker.job /\ worker'.at # "run" /\ project'.version = project.version
  <1>1. ~Planning /\ worker.at # "idle" /\ worker.at # "gates" /\ worker.job \in DOMAIN jobs /\ Process(worker)
    <2>1. worker.at # "idle" /\ worker.at # "gates" /\ worker.job \in DOMAIN jobs
      BY DEF Sound, Working, AtJob
    <2>2. Planning => AtRequests
      BY PlanningJobs
    <2> QED
      BY <2>1, <2>2, Typing DEF AtRequests, Sound
  <1>2. project'.version = project.version
    BY <1>1, Grows DEF Planning
  <1>3. CASE Finish
    BY <1>1, <1>3 DEF Finish
  <1>4. CASE Crash
    BY <1>2, <1>4, CrashAt
  <1>5. CASE \E nas, alike \in BOOLEAN : Store(nas, alike)
    BY <1>2, <1>5, StoreSteps
  <1>6. CASE CommitStack \/ CommitReference \/ CommitMerge
    <2>1. worker.at = "commit" /\ worker' = AfterCommit
      BY <1>6 DEF CommitStack, CommitReference, CommitMerge
    <2> QED
      BY <1>2, <2>1, AfterCommitIn
  <1>7. CASE WorkerRecords \/ WorkerQueues
    <2>1. (worker' = Recorder(worker) /\ worker.at = "record") \/ worker' = End(worker)
      BY <1>7 DEF WorkerRecords, WorkerQueues, Record
    <2> QED
      BY <1>1, <1>2, <2>1, RecorderIn, EndIn
  <1>8. CASE WorkerSees
    BY <1>1, <1>2, <1>8, SeeProcess DEF WorkerSees, Sound
  <1>9. ASSUME NEW p \in DOMAIN jobs PROVE ~RunJob(p)
    BY <1>1 DEF RunJob, AtRequests
  <1>10. ~\E n \in Night, d \in {"include", "exclude"} : Decide(n, d)
    BY <1>1 DEF Decide, AtRequests
  <1>11. ~RunEnds /\ ~JobFails /\ ~RebuiltGates
    BY <1>1 DEF RunEnds, JobFails, RebuiltGates
  <1> QED
    BY <1>1, <1>2, <1>3, <1>4, <1>5, <1>6, <1>7, <1>8, <1>9, <1>10, <1>11, NextCases DEF JobStep, Planning, Asks, MergeCommand, Waive, UserSees,
       UserKilled, UserRecords, UserQueues, BackfillNas, vars

LEMMA NextPublishedOnce == ASSUME Sound, Stored, Blocks, PublishedOnce, [Next]_vars PROVE PublishedOnce'
  <1> SUFFICES ASSUME catalogs' = 0, NEW x \in Sides0', ~IsMerge(x.plan), ~Is(x.plan, {"succeeded"})'
               PROVE  x.plan = worker'.job /\ worker'.at # "run" /\ x.block = project'.version
    BY DEF PublishedOnce
  <1>1. catalogs = 0 /\ ~Rebuild
    BY FirstCatalog
  <1>2. CASE x \in Sides0
    <2>1. ~Is(x.plan, {"succeeded"})
      BY <1>1, StatusKept DEF Is
    <2>2. x.plan = worker.job /\ worker.at # "run" /\ x.block = project.version
      BY <1>1, <1>2, <2>1 DEF PublishedOnce
    <2>3. worker.job # NoPlan
      BY <1>2, <2>2, SidecarPlans, Plans
    <2> QED
      BY <1>1, <2>2, <2>3, StillPublished, RefusedIs DEF Is
  <1>3. CASE x \notin Sides0
    <2>1. worker.at = "store" /\ x = Sidecar(worker.job) /\ project' = project
      BY <1>1, <1>3, SidesKept
    <2>2. x.plan = worker.job /\ x.block = project.version /\ worker.job # NoPlan
      BY <2>1, AtWork DEF Sidecar, AtJob
    <2> QED
      BY <1>1, <2>1, <2>2, StillPublished, RefusedIs DEF Is
  <1> QED
    BY <1>2, <1>3

LEMMA NextRunsNewest == ASSUME Sound, Bounded, Bounded', Refused, RunsNewest, [Next]_vars PROVE RunsNewest'
  <1>1. CASE catalogs' # 0
    BY <1>1 DEF RunsNewest
  <1>2. CASE catalogs' = 0
    <2>0. catalogs = 0 /\ ~Rebuild
      BY <1>2, FirstCatalog
    <2> SUFFICES ASSUME NEW p \in DOMAIN jobs', IsFinal(p), jobs'[p] \in {"queued", "running"},
                        NEW q \in DOMAIN jobs' \cup DOMAIN masters', IsFinal(q), q.night = p.night
                 PROVE  AtMost(q, p)
      BY DEF RunsNewest
    <2>1. q \in DOMAIN masters' => q \in Finals'
      BY DEF Finals, IsFinal
    <2>2. q \in DOMAIN masters' => q \in DOMAIN masters \cup DOMAIN jobs
      <3>1. CASE CommitStack
        <4>1. worker.job \in Stack /\ TypeOK /\ masters' = Superseding(worker.job) /\ worker.job \in DOMAIN jobs
          BY <3>1, CommitStands DEF CommitStack, Sound
        <4>2. DOMAIN masters' = DOMAIN masters \cup {worker.job}
          BY <4>1, SupersedingRows
        <4> QED
          BY <4>1, <4>2
      <3>2. CASE ~CommitStack
        BY <2>0, <3>2, StandingKept DEF Standing
      <3> QED
        BY <3>1, <3>2
    <2>3. p \in DOMAIN jobs /\ jobs[p] \in {"queued", "running"} /\ q \in DOMAIN masters \cup DOMAIN jobs => AtMost(q, p)
      BY <2>0 DEF RunsNewest
    <2>4. CASE Planning
      <3> PICK N \in SUBSET Night :
             LET P == PlansFor(N, project', unmatched', lights') IN
             /\ Inserts(P, jobs')
             /\ \A r \in P : IsFinal(r) => r.night \in N /\ r.version = project'.version /\ r.build = lights'[r.night]
             /\ \A r \in DOMAIN jobs : jobs[r] # "running"
        BY <2>4, PlanningJobs
      <3> DEFINE P == PlansFor(N, project', unmatched', lights')
      <3>1. /\ Inserts(P, jobs') /\ \A r \in DOMAIN jobs : jobs[r] # "running"
            /\ \A r \in P : IsFinal(r) => r.night \in N /\ r.version = project'.version /\ r.build = lights'[r.night]
        OBVIOUS
      <3> HIDE DEF P
      <3>2. CASE p \in P
        <4>1. p.version = project'.version /\ p.build = lights'[p.night]
          BY <3>1, <3>2
        <4>2. q.version <= project'.version /\ q.build <= lights'[q.night]
          BY <1>2, <2>1 DEF Bounded, InTime
        <4>3. q.version \in Nat /\ p.version \in Nat /\ q.build \in Nat /\ p.build \in Nat
          BY StackNumbers DEF IsFinal
        <4> QED
          BY <4>1, <4>2, <4>3, BeforeOrder
      <3>3. CASE p \notin P
        <4>1. p \in DOMAIN jobs /\ jobs'[p] # "running" /\ jobs'[p] = "queued" /\ jobs[p] = "queued"
          BY <3>1, <3>3 DEF Inserts
        <4>2. CASE q \in P \ DOMAIN jobs
          <5>1. Replaces(q, p)
            BY Kinds0 DEF Replaces, IsFinal
          <5> QED
            BY <3>1, <4>1, <4>2, <5>1 DEF Inserts
        <4>3. CASE q \notin P \ DOMAIN jobs
          <5>1. q \in DOMAIN masters \cup DOMAIN jobs
            BY <2>2, <3>1, <4>3 DEF Inserts
          <5> QED
            BY <2>3, <4>1, <5>1
        <4> QED
          BY <4>2, <4>3
      <3> QED
        BY <3>2, <3>3
    <2>5. CASE Queueing
      <3> PICK r \in {worker, user} : (jobs' = jobs \/ Inserts({MergeOf(r)}, jobs')) /\ Merge(MergeOf(r))
        BY <2>5, QueueingJobs
      <3>1. p # MergeOf(r) /\ q # MergeOf(r)
        BY Kinds0 DEF IsFinal
      <3>2. p \in DOMAIN jobs /\ jobs[p] \in {"queued", "running"} /\ (q \in DOMAIN jobs' => q \in DOMAIN jobs)
        BY <3>1 DEF Inserts
      <3> QED
        BY <2>2, <2>3, <3>2
    <2>6. CASE ~Planning /\ ~Queueing
      <3>1. p \in DOMAIN jobs /\ jobs[p] \in {"queued", "running", "abandoned"} /\ (q \in DOMAIN jobs' => q \in DOMAIN jobs)
        BY <2>0, <2>6, JobsKept
      <3>2. jobs[p] # "abandoned"
        BY <2>0, <3>1, JobVersions DEF Refused
      <3> QED
        BY <2>2, <2>3, <3>1, <3>2
    <2> QED
      BY <2>4, <2>5, <2>6
  <1> QED
    BY <1>1, <1>2

(* The first rebuild ranks the sidecars of one catalog: the current master of  *)
(* a night is the newest.                                                    *)
LEMMA FirstRebuild ==
    ASSUME Sound, Stored, catalogs = 0, Rebuild
    PROVE  \A s \in Finals' : \E t \in Current' : /\ t.night = s.night /\ AtMost(s, t)
                                                  /\ masters'[s].by = IF s = t THEN NoStack ELSE t
  <1> PICK last \in Rankings :
             /\ Finals' = {x.plan : x \in Sides("night_master")}
             /\ \A s \in Finals' : /\ last[s.night] \in Finals' /\ last[s.night].night = s.night
                                   /\ \E x \in Sides("night_master") : x.plan = last[s.night] /\ ~Outranked(x, Sides("night_master"))
                                   /\ masters'[s].by = IF last[s.night] = s THEN NoStack ELSE last[s.night]
                                   /\ s \in Current' <=> last[s.night] = s
    BY RebuildStands
  <1> SUFFICES ASSUME NEW s \in Finals'
               PROVE  \E t \in Current' : t.night = s.night /\ AtMost(s, t) /\ masters'[s].by = IF s = t THEN NoStack ELSE t
    OBVIOUS
  <1>1. PICK x \in Sides("night_master") : x.plan = last[s.night] /\ ~Outranked(x, Sides("night_master"))
    OBVIOUS
  <1>2. PICK y \in Sides("night_master") : y.plan = s
    OBVIOUS
  <1>3. x.catalog = 0 /\ y.catalog = 0
    <2>1. x \in Sides0 /\ y \in Sides0
      BY <1>1, <1>2, SideKinds DEF Sides0
    <2> QED
      BY <2>1, SidecarPlans DEF Stored
  <1>4. x.plan.night = s.night /\ x.plan \in Current' /\ IsFinal(x.plan) /\ IsFinal(s)
    <2>1. last[x.plan.night] = x.plan /\ x.plan \in Finals'
      BY <1>1
    <2> QED
      BY <1>1, <1>2, <2>1, SideKinds
  <1>5. ~Before(x.plan, s)
    BY <1>1, <1>2, <1>3, <1>4 DEF Outranked, Before
  <1>6. AtMost(s, x.plan)
    BY <1>4, <1>5, BeforeOrder
  <1> QED
    BY <1>1, <1>4, <1>6

LEMMA NextOrdered == ASSUME Sound, RunsNewest, Ordered, [Next]_vars PROVE Ordered'
  <1>0. \A s \in Finals : IsFinal(s) /\ s \in DOMAIN masters
    BY CurrentIn DEF Sound
  <1> SUFFICES ASSUME catalogs' = 0
               PROVE  /\ \A s \in Finals' : masters'[s].by # NoStack =>
                            masters'[s].by \in Finals' /\ masters'[s].by.night = s.night /\ Before(s, masters'[s].by)
                      /\ \A s \in Finals' : \E t \in Current' : t.night = s.night
    BY DEF Ordered
  <1>3. catalogs = 0 /\ ~Rebuild
    BY FirstCatalog
  <1>4. /\ \A s \in Finals : masters[s].by # NoStack =>
             masters[s].by \in Finals /\ masters[s].by.night = s.night /\ Before(s, masters[s].by)
        /\ \A s \in Finals : \E t \in Current : t.night = s.night
    BY <1>3 DEF Ordered
  <1>1. CASE ~CommitStack
    <2>1. Standing /\ Finals' = Finals /\ Current' = Current
      BY <1>1, <1>3, StandingKept, StandingCurrent
    <2> QED
      BY <1>0, <1>4, <2>1 DEF Standing
  <1>2. CASE CommitStack
    <2>1. CASE ~IsFinal(worker.job)
      BY <1>2, <1>4, <2>1, CommitStands
    <2>2. CASE IsFinal(worker.job)
      <3> DEFINE p == worker.job
      <3>1. /\ p \in DOMAIN jobs /\ jobs[p] = "running" /\ IsFinal(p)
            /\ Finals' = Finals \cup {p}
            /\ p \in Current' <=> p \notin Finals \/ p \in Current
            /\ \A t \in Finals \ {p} : /\ t \in Current' <=> t \in Current /\ t.night # p.night
                                       /\ masters'[t].by = IF t \in Current /\ t.night = p.night THEN p ELSE masters[t].by
            /\ p \in Finals => masters'[p].by = masters[p].by
            /\ p \notin Finals => masters'[p].by = NoStack
        BY <1>2, <2>2, CommitStands
      <3>2. \A q \in Finals : q.night = p.night => AtMost(q, p)
        BY <1>0, <1>3, <3>1 DEF RunsNewest
      <3> HIDE DEF p
      <3>4. ASSUME p \in Finals PROVE masters[p].by = NoStack /\ p \in Current
        <4>1. ASSUME masters[p].by # NoStack PROVE FALSE
          <5> DEFINE t == masters[p].by
          <5>1. t \in Finals /\ t.night = p.night /\ Before(p, t)
            BY <1>4, <3>4, <4>1
          <5>2. AtMost(t, p) /\ IsFinal(t)
            BY <1>0, <3>2, <5>1
          <5> HIDE DEF t
          <5> QED
            BY <3>1, <5>1, <5>2, BeforeOrder
        <4> QED
          BY <3>4, <4>1 DEF Current, IsCurrent
      <3>5. p \in Current'
        BY <3>1, <3>4
      <3>6. ASSUME NEW s \in Finals', masters'[s].by # NoStack
            PROVE  masters'[s].by \in Finals' /\ masters'[s].by.night = s.night /\ Before(s, masters'[s].by)
        <4>1. s # p /\ s \in Finals
          BY <3>1, <3>4, <3>6
        <4>2. CASE s \in Current /\ s.night = p.night
          <5>1. masters'[s].by = p /\ AtMost(s, p)
            BY <3>1, <3>2, <4>1, <4>2
          <5> QED
            BY <3>1, <4>1, <4>2, <5>1 DEF AtMost
        <4>3. CASE ~(s \in Current /\ s.night = p.night)
          <5>1. masters'[s].by = masters[s].by
            BY <3>1, <4>1, <4>3
          <5> QED
            BY <3>1, <1>4, <3>6, <4>1, <5>1
        <4> QED
          BY <4>2, <4>3
      <3>7. ASSUME NEW s \in Finals' PROVE \E t \in Current' : t.night = s.night
        <4>1. CASE s.night = p.night
          BY <3>5, <4>1
        <4>2. CASE s.night # p.night
          <5>1. s \in Finals
            BY <3>1, <4>2
          <5> PICK t \in Current : t.night = s.night
            BY <1>4, <5>1
          <5>2. t \in Finals \ {p} /\ t.night # p.night
            BY <4>2 DEF Current
          <5>3. t \in Current'
            BY <3>1, <5>2
          <5> QED
            BY <5>3
        <4> QED
          BY <4>1, <4>2
      <3> QED
        BY <3>6, <3>7
    <2> QED
      BY <2>1, <2>2
  <1> QED
    BY <1>1, <1>2

LEMMA NextStored == ASSUME Sound, Stored, [Next]_vars PROVE Stored'
  <1>0. catalogs \in Nat
    BY Constants DEF Sound, TypeOK
  <1>1. CASE Rebuild
    <2>1. Sides0' = archive /\ archive' = archive /\ catalogs' = catalogs + 1
      BY <1>1 DEF Rebuild, Sides0
    <2>2. \A x \in Sides0' : x.catalog <= catalogs'
      <3>1. \A x \in archive : x.catalog \in Nat /\ x.catalog <= catalogs
        BY SidecarPlans DEF Stored, Sides0
      <3> QED
        BY <1>0, <2>1, <3>1
    <2>3. \A m \in multi' : \E x \in Sides0' : x.plan = m.plan
      BY <1>1, <2>1, SideKinds DEF Rebuild, RebuiltMerges
    <2>4. \A s \in Finals' : \E x \in Sides0' : x.plan = s
      <3>1. Finals' = {x.plan : x \in Sides("night_master")}
        BY <1>1, RebuildStands
      <3> QED
        BY <2>1, <3>1, SideKinds
    <2>5. worker'.at # "commit"
      BY <1>1 DEF Rebuild, Idle
    <2> QED
      BY <2>2, <2>3, <2>4, <2>5 DEF Stored
  <1>2. CASE ~Rebuild
    <2>1. Sides0 \subseteq Sides0' /\ catalogs' = catalogs
      BY <1>2, SidesKept
    <2>2. \A x \in Sides0' : x.catalog <= catalogs'
      <3>1. \A x \in Sides0' \ Sides0 : x.catalog = catalogs
        BY <1>2, SidesKept DEF Sidecar
      <3> QED
        BY <1>0, <2>1, <3>1 DEF Stored
    <2>3. \A m \in multi' : \E x \in Sides0' : x.plan = m.plan
      <3>1. CASE CommitMerge
        <4>1. worker.at = "commit" /\ Archives(worker.job)
          BY <3>1 DEF CommitMerge, Archives
        <4>2. \E x \in Sides0 : x.plan = worker.job
          BY <4>1 DEF Stored, Known
        <4>3. multi' \subseteq multi \cup {[plan |-> worker.job, version |-> VersionFor(worker.job)]}
          BY <3>1 DEF CommitMerge
        <4> QED
          BY <2>1, <4>2, <4>3 DEF Stored
      <3> QED
        BY <1>2, <2>1, <3>1, MultiKept DEF Stored
    <2>4. \A s \in Finals' : \E x \in Sides0' : x.plan = s
      <3>1. CASE CommitStack
        <4>1. worker.at = "commit" /\ (Finals' = Finals \/ (IsFinal(worker.job) /\ Finals' = Finals \cup {worker.job}))
          BY <3>1, CommitStands
        <4>2. IsFinal(worker.job) => \E x \in Sides0 : x.plan = worker.job
          BY <4>1 DEF Stored, Known, Archives
        <4> QED
          BY <2>1, <4>1, <4>2 DEF Stored
      <3>2. CASE ~CommitStack
        BY <1>2, <2>1, <3>2, StandingKept, StandingCurrent DEF Stored
      <3> QED
        BY <3>1, <3>2
    <2>5. ASSUME worker'.at = "commit", Archives(worker'.job) PROVE Known(worker.job)'
      <3>1. CASE worker' = worker
        <4>1. Known(worker.job)
          BY <2>5, <3>1 DEF Stored
        <4>2. multi' = multi
          <5>1. CASE CommitMerge
            BY <2>5, <3>1, <5>1, AfterCommitIn DEF CommitMerge
          <5> QED
            BY <1>2, <5>1, MultiKept
        <4>3. VersionFor(worker.job)' = VersionFor(worker.job)
          BY <3>1, <4>2 DEF VersionFor, Newest
        <4> QED
          BY <2>1, <3>1, <4>1, <4>3 DEF Known
      <3> QED
        BY <1>2, <2>5, <3>1, SidesKept
    <2> QED
      BY <2>2, <2>3, <2>4, <2>5 DEF Stored
  <1> QED
    BY <1>1, <1>2

LEMMA InitMain == Init => Sound /\ Main
  <1> SUFFICES ASSUME Init PROVE Sound /\ Main
    OBVIOUS
  <1>1. Sound /\ OneCurrent /\ MergesApart
    BY InitSound, InitApart
  <1>2. DOMAIN masters = {} /\ DOMAIN jobs = {} /\ multi = {} /\ Sides0 = {} /\ worker = Idle
    BY DEF Init, Sides0
  <1>3. Finals = {} /\ project.version = 1 /\ user = Idle /\ Idle.project.version = 0
    BY <1>2 DEF Init, Finals, Idle
  <1>4. Stored
    BY <1>2, <1>3, IdleProcess DEF Init, Stored
  <1>5. Bounded
    <2>1. \A p \in {worker, user} : p.project.version <= project.version
      <3>1. worker.project.version = 0 /\ user.project.version = 0
        BY <1>2, <1>3
      <3> QED
        BY <1>3, <3>1
    <2>2. \A s \in Finals : InTime(s)
      BY <1>3
    <2> QED
      BY <1>2, <2>1, <2>2 DEF Bounded
  <1>6. Blocks /\ PublishedOnce /\ Refused
    BY <1>2 DEF Blocks, PublishedOnce, Refused
  <1>7. RunsNewest
    BY <1>2 DEF RunsNewest
  <1>8. Ordered
    BY <1>3, Zenon DEF Ordered
  <1> QED
    BY <1>1, <1>4, <1>5, <1>6, <1>7, <1>8 DEF Main, Sound

LEMMA NextMain == Sound /\ Main /\ [Next]_vars => (Sound /\ Main)'
  <1> SUFFICES ASSUME Sound, Main, [Next]_vars PROVE (Sound /\ Main)'
    OBVIOUS
  <1> USE DEF Main
  <1>1. Sound'
    BY NextSound
  <1>2. OneCurrent' /\ MergesApart' /\ Bounded' /\ Stored' /\ Blocks' /\ PublishedOnce' /\ Refused' /\ Ordered'
    BY NextOneCurrent, NextMergesApart, NextBounded, NextStored, NextBlocks, NextPublishedOnce, NextRefused, NextOrdered
  <1>3. RunsNewest'
    BY <1>2, NextRunsNewest
  <1> QED
    BY <1>1, <1>2, <1>3 DEF Sound

(* A night that was ever stacked with verified flats keeps exactly one         *)
(* current final master: through restacks, new references, failures, and a     *)
(* publication repeated after a crash, until the catalog is rebuilt.          *)
THEOREM NightKeepsAMasterHolds == Spec => []NightKeepsAMaster
  <1>1. ASSUME Main PROVE NightKeepsAMaster
    <2> SUFFICES ASSUME catalogs = 0, NEW s \in Finals PROVE Cardinality({t \in Current : t.night = s.night}) = 1
      BY DEF NightKeepsAMaster
    <2> PICK t \in Current : t.night = s.night
      BY <1>1 DEF Main, Ordered
    <2>1. {u \in Current : u.night = s.night} = {t}
      BY <1>1 DEF Main, OneCurrent
    <2> QED
      BY <2>1, FS_Singleton
  <1> QED
    BY <1>1, InitMain, NextMain, PTL DEF Spec

(* The first rebuild, with every sidecar archived, keeps each night's current  *)
(* master, or a later one that was stored and not yet recorded, and every      *)
(* multi-night master.                                                       *)
THEOREM RebuildLosesNoMasterHolds == Spec => RebuildLosesNoMaster
  <1>1. ASSUME Sound, Main, [Next]_vars PROVE [Rebuild /\ unarchived = {} /\ catalogs = 0 => Rebuilt]_vars
    <2> SUFFICES ASSUME Rebuild, unarchived = {}, catalogs = 0 PROVE Rebuilt
      OBVIOUS
    <2> USE <1>1 DEF Main
    <2>1. Sides0 = archive
      BY DEF Sides0
    <2>2. ASSUME NEW m \in multi PROVE \E k \in multi' : k.plan = m.plan
      <3> DEFINE X == {x \in Sides("multi_night_master") : x.plan = m.plan}
                 V == {x.version : x \in X}
      <3>1. PICK x \in archive : x.plan = m.plan
        BY <2>1 DEF Stored
      <3>2. x \in X
        <4>1. IsMerge(m.plan) /\ ~IsStack(m.plan)
          BY Typing, Kinds0 DEF Sound, Merge
        <4>2. x.type = "multi_night_master"
          BY <2>1, <3>1, <4>1, SidecarPlans DEF SidecarType
        <4> QED
          BY <3>1, <4>2 DEF Sides
      <3>3. V \in SUBSET Nat /\ V # {}
        BY <2>1, <3>2, SideKinds, SidecarPlans
      <3>4. PICK v \in V : \A w \in V : v <= w
        <4> HIDE DEF V
        <4> QED
          BY <3>3, Smallest
      <3>5. PICK y \in X : y.version = v
        OBVIOUS
      <3>6. [plan |-> y.plan, version |-> y.version] \in RebuiltMerges
        BY <3>4, <3>5 DEF RebuiltMerges
      <3> QED
        BY <3>5, <3>6 DEF Rebuild
    <2>3. ASSUME NEW s \in Current
          PROVE  \E t \in DOMAIN masters' : masters'[t].by = NoStack /\ t.night = s.night /\ (t = s \/ Before(s, t))
      <3>1. PICK x \in archive : x.plan = s
        BY <2>1 DEF Stored, Current
      <3>2. x.type = "night_master"
        BY <2>1, <3>1, SidecarPlans, CurrentIn, Kinds0 DEF SidecarType, IsFinal, Sound
      <3>3. x \in Sides("night_master")
        BY <3>2 DEF Sides
      <3>4. s \in Finals'
        BY <3>1, <3>3, RebuildStands
      <3>5. PICK t \in Current' : t.night = s.night /\ AtMost(s, t)
        BY <3>4, FirstRebuild
      <3> QED
        BY <3>5 DEF Current, IsCurrent, Finals, AtMost
    <2> QED
      BY <2>2, <2>3 DEF Rebuilt
  <1> QED
    BY <1>1, InitMain, NextMain, PTL DEF Spec, RebuildLosesNoMaster

-----------------------------------------------------------------------------
(* While nothing lapsed: what stays, and what a step leaves due. *)

Records == WorkerRecords \/ UserRecords

LEMMA NothingLapses ==
    ASSUME Sound, [Next]_vars, ~lapsed'
    PROVE  /\ ~lapsed /\ ~Rebuild /\ ~UserKilled
           /\ WorkerRecords \/ WorkerQueues => worker.seen = Evaluate /\ worker.project = project
           /\ UserRecords \/ UserQueues => user.seen = Evaluate /\ user.project = project
  <1>1. ~Rebuild /\ ~UserKilled
    BY DEF Rebuild, UserKilled
  <1>2. CASE Records \/ Queueing
    BY <1>1, <1>2 DEF Records, Queueing, WorkerRecords, UserRecords, WorkerQueues, UserQueues, Record, Insert
  <1>3. CASE Planning /\ ~Records /\ ~Queueing
    <2>1. lapsed' = lapsed
      BY <1>3, NightRequestSteps DEF Planning, PlanNight, Rereference, Sound
    <2> QED
      BY <1>1, <1>3, <2>1 DEF Records, Queueing
  <1>4. CASE ~Planning /\ ~Records /\ ~Queueing
    <2>1. lapsed' = lapsed
      BY <1>1, <1>4, NextCases DEF Planning, Records, Queueing, Asks, Decide, MergeCommand, Waive, WorkerSees, UserSees, JobStep, RunJob, RunEnds, JobFails, Finish,
         Crash, StoreRefused, Store, CommitStack, CommitReference, CommitMerge, BackfillNas, RebuiltGates, vars
    <2> QED
      BY <1>1, <1>4, <2>1 DEF Records, Queueing
  <1> QED
    BY <1>2, <1>3, <1>4

LEMMA Quiet ==
    ASSUME Sound, [Next]_vars, ~Planning, ~Asks, ~Records, ~Rebuild, ~RebuiltGates
    PROVE  UNCHANGED <<decision, held, flagged, stale, sky, lights, unmatched>> /\ project'.version = project.version
  <1>1. ~Rereference
    BY DEF Planning
  <1>2. project'.version = project.version
    BY <1>1, Grows
  <1>3. UNCHANGED <<decision, held, flagged, stale, sky, lights, unmatched>>
    BY NextCases DEF Planning, Records, JobStep, RunJob, RunEnds, JobFails, Finish, Crash, StoreRefused, Store, Catalog, Nights,
       CommitStack, CommitReference, CommitMerge, WorkerQueues, UserQueues, Insert, BackfillNas, vars
  <1> QED
    BY <1>2, <1>3

(* A gate reads no more than this. *)
LEMMA SameGates ==
    ASSUME UNCHANGED <<decision, sky>>, project'.version = project.version, Current' = Current,
           \A s \in Current : s.night \in held' <=> s.night \in held
    PROVE  Evaluate' = Evaluate /\ \A s \in Current : Gate(s)' = Gate(s)
  <1>1. ASSUME NEW s, NEW v PROVE IsOutlier(s, v)' <=> IsOutlier(s, v)
    BY DEF IsOutlier
  <1>2. ASSUME NEW s \in Current PROVE Gate(s)' = Gate(s)
    BY <1>1 DEF Gate
  <1> QED
    BY <1>2 DEF Evaluate

LEMMA FinalsKept == ASSUME Sound, [Next]_vars, ~Rebuild PROVE Finals \subseteq Finals'
  BY StandingKept, StandingCurrent, CommitStands

(* While nothing lapsed, no publication is refused but that of a merge of an   *)
(* older reference.                                                          *)
Refusal == \E alike \in BOOLEAN : StoreRefused(alike)
LEMMA OnlyMergesRefused ==
    ASSUME Sound, Main, catalogs = 0, Refusal
    PROVE  IsMerge(worker.job) /\ worker.job.version \in Nat /\ worker.job.version < project.version
  BY RefusedIs DEF Refusal, Main

(* A stack that is due stays due, or a newer plan of its night is, or it is    *)
(* published.                                                                *)
LEMMA DueKept ==
    ASSUME Sound, Main, catalogs = 0, [Next]_vars, ~Rebuild, NEW p \in DOMAIN jobs, IsFinal(p), Due(p), ~(CommitStack /\ p = worker.job)
    PROVE  \E q \in DOMAIN jobs' : /\ IsFinal(q) /\ q.night = p.night /\ Due(q)'
                                   /\ q.version = p.version \/ q.version = project'.version
  <1>0. IsStack(p) /\ ~IsMerge(p) /\ p.kind = "final" /\ JobsIn
    BY Kinds0, Typing DEF IsFinal, Sound
  <1>1. CASE Planning
    <2> PICK N \in SUBSET Night :
             LET P == PlansFor(N, project', unmatched', lights') IN
             /\ Inserts(P, jobs')
             /\ \A r \in P : Plan(r) /\ (IsFinal(r) => r.night \in N /\ r.version = project'.version /\ r.build = lights'[r.night])
             /\ \A r \in DOMAIN jobs : jobs[r] # "running"
      BY <1>1, PlanningJobs
    <2> DEFINE P == PlansFor(N, project', unmatched', lights')
    <2>1. /\ Inserts(P, jobs') /\ \A r \in DOMAIN jobs : jobs[r] # "running"
          /\ \A r \in P : Plan(r) /\ (IsFinal(r) => r.version = project'.version)
      OBVIOUS
    <2> HIDE DEF P
    <2>2. jobs[p] \in {"queued", "failed"} /\ p \in DOMAIN jobs'
      BY <2>1 DEF Due, Is, Inserts
    <2>3. CASE jobs'[p] \in {"queued", "failed"}
      BY <2>2, <2>3 DEF Due, Is
    <2>4. CASE jobs'[p] \notin {"queued", "failed"}
      <3>1. jobs[p] = "queued" /\ \E r \in P \ DOMAIN jobs : Replaces(r, p)
        BY <2>1, <2>2, <2>4 DEF Inserts
      <3> PICK r \in P \ DOMAIN jobs : Replaces(r, p)
        BY <3>1
      <3>2. r \in DOMAIN jobs' /\ jobs'[r] = "queued"
        BY <2>1 DEF Inserts
      <3>3. IsFinal(r) /\ r.night = p.night
        BY <1>0, <2>1, Plans DEF Replaces, IsFinal
      <3> QED
        BY <2>1, <3>2, <3>3 DEF Due, Is
    <2> QED
      BY <2>3, <2>4
  <1>2. CASE Queueing
    <2> PICK r \in {worker, user} : (jobs' = jobs \/ Inserts({MergeOf(r)}, jobs')) /\ IsMerge(MergeOf(r))
      BY <1>2, QueueingJobs
    <2>1. ~Replaces(MergeOf(r), p)
      BY <1>0 DEF Replaces, IsMerge, IsStack, MergeOf
    <2>2. p \in DOMAIN jobs' /\ (jobs[p] \in {"queued", "failed"} => jobs'[p] \in {"queued", "failed"})
      BY <2>1 DEF Inserts
    <2>3. jobs[p] = "running" => jobs'[p] = "running" /\ (worker.at \in {"run", "store", "commit"} => worker'.at = worker.at)
      BY <1>2 DEF Queueing, WorkerQueues, UserQueues, Insert, Inserts
    <2> QED
      BY <2>2, <2>3 DEF Due, Is
  <1>3. CASE ~Planning /\ ~Queueing
    <2> SUFFICES Due(p)' /\ p \in DOMAIN jobs'
      OBVIOUS
    <2>1. CASE JobStep
      <3>1. CASE \E q \in DOMAIN jobs : RunJob(q)
        <4> PICK q \in DOMAIN jobs : RunJob(q)
          BY <3>1
        <4>1. worker'.at = "run" /\ worker.at = "idle" /\ jobs' = [jobs EXCEPT ![q] = "running"]
          BY JobAt, Typing DEF RunJob, AtRequests, Sound, JobsIn
        <4> QED
          BY <4>1 DEF Due, Is
      <3>2. CASE JobFails
        BY <3>2, AtWork DEF JobFails, Due, Is, AtJob
      <3>3. CASE Finish
        BY <3>3, AtWork DEF Finish, Due, Is, AtJob
      <3>4. CASE Crash
        <4>1. ASSUME p = worker.job, worker.at # "run", p # NoPlan PROVE worker'.at = "store"
          <5>1. ~Reference(worker.job) /\ ~IsMerge(worker.job)
            BY <1>0, <4>1, JobVersions
          <5> QED
            BY <3>4, <4>1, <5>1, CrashAt
        <4>2. jobs[p] = "running" => p = worker.job /\ p # NoPlan
          BY MustHoldNothing DEF Sound, Working
        <4> QED
          BY <3>4, <4>1, <4>2, CrashJobs DEF Due, Is
      <3>5. CASE RunEnds
        <4>1. worker'.at = "store" \/ Reference(worker.job)
          BY <3>5, RunEndsSteps
        <4>2. jobs' = jobs /\ (jobs[p] = "running" => p = worker.job)
          BY <3>5, RunEndsSteps DEF Sound, Working, Catalog
        <4> QED
          BY <4>1, <4>2, JobVersions DEF Due, Is
      <3>6. CASE Refusal
        <4>1. p # worker.job /\ worker.at = "store"
          BY <1>0, <3>6, OnlyMergesRefused DEF Refusal, StoreRefused
        <4>2. jobs[p] # "running" /\ jobs'[p] = jobs[p] /\ DOMAIN jobs' = DOMAIN jobs
          BY <3>6, <4>1, AtWork DEF Refusal, StoreRefused, AtJob
        <4> QED
          BY <4>2 DEF Due, Is
      <3> QED
        BY <2>1, <3>1, <3>2, <3>3, <3>4, <3>5, <3>6 DEF JobStep, Refusal
    <2>2. CASE ~JobStep
      <3>1. jobs' = jobs
        BY <1>3, <2>2, NextCases DEF Planning, Queueing, Asks, Decide, MergeCommand, Waive, WorkerSees, UserSees, UserKilled,
           Store, Catalog, CommitStack, CommitReference, CommitMerge, WorkerRecords, UserRecords, Record, BackfillNas, RebuiltGates, vars
      <3>2. ASSUME jobs[p] = "running", worker.at \in {"run", "store", "commit"} PROVE worker'.at \in {"run", "store", "commit"}
        <4>1. worker.job = p /\ ~Reference(p)
          BY <3>2, AtWork, JobVersions DEF AtJob
        <4>2. CASE \E nas, alike \in BOOLEAN : Store(nas, alike)
          BY <4>1, <4>2, StoreSteps
        <4>3. ~CommitStack /\ ~CommitReference /\ ~CommitMerge
          BY <1>0, <4>1, Plans, Typing DEF CommitStack, CommitReference, CommitMerge, Sound, JobsIn
        <4>4. CASE worker' = worker
          BY <3>2, <4>4
        <4> QED
          BY <1>3, <2>2, <3>2, <4>2, <4>3, <4>4, NextCases DEF Planning, Queueing, Asks, Decide, AtRequests, MergeCommand, Waive, WorkerSees, UserSees, UserKilled,
             WorkerRecords, UserRecords, Record, BackfillNas, RebuiltGates, vars
      <3> QED
        BY <3>1, <3>2 DEF Due, Is
    <2> QED
      BY <2>1, <2>2
  <1> QED
    BY <1>1, <1>2, <1>3

(* A stack whose publication was cut short is published again. *)
LEMMA CrashDue ==
    ASSUME Sound, Crash, worker.at \in {"evaluate", "record", "insert"}
    PROVE  GatesDue'
  <1>1. CASE worker.job = NoPlan
    BY <1>1, CrashAt DEF GatesDue
  <1>2. CASE worker.job # NoPlan
    <2> DEFINE p == worker.job
    <2>1. IsFinal(p) /\ p \in DOMAIN jobs /\ jobs[p] = "running"
      BY <1>2 DEF Sound, Working
    <2>2. ~IsMerge(p) /\ ~Reference(p)
      BY <2>1, JobVersions, Kinds0 DEF IsFinal
    <2>3. worker'.at = "store"
      BY <1>2, <2>2, CrashAt
    <2>4. p \in DOMAIN jobs' /\ jobs'[p] = "running"
      BY <2>1, <2>2, CrashJobs
    <2>5. \E q \in DOMAIN jobs' : IsFinal(q) /\ jobs'[q] = "running"
      BY <2>1, <2>4
    <2> QED
      BY <2>3, <2>5 DEF GatesDue, StackDue, Due, Is
  <1> QED
    BY <1>1, <1>2

LEMMA GatesDueKept ==
    ASSUME Sound, Main, catalogs = 0, [Next]_vars, ~Rebuild, ~UserKilled, ~Records, GatesDue
    PROVE  GatesDue'
  <1>1. CASE StackDue
    <2> PICK p \in DOMAIN jobs : IsFinal(p) /\ Due(p)
      BY <1>1 DEF StackDue
    <2>1. CASE CommitStack /\ p = worker.job
      BY <2>1, AfterCommitIn DEF CommitStack, GatesDue
    <2>2. CASE ~(CommitStack /\ p = worker.job)
      BY <2>2, DueKept DEF GatesDue, StackDue
    <2> QED
      BY <2>1, <2>2
  <1>2. CASE worker.at \in {"evaluate", "record"}
    <2>1. CASE WorkerSees
      BY <2>1, SeeProcess, Typing DEF WorkerSees, GatesDue, Sound
    <2>2. CASE Crash
      BY <1>2, <2>2, CrashDue
    <2>3. CASE worker' = worker
      BY <1>2, <2>3 DEF GatesDue
    <2> QED
      BY <1>2, <2>1, <2>2, <2>3, NextCases, NightRequestSteps DEF Sound, Rereference, Records, Asks, Decide, AtRequests, MergeCommand, Waive, UserSees,
         JobStep, RunJob, RunEnds, JobFails, Finish, StoreRefused, Store, CommitStack, CommitReference, CommitMerge, WorkerQueues, UserQueues, Insert, BackfillNas, RebuiltGates, vars
  <1>3. CASE user.at \in {"evaluate", "record"}
    <2>1. CASE UserSees
      BY <2>1, SeeProcess, Typing DEF UserSees, GatesDue, Sound
    <2>2. CASE user' = user
      BY <1>3, <2>2 DEF GatesDue
    <2>3. CASE Planning
      BY <2>2, <2>3, NightRequestSteps DEF Planning, PlanNight, Rereference, Sound
    <2> QED
      BY <1>3, <2>1, <2>2, <2>3, NextCases DEF Planning, Records, Asks, Decide, MergeCommand, Waive, WorkerSees,
         JobStep, RunJob, RunEnds, JobFails, Finish, Crash, StoreRefused, Store, CommitStack, CommitReference, CommitMerge, WorkerQueues, UserQueues, Insert, BackfillNas, RebuiltGates, vars
  <1> QED
    BY <1>1, <1>2, <1>3 DEF GatesDue

(* A merge that is being planned is planned on, or queued, or its gates are    *)
(* read again.                                                               *)
LEMMA MergeDueKept ==
    ASSUME Sound, Main, catalogs = 0, [Next]_vars, ~Rebuild, ~UserKilled, ~Records, ~Queueing, MergeDue
    PROVE  MergeDue'
  <1>1. CASE GatesDue
    BY <1>1, GatesDueKept DEF MergeDue
  <1>2. CASE worker.at = "insert"
    <2>1. CASE Crash
      BY <1>2, <2>1, CrashDue DEF MergeDue
    <2>2. CASE worker' = worker
      BY <1>2, <2>2 DEF MergeDue
    <2> QED
      BY <1>2, <2>1, <2>2, NextCases, NightRequestSteps DEF Sound, Rereference, Records, Queueing, Asks, Decide, AtRequests, MergeCommand, Waive, WorkerSees, UserSees,
         JobStep, RunJob, RunEnds, JobFails, Finish, StoreRefused, Store, CommitStack, CommitReference, CommitMerge, BackfillNas, RebuiltGates, vars
  <1>3. CASE user.at = "insert"
    <2>1. CASE user' = user
      BY <1>3, <2>1 DEF MergeDue
    <2>2. CASE Planning
      BY <2>1, <2>2, NightRequestSteps DEF Planning, PlanNight, Rereference, Sound
    <2> QED
      BY <1>3, <2>1, <2>2, NextCases DEF Planning, Records, Queueing, Asks, Decide, MergeCommand, Waive, WorkerSees, UserSees,
         JobStep, RunJob, RunEnds, JobFails, Finish, Crash, StoreRefused, Store, CommitStack, CommitReference, CommitMerge, BackfillNas, RebuiltGates, vars
  <1> QED
    BY <1>1, <1>2, <1>3 DEF MergeDue

LEMMA AskedDue == ASSUME Sound, Asks, ~UserKilled PROVE GatesDue'
  <1>1. CASE \E n \in Night, d \in {"include", "exclude"} : Decide(n, d)
    BY <1>1, Evaluating DEF Decide, GatesDue
  <1>2. CASE MergeCommand \/ \E n \in Night : Waive(n)
    BY <1>2, Evaluating DEF MergeCommand, Waive, GatesDue
  <1>3. CASE WorkerSees \/ UserSees
    BY <1>3, SeeProcess, Typing DEF WorkerSees, UserSees, GatesDue, Sound
  <1> QED
    BY <1>1, <1>2, <1>3 DEF Asks

(* The final stack of a night as it now is. *)
Wanted(n) == [night |-> n, kind |-> "final", version |-> project.version, build |-> lights[n]]

LEMMA WantedIs ==
    ASSUME TypeOK, NEW n \in Night, lights[n] > 0
    PROVE  IsFinal(Wanted(n)) /\ (n \notin unmatched => StackOf(n, project.version) = Wanted(n))
  <1>1. lights[n] \in Builds /\ project.version \in Versions
    BY Constants DEF TypeOK, Builds
  <1> QED
    BY <1>1 DEF Wanted, StackOf, IsFinal, Stack, Kinds

LEMMA PlansForHas ==
    ASSUME NEW N, NEW proj, NEW un, NEW li, NEW n \in N, n \notin un
    PROVE  /\ [night |-> n, kind |-> "final", version |-> proj.version, build |-> li[n]] \in PlansFor(N, proj, un, li)
           /\ proj.reference = 0 => [reference |-> proj.version] \in PlansFor(N, proj, un, li)
  <1>1. [night |-> n, kind |-> "final", version |-> proj.version, build |-> li[n]]
          = [night |-> n, kind |-> IF n \in un THEN "provisional_noflat" ELSE "final", version |-> proj.version, build |-> li[n]]
    OBVIOUS
  <1>2. ~(N \subseteq un)
    OBVIOUS
  <1> QED
    BY <1>1, <1>2 DEF PlansFor

(* A final stack is planned for a night with its flat only, and its reference  *)
(* with it.                                                                  *)
LEMMA PlansForFinal ==
    ASSUME NEW proj \in [version : Versions, reference : 0..MaxVersion], NEW li \in [Night -> 0..MaxBuild],
           NEW N \in SUBSET Night, \A n \in N : li[n] > 0, NEW un, NEW p \in PlansFor(N, proj, un, li), IsFinal(p)
    PROVE  p.night \in N \ un /\ p.version = proj.version /\ (proj.reference = 0 => [reference |-> proj.version] \in PlansFor(N, proj, un, li))
  <1>1. p.night \in N /\ p.version = proj.version /\ p.night \notin un
    BY PlansForTyped, Kinds0 DEF IsFinal
  <1> DEFINE n == p.night
  <1>2. n \in N /\ n \notin un
    BY <1>1
  <1> HIDE DEF n
  <1>3. proj.reference = 0 => [reference |-> proj.version] \in PlansFor(N, proj, un, li)
    BY <1>2, PlansForHas
  <1> QED
    BY <1>1, <1>3

LEMMA NightDetail ==
    ASSUME Sound, NEW n \in Night, NightRequest(n)
    PROVE  /\ Inserts(PlansFor({n}, project, unmatched', lights'), jobs')
           /\ UNCHANGED <<project, sky, decision, flagged, stale, masters, catalogs, user>> /\ AtRequests
           /\ held' = IF n \in unmatched' THEN held \cup {n} ELSE held \ {n}
           /\ n \in unmatched' /\ (\E s \in Current : s.night = n) => worker'.at = "evaluate"
           /\ worker'.at \in {"idle", "evaluate"} /\ worker'.job = NoPlan
           /\ \A m \in Night \ {n} : lights'[m] = lights[m] /\ (m \in unmatched' <=> m \in unmatched)
           /\ n \in unmatched /\ n \notin unmatched' => lights'[n] = lights[n] + 1
           /\ lights' \in [Night -> 0..MaxBuild] /\ lights'[n] > 0
  <1>1. TypeOK /\ JobsIn
    BY Typing DEF Sound
  <1>8. jobs' = InsertAll(PlansFor({n}, project', unmatched', lights')) /\ project' = project
    BY <1>1, NightRequestSteps DEF PlanNight, PlanOf, PlansFor, StackOf
  <1>9. jobs' = InsertAll(PlansFor({n}, project, unmatched', lights'))
    BY <1>8
  <1>2. /\ UNCHANGED <<project, sky, decision, flagged, stale, masters, catalogs, user>> /\ AtRequests
        /\ held' = IF n \in unmatched' THEN held \cup {n} ELSE held \ {n}
        /\ worker' = IF n \in unmatched' /\ \E s \in Current : s.night = n THEN [Idle EXCEPT !.at = "evaluate"] ELSE Idle
    BY <1>1, NightRequestSteps DEF PlanNight
  <1>3. Inserts(PlansFor({n}, project, unmatched', lights'), jobs')
    BY <1>1, <1>9, InsertAllInserts
  <1>4. /\ n \in unmatched' /\ (\E s \in Current : s.night = n) => worker'.at = "evaluate"
        /\ worker'.at \in {"idle", "evaluate"} /\ worker'.job = NoPlan
    BY <1>2, Evaluating, IdleProcess
  <1>5. lights' \in [Night -> 0..MaxBuild] /\ lights'[n] > 0
    BY <1>1, NightRequestSteps
  <1>6. \A m \in Night \ {n} : lights'[m] = lights[m] /\ (m \in unmatched' <=> m \in unmatched)
    BY <1>1 DEF NightRequest, NightReady, EquipmentEvent, NewFlats, Replan, TypeOK
  <1>7. n \in unmatched /\ n \notin unmatched' => lights'[n] = lights[n] + 1
    BY <1>1 DEF NightRequest, NightReady, EquipmentEvent, NewFlats, Replan, TypeOK
  <1> QED
    BY <1>2, <1>3, <1>4, <1>5, <1>6, <1>7

LEMMA RereferenceDetail ==
    ASSUME Sound, Rereference
    PROVE  LET N == {n \in Night : lights[n] > 0} IN
           /\ Inserts(PlansFor(N, project', unmatched, lights), jobs')
           /\ project' = [version |-> project.version + 1, reference |-> 0] /\ project' \in [version : Versions, reference : 0..MaxVersion]
           /\ UNCHANGED <<sky, decision, flagged, masters, catalogs, user, lights, unmatched>> /\ AtRequests /\ stale' = TRUE
           /\ held' = (held \ N) \cup (N \cap unmatched)
           /\ (\E s \in Current : s.night \in unmatched) => worker'.at = "evaluate"
           /\ worker'.at \in {"idle", "evaluate"} /\ worker'.job = NoPlan
  <1> DEFINE N == {n \in Night : lights[n] > 0}
  <1>1. TypeOK /\ JobsIn /\ TypeOK'
    BY Typing, RereferenceSound DEF Sound
  <1>2. /\ project' = [version |-> project.version + 1, reference |-> 0]
        /\ UNCHANGED <<sky, decision, flagged, masters, catalogs, user, lights, unmatched>> /\ AtRequests /\ stale' = TRUE
        /\ held' = (held \ N) \cup (N \cap unmatched)
        /\ worker' = IF \E s \in Current : s.night \in unmatched THEN [Idle EXCEPT !.at = "evaluate"] ELSE Idle
    BY DEF Rereference, Nights
  <1>3. jobs' = InsertAll(PlansFor(N, project', unmatched, lights))
    BY <1>2 DEF Rereference, PlanOf, PlansFor, StackOf
  <1>4. Inserts(PlansFor(N, project', unmatched, lights), jobs')
    BY <1>1, <1>3, InsertAllInserts
  <1>5. /\ (\E s \in Current : s.night \in unmatched) => worker'.at = "evaluate"
        /\ worker'.at \in {"idle", "evaluate"} /\ worker'.job = NoPlan
    BY <1>2, Evaluating, IdleProcess
  <1>6. project' \in [version : Versions, reference : 0..MaxVersion]
    BY <1>1, TypingNext
  <1> HIDE DEF N
  <1> QED
    BY <1>2, <1>4, <1>5, <1>6 DEF N

LEMMA JobsGrow == ASSUME Sound, [Next]_vars, ~Rebuild PROVE DOMAIN jobs \subseteq DOMAIN jobs'
  BY JobsKept, PlanningJobs, QueueingJobs DEF Inserts

LEMMA QuietLights ==
    ASSUME Sound, [Next]_vars, ~Planning, ~Rebuild
    PROVE  UNCHANGED <<lights, unmatched, sky>> /\ project'.version = project.version
  <1>1. CASE Asks \/ Records \/ RebuiltGates
    <2>1. UNCHANGED <<lights, unmatched, sky>>
      BY <1>1 DEF Asks, Decide, MergeCommand, Waive, WorkerSees, UserSees, UserKilled, Records, WorkerRecords, UserRecords, Record, RebuiltGates, Nights
    <2> QED
      BY <2>1, Grows DEF Planning
  <1> QED
    BY <1>1, Quiet

LEMMA NextNightsPlanned == ASSUME Sound, NightsPlanned, [Next]_vars, ~Rebuild PROVE NightsPlanned'
  <1>1. TypeOK'
    BY NextSound DEF Sound
  <1> SUFFICES ASSUME NEW m \in Night, lights'[m] > 0, m \notin unmatched'
               PROVE  Wanted(m)' \in DOMAIN jobs'
    <2>1. \A m \in Night : lights'[m] > 0 /\ m \notin unmatched' => StackOf(m, project.version)' = Wanted(m)'
      BY <1>1, WantedIs DEF StackOf, Wanted
    <2> QED
      BY <2>1 DEF NightsPlanned
  <1>2. Wanted(m)' = [night |-> m, kind |-> "final", version |-> project'.version, build |-> lights'[m]]
    BY DEF Wanted
  <1>3. lights'[m] = lights[m] /\ project'.version = project.version /\ m \notin unmatched => Wanted(m)' \in DOMAIN jobs
    <2>1. lights[m] > 0 /\ m \notin unmatched => Wanted(m) \in DOMAIN jobs
      BY WantedIs DEF NightsPlanned, Sound
    <2> QED
      BY <2>1 DEF Wanted
  <1>4. CASE \E n \in Night : NightRequest(n)
    <2> PICK n \in Night : NightRequest(n)
      BY <1>4
    <2>1. CASE m = n
      <3>1. Wanted(m)' \in PlansFor({n}, project, unmatched', lights')
        <4>1. m \in {n} /\ project' = project
          BY <2>1, NightDetail
        <4> QED
          BY <1>2, <4>1, PlansForHas
      <3>2. Inserts(PlansFor({n}, project, unmatched', lights'), jobs')
        BY NightDetail
      <3> QED
        BY <3>1, <3>2 DEF Inserts
    <2>2. CASE m # n
      BY <1>3, <2>2, NightDetail, JobsGrow
    <2> QED
      BY <2>1, <2>2
  <1>5. CASE Rereference
    <2> DEFINE N == {n \in Night : lights[n] > 0}
    <2>1. m \in N /\ m \notin unmatched /\ lights' = lights
      BY <1>5, RereferenceDetail
    <2>2. Wanted(m)' \in PlansFor(N, project', unmatched, lights)
      BY <1>2, <2>1, PlansForHas
    <2>3. Inserts(PlansFor(N, project', unmatched, lights), jobs')
      BY <1>5, RereferenceDetail
    <2> QED
      BY <2>2, <2>3 DEF Inserts
  <1>6. CASE ~Planning
    BY <1>3, <1>6, QuietLights, JobsGrow
  <1> QED
    BY <1>4, <1>5, <1>6 DEF Planning

LEMMA RefIs == ASSUME TypeOK PROVE Plan(Ref) /\ Reference(Ref) /\ ~IsFinal(Ref) /\ ~IsMerge(Ref)
  <1>1. project.version \in Versions
    BY DEF TypeOK
  <1> QED
    BY <1>1, Kinds0 DEF Ref, Reference, IsFinal

(* A reference is archived, and its job finished, after its rows. *)
LEMMA Finishes ==
    ASSUME Sound, [Next]_vars, worker'.at \in {"store", "finish"}, Reference(worker'.job)
    PROVE  worker'.job = worker.job /\ (worker.at \in {"store", "finish"} \/ CommitReference)
  <1>0. Process(worker) /\ ~Reference(NoPlan) /\ \A p : IsFinal(p) => ~Reference(p)
    BY Typing, Constants, Kinds0, Plans DEF Sound, Reference, Versions, IsFinal
  <1>1. CASE CommitStack \/ CommitReference \/ CommitMerge
    <2>1. worker.at = "commit"
      BY <1>1 DEF CommitStack, CommitReference, CommitMerge
    <2>2. worker' = AfterCommit
      BY <1>1 DEF CommitStack, CommitReference, CommitMerge
    <2>3. Plan(worker.job) /\ worker'.job = worker.job
      BY <2>1, <2>2, AtWork, AfterCommitIn DEF AtJob
    <2> QED
      BY <1>1, <2>3, Plans DEF CommitStack, CommitMerge
  <1>2. CASE Records \/ Queueing
    <2>1. worker' = worker \/ (worker.at = "record" /\ worker' = Recorder(worker)) \/ (worker.at = "insert" /\ worker' = End(worker))
      BY <1>2 DEF Records, Queueing, WorkerRecords, UserRecords, WorkerQueues, UserQueues, Record, Insert
    <2>2. worker' = worker \/ (worker.at \in {"record", "insert"} /\ worker'.job = worker.job)
      BY <1>0, <2>1, RecorderIn, EndIn
    <2> QED
      BY <1>0, <2>2 DEF Sound, Working
  <1>3. CASE Planning
    BY <1>3, NightDetail, RereferenceDetail DEF Planning
  <1>4. CASE JobStep
    <2>1. CASE \E p \in DOMAIN jobs : RunJob(p)
      <3> PICK p \in DOMAIN jobs : RunJob(p)
        BY <2>1
      <3>1. worker'.at = "run"
        BY JobAt, Typing DEF RunJob, Sound, JobsIn
      <3> QED
        BY <3>1
    <2>2. CASE RunEnds
      BY <2>2, RunEndsSteps
    <2>3. CASE Crash
      BY <2>3, CrashAt, IdleProcess
    <2> QED
      BY <1>4, <2>1, <2>2, <2>3, IdleProcess DEF JobStep, JobFails, Finish, StoreRefused
  <1>5. CASE Asks
    <2>1. worker' = worker \/ worker'.at \in {"evaluate", "record"}
      BY <1>5, <1>0, SeeProcess, Evaluating DEF Asks, Decide, MergeCommand, Waive, WorkerSees, UserSees, UserKilled, Sound
    <2> QED
      BY <2>1
  <1>6. CASE \E nas, alike \in BOOLEAN : Store(nas, alike)
    BY <1>6, StoreSteps
  <1>7. CASE (\E S \in SUBSET unarchived : BackfillNas(S)) \/ UNCHANGED vars
    BY <1>7 DEF BackfillNas, vars
  <1>8. CASE Rebuild \/ RebuiltGates
    <2>1. worker'.at \in {"gates", "idle"}
      <3>1. "gates" \in Steps \ {"record", "insert"}
        BY DEF Steps
      <3> QED
        BY <1>8, <3>1, IdleProcess DEF Rebuild, RebuiltGates
    <2> QED
      BY <2>1
  <1> QED
    BY <1>1, <1>2, <1>3, <1>4, <1>5, <1>6, <1>7, <1>8, NextCases DEF Planning, Records, Queueing

(* A job starts from the queue, when the reference it needs is made, and       *)
(* succeeds when it was published.                                            *)
LEMMA StartsAndEnds ==
    ASSUME Sound, [Next]_vars, ~Rebuild, NEW p \in DOMAIN jobs
    PROVE  /\ jobs'[p] = "running" => jobs[p] = "running" \/ Runnable(p)
           /\ jobs'[p] = "succeeded" => jobs[p] = "succeeded" \/ (worker.at = "finish" /\ p = worker.job)
  <1>1. CASE Planning
    BY <1>1, PlanningJobs DEF Inserts
  <1>2. CASE Queueing
    BY <1>2, QueueingJobs DEF Inserts
  <1>3. CASE JobStep
    <2>1. CASE \E q \in DOMAIN jobs : RunJob(q)
      BY <2>1 DEF RunJob
    <2>2. CASE JobFails
      BY <2>2 DEF JobFails
    <2>3. CASE Finish
      BY <2>3 DEF Finish
    <2>4. CASE Crash
      BY <2>4, CrashJobs
    <2>5. CASE RunEnds
      BY <2>5 DEF RunEnds, Catalog
    <2>6. CASE Refusal
      BY <2>6 DEF Refusal, StoreRefused
    <2> QED
      BY <1>3, <2>1, <2>2, <2>3, <2>4, <2>5, <2>6 DEF JobStep, Refusal
  <1>4. CASE ~Planning /\ ~Queueing /\ ~JobStep
    BY <1>4, NextCases DEF Planning, Queueing, Asks, Decide, MergeCommand, Waive, WorkerSees, UserSees, UserKilled,
           Store, Catalog, CommitStack, CommitReference, CommitMerge, WorkerRecords, UserRecords, Record, BackfillNas, RebuiltGates, vars
  <1> QED
    BY <1>1, <1>2, <1>3, <1>4

LEMMA NextReferenceFirst == ASSUME Sound, Main, catalogs = 0, ReferenceFirst, [Next]_vars, ~Rebuild PROVE ReferenceFirst'
  <1>0. TypeOK /\ TypeOK' /\ project.version \in Versions /\ project.version \in Nat
    BY NextSound, Constants DEF Sound, TypeOK, Versions
  <1>1. CASE Rereference
    <2> DEFINE N == {n \in Night : lights[n] > 0}
               P == PlansFor(N, project', unmatched, lights)
    <2>1. /\ project' = [version |-> project.version + 1, reference |-> 0] /\ project' \in [version : Versions, reference : 0..MaxVersion]
          /\ masters' = masters /\ AtRequests /\ worker'.at \notin {"store", "finish"} /\ Inserts(P, jobs')
      BY <1>1, RereferenceDetail
    <2>2. lights \in [Night -> 0..MaxBuild] /\ N \in SUBSET Night /\ \A n \in N : lights[n] > 0
      BY <1>0 DEF TypeOK
    <2>3. Ref' = [reference |-> project'.version] /\ project'.reference = 0 /\ project'.version = project.version + 1
      BY <2>1 DEF Ref
    <2>4. \A p \in P : IsFinal(p) => Ref' \in P
      BY <2>1, <2>2, <2>3, PlansForFinal
    <2> HIDE DEF P
    <2>5. ASSUME NEW p \in DOMAIN jobs', IsFinal(p), p.version = project'.version PROVE Ref' \in DOMAIN jobs' /\ jobs'[p] # "running"
      <3>1. p \notin DOMAIN jobs
        BY <1>0, <2>3, <2>5 DEF Main, Bounded, InTime
      <3>2. p \in P
        BY <2>1, <3>1 DEF Inserts
      <3>3. jobs'[p] = "queued"
        BY <2>1, <3>1, <3>2 DEF Inserts
      <3> QED
        BY <2>1, <2>4, <2>5, <3>2, <3>3 DEF Inserts
    <2>6. ~Is(Ref, {"succeeded"})'
      <3>1. Ref' \notin DOMAIN jobs
        <4>1. Reference(Ref') /\ Ref'.reference = project'.version
          BY <1>0, <2>1, <2>3 DEF Reference
        <4> QED
          BY <1>0, <2>3, <4>1 DEF Main, Bounded
      <3>2. Ref' \in DOMAIN jobs' => jobs'[Ref'] = "queued"
        BY <2>1, <3>1 DEF Inserts
      <3> QED
        BY <3>2 DEF Is
    <2>7. \A s \in Finals' : s.version # project'.version
      <3>1. Finals' = Finals
        BY <2>1 DEF Finals
      <3> QED
        BY <1>0, <2>3, <3>1, CurrentIn, StackNumbers DEF Main, Bounded, InTime, IsFinal
    <2> QED
      BY <2>1, <2>3, <2>5, <2>6, <2>7 DEF ReferenceFirst
  <1>2. CASE ~Rereference
    <2>1. project'.version = project.version /\ Ref' = Ref /\ Reference(Ref) /\ ~IsFinal(Ref)
      BY <1>0, <1>2, Grows, RefIs DEF Ref
    <2>2. /\ project'.reference \in {0, project'.version}
          /\ project'.reference = 0 => project' = project
      <3>1. CASE CommitReference
        <4>1. Reference(worker.job) /\ worker.job.reference # 0
          <5>1. IsReference(worker.job) /\ Plan(worker.job)
            BY <3>1, AtWork DEF CommitReference, AtJob
          <5> QED
            BY <5>1, Plans, Constants DEF Reference, Versions
        <4>2. CASE project = [version |-> worker.job.reference, reference |-> 0]
          <5> DEFINE r == worker.job.reference
          <5>1. r # 0 /\ project = [version |-> r, reference |-> 0] /\ project' = [project EXCEPT !.reference = r]
            BY <3>1, <4>1, <4>2 DEF CommitReference
          <5> HIDE DEF r
          <5> QED
            BY <5>1
        <4>3. CASE project # [version |-> worker.job.reference, reference |-> 0]
          BY <3>1, <4>3 DEF CommitReference, ReferenceFirst
        <4> QED
          BY <4>2, <4>3
      <3> QED
        BY <1>2, <3>1, Grows DEF ReferenceFirst
    <2> SUFFICES ASSUME project'.reference = 0
                 PROVE  /\ \A p \in DOMAIN jobs' : IsFinal(p) /\ p.version = project.version => Ref \in DOMAIN jobs' /\ jobs'[p] # "running"
                        /\ ~(Ref \in DOMAIN jobs' /\ jobs'[Ref] = "succeeded")
                        /\ ~(worker'.at \in {"store", "finish"} /\ worker'.job = Ref)
                        /\ \A s \in Finals' : s.version # project.version
      BY <2>1, <2>2 DEF ReferenceFirst, Is
    <2>3. /\ \A p \in DOMAIN jobs : IsFinal(p) /\ p.version = project.version => Ref \in DOMAIN jobs /\ jobs[p] # "running"
          /\ ~(Ref \in DOMAIN jobs /\ jobs[Ref] = "succeeded") /\ ~(worker.at \in {"store", "finish"} /\ worker.job = Ref)
          /\ \A s \in Finals : s.version # project.version
          /\ project' = project /\ project.reference = 0
      BY <2>2 DEF ReferenceFirst, Is
    <2>4. ASSUME NEW p \in DOMAIN jobs', IsFinal(p), p.version = project.version PROVE Ref \in DOMAIN jobs' /\ jobs'[p] # "running"
      <3>1. CASE p \in DOMAIN jobs
        <4>1. ~Runnable(p)
          BY <2>3, <2>4, <3>1, Kinds0 DEF Runnable, Is, Ref, IsFinal
        <4> QED
          BY <2>3, <2>4, <3>1, <4>1, StartsAndEnds, JobsGrow
      <3>2. CASE p \notin DOMAIN jobs
        <4>1. CASE \E n \in Night : NightRequest(n)
          <5> PICK n \in Night : NightRequest(n)
            BY <4>1
          <5> DEFINE P == PlansFor({n}, project, unmatched', lights')
          <5>1. Inserts(P, jobs') /\ lights' \in [Night -> 0..MaxBuild] /\ lights'[n] > 0
            BY NightDetail
          <5>2. project \in [version : Versions, reference : 0..MaxVersion] /\ {n} \in SUBSET Night /\ \A m \in {n} : lights'[m] > 0
            BY <1>0, <5>1, Typing
          <5>3. p \in P /\ jobs'[p] = "queued"
            BY <3>2, <5>1 DEF Inserts
          <5>4. Ref \in P
            BY <2>3, <2>4, <5>1, <5>2, <5>3, PlansForFinal DEF Ref
          <5> QED
            BY <5>1, <5>3, <5>4 DEF Inserts
        <4>2. CASE Queueing
          BY <2>4, <3>2, <4>2, QueueingJobs, Kinds0 DEF Inserts, IsFinal
        <4> QED
          BY <1>2, <3>2, <4>1, <4>2, JobsKept DEF Planning
      <3> QED
        BY <3>1, <3>2
    <2>5. ~(Ref \in DOMAIN jobs' /\ jobs'[Ref] = "succeeded")
      <3>1. CASE Ref \in DOMAIN jobs
        BY <2>3, <3>1, StartsAndEnds
      <3>2. CASE Ref \notin DOMAIN jobs
        BY <3>2, PlanningJobs, QueueingJobs, JobsKept DEF Inserts
      <3> QED
        BY <3>1, <3>2
    <2>6. ~(worker'.at \in {"store", "finish"} /\ worker'.job = Ref)
      <3> SUFFICES ASSUME worker'.at \in {"store", "finish"}, worker'.job = Ref PROVE FALSE
        OBVIOUS
      <3>1. worker.job = Ref
        BY <2>1, Finishes
      <3>3. CommitReference
        BY <2>1, <2>3, <3>1, Finishes
      <3>4. project = [version |-> worker.job.reference, reference |-> 0]
        <4>1. worker.job.reference = project.version
          BY <3>1 DEF Ref
        <4> QED
          BY <1>0, <2>3, <4>1, Typing
      <3>5. project'.reference = worker.job.reference
        <4> DEFINE r == worker.job.reference
        <4>1. project = [version |-> r, reference |-> 0] /\ project' = [project EXCEPT !.reference = r]
          BY <3>3, <3>4 DEF CommitReference
        <4> HIDE DEF r
        <4>2. project'.reference = r
          BY <4>1
        <4> QED
          BY <4>2 DEF r
      <3> QED
        BY <1>0, <3>1, <3>5, Constants DEF Ref, Versions
    <2>7. \A s \in Finals' : s.version # project.version
      <3>1. CASE CommitStack
        <4>1. IsFinal(worker.job) => worker.job.version # project.version
          BY <2>3, <3>1, CommitStands
        <4> QED
          BY <2>3, <3>1, <4>1, CommitStands
      <3> QED
        BY <2>3, <3>1, StandingKept, StandingCurrent
    <2> QED
      BY <2>4, <2>5, <2>6, <2>7
  <1> QED
    BY <1>1, <1>2

(* Gates that were just read leave the issues of the masters they keep out.    *)
LEMMA FlaggedExact ==
    ASSUME Held, NEW f
    PROVE  f \in Flagged(Evaluate) <=> \E s \in Current : Gate(s) \in GATE_ISSUES /\ f = <<s.night, Gate(s)>>
  <1>1. DOMAIN Evaluate = Current /\ \A s \in Current : Evaluate[s] = Gate(s)
    BY DEF Evaluate
  <1>2. \A h \in flagged : ~(\A s \in Current : s.night # h[1])
    BY DEF Held
  <1> QED
    BY <1>1, <1>2 DEF Flagged

LEMMA RecordsNow ==
    ASSUME Sound, Held, [Next]_vars, ~lapsed', Records
    PROVE  /\ flagged' = Flagged(Evaluate) /\ Current' = Current /\ Evaluate' = Evaluate /\ \A s \in Current : Gate(s)' = Gate(s)
           /\ UNCHANGED <<project, held, decision, jobs, sky, lights, unmatched, catalogs>>
           /\ stale' = (stale /\ (project.reference = 0 \/ StillStale(project)))
           /\ Ready(Now) => worker'.at = "insert" \/ user'.at = "insert"
  <1>1. PICK p \in {worker, user} : Record(p) /\ p.seen = Evaluate /\ p.project = project /\
                                    (Ready(p) => worker'.at = "insert" \/ user'.at = "insert")
    <2>1. Process(worker) /\ Process(user)
      BY Typing DEF Sound
    <2>2. CASE WorkerRecords
      BY <2>1, <2>2, NothingLapses, RecorderIn DEF WorkerRecords, Record
    <2>3. CASE UserRecords
      BY <2>1, <2>3, NothingLapses, RecorderIn DEF UserRecords, Record
    <2> QED
      BY <2>2, <2>3 DEF Records
  <1>2. /\ UNCHANGED <<project, held, decision, jobs, sky, lights, unmatched, catalogs>>
        /\ flagged' = Flagged(Evaluate) /\ stale' = (stale /\ (project.reference = 0 \/ StillStale(project)))
    BY <1>1 DEF Record, Nights
  <1>3. Current' = Current
    BY <1>1, RecordSteps, StandingCurrent DEF Standing, Sound
  <1>4. Evaluate' = Evaluate /\ \A s \in Current : Gate(s)' = Gate(s)
    BY <1>2, <1>3, SameGates
  <1>5. Now.seen = Evaluate /\ Now.project = project
    BY DEF Now, Idle
  <1>6. Ready(Now) => Ready(p)
    BY <1>1, <1>5 DEF Ready
  <1> QED
    BY <1>1, <1>2, <1>3, <1>4, <1>6

LEMMA NextHeld ==
    ASSUME Sound, Held, catalogs = 0, Main', [Next]_vars, ~lapsed', worker.at # "gates"
    PROVE  Held'
  <1>0. ~Rebuild /\ ~RebuiltGates
    BY NothingLapses DEF RebuiltGates
  <1>1. held' \subseteq unmatched'
    <2>1. held \subseteq unmatched
      BY DEF Held
    <2>2. CASE \E n \in Night : NightRequest(n)
      <3> PICK n \in Night : NightRequest(n)
        BY <2>2
      <3>1. held' = IF n \in unmatched' THEN held \cup {n} ELSE held \ {n}
        BY NightDetail
      <3>2. unmatched \ {n} \subseteq unmatched'
        BY NightRequestSteps DEF Sound
      <3> QED
        BY <2>1, <3>1, <3>2
    <2>3. CASE Rereference
      BY <2>1, <2>3, RereferenceDetail
    <2>4. CASE Asks
      BY <2>1, <2>4 DEF Asks, Decide, MergeCommand, Waive, WorkerSees, UserSees, UserKilled, Catalog, Nights
    <2>5. CASE Records
      BY <2>1, <2>5, RecordsNow
    <2> QED
      BY <1>0, <2>1, <2>2, <2>3, <2>4, <2>5, Quiet DEF Planning
  <1>2. ASSUME NEW f \in flagged' PROVE \E s \in Finals' : s.night = f[1]
    <2>1. Finals \subseteq Finals' /\ Current \subseteq Finals
      BY <1>0, FinalsKept DEF Current
    <2>2. CASE f \in flagged
      BY <2>1, <2>2 DEF Held
    <2>3. CASE Records
      BY <1>2, <2>1, <2>3, RecordsNow, FlaggedExact
    <2>4. CASE f \notin flagged /\ ~Records
      <3>1. flagged' \subseteq flagged
        <4>1. CASE \E n \in Night : NightRequest(n)
          BY <4>1, NightDetail
        <4>2. CASE Asks
          BY <4>2 DEF Asks, Decide, MergeCommand, Waive, WorkerSees, UserSees, UserKilled, Catalog
        <4> QED
          BY <1>0, <2>4, <4>1, <4>2, RereferenceDetail, Quiet DEF Planning
      <3> QED
        BY <1>2, <2>4, <3>1
    <2> QED
      BY <2>2, <2>3, <2>4
  <1>3. \A s \in Finals' : \E t \in Current' : t.night = s.night
    <2>1. catalogs' = 0
      BY <1>0, SidesKept
    <2> QED
      BY <2>1 DEF Main, Ordered
  <1> QED
    BY <1>1, <1>2, <1>3 DEF Held

(* A night that got its flats back has a stack that was never planned. *)
LEMMA FreshStack ==
    ASSUME Sound, Bounded, catalogs = 0, NEW n \in Night, NightRequest(n), n \in unmatched, n \notin unmatched'
    PROVE  \E w \in DOMAIN jobs' : IsFinal(w) /\ w.night = n /\ w.version = project.version /\ jobs'[w] = "queued"
  <1> DEFINE w == [night |-> n, kind |-> "final", version |-> project.version, build |-> lights'[n]]
             P == PlansFor({n}, project, unmatched', lights')
  <1>1. lights'[n] = lights[n] + 1 /\ lights' \in [Night -> 0..MaxBuild] /\ lights'[n] > 0 /\ Inserts(P, jobs')
    BY NightDetail
  <1>2. w \in P
    <2>1. n \in {n} /\ n \notin unmatched'
      OBVIOUS
    <2> QED
      BY <2>1, PlansForHas
  <1> HIDE DEF P
  <1>3. IsFinal(w) /\ w.night = n /\ w.version = project.version /\ w.build = lights[n] + 1
    <2>1. lights'[n] \in Builds /\ project.version \in Versions
      BY <1>1, Constants DEF Builds, Sound, TypeOK
    <2> QED
      BY <1>1, <2>1 DEF IsFinal, Stack, Kinds
  <1> HIDE DEF w
  <1>4. w \notin DOMAIN jobs
    <2>1. lights[n] \in Nat
      BY Constants DEF Sound, TypeOK
    <2> QED
      BY <1>3, <2>1 DEF Bounded, InTime
  <1> QED
    BY <1>1, <1>2, <1>3, <1>4 DEF Inserts

LEMMA NextStaleExplained ==
    ASSUME Sound, Main, catalogs = 0, NightsPlanned, Held, StaleExplained, [Next]_vars, ~lapsed', worker.at # "gates"
    PROVE  StaleExplained'
  <1>0. ~Rebuild /\ ~RebuiltGates /\ TypeOK
    BY NothingLapses DEF RebuiltGates, Sound
  <1>1. CASE Rereference
    BY <1>1, RereferenceDetail DEF StaleExplained, OutOfDate
  <1>2. CASE ~Rereference
    <2>0. project'.version = project.version
      BY <1>0, <1>2, Grows
    <2> SUFFICES ASSUME NEW s \in Current', s.version # project.version PROVE OutOfDate(s)'
      BY <2>0 DEF StaleExplained
    <2>1. ASSUME NEW p \in DOMAIN jobs, IsFinal(p), p.night = s.night, p.version = project.version, Due(p), ~(CommitStack /\ p = worker.job)
          PROVE  OutOfDate(s)'
      <3>1. PICK q \in DOMAIN jobs' : IsFinal(q) /\ q.night = p.night /\ Due(q)' /\ (q.version = p.version \/ q.version = project'.version)
        BY <1>0, <2>1, DueKept
      <3> QED
        BY <2>0, <2>1, <3>1 DEF OutOfDate
    <2>2. CASE CommitStack
      <3>1. UNCHANGED <<stale, unmatched, lights, project, jobs>>
        BY <2>2 DEF CommitStack, Nights
      <3>2. CASE s = worker.job /\ IsFinal(worker.job)
        <4>1. s \in DOMAIN jobs /\ jobs[s] = "running" /\ IsFinal(s) /\ InTime(s)
          BY <2>2, <3>2, CommitStands DEF Main, Bounded
        <4>2. s.night \in Night /\ s.version \in Nat /\ s.build \in Nat \ {0} /\ lights[s.night] \in Nat /\ project.version \in Nat
          BY <1>0, <4>1, Constants DEF IsFinal, Stack, Versions, Builds, TypeOK
        <4>3. lights[s.night] > 0 /\ s.version < project.version
          BY <4>1, <4>2 DEF InTime
        <4>4. ASSUME s.night \notin unmatched PROVE FALSE
          <5> DEFINE w == Wanted(s.night)
          <5>1. IsFinal(w) /\ w \in DOMAIN jobs
            BY <1>0, <4>2, <4>3, <4>4, WantedIs DEF NightsPlanned
          <5>2. w.night = s.night /\ w.version = project.version
            BY DEF Wanted
          <5> HIDE DEF w
          <5>3. AtMost(w, s)
            BY <4>1, <5>1, <5>2 DEF Main, RunsNewest
          <5> QED
            BY <4>1, <4>2, <4>3, <5>1, <5>2, <5>3 DEF AtMost, Before
        <4> QED
          BY <3>1, <4>4 DEF OutOfDate
      <3>3. CASE ~(s = worker.job /\ IsFinal(worker.job))
        <4>1. s \in Current /\ (IsFinal(worker.job) => s.night # worker.job.night)
          BY <2>2, <3>3, CommitStands DEF Current
        <4>2. OutOfDate(s)
          BY <2>0, <4>1 DEF StaleExplained
        <4> QED
          BY <2>1, <3>1, <4>1, <4>2 DEF OutOfDate
      <3> QED
        BY <3>2, <3>3
    <2>3. CASE ~CommitStack
      <3>1. s \in Current
        BY <1>0, <2>3, StandingKept, StandingCurrent
      <3>2. OutOfDate(s)
        BY <3>1 DEF StaleExplained
      <3>3. (\E p \in DOMAIN jobs : IsFinal(p) /\ p.night = s.night /\ p.version = project.version /\ Due(p)) => OutOfDate(s)'
        BY <2>1, <2>3
      <3>4. CASE \E n \in Night : NightRequest(n)
        <4> PICK n \in Night : NightRequest(n)
          BY <3>4
        <4>1. stale' = stale /\ project' = project
          BY NightDetail
        <4>2. CASE s.night \in unmatched /\ s.night \notin unmatched'
          <5>1. s.night = n
            BY <1>0, <4>2, NightRequestSteps
          <5>2. PICK w \in DOMAIN jobs' : IsFinal(w) /\ w.night = n /\ w.version = project.version /\ jobs'[w] = "queued"
            BY <4>2, <5>1, FreshStack DEF Main
          <5> QED
            BY <2>0, <5>1, <5>2 DEF OutOfDate, Due, Is
        <4>3. CASE ~(s.night \in unmatched /\ s.night \notin unmatched')
          BY <3>2, <3>3, <4>1, <4>3 DEF OutOfDate
        <4> QED
          BY <4>2, <4>3
      <3>5. CASE Records
        <4>1. unmatched' = unmatched /\ stale' = (stale /\ (project.reference = 0 \/ StillStale(project)))
          BY <3>5, RecordsNow
        <4>2. StillStale(project)
          BY <3>1 DEF StillStale
        <4> QED
          BY <3>2, <3>3, <4>1, <4>2 DEF OutOfDate
      <3>6. CASE Asks
        <4>1. UNCHANGED <<stale, unmatched>>
          BY <3>6 DEF Asks, Decide, MergeCommand, Waive, WorkerSees, UserSees, UserKilled, Catalog, Nights
        <4> QED
          BY <3>2, <3>3, <4>1 DEF OutOfDate
      <3>7. CASE UNCHANGED <<stale, unmatched>>
        BY <3>2, <3>3, <3>7 DEF OutOfDate
      <3> QED
        BY <1>0, <1>2, <3>4, <3>5, <3>6, <3>7, Quiet DEF Planning
    <2> QED
      BY <2>2, <2>3
  <1> QED
    BY <1>1, <1>2

LEMMA GatesStand ==
    ASSUME Sound, Main, catalogs = 0, Held, [Next]_vars, ~lapsed', worker.at # "gates", ~Rereference, ~Records, ~GatesDue'
    PROVE  /\ ~GatesDue /\ Current' = Current /\ flagged' = flagged /\ project'.version = project.version
           /\ Evaluate' = Evaluate /\ \A s \in Current : Gate(s)' = Gate(s)
  <1>1. ~Rebuild /\ ~RebuiltGates /\ ~UserKilled /\ TypeOK
    BY NothingLapses DEF RebuiltGates, Sound
  <1>2. ~GatesDue /\ ~Asks
    BY <1>1, GatesDueKept, AskedDue
  <1>3. project'.version = project.version
    BY <1>1, Grows
  <1>4. Current' = Current
    <2>1. CASE CommitStack
      <3>1. ~IsFinal(worker.job)
        BY <2>1, AfterCommitIn DEF CommitStack, GatesDue
      <3> QED
        BY <2>1, <3>1, CommitStands
    <2> QED
      BY <1>1, <2>1, StandingKept, StandingCurrent
  <1>5. UNCHANGED <<decision, sky, flagged>> /\ \A s \in Current : s.night \in held' <=> s.night \in held
    <2>1. CASE \E n \in Night : NightRequest(n)
      <3> PICK n \in Night : NightRequest(n)
        BY <2>1
      <3>1. /\ UNCHANGED <<decision, sky, flagged>> /\ held' = IF n \in unmatched' THEN held \cup {n} ELSE held \ {n}
            /\ n \in unmatched' /\ (\E s \in Current : s.night = n) => worker'.at = "evaluate"
        BY NightDetail
      <3>2. CASE n \in unmatched'
        <4>1. \A s \in Current : s.night # n
          BY <3>1, <3>2 DEF GatesDue
        <4> QED
          BY <3>1, <3>2, <4>1
      <3>3. CASE n \notin unmatched'
        <4>1. n \notin held
          BY <3>3, FreshStack DEF Held, Main, GatesDue, StackDue, Due, Is
        <4> QED
          BY <3>1, <3>3, <4>1
      <3> QED
        BY <3>2, <3>3
    <2> QED
      BY <1>1, <1>2, <2>1, Quiet DEF Planning
  <1>6. Evaluate' = Evaluate /\ \A s \in Current : Gate(s)' = Gate(s)
    BY <1>3, <1>4, <1>5, SameGates
  <1> QED
    BY <1>2, <1>3, <1>4, <1>5, <1>6

(* After a new reference every master is of an older one; a night that had an  *)
(* issue is being stacked, or its gates are read.                             *)
LEMMA RereferenceClears ==
    ASSUME Sound, Main, catalogs = 0, Held, Rereference, ~GatesDue'
    PROVE  flagged' = {} /\ \A s \in Current' : Gate(s)' \notin GATE_ISSUES
  <1> DEFINE N == {n \in Night : lights[n] > 0}
             P == PlansFor(N, project', unmatched, lights)
  <1>1. /\ Inserts(P, jobs') /\ project' = [version |-> project.version + 1, reference |-> 0]
        /\ project' \in [version : Versions, reference : 0..MaxVersion]
        /\ UNCHANGED <<flagged, masters>>
        /\ (\E s \in Current : s.night \in unmatched) => worker'.at = "evaluate"
    BY RereferenceDetail
  <1>2. project.version \in Nat /\ project'.version = project.version + 1 /\ TypeOK
    BY <1>1, Constants DEF Sound, TypeOK, Versions
  <1>3. Current' = Current
    BY <1>1 DEF Current, Finals, IsCurrent
  <1>4. ASSUME NEW s \in Current
        PROVE  s.night \in N /\ s.night \notin unmatched /\ s.version <= project.version /\ s.version \in Nat
    <2>1. IsFinal(s) /\ InTime(s)
      BY <1>2, CurrentIn DEF Main, Bounded
    <2>2. s.build \in Nat \ {0} /\ s.night \in Night /\ s.version \in Nat /\ lights[s.night] \in Nat
      BY <1>2, <2>1, Constants DEF IsFinal, Stack, Builds, Versions, TypeOK
    <2> QED
      BY <1>1, <2>1, <2>2 DEF InTime, GatesDue
  <1>5. ASSUME NEW s \in Current PROVE FALSE
    <2> DEFINE n == s.night
               w == [night |-> n, kind |-> "final", version |-> project'.version, build |-> lights[n]]
    <2>1. n \in N /\ n \notin unmatched
      BY <1>4
    <2> HIDE DEF n
    <2>2. w \in P
      BY <2>1, PlansForHas
    <2> HIDE DEF P
    <2>3. IsFinal(w) /\ w.version = project.version + 1
      <3>1. lights[n] \in Builds /\ project'.version \in Versions /\ n \in Night
        BY <1>1, <1>2, <2>1, Constants DEF Builds, TypeOK
      <3> QED
        BY <1>2, <3>1 DEF IsFinal, Stack, Kinds
    <2> HIDE DEF w
    <2>4. w \notin DOMAIN jobs
      BY <1>2, <2>3 DEF Main, Bounded, InTime
    <2>5. w \in DOMAIN jobs' /\ jobs'[w] = "queued"
      BY <1>1, <2>2, <2>4 DEF Inserts
    <2> QED
      BY <2>3, <2>5 DEF GatesDue, StackDue, Due, Is
  <1>6. flagged' = {}
    BY <1>1, <1>5 DEF Held
  <1> QED
    BY <1>3, <1>5, <1>6

LEMMA NextFlagsExplained ==
    ASSUME Sound, Main, catalogs = 0, Held, GatesDue \/ FlagsExact, [Next]_vars, ~lapsed', worker.at # "gates"
    PROVE  (GatesDue \/ FlagsExact)'
  <1> SUFFICES ASSUME ~GatesDue' PROVE FlagsExact'
    OBVIOUS
  <1>1. CASE Rereference
    BY <1>1, RereferenceClears DEF FlagsExact
  <1>2. CASE Records
    BY <1>2, RecordsNow, FlaggedExact DEF FlagsExact
  <1>3. CASE ~Rereference /\ ~Records
    BY <1>3, GatesStand DEF FlagsExact
  <1> QED
    BY <1>1, <1>2, <1>3

Least == IF MinNights > 1 THEN MinNights ELSE 1
LEMMA NowReady ==
    /\ Ready(Now) <=> project.reference # 0 /\ Cardinality(Eligible(Evaluate)) >= Least
    /\ Ready(Now)' <=> project'.reference # 0 /\ Cardinality(Eligible(Evaluate')) >= Least
    /\ MergeOf(Now) = [inputs |-> Eligible(Evaluate), version |-> project.version]
    /\ MergeOf(Now)' = [inputs |-> Eligible(Evaluate'), version |-> project'.version]
  BY DEF Now, Idle, Ready, MergeOf, Least

MadeOrDue(p) == Is(p, {"queued", "running", "succeeded", "failed"})

LEMMA NoFinalsNotReady ==
    ASSUME \A s \in Finals : s.version # project.version
    PROVE  ~(Cardinality(Eligible(Evaluate)) >= Least)
  <1>1. ASSUME NEW s \in Eligible(Evaluate) PROVE FALSE
    <2>1. s \in Finals /\ Gate(s) = "none"
      BY DEF Eligible, Evaluate, Current
    <2>2. s.version = project.version
      BY <2>1 DEF Gate
    <2> QED
      BY <2>1, <2>2
  <1>2. Cardinality(Eligible(Evaluate)) = 0
    BY <1>1, FS_EmptySet
  <1> QED
    BY <1>2, Constants DEF Least

(* A merge stays queued, made or failed: only another merge replaces it. *)
LEMMA MergeStays ==
    ASSUME Sound, [Next]_vars, ~Rebuild, ~Queueing, NEW p, IsMerge(p), MadeOrDue(p), ~(Refusal /\ p = worker.job)
    PROVE  MadeOrDue(p)'
  <1>0. p \in DOMAIN jobs /\ ~IsStack(p) /\ Plan(p)
    BY Typing, Plans DEF MadeOrDue, Is, Sound, JobsIn
  <1>1. CASE Planning
    <2> PICK N \in SUBSET Night :
             LET P == PlansFor(N, project', unmatched', lights') IN
             Inserts(P, jobs') /\ \A q \in P : ~IsMerge(q)
      BY <1>1, PlanningJobs
    <2> DEFINE P == PlansFor(N, project', unmatched', lights')
    <2>1. Inserts(P, jobs') /\ \A q \in P : ~Replaces(q, p)
      BY <1>0 DEF Replaces
    <2> HIDE DEF P
    <2> QED
      BY <1>0, <2>1 DEF Inserts, MadeOrDue, Is
  <1>2. CASE JobStep
    <2>1. CASE Crash
      BY <1>0, <2>1, CrashJobs DEF MadeOrDue, Is
    <2>2. CASE Refusal
      BY <1>0, <2>2 DEF Refusal, StoreRefused, MadeOrDue, Is
    <2>3. CASE RunEnds
      BY <1>0, <2>3 DEF RunEnds, Catalog, MadeOrDue, Is
    <2> QED
      BY <1>0, <1>2, <2>1, <2>2, <2>3 DEF JobStep, Refusal, RunJob, JobFails, Finish, MadeOrDue, Is
  <1>3. CASE ~Planning /\ ~JobStep
    <2>1. jobs' = jobs
      BY <1>3, NextCases DEF Planning, Queueing, Asks, Decide, MergeCommand, Waive, WorkerSees, UserSees, UserKilled,
           Store, Catalog, CommitStack, CommitReference, CommitMerge, WorkerRecords, UserRecords, Record, BackfillNas, RebuiltGates, vars
    <2> QED
      BY <2>1 DEF MadeOrDue, Is
  <1> QED
    BY <1>1, <1>2, <1>3

LEMMA NextMergePlanned ==
    ASSUME Sound, Main, catalogs = 0, ReferenceFirst, Held, MergePlanned, [Next]_vars, ~lapsed', worker.at # "gates"
    PROVE  MergePlanned'
  <1>0. ~Rebuild /\ ~UserKilled
    BY NothingLapses
  <1> SUFFICES ASSUME ~MergeDue', Ready(Now)' PROVE MadeOrDue(MergeOf(Now))'
    BY DEF MergePlanned, MadeOrDue
  <1>1. ~GatesDue' /\ worker'.at # "insert" /\ user'.at # "insert"
    BY DEF MergeDue
  <1>2. CASE Rereference
    <2>1. project'.reference = 0
      BY <1>2, RereferenceDetail
    <2> QED
      BY <2>1, NowReady
  <1>3. CASE Records
    BY <1>1, <1>3, RecordsNow, NowReady
  <1>4. CASE Queueing /\ ~Rereference /\ ~Records
    <2>1. PICK p \in {worker, user} : jobs' = Queued(p) /\ p.seen = Evaluate /\ p.project = project
      BY <1>4, NothingLapses DEF Queueing, WorkerQueues, UserQueues, Insert
    <2> DEFINE m == MergeOf(p)
    <2>2. m = MergeOf(Now)
      BY <2>1, NowReady DEF MergeOf
    <2>3. m \in DOMAIN jobs' /\ jobs'[m] \in {"queued", "running", "succeeded", "failed"}
      <3>0. ~Is(m, {"abandoned"})
        <4>1. m.version = project.version /\ project.version \in Nat
          BY <2>2, NowReady, Constants DEF Sound, TypeOK, Versions
        <4> HIDE DEF m
        <4>2. m \in DOMAIN jobs /\ jobs[m] = "abandoned" => m.version < project.version
          BY DEF Main, Refused
        <4> QED
          BY <4>1, <4>2 DEF Is
      <3>1. CASE Is(m, {"succeeded", "queued", "running"})
        BY <2>1, <3>1 DEF Queued, Is
      <3>2. CASE ~Is(m, {"succeeded", "queued", "running"})
        <4>1. jobs' = Inserted(m) /\ JobsIn
          BY <2>1, <3>0, <3>2, Typing DEF Queued, Is, Sound
        <4>2. Inserts({m}, jobs')
          BY <4>1, InsertedInserts
        <4>3. m \in DOMAIN jobs => jobs[m] \in {"failed", "superseded"}
          BY <3>0, <3>2, <4>1 DEF Is, JobsIn, Statuses
        <4> HIDE DEF m
        <4> QED
          BY <4>2, <4>3 DEF Inserts
      <3> QED
        BY <3>1, <3>2
    <2>4. MergeOf(Now)' = MergeOf(Now)
      BY <1>1, <1>4, GatesStand, NowReady
    <2> QED
      BY <2>2, <2>3, <2>4 DEF MadeOrDue, Is
  <1>5. CASE ~Rereference /\ ~Records /\ ~Queueing
    <2>1. ~MergeDue
      BY <1>0, <1>5, MergeDueKept
    <2>2. Evaluate' = Evaluate /\ project'.version = project.version
      BY <1>1, <1>5, GatesStand
    <2>3. MergeOf(Now)' = MergeOf(Now)
      BY <2>2, NowReady
    <2>4. CASE project' = project
      <3> DEFINE m == MergeOf(Now)
      <3>1. Ready(Now) /\ MadeOrDue(m)
        BY <2>1, <2>2, <2>4, NowReady DEF MergePlanned, MadeOrDue
      <3>2. IsMerge(m)
        BY NowReady DEF IsMerge
      <3> QED
        <4>0. m.version = project.version /\ project.version \in Nat
          BY NowReady, Constants DEF Sound, TypeOK, Versions
        <4>1. \E k : k = m /\ IsMerge(k) /\ MadeOrDue(k) /\ k.version = project.version
          BY <3>1, <3>2, <4>0
        <4> PICK k : k = m /\ IsMerge(k) /\ MadeOrDue(k) /\ k.version = project.version
          BY <4>1
        <4>3. ~(Refusal /\ k = worker.job)
          BY <4>0, OnlyMergesRefused
        <4>2. MadeOrDue(k)'
          BY <1>0, <1>5, <4>3, MergeStays
        <4> QED
          BY <2>3, <4>2 DEF MadeOrDue, Is
    <2>5. CASE project' # project
      <3>1. CommitReference /\ project.reference = 0
        BY <1>0, <1>5, <2>5, Grows DEF CommitReference
      <3>2. \A s \in Finals : s.version # project.version
        BY <3>1 DEF ReferenceFirst
      <3> QED
        BY <2>2, <3>2, NoFinalsNotReady, NowReady
    <2> QED
      BY <2>4, <2>5
  <1> QED
    BY <1>2, <1>3, <1>4, <1>5

LEMMA NextPlanned == ASSUME Sound, Main, Main', Planned, [Next]_vars PROVE Planned'
  <1> SUFFICES ASSUME ~lapsed' PROVE catalogs' = 0 /\ worker'.at # "gates" /\ (NightsPlanned /\ ReferenceFirst /\ Held /\ Explained /\ MergePlanned)'
    BY DEF Planned
  <1>1. ~lapsed /\ ~Rebuild
    BY NothingLapses
  <1>2. catalogs = 0 /\ worker.at # "gates" /\ NightsPlanned /\ ReferenceFirst /\ Held /\ StaleExplained /\ (GatesDue \/ FlagsExact) /\ MergePlanned
    BY <1>1 DEF Planned, Explained
  <1>3. catalogs' = 0
    BY <1>1, <1>2, SidesKept
  <1>4. worker'.at # "gates"
    <2>0. Process(worker)
      BY Typing DEF Sound
    <2>1. CASE Planning
      BY <2>1, NightDetail, RereferenceDetail DEF Planning
    <2>2. CASE Asks
      BY <1>2, <2>0, <2>2, SeeProcess, Evaluating DEF Asks, Decide, MergeCommand, Waive, WorkerSees, UserSees, UserKilled, Sound
    <2>3. CASE JobStep
      <3>1. CASE \E p \in DOMAIN jobs : RunJob(p)
        <4> PICK p \in DOMAIN jobs : RunJob(p)
          BY <3>1
        <4>1. worker'.at = "run"
          BY JobAt, Typing DEF RunJob, Sound, JobsIn
        <4> QED
          BY <4>1
      <3> QED
        BY <2>3, <3>1, CrashAt, RunEndsSteps, IdleProcess DEF JobStep, JobFails, Finish, StoreRefused
    <2>4. CASE \E nas, alike \in BOOLEAN : Store(nas, alike)
      BY <2>4, StoreSteps
    <2>5. CASE CommitStack \/ CommitReference \/ CommitMerge
      BY <2>5, AfterCommitIn DEF CommitStack, CommitReference, CommitMerge
    <2>6. CASE Records \/ Queueing
      <3>1. worker' = worker \/ (worker.at = "record" /\ worker' = Recorder(worker)) \/ worker' = End(worker)
        BY <2>6 DEF Records, Queueing, WorkerRecords, UserRecords, WorkerQueues, UserQueues, Record, Insert
      <3> QED
        BY <1>2, <2>0, <3>1, RecorderIn, EndIn
    <2>7. CASE (\E S \in SUBSET unarchived : BackfillNas(S)) \/ RebuiltGates \/ UNCHANGED vars
      BY <1>2, <2>7 DEF BackfillNas, RebuiltGates, vars
    <2> QED
      BY <1>1, <2>1, <2>2, <2>3, <2>4, <2>5, <2>6, <2>7, NextCases DEF Planning, Records, Queueing
  <1>5. NightsPlanned' /\ ReferenceFirst' /\ Held'
    BY <1>1, <1>2, NextNightsPlanned, NextReferenceFirst, NextHeld
  <1>6. StaleExplained' /\ (GatesDue \/ FlagsExact)'
    BY <1>2, NextStaleExplained, NextFlagsExplained
  <1>7. MergePlanned'
    BY <1>2, NextMergePlanned
  <1> QED
    BY <1>3, <1>4, <1>5, <1>6, <1>7 DEF Explained

LEMMA InitPlanned == Init => Planned
  <1> SUFFICES ASSUME Init PROVE Planned
    OBVIOUS
  <1>1. /\ DOMAIN masters = {} /\ DOMAIN jobs = {} /\ worker = Idle /\ catalogs = 0 /\ held = {} /\ unmatched = {} /\ flagged = {}
        /\ project = [version |-> 1, reference |-> 0] /\ lights = [n \in Night |-> 0]
    BY DEF Init
  <1>2. Finals = {} /\ Current = {}
    BY <1>1 DEF Finals, Current
  <1>3. worker.at = "idle"
    BY <1>1, IdleProcess
  <1>4. NightsPlanned /\ Held /\ Explained
    BY <1>1, <1>2 DEF NightsPlanned, Held, Explained, StaleExplained, FlagsExact
  <1>5. ReferenceFirst
    BY <1>1, <1>2, <1>3 DEF ReferenceFirst, Is
  <1>6. MergePlanned
    BY <1>1, NowReady DEF MergePlanned
  <1> QED
    BY <1>1, <1>3, <1>4, <1>5, <1>6 DEF Planned

IInv == Sound /\ Main /\ Planned

LEMMA InvariantHolds == Spec => []IInv
  <1>1. Init => IInv
    BY InitMain, InitPlanned DEF IInv
  <1>2. IInv /\ [Next]_vars => IInv'
    BY NextMain, NextPlanned DEF IInv
  <1> QED
    BY <1>1, <1>2, PTL DEF Spec

LEMMA RestDuesNothing == ASSUME Sound, AtRest PROVE ~MergeDue /\ ~GatesDue /\ \A p \in DOMAIN jobs : IsFinal(p) => ~Due(p)
  <1>1. worker.at = "idle" /\ user.at = "idle"
    BY IdleProcess DEF AtRest
  <1>2. \A p \in DOMAIN jobs : jobs[p] # "queued" /\ (jobs[p] = "failed" => IsMerge(p))
    BY DEF AtRest
  <1>3. ASSUME NEW p \in DOMAIN jobs, IsFinal(p) PROVE ~Due(p)
    BY <1>1, <1>2, <1>3, Kinds0 DEF Due, Is, IsFinal
  <1> QED
    BY <1>1, <1>3 DEF MergeDue, GatesDue, StackDue

(* With nothing left to run, the merge of the nights that are eligible now was *)
(* made or failed, unless a re-plan raced another, was killed, or a rebuild    *)
(* forgot the decisions.                                                      *)
THEOREM EligibleWasMergedHolds == Spec => []EligibleWasMerged
  <1>1. ASSUME IInv PROVE EligibleWasMerged
    <2> SUFFICES ASSUME AtRest, ~lapsed, Ready(Now) PROVE Is(MergeOf(Now), {"succeeded", "failed"})
      BY DEF EligibleWasMerged, Now
    <2> DEFINE m == MergeOf(Now)
    <2>1. Sound /\ MergePlanned
      BY <1>1 DEF IInv, Planned
    <2>2. Is(m, {"queued", "running", "succeeded", "failed"})
      BY <2>1, RestDuesNothing DEF MergePlanned
    <2>3. \A p \in DOMAIN jobs : jobs[p] # "queued" /\ jobs[p] # "running"
      <3>1. AtRequests
        BY IdleProcess DEF AtRest, AtRequests
      <3> QED
        BY <2>1, <3>1, MustHoldNothing DEF AtRest
    <2> HIDE DEF m
    <2>4. Is(m, {"succeeded", "failed"})
      BY <2>2, <2>3 DEF Is
    <2> QED
      BY <2>4 DEF m
  <1> QED
    BY <1>1, InvariantHolds, PTL

(* With nothing left to run, a final master that is kept out by a gate has an   *)
(* open issue that says so, or its night lost its flat; and an issue of a gate  *)
(* is about a night it keeps out.                                              *)
THEOREM BlocksAreExplainedHolds == Spec => []BlocksAreExplained
  <1>1. ASSUME IInv PROVE BlocksAreExplained
    <2> SUFFICES ASSUME AtRest, ~lapsed
                 PROVE  /\ \A s \in Current : /\ Gate(s) = "STALE_REFERENCE" => stale \/ s.night \in unmatched
                                              /\ Gate(s) \in GATE_ISSUES => <<s.night, Gate(s)>> \in flagged
                        /\ \A f \in flagged : \E s \in Current : s.night = f[1] /\ Gate(s) = f[2]
      BY DEF BlocksAreExplained, GATE_ISSUES
    <2>1. Sound /\ StaleExplained /\ FlagsExact
      BY <1>1, RestDuesNothing DEF IInv, Planned, Explained
    <2>2. ASSUME NEW s \in Current, Gate(s) = "STALE_REFERENCE" PROVE stale \/ s.night \in unmatched
      <3>1. s.version # project.version
        BY <2>2 DEF Gate
      <3> QED
        BY <2>1, <3>1, RestDuesNothing DEF StaleExplained, OutOfDate
    <2> QED
      BY <2>1, <2>2 DEF FlagsExact
  <1> QED
    BY <1>1, InvariantHolds, PTL
=============================================================================
