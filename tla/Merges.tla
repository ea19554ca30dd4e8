------------------------------- MODULE Merges -------------------------------
(***************************************************************************)
(* Night masters and the multi-night masters made of them, for one project  *)
(* and one filter: altaird's processing worker plans nights, runs night     *)
(* stacks, reference jobs and merges and publishes what they made; each      *)
(* publication and each decision re-plans the merge (plan_merge).  A user    *)
(* (the CLI, or a Hub command in another thread) may re-plan it meanwhile:   *)
(* plan_merge reads the gates, records them and queues the job in three      *)
(* steps with nothing held between.  The disk with the catalog may be lost,  *)
(* and the catalog rebuilt from the sidecars in the archive.                 *)
(***************************************************************************)
EXTENDS Integers, FiniteSets, FiniteSetsExt, SequencesExt

CONSTANTS
    Night,          \* nights in order, 1..n
    Skies,          \* what the nights may look like: functions from Night to Measured
    MinNights,      \* multi_night.min_nights
    MaxBuild,       \* bound: plans of one night (more lights, other flats)
    MaxVersion,     \* bound: references of the project
    MaxSpent        \* bound: decisions, equipment events, new references, failures, crashes

Measured == {"sharp", "soft", "off_frame"}

ASSUME MergesAssumption ==
    /\ IsFiniteSet(Night) /\ \A n \in Night : n \in Nat /\ 1..n \subseteq Night
    /\ Skies \subseteq [Night -> Measured]
    /\ {MinNights, MaxBuild, MaxSpent} \subseteq Nat /\ MaxVersion \in 1..9

Builds   == 1..MaxBuild
Versions == 1..MaxVersion

(* A NIGHT_STACK plan, and the master it makes: the same plan makes the same *)
(* bytes.  The build stands for the lights and the calibration masters.      *)
Kinds == {"final", "provisional_noflat"}
Stack == [night : Night, kind : Kinds, version : Versions, build : Builds]
NoStack == [night |-> 0, kind |-> "none", version |-> 0, build |-> 0]

(* What a MERGE plan_hash is made of, and a PROJECT_REFERENCE plan. *)
Merge(p)     == p \in [inputs : SUBSET Stack, version : Versions]
Reference(p) == p \in [reference : Versions]
Plan(p)      == p \in Stack \/ Merge(p) \/ Reference(p)
NoPlan == [reference |-> 0]

VARIABLES
    project,    \* reference_version, and the version whose reference is in reference_sha256 (0: none)
    sky,        \* the night's FWHM and overlap with the reference
    lights,     \* per night, the newest build its lights and calibration masters allow
    unmatched,  \* nights whose flat no longer matches
    held,       \* nights with an open FLAT_MISSING issue
    decision,   \* night_decisions
    flagged,    \* open issues of the gates: <<night, kind>>
    stale,      \* STALE_REFERENCE is open
    jobs,       \* the plans inserted, and their status
    masters,    \* night_masters: superseded_by and merge_status
    multi,      \* multi_night_masters: the plan and the version
    archive,    \* the sidecars on the NAS or in S3
    catalogs,   \* how many catalogs were rebuilt; each numbers its jobs from 1
    unarchived, \* sidecars in the cache only, until backfill_nas
    worker,     \* altaird's processing worker
    user,       \* a command-line or Hub command that plans a merge
    invalid,    \* history: stacks made with a flat an equipment event invalidated since
    lapsed,     \* history: a merge was planned from gates that had changed, or was not planned
    spent

vars == <<project, sky, lights, unmatched, held, decision, flagged, stale, jobs, masters, multi, archive, unarchived,
          catalogs, worker, user, invalid, lapsed, spent>>

Fwhm == [sharp |-> 2, off_frame |-> 2, soft |-> 7]      \* max_fwhm_ratio_to_project_median is 1.5

Gates     == {"excluded", "STALE_REFERENCE", "FLAT_MISSING", "LOW_OVERLAP", "QUALITY_OUTLIER", "none"}
GATE_ISSUES == {"LOW_OVERLAP", "QUALITY_OUTLIER"}
Sidecars  == {"night_master", "project_reference", "multi_night_master"}
Steps     == {"idle", "run", "store", "commit", "evaluate", "record", "insert", "finish", "gates"}
Idle      == [at |-> "idle", job |-> NoPlan, seen |-> <<>>, project |-> [version |-> 0, reference |-> 0]]

IsFn(f, S, T) == DOMAIN f \subseteq S /\ \A x \in DOMAIN f : f[x] \in T

(* Everything has its type. *)
TypeOK ==
    /\ project \in [version : Versions, reference : 0..MaxVersion]
    /\ sky \in Skies /\ lights \in [Night -> 0..MaxBuild]
    /\ unmatched \subseteq Night /\ held \subseteq Night
    /\ decision \in [Night -> {"none", "include", "exclude"}]
    /\ flagged \subseteq Night \X GATE_ISSUES /\ stale \in BOOLEAN
    /\ \A p \in DOMAIN jobs : Plan(p) /\ jobs[p] \in {"queued", "running", "abandoned", "succeeded", "failed", "superseded"}
    /\ IsFn(masters, Stack, [by : Stack \cup {NoStack}, status : {"pending", "provisional", "eligible", "blocked", "merged"}])
    /\ multi \subseteq [plan : [inputs : SUBSET Stack, version : Versions], version : Nat]
    /\ \A s \in archive \cup unarchived : s.type \in Sidecars /\ Plan(s.plan) /\ s.block \in Versions /\ s.version \in Nat /\ s.catalog \in 0..MaxSpent
    /\ catalogs \in 0..MaxSpent
    /\ \A p \in {worker, user} :
        /\ DOMAIN p = DOMAIN Idle /\ p.at \in Steps /\ (p.job = NoPlan \/ Plan(p.job))
        /\ IsFn(p.seen, Stack, Gates) /\ p.project \in [version : 0..MaxVersion, reference : 0..MaxVersion]
        /\ p.at \in {"record", "insert"} => p.project.version \in Versions
    /\ invalid \subseteq Stack /\ lapsed \in BOOLEAN /\ spent \in 0..MaxSpent

IsStack(p) == "night" \in DOMAIN p
IsMerge(p) == "inputs" \in DOMAIN p
IsReference(p) == "reference" \in DOMAIN p

Init ==
    /\ project = [version |-> 1, reference |-> 0]
    /\ sky \in Skies /\ lights = [n \in Night |-> 0]
    /\ unmatched = {} /\ held = {} /\ flagged = {} /\ stale = FALSE
    /\ decision = [n \in Night |-> "none"]
    /\ jobs = <<>> /\ masters = <<>> /\ multi = {} /\ archive = {} /\ unarchived = {}
    /\ catalogs = 0 /\ worker = Idle /\ user = Idle
    /\ invalid = {} /\ lapsed = FALSE /\ spent = 0

Catalog == <<project, held, decision, flagged, stale, jobs, masters, multi>>
Nights  == <<sky, lights, unmatched, catalogs>>
Spend   == spent < MaxSpent /\ spent' = spent + 1

Row(f, x, y) == [z \in DOMAIN f \cup {x} |-> IF z = x THEN y ELSE f[z]]
Is(p, S)     == p \in DOMAIN jobs /\ jobs[p] \in S
IsCurrent(s) == masters[s].by = NoStack
Finals       == {s \in DOMAIN masters : s.kind = "final"}
Current      == {s \in Finals : IsCurrent(s)}
Newest(M)    == CHOOSE m \in M : \A o \in M : o.version <= m.version

-----------------------------------------------------------------------------
(* The gates (evaluate): in this order, for each current final master.       *)

(* Twice the median of measured nights, <<FWHM, night>>. *)
MedianTwice(M) ==
    LET order == SetToSortSeq(M, LAMBDA a, b : a[1] < b[1] \/ (a[1] = b[1] /\ a[2] < b[2]))
        n     == Len(order)
    IN order[(n + 1) \div 2][1] + order[n \div 2 + 1][1]

(* Far above the median of the masters on the project's reference. *)
IsOutlier(s, version) ==
    LET on == {t \in Current : t.version = version}
    IN 4 * Fwhm[sky[s.night]] > 3 * MedianTwice({<<Fwhm[sky[t.night]], t.night>> : t \in on})

(* Mutant: a night on an older reference passes. *)
AnyReference(s) ==
    IF decision[s.night] = "exclude" THEN "excluded"
    ELSE IF s.night \in held THEN "FLAT_MISSING"
    ELSE IF sky[s.night] = "off_frame" THEN "LOW_OVERLAP"
    ELSE "none"

Gate(s) ==
    IF decision[s.night] = "exclude" THEN "excluded"
    ELSE IF s.version # project.version THEN "STALE_REFERENCE"
    ELSE IF s.night \in held THEN "FLAT_MISSING"
    ELSE IF sky[s.night] = "off_frame" THEN "LOW_OVERLAP"
    ELSE IF IsOutlier(s, project.version) /\ decision[s.night] # "include" THEN "QUALITY_OUTLIER"
    ELSE "none"

Evaluate    == [s \in Current |-> Gate(s)]
Eligible(g) == {s \in DOMAIN g : g[s] = "none"}

-----------------------------------------------------------------------------
(* The job table (insert_job): once for each plan; a dead job is queued      *)
(* again; a new stack or merge supersedes the queued one it replaces.        *)

Replaces(p, q) ==
    \/ IsMerge(p) /\ IsMerge(q)
    \/ IsStack(p) /\ IsStack(q) /\ p.night = q.night /\ p.kind = q.kind

(* Mutant: a dead job is not queued again. *)
OnceOnly(p) ==
    IF p \in DOMAIN jobs THEN jobs
    ELSE [q \in DOMAIN jobs \cup {p} |-> IF q = p THEN "queued"
                                         ELSE IF Replaces(p, q) /\ jobs[q] = "queued" THEN "superseded" ELSE jobs[q]]

Inserted(p) ==
    IF p \in DOMAIN jobs
    THEN [jobs EXCEPT ![p] = IF @ \in {"failed", "superseded"} THEN "queued" ELSE @]
    ELSE [q \in DOMAIN jobs \cup {p} |-> IF q = p THEN "queued"
                                         ELSE IF Replaces(p, q) /\ jobs[q] = "queued" THEN "superseded" ELSE jobs[q]]

-----------------------------------------------------------------------------
(* plan_merge, in steps: the gates are read; they are recorded, with their   *)
(* issues; the merge is queued unless its plan is live or done.              *)

Ready(p) == p.project.reference # 0 /\ Cardinality(Eligible(p.seen)) >= (IF MinNights > 1 THEN MinNights ELSE 1)
MergeOf(p) == [inputs |-> Eligible(p.seen), version |-> p.project.version]

See(p) == [p EXCEPT !.at = "record", !.seen = Evaluate, !.project = project]

Recorded(g) ==
    [s \in DOMAIN masters |->
        IF s \in DOMAIN g /\ (masters[s].status # "merged" \/ g[s] # "none")
        THEN [masters[s] EXCEPT !.status = IF g[s] = "none" THEN "eligible" ELSE "blocked"]
        ELSE masters[s]]

(* Mutant: an issue of a gate is raised and never resolved. *)
OnlyRaised(g) == flagged \cup {<<s.night, g[s]>> : s \in {t \in DOMAIN g : g[t] \in GATE_ISSUES}}

Flagged(g) ==
    {f \in flagged : \A s \in DOMAIN g : s.night # f[1]}
        \cup {<<s.night, g[s]>> : s \in {t \in DOMAIN g : g[t] \in GATE_ISSUES}}

StillStale(seen) == \E s \in Current : s.version # seen.version

Record(p) ==
    /\ p.at = "record"
    /\ masters' = Recorded(p.seen)
    /\ flagged' = Flagged(p.seen)
    /\ stale' = (stale /\ (p.project.reference = 0 \/ StillStale(p.project)))
    /\ lapsed' = (lapsed \/ p.seen # Evaluate \/ p.project # project)
    /\ UNCHANGED <<project, held, decision, jobs, multi, archive, unarchived, Nights, invalid, spent>>

End(p)      == IF p.job = NoPlan THEN Idle ELSE [Idle EXCEPT !.at = "finish", !.job = p.job]
Recorder(p) == IF Ready(p) THEN [p EXCEPT !.at = "insert"] ELSE End(p)

(* Queue(p): what the job table becomes. *)
Queued(p) == IF Is(MergeOf(p), {"succeeded", "queued", "running", "abandoned"}) THEN jobs ELSE Inserted(MergeOf(p))

Insert(p) ==
    /\ p.at = "insert"
    /\ jobs' = Queued(p)
    /\ lapsed' = (lapsed \/ p.seen # Evaluate \/ p.project # project)
    /\ UNCHANGED <<project, held, decision, flagged, stale, masters, multi, archive, unarchived, Nights, invalid, spent>>

-----------------------------------------------------------------------------
(* The processing worker plans: plan_night queues the reference job if the    *)
(* project has none, and the night's stack, and re-plans the merge when a     *)
(* stacked night lost its flat.  A request is handled between two jobs; jobs   *)
(* may be left queued then (waiting for data, for room, or after a failure).  *)

StackOf(n, version) ==
    [night |-> n, kind |-> IF n \in unmatched THEN "provisional_noflat" ELSE "final", version |-> version, build |-> lights[n]]

InsertAll(P) ==
    [q \in DOMAIN jobs \cup P |->
        IF q \notin DOMAIN jobs \/ (q \in P /\ jobs[q] \in {"failed", "superseded"}) THEN "queued"
        ELSE IF \E p \in P \ DOMAIN jobs : Replaces(p, q) /\ jobs[q] = "queued" THEN "superseded"
        ELSE jobs[q]]

PlanOf(N, proj) ==
    {StackOf(n, proj.version) : n \in N} \cup (IF proj.reference = 0 /\ ~(N \subseteq unmatched) THEN {[reference |-> proj.version]} ELSE {})

(* The night is planned as it now is.  worker.at tells what comes next. *)
PlanNight(n) ==
    /\ UNCHANGED <<project, sky, decision, flagged, stale, masters, multi, archive, unarchived, catalogs, user, lapsed>>
    /\ jobs' = InsertAll(PlanOf({n}, project)')
    /\ held' = IF n \in unmatched' THEN held \cup {n} ELSE held \ {n}
    /\ worker' = IF n \in unmatched' /\ \E s \in Current : s.night = n THEN [Idle EXCEPT !.at = "evaluate"] ELSE Idle

AtRequests == worker.at = "idle"

(* A closed night, or more lights for it. *)
NightReady(n) ==
    /\ AtRequests /\ lights[n] < MaxBuild
    /\ IF lights[n] = 0 THEN spent' = spent ELSE Spend
    /\ lights' = [lights EXCEPT ![n] = @ + 1]
    /\ UNCHANGED <<unmatched, invalid>>
    /\ PlanNight(n)

(* An equipment event logged later: the night's flat no longer matches. *)
EquipmentEvent(n) ==
    /\ AtRequests /\ lights[n] > 0 /\ n \notin unmatched /\ Spend
    /\ unmatched' = unmatched \cup {n}
    /\ invalid' = invalid \cup {s \in Stack : s.night = n /\ s.kind = "final" /\ s.build <= lights[n]}
    /\ UNCHANGED lights
    /\ PlanNight(n)

(* New flats for it: the issue is resolved, and the night is stacked again. *)
NewFlats(n) ==
    /\ AtRequests /\ n \in unmatched /\ lights[n] < MaxBuild
    /\ unmatched' = unmatched \ {n}
    /\ lights' = [lights EXCEPT ![n] = @ + 1]
    /\ PlanNight(n)
    /\ UNCHANGED <<invalid, spent>>

(* `altair rerun --night`, or a failed night planned again. *)
Replan(n) ==
    /\ AtRequests /\ lights[n] > 0 /\ Spend
    /\ UNCHANGED <<unmatched, lights, invalid>>
    /\ PlanNight(n)

Decide(n, d) ==
    /\ AtRequests /\ decision[n] # d /\ Spend
    /\ decision' = [decision EXCEPT ![n] = d]
    /\ worker' = [Idle EXCEPT !.at = "evaluate"]
    /\ UNCHANGED <<project, held, flagged, stale, jobs, masters, multi, archive, unarchived, Nights, user, invalid, lapsed>>

(* rereference: the version, and every night planned against it; a stacked    *)
(* night without its flat re-plans the merge.                                *)
Rereference ==
    LET nights == {n \in Night : lights[n] > 0} IN
    /\ AtRequests /\ project.version < MaxVersion /\ Spend
    /\ project' = [version |-> project.version + 1, reference |-> 0]
    /\ stale' = TRUE
    /\ UNCHANGED <<decision, flagged, masters, multi, archive, unarchived, Nights, user, invalid, lapsed>>
    /\ jobs' = InsertAll(PlanOf(nights, project)')
    /\ held' = (held \ nights) \cup (nights \cap unmatched)
    /\ worker' = IF \E s \in Current : s.night \in unmatched THEN [Idle EXCEPT !.at = "evaluate"] ELSE Idle

-----------------------------------------------------------------------------
(* The worker runs a job and publishes.  A stack or a merge stores its        *)
(* sidecar with the outputs, then commits its rows, and a stack then plans     *)
(* the merge; a reference commits its rows first.                            *)

(* A final stack waits for the job of its reference, if there was one to make. *)
Runnable(p) ==
    IsStack(p) /\ p.kind = "final" /\ [reference |-> p.version] \in DOMAIN jobs => Is([reference |-> p.version], {"succeeded"})

RunJob(p) ==
    /\ AtRequests /\ Is(p, {"queued"}) /\ Runnable(p)
    /\ jobs' = [jobs EXCEPT ![p] = "running"]
    /\ worker' = [Idle EXCEPT !.at = "run", !.job = p]
    /\ UNCHANGED <<project, held, decision, flagged, stale, masters, multi, archive, unarchived, Nights, user, invalid, lapsed, spent>>

(* The run, or the check of what it made, failed. *)
JobFails ==
    /\ worker.at = "run" /\ Spend
    /\ jobs' = [jobs EXCEPT ![worker.job] = "failed"]
    /\ worker' = Idle
    /\ UNCHANGED <<project, held, decision, flagged, stale, masters, multi, archive, unarchived, Nights, user, invalid, lapsed>>

Publication(p) == [Idle EXCEPT !.at = IF IsReference(p) THEN "commit" ELSE "store", !.job = p]

RunEnds ==
    /\ worker.at = "run"
    /\ worker' = Publication(worker.job)
    /\ UNCHANGED <<Catalog, Nights, archive, unarchived, user, invalid, lapsed, spent>>

VersionFor(p) ==
    IF \E m \in multi : m.plan = p THEN (CHOOSE m \in multi : m.plan = p).version
    ELSE IF multi = {} THEN 1 ELSE Newest(multi).version + 1

SidecarType(p) == IF IsStack(p) THEN "night_master" ELSE IF IsMerge(p) THEN "multi_night_master" ELSE "project_reference"

Sidecar(p) ==
    [type |-> SidecarType(p), plan |-> p, block |-> project.version, version |-> IF IsMerge(p) THEN VersionFor(p) ELSE 0,
     catalog |-> catalogs]

(* One path of the archive (a merge's names its version), and the same bytes: *)
(* a stack's sidecar names its job, a merge's the ids of its masters, and      *)
(* the ids of two catalogs may or may not coincide.                          *)
SamePath(s, t)        == s.plan = t.plan /\ s.version = t.version
SameBytes(s, t, alike) == s.block = t.block /\ (s.catalog = t.catalog \/ IsReference(s.plan) \/ alike)

Provisional(p) == IsStack(p) /\ p.kind # "final"

AfterStore == IF IsReference(worker.job) THEN [worker EXCEPT !.at = "finish"] ELSE [worker EXCEPT !.at = "commit"]

(* The sidecar is stored, unless the same one is there.  A provisional master *)
(* is not archived; with the NAS out, the sidecar stays in the cache.        *)
Store(nas, alike) ==
    LET new   == Sidecar(worker.job)
        there == {s \in archive : SamePath(s, new)}
        known == Provisional(worker.job) \/ \E s \in there : SameBytes(s, new, alike)
    IN
    /\ worker.at = "store"
    /\ \/ known /\ UNCHANGED <<archive, unarchived, spent>>
       \/ ~known /\ nas /\ there = {} /\ archive' = archive \cup {new} /\ unarchived' = unarchived \ {new} /\ spent' = spent
       \/ ~known /\ ~nas /\ archive' = archive /\ unarchived' = unarchived \cup {new} /\ Spend
    /\ worker' = AfterStore
    /\ UNCHANGED <<Catalog, Nights, user, invalid, lapsed>>

(* Another file is at the path: the publication raises, and the job stays     *)
(* "running" with nobody at it until altaird restarts ("abandoned").  While   *)
(* altaird recovers, the job is queued at once.                              *)
StoreRefused(alike) ==
    LET new   == Sidecar(worker.job)
        there == {s \in archive : SamePath(s, new)}
    IN
    /\ worker.at = "store"
    /\ ~Provisional(worker.job) /\ there # {} /\ ~\E s \in there : SameBytes(s, new, alike)
    /\ \E status \in IF IsMerge(worker.job) THEN {"abandoned"} ELSE {"abandoned", "queued"} :
           jobs' = [jobs EXCEPT ![worker.job] = status]
    /\ worker' = Idle
    /\ UNCHANGED <<project, held, decision, flagged, stale, masters, multi, archive, unarchived, Nights, user, invalid, lapsed, spent>>

(* One after the other, up to the first whose path holds another file. *)
BackfillNas(S) ==
    /\ S # {}
    /\ \A s \in S, t \in archive \cup S : SamePath(s, t) => s = t
    /\ S = unarchived \/ \E s \in unarchived \ S, t \in archive \cup S : SamePath(s, t)
    /\ archive' = archive \cup S /\ unarchived' = unarchived \ S
    /\ UNCHANGED <<Catalog, Nights, worker, user, invalid, lapsed, spent>>

SupersededBy(s) == IF s.kind = "final" THEN Kinds ELSE {"provisional_noflat"}

WithRow(s) ==
    IF s \in DOMAIN masters THEN masters
    ELSE Row(masters, s, [by |-> NoStack, status |-> IF s.kind = "final" THEN "pending" ELSE "provisional"])

(* Mutant: the new row supersedes itself too. *)
SelfSuperseded(s) ==
    LET rows == WithRow(s) IN
    [t \in DOMAIN rows |-> IF rows[t].by = NoStack /\ t.night = s.night /\ t.kind \in SupersededBy(s)
                           THEN [rows[t] EXCEPT !.by = s] ELSE rows[t]]

(* _night_stack: the newest master of the night supersedes the others. *)
Superseding(s) ==
    LET rows == WithRow(s) IN
    [t \in DOMAIN rows |-> IF t # s /\ rows[t].by = NoStack /\ t.night = s.night /\ t.kind \in SupersededBy(s)
                           THEN [rows[t] EXCEPT !.by = s] ELSE rows[t]]

AfterCommit ==
    [worker EXCEPT !.at = IF IsStack(worker.job) /\ worker.job.kind = "final" THEN "evaluate"
                          ELSE IF IsReference(worker.job) THEN "store" ELSE "finish"]

CommitStack ==
    /\ worker.at = "commit" /\ IsStack(worker.job)
    /\ masters' = Superseding(worker.job)
    /\ worker' = AfterCommit
    /\ UNCHANGED <<project, held, decision, flagged, stale, jobs, multi, archive, unarchived, Nights, user, invalid, lapsed, spent>>

CommitReference ==
    /\ worker.at = "commit" /\ IsReference(worker.job)
    /\ project' = IF project = [version |-> worker.job.reference, reference |-> 0]
                  THEN [project EXCEPT !.reference = worker.job.reference] ELSE project
    /\ worker' = AfterCommit
    /\ UNCHANGED <<held, decision, flagged, stale, jobs, masters, multi, archive, unarchived, Nights, user, invalid, lapsed, spent>>

CommitMerge ==
    /\ worker.at = "commit" /\ IsMerge(worker.job)
    /\ multi' = IF \E m \in multi : m.plan = worker.job THEN multi
                ELSE multi \cup {[plan |-> worker.job, version |-> VersionFor(worker.job)]}
    /\ masters' = [s \in DOMAIN masters |-> IF s \in worker.job.inputs THEN [masters[s] EXCEPT !.status = "merged"] ELSE masters[s]]
    /\ worker' = AfterCommit
    /\ UNCHANGED <<project, held, decision, flagged, stale, jobs, archive, unarchived, Nights, user, invalid, lapsed, spent>>

Finish ==
    /\ worker.at = "finish"
    /\ jobs' = [jobs EXCEPT ![worker.job] = "succeeded"]
    /\ worker' = Idle
    /\ UNCHANGED <<project, held, decision, flagged, stale, masters, multi, archive, unarchived, Nights, user, invalid, lapsed, spent>>

(* plan_merge in the worker. *)
WorkerSees    == worker.at = "evaluate" /\ worker' = See(worker) /\ UNCHANGED <<Catalog, Nights, archive, unarchived, user, invalid, lapsed, spent>>
WorkerRecords == Record(worker) /\ worker' = Recorder(worker) /\ UNCHANGED user
WorkerQueues  == Insert(worker) /\ worker' = End(worker) /\ UNCHANGED user

(* altaird stops and recovers.  What a stack's or a reference's run made is    *)
(* published again from the start, before anything else; a merge's result     *)
(* lies a directory deeper than the recovery looks, and it runs again, as does *)
(* every job left running without a result.                                  *)
Abandoned == {p \in DOMAIN jobs : jobs[p] = "abandoned"}
Requeued(P) == [p \in DOMAIN jobs |-> IF p \in P THEN "queued" ELSE jobs[p]]

Crash ==
    /\ worker.at # "gates" /\ (worker.at # "idle" \/ Abandoned # {}) /\ Spend
    /\ IF worker.job # NoPlan /\ (worker.at = "run" \/ IsMerge(worker.job))
       THEN jobs' = Requeued(Abandoned \cup {worker.job}) /\ worker' = Idle
       ELSE /\ jobs' = Requeued(Abandoned)
            /\ worker' = IF worker.job # NoPlan THEN Publication(worker.job)
                         ELSE IF worker.at = "idle" THEN Idle ELSE [Idle EXCEPT !.at = "evaluate"]
    /\ UNCHANGED <<project, held, decision, flagged, stale, masters, multi, archive, unarchived, Nights, user, invalid, lapsed>>

-----------------------------------------------------------------------------
(* A user beside the worker: `altair merge`, or a waiver, which excludes the  *)
(* issue's night.  Killed after that, it plans no merge.                     *)

MergeCommand ==
    /\ user.at = "idle" /\ Spend
    /\ user' = [Idle EXCEPT !.at = "evaluate"]
    /\ UNCHANGED <<Catalog, Nights, archive, unarchived, worker, invalid, lapsed>>

Waive(n) ==
    /\ user.at = "idle" /\ Spend
    /\ \/ n \in held /\ held' = held \ {n} /\ flagged' = flagged
       \/ \E f \in flagged : f[1] = n /\ flagged' = flagged \ {f} /\ held' = held
    /\ decision' = [decision EXCEPT ![n] = "exclude"]
    /\ user' = [Idle EXCEPT !.at = "evaluate"]
    /\ UNCHANGED <<project, stale, jobs, masters, multi, archive, unarchived, Nights, worker, invalid, lapsed>>

UserSees    == user.at = "evaluate" /\ user' = See(user) /\ UNCHANGED <<Catalog, Nights, archive, unarchived, worker, invalid, lapsed, spent>>
UserRecords == Record(user) /\ user' = Recorder(user) /\ UNCHANGED worker
UserQueues  == Insert(user) /\ user' = End(user) /\ UNCHANGED worker

UserKilled ==
    /\ user.at # "idle" /\ Spend
    /\ user' = Idle /\ lapsed' = TRUE
    /\ UNCHANGED <<Catalog, Nights, archive, unarchived, worker, invalid>>

-----------------------------------------------------------------------------
(* The disk with the catalog and the cache is lost.  The rebuild walks the    *)
(* sidecars, references first and by path: multinight/ before nights/.  Jobs, *)
(* decisions and issues are not in them.                                     *)

Sides(type) == {s \in archive : s.type = type}

FirstSidecars ==
    LET refs   == Sides("project_reference")
        merges == Sides("multi_night_master")
        nights == Sides("night_master")
    IN IF refs # {} THEN {s \in refs : \A t \in refs : s.plan.reference <= t.plan.reference}
       ELSE IF merges # {} THEN {s \in merges : \A t \in merges : s.version <= t.version}
       ELSE {s \in nights : \A t \in nights : s.plan.night <= t.plan.night}

(* The project is made from the first sidecar that names it; the others get    *)
(* its id from the rebuild's own table and change nothing.                    *)
RebuiltProject(s) ==
    [version |-> s.block,
     reference |-> IF \E r \in Sides("project_reference") : r.plan.reference = s.block THEN s.block ELSE 0]

RebuiltProjects ==
    IF archive = {} THEN {[version |-> 1, reference |-> 0]} ELSE {RebuiltProject(s) : s \in FirstSidecars}

(* The newest of a night's masters: of the last reference, then of the last   *)
(* job id.  Ids of two catalogs say nothing of which came later.             *)
Before(s, t) == s.version < t.version \/ (s.version = t.version /\ s.build < t.build)
Outranked(x, S) ==
    \E y \in S : /\ y.plan.night = x.plan.night
                 /\ \/ x.plan.version < y.plan.version
                    \/ x.plan.version = y.plan.version /\ x.catalog = y.catalog /\ x.plan.build < y.plan.build
Rankings ==
    LET S == Sides("night_master") IN
    {f \in [{x.plan.night : x \in S} -> {x.plan : x \in S}] :
        \A n \in DOMAIN f : f[n].night = n /\ \E x \in S : x.plan = f[n] /\ ~Outranked(x, S)}

(* Mutant: the first sidecar of a night stays current. *)
FirstWins(last) ==
    LET S == {s.plan : s \in Sides("night_master")}
        first(s) == CHOOSE t \in S : t.night = s.night /\ \A u \in S : u.night = s.night => u = t \/ Before(t, u)
    IN [s \in S |-> [by |-> IF first(s) = s THEN NoStack ELSE first(s), status |-> "pending"]]

RebuiltMasters(last) ==
    [s \in {x.plan : x \in Sides("night_master")} |->
        [by |-> IF last[s.night] = s THEN NoStack ELSE last[s.night], status |-> "pending"]]

(* plan_hash is unique: of one merge's sidecars the first is kept. *)
RebuiltMerges ==
    LET S == Sides("multi_night_master") IN
    {[plan |-> s.plan, version |-> s.version] : s \in {x \in S : \A y \in S : y.plan = x.plan => x.version <= y.version}}

Rebuild ==
    /\ AtRequests /\ Spend
    /\ project' \in RebuiltProjects
    /\ \E last \in Rankings : masters' = RebuiltMasters(last)
    /\ multi' = RebuiltMerges
    /\ jobs' = <<>> /\ held' = {} /\ flagged' = {} /\ stale' = FALSE
    /\ decision' = [n \in Night |-> "none"]
    /\ unarchived' = {} /\ user' = Idle /\ worker' = [Idle EXCEPT !.at = "gates"]
    /\ lapsed' = TRUE
    /\ catalogs' = catalogs + 1
    /\ UNCHANGED <<archive, sky, lights, unmatched, invalid>>

(* _gates: no merge is planned.  Two sidecars may name the latest version. *)
RebuiltGates ==
    /\ worker.at = "gates"
    /\ \E merged \in IF multi = {} THEN {{}} ELSE {m.plan.inputs : m \in {x \in multi : \A y \in multi : y.version <= x.version}} :
           masters' = [s \in DOMAIN masters |-> IF Recorded(Evaluate)[s].status = "eligible" /\ s \in merged
                                                THEN [masters[s] EXCEPT !.status = "merged"] ELSE Recorded(Evaluate)[s]]
    /\ flagged' = Flagged(Evaluate)
    /\ worker' = Idle
    /\ UNCHANGED <<project, held, decision, stale, jobs, multi, archive, unarchived, Nights, user, invalid, lapsed, spent>>

-----------------------------------------------------------------------------
Requests == \/ \E n \in Night : NightReady(n) \/ EquipmentEvent(n) \/ NewFlats(n) \/ Replan(n)
            \/ \E n \in Night, d \in {"include", "exclude"} : Decide(n, d)
            \/ Rereference
Work     == \/ \E p \in DOMAIN jobs : RunJob(p)
            \/ RunEnds
            \/ \E nas, alike \in BOOLEAN : Store(nas, alike)
            \/ CommitStack \/ CommitReference \/ CommitMerge \/ Finish
            \/ WorkerSees \/ WorkerRecords \/ WorkerQueues
User     == MergeCommand \/ (\E n \in Night : Waive(n)) \/ UserSees \/ UserRecords \/ UserQueues
Failures == \/ JobFails \/ Crash \/ UserKilled \/ Rebuild \/ RebuiltGates
            \/ \E alike \in BOOLEAN : StoreRefused(alike)
            \/ \E S \in SUBSET unarchived : BackfillNas(S)

Next == Requests \/ Work \/ User \/ Failures

Spec == Init /\ [][Next]_vars

(* `altair rerun --job` too: any job that does not run. *)
Rerun(p) ==
    /\ jobs[p] \notin {"queued", "running", "abandoned"} /\ Spend
    /\ jobs' = [jobs EXCEPT ![p] = "queued"]
    /\ UNCHANGED <<project, held, decision, flagged, stale, masters, multi, archive, unarchived, Nights, worker, user, invalid, lapsed>>

RerunSpec == Init /\ [][Next \/ \E p \in DOMAIN jobs : Rerun(p)]_vars

-----------------------------------------------------------------------------
AtRest == worker = Idle /\ user = Idle /\ \A p \in DOMAIN jobs : jobs[p] # "queued" /\ (jobs[p] = "failed" => IsMerge(p))

(* A night that was ever stacked with verified flats keeps exactly one        *)
(* current final master: through restacks, new references, failures, and a     *)
(* publication repeated after a crash, until the catalog is rebuilt.         *)
NightKeepsAMaster ==
    catalogs = 0 => \A s \in Finals : Cardinality({t \in Current : t.night = s.night}) = 1

(* SPEC, phase 2b: the rebuilt catalog "reproduces the catalog", in which such *)
(* a night has a current master; rebuild.py: "Newest wins".  After a rebuild   *)
(* that gave the project an older reference version, the next plan of the      *)
(* night publishes its older master over the newer one.                       *)
NightHasAMaster == \A s \in Finals : \E t \in Current : t.night = s.night

(* A multi-night master is made of nights registered to one reference, the   *)
(* one of its plan, each night once.                                         *)
MergeOneReference ==
    \A m \in multi : \A s, t \in m.plan.inputs :
        s.version = m.plan.version /\ s.kind = "final" /\ (s.night = t.night => s = t)

(* With nothing left to run, the merge of the nights that are eligible now    *)
(* was made or failed: unless a re-plan raced another, was killed, or a        *)
(* rebuild forgot the decisions.                                             *)
EligibleWasMerged ==
    LET ready == [Idle EXCEPT !.seen = Evaluate, !.project = project]
    IN AtRest /\ ~lapsed /\ Ready(ready) => Is(MergeOf(ready), {"succeeded", "failed"})

(* With nothing left to run, a final master that is kept out by a gate has an *)
(* open issue that says so, and an issue of a gate is about a night it keeps  *)
(* out.  A stack queued before its flat was invalidated still runs, and after *)
(* a new reference nothing says that its master is of the old one, once the   *)
(* missing flat was waived.                                                  *)
BlocksAreExplained ==
    AtRest /\ ~lapsed =>
        /\ \A s \in Current : CASE Gate(s) = "STALE_REFERENCE" -> stale \/ s.night \in unmatched
                                [] Gate(s) \in GATE_ISSUES -> <<s.night, Gate(s)>> \in flagged
                                [] OTHER -> TRUE
        /\ \A f \in flagged : \E s \in Current : s.night = f[1] /\ Gate(s) = f[2]

Rebuilt ==
    /\ \A m \in multi : \E k \in multi' : k.plan = m.plan
    /\ \A s \in Current : \E t \in DOMAIN masters' : /\ masters'[t].by = NoStack /\ t.night = s.night
                                                     /\ (t = s \/ Before(s, t))

(* The first rebuild, with every sidecar archived, keeps each night's current *)
(* master, or a later one that was stored and not yet recorded, and every      *)
(* multi-night master.  Its version may be an earlier one, stored by a run     *)
(* that a crash cut short.                                                   *)
RebuildLosesNoMaster == [][Rebuild /\ unarchived = {} /\ catalogs = 0 => Rebuilt]_vars

(* rebuild.py, _night_master: "Newest wins: ... a newer reference version or  *)
(* a later build the earlier one": in every rebuild.                         *)
NewestWins == [][Rebuild /\ unarchived = {} => Rebuilt]_vars

(* SPEC 9.5: "the merge is always rebuilt from all eligible night masters",  *)
(* and "only the latest plan runs": the newest version is made of the nights  *)
(* that are eligible.                                                        *)
NewestIsEligible ==
    LET eligible == Eligible(Evaluate) IN
    AtRest /\ ~lapsed /\ multi # {} /\ project.reference # 0 /\ Cardinality(eligible) >= MinNights /\ eligible # {}
        => Newest(multi).plan.inputs = eligible \/ \E p \in DOMAIN jobs : jobs[p] = "failed"

(* SPEC 1: "a night whose calibration is incomplete is never merged".         *)
NeverMergedUnmatched == [][\A m \in multi' \ multi : Rebuild \/ m.plan.inputs \cap invalid = {}]_vars
=============================================================================
