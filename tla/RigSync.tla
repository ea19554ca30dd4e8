------------------------------ MODULE RigSync ------------------------------
(* The rig agent (src/rig-agent/src/robs): between the Hub, which owns the *)
(* targets and their exposure plans, and NINA's Target Scheduler database, *)
(* with a small database of its own that links the ids of the two.         *)
(*                                                                         *)
(*   roof-open      the Hub's active targets are written into the scheduler *)
(*   sync-progress  accepted counts are reported to the Hub, per target     *)
(*   cleanup        targets that are no longer active are disabled          *)
(*   end-of-night   sync-progress, session_end, cleanup                     *)
(*                                                                         *)
(* NINA's sequence runs roof-open and end-of-night; a timer runs the other *)
(* two beside it. A command writes both databases in two transactions: the *)
(* links are committed first, the scheduler after them. Rows are numbered  *)
(* as SQLite numbers them: the ids of rows rolled back are used again.     *)
EXTENDS Naturals, Sequences, FiniteSets, FiniteSetsExt

CONSTANTS
    Target,          \* the Hub's targets
    Plan,            \* ids of exposure plans, of any time
    LastId,          \* the highest id of a target or a plan
    Owner,           \* the target of a plan
    Filter,          \* the filter of a plan
    Desired,         \* its schedule_count
    ProjectOf,       \* the Hub project of a target, None when the list names none
    None,
    FirstPlans,      \* the plans that exist at first
    Layouts,         \* the changes of ts_project_mode and of the plugin's columns
    FirstLayout,
    MaxChanges,      \* bound: changes in the Hub and of the layout
    Renamed,         \* targets whose name may change
    MaxRenames,      \* bound: how often a name changes
    MaxFaults,       \* bound: reports lost and commands killed
    MaxTorn,         \* bound: commands killed between their two commits
    MaxSpent         \* bound: all of these together

Proc == {"nina", "timer"}

ASSUME TargetsNumbered == LastId \in Nat /\ Target \subseteq 1..LastId /\ Plan \subseteq 1..LastId
ASSUME NoneIsNoProcess == None \notin Proc
ASSUME PlansOwned == (\A p \in Plan : Owner[p] \in Target /\ Desired[p] \in Nat) /\ FirstPlans \subseteq Plan /\ Renamed \subseteq Target
ASSUME BoundsAreNumbers == MaxChanges \in Nat /\ MaxRenames \in Nat /\ MaxFaults \in Nat /\ MaxTorn \in Nat /\ MaxSpent \in Nat

Managed == "managed"                 \* the one project of ts_project_mode "single"
HubProject == {ProjectOf[t] : t \in Target} \ {None}
Layout == [perProject : BOOLEAN, columns : BOOLEAN]
PlansOf(t) == {p \in Plan : Owner[p] = t}

VARIABLES
    hub,             \* the targets' status and name, the plans and their completed_count
    ts,              \* Target Scheduler: projects, targets (rows) and exposure plans, by id
    links,           \* robs_state.sqlite: target_links, exposure_plan_links, project_links; 0 is no link
    tx,              \* the scheduler's transaction: its process, and what it will commit
    proc,            \* the command each process runs and how far it is
    layout,          \* the agent's ts_project_mode, and whether the plugin has the columns for it
    spent            \* how much of each bound is used
vars == <<hub, ts, links, tx, proc, layout, spent>>

NoLinks == [target |-> [t \in Target |-> [row |-> 0, project |-> 0]], plan |-> [p \in Plan |-> 0], project |-> [h \in HubProject |-> 0]]
NoTx == [by |-> None]
Idle == [cmd |-> None]
Left(what, bound) == spent[what] < bound /\ spent.changes + spent.renames + spent.faults + spent.torn < MaxSpent
Spend(what) == spent' = [spent EXCEPT ![what] = @ + 1]

----------------------------------------------------------------------------
(* The Hub. *)

Captured(t, h) == /\ \E p \in h.plans : Owner[p] = t
                  /\ \A p \in h.plans : Owner[p] = t => h.completed[p] >= Desired[p]
Name(t) == <<t, hub.version[t]>>

\* Targets with a status to schedule, not paused.
Schedulable == {t \in Target : hub.status[t] = "open" /\ t \notin hub.paused}
ActiveTargets == [t \in Schedulable |-> [name |-> Name(t), plans |-> {p \in hub.plans : Owner[p] = t}]]

\* After a change of plans: enough frames complete a target, more wanted reopen it.
Settled(t, h) == [h EXCEPT !.status[t] = IF Captured(t, h) THEN "completed" ELSE "open",
                           !.paused = IF h.status[t] = "completed" /\ ~Captured(t, h) THEN @ \ {t} ELSE @]

(* Mutant: what is reported is added to the count. *)
ProgressAdds(t, counts) ==
    LET counted == [hub EXCEPT !.completed = [p \in Plan |-> IF p \in DOMAIN counts THEN @[p] + counts[p] ELSE @[p]]]
    IN  IF Captured(t, counted) THEN [counted EXCEPT !.status[t] = "completed"] ELSE counted
Progress(t, counts) ==
    LET counted == [hub EXCEPT !.completed = [p \in Plan |-> IF p \in DOMAIN counts THEN counts[p] ELSE @[p]]]
    IN  IF Captured(t, counted) THEN [counted EXCEPT !.status[t] = "completed"] ELSE counted

Pause(t) == t \notin hub.paused /\ hub.status[t] = "open" /\ hub' = [hub EXCEPT !.paused = @ \cup {t}]
Resume(t) == t \in hub.paused /\ hub' = [hub EXCEPT !.paused = @ \ {t}]
AddPlan(p) == p \notin hub.plans /\ hub' = Settled(Owner[p], [hub EXCEPT !.plans = @ \cup {p}])
RemovePlan(p) == /\ p \in hub.plans /\ hub.completed[p] = 0
                 /\ hub' = Settled(Owner[p], [hub EXCEPT !.plans = @ \ {p}])

HubChange ==
    /\ Left("changes", MaxChanges) /\ Spend("changes")
    /\ \/ \E t \in Target : Pause(t) \/ Resume(t)
       \/ \E p \in Plan : AddPlan(p) \/ RemovePlan(p)
    /\ UNCHANGED <<ts, links, tx, proc, layout>>
Rename(t) ==
    /\ Left("renames", MaxRenames) /\ Spend("renames")
    /\ hub' = [hub EXCEPT !.version[t] = @ + 1]
    /\ UNCHANGED <<ts, links, tx, proc, layout>>
\* A command loads its configuration when it starts: it changes between commands.
Relayout(to) ==
    /\ \A p \in Proc : proc[p] = Idle
    /\ <<layout, to>> \in Layouts /\ Left("changes", MaxChanges) /\ Spend("changes")
    /\ layout' = to
    /\ UNCHANGED <<hub, ts, links, tx, proc>>

----------------------------------------------------------------------------
(* Target Scheduler's rows, written by id or found by what names them. d is *)
(* the pair of databases of a transaction: d.db and d.links.               *)

Lowest(S) == IF S = {} THEN 0 ELSE Min(S)
Row(s, i) == IF i = 0 THEN Len(s) + 1 ELSE i
Put(s, i, row) == IF i = 0 THEN Append(s, row) ELSE [s EXCEPT ![i] = row]

ProjectNamed(db, name) == Lowest({i \in DOMAIN db.projects : db.projects[i].name = name})
\* By the id recorded, else by name; made active again.
FindHubProject(d, h) == IF d.links.project[h] \in DOMAIN d.db.projects THEN d.links.project[h] ELSE ProjectNamed(d.db, h)
UpsertHubProject(d, h, i) ==
    [db    |-> [d.db EXCEPT !.projects = Put(@, i, [name |-> h, active |-> TRUE])],
     links |-> [d.links EXCEPT !.project[h] = Row(d.db.projects, i)]]
GetOrCreateProject(d, i) ==
    IF i # 0 THEN d ELSE [d EXCEPT !.db.projects = Append(@, [name |-> Managed, active |-> TRUE])]

PerProject == layout.perProject /\ layout.columns
InHubProject(t) == PerProject /\ ProjectOf[t] # None
FindProject(d, t) == IF InHubProject(t) THEN FindHubProject(d, ProjectOf[t]) ELSE ProjectNamed(d.db, Managed)
UpsertProject(d, t) == IF InHubProject(t) THEN UpsertHubProject(d, ProjectOf[t], FindProject(d, t)) ELSE GetOrCreateProject(d, FindProject(d, t))

(* Mutant: the target is left where it was. *)
StayPut(d, t, project) == d
\* A target scheduled before moves with its plans and accepted counts.
MoveTarget(d, t, project) ==
    LET link == d.links.target[t]
    IN  IF link.project # project /\ link.row \in DOMAIN d.db.rows THEN [d EXCEPT !.db.rows[link.row].project = project] ELSE d

FindTarget(db, project, name) == Lowest({i \in DOMAIN db.rows : db.rows[i].project = project /\ db.rows[i].name = name})
UpsertTarget(d, t, project, name, i) ==
    [db    |-> [d.db EXCEPT !.rows = Put(@, i, [project |-> project, name |-> name, active |-> TRUE])],
     links |-> [d.links EXCEPT !.target[t] = [row |-> Row(d.db.rows, i), project |-> project]]]

FindPlan(db, row, filter) == Lowest({i \in DOMAIN db.plans : db.plans[i].row = row /\ db.plans[i].filter = filter})
UpsertPlanAt(d, row, p, i) ==
    [db    |-> [d.db EXCEPT !.plans = IF i = 0 THEN Append(@, [row |-> row, filter |-> Filter[p], desired |-> Desired[p], accepted |-> 0])
                                               ELSE [@ EXCEPT ![i].desired = Desired[p]]],
     links |-> [d.links EXCEPT !.plan[p] = Row(d.db.plans, i)]]
UpsertPlan(d, row, p) == UpsertPlanAt(d, row, p, FindPlan(d.db, row, Filter[p]))
\* The plans of the list one after the other, here in the order of their ids.
UpsertPlans(d, row, plans) ==
    LET upto[n \in 0..LastId] == IF n = 0 THEN d ELSE IF n \in plans THEN UpsertPlan(upto[n-1], row, n) ELSE upto[n-1]
    IN  upto[LastId]

\* Plans removed in the Hub stop being imaged: desired becomes what is accepted.
Retired(d, gone) ==
    [db    |-> [d.db EXCEPT !.plans = [i \in DOMAIN @ |-> IF \E p \in gone : d.links.plan[p] = i THEN [@[i] EXCEPT !.desired = d.db.plans[i].accepted] ELSE @[i]]],
     links |-> [d.links EXCEPT !.plan = [p \in Plan |-> IF p \in gone THEN 0 ELSE @[p]]]]
LinkedPlans(l, t) == {p \in PlansOf(t) : l.plan[p] # 0}
RetirePlans(d, t, current) == Retired(d, LinkedPlans(d.links, t) \ current)

SyncedIn(d, t, listed, project) ==
    UpsertTarget(d, t, project, listed.name, FindTarget(d.db, project, listed.name))
SyncedPlans(d, t, listed) == RetirePlans(UpsertPlans(d, d.links.target[t].row, listed.plans), t, listed.plans)
SyncTarget(d, t, listed, project) == SyncedPlans(SyncedIn(MoveTarget(d, t, project), t, listed, project), t, listed)
SyncOne(d, t, listed) == SyncTarget(UpsertProject(d, t), t, listed, Row(d.db.projects, FindProject(d, t)))
SyncAll(d, list) ==
    LET upto[n \in 0..LastId] == IF n = 0 THEN d ELSE IF n \in DOMAIN list THEN SyncOne(upto[n-1], n, list[n]) ELSE upto[n-1]
    IN  upto[LastId]

Enabled(db, project) == {i \in DOMAIN db.rows : db.rows[i].project = project /\ db.rows[i].active}
Deactivated(db, empty) == [db EXCEPT !.projects = [i \in DOMAIN @ |-> IF i \in empty THEN [@[i] EXCEPT !.active = FALSE] ELSE @[i]]]
RetireSingleProject(db) ==
    Deactivated(db, {i \in {ProjectNamed(db, Managed)} : PerProject /\ i # 0 /\ Enabled(db, i) = {}})

(* Mutant: the links are dropped and the rows are left enabled. *)
Unlinked(d, listed) ==
    [d EXCEPT !.links.target = [t \in Target |-> IF t \in DOMAIN listed THEN NoLinks.target[t] ELSE @[t]],
              !.links.plan = [p \in Plan |-> IF Owner[p] \in DOMAIN listed THEN 0 ELSE @[p]]]
\* Cleanup: the rows listed are disabled and every link to them is dropped.
Disabled(d, listed) ==
    [db    |-> [d.db EXCEPT !.rows = [i \in DOMAIN @ |-> IF \E t \in DOMAIN listed : listed[t] = i THEN [@[i] EXCEPT !.active = FALSE] ELSE @[i]]],
     links |-> [d.links EXCEPT !.target = [t \in Target |-> IF t \in DOMAIN listed THEN NoLinks.target[t] ELSE @[t]],
                               !.plan = [p \in Plan |-> IF Owner[p] \in DOMAIN listed THEN 0 ELSE @[p]]]]
RetireEmptyProjects(d) ==
    [d EXCEPT !.db = Deactivated(@, {i \in DOMAIN @.projects : /\ layout.perProject /\ Enabled(@, i) = {}
                                                               /\ \E h \in HubProject : d.links.project[h] = i})]

----------------------------------------------------------------------------
(* A command's two transactions. Both are open from its first write on;    *)
(* the links are committed, and the scheduler's changes wait in tx.        *)

Data == [db |-> ts, links |-> links]
Writing(p) == tx.by = p
At(p, pc) == proc[p].cmd # None /\ proc[p].pc = pc
Goto(p, pc) == proc' = [proc EXCEPT ![p].pc = pc]
Exit(p) == proc' = [proc EXCEPT ![p] = Idle]
CommitState(p, d) ==
    /\ links' = d.links /\ tx' = [by |-> p, db |-> d.db]
    /\ Goto(p, "commit")
    /\ UNCHANGED <<hub, ts, layout, spent>>
CommitScheduler(p) ==
    /\ Writing(p) /\ ts' = tx.db /\ tx' = NoTx /\ Exit(p)
    /\ UNCHANGED <<hub, links, layout, spent>>

(* roof-open; the event it reports at its end is best effort *)
StartRoofOpen(p) ==
    /\ p = "nina" /\ proc[p] = Idle
    /\ proc' = [proc EXCEPT ![p] = [cmd |-> "roof-open", pc |-> "begin", list |-> ActiveTargets]]
    /\ UNCHANGED <<hub, ts, links, tx, layout, spent>>
Synced(d) == [d EXCEPT !.db = RetireSingleProject(@)]
WriteTargets(p) ==
    /\ At(p, "begin") /\ proc[p].cmd = "roof-open" /\ tx = NoTx
    /\ CommitState(p, Synced(SyncAll(Data, proc[p].list)))

(* sync-progress, and the first part of end-of-night *)
LinkedTargets == {t \in Target : links.target[t].row # 0}
StartProgress(p) ==
    /\ proc[p] = Idle
    /\ proc' = [proc EXCEPT ![p] = [cmd |-> IF p = "nina" THEN "end-of-night" ELSE "sync-progress", pc |-> "read", todo |-> LinkedTargets]]
    /\ UNCHANGED <<hub, ts, links, tx, layout, spent>>
Accepted(i) == IF i \in DOMAIN ts.plans THEN ts.plans[i].accepted ELSE 0
ReadCounts(p, t) ==
    /\ At(p, "read") /\ t \in proc[p].todo /\ \A u \in proc[p].todo : t <= u
    /\ LET left == [cmd |-> proc[p].cmd, pc |-> "read", todo |-> proc[p].todo \ {t}]
       IN  proc' = [proc EXCEPT ![p] = IF LinkedPlans(links, t) = {} THEN left
                                       ELSE [cmd |-> left.cmd, pc |-> "report", todo |-> left.todo, target |-> t,
                                             counts |-> [q \in LinkedPlans(links, t) |-> Accepted(links.plan[q])]]]
    /\ UNCHANGED <<hub, ts, links, tx, layout, spent>>
Reported(p) == proc' = [proc EXCEPT ![p] = [cmd |-> @.cmd, pc |-> "read", todo |-> @.todo]]
\* A plan that the Hub no longer has refuses the report of the whole target,
\* and like every error it ends the command.
Report(p) ==
    /\ At(p, "report")
    /\ IF DOMAIN proc[p].counts \subseteq hub.plans
       THEN /\ \/ hub' = Progress(proc[p].target, proc[p].counts) /\ UNCHANGED spent /\ Reported(p)
               \/ /\ Left("faults", MaxFaults) /\ Spend("faults") /\ Exit(p)
                  /\ hub' \in {hub, Progress(proc[p].target, proc[p].counts)}
       ELSE Exit(p) /\ UNCHANGED <<hub, spent>>
    /\ UNCHANGED <<ts, links, tx, layout>>
\* The end of the night sends session_end, best effort, and goes on.
EndProgress(p) ==
    /\ At(p, "read") /\ proc[p].todo = {}
    /\ IF p = "nina" THEN Goto(p, "clean") ELSE Exit(p)
    /\ UNCHANGED <<hub, ts, links, tx, layout, spent>>

(* cleanup, and the last part of end-of-night *)
FetchActive(p) ==
    /\ IF p = "nina" THEN At(p, "clean") ELSE proc[p] = Idle
    /\ proc' = [proc EXCEPT ![p] = [cmd |-> "cleanup", pc |-> "begin", keep |-> Schedulable]]
    /\ UNCHANGED <<hub, ts, links, tx, layout, spent>>
Gone(keep) == [t \in LinkedTargets \ keep |-> links.target[t].row]
Cleaned(d, listed) == RetireEmptyProjects(Disabled(d, listed))
CleanUp(p) ==
    /\ At(p, "begin") /\ proc[p].cmd = "cleanup" /\ tx = NoTx
    /\ CommitState(p, Cleaned(Data, Gone(proc[p].keep)))

(* An error or a kill before the commits leaves both databases alone. *)
Killed(p) ==
    /\ proc[p] # Idle /\ ~Writing(p)
    /\ Left("faults", MaxFaults) /\ Spend("faults") /\ Exit(p)
    /\ UNCHANGED <<hub, ts, links, tx, layout>>
\* The links are committed, the scheduler's changes are not.
KilledBetween(p) ==
    /\ Writing(p) /\ Left("torn", MaxTorn) /\ Spend("torn")
    /\ tx' = NoTx /\ Exit(p)
    /\ UNCHANGED <<hub, ts, links, layout>>

(* NINA takes a frame of an enabled target in an active project. *)
Image(i) ==
    /\ tx = NoTx /\ i \in DOMAIN ts.plans
    /\ LET plan == ts.plans[i]
       IN  ts.rows[plan.row].active /\ ts.projects[ts.rows[plan.row].project].active /\ plan.accepted < plan.desired
    /\ ts' = [ts EXCEPT !.plans[i].accepted = @ + 1]
    /\ UNCHANGED <<hub, links, tx, proc, layout, spent>>

----------------------------------------------------------------------------
Init ==
    /\ hub = [status |-> [t \in Target |-> "open"], paused |-> {}, version |-> [t \in Target |-> 0],
              plans |-> FirstPlans, completed |-> [p \in Plan |-> 0]]
    /\ ts = [projects |-> <<>>, rows |-> <<>>, plans |-> <<>>]
    /\ links = NoLinks /\ tx = NoTx /\ proc = [p \in Proc |-> Idle]
    /\ layout = FirstLayout
    /\ spent = [changes |-> 0, renames |-> 0, faults |-> 0, torn |-> 0]

Step(p) ==
    \/ WriteTargets(p) \/ \E t \in Target : ReadCounts(p, t)
    \/ CommitScheduler(p) \/ Report(p) \/ EndProgress(p) \/ CleanUp(p) \/ (p = "nina" /\ FetchActive(p))
Outside ==
    \/ HubChange \/ \E t \in Renamed : Rename(t)
    \/ \E to \in Layout : Relayout(to)
    \/ \E i \in DOMAIN ts.plans : Image(i)
    \/ \E p \in Proc : Killed(p) \/ KilledBetween(p)
Next ==
    \/ \E p \in Proc : Step(p) \/ StartRoofOpen(p) \/ StartProgress(p)
    \/ FetchActive("timer")
    \/ Outside

Spec == Init /\ [][Next]_vars

(* A command that runs goes on, the timer keeps firing, and the roof opens *)
(* and the night ends again; cleanup of the timer's only when it is set up. *)
ReadNext(p) == \E t \in Target : ReadCounts(p, t)
GoesOn(p) ==
    /\ WF_vars(ReadNext(p)) /\ WF_vars(Report(p)) /\ WF_vars(EndProgress(p)) /\ WF_vars(p = "nina" /\ FetchActive(p)) /\ WF_vars(CommitScheduler(p))
    /\ []<>~At(p, "begin")      \* it gets the databases' locks and writes
Nightly ==
    /\ \A p \in Proc : GoesOn(p)
    /\ SF_vars(StartRoofOpen("nina")) /\ \A p \in Proc : SF_vars(StartProgress(p))
NightlySpec == Spec /\ Nightly
FairSpec == NightlySpec /\ SF_vars(FetchActive("timer"))

----------------------------------------------------------------------------
(* What is checked. *)

DbType(db) ==
    /\ \A i \in DOMAIN db.projects : db.projects[i] \in [name : HubProject \cup {Managed}, active : BOOLEAN]
    /\ \A i \in DOMAIN db.rows : /\ db.rows[i].project \in DOMAIN db.projects /\ db.rows[i].active \in BOOLEAN
                                 /\ db.rows[i].name \in Target \X (0..MaxRenames)
    /\ \A i \in DOMAIN db.plans : /\ db.plans[i].row \in DOMAIN db.rows
                                  /\ db.plans[i].accepted \in Nat /\ db.plans[i].desired \in Nat
LinksType(l, db) ==
    /\ \A t \in Target : l.target[t].row \in {0} \cup DOMAIN db.rows
    /\ \A p \in Plan : l.plan[p] \in {0} \cup DOMAIN db.plans
    /\ \A h \in HubProject : l.project[h] \in {0} \cup DOMAIN db.projects
\* Rows are numbered without gaps and links name rows that exist: in the
\* scheduler's database, and in a transaction that has written it.
TypeOK ==
    /\ hub.status \in [Target -> {"open", "completed"}] /\ hub.paused \subseteq Target /\ hub.plans \subseteq Plan
    /\ layout \in Layout
    /\ DbType(ts) /\ (tx = NoTx /\ spent.torn = 0 => LinksType(links, ts))
    /\ tx # NoTx => DbType(tx.db) /\ (spent.torn = 0 => LinksType(links, tx.db))

\* No command was killed between its commits, and no target was renamed.
Whole == spent.torn = 0 /\ spent.renames = 0

\* NINA never images a target that robs has forgotten: between transactions
\* every enabled row is the row of a link, so cleanup can still find it
\* (cleanup.py: disable the row, then drop the local state).
EnabledIsLinked == tx = NoTx => \A i \in DOMAIN ts.rows : ts.rows[i].active => \E t \in Target : links.target[t].row = i
NoOrphans == Whole => EnabledIsLinked

\* Two targets, or two plans, never share a scheduler row, and a plan's row
\* is one of its target's row and of its own filter: what is reported for a
\* plan was taken for it (state.py's mapping).
LinksAgree ==
    tx = NoTx /\ spent.torn = 0 =>
      /\ \A t \in Target : LET link == links.target[t]
                          IN  link.row # 0 => /\ ts.rows[link.row].name[1] = t
                                              /\ ts.rows[link.row].project = link.project
      /\ \A p \in Plan : links.plan[p] # 0 => /\ ts.plans[links.plan[p]].row = links.target[Owner[p]].row
                                              /\ ts.plans[links.plan[p]].filter = Filter[p]

\* The Hub never counts more frames of a plan than one row of its target and
\* its filter has accepted, whatever was re-read, resent or overtaken.
Taken(db, p, n) == n = 0 \/ \E i \in DOMAIN db.plans : /\ db.plans[i].filter = Filter[p] /\ n <= db.plans[i].accepted
                                                       /\ db.rows[db.plans[i].row].name[1] = Owner[p]
OnlyFramesTaken == tx = NoTx /\ spent.torn = 0 => \A p \in Plan : Taken(ts, p, hub.completed[p])

FramesOf(t, f) == MapThenSumSet(LAMBDA i : ts.plans[i].accepted,
                                {i \in DOMAIN ts.plans : ts.plans[i].filter = f /\ ts.rows[ts.plans[i].row].name[1] = t})

\* What roof-open commits is what the Hub asked for when it was fetched: each
\* target enabled once, in an active project, with each plan's own count.
AskedFor(t, listed) ==
    LET row == links.target[t].row
    IN  /\ ts'.rows[row].active /\ ts'.projects[ts'.rows[row].project].active
        /\ \A i \in DOMAIN ts'.rows : ts'.rows[i].active /\ ts'.rows[i].name[1] = t => i = row
        /\ \A p \in listed.plans : ts'.plans[links.plan[p]].desired = Desired[p]
RoofOpened(p) == proc[p].cmd = "roof-open" /\ Writing(p) /\ tx' = NoTx /\ spent' = spent
ScheduledAsAsked == [][\A p \in Proc : Whole /\ RoofOpened(p) => \A t \in DOMAIN proc[p].list : AskedFor(t, proc[p].list[t])]_vars

\* Plans removed in the Hub stop being imaged: after roof-open no plan of a
\* listed target wants frames, but those on the list.
StopImaging(t, listed) ==
    \A i \in DOMAIN ts'.plans :
        ts'.plans[i].row = links.target[t].row /\ ts'.plans[i].filter \notin {Filter[p] : p \in listed.plans}
            => ts'.plans[i].desired <= ts'.plans[i].accepted
RemovedStop == [][\A p \in Proc : RoofOpened(p) => \A t \in DOMAIN proc[p].list : StopImaging(t, proc[p].list[t])]_vars

\* Whatever a target goes through, its linked rows hold every frame accepted
\* for it ("move over with their accepted counts", "keeping its accepted counts").
CountsKept ==
    tx = NoTx => \A p \in Plan : links.plan[p] # 0 => Accepted(links.plan[p]) = FramesOf(Owner[p], Filter[p])

\* A frame accepted for a linked plan is reported in the end, unless the
\* plan's link goes away first.
ReportsArrive ==
    \A p \in Plan : \A n \in 1..Desired[p] :
        (links.plan[p] # 0 /\ Accepted(links.plan[p]) >= n) ~> (hub.completed[p] >= n \/ links.plan[p] = 0)
=============================================================================
