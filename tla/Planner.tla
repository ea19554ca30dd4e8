------------------------------ MODULE Planner ------------------------------
(***************************************************************************)
(* Planning the nights of one rig, and running what was planned:           *)
(* planner/plan.py with the parts of executor.py and publisher.py that      *)
(* planning reads back.  One process plans (altaird), one runs jobs (the    *)
(* same or `altair run`), the rest arrives on other threads or from the     *)
(* command line.  A job's place in `jobs` is its id and names its product;  *)
(* its plan stands for its plan_hash.  A reference to a master is the       *)
(* product itself, [sha |-> id], or the plan of the job that builds it,     *)
(* [job |-> plan].  Merging is the business of Merges, the inside of a      *)
(* run that of Jobs.                                                        *)
(***************************************************************************)
EXTENDS Matching, FiniteSets, FiniteSetsExt, SequencesExt, Functions

CONSTANTS
    Frame, Info,        \* what a header says of a frame; Info[f].link is the target it resolves to
    Night, Target,
    DayLength,          \* of the integer times
    Initially,          \* masters imported before anything else (a sequence)
    Import,             \* masters that may be imported
    Event,              \* equipment events that may be logged
    MinLights,          \* min_lights_per_stack
    Provisional,        \* produce_provisional_without_flat
    Parallel,           \* jobs run beside the planner, in a process of their own (`altair run`)
    MaxSpent            \* bound: failed jobs and plans, restarts, rejected lights, Hub answers and what a user does

ASSUME PlannerAssumption ==
    /\ IsFiniteSet(Frame) /\ MinLights \in Nat /\ DayLength \in Nat \ {0} /\ MaxSpent \in Nat
    /\ \A f, g \in Frame : f # g => Info[f].at # Info[g].at
ASSUME HeadersTyped ==
    \A f \in Frame : /\ Info[f].night \in Int /\ Info[f].at \in Int /\ Info[f].temp \in Int \cup {None}
                      /\ Info[f].link \in Target \cup {None}
ASSUME MastersTyped ==
    /\ Initially \in Seq(ToSet(Initially)) /\ None \notin Int
    /\ \A m \in Import \cup ToSet(Initially) :
          /\ DOMAIN m = {"kind", "rig", "filter", "sensor", "size", "pos", "exposure", "temp", "focal", "night", "n", "at", "sha"}
          /\ m.temp \in Int \cup {None} /\ m.night \in Int /\ m.n \in Int
          /\ m.sha # None /\ m.sha \notin Nat       \* the hash of no job's product
ASSUME RulesTyped == Rules.prefer \in Seq({"same_night", "nearest_after", "nearest_before"})

VARIABLES
    frames,     \* frames.status, "absent" before it is collected
    link,       \* frames.hub_target_id
    reason,     \* frames.status_reason: what is missing, {} for NULL
    masters,    \* calibration_masters, by id
    jobs,       \* jobs, by id
    issues,     \* issues, by fingerprint
    events,     \* equipment_events
    override,   \* flat_override:<night>:<filter>
    project,    \* projects: version and SHA-256 of the reference
    stacks,     \* night_masters that nothing supersedes
    fresh,      \* nights with frames collected since they were last made ready
    requests,   \* plan_requests not done, oldest first
    planner,    \* where the planner is: nights still to plan, the plan it made
    running,    \* the job that is running, 0 if none
    missed,     \* not in the code: nights that no plan has looked at since a request for them was dropped
    spent       \* counter of the bound

inputs == <<frames, link, reason, events>>
made   == <<masters, stacks, project>>
vars   == <<inputs, made, jobs, issues, override, fresh, requests, planner, running, missed, spent>>

DEAD        == {"failed", "blocked", "superseded"}
Waiting     == {"queued", "waiting_data"}
CALIB_ORDER == <<"BIAS", "DARKFLAT", "DARK", "FLAT">>
FLAT_KINDS  == {"FLAT_MISSING", "ROTATOR_POSITION_UNKNOWN"}
CALIB_ISSUE_KINDS == FLAT_KINDS \cup {"DARK_MISSING", "BIAS_MISSING", "DARKFLAT_MISSING"}
Present     == {"valid", "held", "processed"}

IsLight(f)  == Info[f].type = "LIGHT"
Lights      == {f \in Frame : IsLight(f) /\ frames[f] # "absent"}
Day(at)     == at \div DayLength

(* a row and what the code keeps beside it *)
With(row, more) == [x \in DOMAIN row \cup DOMAIN more |-> IF x \in DOMAIN row THEN row[x] ELSE more[x]]

(* ORDER BY date_obs *)
Rows(S) == [i \in 1..Cardinality(S) |-> CHOOSE f \in S : Cardinality({g \in S : Info[g].at < Info[f].at}) = i - 1]
Middle(S) == Info[Rows(S)[(Cardinality(S) \div 2) + 1]].at

(* _median, over the frames that have a value *)
Median(S, value) ==
    LET known == {f \in S : value[f] # None}
        n     == Cardinality(known)
        below(f) == Cardinality({g \in known : value[g] < value[f]})
        upto(f)  == Cardinality({g \in known : value[g] <= value[f]})
        nth(i)   == value[CHOOSE f \in known : below(f) < i /\ i <= upto(f)]
    IN  IF n = 0 THEN None ELSE (nth((n + 1) \div 2) + nth((n \div 2) + 1)) \div 2

Positions(S) == LET rows == Rows(S)
                    pos  == Buckets([i \in DOMAIN rows |-> Info[rows[i]].pos])
                IN  [f \in S |-> pos[CHOOSE i \in DOMAIN rows : rows[i] = f]]

(***************************************************************************)
(* A plan of a night, from what the catalog holds now                      *)
(***************************************************************************)
Library == {With(masters[i], [order |-> i, job |-> None]) : i \in {k \in DOMAIN masters : ~masters[k].superseded}}

(* _ref: its SHA-256, or the job building it *)
Ref(m)     == IF m.sha # None THEN [sha |-> m.sha] ELSE [job |-> m.job]
JobRefs(S) == {r.job : r \in {x \in S : x # None /\ "job" \in DOMAIN x}}

Subs(n) == {f \in Frame : ~IsLight(f) /\ Info[f].night = n /\ frames[f] = "valid"}

CalibKey(f, pos) ==
    LET i == Info[f]
    IN  CASE i.type = "BIAS"     -> <<i.sensor, i.size>>
          [] i.type = "DARKFLAT" -> <<i.sensor, i.size, i.exposure>>
          [] i.type = "DARK"     -> <<i.sensor, i.size, i.exposure, i.temp>>
          [] i.type = "FLAT"     -> <<i.filter, i.size, i.focal, pos>>

MasterOf(n, S, pos) ==
    LET first == Info[Rows(S)[1]]
    IN  [kind |-> first.type, rig |-> first.rig, filter |-> IF first.type = "FLAT" THEN first.filter ELSE None,
         sensor |-> first.sensor, size |-> first.size, pos |-> IF first.type = "FLAT" THEN pos ELSE None,
         exposure |-> Median(S, [f \in S |-> Info[f].exposure]), temp |-> Median(S, [f \in S |-> Info[f].temp]),
         focal |-> Median(S, [f \in S |-> Info[f].focal]), night |-> n, n |-> Cardinality(S), at |-> Middle(S)]

CalibIssue(n, miss, m) ==
    [key |-> <<miss.miss, "flatgroup", m.filter, m.exposure, n>>, kind |-> miss.miss, need |-> m, target |-> None, filter |-> m.filter, lights |-> {}]

SubGroups(subs, kind, pos) ==
    SetToSeq({{g \in subs : Info[g].type = kind /\ CalibKey(g, pos[g]) = CalibKey(f, pos[f])} : f \in {x \in subs : Info[x].type = kind}})

CalibJob(acc, S, m, dark) ==
    LET with == IF m.kind = "FLAT" THEN {Ref(dark)} ELSE {}
        plan == [kind |-> "CALIB_MASTER", master |-> m, inputs |-> S, with |-> with, night |-> m.night]
    IN  IF S \in {x.inputs : x \in Library} THEN acc
        ELSE IF IsMiss(dark) THEN [acc EXCEPT !.issues = Append(@, CalibIssue(m.night, dark, m))]
        ELSE [acc EXCEPT !.jobs = Append(@, [plan |-> plan, depends |-> JobRefs(with)]),
                         !.pending = @ \cup {With(m, [sha |-> None, job |-> plan, inputs |-> S, order |-> 1000 + Cardinality(@)])}]
CalibMaster(acc, S, m) == CalibJob(acc, S, m, IF m.kind = "FLAT" THEN MatchFlatDark(m, Library \cup acc.pending) ELSE m)

(* _plan_calibration, one group of subs after the other *)
CalibTurn(n, pos, acc, S) == CalibMaster(acc, S, MasterOf(n, S, pos[Rows(S)[1]]))
CalibTurns(n, pos, turns) ==
    LET upto[k \in 0..Len(turns)] == IF k = 0 THEN [jobs |-> <<>>, pending |-> {}, issues |-> <<>>]
                                     ELSE CalibTurn(n, pos, upto[k-1], turns[k])
    IN  upto[Len(turns)]
Turns(subs, pos) == FlattenSeq([k \in DOMAIN CALIB_ORDER |-> SubGroups(subs, CALIB_ORDER[k], pos)])
PlanSubs(n, subs, flatPos) ==
    LET pos == [f \in subs |-> IF Info[f].type = "FLAT" THEN flatPos[f] ELSE None]
    IN  CalibTurns(n, pos, Turns(subs, pos))
PlanCalibration(n) == PlanSubs(n, Subs(n), Positions({f \in Subs(n) : Info[f].type = "FLAT"}))

(* _eligible_light, with require_target_link *)
Eligible(n) == {f \in Lights : Info[f].night = n /\ frames[f] \in Present /\ link[f] # None}

(* _light_groups: lights of one stack that need the same calibration *)
LightGroups(n) ==
    LET pos    == Positions(Eligible(n))
        key(f) == <<link[f], Info[f].filter, Info[f].exposure, Info[f].sensor, Info[f].size, IF Rotator.present THEN pos[f] ELSE None>>
        need(S) == LET f == Rows(S)[1]
                   IN  [rig |-> Info[f].rig, filter |-> Info[f].filter, sensor |-> Info[f].sensor, size |-> Info[f].size,
                        exposure |-> Info[f].exposure, pos |-> key(f)[6], night |-> n, at |-> Middle(S),
                        temp |-> Median(S, [g \in S |-> Info[g].temp]), focal |-> Median(S, [g \in S |-> Info[g].focal])]
        group(S) == [target |-> link[Rows(S)[1]], filter |-> Info[Rows(S)[1]].filter, lights |-> S, need |-> need(S)]
    IN  {group({g \in Eligible(n) : key(g) = key(f)}) : f \in Eligible(n)}

(* match_dark and match_flat, then the user's own flat (_flat_override) *)
Matched(g, candidates) ==
    LET flat  == MatchFlat(g.need, candidates, events)
        own   == {m \in candidates : <<g.need.night, g.filter>> \in DOMAIN override /\ m.sha = override[<<g.need.night, g.filter>>]}
        forced == IsMiss(flat) /\ own # {}
    IN  With(g, [dark |-> MatchDark(g.need, candidates), flat |-> IF forced THEN CHOOSE m \in own : TRUE ELSE flat, forced |-> forced])

Calibrated(g) == ~IsMiss(g.dark) /\ ~IsMiss(g.flat)
Misses(g)     == {m \in {g.dark, g.flat} : IsMiss(m)}
PlanGroup(g)  == [lights |-> g.lights, dark |-> Ref(g.dark), flat |-> IF IsMiss(g.flat) THEN None ELSE Ref(g.flat), forced |-> g.forced]
GroupRefs(S)  == {g.dark : g \in S} \cup {g.flat : g \in S}

(* _light_issue *)
LightIssue(g, miss) ==
    LET need == g.need
        key  == IF miss.miss \in FLAT_KINDS THEN <<miss.miss, need.filter, need.pos, need.size, need.night>>
                ELSE <<miss.miss, need.sensor, need.exposure, need.night>>
    IN  [key |-> key, kind |-> miss.miss, need |-> need, target |-> g.target, filter |-> g.filter, lights |-> g.lights]

(* _check_focal_length: was a reducer changed since the night before? *)
FocalIssues(n) ==
    LET before == {f \in Lights : Info[f].night < n}
        last   == {f \in before : \A g \in before : Info[g].night <= Info[f].night}
        focal(S) == Median(S, [f \in S |-> Info[f].focal])
        here == focal(Eligible(n))
    IN  IF here # None /\ focal(last) # None /\ Abs(here - focal(last)) > FocalTolerance
        THEN <<[key |-> <<"EQUIPMENT_CHANGE_SUSPECTED", n>>, kind |-> "EQUIPMENT_CHANGE_SUSPECTED", need |-> [night |-> n],
                target |-> None, filter |-> None, lights |-> {}]>>
        ELSE <<>>

(* _reference_job: the one on its way, or a new one from this night's final groups *)
ReferencePlan(n, t, groups) ==
    LET onItsWay == {i \in DOMAIN jobs : /\ jobs[i].plan.kind = "PROJECT_REFERENCE" /\ jobs[i].plan.target = t
                                         /\ jobs[i].status \in Waiting \cup {"running"}
                                         /\ jobs[i].plan.version = project[t].version}
        finals   == {PlanGroup(g) : g \in {x \in groups : x.target = t /\ Calibrated(x)}}
    IN  IF onItsWay # {} THEN jobs[CHOOSE i \in onItsWay : TRUE].plan
        ELSE [kind |-> "PROJECT_REFERENCE", target |-> t, night |-> n, version |-> project[t].version, groups |-> finals]

(* _plan_stacks for one project and filter: at most one stack *)
StackOf(n, t, groups, S) ==
    LET final == \A g \in S : Calibrated(g)
        noref == final /\ project[t].ref = None
        ref   == ReferencePlan(n, t, groups)
        plan  == [kind |-> "NIGHT_STACK", stack |-> IF final THEN "final" ELSE "provisional_noflat", target |-> t, night |-> n,
                  filter |-> (CHOOSE g \in S : TRUE).filter, version |-> project[t].version, groups |-> {PlanGroup(g) : g \in S},
                  reference |-> IF noref THEN [job |-> ref] ELSE IF project[t].ref # None THEN [sha |-> project[t].ref] ELSE None]
    IN  IF \/ Cardinality(UNION {g.lights : g \in S}) < MinLights
           \/ ~final /\ ~(Provisional /\ \A g \in S : ~IsMiss(g.dark))
        THEN <<>> ELSE <<[plan |-> plan, depends |-> JobRefs(GroupRefs(plan.groups) \cup {plan.reference})]>>

(* _plan_stacks: the stacks, after the references they wait for *)
PlanStacks(n, groups) ==
    LET together == SetToSeq({{h \in groups : h.target = g.target /\ h.filter = g.filter} : g \in groups})
    IN  FlattenSeq([i \in DOMAIN together |-> StackOf(n, (CHOOSE g \in together[i] : TRUE).target, groups, together[i])])

OnItsWay(plan)     == \E i \in DOMAIN jobs : jobs[i].plan = plan /\ jobs[i].status \in Waiting \cup {"running"}
References(stacked) == {r \in JobRefs({j.plan.reference : j \in ToSet(stacked)}) : ~OnItsWay(r)}
ReferenceJobs(new)  == [i \in DOMAIN new |-> [plan |-> new[i], depends |-> JobRefs(GroupRefs(new[i].groups))]]

NightPlan(n, calib, groups, stacked) ==
    [night |-> n, seen |-> frames, why |-> reason, groups |-> {[lights |-> g.lights, why |-> {m.miss : m \in Misses(g)}] : g \in groups},
     jobs |-> calib.jobs \o ReferenceJobs(SetToSeq(References(stacked))) \o stacked,
     issues |-> FocalIssues(n) \o calib.issues \o SetToSeq(UNION {{LightIssue(g, m) : m \in Misses(g)} : g \in groups})]

(* _plan_night *)
PlanLights(n, calib, groups) == NightPlan(n, calib, groups, PlanStacks(n, groups))
PlanWith(n, calib)           == PlanLights(n, calib, {Matched(g, Library \cup calib.pending) : g \in LightGroups(n)})
PlanNight(n)                 == PlanWith(n, PlanCalibration(n))

(***************************************************************************)
(* Writing a plan: one transaction                                         *)
(***************************************************************************)
(* Mutant: a job is known by the plan it was given only. *)
ByPlanHash(js, plan) == LET own == {i \in DOMAIN js : js[i].plan = plan} IN IF own = {} THEN 0 ELSE Max(own)

(* insert_job: by plan_hash, else by resolved_hash, the newest *)
Existing(js, plan) ==
    LET own   == {i \in DOMAIN js : js[i].plan = plan}
        alias == {i \in DOMAIN js : js[i].resolved = plan}
    IN  IF own # {} THEN Max(own) ELSE IF alias # {} THEN Max(alias) ELSE 0

SameStack(p, q) ==
    /\ p.kind = "NIGHT_STACK" /\ q.kind = "NIGHT_STACK"
    /\ p.target = q.target /\ p.night = q.night /\ p.filter = q.filter /\ p.stack = q.stack

InsertJob(acc, job) ==
    LET e    == Existing(acc.jobs, job.plan)
        deps == {acc.ids[d] : d \in job.depends \cap DOMAIN acc.ids}
                \cup {i \in DOMAIN acc.jobs : acc.jobs[i].plan \in job.depends \ DOMAIN acc.ids}
        row  == [plan |-> job.plan, depends |-> deps, status |-> "queued", resolved |-> None]
        Older(j) == j.status \in {"queued", "waiting_data", "blocked"} /\ SameStack(job.plan, j.plan)
        id   == IF e = 0 THEN Len(acc.jobs) + 1 ELSE e
    IN  [ids  |-> (job.plan :> id) @@ acc.ids,
         jobs |-> IF e = 0 THEN Append([i \in DOMAIN acc.jobs |->
                                          IF Older(acc.jobs[i]) THEN [acc.jobs[i] EXCEPT !.status = "superseded"] ELSE acc.jobs[i]], row)
                  ELSE IF acc.jobs[e].status \in DEAD THEN [acc.jobs EXCEPT ![e].status = "queued"]
                  ELSE acc.jobs]

InsertAll(js, new) ==
    LET upto[k \in 0..Len(new)] == IF k = 0 THEN [jobs |-> js, ids |-> <<>>] ELSE InsertJob(upto[k-1], new[k])
    IN  upto[Len(new)].jobs

(* raise_issue, resolve_issue: an open issue that says the same keeps its row, and so its lights and its need *)
Said(i) == <<i.target, Cardinality(i.lights),
             IF i.lights = {} THEN None ELSE <<i.need.exposure, IF i.kind \in FLAT_KINDS THEN i.need.focal ELSE i.need.temp>>>>
Raised(is, i) == IF i.key \in DOMAIN is /\ is[i.key].status = "open" /\ Said(is[i.key]) = Said(i) THEN is
                 ELSE (i.key :> ([f \in DOMAIN i \ {"key"} |-> i[f]] @@ [status |-> "open"])) @@ is
Resolved(is, keys, how) == [k \in DOMAIN is |-> IF k \in keys /\ is[k].status = "open" THEN [is[k] EXCEPT !.status = how] ELSE is[k]]

(* Mutant: every issue of the night, also the ones this plan raises. *)
AllOfNight(is, plan) == {k \in DOMAIN is : is[k].kind \in CALIB_ISSUE_KINDS /\ is[k].need.night = plan.night}

(* _resolve_stale_issues *)
Stale(is, plan) ==
    {k \in DOMAIN is : is[k].kind \in CALIB_ISSUE_KINDS /\ is[k].need.night = plan.night /\ \A i \in DOMAIN plan.issues : plan.issues[i].key # k}

(* _update_frame_status: the lights whose status or reason is not what was read *)
Verdict(plan, f) ==
    LET mine == {g \in plan.groups : f \in g.lights}
        why  == UNION {g.why : g \in mine}
    IN  [mine |-> mine # {}, why |-> why,
         status |-> IF why # {} THEN "held" ELSE IF plan.seen[f] = "held" THEN "valid" ELSE plan.seen[f]]
Rewrites(plan, f)    == LET v == Verdict(plan, f) IN v.mine /\ (v.status # plan.seen[f] \/ v.why # plan.why[f])
StatusAfter(plan, f) == IF Rewrites(plan, f) THEN Verdict(plan, f).status ELSE frames[f]
ReasonAfter(plan, f) == IF Rewrites(plan, f) THEN Verdict(plan, f).why ELSE reason[f]

(***************************************************************************)
(* The state                                                               *)
(***************************************************************************)
Row(m) == With(m, [inputs |-> {}, imported |-> TRUE, superseded |-> FALSE])
Idle   == [at |-> "idle", todo |-> <<>>, plan |-> None]

Init ==
    /\ frames = [f \in Frame |-> "absent"] /\ link = [f \in Frame |-> None] /\ reason = [f \in Frame |-> {}]
    /\ masters = [i \in DOMAIN Initially |-> Row(Initially[i])] /\ jobs = <<>> /\ issues = <<>> /\ events = {} /\ override = <<>>
    /\ project = [t \in Target |-> [version |-> 1, ref |-> None]]
    /\ stacks = {} /\ fresh = {} /\ requests = <<>>
    /\ planner = Idle /\ running = 0
    /\ missed = {} /\ spent = 0

Spend == spent < MaxSpent /\ spent' = spent + 1
Unresolved(f) == <<"PROJECT_UNRESOLVED", Info[f].night, Info[f].object>>

(***************************************************************************)
(* What arrives                                                            *)
(***************************************************************************)
(* register: a light that resolves to no target is held *)
Collect(f) ==
    LET lost == IsLight(f) /\ Info[f].link = None
    IN  /\ frames[f] = "absent"
        /\ frames' = [frames EXCEPT ![f] = IF lost THEN "held" ELSE "valid"]
        /\ link' = [link EXCEPT ![f] = Info[f].link]
        /\ issues' = IF lost THEN Raised(issues, [key |-> Unresolved(f), kind |-> "PROJECT_UNRESOLVED", need |-> [night |-> Info[f].night],
                                                  target |-> None, filter |-> Info[f].filter, lights |-> {}]) ELSE issues
        /\ fresh' = fresh \cup {Info[f].night}
        /\ UNCHANGED <<reason, made, jobs, events, override, requests, planner, running, missed, spent>>

(* check_night: frames arrived and the rig went quiet (module Nights) *)
NightReady(n) ==
    /\ n \in fresh /\ fresh' = fresh \ {n}
    /\ requests' = Append(requests, [kind |-> "night_ready", night |-> n])
    /\ UNCHANGED <<inputs, made, jobs, issues, override, planner, running, missed, spent>>

(* log_event *)
LogEvent(e) ==
    /\ e \notin events /\ events' = events \cup {e}
    /\ issues' = Resolved(issues, {k \in DOMAIN issues : issues[k].kind = "EQUIPMENT_CHANGE_SUSPECTED"}, "resolved")
    /\ requests' = Append(requests, [kind |-> "equipment_event", at |-> e.at])
    /\ UNCHANGED <<frames, link, reason, made, jobs, override, fresh, planner, running, missed, spent>>

(* assign: the lights of a night with one OBJECT are a target's *)
Assign(n, object, t) ==
    LET rows == {f \in Lights : Info[f].night = n /\ Info[f].object = object}
        previous == {link[f] : f \in rows} \ {None, t}
    IN  /\ rows # {}
        /\ IF previous = {} /\ \E f \in rows : link[f] = None THEN UNCHANGED spent ELSE Spend
        /\ link' = [f \in Frame |-> IF f \in rows THEN t ELSE link[f]]
        /\ frames' = [f \in Frame |-> IF f \in rows /\ frames[f] = "held" THEN "valid" ELSE frames[f]]
        /\ issues' = Resolved(issues, {<<"PROJECT_UNRESOLVED", n, object>>}, "resolved")
        /\ requests' = Append(requests, [kind |-> "replan", targets |-> {t} \cup previous, nights |-> {n}])
        /\ UNCHANGED <<reason, made, jobs, events, override, fresh, planner, running, missed>>

(* adopt_hub_target: the Hub's answer names another target; a held light is released, nothing is planned again *)
Adopt(f, t) ==
    /\ f \in Lights /\ link[f] # t /\ Spend
    /\ link' = [link EXCEPT ![f] = t]
    /\ frames' = [frames EXCEPT ![f] = IF @ = "held" THEN "valid" ELSE @]
    /\ missed' = missed \cup {Info[f].night}
    /\ UNCHANGED <<reason, made, jobs, events, issues, override, fresh, requests, planner, running>>

(* _check_config: the rig no longer matches the Hub's train, or does again *)
Mismatch == <<"HUB_CONFIG_MISMATCH">>
Paused   == Mismatch \in DOMAIN issues /\ issues[Mismatch].status = "open"
CheckConfig ==
    /\ IF Paused THEN UNCHANGED spent ELSE Spend
    /\ issues' = IF Paused THEN Resolved(issues, {Mismatch}, "resolved")
                 ELSE Raised(issues, [key |-> Mismatch, kind |-> "HUB_CONFIG_MISMATCH", need |-> None, target |-> None, filter |-> None, lights |-> {}])
    /\ UNCHANGED <<inputs, made, jobs, override, fresh, requests, planner, running, missed>>

(* auto_resolve: issues whose requirement this master meets *)
Satisfies(m, i) ==
    LET own == {With(m, [order |-> 1, job |-> None])}
    IN  /\ i.status = "open" /\ i.kind \in CALIB_ISSUE_KINDS
        /\ CASE m.kind = "DARK"     -> i.kind = "DARK_MISSING" /\ ~IsMiss(MatchDark(i.need, own))
             [] m.kind = "BIAS"     -> i.kind = "BIAS_MISSING" /\ ~IsMiss(MatchBias(i.need, own))
             [] m.kind = "DARKFLAT" -> i.kind = "DARKFLAT_MISSING" /\ ~IsMiss(MatchDarkflat(i.need, own))
             [] m.kind = "FLAT"     -> i.kind \in FLAT_KINDS /\ ~IsMiss(MatchFlat(i.need, own, events))
AutoResolve(m) == LET hits == SetToSeq({k \in DOMAIN issues : Satisfies(m, issues[k])})
                  IN  [i \in DOMAIN hits |-> [kind |-> "rerun", issue |-> hits[i]]]

(* import_master: INSERT OR IGNORE by SHA-256 *)
Known(m)    == \E i \in DOMAIN masters : masters[i].sha = m.sha
Imported(m) == IF Known(m) THEN masters ELSE Append(masters, Row(m))

ImportMaster(m) ==
    /\ ~Known(m) /\ Spend
    /\ masters' = Imported(m)
    /\ requests' = requests \o AutoResolve(m)
    /\ UNCHANGED <<inputs, stacks, project, jobs, issues, override, fresh, planner, running, missed>>

(* resolve_with_flat: an import, a check, perhaps an override, a rerun *)
ResolveWithFlat(k, m, force) ==
    LET need == issues[k].need
        miss == IsMiss(MatchFlat(need, {With(m, [order |-> 1, job |-> None])}, events))
    IN  /\ k \in DOMAIN issues /\ issues[k].kind \in FLAT_KINDS /\ m.kind = "FLAT"
        /\ Spend
        /\ masters' = Imported(m)
        /\ override' = IF miss /\ force THEN (<<need.night, need.filter>> :> m.sha) @@ override ELSE override
        /\ requests' = requests \o AutoResolve(m) \o (IF miss /\ ~force THEN <<>> ELSE <<[kind |-> "rerun", issue |-> k]>>)
        /\ UNCHANGED <<inputs, stacks, project, jobs, issues, fresh, planner, running, missed>>

(* waive: nor does it remind any more (the night's exclusion is in Merges) *)
Waive(k) ==
    /\ issues[k].status = "open" /\ Spend
    /\ issues' = Resolved(issues, {k}, "waived")
    /\ UNCHANGED <<inputs, made, jobs, override, fresh, requests, planner, running, missed>>

(* a rerun of a night and a new reference, asked for by a user *)
AskRerun(n) ==
    /\ Spend
    /\ requests' = Append(requests, [kind |-> "replan", targets |-> {}, nights |-> {n}])
    /\ UNCHANGED <<inputs, made, jobs, issues, override, fresh, planner, running, missed>>

AskRereference(t) ==
    /\ Spend
    /\ requests' = Append(requests, [kind |-> "rereference", target |-> t])
    /\ UNCHANGED <<inputs, made, jobs, issues, override, fresh, planner, running, missed>>

(***************************************************************************)
(* process_requests: one request after the other, each night read, then     *)
(* written; a request is marked done when its last night is                 *)
(***************************************************************************)
NightsOf(S) == {Info[f].night : f \in S}
ForFlats    == {issues[k].need.night : k \in {x \in DOMAIN issues : issues[x].status = "open" /\ issues[x].kind \in FLAT_KINDS}}

(* Mutant: only the nights that miss a flat. *)
WithoutFlat(req) == ForFlats

(* equipment_event: also the nights whose flats it may now separate *)
NearEvent(req) == ForFlats \cup {n \in NightsOf(Lights) : Abs(n - Day(req.at)) <= Rules.flatAge}

(* _nights_for, and the nights of a new reference *)
NightsFor(req) ==
    CASE req.kind = "night_ready"         -> {req.night}
          [] req.kind = "rerun"           -> {issues[req.issue].need.night}
          [] req.kind = "rereference"     -> NightsOf({f \in Lights : link[f] = req.target})
          [] req.kind = "equipment_event" -> NearEvent(req)
          [] req.kind = "replan"          ->
                NightsOf({f \in Lights : /\ req.targets # {} => link[f] \in req.targets
                                         /\ req.nights # {} => Info[f].night \in req.nights})

Ascending(S) == SetToSortSeq(S, LAMBDA a, b : a < b)

(* _handle; rereference bumps the version first *)
Begin ==
    /\ planner.at = "idle" /\ requests # <<>> /\ (running = 0 \/ Parallel)
    /\ LET req == Head(requests)
           new == req.kind = "rereference"
       IN  /\ planner' = [at |-> "read", todo |-> Ascending(NightsFor(req)), plan |-> None]
           /\ project' = IF new THEN [project EXCEPT ![req.target] = [version |-> @.version + 1, ref |-> None]] ELSE project
    /\ UNCHANGED <<inputs, masters, stacks, jobs, issues, override, fresh, requests, running, missed, spent>>

(* _plan_night up to its commit; a rig that does not match the Hub is not planned *)
PlanRead ==
    /\ planner.at = "read" /\ planner.todo # <<>>
    /\ IF Paused THEN /\ planner' = [planner EXCEPT !.todo = Tail(@)]
                      /\ missed' = missed \cup {Head(planner.todo)}
       ELSE /\ planner' = [planner EXCEPT !.at = "write", !.plan = PlanNight(Head(planner.todo))]
            /\ missed' = missed \ {Head(planner.todo)}
    /\ UNCHANGED <<inputs, made, jobs, issues, override, fresh, requests, running, spent>>

(* _commit; reworded: issues whose text says something else than when they were raised *)
Commit(reworded) ==
    LET plan == planner.plan
        before == [k \in DOMAIN issues |-> IF k \in reworded /\ issues[k].status = "open" THEN [issues[k] EXCEPT !.status = "reworded"] ELSE issues[k]]
        raised == FoldLeft(Raised, before, plan.issues)
    IN  /\ planner.at = "write" /\ reworded \subseteq {plan.issues[i].key : i \in DOMAIN plan.issues}
        /\ jobs' = InsertAll(jobs, plan.jobs)
        /\ issues' = Resolved(raised, Stale(raised, plan), "resolved")
        /\ frames' = [f \in Frame |-> StatusAfter(plan, f)]
        /\ reason' = [f \in Frame |-> ReasonAfter(plan, f)]
        /\ planner' = [at |-> "read", todo |-> Tail(planner.todo), plan |-> None]
        /\ UNCHANGED <<link, events, made, override, fresh, requests, running, missed, spent>>

(* process_requests: an exception ends the request and drops the nights it had left *)
PlanFails ==
    /\ planner.at \in {"read", "write"} /\ planner.todo # <<>> /\ Spend
    /\ planner' = [at |-> "read", todo |-> <<>>, plan |-> None]
    /\ missed' = missed \cup ToSet(planner.todo)
    /\ UNCHANGED <<inputs, made, jobs, issues, override, fresh, requests, running>>


(* UPDATE plan_requests SET done_at *)
OneDone == Tail(requests)

MarkDone ==
    /\ planner.at = "read" /\ planner.todo = <<>>
    /\ planner' = Idle /\ requests' = OneDone
    /\ UNCHANGED <<inputs, made, jobs, issues, override, fresh, running, missed, spent>>

(***************************************************************************)
(* The executor                                                            *)
(***************************************************************************)
Dead(js, i)  == \E d \in js[i].depends : js[d].status \in DEAD
Ready(js, i) == js[i].status \in Waiting /\ \A d \in js[i].depends : js[d].status = "succeeded"

(* _unblock, then candidates: in the order of their ids *)
Unblock(js, i) == IF js[i].status = "blocked" /\ ~Dead(js, i) THEN [js EXCEPT ![i].status = "queued"] ELSE js
Block(js, i)   == IF js[i].status \in Waiting /\ Dead(js, i) THEN [js EXCEPT ![i].status = "blocked"] ELSE js
Settled(js) ==
    LET unblocked[i \in 0..Len(js)] == IF i = 0 THEN js ELSE Unblock(unblocked[i-1], i)
        blocked[i \in 0..Len(js)]   == IF i = 0 THEN unblocked[Len(js)] ELSE Block(blocked[i-1], i)
    IN  blocked[Len(js)]

Priority(i) == CASE jobs[i].plan.kind = "CALIB_MASTER" -> 0 [] jobs[i].plan.kind = "PROJECT_REFERENCE" -> 1 [] OTHER -> 2
Sooner(i, j) == Priority(i) < Priority(j) \/ (Priority(i) = Priority(j) /\ i < j)

(* _ref_sha: only the job with that very plan_hash is looked at *)
Refs(plan) == CASE plan.kind = "CALIB_MASTER" -> plan.with
                [] plan.kind = "PROJECT_REFERENCE" -> GroupRefs(plan.groups)
                [] OTHER -> GroupRefs(plan.groups) \cup {plan.reference}
Built(ref)      == {i \in DOMAIN jobs : jobs[i].plan = ref.job /\ jobs[i].status = "succeeded"}
Resolvable(i)   == \A p \in JobRefs(Refs(jobs[i].plan)) : Built([job |-> p]) # {}

(* resolve_plan *)
Fixed(ref) == IF ref = None \/ "sha" \in DOMAIN ref THEN ref ELSE [sha |-> CHOOSE i \in Built(ref) : TRUE]
ResolvePlan(plan) ==
    LET group(g) == [g EXCEPT !.dark = Fixed(g.dark), !.flat = Fixed(g.flat)]
    IN  CASE plan.kind = "CALIB_MASTER" -> [plan EXCEPT !.with = {Fixed(r) : r \in plan.with}]
          [] plan.kind = "PROJECT_REFERENCE" -> [plan EXCEPT !.groups = {group(g) : g \in plan.groups}]
          [] OTHER -> [plan EXCEPT !.groups = {group(g) : g \in plan.groups}, !.reference = Fixed(plan.reference)]

(* run_once: the first candidate that is not left waiting *)
Start ==
    LET js    == Settled(jobs)
        ready == {i \in DOMAIN js : Ready(js, i)}
        able  == {i \in ready : Resolvable(i)}
        next  == CHOOSE i \in able : \A j \in able \ {i} : Sooner(i, j)
        stuck == {i \in ready \ able : able = {} \/ Sooner(i, next)}
        waits == [i \in DOMAIN js |-> IF i \in stuck THEN [js[i] EXCEPT !.status = "waiting_data"] ELSE js[i]]
        full  == ResolvePlan(jobs[next].plan)
    IN  /\ running = 0 /\ (planner.at = "idle" \/ Parallel)
        /\ IF able = {} THEN waits # jobs /\ jobs' = waits /\ running' = 0
           ELSE /\ running' = next
                /\ jobs' = [waits EXCEPT ![next].status = "running", ![next].resolved = IF full = jobs[next].plan THEN @ ELSE full]
        /\ UNCHANGED <<inputs, made, issues, override, fresh, requests, planner, missed, spent>>

Done(status) == jobs' = [jobs EXCEPT ![running].status = status] /\ running' = 0

(* _calib_master: the newest of a night and key supersedes the older ones *)
SameKey(m, o) == \A k \in {"kind", "rig", "night", "filter", "exposure", "sensor", "size", "pos"} : m[k] = o[k]

PublishMaster ==
    LET plan == jobs[running].plan
        m    == With(plan.master, [sha |-> running])
    IN  /\ running # 0 /\ plan.kind = "CALIB_MASTER" /\ Done("succeeded")
        /\ masters' = Append([i \in DOMAIN masters |-> IF SameKey(masters[i], m) /\ ~masters[i].imported
                                                       THEN [masters[i] EXCEPT !.superseded = TRUE] ELSE masters[i]],
                             With(m, [inputs |-> plan.inputs, imported |-> FALSE, superseded |-> FALSE]))
        /\ frames' = [f \in Frame |-> IF f \in plan.inputs /\ frames[f] = "valid" THEN "processed" ELSE frames[f]]
        /\ requests' = requests \o AutoResolve(m)
        /\ UNCHANGED <<link, reason, events, stacks, project, issues, override, fresh, planner, missed, spent>>

(* _reference: the first of a version becomes the project's *)
PublishReference ==
    LET plan == jobs[running].plan
    IN  /\ running # 0 /\ plan.kind = "PROJECT_REFERENCE" /\ Done("succeeded")
        /\ project' = IF project[plan.target] = [version |-> plan.version, ref |-> None]
                      THEN [project EXCEPT ![plan.target].ref = running] ELSE project
        /\ UNCHANGED <<inputs, masters, stacks, issues, override, fresh, requests, planner, missed, spent>>

(* _night_stack and _frame_results; the merge it asks for is in Merges *)
PublishStack(rejected) ==
    LET plan   == jobs[running].plan
        lights == UNION {g.lights : g \in plan.groups}
        final  == plan.stack = "final"
        row    == [target |-> plan.target, night |-> plan.night, filter |-> plan.filter, final |-> final, version |-> plan.version, job |-> running]
        Replaced(r) == r.target = plan.target /\ r.night = plan.night /\ r.filter = plan.filter /\ (final \/ ~r.final)
    IN  /\ running # 0 /\ plan.kind = "NIGHT_STACK" /\ Done("succeeded")
        /\ rejected \subseteq lights /\ rejected # lights
        /\ IF rejected = {} THEN UNCHANGED spent ELSE Spend
        /\ stacks' = {r \in stacks : ~Replaced(r)} \cup {row}
        /\ frames' = [f \in Frame |-> IF ~final \/ f \notin lights THEN frames[f] ELSE IF f \in rejected THEN "rejected" ELSE "processed"]
        /\ reason' = [f \in Frame |-> IF ~final \/ f \notin lights THEN reason[f] ELSE IF f \in rejected THEN {"rejected"} ELSE {}]
        /\ UNCHANGED <<link, events, masters, project, issues, override, fresh, requests, planner, missed>>

(* _fail for good *)
Fail ==
    /\ running # 0 /\ Spend /\ Done("failed")
    /\ UNCHANGED <<inputs, made, issues, override, fresh, requests, planner, missed>>

Recovered == IF running = 0 THEN jobs ELSE [jobs EXCEPT ![running].status = "queued"]

(* altaird restarts: recover queues the job again, requests are still there *)
Restart ==
    /\ planner # Idle \/ running # 0
    /\ Spend
    /\ planner' = Idle /\ running' = 0
    /\ jobs' = Recovered
    /\ UNCHANGED <<inputs, made, issues, override, fresh, requests, missed>>

Arrive == \/ \E f \in Frame : Collect(f) \/ \E t \in Target : Adopt(f, t)
          \/ CheckConfig
          \/ \E e \in Event : LogEvent(e)
          \/ \E m \in Import : ImportMaster(m)

User   == \/ \E n \in Night, t \in Target : \E o \in {Info[f].object : f \in Lights} : Assign(n, o, t)
          \/ \E k \in DOMAIN issues : Waive(k) \/ \E m \in Import, force \in BOOLEAN : ResolveWithFlat(k, m, force)
          \/ \E n \in Night : AskRerun(n)
          \/ \E t \in Target : AskRereference(t)

Plan    == Begin \/ PlanRead \/ (\E reworded \in SUBSET DOMAIN issues : Commit(reworded)) \/ PlanFails \/ MarkDone
Finish  == PublishMaster \/ PublishReference \/ \E rejected \in SUBSET Lights : PublishStack(rejected)
Execute == Start \/ Finish \/ Fail

Next == Arrive \/ (\E n \in Night : NightReady(n)) \/ User \/ Plan \/ Execute \/ Restart

Spec == Init /\ [][Next]_vars

(***************************************************************************)
(* Properties                                                              *)
(***************************************************************************)
TypeOK ==
    /\ frames \in [Frame -> Present \cup {"absent", "rejected"}] /\ link \in [Frame -> Target \cup {None}]
    /\ \A i \in DOMAIN jobs : /\ jobs[i].status \in DEAD \cup Waiting \cup {"running", "succeeded"}
                              /\ jobs[i].depends \subseteq 1..(i - 1)
    /\ \A i \in DOMAIN jobs : jobs[i].status = "running" <=> i = running
    /\ \A k \in DOMAIN issues : issues[k].status \in {"open", "resolved", "waived"}
    /\ reason \in [Frame -> SUBSET (CALIB_ISSUE_KINDS \cup {"rejected"})] /\ missed \subseteq Night
    /\ fresh \subseteq Night /\ planner.at \in {"idle", "read", "write"} /\ spent \in 0..MaxSpent

(* A light is held only while an issue that names it says why, open or    *)
(* waived by a user: _commit holds lights and resolves issues in one go    *)
(* from what it read before, while events, masters and users move on.      *)
HeldExplained ==
    \A f \in Lights : frames[f] = "held" =>
        \E k \in DOMAIN issues : /\ issues[k].status \in {"open", "waived"}
                                 /\ f \in issues[k].lights \/ (link[f] = None /\ k = Unresolved(f))

(* Nothing is asked of the planner and it does nothing. *)
AtRest == requests = <<>> /\ planner = Idle /\ fresh = {}

(* Nor is there anything to run. *)
Quiet == AtRest /\ running = 0 /\ Settled(jobs) = jobs
         /\ \A i \in DOMAIN jobs : Ready(jobs, i) => jobs[i].status = "waiting_data" /\ ~Resolvable(i)

(* Lights of a night and filter that are too few for a stack (min_lights_per_stack): neither a job nor an issue says so. *)
Few(f) == Cardinality({g \in Eligible(Info[f].night) : link[g] = link[f] /\ Info[g].filter = Info[f].filter}) < MinLights


(* What a job ran: its plan with every reference resolved. *)
Ran(i)      == IF jobs[i].resolved = None THEN jobs[i].plan ELSE jobs[i].resolved
MasterAt(r) == masters[CHOOSE i \in DOMAIN masters : masters[i].sha = r.sha].at

(* A final stack whose flat is on the other side of an equipment event, an *)
(* issue that keeps it out of the merge, a stack that is to replace it     *)
Unsound(r)  == r.final /\ \E g \in Ran(r.job).groups :
                   ~g.forced /\ \E f \in g.lights : Split(events, Info[f].rig, r.filter, MasterAt(g.flat), Middle(g.lights))
Barred(r)   == \E k \in DOMAIN issues : /\ issues[k].status \in {"open", "waived"} /\ issues[k].kind \in CALIB_ISSUE_KINDS
                                        /\ issues[k].target = r.target /\ issues[k].filter = r.filter /\ issues[k].need.night = r.night
Redoing(r)  == \E i \in DOMAIN jobs : jobs[i].status \notin {"succeeded", "superseded"} /\ SameStack(jobs[r.job].plan, jobs[i].plan)

(* An event logged at any moment of planning or running catches up with    *)
(* every stack it spoils: the planner at rest, such a stack is kept out of *)
(* the merge by an issue or is being replaced, unless the replan that the  *)
(* event asked for was dropped.                                            *)
EventsCatchUp == AtRest => \A r \in stacks : Unsound(r) => Barred(r) \/ Redoing(r) \/ r.night \in missed

(* projects/merge.py:49 says that a calibration issue opened after a night *)
(* was stacked keeps it out until it is reprocessed: no step lifts the bar  *)
(* while the stack that it was raised for is still there.                   *)
OutUntilReprocessed == [][\A r \in stacks : Unsound(r) /\ Barred(r) /\ r \in stacks' => Barred(r)']_vars

(* One stack of the same lights, masters and reference is not run twice,   *)
(* whichever jobs built its masters (insert_job by resolved_hash), as long *)
(* as jobs run between the plans and not beside the planner (Parallel).    *)
NoStackTwice == \A i, j \in {k \in DOMAIN jobs : jobs[k].status = "succeeded" /\ jobs[k].plan.kind = "NIGHT_STACK"} :
                    Ran(i) = Ran(j) => i = j

(* _ref: "its SHA-256, or the job building it".  A job whose dependencies   *)
(* have all succeeded finds every product it names.                        *)
RefsAreKnown == \A i \in DOMAIN jobs : Ready(jobs, i) => Resolvable(i)

=============================================================================
