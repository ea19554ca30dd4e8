-------------------------------- MODULE Alerts --------------------------------
(***************************************************************************)
(* What altaird tells its owner.  Its workers watch the NAS, a rig, S3, the  *)
(* backups and the Hub, and raise or resolve an issue for each trouble they  *)
(* see; the notifier announces issues, reminds of them and tells how they    *)
(* ended, on channels that may fail.  The workers are threads of one process *)
(* with one catalog: the notifier acts on rows that it read a while ago.     *)
(***************************************************************************)
EXTENDS Naturals, FiniteSets

CONSTANTS
    Channel,        \* notifications.channels
    NasWatch,       \* who probes the NAS: nas_health, a rig's poll, cleanup, the scrub
    Watched,        \* the kinds of issues that come up in an instance
    MaxChanges, MaxFailures, MaxCrashes, MaxWaives, MaxChecks, MaxRuns   \* bounds

(* The issues, by kind, in the order in which a probe of the NAS looks. *)
NasKind == {"NAS_UNREACHABLE", "NAS_UNHEALTHY", "NAS_SPACE_LOW"}
Kind    == NasKind \cup {"DATA_AT_RISK", "LOCATION_UNREACHABLE", "RIG_UNREACHABLE", "HUB_UNREACHABLE", "HUB_CONFIG_MISMATCH"}
Watcher == NasWatch \cup {"check_backup"}
Timed   == {"RIG_UNREACHABLE", "HUB_UNREACHABLE"}

ASSUME AlertsAssumption == Watched \subseteq Kind /\ "check_backup" \notin NasWatch

VARIABLES
    trouble,    \* what is really wrong
    since,      \* rig_unreachable_since, hub_unreachable_since: how long ago
    seen,       \* what a check saw and has not yet written down
    issues,     \* issues, with the age of last_notified_at
    runs,       \* the jobs of one closed night: how often they ended
    busy,       \* and whether some are not done
    sent,       \* notifications_sent
    notifier,   \* the notifier's memory
    said,       \* what each channel really said (history)
    heard,      \* the openings each channel told of (history)
    spent

vars == <<trouble, since, seen, issues, runs, busy, sent, notifier, said, heard, spent>>

Since    == {"none", "new", "alert", "blocking"}
Nothing  == {"nothing"}                         \* no check is under way
Message  == [about : {"open", "remind"}, kind : Kind, mark : {"warning", "blocking"}]
            \cup [about : {"resolved"}, kind : Kind, mark : Nat]
            \cup [about : {"night"}, mark : Nat]
Phases   == {"idle", "opened", "resolved", "reminders", "nights"}
Resting  == [phase |-> "idle", todo |-> {}, now |-> {}, tried |-> {}, pushed |-> {}]

TypeOK ==
    /\ trouble \subseteq Watched /\ since \in [Timed -> Since]
    /\ seen \in [Watcher -> {Nothing} \cup SUBSET Kind]
    /\ issues \in [Watched -> [status : {"none", "open", "waived", "resolved", "aged"}, severity : {"warning", "blocking"},
                            last : {"never", "today", "due"}, resolved : Nat]]
    /\ runs \in 0..MaxRuns /\ busy \in BOOLEAN
    /\ sent \subseteq Message \X Channel /\ said \subseteq Message \X Channel /\ heard \subseteq Kind \X Channel
    /\ notifier \in [phase : Phases, todo : SUBSET Message, now : SUBSET Message, tried : SUBSET Channel, pushed : SUBSET Channel]
    /\ Cardinality(notifier.now) <= 1
    /\ spent \in [changes : 0..MaxChanges, failures : 0..MaxFailures, crashes : 0..MaxCrashes, waives : 0..MaxWaives,
                  checks : 0..MaxChecks]

Init ==
    /\ trouble = {} /\ since = [k \in Timed |-> "none"]
    /\ seen = [w \in Watcher |-> Nothing]
    /\ issues = [k \in Watched |-> [status |-> "none", severity |-> "warning", last |-> "never", resolved |-> 0]]
    /\ runs = 0 /\ busy = FALSE /\ sent = {} /\ said = {} /\ heard = {}
    /\ notifier = Resting
    /\ spent = [changes |-> 0, failures |-> 0, crashes |-> 0, waives |-> 0, checks |-> 0]

Spend(what, limit) == spent[what] < limit /\ spent' = [spent EXCEPT ![what] = @ + 1]

-----------------------------------------------------------------------------
(* issues.py *)

RaiseIssue(issue, severity) ==
    IF issue.status = "open" /\ issue.severity = severity THEN issue
    ELSE [issue EXCEPT !.status = "open", !.severity = severity]

ResolveIssue(issue) ==
    IF issue.status = "open" THEN [issue EXCEPT !.status = "resolved", !.resolved = @ + 1] ELSE issue

(* One transaction: raises the issues of the kinds in raised and resolves those  *)
(* in cleared.  An opening is news for every channel.                          *)
Settled(raised, cleared, severity) ==
    /\ issues' = [k \in Watched |-> IF k \in raised THEN RaiseIssue(issues[k], severity)
                                 ELSE IF k \in cleared THEN ResolveIssue(issues[k]) ELSE issues[k]]
    /\ heard' = {h \in heard : h[1] \notin {k \in raised : issues[k].status # "open"}}

-----------------------------------------------------------------------------
(* The troubles, and time. *)

Change(k) ==
    /\ Spend("changes", MaxChanges)
    /\ trouble' = IF k \in trouble THEN trouble \ {k} ELSE trouble \cup {k}
    /\ UNCHANGED <<since, seen, issues, runs, busy, sent, notifier, said, heard>>

(* The alert minutes pass, then what makes it blocking for a rig. *)
Endures(k) ==
    /\ since[k] = "new" \/ (since[k] = "alert" /\ k = "RIG_UNREACHABLE")
    /\ since' = [since EXCEPT ![k] = IF @ = "new" THEN "alert" ELSE "blocking"]
    /\ UNCHANGED <<trouble, seen, issues, runs, busy, sent, notifier, said, heard, spent>>

Reminds(k) == {m \in Message : m.about = "remind" /\ m.kind = k}

(* remind_every_days pass, which is not while a reminder is being sent.  The   *)
(* next one is of another date.                                              *)
ReminderDue(k) ==
    /\ issues[k].last = "today" /\ (notifier.todo \cup notifier.now) \cap Reminds(k) = {}
    /\ issues' = [issues EXCEPT ![k].last = "due"]
    /\ sent' = {s \in sent : s[1] \notin Reminds(k)} /\ said' = {s \in said : s[1] \notin Reminds(k)}
    /\ UNCHANGED <<trouble, since, seen, runs, busy, notifier, heard, spent>>

(* Resolved over a week ago. *)
WeekPasses(k) ==
    /\ issues[k].status = "resolved"
    /\ issues' = [issues EXCEPT ![k].status = "aged"]
    /\ UNCHANGED <<trouble, since, seen, runs, busy, sent, notifier, said, heard, spent>>

(* A user waives an issue. *)
Waive(k) ==
    /\ issues[k].status = "open" /\ Spend("waives", MaxWaives)
    /\ issues' = [issues EXCEPT ![k].status = "waived"]
    /\ UNCHANGED <<trouble, since, seen, runs, busy, sent, notifier, said, heard>>

(* The night's jobs run, for the first time or again, and end. *)
Rerun   == ~busy /\ runs < MaxRuns /\ busy' = TRUE /\ UNCHANGED <<trouble, since, seen, issues, runs, sent, notifier, said, heard, spent>>
JobsEnd == busy /\ busy' = FALSE /\ runs' = runs + 1 /\ UNCHANGED <<trouble, since, seen, issues, sent, notifier, said, heard, spent>>

-----------------------------------------------------------------------------
(* The watchers. *)

(* _probe: the first thing found wrong, and nothing else. *)
Probe ==
    IF "NAS_UNREACHABLE" \in trouble THEN {"NAS_UNREACHABLE"}
    ELSE IF "NAS_UNHEALTHY" \in trouble THEN {"NAS_UNHEALTHY"} ELSE trouble \cap {"NAS_SPACE_LOW"}

Scope(w) == IF w \in NasWatch THEN NasKind ELSE {"DATA_AT_RISK"}

(* A check looks first, and writes down what it saw in one transaction later.   *)
(* The checks of others than nas_health are bounded.                          *)
Look(w) ==
    /\ seen[w] = Nothing /\ Scope(w) \cap Watched # {}
    /\ seen' = [seen EXCEPT ![w] = IF w \in NasWatch THEN Probe ELSE trouble \cap Scope(w)]
    /\ IF w \in NasWatch \ {"nas_health"} THEN Spend("checks", MaxChecks) ELSE UNCHANGED spent
    /\ UNCHANGED <<trouble, since, issues, runs, busy, sent, notifier, said, heard>>

Check(w) ==
    /\ seen[w] # Nothing
    /\ Settled(seen[w], Scope(w), "blocking")
    /\ seen' = [seen EXCEPT ![w] = Nothing]
    /\ UNCHANGED <<trouble, since, runs, busy, sent, notifier, said, spent>>

Reachable ==
    /\ since' = [since EXCEPT !["RIG_UNREACHABLE"] = "none"]
    /\ Settled({}, {"RIG_UNREACHABLE"}, "warning")

(* Mutant: every poll that fails starts the clock again. *)
UnreachableAnew == since' = [since EXCEPT !["RIG_UNREACHABLE"] = "new"] /\ UNCHANGED <<issues, heard>>

Unreachable ==
    /\ since' = [since EXCEPT !["RIG_UNREACHABLE"] = IF @ = "none" THEN "new" ELSE @]
    /\ IF since'["RIG_UNREACHABLE"] \in {"alert", "blocking"}
       THEN Settled({"RIG_UNREACHABLE"}, {}, IF since["RIG_UNREACHABLE"] = "blocking" THEN "blocking" ELSE "warning")
       ELSE UNCHANGED <<issues, heard>>

RigPoll ==
    /\ IF "RIG_UNREACHABLE" \in trouble THEN Unreachable ELSE Reachable
    /\ UNCHANGED <<trouble, seen, runs, busy, sent, notifier, said, spent>>

(* A pass of the replicator, which has something to upload or not: then it       *)
(* learns nothing of S3 but by the probe that an open issue makes it do.         *)
ReplicatorPass(work) ==
    /\ IF "LOCATION_UNREACHABLE" \in trouble
       THEN work /\ Settled({"LOCATION_UNREACHABLE"}, {}, "warning")
       ELSE Settled({}, {"LOCATION_UNREACHABLE"}, "warning")
    /\ UNCHANGED <<trouble, since, seen, runs, busy, sent, notifier, said, spent>>

(* tick of the hub_sync worker, whose config poll checks the rigs' settings. *)
HubTick ==
    /\ IF "HUB_UNREACHABLE" \in trouble
       THEN /\ since' = [since EXCEPT !["HUB_UNREACHABLE"] = IF @ = "none" THEN "new" ELSE @]
            /\ IF since["HUB_UNREACHABLE"] = "alert" THEN Settled({"HUB_UNREACHABLE"}, {}, "warning") ELSE UNCHANGED <<issues, heard>>
       ELSE /\ since' = [since EXCEPT !["HUB_UNREACHABLE"] = "none"]
            /\ Settled(trouble \cap {"HUB_CONFIG_MISMATCH"}, {"HUB_UNREACHABLE", "HUB_CONFIG_MISMATCH"}, "blocking")
    /\ UNCHANGED <<trouble, seen, runs, busy, sent, notifier, said, spent>>

-----------------------------------------------------------------------------
(* The notifier: each phase reads its rows, then sends message by message and   *)
(* channel by channel.  A message that was sent is recorded in a transaction    *)
(* of its own.                                                               *)

AllSent(m)      == \A c \in Channel : <<m, c>> \in sent
WasAnnounced(k) == \E s \in sent : s[1].about = "open" /\ s[1].kind = k

InStatus(status) == {k \in Watched : issues[k].status = status}
Opened    == {[about |-> "open", kind |-> k, mark |-> issues[k].severity] : k \in InStatus("open")}

(* Mutant: the message has no date, and so is sent once per issue. *)
ResolvedOnce == {[about |-> "resolved", kind |-> k, mark |-> 0] : k \in InStatus("resolved")}

Resolved  == {[about |-> "resolved", kind |-> k, mark |-> issues[k].resolved] : k \in InStatus("resolved")}
Reminders == {[about |-> "remind", kind |-> k, mark |-> "blocking"] :
                 k \in {i \in InStatus("open") : issues[i].severity = "blocking" /\ issues[i].last = "due"}}
Summary   == IF busy \/ runs = 0 THEN {} ELSE {[about |-> "night", mark |-> runs]}

Begin(phase, todo) == notifier' = [Resting EXCEPT !.phase = phase, !.todo = todo]

NextPhase ==
    /\ notifier.todo = {} /\ notifier.now = {}
    /\ CASE notifier.phase = "idle"      -> Begin("opened", Opened)
         [] notifier.phase = "opened"    -> Begin("resolved", Resolved)
         [] notifier.phase = "resolved"  -> Begin("reminders", Reminders)
         [] notifier.phase = "reminders" -> Begin("nights", Summary)
         [] notifier.phase = "nights"    -> notifier' = Resting
    /\ UNCHANGED <<trouble, since, seen, issues, runs, busy, sent, said, heard, spent>>

Wanted(m) == CASE m.about = "remind"   -> TRUE
               [] m.about = "resolved" -> ~AllSent(m) /\ WasAnnounced(m.kind)
               [] OTHER                -> ~AllSent(m)

Take(m) ==
    /\ m \in notifier.todo /\ notifier.now = {}
    /\ notifier' = [notifier EXCEPT !.todo = @ \ {m}, !.now = IF Wanted(m) THEN {m} ELSE {},
                                    !.tried = {c \in Channel : <<m, c>> \in sent}]
    /\ UNCHANGED <<trouble, since, seen, issues, runs, busy, sent, said, heard, spent>>

(* send: the channel says it, or fails. *)
Push(c) ==
    /\ notifier.now # {} /\ c \notin notifier.tried /\ notifier.pushed = {}
    /\ \/ /\ notifier' = [notifier EXCEPT !.pushed = {c}]
          /\ said' = said \cup (notifier.now \X {c})
          /\ heard' = heard \cup {<<m.kind, c>> : m \in {n \in notifier.now : n.about \in {"open", "remind"}}}
          /\ UNCHANGED spent
       \/ /\ Spend("failures", MaxFailures)
          /\ notifier' = [notifier EXCEPT !.tried = @ \cup {c}]
          /\ UNCHANGED <<said, heard>>
    /\ UNCHANGED <<trouble, since, seen, issues, runs, busy, sent>>

RecordSent ==
    /\ notifier.pushed # {}
    /\ sent' = sent \cup (notifier.now \X notifier.pushed)
    /\ notifier' = [notifier EXCEPT !.tried = @ \cup notifier.pushed, !.pushed = {}]
    /\ UNCHANGED <<trouble, since, seen, issues, runs, busy, said, heard, spent>>

(* Mutant: the time of the announcement is not kept. *)
NotifiedUntimed == UNCHANGED issues

(* An opening and a reminder set last_notified_at, whatever became of them. *)
Notified ==
    issues' = [k \in Watched |-> IF \E m \in notifier.now : m.about \in {"open", "remind"} /\ m.kind = k
                              THEN [issues[k] EXCEPT !.last = "today"] ELSE issues[k]]

SentAll ==
    /\ notifier.now # {} /\ notifier.tried = Channel
    /\ Notified
    /\ notifier' = [notifier EXCEPT !.now = {}, !.tried = {}]
    /\ UNCHANGED <<trouble, since, seen, runs, busy, sent, said, heard, spent>>

(* altaird dies and starts again. *)
Crash ==
    /\ Spend("crashes", MaxCrashes)
    /\ notifier' = Resting /\ seen' = [w \in Watcher |-> Nothing]
    /\ UNCHANGED <<trouble, since, issues, runs, busy, sent, said, heard>>

-----------------------------------------------------------------------------
Time   == \/ \E k \in Timed : Endures(k)
          \/ \E k \in Watched : ReminderDue(k) \/ WeekPasses(k)
Notify == NextPhase \/ RecordSent \/ SentAll \/ (\E m \in notifier.todo : Take(m)) \/ \E c \in Channel : Push(c)

Next ==
    \/ \E k \in Watched : Change(k) \/ Waive(k)
    \/ Time \/ Rerun \/ JobsEnd
    \/ \E w \in Watcher : Look(w) \/ Check(w)
    \/ RigPoll \/ \E work \in BOOLEAN : ReplicatorPass(work)
    \/ HubTick \/ Notify \/ Crash

(* altaird's workers tick for ever (nas_health for the NAS), and time passes. *)
Spec ==
    /\ Init /\ [][Next]_vars
    /\ WF_vars(Notify) /\ WF_vars(RigPoll) /\ WF_vars(HubTick) /\ WF_vars(ReplicatorPass(FALSE))
    /\ \A w \in {"nas_health", "check_backup"} : WF_vars(Look(w) \/ Check(w))
    /\ WF_vars(\E k \in Timed : Endures(k))
    /\ \A k \in Watched : WF_vars(ReminderDue(k))

-----------------------------------------------------------------------------
Blocking(k) == issues[k].status = "open" /\ issues[k].severity = "blocking"
Told(k)     == \A c \in Channel : <<k, c>> \in heard
Said(m)     == \A c \in Channel : <<m, c>> \in said

(* A blocking issue that stays open is told on every channel after it opened,   *)
(* by an announcement or a reminder, although a second opening has the key of   *)
(* the first and channels fail: unless altaird crashed.                        *)
BlockingHeard == []<>(spent.crashes = 0 => \A k \in Watched : Blocking(k) => Told(k))

(* SPEC 10.3: "a separate message for each newly opened blocking issue".        *)
BlockingHeardAnyway == []<>(\A k \in Watched : Blocking(k) => Told(k))

(* notifier.py: "a message for each newly opened blocking or warning issue".   *)
OpeningsHeard == []<>(\A k \in Watched : issues[k].status = "open" => Told(k))

(* How an announced issue ended, and how a night's jobs did, is told on every  *)
(* channel, each time: unless a week is over first, it is no longer so, or      *)
(* altaird crashed.                                                          *)
EndsTold ==
    []<>(/\ \A k \in Watched :
               issues[k].status = "resolved" /\ (\E s \in said : s[1].about = "open" /\ s[1].kind = k) /\ spent.crashes = 0
                 => Said([about |-> "resolved", kind |-> k, mark |-> issues[k].resolved])
         /\ ~busy /\ runs > 0 => Said([about |-> "night", mark |-> runs]))

(* Each trouble that lasts has its issue, and an issue ends with its trouble,  *)
(* though two checks of the NAS may write what they saw in the wrong order, a   *)
(* user waives, and altaird crashes.                                          *)
Visible(k) == /\ k \in trouble
              /\ k \in NasKind => k \in Probe
              /\ k = "HUB_CONFIG_MISMATCH" => "HUB_UNREACHABLE" \notin trouble
IssuesFollow ==
    []<>(\A k \in Watched : /\ Visible(k) /\ k # "LOCATION_UNREACHABLE" => issues[k].status \in {"open", "waived"}
                            /\ k \notin trouble /\ "HUB_UNREACHABLE" \notin trouble => issues[k].status # "open")
=============================================================================
