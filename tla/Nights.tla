-------------------------------- MODULE Nights --------------------------------
(***************************************************************************)
(* The life of a rig-night: frames of the night are collected, a trigger    *)
(* asks for its close, the collector closes it once nothing is pending,     *)
(* with a manifest that lists its frames, and the planner plans it.  A      *)
(* frame that arrives after the close writes a new manifest and closes the  *)
(* night again.  When the catalog and its backups are lost, it is rebuilt    *)
(* from the NAS.  One rig; how a file is copied is RawArchive's subject.     *)
(*                                                                         *)
(* A poller is a process that polls the rig: altaird's worker, and          *)
(* `altair collect now` or `close-night` in a process of its own.  Its      *)
(* thread <<p, f>> collects file f, its thread <<p, Main>> is the poll.     *)
(***************************************************************************)
EXTENDS Naturals, Sequences, FiniteSets

CONSTANTS
    Files,          \* the frames N.I.N.A. takes, one file each
    Nights,
    NightOf,        \* the night of a file's frame
    Pollers,
    Daemon,         \* altaird's poller
    Main,
    DuringCapture,  \* collect.during_capture
    Parallel,       \* collect.parallel_files
    Signal,         \* whether the end of a session is signalled
    MaxCrashes, MaxOutages, MaxFails, MaxExcludes, MaxRemovals, MaxRebuilds, MaxUnplanned   \* bounds

ASSUME NightsAssumption ==
    /\ NightOf \in [Files -> Nights] /\ Daemon \in Pollers /\ Main \notin Files \cup Nights
    /\ DuringCapture \in BOOLEAN /\ Signal \in BOOLEAN /\ Parallel \in Nat \ {0}

VARIABLES
    rig,        \* the files on the rig
    row,        \* rig_files: state of each file
    named,      \* the files whose row has the frame's hash
    frames,     \* frames
    rebuilt,    \* those of origin "rebuild"
    night,      \* collections: state of each night
    listed,     \* collections: the manifest of each night
    stored,     \* the files on the NAS
    nas,        \* the manifests of each night on the NAS, by version
    known,      \* how many of them the catalog has
    crossed,    \* not in the code: nights of which two threads closed at once
    requests,   \* plan_requests still to do, by night
    planned,    \* the frames of the last plan of each night
    planner,    \* the planner's memory
    missed,     \* not in the code: nights whose last plan was given up
    poll, batch, th,  \* each poller's phase, its files to collect, its threads
    budget

catVars  == <<row, named, frames, rebuilt>>
nightVars == <<night, listed>>
fileVars == <<stored, nas, known, crossed>>
planVars == <<requests, planned, planner, missed>>
pollVars == <<poll, batch, th>>
vars == <<rig, catVars, nightVars, fileVars, planVars, pollVars, budget>>

Threads  == Pollers \X (Files \cup {Main})
RowStates == {"none", "seen", "stuck", "collected", "gone", "excluded"}
Waiting  == {"seen", "stuck"}
NightStates == {"none", "open", "closing", "closed"}
Phases   == {"idle", "scanned", "collecting", "closing"}

(* The contents of a manifest: its frames, and those with a rig path. *)
Manifests  == [files : SUBSET Files, paths : SUBSET Files]
NoManifest == [files |-> {}, paths |-> {}]
Unlisted   == [files |-> {}, paths |-> Files]     \* manifest_sha256 is null
Steps      == {"idle", "copied", "ingested", "committed", "build", "version", "write", "register", "close"}
Idle       == [pc |-> "idle", created |-> FALSE, night |-> Main, manifest |-> NoManifest, version |-> 0]
NoPlan     == [pc |-> "idle", night |-> Main, seen |-> {}]

TypeOK ==
    /\ rig \subseteq Files /\ stored \subseteq Files
    /\ named \subseteq Files /\ frames \subseteq Files /\ rebuilt \subseteq frames
    /\ row \in [Files -> RowStates]
    /\ night \in [Nights -> NightStates] /\ listed \in [Nights -> Manifests \cup {Unlisted}]
    /\ nas \in [Nights -> Seq(Manifests)] /\ known \in [Nights -> Nat]
    /\ requests \in [Nights -> Nat] /\ planned \in [Nights -> SUBSET Files]
    /\ planner \in [pc : {"idle", "plan", "done"}, night : Nights \cup {Main}, seen : SUBSET Files]
    /\ crossed \subseteq Nights /\ missed \subseteq Nights
    /\ poll \in [Pollers -> Phases] /\ batch \in [Pollers -> SUBSET Files]
    /\ th \in [Threads -> [pc : Steps, created : BOOLEAN, night : Nights \cup {Main},
                           manifest : Manifests, version : Nat]]
    /\ budget \in [crashes : Nat, outages : Nat, fails : Nat, excludes : Nat, removals : Nat, rebuilds : Nat, unplanned : Nat]

Init ==
    /\ rig = {} /\ row = [f \in Files |-> "none"] /\ named = {} /\ frames = {} /\ rebuilt = {} /\ stored = {}
    /\ night = [n \in Nights |-> "none"] /\ listed = [n \in Nights |-> Unlisted]
    /\ nas = [n \in Nights |-> <<>>] /\ known = [n \in Nights |-> 0]
    /\ requests = [n \in Nights |-> 0] /\ planned = [n \in Nights |-> {}]
    /\ planner = NoPlan /\ missed = {} /\ crossed = {}
    /\ poll = [p \in Pollers |-> "idle"] /\ batch = [p \in Pollers |-> {}]
    /\ th = [t \in Threads |-> Idle]
    /\ budget = [crashes |-> 0, outages |-> 0, fails |-> 0, excludes |-> 0, removals |-> 0, rebuilds |-> 0, unplanned |-> 0]

OfNight(n) == {f \in Files : NightOf[f] = n}
Pending    == {f \in Files : row[f] \in Waiting}
Rested(p)  == \A f \in Files : th[<<p, f>>] = Idle

-----------------------------------------------------------------------------
(* N.I.N.A., and what asks for a close. *)

Capture(f) ==
    /\ f \notin rig /\ row[f] \in {"none", "gone"}
    /\ rig' = rig \cup {f}
    /\ UNCHANGED <<catVars, nightVars, fileVars, planVars, pollVars, budget>>

(* A file is moved away by hand; it may come back. *)
Remove(f) ==
    /\ f \in rig /\ budget.removals < MaxRemovals
    /\ rig' = rig \ {f}
    /\ budget' = [budget EXCEPT !.removals = @ + 1]
    /\ UNCHANGED <<catVars, nightVars, fileVars, planVars, pollVars>>

(* request_close of a rig the collector manages. *)
RequestClose(n) == night' = [night EXCEPT ![n] = IF @ \in {"closing", "closed"} THEN @ ELSE "closing"]

(* The Hub's night_ready, the marker file or close-night by hand. *)
SessionEnd(n) ==
    /\ Signal
    /\ RequestClose(n)
    /\ UNCHANGED <<rig, catVars, listed, fileVars, planVars, pollVars, budget>>

(* Quiescence and the scheduled fallback look at open nights only. *)
Quiescence(n) ==
    /\ night[n] = "open"
    /\ RequestClose(n)
    /\ UNCHANGED <<rig, catVars, listed, fileVars, planVars, pollVars, budget>>

-----------------------------------------------------------------------------
(* A poll: scan, collect what is stable, finish the closes. *)

Scan(p) ==
    /\ poll[p] = "idle"
    /\ poll' = [poll EXCEPT ![p] = "scanned"]
    /\ row' = [f \in Files |->
                 IF f \in rig /\ row[f] \in {"none", "gone"} THEN "seen"
                 ELSE IF f \notin rig /\ row[f] \in Waiting \cup {"collected"} THEN "gone"
                 ELSE row[f]]
    /\ UNCHANGED <<rig, named, frames, rebuilt, nightVars, fileVars, planVars, batch, th, budget>>

(* The rows that were stable for long enough, during the night only if so configured. *)
CollectStable(p) ==
    /\ poll[p] = "scanned"
    /\ poll' = [poll EXCEPT ![p] = "collecting"]
    /\ \E stable \in SUBSET (IF DuringCapture \/ \E n \in Nights : night[n] = "closing" THEN Pending ELSE {}) :
         batch' = [batch EXCEPT ![p] = stable]
    /\ UNCHANGED <<rig, catVars, nightVars, fileVars, planVars, th, budget>>

Collected(p) ==
    /\ poll[p] = "collecting" /\ batch[p] = {} /\ Rested(p)
    /\ poll' = [poll EXCEPT ![p] = "closing"]
    /\ UNCHANGED <<rig, catVars, nightVars, fileVars, planVars, batch, th, budget>>

(* Every file of the rig, of this night or another, is collected, gone or excluded. *)
Ready == Pending = {}

CloseBegin(p, n) ==
    /\ poll[p] = "closing" /\ th[<<p, Main>>] = Idle
    /\ night[n] = "closing" /\ Ready
    /\ th' = [th EXCEPT ![<<p, Main>>] = [Idle EXCEPT !.pc = "build", !.night = n]]
    /\ UNCHANGED <<rig, catVars, nightVars, fileVars, planVars, poll, batch, budget>>

PollEnds(p) ==
    /\ poll[p] = "closing" /\ th[<<p, Main>>] = Idle
    /\ \A n \in Nights : night[n] = "closing" => ~Ready
    /\ poll' = [poll EXCEPT ![p] = "idle"]
    /\ UNCHANGED <<rig, catVars, nightVars, fileVars, planVars, batch, th, budget>>

-----------------------------------------------------------------------------
(* Collecting one file. *)

Fail == budget.fails < MaxFails /\ budget' = [budget EXCEPT !.fails = @ + 1]

(* The copy: done, put off because the file still changes, or failed. *)
Copy(p, f) ==
    /\ f \in batch[p] /\ Cardinality({g \in Files : th[<<p, g>>] # Idle}) < Parallel
    /\ batch' = [batch EXCEPT ![p] = @ \ {f}]
    /\ \/ /\ f \in rig
          /\ th' = [th EXCEPT ![<<p, f>>] = [Idle EXCEPT !.pc = "copied", !.night = NightOf[f]]]
          /\ stored' = stored \cup {f}
          /\ UNCHANGED <<row, budget>>
       \/ Fail /\ UNCHANGED <<row, stored, th>>
       \/ Fail /\ row' = [row EXCEPT ![f] = "stuck"] /\ UNCHANGED <<stored, th>>
       \/ f \notin rig /\ row' = [row EXCEPT ![f] = "stuck"] /\ UNCHANGED <<stored, th, budget>>
    /\ UNCHANGED <<rig, named, frames, rebuilt, nightVars, nas, known, crossed, planVars, poll>>

(* The ingest transaction: the frame once, and its night opens. *)
Ingest(p, f) ==
    /\ th[<<p, f>>].pc = "copied"
    /\ th' = [th EXCEPT ![<<p, f>>].pc = "ingested", ![<<p, f>>].created = f \notin frames]
    /\ frames' = frames \cup {f}
    /\ night' = [night EXCEPT ![NightOf[f]] = IF @ = "none" THEN "open" ELSE @]
    /\ UNCHANGED <<rig, row, named, rebuilt, listed, fileVars, planVars, poll, batch, budget>>

Commit(p, f) ==
    /\ th[<<p, f>>].pc = "ingested"
    /\ row' = [row EXCEPT ![f] = "collected"]
    /\ named' = named \cup {f}
    /\ th' = [th EXCEPT ![<<p, f>>].pc = "committed"]
    /\ UNCHANGED <<rig, frames, rebuilt, nightVars, fileVars, planVars, poll, batch, budget>>

(* Mutant: a late frame is collected and nothing more. *)
LateIgnored(p, f) == FALSE

(* A new frame of a closed night. *)
Late(p, f) == th[<<p, f>>].created /\ night[NightOf[f]] = "closed"

CheckLate(p, f) ==
    /\ th[<<p, f>>].pc = "committed"
    /\ th' = [th EXCEPT ![<<p, f>>] = IF Late(p, f) THEN [@ EXCEPT !.pc = "build"] ELSE Idle]
    /\ UNCHANGED <<rig, catVars, nightVars, fileVars, planVars, poll, batch, budget>>

-----------------------------------------------------------------------------
(* _close, by the poll or by the thread of a late frame: build the manifest *)
(* from the frames collected, choose its version, write it, register it, and *)
(* close.                                                                   *)

(* Threads that have a manifest of this thread's night in hand *)
Ahead(t) == {u \in Threads \ {t} : th[u].night = th[t].night /\ th[u].pc \in {"version", "write", "register", "close"}}

Build(t) ==
    /\ th[t].pc = "build"
    /\ LET files == (frames \ rebuilt) \cap OfNight(th[t].night) IN
       th' = [th EXCEPT ![t].pc = "version", ![t].manifest = [files |-> files, paths |-> files \cap named]]
    /\ crossed' = IF Ahead(t) = {} THEN crossed ELSE crossed \cup {th[t].night}
    /\ UNCHANGED <<rig, catVars, nightVars, stored, nas, known, planVars, poll, batch, budget>>

(* A manifest the catalog has already is not written again. *)
ChooseVersion(t) ==
    /\ th[t].pc = "version"
    /\ LET n == th[t].night
           again == \E v \in 1..known[n] : nas[n][v] = th[t].manifest
       IN th' = [th EXCEPT ![t].pc = IF again THEN "close" ELSE "write", ![t].version = known[n] + 1]
    /\ UNCHANGED <<rig, catVars, nightVars, fileVars, planVars, poll, batch, budget>>

(* An error ends the thread: a late frame's row is stuck, or the poll is over. *)
Abandon(t) ==
    /\ th' = [th EXCEPT ![t] = Idle]
    /\ IF t[2] = Main
       THEN poll' = [poll EXCEPT ![t[1]] = "idle"] /\ UNCHANGED row
       ELSE row' = [row EXCEPT ![t[2]] = "stuck"] /\ UNCHANGED poll

(* write_verified keeps what is there, and refuses to replace it. *)
WriteManifest(t) ==
    /\ th[t].pc = "write"
    /\ LET n == th[t].night
           v == th[t].version
           m == th[t].manifest
       IN \/ /\ v > Len(nas[n])
             /\ nas' = [nas EXCEPT ![n] = Append(@, m)]
             /\ th' = [th EXCEPT ![t].pc = "register"] /\ UNCHANGED <<row, poll, budget>>
          \/ /\ v <= Len(nas[n]) /\ nas[n][v] = m
             /\ th' = [th EXCEPT ![t].pc = "register"] /\ UNCHANGED <<nas, row, poll, budget>>
          \/ /\ v <= Len(nas[n]) /\ nas[n][v] # m
             /\ Abandon(t) /\ UNCHANGED <<nas, budget>>
          \/ /\ budget.outages < MaxOutages          \* the NAS fails
             /\ budget' = [budget EXCEPT !.outages = @ + 1]
             /\ Abandon(t) /\ UNCHANGED nas
    /\ UNCHANGED <<rig, named, frames, rebuilt, nightVars, stored, known, crossed, planVars, batch>>

Register(t) ==
    /\ th[t].pc = "register"
    /\ LET n == th[t].night IN
       known' = [known EXCEPT ![n] = IF \E v \in 1..@ : nas[n][v] = th[t].manifest THEN @ ELSE @ + 1]
    /\ th' = [th EXCEPT ![t].pc = "close"]
    /\ UNCHANGED <<rig, catVars, nightVars, stored, nas, crossed, planVars, poll, batch, budget>>

(* Mutant: the planner is only asked the first time. *)
CloseUnplanned(t, n) ==
    IF night[n] = "closed" /\ t[2] # Main THEN UNCHANGED requests ELSE requests' = [requests EXCEPT ![n] = @ + 1]

AskPlanner(t, n) == requests' = [requests EXCEPT ![n] = @ + 1]

Close(t) ==
    /\ th[t].pc = "close"
    /\ LET n == th[t].night IN
       IF night[n] = "closed" /\ t[2] = Main THEN UNCHANGED <<nightVars, requests>>
       ELSE /\ night' = [night EXCEPT ![n] = "closed"]
            /\ listed' = [listed EXCEPT ![n] = th[t].manifest]
            /\ AskPlanner(t, n)
    /\ th' = [th EXCEPT ![t] = Idle]
    /\ UNCHANGED <<rig, catVars, fileVars, planned, planner, missed, poll, batch, budget>>

-----------------------------------------------------------------------------
(* The planner: take a request, read the night's frames, record the plan.  *)

PlanBegin(n) ==
    /\ planner.pc = "idle" /\ requests[n] > 0
    /\ planner' = [NoPlan EXCEPT !.pc = "plan", !.night = n, !.seen = frames \cap OfNight(n)]
    /\ missed' = missed \ {n}
    /\ UNCHANGED <<rig, catVars, nightVars, fileVars, requests, planned, pollVars, budget>>

PlanCommit ==
    /\ planner.pc = "plan"
    /\ planned' = [planned EXCEPT ![planner.night] = planner.seen]
    /\ planner' = [planner EXCEPT !.pc = "done"]
    /\ UNCHANGED <<rig, catVars, nightVars, fileVars, requests, missed, pollVars, budget>>

(* Planning raises, or HUB_CONFIG_MISMATCH is open for the rig: the request *)
(* is done all the same.                                                    *)
PlanGivenUp ==
    /\ planner.pc = "plan" /\ budget.unplanned < MaxUnplanned
    /\ planner' = [planner EXCEPT !.pc = "done"]
    /\ missed' = missed \cup {planner.night}
    /\ budget' = [budget EXCEPT !.unplanned = @ + 1]
    /\ UNCHANGED <<rig, catVars, nightVars, fileVars, requests, planned, pollVars>>

PlanDone ==
    /\ planner.pc = "done"
    /\ requests' = [requests EXCEPT ![planner.night] = @ - 1]
    /\ planner' = NoPlan
    /\ UNCHANGED <<rig, catVars, nightVars, fileVars, planned, missed, pollVars, budget>>

-----------------------------------------------------------------------------
(* altaird dies, with its poller and its planner; or another poller does.  *)
Crash(p) ==
    /\ budget.crashes < MaxCrashes
    /\ budget' = [budget EXCEPT !.crashes = @ + 1]
    /\ poll' = [poll EXCEPT ![p] = "idle"] /\ batch' = [batch EXCEPT ![p] = {}]
    /\ th' = [t \in Threads |-> IF t[1] = p THEN Idle ELSE th[t]]
    /\ planner' = IF p = Daemon THEN NoPlan ELSE planner
    /\ UNCHANGED <<rig, catVars, nightVars, fileVars, requests, planned, missed>>

-----------------------------------------------------------------------------
(* The catalog and its backups are lost, and rebuilt from the NAS while      *)
(* altaird is stopped: the newest manifest of each night, and the raw files  *)
(* no manifest lists.                                                       *)

InManifest == {f \in stored : LET n == NightOf[f] IN nas[n] # <<>> /\ f \in nas[n][Len(nas[n])].files}

(* Mutant: only what the manifests list is found. *)
NothingRescanned == {}

Rescanned == stored \ InManifest

Rebuild ==
    /\ budget.rebuilds < MaxRebuilds
    /\ budget' = [budget EXCEPT !.rebuilds = @ + 1]
    /\ frames' = InManifest \cup Rescanned
    /\ rebuilt' = frames'
    /\ night' = [n \in Nights |-> IF nas[n] # <<>> \/ frames' \cap OfNight(n) # {} THEN "closed" ELSE "none"]
    /\ listed' = [n \in Nights |-> Unlisted]
    /\ known' = [n \in Nights |-> Len(nas[n])]
    /\ row' = [f \in Files |-> "none"] /\ named' = {}
    /\ requests' = [n \in Nights |-> 0] /\ planned' = [n \in Nights |-> {}] /\ planner' = NoPlan /\ missed' = {}
    /\ poll' = [p \in Pollers |-> "idle"] /\ batch' = [p \in Pollers |-> {}]
    /\ th' = [t \in Threads |-> Idle]
    /\ UNCHANGED <<rig, stored, nas, crossed>>

-----------------------------------------------------------------------------
Excluded(f) == row' = [row EXCEPT ![f] = "excluded"]

(* `altair collect exclude`. *)
Exclude(f) ==
    /\ budget.excludes < MaxExcludes /\ row[f] \notin {"none", "collected", "excluded"}
    /\ budget' = [budget EXCEPT !.excludes = @ + 1]
    /\ Excluded(f)
    /\ UNCHANGED <<rig, named, frames, rebuilt, nightVars, fileVars, planVars, pollVars>>

-----------------------------------------------------------------------------
Collect(p, f) == Copy(p, f) \/ Ingest(p, f) \/ Commit(p, f) \/ CheckLate(p, f)
Closer(t)     == Build(t) \/ ChooseVersion(t) \/ WriteManifest(t) \/ Register(t) \/ Close(t)
Poll(p)       == Scan(p) \/ CollectStable(p) \/ Collected(p) \/ PollEnds(p) \/ \E n \in Nights : CloseBegin(p, n)
Plan          == PlanCommit \/ PlanGivenUp \/ PlanDone \/ \E n \in Nights : PlanBegin(n)

Next ==
    \/ \E f \in Files : Capture(f) \/ Remove(f) \/ Exclude(f)
    \/ \E n \in Nights : SessionEnd(n) \/ Quiescence(n)
    \/ \E p \in Pollers : Poll(p) \/ Crash(p) \/ \E f \in Files : Collect(p, f)
    \/ \E t \in Threads : Closer(t)
    \/ Plan
    \/ Rebuild

Spec == Init /\ [][Next]_vars

(* The daemon's workers tick for ever, a written file becomes stable, and   *)
(* an open night falls quiet.                                               *)
FairSpec ==
    /\ Spec
    /\ WF_vars(Poll(Daemon)) /\ WF_vars(Plan)
    /\ \A n \in Nights : WF_vars(Quiescence(n))
    /\ \A f \in Files : /\ WF_vars(Collect(Daemon, f)) /\ WF_vars(Closer(<<Daemon, f>>))
                        /\ SF_vars(CollectStable(Daemon) /\ f \in batch'[Daemon])
    /\ WF_vars(Closer(<<Daemon, Main>>))

-----------------------------------------------------------------------------
AtRest      == \A t \in Threads : th[t] = Idle
Undisturbed == budget.crashes + budget.outages = 0

(* With no collector thread at work, the newest manifest of a closed night  *)
(* lists every frame of the night, and it is the one the night records      *)
(* (SPEC 7.3; a rebuild reads the newest version), whatever threads collect  *)
(* at once: unless altaird crashed, the NAS failed a manifest's write, the   *)
(* catalog was rebuilt, or two threads of the night had a manifest in hand.  *)
Complete(n) == /\ known[n] > 0 /\ nas[n][known[n]].files = frames \cap OfNight(n)
               /\ listed[n] = nas[n][known[n]]

ManifestComplete ==
    Undisturbed /\ budget.rebuilds = 0 => \A n \in Nights \ crossed : night[n] = "closed" /\ AtRest => Complete(n)

(* Without the last exception, as docs/SPEC.md:1228 has it of a late frame: *)
(* a new version of the manifest is written.                                *)
ManifestCompleteAnyway ==
    Undisturbed /\ budget.rebuilds = 0 => \A n \in Nights : night[n] = "closed" /\ AtRest => Complete(n)

(* The newest manifest of a night that was closed by the collector lists     *)
(* every frame of the night, after a rebuild too: the next rebuild reads no  *)
(* image (docs/SPEC.md:1534-1535).                                          *)
ManifestEnough ==
    \A n \in Nights : Undisturbed /\ night[n] = "closed" /\ listed[n] # Unlisted /\ AtRest =>
        frames \cap OfNight(n) \subseteq nas[n][Len(nas[n])].files

(* The frame was planned with its closed night, or a request that will see it *)
(* is queued, or a thread will make one.                                    *)
PlanIsComing(f) ==
    night[NightOf[f]] = "closed" /\ f \notin planned[NightOf[f]] =>
        \/ requests[NightOf[f]] > IF planner.night = NightOf[f] /\ f \notin planner.seen THEN 1 ELSE 0
        \/ \E p \in Pollers : th[<<p, f>>] # Idle
        \/ \E t \in Threads : th[t].night = NightOf[f] /\ th[t].pc \in {"build", "version", "write", "register", "close"}

(* A frame of a closed night that no plan has seen is not forgotten (SPEC    *)
(* 7.3), two threads that write the same version of the manifest included:   *)
(* unless altaird crashed, the NAS failed a manifest's write, the frame is   *)
(* one a rebuild found, or planning the night was given up.                 *)
LateFramesPlanned == Undisturbed => \A f \in frames \ rebuilt : NightOf[f] \in missed \/ PlanIsComing(f)

(* Without exception: "late arrivals ... trigger re-planning" (SPEC 7.3).    *)
LateFramesPlannedAnyway == \A f \in frames : PlanIsComing(f)

(* What is registered once stays registered: a rebuild finds every frame,    *)
(* whatever manifests the NAS has and however many of them a crash cost.     *)
FramesKept == [][frames \subseteq frames']_vars

(* A night with a frame closes in the end, a crash or two later too.        *)
NightsClose == \A f \in Files : f \in frames ~> night[NightOf[f]] = "closed"

(* A file on the rig becomes a frame of a plan, unless it is excluded or    *)
(* leaves the rig: with the same exceptions.                                *)
PlannedInTheEnd ==
    \A f \in Files : f \in rig ~>
        (f \in planned[NightOf[f]] \/ row[f] = "excluded" \/ f \notin rig \/ f \in rebuilt \/ ~Undisturbed
         \/ NightOf[f] \in missed)
=============================================================================
