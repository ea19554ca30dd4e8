----------------------------- MODULE NightsProofs -----------------------------
(* What Nights keeps, for any files, nights and pollers, any number of         *)
(* collecting threads and any number of crashes, outages, failures and         *)
(* rebuilds: every frame through a rebuild.  With altaird's poller alone, also  *)
(* complete manifests and the planning of late frames.                        *)
EXTENDS Nights, FiniteSetTheorems, TLAPS

-----------------------------------------------------------------------------
(* Types. *)

Closing  == {"build", "version", "write", "register", "close"}
Memories == [pc : Steps, created : BOOLEAN, night : Nights \cup {Main}, manifest : Manifests, version : Nat]
Budgets  == [crashes : Nat, outages : Nat, fails : Nat, excludes : Nat, removals : Nat, rebuilds : Nat, unplanned : Nat]

(* A thread at work is at work on a night, and a plan in progress has its      *)
(* request.                                                                  *)
Placed ==
    /\ \A t \in Threads :
         /\ th[t].pc = "idle" => th[t] = Idle
         /\ th[t].pc # "idle" => th[t].night \in Nights /\ (t[2] \in Files => th[t].night = NightOf[t[2]])
         /\ t[2] = Main => th[t].pc \in Closing \cup {"idle"}
    /\ planner.pc = "idle" => planner = NoPlan
    /\ planner.pc # "idle" => planner.night \in Nights /\ requests[planner.night] > 0

LEMMA ThreadIn == /\ \A p \in Pollers, f \in Files : <<p, f>> \in Threads
                  /\ \A p \in Pollers : <<p, Main>> \in Threads
                  /\ \A t \in Threads : t = <<t[1], t[2]>> /\ t[1] \in Pollers /\ t[2] \in Files \cup {Main}
  BY DEF Threads

LEMMA IdleTyped == Idle \in Memories /\ Idle.pc = "idle" /\ Idle.night = Main /\ Idle.created = FALSE
  BY DEF Idle, Memories, Steps, NoManifest, Manifests

(* A step of one thread. *)
LEMMA ThreadStep ==
    ASSUME TypeOK, NEW t \in Threads, NEW m \in Memories, th' = [th EXCEPT ![t] = m]
    PROVE  /\ th' \in [Threads -> Memories] /\ th'[t] = m
           /\ \A u \in Threads \ {t} : th'[u] = th[u]
  BY DEF TypeOK, Memories

LEMMA ThreadPlaced ==
    ASSUME TypeOK, Placed, NEW t \in Threads, NEW m \in Memories, th' = [th EXCEPT ![t] = m], UNCHANGED planVars,
           m.pc = "idle" => m = Idle,
           m.pc # "idle" => m.night \in Nights /\ (t[2] \in Files => m.night = NightOf[t[2]]),
           t[2] = Main => m.pc \in Closing \cup {"idle"}
    PROVE  th' \in [Threads -> Memories] /\ Placed'
  BY ThreadStep DEF Placed, planVars

LEMMA CountTyped ==
    ASSUME TypeOK
    PROVE  /\ [budget EXCEPT !.crashes = @ + 1] \in Budgets /\ [budget EXCEPT !.outages = @ + 1] \in Budgets
           /\ [budget EXCEPT !.fails = @ + 1] \in Budgets /\ [budget EXCEPT !.excludes = @ + 1] \in Budgets
           /\ [budget EXCEPT !.removals = @ + 1] \in Budgets /\ [budget EXCEPT !.rebuilds = @ + 1] \in Budgets
           /\ [budget EXCEPT !.unplanned = @ + 1] \in Budgets
  <1>1. budget \in Budgets
    BY DEF TypeOK, Budgets
  <1> QED
    BY <1>1 DEF Budgets

LEMMA InitTyped == Init => TypeOK /\ Placed
  <1> SUFFICES ASSUME Init PROVE TypeOK /\ Placed
    OBVIOUS
  <1>1. \A t \in Threads : th[t] = Idle /\ th[t] \in Memories
    BY IdleTyped DEF Init
  <1>2. th \in [Threads -> Memories]
    BY <1>1 DEF Init
  <1>3. NoPlan \in [pc : {"idle", "plan", "done"}, night : Nights \cup {Main}, seen : SUBSET Files] /\ NoPlan.pc = "idle"
    BY DEF NoPlan
  <1>4. Placed
    BY <1>1, <1>3, IdleTyped DEF Placed, Init
  <1>5. TypeOK
    BY <1>2, <1>3 DEF TypeOK, Init, RowStates, NightStates, Phases, Memories, Unlisted
  <1> QED
    BY <1>4, <1>5

(* N.I.N.A., the triggers and the operator. *)
LEMMA OutsideTyped ==
    ASSUME TypeOK, Placed,
           \/ \E f \in Files : Capture(f) \/ Remove(f) \/ Exclude(f)
           \/ \E n \in Nights : SessionEnd(n) \/ Quiescence(n)
    PROVE  TypeOK' /\ Placed'
  <1>1. UNCHANGED <<named, frames, rebuilt, listed, fileVars, planVars, pollVars>>
    BY DEF Capture, Remove, Exclude, SessionEnd, Quiescence, catVars, nightVars
  <1>2. Placed'
    BY <1>1 DEF Placed, planVars, pollVars
  <1>3. rig' \subseteq Files
    BY DEF Capture, Remove, Exclude, SessionEnd, Quiescence, TypeOK
  <1>5. row' \in [Files -> RowStates]
    <2>1. CASE row' = row
      BY <2>1 DEF TypeOK
    <2>2. ASSUME NEW f \in Files, Exclude(f) PROVE row' \in [Files -> RowStates]
      BY <2>2 DEF Exclude, Excluded, TypeOK, RowStates
    <2> QED
      BY <2>1, <2>2 DEF Capture, Remove, SessionEnd, Quiescence, catVars
  <1>6. night' \in [Nights -> NightStates]
    <2>1. CASE night' = night
      BY <2>1 DEF TypeOK
    <2>2. ASSUME NEW n \in Nights, RequestClose(n) PROVE night' \in [Nights -> NightStates]
      BY <2>2 DEF RequestClose, TypeOK, NightStates
    <2> QED
      BY <2>1, <2>2 DEF Capture, Remove, Exclude, SessionEnd, Quiescence, nightVars
  <1>4. budget' \in Budgets
    BY CountTyped DEF Capture, Remove, Exclude, SessionEnd, Quiescence, TypeOK, Budgets
  <1> QED
    BY <1>1, <1>2, <1>3, <1>4, <1>5, <1>6 DEF TypeOK, fileVars, planVars, pollVars, Memories, Budgets

LEMMA PollTyped == ASSUME TypeOK, Placed, NEW p \in Pollers, Poll(p) PROVE TypeOK' /\ Placed'
  <1>1. UNCHANGED <<rig, named, frames, rebuilt, nightVars, fileVars, planVars, budget>>
    BY DEF Poll, Scan, CollectStable, Collected, PollEnds, CloseBegin, catVars
  <1>2. poll' \in [Pollers -> Phases]
    BY DEF Poll, Scan, CollectStable, Collected, PollEnds, CloseBegin, TypeOK, Phases
  <1>3. batch' \in [Pollers -> SUBSET Files]
    <2>1. ASSUME NEW S \in SUBSET Files, batch' = [batch EXCEPT ![p] = S] PROVE batch' \in [Pollers -> SUBSET Files]
      BY <2>1 DEF TypeOK
    <2>2. CASE CollectStable(p)
      BY <2>1, <2>2 DEF CollectStable, Pending
    <2>3. CASE batch' = batch
      BY <2>3 DEF TypeOK
    <2> QED
      BY <2>2, <2>3 DEF Poll, Scan, Collected, PollEnds, CloseBegin
  <1>4. row' \in [Files -> RowStates]
    BY DEF Poll, Scan, CollectStable, Collected, PollEnds, CloseBegin, TypeOK, catVars, RowStates
  <1>5. th' \in [Threads -> Memories] /\ Placed'
    <2>1. CASE th' = th
      BY <1>1, <2>1 DEF Placed, planVars, TypeOK, Memories
    <2>2. ASSUME NEW n \in Nights, CloseBegin(p, n) PROVE th' \in [Threads -> Memories] /\ Placed'
      <3> DEFINE m == [Idle EXCEPT !.pc = "build", !.night = n]
      <3>1. m \in Memories /\ m.pc = "build" /\ m.night = n
        BY IdleTyped DEF Memories, Steps
      <3>2. th' = [th EXCEPT ![<<p, Main>>] = m]
        BY <2>2 DEF CloseBegin
      <3> HIDE DEF m
      <3> QED
        BY <1>1, <3>1, <3>2, ThreadIn, ThreadPlaced, NightsAssumption DEF Closing
    <2> QED
      BY <2>1, <2>2 DEF Poll, Scan, CollectStable, Collected, PollEnds
  <1> QED
    BY <1>1, <1>2, <1>3, <1>4, <1>5 DEF TypeOK, nightVars, fileVars, planVars, Memories

LEMMA CopyTyped == ASSUME TypeOK, Placed, NEW p \in Pollers, NEW f \in Files, Copy(p, f) PROVE TypeOK' /\ Placed'
  <1>1. UNCHANGED <<rig, named, frames, rebuilt, nightVars, nas, known, crossed, planVars, poll>>
    BY DEF Copy
  <1>2. batch' \in [Pollers -> SUBSET Files]
    BY DEF Copy, TypeOK
  <1>3. stored' \subseteq Files
    BY DEF Copy, TypeOK
  <1>6. row' \in [Files -> RowStates]
    <2>1. row' = row \/ row' = [row EXCEPT ![f] = "stuck"]
      BY DEF Copy
    <2> QED
      BY <2>1 DEF TypeOK, RowStates
  <1>4. budget' \in Budgets
    BY CountTyped DEF Copy, Fail, TypeOK, Budgets
  <1>5. th' \in [Threads -> Memories] /\ Placed'
    <2>1. CASE th' = th
      BY <1>1, <2>1 DEF Placed, planVars, TypeOK, Memories
    <2>2. CASE th' = [th EXCEPT ![<<p, f>>] = [Idle EXCEPT !.pc = "copied", !.night = NightOf[f]]]
      <3> DEFINE m == [Idle EXCEPT !.pc = "copied", !.night = NightOf[f]]
      <3>1. m \in Memories /\ m.pc = "copied" /\ m.night = NightOf[f] /\ m.night \in Nights
        BY IdleTyped, NightsAssumption DEF Memories, Steps
      <3>2. th' = [th EXCEPT ![<<p, f>>] = m] /\ f # Main
        BY <2>2, NightsAssumption
      <3> HIDE DEF m
      <3> QED
        BY <1>1, <3>1, <3>2, ThreadIn, ThreadPlaced
    <2> QED
      BY <2>1, <2>2 DEF Copy
  <1> QED
    BY <1>1, <1>2, <1>3, <1>4, <1>5, <1>6 DEF TypeOK, nightVars, planVars, Memories, Budgets

LEMMA IngestTyped ==
    ASSUME TypeOK, Placed, NEW p \in Pollers, NEW f \in Files, Ingest(p, f) \/ Commit(p, f) \/ CheckLate(p, f)
    PROVE  TypeOK' /\ Placed'
  <1>1. UNCHANGED <<rig, rebuilt, listed, fileVars, planVars, poll, batch, budget>>
    BY DEF Ingest, Commit, CheckLate, catVars, nightVars
  <1>2. named' \subseteq Files /\ frames' \subseteq Files /\ frames \subseteq frames'
    BY DEF Ingest, Commit, CheckLate, catVars, TypeOK
  <1>3. row' \in [Files -> RowStates]
    BY DEF Ingest, Commit, CheckLate, catVars, TypeOK, RowStates
  <1>4. night' \in [Nights -> NightStates]
    <2>1. night \in [Nights -> NightStates] /\ NightOf[f] \in Nights
      BY NightsAssumption DEF TypeOK
    <2>2. night' = night \/ night' = [night EXCEPT ![NightOf[f]] = IF @ = "none" THEN "open" ELSE @]
      BY DEF Ingest, Commit, CheckLate, nightVars
    <2> QED
      BY <2>1, <2>2 DEF NightStates
  <1>5. th' \in [Threads -> Memories] /\ Placed'
    <2>1. <<p, f>> \in Threads /\ th[<<p, f>>] \in Memories /\ f # Main
      BY ThreadIn, NightsAssumption DEF TypeOK, Memories
    <2>2. PICK m : th' = [th EXCEPT ![<<p, f>>] = m]
                   /\ \/ m = Idle
                      \/ m = [th[<<p, f>>] EXCEPT !.pc = "ingested", !.created = f \notin frames]
                      \/ m = [th[<<p, f>>] EXCEPT !.pc = "committed"] \/ m = [th[<<p, f>>] EXCEPT !.pc = "build"]
      BY <2>1 DEF Ingest, Commit, CheckLate, TypeOK
    <2>3. th[<<p, f>>].pc # "idle"
      BY DEF Ingest, Commit, CheckLate
    <2>4. th[<<p, f>>].night \in Nights /\ th[<<p, f>>].night = NightOf[f]
      BY <2>1, <2>3 DEF Placed
    <2>5. m \in Memories
      <3>1. (f \notin frames) \in BOOLEAN
        OBVIOUS
      <3> QED
        BY <2>1, <2>2, <3>1, IdleTyped DEF Memories, Steps
    <2>6. m = Idle \/ (m.pc # "idle" /\ m.night = NightOf[f])
      BY <2>1, <2>2, <2>4 DEF Memories
    <2> QED
      BY <1>1, <2>1, <2>2, <2>4, <2>5, <2>6, IdleTyped, ThreadPlaced
  <1> QED
    BY <1>1, <1>2, <1>3, <1>4, <1>5 DEF TypeOK, fileVars, planVars, Memories

(* What any step of _close does to its thread. *)
LEMMA CloserThread ==
    ASSUME TypeOK, Placed, NEW t \in Threads, Closer(t)
    PROVE  /\ th' \in [Threads -> Memories]
           /\ \A u \in Threads \ {t} : th'[u] = th[u]
           /\ th'[t] = Idle \/ (th'[t].pc \in Closing /\ th'[t].night = th[t].night /\ th'[t].created = th[t].created)
           /\ th[t] \in Memories /\ th[t].pc \in Closing /\ th[t].night \in Nights
  <1>1. th[t] \in Memories /\ th[t].pc \in Closing
    BY DEF TypeOK, Memories, Closer, Build, ChooseVersion, WriteManifest, Register, Close, Closing
  <1>2. th[t].night \in Nights
    BY <1>1 DEF Placed, Closing
  <1>3. known[th[t].night] + 1 \in Nat
    BY <1>2 DEF TypeOK
  <1> DEFINE Goes(m) == m \in Memories /\ (m = Idle \/ (m.pc \in Closing /\ m.night = th[t].night /\ m.created = th[t].created))
  <1>4. PICK m : th' = [th EXCEPT ![t] = m] /\ Goes(m)
    <2>1. th[t].manifest \in Manifests /\ th[t].version \in Nat
      BY <1>1 DEF Memories
    <2>2. CASE Build(t)
      <3> DEFINE files == (frames \ rebuilt) \cap OfNight(th[t].night)
                 manifest == [files |-> files, paths |-> files \cap named]
                 m == [th[t] EXCEPT !.pc = "version", !.manifest = manifest]
      <3>1. manifest \in Manifests
        BY DEF Manifests, OfNight
      <3>2. th' = [th EXCEPT ![t] = [th[t] EXCEPT !.pc = "version", !.manifest = manifest]]
        BY <2>2 DEF Build, TypeOK
      <3> HIDE DEF manifest
      <3>3. Goes(m)
        BY <1>1, <3>1 DEF Memories, Closing, Steps
      <3> QED
        BY <3>2, <3>3
    <2>3. CASE ChooseVersion(t)
      <3>1. PICK step \in {"close", "write"} : th' = [th EXCEPT ![t].pc = step, ![t].version = known[th[t].night] + 1]
        BY <2>3 DEF ChooseVersion
      <3> DEFINE m == [th[t] EXCEPT !.pc = step, !.version = known[th[t].night] + 1]
      <3>2. th' = [th EXCEPT ![t] = m]
        BY <1>1, <3>1 DEF Memories, TypeOK
      <3>3. Goes(m)
        BY <1>1, <1>3 DEF Memories, Closing, Steps
      <3> QED
        BY <3>2, <3>3
    <2>4. CASE WriteManifest(t) \/ Register(t) \/ Close(t)
      <3>1. \/ th' = [th EXCEPT ![t] = Idle]
            \/ \E step \in {"register", "close"} : th' = [th EXCEPT ![t].pc = step]
        BY <2>4 DEF WriteManifest, Register, Close, Abandon
      <3>2. Goes(Idle)
        BY IdleTyped
      <3>3. ASSUME NEW step \in {"register", "close"}, th' = [th EXCEPT ![t].pc = step]
            PROVE  \E m : th' = [th EXCEPT ![t] = m] /\ Goes(m)
        <4> DEFINE m == [th[t] EXCEPT !.pc = step]
        <4>1. th' = [th EXCEPT ![t] = m]
          BY <3>3 DEF TypeOK
        <4>2. Goes(m)
          BY <1>1 DEF Memories, Closing, Steps
        <4> QED
          BY <4>1, <4>2
      <3> QED
        BY <3>1, <3>2, <3>3
    <2> QED
      BY <2>2, <2>3, <2>4 DEF Closer
  <1> QED
    BY <1>1, <1>2, <1>4, ThreadStep

LEMMA CloserTyped == ASSUME TypeOK, Placed, NEW t \in Threads, Closer(t) PROVE TypeOK' /\ Placed'
  <1>1. UNCHANGED <<rig, named, frames, rebuilt, stored, planned, planner, missed, batch>>
    BY DEF Closer, Build, ChooseVersion, WriteManifest, Register, Close, catVars, fileVars, planVars
  <1>2. /\ th' \in [Threads -> Memories]
        /\ \A u \in Threads \ {t} : th'[u] = th[u]
        /\ th'[t] = Idle \/ (th'[t].pc \in Closing /\ th'[t].night = th[t].night /\ th'[t].created = th[t].created)
        /\ th[t] \in Memories /\ th[t].pc \in Closing /\ th[t].night \in Nights
    BY CloserThread
  <1>3. row' \in [Files -> RowStates] /\ poll' \in [Pollers -> Phases]
    BY ThreadIn DEF Closer, Build, ChooseVersion, WriteManifest, Register, Close, Abandon, catVars, TypeOK, RowStates, Phases
  <1>4. night' \in [Nights -> NightStates]
    BY <1>2 DEF Closer, Build, ChooseVersion, WriteManifest, Register, Close, nightVars, TypeOK, NightStates
  <1>5. listed' \in [Nights -> Manifests \cup {Unlisted}]
    BY <1>2 DEF Closer, Build, ChooseVersion, WriteManifest, Register, Close, nightVars, TypeOK, Memories
  <1>6. nas' \in [Nights -> Seq(Manifests)]
    <2>1. CASE nas' = nas
      BY <2>1 DEF TypeOK
    <2>2. CASE nas' = [nas EXCEPT ![th[t].night] = Append(@, th[t].manifest)]
      <3>1. th[t].manifest \in Manifests /\ nas[th[t].night] \in Seq(Manifests)
        BY <1>2 DEF TypeOK, Memories
      <3>2. Append(nas[th[t].night], th[t].manifest) \in Seq(Manifests)
        BY <3>1
      <3> QED
        BY <2>2, <3>2 DEF TypeOK
    <2> QED
      BY <2>1, <2>2 DEF Closer, Build, ChooseVersion, WriteManifest, Register, Close, fileVars
  <1>7. known' \in [Nights -> Nat]
    <2>1. CASE known' = known
      BY <2>1 DEF TypeOK
    <2>2. CASE Register(t)
      <3> DEFINE k == IF \E v \in 1..known[th[t].night] : nas[th[t].night][v] = th[t].manifest
                      THEN known[th[t].night] ELSE known[th[t].night] + 1
      <3>1. known' = [known EXCEPT ![th[t].night] = k]
        BY <2>2 DEF Register
      <3>2. known[th[t].night] \in Nat
        BY <1>2 DEF TypeOK
      <3>3. k \in Nat
        BY <3>2
      <3> QED
        BY <3>1, <3>3 DEF TypeOK
    <2> QED
      BY <2>1, <2>2 DEF Closer, Build, ChooseVersion, WriteManifest, Close, fileVars
  <1>8. requests' \in [Nights -> Nat] /\ \A n \in Nights : requests'[n] >= requests[n]
    <2>1. CASE requests' = requests
      BY <2>1 DEF TypeOK
    <2>2. CASE requests' = [requests EXCEPT ![th[t].night] = @ + 1]
      <3>1. requests \in [Nights -> Nat]
        BY DEF TypeOK
      <3>2. requests' = [n \in Nights |-> IF n = th[t].night THEN requests[n] + 1 ELSE requests[n]]
        BY <2>2, <3>1
      <3>3. ASSUME NEW n \in Nights PROVE requests'[n] \in Nat /\ requests'[n] >= requests[n]
        BY <3>1, <3>2
      <3> QED
        BY <3>2, <3>3
    <2> QED
      BY <2>1, <2>2 DEF Closer, Build, ChooseVersion, WriteManifest, Register, Close, AskPlanner, planVars
  <1>12. crossed' \subseteq Nights
    BY <1>2 DEF Closer, Build, ChooseVersion, WriteManifest, Register, Close, fileVars, TypeOK
  <1>9. budget' \in Budgets
    BY CountTyped DEF Closer, Build, ChooseVersion, WriteManifest, Register, Close, TypeOK, Budgets
  <1>10. \A u \in Threads :
           /\ th'[u].pc = "idle" => th'[u] = Idle
           /\ th'[u].pc # "idle" => th'[u].night \in Nights /\ (u[2] \in Files => th'[u].night = NightOf[u[2]])
           /\ u[2] = Main => th'[u].pc \in Closing \cup {"idle"}
    BY <1>2, IdleTyped DEF Placed, Closing
  <1>11. Placed'
    <2>1. planner.pc # "idle" => planner.night \in Nights /\ requests'[planner.night] > 0
      BY <1>8 DEF Placed, TypeOK
    <2> QED
      BY <1>1, <1>10, <2>1 DEF Placed
  <1> QED
    BY <1>1, <1>2, <1>3, <1>4, <1>5, <1>6, <1>7, <1>8, <1>9, <1>11, <1>12 DEF TypeOK, Memories, Budgets

LEMMA PlanTyped == ASSUME TypeOK, Placed, Plan PROVE TypeOK' /\ Placed'
  <1> DEFINE Memory == [pc : {"idle", "plan", "done"}, night : Nights \cup {Main}, seen : SUBSET Files]
  <1>1. UNCHANGED <<rig, catVars, nightVars, fileVars, pollVars>>
    BY DEF Plan, PlanBegin, PlanCommit, PlanGivenUp, PlanDone
  <1>0. budget' \in Budgets /\ missed' \subseteq Nights
    BY CountTyped DEF Plan, PlanBegin, PlanCommit, PlanGivenUp, PlanDone, TypeOK, Budgets, Placed
  <1>2. ASSUME NEW n \in Nights, PlanBegin(n)
        PROVE  planner' \in Memory /\ planned' \in [Nights -> SUBSET Files] /\ requests' \in [Nights -> Nat]
               /\ planner'.pc = "plan" /\ planner'.night \in Nights /\ requests'[planner'.night] > 0
    <2>1. planner' = [pc |-> "plan", night |-> n, seen |-> frames \cap OfNight(n)] /\ UNCHANGED <<planned, requests>>
      BY <1>2 DEF PlanBegin, NoPlan
    <2> QED
      BY <1>2, <2>1 DEF PlanBegin, TypeOK, OfNight
  <1>3. ASSUME PlanCommit \/ PlanGivenUp
        PROVE  planner' \in Memory /\ planned' \in [Nights -> SUBSET Files] /\ requests' \in [Nights -> Nat]
               /\ planner'.pc = "done" /\ planner'.night \in Nights /\ requests'[planner'.night] > 0
    BY <1>3 DEF PlanCommit, PlanGivenUp, TypeOK, Placed
  <1>4. ASSUME PlanDone
        PROVE  planner' \in Memory /\ planned' \in [Nights -> SUBSET Files] /\ requests' \in [Nights -> Nat]
               /\ planner' = NoPlan
    <2>1. requests[planner.night] \in Nat /\ requests[planner.night] > 0 /\ planner.night \in Nights
      BY <1>4 DEF PlanDone, Placed, TypeOK
    <2>2. requests' = [requests EXCEPT ![planner.night] = @ - 1] /\ planner' = NoPlan /\ planned' = planned
      BY <1>4 DEF PlanDone
    <2>3. requests' \in [Nights -> Nat]
      BY <2>1, <2>2 DEF TypeOK
    <2> QED
      BY <2>2, <2>3 DEF TypeOK, NoPlan
  <1>5. planner' \in Memory /\ planned' \in [Nights -> SUBSET Files] /\ requests' \in [Nights -> Nat]
        /\ (planner'.pc = "idle" => planner' = NoPlan)
        /\ (planner'.pc # "idle" => planner'.night \in Nights /\ requests'[planner'.night] > 0)
    BY <1>2, <1>3, <1>4 DEF Plan, NoPlan
  <1>6. Placed'
    BY <1>1, <1>5 DEF Placed, pollVars
  <1> QED
    BY <1>0, <1>1, <1>5, <1>6 DEF TypeOK, catVars, nightVars, fileVars, pollVars, Budgets

LEMMA CrashTyped == ASSUME TypeOK, Placed, NEW p \in Pollers, Crash(p) PROVE TypeOK' /\ Placed'
  <1>1. UNCHANGED <<rig, catVars, nightVars, fileVars, requests, planned, missed>>
    BY DEF Crash
  <1>2. poll' \in [Pollers -> Phases] /\ batch' \in [Pollers -> SUBSET Files]
    BY DEF Crash, TypeOK, Phases
  <1>3. \A t \in Threads : th'[t] = Idle \/ th'[t] = th[t]
    BY DEF Crash
  <1>4. th' \in [Threads -> Memories]
    BY <1>3, IdleTyped DEF Crash, TypeOK, Memories
  <1>5. planner' \in [pc : {"idle", "plan", "done"}, night : Nights \cup {Main}, seen : SUBSET Files]
        /\ (planner' = planner \/ planner' = NoPlan) /\ NoPlan.pc = "idle"
    BY DEF Crash, TypeOK, NoPlan
  <1>6. Placed'
    BY <1>1, <1>3, <1>5, IdleTyped DEF Placed
  <1>7. budget' \in Budgets
    BY CountTyped DEF Crash
  <1> QED
    BY <1>1, <1>2, <1>4, <1>5, <1>6, <1>7 DEF TypeOK, catVars, nightVars, fileVars, Memories, Budgets

LEMMA Found == TypeOK => InManifest \cup Rescanned = stored
  BY DEF InManifest, Rescanned

LEMMA RebuildTyped == ASSUME TypeOK, Placed, Rebuild PROVE TypeOK' /\ Placed'
  <1>1. frames' = stored /\ rebuilt' = stored /\ UNCHANGED <<rig, stored, nas, crossed>> /\ missed' = {}
    BY Found DEF Rebuild
  <1>2. night' \in [Nights -> NightStates] /\ listed' \in [Nights -> Manifests \cup {Unlisted}]
    BY DEF Rebuild, NightStates
  <1>3. known' \in [Nights -> Nat]
    <2>1. \A n \in Nights : Len(nas[n]) \in Nat
      BY DEF TypeOK
    <2> QED
      BY <2>1 DEF Rebuild
  <1>4. /\ row' \in [Files -> RowStates] /\ named' \subseteq Files
        /\ requests' \in [Nights -> Nat] /\ planned' \in [Nights -> SUBSET Files]
        /\ poll' \in [Pollers -> Phases] /\ batch' \in [Pollers -> SUBSET Files]
    BY DEF Rebuild, RowStates, Phases
  <1>5. planner' \in [pc : {"idle", "plan", "done"}, night : Nights \cup {Main}, seen : SUBSET Files]
        /\ planner' = NoPlan /\ NoPlan.pc = "idle"
    BY DEF Rebuild, NoPlan
  <1>6. (\A t \in Threads : th'[t] = Idle) /\ th' \in [Threads -> Memories]
    BY IdleTyped DEF Rebuild
  <1>7. Placed'
    BY <1>5, <1>6, IdleTyped DEF Placed
  <1>8. budget' \in Budgets
    BY CountTyped DEF Rebuild
  <1> QED
    BY <1>1, <1>2, <1>3, <1>4, <1>5, <1>6, <1>7, <1>8 DEF TypeOK, Memories, Budgets

LEMMA NextTyped == TypeOK /\ Placed /\ [Next]_vars => TypeOK' /\ Placed'
  <1> SUFFICES ASSUME TypeOK, Placed, [Next]_vars PROVE TypeOK' /\ Placed'
    OBVIOUS
  <1>1. CASE UNCHANGED vars
    BY <1>1 DEF vars, TypeOK, Placed, catVars, nightVars, fileVars, planVars, pollVars
  <1>2. ASSUME NEW p \in Pollers, NEW f \in Files, Collect(p, f) PROVE TypeOK' /\ Placed'
    BY <1>2, CopyTyped, IngestTyped DEF Collect
  <1> QED
    BY <1>1, <1>2, OutsideTyped, PollTyped, CrashTyped, CloserTyped, PlanTyped, RebuildTyped DEF Next

(* The type invariant of the collector's tables, threads and manifests, and of *)
(* the planner's requests (nights.py, collector/rig_worker.py).               *)
THEOREM NightsTypeCorrect == Spec => []TypeOK
  BY InitTyped, NextTyped, PTL DEF Spec

-----------------------------------------------------------------------------
(* Every frame through a rebuild. *)

(* A frame's copy is on the NAS before the frame is registered. *)
CopiedFirst ==
    /\ frames \subseteq stored
    /\ \A p \in Pollers, f \in Files : th[<<p, f>>].pc \in {"copied", "ingested", "committed"} => f \in stored

LEMMA NextCopied == TypeOK /\ Placed /\ CopiedFirst /\ [Next]_vars => CopiedFirst' /\ frames \subseteq frames'
  <1> SUFFICES ASSUME TypeOK, Placed, CopiedFirst, [Next]_vars PROVE CopiedFirst' /\ frames \subseteq frames'
    OBVIOUS
  <1>1. ASSUME UNCHANGED <<frames, stored>>, th' \in [Threads -> Memories],
               \A p \in Pollers, f \in Files : th'[<<p, f>>].pc = th[<<p, f>>].pc
                                              \/ th'[<<p, f>>].pc \notin {"copied", "ingested", "committed"}
        PROVE  CopiedFirst' /\ frames \subseteq frames'
    BY <1>1 DEF CopiedFirst
  <1>2. CASE UNCHANGED <<frames, stored, th>>
    BY <1>2 DEF CopiedFirst
  <1>3. ASSUME NEW p \in Pollers, NEW f \in Files, Copy(p, f) PROVE CopiedFirst' /\ frames \subseteq frames'
    <2>1. frames' = frames /\ stored \subseteq stored'
      BY <1>3 DEF Copy
    <2>2. th' = th \/ (f \in stored' /\ th' = [th EXCEPT ![<<p, f>>] = [Idle EXCEPT !.pc = "copied", !.night = NightOf[f]]])
      BY <1>3 DEF Copy
    <2>3. \A q \in Pollers, g \in Files : <<q, g>> # <<p, f>> => th'[<<q, g>>] = th[<<q, g>>]
      BY <2>2, ThreadIn DEF TypeOK
    <2>4. \A q \in Pollers, g \in Files : <<q, g>> = <<p, f>> => g = f
      OBVIOUS
    <2> QED
      BY <2>1, <2>2, <2>3, <2>4 DEF CopiedFirst
  <1>4. ASSUME NEW p \in Pollers, NEW f \in Files, Ingest(p, f) \/ Commit(p, f) \/ CheckLate(p, f)
        PROVE  CopiedFirst' /\ frames \subseteq frames'
    <2>1. stored' = stored /\ frames \subseteq frames' /\ frames' \subseteq frames \cup {f} /\ f \in stored
      BY <1>4 DEF Ingest, Commit, CheckLate, catVars, fileVars, CopiedFirst
    <2>2. \A q \in Pollers, g \in Files : <<q, g>> # <<p, f>> => th'[<<q, g>>] = th[<<q, g>>]
      BY <1>4, ThreadIn DEF Ingest, Commit, CheckLate, TypeOK
    <2>3. \A q \in Pollers, g \in Files : <<q, g>> = <<p, f>> => g = f
      OBVIOUS
    <2> QED
      BY <2>1, <2>2, <2>3 DEF CopiedFirst
  <1>5. ASSUME NEW t \in Threads, Closer(t) PROVE CopiedFirst' /\ frames \subseteq frames'
    <2>1. UNCHANGED <<frames, stored>>
      BY <1>5 DEF Closer, Build, ChooseVersion, WriteManifest, Register, Close, catVars, fileVars
    <2>2. \A u \in Threads : th'[u].pc = th[u].pc \/ th'[u].pc \notin {"copied", "ingested", "committed"}
      BY <1>5, CloserThread, IdleTyped DEF Closing
    <2> QED
      BY <2>1, <2>2, ThreadIn DEF CopiedFirst
  <1>6. ASSUME NEW p \in Pollers, Poll(p) \/ Crash(p) PROVE CopiedFirst' /\ frames \subseteq frames'
    <2>1. UNCHANGED <<frames, stored>>
      BY <1>6 DEF Poll, Scan, CollectStable, Collected, PollEnds, CloseBegin, Crash, catVars, fileVars
    <2>2. \A t \in Threads : th'[t] = th[t] \/ th'[t].pc \in {"idle", "build"}
      <3>1. CASE th' = th
        BY <3>1
      <3>2. ASSUME NEW n \in Nights, CloseBegin(p, n)
            PROVE  \A t \in Threads : th'[t] = th[t] \/ th'[t].pc \in {"idle", "build"}
        <4> DEFINE m == [Idle EXCEPT !.pc = "build", !.night = n]
        <4>1. th' = [th EXCEPT ![<<p, Main>>] = m] /\ m.pc = "build"
          BY <3>2 DEF CloseBegin, Idle
        <4> HIDE DEF m
        <4> QED
          BY <4>1 DEF TypeOK
      <3>3. CASE Crash(p)
        BY <3>3, IdleTyped DEF Crash
      <3> QED
        BY <1>6, <3>1, <3>2, <3>3 DEF Poll, Scan, CollectStable, Collected, PollEnds
    <2> QED
      BY <2>1, <2>2, ThreadIn DEF CopiedFirst
  <1>7. CASE Rebuild
    <2>1. frames' = stored /\ stored' = stored
      BY <1>7, Found DEF Rebuild
    <2>2. \A t \in Threads : th'[t].pc = "idle"
      BY <1>7, IdleTyped DEF Rebuild
    <2> QED
      BY <2>1, <2>2, ThreadIn DEF CopiedFirst
  <1>8. CASE Plan \/ UNCHANGED vars \/ (\E f \in Files : Capture(f) \/ Remove(f) \/ Exclude(f))
             \/ (\E n \in Nights : SessionEnd(n) \/ Quiescence(n))
    BY <1>2, <1>8 DEF Plan, PlanBegin, PlanCommit, PlanGivenUp, PlanDone, Capture, Remove, Exclude, SessionEnd, Quiescence, vars,
                      catVars, fileVars, pollVars
  <1> QED
    BY <1>3, <1>4, <1>5, <1>6, <1>7, <1>8 DEF Next, Collect

(* rebuild.py: whatever the manifests list and however many a crash cost, the   *)
(* catalog rebuilt from the NAS has every frame the lost one had.             *)
THEOREM FramesKeptHolds == Spec => FramesKept
  <1>1. Init => CopiedFirst
    BY IdleTyped, ThreadIn DEF Init, CopiedFirst
  <1> QED
    BY <1>1, InitTyped, NextTyped, NextCopied, PTL DEF Spec, FramesKept

-----------------------------------------------------------------------------
(* Complete manifests and planned frames, with altaird alone polling the rig. *)

Single == Pollers = {Daemon}

(* The poll and its pool take turns. *)
Turns ==
    /\ poll[Daemon] # "collecting" => batch[Daemon] = {} /\ \A f \in Files : th[<<Daemon, f>>] = Idle
    /\ th[<<Daemon, Main>>] # Idle => poll[Daemon] = "closing"
    /\ \A f \in batch[Daemon] : th[<<Daemon, f>>] = Idle

(* The poll closes a closing night, a late frame's thread a closed one. *)
Working ==
    \A t \in Threads, n \in Nights : th[t].night = n /\ th[t].pc \in Closing =>
        night[n] = IF t[2] = Main THEN "closing" ELSE "closed"

(* The catalog is at most one version behind the NAS, a thread is about to     *)
(* register it, and a manifest is written once.                               *)
Unlike(s, v, m) == \A w \in 1..(v - 1) : s[w] # m

Registering(n) == \E t \in Threads : th[t].night = n /\ th[t].pc = "register" /\ th[t].version = known[n] + 1

Versions ==
    Undisturbed =>
        /\ \A n \in Nights : known[n] <= Len(nas[n]) /\ Len(nas[n]) <= known[n] + 1 /\ (Len(nas[n]) > known[n] => Registering(n))
        /\ \A t \in Threads, n \in Nights : th[t].night = n /\ th[t].pc = "write" =>
             th[t].version > 0 /\ th[t].version <= known[n] + 1 /\ Unlike(nas[n], th[t].version, th[t].manifest)
        /\ \A t \in Threads, n \in Nights : th[t].night = n /\ th[t].pc = "register" =>
             /\ th[t].version > 0 /\ th[t].version <= Len(nas[n]) /\ Unlike(nas[n], th[t].version, th[t].manifest)
             /\ nas[n][th[t].version] = th[t].manifest

(* The manifest of the night as the catalog is now, and manifests that grow. *)
Now(n) == LET files == (frames \ rebuilt) \cap OfNight(n) IN [files |-> files, paths |-> files \cap named]
Within(m, k) == m.files \subseteq k.files /\ m.paths \subseteq k.paths

InHand     == {"version", "write", "register", "close"}
Holds(t, n) == th[t].night = n /\ th[t].pc \in InHand
Fresh(t)     == th[t].created /\ th[t].pc \in {"ingested", "committed"}
Owing(g)     == Fresh(<<Daemon, g>>) \/ th[<<Daemon, g>>].pc = "build"

(* A closed night is settled, or a thread will close it again. *)
Newest(n, m) == known[n] > 0 /\ nas[n][known[n]] = m
Settled(n)   == Newest(n, listed[n]) /\ listed[n].files = frames \cap OfNight(n)
Reclosing(n) == \E t \in Threads : th[t].night = n /\ (th[t].pc \in Closing \/ Fresh(t))

(* A night that was closed by one thread at a time. *)
Plain(n) == Undisturbed /\ budget.rebuilds = 0 /\ n \notin crossed

Alone(n)   == \A t, u \in Threads : Holds(t, n) /\ Holds(u, n) => t = u
Growing(n) == \A v \in 1..Len(nas[n]) : Within(nas[n][v], Now(n)) /\ \A w \in v..Len(nas[n]) : Within(nas[n][v], nas[n][w])
Covers(n, m) == /\ Within(m, Now(n)) /\ \A v \in 1..Len(nas[n]) : Within(nas[n][v], m)
                /\ \A g \in (frames \cap OfNight(n)) \ m.files : Owing(g)
Carried(n) == \A t \in Threads : Holds(t, n) =>
                 /\ Covers(n, th[t].manifest)
                 /\ th[t].pc \in {"write", "register"} => th[t].version = known[n] + 1
                 /\ th[t].pc = "close" => Newest(n, th[t].manifest)

Sound(n) == Alone(n) /\ Growing(n) /\ Carried(n) /\ (night[n] = "closed" => Settled(n) \/ Reclosing(n))
AllSound == /\ budget.rebuilds = 0 => rebuilt = {}
            /\ \A n \in Nights : Plain(n) => Sound(n)

(* A plan only adds frames, unless it is given up. *)
PlanHeld ==
    /\ \A n \in Nights : planned[n] \subseteq frames \cap OfNight(n)
    /\ planner.pc # "idle" => planner.seen \subseteq frames \cap OfNight(planner.night)
    /\ planner.pc = "plan" => planned[planner.night] \subseteq planner.seen
    /\ planner.pc = "done" => planner.night \in missed \/ planner.seen \subseteq planned[planner.night]

(* A frame a plan has or a request will see, a frame whose own thread will ask, *)
(* a night that a thread is about to ask for.                                 *)
Asked(g)     == requests[NightOf[g]] > IF planner.night = NightOf[g] /\ g \notin planner.seen THEN 1 ELSE 0
Seen(g)      == NightOf[g] \in missed \/ g \in planned[NightOf[g]] \/ Asked(g)
Asking(g)    == Fresh(<<Daemon, g>>) \/ th[<<Daemon, g>>].pc \in Closing
Finishing(n) == \E t \in Threads : th[t].night = n /\ th[t].pc \in {"register", "close"}

(* The thread of a frame whose version of the manifest another one wrote will  *)
(* fail, and need not ask.                                                    *)
Overtaken(g) == th[<<Daemon, g>>].pc = "write" /\ th[<<Daemon, g>>].version <= Len(nas[NightOf[g]])

LateHeld ==
    Undisturbed => \A g \in frames \ rebuilt :
        /\ night[NightOf[g]] = "closed" => Seen(g) \/ Asking(g) \/ Finishing(NightOf[g])
        /\ Overtaken(g) => Seen(g) \/ Finishing(NightOf[g])

Kept == Turns /\ Working /\ Versions /\ AllSound /\ PlanHeld /\ LateHeld
One  == Single /\ TypeOK /\ Placed /\ Kept

LEMMA OnlyDaemon ==
    ASSUME Single, TypeOK, Placed
    PROVE  /\ Daemon \in Pollers /\ Main \notin Files
           /\ \A t \in Threads : /\ t = <<Daemon, t[2]>> /\ t[2] \in Files \cup {Main} /\ th[t] \in Memories
                                 /\ th[t].pc = "idle" <=> th[t] = Idle
           /\ \A f \in Files : <<Daemon, f>> \in Threads /\ <<Daemon, f>>[2] = f /\ <<Daemon, f>> # <<Daemon, Main>>
           /\ \A f, g \in Files : <<Daemon, f>> = <<Daemon, g>> => f = g
           /\ <<Daemon, Main>> \in Threads /\ <<Daemon, Main>>[2] = Main
  BY ThreadIn, IdleTyped, NightsAssumption DEF Single, Placed, TypeOK, Memories

(* The poll and a thread of its pool are never at work at once. *)
LEMMA MainAlone ==
    ASSUME One, NEW f \in Files, th[<<Daemon, f>>] # Idle \/ f \in batch[Daemon]
    PROVE  poll[Daemon] = "collecting" /\ th[<<Daemon, Main>>] = Idle
  BY DEF One, Kept, Turns

(* What a step of the collection of a file does. *)
LEMMA CollectStep ==
    ASSUME One, NEW f \in Files, Collect(Daemon, f)
    PROVE  /\ UNCHANGED <<rebuilt, listed, nas, known, crossed, planVars, poll>>
           /\ Undisturbed' = Undisturbed /\ budget'.rebuilds = budget.rebuilds
           /\ frames \subseteq frames' /\ frames' \subseteq frames \cup {f} /\ named \subseteq named'
           /\ \A n \in Nights : (night'[n] = "closed" <=> night[n] = "closed") /\ (night[n] = "closing" => night'[n] = "closing")
           /\ \A u \in Threads \ {<<Daemon, f>>} : th'[u] = th[u]
           /\ th[<<Daemon, f>>].pc \notin Closing /\ th'[<<Daemon, f>>].pc \notin Closing \ {"build"}
           /\ th'[<<Daemon, f>>].pc # "idle" => th'[<<Daemon, f>>].night = NightOf[f]
           /\ f \notin frames /\ f \in frames' => Fresh(<<Daemon, f>>)'
           /\ Fresh(<<Daemon, f>>) => Fresh(<<Daemon, f>>)' \/ th'[<<Daemon, f>>].pc = "build" \/ night[NightOf[f]] # "closed"
           /\ th'[<<Daemon, f>>].pc = "build" => night[NightOf[f]] = "closed"
           /\ th[<<Daemon, f>>] # Idle \/ f \in batch[Daemon]
           /\ batch'[Daemon] \subseteq batch[Daemon] \ {f}
  <1> DEFINE t == <<Daemon, f>>
  <1>1. t \in Threads /\ th[t] \in Memories /\ (th[t].pc # "idle" => th[t].night = NightOf[f]) /\ NightOf[f] \in Nights
        /\ (th[t].pc = "idle" <=> th[t] = Idle) /\ t[2] = f
    BY OnlyDaemon, NightsAssumption DEF One, Placed
  <1>2. f \in batch[Daemon] => th[t] = Idle
    BY DEF One, Kept, Turns
  <1> HIDE DEF t
  <1>3. ASSUME NEW m, th' = [th EXCEPT ![t] = m] PROVE th'[t] = m /\ \A u \in Threads \ {t} : th'[u] = th[u]
    BY <1>1, <1>3 DEF One, TypeOK
  <1>4. CASE Copy(Daemon, f)
    <2>1. UNCHANGED <<named, frames, rebuilt, nightVars, nas, known, crossed, planVars, poll>> /\ f \in batch[Daemon]
          /\ batch' = [batch EXCEPT ![Daemon] = @ \ {f}]
      BY <1>4 DEF Copy
    <2>2. Undisturbed' = Undisturbed /\ budget'.rebuilds = budget.rebuilds
      BY <1>4 DEF Copy, Fail, Undisturbed, One, TypeOK
    <2>3. batch'[Daemon] = batch[Daemon] \ {f}
      BY <2>1, OnlyDaemon DEF One, TypeOK
    <2>4. CASE th' = th
      BY <1>1, <1>2, <2>1, <2>2, <2>3, <2>4, IdleTyped DEF Fresh, Closing, nightVars, t
    <2>5. CASE th' = [th EXCEPT ![t] = [Idle EXCEPT !.pc = "copied", !.night = NightOf[f]]]
      <3> DEFINE m == [Idle EXCEPT !.pc = "copied", !.night = NightOf[f]]
      <3>1. m.pc = "copied" /\ m.night = NightOf[f]
        BY DEF Idle
      <3>2. th'[t] = m /\ \A u \in Threads \ {t} : th'[u] = th[u]
        BY <1>3, <2>5
      <3> HIDE DEF m
      <3> QED
        BY <1>1, <1>2, <2>1, <2>2, <2>3, <3>1, <3>2, IdleTyped DEF Fresh, Closing, nightVars, t
    <2> QED
      BY <1>4, <2>4, <2>5 DEF Copy, t
  <1>5. ASSUME Ingest(Daemon, f) \/ Commit(Daemon, f) \/ CheckLate(Daemon, f)
        PROVE  /\ UNCHANGED <<rebuilt, listed, nas, known, crossed, planVars, poll, batch, budget>> /\ th[t].pc # "idle"
               /\ frames \subseteq frames' /\ frames' \subseteq frames \cup {f} /\ named \subseteq named' /\ th[t].pc \notin Closing
               /\ \A n \in Nights : (night'[n] = "closed" <=> night[n] = "closed") /\ (night[n] = "closing" => night'[n] = "closing")
    <2>1. night' = night \/ night' = [night EXCEPT ![NightOf[f]] = IF @ = "none" THEN "open" ELSE @]
      BY <1>5 DEF Ingest, Commit, CheckLate, nightVars
    <2>2. \A n \in Nights : (night'[n] = "closed" <=> night[n] = "closed") /\ (night[n] = "closing" => night'[n] = "closing")
      BY <2>1 DEF One, TypeOK
    <2> QED
      BY <1>5, <2>2 DEF Ingest, Commit, CheckLate, catVars, nightVars, fileVars, Closing, t
  <1>6. ASSUME UNCHANGED <<batch, budget>>, th[t].pc # "idle"
        PROVE  Undisturbed' = Undisturbed /\ budget'.rebuilds = budget.rebuilds /\ th[t] # Idle /\ batch'[Daemon] \subseteq batch[Daemon] \ {f}
    BY <1>1, <1>2, <1>6 DEF Undisturbed
  <1>7. CASE Ingest(Daemon, f)
    <2> DEFINE m == [th[t] EXCEPT !.pc = "ingested", !.created = f \notin frames]
    <2>1. th' = [th EXCEPT ![t] = m] /\ th[t].pc = "copied"
      BY <1>7 DEF Ingest, One, TypeOK, t
    <2>2. m.pc = "ingested" /\ m.night = NightOf[f] /\ (m.created <=> f \notin frames)
      BY <1>1, <2>1 DEF Memories
    <2>3. th'[t] = m /\ \A u \in Threads \ {t} : th'[u] = th[u]
      BY <1>3, <2>1
    <2> HIDE DEF m
    <2> QED
      BY <1>1, <1>5, <1>6, <1>7, <2>1, <2>2, <2>3 DEF Fresh, Closing, t
  <1>8. CASE Commit(Daemon, f)
    <2> DEFINE m == [th[t] EXCEPT !.pc = "committed"]
    <2>1. th' = [th EXCEPT ![t] = m] /\ th[t].pc = "ingested" /\ frames' = frames
      BY <1>8 DEF Commit, One, TypeOK, t
    <2>2. m.pc = "committed" /\ m.night = NightOf[f] /\ m.created = th[t].created
      BY <1>1, <2>1 DEF Memories
    <2>3. th'[t] = m /\ \A u \in Threads \ {t} : th'[u] = th[u]
      BY <1>3, <2>1
    <2> HIDE DEF m
    <2> QED
      BY <1>1, <1>5, <1>6, <1>8, <2>1, <2>2, <2>3 DEF Fresh, Closing, t
  <1>9. CASE CheckLate(Daemon, f)
    <2> DEFINE m == IF Late(Daemon, f) THEN [th[t] EXCEPT !.pc = "build"] ELSE Idle
    <2>1. th' = [th EXCEPT ![t] = m] /\ th[t].pc = "committed" /\ frames' = frames
      BY <1>9 DEF CheckLate, One, TypeOK, catVars, t
    <2>2. /\ Late(Daemon, f) => m.pc = "build" /\ m.night = NightOf[f]
          /\ ~Late(Daemon, f) => m = Idle
      BY <1>1, <2>1 DEF Memories
    <2>3. Late(Daemon, f) <=> Fresh(t) /\ night[NightOf[f]] = "closed"
      BY <2>1 DEF Late, Fresh, t
    <2>4. th'[t] = m /\ \A u \in Threads \ {t} : th'[u] = th[u]
      BY <1>3, <2>1
    <2> HIDE DEF m
    <2> QED
      BY <1>1, <1>5, <1>6, <1>9, <2>1, <2>2, <2>3, <2>4, IdleTyped DEF Closing, t
  <1> QED
    BY <1>4, <1>7, <1>8, <1>9 DEF Collect

(* What a step of the poll itself does. *)
LEMMA PollStep ==
    ASSUME One, Poll(Daemon)
    PROVE  /\ UNCHANGED <<named, frames, rebuilt, nightVars, fileVars, planVars, budget>>
           /\ \A u \in Threads \ {<<Daemon, Main>>} : th'[u] = th[u]
           /\ th' = th \/ /\ \A u \in Threads : th[u] = Idle
                          /\ th'[<<Daemon, Main>>].pc = "build" /\ th'[<<Daemon, Main>>].created = FALSE
                          /\ \E c \in Nights : th'[<<Daemon, Main>>].night = c /\ night[c] = "closing"
  <1>1. UNCHANGED <<named, frames, rebuilt, nightVars, fileVars, planVars, budget>>
    BY DEF Poll, Scan, CollectStable, Collected, PollEnds, CloseBegin, catVars
  <1>2. CASE th' = th
    BY <1>1, <1>2
  <1>3. ASSUME NEW c \in Nights, CloseBegin(Daemon, c)
        PROVE  /\ \A u \in Threads \ {<<Daemon, Main>>} : th'[u] = th[u]
               /\ \A u \in Threads : th[u] = Idle
               /\ th'[<<Daemon, Main>>].pc = "build" /\ th'[<<Daemon, Main>>].created = FALSE
               /\ th'[<<Daemon, Main>>].night = c /\ night[c] = "closing"
    <2> DEFINE m == [Idle EXCEPT !.pc = "build", !.night = c]
               t == <<Daemon, Main>>
    <2>1. m.pc = "build" /\ m.created = FALSE /\ m.night = c
      BY DEF Idle
    <2>2. t \in Threads
      BY OnlyDaemon DEF One
    <2>3. th' = [th EXCEPT ![t] = m] /\ poll[Daemon] = "closing" /\ night[c] = "closing" /\ th[t] = Idle
      BY <1>3 DEF CloseBegin
    <2>4. \A u \in Threads : th[u] = Idle
      BY <2>3, OnlyDaemon DEF One, Kept, Turns
    <2> HIDE DEF m
    <2> QED
      BY <2>1, <2>2, <2>3, <2>4 DEF One, TypeOK
  <1> QED
    BY <1>1, <1>2, <1>3 DEF Poll, Scan, CollectStable, Collected, PollEnds

LEMMA OutsideStep ==
    ASSUME One,
           \/ \E f \in Files : Capture(f) \/ Remove(f) \/ Exclude(f)
           \/ \E n \in Nights : SessionEnd(n) \/ Quiescence(n)
    PROVE  /\ UNCHANGED <<named, frames, rebuilt, listed, fileVars, planVars, pollVars>>
           /\ Undisturbed' = Undisturbed /\ budget'.rebuilds = budget.rebuilds
           /\ \A n \in Nights : (night'[n] = "closed" <=> night[n] = "closed") /\ (night[n] = "closing" => night'[n] = "closing")
  <1>1. UNCHANGED <<named, frames, rebuilt, listed, fileVars, planVars, pollVars>>
    BY DEF Capture, Remove, Exclude, SessionEnd, Quiescence, catVars, nightVars
  <1>2. Undisturbed' = Undisturbed /\ budget'.rebuilds = budget.rebuilds
    BY DEF Capture, Remove, Exclude, SessionEnd, Quiescence, Undisturbed, One, TypeOK
  <1>3. \A n \in Nights : (night'[n] = "closed" <=> night[n] = "closed") /\ (night[n] = "closing" => night'[n] = "closing")
    BY DEF Capture, Remove, Exclude, SessionEnd, Quiescence, RequestClose, nightVars, One, TypeOK
  <1> QED
    BY <1>1, <1>2, <1>3

(* What a step of _close does, its own effect aside. *)
LEMMA CloserStep ==
    ASSUME One, NEW t \in Threads, Closer(t)
    PROVE  /\ UNCHANGED <<named, frames, rebuilt, missed, batch>>
           /\ Undisturbed' => Undisturbed
           /\ budget'.rebuilds = budget.rebuilds
           /\ th[t] \in Memories /\ th[t].pc \in Closing /\ th[t].night \in Nights /\ th[t] # Idle
           /\ th'[t] = Idle \/ (th'[t].pc \in Closing /\ th'[t].night = th[t].night)
           /\ \A u \in Threads \ {t} : th'[u] = th[u]
           /\ poll' = poll \/ (t[2] = Main /\ poll' = [poll EXCEPT ![t[1]] = "idle"] /\ th'[t] = Idle)
           /\ night[th[t].night] = IF t[2] = Main THEN "closing" ELSE "closed"
           /\ t[2] \in Files => th[t].night = NightOf[t[2]]
  <1>1. /\ \A u \in Threads \ {t} : th'[u] = th[u]
        /\ th'[t] = Idle \/ (th'[t].pc \in Closing /\ th'[t].night = th[t].night)
        /\ th[t] \in Memories /\ th[t].pc \in Closing /\ th[t].night \in Nights
    BY CloserThread DEF One
  <1>2. th[t] # Idle /\ (t[2] \in Files => th[t].night = NightOf[t[2]])
    BY <1>1, IdleTyped DEF Closing, One, Placed
  <1>3. UNCHANGED <<named, frames, rebuilt, missed, batch>>
    BY DEF Closer, Build, ChooseVersion, WriteManifest, Register, Close, catVars, planVars
  <1>4. budget' = budget \/ budget' = [budget EXCEPT !.outages = @ + 1]
    BY DEF Closer, Build, ChooseVersion, WriteManifest, Register, Close
  <1>5. (Undisturbed' => Undisturbed) /\ budget'.rebuilds = budget.rebuilds
    <2>1. budget.crashes \in Nat /\ budget.outages \in Nat /\ budget.rebuilds \in Nat
      BY DEF One, TypeOK
    <2>2. /\ budget'.crashes = budget.crashes /\ budget'.rebuilds = budget.rebuilds
          /\ budget'.outages = budget.outages \/ budget'.outages = budget.outages + 1
      BY <1>4 DEF One, TypeOK
    <2> QED
      BY <2>1, <2>2 DEF Undisturbed
  <1>6. poll' = poll \/ (t[2] = Main /\ poll' = [poll EXCEPT ![t[1]] = "idle"] /\ th' = [th EXCEPT ![t] = Idle])
    BY DEF Closer, Build, ChooseVersion, WriteManifest, Register, Close, Abandon
  <1>7. th' = [th EXCEPT ![t] = Idle] => th'[t] = Idle
    BY DEF One, TypeOK
  <1>8. night[th[t].night] = IF t[2] = Main THEN "closing" ELSE "closed"
    BY <1>1 DEF One, Kept, Working
  <1> QED
    BY <1>1, <1>2, <1>3, <1>5, <1>6, <1>7, <1>8

-----------------------------------------------------------------------------
LEMMA NextTurns == ASSUME One, [Next]_vars PROVE Turns'
  <1>0. Turns /\ Daemon \in Pollers
    BY NightsAssumption DEF One, Kept
  <1>1. CASE UNCHANGED <<poll, batch, th>>
    BY <1>0, <1>1 DEF Turns
  <1>2. CASE Poll(Daemon)
    <2>1. CASE Scan(Daemon)
      BY <1>0, <2>1 DEF Scan, Turns, One, TypeOK
    <2>2. CASE CollectStable(Daemon)
      <3>1. poll' = [poll EXCEPT ![Daemon] = "collecting"] /\ th' = th /\ batch'[Daemon] \subseteq Files /\ poll[Daemon] = "scanned"
        <4>1. PICK S \in SUBSET Files : batch' = [batch EXCEPT ![Daemon] = S]
          BY <2>2 DEF CollectStable, Pending
        <4> QED
          BY <1>0, <2>2, <4>1 DEF CollectStable, One, TypeOK
      <3> QED
        BY <1>0, <3>1 DEF Turns, One, TypeOK
    <2>3. CASE Collected(Daemon)
      BY <1>0, <2>3 DEF Collected, Rested, Turns, One, TypeOK
    <2>4. CASE PollEnds(Daemon)
      BY <1>0, <2>4 DEF PollEnds, Turns, One, TypeOK
    <2>5. ASSUME NEW n \in Nights, CloseBegin(Daemon, n) PROVE Turns'
      <3>1. UNCHANGED <<poll, batch>> /\ poll[Daemon] = "closing"
        BY <2>5 DEF CloseBegin
      <3>2. \A f \in Files : th'[<<Daemon, f>>] = th[<<Daemon, f>>]
        BY <1>2, PollStep, OnlyDaemon DEF One
      <3> QED
        BY <1>0, <3>1, <3>2 DEF Turns, One, TypeOK
    <2> QED
      BY <1>2, <2>1, <2>2, <2>3, <2>4, <2>5 DEF Poll
  <1>3. ASSUME NEW f \in Files, Collect(Daemon, f) PROVE Turns'
    <2>1. poll' = poll /\ poll[Daemon] = "collecting" /\ th[<<Daemon, Main>>] = Idle /\ batch'[Daemon] \subseteq batch[Daemon] \ {f}
      BY <1>3, CollectStep, MainAlone
    <2>4. \A u \in Threads \ {<<Daemon, f>>} : th'[u] = th[u]
      BY <1>3, CollectStep
    <2>5. /\ <<Daemon, Main>> \in Threads \ {<<Daemon, f>>}
          /\ \A g \in Files \ {f} : <<Daemon, g>> \in Threads \ {<<Daemon, f>>}
      BY OnlyDaemon DEF One
    <2>2. th'[<<Daemon, Main>>] = Idle /\ \A g \in Files \ {f} : th'[<<Daemon, g>>] = th[<<Daemon, g>>]
      BY <2>1, <2>4, <2>5
    <2>3. batch[Daemon] \subseteq Files
      BY <1>0 DEF One, TypeOK
    <2> QED
      BY <1>0, <2>1, <2>2, <2>3 DEF Turns
  <1>4. ASSUME NEW t \in Threads, Closer(t) PROVE Turns'
    <2>1. /\ batch' = batch /\ th[t] # Idle /\ \A u \in Threads \ {t} : th'[u] = th[u]
          /\ poll' = poll \/ (t[2] = Main /\ poll' = [poll EXCEPT ![t[1]] = "idle"] /\ th'[t] = Idle)
      BY <1>4, CloserStep
    <2>2. t = <<Daemon, t[2]>> /\ t[2] \in Files \cup {Main}
      BY OnlyDaemon DEF One
    <2>3. CASE t[2] = Main
      <3>1. t = <<Daemon, Main>> /\ \A f \in Files : th'[<<Daemon, f>>] = th[<<Daemon, f>>]
        BY <2>1, <2>2, <2>3, OnlyDaemon DEF One
      <3>2. poll[Daemon] = "closing"
        BY <1>0, <2>1, <3>1 DEF Turns
      <3>3. poll'[Daemon] = "closing" \/ (poll'[Daemon] = "idle" /\ th'[<<Daemon, Main>>] = Idle)
        BY <1>0, <2>1, <3>1, <3>2 DEF One, TypeOK
      <3> QED
        BY <1>0, <2>1, <3>1, <3>2, <3>3 DEF Turns
    <2>4. CASE t[2] # Main
      <3>1. PICK f \in Files : t = <<Daemon, f>>
        BY <2>2, <2>4
      <3>2. poll' = poll /\ poll[Daemon] = "collecting" /\ th[<<Daemon, Main>>] = Idle
        BY <2>1, <2>4, <3>1, MainAlone
      <3>3. th'[<<Daemon, Main>>] = Idle /\ \A g \in Files \ {f} : th'[<<Daemon, g>>] = th[<<Daemon, g>>]
        BY <2>1, <3>1, <3>2, OnlyDaemon DEF One
      <3>4. f \notin batch[Daemon] /\ batch[Daemon] \subseteq Files
        BY <1>0, <2>1, <3>1 DEF Turns, One, TypeOK
      <3> QED
        BY <1>0, <2>1, <3>2, <3>3, <3>4 DEF Turns
    <2> QED
      BY <2>3, <2>4
  <1>5. ASSUME NEW p \in Pollers, Crash(p) PROVE Turns'
    <2>1. p = Daemon
      BY DEF One, Single
    <2>2. batch'[Daemon] = {} /\ \A t \in Threads : th'[t] = Idle
      BY <1>0, <1>5, <2>1, OnlyDaemon DEF Crash, One, TypeOK
    <2> QED
      BY <2>2, OnlyDaemon DEF Turns, One
  <1>6. CASE Rebuild
    BY <1>0, <1>6, OnlyDaemon DEF Rebuild, Turns, One
  <1>7. ASSUME NEW p \in Pollers, Poll(p) \/ \E f \in Files : Collect(p, f) PROVE Turns'
    BY <1>2, <1>3, <1>7 DEF One, Single
  <1> QED
    BY <1>1, <1>4, <1>5, <1>6, <1>7
      DEF Next, Capture, Remove, Exclude, SessionEnd, Quiescence, Plan, PlanBegin, PlanCommit, PlanGivenUp, PlanDone, vars, pollVars

LEMMA NextWorking == ASSUME One, [Next]_vars PROVE Working'
  <1>0. Working
    BY DEF One, Kept
  <1>1. ASSUME th' = th, \A n \in Nights : (night'[n] = "closed" <=> night[n] = "closed") /\ (night[n] = "closing" => night'[n] = "closing")
        PROVE  Working'
    BY <1>0, <1>1 DEF Working
  <1>2. CASE Poll(Daemon)
    <2>1. CASE th' = th
      BY <1>1, <1>2, <2>1, PollStep DEF nightVars
    <2>2. CASE th' # th
      <3>1. \A u \in Threads \ {<<Daemon, Main>>} : th'[u].pc \notin Closing
        BY <1>2, <2>2, PollStep, IdleTyped DEF Closing
      <3>2. \E c \in Nights : th'[<<Daemon, Main>>].night = c /\ night'[c] = "closing"
        BY <1>2, <2>2, PollStep DEF nightVars
      <3>3. <<Daemon, Main>>[2] = Main
        OBVIOUS
      <3> QED
        BY <3>1, <3>2, <3>3 DEF Working
    <2> QED
      BY <2>1, <2>2
  <1>3. ASSUME NEW f \in Files, Collect(Daemon, f) PROVE Working'
    <2> DEFINE t == <<Daemon, f>>
    <2>1. t \in Threads /\ t[2] # Main
      BY OnlyDaemon DEF One
    <2>2. /\ \A u \in Threads \ {t} : th'[u] = th[u]
          /\ th'[t].pc \notin Closing \ {"build"}
          /\ th'[t].pc # "idle" => th'[t].night = NightOf[f]
          /\ th'[t].pc = "build" => night[NightOf[f]] = "closed"
          /\ \A n \in Nights : (night'[n] = "closed" <=> night[n] = "closed") /\ (night[n] = "closing" => night'[n] = "closing")
      BY <1>3, CollectStep
    <2> HIDE DEF t
    <2> SUFFICES ASSUME NEW u \in Threads, NEW n \in Nights, th'[u].night = n, th'[u].pc \in Closing
                 PROVE  night'[n] = IF u[2] = Main THEN "closing" ELSE "closed"
      BY DEF Working
    <2>3. CASE u = t
      BY <2>1, <2>2, <2>3 DEF Closing
    <2>4. CASE u # t
      BY <1>0, <2>2, <2>4 DEF Working
    <2> QED
      BY <2>3, <2>4
  <1>4. ASSUME NEW t \in Threads, Closer(t) PROVE Working'
    <2>1. PICK c \in Nights : th[t].night = c
      BY <1>4, CloserStep
    <2>2. /\ th'[t] = Idle \/ (th'[t].pc \in Closing /\ th'[t].night = c)
          /\ \A u \in Threads \ {t} : th'[u] = th[u]
          /\ night[c] = IF t[2] = Main THEN "closing" ELSE "closed"
          /\ th[t] # Idle
      BY <1>4, <2>1, CloserStep
    <2> SUFFICES ASSUME NEW u \in Threads, NEW n \in Nights, th'[u].night = n, th'[u].pc \in Closing
                 PROVE  night'[n] = IF u[2] = Main THEN "closing" ELSE "closed"
      BY DEF Working
    <2>3. CASE night' = night
      BY <1>0, <2>2, <2>3, IdleTyped DEF Working, Closing
    <2>4. CASE Close(t)
      <3>1. th'[t] = Idle
        BY <2>4 DEF Close, One, TypeOK
      <3>2. u # t /\ th[u] = th'[u] /\ th[u] # Idle
        BY <2>2, <3>1, IdleTyped DEF Closing
      <3>3. night[n] = IF u[2] = Main THEN "closing" ELSE "closed"
        BY <1>0, <3>2 DEF Working
      <3>4. night' = night \/ night' = [night EXCEPT ![c] = "closed"]
        BY <2>1, <2>4 DEF Close, nightVars
      <3>5. CASE t[2] = Main
        <4>1. t = <<Daemon, Main>> /\ u = <<Daemon, u[2]>> /\ u[2] \in Files
          BY <3>2, <3>5, OnlyDaemon DEF One
        <4>2. poll[Daemon] = "collecting" /\ th[t] = Idle
          BY <3>2, <4>1, MainAlone
        <4> QED
          BY <2>2, <4>2
      <3>6. CASE t[2] # Main
        <4>1. night[c] = "closed"
          BY <2>2, <3>6
        <4> QED
          BY <3>3, <3>4, <4>1 DEF One, TypeOK
      <3> QED
        BY <3>5, <3>6
    <2> QED
      BY <1>4, <2>3, <2>4 DEF Closer, Build, ChooseVersion, WriteManifest, Register, nightVars
  <1>5. ASSUME NEW p \in Pollers, Crash(p) PROVE Working'
    <2>1. p = Daemon
      BY DEF One, Single
    <2>2. \A t \in Threads : th'[t].pc = "idle"
      BY <1>5, <2>1, OnlyDaemon, IdleTyped DEF Crash, One
    <2> QED
      BY <2>2 DEF Working, Closing
  <1>6. CASE Rebuild
    BY <1>6, IdleTyped DEF Rebuild, Working, Closing
  <1>7. CASE Plan \/ UNCHANGED vars
    BY <1>1, <1>7 DEF Plan, PlanBegin, PlanCommit, PlanGivenUp, PlanDone, vars, nightVars, pollVars
  <1>8. CASE (\E f \in Files : Capture(f) \/ Remove(f) \/ Exclude(f)) \/ (\E n \in Nights : SessionEnd(n) \/ Quiescence(n))
    BY <1>1, <1>8, OutsideStep DEF pollVars
  <1>9. ASSUME NEW p \in Pollers, Poll(p) \/ \E f \in Files : Collect(p, f) PROVE Working'
    BY <1>2, <1>3, <1>9 DEF One, Single
  <1> QED
    BY <1>4, <1>5, <1>6, <1>7, <1>8, <1>9 DEF Next

-----------------------------------------------------------------------------
(* Steps that leave the manifests to others. *)
LEMMA VersionsStay ==
    ASSUME Versions, nas' = nas, known' = known, Undisturbed' => Undisturbed,
           \A u \in Threads : th'[u].pc \in {"write", "register"} => th'[u] = th[u],
           \A u \in Threads : th[u].pc = "register" => th'[u] = th[u]
    PROVE  Versions'
  <1> SUFFICES ASSUME Undisturbed, Undisturbed' PROVE Versions'
    BY DEF Versions
  <1>1. \A n \in Nights : Registering(n) => Registering(n)'
    BY DEF Registering
  <1>2. ASSUME NEW n \in Nights
        PROVE  (known[n] <= Len(nas[n]) /\ Len(nas[n]) <= known[n] + 1 /\ (Len(nas[n]) > known[n] => Registering(n)))'
    BY <1>1 DEF Versions
  <1>3. ASSUME NEW u \in Threads, NEW n \in Nights, th'[u].night = n, th'[u].pc = "write"
        PROVE  (th[u].version > 0 /\ th[u].version <= known[n] + 1 /\ Unlike(nas[n], th[u].version, th[u].manifest))'
    <2>1. th'[u] = th[u] /\ th[u].pc = "write" /\ th[u].night = n
      BY <1>3
    <2> QED
      BY <2>1 DEF Versions, Unlike
  <1>4. ASSUME NEW u \in Threads, NEW n \in Nights, th'[u].night = n, th'[u].pc = "register"
        PROVE  (/\ th[u].version > 0 /\ th[u].version <= Len(nas[n]) /\ Unlike(nas[n], th[u].version, th[u].manifest)
                /\ nas[n][th[u].version] = th[u].manifest)'
    <2>1. th'[u] = th[u] /\ th[u].pc = "register" /\ th[u].night = n
      BY <1>4
    <2> QED
      BY <2>1 DEF Versions, Unlike
  <1> QED
    BY <1>2, <1>3, <1>4 DEF Versions

LEMMA BuildStep ==
    ASSUME One, NEW t \in Threads, Build(t), NEW c \in Nights, th[t].night = c
    PROVE  /\ th[t].pc = "build" /\ th'[t].pc = "version" /\ th'[t].night = c /\ th'[t].manifest = Now(c)
           /\ crossed' = IF Ahead(t) = {} THEN crossed ELSE crossed \cup {c}
           /\ UNCHANGED <<catVars, nightVars, nas, known, planVars, budget>>
  <1>1. th[t] \in Memories
    BY DEF One, TypeOK, Memories
  <1>2. th' = [th EXCEPT ![t].pc = "version", ![t].manifest = Now(c)] /\ th[t].pc = "build"
    BY DEF Build, Now
  <1> DEFINE m == [th[t] EXCEPT !.pc = "version", !.manifest = Now(c)]
  <1>3. th' = [th EXCEPT ![t] = m]
    BY <1>1, <1>2 DEF One, TypeOK, Memories
  <1>4. m.pc = "version" /\ m.night = c /\ m.manifest = Now(c)
    BY <1>1 DEF Memories
  <1> HIDE DEF m
  <1>5. th'[t] = m
    BY <1>3 DEF One, TypeOK
  <1> QED
    BY <1>2, <1>4, <1>5 DEF Build

LEMMA ChooseStep ==
    ASSUME One, NEW t \in Threads, ChooseVersion(t), NEW c \in Nights, th[t].night = c
    PROVE  /\ th[t].pc = "version" /\ th'[t].pc \in {"close", "write"} /\ th'[t].night = c
           /\ th'[t].manifest = th[t].manifest /\ th'[t].version = known[c] + 1
           /\ th'[t].pc = "write" <=> Unlike(nas[c], known[c] + 1, th[t].manifest)
           /\ UNCHANGED <<catVars, nightVars, fileVars, planVars, budget>>
  <1>1. PICK step \in {"close", "write"} :
          /\ th' = [th EXCEPT ![t].pc = step, ![t].version = known[c] + 1]
          /\ step = "close" <=> \E v \in 1..known[c] : nas[c][v] = th[t].manifest
    BY DEF ChooseVersion
  <1> DEFINE m == [th[t] EXCEPT !.pc = step, !.version = known[c] + 1]
  <1>2. th[t] \in Memories /\ known[c] \in Nat
    BY DEF One, TypeOK, Memories
  <1>3. th' = [th EXCEPT ![t] = m]
    BY <1>1, <1>2 DEF One, TypeOK, Memories
  <1>4. m.pc = step /\ m.night = c /\ m.manifest = th[t].manifest /\ m.version = known[c] + 1
    BY <1>2 DEF Memories
  <1> HIDE DEF m
  <1>5. th'[t] = m
    BY <1>3 DEF One, TypeOK
  <1>6. 1..((known[c] + 1) - 1) = 1..known[c]
    BY <1>2
  <1> QED
    BY <1>1, <1>4, <1>5, <1>6 DEF ChooseVersion, Unlike

LEMMA WriteStep ==
    ASSUME One, NEW t \in Threads, WriteManifest(t), NEW c \in Nights, th[t].night = c
    PROVE  /\ th[t].pc = "write" /\ UNCHANGED <<named, frames, rebuilt, nightVars, known, crossed, planVars>>
           /\ \A n \in Nights \ {c} : nas'[n] = nas[n]
           /\ \/ ~Undisturbed'
              \/ /\ th[t].version > Len(nas[c]) /\ nas'[c] = Append(nas[c], th[t].manifest) /\ budget' = budget
                 /\ th'[t].pc = "register" /\ th'[t].night = c /\ th'[t].version = th[t].version /\ th'[t].manifest = th[t].manifest
              \/ /\ th[t].version <= Len(nas[c]) /\ nas' = nas /\ nas[c][th[t].version] = th[t].manifest /\ budget' = budget
                 /\ th'[t].pc = "register" /\ th'[t].night = c /\ th'[t].version = th[t].version /\ th'[t].manifest = th[t].manifest
              \/ /\ th[t].version <= Len(nas[c]) /\ nas' = nas /\ nas[c][th[t].version] # th[t].manifest /\ th'[t] = Idle
                 /\ budget' = budget
  <1>1. th[t] \in Memories /\ nas \in [Nights -> Seq(Manifests)]
    BY DEF One, TypeOK, Memories
  <1>2. th[t].pc = "write" /\ UNCHANGED <<named, frames, rebuilt, nightVars, known, crossed, planVars>>
    BY DEF WriteManifest
  <1>3. nas' = nas \/ nas' = [nas EXCEPT ![c] = Append(@, th[t].manifest)]
    BY DEF WriteManifest
  <1>4. \A n \in Nights \ {c} : nas'[n] = nas[n]
    BY <1>1, <1>3
  <1>5. ASSUME th' = [th EXCEPT ![t].pc = "register"]
        PROVE  th'[t].pc = "register" /\ th'[t].night = c /\ th'[t].version = th[t].version /\ th'[t].manifest = th[t].manifest
    BY <1>1, <1>5 DEF One, TypeOK, Memories
  <1>6. ASSUME Abandon(t) PROVE th'[t] = Idle
    BY <1>6 DEF Abandon, One, TypeOK
  <1>7. ASSUME budget' = [budget EXCEPT !.outages = @ + 1] PROVE ~Undisturbed'
    BY <1>7 DEF Undisturbed, One, TypeOK
  <1>8. \/ ~Undisturbed'
        \/ /\ th[t].version > Len(nas[c]) /\ nas' = [nas EXCEPT ![c] = Append(@, th[t].manifest)] /\ budget' = budget
           /\ th' = [th EXCEPT ![t].pc = "register"]
        \/ /\ th[t].version <= Len(nas[c]) /\ nas' = nas /\ nas[c][th[t].version] = th[t].manifest /\ budget' = budget
           /\ th' = [th EXCEPT ![t].pc = "register"]
        \/ /\ th[t].version <= Len(nas[c]) /\ nas' = nas /\ nas[c][th[t].version] # th[t].manifest /\ Abandon(t)
           /\ budget' = budget
    BY <1>7 DEF WriteManifest
  <1>9. nas' = [nas EXCEPT ![c] = Append(@, th[t].manifest)] => nas'[c] = Append(nas[c], th[t].manifest)
    BY <1>1
  <1> QED
    BY <1>2, <1>4, <1>5, <1>6, <1>8, <1>9

LEMMA RegisterStep ==
    ASSUME One, NEW t \in Threads, Register(t), NEW c \in Nights, th[t].night = c
    PROVE  /\ th[t].pc = "register" /\ th'[t].pc = "close" /\ th'[t].night = c /\ th'[t].manifest = th[t].manifest
           /\ Unlike(nas[c], known[c] + 1, th[t].manifest) => known'[c] = known[c] + 1
           /\ ~Unlike(nas[c], known[c] + 1, th[t].manifest) => known'[c] = known[c]
           /\ \A n \in Nights \ {c} : known'[n] = known[n]
           /\ UNCHANGED <<catVars, nightVars, nas, crossed, planVars, budget>>
  <1>1. th[t] \in Memories /\ known \in [Nights -> Nat]
    BY DEF One, TypeOK, Memories
  <1>2. th'[t].pc = "close" /\ th'[t].night = c /\ th'[t].manifest = th[t].manifest
    BY <1>1 DEF Register, One, TypeOK, Memories
  <1> DEFINE k == IF \E v \in 1..known[c] : nas[c][v] = th[t].manifest THEN known[c] ELSE known[c] + 1
  <1>3. known' = [known EXCEPT ![c] = k]
    BY DEF Register
  <1>4. known'[c] = k /\ \A n \in Nights \ {c} : known'[n] = known[n]
    BY <1>1, <1>3
  <1>5. Unlike(nas[c], known[c] + 1, th[t].manifest) <=> ~ \E v \in 1..known[c] : nas[c][v] = th[t].manifest
    <2>1. 1..((known[c] + 1) - 1) = 1..known[c]
      BY <1>1
    <2> QED
      BY <2>1 DEF Unlike
  <1> QED
    BY <1>2, <1>4, <1>5 DEF Register

LEMMA CloseStep ==
    ASSUME One, NEW t \in Threads, Close(t), NEW c \in Nights, th[t].night = c
    PROVE  /\ th[t].pc = "close" /\ th'[t] = Idle
           /\ night'[c] = "closed" /\ listed'[c] = th[t].manifest /\ requests'[c] = requests[c] + 1
           /\ \A n \in Nights \ {c} : night'[n] = night[n] /\ listed'[n] = listed[n] /\ requests'[n] = requests[n]
           /\ UNCHANGED <<catVars, fileVars, planned, planner, missed, budget>>
  <1>1. th[t].pc = "close" /\ night[c] = IF t[2] = Main THEN "closing" ELSE "closed"
    BY DEF Close, Closing, One, Kept, Working
  <1>2. /\ night' = [night EXCEPT ![c] = "closed"] /\ listed' = [listed EXCEPT ![c] = th[t].manifest]
        /\ requests' = [requests EXCEPT ![c] = @ + 1] /\ th' = [th EXCEPT ![t] = Idle]
        /\ UNCHANGED <<catVars, fileVars, planned, planner, missed, budget>>
    BY <1>1 DEF Close, AskPlanner
  <1> QED
    BY <1>1, <1>2 DEF One, TypeOK

-----------------------------------------------------------------------------
LEMMA VersionTypes ==
    ASSUME One
    PROVE  /\ \A n \in Nights : known[n] \in Nat /\ Len(nas[n]) \in Nat /\ nas[n] \in Seq(Manifests)
           /\ \A t \in Threads : th[t].version \in Nat /\ th[t].manifest \in Manifests
  BY DEF One, TypeOK

LEMMA NextVersions == ASSUME One, [Next]_vars PROVE Versions'
  <1>0. Versions
    BY DEF One, Kept
  <1>1. CASE (\E f \in Files : Capture(f) \/ Remove(f) \/ Exclude(f)) \/ (\E n \in Nights : SessionEnd(n) \/ Quiescence(n))
    BY <1>0, <1>1, OutsideStep, VersionsStay DEF fileVars, pollVars
  <1>2. CASE Poll(Daemon)
    <2>1. nas' = nas /\ known' = known /\ Undisturbed' = Undisturbed
      BY <1>2, PollStep DEF fileVars, Undisturbed
    <2>2. \A u \in Threads : th'[u] = th[u] \/ (th'[u].pc = "build" /\ th[u].pc = "idle")
      BY <1>2, PollStep, IdleTyped
    <2> QED
      BY <1>0, <2>1, <2>2, VersionsStay
  <1>3. ASSUME NEW f \in Files, Collect(Daemon, f) PROVE Versions'
    <2>1. nas' = nas /\ known' = known /\ Undisturbed' = Undisturbed
      BY <1>3, CollectStep
    <2>2. \A u \in Threads : th'[u] = th[u] \/ (th[u].pc \notin Closing /\ th'[u].pc \notin Closing \ {"build"})
      BY <1>3, CollectStep
    <2> QED
      BY <1>0, <2>1, <2>2, VersionsStay DEF Closing
  <1>4. ASSUME NEW t \in Threads, Closer(t) PROVE Versions'
    <2>1. PICK c \in Nights : th[t].night = c
      BY <1>4, CloserStep
    <2>2. \A u \in Threads \ {t} : th'[u] = th[u]
      BY <1>4, CloserStep
    <2>3. CASE Build(t)
      <3>1. nas' = nas /\ known' = known /\ Undisturbed' = Undisturbed /\ th[t].pc = "build" /\ th'[t].pc = "version"
        BY <2>1, <2>3, BuildStep DEF Undisturbed
      <3> QED
        BY <1>0, <2>2, <3>1, VersionsStay
    <2>4. CASE Close(t)
      <3>1. nas' = nas /\ known' = known /\ Undisturbed' = Undisturbed /\ th[t].pc = "close" /\ th'[t] = Idle
        BY <2>1, <2>4, CloseStep DEF Undisturbed, fileVars
      <3> QED
        BY <1>0, <2>2, <3>1, IdleTyped, VersionsStay
    <2>5. CASE ChooseVersion(t)
      <3>1. /\ nas' = nas /\ known' = known /\ Undisturbed' = Undisturbed /\ th[t].pc = "version"
            /\ th'[t].pc \in {"close", "write"} /\ th'[t].night = c /\ th'[t].version = known[c] + 1
            /\ th'[t].pc = "write" => Unlike(nas[c], th'[t].version, th'[t].manifest)
        BY <2>1, <2>5, ChooseStep DEF Undisturbed, fileVars
      <3> SUFFICES ASSUME Undisturbed PROVE Versions'
        BY <3>1 DEF Versions
      <3>2. ASSUME NEW n \in Nights
            PROVE  (known[n] <= Len(nas[n]) /\ Len(nas[n]) <= known[n] + 1 /\ (Len(nas[n]) > known[n] => Registering(n)))'
        <4>1. Registering(n) => Registering(n)'
          BY <2>2, <3>1 DEF Registering
        <4> QED
          BY <1>0, <3>1, <4>1 DEF Versions
      <3>3. ASSUME NEW u \in Threads, NEW n \in Nights, th'[u].night = n, th'[u].pc = "write"
            PROVE  (th[u].version > 0 /\ th[u].version <= known[n] + 1 /\ Unlike(nas[n], th[u].version, th[u].manifest))'
        <4>1. CASE u = t
          BY <3>1, <3>3, <4>1, VersionTypes DEF Unlike
        <4>2. CASE u # t
          BY <1>0, <2>2, <3>1, <3>3, <4>2 DEF Versions, Unlike
        <4> QED
          BY <4>1, <4>2
      <3>4. ASSUME NEW u \in Threads, NEW n \in Nights, th'[u].night = n, th'[u].pc = "register"
            PROVE  (/\ th[u].version > 0 /\ th[u].version <= Len(nas[n]) /\ Unlike(nas[n], th[u].version, th[u].manifest)
                    /\ nas[n][th[u].version] = th[u].manifest)'
        <4>1. u # t
          BY <3>1, <3>4
        <4> QED
          BY <1>0, <2>2, <3>1, <3>4, <4>1 DEF Versions, Unlike
      <3> QED
        BY <3>2, <3>3, <3>4 DEF Versions
    <2>6. CASE WriteManifest(t)
      <3>1. th[t].pc = "write" /\ known' = known /\ \A n \in Nights \ {c} : nas'[n] = nas[n]
        BY <2>1, <2>6, WriteStep
      <3>2. Undisturbed' => Undisturbed
        BY <1>4, CloserStep
      <3>3. CASE ~Undisturbed'
        BY <3>3 DEF Versions
      <3>4. CASE Undisturbed' /\ nas' = nas /\ th'[t] = Idle
        BY <1>0, <2>2, <3>1, <3>2, <3>4, IdleTyped, VersionsStay
      <3>5. ASSUME Undisturbed', th'[t].pc = "register", th'[t].night = c, th'[t].version = th[t].version, th'[t].manifest = th[t].manifest,
                   \/ th[t].version > Len(nas[c]) /\ nas'[c] = Append(nas[c], th[t].manifest)
                   \/ nas' = nas /\ th[t].version <= Len(nas[c]) /\ nas[c][th[t].version] = th[t].manifest
            PROVE  Versions'
        <4>1. /\ th[t].version \in Nat /\ known[c] \in Nat /\ Len(nas[c]) \in Nat /\ nas[c] \in Seq(Manifests) /\ th[t].manifest \in Manifests
              /\ th[t].version > 0 /\ th[t].version <= known[c] + 1 /\ Unlike(nas[c], th[t].version, th[t].manifest)
              /\ known[c] <= Len(nas[c]) /\ Len(nas[c]) <= known[c] + 1
          BY <1>0, <2>1, <3>1, <3>2, <3>5, VersionTypes DEF Versions
        <4>2. /\ Len(nas'[c]) \in Nat /\ Len(nas[c]) <= Len(nas'[c]) /\ \A w \in 1..Len(nas[c]) : nas'[c][w] = nas[c][w]
              /\ known[c] <= Len(nas'[c]) /\ Len(nas'[c]) <= known[c] + 1
              /\ th[t].version <= Len(nas'[c]) /\ nas'[c][th[t].version] = th[t].manifest
              /\ Len(nas'[c]) > Len(nas[c]) => th[t].version = known[c] + 1
          <5>1. CASE nas' = nas /\ th[t].version <= Len(nas[c]) /\ nas[c][th[t].version] = th[t].manifest
            BY <4>1, <5>1
          <5>2. CASE th[t].version > Len(nas[c]) /\ nas'[c] = Append(nas[c], th[t].manifest)
            <6>1. /\ Len(nas'[c]) = Len(nas[c]) + 1 /\ nas'[c][Len(nas[c]) + 1] = th[t].manifest
                  /\ \A w \in 1..Len(nas[c]) : nas'[c][w] = nas[c][w]
              BY <4>1, <5>2
            <6>2. th[t].version = known[c] + 1 /\ Len(nas[c]) = known[c]
              BY <4>1, <5>2
            <6> QED
              BY <4>1, <6>1, <6>2
          <5> QED
            BY <3>5, <5>1, <5>2
        <4>3. \A n \in Nights, v \in Nat, m \in Manifests : v <= Len(nas[n]) + 1 /\ Unlike(nas[n], v, m) => Unlike(nas'[n], v, m)
          <5> SUFFICES ASSUME NEW n \in Nights, NEW v \in Nat, NEW m \in Manifests, v <= Len(nas[n]) + 1, Unlike(nas[n], v, m)
                       PROVE  Unlike(nas'[n], v, m)
            OBVIOUS
          <5>1. n # c => nas'[n] = nas[n]
            BY <3>1
          <5>2. Len(nas[n]) \in Nat /\ 1..(v - 1) \subseteq 1..Len(nas[n])
            BY VersionTypes
          <5>3. \A w \in 1..Len(nas[n]) : nas'[n][w] = nas[n][w]
            BY <4>2, <5>1
          <5> QED
            BY <5>2, <5>3 DEF Unlike
        <4>4. ASSUME NEW n \in Nights
              PROVE  (known[n] <= Len(nas[n]) /\ Len(nas[n]) <= known[n] + 1 /\ (Len(nas[n]) > known[n] => Registering(n)))'
          <5>1. Registering(n) => Registering(n)'
            BY <2>2, <3>1 DEF Registering
          <5>2. CASE n # c
            BY <1>0, <3>1, <3>2, <3>5, <5>1, <5>2 DEF Versions
          <5>3. CASE n = c /\ Len(nas'[c]) > Len(nas[c])
            <6>1. Registering(c)'
              BY <3>1, <3>5, <4>2, <5>3 DEF Registering
            <6> QED
              BY <3>1, <4>2, <5>3, <6>1
          <5>4. CASE n = c /\ Len(nas'[c]) = Len(nas[c])
            BY <1>0, <3>1, <3>2, <3>5, <4>1, <5>1, <5>4 DEF Versions
          <5> QED
            BY <4>1, <4>2, <5>2, <5>3, <5>4
        <4>5. ASSUME NEW u \in Threads, NEW n \in Nights, th'[u].night = n, th'[u].pc = "write"
              PROVE  (th[u].version > 0 /\ th[u].version <= known[n] + 1 /\ Unlike(nas[n], th[u].version, th[u].manifest))'
          <5>1. u # t /\ th'[u] = th[u]
            BY <2>2, <3>5, <4>5
          <5>2. th[u].version > 0 /\ th[u].version <= known[n] + 1 /\ Unlike(nas[n], th[u].version, th[u].manifest)
                /\ known[n] <= Len(nas[n]) /\ th[u].version \in Nat /\ known[n] \in Nat /\ Len(nas[n]) \in Nat
            BY <1>0, <3>2, <3>5, <4>5, <5>1, VersionTypes DEF Versions
          <5>3. th[u].version <= Len(nas[n]) + 1
            BY <5>2
          <5>4. Unlike(nas[n], th[u].version, th[u].manifest)'
            BY <4>3, <5>1, <5>2, <5>3, VersionTypes
          <5> QED
            BY <3>1, <5>1, <5>2, <5>4
        <4>6. ASSUME NEW u \in Threads, NEW n \in Nights, th'[u].night = n, th'[u].pc = "register"
              PROVE  (/\ th[u].version > 0 /\ th[u].version <= Len(nas[n]) /\ Unlike(nas[n], th[u].version, th[u].manifest)
                      /\ nas[n][th[u].version] = th[u].manifest)'
          <5>1. CASE u = t
            <6>1. th[t].version <= Len(nas[c]) + 1
              BY <4>1
            <6>2. Unlike(nas[c], th[t].version, th[t].manifest)'
              BY <3>5, <4>1, <4>3, <6>1
            <6> QED
              BY <3>5, <4>1, <4>2, <4>6, <5>1, <6>2
          <5>2. CASE u # t
            <6>1. th'[u] = th[u] /\ th[u].version > 0 /\ th[u].version <= Len(nas[n]) /\ Unlike(nas[n], th[u].version, th[u].manifest)
                  /\ nas[n][th[u].version] = th[u].manifest /\ th[u].version \in Nat /\ Len(nas[n]) \in Nat
              BY <1>0, <2>2, <3>2, <3>5, <4>6, <5>2, VersionTypes DEF Versions
            <6>2. Unlike(nas[n], th[u].version, th[u].manifest)'
              BY <4>3, <6>1, VersionTypes
            <6>3. Len(nas[n]) <= Len(nas'[n]) /\ nas'[n][th[u].version] = nas[n][th[u].version] /\ Len(nas'[n]) \in Nat
              BY <3>1, <4>2, <6>1
            <6> QED
              BY <6>1, <6>2, <6>3
          <5> QED
            BY <5>1, <5>2
        <4> QED
          BY <4>4, <4>5, <4>6 DEF Versions
      <3> QED
        BY <2>1, <2>6, <3>3, <3>4, <3>5, WriteStep
    <2>7. CASE Register(t)
      <3>1. /\ nas' = nas /\ Undisturbed' = Undisturbed /\ th[t].pc = "register" /\ th'[t].pc = "close"
            /\ \A n \in Nights \ {c} : known'[n] = known[n]
            /\ Unlike(nas[c], known[c] + 1, th[t].manifest) => known'[c] = known[c] + 1
            /\ ~Unlike(nas[c], known[c] + 1, th[t].manifest) => known'[c] = known[c]
        BY <2>1, <2>7, RegisterStep DEF Undisturbed
      <3> SUFFICES ASSUME Undisturbed PROVE Versions'
        BY <3>1 DEF Versions
      <3>2. /\ th[t].version \in Nat /\ known[c] \in Nat /\ Len(nas[c]) \in Nat
            /\ known[c] <= Len(nas[c]) /\ Len(nas[c]) <= known[c] + 1 /\ (Len(nas[c]) > known[c] => Registering(c))
            /\ th[t].version > 0 /\ th[t].version <= Len(nas[c]) /\ Unlike(nas[c], th[t].version, th[t].manifest)
            /\ nas[c][th[t].version] = th[t].manifest
        BY <1>0, <2>1, <3>1, VersionTypes DEF Versions
      <3>3. CASE th[t].version = known[c] + 1
        <4>1. known'[c] = known[c] + 1 /\ Len(nas[c]) = known[c] + 1
          BY <3>1, <3>2, <3>3
        <4> QED
          <5>1. ASSUME NEW n \in Nights
                PROVE  (known[n] <= Len(nas[n]) /\ Len(nas[n]) <= known[n] + 1 /\ (Len(nas[n]) > known[n] => Registering(n)))'
            <6>1. CASE n = c
              BY <3>1, <3>2, <4>1, <6>1
            <6>2. CASE n # c
              <7>1. Registering(n) => Registering(n)'
                BY <2>1, <2>2, <3>1, <6>2 DEF Registering
              <7> QED
                BY <1>0, <3>1, <6>2, <7>1 DEF Versions
            <6> QED
              BY <6>1, <6>2
          <5>2. ASSUME NEW u \in Threads, NEW n \in Nights, th'[u].night = n, th'[u].pc = "write"
                PROVE  (th[u].version > 0 /\ th[u].version <= known[n] + 1 /\ Unlike(nas[n], th[u].version, th[u].manifest))'
            <6>1. u # t /\ th'[u] = th[u] /\ known[n] \in Nat /\ known'[n] >= known[n] /\ th[u].version \in Nat /\ known'[n] \in Nat
              BY <2>2, <3>1, <3>2, <4>1, <5>2, VersionTypes
            <6>2. th[u].version > 0 /\ th[u].version <= known[n] + 1 /\ Unlike(nas[n], th[u].version, th[u].manifest)
              BY <1>0, <5>2, <6>1 DEF Versions
            <6> QED
              BY <3>1, <6>1, <6>2 DEF Unlike
          <5>3. ASSUME NEW u \in Threads, NEW n \in Nights, th'[u].night = n, th'[u].pc = "register"
                PROVE  (/\ th[u].version > 0 /\ th[u].version <= Len(nas[n]) /\ Unlike(nas[n], th[u].version, th[u].manifest)
                        /\ nas[n][th[u].version] = th[u].manifest)'
            BY <1>0, <2>2, <3>1, <5>3 DEF Versions, Unlike
          <5> QED
            BY <5>1, <5>2, <5>3 DEF Versions
      <3>4. CASE th[t].version # known[c] + 1
        <4>1. th[t].version \in 1..((known[c] + 1) - 1)
          BY <3>2, <3>4
        <4>2. known'[c] = known[c]
          BY <3>1, <3>2, <4>1 DEF Unlike
        <4>3. \A n \in Nights : known'[n] = known[n]
          BY <3>1, <4>2
        <4> QED
          <5>1. ASSUME NEW n \in Nights
                PROVE  (known[n] <= Len(nas[n]) /\ Len(nas[n]) <= known[n] + 1 /\ (Len(nas[n]) > known[n] => Registering(n)))'
            <6>1. Registering(n) => Registering(n)'
              BY <2>1, <2>2, <3>1, <3>4, <4>3 DEF Registering
            <6> QED
              BY <1>0, <3>1, <4>3, <6>1 DEF Versions
          <5>2. ASSUME NEW u \in Threads, NEW n \in Nights, th'[u].night = n, th'[u].pc = "write"
                PROVE  (th[u].version > 0 /\ th[u].version <= known[n] + 1 /\ Unlike(nas[n], th[u].version, th[u].manifest))'
            BY <1>0, <2>2, <3>1, <4>3, <5>2 DEF Versions, Unlike
          <5>3. ASSUME NEW u \in Threads, NEW n \in Nights, th'[u].night = n, th'[u].pc = "register"
                PROVE  (/\ th[u].version > 0 /\ th[u].version <= Len(nas[n]) /\ Unlike(nas[n], th[u].version, th[u].manifest)
                        /\ nas[n][th[u].version] = th[u].manifest)'
            BY <1>0, <2>2, <3>1, <5>3 DEF Versions, Unlike
          <5> QED
            BY <5>1, <5>2, <5>3 DEF Versions
      <3> QED
        BY <3>3, <3>4
    <2> QED
      BY <1>4, <2>3, <2>4, <2>5, <2>6, <2>7 DEF Closer
  <1>5. ASSUME NEW p \in Pollers, Crash(p) PROVE Versions'
    <2>1. ~Undisturbed'
      BY <1>5 DEF Crash, Undisturbed, One, TypeOK
    <2> QED
      BY <2>1 DEF Versions
  <1>6. CASE Rebuild
    <2>1. nas' = nas /\ \A n \in Nights : known'[n] = Len(nas[n])
      BY <1>6 DEF Rebuild
    <2>2. \A t \in Threads : th'[t].pc = "idle"
      BY <1>6, IdleTyped DEF Rebuild
    <2> QED
      BY <2>1, <2>2, VersionTypes DEF Versions
  <1>7. CASE Plan
    <2>1. nas' = nas /\ known' = known /\ th' = th
      BY <1>7 DEF Plan, PlanBegin, PlanCommit, PlanGivenUp, PlanDone, fileVars, pollVars
    <2>2. Undisturbed' = Undisturbed
      BY <1>7 DEF Plan, PlanBegin, PlanCommit, PlanGivenUp, PlanDone, Undisturbed, One, TypeOK
    <2> QED
      BY <1>0, <2>1, <2>2, VersionsStay
  <1>8. CASE UNCHANGED vars
    BY <1>0, <1>8, VersionsStay DEF vars, fileVars, pollVars, Undisturbed
  <1>9. ASSUME NEW p \in Pollers, Poll(p) \/ \E f \in Files : Collect(p, f) PROVE Versions'
    BY <1>2, <1>3, <1>9 DEF One, Single
  <1> QED
    BY <1>1, <1>4, <1>5, <1>6, <1>7, <1>8, <1>9 DEF Next


-----------------------------------------------------------------------------
LEMMA WithinOrder ==
    /\ \A m \in Manifests : Within(m, m)
    /\ \A m, k, l \in Manifests : Within(m, k) /\ Within(k, l) => Within(m, l)
    /\ \A m, k \in Manifests : Within(m, k) /\ Within(k, m) => m = k
  BY DEF Within, Manifests

LEMMA NowTyped ==
    ASSUME One, NEW n \in Nights
    PROVE  Now(n) \in Manifests /\ Now(n).files = (frames \ rebuilt) \cap OfNight(n)
  BY DEF One, TypeOK, Now, Manifests, OfNight

(* A step that closes nothing of the night, and adds at most frames whose     *)
(* threads will close it.                                                     *)
LEMMA Elsewhere ==
    ASSUME One, NEW n \in Nights, Sound(n), rebuilt' = rebuilt, nas'[n] = nas[n], known'[n] = known[n], listed'[n] = listed[n],
           frames \subseteq frames', named \subseteq named',
           \A t \in Threads : Holds(t, n)' => Holds(t, n) /\ th'[t] = th[t],
           night'[n] = "closed" => night[n] = "closed" /\ (Reclosing(n) => Reclosing(n)'),
           \A g \in frames' \cap OfNight(n) : g \notin frames => Owing(g)' /\ Reclosing(n)',
           \A g \in frames \cap OfNight(n) : Owing(g) /\ (\E t \in Threads : Holds(t, n)) => Owing(g)'
    PROVE  Sound(n)'
  <1>1. Alone(n)'
    BY DEF Sound, Alone
  <1>2. ASSUME NEW m, Within(m, Now(n)) PROVE Within(m, Now(n)')
    BY <1>2 DEF Within, Now
  <1>3. Growing(n)'
    <2> SUFFICES ASSUME NEW v \in 1..Len(nas[n])
                 PROVE  Within(nas[n][v], Now(n)') /\ \A w \in v..Len(nas[n]) : Within(nas[n][v], nas[n][w])
      BY DEF Growing, Within
    <2> QED
      BY <1>2 DEF Sound, Growing
  <1>4. Carried(n)'
    <2> SUFFICES ASSUME NEW t \in Threads, Holds(t, n)'
                 PROVE  /\ Covers(n, th[t].manifest)'
                        /\ (th[t].pc \in {"write", "register"} => th[t].version = known[n] + 1)'
                        /\ (th[t].pc = "close" => Newest(n, th[t].manifest))'
      BY DEF Carried
    <2>1. Holds(t, n) /\ th'[t] = th[t]
      OBVIOUS
    <2>2. /\ Covers(n, th[t].manifest)
          /\ th[t].pc \in {"write", "register"} => th[t].version = known[n] + 1
          /\ th[t].pc = "close" => Newest(n, th[t].manifest)
      BY <2>1 DEF Sound, Carried
    <2> DEFINE m == th[t].manifest
    <2> HIDE DEF m
    <2>3. Covers(n, m)
      BY <2>2 DEF m
    <2>4. Within(m, Now(n)')
      BY <1>2, <2>3 DEF Covers
    <2>5. \A v \in 1..Len(nas[n]) : Within(nas[n][v], m)
      BY <2>3 DEF Covers
    <2>6. \A g \in (frames' \cap OfNight(n)) \ m.files : Owing(g)'
      BY <2>1, <2>3 DEF Covers
    <2>7. th'[t].manifest = m
      BY <2>1 DEF m
    <2>8. Covers(n, th[t].manifest)'
      <3>1. \A v \in 1..Len(nas'[n]) : Within(nas'[n][v], m)
        BY <2>5
      <3>2. \A g \in (frames' \cap OfNight(n)) \ m.files : Owing(g)'
        BY <2>6
      <3> HIDE DEF m
      <3> QED
        BY <2>4, <2>7, <3>1, <3>2 DEF Covers, Within, OfNight
    <2> QED
      BY <2>1, <2>2, <2>8 DEF Newest
  <1>5. (night[n] = "closed" => Settled(n) \/ Reclosing(n))'
    <2> SUFFICES ASSUME night'[n] = "closed", Settled(n), ~Reclosing(n)'
                 PROVE  Settled(n)'
      BY DEF Sound
    <2>1. frames' \cap OfNight(n) = frames \cap OfNight(n)
      OBVIOUS
    <2> QED
      BY <2>1 DEF Settled, Newest, OfNight
  <1> QED
    BY <1>1, <1>3, <1>4, <1>5 DEF Sound

LEMMA CloserElsewhere ==
    ASSUME One, NEW t \in Threads, Closer(t), NEW c \in Nights, th[t].night = c
    PROVE  /\ \A n \in Nights \ {c} : night'[n] = night[n] /\ nas'[n] = nas[n] /\ known'[n] = known[n] /\ listed'[n] = listed[n] /\ requests'[n] = requests[n]
           /\ crossed \subseteq crossed'
  BY BuildStep, ChooseStep, WriteStep, RegisterStep, CloseStep DEF Closer, nightVars, fileVars, planVars

LEMMA OtherNight ==
    ASSUME One, NEW t \in Threads, Closer(t), NEW c \in Nights, th[t].night = c, NEW n \in Nights, n # c, Sound(n)
    PROVE  Sound(n)'
  <1>1. /\ UNCHANGED <<named, frames, rebuilt>> /\ \A u \in Threads \ {t} : th'[u] = th[u]
        /\ (th'[t] = Idle \/ (th'[t].pc \in Closing /\ th'[t].night = c)) /\ (t[2] \in Files => c = NightOf[t[2]])
    BY CloserStep
  <1>2. night'[n] = night[n] /\ nas'[n] = nas[n] /\ known'[n] = known[n] /\ listed'[n] = listed[n]
    BY CloserElsewhere
  <1>3. \A u \in Threads : Holds(u, n)' => Holds(u, n) /\ th'[u] = th[u]
    BY <1>1, IdleTyped DEF Holds, InHand, One
  <1>4. Reclosing(n) => Reclosing(n)'
    BY <1>1 DEF Reclosing, Fresh
  <1>5. ASSUME NEW g \in frames \cap OfNight(n), Owing(g) PROVE Owing(g)'
    <2>1. g \in Files /\ NightOf[g] = n
      BY DEF OfNight
    <2>2. <<Daemon, g>> \in Threads /\ <<Daemon, g>>[2] = g
      BY <2>1, OnlyDaemon DEF One
    <2>3. <<Daemon, g>> # t
      BY <2>1, <2>2, CloserStep
    <2> QED
      BY <1>1, <1>5, <2>2, <2>3 DEF Owing, Fresh
  <1> QED
    BY <1>1, <1>2, <1>3, <1>4, <1>5, Elsewhere

(* The night of a thread that closes it: nobody else has a manifest in hand.  *)
LEMMA OwnNight ==
    ASSUME One, NEW t \in Threads, Closer(t), NEW c \in Nights, th[t].night = c, Plain(c), Plain(c)', Sound(c)
    PROVE  Sound(c)'
  <1>1. /\ UNCHANGED <<named, frames, rebuilt>> /\ \A u \in Threads \ {t} : th'[u] = th[u]
        /\ th[t] \in Memories /\ th[t].manifest \in Manifests
    BY CloserStep DEF Memories
  <1>2. rebuilt = {} /\ Undisturbed /\ Versions
    BY DEF Plain, One, Kept, AllSound
  <1>3. Now(c) \in Manifests /\ Now(c).files = frames \cap OfNight(c) /\ Now(c)' = Now(c)
    BY <1>1, <1>2, NowTyped DEF Now
  <1>4. known[c] \in Nat /\ Len(nas[c]) \in Nat /\ nas[c] \in Seq(Manifests)
    BY VersionTypes
  <1>5. \A v \in 1..Len(nas[c]) : nas[c][v] \in Manifests
    BY <1>4
  <1>6. ASSUME th[t].pc # "build", NEW g \in Files, Owing(g) PROVE Owing(g)'
    <2>1. <<Daemon, g>> \in Threads
      BY OnlyDaemon DEF One
    <2>2. th[t].pc \in Closing
      BY CloserStep
    <2> QED
      BY <1>1, <1>6, <2>1, <2>2 DEF Owing, Fresh, Closing
  <1>7. ASSUME Holds(t, c) PROVE \A u \in Threads \ {t} : ~Holds(u, c) /\ ~Holds(u, c)'
    BY <1>1, <1>7 DEF Sound, Alone, Holds
  <1>8. ASSUME Holds(t, c), th[t].pc # "register" PROVE Len(nas[c]) = known[c]
    <2>1. ~Registering(c)
      BY <1>7, <1>8 DEF Registering, Holds, InHand
    <2> QED
      BY <1>2, <1>4, <2>1 DEF Versions
  <1>9. Holds(t, c) => /\ Within(th[t].manifest, Now(c)) /\ \A v \in 1..Len(nas[c]) : Within(nas[c][v], th[t].manifest)
                       /\ \A g \in (frames \cap OfNight(c)) \ th[t].manifest.files : Owing(g)
                       /\ th[t].pc \in {"write", "register"} => th[t].version = known[c] + 1
                       /\ th[t].pc = "close" => Newest(c, th[t].manifest)
    BY DEF Sound, Carried, Covers
  <1>10. \A v \in 1..Len(nas[c]) : Within(nas[c][v], Now(c)) /\ \A w \in v..Len(nas[c]) : Within(nas[c][v], nas[c][w])
    BY DEF Sound, Growing
  <1>11. ASSUME th'[t].pc \in Closing, th'[t].night = c PROVE Reclosing(c)'
    BY <1>11 DEF Reclosing
  <1>12. CASE Build(t)
    <2>1. /\ th[t].pc = "build" /\ th'[t].pc = "version" /\ th'[t].night = c /\ th'[t].manifest = Now(c)
          /\ UNCHANGED <<catVars, nightVars, nas, known, planVars, budget>> /\ Ahead(t) = {}
      BY <1>12, BuildStep DEF Plain
    <2>2. \A u \in Threads : Holds(u, c)' => u = t
      BY <1>1, <2>1 DEF Holds, InHand, Ahead
    <2>3. Alone(c)' /\ Growing(c)'
      BY <1>3, <1>10, <2>1, <2>2 DEF Alone, Growing, Within
    <2>4. Covers(c, th[t].manifest)'
      BY <1>1, <1>3, <1>10, <2>1, WithinOrder DEF Covers, Within, OfNight
    <2>5. Carried(c)'
      BY <2>1, <2>2, <2>4 DEF Carried
    <2> QED
      BY <1>11, <2>1, <2>3, <2>5 DEF Sound, Closing
  <1>13. CASE ChooseVersion(t)
    <2>1. /\ th[t].pc = "version" /\ th'[t].pc \in {"close", "write"} /\ th'[t].night = c
          /\ th'[t].manifest = th[t].manifest /\ th'[t].version = known[c] + 1
          /\ th'[t].pc = "write" <=> Unlike(nas[c], known[c] + 1, th[t].manifest)
          /\ UNCHANGED <<nas, known, listed>>
      BY <1>13, ChooseStep DEF fileVars, nightVars
    <2>2. Holds(t, c)
      BY <2>1 DEF Holds, InHand
    <2>3. Len(nas[c]) = known[c]
      BY <1>8, <2>1, <2>2
    <2>4. \A u \in Threads : Holds(u, c)' => u = t
      BY <1>7, <2>2
    <2>5. Alone(c)' /\ Growing(c)'
      BY <1>3, <1>10, <2>1, <2>4 DEF Alone, Growing, Within
    <2>6. \A g \in (frames \cap OfNight(c)) \ th[t].manifest.files : Owing(g)'
      BY <1>6, <1>9, <2>1, <2>2 DEF OfNight
    <2>7. Covers(c, th[t].manifest)'
      BY <1>1, <1>3, <1>9, <2>1, <2>2, <2>6 DEF Covers, Within, OfNight
    <2>8. ASSUME th'[t].pc = "close" PROVE Newest(c, th[t].manifest)
      <3>1. PICK v \in 1..known[c] : nas[c][v] = th[t].manifest
        <4>1. 1..((known[c] + 1) - 1) = 1..known[c]
          BY <1>4
        <4> QED
          BY <2>1, <2>8, <4>1 DEF Unlike
      <3>2. known[c] > 0 /\ known[c] \in 1..Len(nas[c]) /\ known[c] \in v..Len(nas[c]) /\ v \in 1..Len(nas[c])
        BY <1>4, <2>3, <3>1
      <3>3. Within(nas[c][v], nas[c][known[c]]) /\ Within(nas[c][known[c]], th[t].manifest)
        BY <1>9, <1>10, <2>2, <3>2
      <3> QED
        BY <1>1, <1>5, <3>1, <3>2, <3>3, WithinOrder DEF Newest
    <2>9. Carried(c)'
      BY <2>1, <2>4, <2>7, <2>8 DEF Carried, Newest
    <2> QED
      BY <1>11, <2>1, <2>5, <2>9 DEF Sound, Closing
  <1>14. CASE WriteManifest(t)
    <2>1. /\ th[t].pc = "write" /\ UNCHANGED <<nightVars, known, crossed>>
          /\ th'[t] = Idle \/ /\ th'[t].pc = "register" /\ th'[t].night = c /\ th'[t].version = th[t].version
                              /\ th'[t].manifest = th[t].manifest
          /\ \/ th[t].version > Len(nas[c]) /\ nas'[c] = Append(nas[c], th[t].manifest) /\ th'[t] # Idle
             \/ th[t].version <= Len(nas[c])
      <3>1. Idle.pc = "idle"
        BY DEF Idle
      <3> QED
        BY <1>14, <3>1, WriteStep DEF Plain
    <2>2. Holds(t, c)
      BY <2>1 DEF Holds, InHand
    <2>3. Len(nas[c]) = known[c] /\ th[t].version = known[c] + 1
      BY <1>8, <1>9, <2>1, <2>2
    <2>4. nas'[c] = Append(nas[c], th[t].manifest) /\ th'[t].pc = "register" /\ th'[t].night = c /\ th'[t].version = known[c] + 1
          /\ th'[t].manifest = th[t].manifest
      BY <1>4, <2>1, <2>3
    <2>5. /\ Len(nas'[c]) = Len(nas[c]) + 1 /\ nas'[c][Len(nas[c]) + 1] = th[t].manifest
          /\ \A v \in 1..Len(nas[c]) : nas'[c][v] = nas[c][v]
      BY <1>1, <1>4, <2>4
    <2>6. \A v \in 1..Len(nas'[c]) : v = Len(nas[c]) + 1 \/ v \in 1..Len(nas[c])
      BY <1>4, <2>5
    <2>7. \A v \in 1..Len(nas'[c]) : Within(nas'[c][v], th[t].manifest)
      BY <1>1, <1>9, <2>2, <2>5, <2>6, WithinOrder
    <2>8. \A u \in Threads : Holds(u, c)' => u = t
      BY <1>7, <2>2
    <2>9. Growing(c)'
      <3> SUFFICES ASSUME NEW v \in 1..Len(nas'[c]), NEW w \in v..Len(nas'[c])
                   PROVE  Within(nas'[c][v], Now(c)) /\ Within(nas'[c][v], nas'[c][w])
        <4>1. ASSUME NEW v \in 1..Len(nas'[c]) PROVE v \in v..Len(nas'[c])
          BY <1>4, <2>5
        <4> QED
          BY <1>3, <4>1 DEF Growing, Within
      <3>1. w \in 1..Len(nas'[c])
        BY <1>4, <2>5
      <3>2. CASE w = Len(nas[c]) + 1
        <4>1. nas'[c][w] = th[t].manifest /\ Within(nas'[c][v], nas'[c][w])
          BY <2>5, <2>7, <3>2
        <4>2. Within(nas'[c][v], Now(c))
          <5>1. v = Len(nas[c]) + 1 => Within(nas'[c][v], Now(c))
            BY <1>9, <2>2, <2>5
          <5>2. v \in 1..Len(nas[c]) => Within(nas'[c][v], Now(c))
            BY <1>10, <2>5
          <5> QED
            BY <2>6, <5>1, <5>2
        <4> QED
          BY <4>1, <4>2
      <3>3. CASE w \in 1..Len(nas[c])
        <4>1. v \in 1..Len(nas[c]) /\ w \in v..Len(nas[c])
          BY <1>4, <3>3
        <4> QED
          BY <1>10, <2>5, <3>3, <4>1
      <3> QED
        BY <2>6, <3>1, <3>2, <3>3
    <2>10. \A g \in (frames \cap OfNight(c)) \ th[t].manifest.files : Owing(g)'
      BY <1>6, <1>9, <2>1, <2>2 DEF OfNight
    <2>11. Covers(c, th[t].manifest)'
      BY <1>1, <1>3, <1>9, <2>2, <2>4, <2>7, <2>10 DEF Covers, Within, OfNight
    <2>12. Carried(c)'
      BY <2>1, <2>4, <2>8, <2>11 DEF Carried
    <2> QED
      BY <1>11, <2>4, <2>8, <2>9, <2>12 DEF Sound, Closing, Alone
  <1>15. CASE Register(t)
    <2>1. /\ th[t].pc = "register" /\ th'[t].pc = "close" /\ th'[t].night = c /\ th'[t].manifest = th[t].manifest
          /\ Unlike(nas[c], known[c] + 1, th[t].manifest) => known'[c] = known[c] + 1
          /\ UNCHANGED <<nas, listed>>
      BY <1>15, RegisterStep DEF nightVars
    <2>2. Holds(t, c)
      BY <2>1 DEF Holds, InHand
    <2>3. th[t].version = known[c] + 1 /\ Unlike(nas[c], th[t].version, th[t].manifest) /\ nas[c][th[t].version] = th[t].manifest
      BY <1>2, <1>9, <2>1, <2>2 DEF Versions
    <2>4. known'[c] = known[c] + 1 /\ nas'[c][known[c] + 1] = th[t].manifest /\ known[c] + 1 > 0
      BY <1>4, <2>1, <2>3
    <2>5. \A u \in Threads : Holds(u, c)' => u = t
      BY <1>7, <2>2
    <2>6. Alone(c)' /\ Growing(c)'
      BY <1>3, <1>10, <2>1, <2>5 DEF Alone, Growing, Within
    <2>7. \A g \in (frames \cap OfNight(c)) \ th[t].manifest.files : Owing(g)'
      BY <1>6, <1>9, <2>1, <2>2 DEF OfNight
    <2>8. Covers(c, th[t].manifest)'
      BY <1>1, <1>3, <1>9, <2>1, <2>2, <2>7 DEF Covers, Within, OfNight
    <2>9. Carried(c)'
      BY <2>1, <2>4, <2>5, <2>8 DEF Carried, Newest
    <2> QED
      BY <1>11, <2>1, <2>6, <2>9 DEF Sound, Closing
  <1>16. CASE Close(t)
    <2>1. /\ th[t].pc = "close" /\ th'[t] = Idle /\ night'[c] = "closed" /\ listed'[c] = th[t].manifest
          /\ UNCHANGED <<nas, known>>
      BY <1>16, CloseStep DEF fileVars
    <2>2. Holds(t, c)
      BY <2>1 DEF Holds, InHand
    <2>3. \A u \in Threads : ~Holds(u, c)'
      BY <1>7, <2>1, <2>2, IdleTyped DEF Holds, InHand
    <2>4. Alone(c)' /\ Growing(c)' /\ Carried(c)'
      BY <1>3, <1>10, <2>1, <2>3 DEF Alone, Growing, Carried, Within
    <2>5. CASE frames \cap OfNight(c) \subseteq th[t].manifest.files
      <3>1. th[t].manifest.files = frames \cap OfNight(c)
        BY <1>3, <1>9, <2>2, <2>5 DEF Within
      <3>2. Settled(c)'
        BY <1>1, <1>9, <2>1, <2>2, <3>1 DEF Settled, Newest, OfNight
      <3> QED
        BY <2>4, <3>2 DEF Sound
    <2>6. ASSUME NEW g \in (frames \cap OfNight(c)) \ th[t].manifest.files PROVE Reclosing(c)'
      <3>1. Owing(g) /\ g \in Files /\ NightOf[g] = c
        BY <1>9, <2>2, <2>6 DEF OfNight
      <3> DEFINE u == <<Daemon, g>>
      <3>2. u \in Threads /\ u[2] = g /\ th[u].pc # "close"
        BY <3>1, OnlyDaemon DEF One, Owing, Fresh
      <3>3. u # t /\ th'[u] = th[u] /\ th[u].pc # "idle"
        BY <1>1, <2>1, <3>1, <3>2 DEF Owing, Fresh
      <3>4. th[u].night = c
        BY <3>1, <3>2, <3>3, OnlyDaemon DEF One, Placed
      <3> QED
        BY <3>1, <3>2, <3>3, <3>4 DEF Owing, Reclosing, Fresh, Closing
    <2> QED
      BY <2>4, <2>5, <2>6 DEF Sound
  <1> QED
    BY <1>12, <1>13, <1>14, <1>15, <1>16 DEF Closer

LEMMA NextAllSound == ASSUME One, [Next]_vars PROVE AllSound'
  <1>0. (budget.rebuilds = 0 => rebuilt = {}) /\ \A n \in Nights : Plain(n) => Sound(n)
    BY DEF One, Kept, AllSound
  <1>1. ASSUME (\E f \in Files : Capture(f) \/ Remove(f) \/ Exclude(f)) \/ (\E n \in Nights : SessionEnd(n) \/ Quiescence(n))
        PROVE  AllSound'
    <2>1. /\ UNCHANGED <<named, frames, rebuilt, listed, nas, known, crossed, th>>
          /\ Undisturbed' = Undisturbed /\ budget'.rebuilds = budget.rebuilds
          /\ \A n \in Nights : (night'[n] = "closed" <=> night[n] = "closed")
      BY <1>1, OutsideStep DEF fileVars, pollVars
    <2>2. \A n \in Nights : Plain(n)' => Plain(n)
      BY <2>1 DEF Plain
    <2>3. ASSUME NEW n \in Nights, Sound(n) PROVE Sound(n)'
      BY <2>1, <2>3, Elsewhere DEF Holds, Reclosing, Fresh, Owing
    <2> QED
      BY <1>0, <2>1, <2>2, <2>3 DEF AllSound
  <1>2. ASSUME Poll(Daemon) PROVE AllSound'
    <2> DEFINE main == <<Daemon, Main>>
    <2>1. /\ UNCHANGED <<named, frames, rebuilt, night, listed, nas, known, crossed, budget>>
          /\ \A u \in Threads \ {main} : th'[u] = th[u]
          /\ th' = th \/ ((\A u \in Threads : th[u] = Idle) /\ th'[main].pc = "build")
      BY <1>2, PollStep DEF fileVars, nightVars
    <2>2. \A n \in Nights : Plain(n)' => Plain(n)
      BY <2>1 DEF Plain, Undisturbed
    <2>3. ASSUME NEW n \in Nights, Sound(n) PROVE Sound(n)'
      <3>1. CASE th' = th
        BY <2>1, <2>3, <3>1, Elsewhere DEF Holds, Reclosing, Fresh, Owing
      <3>2. CASE (\A u \in Threads : th[u] = Idle) /\ th'[main].pc = "build"
        <4>1. \A u \in Threads : Holds(u, n)' => Holds(u, n) /\ th'[u] = th[u]
          BY <2>1, <3>2 DEF Holds, InHand
        <4>2. ~Reclosing(n)
          BY <3>2, IdleTyped DEF Reclosing, Fresh, Closing
        <4>3. \A u \in Threads : ~Holds(u, n)
          BY <3>2, IdleTyped DEF Holds, InHand
        <4> QED
          BY <2>1, <2>3, <4>1, <4>2, <4>3, Elsewhere
      <3> QED
        BY <2>1, <3>1, <3>2
    <2> QED
      BY <1>0, <2>1, <2>2, <2>3 DEF AllSound
  <1>3. ASSUME NEW f \in Files, Collect(Daemon, f) PROVE AllSound'
    <2> DEFINE t == <<Daemon, f>>
    <2>1. /\ UNCHANGED <<rebuilt, listed, nas, known, crossed>>
          /\ Undisturbed' = Undisturbed /\ budget'.rebuilds = budget.rebuilds
          /\ frames \subseteq frames' /\ frames' \subseteq frames \cup {f} /\ named \subseteq named'
          /\ \A n \in Nights : (night'[n] = "closed" <=> night[n] = "closed")
          /\ \A u \in Threads \ {t} : th'[u] = th[u]
          /\ th[t].pc \notin Closing /\ th'[t].pc \notin Closing \ {"build"}
          /\ th'[t].pc # "idle" => th'[t].night = NightOf[f]
          /\ f \notin frames /\ f \in frames' => Fresh(t)'
          /\ Fresh(t) => Fresh(t)' \/ th'[t].pc = "build" \/ night[NightOf[f]] # "closed"
          /\ th[t] # Idle \/ f \in batch[Daemon]
      BY <1>3, CollectStep
    <2>2. t \in Threads /\ t[2] = f /\ (th[t].pc # "idle" => th[t].night = NightOf[f]) /\ NightOf[f] \in Nights
      BY OnlyDaemon, NightsAssumption DEF One, Placed
    <2>3. \A n \in Nights : Plain(n)' => Plain(n)
      BY <2>1 DEF Plain
    <2>4. ASSUME NEW n \in Nights, Sound(n) PROVE Sound(n)'
      <3>1. ASSUME NEW u \in Threads, Holds(u, n)' PROVE Holds(u, n) /\ th'[u] = th[u]
        <4>1. u # t
          BY <2>1, <3>1 DEF Holds, InHand, Closing
        <4> QED
          BY <2>1, <3>1, <4>1 DEF Holds
      <3>2. ASSUME night'[n] = "closed", Reclosing(n) PROVE Reclosing(n)'
        <4>1. PICK u \in Threads : th[u].night = n /\ (th[u].pc \in Closing \/ Fresh(u))
          BY <3>2 DEF Reclosing
        <4>2. CASE u = t
          <5>1. Fresh(t) /\ NightOf[f] = n
            BY <2>1, <2>2, <4>1, <4>2 DEF Fresh
          <5>2. Fresh(t)' \/ th'[t].pc = "build"
            BY <2>1, <3>2, <5>1
          <5> QED
            BY <2>1, <2>2, <5>1, <5>2 DEF Reclosing, Fresh, Closing
        <4>3. CASE u # t
          BY <2>1, <4>1, <4>3 DEF Reclosing, Fresh
        <4> QED
          BY <4>2, <4>3
      <3>3. ASSUME NEW g \in frames' \cap OfNight(n), g \notin frames PROVE Owing(g)' /\ Reclosing(n)'
        <4>1. g = f /\ NightOf[f] = n /\ Fresh(t)'
          BY <2>1, <3>3 DEF OfNight
        <4> QED
          BY <2>1, <2>2, <4>1 DEF Owing, Reclosing, Fresh
      <3>4. ASSUME NEW g \in frames \cap OfNight(n), Owing(g), NEW u \in Threads, Holds(u, n) PROVE Owing(g)'
        <4>1. g \in Files /\ NightOf[g] = n /\ <<Daemon, g>> \in Threads
          BY OnlyDaemon DEF OfNight, One
        <4>2. CASE g # f
          <5>1. <<Daemon, g>> # t
            BY <4>1, <4>2, OnlyDaemon DEF One
          <5> QED
            BY <2>1, <3>4, <4>1, <5>1 DEF Owing, Fresh
        <4>3. CASE g = f
          <5>1. Fresh(t)
            BY <2>1, <3>4, <4>3 DEF Owing, Closing
          <5>2. night[n] = "closed"
            <6>1. u = <<Daemon, u[2]>> /\ (u[2] = Main => u = <<Daemon, Main>>)
              BY OnlyDaemon DEF One
            <6>2. th[<<Daemon, Main>>] = Idle
              BY <2>1, MainAlone
            <6>3. u[2] # Main
              BY <3>4, <6>1, <6>2, IdleTyped DEF Holds, InHand
            <6> QED
              BY <3>4, <6>3 DEF One, Kept, Working, Holds, InHand, Closing
          <5> QED
            BY <2>1, <4>1, <4>3, <5>1, <5>2 DEF Owing
        <4> QED
          BY <4>2, <4>3
      <3>5. night'[n] = "closed" => night[n] = "closed"
        BY <2>1
      <3> HIDE DEF t
      <3> QED
        BY <2>1, <2>4, <3>1, <3>2, <3>3, <3>4, <3>5, Elsewhere
    <2> QED
      BY <1>0, <2>1, <2>3, <2>4 DEF AllSound
  <1>4. ASSUME NEW t \in Threads, Closer(t) PROVE AllSound'
    <2>1. PICK c \in Nights : th[t].night = c
      BY <1>4, CloserStep
    <2>2. rebuilt' = rebuilt /\ (Undisturbed' => Undisturbed) /\ budget'.rebuilds = budget.rebuilds
      BY <1>4, CloserStep
    <2>3. \A n \in Nights : Plain(n)' => Plain(n)
      BY <1>4, <2>1, <2>2, CloserElsewhere DEF Plain
    <2>4. ASSUME NEW n \in Nights, Plain(n)' PROVE Sound(n)'
      BY <1>0, <1>4, <2>1, <2>3, <2>4, OtherNight, OwnNight
    <2> QED
      BY <1>0, <2>2, <2>4 DEF AllSound
  <1>5. ASSUME NEW p \in Pollers, Crash(p) PROVE AllSound'
    <2>1. ~Undisturbed' /\ rebuilt' = rebuilt /\ budget'.rebuilds = budget.rebuilds
      BY <1>5 DEF Crash, Undisturbed, catVars, One, TypeOK
    <2> QED
      BY <1>0, <2>1 DEF AllSound, Plain
  <1>6. CASE Rebuild
    <2>1. budget'.rebuilds # 0
      BY <1>6 DEF Rebuild, One, TypeOK
    <2> QED
      BY <2>1 DEF AllSound, Plain
  <1>7. ASSUME Plan \/ UNCHANGED vars PROVE AllSound'
    <2>1. UNCHANGED <<named, frames, rebuilt, night, listed, nas, known, crossed, th>>
      BY <1>7 DEF Plan, PlanBegin, PlanCommit, PlanGivenUp, PlanDone, vars, catVars, nightVars, fileVars, pollVars
    <2>2. Undisturbed' = Undisturbed /\ budget'.rebuilds = budget.rebuilds
      BY <1>7 DEF Plan, PlanBegin, PlanCommit, PlanGivenUp, PlanDone, vars, Undisturbed, One, TypeOK
    <2>3. \A n \in Nights : Plain(n)' => Plain(n)
      BY <2>1, <2>2 DEF Plain
    <2>4. ASSUME NEW n \in Nights, Sound(n) PROVE Sound(n)'
      BY <2>1, <2>4, Elsewhere DEF Holds, Reclosing, Fresh, Owing
    <2> QED
      BY <1>0, <2>1, <2>2, <2>3, <2>4 DEF AllSound
  <1>8. ASSUME NEW p \in Pollers, Poll(p) \/ \E f \in Files : Collect(p, f) PROVE AllSound'
    BY <1>2, <1>3, <1>8 DEF One, Single
  <1> QED
    BY <1>1, <1>4, <1>5, <1>6, <1>7, <1>8 DEF Next

-----------------------------------------------------------------------------
(* Steps of the planner, and steps that leave it alone. *)
LEMMA FramesGrow ==
    ASSUME One, [Next]_vars, ~Rebuild
    PROVE  frames \subseteq frames' /\ (UNCHANGED <<planned, planner, missed>> \/ Plan \/ \E p \in Pollers : Crash(p))
  <1>1. CASE (\E f \in Files : Capture(f) \/ Remove(f) \/ Exclude(f)) \/ (\E n \in Nights : SessionEnd(n) \/ Quiescence(n))
    BY <1>1, OutsideStep DEF planVars
  <1>2. ASSUME NEW p \in Pollers, Poll(p) \/ \E f \in Files : Collect(p, f)
        PROVE  frames \subseteq frames' /\ UNCHANGED <<planned, planner, missed>>
    BY <1>2, PollStep, CollectStep DEF planVars, One, Single
  <1>3. ASSUME NEW t \in Threads, Closer(t) PROVE frames' = frames /\ UNCHANGED <<planned, planner, missed>>
    <2>1. PICK c \in Nights : th[t].night = c
      BY <1>3, CloserStep
    <2> QED
      BY <1>3, <2>1, CloserStep, BuildStep, ChooseStep, WriteStep, RegisterStep, CloseStep DEF Closer, planVars
  <1>4. CASE Plan \/ (\E p \in Pollers : Crash(p)) \/ UNCHANGED vars
    BY <1>4 DEF Plan, PlanBegin, PlanCommit, PlanGivenUp, PlanDone, Crash, catVars, vars, planVars
  <1> QED
    BY <1>1, <1>2, <1>3, <1>4 DEF Next

LEMMA PlanStep ==
    ASSUME One, Plan
    PROVE  \/ \E n \in Nights : /\ planner = NoPlan /\ requests[n] > 0 /\ requests' = requests /\ planned' = planned
                                /\ planner'.pc = "plan" /\ planner'.night = n /\ planner'.seen = frames \cap OfNight(n)
                                /\ missed' = missed \ {n}
           \/ /\ planner.pc = "plan" /\ planner'.pc = "done" /\ planner'.night = planner.night /\ planner'.seen = planner.seen
              /\ requests' = requests
              /\ \/ missed' = missed /\ planned' = [planned EXCEPT ![planner.night] = planner.seen]
                 \/ missed' = missed \cup {planner.night} /\ planned' = planned
           \/ /\ planner.pc = "done" /\ planner' = NoPlan /\ UNCHANGED <<planned, missed>>
              /\ requests' = [requests EXCEPT ![planner.night] = @ - 1]
  <1>1. planner \in [pc : {"idle", "plan", "done"}, night : Nights \cup {Main}, seen : SUBSET Files]
    BY DEF One, TypeOK
  <1>2. ASSUME NEW n \in Nights, PlanBegin(n)
        PROVE  /\ planner = NoPlan /\ requests[n] > 0 /\ requests' = requests /\ planned' = planned
               /\ planner'.pc = "plan" /\ planner'.night = n /\ planner'.seen = frames \cap OfNight(n) /\ missed' = missed \ {n}
    BY <1>2 DEF PlanBegin, NoPlan, One, Placed
  <1>3. CASE PlanCommit
    BY <1>1, <1>3 DEF PlanCommit
  <1>4. CASE PlanGivenUp
    BY <1>1, <1>4 DEF PlanGivenUp
  <1>5. CASE PlanDone
    BY <1>5 DEF PlanDone
  <1> QED
    BY <1>2, <1>3, <1>4, <1>5 DEF Plan

LEMMA NextPlanHeld == ASSUME One, [Next]_vars PROVE PlanHeld'
  <1>0. /\ PlanHeld /\ planner.pc \in {"idle", "plan", "done"} /\ NoPlan.pc = "idle" /\ frames \subseteq Files
        /\ planned \in [Nights -> SUBSET Files] /\ (planner.pc # "idle" => planner.night \in Nights)
    BY DEF One, Kept, TypeOK, NoPlan, Placed
  <1>1. CASE Rebuild
    BY <1>0, <1>1 DEF Rebuild, PlanHeld
  <1>2. CASE ~Rebuild /\ UNCHANGED <<planned, planner, missed>>
    BY <1>0, <1>2, FramesGrow DEF PlanHeld, OfNight
  <1>3. ASSUME ~Rebuild, NEW p \in Pollers, Crash(p) PROVE PlanHeld'
    <2>1. frames' = frames /\ planned' = planned /\ missed' = missed /\ (planner' = NoPlan \/ planner' = planner)
      BY <1>3 DEF Crash, catVars
    <2> QED
      BY <1>0, <2>1 DEF PlanHeld, OfNight
  <1>4. ASSUME Plan PROVE PlanHeld'
    <2>1. frames' = frames
      BY <1>4 DEF Plan, PlanBegin, PlanCommit, PlanGivenUp, PlanDone, catVars
    <2>2. CASE planner.pc = "done" /\ planner' = NoPlan /\ UNCHANGED <<planned, missed>>
      BY <1>0, <2>1, <2>2 DEF PlanHeld, OfNight
    <2>3. ASSUME NEW n \in Nights, planned' = planned, planner'.pc = "plan", planner'.night = n, planner'.seen = frames \cap OfNight(n)
          PROVE  PlanHeld'
      BY <1>0, <2>1, <2>3 DEF PlanHeld, OfNight
    <2>4. CASE /\ planner.pc = "plan" /\ planner'.pc = "done" /\ planner'.night = planner.night /\ planner'.seen = planner.seen
               /\ \/ missed' = missed /\ planned' = [planned EXCEPT ![planner.night] = planner.seen]
                  \/ missed' = missed \cup {planner.night} /\ planned' = planned
      BY <1>0, <2>1, <2>4 DEF PlanHeld, OfNight
    <2> QED
      BY <1>4, <2>2, <2>3, <2>4, PlanStep
  <1> QED
    BY <1>1, <1>2, <1>3, <1>4, FramesGrow

(* A frame that is seen to stays so. *)
LEMMA SeenStays ==
    ASSUME One, NEW g \in frames, Seen(g),
           Plan \/ /\ UNCHANGED <<planned, planner, missed>>
                   /\ requests'[NightOf[g]] \in Nat /\ requests'[NightOf[g]] >= requests[NightOf[g]]
    PROVE  Seen(g)'
  <1> DEFINE n == NightOf[g]
  <1>1. /\ n \in Nights /\ requests[n] \in Nat /\ g \in OfNight(n) /\ g \in Files
        /\ Main \notin Nights /\ NoPlan.night = Main
    BY NightsAssumption DEF One, TypeOK, OfNight, NoPlan
  <1>2. requests \in [Nights -> Nat] /\ planned \in [Nights -> SUBSET Files] /\ (planner.pc # "idle" => planner.night \in Nights)
    BY DEF One, TypeOK, Placed
  <1>3. CASE UNCHANGED <<planned, planner, missed>> /\ requests'[n] \in Nat /\ requests'[n] >= requests[n]
    <2> DEFINE k == IF planner.night = n /\ g \notin planner.seen THEN 1 ELSE 0
    <2>1. requests[n] > k => requests'[n] > k
      BY <1>1, <1>3
    <2> QED
      BY <1>1, <1>3, <2>1 DEF Seen, Asked
  <1>4. CASE Plan
    <2>1. ASSUME NEW m \in Nights, planner = NoPlan, requests[m] > 0, requests' = requests, planned' = planned,
                 planner'.night = m, planner'.seen = frames \cap OfNight(m), missed' = missed \ {m}
          PROVE  Seen(g)'
      <3>1. CASE m = n
        BY <1>1, <2>1, <3>1 DEF Seen, Asked
      <3>2. CASE m # n
        BY <1>1, <2>1, <3>2 DEF Seen, Asked
      <3> QED
        BY <3>1, <3>2
    <2>2. CASE /\ planner.pc = "plan" /\ planner'.night = planner.night /\ planner'.seen = planner.seen /\ requests' = requests
               /\ \/ missed' = missed /\ planned' = [planned EXCEPT ![planner.night] = planner.seen]
                  \/ missed' = missed \cup {planner.night} /\ planned' = planned
      <3>1. planned[planner.night] \subseteq planner.seen
        BY <2>2 DEF One, Kept, PlanHeld
      <3> QED
        BY <1>1, <1>2, <2>2, <3>1 DEF Seen, Asked
    <2>3. CASE planner.pc = "done" /\ planner' = NoPlan /\ UNCHANGED <<planned, missed>> /\ requests' = [requests EXCEPT ![planner.night] = @ - 1]
      <3>1. planner.night \in missed \/ planner.seen \subseteq planned[planner.night]
        BY <2>3 DEF One, Kept, PlanHeld
      <3>2. CASE n \in missed \/ g \in planned[n]
        BY <2>3, <3>2 DEF Seen
      <3>3. CASE planner.night # n /\ Asked(g)
        BY <1>1, <1>2, <2>3, <3>3 DEF Seen, Asked
      <3>4. CASE planner.night = n /\ g \in planner.seen
        BY <2>3, <3>1, <3>4 DEF Seen
      <3>5. CASE planner.night = n /\ g \notin planner.seen /\ Asked(g)
        <4>1. requests[n] > 1 /\ requests'[n] = requests[n] - 1
          BY <1>1, <1>2, <2>3, <3>5 DEF Asked
        <4> QED
          BY <1>1, <2>3, <4>1 DEF Seen, Asked
      <3> QED
        BY <3>2, <3>3, <3>4, <3>5 DEF Seen
    <2> QED
      BY <1>4, <2>1, <2>2, <2>3, PlanStep
  <1> QED
    BY <1>3, <1>4


(* A step that closes no night and leaves the manifests alone. *)
LEMMA LateStays ==
    ASSUME One, LateHeld, Undisturbed, rebuilt' = rebuilt, nas' = nas,
           \A n \in Nights : night'[n] = "closed" => night[n] = "closed",
           \A g \in frames \ rebuilt : Seen(g) => Seen(g)',
           \A g \in frames \ rebuilt : night[NightOf[g]] = "closed" /\ Asking(g) => Asking(g)',
           \A n \in Nights : Finishing(n) => Finishing(n)',
           \A g \in frames' \ frames : Fresh(<<Daemon, g>>)',
           \A g \in Files : Overtaken(g)' => Overtaken(g),
           frames' \subseteq Files
    PROVE  LateHeld'
  <1> SUFFICES ASSUME NEW g \in frames' \ rebuilt
               PROVE  /\ (night[NightOf[g]] = "closed" => Seen(g) \/ Asking(g) \/ Finishing(NightOf[g]))'
                      /\ (Overtaken(g) => Seen(g) \/ Finishing(NightOf[g]))'
    BY DEF LateHeld
  <1>1. NightOf[g] \in Nights /\ g \in Files
    BY NightsAssumption
  <1>2. CASE g \in frames
    BY <1>1, <1>2 DEF LateHeld
  <1>3. CASE g \notin frames
    BY <1>1, <1>3 DEF Asking, Overtaken, Fresh
  <1> QED
    BY <1>2, <1>3

LEMMA CloserLate ==
    ASSUME One, TypeOK', NEW t \in Threads, Closer(t), Undisturbed', \A g \in frames : Seen(g) => Seen(g)'
    PROVE  LateHeld'
  <1>1. PICK c \in Nights : th[t].night = c
    BY CloserStep
  <1>2. /\ UNCHANGED <<frames, rebuilt, missed>> /\ Undisturbed /\ th[t].pc \in Closing /\ t \in Threads
        /\ \A u \in Threads \ {t} : th'[u] = th[u]
        /\ t[2] \in Files => c = NightOf[t[2]]
        /\ \A n \in Nights \ {c} : night'[n] = night[n] /\ nas'[n] = nas[n]
        /\ night[c] = IF t[2] = Main THEN "closing" ELSE "closed"
    BY <1>1, CloserStep, CloserElsewhere
  <1>3. /\ \A g \in frames \ rebuilt : /\ night[NightOf[g]] = "closed" => Seen(g) \/ Asking(g) \/ Finishing(NightOf[g])
                                       /\ Overtaken(g) => Seen(g) \/ Finishing(NightOf[g])
        /\ frames \subseteq Files /\ Versions
    BY <1>2 DEF One, Kept, LateHeld, TypeOK
  <1>4. ASSUME \A g \in frames \ rebuilt : NightOf[g] = c =>
                  /\ (night[c] = "closed" => Seen(g) \/ Asking(g) \/ Finishing(c))'
                  /\ (Overtaken(g) => Seen(g) \/ Finishing(c))'
        PROVE  LateHeld'
    <2> SUFFICES ASSUME NEW g \in frames \ rebuilt, NightOf[g] # c
                 PROVE  /\ (night[NightOf[g]] = "closed" => Seen(g) \/ Asking(g) \/ Finishing(NightOf[g]))'
                        /\ (Overtaken(g) => Seen(g) \/ Finishing(NightOf[g]))'
      BY <1>2, <1>4 DEF LateHeld
    <2> DEFINE n == NightOf[g]
               u == <<Daemon, g>>
    <2>1. n \in Nights /\ u \in Threads /\ u[2] = g /\ g \in Files
      BY <1>3, NightsAssumption, OnlyDaemon DEF One
    <2>2. u # t
      BY <1>2, <2>1
    <2>3. th'[u] = th[u] /\ night'[n] = night[n] /\ nas'[n] = nas[n]
      BY <1>2, <2>1, <2>2
    <2>4. Finishing(n) => Finishing(n)'
      BY <1>1, <1>2 DEF Finishing
    <2>5. (Asking(g) => Asking(g)') /\ (Overtaken(g)' => Overtaken(g))
      BY <2>3 DEF Asking, Overtaken, Fresh
    <2> QED
      BY <1>3, <2>3, <2>4, <2>5
  <1>5. ASSUME Finishing(c)' PROVE LateHeld'
    BY <1>4, <1>5
  <1>6. ASSUME night'[c] = "closed" => night[c] = "closed", th[t].pc \in {"build", "version"}, th'[t].pc \in Closing, nas' = nas,
               th'[t].pc = "write" => (th'[t].version <= Len(nas[c]) => Finishing(c))
        PROVE  LateHeld'
    <2> SUFFICES ASSUME NEW g \in frames \ rebuilt, NightOf[g] = c
                 PROVE  /\ (night[c] = "closed" => Seen(g) \/ Asking(g) \/ Finishing(c))'
                        /\ (Overtaken(g) => Seen(g) \/ Finishing(c))'
      BY <1>4
    <2> DEFINE u == <<Daemon, g>>
    <2>1. u \in Threads /\ g \in Files
      BY <1>3, OnlyDaemon DEF One
    <2>2. Finishing(c) => Finishing(c)'
      BY <1>2, <1>6 DEF Finishing
    <2>3. Asking(g) => Asking(g)'
      BY <1>2, <1>6, <2>1 DEF Asking, Fresh, Closing
    <2>4. Overtaken(g)' => Overtaken(g) \/ Finishing(c)
      BY <1>2, <1>6, <2>1 DEF Overtaken
    <2> QED
      BY <1>3, <1>6, <2>2, <2>3, <2>4
  <1>7. CASE Build(t)
    <2>1. th[t].pc = "build" /\ th'[t].pc = "version" /\ night' = night /\ nas' = nas
      BY <1>1, <1>7, BuildStep DEF nightVars
    <2> QED
      BY <1>6, <2>1 DEF Closing
  <1>8. CASE ChooseVersion(t)
    <2>1. th[t].pc = "version" /\ th'[t].pc \in {"close", "write"} /\ th'[t].version = known[c] + 1 /\ night' = night /\ nas' = nas
      BY <1>1, <1>8, ChooseStep DEF nightVars, fileVars
    <2>2. ASSUME th'[t].version <= Len(nas[c]) PROVE Finishing(c)
      <3>1. Registering(c)
        BY <1>2, <1>3, <2>1, <2>2, VersionTypes DEF Versions
      <3> QED
        BY <3>1 DEF Registering, Finishing
    <2> QED
      BY <1>6, <2>1, <2>2 DEF Closing
  <1>9. CASE WriteManifest(t)
    <2>1. /\ th[t].pc = "write" /\ UNCHANGED nightVars
          /\ \/ th'[t].pc = "register" /\ th'[t].night = c
             \/ th[t].version <= Len(nas[c]) /\ nas' = nas /\ th'[t] = Idle
      BY <1>1, <1>9, WriteStep
    <2>2. CASE th'[t].pc = "register" /\ th'[t].night = c
      BY <1>5, <2>2 DEF Finishing
    <2>3. CASE th[t].version <= Len(nas[c]) /\ nas' = nas /\ th'[t] = Idle
      <3> SUFFICES ASSUME NEW g \in frames \ rebuilt, NightOf[g] = c
                   PROVE  /\ (night[c] = "closed" => Seen(g) \/ Asking(g) \/ Finishing(c))'
                          /\ (Overtaken(g) => Seen(g) \/ Finishing(c))'
        BY <1>4
      <3> DEFINE u == <<Daemon, g>>
      <3>1. u \in Threads /\ g \in Files /\ night' = night
        BY <1>3, <2>1, OnlyDaemon DEF One, nightVars
      <3>2. Finishing(c) => Finishing(c)'
        BY <1>2, <2>1 DEF Finishing
      <3>3. CASE u = t
        <4>1. Overtaken(g)
          BY <2>1, <2>3, <3>3 DEF Overtaken
        <4>2. Seen(g)' \/ Finishing(c)'
          BY <1>3, <3>2, <4>1
        <4> QED
          BY <4>2
      <3>4. CASE u # t
        <4>1. (Asking(g) => Asking(g)') /\ (Overtaken(g)' => Overtaken(g))
          BY <1>2, <2>3, <3>1, <3>4 DEF Asking, Overtaken, Fresh
        <4> QED
          BY <1>3, <3>1, <3>2, <4>1
      <3> QED
        BY <3>3, <3>4
    <2> QED
      BY <2>1, <2>2, <2>3
  <1>10. CASE Register(t)
    BY <1>1, <1>5, <1>10, RegisterStep DEF Finishing
  <1>11. CASE Close(t)
    <2>1. requests'[c] = requests[c] + 1 /\ planner' = planner
      BY <1>1, <1>11, CloseStep
    <2>2. ASSUME NEW g \in frames \ rebuilt, NightOf[g] = c PROVE Seen(g)'
      <3>1. requests[c] \in Nat /\ (planner.pc # "idle" => requests[planner.night] > 0) /\ (planner.pc = "idle" => planner = NoPlan)
            /\ NoPlan.night = Main /\ Main \notin Nights
        BY NightsAssumption DEF One, TypeOK, Placed, NoPlan
      <3>2. planner.night = c => requests[c] > 0
        BY <3>1
      <3>3. Asked(g)'
        BY <2>1, <2>2, <3>1, <3>2 DEF Asked
      <3> QED
        BY <3>3 DEF Seen
    <2> QED
      BY <1>4, <2>2
  <1> QED
    BY <1>7, <1>8, <1>9, <1>10, <1>11 DEF Closer

LEMMA NextLateHeld == ASSUME One, [Next]_vars PROVE LateHeld'
  <1>0. TypeOK' /\ LateHeld /\ requests \in [Nights -> Nat] /\ frames \subseteq Files
        /\ \A g \in Files : NightOf[g] \in Nights /\ <<Daemon, g>> \in Threads
    BY NextTyped, NightsAssumption, OnlyDaemon DEF One, Kept, TypeOK
  <1>1. ASSUME requests' = requests, UNCHANGED <<planned, planner, missed>>, NEW g \in frames, Seen(g) PROVE Seen(g)'
    BY <1>1 DEF Seen, Asked
  <1>2. ASSUME rebuilt' = rebuilt, frames' = frames, nas' = nas, th' = th, Undisturbed' => Undisturbed,
               \A n \in Nights : night'[n] = "closed" => night[n] = "closed",
               \A g \in frames : Seen(g) => Seen(g)'
        PROVE  LateHeld'
    <2> SUFFICES ASSUME Undisturbed PROVE LateHeld'
      BY <1>2 DEF LateHeld
    <2> QED
      BY <1>0, <1>2, LateStays DEF Asking, Finishing, Overtaken, Fresh
  <1>3. CASE (\E f \in Files : Capture(f) \/ Remove(f) \/ Exclude(f)) \/ (\E n \in Nights : SessionEnd(n) \/ Quiescence(n))
    BY <1>1, <1>2, <1>3, OutsideStep DEF fileVars, pollVars, planVars
  <1>4. CASE Poll(Daemon)
    <2> DEFINE main == <<Daemon, Main>>
    <2>1. /\ UNCHANGED <<frames, rebuilt, night, nas, planVars>> /\ Undisturbed' = Undisturbed
          /\ \A u \in Threads \ {main} : th'[u] = th[u]
          /\ th' = th \/ ((\A u \in Threads : th[u] = Idle) /\ th'[main].pc = "build")
      BY <1>4, PollStep DEF fileVars, nightVars, Undisturbed
    <2>2. CASE th' = th
      BY <1>1, <1>2, <2>1, <2>2 DEF planVars
    <2>3. CASE (\A u \in Threads : th[u] = Idle) /\ th'[main].pc = "build"
      <3> SUFFICES ASSUME Undisturbed PROVE LateHeld'
        BY <2>1 DEF LateHeld
      <3>1. \A n \in Nights : ~Finishing(n)
        BY <2>3, IdleTyped DEF Finishing
      <3>2. \A g \in Files : <<Daemon, g>> # main
        BY OnlyDaemon DEF One
      <3>3. \A g \in Files : ~Asking(g) /\ ~Overtaken(g)'
        BY <1>0, <2>1, <2>3, <3>2, IdleTyped DEF Asking, Fresh, Closing, Overtaken
      <3> HIDE DEF main
      <3> QED
        BY <1>0, <1>1, <2>1, <3>1, <3>3, LateStays DEF planVars
    <2> QED
      BY <2>1, <2>2, <2>3
  <1>5. ASSUME NEW f \in Files, Collect(Daemon, f) PROVE LateHeld'
    <2> DEFINE t == <<Daemon, f>>
    <2>1. /\ UNCHANGED <<rebuilt, nas, planVars>>
          /\ Undisturbed' = Undisturbed
          /\ frames' \subseteq frames \cup {f}
          /\ \A n \in Nights : (night'[n] = "closed" <=> night[n] = "closed")
          /\ \A u \in Threads \ {t} : th'[u] = th[u]
          /\ th[t].pc \notin Closing /\ th'[t].pc \notin Closing \ {"build"}
          /\ f \notin frames /\ f \in frames' => Fresh(t)'
          /\ Fresh(t) => Fresh(t)' \/ th'[t].pc = "build" \/ night[NightOf[f]] # "closed"
      BY <1>5, CollectStep
    <2> SUFFICES ASSUME Undisturbed PROVE LateHeld'
      BY <2>1 DEF LateHeld
    <2>2. \A g \in Files \ {f} : <<Daemon, g>> # t /\ <<Daemon, g>> \in Threads
      BY OnlyDaemon DEF One
    <2>3. ASSUME NEW g \in frames \ rebuilt, night[NightOf[g]] = "closed", Asking(g) PROVE Asking(g)'
      <3>1. CASE g = f
        BY <2>1, <2>3, <3>1 DEF Asking, Closing
      <3>2. CASE g # f
        BY <1>0, <2>1, <2>2, <2>3, <3>2 DEF Asking, Fresh
      <3> QED
        BY <3>1, <3>2
    <2>4. \A n \in Nights : Finishing(n) => Finishing(n)'
      BY <2>1 DEF Finishing, Closing
    <2>5. ASSUME NEW g \in Files, Overtaken(g)' PROVE Overtaken(g)
      <3>1. g # f
        BY <2>1, <2>5 DEF Overtaken, Closing
      <3> QED
        BY <2>1, <2>2, <2>5, <3>1 DEF Overtaken
    <2>6. \A g \in frames' \ frames : Fresh(<<Daemon, g>>)'
      BY <2>1
    <2>7. \A g \in frames \ rebuilt : Seen(g) => Seen(g)'
      BY <1>1, <2>1 DEF planVars
    <2>8. frames' \subseteq Files
      BY <1>0, <2>1
    <2>9. \A n \in Nights : night'[n] = "closed" => night[n] = "closed"
      BY <2>1
    <2> QED
      BY <1>0, <2>1, <2>3, <2>4, <2>5, <2>6, <2>7, <2>8, <2>9, LateStays
  <1>6. ASSUME NEW t \in Threads, Closer(t) PROVE LateHeld'
    <2>1. PICK c \in Nights : th[t].night = c
      BY <1>6, CloserStep
    <2>2. UNCHANGED <<planned, planner, missed>>
      BY <1>6, <2>1, BuildStep, ChooseStep, WriteStep, RegisterStep, CloseStep DEF Closer, planVars
    <2>3. \A n \in Nights : requests'[n] \in Nat /\ requests'[n] >= requests[n]
      <3>1. requests'[c] = requests[c] \/ requests'[c] = requests[c] + 1
        BY <1>6, <2>1, BuildStep, ChooseStep, WriteStep, RegisterStep, CloseStep DEF Closer, planVars
      <3> QED
        BY <1>0, <1>6, <2>1, <3>1, CloserElsewhere
    <2>4. \A g \in frames : Seen(g) => Seen(g)'
      BY <1>0, <2>2, <2>3, SeenStays
    <2> QED
      BY <1>0, <1>6, <2>4, CloserLate DEF LateHeld
  <1>7. ASSUME NEW p \in Pollers, Crash(p) PROVE LateHeld'
    <2>1. ~Undisturbed'
      BY <1>7 DEF Crash, Undisturbed, One, TypeOK
    <2> QED
      BY <2>1 DEF LateHeld
  <1>8. CASE Rebuild
    BY <1>8 DEF Rebuild, LateHeld
  <1>9. CASE Plan
    <2>1. UNCHANGED <<rebuilt, frames, night, nas, th>>
      BY <1>9 DEF Plan, PlanBegin, PlanCommit, PlanGivenUp, PlanDone, catVars, nightVars, fileVars, pollVars
    <2>2. Undisturbed' = Undisturbed
      BY <1>9 DEF Plan, PlanBegin, PlanCommit, PlanGivenUp, PlanDone, Undisturbed, One, TypeOK
    <2>3. \A g \in frames : Seen(g) => Seen(g)'
      BY <1>9, SeenStays
    <2> QED
      BY <1>2, <2>1, <2>2, <2>3
  <1>10. CASE UNCHANGED vars
    BY <1>1, <1>2, <1>10 DEF vars, catVars, nightVars, fileVars, pollVars, planVars, Undisturbed
  <1>11. ASSUME NEW p \in Pollers, Poll(p) \/ \E f \in Files : Collect(p, f) PROVE LateHeld'
    BY <1>4, <1>5, <1>11 DEF One, Single
  <1> QED
    BY <1>3, <1>6, <1>7, <1>8, <1>9, <1>10, <1>11 DEF Next

-----------------------------------------------------------------------------
LEMMA InitKept == ASSUME Single, Init PROVE One
  <1>1. TypeOK /\ Placed
    BY InitTyped
  <1>2. \A t \in Threads : th[t] = Idle
    BY DEF Init
  <1>3. Turns
    BY <1>1, <1>2, OnlyDaemon DEF Init, Turns
  <1>4. Working /\ Versions
    BY <1>2, IdleTyped DEF Init, Working, Versions, Closing
  <1>5. \A n \in Nights : Sound(n)
    BY <1>2, IdleTyped DEF Init, Sound, Alone, Growing, Carried, Holds, InHand
  <1>6. AllSound /\ PlanHeld /\ LateHeld
    BY <1>5 DEF Init, AllSound, PlanHeld, LateHeld, NoPlan
  <1> QED
    BY <1>1, <1>3, <1>4, <1>6 DEF One, Kept

LEMMA KeptHolds == ASSUME Single PROVE Spec => []One
  <1>1. Init => One
    BY InitKept
  <1>2. One /\ [Next]_vars => One'
    <2> SUFFICES ASSUME One, [Next]_vars PROVE One'
      OBVIOUS
    <2>1. TypeOK' /\ Placed'
      BY NextTyped DEF One
    <2>2. Kept'
      BY NextTurns, NextWorking, NextVersions, NextAllSound, NextPlanHeld, NextLateHeld DEF Kept
    <2> QED
      BY <2>1, <2>2 DEF One, Single
  <1> QED
    BY <1>1, <1>2, PTL DEF Spec

(* SPEC 7.3, manifest.py and rig_worker.py: with altaird alone polling the rig  *)
(* and any number of collecting threads, the newest manifest of a closed night *)
(* lists all its frames, unless two threads of the night held a manifest at    *)
(* once, altaird crashed, the NAS failed or the catalog was rebuilt.           *)
THEOREM ManifestCompleteHolds == ASSUME Pollers = {Daemon} PROVE Spec => []ManifestComplete
  <1>0. Single
    BY DEF Single
  <1>1. One => ManifestComplete
    <2> SUFFICES ASSUME One, Undisturbed, budget.rebuilds = 0, NEW n \in Nights \ crossed, night[n] = "closed", AtRest
                 PROVE  Complete(n)
      BY DEF ManifestComplete
    <2>1. Settled(n) \/ Reclosing(n)
      BY DEF One, Kept, AllSound, Plain, Sound
    <2>2. ~Reclosing(n)
      BY IdleTyped DEF AtRest, Reclosing, Fresh, Closing
    <2> QED
      BY <2>1, <2>2 DEF Settled, Newest, Complete
  <1> QED
    BY <1>0, <1>1, KeptHolds, PTL

(* SPEC 7.3: with altaird alone polling the rig and any number of collecting   *)
(* threads, a frame of a closed night is planned, or a request or a thread     *)
(* will see to it, unless altaird crashed, the NAS failed, the frame is a       *)
(* rebuild's or the planning of its night was given up.                       *)
THEOREM LateFramesPlannedHolds == ASSUME Pollers = {Daemon} PROVE Spec => []LateFramesPlanned
  <1>0. Single
    BY DEF Single
  <1>1. One => LateFramesPlanned
    <2> SUFFICES ASSUME One, Undisturbed, NEW g \in frames \ rebuilt, NightOf[g] \notin missed, night[NightOf[g]] = "closed",
                        g \notin planned[NightOf[g]]
                 PROVE  \/ requests[NightOf[g]] > IF planner.night = NightOf[g] /\ g \notin planner.seen THEN 1 ELSE 0
                        \/ \E p \in Pollers : th[<<p, g>>] # Idle
                        \/ \E t \in Threads : th[t].night = NightOf[g] /\ th[t].pc \in Closing
      BY DEF LateFramesPlanned, PlanIsComing, Closing
    <2>1. Seen(g) \/ Asking(g) \/ Finishing(NightOf[g])
      BY DEF One, Kept, LateHeld
    <2>2. CASE Seen(g)
      BY <2>2 DEF Seen, Asked
    <2>3. CASE Asking(g)
      BY <2>3, IdleTyped, NightsAssumption DEF Asking, Fresh, Closing
    <2>4. CASE Finishing(NightOf[g])
      BY <2>4 DEF Finishing, Closing
    <2> QED
      BY <2>1, <2>2, <2>3, <2>4
  <1> QED
    BY <1>0, <1>1, KeptHolds, PTL
=============================================================================
