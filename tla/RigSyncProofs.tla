--------------------------- MODULE RigSyncProofs ---------------------------
(***************************************************************************)
(* What the rig agent keeps between its two databases, for every set of    *)
(* targets and plans, every number of changes, faults and renames:          *)
(* proofs about module RigSync.  The loops over targets and plans are       *)
(* recursive functions of the ids; what a turn preserves, all of them do    *)
(* (InductionToLastId), by the least id that would break it.                *)
(***************************************************************************)
EXTENDS RigSync, WellFoundedInduction, SequenceTheorems, TLAPS

(***************************************************************************)
(* Naturals, least elements and rows                                       *)
(***************************************************************************)
LEMMA LeastElement ==
    ASSUME NEW S, S \subseteq Nat, S # {}
    PROVE  \E x \in S : \A y \in S : x <= y
<1>1. IsWellFoundedOn(OpToRel(<, Nat), Nat)
  BY NatLessThanWellFounded
<1>2. PICK x \in S : \A y \in S : ~(<<y, x>> \in OpToRel(<, Nat))
  BY <1>1, WFMin
<1>3. \A y \in S : ~(y < x)
  BY <1>2 DEF OpToRel
<1> QED
  BY <1>3

LEMMA InductionToLastId ==
    ASSUME NEW good, 0 \in good, \A n \in 1..LastId : n - 1 \in good => n \in good
    PROVE  0..LastId \subseteq good
<1>1. SUFFICES ASSUME (0..LastId) \ good # {}
               PROVE  FALSE
  OBVIOUS
<1>2. PICK n \in (0..LastId) \ good : \A m \in (0..LastId) \ good : n <= m
  <2>1. (0..LastId) \ good \subseteq Nat
    BY TargetsNumbered
  <2> QED
    BY <1>1, <2>1, LeastElement
<1>3. n \in 1..LastId
  BY <1>2, TargetsNumbered
<1>4. n - 1 \in 0..LastId /\ ~(n <= n - 1)
  BY <1>3, TargetsNumbered
<1> QED
  BY <1>2, <1>3, <1>4

LEMMA LowestIs ==
    ASSUME NEW S, S \subseteq Nat \ {0}
    PROVE  /\ S = {} => Lowest(S) = 0
           /\ S # {} => Lowest(S) \in S
<1>1. ASSUME S # {} PROVE Min(S) \in S
  BY <1>1, LeastElement DEF Min
<1> QED
  BY <1>1 DEF Lowest

\* A row written by id, or appended: the others stay as they are.
LEMMA PutIs ==
    ASSUME NEW T, NEW s \in Seq(T), NEW i \in 0..Len(s), NEW row \in T
    PROVE  /\ Put(s, i, row) \in Seq(T)
           /\ Row(s, i) \in DOMAIN Put(s, i, row) /\ Row(s, i) \in Nat \ {0}
           /\ Put(s, i, row)[Row(s, i)] = row
           /\ DOMAIN s \subseteq DOMAIN Put(s, i, row) /\ Len(s) <= Len(Put(s, i, row))
           /\ \A j \in DOMAIN Put(s, i, row) : j = Row(s, i) \/ (j \in DOMAIN s /\ Put(s, i, row)[j] = s[j])
           /\ \A j \in DOMAIN s : j = Row(s, i) \/ Put(s, i, row)[j] = s[j]
<1>1. CASE i = 0
  BY <1>1, AppendProperties DEF Put, Row
<1>2. CASE i # 0
  <2>1. Put(s, i, row) = [s EXCEPT ![i] = row] /\ Row(s, i) = i
    BY <1>2 DEF Put, Row
  <2>2. i \in 1..Len(s) /\ DOMAIN s = 1..Len(s)
    BY <1>2
  <2> QED
    BY <2>1, <2>2
<1> QED
  BY <1>1, <1>2

(***************************************************************************)
(* The loops                                                               *)
(***************************************************************************)
\* The plans of a list, turn by turn.
LEMMA UpsertPlansIs ==
    ASSUME NEW d, NEW row, NEW plans
    PROVE  \E g : /\ UpsertPlans(d, row, plans) = g[LastId]
                  /\ g[0] = d
                  /\ \A n \in 1..LastId : g[n] = IF n \in plans THEN UpsertPlan(g[n-1], row, n) ELSE g[n-1]
<1> DEFINE Is(g, k) == g = [n \in 0..k |-> IF n = 0 THEN d ELSE IF n \in plans THEN UpsertPlan(g[n-1], row, n) ELSE g[n-1]]
<1>1. \E g : Is(g, LastId)
  <2> DEFINE good == {k \in Nat : \E g : Is(g, k)}
  <2>2. 0 \in good
    <3>1. Is([n \in 0..0 |-> d], 0)
      OBVIOUS
    <3> QED
      BY <3>1
  <2>3. ASSUME NEW k \in 1..LastId, k - 1 \in good
        PROVE  k \in good
    <3>1. PICK g : Is(g, k - 1)
      BY <2>3
    <3> DEFINE h == [n \in 0..k |-> IF n = k THEN IF n \in plans THEN UpsertPlan(g[n-1], row, n) ELSE g[n-1] ELSE g[n]]
    <3>3. Is(h, k)
      BY <2>3, <3>1, TargetsNumbered
    <3>4. k \in Nat
      BY <2>3, TargetsNumbered
    <3> QED
      BY <3>3, <3>4
  <2>4. 0..LastId \subseteq good
    <3> HIDE DEF good
    <3> QED
      BY <2>2, <2>3, InductionToLastId
  <2> QED
    BY <2>4, TargetsNumbered
<1>2. PICK g : g = CHOOSE f : Is(f, LastId)
  OBVIOUS
<1>3. Is(g, LastId)
  BY <1>1, <1>2
<1>4. UpsertPlans(d, row, plans) = g[LastId]
  BY <1>2 DEF UpsertPlans
<1> QED
  BY <1>3, <1>4, TargetsNumbered

\* The targets of a list, turn by turn.
LEMMA SyncAllIs ==
    ASSUME NEW d, NEW list
    PROVE  \E g : /\ SyncAll(d, list) = g[LastId]
                  /\ g[0] = d
                  /\ \A n \in 1..LastId : g[n] = IF n \in DOMAIN list THEN SyncOne(g[n-1], n, list[n]) ELSE g[n-1]
<1> DEFINE Is(g, k) == g = [n \in 0..k |-> IF n = 0 THEN d ELSE IF n \in DOMAIN list THEN SyncOne(g[n-1], n, list[n]) ELSE g[n-1]]
<1>1. \E g : Is(g, LastId)
  <2> DEFINE good == {k \in Nat : \E g : Is(g, k)}
  <2>2. 0 \in good
    <3>1. Is([n \in 0..0 |-> d], 0)
      OBVIOUS
    <3> QED
      BY <3>1
  <2>3. ASSUME NEW k \in 1..LastId, k - 1 \in good
        PROVE  k \in good
    <3>1. PICK g : Is(g, k - 1)
      BY <2>3
    <3> DEFINE h == [n \in 0..k |-> IF n = k THEN IF n \in DOMAIN list THEN SyncOne(g[n-1], n, list[n]) ELSE g[n-1] ELSE g[n]]
    <3>3. Is(h, k)
      BY <2>3, <3>1, TargetsNumbered
    <3>4. k \in Nat
      BY <2>3, TargetsNumbered
    <3> QED
      BY <3>3, <3>4
  <2>4. 0..LastId \subseteq good
    <3> HIDE DEF good
    <3> QED
      BY <2>2, <2>3, InductionToLastId
  <2> QED
    BY <2>4, TargetsNumbered
<1>2. PICK g : g = CHOOSE f : Is(f, LastId)
  OBVIOUS
<1>3. Is(g, LastId)
  BY <1>1, <1>2
<1>4. SyncAll(d, list) = g[LastId]
  BY <1>2 DEF SyncAll
<1> QED
  BY <1>3, <1>4, TargetsNumbered

(***************************************************************************)
(* Sound databases                                                         *)
(***************************************************************************)
ProjectRow == [name : HubProject \cup {Managed}, active : BOOLEAN]
TargetRow  == [project : Nat, name : Target \X Nat, active : BOOLEAN]
PlanRow    == [row : Nat, filter : {Filter[p] : p \in Plan}, desired : Nat, accepted : Nat]
Db         == [projects : Seq(ProjectRow), rows : Seq(TargetRow), plans : Seq(PlanRow)]
Links      == [target : [Target -> [row : Nat, project : Nat]], plan : [Plan -> Nat], project : [HubProject -> Nat]]
Listed(t)  == [name : {t} \X Nat, plans : SUBSET PlansOf(t)]

\* Every row and every link names rows that exist.
RowsExist(db) ==
    /\ \A i \in DOMAIN db.rows : db.rows[i].project \in DOMAIN db.projects
    /\ \A i \in DOMAIN db.plans : db.plans[i].row \in DOMAIN db.rows
LinksExist(d) ==
    /\ \A t \in Target : d.links.target[t].row \in 0..Len(d.db.rows)
    /\ \A p \in Plan : d.links.plan[p] \in 0..Len(d.db.plans)
    /\ \A h \in HubProject : d.links.project[h] \in 0..Len(d.db.projects)
Typed(d) == d \in [db : Db, links : Links] /\ RowsExist(d.db) /\ LinksExist(d)

\* A link's row is of the target or the plan that it links.
TargetAgrees(d, t) ==
    LET link == d.links.target[t]
    IN  link.row # 0 => d.db.rows[link.row].name[1] = t /\ d.db.rows[link.row].project = link.project
PlanAgrees(d, p) ==
    d.links.plan[p] # 0 => /\ d.db.plans[d.links.plan[p]].row = d.links.target[Owner[p]].row
                           /\ d.db.plans[d.links.plan[p]].filter = Filter[p]
Sound(d) == Typed(d) /\ (\A t \in Target : TargetAgrees(d, t)) /\ (\A p \in Plan : PlanAgrees(d, p))

\* Nothing is lost: rows keep their target, plans also their counts.
Grown(db, e) ==
    /\ DOMAIN db.rows \subseteq DOMAIN e.rows /\ DOMAIN db.plans \subseteq DOMAIN e.plans
    /\ \A i \in DOMAIN db.rows : e.rows[i].name = db.rows[i].name
    /\ \A i \in DOMAIN db.plans : /\ e.plans[i].row = db.plans[i].row /\ e.plans[i].filter = db.plans[i].filter
                                  /\ e.plans[i].accepted = db.plans[i].accepted

(***************************************************************************)
(* The project of a target                                                 *)
(***************************************************************************)
LEMMA FindProjectIs ==
    ASSUME NEW d, Typed(d), NEW t \in Target
    PROVE  /\ FindProject(d, t) \in 0..Len(d.db.projects)
           /\ Row(d.db.projects, FindProject(d, t)) \in Nat \ {0}
<1>1. \A name : ProjectNamed(d.db, name) \in 0..Len(d.db.projects)
  <2> SUFFICES ASSUME NEW name
               PROVE  ProjectNamed(d.db, name) \in 0..Len(d.db.projects)
    OBVIOUS
  <2> DEFINE S == {i \in DOMAIN d.db.projects : d.db.projects[i].name = name}
  <2>1. d.db.projects \in Seq(ProjectRow)
    BY DEF Typed, Db
  <2>2. S \subseteq 1..Len(d.db.projects) /\ S \subseteq Nat \ {0}
    BY <2>1
  <2>3. Lowest(S) = 0 \/ Lowest(S) \in S
    BY <2>2, LowestIs
  <2> QED
    BY <2>1, <2>2, <2>3 DEF ProjectNamed
<1>2. d.db.projects \in Seq(ProjectRow)
  BY DEF Typed, Db
<1>3. FindProject(d, t) \in 0..Len(d.db.projects)
  BY <1>1, <1>2 DEF FindProject, FindHubProject
<1> QED
  BY <1>2, <1>3 DEF Row

\* The project of the target is there, and active if it was found by the Hub.
InProject(d, z, t, i) ==
    /\ i = Row(d.db.projects, FindProject(d, t))
    /\ i \in DOMAIN z.db.projects /\ i # 0 /\ DOMAIN d.db.projects \subseteq DOMAIN z.db.projects
    /\ \A j \in DOMAIN z.db.projects : j = i \/ (j \in DOMAIN d.db.projects /\ z.db.projects[j] = d.db.projects[j])
    /\ InHubProject(t) => /\ z.db.projects[i] = [name |-> ProjectOf[t], active |-> TRUE]
                          /\ z.links.project = [d.links.project EXCEPT ![ProjectOf[t]] = i]
    /\ ~InHubProject(t) => /\ z.links.project = d.links.project
                           /\ FindProject(d, t) = 0 => z.db.projects[i] = [name |-> Managed, active |-> TRUE]
                           /\ FindProject(d, t) # 0 => z.db.projects = d.db.projects

LEMMA UpsertProjectIs ==
    ASSUME NEW d, Typed(d), NEW t \in Target,
           NEW u, u = UpsertProject(d, t), NEW i, i = Row(d.db.projects, FindProject(d, t))
    PROVE  /\ Typed(u) /\ u.db.rows = d.db.rows /\ u.db.plans = d.db.plans
           /\ u.links.target = d.links.target /\ u.links.plan = d.links.plan
           /\ InProject(d, u, t, i)
<1>1. PICK f : f = FindProject(d, t)
  OBVIOUS
<1>2. f \in 0..Len(d.db.projects)
  BY <1>1, FindProjectIs
<1>3. d.db.projects \in Seq(ProjectRow) /\ d.db \in Db /\ d.links \in Links /\ d = [db |-> d.db, links |-> d.links]
  BY DEF Typed, Db
<1>4. CASE InHubProject(t)
  <2>1. PICK row : row = [name |-> ProjectOf[t], active |-> TRUE]
    OBVIOUS
  <2>0. ProjectOf[t] \in HubProject
    BY <1>4 DEF InHubProject, HubProject
  <2>2. row \in ProjectRow
    BY <2>0, <2>1 DEF ProjectRow
  <2>3. UpsertProject(d, t) = [db    |-> [d.db EXCEPT !.projects = Put(d.db.projects, f, row)],
                               links |-> [d.links EXCEPT !.project[ProjectOf[t]] = Row(d.db.projects, f)]]
    BY <1>1, <1>4, <2>1 DEF UpsertProject, UpsertHubProject
  <2>4. PICK s : s = Put(d.db.projects, f, row)
    OBVIOUS
  <2>6. /\ s \in Seq(ProjectRow) /\ i \in DOMAIN s /\ i \in Nat \ {0} /\ s[i] = row
        /\ DOMAIN d.db.projects \subseteq DOMAIN s /\ Len(d.db.projects) <= Len(s)
        /\ \A j \in DOMAIN s : j = i \/ (j \in DOMAIN d.db.projects /\ s[j] = d.db.projects[j])
        /\ \A j \in DOMAIN d.db.projects : j = i \/ s[j] = d.db.projects[j]
    BY <1>1, <1>2, <1>3, <2>2, <2>4, PutIs
  <2>8. /\ u.db = [d.db EXCEPT !.projects = s] /\ u.links = [d.links EXCEPT !.project[ProjectOf[t]] = i]
        /\ u = [db |-> u.db, links |-> u.links]
    BY <1>1, <2>3, <2>4
  <2>9. /\ u.db \in Db /\ u.db.rows = d.db.rows /\ u.db.plans = d.db.plans /\ u.db.projects = s
    BY <1>3, <2>6, <2>8 DEF Db
  <2>10. /\ u.links \in Links /\ u.links.target = d.links.target /\ u.links.plan = d.links.plan
         /\ u.links.project = [d.links.project EXCEPT ![ProjectOf[t]] = i] /\ d.links.project \in [HubProject -> Nat]
    <3>1. d.links.project \in [HubProject -> Nat]
      BY <1>3 DEF Links
    <3>2. [d.links.project EXCEPT ![ProjectOf[t]] = i] \in [HubProject -> Nat]
      BY <2>6, <3>1
    <3>3. u.links = [d.links EXCEPT !.project = [d.links.project EXCEPT ![ProjectOf[t]] = i]]
      BY <1>3, <2>8 DEF Links
    <3> QED
      BY <1>3, <3>1, <3>2, <3>3 DEF Links
  <2>11. RowsExist(u.db)
    BY <2>6, <2>9 DEF Typed, RowsExist
  <2>12. LinksExist(u)
    <3>1. \A h \in HubProject : u.links.project[h] \in 0..Len(s)
      BY <1>3, <2>0, <2>6, <2>10 DEF Typed, LinksExist
    <3> QED
      BY <2>9, <2>10, <3>1 DEF Typed, LinksExist
  <2>13. Typed(u)
    BY <2>8, <2>9, <2>10, <2>11, <2>12 DEF Typed
  <2> QED
    <3>1. i # 0
      BY <2>6
    <3> QED
      BY <1>1, <1>4, <2>1, <2>6, <2>9, <2>10, <2>13, <3>1 DEF InProject
<1>5. CASE ~InHubProject(t) /\ f # 0
  <2>1. UpsertProject(d, t) = d
    BY <1>1, <1>5 DEF UpsertProject, GetOrCreateProject
  <2>2. Row(d.db.projects, f) = f /\ f \in DOMAIN d.db.projects
    BY <1>2, <1>3, <1>5 DEF Row
  <2> QED
    <3>1. u = d /\ i = f /\ f \in DOMAIN d.db.projects /\ f # 0
      BY <1>1, <1>5, <2>1, <2>2
    <3> QED
      BY <1>1, <1>5, <3>1 DEF InProject
<1>6. CASE ~InHubProject(t) /\ f = 0
  <2>1. PICK row : row = [name |-> Managed, active |-> TRUE]
    OBVIOUS
  <2>2. row \in ProjectRow
    BY <2>1 DEF ProjectRow
  <2>3. UpsertProject(d, t) = [d EXCEPT !.db.projects = Append(@, row)]
    BY <1>1, <1>6, <2>1 DEF UpsertProject, GetOrCreateProject
  <2>4. PICK s : s = Append(d.db.projects, row)
    OBVIOUS
  <2>6. s = Put(d.db.projects, f, row)
    BY <1>6, <2>4 DEF Put
  <2>7. /\ s \in Seq(ProjectRow) /\ i \in DOMAIN s /\ i \in Nat \ {0} /\ s[i] = row
        /\ DOMAIN d.db.projects \subseteq DOMAIN s /\ Len(d.db.projects) <= Len(s)
        /\ \A j \in DOMAIN s : j = i \/ (j \in DOMAIN d.db.projects /\ s[j] = d.db.projects[j])
        /\ \A j \in DOMAIN d.db.projects : j = i \/ s[j] = d.db.projects[j]
    BY <1>1, <1>2, <1>3, <2>2, <2>6, PutIs
  <2>9. u = [db |-> [d.db EXCEPT !.projects = s], links |-> d.links]
    BY <1>3, <2>3, <2>4
  <2>10. /\ u.db \in Db /\ u.db.rows = d.db.rows /\ u.db.plans = d.db.plans /\ u.db.projects = s /\ u.links = d.links
    BY <1>3, <2>7, <2>9 DEF Db
  <2>11. RowsExist(u.db)
    BY <2>7, <2>10 DEF Typed, RowsExist
  <2>12. LinksExist(u)
    <3>1. \A h \in HubProject : u.links.project[h] \in 0..Len(s)
      BY <1>3, <2>7, <2>10 DEF Typed, LinksExist
    <3> QED
      BY <2>10, <3>1 DEF Typed, LinksExist
  <2>13. Typed(u)
    BY <1>3, <2>9, <2>10, <2>11, <2>12 DEF Typed
  <2> QED
    <3>1. i # 0
      BY <2>7
    <3> QED
      BY <1>1, <1>6, <2>1, <2>7, <2>10, <2>13, <3>1 DEF InProject
<1> QED
  BY <1>4, <1>5, <1>6

(***************************************************************************)
(* The row of a target                                                     *)
(***************************************************************************)
Moved(d, m, t, project) ==
    LET r == d.links.target[t].row
    IN  /\ Typed(m) /\ m.links = d.links /\ m.db.projects = d.db.projects /\ m.db.plans = d.db.plans
        /\ DOMAIN m.db.rows = DOMAIN d.db.rows
        /\ \A j \in DOMAIN d.db.rows : /\ m.db.rows[j].name = d.db.rows[j].name
                                       /\ m.db.rows[j].active = d.db.rows[j].active
                                       /\ j # r => m.db.rows[j] = d.db.rows[j]
        /\ r # 0 => m.db.rows[r].project = project
LEMMA MoveTargetIs ==
    ASSUME NEW d, Typed(d), NEW t \in Target, TargetAgrees(d, t), NEW project \in DOMAIN d.db.projects
    PROVE  Moved(d, MoveTarget(d, t, project), t, project)
<1>0. PICK m : m = MoveTarget(d, t, project)
  OBVIOUS
<1>1. PICK link : link = d.links.target[t]
  OBVIOUS
<1>2. /\ d.db.rows \in Seq(TargetRow) /\ d.db.projects \in Seq(ProjectRow) /\ d.db \in Db
      /\ d.links \in Links /\ d = [db |-> d.db, links |-> d.links]
  BY DEF Typed, Db
<1>3. link.row \in 0..Len(d.db.rows) /\ DOMAIN d.db.rows = 1..Len(d.db.rows)
  BY <1>1, <1>2 DEF Typed, LinksExist
<1>4. CASE link.project # project /\ link.row \in DOMAIN d.db.rows
  <2>1. PICK rows : rows = [d.db.rows EXCEPT ![link.row].project = project]
    OBVIOUS
  <2>3. m = [db |-> [d.db EXCEPT !.rows = rows], links |-> d.links]
    BY <1>0, <1>1, <1>2, <1>4, <2>1 DEF MoveTarget, Db
  <2>4. d.db.rows[link.row] \in TargetRow /\ project \in Nat
    BY <1>2, <1>4
  <2>5. [d.db.rows[link.row] EXCEPT !.project = project] \in TargetRow
    BY <2>4 DEF TargetRow
  <2>6. /\ rows \in Seq(TargetRow) /\ DOMAIN rows = DOMAIN d.db.rows
        /\ rows[link.row] = [d.db.rows[link.row] EXCEPT !.project = project]
        /\ \A j \in DOMAIN d.db.rows : j # link.row => rows[j] = d.db.rows[j]
    BY <1>2, <1>4, <2>1, <2>5
  <2>7. rows[link.row].name = d.db.rows[link.row].name /\ rows[link.row].active = d.db.rows[link.row].active /\ rows[link.row].project = project
    BY <2>4, <2>6 DEF TargetRow
  <2>8. m.db \in Db /\ m.links = d.links /\ m.db.projects = d.db.projects /\ m.db.plans = d.db.plans /\ m.db.rows = rows
    <3>1. m.db = [d.db EXCEPT !.rows = rows] /\ m.links = d.links
      BY <2>3
    <3> QED
      BY <1>2, <2>6, <3>1 DEF Db
  <2>9. RowsExist(m.db) /\ LinksExist(m)
    <3>1. Len(rows) = Len(d.db.rows)
      BY <1>2, <2>6
    <3>2. \A j \in DOMAIN rows : rows[j].project \in DOMAIN d.db.projects
      <4>1. \A j \in DOMAIN d.db.rows : d.db.rows[j].project \in DOMAIN d.db.projects
        BY DEF Typed, RowsExist
      <4> QED
        BY <2>6, <2>7, <4>1
    <3>3. RowsExist(m.db)
      BY <2>6, <2>8, <3>2 DEF Typed, RowsExist
    <3>4. LinksExist(m)
      BY <2>8, <3>1 DEF Typed, LinksExist
    <3> QED
      BY <3>3, <3>4
  <2>10. Typed(m)
    BY <1>2, <2>3, <2>8, <2>9 DEF Typed
  <2> QED
    BY <1>0, <1>1, <2>6, <2>7, <2>8, <2>10 DEF Moved
<1>5. CASE ~(link.project # project /\ link.row \in DOMAIN d.db.rows)
  <2>1. m = d
    BY <1>0, <1>1, <1>5 DEF MoveTarget
  <2>2. link.row # 0 => d.db.rows[link.row].project = project
    BY <1>1, <1>3, <1>5 DEF TargetAgrees
  <2> QED
    BY <1>0, <1>1, <2>1, <2>2 DEF Moved
<1> QED
  BY <1>4, <1>5

\* The target's row in the project, found by its name or new.
RowIn(m, s, t, listed, project, r) ==
    /\ Typed(s) /\ s.db.projects = m.db.projects /\ s.db.plans = m.db.plans
    /\ s.links.plan = m.links.plan /\ s.links.project = m.links.project
    /\ s.links.target = [m.links.target EXCEPT ![t] = [row |-> r, project |-> project]] /\ s.links.target[t].row = r
    /\ r \in DOMAIN s.db.rows /\ r \in Nat \ {0}
    /\ s.db.rows[r] = [project |-> project, name |-> listed.name, active |-> TRUE]
    /\ DOMAIN m.db.rows \subseteq DOMAIN s.db.rows
    /\ \A j \in DOMAIN s.db.rows : j = r \/ (j \in DOMAIN m.db.rows /\ s.db.rows[j] = m.db.rows[j])
    /\ r \in DOMAIN m.db.rows => m.db.rows[r].project = project /\ m.db.rows[r].name = listed.name
    /\ r \notin DOMAIN m.db.rows => \A j \in DOMAIN m.db.rows : ~(m.db.rows[j].project = project /\ m.db.rows[j].name = listed.name)
LEMMA SyncedInIs ==
    ASSUME NEW m, Typed(m), NEW t \in Target, NEW project \in DOMAIN m.db.projects, NEW listed \in Listed(t)
    PROVE  \E r : RowIn(m, SyncedIn(m, t, listed, project), t, listed, project, r)
<1>0. PICK s : s = SyncedIn(m, t, listed, project)
  OBVIOUS
<1>1. /\ m.db.rows \in Seq(TargetRow) /\ m.db.projects \in Seq(ProjectRow) /\ m.db \in Db
      /\ m.links \in Links /\ m = [db |-> m.db, links |-> m.links]
  BY DEF Typed, Db
<1> DEFINE Fits == {j \in DOMAIN m.db.rows : m.db.rows[j].project = project /\ m.db.rows[j].name = listed.name}
<1>2. PICK f : f = FindTarget(m.db, project, listed.name)
  OBVIOUS
<1>3. (Fits = {} => f = 0) /\ (Fits # {} => f \in Fits)
  <2>1. Fits \subseteq Nat \ {0}
    BY <1>1
  <2> QED
    BY <1>2, <2>1, LowestIs DEF FindTarget
<1>4. f \in 0..Len(m.db.rows)
  BY <1>1, <1>3
<1>5. PICK row : row = [project |-> project, name |-> listed.name, active |-> TRUE]
  OBVIOUS
<1>6. row \in TargetRow /\ project \in Nat
  BY <1>1, <1>5 DEF TargetRow, Listed
<1>7. PICK rows, i : rows = Put(m.db.rows, f, row) /\ i = Row(m.db.rows, f)
  OBVIOUS
<1>8. /\ rows \in Seq(TargetRow) /\ i \in DOMAIN rows /\ i \in Nat \ {0} /\ rows[i] = row
      /\ DOMAIN m.db.rows \subseteq DOMAIN rows /\ Len(m.db.rows) <= Len(rows)
      /\ \A j \in DOMAIN rows : j = i \/ (j \in DOMAIN m.db.rows /\ rows[j] = m.db.rows[j])
  BY <1>1, <1>4, <1>6, <1>7, PutIs
<1>10. /\ s.db = [m.db EXCEPT !.rows = rows]
       /\ s.links = [m.links EXCEPT !.target[t] = [row |-> i, project |-> project]]
       /\ s = [db |-> s.db, links |-> s.links]
  BY <1>0, <1>2, <1>5, <1>7 DEF SyncedIn, UpsertTarget
<1>11. s.db \in Db /\ s.db.rows = rows /\ s.db.projects = m.db.projects /\ s.db.plans = m.db.plans
  BY <1>1, <1>8, <1>10 DEF Db
<1>12. PICK targets : targets = [m.links.target EXCEPT ![t] = [row |-> i, project |-> project]]
  OBVIOUS
<1>13. m.links.target \in [Target -> [row : Nat, project : Nat]] /\ targets \in [Target -> [row : Nat, project : Nat]]
  <2>1. m.links.target \in [Target -> [row : Nat, project : Nat]]
    BY <1>1 DEF Links
  <2>2. [row |-> i, project |-> project] \in [row : Nat, project : Nat]
    BY <1>6, <1>8
  <2> QED
    BY <1>12, <2>1, <2>2
<1>14. /\ s.links \in Links /\ s.links.target = targets
       /\ s.links.plan = m.links.plan /\ s.links.project = m.links.project
  <2>1. s.links = [m.links EXCEPT !.target = targets]
    BY <1>1, <1>10, <1>12 DEF Links
  <2> QED
    BY <1>1, <1>13, <2>1 DEF Links
<1>15. targets[t] = [row |-> i, project |-> project] /\ (\A u \in Target : u # t => targets[u] = m.links.target[u])
  BY <1>12, <1>13
<1>16. RowsExist(s.db)
  <2>1. \A j \in DOMAIN rows : rows[j].project \in DOMAIN m.db.projects
    <3>1. \A j \in DOMAIN m.db.rows : m.db.rows[j].project \in DOMAIN m.db.projects
      BY DEF Typed, RowsExist
    <3>2. rows[i].project \in DOMAIN m.db.projects
      BY <1>5, <1>8
    <3> QED
      BY <1>8, <3>1, <3>2
  <2> QED
    BY <1>8, <1>11, <2>1 DEF Typed, RowsExist
<1>17. LinksExist(s)
  <2>1. \A u \in Target : targets[u].row \in 0..Len(rows)
    <3>1. targets[t].row \in 0..Len(rows)
      BY <1>8, <1>15
    <3>2. \A u \in Target : u # t => targets[u].row \in 0..Len(rows)
      BY <1>1, <1>8, <1>15 DEF Typed, LinksExist
    <3> QED
      BY <3>1, <3>2
  <2> QED
    BY <1>11, <1>14, <2>1 DEF Typed, LinksExist
<1>18. Typed(s)
  BY <1>10, <1>11, <1>14, <1>16, <1>17 DEF Typed
<1>19. i \in DOMAIN m.db.rows => m.db.rows[i].project = project /\ m.db.rows[i].name = listed.name
  BY <1>1, <1>3, <1>7 DEF Row
<1>20. i \notin DOMAIN m.db.rows => \A j \in DOMAIN m.db.rows : ~(m.db.rows[j].project = project /\ m.db.rows[j].name = listed.name)
  BY <1>1, <1>3, <1>7 DEF Row
<1>21. s.links.target[t].row = i
  BY <1>14, <1>15
<1>22. /\ s.links.target = [m.links.target EXCEPT ![t] = [row |-> i, project |-> project]]
       /\ s.db.rows[i] = [project |-> project, name |-> listed.name, active |-> TRUE]
  BY <1>5, <1>8, <1>11, <1>12, <1>14
<1> HIDE DEF Fits
<1>24. RowIn(m, s, t, listed, project, i)
  BY <1>8, <1>11, <1>14, <1>18, <1>19, <1>20, <1>21, <1>22 DEF RowIn
<1> QED
  BY <1>0, <1>24

(***************************************************************************)
(* The plans of a target                                                   *)
(***************************************************************************)
LEMMA PutPlanIs ==
    ASSUME NEW s \in Seq(PlanRow), NEW f \in 0..Len(s), NEW new \in PlanRow
    PROVE  /\ Put(s, f, new) \in Seq(PlanRow)
           /\ Row(s, f) \in DOMAIN Put(s, f, new) /\ Row(s, f) \in Nat \ {0}
           /\ Put(s, f, new)[Row(s, f)] = new
           /\ DOMAIN s \subseteq DOMAIN Put(s, f, new) /\ Len(s) <= Len(Put(s, f, new))
           /\ \A j \in DOMAIN Put(s, f, new) : j = Row(s, f) \/ (j \in DOMAIN s /\ Put(s, f, new)[j] = s[j])
<1>1. Put(s, f, new) \in Seq(PlanRow)
  BY PutIs
<1>2. Row(s, f) \in DOMAIN Put(s, f, new)
  BY PutIs
<1>3. Row(s, f) \in Nat \ {0}
  BY PutIs
<1>4. Put(s, f, new)[Row(s, f)] = new
  BY PutIs
<1>5. DOMAIN s \subseteq DOMAIN Put(s, f, new) /\ Len(s) <= Len(Put(s, f, new))
  BY PutIs
<1>6. \A j \in DOMAIN Put(s, f, new) : j = Row(s, f) \/ (j \in DOMAIN s /\ Put(s, f, new)[j] = s[j])
  BY PutIs
<1> QED
  BY <1>1, <1>2, <1>3, <1>4, <1>5, <1>6

\* The plan's scheduler row, found by target and filter or new.
PlanIn(d, u, row, p, k) ==
    /\ Typed(u) /\ u.db.rows = d.db.rows /\ u.db.projects = d.db.projects
    /\ u.links.target = d.links.target /\ u.links.project = d.links.project
    /\ \A q \in Plan : q # p => u.links.plan[q] = d.links.plan[q]
    /\ u.links.plan[p] = k /\ k \in DOMAIN u.db.plans /\ k # 0
    /\ u.db.plans[k].row = row /\ u.db.plans[k].filter = Filter[p] /\ u.db.plans[k].desired = Desired[p]
    /\ DOMAIN d.db.plans \subseteq DOMAIN u.db.plans
    /\ \A j \in DOMAIN u.db.plans : j = k \/ (j \in DOMAIN d.db.plans /\ u.db.plans[j] = d.db.plans[j])
    /\ \A j \in DOMAIN d.db.plans : /\ u.db.plans[j].row = d.db.plans[j].row
                                    /\ u.db.plans[j].filter = d.db.plans[j].filter
                                    /\ u.db.plans[j].accepted = d.db.plans[j].accepted
LEMMA UpsertPlanIs ==
    ASSUME NEW d, Typed(d), NEW row \in DOMAIN d.db.rows, NEW p \in Plan, NEW u, u = UpsertPlan(d, row, p)
    PROVE  \E k : PlanIn(d, u, row, p, k)
<1>1. /\ d.db.plans \in Seq(PlanRow) /\ d.db.rows \in Seq(TargetRow) /\ d.db \in Db
      /\ d.links \in Links /\ d = [db |-> d.db, links |-> d.links]
  BY DEF Typed, Db
<1> DEFINE Fits == {j \in DOMAIN d.db.plans : d.db.plans[j].row = row /\ d.db.plans[j].filter = Filter[p]}
<1>2. PICK f : f = FindPlan(d.db, row, Filter[p])
  OBVIOUS
<1>3. (Fits = {} => f = 0) /\ (Fits # {} => f \in Fits)
  <2>1. Fits \subseteq Nat \ {0}
    BY <1>1
  <2> QED
    BY <1>2, <2>1, LowestIs DEF FindPlan
<1>4. f = 0 \/ (f \in DOMAIN d.db.plans /\ d.db.plans[f].row = row /\ d.db.plans[f].filter = Filter[p])
  BY <1>3
<1> HIDE DEF Fits
<1>5. PICK new : new = IF f = 0 THEN [row |-> row, filter |-> Filter[p], desired |-> Desired[p], accepted |-> 0]
                                ELSE [d.db.plans[f] EXCEPT !.desired = Desired[p]]
  OBVIOUS
<1>6. f # 0 => d.db.plans[f] \in PlanRow
  BY <1>1, <1>4
<1>7. row \in Nat /\ Desired[p] \in Nat
  BY <1>1, PlansOwned
<1>8. /\ new \in PlanRow /\ new.row = row /\ new.filter = Filter[p] /\ new.desired = Desired[p]
      /\ f # 0 => new.accepted = d.db.plans[f].accepted
  <2>1. CASE f = 0
    BY <1>5, <1>7, <2>1 DEF PlanRow
  <2>2. CASE f # 0
    BY <1>4, <1>5, <1>6, <1>7, <2>2 DEF PlanRow
  <2> QED
    BY <2>1, <2>2
<1>9. PICK plans, i : plans = Put(d.db.plans, f, new) /\ i = Row(d.db.plans, f)
  OBVIOUS
<1>10. f \in 0..Len(d.db.plans)
  BY <1>1, <1>4
<1>11. /\ plans \in Seq(PlanRow) /\ i \in DOMAIN plans /\ i \in Nat \ {0} /\ plans[i] = new
       /\ DOMAIN d.db.plans \subseteq DOMAIN plans /\ Len(d.db.plans) <= Len(plans)
       /\ \A j \in DOMAIN plans : j = i \/ (j \in DOMAIN d.db.plans /\ plans[j] = d.db.plans[j])
  BY <1>1, <1>8, <1>9, <1>10, PutPlanIs
<1>13. /\ u.db = [d.db EXCEPT !.plans = plans] /\ u.links = [d.links EXCEPT !.plan[p] = i]
       /\ u = [db |-> u.db, links |-> u.links]
  <2>1. f = 0 => plans = Append(d.db.plans, [row |-> row, filter |-> Filter[p], desired |-> Desired[p], accepted |-> 0])
    BY <1>5, <1>9 DEF Put
  <2>2. f # 0 => plans = [d.db.plans EXCEPT ![f] = [d.db.plans[f] EXCEPT !.desired = Desired[p]]]
    BY <1>5, <1>9 DEF Put
  <2>3. u = UpsertPlanAt(d, row, p, f)
    BY <1>2 DEF UpsertPlan
  <2>4. u.links = [d.links EXCEPT !.plan[p] = i] /\ u = [db |-> u.db, links |-> u.links]
    BY <1>9, <2>3 DEF UpsertPlanAt
  <2>5. u.db = [d.db EXCEPT !.plans = plans]
    <3>1. CASE f = 0
      <4>1. u.db = [d.db EXCEPT !.plans = Append(d.db.plans, [row |-> row, filter |-> Filter[p], desired |-> Desired[p], accepted |-> 0])]
        BY <2>3, <3>1 DEF UpsertPlanAt
      <4> QED
        BY <2>1, <3>1, <4>1
    <3>2. CASE f # 0
      <4>1. u.db = [d.db EXCEPT !.plans = [d.db.plans EXCEPT ![f].desired = Desired[p]]]
        BY <2>3, <3>2 DEF UpsertPlanAt
      <4>2. [d.db.plans EXCEPT ![f].desired = Desired[p]] = plans
        BY <2>2, <3>2
      <4> QED
        BY <4>1, <4>2
    <3> QED
      BY <3>1, <3>2
  <2> QED
    BY <2>4, <2>5
<1>14. u.db \in Db /\ u.db.plans = plans /\ u.db.projects = d.db.projects /\ u.db.rows = d.db.rows
  BY <1>1, <1>11, <1>13 DEF Db
<1>15. PICK ids : ids = [d.links.plan EXCEPT ![p] = i]
  OBVIOUS
<1>16. d.links.plan \in [Plan -> Nat] /\ ids \in [Plan -> Nat] /\ ids[p] = i /\ \A q \in Plan : q # p => ids[q] = d.links.plan[q]
  <2>1. d.links.plan \in [Plan -> Nat]
    BY <1>1 DEF Links
  <2> QED
    BY <1>11, <1>15, <2>1
<1>17. u.links \in Links /\ u.links.plan = ids /\ u.links.target = d.links.target /\ u.links.project = d.links.project
  <2>1. u.links = [d.links EXCEPT !.plan = ids]
    BY <1>1, <1>13, <1>15 DEF Links
  <2> QED
    BY <1>1, <1>16, <2>1 DEF Links
<1>18. \A j \in DOMAIN d.db.plans : /\ plans[j].row = d.db.plans[j].row
                                    /\ plans[j].filter = d.db.plans[j].filter
                                    /\ plans[j].accepted = d.db.plans[j].accepted
  <2>1. f # 0 => i = f
    BY <1>9 DEF Row
  <2>2. f = 0 => i \notin DOMAIN d.db.plans
    BY <1>1, <1>9 DEF Row
  <2>3. ASSUME NEW j \in DOMAIN d.db.plans, j = i
        PROVE  plans[j].row = d.db.plans[j].row /\ plans[j].filter = d.db.plans[j].filter /\ plans[j].accepted = d.db.plans[j].accepted
    BY <1>4, <1>8, <1>11, <2>1, <2>2, <2>3
  <2> QED
    BY <1>11, <2>3
<1>19. RowsExist(u.db)
  <2>1. \A j \in DOMAIN plans : plans[j].row \in DOMAIN d.db.rows
    <3>1. \A j \in DOMAIN d.db.plans : d.db.plans[j].row \in DOMAIN d.db.rows
      BY DEF Typed, RowsExist
    <3> QED
      BY <1>8, <1>11, <3>1
  <2> QED
    BY <1>14, <2>1 DEF Typed, RowsExist
<1>20. LinksExist(u)
  <2>1. \A q \in Plan : ids[q] \in 0..Len(plans)
    <3>1. ids[p] \in 0..Len(plans)
      BY <1>11, <1>16
    <3>2. \A q \in Plan : q # p => ids[q] \in 0..Len(plans)
      BY <1>1, <1>11, <1>16 DEF Typed, LinksExist
    <3> QED
      BY <3>1, <3>2
  <2> QED
    BY <1>14, <1>17, <2>1 DEF Typed, LinksExist
<1>21. Typed(u)
  BY <1>13, <1>14, <1>17, <1>19, <1>20 DEF Typed
<1>22. u.links.plan[p] = i
  BY <1>16, <1>17
<1>23. \A q \in Plan : q # p => u.links.plan[q] = d.links.plan[q]
  BY <1>16, <1>17
<1>24. PlanIn(d, u, row, p, i)
  BY <1>8, <1>11, <1>14, <1>17, <1>18, <1>21, <1>22, <1>23 DEF PlanIn
<1> QED
  BY <1>24

\* What some turns of the loop over a target's plans have done.
Upserted(d, u, row, S) ==
    /\ Typed(u) /\ u.db.rows = d.db.rows /\ u.db.projects = d.db.projects
    /\ u.links.target = d.links.target /\ u.links.project = d.links.project
    /\ \A q \in Plan \ S : u.links.plan[q] = d.links.plan[q]
    /\ \A q \in S : /\ u.links.plan[q] # 0 /\ u.db.plans[u.links.plan[q]].row = row
                    /\ u.db.plans[u.links.plan[q]].filter = Filter[q]
    /\ DOMAIN d.db.plans \subseteq DOMAIN u.db.plans
    /\ \A j \in DOMAIN d.db.plans : /\ u.db.plans[j].row = d.db.plans[j].row
                                    /\ u.db.plans[j].filter = d.db.plans[j].filter
                                    /\ u.db.plans[j].accepted = d.db.plans[j].accepted
    /\ \A j \in DOMAIN u.db.plans : u.db.plans[j].row = row \/ (j \in DOMAIN d.db.plans /\ u.db.plans[j] = d.db.plans[j])

\* A target has one plan of a filter, at any time.
OwnFilters == \A p, q \in Plan : Owner[p] = Owner[q] /\ Filter[p] = Filter[q] => p = q
Wanted(u, S) == \A q \in S : u.db.plans[u.links.plan[q]].desired = Desired[q]

LEMMA UpsertPlansDoes ==
    ASSUME NEW d, Typed(d), NEW row \in DOMAIN d.db.rows, NEW t \in Target, NEW plans \in SUBSET PlansOf(t)
    PROVE  /\ Upserted(d, UpsertPlans(d, row, plans), row, plans)
           /\ OwnFilters => Wanted(UpsertPlans(d, row, plans), plans)
<1>1. PICK g : /\ UpsertPlans(d, row, plans) = g[LastId]
               /\ g[0] = d
               /\ \A n \in 1..LastId : g[n] = IF n \in plans THEN UpsertPlan(g[n-1], row, n) ELSE g[n-1]
  BY UpsertPlansIs
<1> DEFINE good == {n \in 0..LastId : /\ Upserted(d, g[n], row, plans \cap 1..n)
                                      /\ OwnFilters => Wanted(g[n], plans \cap 1..n)}
<1>2. plans \subseteq Plan /\ plans \subseteq 1..LastId /\ \A q \in plans : Owner[q] = t
  BY TargetsNumbered DEF PlansOf
<1>3. 0 \in good
  <2>1. plans \cap 1..0 = {}
    OBVIOUS
  <2>2. Upserted(d, d, row, {}) /\ Wanted(d, {})
    BY DEF Upserted, Wanted
  <2> QED
    BY <1>1, <2>1, <2>2, TargetsNumbered
<1>4. ASSUME NEW n \in 1..LastId, n - 1 \in good
      PROVE  n \in good
  <2>1. PICK e, S : e = g[n-1] /\ S = plans \cap 1..(n-1)
    OBVIOUS
  <2>2. Upserted(d, e, row, S) /\ (OwnFilters => Wanted(e, S))
    BY <1>4, <2>1
  <2>3. CASE n \notin plans
    <3>1. g[n] = e
      BY <1>1, <2>1, <2>3
    <3>2. plans \cap 1..n = S
      BY <1>2, <2>1, <2>3, TargetsNumbered
    <3> QED
      BY <2>2, <3>1, <3>2, TargetsNumbered
  <2>4. CASE n \in plans
    <3>1. PICK u : u = UpsertPlan(e, row, n)
      OBVIOUS
    <3>2. g[n] = u
      BY <1>1, <2>1, <2>4, <3>1
    <3>3. plans \cap 1..n = S \cup {n} /\ n \notin S /\ S \subseteq plans
      BY <1>2, <2>1, <2>4, TargetsNumbered
    <3>4. Typed(e) /\ row \in DOMAIN e.db.rows /\ n \in Plan
      BY <1>2, <2>2, <2>4 DEF Upserted
    <3>5a. PICK i : PlanIn(e, u, row, n, i)
      BY <3>1, <3>4, UpsertPlanIs
    <3>5. /\ Typed(u) /\ u.db.rows = e.db.rows /\ u.db.projects = e.db.projects
          /\ u.links.target = e.links.target /\ u.links.project = e.links.project
          /\ \A q \in Plan : q # n => u.links.plan[q] = e.links.plan[q]
          /\ u.links.plan[n] = i /\ i \in DOMAIN u.db.plans /\ i # 0
          /\ u.db.plans[i].row = row /\ u.db.plans[i].filter = Filter[n] /\ u.db.plans[i].desired = Desired[n]
          /\ DOMAIN e.db.plans \subseteq DOMAIN u.db.plans
          /\ \A j \in DOMAIN u.db.plans : j = i \/ (j \in DOMAIN e.db.plans /\ u.db.plans[j] = e.db.plans[j])
          /\ \A j \in DOMAIN e.db.plans : /\ u.db.plans[j].row = e.db.plans[j].row
                                          /\ u.db.plans[j].filter = e.db.plans[j].filter
                                          /\ u.db.plans[j].accepted = e.db.plans[j].accepted
      BY <3>5a DEF PlanIn
    <3>6. \A q \in S : u.links.plan[q] = e.links.plan[q] /\ e.links.plan[q] \in DOMAIN e.db.plans
      <4>1. \A q \in S : q \in Plan /\ q # n
        BY <1>2, <3>3
      <4>2. \A q \in Plan : e.links.plan[q] \in 0..Len(e.db.plans)
        BY <3>4 DEF Typed, LinksExist
      <4>3. e.db.plans \in Seq(PlanRow)
        BY <3>4 DEF Typed, Db
      <4>4. \A q \in S : e.links.plan[q] # 0
        BY <2>2 DEF Upserted
      <4> QED
        BY <3>5, <4>1, <4>2, <4>3, <4>4
    <3>7. Upserted(d, u, row, S \cup {n})
      <4>1. \A q \in Plan \ (S \cup {n}) : u.links.plan[q] = d.links.plan[q]
        BY <2>2, <3>5 DEF Upserted
      <4>2. \A q \in S \cup {n} : /\ u.links.plan[q] # 0 /\ u.db.plans[u.links.plan[q]].row = row
                                  /\ u.db.plans[u.links.plan[q]].filter = Filter[q]
        <5>1. \A q \in S : /\ u.links.plan[q] # 0 /\ u.db.plans[u.links.plan[q]].row = row
                           /\ u.db.plans[u.links.plan[q]].filter = Filter[q]
          <6>1. \A q \in S : /\ e.links.plan[q] # 0 /\ e.db.plans[e.links.plan[q]].row = row
                             /\ e.db.plans[e.links.plan[q]].filter = Filter[q]
            BY <2>2 DEF Upserted
          <6>2. \A j \in DOMAIN e.db.plans : u.db.plans[j].row = e.db.plans[j].row /\ u.db.plans[j].filter = e.db.plans[j].filter
            BY <3>5
          <6>3. ASSUME NEW q \in S
                PROVE  /\ u.links.plan[q] # 0 /\ u.db.plans[u.links.plan[q]].row = row
                       /\ u.db.plans[u.links.plan[q]].filter = Filter[q]
            <7>1. PICK k : k = e.links.plan[q]
              OBVIOUS
            <7>2. u.links.plan[q] = k /\ k \in DOMAIN e.db.plans /\ k # 0
              BY <3>6, <6>1, <7>1
            <7>3. e.db.plans[k].row = row /\ e.db.plans[k].filter = Filter[q]
              BY <6>1, <7>1
            <7> QED
              BY <6>2, <7>2, <7>3
          <6> QED
            BY <6>3
        <5> QED
          BY <3>1, <3>5, <5>1
      <4>3. \A j \in DOMAIN d.db.plans : /\ j \in DOMAIN u.db.plans
                                         /\ u.db.plans[j].row = d.db.plans[j].row
                                         /\ u.db.plans[j].filter = d.db.plans[j].filter
                                         /\ u.db.plans[j].accepted = d.db.plans[j].accepted
        BY <2>2, <3>5 DEF Upserted
      <4>4. \A j \in DOMAIN u.db.plans : u.db.plans[j].row = row \/ (j \in DOMAIN d.db.plans /\ u.db.plans[j] = d.db.plans[j])
        BY <2>2, <3>5 DEF Upserted
      <4> QED
        BY <2>2, <3>5, <4>1, <4>2, <4>3, <4>4 DEF Upserted
    <3>8. OwnFilters => Wanted(u, S \cup {n})
      <4>1. SUFFICES ASSUME OwnFilters, NEW q \in S \cup {n}
                     PROVE  u.db.plans[u.links.plan[q]].desired = Desired[q]
        BY DEF Wanted
      <4>2. CASE q = n
        BY <3>1, <3>5, <4>2
      <4>3. CASE q # n
        <5>1. q \in S /\ q \in Plan /\ Owner[q] = t /\ Owner[n] = t
          BY <1>2, <2>4, <3>3, <4>1, <4>3
        <5>2. e.db.plans[e.links.plan[q]].filter = Filter[q] /\ e.db.plans[e.links.plan[q]].desired = Desired[q]
          BY <2>2, <4>1, <5>1 DEF Upserted, Wanted
        <5>3. Filter[q] # Filter[n]
          BY <3>4, <4>1, <4>3, <5>1 DEF OwnFilters
        <5>4. e.links.plan[q] # i
          BY <3>5, <3>6, <5>1, <5>2, <5>3
        <5> QED
          BY <3>5, <3>6, <5>1, <5>2, <5>4
      <4> QED
        BY <4>2, <4>3
    <3> QED
      BY <3>2, <3>3, <3>7, <3>8, TargetsNumbered
  <2> QED
    BY <2>3, <2>4
<1>5. LastId \in good
  <2> HIDE DEF good
  <2>1. 0..LastId \subseteq good
    BY <1>3, <1>4, InductionToLastId
  <2> QED
    BY <2>1, TargetsNumbered
<1>6. plans \cap 1..LastId = plans
  BY <1>2
<1> QED
  BY <1>1, <1>5, <1>6

\* Plans retired: their links are gone, the counts of their rows are kept.
WithoutPlans(d, u, gone) ==
    /\ Typed(u) /\ u.db.rows = d.db.rows /\ u.db.projects = d.db.projects
    /\ u.links.target = d.links.target /\ u.links.project = d.links.project
    /\ \A p \in Plan : u.links.plan[p] = IF p \in gone THEN 0 ELSE d.links.plan[p]
    /\ DOMAIN u.db.plans = DOMAIN d.db.plans
    /\ \A j \in DOMAIN d.db.plans : /\ u.db.plans[j].row = d.db.plans[j].row
                                    /\ u.db.plans[j].filter = d.db.plans[j].filter
                                    /\ u.db.plans[j].accepted = d.db.plans[j].accepted
                                    /\ (\A p \in gone : d.links.plan[p] # j) => u.db.plans[j] = d.db.plans[j]
LEMMA RetiredIs ==
    ASSUME NEW d, Typed(d), NEW gone \in SUBSET Plan, NEW u, u = Retired(d, gone)
    PROVE  WithoutPlans(d, u, gone)
<1>1. /\ d.db.plans \in Seq(PlanRow) /\ d.db.rows \in Seq(TargetRow) /\ d.db \in Db
      /\ d.links \in Links /\ d = [db |-> d.db, links |-> d.links]
  BY DEF Typed, Db
<1>2. PICK plans : plans = [i \in DOMAIN d.db.plans |-> IF \E p \in gone : d.links.plan[p] = i THEN [d.db.plans[i] EXCEPT !.desired = d.db.plans[i].accepted] ELSE d.db.plans[i]]
  OBVIOUS
<1>3. PICK ids : ids = [p \in Plan |-> IF p \in gone THEN 0 ELSE d.links.plan[p]]
  OBVIOUS
<1>5. u.db = [d.db EXCEPT !.plans = plans] /\ u.links = [d.links EXCEPT !.plan = ids] /\ u = [db |-> u.db, links |-> u.links]
  BY <1>1, <1>2, <1>3 DEF Retired, Db, Links
<1>6. \A j \in DOMAIN d.db.plans : /\ plans[j] \in PlanRow /\ plans[j].row = d.db.plans[j].row
                                   /\ plans[j].filter = d.db.plans[j].filter
                                   /\ plans[j].accepted = d.db.plans[j].accepted
                                   /\ (\A p \in gone : d.links.plan[p] # j) => plans[j] = d.db.plans[j]
  <2>1. SUFFICES ASSUME NEW j \in DOMAIN d.db.plans
                 PROVE  /\ plans[j] \in PlanRow /\ plans[j].row = d.db.plans[j].row
                        /\ plans[j].filter = d.db.plans[j].filter
                        /\ plans[j].accepted = d.db.plans[j].accepted
                        /\ (\A p \in gone : d.links.plan[p] # j) => plans[j] = d.db.plans[j]
    OBVIOUS
  <2>2. PICK old : old = d.db.plans[j]
    OBVIOUS
  <2>3. old \in PlanRow
    BY <1>1, <2>2
  <2>4. plans[j] = IF \E p \in gone : d.links.plan[p] = j THEN [old EXCEPT !.desired = old.accepted] ELSE old
    BY <1>2, <2>1, <2>2
  <2>5. [old EXCEPT !.desired = old.accepted] \in PlanRow
    BY <2>3 DEF PlanRow
  <2>6. /\ [old EXCEPT !.desired = old.accepted].row = old.row /\ [old EXCEPT !.desired = old.accepted].filter = old.filter
        /\ [old EXCEPT !.desired = old.accepted].accepted = old.accepted
    BY <2>3 DEF PlanRow
  <2> QED
    BY <2>2, <2>3, <2>4, <2>5, <2>6
<1>7. DOMAIN plans = DOMAIN d.db.plans /\ plans \in Seq(PlanRow) /\ Len(plans) = Len(d.db.plans)
  <2>1. DOMAIN plans = 1..Len(d.db.plans) /\ Len(d.db.plans) \in Nat
    BY <1>1, <1>2
  <2>2. plans = [j \in 1..Len(d.db.plans) |-> plans[j]] /\ \A j \in 1..Len(d.db.plans) : plans[j] \in PlanRow
    BY <1>1, <1>2, <1>6, <2>1
  <2>3. plans \in [1..Len(d.db.plans) -> PlanRow]
    BY <2>2
  <2> QED
    BY <1>1, <2>1, <2>3
<1>8. u.db \in Db /\ u.db.plans = plans /\ u.db.rows = d.db.rows /\ u.db.projects = d.db.projects
  BY <1>1, <1>5, <1>7 DEF Db
<1>9. ids \in [Plan -> Nat] /\ d.links.plan \in [Plan -> Nat]
  BY <1>1, <1>3 DEF Links
<1>10. /\ u.links \in Links /\ u.links.plan = ids /\ u.links.target = d.links.target /\ u.links.project = d.links.project
  BY <1>1, <1>5, <1>9 DEF Links
<1>11. RowsExist(u.db)
  <2>1. \A j \in DOMAIN plans : plans[j].row \in DOMAIN d.db.rows
    BY <1>6, <1>7 DEF Typed, RowsExist
  <2> QED
    BY <1>8, <2>1 DEF Typed, RowsExist
<1>12. LinksExist(u)
  <2>1. \A p \in Plan : ids[p] \in 0..Len(plans)
    BY <1>1, <1>3, <1>7 DEF Typed, LinksExist
  <2> QED
    BY <1>8, <1>10, <2>1 DEF Typed, LinksExist
<1>13. Typed(u)
  BY <1>5, <1>8, <1>10, <1>11, <1>12 DEF Typed
<1>14. \A p \in Plan : ids[p] = IF p \in gone THEN 0 ELSE d.links.plan[p]
  BY <1>3
<1> QED
  BY <1>6, <1>7, <1>8, <1>10, <1>13, <1>14 DEF WithoutPlans

(***************************************************************************)
(* One target of the list                                                  *)
(***************************************************************************)
\* The row of the target is there: found in the project, moved to it, or new.
AtRow(d, rows, listed, i, r, q) ==
    /\ r \in DOMAIN rows /\ r # 0
    /\ rows[r] = [project |-> i, name |-> listed.name, active |-> TRUE]
    /\ DOMAIN d.db.rows \subseteq DOMAIN rows
    /\ \A j \in DOMAIN rows : \/ j = r
                              \/ j \in DOMAIN d.db.rows /\ rows[j] = d.db.rows[j]
                              \/ /\ j = q /\ j \in DOMAIN d.db.rows /\ rows[j].project = i
                                 /\ rows[j].name = d.db.rows[j].name /\ rows[j].active = d.db.rows[j].active
    /\ r \in DOMAIN d.db.rows => d.db.rows[r].name = listed.name /\ (r = q \/ d.db.rows[r].project = i)
    /\ r \notin DOMAIN d.db.rows => \A j \in DOMAIN d.db.rows : ~(d.db.rows[j].name = listed.name /\ (j = q \/ d.db.rows[j].project = i))
InRow(d, z, t, listed, i) ==
    /\ z.links.target = [d.links.target EXCEPT ![t] = [row |-> z.links.target[t].row, project |-> i]]
    /\ AtRow(d, z.db.rows, listed, i, z.links.target[t].row, d.links.target[t].row)

LEMMA RowSyncedIs ==
    ASSUME NEW d, Sound(d), NEW t \in Target, NEW listed \in Listed(t), NEW i, i = Row(d.db.projects, FindProject(d, t)),
           NEW s, s = SyncedIn(MoveTarget(UpsertProject(d, t), t, i), t, listed, i)
    PROVE  /\ Typed(s) /\ s.db.plans = d.db.plans /\ s.links.plan = d.links.plan
           /\ InProject(d, s, t, i) /\ InRow(d, s, t, listed, i)
<1>1. Typed(d) /\ TargetAgrees(d, t)
  BY DEF Sound
<1>2. PICK u : u = UpsertProject(d, t)
  OBVIOUS
<1>3. /\ Typed(u) /\ u.db.rows = d.db.rows /\ u.db.plans = d.db.plans
      /\ u.links.target = d.links.target /\ u.links.plan = d.links.plan /\ InProject(d, u, t, i)
  BY <1>1, <1>2, UpsertProjectIs
<1>3a. i \in DOMAIN u.db.projects
  BY <1>3 DEF InProject
<1>4. TargetAgrees(u, t)
  BY <1>1, <1>3 DEF TargetAgrees
<1>5. PICK m : m = MoveTarget(u, t, i)
  OBVIOUS
<1>6. PICK q : q = d.links.target[t].row
  OBVIOUS
<1>7a. Moved(u, m, t, i)
  BY <1>3, <1>3a, <1>4, <1>5, MoveTargetIs
<1>7. /\ Typed(m) /\ m.links = u.links /\ m.db.projects = u.db.projects /\ m.db.plans = u.db.plans
      /\ DOMAIN m.db.rows = DOMAIN u.db.rows
      /\ \A j \in DOMAIN u.db.rows : /\ m.db.rows[j].name = u.db.rows[j].name
                                     /\ m.db.rows[j].active = u.db.rows[j].active
                                     /\ j # q => m.db.rows[j] = u.db.rows[j]
      /\ q # 0 => m.db.rows[q].project = i
  BY <1>3, <1>6, <1>7a DEF Moved
<1>8. s = SyncedIn(m, t, listed, i)
  BY <1>2, <1>5
<1>9. PICK r : RowIn(m, s, t, listed, i, r)
  BY <1>3a, <1>7, <1>8, SyncedInIs
<1>10. /\ Typed(s) /\ s.db.projects = m.db.projects /\ s.db.plans = m.db.plans
       /\ s.links.plan = m.links.plan /\ s.links.project = m.links.project
       /\ s.links.target = [m.links.target EXCEPT ![t] = [row |-> r, project |-> i]] /\ s.links.target[t].row = r
       /\ r \in DOMAIN s.db.rows /\ r \in Nat \ {0}
       /\ s.db.rows[r] = [project |-> i, name |-> listed.name, active |-> TRUE]
       /\ DOMAIN m.db.rows \subseteq DOMAIN s.db.rows
       /\ \A j \in DOMAIN s.db.rows : j = r \/ (j \in DOMAIN m.db.rows /\ s.db.rows[j] = m.db.rows[j])
       /\ r \in DOMAIN m.db.rows => m.db.rows[r].project = i /\ m.db.rows[r].name = listed.name
       /\ r \notin DOMAIN m.db.rows => \A j \in DOMAIN m.db.rows : ~(m.db.rows[j].project = i /\ m.db.rows[j].name = listed.name)
  BY <1>9 DEF RowIn
<1>11. InProject(d, s, t, i)
  BY <1>3, <1>7, <1>10 DEF InProject
<1>12. \A j \in DOMAIN d.db.rows : j # 0
  <2>1. d.db.rows \in Seq(TargetRow)
    BY <1>1 DEF Typed, Db
  <2> QED
    BY <2>1
<1>13. /\ r \in DOMAIN d.db.rows => d.db.rows[r].name = listed.name /\ (r = q \/ d.db.rows[r].project = i)
       /\ r \notin DOMAIN d.db.rows => \A j \in DOMAIN d.db.rows : ~(d.db.rows[j].name = listed.name /\ (j = q \/ d.db.rows[j].project = i))
  BY <1>3, <1>7, <1>10, <1>12
<1>14. \A j \in DOMAIN s.db.rows : \/ j = r
                                   \/ j \in DOMAIN d.db.rows /\ s.db.rows[j] = d.db.rows[j]
                                   \/ /\ j = q /\ j \in DOMAIN d.db.rows /\ s.db.rows[j].project = i
                                      /\ s.db.rows[j].name = d.db.rows[j].name /\ s.db.rows[j].active = d.db.rows[j].active
  BY <1>3, <1>7, <1>10, <1>12
<1>15. InRow(d, s, t, listed, i)
  <2>1. /\ s.links.target = [d.links.target EXCEPT ![t] = [row |-> r, project |-> i]]
        /\ DOMAIN d.db.rows \subseteq DOMAIN s.db.rows /\ r # 0
    BY <1>3, <1>7, <1>10
  <2>2. s.links.target[t].row = r /\ d.links.target[t].row = q
    BY <1>6, <1>10
  <2> QED
    <3>1. /\ r \in DOMAIN s.db.rows /\ s.db.rows[r] = [project |-> i, name |-> listed.name, active |-> TRUE]
      BY <1>10
    <3>2. AtRow(d, s.db.rows, listed, i, r, q)
      BY <1>13, <1>14, <2>1, <3>1 DEF AtRow
    <3> QED
      BY <2>1, <2>2, <3>2 DEF InRow
<1> QED
  BY <1>3, <1>7, <1>10, <1>11, <1>15

\* What the turn of a target has done.
TargetDone(d, z, t, listed, i) ==
    LET r == z.links.target[t].row
    IN  /\ Typed(z) /\ InProject(d, z, t, i) /\ InRow(d, z, t, listed, i)
        /\ \A p \in Plan : Owner[p] # t => z.links.plan[p] = d.links.plan[p]
        /\ \A p \in listed.plans : /\ z.links.plan[p] # 0 /\ z.db.plans[z.links.plan[p]].row = r
                                   /\ z.db.plans[z.links.plan[p]].filter = Filter[p]
                                   /\ OwnFilters => z.db.plans[z.links.plan[p]].desired = Desired[p]
        /\ \A p \in PlansOf(t) \ listed.plans : z.links.plan[p] = 0
        /\ DOMAIN d.db.plans \subseteq DOMAIN z.db.plans
        /\ \A j \in DOMAIN d.db.plans : /\ z.db.plans[j].row = d.db.plans[j].row
                                        /\ z.db.plans[j].filter = d.db.plans[j].filter
                                        /\ z.db.plans[j].accepted = d.db.plans[j].accepted
        /\ \A j \in DOMAIN z.db.plans : \/ z.db.rows[z.db.plans[j].row].name[1] = t
                                        \/ j \in DOMAIN d.db.plans /\ z.db.plans[j] = d.db.plans[j]

LEMMA SyncOneIs ==
    ASSUME NEW d, Sound(d), NEW t \in Target, NEW listed \in Listed(t), NEW z, z = SyncOne(d, t, listed)
    PROVE  \E i : TargetDone(d, z, t, listed, i)
<1>1. PICK i : i = Row(d.db.projects, FindProject(d, t))
  OBVIOUS
<1>2. PICK s : s = SyncedIn(MoveTarget(UpsertProject(d, t), t, i), t, listed, i)
  OBVIOUS
<1>3. Typed(s) /\ s.db.plans = d.db.plans /\ s.links.plan = d.links.plan /\ InProject(d, s, t, i) /\ InRow(d, s, t, listed, i)
  BY <1>1, <1>2, RowSyncedIs
<1>4. PICK r : r = s.links.target[t].row
  OBVIOUS
<1>5. r \in DOMAIN s.db.rows /\ r # 0 /\ s.db.rows[r] = [project |-> i, name |-> listed.name, active |-> TRUE]
  BY <1>3, <1>4 DEF InRow, AtRow
<1>6. PICK v : v = UpsertPlans(s, r, listed.plans)
  OBVIOUS
<1>7. listed.plans \in SUBSET PlansOf(t) /\ listed.name[1] = t
  BY DEF Listed
<1>8. Upserted(s, v, r, listed.plans) /\ (OwnFilters => Wanted(v, listed.plans))
  BY <1>3, <1>5, <1>6, <1>7, UpsertPlansDoes
<1>9. PICK gone : gone = LinkedPlans(v.links, t) \ listed.plans
  OBVIOUS
<1>10. gone \in SUBSET Plan /\ gone \subseteq PlansOf(t)
  BY <1>9 DEF LinkedPlans, PlansOf
<1>11. z = Retired(v, gone)
  BY <1>1, <1>2, <1>4, <1>6, <1>9 DEF SyncOne, SyncTarget, SyncedPlans, RetirePlans
<1>12. WithoutPlans(v, z, gone)
  BY <1>8, <1>10, <1>11, RetiredIs DEF Upserted
<1>13. /\ z.db.rows = s.db.rows /\ z.db.projects = s.db.projects /\ z.links.target = s.links.target /\ z.links.project = s.links.project
       /\ Typed(z) /\ DOMAIN v.db.plans = DOMAIN z.db.plans
  BY <1>8, <1>12 DEF Upserted, WithoutPlans
<1>14. InProject(d, z, t, i) /\ InRow(d, z, t, listed, i)
  <2>1. InProject(d, z, t, i)
    BY <1>3, <1>13 DEF InProject
  <2>2. InRow(d, z, t, listed, i)
    <3>1. z.db.rows = s.db.rows /\ z.links.target = s.links.target
      BY <1>13
    <3>2. InRow(d, s, t, listed, i)
      BY <1>3
    <3> QED
      BY <3>1, <3>2 DEF InRow
  <2> QED
    BY <2>1, <2>2
<1>15. \A p \in Plan : Owner[p] # t => z.links.plan[p] = d.links.plan[p]
  <2>1. SUFFICES ASSUME NEW p \in Plan, Owner[p] # t
                 PROVE  z.links.plan[p] = d.links.plan[p]
    OBVIOUS
  <2>2. p \notin gone /\ p \notin listed.plans
    BY <1>7, <1>10, <2>1 DEF PlansOf
  <2> QED
    BY <1>3, <1>8, <1>12, <2>2 DEF Upserted, WithoutPlans
<1>16. \A p \in listed.plans : /\ v.links.plan[p] \in DOMAIN v.db.plans /\ z.links.plan[p] = v.links.plan[p] /\ p \in Plan
                               /\ v.links.plan[p] # 0 /\ v.db.plans[v.links.plan[p]].row = r
                               /\ v.db.plans[v.links.plan[p]].filter = Filter[p]
  <2>1. SUFFICES ASSUME NEW p \in listed.plans
                 PROVE  /\ v.links.plan[p] \in DOMAIN v.db.plans /\ z.links.plan[p] = v.links.plan[p] /\ p \in Plan
                        /\ v.links.plan[p] # 0 /\ v.db.plans[v.links.plan[p]].row = r
                        /\ v.db.plans[v.links.plan[p]].filter = Filter[p]
    OBVIOUS
  <2>2. p \in Plan /\ p \notin gone
    BY <1>7, <1>9 DEF PlansOf
  <2>3. /\ v.links.plan[p] # 0 /\ v.db.plans[v.links.plan[p]].row = r
        /\ v.db.plans[v.links.plan[p]].filter = Filter[p]
    BY <1>8 DEF Upserted
  <2>4. z.links.plan[p] = v.links.plan[p]
    BY <1>12, <2>2 DEF WithoutPlans
  <2>5. v.links.plan[p] \in 0..Len(v.db.plans) /\ v.db.plans \in Seq(PlanRow)
    BY <1>8, <2>2 DEF Upserted, Typed, LinksExist, Db
  <2> QED
    BY <2>2, <2>3, <2>4, <2>5
<1>17. \A p \in gone : /\ v.links.plan[p] = d.links.plan[p] /\ v.links.plan[p] \in DOMAIN d.db.plans
                       /\ d.db.plans[v.links.plan[p]].row = d.links.target[t].row
                       /\ d.db.plans[v.links.plan[p]].filter = Filter[p] /\ p \in Plan /\ Owner[p] = t
  <2>1. SUFFICES ASSUME NEW p \in gone
                 PROVE  /\ v.links.plan[p] = d.links.plan[p] /\ v.links.plan[p] \in DOMAIN d.db.plans
                        /\ d.db.plans[v.links.plan[p]].row = d.links.target[t].row
                        /\ d.db.plans[v.links.plan[p]].filter = Filter[p] /\ p \in Plan /\ Owner[p] = t
    OBVIOUS
  <2>2. p \in Plan /\ Owner[p] = t /\ p \notin listed.plans /\ v.links.plan[p] # 0
    BY <1>9 DEF LinkedPlans, PlansOf
  <2>3. v.links.plan[p] = d.links.plan[p]
    BY <1>3, <1>8, <2>2 DEF Upserted
  <2>4. d.links.plan[p] \in 0..Len(d.db.plans) /\ d.db.plans \in Seq(PlanRow) /\ PlanAgrees(d, p)
    BY <2>2 DEF Sound, Typed, LinksExist, Db
  <2> QED
    BY <2>2, <2>3, <2>4 DEF PlanAgrees
<1>18. \A j \in DOMAIN d.db.plans : /\ j \in DOMAIN v.db.plans /\ v.db.plans[j].row = d.db.plans[j].row
                                    /\ v.db.plans[j].filter = d.db.plans[j].filter
                                    /\ v.db.plans[j].accepted = d.db.plans[j].accepted
  BY <1>3, <1>8 DEF Upserted
<1>19. \A j \in DOMAIN v.db.plans : /\ z.db.plans[j].row = v.db.plans[j].row
                                    /\ z.db.plans[j].filter = v.db.plans[j].filter
                                    /\ z.db.plans[j].accepted = v.db.plans[j].accepted
                                    /\ (\A p \in gone : v.links.plan[p] # j) => z.db.plans[j] = v.db.plans[j]
  BY <1>12 DEF WithoutPlans
<1>20. \A p \in listed.plans : /\ z.links.plan[p] # 0 /\ z.db.plans[z.links.plan[p]].row = r
                               /\ z.db.plans[z.links.plan[p]].filter = Filter[p]
                               /\ OwnFilters => z.db.plans[z.links.plan[p]].desired = Desired[p]
  <2>1. SUFFICES ASSUME NEW p \in listed.plans
                 PROVE  /\ z.links.plan[p] # 0 /\ z.db.plans[z.links.plan[p]].row = r
                        /\ z.db.plans[z.links.plan[p]].filter = Filter[p]
                        /\ OwnFilters => z.db.plans[z.links.plan[p]].desired = Desired[p]
    OBVIOUS
  <2>2. PICK k : k = v.links.plan[p]
    OBVIOUS
  <2>3. /\ z.links.plan[p] = k /\ k \in DOMAIN v.db.plans /\ k # 0 /\ p \in Plan
        /\ v.db.plans[k].row = r /\ v.db.plans[k].filter = Filter[p]
    BY <1>16, <2>2
  <2>4. z.db.plans[k].row = r /\ z.db.plans[k].filter = Filter[p]
    BY <1>19, <2>3
  <2>5. ASSUME OwnFilters
        PROVE  z.db.plans[k].desired = Desired[p]
    <3>1. v.db.plans[k].desired = Desired[p]
      BY <1>8, <2>2, <2>5 DEF Wanted
    <3>2. ASSUME NEW o \in gone, v.links.plan[o] = k
          PROVE  FALSE
      <4>1. k \in DOMAIN d.db.plans /\ d.db.plans[k].filter = Filter[o] /\ o \in Plan /\ Owner[o] = t
        BY <1>17, <3>2
      <4>2. Filter[o] = Filter[p]
        BY <1>18, <2>3, <4>1
      <4>3. Owner[p] = t
        BY <1>7 DEF PlansOf
      <4>4. o = p
        BY <2>3, <2>5, <4>1, <4>2, <4>3 DEF OwnFilters
      <4> QED
        BY <1>9, <4>4
    <3> QED
      BY <1>19, <2>3, <3>1, <3>2
  <2> QED
    BY <2>3, <2>4, <2>5
<1>21. \A p \in PlansOf(t) \ listed.plans : z.links.plan[p] = 0
  BY <1>9, <1>12 DEF WithoutPlans, LinkedPlans, PlansOf
<1>22. DOMAIN d.db.plans \subseteq DOMAIN z.db.plans
  BY <1>13, <1>18
<1>23. \A j \in DOMAIN d.db.plans : /\ z.db.plans[j].row = d.db.plans[j].row
                                    /\ z.db.plans[j].filter = d.db.plans[j].filter
                                    /\ z.db.plans[j].accepted = d.db.plans[j].accepted
  BY <1>18, <1>19
<1>24. \A j \in DOMAIN z.db.plans : \/ z.db.rows[z.db.plans[j].row].name[1] = t
                                    \/ j \in DOMAIN d.db.plans /\ z.db.plans[j] = d.db.plans[j]
  <2>1. SUFFICES ASSUME NEW j \in DOMAIN z.db.plans
                 PROVE  \/ z.db.rows[z.db.plans[j].row].name[1] = t
                        \/ j \in DOMAIN d.db.plans /\ z.db.plans[j] = d.db.plans[j]
    OBVIOUS
  <2>2. j \in DOMAIN v.db.plans
    BY <1>13
  <2>3. CASE v.db.plans[j].row = r
    <3>1. z.db.plans[j].row = r
      BY <1>19, <2>2, <2>3
    <3> QED
      BY <1>5, <1>7, <1>13, <3>1
  <2>4. CASE v.db.plans[j].row # r
    <3>1. j \in DOMAIN d.db.plans /\ v.db.plans[j] = d.db.plans[j]
      BY <1>3, <1>8, <2>2, <2>4 DEF Upserted
    <3>2. CASE \A p \in gone : v.links.plan[p] # j
      BY <1>19, <2>2, <3>1, <3>2
    <3>3. CASE \E p \in gone : v.links.plan[p] = j
      <4>1. PICK q : q = d.links.target[t].row
        OBVIOUS
      <4>2. d.db.plans[j].row = q
        BY <1>17, <3>3, <4>1
      <4>3. d.db.plans[j].row \in DOMAIN d.db.rows
        BY <3>1 DEF Sound, Typed, RowsExist
      <4>4. q \in DOMAIN d.db.rows /\ q # 0
        <5>1. d.db.rows \in Seq(TargetRow)
          BY DEF Sound, Typed, Db
        <5> QED
          BY <4>2, <4>3, <5>1
      <4>5. d.db.rows[q].name[1] = t
        BY <4>1, <4>4 DEF Sound, TargetAgrees
      <4>6. q \in DOMAIN z.db.rows /\ z.db.rows[q].name[1] = t
        <5>1. DOMAIN d.db.rows \subseteq DOMAIN s.db.rows /\ (q = r \/ s.db.rows[q] = d.db.rows[q] \/ s.db.rows[q].name = d.db.rows[q].name)
          BY <1>3, <1>4, <4>4 DEF InRow, AtRow
        <5> QED
          BY <1>5, <1>7, <1>13, <4>4, <4>5, <5>1
      <4> QED
        BY <1>19, <2>2, <3>1, <4>2, <4>6
    <3> QED
      BY <3>2, <3>3
  <2> QED
    BY <2>3, <2>4
<1>25. z.links.target[t].row = r
  BY <1>4, <1>13
<1>26. TargetDone(d, z, t, listed, i)
  BY <1>13, <1>14, <1>15, <1>20, <1>21, <1>22, <1>23, <1>24, <1>25 DEF TargetDone
<1> QED
  BY <1>26

\* The turn keeps the databases sound, and loses nothing.
LEMMA SyncOneKeeps ==
    ASSUME NEW d, Sound(d), NEW t \in Target, NEW listed \in Listed(t), NEW z, NEW i, TargetDone(d, z, t, listed, i)
    PROVE  Sound(z) /\ Grown(d.db, z.db)
<1>1. PICK r : r = z.links.target[t].row
  OBVIOUS
<1>2. PICK q : q = d.links.target[t].row
  OBVIOUS
<1>3. listed.plans \in SUBSET PlansOf(t) /\ listed.name[1] = t
  BY DEF Listed
<1>4. /\ Typed(z) /\ Typed(d) /\ d.links.target \in [Target -> [row : Nat, project : Nat]]
      /\ z.links.target = [d.links.target EXCEPT ![t] = [row |-> r, project |-> i]]
      /\ r \in DOMAIN z.db.rows /\ r # 0
      /\ z.db.rows[r] = [project |-> i, name |-> listed.name, active |-> TRUE]
      /\ DOMAIN d.db.rows \subseteq DOMAIN z.db.rows
      /\ r \in DOMAIN d.db.rows => d.db.rows[r].name = listed.name
  <2>1. Typed(z) /\ Typed(d) /\ InRow(d, z, t, listed, i)
    BY DEF TargetDone, Sound
  <2>2. d.links.target \in [Target -> [row : Nat, project : Nat]]
    BY <2>1 DEF Typed, Links
  <2> QED
    BY <1>1, <2>1, <2>2 DEF InRow, AtRow
<1>5. \A j \in DOMAIN z.db.rows : \/ j = r
                                  \/ j \in DOMAIN d.db.rows /\ z.db.rows[j] = d.db.rows[j]
                                  \/ j = q /\ j \in DOMAIN d.db.rows /\ z.db.rows[j].name = d.db.rows[j].name
  BY <1>1, <1>2 DEF TargetDone, InRow, AtRow
<1>6. \A j \in DOMAIN d.db.rows : z.db.rows[j].name = d.db.rows[j].name
  BY <1>4, <1>5
<1>7. Grown(d.db, z.db)
  BY <1>4, <1>6 DEF TargetDone, Grown
<1>8. d.db.rows \in Seq(TargetRow) /\ d.db.plans \in Seq(PlanRow) /\ z.links.target[t] = [row |-> r, project |-> i]
  BY <1>4 DEF Typed, Db
<1>9. ASSUME NEW u \in Target
      PROVE  TargetAgrees(z, u)
  <2>1. CASE u = t
    BY <1>3, <1>4, <1>8, <2>1 DEF TargetAgrees
  <2>2. CASE u # t
    <3>1. PICK link : link = d.links.target[u]
      OBVIOUS
    <3>2. z.links.target[u] = link
      BY <1>4, <2>2, <3>1
    <3>3. link.row \in 0..Len(d.db.rows) /\ (link.row # 0 => d.db.rows[link.row].name[1] = u /\ d.db.rows[link.row].project = link.project)
      BY <1>4, <3>1 DEF Sound, TargetAgrees, Typed, LinksExist
    <3>4. CASE link.row = 0
      BY <3>2, <3>4 DEF TargetAgrees
    <3>5. CASE link.row # 0
      <4>1. link.row \in DOMAIN d.db.rows
        BY <1>8, <3>3, <3>5
      <4>2. link.row # r
        BY <1>3, <1>4, <2>2, <3>3, <3>5, <4>1
      <4>3. link.row # q
        BY <1>2, <2>2, <3>3, <3>5, <4>1 DEF Sound, TargetAgrees
      <4>4. z.db.rows[link.row] = d.db.rows[link.row]
        BY <1>4, <1>5, <4>1, <4>2, <4>3
      <4> QED
        BY <3>2, <3>3, <3>5, <4>4 DEF TargetAgrees
    <3> QED
      BY <3>4, <3>5
  <2> QED
    BY <2>1, <2>2
<1>10. ASSUME NEW p \in Plan
       PROVE  PlanAgrees(z, p)
  <2>1. CASE Owner[p] # t
    <3>1. PICK k : k = d.links.plan[p]
      OBVIOUS
    <3>2. z.links.plan[p] = k
      BY <2>1, <3>1 DEF TargetDone
    <3>3. z.links.target[Owner[p]] = d.links.target[Owner[p]]
      BY <1>4, <2>1, PlansOwned
    <3>4. k \in 0..Len(d.db.plans) /\ (k # 0 => d.db.plans[k].row = d.links.target[Owner[p]].row /\ d.db.plans[k].filter = Filter[p])
      BY <1>4, <3>1 DEF Sound, PlanAgrees, Typed, LinksExist
    <3>5. k # 0 => k \in DOMAIN d.db.plans
      BY <1>8, <3>4
    <3>6. k # 0 => z.db.plans[k].row = d.db.plans[k].row /\ z.db.plans[k].filter = d.db.plans[k].filter
      BY <3>5 DEF TargetDone
    <3> QED
      BY <3>2, <3>3, <3>4, <3>6 DEF PlanAgrees
  <2>2. CASE p \in listed.plans
    <3>1. Owner[p] = t
      BY <1>3, <2>2 DEF PlansOf
    <3> QED
      BY <1>1, <2>2, <3>1 DEF PlanAgrees, TargetDone
  <2>3. CASE p \in PlansOf(t) \ listed.plans
    BY <2>3 DEF PlanAgrees, TargetDone
  <2> QED
    BY <2>1, <2>2, <2>3 DEF PlansOf
<1> QED
  BY <1>4, <1>7, <1>9, <1>10 DEF Sound

(***************************************************************************)
(* Targets at home: no row of a target is left enabled behind its link      *)
(***************************************************************************)
\* The project whose rows roof-open looks a target up in.
Home(t) == IF InHubProject(t) THEN ProjectOf[t] ELSE Managed
HomeRow(d, t, i) == d.db.rows[i].name[1] = t /\ d.db.projects[d.db.rows[i].project].name = Home(t)

EnabledLinked(d) == \A i \in DOMAIN d.db.rows : d.db.rows[i].active => \E t \in Target : d.links.target[t].row = i
ProjectsNamed(d) ==
    /\ \A i, j \in DOMAIN d.db.projects : d.db.projects[i].name = d.db.projects[j].name => i = j
    /\ \A h \in HubProject : d.links.project[h] # 0 => d.db.projects[d.links.project[h]].name = h
    /\ ~PerProject => /\ \A i \in DOMAIN d.db.projects : d.db.projects[i] = [name |-> Managed, active |-> TRUE]
                      /\ \A h \in HubProject : d.links.project[h] = 0
OneHomeRow(d) ==
    \A t \in Target : \A i \in DOMAIN d.db.rows :
        HomeRow(d, t, i) => /\ d.links.target[t].row \in {0, i}
                            /\ \A j \in DOMAIN d.db.rows : HomeRow(d, t, j) => j = i
FirstNames(d) == \A i \in DOMAIN d.db.rows : d.db.rows[i].name[2] = 0
Tidy(d) == EnabledLinked(d) /\ ProjectsNamed(d) /\ OneHomeRow(d) /\ FirstNames(d)

\* The project found for a target is the one of its home's name, or is new.
LEMMA HomeFound ==
    ASSUME NEW d, Typed(d), ProjectsNamed(d), NEW t \in Target, NEW f, f = FindProject(d, t)
    PROVE  /\ f # 0 => f \in DOMAIN d.db.projects /\ d.db.projects[f].name = Home(t)
           /\ f = 0 => \A j \in DOMAIN d.db.projects : d.db.projects[j].name # Home(t)
<1>1. d.db.projects \in Seq(ProjectRow)
  BY DEF Typed, Db
<1>2. ASSUME NEW name, NEW n, n = ProjectNamed(d.db, name)
      PROVE  /\ n # 0 => n \in DOMAIN d.db.projects /\ d.db.projects[n].name = name
             /\ n = 0 => \A j \in DOMAIN d.db.projects : d.db.projects[j].name # name
  <2>1. PICK S : S = {i \in DOMAIN d.db.projects : d.db.projects[i].name = name}
    OBVIOUS
  <2>2. S \subseteq Nat \ {0}
    BY <1>1, <2>1
  <2>3. n = Lowest(S)
    BY <1>2, <2>1 DEF ProjectNamed
  <2>4. (S = {} => n = 0) /\ (S # {} => n \in S)
    BY <2>2, <2>3, LowestIs
  <2>5. \A j \in S : j # 0
    BY <2>2
  <2> QED
    BY <2>1, <2>4, <2>5
<1>3. CASE ~InHubProject(t)
  BY <1>2, <1>3 DEF FindProject, Home
<1>4. CASE InHubProject(t)
  <2>1. ProjectOf[t] \in HubProject /\ Home(t) = ProjectOf[t]
    BY <1>4 DEF InHubProject, HubProject, Home
  <2>2. f = FindHubProject(d, ProjectOf[t])
    BY <1>4 DEF FindProject
  <2>3. PICK k : k = d.links.project[ProjectOf[t]]
    OBVIOUS
  <2>4. CASE k \in DOMAIN d.db.projects
    <3>1. k # 0
      BY <1>1, <2>4
    <3> QED
      BY <2>1, <2>2, <2>3, <2>4, <3>1 DEF FindHubProject, ProjectsNamed
  <2>5. CASE k \notin DOMAIN d.db.projects
    BY <1>2, <2>1, <2>2, <2>3, <2>5 DEF FindHubProject
  <2> QED
    BY <2>4, <2>5
<1> QED
  BY <1>3, <1>4

\* A turn names its target's project, and renames no other.
LEMMA HomeNamed ==
    ASSUME NEW d, Typed(d), ProjectsNamed(d), NEW t \in Target, NEW z, NEW i, Typed(z), InProject(d, z, t, i)
    PROVE  /\ ProjectsNamed(z)
           /\ i \in DOMAIN z.db.projects /\ z.db.projects[i].name = Home(t)
           /\ \A j \in DOMAIN d.db.projects : j \in DOMAIN z.db.projects /\ z.db.projects[j].name = d.db.projects[j].name
           /\ i \notin DOMAIN d.db.projects => \A j \in DOMAIN d.db.projects : d.db.projects[j].name # Home(t)
<1>1. PICK f : f = FindProject(d, t)
  OBVIOUS
<1>2. /\ f # 0 => f \in DOMAIN d.db.projects /\ d.db.projects[f].name = Home(t)
      /\ f = 0 => \A j \in DOMAIN d.db.projects : d.db.projects[j].name # Home(t)
  BY <1>1, HomeFound
<1>3. d.db.projects \in Seq(ProjectRow) /\ z.db.projects \in Seq(ProjectRow)
  BY DEF Typed, Db
<1>4. /\ i = Row(d.db.projects, f) /\ i \in DOMAIN z.db.projects /\ i # 0 /\ DOMAIN d.db.projects \subseteq DOMAIN z.db.projects
      /\ \A j \in DOMAIN z.db.projects : j = i \/ (j \in DOMAIN d.db.projects /\ z.db.projects[j] = d.db.projects[j])
  BY <1>1 DEF InProject
<1>5. (f # 0 => i = f) /\ (f = 0 => i \notin DOMAIN d.db.projects)
  BY <1>3, <1>4 DEF Row
<1>6. CASE InHubProject(t)
  <2>1. ProjectOf[t] \in HubProject /\ Home(t) = ProjectOf[t] /\ PerProject
    BY <1>6 DEF InHubProject, HubProject, Home
  <2>2. /\ z.db.projects[i] = [name |-> ProjectOf[t], active |-> TRUE]
        /\ z.links.project = [d.links.project EXCEPT ![ProjectOf[t]] = i]
    BY <1>6 DEF InProject
  <2>3. d.links.project \in [HubProject -> Nat]
    BY DEF Typed, Links
  <2>4. z.links.project[ProjectOf[t]] = i /\ \A h \in HubProject : h # ProjectOf[t] => z.links.project[h] = d.links.project[h]
    BY <2>1, <2>2, <2>3
  <2>5. z.db.projects[i].name = Home(t)
    BY <2>1, <2>2
  <2>6. \A j \in DOMAIN d.db.projects : z.db.projects[j].name = d.db.projects[j].name
    BY <1>2, <1>4, <1>5, <2>5
  <2>7. \A j, k \in DOMAIN z.db.projects : z.db.projects[j].name = z.db.projects[k].name => j = k
    BY <1>2, <1>4, <1>5, <2>5, <2>6 DEF ProjectsNamed
  <2>8. \A h \in HubProject : z.links.project[h] # 0 => z.db.projects[z.links.project[h]].name = h
    <3>1. \A h \in HubProject : d.links.project[h] # 0 => d.links.project[h] \in DOMAIN d.db.projects
      BY <1>3 DEF Typed, LinksExist
    <3>2. \A h \in HubProject : d.links.project[h] # 0 => d.db.projects[d.links.project[h]].name = h
      BY DEF ProjectsNamed
    <3> QED
      BY <2>1, <2>4, <2>5, <2>6, <3>1, <3>2
  <2>9. ProjectsNamed(z)
    BY <2>1, <2>7, <2>8 DEF ProjectsNamed
  <2> QED
    BY <1>2, <1>4, <1>5, <2>5, <2>6, <2>9
<1>7. CASE ~InHubProject(t) /\ f # 0
  <2>1. z.db.projects = d.db.projects /\ z.links.project = d.links.project
    BY <1>1, <1>7 DEF InProject
  <2> QED
    BY <1>2, <1>4, <1>5, <1>7, <2>1 DEF ProjectsNamed
<1>8. CASE ~InHubProject(t) /\ f = 0
  <2>1. z.db.projects[i] = [name |-> Managed, active |-> TRUE] /\ z.links.project = d.links.project /\ Home(t) = Managed
    BY <1>1, <1>8 DEF InProject, Home
  <2>2. i \notin DOMAIN d.db.projects
    BY <1>5, <1>8
  <2>3. \A j \in DOMAIN d.db.projects : z.db.projects[j] = d.db.projects[j]
    BY <1>4, <2>2
  <2>4. z.db.projects[i].name = Managed /\ \A j \in DOMAIN d.db.projects : d.db.projects[j].name # Managed
    BY <1>2, <1>8, <2>1
  <2>5. \A j, k \in DOMAIN z.db.projects : z.db.projects[j].name = z.db.projects[k].name => j = k
    BY <1>4, <2>3, <2>4 DEF ProjectsNamed
  <2>6. \A h \in HubProject : z.links.project[h] # 0 => z.db.projects[z.links.project[h]].name = h
    <3>1. \A h \in HubProject : d.links.project[h] # 0 => d.links.project[h] \in DOMAIN d.db.projects
      BY <1>3 DEF Typed, LinksExist
    <3>2. \A h \in HubProject : d.links.project[h] # 0 => d.db.projects[d.links.project[h]].name = h
      BY DEF ProjectsNamed
    <3> QED
      BY <2>1, <2>3, <3>1, <3>2
  <2>7. ~PerProject => /\ \A j \in DOMAIN z.db.projects : z.db.projects[j] = [name |-> Managed, active |-> TRUE]
                       /\ \A h \in HubProject : z.links.project[h] = 0
    BY <1>4, <2>1, <2>3 DEF ProjectsNamed
  <2>8. ProjectsNamed(z)
    BY <2>5, <2>6, <2>7 DEF ProjectsNamed
  <2> QED
    BY <1>4, <2>1, <2>2, <2>3, <2>4, <2>8
<1> QED
  BY <1>6, <1>7, <1>8

\* The turn of a target leaves no row of it behind.
LEMMA SyncOneTidy ==
    ASSUME NEW d, Sound(d), Tidy(d), NEW t \in Target, NEW listed \in Listed(t), listed.name[2] = 0,
           NEW z, NEW i, TargetDone(d, z, t, listed, i)
    PROVE  Tidy(z)
<1>1. PICK r, q : r = z.links.target[t].row /\ q = d.links.target[t].row
  OBVIOUS
<1>2. /\ Typed(z) /\ Typed(d) /\ InProject(d, z, t, i) /\ InRow(d, z, t, listed, i) /\ listed.name = <<t, 0>>
  BY DEF TargetDone, Sound, Listed
<1>3. /\ ProjectsNamed(z)
      /\ i \in DOMAIN z.db.projects /\ z.db.projects[i].name = Home(t)
      /\ \A j \in DOMAIN d.db.projects : j \in DOMAIN z.db.projects /\ z.db.projects[j].name = d.db.projects[j].name
      /\ i \notin DOMAIN d.db.projects => \A j \in DOMAIN d.db.projects : d.db.projects[j].name # Home(t)
  BY <1>2, HomeNamed DEF Tidy
<1>4. /\ z.links.target = [d.links.target EXCEPT ![t] = [row |-> r, project |-> i]]
      /\ r \in DOMAIN z.db.rows /\ r # 0
      /\ z.db.rows[r] = [project |-> i, name |-> listed.name, active |-> TRUE]
      /\ DOMAIN d.db.rows \subseteq DOMAIN z.db.rows
  BY <1>1, <1>2 DEF InRow, AtRow
<1>5. \A j \in DOMAIN z.db.rows : \/ j = r
                                  \/ j \in DOMAIN d.db.rows /\ z.db.rows[j] = d.db.rows[j]
                                  \/ /\ j = q /\ j \in DOMAIN d.db.rows /\ z.db.rows[j].project = i
                                     /\ z.db.rows[j].name = d.db.rows[j].name /\ z.db.rows[j].active = d.db.rows[j].active
  BY <1>1, <1>2 DEF InRow, AtRow
<1>6. /\ r \in DOMAIN d.db.rows => d.db.rows[r].name = listed.name /\ (r = q \/ d.db.rows[r].project = i)
      /\ r \notin DOMAIN d.db.rows => \A j \in DOMAIN d.db.rows : ~(d.db.rows[j].name = listed.name /\ (j = q \/ d.db.rows[j].project = i))
  BY <1>1, <1>2 DEF InRow, AtRow
<1>7. /\ d.links.target \in [Target -> [row : Nat, project : Nat]] /\ d.db.rows \in Seq(TargetRow)
      /\ \A j \in DOMAIN d.db.rows : d.db.rows[j].project \in DOMAIN d.db.projects
      /\ q # 0 => q \in DOMAIN d.db.rows /\ d.db.rows[q].name[1] = t
  <2>1. d.links.target \in [Target -> [row : Nat, project : Nat]] /\ d.db.rows \in Seq(TargetRow)
    BY <1>2 DEF Typed, Links, Db
  <2>2. \A j \in DOMAIN d.db.rows : d.db.rows[j].project \in DOMAIN d.db.projects
    BY <1>2 DEF Typed, RowsExist
  <2>3. q # 0 => q \in DOMAIN d.db.rows /\ d.db.rows[q].name[1] = t
    BY <1>1, <1>2, <2>1 DEF Typed, LinksExist, Sound, TargetAgrees
  <2> QED
    BY <2>1, <2>2, <2>3
<1>8. \A j \in DOMAIN d.db.rows : d.db.rows[j].name[1] = t => d.db.rows[j].name = listed.name
  <2>1. SUFFICES ASSUME NEW j \in DOMAIN d.db.rows, d.db.rows[j].name[1] = t
                 PROVE  d.db.rows[j].name = <<t, 0>>
    BY <1>2
  <2>2. d.db.rows[j] \in TargetRow /\ d.db.rows[j].name[2] = 0
    BY <1>7 DEF Tidy, FirstNames
  <2> QED
    BY <2>1, <2>2 DEF TargetRow
\* Rows of t in the project are HomeRows.
<1>9. \A j \in DOMAIN d.db.rows : d.db.rows[j].project = i /\ d.db.rows[j].name[1] = t => HomeRow(d, t, j)
  BY <1>3, <1>7 DEF HomeRow
\* The linked row is found again.
<1>10. q # 0 => r = q
  <2>1. SUFFICES ASSUME q # 0 PROVE r = q
    OBVIOUS
  <2>2. q \in DOMAIN d.db.rows /\ d.db.rows[q].name = listed.name
    BY <1>7, <1>8, <2>1
  <2>3. r \in DOMAIN d.db.rows
    BY <1>6, <2>2
  <2>4. CASE d.db.rows[r].project = i
    <3>1. HomeRow(d, t, r)
      BY <1>2, <1>6, <1>9, <2>3, <2>4
    <3> QED
      BY <1>1, <2>1, <2>3, <3>1 DEF Tidy, OneHomeRow
  <2> QED
    BY <1>6, <2>3, <2>4
<1>11. \A j \in DOMAIN z.db.rows : j # r => j \in DOMAIN d.db.rows /\ z.db.rows[j] = d.db.rows[j]
  <2>1. \A j \in DOMAIN d.db.rows : j # 0
    BY <1>7
  <2> QED
    BY <1>5, <1>10, <2>1
<1>12. \A u \in Target : u # t => z.links.target[u] = d.links.target[u]
  BY <1>4, <1>7
<1>13. EnabledLinked(z)
  <2>1. SUFFICES ASSUME NEW j \in DOMAIN z.db.rows, z.db.rows[j].active, j # r
                 PROVE  \E u \in Target : z.links.target[u].row = j
    BY <1>1 DEF EnabledLinked
  <2>2. j \in DOMAIN d.db.rows /\ d.db.rows[j].active
    BY <1>11, <2>1
  <2>3. PICK u \in Target : d.links.target[u].row = j
    BY <2>2 DEF Tidy, EnabledLinked
  <2>4. j # 0
    BY <1>7, <2>2
  <2>5. u # t
    BY <1>1, <1>10, <2>1, <2>3, <2>4
  <2> QED
    BY <1>12, <2>3, <2>5
<1>14. FirstNames(z)
  BY <1>2, <1>4, <1>11 DEF Tidy, FirstNames
<1>15. OneHomeRow(z)
  <2>1. \A u \in Target : \A j \in DOMAIN z.db.rows : j # r => (HomeRow(z, u, j) <=> HomeRow(d, u, j))
    BY <1>3, <1>7, <1>11 DEF HomeRow
  <2>2. \A u \in Target : HomeRow(z, u, r) => u = t
    BY <1>2, <1>4 DEF HomeRow
  <2>3. \A j \in DOMAIN z.db.rows : HomeRow(z, t, j) => j = r
    <3>1. SUFFICES ASSUME NEW j \in DOMAIN z.db.rows, HomeRow(z, t, j), j # r
                   PROVE  FALSE
      OBVIOUS
    <3>2. j \in DOMAIN d.db.rows /\ HomeRow(d, t, j) /\ d.db.rows[j].name[1] = t
      BY <1>11, <2>1, <3>1 DEF HomeRow
    <3>3. j # 0 /\ d.db.rows[j].project \in DOMAIN d.db.projects
      BY <1>7, <3>2
    <3>4. d.db.projects[d.db.rows[j].project].name = Home(t)
      BY <3>2 DEF HomeRow
    <3>5. d.db.rows[j].project = i
      BY <1>3, <3>3, <3>4 DEF ProjectsNamed
    <3>6. r \in DOMAIN d.db.rows
      BY <1>6, <1>8, <3>2, <3>5
    <3>7. r # q
      BY <1>1, <3>1, <3>2, <1>10, <1>4 DEF Tidy, OneHomeRow
    <3>8. HomeRow(d, t, r)
      BY <1>2, <1>6, <1>9, <3>6, <3>7
    <3> QED
      BY <3>1, <3>2, <3>6, <3>8 DEF Tidy, OneHomeRow
  <2>4. ASSUME NEW u \in Target, NEW j \in DOMAIN z.db.rows, HomeRow(z, u, j)
        PROVE  z.links.target[u].row \in {0, j} /\ \A k \in DOMAIN z.db.rows : HomeRow(z, u, k) => k = j
    <3>1. CASE u = t
      BY <1>1, <2>3, <2>4, <3>1
    <3>2. CASE u # t
      <4>1. j # r /\ j \in DOMAIN d.db.rows /\ HomeRow(d, u, j)
        BY <1>11, <2>1, <2>2, <2>4, <3>2
      <4>2. z.links.target[u].row \in {0, j}
        BY <1>12, <3>2, <4>1 DEF Tidy, OneHomeRow
      <4>3. \A k \in DOMAIN z.db.rows : HomeRow(z, u, k) => k \in DOMAIN d.db.rows /\ HomeRow(d, u, k)
        BY <1>11, <2>1, <2>2, <3>2
      <4> QED
        BY <4>1, <4>2, <4>3 DEF Tidy, OneHomeRow
    <3> QED
      BY <3>1, <3>2
  <2> QED
    BY <2>4 DEF OneHomeRow
<1> QED
  BY <1>3, <1>13, <1>14, <1>15 DEF Tidy

(***************************************************************************)
(* What the Hub asked for                                                  *)
(***************************************************************************)
\* Every target is of a project of the Hub's.
Placed == \A t \in Target : ProjectOf[t] # None

\* A target of the list is scheduled, with the counts of its plans.
Asked(d, t, listed) ==
    LET r == d.links.target[t].row
    IN  /\ r # 0 /\ d.db.rows[r].active /\ d.db.projects[d.db.rows[r].project].active
        /\ \A p \in listed.plans : d.links.plan[p] # 0 /\ d.db.plans[d.links.plan[p]].desired = Desired[p]

\* The turn of a target leaves the others' rows alone.
LEMMA OthersStay ==
    ASSUME NEW d, Sound(d), NEW t \in Target, NEW listed \in Listed(t), NEW z, NEW i, TargetDone(d, z, t, listed, i),
           NEW u \in Target, u # t, NEW k, k = d.links.target[u].row
    PROVE  /\ z.links.target[u] = d.links.target[u]
           /\ k # 0 => k \in DOMAIN d.db.rows /\ z.db.rows[k] = d.db.rows[k] /\ d.db.rows[k].name[1] = u
<1>1. PICK r, q : r = z.links.target[t].row /\ q = d.links.target[t].row
  OBVIOUS
<1>2. InRow(d, z, t, listed, i) /\ Typed(d) /\ listed.name[1] = t
  BY DEF TargetDone, Sound, Listed
<1>3. /\ z.links.target = [d.links.target EXCEPT ![t] = [row |-> r, project |-> i]]
      /\ DOMAIN d.db.rows \subseteq DOMAIN z.db.rows
      /\ r \in DOMAIN d.db.rows => d.db.rows[r].name = listed.name
      /\ \A j \in DOMAIN z.db.rows : \/ j = r
                                     \/ j \in DOMAIN d.db.rows /\ z.db.rows[j] = d.db.rows[j]
                                     \/ j = q /\ j \in DOMAIN d.db.rows /\ z.db.rows[j].name = d.db.rows[j].name
  BY <1>1, <1>2 DEF InRow, AtRow
<1>4. d.links.target \in [Target -> [row : Nat, project : Nat]] /\ d.db.rows \in Seq(TargetRow)
  BY <1>2 DEF Typed, Links, Db
<1>5. z.links.target[u] = d.links.target[u]
  BY <1>3, <1>4
<1>6. ASSUME k # 0
      PROVE  k \in DOMAIN d.db.rows /\ z.db.rows[k] = d.db.rows[k] /\ d.db.rows[k].name[1] = u
  <2>1. k \in DOMAIN d.db.rows /\ d.db.rows[k].name[1] = u
    BY <1>2, <1>4, <1>6 DEF Typed, LinksExist, Sound, TargetAgrees
  <2>2. k # r
    BY <1>2, <1>3, <2>1
  <2>3. k # q
    BY <1>1, <1>6, <2>1 DEF Sound, TargetAgrees
  <2> QED
    BY <1>3, <2>1, <2>2, <2>3
<1> QED
  BY <1>5, <1>6

LEMMA SyncOneAsked ==
    ASSUME NEW d, Sound(d), Tidy(d), Placed, OwnFilters, NEW t \in Target, NEW listed \in Listed(t),
           NEW z, NEW i, TargetDone(d, z, t, listed, i)
    PROVE  Asked(z, t, listed)
<1>1. PICK r : r = z.links.target[t].row
  OBVIOUS
<1>2. /\ InRow(d, z, t, listed, i) /\ InProject(d, z, t, i) /\ Typed(z) /\ Typed(d) /\ ProjectsNamed(d)
  BY DEF TargetDone, Sound, Tidy
<1>3. r # 0 /\ z.db.rows[r].active /\ z.db.rows[r].project = i /\ i \in DOMAIN z.db.projects
  BY <1>1, <1>2 DEF InRow, AtRow, InProject
<1>4. z.db.projects[i].active
  <2>1. CASE InHubProject(t)
    BY <1>2, <2>1 DEF InProject
  <2>2. CASE ~InHubProject(t)
    <3>1. ~PerProject
      BY <2>2 DEF Placed, InHubProject
    <3>2. ProjectsNamed(z)
      BY <1>2, HomeNamed
    <3> QED
      BY <1>3, <3>1, <3>2 DEF ProjectsNamed
  <2> QED
    BY <2>1, <2>2
<1>5. \A p \in listed.plans : z.links.plan[p] # 0 /\ z.db.plans[z.links.plan[p]].desired = Desired[p]
  BY DEF TargetDone
<1> QED
  BY <1>1, <1>3, <1>4, <1>5 DEF Asked

LEMMA StillAsked ==
    ASSUME NEW d, Sound(d), NEW t \in Target, NEW listed \in Listed(t), NEW z, NEW i, TargetDone(d, z, t, listed, i),
           NEW u \in Target, u # t, NEW l \in Listed(u), Asked(d, u, l)
    PROVE  Asked(z, u, l)
<1>1. PICK k : k = d.links.target[u].row
  OBVIOUS
<1>2. k # 0 /\ d.db.rows[k].active /\ d.db.projects[d.db.rows[k].project].active
  BY <1>1 DEF Asked
<1>3. z.links.target[u] = d.links.target[u] /\ k \in DOMAIN d.db.rows /\ z.db.rows[k] = d.db.rows[k] /\ d.db.rows[k].name[1] = u
  <2>1. /\ z.links.target[u] = d.links.target[u]
        /\ k # 0 => k \in DOMAIN d.db.rows /\ z.db.rows[k] = d.db.rows[k] /\ d.db.rows[k].name[1] = u
    BY <1>1, OthersStay
  <2> QED
    BY <1>2, <2>1
<1>4. z.db.projects[z.db.rows[k].project].active
  <2>1. PICK j : j = d.db.rows[k].project
    OBVIOUS
  <2>2. j \in DOMAIN d.db.projects
    BY <1>3, <2>1 DEF Sound, Typed, RowsExist
  <2>3. InProject(d, z, t, i)
    BY DEF TargetDone
  <2>4. j \in DOMAIN z.db.projects /\ (j = i \/ z.db.projects[j] = d.db.projects[j])
    BY <2>2, <2>3 DEF InProject
  <2>5. z.db.projects[i].active \/ z.db.projects = d.db.projects
    BY <2>3 DEF InProject
  <2> QED
    BY <1>2, <1>3, <2>1, <2>4, <2>5
<1>5. ASSUME NEW p \in l.plans
      PROVE  z.links.plan[p] # 0 /\ z.db.plans[z.links.plan[p]].desired = Desired[p]
  <2>1. p \in Plan /\ Owner[p] = u
    BY DEF Listed, PlansOf
  <2>2. PICK n : n = d.links.plan[p]
    OBVIOUS
  <2>3. n # 0 /\ d.db.plans[n].desired = Desired[p] /\ z.links.plan[p] = n
    BY <2>1, <2>2 DEF Asked, TargetDone
  <2>4. n \in DOMAIN d.db.plans /\ d.db.plans[n].row = k
    <3>1. n \in 0..Len(d.db.plans) /\ d.db.plans \in Seq(PlanRow) /\ PlanAgrees(d, p)
      BY <2>1, <2>2 DEF Sound, Typed, LinksExist, Db
    <3> QED
      BY <1>1, <2>1, <2>2, <2>3, <3>1 DEF PlanAgrees
  <2>5. n \in DOMAIN z.db.plans /\ z.db.plans[n].row = k
    BY <2>4 DEF TargetDone
  <2>6. z.db.plans[n] = d.db.plans[n]
    <3>1. z.db.rows[z.db.plans[n].row].name[1] # t
      BY <1>3, <2>5
    <3> QED
      BY <2>5, <3>1 DEF TargetDone
  <2> QED
    BY <2>3, <2>6
<1> QED
  BY <1>1, <1>2, <1>3, <1>4, <1>5 DEF Asked

(***************************************************************************)
(* All targets of the list                                                 *)
(***************************************************************************)
Lists(list) == DOMAIN list \subseteq Target /\ \A t \in DOMAIN list : list[t] \in Listed(t)
FirstListed(list) == \A t \in DOMAIN list : list[t].name[2] = 0

LEMMA SyncAllKeeps ==
    ASSUME NEW d, Sound(d), NEW list, Lists(list), NEW z, z = SyncAll(d, list)
    PROVE  /\ Sound(z) /\ Grown(d.db, z.db)
           /\ Tidy(d) /\ FirstListed(list) =>
                /\ Tidy(z)
                /\ Placed /\ OwnFilters => \A t \in DOMAIN list : Asked(z, t, list[t])
<1>1. PICK g : /\ SyncAll(d, list) = g[LastId]
               /\ g[0] = d
               /\ \A n \in 1..LastId : g[n] = IF n \in DOMAIN list THEN SyncOne(g[n-1], n, list[n]) ELSE g[n-1]
  BY SyncAllIs
<1> DEFINE Up(e, n) == /\ Sound(e) /\ Grown(d.db, e.db)
                       /\ Tidy(d) /\ FirstListed(list) =>
                            /\ Tidy(e)
                            /\ Placed /\ OwnFilters => \A t \in DOMAIN list : t <= n => Asked(e, t, list[t])
<1> DEFINE good == {n \in 0..LastId : Up(g[n], n)}
<1>2. DOMAIN list \subseteq 1..LastId /\ DOMAIN list \subseteq Target /\ LastId \in Nat
  BY TargetsNumbered DEF Lists
<1>3. 0 \in good
  <2>1. \A t \in DOMAIN list : ~(t <= 0)
    BY <1>2
  <2>2. Grown(d.db, d.db)
    BY DEF Grown
  <2>3. Up(d, 0)
    BY <2>1, <2>2
  <2> QED
    BY <1>1, <1>2, <2>3
<1>4. ASSUME NEW n \in 1..LastId, n - 1 \in good
      PROVE  n \in good
  <2>1. PICK e : e = g[n-1]
    OBVIOUS
  <2>2. Up(e, n - 1)
    BY <1>4, <2>1
  <2>3. CASE n \notin DOMAIN list
    <3>1. g[n] = e
      BY <1>1, <2>1, <2>3
    <3>2. \A t \in DOMAIN list : t <= n => t <= n - 1
      BY <1>2, <2>3
    <3>3. Up(e, n)
      BY <2>2, <3>2
    <3> QED
      BY <1>2, <3>1, <3>3
  <2>4. CASE n \in DOMAIN list
    <3>1. PICK u : u = SyncOne(e, n, list[n])
      OBVIOUS
    <3>2. g[n] = u
      BY <1>1, <2>1, <2>4, <3>1
    <3>3. n \in Target /\ list[n] \in Listed(n) /\ Sound(e) /\ Grown(d.db, e.db)
      BY <1>2, <2>2, <2>4 DEF Lists
    <3>4. PICK i : TargetDone(e, u, n, list[n], i)
      BY <3>1, <3>3, SyncOneIs
    <3>5. Sound(u) /\ Grown(e.db, u.db)
      BY <3>3, <3>4, SyncOneKeeps
    <3>6. Grown(d.db, u.db)
      BY <3>3, <3>5 DEF Grown
    <3>7. ASSUME Tidy(d), FirstListed(list)
          PROVE  /\ Tidy(u)
                 /\ Placed /\ OwnFilters => \A t \in DOMAIN list : t <= n => Asked(u, t, list[t])
      <4>1. Tidy(e) /\ list[n].name[2] = 0
        BY <2>2, <2>4, <3>7 DEF FirstListed
      <4>2. Tidy(u)
        BY <3>3, <3>4, <4>1, SyncOneTidy
      <4>3. ASSUME Placed, OwnFilters, NEW t \in DOMAIN list, t <= n
            PROVE  Asked(u, t, list[t])
        <5>1. CASE t = n
          BY <3>3, <3>4, <4>1, <4>3, <5>1, SyncOneAsked
        <5>2. CASE t # n
          <6>1. t <= n - 1 /\ t \in Target /\ list[t] \in Listed(t)
            BY <1>2, <4>3, <5>2 DEF Lists
          <6>2. Asked(e, t, list[t])
            BY <2>2, <3>7, <4>3, <6>1
          <6> QED
            BY <3>3, <3>4, <5>2, <6>1, <6>2, StillAsked
        <5> QED
          BY <5>1, <5>2
      <4> QED
        BY <4>2, <4>3
    <3>8. Up(u, n)
      BY <3>5, <3>6, <3>7
    <3> QED
      BY <1>2, <3>2, <3>8
  <2> QED
    BY <2>3, <2>4
<1>5. LastId \in good
  <2> HIDE DEF good
  <2>1. 0..LastId \subseteq good
    BY <1>3, <1>4, InductionToLastId
  <2> QED
    BY <1>2, <2>1
<1>6. Up(z, LastId)
  BY <1>1, <1>5
<1>7. \A t \in DOMAIN list : t <= LastId
  BY <1>2
<1> QED
  BY <1>6, <1>7

(***************************************************************************)
(* Projects deactivated                                                    *)
(***************************************************************************)
Shut(d, empty) == [d EXCEPT !.db = Deactivated(d.db, empty)]

LEMMA ShutIs ==
    ASSUME NEW d, Typed(d), NEW empty, NEW z, z = Shut(d, empty)
    PROVE  /\ Typed(z) /\ z.links = d.links /\ z.db.rows = d.db.rows /\ z.db.plans = d.db.plans
           /\ DOMAIN z.db.projects = DOMAIN d.db.projects
           /\ \A i \in DOMAIN d.db.projects : /\ z.db.projects[i].name = d.db.projects[i].name
                                              /\ i \notin empty => z.db.projects[i] = d.db.projects[i]
<1>1. d.db.projects \in Seq(ProjectRow) /\ d.db \in Db /\ d.links \in Links /\ d = [db |-> d.db, links |-> d.links]
  BY DEF Typed, Db
<1>2. PICK s : s = [i \in DOMAIN d.db.projects |-> IF i \in empty THEN [d.db.projects[i] EXCEPT !.active = FALSE] ELSE d.db.projects[i]]
  OBVIOUS
<1>3. z = [db |-> [d.db EXCEPT !.projects = s], links |-> d.links]
  <2>1. Deactivated(d.db, empty) = [d.db EXCEPT !.projects = s]
    BY <1>1, <1>2 DEF Deactivated, Db
  <2> QED
    BY <1>1, <2>1 DEF Shut
<1>4. ASSUME NEW i \in DOMAIN d.db.projects
      PROVE  s[i] \in ProjectRow /\ s[i].name = d.db.projects[i].name /\ (i \notin empty => s[i] = d.db.projects[i])
  <2>1. PICK old : old = d.db.projects[i]
    OBVIOUS
  <2>2. old \in ProjectRow
    BY <1>1, <2>1
  <2>3. s[i] = IF i \in empty THEN [old EXCEPT !.active = FALSE] ELSE old
    BY <1>2, <2>1
  <2> QED
    BY <2>1, <2>2, <2>3 DEF ProjectRow
<1>5. DOMAIN s = DOMAIN d.db.projects /\ s \in Seq(ProjectRow) /\ Len(s) = Len(d.db.projects)
  <2>1. DOMAIN s = 1..Len(d.db.projects) /\ Len(d.db.projects) \in Nat
    BY <1>1, <1>2
  <2>2. s = [j \in 1..Len(d.db.projects) |-> s[j]] /\ \A j \in 1..Len(d.db.projects) : s[j] \in ProjectRow
    BY <1>1, <1>2, <1>4, <2>1
  <2>3. s \in [1..Len(d.db.projects) -> ProjectRow]
    BY <2>2
  <2> QED
    BY <1>1, <2>1, <2>3
<1>6. /\ z.db \in Db /\ z.db.projects = s /\ z.db.rows = d.db.rows /\ z.db.plans = d.db.plans /\ z.links = d.links
  BY <1>1, <1>3, <1>5 DEF Db
<1>7. RowsExist(z.db) /\ LinksExist(z)
  BY <1>5, <1>6 DEF Typed, RowsExist, LinksExist
<1>8. Typed(z)
  BY <1>1, <1>3, <1>6, <1>7 DEF Typed
<1> QED
  BY <1>4, <1>5, <1>6, <1>8

LEMMA ShutKeeps ==
    ASSUME NEW d, Sound(d), NEW empty, NEW z, z = Shut(d, empty)
    PROVE  /\ Sound(z) /\ Grown(d.db, z.db)
           /\ Tidy(d) /\ (~PerProject => empty \cap DOMAIN d.db.projects = {}) => Tidy(z)
<1>1. /\ Typed(d) /\ Typed(z) /\ z.links = d.links /\ z.db.rows = d.db.rows /\ z.db.plans = d.db.plans
      /\ DOMAIN z.db.projects = DOMAIN d.db.projects
      /\ \A i \in DOMAIN d.db.projects : /\ z.db.projects[i].name = d.db.projects[i].name
                                         /\ i \notin empty => z.db.projects[i] = d.db.projects[i]
  BY ShutIs DEF Sound
<1>2. Sound(z)
  BY <1>1 DEF Sound, TargetAgrees, PlanAgrees
<1>3. Grown(d.db, z.db)
  BY <1>1 DEF Grown
<1>4. ASSUME Tidy(d), ~PerProject => empty \cap DOMAIN d.db.projects = {}
      PROVE  Tidy(z)
  <2>1. EnabledLinked(z) /\ FirstNames(z)
    BY <1>1, <1>4 DEF Tidy, EnabledLinked, FirstNames
  <2>2. ProjectsNamed(z)
    <3>1. \A h \in HubProject : d.links.project[h] # 0 => d.links.project[h] \in DOMAIN d.db.projects
      <4>1. d.db.projects \in Seq(ProjectRow)
        BY <1>1 DEF Typed, Db
      <4> QED
        BY <1>1, <4>1 DEF Typed, LinksExist
    <3>2. \A i, j \in DOMAIN z.db.projects : z.db.projects[i].name = z.db.projects[j].name => i = j
      BY <1>1, <1>4 DEF Tidy, ProjectsNamed
    <3>3. \A h \in HubProject : z.links.project[h] # 0 => z.db.projects[z.links.project[h]].name = h
      BY <1>1, <1>4, <3>1 DEF Tidy, ProjectsNamed
    <3>4. ~PerProject => /\ \A i \in DOMAIN z.db.projects : z.db.projects[i] = [name |-> Managed, active |-> TRUE]
                         /\ \A h \in HubProject : z.links.project[h] = 0
      BY <1>1, <1>4 DEF Tidy, ProjectsNamed
    <3> QED
      BY <3>2, <3>3, <3>4 DEF ProjectsNamed
  <2>3. OneHomeRow(z)
    <3>1. \A i \in DOMAIN d.db.rows : d.db.rows[i].project \in DOMAIN d.db.projects
      BY <1>1 DEF Typed, RowsExist
    <3>2. \A t \in Target : \A i \in DOMAIN d.db.rows : HomeRow(z, t, i) <=> HomeRow(d, t, i)
      BY <1>1, <3>1 DEF HomeRow
    <3> QED
      BY <1>1, <1>4, <3>2 DEF Tidy, OneHomeRow
  <2> QED
    BY <2>1, <2>2, <2>3 DEF Tidy
<1> QED
  BY <1>2, <1>3, <1>4

\* The end of roof-open: the managed project is left behind, when it is empty.
LEMMA SyncedKeeps ==
    ASSUME NEW d, Sound(d), NEW z, z = Synced(d)
    PROVE  /\ Sound(z) /\ Grown(d.db, z.db)
           /\ Tidy(d) => Tidy(z)
           /\ \A t \in Target : \A l \in Listed(t) : Asked(d, t, l) => Asked(z, t, l)
<1>1. PICK empty : empty = {i \in {ProjectNamed(d.db, Managed)} : PerProject /\ i # 0 /\ Enabled(d.db, i) = {}}
  OBVIOUS
<1>2. z = Shut(d, empty)
  BY <1>1 DEF Synced, RetireSingleProject, Shut
<1>3. ~PerProject => empty = {}
  BY <1>1
<1>4. Sound(z) /\ Grown(d.db, z.db) /\ (Tidy(d) => Tidy(z))
  BY <1>2, <1>3, ShutKeeps
<1>5. /\ Typed(d) /\ z.links = d.links /\ z.db.rows = d.db.rows /\ z.db.plans = d.db.plans
      /\ \A i \in DOMAIN d.db.projects : i \notin empty => z.db.projects[i] = d.db.projects[i]
  BY <1>2, ShutIs DEF Sound
<1>6. ASSUME NEW t \in Target, NEW l \in Listed(t), Asked(d, t, l)
      PROVE  Asked(z, t, l)
  <2>1. PICK k, j : k = d.links.target[t].row /\ j = d.db.rows[k].project
    OBVIOUS
  <2>2. k # 0 /\ d.db.rows[k].active /\ d.db.projects[j].active
    BY <1>6, <2>1 DEF Asked
  <2>3. k \in DOMAIN d.db.rows
    <3>1. d.db.rows \in Seq(TargetRow) /\ k \in 0..Len(d.db.rows)
      BY <1>5, <2>1 DEF Typed, Db, LinksExist
    <3> QED
      BY <2>2, <3>1
  <2>4. j \in DOMAIN d.db.projects
    BY <1>5, <2>1, <2>3 DEF Typed, RowsExist
  <2>5. k \in Enabled(d.db, j)
    BY <2>1, <2>2, <2>3 DEF Enabled
  <2>6. j \notin empty
    BY <1>1, <2>5
  <2>7. z.db.projects[j].active
    BY <1>5, <2>2, <2>4, <2>6
  <2>8. \A p \in l.plans : d.links.plan[p] # 0 /\ d.db.plans[d.links.plan[p]].desired = Desired[p]
    BY <1>6 DEF Asked
  <2> QED
    BY <1>5, <2>1, <2>2, <2>7, <2>8 DEF Asked
<1> QED
  BY <1>4, <1>6

(***************************************************************************)
(* Cleanup                                                                 *)
(***************************************************************************)
\* Targets to disable, with their rows.
Closing(d, listed) == DOMAIN listed \subseteq Target /\ \A t \in DOMAIN listed : listed[t] = d.links.target[t].row

DisabledWell(d, z, listed) ==
    /\ Typed(z) /\ z.db.projects = d.db.projects /\ z.db.plans = d.db.plans /\ z.links.project = d.links.project
    /\ DOMAIN z.db.rows = DOMAIN d.db.rows
    /\ \A i \in DOMAIN d.db.rows : /\ z.db.rows[i].name = d.db.rows[i].name /\ z.db.rows[i].project = d.db.rows[i].project
                                   /\ z.db.rows[i].active <=> d.db.rows[i].active /\ \A t \in DOMAIN listed : listed[t] # i
    /\ \A t \in Target : z.links.target[t] = IF t \in DOMAIN listed THEN [row |-> 0, project |-> 0] ELSE d.links.target[t]
    /\ \A p \in Plan : z.links.plan[p] = IF Owner[p] \in DOMAIN listed THEN 0 ELSE d.links.plan[p]

LEMMA DisabledIs ==
    ASSUME NEW d, Typed(d), NEW listed, Closing(d, listed), NEW z, z = Disabled(d, listed)
    PROVE  DisabledWell(d, z, listed)
<1>1. /\ d.db.rows \in Seq(TargetRow) /\ d.db.projects \in Seq(ProjectRow) /\ d.db \in Db
      /\ d.links \in Links /\ d = [db |-> d.db, links |-> d.links]
  BY DEF Typed, Db
<1>2. PICK rows : rows = [i \in DOMAIN d.db.rows |-> IF \E t \in DOMAIN listed : listed[t] = i THEN [d.db.rows[i] EXCEPT !.active = FALSE] ELSE d.db.rows[i]]
  OBVIOUS
<1>3. PICK targets : targets = [t \in Target |-> IF t \in DOMAIN listed THEN NoLinks.target[t] ELSE d.links.target[t]]
  OBVIOUS
<1>4. PICK ids : ids = [p \in Plan |-> IF Owner[p] \in DOMAIN listed THEN 0 ELSE d.links.plan[p]]
  OBVIOUS
<1>5. /\ z.db = [d.db EXCEPT !.rows = rows] /\ z.links = [d.links EXCEPT !.target = targets, !.plan = ids]
      /\ z = [db |-> z.db, links |-> z.links]
  BY <1>2, <1>3, <1>4 DEF Disabled
<1>6. ASSUME NEW i \in DOMAIN d.db.rows
      PROVE  /\ rows[i] \in TargetRow /\ rows[i].name = d.db.rows[i].name /\ rows[i].project = d.db.rows[i].project
             /\ rows[i].active <=> d.db.rows[i].active /\ \A t \in DOMAIN listed : listed[t] # i
  <2>1. PICK old : old = d.db.rows[i]
    OBVIOUS
  <2>2. old \in TargetRow
    BY <1>1, <2>1
  <2>3. rows[i] = IF \E t \in DOMAIN listed : listed[t] = i THEN [old EXCEPT !.active = FALSE] ELSE old
    BY <1>2, <2>1
  <2>4. CASE \E t \in DOMAIN listed : listed[t] = i
    <3>1. rows[i] = [old EXCEPT !.active = FALSE]
      BY <2>3, <2>4
    <3>2. rows[i] \in TargetRow /\ rows[i].name = old.name /\ rows[i].project = old.project /\ rows[i].active = FALSE
      BY <2>2, <3>1 DEF TargetRow
    <3> QED
      BY <2>1, <2>4, <3>2
  <2>5. CASE ~\E t \in DOMAIN listed : listed[t] = i
    <3>1. rows[i] = old
      BY <2>3, <2>5
    <3> QED
      BY <2>1, <2>2, <2>5, <3>1
  <2> QED
    BY <2>4, <2>5
<1>7. DOMAIN rows = DOMAIN d.db.rows /\ rows \in Seq(TargetRow) /\ Len(rows) = Len(d.db.rows)
  <2>1. DOMAIN rows = 1..Len(d.db.rows) /\ Len(d.db.rows) \in Nat
    BY <1>1, <1>2
  <2>2. rows = [j \in 1..Len(d.db.rows) |-> rows[j]] /\ \A j \in 1..Len(d.db.rows) : rows[j] \in TargetRow
    BY <1>1, <1>2, <1>6, <2>1
  <2>3. rows \in [1..Len(d.db.rows) -> TargetRow]
    BY <2>2
  <2> QED
    BY <1>1, <2>1, <2>3
<1>8. /\ z.db \in Db /\ z.db.projects = d.db.projects /\ z.db.rows = rows /\ z.db.plans = d.db.plans
  BY <1>1, <1>5, <1>7 DEF Db
<1>9. \A t \in Target : targets[t] = IF t \in DOMAIN listed THEN [row |-> 0, project |-> 0] ELSE d.links.target[t]
  BY <1>3 DEF NoLinks
<1>10. \A p \in Plan : ids[p] = IF Owner[p] \in DOMAIN listed THEN 0 ELSE d.links.plan[p]
  BY <1>4
<1>11. targets \in [Target -> [row : Nat, project : Nat]] /\ ids \in [Plan -> Nat]
  <2>1. d.links.target \in [Target -> [row : Nat, project : Nat]] /\ d.links.plan \in [Plan -> Nat]
    BY <1>1 DEF Links
  <2>2. [row |-> 0, project |-> 0] \in [row : Nat, project : Nat]
    OBVIOUS
  <2>3. targets \in [Target -> [row : Nat, project : Nat]]
    <3>1. \A t \in Target : targets[t] \in [row : Nat, project : Nat]
      BY <1>9, <2>1, <2>2
    <3> QED
      BY <1>3, <3>1
  <2> QED
    BY <1>4, <2>1, <2>3
<1>12. z.links \in Links /\ z.links.target = targets /\ z.links.plan = ids /\ z.links.project = d.links.project
  BY <1>1, <1>5, <1>11 DEF Links
<1>13. RowsExist(z.db)
  BY <1>6, <1>7, <1>8 DEF Typed, RowsExist
<1>14. LinksExist(z)
  <2>1. \A t \in Target : targets[t].row \in 0..Len(rows)
    <3>1. \A t \in Target : d.links.target[t].row \in 0..Len(rows)
      BY <1>7 DEF Typed, LinksExist
    <3>2. 0 \in 0..Len(rows)
      BY <1>7
    <3> QED
      BY <1>9, <3>1, <3>2
  <2>2. \A p \in Plan : ids[p] \in 0..Len(d.db.plans)
    <3>1. \A p \in Plan : d.links.plan[p] \in 0..Len(d.db.plans)
      BY DEF Typed, LinksExist
    <3>2. d.db.plans \in Seq(PlanRow)
      BY <1>1 DEF Db
    <3> QED
      BY <1>10, <3>1, <3>2
  <2> QED
    BY <1>8, <1>12, <2>1, <2>2 DEF Typed, LinksExist
<1>15. Typed(z)
  BY <1>5, <1>8, <1>12, <1>13, <1>14 DEF Typed
<1> QED
  BY <1>6, <1>7, <1>8, <1>9, <1>10, <1>12, <1>15 DEF DisabledWell

LEMMA DisabledKeeps ==
    ASSUME NEW d, Sound(d), NEW listed, Closing(d, listed), NEW z, z = Disabled(d, listed)
    PROVE  /\ Sound(z) /\ Grown(d.db, z.db)
           /\ Tidy(d) => Tidy(z)
<1>1. DisabledWell(d, z, listed) /\ Typed(d)
  BY DisabledIs DEF Sound
<1>2. /\ Typed(z) /\ z.db.projects = d.db.projects /\ z.db.plans = d.db.plans /\ z.links.project = d.links.project
      /\ DOMAIN z.db.rows = DOMAIN d.db.rows
      /\ \A i \in DOMAIN d.db.rows : z.db.rows[i].name = d.db.rows[i].name /\ z.db.rows[i].project = d.db.rows[i].project
  BY <1>1 DEF DisabledWell
<1>3. \A t \in Target : z.links.target[t] = IF t \in DOMAIN listed THEN [row |-> 0, project |-> 0] ELSE d.links.target[t]
  BY <1>1 DEF DisabledWell
<1>4. \A p \in Plan : z.links.plan[p] = IF Owner[p] \in DOMAIN listed THEN 0 ELSE d.links.plan[p]
  BY <1>1 DEF DisabledWell
<1>5. \A i \in DOMAIN d.db.rows : z.db.rows[i].active <=> d.db.rows[i].active /\ \A t \in DOMAIN listed : listed[t] # i
  BY <1>1 DEF DisabledWell
<1>6. \A t \in Target : d.links.target[t].row # 0 => d.links.target[t].row \in DOMAIN d.db.rows
  <2>1. d.db.rows \in Seq(TargetRow)
    BY <1>1 DEF Typed, Db
  <2> QED
    BY <1>1, <2>1 DEF Typed, LinksExist
<1>7. ASSUME NEW t \in Target
      PROVE  TargetAgrees(z, t)
  <2>1. CASE t \in DOMAIN listed
    BY <1>3, <2>1 DEF TargetAgrees
  <2>2. CASE t \notin DOMAIN listed
    <3>1. z.links.target[t] = d.links.target[t] /\ TargetAgrees(d, t)
      BY <1>3, <2>2 DEF Sound
    <3> QED
      BY <1>2, <1>6, <3>1 DEF TargetAgrees
  <2> QED
    BY <2>1, <2>2
<1>8. ASSUME NEW p \in Plan
      PROVE  PlanAgrees(z, p)
  <2>1. CASE Owner[p] \in DOMAIN listed
    BY <1>4, <2>1 DEF PlanAgrees
  <2>2. CASE Owner[p] \notin DOMAIN listed
    <3>1. z.links.target[Owner[p]] = d.links.target[Owner[p]]
      BY <1>3, <2>2, PlansOwned
    <3>2. z.links.plan[p] = d.links.plan[p] /\ PlanAgrees(d, p)
      BY <1>4, <2>2 DEF Sound
    <3> QED
      BY <1>2, <3>1, <3>2 DEF PlanAgrees
  <2> QED
    BY <2>1, <2>2
<1>9. Grown(d.db, z.db)
  BY <1>2 DEF Grown
<1>10. ASSUME Tidy(d)
       PROVE  Tidy(z)
  <2>1. EnabledLinked(z)
    <3>1. SUFFICES ASSUME NEW i \in DOMAIN d.db.rows, z.db.rows[i].active
                   PROVE  \E t \in Target : z.links.target[t].row = i
      BY <1>2 DEF EnabledLinked
    <3>2. d.db.rows[i].active /\ \A t \in DOMAIN listed : listed[t] # i
      BY <1>5, <3>1
    <3>3. PICK t \in Target : d.links.target[t].row = i
      BY <1>10, <3>2 DEF Tidy, EnabledLinked
    <3>4. t \notin DOMAIN listed
      BY <3>2, <3>3 DEF Closing
    <3> QED
      BY <1>3, <3>3, <3>4
  <2>2. ProjectsNamed(z) /\ FirstNames(z)
    <3>1. ProjectsNamed(z)
      <4>1. z.db.projects = d.db.projects /\ z.links.project = d.links.project
        BY <1>2
      <4>2. ProjectsNamed(d)
        BY <1>10 DEF Tidy
      <4> QED
        BY <4>1, <4>2 DEF ProjectsNamed
    <3>2. FirstNames(z)
      BY <1>2, <1>10 DEF Tidy, FirstNames
    <3> QED
      BY <3>1, <3>2
  <2>3. OneHomeRow(z)
    <3>1. \A t \in Target : \A i \in DOMAIN d.db.rows : HomeRow(z, t, i) <=> HomeRow(d, t, i)
      BY <1>2 DEF HomeRow
    <3>2. \A t \in Target : z.links.target[t].row \in {0, d.links.target[t].row}
      BY <1>3
    <3> QED
      BY <1>2, <1>10, <3>1, <3>2 DEF Tidy, OneHomeRow
  <2> QED
    BY <2>1, <2>2, <2>3 DEF Tidy
<1> QED
  BY <1>2, <1>7, <1>8, <1>9, <1>10 DEF Sound

LEMMA CleanedKeeps ==
    ASSUME NEW d, Sound(d), NEW listed, Closing(d, listed), NEW z, z = Cleaned(d, listed)
    PROVE  /\ Sound(z) /\ Grown(d.db, z.db)
           /\ Tidy(d) => Tidy(z)
<1>1. PICK e : e = Disabled(d, listed)
  OBVIOUS
<1>2. Sound(e) /\ Grown(d.db, e.db) /\ (Tidy(d) => Tidy(e))
  BY <1>1, DisabledKeeps
<1>3. PICK empty : empty = {i \in DOMAIN e.db.projects : /\ layout.perProject /\ Enabled(e.db, i) = {}
                                                         /\ \E h \in HubProject : e.links.project[h] = i}
  OBVIOUS
<1>4. z = Shut(e, empty)
  BY <1>1, <1>3 DEF Cleaned, RetireEmptyProjects, Shut
<1>5. ASSUME Tidy(e), ~PerProject
      PROVE  empty \cap DOMAIN e.db.projects = {}
  <2>1. \A h \in HubProject : e.links.project[h] = 0
    BY <1>5 DEF Tidy, ProjectsNamed
  <2>2. e.db.projects \in Seq(ProjectRow)
    BY <1>2 DEF Sound, Typed, Db
  <2>3. 0 \notin DOMAIN e.db.projects
    BY <2>2
  <2> QED
    BY <1>3, <2>1, <2>3
<1>6. Sound(z) /\ Grown(e.db, z.db)
  BY <1>2, <1>4, ShutKeeps
<1>7. Tidy(d) => Tidy(z)
  BY <1>2, <1>4, <1>5, ShutKeeps
<1> QED
  BY <1>2, <1>6, <1>7 DEF Grown

(***************************************************************************)
(* The inductive invariant                                                 *)
(***************************************************************************)
\* The scheduler's rows as the transaction that is open will leave them: the
\* rows that the links name.
Current == IF tx = NoTx THEN ts ELSE tx.db
Pair == [db |-> Current, links |-> links]

HubData == [status : [Target -> {"open", "completed"}], paused : SUBSET Target, version : [Target -> Nat],
            plans : SUBSET Plan, completed : [Plan -> Nat]]
HubTyped == hub \in HubData
Opening(c) == /\ c = [cmd |-> "roof-open", pc |-> c.pc, list |-> c.list]
              /\ c.pc \in {"begin", "commit"} /\ Lists(c.list)
Reading(c) == c \in [cmd : {"end-of-night", "sync-progress"}, pc : {"read", "clean"}, todo : SUBSET Target]
Reporting(c) == /\ c = [cmd |-> c.cmd, pc |-> "report", todo |-> c.todo, target |-> c.target, counts |-> c.counts]
                /\ c.cmd \in {"end-of-night", "sync-progress"} /\ c.todo \subseteq Target /\ c.target \in Target
                /\ DOMAIN c.counts \subseteq Plan /\ \A q \in DOMAIN c.counts : c.counts[q] \in Nat
Cleaning(c) == c \in [cmd : {"cleanup"}, pc : {"begin", "commit"}, keep : SUBSET Target]
ProcTyped == /\ proc = [p \in Proc |-> proc[p]]
             /\ \A p \in Proc : proc[p] = Idle \/ Opening(proc[p]) \/ Reading(proc[p]) \/ Reporting(proc[p]) \/ Cleaning(proc[p])

\* An open transaction is its process's, which waits to commit it, and it
\* only adds rows to those the others still see.
TxTyped == /\ ts \in Db /\ RowsExist(ts)
           /\ tx # NoTx => /\ tx = [by |-> tx.by, db |-> tx.db] /\ tx.by \in Proc
                           /\ Opening(proc[tx.by]) \/ Cleaning(proc[tx.by])
                           /\ proc[tx.by].pc = "commit" /\ Grown(ts, tx.db)
\* What the Hub counts, and what is on its way to it, was taken.
Counted == /\ \A p \in Plan : Taken(Current, p, hub.completed[p])
           /\ \A p \in Proc : Reporting(proc[p]) => \A q \in DOMAIN proc[p].counts : Taken(Current, q, proc[p].counts[q])
Agreed == HubTyped /\ ProcTyped /\ TxTyped /\ Sound(Pair) /\ Counted

\* While no target was renamed, and the layout never goes back.
FirstHub == (\A t \in Target : hub.version[t] = 0) /\ (\A p \in Proc : Opening(proc[p]) => FirstListed(proc[p].list))
OneWay == \A c \in Layouts : c[1].perProject /\ c[1].columns => c[2].perProject /\ c[2].columns

\* What an open roof-open will commit.
AskedInTx == \A p \in Proc : Writing(p) /\ Opening(proc[p]) => \A t \in DOMAIN proc[p].list : Asked(Pair, t, proc[p].list[t])

Spending == spent \in [changes : Nat, renames : Nat, faults : Nat, torn : Nat]
Inv == /\ Spending
       /\ spent.torn = 0 => Agreed
       /\ OneWay /\ Whole => FirstHub /\ Tidy(Pair)
       /\ OneWay /\ Whole /\ Placed /\ OwnFilters => AskedInTx

LEMMA InitInv == Init => Inv
<1> SUFFICES ASSUME Init PROVE Inv
  OBVIOUS
<1>1. Spending /\ spent.torn = 0 /\ spent.renames = 0
  BY DEF Init, Spending
<1>2. tx = NoTx /\ Current = ts /\ ts = [projects |-> <<>>, rows |-> <<>>, plans |-> <<>>] /\ links = NoLinks
  BY DEF Init, Current
<1>3. HubTyped /\ FirstHub
  <2>1. HubTyped
    BY PlansOwned DEF Init, HubTyped, HubData
  <2>2. \A p \in Proc : proc[p] = [cmd |-> None]
    BY DEF Init, Idle
  <2>3. \A p \in Proc : ~Opening(proc[p])
    <3>1. \A c, x, y : [cmd |-> None] # [cmd |-> "roof-open", pc |-> x, list |-> y]
      OBVIOUS
    <3> QED
      BY <2>2, <3>1 DEF Opening
  <2> QED
    BY <2>1, <2>3 DEF Init, FirstHub
<1>4. ProcTyped
  BY DEF Init, ProcTyped
<1>5. TxTyped
  <2>1. ts \in Db
    BY <1>2 DEF Db
  <2> QED
    BY <1>2, <2>1 DEF TxTyped, RowsExist
<1>6. PICK d : d = Pair
  OBVIOUS
<1>7. d.db = [projects |-> <<>>, rows |-> <<>>, plans |-> <<>>] /\ d.links = NoLinks /\ d = [db |-> d.db, links |-> d.links]
  BY <1>2, <1>6 DEF Pair
<1>8. /\ d.db.projects = <<>> /\ d.db.rows = <<>> /\ d.db.plans = <<>>
      /\ \A t \in Target : d.links.target[t] = [row |-> 0, project |-> 0]
      /\ \A p \in Plan : d.links.plan[p] = 0
      /\ \A h \in HubProject : d.links.project[h] = 0
  BY <1>7 DEF NoLinks
<1>9. Sound(d)
  <2>1. d.db \in Db
    BY <1>7 DEF Db
  <2>2. d.links \in Links
    BY <1>7 DEF Links, NoLinks
  <2>3. Typed(d)
    BY <1>7, <1>8, <2>1, <2>2 DEF Typed, RowsExist, LinksExist
  <2> QED
    BY <1>8, <2>3 DEF Sound, TargetAgrees, PlanAgrees
<1>10. Tidy(d)
  BY <1>8 DEF Tidy, EnabledLinked, ProjectsNamed, OneHomeRow, FirstNames
<1>11. Counted
  <2>1. \A p \in Plan : hub.completed[p] = 0
    BY DEF Init
  <2>2. \A p \in Proc : proc[p] = [cmd |-> None]
    BY DEF Init, Idle
  <2>3. \A p \in Proc : ~Reporting(proc[p])
    <3>1. \A a, x, y, z : [cmd |-> None] # [cmd |-> a, pc |-> "report", todo |-> x, target |-> y, counts |-> z]
      OBVIOUS
    <3> QED
      BY <2>2, <3>1 DEF Reporting
  <2> QED
    BY <2>1, <2>3 DEF Counted, Taken
<1>12. AskedInTx
  BY <1>2, NoneIsNoProcess DEF AskedInTx, Writing, NoTx
<1> QED
  BY <1>1, <1>3, <1>4, <1>5, <1>6, <1>9, <1>10, <1>11, <1>12 DEF Inv, Agreed

(***************************************************************************)
(* Steps that leave both databases alone                                   *)
(***************************************************************************)
LEMMA SoundNext ==
    ASSUME NEW z, Pair' = z, Sound(z)
    PROVE  Sound(Pair)'
  BY DEF Sound, Typed, RowsExist, LinksExist, TargetAgrees, PlanAgrees

LEMMA TidyNext ==
    ASSUME NEW z, Pair' = z, Tidy(z), UNCHANGED layout
    PROVE  Tidy(Pair)'
<1>1. EnabledLinked(Pair)' /\ FirstNames(Pair)'
  BY DEF Tidy, EnabledLinked, FirstNames
<1>2. PerProject' = PerProject
  BY DEF PerProject
<1>3. ProjectsNamed(Pair)'
  BY <1>2 DEF Tidy, ProjectsNamed
<1>4. \A t \in Target : Home(t)' = Home(t)
  BY <1>2 DEF Home, InHubProject
<1>5. \A t \in Target : \A i : HomeRow(Pair, t, i)' <=> HomeRow(z, t, i)
  BY <1>4 DEF HomeRow
<1>6. OneHomeRow(Pair)'
  BY <1>5 DEF Tidy, OneHomeRow
<1> QED
  BY <1>1, <1>3, <1>6 DEF Tidy

LEMMA AskedNext ==
    ASSUME NEW z, Pair' = z, NEW p, NEW t, Asked(z, t, proc'[p].list[t])
    PROVE  Asked(Pair, t, proc[p].list[t])'
  BY DEF Asked

LEMMA DbsStay ==
    ASSUME Inv, UNCHANGED <<ts, links, tx>>, OneWay /\ Agreed /\ Tidy(Pair) => Tidy(Pair)', Spending',
           spent'.torn = 0 => spent.torn = 0, spent'.renames = 0 => spent.renames = 0,
           Agreed => HubTyped' /\ ProcTyped' /\ Counted',
           Agreed /\ tx # NoTx => proc'[tx.by] = proc[tx.by],
           Agreed /\ FirstHub /\ spent'.renames = 0 => FirstHub'
    PROVE  Inv'
<1>1. PICK z : z = Pair
  OBVIOUS
<1>2. Pair' = z /\ Current' = Current
  BY <1>1 DEF Pair, Current
<1>3. ASSUME spent'.torn = 0
      PROVE  Agreed'
  <2>1. Agreed
    BY <1>3 DEF Inv
  <2>2. Sound(Pair)'
    BY <1>1, <1>2, <2>1, SoundNext DEF Agreed
  <2>3. TxTyped'
    <3>1. TxTyped
      BY <2>1 DEF Agreed
    <3>2. CASE tx = NoTx
      BY <3>1, <3>2 DEF TxTyped, RowsExist, NoTx
    <3>3. CASE tx # NoTx
      <4>1. proc'[tx.by] = proc[tx.by]
        BY <2>1, <3>3
      <4>2. PICK c : c = proc[tx.by]
        OBVIOUS
      <4>3. Opening(c) \/ Cleaning(c)
        BY <3>1, <3>3, <4>2 DEF TxTyped
      <4>4. (Opening(proc[tx.by]) \/ Cleaning(proc[tx.by]))'
        BY <4>1, <4>2, <4>3 DEF Opening, Cleaning, Lists
      <4>5. Grown(ts, tx.db)'
        BY <3>1, <3>3 DEF TxTyped, Grown
      <4> QED
        BY <3>1, <3>3, <4>1, <4>4, <4>5 DEF TxTyped, RowsExist
    <3> QED
      BY <3>2, <3>3
  <2> QED
    BY <2>1, <2>2, <2>3 DEF Agreed
<1>4. ASSUME OneWay, Whole'
      PROVE  FirstHub' /\ Tidy(Pair)'
  <2>1. Whole /\ spent.torn = 0 /\ spent'.renames = 0
    BY <1>4 DEF Whole
  <2>2. Agreed /\ FirstHub /\ Tidy(Pair)
    BY <1>4, <2>1 DEF Inv
  <2>3. Tidy(Pair)'
    BY <1>4, <2>2
  <2> QED
    BY <2>1, <2>2, <2>3
<1>5. ASSUME OneWay, Whole', Placed, OwnFilters
      PROVE  AskedInTx'
  <2>1. Whole /\ spent.torn = 0
    BY <1>5 DEF Whole
  <2>2. Agreed /\ AskedInTx
    BY <1>5, <2>1 DEF Inv
  <2>3. SUFFICES ASSUME NEW p \in Proc, Writing(p)', Opening(proc[p])', NEW t \in (DOMAIN proc[p].list)'
                 PROVE  Asked(Pair, t, proc[p].list[t])'
    BY DEF AskedInTx
  <2>4. tx # NoTx /\ tx.by = p
    BY <2>3, NoneIsNoProcess DEF Writing, NoTx
  <2>5. proc'[p] = proc[p]
    BY <2>2, <2>4
  <2>6. Opening(proc[p]) /\ t \in DOMAIN proc[p].list /\ Writing(p)
    BY <2>3, <2>4, <2>5 DEF Opening, Lists, Writing
  <2>7. Asked(z, t, proc[p].list[t])
    BY <1>1, <2>2, <2>6 DEF AskedInTx
  <2>8. Asked(z, t, proc'[p].list[t])
    BY <2>5, <2>7
  <2> QED
    BY <1>2, <2>8, AskedNext
<1> QED
  BY <1>3, <1>4, <1>5 DEF Inv

LEMMA QuietStep ==
    ASSUME Inv, UNCHANGED <<ts, links, tx, layout>>, Spending',
           spent'.torn = 0 => spent.torn = 0, spent'.renames = 0 => spent.renames = 0,
           Agreed => HubTyped' /\ ProcTyped' /\ Counted',
           Agreed /\ tx # NoTx => proc'[tx.by] = proc[tx.by],
           Agreed /\ FirstHub /\ spent'.renames = 0 => FirstHub'
    PROVE  Inv'
<1>1. PICK z : z = Pair
  OBVIOUS
<1>2. Pair' = z
  BY <1>1 DEF Pair, Current
<1>3. Tidy(Pair) => Tidy(Pair)'
  BY <1>1, <1>2, TidyNext
<1> QED
  BY <1>3, DbsStay

LEMMA SpendIs ==
    ASSUME Spending, NEW what \in {"changes", "renames", "faults", "torn"}, Spend(what)
    PROVE  /\ Spending' /\ spent'.torn = (IF what = "torn" THEN spent.torn + 1 ELSE spent.torn)
           /\ spent'.renames = IF what = "renames" THEN spent.renames + 1 ELSE spent.renames
  BY DEF Spending, Spend

LEMMA CountedNext ==
    ASSUME Counted, hub'.completed = hub.completed, Current' = Current, proc' = proc
    PROVE  Counted'
<1>1. PICK e : e = Current
  OBVIOUS
<1>2. \A p \in Plan : Taken(e, p, hub.completed[p])
  BY <1>1 DEF Counted
<1>3. \A p \in Proc : Reporting(proc[p]) => \A q \in DOMAIN proc[p].counts : Taken(e, q, proc[p].counts[q])
  BY <1>1 DEF Counted
<1>4. (\A p \in Plan : Taken(Current, p, hub.completed[p]))'
  BY <1>1, <1>2 DEF Taken
<1>5. (\A p \in Proc : Reporting(proc[p]) => \A q \in DOMAIN proc[p].counts : Taken(Current, q, proc[p].counts[q]))'
  BY <1>1, <1>3 DEF Taken, Reporting
<1> QED
  BY <1>4, <1>5 DEF Counted

LEMMA SettledIs ==
    ASSUME NEW h \in HubData, NEW t \in Target
    PROVE  Settled(t, h) \in HubData /\ Settled(t, h).completed = h.completed /\ Settled(t, h).version = h.version
<1>1. PICK status, paused : /\ status = [h.status EXCEPT ![t] = IF Captured(t, h) THEN "completed" ELSE "open"]
                            /\ paused = IF h.status[t] = "completed" /\ ~Captured(t, h) THEN h.paused \ {t} ELSE h.paused
  OBVIOUS
<1>2. Settled(t, h) = [h EXCEPT !.status = status, !.paused = paused]
  BY <1>1 DEF Settled, HubData
<1>3. status \in [Target -> {"open", "completed"}] /\ paused \in SUBSET Target
  BY <1>1 DEF HubData
<1> QED
  BY <1>2, <1>3 DEF HubData

LEMMA FirstHubNext ==
    ASSUME FirstHub, hub'.version = hub.version, proc' = proc
    PROVE  FirstHub'
  BY DEF FirstHub, Opening, Lists, FirstListed

LEMMA HubChangeInv ==
    ASSUME Inv, HubChange
    PROVE  Inv'
<1>1. UNCHANGED <<ts, links, tx, layout, proc>> /\ Spend("changes") /\ Spending
  BY DEF HubChange, Inv
<1>2. Spending' /\ spent'.torn = spent.torn /\ spent'.renames = spent.renames
  BY <1>1, SpendIs
<1>3. ASSUME Agreed
      PROVE  HubTyped' /\ hub'.completed = hub.completed /\ hub'.version = hub.version
  <2>1. hub \in HubData
    BY <1>3 DEF Agreed, HubTyped
  <2>2. CASE \E t \in Target : Pause(t) \/ Resume(t)
    BY <2>1, <2>2 DEF Pause, Resume, HubTyped, HubData
  <2>3. ASSUME NEW p \in Plan, AddPlan(p) \/ RemovePlan(p)
        PROVE  HubTyped' /\ hub'.completed = hub.completed /\ hub'.version = hub.version
    <3>1. PICK plans : plans \in SUBSET Plan /\ hub' = Settled(Owner[p], [hub EXCEPT !.plans = plans])
      <4>1. CASE AddPlan(p)
        <5>1. hub.plans \cup {p} \in SUBSET Plan
          BY <2>1 DEF HubData
        <5> QED
          BY <4>1, <5>1 DEF AddPlan
      <4>2. CASE RemovePlan(p)
        <5>1. hub.plans \ {p} \in SUBSET Plan
          BY <2>1 DEF HubData
        <5> QED
          BY <4>2, <5>1 DEF RemovePlan
      <4> QED
        BY <2>3, <4>1, <4>2
    <3>2. PICK h : h = [hub EXCEPT !.plans = plans]
      OBVIOUS
    <3>3. h \in HubData /\ h.completed = hub.completed /\ h.version = hub.version
      BY <2>1, <3>1, <3>2 DEF HubData
    <3>4. Owner[p] \in Target
      BY PlansOwned
    <3> QED
      BY <3>1, <3>2, <3>3, <3>4, SettledIs DEF HubTyped
  <2> QED
    BY <2>2, <2>3 DEF HubChange
<1>4. ASSUME Agreed
      PROVE  HubTyped' /\ ProcTyped' /\ Counted'
  <2>1. ProcTyped'
    BY <1>1, <1>4 DEF Agreed, ProcTyped, Opening, Reading, Reporting, Cleaning, Lists
  <2>2. Counted'
    BY <1>1, <1>3, <1>4, CountedNext DEF Agreed, Current
  <2> QED
    BY <1>3, <1>4, <2>1, <2>2
<1>5. ASSUME Agreed, FirstHub
      PROVE  FirstHub'
  BY <1>1, <1>3, <1>5, FirstHubNext
<1> QED
  BY <1>1, <1>2, <1>4, <1>5, QuietStep

LEMMA RenameInv ==
    ASSUME Inv, NEW t \in Renamed, Rename(t)
    PROVE  Inv'
<1>1. UNCHANGED <<ts, links, tx, layout, proc>> /\ Spend("renames") /\ Spending /\ t \in Target
  BY PlansOwned DEF Rename, Inv
<1>2. Spending' /\ spent'.torn = spent.torn /\ spent'.renames = spent.renames + 1 /\ spent.renames \in Nat
  BY <1>1, SpendIs DEF Spending
<1>3. ASSUME Agreed
      PROVE  HubTyped' /\ ProcTyped' /\ Counted'
  <2>1. HubTyped' /\ hub'.completed = hub.completed
    BY <1>1, <1>3 DEF Rename, Agreed, HubTyped, HubData
  <2>2. ProcTyped'
    BY <1>1, <1>3 DEF Agreed, ProcTyped, Opening, Reading, Reporting, Cleaning, Lists
  <2>3. Counted'
    BY <1>1, <1>3, <2>1, CountedNext DEF Agreed, Current
  <2> QED
    BY <2>1, <2>2, <2>3
<1>4. spent'.renames # 0
  BY <1>2
<1> QED
  BY <1>1, <1>2, <1>3, <1>4, QuietStep

(***************************************************************************)
(* The commands                                                            *)
(***************************************************************************)
\* A step of one process that leaves the Hub, too, alone.
LEMMA ProcStep ==
    ASSUME Inv, NEW p \in Proc, NEW c, proc' = [proc EXCEPT ![p] = c], UNCHANGED <<hub, ts, links, tx, layout>>,
           Spending', spent'.torn = spent.torn, spent'.renames = spent.renames,
           Agreed => tx.by # p,
           Agreed => c = Idle \/ Opening(c) \/ Reading(c) \/ Reporting(c) \/ Cleaning(c),
           Agreed /\ Reporting(c) => \A q \in DOMAIN c.counts : Taken(Current, q, c.counts[q]),
           Agreed /\ FirstHub /\ Opening(c) => FirstListed(c.list)
    PROVE  Inv'
<1>1. ASSUME Agreed
      PROVE  proc'[p] = c /\ \A o \in Proc : o # p => proc'[o] = proc[o]
  BY <1>1 DEF Agreed, ProcTyped
<1>2. ASSUME Agreed
      PROVE  HubTyped' /\ ProcTyped' /\ Counted'
  <2>1. HubTyped'
    BY <1>2 DEF Agreed, HubTyped
  <2>2. ProcTyped'
    <3>1. \A o \in Proc : proc[o] = Idle \/ Opening(proc[o]) \/ Reading(proc[o]) \/ Reporting(proc[o]) \/ Cleaning(proc[o])
      BY <1>2 DEF Agreed, ProcTyped
    <3>2. ASSUME NEW o \in Proc
          PROVE  (proc[o] = Idle \/ Opening(proc[o]) \/ Reading(proc[o]) \/ Reporting(proc[o]) \/ Cleaning(proc[o]))'
      <4>1. PICK e : e = proc'[o]
        OBVIOUS
      <4>2. e = Idle \/ Opening(e) \/ Reading(e) \/ Reporting(e) \/ Cleaning(e)
        BY <1>1, <1>2, <3>1, <4>1
      <4> QED
        BY <4>1, <4>2 DEF Opening, Reading, Reporting, Cleaning, Lists
    <3>3. proc' = [o \in Proc |-> proc'[o]]
      BY <1>2 DEF Agreed, ProcTyped
    <3> QED
      BY <3>2, <3>3 DEF ProcTyped
  <2>3. Counted'
    <3>1. PICK e : e = Current
      OBVIOUS
    <3>2. Current' = e
      BY <3>1 DEF Current
    <3>3. \A q \in Plan : Taken(e, q, hub.completed[q])
      BY <1>2, <3>1 DEF Agreed, Counted
    <3>4. \A o \in Proc : Reporting(proc[o]) => \A q \in DOMAIN proc[o].counts : Taken(e, q, proc[o].counts[q])
      BY <1>2, <3>1 DEF Agreed, Counted
    <3>5. (\A q \in Plan : Taken(Current, q, hub.completed[q]))'
      BY <3>2, <3>3 DEF Taken
    <3>6. ASSUME NEW o \in Proc, Reporting(proc[o])', NEW q \in (DOMAIN proc[o].counts)'
          PROVE  Taken(Current, q, proc[o].counts[q])'
      <4>1. PICK f : f = proc'[o]
        OBVIOUS
      <4>2. Reporting(f) /\ q \in DOMAIN f.counts
        BY <3>6, <4>1 DEF Reporting
      <4>3. Taken(e, q, f.counts[q])
        BY <1>1, <1>2, <3>1, <3>4, <4>1, <4>2
      <4> QED
        BY <3>2, <4>1, <4>3 DEF Taken
    <3> QED
      BY <3>5, <3>6 DEF Counted
  <2> QED
    BY <2>1, <2>2, <2>3
<1>3. ASSUME Agreed, tx # NoTx
      PROVE  proc'[tx.by] = proc[tx.by]
  BY <1>1, <1>3 DEF Agreed, TxTyped
<1>4. ASSUME Agreed, FirstHub
      PROVE  FirstHub'
  <2>1. ASSUME NEW o \in Proc, Opening(proc[o])'
        PROVE  FirstListed(proc[o].list)'
    <3>1. PICK e : e = proc'[o]
      OBVIOUS
    <3>2. Opening(e)
      BY <2>1, <3>1 DEF Opening, Lists
    <3>3. FirstListed(e.list)
      BY <1>1, <1>4, <3>1, <3>2 DEF FirstHub
    <3> QED
      BY <3>1, <3>3 DEF FirstListed
  <2> QED
    BY <1>4, <2>1 DEF FirstHub
<1> QED
  BY <1>2, <1>3, <1>4, QuietStep

LEMMA IdleIsNone == ~Opening(Idle) /\ ~Reading(Idle) /\ ~Reporting(Idle) /\ ~Cleaning(Idle)
<1>1. \A x, y : [cmd |-> None] # [cmd |-> "roof-open", pc |-> x, list |-> y]
  OBVIOUS
<1>2. \A a, x, y, z : [cmd |-> None] # [cmd |-> a, pc |-> "report", todo |-> x, target |-> y, counts |-> z]
  OBVIOUS
<1>3. [cmd |-> None] \notin [cmd : {"end-of-night", "sync-progress"}, pc : {"read", "clean"}, todo : SUBSET Target]
  OBVIOUS
<1>4. [cmd |-> None] \notin [cmd : {"cleanup"}, pc : {"begin", "commit"}, keep : SUBSET Target]
  OBVIOUS
<1> QED
  BY <1>1, <1>2, <1>3, <1>4 DEF Idle, Opening, Reading, Reporting, Cleaning

\* What a process runs, by how far it is.
LEMMA Shape ==
    ASSUME ProcTyped, NEW p \in Proc, NEW pc, At(p, pc)
    PROVE  /\ proc[p].pc = pc
           /\ pc = "begin" /\ proc[p].cmd = "roof-open" => Opening(proc[p])
           /\ pc = "begin" /\ proc[p].cmd = "cleanup" => Cleaning(proc[p])
           /\ pc \in {"read", "clean"} => Reading(proc[p])
           /\ pc = "report" => Reporting(proc[p])
<1>1. PICK c : c = proc[p]
  OBVIOUS
<1>2. c.pc = pc /\ c # Idle
  BY <1>1 DEF At, Idle
<1>3. Opening(c) \/ Reading(c) \/ Reporting(c) \/ Cleaning(c)
  BY <1>1, <1>2 DEF ProcTyped
<1>4. /\ Opening(c) => c.cmd = "roof-open" /\ c.pc \in {"begin", "commit"}
      /\ Reading(c) => c.cmd \in {"end-of-night", "sync-progress"} /\ c.pc \in {"read", "clean"}
      /\ Reporting(c) => c.cmd \in {"end-of-night", "sync-progress"} /\ c.pc = "report"
      /\ Cleaning(c) => c.cmd = "cleanup" /\ c.pc \in {"begin", "commit"}
  <2>1. Opening(c) => c.cmd = "roof-open" /\ c.pc \in {"begin", "commit"}
    BY DEF Opening
  <2>2. Reading(c) => c.cmd \in {"end-of-night", "sync-progress"} /\ c.pc \in {"read", "clean"}
    BY DEF Reading
  <2>3. Reporting(c) => c.cmd \in {"end-of-night", "sync-progress"} /\ c.pc = "report"
    BY DEF Reporting
  <2>4. Cleaning(c) => c.cmd = "cleanup" /\ c.pc \in {"begin", "commit"}
    BY DEF Cleaning
  <2> QED
    BY <2>1, <2>2, <2>3, <2>4
<1> QED
  BY <1>1, <1>2, <1>3, <1>4

LEMMA NotWriting ==
    ASSUME TxTyped, NEW p \in Proc, proc[p] = Idle \/ proc[p].pc # "commit" \/ tx = NoTx
    PROVE  tx.by # p
<1>1. CASE tx = NoTx
  BY <1>1, NoneIsNoProcess DEF NoTx
<1>2. CASE tx # NoTx
  <2>1. (Opening(proc[tx.by]) \/ Cleaning(proc[tx.by])) /\ proc[tx.by].pc = "commit"
    BY <1>2 DEF TxTyped
  <2> QED
    BY <1>2, <2>1, IdleIsNone
<1> QED
  BY <1>1, <1>2

\* A process that ends its command, or is killed before it writes.
LEMMA ExitInv ==
    ASSUME Inv, NEW p \in Proc, Exit(p), UNCHANGED <<hub, ts, links, tx, layout>>,
           Spending', spent'.torn = spent.torn, spent'.renames = spent.renames, Agreed => tx.by # p
    PROVE  Inv'
  BY IdleIsNone, ProcStep DEF Exit

LEMMA KilledInv ==
    ASSUME Inv, NEW p \in Proc, Killed(p)
    PROVE  Inv'
<1>1. Spending /\ Spend("faults") /\ Exit(p) /\ tx.by # p /\ UNCHANGED <<hub, ts, links, tx, layout>>
  BY DEF Killed, Writing, Inv
<1>2. Spending' /\ spent'.torn = spent.torn /\ spent'.renames = spent.renames
  BY <1>1, SpendIs
<1> QED
  BY <1>1, <1>2, ExitInv

LEMMA KilledBetweenInv ==
    ASSUME Inv, NEW p \in Proc, KilledBetween(p)
    PROVE  Inv'
<1>1. Spending /\ Spend("torn")
  BY DEF KilledBetween, Inv
<1>2. Spending' /\ spent'.torn = spent.torn + 1 /\ spent.torn \in Nat
  BY <1>1, SpendIs DEF Spending
<1>3. spent'.torn # 0
  BY <1>2
<1> QED
  BY <1>2, <1>3 DEF Inv, Whole

LEMMA StartRoofOpenInv ==
    ASSUME Inv, NEW p \in Proc, StartRoofOpen(p)
    PROVE  Inv'
<1>1. PICK c : c = [cmd |-> "roof-open", pc |-> "begin", list |-> ActiveTargets]
  OBVIOUS
<1>2. proc[p] = Idle /\ proc' = [proc EXCEPT ![p] = c] /\ UNCHANGED <<hub, ts, links, tx, layout, spent>>
  BY <1>1 DEF StartRoofOpen
<1>3. Spending' /\ spent'.torn = spent.torn /\ spent'.renames = spent.renames
  BY <1>2 DEF Inv, Spending
<1>4. Agreed => tx.by # p
  BY <1>2, NotWriting DEF Agreed
<1>5. ASSUME Agreed
      PROVE  Lists(ActiveTargets)
  <2>1. hub \in HubData
    BY <1>5 DEF Agreed, HubTyped
  <2>2. Schedulable \subseteq Target /\ DOMAIN ActiveTargets = Schedulable
    BY DEF Schedulable, ActiveTargets
  <2>3. ASSUME NEW t \in Schedulable
        PROVE  ActiveTargets[t] \in Listed(t)
    <3>1. ActiveTargets[t] = [name |-> Name(t), plans |-> {q \in hub.plans : Owner[q] = t}]
      BY DEF ActiveTargets
    <3>2. Name(t) \in {t} \X Nat
      BY <2>1, <2>2 DEF Name, HubData
    <3>3. {q \in hub.plans : Owner[q] = t} \in SUBSET PlansOf(t)
      BY <2>1 DEF HubData, PlansOf
    <3> QED
      BY <3>1, <3>2, <3>3 DEF Listed
  <2> QED
    BY <2>2, <2>3 DEF Lists
<1>6. Agreed => Opening(c)
  BY <1>1, <1>5 DEF Opening
<1>7. ASSUME Agreed, FirstHub
      PROVE  FirstListed(c.list)
  <2>1. \A t \in Schedulable : t \in Target /\ ActiveTargets[t].name = <<t, hub.version[t]>>
    BY DEF ActiveTargets, Schedulable, Name
  <2>2. c.list = ActiveTargets /\ DOMAIN ActiveTargets = Schedulable
    BY <1>1 DEF ActiveTargets
  <2> QED
    BY <1>7, <2>1, <2>2 DEF FirstListed, FirstHub
<1>8. ~Reporting(c)
  BY <1>1 DEF Reporting
<1> QED
  BY <1>2, <1>3, <1>4, <1>6, <1>7, <1>8, ProcStep

LEMMA StartProgressInv ==
    ASSUME Inv, NEW p \in Proc, StartProgress(p)
    PROVE  Inv'
<1>1. PICK c : c = [cmd |-> IF p = "nina" THEN "end-of-night" ELSE "sync-progress", pc |-> "read", todo |-> LinkedTargets]
  OBVIOUS
<1>2. proc[p] = Idle /\ proc' = [proc EXCEPT ![p] = c] /\ UNCHANGED <<hub, ts, links, tx, layout, spent>>
  BY <1>1 DEF StartProgress
<1>3. Spending' /\ spent'.torn = spent.torn /\ spent'.renames = spent.renames
  BY <1>2 DEF Inv, Spending
<1>4. Agreed => tx.by # p
  BY <1>2, NotWriting DEF Agreed
<1>5. Reading(c)
  BY <1>1 DEF Reading, LinkedTargets
<1>6. ~Reporting(c) /\ ~Opening(c)
  BY <1>1 DEF Reporting, Opening
<1> QED
  BY <1>2, <1>3, <1>4, <1>5, <1>6, ProcStep

LEMMA FetchActiveInv ==
    ASSUME Inv, NEW p \in Proc, FetchActive(p)
    PROVE  Inv'
<1>1. PICK c : c = [cmd |-> "cleanup", pc |-> "begin", keep |-> Schedulable]
  OBVIOUS
<1>2. /\ proc[p] = Idle \/ At(p, "clean")
      /\ proc' = [proc EXCEPT ![p] = c] /\ UNCHANGED <<hub, ts, links, tx, layout, spent>>
  BY <1>1 DEF FetchActive
<1>3. Spending' /\ spent'.torn = spent.torn /\ spent'.renames = spent.renames
  BY <1>2 DEF Inv, Spending
<1>4. Agreed => tx.by # p
  BY <1>2, NotWriting DEF Agreed, At
<1>5. Cleaning(c)
  BY <1>1 DEF Cleaning, Schedulable
<1>6. ~Reporting(c) /\ ~Opening(c)
  BY <1>1 DEF Reporting, Opening
<1> QED
  BY <1>2, <1>3, <1>4, <1>5, <1>6, ProcStep

LEMMA EndProgressInv ==
    ASSUME Inv, NEW p \in Proc, EndProgress(p)
    PROVE  Inv'
<1>1. At(p, "read") /\ UNCHANGED <<hub, ts, links, tx, layout, spent>>
  BY DEF EndProgress
<1>2. Spending' /\ spent'.torn = spent.torn /\ spent'.renames = spent.renames
  BY <1>1 DEF Inv, Spending
<1>3. Agreed => tx.by # p
  BY <1>1, NotWriting DEF Agreed, At
<1>4. CASE Exit(p)
  BY <1>1, <1>2, <1>3, <1>4, ExitInv
<1>5. CASE Goto(p, "clean")
  <2>1. PICK c : c = [proc[p] EXCEPT !.pc = "clean"]
    OBVIOUS
  <2>2. proc' = [proc EXCEPT ![p] = c]
    BY <1>5, <2>1 DEF Goto
  <2>3. ASSUME Agreed
        PROVE  Reading(c)
    <3>1. Reading(proc[p])
      BY <1>1, <2>3, Shape DEF Agreed
    <3> QED
      BY <2>1, <3>1 DEF Reading
  <2>4. Reading(c) => ~Reporting(c) /\ ~Opening(c)
    <3>1. Reading(c) => c.pc \in {"read", "clean"}
      BY DEF Reading
    <3>2. (Opening(c) => c.pc \in {"begin", "commit"}) /\ (Reporting(c) => c.pc = "report")
      BY DEF Opening, Reporting
    <3> QED
      BY <3>1, <3>2
  <2> QED
    BY <1>1, <1>2, <1>3, <2>2, <2>3, <2>4, ProcStep
<1> QED
  BY <1>4, <1>5 DEF EndProgress

\* The row of a linked plan is of its target and its filter, and its frames
\* are there for who reads the scheduler beside an open transaction, too.
LEMMA LinkedTaken ==
    ASSUME Agreed, NEW t \in Target, NEW q \in LinkedPlans(links, t)
    PROVE  q \in Plan /\ Accepted(links.plan[q]) \in Nat /\ Taken(Current, q, Accepted(links.plan[q]))
<1>1. PICK k, db, n : k = links.plan[q] /\ db = Current /\ n = Accepted(links.plan[q])
  OBVIOUS
<1>2. q \in Plan /\ Owner[q] = t /\ k # 0
  BY <1>1 DEF LinkedPlans, PlansOf
<1>3. CASE k \notin DOMAIN ts.plans
  BY <1>1, <1>2, <1>3 DEF Accepted, Taken
<1>4. CASE k \in DOMAIN ts.plans
  <2>1. ts.plans \in Seq(PlanRow) /\ n = ts.plans[k].accepted
    BY <1>1, <1>4 DEF Agreed, TxTyped, Db, Accepted
  <2>2. ts.plans[k] \in PlanRow
    BY <1>4, <2>1
  <2>3. n \in Nat
    BY <2>1, <2>2 DEF PlanRow
  <2>4. k \in DOMAIN db.plans /\ db.plans[k].accepted = n
    <3>1. CASE tx = NoTx
      BY <1>1, <1>4, <2>1, <3>1 DEF Current
    <3>2. CASE tx # NoTx
      BY <1>1, <1>4, <2>1, <3>2 DEF Current, Agreed, TxTyped, Grown
    <3> QED
      BY <3>1, <3>2
  <2>5. PICK r : r = links.target[t].row
    OBVIOUS
  <2>6. db.plans[k].row = r /\ db.plans[k].filter = Filter[q]
    BY <1>1, <1>2, <2>5 DEF Agreed, Sound, PlanAgrees, Pair
  <2>7. r \in DOMAIN db.rows /\ r # 0
    <3>1. db.plans[k].row \in DOMAIN db.rows /\ db.rows \in Seq(TargetRow)
      BY <1>1, <2>4 DEF Agreed, Sound, Typed, RowsExist, Pair, Db
    <3> QED
      BY <2>6, <3>1
  <2>8. db.rows[r].name[1] = t
    BY <1>1, <2>5, <2>7 DEF Agreed, Sound, TargetAgrees, Pair
  <2> QED
    BY <1>1, <1>2, <2>3, <2>4, <2>6, <2>8 DEF Taken
<1> QED
  BY <1>3, <1>4

LEMMA ReadCountsInv ==
    ASSUME Inv, NEW p \in Proc, NEW t \in Target, ReadCounts(p, t)
    PROVE  Inv'
<1>1. At(p, "read") /\ UNCHANGED <<hub, ts, links, tx, layout, spent>>
  BY DEF ReadCounts
<1>2. Spending' /\ spent'.torn = spent.torn /\ spent'.renames = spent.renames
  BY <1>1 DEF Inv, Spending
<1>3. Agreed => tx.by # p
  BY <1>1, NotWriting DEF Agreed, At
<1>4. PICK e, counts : /\ e = [cmd |-> proc[p].cmd, pc |-> "read", todo |-> proc[p].todo \ {t}]
                       /\ counts = [q \in LinkedPlans(links, t) |-> Accepted(links.plan[q])]
  OBVIOUS
<1>5. PICK c : c = IF LinkedPlans(links, t) = {} THEN e ELSE [cmd |-> e.cmd, pc |-> "report", todo |-> e.todo, target |-> t, counts |-> counts]
  OBVIOUS
<1>6. proc' = [proc EXCEPT ![p] = c]
  BY <1>4, <1>5 DEF ReadCounts
<1>7. ASSUME Agreed
      PROVE  /\ Reading(c) \/ Reporting(c)
             /\ Reporting(c) => \A q \in DOMAIN c.counts : Taken(Current, q, c.counts[q])
  <2>1. Reading(proc[p])
    BY <1>1, <1>7, Shape DEF Agreed
  <2>2. Reading(e) /\ e.cmd \in {"end-of-night", "sync-progress"} /\ e.todo \subseteq Target
    BY <1>4, <2>1 DEF Reading
  <2>3. \A q \in LinkedPlans(links, t) : q \in Plan /\ counts[q] \in Nat /\ Taken(Current, q, counts[q])
    BY <1>4, <1>7, LinkedTaken
  <2>4. DOMAIN counts = LinkedPlans(links, t)
    BY <1>4
  <2>5. CASE LinkedPlans(links, t) = {}
    <3>1. Reading(c)
      BY <1>5, <2>2, <2>5
    <3>2. ~Reporting(c)
      <4>1. c.pc \in {"read", "clean"}
        BY <3>1 DEF Reading
      <4> QED
        BY <4>1 DEF Reporting
    <3> QED
      BY <3>1, <3>2
  <2>6. CASE LinkedPlans(links, t) # {}
    <3>1. c = [cmd |-> e.cmd, pc |-> "report", todo |-> e.todo, target |-> t, counts |-> counts]
      BY <1>5, <2>6
    <3>2. Reporting(c)
      BY <2>2, <2>3, <2>4, <3>1 DEF Reporting
    <3>3. \A q \in DOMAIN c.counts : Taken(Current, q, c.counts[q])
      BY <2>3, <2>4, <3>1
    <3> QED
      BY <3>2, <3>3
  <2> QED
    BY <2>5, <2>6
<1>8. (Reading(c) \/ Reporting(c)) => ~Opening(c)
  <2>1. (Reading(c) => c.pc \in {"read", "clean"}) /\ (Opening(c) => c.pc \in {"begin", "commit"}) /\ (Reporting(c) => c.pc = "report")
    BY DEF Reading, Opening, Reporting
  <2> QED
    BY <2>1
<1>9. CASE Agreed
  BY <1>1, <1>2, <1>3, <1>6, <1>7, <1>8, <1>9, ProcStep
<1>10. CASE ~Agreed
  BY <1>1, <1>2, <1>10 DEF Inv, Whole
<1> QED
  BY <1>9, <1>10

\* The Hub takes the counts of a report, and the process goes on or ends.
LEMMA ReportedInv ==
    ASSUME Inv, NEW p \in Proc, At(p, "report"), hub' = hub \/ hub' = Progress(proc[p].target, proc[p].counts),
           NEW c, proc' = [proc EXCEPT ![p] = c], Agreed => c = Idle \/ Reading(c),
           UNCHANGED <<ts, links, tx, layout>>, Spending', spent'.torn = spent.torn, spent'.renames = spent.renames
    PROVE  Inv'
<1>1. Agreed => tx.by # p
  BY NotWriting DEF Agreed, At
<1>2. ASSUME Agreed
      PROVE  /\ Reporting(proc[p]) /\ proc'[p] = c /\ (\A o \in Proc : o # p => proc'[o] = proc[o])
             /\ ~Reporting(c) /\ ~Opening(c)
  <2>1. Reporting(proc[p]) /\ proc'[p] = c /\ (\A o \in Proc : o # p => proc'[o] = proc[o])
    BY <1>2, Shape DEF Agreed, ProcTyped
  <2>2. (Reading(c) => c.pc \in {"read", "clean"}) /\ (Opening(c) => c.pc \in {"begin", "commit"}) /\ (Reporting(c) => c.pc = "report")
    BY DEF Reading, Opening, Reporting
  <2> QED
    BY <1>2, <2>1, <2>2, IdleIsNone
<1>3. ASSUME Agreed
      PROVE  /\ hub' \in HubData /\ hub'.version = hub.version
             /\ \A q \in Plan : hub'.completed[q] = hub.completed[q] \/ (q \in DOMAIN proc[p].counts /\ hub'.completed[q] = proc[p].counts[q])
  <2>1. hub \in HubData
    BY <1>3 DEF Agreed, HubTyped
  <2>2. CASE hub' = hub
    BY <2>1, <2>2
  <2>3. CASE hub' = Progress(proc[p].target, proc[p].counts)
    <3>1. PICK t, counts : t = proc[p].target /\ counts = proc[p].counts
      OBVIOUS
    <3>2. t \in Target /\ \A q \in DOMAIN counts : counts[q] \in Nat
      BY <1>2, <1>3, <3>1 DEF Reporting
    <3>3. PICK completed : completed = [q \in Plan |-> IF q \in DOMAIN counts THEN counts[q] ELSE hub.completed[q]]
      OBVIOUS
    <3>4. completed \in [Plan -> Nat]
      BY <2>1, <3>2, <3>3 DEF HubData
    <3>5. PICK counted : counted = [hub EXCEPT !.completed = completed]
      OBVIOUS
    <3>6. counted \in HubData /\ counted.version = hub.version /\ counted.completed = completed
      BY <2>1, <3>4, <3>5 DEF HubData
    <3>7. hub' = IF Captured(t, counted) THEN [counted EXCEPT !.status[t] = "completed"] ELSE counted
      <4>1. counted = [hub EXCEPT !.completed = [q \in Plan |-> IF q \in DOMAIN counts THEN counts[q] ELSE @[q]]]
        BY <2>1, <3>3, <3>5 DEF HubData
      <4> QED
        BY <2>3, <3>1, <4>1 DEF Progress
    <3>8. [counted EXCEPT !.status[t] = "completed"] \in HubData /\ [counted EXCEPT !.status[t] = "completed"].version = counted.version
          /\ [counted EXCEPT !.status[t] = "completed"].completed = counted.completed
      <4>1. PICK status : status = [counted.status EXCEPT ![t] = "completed"]
        OBVIOUS
      <4>2. status \in [Target -> {"open", "completed"}]
        BY <3>6, <4>1 DEF HubData
      <4>3. [counted EXCEPT !.status[t] = "completed"] = [counted EXCEPT !.status = status]
        BY <3>6, <4>1 DEF HubData
      <4> QED
        BY <3>6, <4>2, <4>3 DEF HubData
    <3>9. hub' \in HubData /\ hub'.version = hub.version /\ hub'.completed = completed
      BY <3>6, <3>7, <3>8
    <3>10. \A q \in Plan : completed[q] = hub.completed[q] \/ (q \in DOMAIN counts /\ completed[q] = counts[q])
      BY <3>3
    <3> QED
      BY <3>1, <3>9, <3>10
  <2> QED
    BY <2>2, <2>3
<1>4. ASSUME Agreed
      PROVE  HubTyped' /\ ProcTyped' /\ Counted'
  <2>1. HubTyped'
    BY <1>3, <1>4 DEF HubTyped, HubData
  <2>2. ProcTyped'
    <3>1. ASSUME NEW o \in Proc
          PROVE  (proc[o] = Idle \/ Opening(proc[o]) \/ Reading(proc[o]) \/ Reporting(proc[o]) \/ Cleaning(proc[o]))'
      <4>1. PICK e : e = proc'[o]
        OBVIOUS
      <4>2. e = Idle \/ Opening(e) \/ Reading(e) \/ Reporting(e) \/ Cleaning(e)
        BY <1>2, <1>4, <4>1 DEF Agreed, ProcTyped
      <4> QED
        BY <4>1, <4>2 DEF Opening, Reading, Reporting, Cleaning, Lists
    <3>2. proc' = [o \in Proc |-> proc'[o]]
      BY <1>4 DEF Agreed, ProcTyped
    <3> QED
      BY <3>1, <3>2 DEF ProcTyped
  <2>3. Counted'
    <3>1. PICK e : e = Current
      OBVIOUS
    <3>2. Current' = e
      BY <3>1 DEF Current
    <3>3. \A o \in Proc : Reporting(proc[o]) => \A q \in DOMAIN proc[o].counts : Taken(e, q, proc[o].counts[q])
      BY <1>4, <3>1 DEF Agreed, Counted
    <3>4. \A q \in Plan : Taken(e, q, hub'.completed[q])
      BY <1>2, <1>3, <1>4, <3>1, <3>3 DEF Agreed, Counted
    <3>5. (\A q \in Plan : Taken(Current, q, hub.completed[q]))'
      BY <3>2, <3>4 DEF Taken
    <3>6. ASSUME NEW o \in Proc, Reporting(proc[o])', NEW q \in (DOMAIN proc[o].counts)'
          PROVE  Taken(Current, q, proc[o].counts[q])'
      <4>1. PICK f : f = proc'[o]
        OBVIOUS
      <4>2. Reporting(f) /\ q \in DOMAIN f.counts
        BY <3>6, <4>1 DEF Reporting
      <4>3. Taken(e, q, f.counts[q])
        BY <1>2, <1>4, <3>3, <4>1, <4>2
      <4> QED
        BY <3>2, <4>1, <4>3 DEF Taken
    <3> QED
      BY <3>5, <3>6 DEF Counted
  <2> QED
    BY <2>1, <2>2, <2>3
<1>5. ASSUME Agreed, tx # NoTx
      PROVE  proc'[tx.by] = proc[tx.by]
  BY <1>1, <1>2, <1>5 DEF Agreed, TxTyped
<1>6. ASSUME Agreed, FirstHub
      PROVE  FirstHub'
  <2>1. ASSUME NEW o \in Proc, Opening(proc[o])'
        PROVE  FirstListed(proc[o].list)'
    <3>1. PICK e : e = proc'[o]
      OBVIOUS
    <3>2. Opening(e)
      BY <2>1, <3>1 DEF Opening, Lists
    <3>3. FirstListed(e.list)
      BY <1>2, <1>6, <3>1, <3>2 DEF FirstHub
    <3> QED
      BY <3>1, <3>3 DEF FirstListed
  <2> QED
    BY <1>3, <1>6, <2>1 DEF FirstHub
<1> QED
  BY <1>4, <1>5, <1>6, QuietStep

LEMMA ReportInv ==
    ASSUME Inv, NEW p \in Proc, Report(p)
    PROVE  Inv'
<1>1. At(p, "report") /\ UNCHANGED <<ts, links, tx, layout>> /\ Spending
  BY DEF Report, Inv
<1>2. Agreed => tx.by # p
  BY <1>1, NotWriting DEF Agreed, At
<1>3. UNCHANGED spent => Spending' /\ spent'.torn = spent.torn /\ spent'.renames = spent.renames
  BY <1>1 DEF Spending
<1>4. Spend("faults") => Spending' /\ spent'.torn = spent.torn /\ spent'.renames = spent.renames
  BY <1>1, SpendIs
<1>5. CASE Exit(p) /\ UNCHANGED <<hub, spent>>
  BY <1>1, <1>2, <1>3, <1>5, ExitInv
<1>6. CASE hub' = Progress(proc[p].target, proc[p].counts) /\ UNCHANGED spent /\ Reported(p)
  <2>1. PICK c : c = [cmd |-> proc[p].cmd, pc |-> "read", todo |-> proc[p].todo]
    OBVIOUS
  <2>2. proc' = [proc EXCEPT ![p] = c]
    BY <1>6, <2>1 DEF Reported
  <2>3. ASSUME Agreed
        PROVE  Reading(c)
    <3>1. Reporting(proc[p])
      BY <1>1, <2>3, Shape DEF Agreed
    <3> QED
      BY <2>1, <3>1 DEF Reporting, Reading
  <2> QED
    BY <1>1, <1>3, <1>6, <2>2, <2>3, ReportedInv
<1>7. CASE Spend("faults") /\ Exit(p) /\ hub' \in {hub, Progress(proc[p].target, proc[p].counts)}
  <2>1. proc' = [proc EXCEPT ![p] = Idle]
    BY <1>7 DEF Exit
  <2> QED
    BY <1>1, <1>4, <1>7, <2>1, ReportedInv
<1> QED
  BY <1>5, <1>6, <1>7 DEF Report

(***************************************************************************)
(* A change of the layout                                                  *)
(***************************************************************************)
\* Nobody runs a command, so no transaction is open.
LEMMA RelayoutInv ==
    ASSUME Inv, NEW to, Relayout(to)
    PROVE  Inv'
<1>1. /\ \A p \in Proc : proc[p] = Idle
      /\ <<layout, to>> \in Layouts /\ Spend("changes") /\ layout' = to /\ UNCHANGED <<hub, ts, links, tx, proc>> /\ Spending
  BY DEF Relayout, Inv
<1>2. Spending' /\ spent'.torn = spent.torn /\ spent'.renames = spent.renames
  BY <1>1, SpendIs
<1>3. PICK z : z = Pair
  OBVIOUS
<1>4. Pair' = z
  BY <1>1, <1>3 DEF Pair, Current
<1>5. ASSUME OneWay, Agreed, Tidy(z)
      PROVE  Tidy(Pair)'
  <2>1. PerProject => PerProject'
    BY <1>1, <1>5 DEF OneWay, PerProject
  <2>2. EnabledLinked(Pair)' /\ FirstNames(Pair)'
    BY <1>4, <1>5 DEF Tidy, EnabledLinked, FirstNames
  <2>3. ProjectsNamed(Pair)'
    BY <1>4, <1>5, <2>1 DEF Tidy, ProjectsNamed
  <2>4. \A i \in DOMAIN z.db.rows : z.db.rows[i].project \in DOMAIN z.db.projects
    BY <1>3, <1>5 DEF Agreed, Sound, Typed, RowsExist
  <2>5. ASSUME NEW t \in Target, NEW i \in DOMAIN z.db.rows, HomeRow(Pair, t, i)'
        PROVE  HomeRow(z, t, i)
    <3>1. z.db.rows[i].name[1] = t /\ z.db.projects[z.db.rows[i].project].name = Home(t)'
      BY <1>4, <2>5 DEF HomeRow
    <3>2. CASE PerProject
      <4>1. Home(t)' = Home(t)
        BY <2>1, <3>2 DEF Home, InHubProject
      <4> QED
        BY <3>1, <4>1 DEF HomeRow
    <3>3. CASE ~PerProject
      <4>1. Home(t) = Managed
        BY <3>3 DEF Home, InHubProject
      <4>2. z.db.projects[z.db.rows[i].project].name = Managed
        BY <1>5, <2>4, <3>3 DEF Tidy, ProjectsNamed
      <4> QED
        BY <3>1, <4>1, <4>2 DEF HomeRow
    <3> QED
      BY <3>2, <3>3
  <2>6. OneHomeRow(Pair)'
    <3>1. OneHomeRow(z)
      BY <1>5 DEF Tidy
    <3> QED
      BY <1>4, <2>5, <3>1 DEF OneHomeRow
  <2> QED
    BY <2>2, <2>3, <2>6 DEF Tidy
<1>6. ASSUME Agreed
      PROVE  HubTyped' /\ ProcTyped' /\ Counted'
  <2>1. HubTyped' /\ ProcTyped'
    BY <1>1, <1>6 DEF Agreed, HubTyped, HubData, ProcTyped, Opening, Reading, Reporting, Cleaning, Lists
  <2>2. Counted'
    BY <1>1, <1>6, CountedNext DEF Agreed, Current
  <2> QED
    BY <2>1, <2>2
<1>7. FirstHub => FirstHub'
  BY <1>1, FirstHubNext
<1> QED
  BY <1>1, <1>2, <1>3, <1>5, <1>6, <1>7, DbsStay

(***************************************************************************)
(* A frame is taken                                                        *)
(***************************************************************************)
MoreTaken(d, z) ==
    /\ z.links = d.links /\ z.db.rows = d.db.rows /\ DOMAIN z.db.plans = DOMAIN d.db.plans
    /\ \A j \in DOMAIN d.db.plans : /\ z.db.plans[j].row = d.db.plans[j].row /\ z.db.plans[j].filter = d.db.plans[j].filter
                                    /\ d.db.plans[j].accepted \in Nat /\ z.db.plans[j].accepted \in Nat
                                    /\ d.db.plans[j].accepted <= z.db.plans[j].accepted

LEMMA ImagedIs ==
    ASSUME NEW d, Sound(d), NEW i \in DOMAIN d.db.plans, NEW z, z = [d EXCEPT !.db.plans[i].accepted = @ + 1]
    PROVE  Sound(z) /\ (Tidy(d) => Tidy(z)) /\ MoreTaken(d, z)
<1>1. /\ d.db.plans \in Seq(PlanRow) /\ d.db.rows \in Seq(TargetRow) /\ d.db \in Db
      /\ d.links \in Links /\ d = [db |-> d.db, links |-> d.links] /\ Typed(d)
  BY DEF Sound, Typed, Db
<1>2. PICK old : old = d.db.plans[i]
  OBVIOUS
<1>3. old \in PlanRow
  BY <1>1, <1>2
<1>4. PICK new : new = [old EXCEPT !.accepted = old.accepted + 1]
  OBVIOUS
<1>5. /\ new \in PlanRow /\ new.row = old.row /\ new.filter = old.filter
      /\ old.accepted \in Nat /\ new.accepted \in Nat /\ old.accepted <= new.accepted
  BY <1>3, <1>4 DEF PlanRow
<1>6. PICK plans : plans = [d.db.plans EXCEPT ![i] = new]
  OBVIOUS
<1>7. z = [db |-> [d.db EXCEPT !.plans = plans], links |-> d.links]
  <2>1. z = [d EXCEPT !.db = [d.db EXCEPT !.plans = [d.db.plans EXCEPT ![i] = [d.db.plans[i] EXCEPT !.accepted = d.db.plans[i].accepted + 1]]]]
    OBVIOUS
  <2> QED
    BY <1>1, <1>2, <1>4, <1>6, <2>1
<1>8. plans \in Seq(PlanRow) /\ DOMAIN plans = DOMAIN d.db.plans /\ Len(plans) = Len(d.db.plans)
      /\ plans[i] = new /\ \A j \in DOMAIN d.db.plans : j # i => plans[j] = d.db.plans[j]
  BY <1>1, <1>5, <1>6
<1>9. z.db \in Db /\ z.db.plans = plans /\ z.db.projects = d.db.projects /\ z.db.rows = d.db.rows /\ z.links = d.links
  <2>1. z.db = [d.db EXCEPT !.plans = plans] /\ z.links = d.links
    BY <1>7
  <2>2. z.db = [projects |-> d.db.projects, rows |-> d.db.rows, plans |-> plans]
    BY <1>1, <2>1 DEF Db
  <2>3. d.db.projects \in Seq(ProjectRow)
    BY <1>1 DEF Db
  <2> QED
    BY <1>1, <1>8, <2>1, <2>2, <2>3 DEF Db
<1>10. ASSUME NEW j \in DOMAIN d.db.plans
       PROVE  /\ plans[j].row = d.db.plans[j].row /\ plans[j].filter = d.db.plans[j].filter
              /\ d.db.plans[j].accepted \in Nat /\ plans[j].accepted \in Nat /\ d.db.plans[j].accepted <= plans[j].accepted
  <2>1. CASE j = i
    BY <1>2, <1>5, <1>8, <2>1
  <2>2. CASE j # i
    <3>1. plans[j] = d.db.plans[j] /\ d.db.plans[j] \in PlanRow
      BY <1>1, <1>8, <2>2
    <3>2. d.db.plans[j].accepted \in Nat
      BY <3>1 DEF PlanRow
    <3> QED
      BY <3>1, <3>2
  <2> QED
    BY <2>1, <2>2
<1>11. RowsExist(z.db) /\ LinksExist(z)
  BY <1>1, <1>8, <1>9, <1>10 DEF Typed, RowsExist, LinksExist
<1>12. Typed(z)
  BY <1>1, <1>7, <1>9, <1>11 DEF Typed
<1>13. \A p \in Plan : d.links.plan[p] # 0 => d.links.plan[p] \in DOMAIN d.db.plans
  BY <1>1 DEF Typed, LinksExist
<1>14. \A t \in Target : TargetAgrees(z, t)
  BY <1>9 DEF Sound, TargetAgrees
<1>15. \A p \in Plan : PlanAgrees(z, p)
  BY <1>9, <1>10, <1>13 DEF Sound, PlanAgrees
<1>16. ASSUME Tidy(d)
       PROVE  Tidy(z)
  <2>1. EnabledLinked(z) /\ FirstNames(z)
    BY <1>9, <1>16 DEF Tidy, EnabledLinked, FirstNames
  <2>2. ProjectsNamed(z)
    <3>1. ProjectsNamed(d)
      BY <1>16 DEF Tidy
    <3> QED
      BY <1>9, <3>1 DEF ProjectsNamed
  <2>3. OneHomeRow(z)
    <3>1. OneHomeRow(d)
      BY <1>16 DEF Tidy
    <3>2. \A t \in Target : \A j \in DOMAIN d.db.rows : HomeRow(z, t, j) <=> HomeRow(d, t, j)
      BY <1>9 DEF HomeRow
    <3>3. DOMAIN z.db.rows = DOMAIN d.db.rows /\ z.links = d.links
      BY <1>9
    <3> QED
      BY <3>1, <3>2, <3>3 DEF OneHomeRow
  <2> QED
    BY <2>1, <2>2, <2>3 DEF Tidy
<1>17. MoreTaken(d, z)
  BY <1>8, <1>9, <1>10 DEF MoreTaken
<1> QED
  BY <1>12, <1>14, <1>15, <1>16, <1>17 DEF Sound

\* What was taken stays taken.
LEMMA StillTaken ==
    ASSUME NEW d, Sound(d), NEW z, DOMAIN d.db.plans \subseteq DOMAIN z.db.plans,
           \A j \in DOMAIN d.db.rows : z.db.rows[j].name = d.db.rows[j].name,
           \A j \in DOMAIN d.db.plans : /\ z.db.plans[j].row = d.db.plans[j].row /\ z.db.plans[j].filter = d.db.plans[j].filter
                                        /\ d.db.plans[j].accepted \in Nat /\ z.db.plans[j].accepted \in Nat
                                        /\ d.db.plans[j].accepted <= z.db.plans[j].accepted,
           NEW p, NEW n \in Nat, Taken(d.db, p, n)
    PROVE  Taken(z.db, p, n)
<1>1. CASE n = 0
  BY <1>1 DEF Taken
<1>2. CASE n # 0
  <2>1. PICK i \in DOMAIN d.db.plans : /\ d.db.plans[i].filter = Filter[p] /\ n <= d.db.plans[i].accepted
                                       /\ d.db.rows[d.db.plans[i].row].name[1] = Owner[p]
    BY <1>2 DEF Taken
  <2>2. d.db.plans[i].row \in DOMAIN d.db.rows
    BY DEF Sound, Typed, RowsExist
  <2>3. z.db.rows[z.db.plans[i].row].name[1] = Owner[p]
    BY <2>1, <2>2
  <2>4. i \in DOMAIN z.db.plans /\ z.db.plans[i].filter = Filter[p] /\ n <= z.db.plans[i].accepted
    BY <2>1
  <2> QED
    BY <2>3, <2>4 DEF Taken
<1> QED
  BY <1>1, <1>2

(***************************************************************************)
(* Steps that change the rows                                              *)
(***************************************************************************)
LEMMA ProcTypedNext ==
    ASSUME ProcTyped, NEW p \in Proc, NEW c, proc' = [proc EXCEPT ![p] = c],
           c = Idle \/ Opening(c) \/ Reading(c) \/ Reporting(c) \/ Cleaning(c)
    PROVE  ProcTyped' /\ proc'[p] = c /\ \A o \in Proc : o # p => proc'[o] = proc[o]
<1>1. proc'[p] = c /\ \A o \in Proc : o # p => proc'[o] = proc[o]
  BY DEF ProcTyped
<1>2. ASSUME NEW o \in Proc
      PROVE  (proc[o] = Idle \/ Opening(proc[o]) \/ Reading(proc[o]) \/ Reporting(proc[o]) \/ Cleaning(proc[o]))'
  <2>1. PICK e : e = proc'[o]
    OBVIOUS
  <2>2. e = Idle \/ Opening(e) \/ Reading(e) \/ Reporting(e) \/ Cleaning(e)
    BY <1>1, <2>1 DEF ProcTyped
  <2> QED
    BY <2>1, <2>2 DEF Opening, Reading, Reporting, Cleaning, Lists
<1>3. proc' = [o \in Proc |-> proc'[o]]
  BY DEF ProcTyped
<1> QED
  BY <1>1, <1>2, <1>3 DEF ProcTyped

LEMMA CountedGrows ==
    ASSUME Agreed, UNCHANGED hub, NEW e, e = Current, NEW f, Current' = f,
           \A q \in Plan : \A n \in Nat : Taken(e, q, n) => Taken(f, q, n),
           \A o \in Proc : proc'[o] = proc[o] \/ ~Reporting(proc'[o])
    PROVE  Counted'
<1>1. ASSUME NEW q \in Plan
      PROVE  Taken(f, q, hub.completed[q])
  <2>1. hub.completed[q] \in Nat /\ Taken(e, q, hub.completed[q])
    BY DEF Agreed, HubTyped, HubData, Counted
  <2> QED
    BY <2>1
<1>2. (\A q \in Plan : Taken(Current, q, hub.completed[q]))'
  BY <1>1 DEF Taken
<1>3. ASSUME NEW o \in Proc, Reporting(proc[o])', NEW q \in (DOMAIN proc[o].counts)'
      PROVE  Taken(Current, q, proc[o].counts[q])'
  <2>1. PICK c : c = proc'[o]
    OBVIOUS
  <2>2. Reporting(c) /\ q \in DOMAIN c.counts
    BY <1>3, <2>1 DEF Reporting
  <2>3. c = proc[o]
    BY <2>1, <2>2
  <2>4. q \in Plan /\ c.counts[q] \in Nat
    BY <2>2 DEF Reporting
  <2>5. Taken(e, q, c.counts[q])
    BY <2>2, <2>3 DEF Agreed, Counted
  <2>6. Taken(f, q, c.counts[q])
    BY <2>4, <2>5
  <2> QED
    BY <2>1, <2>6 DEF Taken
<1> QED
  BY <1>2, <1>3 DEF Counted

LEMMA FirstHubStays ==
    ASSUME FirstHub, UNCHANGED hub,
           \A o \in Proc : Opening(proc'[o]) => Opening(proc[o]) /\ proc'[o].list = proc[o].list
    PROVE  FirstHub'
<1>1. ASSUME NEW o \in Proc, Opening(proc[o])'
      PROVE  FirstListed(proc[o].list)'
  <2>1. PICK c : c = proc'[o]
    OBVIOUS
  <2>2. Opening(c)
    BY <1>1, <2>1 DEF Opening, Lists
  <2>3. FirstListed(c.list)
    BY <2>1, <2>2 DEF FirstHub
  <2> QED
    BY <2>1, <2>3 DEF FirstListed
<1> QED
  BY <1>1 DEF FirstHub

\* What the open command's commit, or a frame, has to establish.
LEMMA RowsStep ==
    ASSUME Inv, UNCHANGED <<hub, layout, spent>>, NEW e, e = Current, NEW z, Agreed => Pair' = z,
           Agreed => Sound(z) /\ TxTyped' /\ ProcTyped',
           Agreed => \A q \in Plan : \A n \in Nat : Taken(e, q, n) => Taken(z.db, q, n),
           Agreed => \A o \in Proc : /\ proc'[o] = proc[o] \/ ~Reporting(proc'[o])
                                     /\ Opening(proc'[o]) => Opening(proc[o]) /\ proc'[o].list = proc[o].list,
           Agreed /\ FirstHub /\ Tidy(Pair) => Tidy(z),
           Agreed /\ FirstHub /\ Tidy(Pair) /\ Placed /\ OwnFilters => AskedInTx'
    PROVE  Inv'
<1>1. Spending' /\ spent'.torn = spent.torn /\ (Whole' <=> Whole)
  BY DEF Inv, Spending, Whole
<1>2. ASSUME Agreed
      PROVE  Agreed'
  <2>1. Current' = z.db
    BY <1>2 DEF Pair
  <2>2. Counted'
    BY <1>2, <2>1, CountedGrows
  <2>3. Sound(Pair)'
    BY <1>2, SoundNext
  <2>4. HubTyped'
    BY <1>2 DEF Agreed, HubTyped
  <2> QED
    BY <1>2, <2>2, <2>3, <2>4 DEF Agreed
<1>3. ASSUME OneWay, Whole
      PROVE  Agreed /\ FirstHub /\ Tidy(Pair)
  BY <1>3 DEF Inv, Whole
<1>4. Agreed /\ FirstHub => FirstHub'
  BY FirstHubStays
<1>5. ASSUME Agreed, FirstHub, Tidy(Pair)
      PROVE  Tidy(Pair)'
  BY <1>5, TidyNext
<1> QED
  BY <1>1, <1>2, <1>3, <1>4, <1>5 DEF Inv, OneWay, Placed, OwnFilters

\* A row imaged is one of a plan: what is taken only grows.
LEMMA ImageInv ==
    ASSUME Inv, NEW i \in DOMAIN ts.plans, Image(i)
    PROVE  Inv'
<1>1. tx = NoTx /\ ts' = [ts EXCEPT !.plans[i].accepted = @ + 1] /\ UNCHANGED <<hub, links, tx, proc, layout, spent>>
  BY DEF Image
<1>2. PICK d, z : d = Pair /\ z = [d EXCEPT !.db.plans[i].accepted = @ + 1]
  OBVIOUS
<1>3. d = [db |-> ts, links |-> links]
  BY <1>1, <1>2 DEF Pair, Current
<1>4. Pair' = z
  <2>1. z = [db |-> [ts EXCEPT !.plans[i].accepted = @ + 1], links |-> links]
    BY <1>2, <1>3
  <2>2. Pair' = [db |-> ts', links |-> links']
    BY <1>1 DEF Pair, Current
  <2> QED
    BY <1>1, <2>1, <2>2
<1>5. ASSUME Agreed
      PROVE  Sound(d) /\ Sound(z) /\ (Tidy(d) => Tidy(z)) /\ MoreTaken(d, z)
  <2>1. Sound(d)
    BY <1>2, <1>5 DEF Agreed
  <2>2. i \in DOMAIN d.db.plans
    BY <1>3
  <2>3. z = [d EXCEPT !.db.plans[i].accepted = @ + 1]
    BY <1>2
  <2> QED
    BY <2>1, <2>2, <2>3, ImagedIs
<1>6. d.db = Current
  BY <1>2 DEF Pair
<1>7. ASSUME Agreed, NEW q \in Plan, NEW n \in Nat, Taken(d.db, q, n)
      PROVE  Taken(z.db, q, n)
  BY <1>5, <1>7, StillTaken DEF MoreTaken
<1>8. ASSUME Agreed
      PROVE  TxTyped' /\ ProcTyped'
  <2>1. ts' = z.db
    BY <1>1, <1>4 DEF Pair, Current
  <2>2. z.db \in Db /\ RowsExist(z.db)
    BY <1>5, <1>8 DEF Sound, Typed
  <2>3. TxTyped'
    BY <1>1, <2>1, <2>2 DEF TxTyped, RowsExist, NoTx
  <2>4. ProcTyped'
    BY <1>1, <1>8 DEF Agreed, ProcTyped, Opening, Reading, Reporting, Cleaning, Lists
  <2> QED
    BY <2>3, <2>4
<1>9. AskedInTx'
  BY <1>1, NoneIsNoProcess DEF AskedInTx, Writing, NoTx
<1> QED
  BY <1>1, <1>2, <1>4, <1>5, <1>6, <1>7, <1>8, <1>9, RowsStep

LEMMA CommitSchedulerInv ==
    ASSUME Inv, NEW p \in Proc, CommitScheduler(p)
    PROVE  Inv'
<1>1. tx.by = p /\ ts' = tx.db /\ tx' = NoTx /\ proc' = [proc EXCEPT ![p] = Idle] /\ UNCHANGED <<hub, links, layout, spent>>
  BY DEF CommitScheduler, Writing, Exit
<1>2. tx # NoTx
  BY <1>1, NoneIsNoProcess DEF NoTx
<1>3. PICK z : z = Pair
  OBVIOUS
<1>4. Pair' = z
  BY <1>1, <1>2, <1>3 DEF Pair, Current
<1>5. ASSUME Agreed
      PROVE  Sound(z) /\ TxTyped' /\ ProcTyped'
  <2>1. Sound(z) /\ ProcTyped
    BY <1>3, <1>5 DEF Agreed
  <2>2. ts' = z.db
    BY <1>1, <1>2, <1>3 DEF Pair, Current
  <2>3. z.db \in Db /\ RowsExist(z.db)
    BY <2>1 DEF Sound, Typed
  <2>4. TxTyped'
    BY <1>1, <2>2, <2>3 DEF TxTyped, RowsExist, NoTx
  <2>5. ProcTyped'
    BY <1>1, <2>1, ProcTypedNext
  <2> QED
    BY <2>1, <2>4, <2>5
<1>6. \A o \in Proc : proc'[o] = proc[o] \/ proc'[o] = Idle
  BY <1>1
<1>7. AskedInTx'
  BY <1>1, NoneIsNoProcess DEF AskedInTx, Writing, NoTx
<1>8. z.db = Current
  BY <1>3 DEF Pair
<1> QED
  BY <1>1, <1>3, <1>4, <1>5, <1>6, <1>7, <1>8, IdleIsNone, RowsStep

\* A command commits its links; the scheduler's rows wait to follow.
LEMMA CommitStateInv ==
    ASSUME Inv, NEW p \in Proc, tx = NoTx, At(p, "begin"), NEW z, CommitState(p, z),
           Agreed => Sound(z) /\ Grown(ts, z.db),
           Agreed => Opening(proc[p]) \/ Cleaning(proc[p]),
           Agreed /\ FirstHub /\ Tidy(Pair) => Tidy(z),
           Agreed /\ FirstHub /\ Tidy(Pair) /\ Placed /\ OwnFilters /\ Opening(proc[p]) =>
               \A t \in DOMAIN proc[p].list : Asked(z, t, proc[p].list[t])
    PROVE  Inv'
<1>1. PICK c : c = [proc[p] EXCEPT !.pc = "commit"]
  OBVIOUS
<1>2. /\ links' = z.links /\ tx' = [by |-> p, db |-> z.db] /\ proc' = [proc EXCEPT ![p] = c]
      /\ UNCHANGED <<hub, ts, layout, spent>>
  BY <1>1 DEF CommitState, Goto
<1>3. tx' # NoTx /\ tx'.by = p /\ tx'.db = z.db
  BY <1>2, NoneIsNoProcess DEF NoTx
<1>4. Current = ts /\ Current' = z.db
  BY <1>2, <1>3 DEF Current, NoTx
<1>5. ASSUME Agreed
      PROVE  Pair' = z
  <2>1. z = [db |-> z.db, links |-> z.links]
    BY <1>5 DEF Sound, Typed
  <2> QED
    BY <1>2, <1>4, <2>1 DEF Pair
<1>6. ASSUME Agreed
      PROVE  /\ c.pc = "commit"
             /\ Opening(proc[p]) => Opening(c) /\ c.list = proc[p].list
             /\ Cleaning(proc[p]) => Cleaning(c)
             /\ ~Reporting(c)
             /\ Opening(c) => Opening(proc[p]) /\ c.list = proc[p].list
  <2>1. Opening(proc[p]) => Opening(c) /\ c.list = proc[p].list /\ c.pc = "commit"
    BY <1>1 DEF Opening
  <2>2. Cleaning(proc[p]) => Cleaning(c) /\ c.cmd = "cleanup" /\ c.pc = "commit"
    BY <1>1 DEF Cleaning
  <2>3. Opening(c) => c.cmd = "roof-open"
    BY DEF Opening
  <2>4. Reporting(c) => c.pc = "report"
    BY DEF Reporting
  <2> QED
    BY <1>6, <2>1, <2>2, <2>3, <2>4
<1>7. ASSUME Agreed
      PROVE  ProcTyped' /\ proc'[p] = c /\ \A o \in Proc : o # p => proc'[o] = proc[o]
  BY <1>2, <1>6, <1>7, ProcTypedNext DEF Agreed
<1>8. ASSUME Agreed
      PROVE  TxTyped'
  <2>1. ts \in Db /\ RowsExist(ts)
    BY <1>8 DEF Agreed, TxTyped
  <2>2. ts' \in Db' /\ RowsExist(ts)'
    BY <1>2, <2>1 DEF Db, ProjectRow, TargetRow, PlanRow, RowsExist
  <2>3. (Opening(proc[tx.by]) \/ Cleaning(proc[tx.by]))' /\ (proc[tx.by].pc = "commit")'
    <3>1. Opening(c) \/ Cleaning(c)
      BY <1>6, <1>8
    <3>2. proc'[tx'.by] = c
      BY <1>3, <1>7, <1>8
    <3>3. c.pc = "commit"
      BY <1>6, <1>8
    <3> QED
      BY <3>1, <3>2, <3>3 DEF Opening, Cleaning, Lists
  <2>4. Grown(ts, tx.db)'
    BY <1>2, <1>3, <1>8 DEF Grown
  <2> QED
    BY <1>2, <1>3, <2>2, <2>3, <2>4 DEF TxTyped
<1>9. ASSUME Agreed, NEW q \in Plan, NEW n \in Nat, Taken(ts, q, n)
      PROVE  Taken(z.db, q, n)
  <2>1. PICK d : d = Pair
    OBVIOUS
  <2>2. d.db = ts /\ Sound(d)
    BY <1>4, <1>9, <2>1 DEF Pair, Agreed
  <2>3. Grown(d.db, z.db)
    BY <1>9, <2>2
  <2>4. ASSUME NEW j \in DOMAIN d.db.plans
        PROVE  d.db.plans[j].accepted \in Nat
    <3>1. d.db.plans \in Seq(PlanRow)
      BY <2>2 DEF Sound, Typed, Db
    <3>2. d.db.plans[j] \in PlanRow
      BY <3>1
    <3> QED
      BY <3>2 DEF PlanRow
  <2>5. \A j \in DOMAIN d.db.plans : /\ z.db.plans[j].row = d.db.plans[j].row /\ z.db.plans[j].filter = d.db.plans[j].filter
                                     /\ d.db.plans[j].accepted \in Nat /\ z.db.plans[j].accepted \in Nat
                                     /\ d.db.plans[j].accepted <= z.db.plans[j].accepted
    BY <2>3, <2>4 DEF Grown
  <2>6. DOMAIN d.db.plans \subseteq DOMAIN z.db.plans /\ \A j \in DOMAIN d.db.rows : z.db.rows[j].name = d.db.rows[j].name
    BY <2>3 DEF Grown
  <2> QED
    BY <1>9, <2>2, <2>5, <2>6, StillTaken
<1>10. ASSUME Agreed, NEW o \in Proc
       PROVE  /\ proc'[o] = proc[o] \/ ~Reporting(proc'[o])
              /\ Opening(proc'[o]) => Opening(proc[o]) /\ proc'[o].list = proc[o].list
  <2>1. CASE o = p
    <3>1. proc'[o] = c
      BY <1>7, <1>10, <2>1
    <3> QED
      BY <1>6, <1>10, <2>1, <3>1
  <2>2. CASE o # p
    <3>1. proc'[o] = proc[o]
      BY <1>7, <1>10, <2>2
    <3> QED
      BY <3>1
  <2> QED
    BY <2>1, <2>2
<1>11. ASSUME Agreed, FirstHub, Tidy(Pair), Placed, OwnFilters
       PROVE  AskedInTx'
  <2>1. SUFFICES ASSUME NEW o \in Proc, Writing(o)', Opening(proc[o])', NEW t \in (DOMAIN proc[o].list)'
                 PROVE  Asked(Pair, t, proc[o].list[t])'
    BY DEF AskedInTx
  <2>2. o = p /\ proc'[p] = c
    BY <1>3, <1>7, <1>11, <2>1 DEF Writing
  <2>3. Opening(c) /\ t \in DOMAIN c.list
    BY <2>1, <2>2 DEF Opening, Lists
  <2>4. Opening(proc[p]) /\ c.list = proc[p].list
    BY <1>6, <1>11, <2>3
  <2>5. Asked(z, t, c.list[t])
    BY <1>11, <2>3, <2>4
  <2>6. Asked(z, t, proc'[o].list[t])
    BY <2>2, <2>5
  <2> QED
    BY <1>5, <1>11, <2>6, AskedNext
<1>12. PICK e : e = Current
  OBVIOUS
<1>13. ASSUME Agreed, NEW q \in Plan, NEW n \in Nat, Taken(e, q, n)
       PROVE  Taken(z.db, q, n)
  BY <1>4, <1>9, <1>12, <1>13
<1>14. UNCHANGED <<hub, layout, spent>>
  BY <1>2
<1> QED
  BY <1>5, <1>7, <1>8, <1>10, <1>11, <1>12, <1>13, <1>14, RowsStep

LEMMA WriteTargetsInv ==
    ASSUME Inv, NEW p \in Proc, WriteTargets(p)
    PROVE  Inv'
<1>1. PICK d, list, e, z : d = Data /\ list = proc[p].list /\ e = SyncAll(d, list) /\ z = Synced(e)
  OBVIOUS
<1>2. At(p, "begin") /\ proc[p].cmd = "roof-open" /\ tx = NoTx /\ CommitState(p, z)
  BY <1>1 DEF WriteTargets
<1>3. d = Pair /\ d.db = ts
  BY <1>1, <1>2 DEF Data, Pair, Current
<1>4. ASSUME Agreed
      PROVE  Sound(d) /\ Opening(proc[p]) /\ Lists(list)
  <2>1. Sound(d)
    BY <1>3, <1>4 DEF Agreed
  <2>2. Opening(proc[p])
    BY <1>2, <1>4, Shape DEF Agreed
  <2> QED
    BY <1>1, <2>1, <2>2 DEF Opening
<1>5. ASSUME Agreed
      PROVE  /\ Sound(e) /\ Grown(d.db, e.db)
             /\ Tidy(d) /\ FirstListed(list) =>
                  /\ Tidy(e)
                  /\ Placed /\ OwnFilters => \A t \in DOMAIN list : Asked(e, t, list[t])
  BY <1>1, <1>4, <1>5, SyncAllKeeps
<1>6. ASSUME Agreed
      PROVE  /\ Sound(z) /\ Grown(e.db, z.db)
             /\ Tidy(e) => Tidy(z)
             /\ \A t \in Target : \A l \in Listed(t) : Asked(e, t, l) => Asked(z, t, l)
  BY <1>1, <1>5, <1>6, SyncedKeeps
<1>7. Agreed => Grown(ts, z.db)
  <2>1. Agreed => Grown(d.db, e.db) /\ Grown(e.db, z.db)
    BY <1>5, <1>6
  <2>2. Grown(d.db, e.db) /\ Grown(e.db, z.db) => Grown(d.db, z.db)
    BY DEF Grown
  <2> QED
    BY <1>3, <2>1, <2>2
<1>8. Agreed /\ FirstHub => FirstListed(list)
  BY <1>1, <1>4 DEF FirstHub
<1>9. Agreed /\ FirstHub /\ Tidy(Pair) => Tidy(z)
  BY <1>3, <1>5, <1>6, <1>8
<1>10. ASSUME Agreed, FirstHub, Tidy(Pair), Placed, OwnFilters, NEW t \in DOMAIN list
       PROVE  Asked(z, t, list[t])
  <2>1. Asked(e, t, list[t])
    BY <1>3, <1>5, <1>8, <1>10
  <2>2. t \in Target /\ list[t] \in Listed(t)
    BY <1>4, <1>10 DEF Lists
  <2> QED
    BY <1>6, <1>10, <2>1, <2>2
<1> QED
  BY <1>1, <1>2, <1>4, <1>6, <1>7, <1>9, <1>10, CommitStateInv

LEMMA CleanUpInv ==
    ASSUME Inv, NEW p \in Proc, CleanUp(p)
    PROVE  Inv'
<1>1. PICK d, gone, z : d = Data /\ gone = Gone(proc[p].keep) /\ z = Cleaned(d, gone)
  OBVIOUS
<1>2. At(p, "begin") /\ proc[p].cmd = "cleanup" /\ tx = NoTx /\ CommitState(p, z)
  BY <1>1 DEF CleanUp
<1>3. d = Pair /\ d.db = ts
  BY <1>1, <1>2 DEF Data, Pair, Current
<1>4. Closing(d, gone)
  BY <1>1 DEF Closing, Gone, LinkedTargets, Data
<1>5. ASSUME Agreed
      PROVE  Sound(d) /\ Cleaning(proc[p]) /\ ~Opening(proc[p])
  <2>1. Sound(d)
    BY <1>3, <1>5 DEF Agreed
  <2>2. Cleaning(proc[p])
    BY <1>2, <1>5, Shape DEF Agreed
  <2>3. ~Opening(proc[p])
    BY <1>2 DEF Opening
  <2> QED
    BY <2>1, <2>2, <2>3
<1>6. ASSUME Agreed
      PROVE  Sound(z) /\ Grown(d.db, z.db) /\ (Tidy(d) => Tidy(z))
  BY <1>1, <1>4, <1>5, <1>6, CleanedKeeps
<1> QED
  BY <1>2, <1>3, <1>5, <1>6, CommitStateInv

(***************************************************************************)
(* The theorems                                                            *)
(***************************************************************************)
LEMMA NextInv == Inv /\ [Next]_vars => Inv'
<1> SUFFICES ASSUME Inv, [Next]_vars
             PROVE  Inv'
  OBVIOUS
<1>1. CASE UNCHANGED vars
  <2>1. UNCHANGED <<hub, ts, links, tx, proc, layout, spent>>
    BY <1>1 DEF vars
  <2>2. UNCHANGED proc /\ Spending'
    BY <2>1 DEF Inv, Spending
  <2>3. ASSUME Agreed
        PROVE  HubTyped' /\ ProcTyped' /\ Counted'
    <3>1. HubTyped'
      BY <2>1, <2>3 DEF Agreed, HubTyped
    <3>2. ProcTyped'
      BY <2>1, <2>3 DEF Agreed, ProcTyped, Opening, Reading, Reporting, Cleaning, Lists
    <3>3. Counted'
      BY <2>1, <2>3, CountedNext DEF Agreed, Current
    <3> QED
      BY <3>1, <3>2, <3>3
  <2>4. FirstHub => FirstHub'
    BY <2>1, FirstHubNext
  <2> QED
    BY <2>1, <2>2, <2>3, <2>4, QuietStep
<1>2. ASSUME NEW p \in Proc, Step(p)
      PROVE  Inv'
  <2>1. CASE WriteTargets(p)
    BY <2>1, WriteTargetsInv
  <2>2. CASE \E t \in Target : ReadCounts(p, t)
    BY <2>2, ReadCountsInv
  <2>3. CASE CommitScheduler(p)
    BY <2>3, CommitSchedulerInv
  <2>4. CASE Report(p)
    BY <2>4, ReportInv
  <2>5. CASE EndProgress(p)
    BY <2>5, EndProgressInv
  <2>6. CASE CleanUp(p)
    BY <2>6, CleanUpInv
  <2>7. CASE FetchActive(p)
    BY <2>7, FetchActiveInv
  <2> QED
    BY <1>2, <2>1, <2>2, <2>3, <2>4, <2>5, <2>6, <2>7 DEF Step
<1>3. ASSUME NEW p \in Proc, StartRoofOpen(p) \/ StartProgress(p)
      PROVE  Inv'
  BY <1>3, StartRoofOpenInv, StartProgressInv
<1>4. CASE FetchActive("timer")
  BY <1>4, FetchActiveInv DEF Proc
<1>5. CASE Outside
  <2>1. CASE HubChange
    BY <2>1, HubChangeInv
  <2>2. ASSUME NEW t \in Renamed, Rename(t)
        PROVE  Inv'
    BY <2>2, RenameInv
  <2>3. ASSUME NEW to \in Layout, Relayout(to)
        PROVE  Inv'
    BY <2>3, RelayoutInv
  <2>4. ASSUME NEW i \in DOMAIN ts.plans, Image(i)
        PROVE  Inv'
    BY <2>4, ImageInv
  <2>5. ASSUME NEW p \in Proc, Killed(p) \/ KilledBetween(p)
        PROVE  Inv'
    BY <2>5, KilledInv, KilledBetweenInv
  <2> QED
    BY <1>5, <2>1, <2>2, <2>3, <2>4, <2>5 DEF Outside
<1> QED
  BY <1>1, <1>2, <1>3, <1>4, <1>5 DEF Next

\* The invariant holds of every list of targets, every numbering of the plans
\* and every bound: roof-open, cleanup and the reports keep the two databases
\* agreed, in whatever order the commands of NINA and the timer interleave.
THEOREM InvHolds == Spec => []Inv
<1> QED
  BY InitInv, NextInv, PTL DEF Spec

\* sync-progress never makes the Hub count a frame that the rig did not
\* accept: what is counted of a plan was accepted by one row of its target and
\* its filter, however reports are lost, resent or overtaken by roof-open or
\* cleanup (cleanup may drop the link between the read and the report).
THEOREM FramesTaken == Spec => []OnlyFramesTaken
<1>1. Inv => OnlyFramesTaken
  BY DEF Inv, Agreed, Counted, Current, OnlyFramesTaken
<1> QED
  BY <1>1, InvHolds, PTL

\* A target's link and its plans' links name one row of that target and rows
\* of its plans' filters, so that two targets never share a row (state.py).
THEOREM LinksNameTheirRows == Spec => []LinksAgree
<1>1. ASSUME Inv
      PROVE  LinksAgree
  <2>1. SUFFICES ASSUME tx = NoTx, spent.torn = 0
                 PROVE  /\ \A t \in Target : LET link == links.target[t]
                                             IN  link.row # 0 => /\ ts.rows[link.row].name[1] = t
                                                                 /\ ts.rows[link.row].project = link.project
                        /\ \A p \in Plan : links.plan[p] # 0 => /\ ts.plans[links.plan[p]].row = links.target[Owner[p]].row
                                                                /\ ts.plans[links.plan[p]].filter = Filter[p]
    BY DEF LinksAgree
  <2>2. PICK d : d = Pair
    OBVIOUS
  <2>3. d.db = ts /\ d.links = links /\ Sound(d)
    BY <1>1, <2>1, <2>2 DEF Inv, Agreed, Pair, Current
  <2> QED
    BY <2>3 DEF Sound, TargetAgrees, PlanAgrees
<1> QED
  BY <1>1, InvHolds, PTL

\* NINA never images a target that the agent has forgotten: while
\* ts_project_mode only ever goes from one project to many, no target was
\* renamed and no command was killed between its commits, a row left enabled
\* is the row of a link, and cleanup finds it.
THEOREM NoneForgotten == OneWay => (Spec => []NoOrphans)
<1> SUFFICES ASSUME OneWay
             PROVE  Spec => []NoOrphans
  OBVIOUS
<1>1. Inv => NoOrphans
  BY DEF Inv, NoOrphans, EnabledIsLinked, Tidy, EnabledLinked, Pair, Current
<1> QED
  BY <1>1, InvHolds, PTL

\* Only its commit closes a transaction, unless the command is killed.
LEMMA ClosedByCommit ==
    ASSUME Next, tx # NoTx, tx' = NoTx, spent' = spent, Spending
    PROVE  \E p \in Proc : CommitScheduler(p)
<1>1. ASSUME NEW p \in Proc, Step(p), ~CommitScheduler(p)
      PROVE  FALSE
  <2>1. tx' # tx
    OBVIOUS
  <2>2. CASE WriteTargets(p)
    BY <2>2 DEF WriteTargets
  <2>3. CASE CleanUp(p)
    BY <2>3 DEF CleanUp
  <2>4. CASE \E t \in Target : ReadCounts(p, t)
    BY <2>1, <2>4 DEF ReadCounts
  <2>5. CASE Report(p) \/ EndProgress(p) \/ FetchActive(p)
    BY <2>1, <2>5 DEF Report, EndProgress, FetchActive
  <2> QED
    BY <1>1, <2>2, <2>3, <2>4, <2>5 DEF Step
<1>2. ASSUME NEW p \in Proc, KilledBetween(p)
      PROVE  FALSE
  <2>1. spent'.torn = spent.torn + 1 /\ spent.torn \in Nat
    BY <1>2, SpendIs DEF KilledBetween, Spending
  <2> QED
    BY <2>1
<1>3. ASSUME NEW p \in Proc, StartRoofOpen(p) \/ StartProgress(p) \/ FetchActive("timer") \/ Killed(p)
      PROVE  FALSE
  BY <1>3 DEF StartRoofOpen, StartProgress, FetchActive, Killed
<1>4. ASSUME HubChange \/ (\E t \in Renamed : Rename(t)) \/ (\E to \in Layout : Relayout(to)) \/ (\E i \in DOMAIN ts.plans : Image(i))
      PROVE  FALSE
  BY <1>4 DEF HubChange, Rename, Relayout, Image
<1> QED
  BY <1>1, <1>2, <1>3, <1>4 DEF Next, Outside, Proc

LEMMA RoofOpensAsAsked ==
    ASSUME OneWay, Placed, OwnFilters, Inv, Next, NEW p \in Proc, Whole, RoofOpened(p), NEW t \in DOMAIN proc[p].list
    PROVE  AskedFor(t, proc[p].list[t])
<1>1. /\ proc[p].cmd = "roof-open" /\ tx.by = p /\ tx # NoTx /\ tx' = NoTx /\ spent' = spent /\ spent.torn = 0
  BY NoneIsNoProcess DEF RoofOpened, Writing, Whole, NoTx
<1>2. Agreed /\ FirstHub /\ Tidy(Pair) /\ AskedInTx
  BY <1>1 DEF Inv
<1>3. PICK o \in Proc : CommitScheduler(o)
  BY <1>1, ClosedByCommit DEF Inv
<1>4. ts' = tx.db
  BY <1>3 DEF CommitScheduler
<1>5. PICK d, listed : d = Pair /\ listed = proc[p].list[t]
  OBVIOUS
<1>6. d.db = ts' /\ d.links = links /\ Sound(d)
  BY <1>1, <1>2, <1>4, <1>5 DEF Pair, Current, Agreed
<1>7. Opening(proc[p]) /\ t \in Target
  <2>1. Opening(proc[p]) \/ Cleaning(proc[p])
    BY <1>1, <1>2 DEF Agreed, TxTyped
  <2>2. ~Cleaning(proc[p])
    BY <1>1 DEF Cleaning
  <2> QED
    BY <2>1, <2>2 DEF Opening, Lists
<1>8. Asked(d, t, listed)
  BY <1>1, <1>2, <1>5, <1>7 DEF AskedInTx, Writing
<1>9. PICK row : row = d.links.target[t].row
  OBVIOUS
<1>10. /\ row # 0 /\ d.db.rows[row].active /\ d.db.projects[d.db.rows[row].project].active
       /\ \A q \in listed.plans : d.db.plans[d.links.plan[q]].desired = Desired[q]
  BY <1>8, <1>9 DEF Asked
<1>11. ASSUME NEW i \in DOMAIN d.db.rows, d.db.rows[i].active, d.db.rows[i].name[1] = t
       PROVE  i = row
  <2>1. PICK u \in Target : d.links.target[u].row = i
    BY <1>2, <1>5, <1>11 DEF Tidy, EnabledLinked
  <2>2. i # 0
    <3>1. d.db.rows \in Seq(TargetRow)
      BY <1>6 DEF Sound, Typed, Db
    <3> QED
      BY <3>1
  <2>3. d.db.rows[i].name[1] = u
    BY <1>6, <2>1, <2>2 DEF Sound, TargetAgrees
  <2> QED
    BY <1>9, <1>11, <2>1, <2>3
<1> QED
  BY <1>5, <1>6, <1>9, <1>10, <1>11 DEF AskedFor

\* What roof-open commits is what the Hub asked for when the list was fetched:
\* each target enabled once, in an active project, with each plan's own count.
\* Every target has a project of the Hub's (target.rb), no target has two plans
\* of one filter, and ts_project_mode only ever goes from one project to many.
THEOREM RoofOpensAsked == OneWay /\ Placed /\ OwnFilters => (Spec => ScheduledAsAsked)
<1> SUFFICES ASSUME OneWay, Placed, OwnFilters
             PROVE  Spec => ScheduledAsAsked
  OBVIOUS
<1>1. Inv /\ [Next]_vars => [\A p \in Proc : Whole /\ RoofOpened(p) => \A t \in DOMAIN proc[p].list : AskedFor(t, proc[p].list[t])]_vars
  BY RoofOpensAsAsked
<1> QED
  BY <1>1, InvHolds, PTL DEF Spec, ScheduledAsAsked
=============================================================================
