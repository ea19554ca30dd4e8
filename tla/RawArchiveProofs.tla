--------------------------- MODULE RawArchiveProofs ---------------------------
(***************************************************************************)
(* The invariant of RawArchiveInv is inductive, and what follows from it.   *)
(*                                                                         *)
(* A step is shown to preserve the part it disturbs; the frame lemmas give  *)
(* the other parts, from Keeps: what no step takes back.                    *)
(***************************************************************************)
EXTENDS RawArchiveInv, FiniteSetTheorems, TLAPS

(* A frame's copy is still backed after a step that keeps what must be kept. *)
LEMMA BackedKept ==
  ASSUME TypeOK, NasHeld, Keeps, NEW c \in Frames, NEW p \in Files \cup {None}, Backed(c, p)
  PROVE  Backed(c, p)'
<1>1. CASE Safe(c)
  BY <1>1 DEF Keeps, Backed
<1>2. CASE p \in Files /\ nas[p] = c
  <2>1. nas'[p] = c \/ Safe(c)'
    BY <1>2 DEF Keeps
  <2> QED
    BY <1>2, <2>1, FramesAssumption DEF Backed
<1> QED
  BY <1>1, <1>2 DEF Backed

(* RigHeld is about the rig's disk, the rows and the collector's tasks alone. *)
LEMMA RigFrame ==
  ASSUME RigHeld, UNCHANGED <<rigVars, row, batch, col>>
  PROVE  RigHeld'
BY DEF RigHeld, rigVars

(* NasHeld outlasts a step that leaves the NAS alone. *)
LEMMA NasFrame ==
  ASSUME TypeOK, NasHeld, Keeps, UNCHANGED nas
  PROVE  NasHeld'
BY FramesAssumption DEF TypeOK, NasHeld, Keeps

(* S3Held outlasts a step that leaves S3 alone. *)
LEMMA S3Frame ==
  ASSUME TypeOK, S3Held, Keeps, UNCHANGED s3
  PROVE  S3Held'
BY FramesAssumption DEF TypeOK, S3Held, Keeps

(* SpoolHeld outlasts a step that leaves the spool alone. *)
LEMMA SpoolFrame ==
  ASSUME SpoolHeld, Keeps, UNCHANGED spool
  PROVE  SpoolHeld'
BY DEF SpoolHeld, Keeps

(* CatalogHeld outlasts a step that leaves the NAS replicas alone. *)
LEMMA CatalogFrame ==
  ASSUME TypeOK, NasHeld, CatalogHeld, Keeps, UNCHANGED <<blobPath, nasRep, nasUri>>
  PROVE  CatalogHeld'
<1>1. \A c \in Contents : Named(c, blobPath[c])' /\ Named(c, nasUri[c])'
  BY FramesAssumption DEF TypeOK, CatalogHeld, Keeps, Named
<1>2. \A c \in Contents : nasRep[c] = "present" => Backed(c, nasUri[c])'
  <2> TAKE c \in Contents
  <2>1. ASSUME nasRep[c] = "present" PROVE Backed(c, nasUri[c])'
    <3>1. c \in Frames /\ nasUri[c] \in Files \cup {None} /\ Backed(c, nasUri[c])
      BY <2>1 DEF TypeOK, CatalogHeld, Named
    <3> DEFINE p == nasUri[c]
    <3>2. Backed(c, p)'
      BY <3>1, BackedKept
    <3> QED
      BY <3>1, <3>2
  <2> QED
    BY <2>1
<1>3. \A c \in Contents : nasRep[c] \in {"lost", "corrupt", "cleaned"} => Safe(c)'
  BY DEF TypeOK, CatalogHeld, Keeps, Named
<1>4. \A c \in Contents : (blobPath[c] # None <=> nasRep[c] # "none")'
  BY DEF CatalogHeld
<1> QED
  BY <1>1, <1>2, <1>3, <1>4 DEF CatalogHeld

(* A file's task stays sound while nobody touches its row, batch or task. *)
LEMMA TaskFrame ==
  ASSUME TypeOK, NasHeld, Keeps, NEW f \in Files, TaskHeld(f),
         row'[f] = row[f], col'[f] = col[f], f \in batch' => f \in batch
  PROVE  TaskHeld(f)'
<1>1. wrote[f] \in Frames => wrote'[f] = wrote[f]
  BY FramesAssumption DEF Keeps
<1>2. col[f] \in Tasks
  BY DEF TypeOK
<1>3. col[f].pc \in {"stored", "ingested"} => wrote'[col[f].path] = col[f].sha
  BY <1>2, FramesAssumption DEF Tasks, TaskHeld, Keeps
<1>4. ASSUME col[f].pc = "stored" PROVE Backed(col[f].sha, col[f].path)'
  <2>1. col[f].sha \in Frames /\ col[f].path \in Files \cup {None} /\ Backed(col[f].sha, col[f].path)
    BY <1>2, <1>4 DEF Tasks, TaskHeld
  <2> QED
    BY <2>1, BackedKept
<1> QED
  BY <1>1, <1>3, <1>4 DEF TaskHeld

(* An idle file only needs its row to be sound. *)
LEMMA TaskIdle ==
  ASSUME NEW f \in Files, col'[f] = IdleTask,
         row'[f].st = "collected" => row'[f].sha \in Frames /\ f \notin batch'
  PROVE  TaskHeld(f)'
BY DEF TaskHeld, IdleTask

(* CollectorHeld outlasts a step of another worker. *)
LEMMA CollectorFrame ==
  ASSUME TypeOK, NasHeld, CollectorHeld, Keeps, UNCHANGED <<row, batch, col>>
  PROVE  CollectorHeld'
BY TaskFrame DEF CollectorHeld

(* ReplicatorHeld outlasts a step of another worker. *)
LEMMA ReplicatorFrame ==
  ASSUME TypeOK, CatalogHeld, ReplicatorHeld, Keeps, UNCHANGED rp
  PROVE  ReplicatorHeld'
<1>1. Registered \subseteq Registered'
  BY DEF Registered, Keeps
<1>2. ASSUME rp.pc = "put", rp.from \notin {"spool", "cache"}
      PROVE  rp.from # None /\ wrote'[rp.from] = rp.cur
  <2>1. rp.from \in Files /\ wrote[rp.from] = rp.cur /\ rp.cur \in Registered
    BY <1>2 DEF TypeOK, Passes, ReplicatorHeld
  <2>2. rp.cur \in Frames
    BY <2>1 DEF Registered, CatalogHeld, Named
  <2> QED
    BY <2>1, <2>2, FramesAssumption DEF Keeps
<1> QED
  BY <1>1, <1>2 DEF ReplicatorHeld

(* CleanerHeld outlasts a step of another worker. *)
LEMMA CleanerFrame ==
  ASSUME TypeOK, CleanerHeld, Keeps, UNCHANGED cl
  PROVE  CleanerHeld'
<1>1. ASSUME NEW c, NEW p \in Files \cup {None}, Named(c, p)
      PROVE  Named(c, p)'
  BY <1>1, FramesAssumption DEF Named, Keeps
<1>2. \A k \in cl.plan : k.loc = "nas" => Named(k.sha, k.path)'
  <2> TAKE k \in cl.plan
  <2>1. k.path \in Files \cup {None}
    BY DEF TypeOK, Runs, Candidates
  <2> QED
    BY <1>1, <2>1 DEF CleanerHeld
<1>3. ASSUME cl.pc \in {"delete", "record"}, cl.cand.loc = "nas"
      PROVE  Named(cl.cand.sha, cl.cand.path)' /\ Safe(cl.cand.sha)' /\ blobPath'[cl.cand.sha] # None
  <2>1. /\ cl.cand.path \in Files \cup {None} /\ cl.cand.path # None
        /\ Named(cl.cand.sha, cl.cand.path) /\ Safe(cl.cand.sha)
        /\ cl.cand.sha \in Contents /\ blobPath[cl.cand.sha] # None
    BY <1>3 DEF CleanerHeld, Candidates
  <2>2. cl.cand.sha \in Frames
    BY <2>1 DEF Named
  <2> QED
    BY <1>1, <2>1, <2>2 DEF Keeps
<1> QED
  BY <1>2, <1>3 DEF CleanerHeld

(* ScrubHeld outlasts a step of another worker. *)
LEMMA ScrubFrame ==
  ASSUME TypeOK, NasHeld, ScrubHeld, Keeps, UNCHANGED sc
  PROVE  ScrubHeld'
<1>1. ASSUME sc.pc = "check" PROVE Backed(sc.sha, sc.uri)'
  <2>1. sc.sha \in Frames /\ sc.uri \in Files \cup {None} /\ Backed(sc.sha, sc.uri)
    BY <1>1 DEF TypeOK, Scrubs, ScrubHeld
  <2> QED
    BY <2>1, BackedKept
<1> QED
  BY <1>1 DEF TypeOK, ScrubHeld, Keeps, Contents

(* A step that moves no bytes and registers nothing keeps what must be kept. *)
LEMMA KeepsFrame ==
  ASSUME UNCHANGED <<wrote, hurt, blobPath, nas, s3>>
  PROVE  Keeps
BY DEF Keeps, Safe, S3Good

-----------------------------------------------------------------------------
(* N.I.N.A., the shares and the faults. *)

USE DEF IInv, rigVars, rowVars, blobVars, replicaVars, byteVars, colVars, histVars

(* The budgets of the environment stay numbers. *)
LEMMA Spend ==
  ASSUME NEW b \in Budgets
  PROVE  /\ [b EXCEPT !.faults = @ + 1] \in Budgets
         /\ [b EXCEPT !.crashes = @ + 1] \in Budgets
         /\ [b EXCEPT !.outages = @ + 1] \in Budgets
         /\ [b EXCEPT !.disturbs = @ + 1] \in Budgets
BY DEF Budgets

(* IInv is preserved: N.I.N.A. begins a file under a new name. *)
LEMMA NinaBeginInv ==
  ASSUME IInv, NEW f \in Files, NEW c \in Frames, NinaBegin(f, c) PROVE IInv' /\ Keeps
<1> USE DEF NinaBegin
<1>1. /\ rig' \in [Files -> Contents \cup {None}] /\ open' \subseteq Files
      /\ wrote' \in [Files -> Frames \cup {None}]
  BY DEF TypeOK, Contents
<1>2. TypeOK'
  BY <1>1 DEF TypeOK
<1>3. Keeps
  BY DEF TypeOK, Keeps, Safe, S3Good
<1>4. RigHeld'
  BY FramesAssumption DEF TypeOK, RigHeld
<1> QED
  BY <1>2, <1>3, <1>4, NasFrame, S3Frame, SpoolFrame, CatalogFrame, CollectorFrame, ReplicatorFrame, CleanerFrame, ScrubFrame

(* IInv is preserved: a frame is complete. *)
LEMMA NinaFinishInv ==
  ASSUME IInv, NEW f \in Files, NinaFinish(f) PROVE IInv' /\ Keeps
<1> USE DEF NinaFinish
<1>1. rig' \in [Files -> Contents \cup {None}] /\ open' \subseteq Files
  BY DEF TypeOK, Contents
<1>2. TypeOK'
  BY <1>1 DEF TypeOK
<1>3. Keeps
  BY KeepsFrame
<1>4. RigHeld'
  BY FramesAssumption DEF TypeOK, RigHeld
<1> QED
  BY <1>2, <1>3, <1>4, NasFrame, S3Frame, SpoolFrame, CatalogFrame, CollectorFrame, ReplicatorFrame, CleanerFrame, ScrubFrame

(* IInv is preserved: a write never completes. *)
LEMMA NinaAbortInv ==
  ASSUME IInv, NEW f \in Files, NinaAbort(f) PROVE IInv' /\ Keeps
<1> USE DEF NinaAbort, Disturb
<1>1. TypeOK'
  BY Spend DEF TypeOK
<1>2. Keeps
  BY KeepsFrame
<1>3. RigHeld'
  BY DEF RigHeld
<1> QED
  BY <1>1, <1>2, <1>3, NasFrame, S3Frame, SpoolFrame, CatalogFrame, CollectorFrame, ReplicatorFrame, CleanerFrame, ScrubFrame

(* IInv is preserved: a plug-in opens a frame again. *)
LEMMA NinaReopenInv ==
  ASSUME IInv, NEW f \in Files, NinaReopen(f) PROVE IInv' /\ Keeps
<1> USE DEF NinaReopen, Disturb
<1>1. rig' \in [Files -> Contents \cup {None}] /\ open' \subseteq Files
  BY DEF TypeOK, Contents
<1>2. TypeOK'
  BY <1>1, Spend DEF TypeOK
<1>3. Keeps
  BY KeepsFrame
<1>4. RigHeld'
  BY FramesAssumption DEF TypeOK, RigHeld
<1> QED
  BY <1>2, <1>3, <1>4, NasFrame, S3Frame, SpoolFrame, CatalogFrame, CollectorFrame, ReplicatorFrame, CleanerFrame, ScrubFrame

(* IInv is preserved: a frame is moved on the rig. *)
LEMMA RigMoveInv ==
  ASSUME IInv, NEW f \in Files, NEW g \in Files, RigMove(f, g) PROVE IInv' /\ Keeps
<1> USE DEF RigMove, Disturb
<1>1. /\ rig' \in [Files -> Contents \cup {None}] /\ wrote' \in [Files -> Frames \cup {None}]
      /\ budget' \in Budgets
  BY Spend DEF TypeOK, Contents
<1>2. TypeOK'
  BY <1>1 DEF TypeOK
<1>3. Keeps
  BY DEF TypeOK, Keeps, Safe, S3Good
<1>4. RigHeld'
  BY FramesAssumption DEF TypeOK, RigHeld
<1> QED
  BY <1>2, <1>3, <1>4, NasFrame, S3Frame, SpoolFrame, CatalogFrame, CollectorFrame, ReplicatorFrame, CleanerFrame, ScrubFrame

(* IInv is preserved when a share goes away or comes back. *)
LEMMA ShareInv ==
  ASSUME IInv, NEW s \in {"rig", "nas"}, ShareDown(s) \/ ShareUp(s) PROVE IInv' /\ Keeps
<1> USE DEF ShareDown, ShareUp
<1>1. budget' \in Budgets
  BY Spend DEF TypeOK
<1>2. TypeOK'
  BY <1>1 DEF TypeOK
<1>3. Keeps
  BY KeepsFrame
<1> QED
  BY <1>2, <1>3, RigFrame, NasFrame, S3Frame, SpoolFrame, CatalogFrame, CollectorFrame, ReplicatorFrame, CleanerFrame, ScrubFrame

(* IInv is preserved: a rig original rots. *)
LEMMA RotRigInv ==
  ASSUME IInv, NEW f \in Files, RotRig(f) PROVE IInv' /\ Keeps
<1> USE DEF RotRig, Fault
<1>1. TypeOK'
  BY Spend DEF TypeOK
<1>2. Keeps
  BY KeepsFrame
<1>3. RigHeld'
  BY FramesAssumption DEF TypeOK, RigHeld, CollectorHeld, TaskHeld
<1> QED
  BY <1>1, <1>2, <1>3, NasFrame, S3Frame, SpoolFrame, CatalogFrame, CollectorFrame, ReplicatorFrame, CleanerFrame, ScrubFrame

(* IInv is preserved: a person deletes a rig file. *)
LEMMA UserDeleteInv ==
  ASSUME IInv, NEW f \in Files, UserDelete(f) PROVE IInv' /\ Keeps
<1> USE DEF UserDelete, Fault
<1>1. /\ rig' \in [Files -> Contents \cup {None}]
      /\ budget' \in Budgets
  BY Spend DEF TypeOK, Contents
<1>2. TypeOK'
  BY <1>1 DEF TypeOK
<1>3. Keeps
  BY KeepsFrame
<1>4. RigHeld'
  BY FramesAssumption DEF TypeOK, RigHeld
<1> QED
  BY <1>2, <1>3, <1>4, NasFrame, S3Frame, SpoolFrame, CatalogFrame, CollectorFrame, ReplicatorFrame, CleanerFrame, ScrubFrame

(* IInv is preserved: a spooled file rots. *)
LEMMA RotSpoolInv ==
  ASSUME IInv, NEW c \in Contents, RotSpool(c) PROVE IInv' /\ Keeps
<1> USE DEF RotSpool, Fault
<1>1. /\ spool' \in [Contents -> {"none", "good", "bad"}] /\ hurt' \subseteq Contents
      /\ budget' \in Budgets
  BY Spend DEF TypeOK
<1>2. TypeOK'
  BY <1>1 DEF TypeOK
<1>3. Keeps
  BY DEF Keeps, Safe, S3Good
<1>4. SpoolHeld'
  BY DEF TypeOK, SpoolHeld
<1> QED
  BY <1>2, <1>3, <1>4, RigFrame, NasFrame, S3Frame, CatalogFrame, CollectorFrame, ReplicatorFrame, CleanerFrame, ScrubFrame

(* IInv is preserved: a NAS file rots or is lost. *)
LEMMA HurtNasInv ==
  ASSUME IInv, NEW p \in Files, RotNas(p) \/ LoseNas(p) PROVE IInv' /\ Keeps
<1>1. PICK bytes \in {None, Garbled} : HurtNas(p, bytes)
  BY DEF RotNas, LoseNas
<1>2. wrote[p] \in Frames
  BY <1>1 DEF HurtNas, NasHeld
<1>3. /\ nas' \in [Files -> Contents \cup {None}] /\ hurt' \subseteq Contents
      /\ budget' \in Budgets
  <2>1. nas' \in [Files -> Contents \cup {None}]
    BY <1>1 DEF TypeOK, HurtNas, Contents
  <2>2. hurt' \subseteq Contents
    BY <1>1, <1>2 DEF TypeOK, HurtNas, Contents
  <2>3. budget' \in Budgets
    BY Spend DEF TypeOK, RotNas, LoseNas, Fault
  <2> QED
    BY <2>1, <2>2, <2>3
<1>4. TypeOK'
  BY <1>1, <1>3 DEF TypeOK, HurtNas
<1>5. Keeps
  BY <1>1, FramesAssumption DEF HurtNas, TypeOK, NasHeld, Keeps, Safe, S3Good
<1>6. NasHeld'
  BY <1>1, <1>2 DEF HurtNas, TypeOK, NasHeld
<1> QED
  BY <1>1, <1>4, <1>5, <1>6, RigFrame, S3Frame, SpoolFrame, CatalogFrame, CollectorFrame, ReplicatorFrame, CleanerFrame, ScrubFrame DEF HurtNas

(* IInv is preserved: an S3 object is lost. *)
LEMMA LoseS3Inv ==
  ASSUME IInv, NEW p \in Files, LoseS3(p) PROVE IInv' /\ Keeps
<1> USE DEF LoseS3, Fault
<1>1. s3[p].meta = wrote[p] /\ wrote[p] \in Frames
  BY DEF S3Held
<1>2. s3' \in [Files -> Objects]
  BY DEF TypeOK, Objects, NoObject
<1>3. TypeOK'
  BY <1>1, <1>2, Spend DEF TypeOK, Contents
<1>4. ASSUME NEW c \in Frames, Safe(c) PROVE Safe(c)'
  BY <1>1, <1>4, FramesAssumption DEF TypeOK, S3Held, Safe, S3Good
<1>5. Keeps
  BY <1>4 DEF Keeps
<1>6. S3Held'
  BY DEF TypeOK, S3Held
<1> QED
  BY <1>3, <1>5, <1>6, RigFrame, NasFrame, SpoolFrame, CatalogFrame, CollectorFrame, ReplicatorFrame, CleanerFrame, ScrubFrame

(* IInv is preserved: altaird dies: the idle workers claim nothing. *)
LEMMA CrashInv ==
  ASSUME IInv, Crash PROVE IInv' /\ Keeps
<1> USE DEF Crash, IdleTask, IdlePass, IdleRun, IdleScrub, NoCand
<1>1. col' \in [Files -> Tasks] /\ budget' \in Budgets
  BY Spend DEF TypeOK, Tasks
<1>2. rp' \in Passes /\ cl' \in Runs /\ sc' \in Scrubs
  BY DEF Passes, Runs, Scrubs, Candidates
<1>3. TypeOK'
  BY <1>1, <1>2 DEF TypeOK
<1>4. Keeps
  BY KeepsFrame
<1>5. RigHeld' /\ ReplicatorHeld' /\ CleanerHeld' /\ ScrubHeld'
  BY DEF TypeOK, RigHeld, ReplicatorHeld, CleanerHeld, ScrubHeld
<1>6. CollectorHeld'
  BY TaskIdle DEF CollectorHeld, TaskHeld
<1> QED
  BY <1>3, <1>4, <1>5, <1>6, NasFrame, S3Frame, SpoolFrame, CatalogFrame

-----------------------------------------------------------------------------
(* The collector. *)

(* A row given a known state is a row. *)
LEMMA RowSt ==
  ASSUME NEW r \in Rows, NEW s \in RowStates
  PROVE  [r EXCEPT !.st = s] \in Rows /\ [r EXCEPT !.st = s].st = s
BY DEF Rows

(* A row given a known state, stamp or hash is a row. *)
LEMMA RowStamp ==
  ASSUME NEW r \in Rows, NEW s \in RowStates, NEW x \in Contents \cup {None}
  PROVE  /\ [r EXCEPT !.stamp = x] \in Rows
         /\ [r EXCEPT !.st = s, !.stamp = x] \in Rows /\ [r EXCEPT !.st = s, !.sha = x] \in Rows
         /\ [r EXCEPT !.st = s, !.sha = x].sha = x
BY DEF Rows

(* IInv is preserved: a poll scans the rig. *)
LEMMA ScanInv ==
  ASSUME IInv, Scan PROVE IInv' /\ Keeps
<1> USE DEF Scan
<1>0. ASSUME NEW f \in Files
      PROVE  \/ rig[f] # None /\ row'[f] = [row[f] EXCEPT !.st = "seen", !.stamp = rig[f]]
             \/ rig[f] # None /\ row'[f] = [row[f] EXCEPT !.stamp = rig[f]]
             \/ rig[f] = None /\ row'[f] = [row[f] EXCEPT !.st = "gone"]
             \/ row'[f] = row[f]
  OBVIOUS
<1>1. row' \in [Files -> Rows] /\ atRisk' \subseteq Files
  <2>1. ASSUME NEW f \in Files PROVE row'[f] \in Rows
    <3>1. row[f] \in Rows /\ rig[f] \in Contents \cup {None}
      BY DEF TypeOK
    <3>2. "seen" \in RowStates /\ "gone" \in RowStates
      BY DEF RowStates
    <3> QED
      BY <1>0, <3>1, <3>2, RowSt, RowStamp
  <2>2. row' = [f \in Files |-> row'[f]]
    OBVIOUS
  <2> QED
    BY <2>1, <2>2 DEF TypeOK
<1>2. /\ rigRep' \in [Contents -> {"none", "present", "missing", "corrupt"}]
      /\ seenAt' \in [Files -> Contents \cup {None}] /\ scanned' \in BOOLEAN
  BY DEF TypeOK
<1>3. TypeOK'
  BY <1>1, <1>2 DEF TypeOK
<1>4. Keeps
  BY KeepsFrame
<1>5. RigHeld'
  BY FramesAssumption DEF TypeOK, RigHeld, Waiting
<1>6. ASSUME NEW f \in Files PROVE TaskHeld(f)'
  <2>1. col'[f] = IdleTask /\ f \notin batch'
    BY DEF CollectorIdle
  <2>2. row[f] \in Rows
    BY DEF TypeOK
  <2>3. row'[f].st = "collected" => row[f].st = "collected" /\ row'[f].sha = row[f].sha
    BY <1>0, <2>2 DEF Rows
  <2> QED
    BY <2>1, <2>3, TaskIdle DEF CollectorHeld, TaskHeld
<1> QED
  BY <1>3, <1>4, <1>5, <1>6, NasFrame, S3Frame, SpoolFrame, CatalogFrame, ReplicatorFrame, CleanerFrame, ScrubFrame DEF CollectorHeld

(* IInv is preserved: a poll takes its batch. *)
LEMMA CollectStableInv ==
  ASSUME IInv, CollectStable PROVE IInv' /\ Keeps
<1> USE DEF CollectStable
<1>1. batch' \subseteq {f \in Files : row[f].st \in Waiting}
  OBVIOUS
<1>2. TypeOK'
  BY <1>1 DEF TypeOK
<1>3. Keeps
  BY KeepsFrame
<1>4. RigHeld'
  BY <1>1 DEF RigHeld, Waiting
<1>5. ASSUME NEW f \in Files PROVE TaskHeld(f)'
  <2>1. row'[f].st = "collected" => row'[f].sha \in Frames /\ f \notin batch'
    BY <1>1 DEF CollectorHeld, TaskHeld, Waiting
  <2> QED
    BY <2>1, TaskIdle DEF CollectorIdle
<1> QED
  BY <1>2, <1>3, <1>4, <1>5, NasFrame, S3Frame, SpoolFrame, CatalogFrame, ReplicatorFrame, CleanerFrame, ScrubFrame DEF CollectorHeld

(* A file whose collection fails: its row is stuck and its task is over. *)
LEMMA FailedHeld ==
  ASSUME TypeOK, RigHeld, NasHeld, CollectorHeld, Keeps,
         NEW f \in Files, f \in batch \/ col[f] # IdleTask,
         Failed(f), batch' = batch \/ batch' = batch \ {f}, UNCHANGED rigVars
  PROVE  /\ row' \in [Files -> Rows] /\ col' \in [Files -> Tasks]
         /\ RigHeld' /\ CollectorHeld'
<1> USE DEF Failed
<1>1. row' \in [Files -> Rows] /\ col' \in [Files -> Tasks]
  <2>1. row[f] \in Rows /\ "stuck" \in RowStates
    BY DEF TypeOK, RowStates
  <2>2. row' \in [Files -> Rows]
    BY <2>1, RowSt DEF TypeOK
  <2>3. col' \in [Files -> Tasks]
    BY DEF TypeOK, Tasks, IdleTask
  <2> QED
    BY <2>2, <2>3
<1>2. RigHeld'
  BY DEF TypeOK, RigHeld
<1>3. row'[f].st # "collected" /\ col'[f] = IdleTask
  BY DEF TypeOK, Rows
<1>4. ASSUME NEW g \in Files \ {f} PROVE TaskHeld(g)'
  BY TaskFrame DEF TypeOK, CollectorHeld
<1>5. CollectorHeld'
  BY <1>3, <1>4, TaskIdle DEF CollectorHeld
<1> QED
  BY <1>1, <1>2, <1>5

(* IInv is preserved: the first checks of a file. *)
LEMMA CollectCheckInv ==
  ASSUME IInv, NEW f \in Files, CollectCheck(f) PROVE IInv' /\ Keeps
<1>1. Keeps
  BY KeepsFrame DEF CollectCheck
<1>2. TypeOK' /\ RigHeld' /\ CollectorHeld'
  <2>1. CASE UNCHANGED <<row, col>>
    BY <1>1, <2>1, TaskFrame DEF CollectCheck, TypeOK, RigHeld, CollectorHeld
  <2>2. CASE Failed(f)
    BY <1>1, <2>2, FailedHeld DEF CollectCheck, TypeOK
  <2>3. CASE /\ OnRig(f) /\ rig[f] = row[f].stamp /\ f \notin open /\ rig[f] # Partial
             /\ col' = [col EXCEPT ![f].pc = "checked"] /\ UNCHANGED row
    <3>1. rig[f] = wrote[f] /\ wrote[f] \in Frames
      BY <2>3 DEF OnRig, TypeOK, RigHeld
    <3>2. col[f] = IdleTask /\ f \notin rigRot /\ row[f].st # "collected"
      BY DEF CollectCheck, RigHeld, CollectorHeld, TaskHeld
    <3>3. col' \in [Files -> Tasks]
      BY <2>3 DEF TypeOK, Tasks
    <3>4. TypeOK'
      BY <2>3, <3>3 DEF CollectCheck, TypeOK
    <3>5. RigHeld'
      BY <2>3, <3>2 DEF CollectCheck, TypeOK, RigHeld
    <3>6. col'[f].pc = "checked"
      BY <2>3 DEF TypeOK, Tasks
    <3>7. TaskHeld(f)'
      BY <2>3, <3>1, <3>2, <3>6 DEF CollectCheck, TaskHeld
    <3>8. ASSUME NEW g \in Files \ {f} PROVE TaskHeld(g)'
      BY <1>1, <2>3, TaskFrame DEF CollectCheck, TypeOK, CollectorHeld
    <3> QED
      BY <3>4, <3>5, <3>7, <3>8 DEF CollectorHeld
  <2> QED
    BY <2>1, <2>2, <2>3 DEF CollectCheck
<1> QED
  BY <1>1, <1>2, NasFrame, S3Frame, SpoolFrame, CatalogFrame, ReplicatorFrame, CleanerFrame, ScrubFrame DEF CollectCheck

(* IInv is preserved: the copy to the spool. *)
LEMMA CollectReadInv ==
  ASSUME IInv, NEW f \in Files, CollectRead(f) PROVE IInv' /\ Keeps
<1>1. Keeps
  BY KeepsFrame DEF CollectRead
<1>2. budget' \in Budgets
  BY Spend DEF CollectRead, Disturb, TypeOK
<1>3. TypeOK' /\ RigHeld' /\ CollectorHeld'
  <2>1. CASE Failed(f)
    <3>1. col[f] # IdleTask
      BY DEF CollectRead, IdleTask
    <3> QED
      BY <1>1, <1>2, <2>1, <3>1, FailedHeld DEF CollectRead, TypeOK
  <2>2. ASSUME NEW c \in Contents, col' = [col EXCEPT ![f].pc = "copied", ![f].sha = c], UNCHANGED row
        PROVE  TypeOK' /\ RigHeld' /\ CollectorHeld'
    <3>1. /\ f \notin rigRot /\ f \notin batch /\ row[f].st # "collected"
          /\ row[f].stamp = wrote[f] /\ wrote[f] \in Frames
      BY DEF CollectRead, RigHeld, CollectorHeld, TaskHeld, IdleTask
    <3>2. col' \in [Files -> Tasks] /\ col'[f].pc = "copied" /\ col'[f].sha = c
      <4> DEFINE t == [col[f] EXCEPT !.pc = "copied", !.sha = c]
      <4>1. col[f] \in Tasks
        BY DEF TypeOK
      <4>2. t \in Tasks /\ t.pc = "copied" /\ t.sha = c
        BY <4>1 DEF Tasks
      <4>3. col' = [col EXCEPT ![f] = t]
        BY <2>2 DEF TypeOK
      <4> HIDE DEF t
      <4> QED
        BY <4>2, <4>3 DEF TypeOK
    <3>3. TypeOK'
      BY <1>2, <2>2, <3>2 DEF CollectRead, TypeOK
    <3>4. RigHeld'
      BY <2>2, <3>1 DEF CollectRead, TypeOK, RigHeld
    <3>5. c # None
      BY FramesAssumption DEF Contents
    <3>6. TaskHeld(f)'
      BY <2>2, <3>1, <3>2, <3>5 DEF CollectRead, TaskHeld
    <3>7. ASSUME NEW g \in Files \ {f} PROVE TaskHeld(g)'
      BY <1>1, <2>2, TaskFrame DEF CollectRead, TypeOK, CollectorHeld
    <3> QED
      BY <3>3, <3>4, <3>6, <3>7 DEF CollectorHeld
  <2>3. OnRig(f) => RigRead(f) \in Contents
    BY DEF OnRig, RigRead, TypeOK, Contents
  <2> QED
    BY <2>1, <2>2, <2>3 DEF CollectRead, Contents
<1> QED
  BY <1>1, <1>3, NasFrame, S3Frame, SpoolFrame, CatalogFrame, ReplicatorFrame, CleanerFrame, ScrubFrame DEF CollectRead

(* IInv is preserved: the second read. *)
LEMMA CollectVerifyInv ==
  ASSUME IInv, NEW f \in Files, CollectVerify(f) PROVE IInv' /\ Keeps
<1>1. Keeps
  BY KeepsFrame DEF CollectVerify
<1>2. /\ f \notin rigRot /\ f \notin batch /\ row[f].st # "collected" /\ col[f] # IdleTask
      /\ row[f].stamp = wrote[f] /\ wrote[f] \in Frames
  BY DEF CollectVerify, RigHeld, CollectorHeld, TaskHeld, IdleTask
<1>3. TypeOK' /\ RigHeld' /\ CollectorHeld' /\ SpoolHeld'
  <2>1. CASE ~SecondReadMatches(f)
    BY <1>1, <1>2, <2>1, FailedHeld, SpoolFrame DEF CollectVerify, TypeOK
  <2>2. CASE SecondReadMatches(f)
    <3>1. col[f].sha = wrote[f]
      BY <1>2, <2>2 DEF SecondReadMatches, RigRead
    <3>2. col' \in [Files -> Tasks] /\ col'[f].pc = "spooled" /\ col'[f].sha = wrote[f]
      BY <2>2, <3>1 DEF CollectVerify, TypeOK, Tasks
    <3>3. spool' \in [Contents -> {"none", "good", "bad"}]
      BY <2>2 DEF CollectVerify, TypeOK
    <3>4. TypeOK'
      BY <2>2, <3>2, <3>3 DEF CollectVerify, TypeOK
    <3>5. RigHeld' /\ SpoolHeld'
      BY <1>2, <2>2 DEF CollectVerify, TypeOK, RigHeld, SpoolHeld
    <3>6. TaskHeld(f)'
      BY <1>2, <2>2, <3>2, FramesAssumption DEF CollectVerify, TaskHeld
    <3>7. ASSUME NEW g \in Files \ {f} PROVE TaskHeld(g)'
      BY <1>1, <2>2, TaskFrame DEF CollectVerify, TypeOK, CollectorHeld
    <3> QED
      BY <3>4, <3>5, <3>6, <3>7 DEF CollectorHeld
  <2> QED
    BY <2>1, <2>2
<1> QED
  BY <1>1, <1>3, NasFrame, S3Frame, CatalogFrame, ReplicatorFrame, CleanerFrame, ScrubFrame DEF CollectVerify

(* The safe write: the path only ever receives the frame that names it. *)
LEMMA NasWriteHeld ==
  ASSUME TypeOK, NasHeld, NEW p \in Files, NEW c \in Frames, wrote[p] = c,
         nas[p] \in {None, c}, nas' = [nas EXCEPT ![p] = c],
         UNCHANGED <<wrote, hurt, blobPath, s3>>
  PROVE  Keeps /\ NasHeld' /\ nas' \in [Files -> Contents \cup {None}]
<1>1. Keeps
  BY FramesAssumption DEF TypeOK, Keeps, Safe, S3Good
<1> QED
  BY <1>1 DEF TypeOK, NasHeld, Contents

(* IInv is preserved: the safe write to the NAS. *)
LEMMA StoreNasInv ==
  ASSUME IInv, NEW f \in Files, StoreNas(f) PROVE IInv' /\ Keeps
<1> DEFINE c == col[f].sha
           p == IF blobPath[c] # None THEN blobPath[c] ELSE f
<1>1. /\ f \notin rigRot /\ f \notin batch /\ row[f].st # "collected" /\ col[f] # IdleTask
      /\ c = wrote[f] /\ c \in Frames
  BY DEF StoreNas, RigHeld, CollectorHeld, TaskHeld, IdleTask
<1>2. p \in Files /\ wrote[p] = c
  BY <1>1 DEF TypeOK, CatalogHeld, Named, Contents
<1>3. CASE spool[c] # "none" /\ NasAccepts(p, c, spool[c])
  <2>1. /\ nas' = [nas EXCEPT ![p] = c] /\ nas[p] \in {None, c} /\ UNCHANGED row
        /\ col' = [col EXCEPT ![f].pc = "stored", ![f].path = p]
    BY <1>3 DEF StoreNas, NasAccepts
  <2>2. Keeps /\ NasHeld' /\ nas' \in [Files -> Contents \cup {None}]
    BY <1>1, <1>2, <2>1, NasWriteHeld DEF StoreNas
  <2>3. /\ col' \in [Files -> Tasks]
        /\ col'[f].pc = "stored" /\ col'[f].path = p /\ col'[f].sha = c
    <3> DEFINE t == [col[f] EXCEPT !.pc = "stored", !.path = p]
    <3>1. col[f] \in Tasks
      BY DEF TypeOK
    <3>2. t \in Tasks /\ t.pc = "stored" /\ t.path = p /\ t.sha = c
      BY <1>2, <3>1 DEF Tasks
    <3>3. col' = [col EXCEPT ![f] = t]
      BY <2>1 DEF TypeOK
    <3> HIDE DEF t
    <3> QED
      BY <3>2, <3>3 DEF TypeOK
  <2>4. TypeOK'
    BY <2>1, <2>2, <2>3 DEF StoreNas, TypeOK
  <2>5. RigHeld'
    BY <1>1, <2>1 DEF StoreNas, TypeOK, RigHeld
  <2>6. nas'[p] = c /\ wrote'[p] = c /\ wrote'[f] = c
    BY <1>1, <1>2, <2>1 DEF StoreNas, TypeOK
  <2>7. TaskHeld(f)'
    BY <1>1, <1>2, <2>1, <2>3, <2>6, FramesAssumption DEF StoreNas, TaskHeld, Backed
  <2>8. ASSUME NEW g \in Files \ {f} PROVE TaskHeld(g)'
    BY <2>1, <2>2, TaskFrame DEF StoreNas, TypeOK, CollectorHeld
  <2>9. CollectorHeld'
    BY <2>7, <2>8 DEF CollectorHeld
  <2> QED
    BY <2>2, <2>4, <2>5, <2>9, S3Frame, SpoolFrame, CatalogFrame, ReplicatorFrame, CleanerFrame, ScrubFrame DEF StoreNas
<1>4. CASE ~(spool[c] # "none" /\ NasAccepts(p, c, spool[c]))
  <2>1. Failed(f) /\ UNCHANGED nas
    BY <1>4 DEF StoreNas
  <2>2. Keeps
    BY <2>1, KeepsFrame DEF StoreNas
  <2>3. TypeOK' /\ RigHeld' /\ CollectorHeld'
    BY <1>1, <2>1, <2>2, FailedHeld DEF StoreNas, TypeOK
  <2> QED
    BY <2>1, <2>2, <2>3, NasFrame, S3Frame, SpoolFrame, CatalogFrame, ReplicatorFrame, CleanerFrame, ScrubFrame DEF StoreNas
<1> QED
  BY <1>3, <1>4

(* IInv is preserved: the ingest transaction. *)
LEMMA IngestInv ==
  ASSUME IInv, NEW f \in Files, Ingest(f) PROVE IInv' /\ Keeps
<1> DEFINE c == col[f].sha
           p == col[f].path
<1>1. /\ f \notin rigRot /\ f \notin batch /\ row[f].st # "collected" /\ col[f] # IdleTask
      /\ c = wrote[f] /\ c \in Frames /\ p \in Files /\ wrote[p] = c /\ Backed(c, p)
  BY DEF Ingest, RigHeld, CollectorHeld, TaskHeld, IdleTask, TypeOK, Tasks
<1>2. /\ blobPath' = [blobPath EXCEPT ![c] = IF c \in Registered THEN @ ELSE p]
      /\ nasRep' = [nasRep EXCEPT ![c] = "present"] /\ nasUri' = [nasUri EXCEPT ![c] = p]
      /\ col' = [col EXCEPT ![f].pc = "ingested"]
      /\ UNCHANGED <<rigVars, row, batch, hurt, nas, s3>>
  BY DEF Ingest, TypeOK
<1>3. /\ blobPath' \in [Contents -> Files \cup {None}]
      /\ nasRep' \in [Contents -> {"none", "present", "lost", "cleaned", "corrupt"}]
      /\ nasUri' \in [Contents -> Files \cup {None}]
  BY <1>1, <1>2 DEF TypeOK
<1>4. /\ age' \in [Contents -> Nat]
      /\ rigRep' \in [Contents -> {"none", "present", "missing", "corrupt"}]
      /\ rigUri' \in [Contents -> Files \cup {None}]
  <2>1. Registered \subseteq Frames
    BY DEF Registered, CatalogHeld, Named
  <2>2. Cardinality(Registered) \in Nat
    BY <2>1, FramesAssumption, FS_Subset, FS_CardinalityType
  <2>3. 1 + Cardinality(Registered) \in Nat
    BY <2>2
  <2>4. age' \in [Contents -> Nat]
    <3>1. age' \in {age, [age EXCEPT ![c] = 1 + Cardinality(Registered)]}
      BY DEF Ingest
    <3> QED
      BY <2>3, <3>1 DEF TypeOK
  <2> QED
    BY <1>1, <2>4 DEF Ingest, TypeOK
<1>5. col' \in [Files -> Tasks] /\ col'[f].pc = "ingested" /\ col'[f].sha = c /\ col'[f].path = p
  BY <1>2 DEF TypeOK, Tasks
<1>6. TypeOK'
  BY <1>3, <1>4, <1>5 DEF Ingest, TypeOK
<1>7. Keeps
  BY <1>2 DEF TypeOK, Registered, Keeps, Safe, S3Good
<1>8. CatalogHeld'
  <2>1. \A d \in Contents : Named(d, blobPath[d])' /\ Named(d, nasUri[d])'
    BY <1>1, <1>2 DEF TypeOK, CatalogHeld, Named
  <2>2. \A d \in Contents : (blobPath[d] # None <=> nasRep[d] # "none")'
    BY <1>1, <1>2, FramesAssumption DEF TypeOK, CatalogHeld, Registered
  <2>3. \A d \in Contents : nasRep'[d] = "present" => Backed(d, nasUri[d])'
    BY <1>1, <1>2 DEF TypeOK, CatalogHeld, Backed, Safe, S3Good
  <2>4. \A d \in Contents : nasRep'[d] \in {"lost", "corrupt", "cleaned"} => Safe(d)'
    BY <1>2 DEF TypeOK, CatalogHeld, Safe, S3Good
  <2> QED
    BY <2>1, <2>2, <2>3, <2>4 DEF CatalogHeld
<1>9. TaskHeld(f)'
  BY <1>1, <1>2, <1>5, FramesAssumption DEF TaskHeld
<1>10. ASSUME NEW g \in Files \ {f} PROVE TaskHeld(g)'
  BY <1>2, <1>7, TaskFrame DEF TypeOK, CollectorHeld
<1>11. RigHeld'
  BY <1>1, <1>2 DEF TypeOK, RigHeld
<1> QED
  BY <1>2, <1>6, <1>7, <1>8, <1>9, <1>10, <1>11, NasFrame, S3Frame, SpoolFrame, ReplicatorFrame, CleanerFrame, ScrubFrame DEF Ingest, CollectorHeld

(* IInv is preserved: the row of a collected file. *)
LEMMA CommitInv ==
  ASSUME IInv, NEW f \in Files, Commit(f) PROVE IInv' /\ Keeps
<1> DEFINE c == col[f].sha
           r == [row[f] EXCEPT !.st = "collected", !.sha = c]
<1>1. f \notin rigRot /\ f \notin batch /\ c \in Frames
  BY DEF Commit, RigHeld, CollectorHeld, TaskHeld, IdleTask
<1>2. r \in Rows /\ r.sha = c
  <2>1. row[f] \in Rows /\ "collected" \in RowStates /\ c \in Contents \cup {None}
    BY <1>1 DEF TypeOK, RowStates, Contents
  <2> QED
    BY <2>1 DEF Rows
<1>3. row' = [row EXCEPT ![f] = r]
  BY DEF Commit, TypeOK
<1> HIDE DEF r
<1>4. row' \in [Files -> Rows] /\ row'[f].sha = c
  BY <1>2, <1>3 DEF TypeOK
<1>5. col' \in [Files -> Tasks] /\ col'[f] = IdleTask
  BY DEF Commit, TypeOK, Tasks, IdleTask
<1>6. TypeOK'
  BY <1>1, <1>4, <1>5 DEF Commit, TypeOK, Contents
<1>7. Keeps
  BY KeepsFrame DEF Commit
<1>8. RigHeld'
  BY <1>1, <1>3 DEF Commit, TypeOK, RigHeld
<1>9. TaskHeld(f)'
  BY <1>1, <1>4, <1>5, TaskIdle DEF Commit
<1>10. ASSUME NEW g \in Files \ {f} PROVE TaskHeld(g)'
  BY <1>3, <1>7, TaskFrame DEF Commit, TypeOK, CollectorHeld
<1> QED
  BY <1>6, <1>7, <1>8, <1>9, <1>10, NasFrame, S3Frame, SpoolFrame, CatalogFrame, ReplicatorFrame, CleanerFrame, ScrubFrame DEF Commit, CollectorHeld

(* IInv is preserved: the operator excludes a file. *)
LEMMA ExcludeInv ==
  ASSUME IInv, NEW f \in Files, Exclude(f) PROVE IInv' /\ Keeps
<1> DEFINE r == [row[f] EXCEPT !.st = "excluded"]
<1>1. r \in Rows /\ r.st = "excluded" /\ r.stamp = row[f].stamp
  <2>1. row[f] \in Rows /\ "excluded" \in RowStates
    BY DEF TypeOK, RowStates
  <2> QED
    BY <2>1, RowSt DEF Rows
<1>2. row' = [row EXCEPT ![f] = r]
  BY DEF Exclude, TypeOK
<1> HIDE DEF r
<1>3. row' \in [Files -> Rows] /\ row'[f].st = "excluded" /\ row'[f].stamp = row[f].stamp
  BY <1>1, <1>2 DEF TypeOK
<1>4. TypeOK'
  BY <1>3, Spend DEF Exclude, Disturb, TypeOK
<1>5. Keeps
  BY KeepsFrame DEF Exclude
<1>6. RigHeld'
  BY <1>2, <1>3 DEF Exclude, TypeOK, RigHeld
<1>7. TaskHeld(f)'
  BY <1>3, <1>5 DEF Exclude, CollectorHeld, TaskHeld, Backed, Safe, S3Good
<1>8. ASSUME NEW g \in Files \ {f} PROVE TaskHeld(g)'
  BY <1>2, <1>5, TaskFrame DEF Exclude, TypeOK, CollectorHeld
<1> QED
  BY <1>4, <1>5, <1>6, <1>7, <1>8, NasFrame, S3Frame, SpoolFrame, CatalogFrame, ReplicatorFrame, CleanerFrame, ScrubFrame DEF Exclude, CollectorHeld

-----------------------------------------------------------------------------
(* The replicator. *)

(* IInv is preserved: a pass begins. *)
LEMMA ReplBeginInv ==
  ASSUME IInv, ReplBegin PROVE IInv' /\ Keeps
<1>1. rp' \in Passes /\ rp'.pc = "idle" /\ rp'.queue \subseteq Registered
  BY DEF ReplBegin, TypeOK, Passes, IdlePass, Pending, Registered
<1>2. TypeOK'
  BY <1>1 DEF ReplBegin, TypeOK
<1>3. Keeps
  BY KeepsFrame DEF ReplBegin
<1>4. ReplicatorHeld'
  BY <1>1 DEF ReplBegin, ReplicatorHeld, Registered
<1> QED
  BY <1>2, <1>3, <1>4, RigFrame, NasFrame, S3Frame, SpoolFrame, CatalogFrame, CollectorFrame, CleanerFrame, ScrubFrame DEF ReplBegin

(* IInv is preserved: the replicator picks a source. *)
LEMMA ReplPickInv ==
  ASSUME IInv, NEW c \in rp.queue, ReplPick(c) PROVE IInv' /\ Keeps
<1>1. c \in Registered /\ c \in Contents /\ rp.queue \subseteq Registered
  BY DEF TypeOK, Passes, ReplicatorHeld, Registered
<1>2. rp \in Passes /\ rp.pc = "idle"
  BY DEF ReplPick, TypeOK
<1>3. TypeOK' /\ ReplicatorHeld'
  <2>1. ASSUME NEW from \in Files \cup {"spool", "cache"},
               from \in Files => wrote[from] = c \/ from \in {"spool", "cache"},
               rp' = [rp EXCEPT !.pc = "put", !.cur = c, !.from = from]
        PROVE  TypeOK' /\ ReplicatorHeld'
    <3>1. rp' \in Passes /\ rp'.pc = "put" /\ rp'.queue = rp.queue /\ rp'.cur = c /\ rp'.from = from
      BY <1>1, <1>2, <2>1 DEF Passes
    <3>2. TypeOK'
      BY <3>1 DEF ReplPick, TypeOK
    <3>3. ReplicatorHeld'
      BY <1>1, <2>1, <3>1, FramesAssumption DEF ReplPick, ReplicatorHeld, Registered
    <3> QED
      BY <3>2, <3>3
  <2>2. CASE rp' = [rp EXCEPT !.queue = @ \ {c}]
    <3>1. rp' \in Passes /\ rp'.pc = "idle" /\ rp'.queue \subseteq Registered
      BY <1>1, <1>2, <2>2 DEF Passes
    <3> QED
      BY <3>1 DEF ReplPick, TypeOK, ReplicatorHeld, Registered
  <2>3. OnNas(nasUri[c]) => nasUri[c] \in Files /\ wrote[nasUri[c]] = c
    BY <1>1 DEF OnNas, TypeOK, CatalogHeld, Named
  <2>4. CASE rp' = [rp EXCEPT !.pc = "put", !.cur = c, !.from = "spool"]
    BY <2>1, <2>4
  <2>5. CASE rp' = [rp EXCEPT !.pc = "put", !.cur = c, !.from = "cache"]
    BY <2>1, <2>5
  <2>6. CASE OnNas(nasUri[c]) /\ rp' = [rp EXCEPT !.pc = "put", !.cur = c, !.from = nasUri[c]]
    BY <2>1, <2>3, <2>6
  <2> QED
    BY <2>2, <2>4, <2>5, <2>6 DEF ReplPick
<1>4. Keeps
  BY KeepsFrame DEF ReplPick
<1> QED
  BY <1>3, <1>4, RigFrame, NasFrame, S3Frame, SpoolFrame, CatalogFrame, CollectorFrame, CleanerFrame, ScrubFrame DEF ReplPick

(* Whatever is uploaded is the frame, unless a fault touched the source. *)
LEMMA SourceHeld ==
  ASSUME TypeOK, NasHeld, SpoolHeld, CatalogHeld, ReplicatorHeld, rp.pc = "put", Readable(rp.cur, rp.from)
  PROVE  \/ BytesOf(rp.cur, rp.from) = rp.cur
         \/ BytesOf(rp.cur, rp.from) = Garbled /\ rp.cur \in hurt
<1>1. rp.cur \in Frames /\ rp.cur \in Contents
  BY DEF ReplicatorHeld, CatalogHeld, Registered, Named
<1>2. CASE rp.from = "spool"
  BY <1>1, <1>2 DEF TypeOK, SpoolHeld, BytesOf, Readable
<1>3. CASE rp.from # "spool" /\ rp.from = "cache"
  BY <1>3 DEF BytesOf
<1>4. CASE rp.from # "spool" /\ rp.from # "cache"
  <2>1. rp.from \in Files /\ wrote[rp.from] = rp.cur /\ nas[rp.from] # None
    BY <1>4 DEF TypeOK, Passes, ReplicatorHeld, Readable, OnNas
  <2> QED
    BY <1>4, <2>1 DEF NasHeld, BytesOf
<1> QED
  BY <1>2, <1>3, <1>4

(* An upload under its own name, in place of nothing or of another upload. *)
LEMMA S3WriteHeld ==
  ASSUME TypeOK, S3Held, NEW p \in Files, NEW c \in Frames, NEW d \in {c, Garbled}, wrote[p] = c,
         d = c \/ (s3[p] = NoObject /\ c \in hurt),
         s3' = [s3 EXCEPT ![p] = [meta |-> c, data |-> d]], UNCHANGED <<wrote, hurt, blobPath, nas>>
  PROVE  Keeps /\ S3Held' /\ s3' \in [Files -> Objects]
<1>1. s3' \in [Files -> Objects]
  BY DEF TypeOK, Objects, Contents
<1>2. s3'[p] = [meta |-> c, data |-> d] /\ \A q \in Files \ {p} : s3'[q] = s3[q]
  BY DEF TypeOK
<1>3. S3Held'
  BY <1>2 DEF S3Held
<1>4. ASSUME NEW e \in Frames, Safe(e) PROVE Safe(e)'
  <2>1. CASE e \in hurt
    BY <2>1 DEF Safe
  <2>2. ASSUME NEW q \in Files, s3[q].data = e PROVE S3Good(e)'
    <3>1. q # p => s3'[q].data = e
      BY <1>2, <2>2
    <3>2. ASSUME q = p PROVE s3'[p].data = e
      <4>1. s3[p] # NoObject
        BY <2>2, <3>2, FramesAssumption DEF NoObject
      <4>2. e = c /\ d = c
        BY <2>2, <3>2, <4>1, FramesAssumption DEF S3Held
      <4> QED
        BY <1>2, <4>2
    <3> QED
      BY <3>1, <3>2 DEF S3Good
  <2> QED
    BY <1>4, <2>1, <2>2 DEF Safe, S3Good
<1>5. Keeps
  BY <1>4 DEF Keeps
<1> QED
  BY <1>1, <1>3, <1>5

(* IInv is preserved: the upload. *)
LEMMA ReplPutInv ==
  ASSUME IInv, ReplPut PROVE IInv' /\ Keeps
<1> DEFINE c == rp.cur
           key == blobPath[c]
           bytes == BytesOf(c, rp.from)
<1>1. c \in Registered /\ c \in Frames /\ key \in Files /\ wrote[key] = c
  BY DEF ReplPut, TypeOK, ReplicatorHeld, CatalogHeld, Registered, Named
<1>2. budget' \in Budgets
  BY Spend DEF ReplPut, TypeOK
<1>3. rp' \in Passes /\ rp'.queue \subseteq Registered /\ rp'.pc # "put" /\ (rp'.pc = "record" => rp'.cur = c)
  <2>1. rp \in Passes /\ rp.queue \subseteq Registered /\ c \in Contents
    BY <1>1 DEF TypeOK, ReplicatorHeld, Registered
  <2>2. CASE EndPass
    BY <2>2 DEF EndPass, IdlePass, Passes
  <2>3. CASE NextItem
    BY <2>1, <2>3 DEF NextItem, Passes
  <2>4. CASE rp' = [rp EXCEPT !.pc = "record"]
    BY <2>1, <2>4 DEF Passes
  <2> QED
    BY <2>2, <2>3, <2>4 DEF ReplPut
<1>4. ReplicatorHeld'
  BY <1>1, <1>3 DEF ReplPut, ReplicatorHeld, Registered
<1>5. Keeps /\ S3Held' /\ s3' \in [Files -> Objects]
  <2>1. CASE UNCHANGED s3
    <3>1. Keeps
      BY <2>1, KeepsFrame DEF ReplPut
    <3> QED
      BY <2>1, <3>1, S3Frame DEF TypeOK
  <2>2. CASE Readable(c, rp.from) /\ s3[key] = NoObject /\ s3' = [s3 EXCEPT ![key] = [meta |-> c, data |-> bytes]]
    <3>1. bytes = c \/ (bytes = Garbled /\ c \in hurt)
      BY <2>2, SourceHeld DEF ReplPut
    <3> HIDE DEF bytes
    <3> QED
      BY <1>1, <2>2, <3>1, S3WriteHeld DEF ReplPut
  <2> QED
    BY <2>1, <2>2 DEF ReplPut
<1>6. TypeOK'
  BY <1>2, <1>3, <1>5 DEF ReplPut, TypeOK
<1> QED
  BY <1>4, <1>5, <1>6, RigFrame, NasFrame, SpoolFrame, CatalogFrame, CollectorFrame, CleanerFrame, ScrubFrame DEF ReplPut

(* IInv is preserved: the S3 replica is recorded. *)
LEMMA ReplRecordInv ==
  ASSUME IInv, ReplRecord PROVE IInv' /\ Keeps
<1>1. rp' \in Passes /\ rp'.pc = "idle" /\ rp'.queue \subseteq Registered
  BY DEF ReplRecord, NextItem, TypeOK, Passes, ReplicatorHeld
<1>2. TypeOK'
  BY <1>1 DEF ReplRecord, TypeOK
<1>3. Keeps
  BY KeepsFrame DEF ReplRecord
<1>4. ReplicatorHeld'
  BY <1>1 DEF ReplRecord, ReplicatorHeld, Registered
<1> QED
  BY <1>2, <1>3, <1>4, RigFrame, NasFrame, S3Frame, SpoolFrame, CatalogFrame, CollectorFrame, CleanerFrame, ScrubFrame DEF ReplRecord

-----------------------------------------------------------------------------
(* The cleaner. *)

(* IInv is preserved: cleanup plans. *)
LEMMA CleanPlanInv ==
  ASSUME IInv, CleanPlan PROVE IInv' /\ Keeps
<1>1. ASSUME NEW k \in Eligible
      PROVE  /\ k \in Candidates
             /\ k.loc = "nas" => Named(k.sha, k.path)
             /\ k.loc = "rig" => k.path # None
  <2>1. CASE k \in [loc : {"spool"}, sha : {c \in spoolRow \cap Registered : /\ nasRep[c] = "present"
                                                                             /\ c \in Lights => s3Rep[c] = "present"}, path : {None}]
    BY <2>1 DEF TypeOK, Candidates
  <2>2. ASSUME NEW f \in Files, row[f].st = "collected", k = [loc |-> "rig", sha |-> row[f].sha, path |-> f]
        PROVE  k \in Candidates /\ k.loc = "rig" /\ k.path # None
    BY <2>2, FramesAssumption DEF CollectorHeld, TaskHeld, Candidates, Contents
  <2>3. ASSUME NEW c \in Registered, k = [loc |-> "nas", sha |-> c, path |-> nasUri[c]]
        PROVE  k \in Candidates /\ k.loc = "nas" /\ Named(k.sha, k.path)
    BY <2>3 DEF TypeOK, Registered, CatalogHeld, Candidates
  <2> QED
    BY <2>1, <2>2, <2>3 DEF Eligible
<1>2. cl.pc = "idle" /\ cl \in Runs
  BY DEF CleanPlan, IdleRun, TypeOK
<1>3. PICK plan \in SUBSET Eligible : cl' = [cl EXCEPT !.plan = plan]
  BY DEF CleanPlan
<1>4. plan \subseteq Candidates
  BY <1>1
<1>5. cl' \in Runs /\ cl'.pc = "idle" /\ cl'.plan = plan
  BY <1>2, <1>3, <1>4 DEF Runs
<1>6. TypeOK'
  BY <1>5 DEF CleanPlan, TypeOK
<1>7. Keeps
  BY KeepsFrame DEF CleanPlan
<1>8. CleanerHeld'
  BY <1>1, <1>5 DEF CleanPlan, CleanerHeld, Named
<1> QED
  BY <1>6, <1>7, <1>8, RigFrame, NasFrame, S3Frame, SpoolFrame, CatalogFrame, CollectorFrame, ReplicatorFrame, ScrubFrame DEF CleanPlan

(* A fresh HeadObject vouches for the frame unless a fault touched it. *)
LEMMA FreshSafe ==
  ASSUME TypeOK, S3Held, CatalogHeld, NEW c \in Contents, FreshS3(c)
  PROVE  Safe(c)
<1>1. blobPath[c] \in Files /\ s3[blobPath[c]].meta = c /\ c \in Frames
  BY DEF FreshS3, TypeOK, CatalogHeld, Named
<1>2. s3[blobPath[c]] # NoObject
  BY <1>1, FramesAssumption DEF NoObject
<1> QED
  BY <1>1, <1>2 DEF S3Held, Safe, S3Good

(* A replica marked anything but present belongs to a frame that is safe. *)
LEMMA MarkHeld ==
  ASSUME TypeOK, NasHeld, CatalogHeld, Keeps, NEW c \in Frames, Safe(c)', blobPath[c] # None,
         NEW s \in {"lost", "cleaned", "corrupt"}, nasRep' = [nasRep EXCEPT ![c] = s],
         UNCHANGED <<blobPath, nasUri, wrote>>
  PROVE  CatalogHeld' /\ nasRep' \in [Contents -> {"none", "present", "lost", "cleaned", "corrupt"}]
<1>1. nasRep' \in [Contents -> {"none", "present", "lost", "cleaned", "corrupt"}]
  BY DEF TypeOK
<1>2. c \in Contents /\ nasRep'[c] = s /\ \A d \in Contents \ {c} : nasRep'[d] = nasRep[d]
  BY DEF TypeOK, Contents
<1>3. \A d \in Contents : Named(d, blobPath[d])' /\ Named(d, nasUri[d])'
  BY DEF CatalogHeld, Named
<1>4. \A d \in Contents : (blobPath[d] # None <=> nasRep[d] # "none")'
  BY <1>2 DEF CatalogHeld
<1>5. ASSUME NEW d \in Contents, nasRep'[d] = "present" PROVE Backed(d, nasUri[d])'
  <2>1. nasRep[d] = "present"
    BY <1>2, <1>5
  <2>2. d \in Frames /\ nasUri[d] \in Files \cup {None} /\ Backed(d, nasUri[d])
    BY <2>1 DEF TypeOK, CatalogHeld, Named
  <2> QED
    BY <2>2, BackedKept
<1>6. ASSUME NEW d \in Contents, nasRep'[d] \in {"lost", "corrupt", "cleaned"} PROVE Safe(d)'
  <2>1. CASE d # c
    <3>1. d \in Frames /\ Safe(d)
      BY <1>2, <1>6, <2>1 DEF CatalogHeld, Named
    <3> QED
      BY <3>1 DEF Keeps
  <2> QED
    BY <2>1
<1> QED
  BY <1>1, <1>3, <1>4, <1>5, <1>6 DEF CatalogHeld

(* IInv is preserved: cleanup re-checks a candidate. *)
LEMMA CleanRecheckInv ==
  ASSUME IInv, NEW k \in cl.plan, CleanRecheck(k) PROVE IInv' /\ Keeps
<1>1. k \in Candidates /\ cl.plan \subseteq Candidates /\ cl \in Runs /\ cl.pc = "idle"
  BY DEF CleanRecheck, TypeOK, Runs
<1>2. k.sha \in Contents /\ k.path \in Files \cup {None}
  BY <1>1 DEF Candidates
<1>3. Keeps
  BY KeepsFrame DEF CleanRecheck
<1>4. CatalogHeld' /\ nasRep' \in [Contents -> {"none", "present", "lost", "cleaned", "corrupt"}]
  <2>1. CASE UNCHANGED nasRep
    BY <1>3, <2>1, CatalogFrame DEF CleanRecheck, TypeOK
  <2>2. CASE FoundCorrupt(k) /\ nasRep' = [nasRep EXCEPT ![k.sha] = "corrupt"]
    <3>1. FreshS3(k.sha)
      BY <2>2 DEF FoundCorrupt
    <3>2. Safe(k.sha) /\ blobPath[k.sha] # None /\ k.sha \in Frames
      BY <1>2, <3>1, FreshSafe DEF FreshS3, CatalogHeld, Named
    <3>3. Safe(k.sha)'
      BY <1>3, <3>2 DEF Keeps
    <3> QED
      BY <1>3, <2>2, <3>2, <3>3, MarkHeld DEF CleanRecheck
  <2> QED
    BY <2>1, <2>2 DEF CleanRecheck
<1>5. cl' \in Runs /\ CleanerHeld'
  <2>1. CASE cl' = [cl EXCEPT !.plan = @ \ {k}]
    <3>1. cl' \in Runs /\ cl'.pc = "idle" /\ cl'.plan \subseteq cl.plan
      BY <1>1, <2>1 DEF Runs
    <3> QED
      BY <3>1 DEF CleanRecheck, CleanerHeld, Named
  <2>2. CASE RecheckPasses(k) /\ cl' = [cl EXCEPT !.pc = "delete", !.cand = k]
    <3>1. cl' \in Runs /\ cl'.pc = "delete" /\ cl'.plan = cl.plan /\ cl'.cand = k
      BY <1>1, <2>2 DEF Runs
    <3>2. k.loc = "nas" => FreshS3(k.sha) /\ OnNas(k.path)
      BY <2>2 DEF RecheckPasses
    <3>3. k.loc = "nas" => /\ k.path # None /\ Named(k.sha, k.path)
                           /\ Safe(k.sha) /\ blobPath[k.sha] # None
      BY <1>2, <3>2, FreshSafe DEF FreshS3, OnNas, CleanerHeld
    <3>4. (\A c \in {k.sha} : Safe(c) => Safe(c)') /\ UNCHANGED <<wrote, blobPath>>
      BY DEF CleanRecheck, Safe, S3Good
    <3> QED
      BY <1>1, <3>1, <3>3, <3>4 DEF CleanRecheck, CleanerHeld, Named
  <2> QED
    BY <2>1, <2>2 DEF CleanRecheck
<1>6. TypeOK'
  BY <1>4, <1>5 DEF CleanRecheck, TypeOK
<1> QED
  BY <1>3, <1>4, <1>5, <1>6, RigFrame, NasFrame, S3Frame, SpoolFrame, CollectorFrame, ReplicatorFrame, ScrubFrame DEF CleanRecheck

(* A NAS copy of a frame that is safe may go. *)
LEMMA NasRemoveHeld ==
  ASSUME TypeOK, NasHeld, NEW p \in Files, NEW c \in Frames, wrote[p] = c, Safe(c),
         nas' = [nas EXCEPT ![p] = None], UNCHANGED <<wrote, hurt, blobPath, s3>>
  PROVE  Keeps /\ NasHeld' /\ nas' \in [Files -> Contents \cup {None}]
<1>1. nas' \in [Files -> Contents \cup {None}]
  BY DEF TypeOK
<1>2. nas'[p] = None /\ \A q \in Files \ {p} : nas'[q] = nas[q]
  BY DEF TypeOK
<1>3. NasHeld'
  BY <1>2 DEF NasHeld
<1>4. \A d \in Frames : Safe(d) => Safe(d)'
  BY DEF Safe, S3Good
<1>5. ASSUME NEW q \in Files, NEW d \in Frames, nas[q] = d PROVE nas'[q] = d \/ Safe(d)'
  <2>1. q = p => d = c
    BY <1>5, FramesAssumption DEF NasHeld
  <2> QED
    BY <1>2, <1>4, <1>5, <2>1
<1> QED
  BY <1>1, <1>3, <1>4, <1>5 DEF Keeps

(* The cleaner may always go on to its next candidate. *)
LEMMA NextCandidateHeld ==
  ASSUME TypeOK, CleanerHeld, NextCandidate, UNCHANGED wrote
  PROVE  cl' \in Runs /\ CleanerHeld'
<1>1. cl' \in Runs /\ cl'.pc = "idle" /\ cl'.plan \subseteq cl.plan
  BY DEF NextCandidate, TypeOK, Runs
<1> QED
  BY <1>1 DEF CleanerHeld, Named

(* IInv is preserved: cleanup deletes a copy. *)
LEMMA CleanDeleteInv ==
  ASSUME IInv, CleanDelete PROVE IInv' /\ Keeps
<1> DEFINE k == cl.cand
<1>1. cl \in Runs /\ cl.pc = "delete" /\ k \in Candidates
  BY DEF CleanDelete, TypeOK, CleanerHeld
<1>2. k.sha \in Contents /\ k.path \in Files \cup {None}
  BY <1>1 DEF Candidates
<1>3. Keeps /\ NasHeld' /\ nas' \in [Files -> Contents \cup {None}]
  <2>1. CASE UNCHANGED nas
    <3>1. Keeps
      BY <2>1, KeepsFrame DEF CleanDelete
    <3> QED
      BY <2>1, <3>1, NasFrame DEF TypeOK
  <2>2. CASE k.loc = "nas" /\ nas' = [nas EXCEPT ![k.path] = None]
    <3>1. k.path \in Files /\ k.sha \in Frames /\ wrote[k.path] = k.sha /\ Safe(k.sha)
      BY <1>1, <1>2, <2>2 DEF CleanerHeld, Named
    <3> HIDE DEF k
    <3> QED
      BY <2>2, <3>1, NasRemoveHeld DEF CleanDelete
  <2> QED
    BY <2>1, <2>2 DEF CleanDelete
<1>4. rig' \in [Files -> Contents \cup {None}] /\ rigRot' \subseteq Files /\ RigHeld'
  <2>1. CASE UNCHANGED <<rig, rigRot>>
    BY <2>1, RigFrame DEF CleanDelete, TypeOK
  <2>2. CASE k.loc = "rig" /\ k.path \notin open /\ rig' = [rig EXCEPT ![k.path] = None] /\ rigRot' = rigRot \ {k.path}
    <3>1. k.path \in Files
      BY <1>1, <1>2, <2>2 DEF CleanerHeld
    <3> HIDE DEF k
    <3> QED
      BY <2>2, <3>1 DEF CleanDelete, TypeOK, RigHeld
  <2> QED
    BY <1>1, <2>1, <2>2 DEF CleanDelete
<1>5. spool' \in [Contents -> {"none", "good", "bad"}] /\ SpoolHeld'
  <2>1. CASE UNCHANGED spool
    BY <1>3, <2>1, SpoolFrame DEF TypeOK
  <2>2. CASE spool' = [spool EXCEPT ![k.sha] = "none"]
    BY <1>2, <2>2 DEF CleanDelete, TypeOK, SpoolHeld
  <2> QED
    BY <2>1, <2>2 DEF CleanDelete
<1>6. cl' \in Runs /\ CleanerHeld'
  <2>1. CASE NextCandidate
    BY <2>1, NextCandidateHeld DEF CleanDelete
  <2>2. CASE cl' = [cl EXCEPT !.pc = "record"]
    <3>1. cl' \in Runs /\ cl'.pc = "record" /\ cl'.plan = cl.plan /\ cl'.cand = cl.cand
      BY <1>1, <2>2 DEF Runs
    <3>2. UNCHANGED <<wrote, blobPath>> /\ (Safe(k.sha) => Safe(k.sha)')
      BY <3>1 DEF CleanDelete, Safe, S3Good
    <3> HIDE DEF k
    <3> QED
      BY <1>1, <3>1, <3>2 DEF CleanerHeld, Named, k
  <2> QED
    BY <2>1, <2>2 DEF CleanDelete
<1>7. TypeOK'
  BY <1>3, <1>4, <1>5, <1>6 DEF CleanDelete, TypeOK
<1> QED
  BY <1>3, <1>4, <1>5, <1>6, <1>7, S3Frame, CatalogFrame, CollectorFrame, ReplicatorFrame, ScrubFrame DEF CleanDelete

(* IInv is preserved: cleanup records a deletion. *)
LEMMA CleanRecordInv ==
  ASSUME IInv, CleanRecord PROVE IInv' /\ Keeps
<1> DEFINE k == cl.cand
<1>1. cl \in Runs /\ cl.pc = "record" /\ k \in Candidates
  BY DEF CleanRecord, TypeOK, CleanerHeld
<1>2. k.sha \in Contents /\ k.path \in Files \cup {None}
  BY <1>1 DEF Candidates
<1>3. Keeps
  BY KeepsFrame DEF CleanRecord
<1>4. CatalogHeld' /\ nasRep' \in [Contents -> {"none", "present", "lost", "cleaned", "corrupt"}]
  <2>1. CASE k.loc # "nas"
    BY <1>3, <2>1, CatalogFrame DEF CleanRecord, TypeOK
  <2>2. CASE k.loc = "nas"
    <3>1. PICK c \in Frames : c = k.sha /\ Safe(c) /\ blobPath[c] # None
      BY <1>1, <2>2 DEF CleanerHeld, Named
    <3>2. Safe(c)'
      BY <1>3, <3>1 DEF Keeps
    <3> QED
      BY <1>3, <2>2, <3>1, <3>2, MarkHeld DEF CleanRecord
  <2> QED
    BY <2>1, <2>2
<1>5. rigRep' \in [Contents -> {"none", "present", "missing", "corrupt"}] /\ spoolRow' \subseteq Contents
  BY DEF CleanRecord, TypeOK
<1>6. cl' \in Runs /\ CleanerHeld'
  BY NextCandidateHeld DEF CleanRecord
<1>7. row' \in [Files -> Rows] /\ RigHeld' /\ CollectorHeld'
  <2>1. CASE UNCHANGED row
    BY <1>3, <2>1, RigFrame, CollectorFrame DEF CleanRecord, TypeOK
  <2>2. CASE k.loc = "rig" /\ row' = [row EXCEPT ![k.path].st = "cleaned"]
    <3>1. PICK f \in Files : f = k.path
      BY <1>1, <1>2, <2>2 DEF CleanerHeld
    <3> DEFINE r == [row[f] EXCEPT !.st = "cleaned"]
    <3>2. row[f] \in Rows
      BY <3>1 DEF TypeOK
    <3>3. r \in Rows /\ r.st = "cleaned" /\ r.stamp = row[f].stamp
      BY <3>2, RowSt DEF Rows, RowStates
    <3>4. row' = [row EXCEPT ![f] = r]
      BY <2>2, <3>1 DEF TypeOK
    <3> HIDE DEF r
    <3>5. row' \in [Files -> Rows] /\ row'[f].st = "cleaned" /\ row'[f].stamp = row[f].stamp
      BY <3>1, <3>3, <3>4 DEF TypeOK
    <3>6. RigHeld'
      BY <3>1, <3>4, <3>5 DEF CleanRecord, TypeOK, RigHeld
    <3>7. TaskHeld(f)'
      BY <1>3, <3>1, <3>5 DEF CleanRecord, CollectorHeld, TaskHeld, Backed, Safe, S3Good
    <3>8. ASSUME NEW g \in Files \ {f} PROVE TaskHeld(g)'
      BY <1>3, <3>1, <3>4, TaskFrame DEF CleanRecord, TypeOK, CollectorHeld
    <3> QED
      BY <3>5, <3>6, <3>7, <3>8 DEF CollectorHeld
  <2> QED
    BY <1>1, <2>1, <2>2 DEF CleanRecord
<1>8. TypeOK'
  BY <1>4, <1>5, <1>6, <1>7 DEF CleanRecord, TypeOK
<1> QED
  BY <1>3, <1>4, <1>6, <1>7, <1>8, NasFrame, S3Frame, SpoolFrame, ReplicatorFrame, ScrubFrame DEF CleanRecord

-----------------------------------------------------------------------------
(* The scrub. *)

(* IInv is preserved: the scrub takes a NAS replica. *)
LEMMA ScrubBeginInv ==
  ASSUME IInv, NEW c \in Contents, ScrubBegin(c) PROVE IInv' /\ Keeps
<1>1. Named(c, nasUri[c]) /\ Backed(c, nasUri[c]) /\ c \in Frames /\ blobPath[c] # None
  BY DEF ScrubBegin, CatalogHeld, Named
<1>2. sc' \in Scrubs /\ sc'.pc = "check" /\ sc'.sha = c /\ sc'.uri = nasUri[c]
  BY DEF ScrubBegin, TypeOK, Scrubs
<1>3. TypeOK'
  BY <1>2 DEF ScrubBegin, TypeOK
<1>4. Keeps
  BY KeepsFrame DEF ScrubBegin
<1>5. ScrubHeld'
  BY <1>1, <1>2 DEF ScrubBegin, ScrubHeld, Backed, Safe, S3Good
<1> QED
  BY <1>3, <1>4, <1>5, RigFrame, NasFrame, S3Frame, SpoolFrame, CatalogFrame, CollectorFrame, ReplicatorFrame, CleanerFrame DEF ScrubBegin

(* The scrubber moves on with a frame that is safe, or gives it up. *)
LEMMA ScrubMoves ==
  ASSUME TypeOK, ScrubHeld, Keeps, sc.pc # "idle", Safe(sc.sha)',
         NEW s \in {"fetch", "remove", "write", "record"},
         sc' = [sc EXCEPT !.pc = s] \/ sc' = IdleScrub
  PROVE  sc' \in Scrubs /\ ScrubHeld'
<1>1. sc.sha \in Frames /\ blobPath[sc.sha] # None /\ sc \in Scrubs /\ sc.sha \in Contents
  BY DEF ScrubHeld, TypeOK, Contents
<1>2. blobPath'[sc.sha] # None
  BY <1>1 DEF Keeps
<1>3. CASE sc' = [sc EXCEPT !.pc = s]
  <2>1. sc' \in Scrubs /\ sc'.pc = s /\ sc'.sha = sc.sha
    BY <1>1, <1>3 DEF Scrubs
  <2> QED
    BY <1>1, <1>2, <2>1 DEF ScrubHeld
<1>4. CASE sc' = IdleScrub
  BY <1>4 DEF IdleScrub, Scrubs, ScrubHeld
<1> QED
  BY <1>3, <1>4

(* IInv is preserved: the scrub re-hashes it. *)
LEMMA ScrubNasInv ==
  ASSUME IInv, ScrubNas PROVE IInv' /\ Keeps
<1>1. PICK c \in Frames : /\ c = sc.sha /\ blobPath[c] # None /\ Backed(c, sc.uri)
                          /\ sc.uri \in Files \cup {None}
  BY DEF ScrubNas, ScrubHeld, TypeOK, Scrubs
<1>2. hurt' \subseteq Contents /\ hurt \subseteq hurt' /\ budget' \in Budgets
  <2>1. budget' = budget \/ budget' = [budget EXCEPT !.faults = @ + 1]
    BY DEF ScrubNas
  <2>2. hurt' = hurt \/ hurt' = hurt \cup {c}
    BY <1>1 DEF ScrubNas
  <2> QED
    BY <2>1, <2>2, Spend DEF TypeOK, Contents
<1>3. UNCHANGED <<rigVars, rowVars, blobPath, nasUri, spool, nas, s3, colVars, rp, cl>>
  BY DEF ScrubNas
<1>4. Keeps
  BY <1>2, <1>3 DEF Keeps, Safe, S3Good
<1>5. CASE UNCHANGED nasRep /\ sc' = IdleScrub
  <2>1. TypeOK'
    BY <1>2, <1>5 DEF ScrubNas, TypeOK, Scrubs, IdleScrub
  <2>2. ScrubHeld'
    BY <1>5 DEF ScrubHeld, IdleScrub
  <2> QED
    BY <1>3, <1>4, <1>5, <2>1, <2>2, RigFrame, NasFrame, S3Frame, SpoolFrame, CatalogFrame, CollectorFrame, ReplicatorFrame, CleanerFrame
<1>6. ASSUME NEW s \in {"lost", "corrupt"}, nasRep' = [nasRep EXCEPT ![c] = s],
             sc' = [sc EXCEPT !.pc = "fetch"], Safe(c)'
      PROVE  IInv' /\ Keeps
  <2>1. CatalogHeld' /\ nasRep' \in [Contents -> {"none", "present", "lost", "cleaned", "corrupt"}]
    BY <1>1, <1>3, <1>4, <1>6, MarkHeld
  <2>2. sc' \in Scrubs /\ ScrubHeld'
    <3>1. sc.pc # "idle" /\ Safe(sc.sha)'
      <4>1. sc.sha = c /\ sc'.sha = c
        BY <1>1, <1>6 DEF TypeOK, Scrubs
      <4> QED
        BY <1>6, <4>1 DEF ScrubNas, Safe, S3Good
    <3> QED
      BY <1>4, <1>6, <3>1, ScrubMoves
  <2>3. TypeOK'
    BY <1>2, <2>1, <2>2 DEF ScrubNas, TypeOK
  <2> QED
    BY <1>3, <1>4, <2>1, <2>2, <2>3, RigFrame, NasFrame, S3Frame, SpoolFrame, CollectorFrame, ReplicatorFrame, CleanerFrame
<1>7. CASE ~OnNas(sc.uri) /\ nasRep' = [nasRep EXCEPT ![c] = "lost"] /\ sc' = [sc EXCEPT !.pc = "fetch"]
           /\ ("nas" \in up \/ c \in hurt')
  <2>1. Safe(c) \/ c \in hurt'
    BY <1>1, <1>7, FramesAssumption DEF Backed, OnNas
  <2>2. Safe(c)'
    BY <1>4, <2>1 DEF Keeps, Safe
  <2> QED
    BY <1>6, <1>7, <2>2
<1>8. CASE OnNas(sc.uri) /\ nas[sc.uri] # c /\ nasRep' = [nasRep EXCEPT ![c] = "corrupt"] /\ sc' = [sc EXCEPT !.pc = "fetch"]
  <2>1. Safe(c)'
    BY <1>1, <1>4, <1>8 DEF Backed, Keeps
  <2> QED
    BY <1>6, <1>8, <2>1
<1> QED
  BY <1>1, <1>5, <1>7, <1>8 DEF ScrubNas

(* IInv is preserved: a good copy is fetched. *)
LEMMA HealFetchInv ==
  ASSUME IInv, HealFetch PROVE IInv' /\ Keeps
<1>1. sc.sha \in Frames /\ sc.sha \in Contents /\ sc.pc # "idle" /\ Safe(sc.sha)
  BY DEF HealFetch, ScrubHeld, Contents
<1>2. UNCHANGED <<rigVars, rowVars, blobPath, nasRep, nasUri, spool, nas, s3, colVars, rp, cl, hurt>>
  BY DEF HealFetch
<1>3. Keeps
  BY <1>2, KeepsFrame
<1>4. rigRep' \in [Contents -> {"none", "present", "missing", "corrupt"}] /\ cache' \subseteq Contents
  BY <1>1 DEF HealFetch, TypeOK
<1>5. sc' \in Scrubs /\ ScrubHeld'
  <2>1. PICK c \in Frames : c = sc.sha /\ Safe(c)
    BY <1>1
  <2>2. sc' = [sc EXCEPT !.pc = "remove"] \/ sc' = IdleScrub
    BY DEF HealFetch
  <2>3. CASE sc' = IdleScrub
    BY <2>3 DEF ScrubHeld, IdleScrub, Scrubs
  <2>4. CASE sc' = [sc EXCEPT !.pc = "remove"]
    <3>1. sc'.sha = c
      BY <2>1, <2>4 DEF TypeOK, Scrubs
    <3>2. Safe(sc.sha)'
      BY <1>2, <2>1, <3>1 DEF Safe, S3Good
    <3> QED
      BY <1>1, <1>3, <2>4, <3>2, ScrubMoves
  <2> QED
    BY <2>2, <2>3, <2>4
<1>6. TypeOK'
  BY <1>4, <1>5 DEF HealFetch, TypeOK
<1> QED
  BY <1>2, <1>3, <1>5, <1>6, RigFrame, NasFrame, S3Frame, SpoolFrame, CatalogFrame, CollectorFrame, ReplicatorFrame, CleanerFrame

(* IInv is preserved: the stager evicts a cached copy. *)
LEMMA CacheEvictInv ==
  ASSUME IInv, NEW c \in Contents, CacheEvict(c) PROVE IInv' /\ Keeps
<1>1. TypeOK'
  BY DEF CacheEvict, TypeOK
<1>2. Keeps
  BY KeepsFrame DEF CacheEvict
<1> QED
  BY <1>1, <1>2, RigFrame, NasFrame, S3Frame, SpoolFrame, CatalogFrame, CollectorFrame, ReplicatorFrame, CleanerFrame, ScrubFrame DEF CacheEvict

(* The same, when the step touches no fault's mark and not S3. *)
LEMMA ScrubStays ==
  ASSUME TypeOK, ScrubHeld, Keeps, sc.pc \in {"fetch", "remove", "write", "record"},
         NEW s \in {"fetch", "remove", "write", "record"},
         sc' = [sc EXCEPT !.pc = s] \/ sc' = IdleScrub, UNCHANGED <<hurt, s3>>
  PROVE  sc' \in Scrubs /\ ScrubHeld'
<1>1. CASE sc' = IdleScrub
  BY <1>1 DEF ScrubHeld, IdleScrub, Scrubs
<1>2. CASE sc' = [sc EXCEPT !.pc = s]
  <2>1. sc'.sha = sc.sha
    BY <1>2 DEF TypeOK, Scrubs
  <2>2. Safe(sc.sha)'
    BY <2>1 DEF ScrubHeld, Safe, S3Good
  <2> QED
    BY <1>2, <2>2, ScrubMoves
<1> QED
  BY <1>1, <1>2

(* IInv is preserved: the bad copy is removed. *)
LEMMA HealRemoveInv ==
  ASSUME IInv, HealRemove PROVE IInv' /\ Keeps
<1>1. UNCHANGED <<rigVars, rowVars, blobVars, replicaVars, spool, s3, cache, colVars, rp, cl, histVars>>
  BY DEF HealRemove
<1>2. Keeps /\ NasHeld' /\ nas' \in [Files -> Contents \cup {None}]
  <2>1. CASE UNCHANGED nas
    BY <1>1, <2>1, KeepsFrame, NasFrame DEF TypeOK
  <2>2. CASE nasUri[sc.sha] # None /\ nas' = [nas EXCEPT ![nasUri[sc.sha]] = None]
    <3>1. PICK c \in Frames, p \in Files : c = sc.sha /\ p = nasUri[c] /\ wrote[p] = c /\ Safe(c)
      BY <2>2 DEF HealRemove, ScrubHeld, CatalogHeld, Named, TypeOK, Contents
    <3> QED
      BY <1>1, <2>2, <3>1, NasRemoveHeld
  <2> QED
    BY <2>1, <2>2 DEF HealRemove
<1>3. sc' \in Scrubs /\ ScrubHeld'
  BY <1>1, <1>2, ScrubStays DEF HealRemove
<1>4. TypeOK'
  BY <1>2, <1>3 DEF HealRemove, TypeOK
<1> QED
  BY <1>1, <1>2, <1>3, <1>4, RigFrame, S3Frame, SpoolFrame, CatalogFrame, CollectorFrame, ReplicatorFrame, CleanerFrame

(* IInv is preserved: the copy is written back. *)
LEMMA HealWriteInv ==
  ASSUME IInv, HealWrite PROVE IInv' /\ Keeps
<1>1. UNCHANGED <<rigVars, rowVars, blobVars, replicaVars, spool, s3, cache, colVars, rp, cl, histVars>>
  BY DEF HealWrite
<1>2. Keeps /\ NasHeld' /\ nas' \in [Files -> Contents \cup {None}]
  <2>1. CASE UNCHANGED nas
    BY <1>1, <2>1, KeepsFrame, NasFrame DEF TypeOK
  <2>2. CASE /\ blobPath[sc.sha] # None /\ nas[blobPath[sc.sha]] \in {None, sc.sha}
             /\ nas' = [nas EXCEPT ![blobPath[sc.sha]] = sc.sha]
    <3>1. PICK c \in Frames, p \in Files : c = sc.sha /\ p = blobPath[c] /\ wrote[p] = c
      BY <2>2 DEF HealWrite, ScrubHeld, CatalogHeld, Named, TypeOK, Contents
    <3> QED
      BY <1>1, <2>2, <3>1, NasWriteHeld
  <2> QED
    BY <2>1, <2>2 DEF HealWrite, NasAccepts
<1>3. sc' \in Scrubs /\ ScrubHeld'
  BY <1>1, <1>2, ScrubStays DEF HealWrite
<1>4. TypeOK'
  BY <1>2, <1>3 DEF HealWrite, TypeOK
<1> QED
  BY <1>1, <1>2, <1>3, <1>4, RigFrame, S3Frame, SpoolFrame, CatalogFrame, CollectorFrame, ReplicatorFrame, CleanerFrame

(* IInv is preserved: the healed replica is recorded. *)
LEMMA HealRecordInv ==
  ASSUME IInv, HealRecord PROVE IInv' /\ Keeps
<1>1. PICK c \in Frames, p \in Files : /\ c = sc.sha /\ c \in Contents /\ p = blobPath[c] /\ wrote[p] = c
                                       /\ p # None /\ Safe(c)
  BY DEF HealRecord, ScrubHeld, CatalogHeld, Named, TypeOK, Contents
<1>2. /\ nasRep' = [nasRep EXCEPT ![c] = "present"] /\ nasUri' = [nasUri EXCEPT ![c] = p]
      /\ UNCHANGED <<rigVars, rowVars, blobVars, byteVars, colVars, rp, cl, histVars>>
  BY <1>1 DEF HealRecord
<1>3. Keeps
  BY <1>2, KeepsFrame
<1>4. sc' \in Scrubs /\ ScrubHeld'
  BY <1>2, <1>3, ScrubStays DEF HealRecord
<1>5. CatalogHeld'
  <2>1. \A d \in Contents : Named(d, blobPath[d])' /\ Named(d, nasUri[d])'
    BY <1>1, <1>2 DEF TypeOK, CatalogHeld, Named
  <2>2. \A d \in Contents : (blobPath[d] # None <=> nasRep[d] # "none")'
    BY <1>1, <1>2 DEF TypeOK, CatalogHeld
  <2>3. \A d \in Contents : nasRep'[d] = "present" => Backed(d, nasUri[d])'
    BY <1>1, <1>2 DEF TypeOK, CatalogHeld, Backed, Safe, S3Good
  <2>4. \A d \in Contents : nasRep'[d] \in {"lost", "corrupt", "cleaned"} => Safe(d)'
    BY <1>2 DEF TypeOK, CatalogHeld, Safe, S3Good
  <2> QED
    BY <2>1, <2>2, <2>3, <2>4 DEF CatalogHeld
<1>6. TypeOK'
  BY <1>1, <1>2, <1>4 DEF HealRecord, TypeOK
<1> QED
  BY <1>2, <1>3, <1>4, <1>5, <1>6, RigFrame, NasFrame, S3Frame, SpoolFrame, CollectorFrame, ReplicatorFrame, CleanerFrame

(* IInv is preserved: the scrub finds a bad S3 object. *)
LEMMA ScrubS3Inv ==
  ASSUME IInv, NEW c \in Contents, ScrubS3(c) PROVE IInv' /\ Keeps
<1>1. c \in Frames
  BY DEF ScrubS3, CatalogHeld, Named
<1>2. sc' \in Scrubs /\ sc'.pc = "s3fix" /\ sc'.sha = c
  BY DEF ScrubS3, Scrubs
<1>3. TypeOK'
  BY <1>2 DEF ScrubS3, TypeOK
<1>4. Keeps
  BY KeepsFrame DEF ScrubS3
<1>5. ScrubHeld'
  BY <1>1, <1>2 DEF ScrubS3, ScrubHeld
<1> QED
  BY <1>3, <1>4, <1>5, RigFrame, NasFrame, S3Frame, SpoolFrame, CatalogFrame, CollectorFrame, ReplicatorFrame, CleanerFrame DEF ScrubS3

(* IInv is preserved: it is rewritten. *)
LEMMA S3RewriteInv ==
  ASSUME IInv, S3Rewrite PROVE IInv' /\ Keeps
<1>1. UNCHANGED <<rigVars, up, rowVars, blobVars, nasRep, nasUri, rigRep, rigUri, spool, nas, cache, colVars, rp, cl, histVars>>
  BY DEF S3Rewrite
<1>2. PICK c \in Frames, p \in Files : c = sc.sha /\ c \in Contents /\ p = blobPath[c] /\ wrote[p] = c
  BY DEF S3Rewrite, ScrubHeld, CatalogHeld, Named, TypeOK, Contents
<1>3. Keeps /\ S3Held' /\ s3' \in [Files -> Objects]
  <2>1. CASE UNCHANGED s3
    BY <1>1, <2>1, KeepsFrame, S3Frame DEF TypeOK
  <2>2. CASE s3' = [s3 EXCEPT ![p] = [meta |-> c, data |-> c]]
    BY <1>1, <1>2, <2>2, S3WriteHeld
  <2> QED
    BY <1>2, <2>1, <2>2 DEF S3Rewrite
<1>4. sc' \in Scrubs /\ ScrubHeld'
  BY DEF S3Rewrite, ScrubHeld, Scrubs, IdleScrub
<1>5. s3Rep' \in [Contents -> {"none", "present", "corrupt"}]
  BY <1>2 DEF S3Rewrite, TypeOK
<1>6. TypeOK'
  BY <1>1, <1>3, <1>4, <1>5 DEF TypeOK
<1> QED
  BY <1>1, <1>3, <1>4, <1>6, RigFrame, NasFrame, SpoolFrame, CatalogFrame, CollectorFrame, ReplicatorFrame, CleanerFrame

-----------------------------------------------------------------------------
(* The theorems. *)

(* IInv holds of an empty observatory. *)
LEMMA InitInv == Init => IInv
<1> SUFFICES ASSUME Init PROVE IInv
  OBVIOUS
<1>1. TypeOK
  <2>1. NoRow \in Rows /\ IdleTask \in Tasks /\ NoObject \in Objects
    BY DEF NoRow, Rows, RowStates, IdleTask, Tasks, NoObject, Objects
  <2>2. IdlePass \in Passes /\ IdleRun \in Runs /\ IdleScrub \in Scrubs
    BY DEF IdlePass, Passes, IdleRun, Runs, IdleScrub, Scrubs
  <2>3. budget \in Budgets
    BY DEF Init, Budgets
  <2> HIDE DEF NoRow, IdleTask, NoObject, IdlePass, IdleRun, IdleScrub
  <2> QED
    BY <2>1, <2>2, <2>3 DEF Init, TypeOK
<1>2. RigHeld /\ NasHeld /\ S3Held /\ SpoolHeld
  BY DEF Init, RigHeld, NasHeld, S3Held, SpoolHeld
<1>3. CatalogHeld
  BY DEF Init, CatalogHeld, Named
<1>4. CollectorHeld
  BY DEF Init, CollectorHeld, TaskHeld, NoRow, IdleTask
<1>5. ReplicatorHeld /\ CleanerHeld /\ ScrubHeld
  BY DEF Init, ReplicatorHeld, CleanerHeld, ScrubHeld, IdlePass, IdleRun, IdleScrub
<1> QED
  BY <1>1, <1>2, <1>3, <1>4, <1>5

(* IInv outlasts a step that changes nothing. *)
LEMMA StutterInv ==
  ASSUME IInv, UNCHANGED vars PROVE IInv' /\ Keeps
<1>1. TypeOK'
  BY DEF vars, TypeOK
<1>2. Keeps
  BY KeepsFrame DEF vars
<1> QED
  BY <1>1, <1>2, RigFrame, NasFrame, S3Frame, SpoolFrame, CatalogFrame, CollectorFrame, ReplicatorFrame, CleanerFrame, ScrubFrame DEF vars

(* Every step preserves IInv and keeps what must be kept: one case for each *)
(* group of actions of Next.                                                *)
LEMMA StepKeeps ==
  ASSUME IInv, [Next]_vars PROVE IInv' /\ Keeps
<1> USE DEF IInv
<1>1. CASE Nina
  BY <1>1, NinaBeginInv, NinaFinishInv, NinaAbortInv, NinaReopenInv, RigMoveInv DEF Nina
<1>2. CASE Faults
  BY <1>2, RotRigInv, UserDeleteInv, HurtNasInv, LoseS3Inv, RotSpoolInv DEF Faults
<1>3. ASSUME NEW s \in {"rig", "nas"}, ShareDown(s) \/ ShareUp(s) PROVE IInv' /\ Keeps
  BY <1>3, ShareInv
<1>4. ASSUME NEW f \in Files, Collect(f) \/ Exclude(f) PROVE IInv' /\ Keeps
  BY <1>4, CollectCheckInv, CollectReadInv, CollectVerifyInv, StoreNasInv, IngestInv, CommitInv, ExcludeInv DEF Collect
<1>5. CASE Replicate
  BY <1>5, ReplBeginInv, ReplPickInv, ReplPutInv, ReplRecordInv DEF Replicate
<1>6. CASE Clean
  BY <1>6, CleanPlanInv, CleanRecheckInv, CleanDeleteInv, CleanRecordInv DEF Clean, CleanOn
<1>7. CASE Scrub
  BY <1>7, ScrubBeginInv, ScrubNasInv, HealFetchInv, HealRemoveInv, HealWriteInv, HealRecordInv,
     ScrubS3Inv, S3RewriteInv, CacheEvictInv DEF Scrub
<1> QED
  BY <1>1, <1>2, <1>3, <1>4, <1>5, <1>6, <1>7, CrashInv, ScanInv, CollectStableInv, StutterInv DEF Next

(* IInv is inductive. *)
LEMMA StepInv ==
  ASSUME IInv, [Next]_vars PROVE IInv'
BY StepKeeps

(* Every variable of the collector, the catalog and the workers keeps its  *)
(* type, for any number of files, frames, faults, crashes and outages.     *)
THEOREM TypeCorrect == Spec => []TypeOK
<1>1. IInv => TypeOK
  OBVIOUS
<1> HIDE DEF IInv
<1> QED
  BY <1>1, InitInv, StepInv, PTL DEF Spec

(* What the catalog says of a NAS copy is true of the NAS, or S3 has it. *)
LEMMA CatalogDurable == IInv => DurableCopy
<1> SUFFICES ASSUME IInv, NEW c \in Registered \ hurt PROVE NasGood(c) \/ S3Good(c)
  BY DEF DurableCopy
<1>1. c \in Contents /\ nasRep[c] # "none"
  BY DEF Registered, CatalogHeld
<1>2. CASE nasRep[c] = "present"
  BY <1>1, <1>2 DEF CatalogHeld, Backed, Safe, NasGood, TypeOK
<1>3. CASE nasRep[c] \in {"lost", "corrupt", "cleaned"}
  BY <1>1, <1>3 DEF CatalogHeld, Safe
<1> QED
  BY <1>1, <1>2, <1>3 DEF TypeOK

(* In every behaviour, with any number of crashes, outages and faults, a    *)
(* registered frame whose archive copies no fault touched is intact on the  *)
(* NAS or in S3: no interleaving of the collector, the replicator, cleanup  *)
(* and the scrub deletes the last copy (SPEC 7.1, rule 1).                  *)
THEOREM DurableCopyHolds == Spec => []DurableCopy
<1> HIDE DEF IInv
<1> QED
  BY CatalogDurable, InitInv, StepInv, PTL DEF Spec

(* A name belongs to one frame, and the archive holds nothing else there. *)
LEMMA CatalogWhole == IInv => WholeFramesOnly
<1> SUFFICES ASSUME IInv PROVE WholeFramesOnly
  OBVIOUS
<1>1. Registered \subseteq Frames
  BY DEF Registered, CatalogHeld, Named
<1>2. ASSUME NEW p \in Files PROVE nas[p] # Partial /\ s3[p].meta \in Frames \cup {None}
  <2>1. nas[p] # Partial
    BY FramesAssumption DEF NasHeld
  <2>2. s3[p].meta \in Frames \cup {None}
    BY DEF S3Held, NoObject
  <2> QED
    BY <2>1, <2>2
<1> QED
  BY <1>1, <1>2 DEF WholeFramesOnly

(* In every behaviour only whole frames are registered or archived under a  *)
(* name, although the collector reads files N.I.N.A. may open again at any  *)
(* moment and a read may go wrong (rig_worker.py).                          *)
THEOREM WholeFramesOnlyHolds == Spec => []WholeFramesOnly
<1> HIDE DEF IInv
<1> QED
  BY CatalogWhole, InitInv, StepInv, PTL DEF Spec

-----------------------------------------------------------------------------
(* LossIsAlarmed, by AlarmHeld beside IInv. *)

(* AlarmHeld outlasts a step that takes no row back to "none" or "gone",    *)
(* registers what it records as collected or cleaned, and adds no candidate.*)
LEMMA AlarmKept ==
  ASSUME TypeOK, AlarmHeld, UNCHANGED seenAt,
         \A f \in Files : wrote[f] # None => wrote'[f] = wrote[f],
         Registered \subseteq Registered',
         \A f \in Files : \/ row'[f].st = row[f].st
                          \/ row'[f].st \in {"stuck", "excluded"}
                          \/ row'[f].st \in {"collected", "cleaned"} /\ wrote[f] \in Registered,
         \A f \in Files : col'[f].pc = "ingested" => col[f].pc = "ingested" \/ wrote[f] \in Registered',
         cl'.plan \subseteq cl.plan,
         cl'.pc \in {"delete", "record"} => cl'.cand \in cl.plan \/ (cl.pc \in {"delete", "record"} /\ cl'.cand = cl.cand)
  PROVE  AlarmHeld'
<1>1. ASSUME NEW f \in Files, wrote[f] \in Registered \cup Registered'
      PROVE  wrote'[f] = wrote[f] /\ wrote'[f] \in Registered'
  BY <1>1, FramesAssumption DEF Registered, Contents
<1>2. ASSUME NEW f \in Files, seenAt'[f] # None
      PROVE  /\ wrote'[f] \in Frames /\ seenAt'[f] \in {Partial, wrote'[f]}
             /\ row'[f].st \notin {"none", "gone"}
  <2>1. /\ wrote[f] \in Frames /\ seenAt[f] \in {Partial, wrote[f]}
        /\ row[f].st \notin {"none", "gone"}
    BY <1>2 DEF AlarmHeld
  <2>2. wrote'[f] = wrote[f]
    BY <2>1, FramesAssumption
  <2> QED
    BY <2>1, <2>2
<1>3. ASSUME NEW f \in Files, row'[f].st \in {"collected", "cleaned"} \/ col'[f].pc = "ingested"
      PROVE  wrote'[f] \in Registered'
  <2>1. wrote[f] \in Registered \cup Registered'
    BY <1>3 DEF AlarmHeld
  <2> QED
    BY <1>1, <2>1
<1>4. ASSUME NEW k, Wanted(k) PROVE Wanted(k)'
  BY <1>1, <1>4 DEF Wanted
<1>5. \A k \in cl'.plan : Wanted(k)'
  BY <1>4 DEF AlarmHeld
<1>6. ASSUME cl'.pc \in {"delete", "record"} PROVE Wanted(cl.cand)'
  <2>1. PICK k : k = cl'.cand /\ Wanted(k)
    BY <1>6 DEF AlarmHeld
  <2>2. Wanted(k)'
    BY <1>4, <2>1
  <2> QED
    BY <2>1, <2>2 DEF Wanted
<1> QED
  BY <1>2, <1>3, <1>5, <1>6 DEF AlarmHeld, Wanted

(* Most steps touch none of it. *)
LEMMA AlarmFrame ==
  ASSUME TypeOK, AlarmHeld, UNCHANGED <<seenAt, wrote, row, blobPath, col, cl>>
  PROVE  AlarmHeld'
BY AlarmKept DEF Registered

(* A failed copy makes its row stuck and its task idle. *)
LEMMA AlarmFailed ==
  ASSUME TypeOK, AlarmHeld, NEW f \in Files, Failed(f), UNCHANGED <<seenAt, wrote, blobPath, cl>>
  PROVE  AlarmHeld'
<1>1. \A g \in Files : row'[g].st = row[g].st \/ row'[g].st = "stuck"
  <2> DEFINE r == [row[f] EXCEPT !.st = "stuck"]
  <2>1. r.st = "stuck"
    BY RowSt DEF TypeOK, RowStates
  <2>2. row' = [row EXCEPT ![f] = r]
    BY DEF Failed, TypeOK
  <2> HIDE DEF r
  <2> QED
    BY <2>1, <2>2 DEF TypeOK
<1>2. \A g \in Files : col'[g].pc = col[g].pc \/ col'[g].pc = "idle"
  BY DEF Failed, TypeOK, IdleTask
<1> QED
  BY <1>1, <1>2, AlarmKept DEF Registered

(* The new frame's path was never seen. *)
LEMMA AlarmNina ==
  ASSUME IInv, AlarmHeld, Nina PROVE AlarmHeld'
<1>1. ASSUME NEW f \in Files, NEW c \in Frames, NinaBegin(f, c) PROVE AlarmHeld'
  BY <1>1, AlarmKept DEF NinaBegin, IInv, TypeOK, rowVars, blobVars, colVars, histVars, Registered
<1>2. ASSUME NEW f \in Files, NinaFinish(f) \/ NinaAbort(f) \/ NinaReopen(f) PROVE AlarmHeld'
  BY <1>2, AlarmFrame DEF NinaFinish, NinaAbort, NinaReopen, IInv, rowVars, blobVars, colVars, histVars
<1>3. ASSUME NEW f \in Files, NEW g \in Files, RigMove(f, g) PROVE AlarmHeld'
  BY <1>3, AlarmKept DEF RigMove, IInv, TypeOK, rowVars, blobVars, colVars, Registered
<1> QED
  BY <1>1, <1>2, <1>3 DEF Nina

LEMMA AlarmEnvironment ==
  ASSUME IInv, AlarmHeld,
         Faults \/ (\E s \in {"rig", "nas"} : ShareDown(s) \/ ShareUp(s)) \/ CollectStable \/ Replicate \/ Scrub
  PROVE  AlarmHeld'
<1> USE DEF IInv, rigVars, rowVars, blobVars, colVars, histVars
<1>1. CASE Faults
  BY <1>1, AlarmFrame DEF Faults, RotRig, UserDelete, RotNas, LoseNas, HurtNas, LoseS3, RotSpool
<1>2. CASE (\E s \in {"rig", "nas"} : ShareDown(s) \/ ShareUp(s)) \/ CollectStable
  <2>1. UNCHANGED <<seenAt, wrote, row, blobPath, cl>> /\ UNCHANGED col
    BY <1>2 DEF ShareDown, ShareUp, CollectStable
  <2> QED
    BY <2>1, AlarmFrame
<1>3. CASE Replicate
  BY <1>3, AlarmFrame DEF Replicate, ReplBegin, ReplPick, ReplPut, ReplRecord
<1>4. CASE Scrub
  BY <1>4, AlarmFrame DEF Scrub, ScrubBegin, ScrubS3, CacheEvict, ScrubNas, HealFetch, HealRemove, HealWrite, HealRecord, S3Rewrite
<1> QED
  BY <1>1, <1>2, <1>3, <1>4

(* A scan notes what it saw in the rows. *)
LEMMA AlarmScan ==
  ASSUME IInv, AlarmHeld, Scan PROVE AlarmHeld'
<1> USE DEF IInv, rigVars, rowVars, blobVars, colVars, histVars
<1>1. UNCHANGED <<wrote, blobPath, col, cl>> /\ seenAt' = rig
  BY DEF Scan
<1>2. ASSUME NEW f \in Files
      PROVE  /\ rig[f] # None => row'[f].st \notin {"none", "gone"}
             /\ row'[f].st \in {"collected", "cleaned"} => row[f].st \in {"collected", "cleaned"}
  <2>1. row[f] \in Rows /\ rig[f] \in Contents \cup {None}
    BY DEF IInv, TypeOK
  <2>2. row[f].st \in RowStates
    BY <2>1 DEF Rows
  <2>3. \/ rig[f] # None /\ row[f].st \in {"none", "gone"} /\ row'[f] = [row[f] EXCEPT !.st = "seen", !.stamp = rig[f]]
        \/ rig[f] # None /\ row[f].st \in Waiting /\ row'[f] = [row[f] EXCEPT !.stamp = rig[f]]
        \/ rig[f] = None /\ row'[f] = [row[f] EXCEPT !.st = "gone"]
        \/ rig[f] # None /\ row[f].st \notin {"none", "gone"} /\ row'[f] = row[f]
        \/ rig[f] = None /\ row'[f] = row[f]
    BY DEF Scan
  <2> QED
    BY <2>1, <2>2, <2>3 DEF Rows, Waiting
<1>3. \A f \in Files : rig[f] # None => wrote[f] \in Frames /\ rig[f] \in {Partial, wrote[f]}
  BY DEF IInv, RigHeld, TypeOK
<1> QED
  BY <1>1, <1>2, <1>3 DEF AlarmHeld, Wanted, Registered

(* The collector registers a file before its row says so. *)
LEMMA AlarmCollect ==
  ASSUME IInv, AlarmHeld, NEW f \in Files, Collect(f) \/ Exclude(f) PROVE AlarmHeld'
<1> USE DEF IInv, rigVars, rowVars, blobVars, colVars, histVars
<1>1. UNCHANGED <<seenAt, wrote, cl>>
  BY DEF Collect, CollectCheck, CollectRead, CollectVerify, StoreNas, Ingest, Commit, Exclude
<1>2. CASE Failed(f) /\ UNCHANGED blobPath
  BY <1>1, <1>2, AlarmFailed
<1>3. CASE UNCHANGED <<row, blobPath>> /\ \A g \in Files : col'[g].pc = "ingested" => col[g].pc = "ingested"
  BY <1>1, <1>3, AlarmKept DEF Registered
<1>4. CASE CollectCheck(f) \/ CollectRead(f) \/ CollectVerify(f) \/ StoreNas(f)
  <2>1. UNCHANGED blobPath
    BY <1>4 DEF CollectCheck, CollectRead, CollectVerify, StoreNas
  <2>2. \/ Failed(f) \/ UNCHANGED <<row, col>>
        \/ UNCHANGED row /\ \E p \in {"checked", "copied", "spooled", "stored"} : \E t :
                               col' = [col EXCEPT ![f] = t] /\ t.pc = p
    <3>1. col[f] \in Tasks
      BY DEF TypeOK
    <3>2. CASE CollectCheck(f)
      BY <3>1, <3>2 DEF CollectCheck, TypeOK, Tasks
    <3>3. CASE CollectRead(f)
      <4>1. ASSUME NEW c, col' = [col EXCEPT ![f].pc = "copied", ![f].sha = c]
            PROVE \E t : col' = [col EXCEPT ![f] = t] /\ t.pc = "copied"
        <5>1. col' = [col EXCEPT ![f] = [col[f] EXCEPT !.pc = "copied", !.sha = c]]
          BY <4>1 DEF TypeOK
        <5>2. [col[f] EXCEPT !.pc = "copied", !.sha = c].pc = "copied"
          BY <3>1 DEF Tasks
        <5> QED
          BY <5>1, <5>2
      <4> QED
        BY <3>3, <4>1 DEF CollectRead
    <3>4. CASE CollectVerify(f)
      BY <3>1, <3>4 DEF CollectVerify, TypeOK, Tasks
    <3>5. CASE StoreNas(f)
      <4>1. ASSUME NEW p, col' = [col EXCEPT ![f].pc = "stored", ![f].path = p]
            PROVE \E t : col' = [col EXCEPT ![f] = t] /\ t.pc = "stored"
        <5>1. col' = [col EXCEPT ![f] = [col[f] EXCEPT !.pc = "stored", !.path = p]]
          BY <4>1 DEF TypeOK
        <5>2. [col[f] EXCEPT !.pc = "stored", !.path = p].pc = "stored"
          BY <3>1 DEF Tasks
        <5> QED
          BY <5>1, <5>2
      <4> QED
        BY <3>5, <4>1 DEF StoreNas
    <3> QED
      BY <1>4, <3>2, <3>3, <3>4, <3>5
  <2>3. CASE UNCHANGED row /\ \E p \in {"checked", "copied", "spooled", "stored"} : \E t :
                               col' = [col EXCEPT ![f] = t] /\ t.pc = p
    BY <1>3, <2>1, <2>3 DEF TypeOK
  <2> QED
    BY <1>2, <1>3, <2>1, <2>2, <2>3
<1>5. CASE Ingest(f)
  <2>1. col[f].sha = wrote[f] /\ wrote[f] \in Contents /\ col[f].path # None
    BY <1>5 DEF Ingest, CollectorHeld, TaskHeld, Contents
  <2>2. wrote[f] \in Registered' /\ Registered \subseteq Registered'
    BY <1>5, <2>1 DEF Ingest, Registered, TypeOK
  <2>3. UNCHANGED row /\ \A g \in Files : col'[g].pc = "ingested" => col[g].pc = "ingested" \/ wrote[g] \in Registered'
    BY <1>5, <2>2 DEF Ingest, TypeOK
  <2> QED
    BY <1>1, <2>2, <2>3, AlarmKept
<1>6. CASE Commit(f)
  <2>1. wrote[f] \in Registered /\ UNCHANGED blobPath
    BY <1>6 DEF Commit, AlarmHeld
  <2>2. \A g \in Files : row'[g] = row[g] \/ (g = f /\ row'[g].st = "collected")
    <3> DEFINE r == [row[f] EXCEPT !.st = "collected", !.sha = col[f].sha]
    <3>1. r.st = "collected"
      BY DEF TypeOK, Rows
    <3>2. row' = [row EXCEPT ![f] = r]
      BY <1>6 DEF Commit, TypeOK
    <3> HIDE DEF r
    <3> QED
      BY <3>1, <3>2 DEF TypeOK
  <2>3. \A g \in Files : col'[g].pc = "ingested" => col[g].pc = "ingested"
    BY <1>6 DEF Commit, TypeOK, IdleTask
  <2> QED
    BY <1>1, <2>1, <2>2, <2>3, AlarmKept DEF Registered
<1>7. CASE Exclude(f)
  <2>1. \A g \in Files : row'[g] = row[g] \/ row'[g].st = "excluded"
    <3> DEFINE r == [row[f] EXCEPT !.st = "excluded"]
    <3>1. r.st = "excluded"
      BY RowSt DEF TypeOK, RowStates
    <3>2. row' = [row EXCEPT ![f] = r]
      BY <1>7 DEF Exclude, TypeOK
    <3> HIDE DEF r
    <3> QED
      BY <3>1, <3>2 DEF TypeOK
  <2> QED
    BY <1>1, <1>7, <2>1, AlarmKept DEF Exclude, Registered
<1> QED
  BY <1>4, <1>5, <1>6, <1>7 DEF Collect

(* Cleanup plans and records as cleaned only rig files that are collected. *)
LEMMA AlarmClean ==
  ASSUME IInv, AlarmHeld, Clean PROVE AlarmHeld'
<1> USE DEF IInv, rigVars, rowVars, blobVars, colVars, histVars
<1>1. UNCHANGED <<seenAt, wrote, blobPath, col>>
  BY DEF Clean, CleanOn, CleanPlan, CleanRecheck, CleanDelete, CleanRecord
<1>2. CASE CleanPlan
  <2>1. \A k \in Eligible : Wanted(k)
    <3> TAKE k \in Eligible
    <3>1. ASSUME k.loc = "rig" PROVE k.path \in Files /\ row[k.path].st = "collected"
      BY <3>1 DEF Eligible
    <3> QED
      BY <3>1 DEF Wanted, AlarmHeld
  <2>2. cl'.plan \subseteq Eligible /\ cl'.pc = "idle" /\ UNCHANGED row
    BY <1>2 DEF CleanPlan, IdleRun
  <2> QED
    BY <1>1, <2>1, <2>2 DEF AlarmHeld, Wanted, Registered
<1>3. ASSUME NEW k \in cl.plan, CleanRecheck(k) PROVE AlarmHeld'
  <2> DEFINE rest == cl.plan \ {k}
  <2>1. cl' = [cl EXCEPT !.pc = "delete", !.cand = k] \/ cl' = [cl EXCEPT !.plan = rest]
    BY <1>3 DEF CleanRecheck
  <2>2. UNCHANGED row /\ cl.pc = "idle" /\ rest \subseteq cl.plan
    BY <1>3 DEF CleanRecheck
  <2> HIDE DEF rest
  <2>3. cl'.plan \subseteq cl.plan /\ (cl'.pc \in {"delete", "record"} => cl'.cand \in cl.plan)
    BY <2>1, <2>2 DEF TypeOK, Runs
  <2> QED
    BY <1>1, <2>2, <2>3, AlarmKept DEF Registered
<1>4. ASSUME NextCandidate \/ cl' = [cl EXCEPT !.pc = "record"], cl.pc \in {"delete", "record"}
      PROVE  /\ cl'.plan \subseteq cl.plan
             /\ cl'.pc \in {"delete", "record"} => cl'.cand = cl.cand
  <2> DEFINE rest == cl.plan \ {cl.cand}
  <2>1. \/ cl' = [cl EXCEPT !.pc = "idle", !.plan = rest, !.cand = NoCand]
        \/ cl' = [cl EXCEPT !.pc = "record"]
    BY <1>4 DEF NextCandidate
  <2>2. rest \subseteq cl.plan
    OBVIOUS
  <2> HIDE DEF rest
  <2> QED
    BY <2>1, <2>2 DEF TypeOK, Runs
<1>5. CASE CleanDelete
  <2>1. UNCHANGED row /\ cl.pc = "delete" /\ (NextCandidate \/ cl' = [cl EXCEPT !.pc = "record"])
    BY <1>5 DEF CleanDelete
  <2> QED
    BY <1>1, <1>4, <2>1, AlarmKept DEF Registered
<1>6. CASE CleanRecord
  <2>1. cl.pc = "record" /\ NextCandidate
    BY <1>6 DEF CleanRecord
  <2>2. \A g \in Files : row'[g].st = row[g].st \/ (row'[g].st = "cleaned" /\ wrote[g] \in Registered)
    <3>1. CASE cl.cand.loc # "rig"
      BY <1>6, <3>1 DEF CleanRecord
    <3>2. CASE cl.cand.loc = "rig"
      <4>1. PICK f \in Files : f = cl.cand.path /\ wrote[f] \in Registered
        BY <2>1, <3>2 DEF AlarmHeld, Wanted
      <4> DEFINE r == [row[f] EXCEPT !.st = "cleaned"]
      <4>2. r.st = "cleaned"
        BY RowSt DEF TypeOK, RowStates
      <4>3. row' = [row EXCEPT ![f] = r]
        BY <1>6, <3>2, <4>1 DEF CleanRecord, TypeOK
      <4> HIDE DEF r
      <4> QED
        BY <4>1, <4>2, <4>3 DEF TypeOK
    <3> QED
      BY <3>1, <3>2
  <2> QED
    BY <1>1, <1>4, <2>1, <2>2, AlarmKept DEF Registered
<1> QED
  BY <1>2, <1>3, <1>5, <1>6 DEF Clean, CleanOn

(* A crash forgets tasks and plans, and claims nothing. *)
LEMMA AlarmCrash ==
  ASSUME IInv, AlarmHeld, Crash PROVE AlarmHeld'
BY AlarmKept DEF IInv, Crash, IdleTask, IdleRun, Registered, rigVars, rowVars, blobVars

(* AlarmHeld is inductive beside IInv. *)
LEMMA StepAlarm ==
  ASSUME IInv, AlarmHeld, [Next]_vars PROVE AlarmHeld'
<1>1. CASE UNCHANGED vars
  BY <1>1, AlarmFrame DEF IInv, vars, rigVars, rowVars, blobVars, colVars, histVars
<1> QED
  BY <1>1, AlarmNina, AlarmEnvironment, AlarmScan, AlarmCollect, AlarmClean, AlarmCrash DEF Next

(* Nothing was seen, collected or planned yet. *)
LEMMA InitAlarm == Init => AlarmHeld
BY DEF Init, AlarmHeld, NoRow, IdleTask, IdleRun

(* Only a scan changes what was seen, and it raises the alarm. *)
LEMMA LossSteps ==
  ASSUME IInv, AlarmHeld, [Next]_vars, NEW f \in Files,
         seenAt[f] \in Frames \ Registered, seenAt'[f] = None, row[f].st # "excluded"
  PROVE  f \in atRisk'
<1> USE DEF IInv
<1>1. Scan
  <2>1. seenAt' # seenAt
    BY FramesAssumption
  <2>2. ~Nina /\ ~Faults /\ ~Crash /\ ~Clean /\ ~Replicate /\ ~Scrub /\ ~CollectStable
    <3> USE <2>1 DEF histVars
    <3>1. ~Nina
      BY DEF Nina, NinaBegin, NinaFinish, NinaAbort, NinaReopen, RigMove
    <3>2. ~Faults
      BY DEF Faults, RotRig, UserDelete, RotNas, LoseNas, HurtNas, LoseS3, RotSpool
    <3>3. ~Crash /\ ~CollectStable
      BY DEF Crash, CollectStable
    <3>4. ~Clean
      BY DEF Clean, CleanOn, CleanPlan, CleanRecheck, CleanDelete, CleanRecord
    <3>5. ~Replicate
      BY DEF Replicate, ReplBegin, ReplPick, ReplPut, ReplRecord
    <3>6. ~Scrub
      BY DEF Scrub, ScrubBegin, ScrubS3, CacheEvict, ScrubNas, HealFetch, HealRemove, HealWrite, HealRecord, S3Rewrite
    <3> QED
      BY <3>1, <3>2, <3>3, <3>4, <3>5, <3>6
  <2>3. \A g \in Files : ~Collect(g) /\ ~Exclude(g)
    BY <2>1 DEF histVars, Collect, CollectCheck, CollectRead, CollectVerify, StoreNas, Ingest, Commit, Exclude
  <2>4. \A s \in {"rig", "nas"} : ~ShareDown(s) /\ ~ShareUp(s)
    BY <2>1 DEF histVars, ShareDown, ShareUp
  <2>5. ~(UNCHANGED vars)
    BY <2>1 DEF vars, histVars
  <2> QED
    BY <2>2, <2>3, <2>4, <2>5 DEF Next
<1>2. rig[f] = None
  BY <1>1 DEF Scan
<1>3. row[f].st \in Waiting
  <2>1. seenAt[f] = wrote[f]
    BY FramesAssumption DEF AlarmHeld
  <2>2. row[f].st \notin {"none", "gone", "collected", "cleaned"} /\ row[f].st \in RowStates
    BY <2>1, FramesAssumption DEF AlarmHeld, TypeOK, Rows
  <2> QED
    BY <2>2 DEF RowStates, Waiting
<1> QED
  BY <1>1, <1>2, <1>3 DEF Scan

(* In every behaviour a whole frame that a scan saw, and that left the rig  *)
(* before it was registered, has a DATA_AT_RISK issue after the next scan:  *)
(* its row still waits, however often its collection failed or altaird      *)
(* died (rig_worker.py).                                                    *)
THEOREM LossIsAlarmedHolds == Spec => LossIsAlarmed
<1> HIDE DEF IInv
<1> DEFINE Alarmed == \A f \in Files : (/\ seenAt[f] \in Frames \ Registered /\ seenAt'[f] = None
                                        /\ row[f].st # "excluded") => f \in atRisk'
<1>1. ASSUME IInv, AlarmHeld, [Next]_vars PROVE [Alarmed]_vars
  <2>1. Alarmed
    BY <1>1, LossSteps
  <2> QED
    BY <2>1
<1> QED
  BY <1>1, InitInv, StepInv, InitAlarm, StepAlarm, PTL DEF Spec, LossIsAlarmed

-----------------------------------------------------------------------------
(* DeletesOnlyBackedUp, by MovesHeld, PathsHeld and BackupHeld beside IInv. *)

(* MovesHeld outlasts a step that takes up no file, brings none back to the *)
(* rig and starts no row of a name that was never written.                  *)
LEMMA MovesKept ==
  ASSUME MovesHeld, UNCHANGED <<wrote, open>>,
         scanned' => scanned /\ UNCHANGED <<batch, col>>,
         \A f \in Files : rig'[f] # None => rig[f] # None,
         \A f \in open : rig'[f] # None,
         \A f \in Files : Active(f)' => Active(f),
         \A f \in Files : row'[f].st # "none" => wrote[f] # None,
         \A f \in Files : scanned' /\ row'[f].st \in Waiting => row[f].st \in Waiting
  PROVE  MovesHeld'
<1>1. \A f \in open' : rig'[f] # None
  OBVIOUS
<1>2. \A f \in Files : row'[f].st # "none" \/ Active(f)' => wrote'[f] # None
  BY DEF MovesHeld
<1>3. scanned' => CollectorIdle'
  BY DEF MovesHeld, CollectorIdle
<1>4. ASSUME NEW f \in Files, NEW g \in Files, Shared(f, g)'
      PROVE  /\ rig'[f] = None \/ rig'[g] = None
             /\ ~(Active(f)' /\ Active(g)')
             /\ scanned' => row'[f].st \notin Waiting \/ row'[g].st \notin Waiting
  <2>1. Shared(f, g)
    BY <1>4 DEF Shared
  <2> QED
    BY <2>1 DEF MovesHeld
<1> QED
  BY <1>1, <1>2, <1>3, <1>4 DEF MovesHeld

(* MovesHeld is about the rig and the collector alone. *)
LEMMA MovesFrame ==
  ASSUME MovesHeld, UNCHANGED <<rig, wrote, open, row, scanned, batch, col>>
  PROVE  MovesHeld'
BY DEF MovesHeld, CollectorIdle, Active, Shared

(* A new name is given to a frame by N.I.N.A. or by a rename; in both cases *)
(* the name had no row and no task, and the frame is on the rig but once.   *)
LEMMA MovesNina ==
  ASSUME IInv, MovesHeld, Nina PROVE MovesHeld'
<1>1. ASSUME NEW f \in Files, NEW c \in Frames, NinaBegin(f, c) PROVE MovesHeld'
  <2>1. /\ wrote[f] = None /\ wrote' = [wrote EXCEPT ![f] = c] /\ \A g \in Files : wrote[g] # c
        /\ rig' = [rig EXCEPT ![f] = Partial] /\ open' = open \cup {f}
        /\ UNCHANGED <<row, scanned, batch, col>>
    BY <1>1 DEF NinaBegin
  <2>2. wrote'[f] = c /\ rig'[f] = Partial /\ \A g \in Files \ {f} : wrote'[g] = wrote[g] /\ rig'[g] = rig[g]
    BY <2>1 DEF TypeOK
  <2>3. \A g \in open' : rig'[g] # None
    BY <2>1, <2>2, FramesAssumption DEF MovesHeld, TypeOK
  <2>4. \A g \in Files : row'[g].st # "none" \/ Active(g)' => wrote'[g] # None
    BY <2>1, <2>2, FramesAssumption DEF MovesHeld, Active
  <2>5. scanned' => CollectorIdle'
    BY <2>1 DEF MovesHeld, CollectorIdle
  <2>6. \A g, h \in Files : Shared(g, h)' => Shared(g, h) /\ g # f /\ h # f
    BY <2>1, <2>2 DEF Shared
  <2> QED
    BY <2>1, <2>2, <2>3, <2>4, <2>5, <2>6 DEF MovesHeld, Active
<1>2. ASSUME NEW f \in Files, NinaFinish(f) \/ NinaReopen(f) PROVE MovesHeld'
  <2>1. rig[f] # None /\ UNCHANGED <<wrote, row, scanned, batch, col>>
    BY <1>2, FramesAssumption DEF NinaFinish, NinaReopen, MovesHeld
  <2>2. rig'[f] # None /\ \A g \in Files \ {f} : rig'[g] = rig[g]
    BY <1>2, FramesAssumption DEF NinaFinish, NinaReopen, TypeOK, RigHeld
  <2>3. \A g \in open' : rig'[g] # None
    BY <1>2, <2>2 DEF NinaFinish, NinaReopen, MovesHeld, TypeOK
  <2> QED
    BY <2>1, <2>2, <2>3 DEF MovesHeld, CollectorIdle, Active, Shared
<1>3. ASSUME NEW f \in Files, NinaAbort(f) PROVE MovesHeld'
  BY <1>3 DEF NinaAbort, MovesHeld, CollectorIdle, Active, Shared
<1>4. ASSUME NEW f \in Files, NEW g \in Files, RigMove(f, g) PROVE MovesHeld'
  <2>1. /\ wrote[g] = None /\ rig[f] \in Frames /\ f \notin open /\ f # g
        /\ wrote' = [wrote EXCEPT ![g] = rig[f]]
        /\ rig' = [rig EXCEPT ![f] = None, ![g] = rig[f]]
        /\ UNCHANGED <<open, row, scanned, batch, col>>
    BY <1>4, FramesAssumption DEF RigMove, RigHeld
  <2>2. /\ wrote'[g] = rig[f] /\ rig'[g] = rig[f] /\ rig'[f] = None /\ wrote[f] = rig[f]
        /\ \A h \in Files \ {g} : wrote'[h] = wrote[h]
        /\ \A h \in Files \ {f, g} : rig'[h] = rig[h]
    BY <2>1, FramesAssumption DEF TypeOK, RigHeld
  <2>3. \A h \in open' : rig'[h] # None
    BY <2>1, <2>2, FramesAssumption DEF MovesHeld, TypeOK
  <2>4. \A h \in Files : row'[h].st # "none" \/ Active(h)' => wrote'[h] # None
    BY <2>1, <2>2, FramesAssumption DEF MovesHeld, Active
  <2>5. row[g].st = "none" /\ ~Active(g) /\ \A h \in Files : Active(h)' <=> Active(h)
    BY <2>1, <2>4 DEF MovesHeld, Active
  <2>6. ASSUME NEW h \in Files, NEW k \in Files, Shared(h, k)'
        PROVE  /\ rig'[h] = None \/ rig'[k] = None
               /\ ~(Active(h)' /\ Active(k)')
               /\ scanned' => row'[h].st \notin Waiting \/ row'[k].st \notin Waiting
    <3>1. CASE h # g /\ k # g
      <4>1. Shared(h, k)
        BY <2>2, <2>6, <3>1 DEF Shared
      <4>2. \A m \in Files \ {g} : rig[m] = None => rig'[m] = None
        BY <2>2
      <4>3. UNCHANGED <<row, scanned>> /\ h \in Files \ {g} /\ k \in Files \ {g}
        BY <2>1, <3>1
      <4> QED
        BY <2>5, <4>1, <4>2, <4>3 DEF MovesHeld
    <3>2. ASSUME h = g \/ k = g, NEW m \in Files, m \in {h, k}, m # g PROVE rig'[m] = None
      <4>1. wrote[m] = rig[f]
        BY <2>2, <2>6, <3>2 DEF Shared
      <4>2. m # f => Shared(f, m)
        BY <2>2, <4>1, <2>1, FramesAssumption DEF Shared
      <4> QED
        BY <2>1, <2>2, <4>2, <3>2, FramesAssumption DEF MovesHeld
    <3> QED
      BY <2>1, <2>5, <2>6, <3>1, <3>2 DEF Shared, Waiting
  <2>7. scanned' => CollectorIdle'
    BY <2>1 DEF MovesHeld, CollectorIdle
  <2> QED
    BY <2>3, <2>4, <2>6, <2>7 DEF MovesHeld
<1> QED
  BY <1>1, <1>2, <1>3, <1>4 DEF Nina

(* A person may delete a frame; no other fault reaches the rig's names. *)
LEMMA MovesFaults ==
  ASSUME IInv, MovesHeld, Faults PROVE MovesHeld'
<1>1. ASSUME NEW f \in Files, UserDelete(f) PROVE MovesHeld'
  <2>1. \A g \in Files : rig'[g] = IF g = f THEN None ELSE rig[g]
    BY <1>1 DEF UserDelete, TypeOK
  <2>2. f \notin open /\ UNCHANGED <<wrote, open, row, scanned, batch, col>>
    BY <1>1 DEF UserDelete, Fault
  <2> QED
    BY <2>1, <2>2, MovesKept DEF Active, MovesHeld, TypeOK
<1>2. ASSUME NEW f \in Files, RotRig(f) \/ RotNas(f) \/ LoseNas(f) \/ LoseS3(f) PROVE MovesHeld'
  BY <1>2, MovesFrame DEF RotRig, RotNas, LoseNas, HurtNas, LoseS3
<1>3. ASSUME NEW c \in Contents, RotSpool(c) PROVE MovesHeld'
  BY <1>3, MovesFrame DEF RotSpool
<1> QED
  BY <1>1, <1>2, <1>3 DEF Faults

(* A crash ends every task; the next poll scans again. *)
LEMMA MovesCrash ==
  ASSUME IInv, MovesHeld, Crash PROVE MovesHeld'
<1>1. scanned' = FALSE /\ \A f \in Files : ~Active(f)'
  BY DEF Crash, Active
<1>2. UNCHANGED <<wrote, open, rig, row>>
  BY DEF Crash
<1> QED
  BY <1>1, <1>2, MovesKept DEF MovesHeld

(* The rows that wait after a scan are of files the scan found on the rig. *)
LEMMA MovesScan ==
  ASSUME IInv, MovesHeld, Scan PROVE MovesHeld'
<1>1. CollectorIdle /\ UNCHANGED <<wrote, open, rig, batch, col>>
  BY DEF Scan
<1>2. \A f \in Files : row'[f].st \in Waiting => rig[f] # None
  <2> TAKE f \in Files
  <2>1. row[f] \in Rows
    BY DEF TypeOK
  <2>2. CASE rig[f] = None
    <3>1. row'[f] = IF row[f].st \in Waiting \cup {"collected"} THEN [row[f] EXCEPT !.st = "gone"] ELSE row[f]
      BY <2>2 DEF Scan
    <3> QED
      BY <2>1, <3>1 DEF Rows, Waiting
  <2> QED
    BY <2>2
<1>3. \A f \in Files : row'[f].st # "none" => wrote[f] # None
  <2> TAKE f \in Files
  <2>1. CASE rig[f] # None
    BY <2>1 DEF RigHeld
  <2>2. CASE rig[f] = None /\ row[f].st = "none"
    BY <2>2 DEF Scan, Waiting
  <2>3. CASE row[f].st # "none"
    BY <2>3 DEF MovesHeld
  <2> QED
    BY <2>1, <2>2, <2>3
<1> QED
  BY <1>1, <1>2, <1>3 DEF MovesHeld, CollectorIdle, Active, Shared

(* The batch is of rows that wait after a scan, so it holds a frame once. *)
LEMMA MovesStable ==
  ASSUME IInv, MovesHeld, CollectStable PROVE MovesHeld'
<1>1. /\ scanned /\ CollectorIdle /\ scanned' = FALSE
      /\ \A f \in batch' : f \in Files /\ row[f].st \in Waiting
      /\ UNCHANGED <<wrote, open, rig, row, col>>
  BY DEF CollectStable
<1>2. \A f \in Files : Active(f)' => row[f].st \in Waiting
  BY <1>1 DEF Active, CollectorIdle
<1> QED
  BY <1>1, <1>2 DEF MovesHeld, Shared, Waiting

(* The collector takes up nothing outside a batch. *)
LEMMA MovesCollect ==
  ASSUME IInv, MovesHeld, NEW f \in Files, Collect(f) \/ Exclude(f) PROVE MovesHeld'
<1>1. UNCHANGED <<wrote, open, rig, scanned>> /\ batch' \subseteq batch
  BY DEF Collect, CollectCheck, CollectRead, CollectVerify, StoreNas, Ingest, Commit, Exclude
<1>2. \A g \in Files \ {f} : row'[g] = row[g] /\ col'[g] = col[g]
  BY DEF Collect, CollectCheck, CollectRead, CollectVerify, StoreNas, Ingest, Commit, Exclude, Failed, TypeOK
<1>3. CASE Collect(f)
  <2>1. Active(f)
    <3>1. f \in batch \/ col[f].pc \in {"checked", "copied", "spooled", "stored", "ingested"}
      BY <1>3 DEF Collect, CollectCheck, CollectRead, CollectVerify, StoreNas, Ingest, Commit
    <3> QED
      BY <3>1 DEF Active, IdleTask
  <2>2. ~scanned /\ wrote[f] # None
    BY <2>1 DEF MovesHeld, CollectorIdle, Active
  <2> QED
    BY <1>1, <1>2, <2>1, <2>2, MovesKept DEF Active, MovesHeld
<1>4. CASE Exclude(f)
  <2>1. row[f] \in Rows /\ row[f].st # "none" /\ row'[f] = [row[f] EXCEPT !.st = "excluded"] /\ UNCHANGED <<batch, col>>
    BY <1>4 DEF Exclude, TypeOK
  <2>2. row'[f].st = "excluded"
    BY <2>1 DEF Rows
  <2>3. \A g \in Files : row'[g].st # "none" => wrote[g] # None
    BY <1>2, <2>1 DEF MovesHeld
  <2>4. \A g \in Files : row'[g].st \in Waiting => row[g].st \in Waiting
    BY <1>2, <2>2 DEF Waiting
  <2> QED
    BY <1>1, <2>1, <2>3, <2>4, MovesKept DEF Active, MovesHeld
<1> QED
  BY <1>3, <1>4

(* Cleanup takes files off the rig and rows off the waiting list. *)
LEMMA MovesClean ==
  ASSUME IInv, AlarmHeld, MovesHeld, Clean PROVE MovesHeld'
<1>1. CASE CleanPlan \/ \E k \in cl.plan : CleanRecheck(k)
  BY <1>1, MovesFrame DEF CleanPlan, CleanRecheck
<1>2. CASE CleanDelete
  <2>1. /\ UNCHANGED <<wrote, open, row, scanned, batch, col>>
        /\ rig' = rig \/ (cl.cand.path \notin open /\ rig' = [rig EXCEPT ![cl.cand.path] = None])
    BY <1>2 DEF CleanDelete
  <2>2. \A f \in Files : rig'[f] # None => rig[f] # None
    BY <2>1 DEF TypeOK
  <2>3. \A f \in open : rig'[f] # None
    BY <2>1 DEF TypeOK, MovesHeld
  <2> QED
    BY <2>1, <2>2, <2>3, MovesKept DEF Active, MovesHeld
<1>3. CASE CleanRecord
  <2>1. /\ UNCHANGED <<wrote, open, rig, scanned, batch, col>>
        /\ row' = row \/ (cl.cand.loc = "rig" /\ row' = [row EXCEPT ![cl.cand.path].st = "cleaned"])
    BY <1>3 DEF CleanRecord
  <2>2. CASE UNCHANGED row
    BY <2>1, <2>2, MovesFrame
  <2>3. CASE cl.cand.loc = "rig" /\ row' = [row EXCEPT ![cl.cand.path].st = "cleaned"]
    <3>1. PICK f \in Files : f = cl.cand.path
      BY <1>3, <2>3 DEF CleanRecord, CleanerHeld, Candidates
    <3>2. \A g \in Files : row'[g] = IF g = f THEN [row[f] EXCEPT !.st = "cleaned"] ELSE row[g]
      BY <2>3, <3>1 DEF TypeOK
    <3>3. row[f] \in Rows /\ wrote[f] # None
      BY <1>3, <2>3, <3>1, FramesAssumption DEF CleanRecord, AlarmHeld, Wanted, Registered, TypeOK, Contents
    <3>4. row'[f].st = "cleaned"
      BY <3>2, <3>3 DEF Rows
    <3>5. \A g \in Files : row'[g].st # "none" => wrote[g] # None
      BY <3>2, <3>3 DEF MovesHeld
    <3>6. \A g \in Files : row'[g].st \in Waiting => row[g].st \in Waiting
      BY <3>2, <3>4 DEF Waiting
    <3> QED
      BY <2>1, <3>5, <3>6, MovesKept DEF Active, MovesHeld
  <2> QED
    BY <2>1, <2>2, <2>3
<1> QED
  BY <1>1, <1>2, <1>3 DEF Clean, CleanOn

(* MovesHeld is inductive beside IInv and AlarmHeld. *)
LEMMA StepMoves ==
  ASSUME IInv, AlarmHeld, MovesHeld, [Next]_vars PROVE MovesHeld'
<1>1. ASSUME NEW s \in {"rig", "nas"}, ShareDown(s) \/ ShareUp(s) PROVE MovesHeld'
  BY <1>1, MovesFrame DEF ShareDown, ShareUp
<1>2. CASE Replicate
  BY <1>2, MovesFrame DEF Replicate, ReplBegin, ReplPick, ReplPut, ReplRecord
<1>3. CASE Scrub
  BY <1>3, MovesFrame DEF Scrub, ScrubBegin, ScrubS3, CacheEvict, ScrubNas, HealFetch, HealRemove, HealWrite, HealRecord, S3Rewrite
<1>4. CASE UNCHANGED vars
  BY <1>4, MovesFrame DEF vars
<1> QED
  BY <1>1, <1>2, <1>3, <1>4, MovesNina, MovesFaults, MovesCrash, MovesScan, MovesStable, MovesCollect, MovesClean DEF Next

(* PathsHeld outlasts a step that leaves the paths, the tasks and the scrub. *)
LEMMA PathsFrame ==
  ASSUME PathsHeld, UNCHANGED <<nasUri, blobPath, col, sc>>
  PROVE  PathsHeld'
BY DEF PathsHeld

(* A task that is dropped, or not at the catalog yet, says nothing of paths. *)
LEMMA PathsTask ==
  ASSUME TypeOK, PathsHeld, UNCHANGED <<nasUri, blobPath, sc>>,
         \A g \in Files : col'[g] = col[g] \/ col'[g].pc # "stored"
  PROVE  PathsHeld'
BY DEF PathsHeld

(* Once a frame is registered, its copies go to the path of its blob; a     *)
(* second copy cannot have been stored elsewhere before.                    *)
LEMMA PathsCollect ==
  ASSUME IInv, MovesHeld, PathsHeld, NEW f \in Files, Collect(f) PROVE PathsHeld'
<1>0. col[f] \in Tasks /\ \A g \in Files \ {f} : col'[g] = col[g]
  BY DEF Collect, CollectCheck, CollectRead, CollectVerify, StoreNas, Ingest, Commit, Failed, TypeOK
<1>1. CASE CollectCheck(f) \/ CollectRead(f) \/ CollectVerify(f) \/ Commit(f)
  <2>1. col'[f] = col[f] \/ col'[f].pc # "stored"
    BY <1>0, <1>1 DEF CollectCheck, CollectRead, CollectVerify, Commit, Failed, IdleTask, Tasks, TypeOK
  <2> QED
    BY <1>0, <1>1, <2>1, PathsTask DEF CollectCheck, CollectRead, CollectVerify, Commit
<1>2. CASE StoreNas(f)
  <2>1. col'[f] = IdleTask \/ (/\ col'[f].sha = col[f].sha
                               /\ col'[f].path = IF blobPath[col[f].sha] # None THEN blobPath[col[f].sha] ELSE f)
    BY <1>0, <1>2 DEF StoreNas, Failed, Tasks, TypeOK
  <2>2. blobPath[col[f].sha] = None \/ col'[f] = IdleTask \/ col'[f].path = blobPath[col'[f].sha]
    BY <2>1
  <2>3. UNCHANGED <<nasUri, blobPath, sc>>
    BY <1>2 DEF StoreNas
  <2> QED
    BY <1>0, <2>1, <2>2, <2>3 DEF PathsHeld, IdleTask
<1>3. CASE Ingest(f)
  <2> DEFINE c == col[f].sha
             p == col[f].path
  <2>1. c \in Contents /\ c = wrote[f] /\ c \in Frames /\ p # None /\ Active(f)
    BY <1>0, <1>3, FramesAssumption DEF Ingest, CollectorHeld, TaskHeld, Active, IdleTask, Tasks, Contents
  <2>2. blobPath[c] \in {None, p}
    BY <1>3 DEF Ingest, PathsHeld
  <2>3. /\ \A d \in Contents : blobPath'[d] = IF d = c THEN p ELSE blobPath[d]
        /\ \A d \in Contents : nasUri'[d] = IF d = c THEN p ELSE nasUri[d]
    BY <1>3, <2>1, <2>2 DEF Ingest, TypeOK, Registered
  <2>4. \A d \in Contents : nasUri'[d] = blobPath'[d]
    BY <2>3 DEF PathsHeld
  <2>5. col'[f].pc = "ingested" /\ UNCHANGED sc
    BY <1>0, <1>3 DEF Ingest, TypeOK, Tasks
  <2>6. ASSUME NEW g \in Files, col'[g].pc = "stored" PROVE blobPath'[col'[g].sha] \in {None, col'[g].path}
    <3>1. g # f /\ col'[g] = col[g] /\ Active(g)
      BY <1>0, <2>5, <2>6 DEF Active, IdleTask
    <3>2. col[g].sha = wrote[g] /\ wrote[g] \in Frames /\ col[g].sha \in Contents
      BY <2>6, <3>1 DEF CollectorHeld, TaskHeld, Contents
    <3>3. wrote[g] # wrote[f]
      BY <2>1, <3>1, <3>2, FramesAssumption DEF MovesHeld, Shared
    <3> QED
      BY <2>1, <2>3, <2>6, <3>1, <3>2, <3>3 DEF PathsHeld
  <2>7. sc.pc = "check" => sc.uri = blobPath'[sc.sha]
    <3>1. sc.pc = "check" => sc.sha \in Frames /\ blobPath[sc.sha] # None /\ sc.uri = blobPath[sc.sha]
      BY DEF ScrubHeld, PathsHeld
    <3>2. sc.pc = "check" => blobPath'[sc.sha] = blobPath[sc.sha]
      BY <2>2, <2>3, <3>1 DEF Contents
    <3> QED
      BY <3>1, <3>2
  <2> QED
    BY <2>4, <2>5, <2>6, <2>7 DEF PathsHeld
<1> QED
  BY <1>1, <1>2, <1>3 DEF Collect

(* The scrub takes the path the catalog names, and a heal writes there. *)
LEMMA PathsScrub ==
  ASSUME IInv, PathsHeld, Scrub PROVE PathsHeld'
<1>1. ASSUME NEW c \in Contents, ScrubBegin(c) PROVE PathsHeld'
  BY <1>1 DEF ScrubBegin, PathsHeld
<1>2. ASSUME NEW c \in Contents, ScrubS3(c) \/ CacheEvict(c) PROVE PathsHeld'
  BY <1>2 DEF ScrubS3, CacheEvict, PathsHeld
<1>3. CASE ScrubNas \/ HealFetch \/ HealRemove \/ HealWrite \/ S3Rewrite
  <2>1. UNCHANGED <<nasUri, blobPath, col>>
    BY <1>3 DEF ScrubNas, HealFetch, HealRemove, HealWrite, S3Rewrite
  <2>2. sc'.pc # "check"
    BY <1>3 DEF ScrubNas, HealFetch, HealRemove, HealWrite, S3Rewrite, IdleScrub, TypeOK, Scrubs
  <2> QED
    BY <2>1, <2>2 DEF PathsHeld
<1>4. CASE HealRecord
  <2>1. nasUri' = [nasUri EXCEPT ![sc.sha] = blobPath[sc.sha]] /\ UNCHANGED <<blobPath, col>> /\ sc'.pc = "idle"
    BY <1>4 DEF HealRecord, IdleScrub
  <2> QED
    BY <2>1 DEF PathsHeld, TypeOK
<1> QED
  BY <1>1, <1>2, <1>3, <1>4 DEF Scrub

(* PathsHeld is inductive beside IInv and MovesHeld. *)
LEMMA StepPaths ==
  ASSUME IInv, MovesHeld, PathsHeld, [Next]_vars PROVE PathsHeld'
<1>1. CASE Nina \/ Faults
  BY <1>1, PathsFrame DEF Nina, NinaBegin, NinaFinish, NinaAbort, NinaReopen, RigMove,
                          Faults, RotRig, UserDelete, RotSpool, RotNas, LoseNas, HurtNas, LoseS3
<1>2. CASE Crash
  BY <1>2 DEF Crash, PathsHeld, IdleTask, IdleScrub
<1>3. ASSUME NEW s \in {"rig", "nas"}, ShareDown(s) \/ ShareUp(s) PROVE PathsHeld'
  BY <1>3, PathsFrame DEF ShareDown, ShareUp
<1>4. CASE Scan \/ CollectStable
  BY <1>4, PathsFrame DEF Scan, CollectStable
<1>5. ASSUME NEW f \in Files, Exclude(f) PROVE PathsHeld'
  BY <1>5, PathsFrame DEF Exclude
<1>6. CASE Replicate \/ Clean
  BY <1>6, PathsFrame DEF Replicate, ReplBegin, ReplPick, ReplPut, ReplRecord,
                          Clean, CleanOn, CleanPlan, CleanRecheck, CleanDelete, CleanRecord
<1>7. CASE UNCHANGED vars
  BY <1>7, PathsFrame DEF vars
<1> QED
  BY <1>1, <1>2, <1>3, <1>4, <1>5, <1>6, <1>7, PathsCollect, PathsScrub DEF Next

(* What S3 was recorded to hold is recorded after a put or a rewrite. *)
LEMMA StepRecord ==
  ASSUME IInv, RecordHeld, [Next]_vars PROVE RecordHeld'
<1>0. Keeps
  BY StepKeeps
<1>1. ASSUME UNCHANGED s3Rep, rp'.pc # "record" \/ UNCHANGED rp PROVE RecordHeld'
  <2>1. rp.pc = "record" => rp.cur \in Frames
    BY DEF ReplicatorHeld, Registered, CatalogHeld, Named
  <2> QED
    BY <1>0, <1>1, <2>1 DEF RecordHeld, Keeps
<1>2. CASE Nina \/ Faults
  BY <1>1, <1>2 DEF Nina, NinaBegin, NinaFinish, NinaAbort, NinaReopen, RigMove,
                    Faults, RotRig, UserDelete, RotSpool, RotNas, LoseNas, HurtNas, LoseS3
<1>3. CASE Crash \/ Scan \/ CollectStable
  <2>1. UNCHANGED s3Rep /\ (rp' = IdlePass \/ UNCHANGED rp)
    BY <1>3 DEF Crash, Scan, CollectStable
  <2> QED
    BY <1>1, <2>1 DEF IdlePass
<1>4. ASSUME NEW s \in {"rig", "nas"}, ShareDown(s) \/ ShareUp(s) PROVE RecordHeld'
  BY <1>1, <1>4 DEF ShareDown, ShareUp
<1>5. ASSUME NEW f \in Files, Collect(f) \/ Exclude(f) PROVE RecordHeld'
  BY <1>1, <1>5 DEF Collect, CollectCheck, CollectRead, CollectVerify, StoreNas, Ingest, Commit, Exclude
<1>6. CASE Clean
  BY <1>1, <1>6 DEF Clean, CleanOn, CleanPlan, CleanRecheck, CleanDelete, CleanRecord
<1>7. CASE ReplBegin \/ \E c \in rp.queue : ReplPick(c)
  <2>1. rp \in Passes /\ rp.pc = "idle" /\ UNCHANGED s3Rep
    <3>1. rp \in Passes
      BY DEF TypeOK
    <3>2. (rp = IdlePass \/ rp.pc = "idle") /\ UNCHANGED s3Rep
      BY <1>7 DEF ReplBegin, ReplPick
    <3> QED
      BY <3>1, <3>2 DEF IdlePass
  <2>2. rp'.pc \in {"idle", "put"}
    BY <1>7, <2>1 DEF ReplBegin, ReplPick, Passes
  <2> QED
    BY <1>1, <2>1, <2>2
<1>8. CASE ReplPut
  <2> DEFINE c == rp.cur
             key == blobPath[c]
  <2>1. rp \in Passes /\ c \in Frames /\ key \in Files /\ wrote[key] = c
    BY <1>8 DEF ReplPut, ReplicatorHeld, Registered, CatalogHeld, Named, TypeOK
  <2>2. UNCHANGED s3Rep
    BY <1>8 DEF ReplPut
  <2>3. CASE rp'.pc # "record"
    BY <1>1, <2>2, <2>3
  <2>4. CASE rp' = [rp EXCEPT !.pc = "record"] /\ UNCHANGED s3 /\ s3[key] # NoObject
    <3>1. rp'.cur = c /\ Safe(c)
      BY <2>1, <2>4 DEF Passes, S3Held, Safe, S3Good
    <3> QED
      BY <1>0, <2>1, <2>2, <3>1 DEF RecordHeld, Keeps
  <2>5. CASE /\ rp' = [rp EXCEPT !.pc = "record"] /\ Readable(c, rp.from)
             /\ s3' = [s3 EXCEPT ![key] = [meta |-> c, data |-> BytesOf(c, rp.from)]]
    <3>1. BytesOf(c, rp.from) = c \/ c \in hurt
      BY <1>8, <2>1, <2>5, SourceHeld DEF ReplPut
    <3>2. s3'[key].data = c \/ c \in hurt
      BY <2>1, <2>5, <3>1 DEF TypeOK
    <3>3. rp'.cur = c /\ Safe(c)'
      BY <1>0, <2>1, <2>5, <3>2 DEF Passes, Safe, S3Good, Keeps
    <3> QED
      BY <1>0, <2>2, <3>3 DEF RecordHeld, Keeps
  <2>6. \/ EndPass \/ NextItem
        \/ rp' = [rp EXCEPT !.pc = "record"] /\ UNCHANGED s3 /\ s3[key] # NoObject
        \/ /\ rp' = [rp EXCEPT !.pc = "record"] /\ Readable(c, rp.from)
           /\ s3' = [s3 EXCEPT ![key] = [meta |-> c, data |-> BytesOf(c, rp.from)]]
    BY <1>8 DEF ReplPut
  <2>7. EndPass \/ NextItem => rp'.pc # "record"
    <3>1. rp \in Passes
      BY DEF TypeOK
    <3>2. EndPass => rp'.pc = "idle"
      BY DEF EndPass, IdlePass
    <3>3. NextItem => rp'.pc = "idle"
      BY <3>1 DEF NextItem, Passes
    <3> QED
      BY <3>2, <3>3
  <2> QED
    BY <2>3, <2>4, <2>5, <2>6, <2>7
<1>9. CASE ReplRecord
  <2>1. rp.cur \in Frames /\ Safe(rp.cur) /\ rp'.pc = "idle" /\ s3Rep' = [s3Rep EXCEPT ![rp.cur] = "present"]
    BY <1>9 DEF ReplRecord, NextItem, TypeOK, Passes, ReplicatorHeld, Registered, CatalogHeld, Named, RecordHeld
  <2> QED
    BY <1>0, <2>1 DEF RecordHeld, Keeps, TypeOK
<1>10. CASE S3Rewrite
  <2>1. sc.sha \in Frames /\ blobPath[sc.sha] \in Files /\ UNCHANGED rp
    BY <1>10 DEF S3Rewrite, ScrubHeld, TypeOK, Contents
  <2>2. CASE UNCHANGED s3Rep
    BY <1>1, <2>1, <2>2
  <2>3. CASE /\ s3' = [s3 EXCEPT ![blobPath[sc.sha]] = [meta |-> sc.sha, data |-> sc.sha]]
             /\ s3Rep' = [s3Rep EXCEPT ![sc.sha] = "present"]
    <3>1. PICK c \in Frames, p \in Files : c = sc.sha /\ p = blobPath[sc.sha]
      BY <2>1
    <3>2. s3'[p].data = c
      BY <2>3, <3>1 DEF TypeOK
    <3>3. Safe(c)'
      BY <3>1, <3>2 DEF Safe, S3Good
    <3>4. \A d \in Contents : s3Rep'[d] = IF d = c THEN "present" ELSE s3Rep[d]
      BY <2>3, <3>1 DEF TypeOK
    <3>5. \A d \in Contents : s3Rep'[d] = "present" => d \in Frames /\ Safe(d)'
      BY <1>0, <3>1, <3>3, <3>4 DEF RecordHeld, Keeps
    <3>6. rp.pc = "record" => rp.cur \in Frames
      BY DEF ReplicatorHeld, Registered, CatalogHeld, Named
    <3> QED
      BY <1>0, <2>1, <3>5, <3>6 DEF RecordHeld, Keeps
  <2> QED
    BY <1>10, <2>2, <2>3 DEF S3Rewrite
<1>11. ASSUME NEW c \in Contents, ScrubS3(c) PROVE RecordHeld'
  <2>1. s3Rep' = [s3Rep EXCEPT ![c] = "corrupt"] /\ UNCHANGED rp
    BY <1>11 DEF ScrubS3
  <2>2. rp.pc = "record" => rp.cur \in Frames
    BY DEF ReplicatorHeld, Registered, CatalogHeld, Named
  <2> QED
    BY <1>0, <2>1, <2>2 DEF RecordHeld, Keeps, TypeOK
<1>12. CASE ScrubNas \/ HealFetch \/ HealRemove \/ HealWrite \/ HealRecord \/ \E c \in Contents : ScrubBegin(c) \/ CacheEvict(c)
  BY <1>1, <1>12 DEF ScrubBegin, CacheEvict, ScrubNas, HealFetch, HealRemove, HealWrite, HealRecord
<1>13. CASE UNCHANGED vars
  BY <1>1, <1>13 DEF vars
<1> QED
  BY <1>2, <1>3, <1>4, <1>5, <1>6, <1>7, <1>8, <1>9, <1>10, <1>11, <1>12, <1>13 DEF Next, Replicate, Scrub

(* The copy a deletion relies on is not taken away meanwhile: nobody writes *)
(* over it, the scrub only removes a copy it found lost or corrupt at the   *)
(* path of the catalog, and there is one cleaner.                           *)
LEMMA OnFileKept ==
  ASSUME IInv, PathsHeld, [Next]_vars, NEW c \in Contents, OnFile(c), cl.pc = "delete", cl'.pc = "delete"
  PROVE  OnFile(c)'
<1>0. Keeps
  BY StepKeeps
<1>1. CASE c \in hurt
  BY <1>0, <1>1 DEF OnFile, Keeps
<1> DEFINE p == blobPath[c]
<1>2. ASSUME UNCHANGED <<nasRep, nas>> PROVE OnFile(c)'
  BY <1>0, <1>2 DEF OnFile, Keeps
<1> SUFFICES ASSUME c \notin hurt PROVE OnFile(c)'
  BY <1>1
<1>3. nasRep[c] = "present" /\ p \in Files /\ nas[p] = c /\ wrote[p] = c /\ c \in Frames /\ p # None
  BY FramesAssumption DEF OnFile, TypeOK, CatalogHeld, Named
<1>4. blobPath'[c] = p
  BY <1>0, <1>3 DEF Keeps
<1> HIDE DEF p
<1>5. ASSUME nas'[p] = c, nasRep'[c] = "present" PROVE OnFile(c)'
  BY <1>3, <1>4, <1>5 DEF OnFile
<1>6. ASSUME NEW q \in Files, NEW b, HurtNas(q, b) PROVE OnFile(c)'
  <2>1. q = p => c \in hurt'
    BY <1>3, <1>6 DEF HurtNas
  <2>2. q # p => nas'[p] = c /\ nasRep'[c] = "present"
    BY <1>3, <1>6 DEF HurtNas, TypeOK
  <2> QED
    BY <1>5, <2>1, <2>2 DEF OnFile
<1>7. CASE Faults
  <2>1. ASSUME NEW q \in Files, RotRig(q) \/ UserDelete(q) \/ LoseS3(q) PROVE OnFile(c)'
    BY <1>2, <2>1 DEF RotRig, UserDelete, LoseS3
  <2>2. ASSUME NEW d \in Contents, RotSpool(d) PROVE OnFile(c)'
    BY <1>2, <2>2 DEF RotSpool
  <2> QED
    BY <1>6, <1>7, <2>1, <2>2 DEF Faults, RotNas, LoseNas
<1>8. CASE Nina
  BY <1>2, <1>8 DEF Nina, NinaBegin, NinaFinish, NinaAbort, NinaReopen, RigMove
<1>9. CASE Crash \/ Scan \/ CollectStable
  BY <1>2, <1>9 DEF Crash, Scan, CollectStable
<1>10. ASSUME NEW s \in {"rig", "nas"}, ShareDown(s) \/ ShareUp(s) PROVE OnFile(c)'
  BY <1>2, <1>10 DEF ShareDown, ShareUp
<1>11. CASE Replicate
  BY <1>2, <1>11 DEF Replicate, ReplBegin, ReplPick, ReplPut, ReplRecord
<1>12. ASSUME NEW f \in Files, StoreNas(f) PROVE OnFile(c)'
  <2>1. UNCHANGED nasRep /\ (nas' = nas \/ \E q \in Files : nas[q] \in {None, col[f].sha} /\ nas' = [nas EXCEPT ![q] = col[f].sha])
    <3>1. CASE UNCHANGED nas
      BY <1>12, <3>1 DEF StoreNas
    <3>2. CASE nas' # nas
      <4> DEFINE q == IF blobPath[col[f].sha] # None THEN blobPath[col[f].sha] ELSE f
      <4>1. nas' = [nas EXCEPT ![q] = col[f].sha] /\ nas[q] \in {None, col[f].sha} /\ UNCHANGED nasRep
        BY <1>12, <3>2 DEF StoreNas, NasAccepts
      <4>2. col[f].sha \in Contents
        BY <1>12 DEF StoreNas, CollectorHeld, TaskHeld, TypeOK, Contents
      <4>3. q \in Files
        BY <4>2 DEF TypeOK
      <4> QED
        BY <4>1, <4>3
    <3> QED
      BY <3>1, <3>2
  <2>2. nas'[p] = c
    BY <1>3, <2>1, FramesAssumption DEF TypeOK, Contents
  <2> QED
    BY <1>3, <1>5, <2>1, <2>2
<1>13. ASSUME NEW f \in Files, Ingest(f) PROVE OnFile(c)'
  <2>1. UNCHANGED nas /\ nasRep' = [nasRep EXCEPT ![col[f].sha] = "present"]
    BY <1>13 DEF Ingest
  <2> QED
    BY <1>3, <1>5, <2>1 DEF TypeOK
<1>14. ASSUME NEW f \in Files, CollectCheck(f) \/ CollectRead(f) \/ CollectVerify(f) \/ Commit(f) \/ Exclude(f) PROVE OnFile(c)'
  BY <1>2, <1>14 DEF CollectCheck, CollectRead, CollectVerify, Commit, Exclude
<1>15. CASE Clean
  <2>1. ~CleanRecord /\ ~CleanDelete
    BY DEF CleanDelete, CleanRecord, NextCandidate, TypeOK, Runs
  <2>2. \A k \in cl.plan : ~CleanRecheck(k)
    BY DEF CleanRecheck
  <2> QED
    BY <1>2, <1>15, <2>1, <2>2 DEF Clean, CleanOn, CleanPlan
<1>16. CASE Scrub
  <2>1. ASSUME NEW d \in Contents, ScrubBegin(d) \/ ScrubS3(d) \/ CacheEvict(d) PROVE OnFile(c)'
    BY <1>2, <2>1 DEF ScrubBegin, ScrubS3, CacheEvict
  <2>2. CASE HealFetch \/ S3Rewrite
    BY <1>2, <2>2 DEF HealFetch, S3Rewrite
  <2>3. CASE HealRecord
    <3>1. UNCHANGED nas /\ nasRep' = [nasRep EXCEPT ![sc.sha] = "present"]
      BY <2>3 DEF HealRecord
    <3> QED
      BY <1>3, <1>5, <3>1 DEF TypeOK
  <2>4. CASE ScrubNas
    <3>1. UNCHANGED nas /\ sc.uri = blobPath[sc.sha]
      BY <2>4 DEF ScrubNas, PathsHeld
    <3>2. CASE sc.sha # c
      <4>1. nasRep'[c] = nasRep[c]
        BY <2>4, <3>2 DEF ScrubNas, TypeOK
      <4> QED
        BY <1>3, <1>5, <3>1, <4>1
    <3>3. CASE sc.sha = c
      <4>1. sc.uri = p
        BY <3>1, <3>3 DEF p
      <4>2. OnNas(sc.uri) \/ "nas" \notin up
        BY <1>3, <4>1, FramesAssumption DEF OnNas
      <4>3. UNCHANGED nasRep \/ c \in hurt'
        BY <1>3, <2>4, <3>3, <4>1, <4>2 DEF ScrubNas
      <4> QED
        BY <1>3, <1>5, <3>1, <4>3 DEF OnFile
    <3> QED
      BY <3>2, <3>3
  <2>5. CASE HealRemove
    <3>1. UNCHANGED nasRep /\ (nas' = nas \/ (/\ nas' = [nas EXCEPT ![nasUri[sc.sha]] = None]
                                              /\ nasRep[sc.sha] \in {"lost", "corrupt"} /\ nasUri[sc.sha] # None))
      BY <2>5 DEF HealRemove
    <3>2. CASE UNCHANGED nas
      BY <1>2, <3>1, <3>2
    <3>3. CASE /\ nas' = [nas EXCEPT ![nasUri[sc.sha]] = None]
               /\ nasRep[sc.sha] \in {"lost", "corrupt"} /\ nasUri[sc.sha] # None
      <4>1. sc.sha \in Frames /\ wrote[nasUri[sc.sha]] = sc.sha
        BY <2>5, <3>3 DEF HealRemove, ScrubHeld, CatalogHeld, Named, Contents
      <4>2. nasUri[sc.sha] # p
        BY <1>3, <3>3, <4>1
      <4> QED
        BY <1>3, <1>5, <3>1, <3>3, <4>2 DEF TypeOK
    <3> QED
      BY <3>1, <3>2, <3>3
  <2>6. CASE HealWrite
    <3>1. UNCHANGED nasRep /\ (nas' = nas \/ (/\ nas' = [nas EXCEPT ![blobPath[sc.sha]] = sc.sha]
                                              /\ nas[blobPath[sc.sha]] \in {None, sc.sha}))
      BY <2>6 DEF HealWrite, NasAccepts
    <3>2. nas'[p] = c
      BY <1>3, <3>1, FramesAssumption DEF TypeOK
    <3> QED
      BY <1>3, <1>5, <3>1, <3>2
  <2> QED
    BY <1>16, <2>1, <2>2, <2>3, <2>4, <2>5, <2>6 DEF Scrub
<1>17. CASE UNCHANGED vars
  BY <1>2, <1>17 DEF vars
<1> QED
  BY <1>7, <1>8, <1>9, <1>10, <1>11, <1>12, <1>13, <1>14, <1>15, <1>16, <1>17 DEF Next, Collect

(* A re-check that passes has seen what the deletion relies on. *)
LEMMA RecheckSees ==
  ASSUME IInv, PathsHeld, CandidateHeld, NEW k \in cl.plan, RecheckPasses(k)
  PROVE  /\ k.sha \in Lights => Safe(k.sha)
         /\ k.loc # "nas" => OnFile(k.sha)
<1>1. k.sha \in Contents /\ k.loc \in {"spool", "rig", "nas"}
  BY DEF TypeOK, Runs, Candidates
<1>2. k.loc # "spool" /\ k.sha \in Lights => Safe(k.sha)
  BY <1>1, FreshSafe DEF RecheckPasses
<1>3. ASSUME k.loc # "nas" PROVE OnFile(k.sha)
  <2> DEFINE p == blobPath[k.sha]
  <2>1. nasRep[k.sha] = "present" /\ OnNas(p)
    BY <1>1, <1>3 DEF RecheckPasses, FreshNas, PathsHeld
  <2>2. p \in Files /\ p # None /\ nas[p] # None /\ wrote[p] = k.sha
    BY <1>1, <2>1 DEF OnNas, TypeOK, CatalogHeld, Named
  <2>3. nas[p] = k.sha \/ k.sha \in hurt
    BY <2>2 DEF NasHeld
  <2> QED
    BY <2>1, <2>2, <2>3 DEF OnFile
<1> QED
  BY <1>2, <1>3 DEF CandidateHeld

(* CandidateHeld is inductive beside the others. *)
LEMMA StepCandidate ==
  ASSUME IInv, PathsHeld, RecordHeld, CandidateHeld, [Next]_vars PROVE CandidateHeld'
<1>0. Keeps
  BY StepKeeps
<1>1. \A k \in cl.plan : k.loc = "spool" /\ k.sha \in Lights => Safe(k.sha)'
  BY <1>0, FramesAssumption DEF CandidateHeld, Keeps
<1>2. ASSUME cl'.plan \subseteq cl.plan, cl'.pc # "delete" PROVE CandidateHeld'
  BY <1>1, <1>2 DEF CandidateHeld
<1>3. ASSUME UNCHANGED cl PROVE CandidateHeld'
  <2>1. ASSUME cl.pc = "delete" PROVE cl.cand.sha \in Lights => Safe(cl.cand.sha)'
    BY <1>0, <1>3, <2>1, FramesAssumption DEF CandidateHeld, Keeps
  <2>2. ASSUME cl.pc = "delete", cl.cand.loc # "nas" PROVE OnFile(cl.cand.sha)'
    <3>1. PICK c \in Contents : c = cl.cand.sha /\ OnFile(c)
      BY <2>2 DEF CleanerHeld, CandidateHeld, Candidates
    <3>2. OnFile(c)'
      BY <1>3, <2>2, <3>1, OnFileKept
    <3> QED
      BY <1>3, <3>1, <3>2
  <2> QED
    BY <1>1, <1>3, <2>1, <2>2 DEF CandidateHeld
<1>4. CASE CleanPlan
  <2>1. PICK plan \in SUBSET Eligible : cl' = [cl EXCEPT !.plan = plan]
    BY <1>4 DEF CleanPlan
  <2>2. cl'.pc = "idle" /\ cl'.plan = plan
    BY <1>4, <2>1 DEF CleanPlan, IdleRun
  <2>3. ASSUME NEW k \in Eligible, k.loc = "spool", k.sha \in Lights PROVE Safe(k.sha)'
    <3> DEFINE Both == {c \in spoolRow \cap Registered :
                          /\ nasRep[c] = "present"
                          /\ c \in Lights => s3Rep[c] = "present"}
    <3>1. k \in [loc : {"spool"}, sha : Both, path : {None}]
      BY <2>3 DEF Eligible
    <3>2. k.sha \in Both
      BY <3>1
    <3>3. k.sha \in Contents /\ s3Rep[k.sha] = "present"
      BY <2>3, <3>2 DEF Registered
    <3> QED
      BY <1>0, <3>3 DEF RecordHeld, Keeps
  <2> QED
    BY <2>2, <2>3 DEF CandidateHeld
<1>5. ASSUME NEW k \in cl.plan, CleanRecheck(k) PROVE CandidateHeld'
  <2>1. cl \in Runs /\ cl.pc = "idle" /\ k.sha \in Contents
    BY <1>5 DEF CleanRecheck, TypeOK, Runs, Candidates
  <2>2. CASE cl' = [cl EXCEPT !.plan = @ \ {k}]
    <3>1. cl'.pc = "idle" /\ cl'.plan \subseteq cl.plan
      BY <2>1, <2>2 DEF Runs
    <3> QED
      BY <1>2, <3>1
  <2>3. CASE RecheckPasses(k) /\ cl' = [cl EXCEPT !.pc = "delete", !.cand = k]
    <3>1. cl'.pc = "delete" /\ cl'.plan = cl.plan /\ cl'.cand = k
      BY <2>1, <2>3 DEF Runs
    <3>2. k.sha \in Lights => Safe(k.sha)'
      BY <1>0, <2>3, RecheckSees, FramesAssumption DEF Keeps
    <3>3. k.loc # "nas" => OnFile(k.sha)'
      <4>1. k.loc # "nas" => UNCHANGED <<nasRep, nas, blobPath, hurt>>
        BY <1>5 DEF CleanRecheck, FoundCorrupt
      <4> QED
        BY <2>3, <4>1, RecheckSees DEF OnFile
    <3> QED
      BY <1>1, <3>1, <3>2, <3>3 DEF CandidateHeld
  <2> QED
    BY <1>5, <2>2, <2>3 DEF CleanRecheck
<1>6. CASE CleanDelete \/ CleanRecord
  <2>1. cl \in Runs
    BY DEF TypeOK
  <2>2. NextCandidate \/ cl' = [cl EXCEPT !.pc = "record"]
    BY <1>6 DEF CleanDelete, CleanRecord
  <2>3. cl'.plan \subseteq cl.plan /\ cl'.pc # "delete"
    BY <2>1, <2>2 DEF NextCandidate, Runs
  <2> QED
    BY <1>2, <2>3
<1>7. CASE Crash
  BY <1>7 DEF Crash, IdleRun, CandidateHeld
<1>8. CASE Nina \/ Faults \/ Scan \/ CollectStable \/ Replicate \/ UNCHANGED vars
  BY <1>3, <1>8 DEF Nina, NinaBegin, NinaFinish, NinaAbort, NinaReopen, RigMove, Scan, CollectStable,
                    Faults, RotRig, UserDelete, RotSpool, RotNas, LoseNas, HurtNas, LoseS3,
                    Replicate, ReplBegin, ReplPick, ReplPut, ReplRecord, vars
<1>9. ASSUME NEW f \in Files, Collect(f) \/ Exclude(f) PROVE CandidateHeld'
  BY <1>3, <1>9 DEF Collect, CollectCheck, CollectRead, CollectVerify, StoreNas, Ingest, Commit, Exclude
<1>10. ASSUME NEW s \in {"rig", "nas"}, ShareDown(s) \/ ShareUp(s) PROVE CandidateHeld'
  BY <1>3, <1>10 DEF ShareDown, ShareUp
<1>11. CASE Scrub
  BY <1>3, <1>11 DEF Scrub, ScrubBegin, ScrubS3, CacheEvict, ScrubNas, HealFetch, HealRemove, HealWrite, HealRecord, S3Rewrite
<1> QED
  BY <1>4, <1>5, <1>6, <1>7, <1>8, <1>9, <1>10, <1>11 DEF Next, Clean, CleanOn

(* No name, task, replica or candidate exists at the start. *)
LEMMA InitBackup ==
  Init => MovesHeld /\ PathsHeld /\ RecordHeld /\ CandidateHeld
<1> SUFFICES ASSUME Init PROVE MovesHeld /\ PathsHeld /\ RecordHeld /\ CandidateHeld
  OBVIOUS
<1>1. MovesHeld
  BY DEF Init, MovesHeld, CollectorIdle, Shared, Active, NoRow
<1>2. PathsHeld
  BY DEF Init, PathsHeld, IdleTask, IdleScrub
<1>3. RecordHeld /\ CandidateHeld
  BY DEF Init, RecordHeld, CandidateHeld, IdlePass, IdleRun
<1> QED
  BY <1>1, <1>2, <1>3

(* The step that deletes a copy of an untouched light takes nothing else. *)
LEMMA DeleteSteps ==
  ASSUME IInv, CandidateHeld, [Next]_vars, cl.pc = "delete", cl'.pc = "record", cl.cand.sha \in Lights \ hurt
  PROVE  S3Good(cl.cand.sha) /\ (cl.cand.loc # "nas" => NasGood(cl.cand.sha))
<1>1. cl.cand.sha \in Contents
  BY DEF CleanerHeld, Candidates
<1> QED
  BY <1>1 DEF CandidateHeld, Safe, OnFile, NasGood, TypeOK

(* In every behaviour, at the moment cleanup deletes a copy of a light no   *)
(* fault touched, S3 holds the light, and so does the NAS when it is the    *)
(* rig's original or the spooled file that goes: whatever the collector,    *)
(* the replicator and the scrub did since the re-check (SPEC 7.1).          *)
THEOREM DeletesOnlyBackedUpHolds == Spec => DeletesOnlyBackedUp
<1> HIDE DEF IInv
<1> DEFINE BackedUp == cl.pc = "delete" /\ cl'.pc = "record" /\ cl.cand.sha \in Lights \ hurt
                         => /\ S3Good(cl.cand.sha)
                            /\ cl.cand.loc # "nas" => NasGood(cl.cand.sha)
           BInv == MovesHeld /\ PathsHeld /\ RecordHeld /\ CandidateHeld
<1>1. ASSUME IInv, BInv, [Next]_vars PROVE [BackedUp]_vars
  <2>1. BackedUp
    BY <1>1, DeleteSteps
  <2> QED
    BY <2>1
<1>2. ASSUME IInv, AlarmHeld, BInv, [Next]_vars PROVE BInv'
  BY <1>2, StepMoves, StepPaths, StepRecord, StepCandidate
<1> HIDE DEF BInv
<1>3. Init => BInv
  BY InitBackup DEF BInv
<1> QED
  BY <1>1, <1>2, <1>3, InitInv, StepInv, InitAlarm, StepAlarm, PTL DEF Spec, DeletesOnlyBackedUp
=============================================================================
