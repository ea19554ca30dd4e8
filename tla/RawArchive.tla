------------------------------ MODULE RawArchive ------------------------------
(***************************************************************************)
(* The path of a raw frame from a rig PC to its durable copies: the rig    *)
(* collector, the NAS safe write, the S3 replicator, retention cleanup and *)
(* the integrity scrub of altaird, each on its own thread, sharing the     *)
(* SQLite catalog and the file systems.                                    *)
(*                                                                         *)
(* A path (an element of Files) names the same relative path on the rig    *)
(* and, as raw/<rig>/<path>, on the NAS and in S3.  Its (size, mtime) is   *)
(* identified with the frame written there, or Partial while it is being   *)
(* written, so a stat is a comparison of contents and never sees bit rot.  *)
(*                                                                         *)
(* wrote, seenAt, hurt and budget are history: no step of the code reads   *)
(* them.                                                                   *)
(***************************************************************************)
EXTENDS Naturals, FiniteSets

CONSTANTS
    Files,       \* relative paths below one rig's raw_root
    Frames,      \* the complete images N.I.N.A. takes
    Lights,      \* the frames of class raw_light, the others are raw_calibration
    Large,       \* the frames above multipart_chunk_mb
    None,
    Partial,     \* a file that is still being written, or was truncated
    Garbled,     \* bytes of a rotted file or of a bad read
    FaultKinds,  \* the faults the environment may inject
    MaxFaults, MaxCrashes, MaxOutages, MaxDisturbs, MaxPlan  \* bounds

ASSUME FramesAssumption ==
    /\ IsFiniteSet(Frames) /\ Lights \subseteq Frames
    /\ Large \subseteq Frames
    /\ Partial \notin Frames /\ Garbled \notin Frames /\ Partial # Garbled
    /\ None \notin Frames \cup {Partial, Garbled}
    /\ None \notin Files

Contents == Frames \cup {Partial, Garbled}

VARIABLES
    rig, rigRot, open, wrote,               \* the rig's disk and N.I.N.A.
    up,                                     \* the shares that answer
    row, atRisk, spoolRow,                  \* rig_files, DATA_AT_RISK issues, spool_files
    blobPath, age,                          \* blobs: logical path, created_at
    nasRep, nasUri, rigRep, rigUri, s3Rep,  \* replicas
    spool, nas, s3, cache,                  \* the bytes in each location
    scanned, batch, col,                    \* the collector's poll and its parallel copies
    rp,                                     \* the replicator's pass
    cl,                                     \* the cleaner's run
    sc,                                     \* the scrubber's run
    seenAt, hurt, budget                    \* history and bounds

rigVars     == <<rig, rigRot, open, wrote>>
rowVars     == <<row, atRisk, spoolRow>>
blobVars    == <<blobPath, age>>
replicaVars == <<nasRep, nasUri, rigRep, rigUri, s3Rep>>
byteVars    == <<spool, nas, s3, cache>>
colVars     == <<scanned, batch, col>>
histVars    == <<seenAt, hurt, budget>>
vars == <<rigVars, up, rowVars, blobVars, replicaVars, byteVars, colVars,
          rp, cl, sc, histVars>>

RowStates == {"none", "seen", "stuck", "collected", "gone", "cleaned", "excluded"}
WaitingOnce == {"seen"}   \* mutant: a stuck row is not taken up again
Waiting   == {"seen", "stuck"}
NoRow     == [st |-> "none", stamp |-> None, sha |-> None]
IdleTask  == [pc |-> "idle", sha |-> None, path |-> None]
IdlePass  == [pc |-> "idle", queue |-> {}, cur |-> None, from |-> None]
NoCand    == [loc |-> "none", sha |-> None, path |-> None]
IdleRun   == [pc |-> "idle", plan |-> {}, cand |-> NoCand]
IdleScrub == [pc |-> "idle", sha |-> None, uri |-> None]

NoObject  == [meta |-> None, data |-> None]

Rows    == [st : RowStates, stamp : Contents \cup {None}, sha : Contents \cup {None}]
Objects == [meta : Contents \cup {None}, data : Contents \cup {None}]
Tasks   == [pc : {"idle", "checked", "copied", "spooled", "stored", "ingested"},
            sha : Contents \cup {None}, path : Files \cup {None}]
Passes  == [pc : {"idle", "put", "record"}, queue : SUBSET Contents,
            cur : Contents \cup {None}, from : Files \cup {"spool", "cache", None}]
Candidates == [loc : {"spool", "rig", "nas"}, sha : Contents, path : Files \cup {None}]
Runs    == [pc : {"idle", "delete", "record"}, plan : SUBSET Candidates,
            cand : Candidates \cup {NoCand}]
Scrubs  == [pc : {"idle", "check", "fetch", "remove", "write", "record", "s3fix"},
            sha : Contents \cup {None}, uri : Files \cup {None}]
Budgets == [faults : Nat, crashes : Nat, outages : Nat, disturbs : Nat]

TypeOK ==
    /\ rig \in [Files -> Contents \cup {None}]
    /\ rigRot \subseteq Files /\ open \subseteq Files
    /\ wrote \in [Files -> Frames \cup {None}]
    /\ up \subseteq {"rig", "nas"}
    /\ row \in [Files -> Rows]
    /\ atRisk \subseteq Files /\ spoolRow \subseteq Contents
    /\ blobPath \in [Contents -> Files \cup {None}] /\ age \in [Contents -> Nat]
    /\ nasRep \in [Contents -> {"none", "present", "lost", "cleaned", "corrupt"}]
    /\ nasUri \in [Contents -> Files \cup {None}]
    /\ rigRep \in [Contents -> {"none", "present", "missing", "corrupt"}]
    /\ rigUri \in [Contents -> Files \cup {None}]
    /\ s3Rep \in [Contents -> {"none", "present", "corrupt"}]
    /\ spool \in [Contents -> {"none", "good", "bad"}]
    /\ nas \in [Files -> Contents \cup {None}]
    /\ s3 \in [Files -> Objects]
    /\ cache \subseteq Contents
    /\ scanned \in BOOLEAN /\ batch \subseteq Files
    /\ col \in [Files -> Tasks]
    /\ rp \in Passes /\ cl \in Runs /\ sc \in Scrubs
    /\ seenAt \in [Files -> Contents \cup {None}]
    /\ hurt \subseteq Contents
    /\ budget \in Budgets

Init ==
    /\ rig = [f \in Files |-> None] /\ rigRot = {} /\ open = {}
    /\ wrote = [f \in Files |-> None]
    /\ up = {"rig", "nas"}
    /\ row = [f \in Files |-> NoRow] /\ atRisk = {} /\ spoolRow = {}
    /\ blobPath = [c \in Contents |-> None] /\ age = [c \in Contents |-> 0]
    /\ nasRep = [c \in Contents |-> "none"] /\ nasUri = [c \in Contents |-> None]
    /\ rigRep = [c \in Contents |-> "none"] /\ rigUri = [c \in Contents |-> None]
    /\ s3Rep = [c \in Contents |-> "none"]
    /\ spool = [c \in Contents |-> "none"]
    /\ nas = [f \in Files |-> None] /\ s3 = [f \in Files |-> NoObject]
    /\ cache = {}
    /\ scanned = FALSE /\ batch = {} /\ col = [f \in Files |-> IdleTask]
    /\ rp = IdlePass /\ cl = IdleRun /\ sc = IdleScrub
    /\ seenAt = [f \in Files |-> None] /\ hurt = {}
    /\ budget = [faults |-> 0, crashes |-> 0, outages |-> 0, disturbs |-> 0]

Registered == {c \in Contents : blobPath[c] # None}

(* What a read of a path returns, while its location answers. *)
OnRig(f)  == "rig" \in up /\ rig[f] # None
RigRead(f) == IF f \in rigRot THEN Garbled ELSE rig[f]
OnNas(p)  == "nas" \in up /\ p # None /\ nas[p] # None

-----------------------------------------------------------------------------
(* N.I.N.A. and the people at the rig.  Paths are never reused: N.I.N.A.   *)
(* file patterns carry a date, a time and a frame number.                  *)

NinaBegin(f, c) ==
    /\ wrote[f] = None /\ \A g \in Files : wrote[g] # c
    /\ rig' = [rig EXCEPT ![f] = Partial]
    /\ wrote' = [wrote EXCEPT ![f] = c]
    /\ open' = open \cup {f}
    /\ UNCHANGED <<rigRot, up, rowVars, blobVars, replicaVars, byteVars, colVars, rp, cl, sc, histVars>>

NinaFinish(f) ==
    /\ f \in open
    /\ rig' = [rig EXCEPT ![f] = wrote[f]]
    /\ open' = open \ {f}
    /\ UNCHANGED <<rigRot, wrote, up, rowVars, blobVars, replicaVars, byteVars, colVars, rp, cl, sc, histVars>>

(* A write that never completes, or a plug-in that opens the file again and *)
(* writes the same image once more.                                         *)
Disturb == budget.disturbs < MaxDisturbs /\ budget' = [budget EXCEPT !.disturbs = @ + 1]

NinaAbort(f) ==
    /\ Disturb /\ f \in open
    /\ open' = open \ {f}
    /\ UNCHANGED <<rig, rigRot, wrote, up, rowVars, blobVars, replicaVars, byteVars, colVars, rp, cl, sc, seenAt, hurt>>

NinaReopen(f) ==
    /\ Disturb /\ rig[f] \in Frames /\ f \notin open \cup rigRot
    /\ rig' = [rig EXCEPT ![f] = Partial]
    /\ open' = open \cup {f}
    /\ UNCHANGED <<rigRot, wrote, up, rowVars, blobVars, replicaVars, byteVars, colVars, rp, cl, sc, seenAt, hurt>>

RigMove(f, g) ==
    /\ Disturb /\ rig[f] \in Frames /\ f \notin open \cup rigRot /\ wrote[g] = None
    /\ rig' = [rig EXCEPT ![f] = None, ![g] = rig[f]]
    /\ wrote' = [wrote EXCEPT ![g] = rig[f]]
    /\ UNCHANGED <<rigRot, open, up, rowVars, blobVars, replicaVars, byteVars, colVars, rp, cl, sc, seenAt, hurt>>

ShareDown(s) ==
    /\ budget.outages < MaxOutages /\ s \in up
    /\ up' = up \ {s}
    /\ budget' = [budget EXCEPT !.outages = @ + 1]
    /\ UNCHANGED <<rigVars, rowVars, blobVars, replicaVars, byteVars, colVars, rp, cl, sc, seenAt, hurt>>

ShareUp(s) ==
    /\ s \in {"rig", "nas"} \ up
    /\ up' = up \cup {s}
    /\ UNCHANGED <<rigVars, rowVars, blobVars, replicaVars, byteVars, colVars, rp, cl, sc, histVars>>

-----------------------------------------------------------------------------
(* The faults a backup exists for.  Each one is charged to the frame whose *)
(* copy outside the rig it touches.                                        *)

Fault(kind) ==
    /\ kind \in FaultKinds /\ budget.faults < MaxFaults
    /\ budget' = [budget EXCEPT !.faults = @ + 1]

(* Bit rot on the rig after the frame was collected, or a person deleting it. *)
RotRig(f) ==
    /\ Fault("rig") /\ row[f].st = "collected" /\ rig[f] \in Frames /\ f \notin open
    /\ rigRot' = rigRot \cup {f}
    /\ UNCHANGED <<rig, open, wrote, up, rowVars, blobVars, replicaVars, byteVars, colVars, rp, cl, sc, seenAt, hurt>>

UserDelete(f) ==
    /\ Fault("user") /\ rig[f] # None /\ f \notin open
    /\ rig' = [rig EXCEPT ![f] = None] /\ rigRot' = rigRot \ {f}
    /\ UNCHANGED <<open, wrote, up, rowVars, blobVars, replicaVars, byteVars, colVars, rp, cl, sc, seenAt, hurt>>

RotSpool(c) ==
    /\ Fault("spool") /\ spool[c] = "good"
    /\ spool' = [spool EXCEPT ![c] = "bad"] /\ hurt' = hurt \cup {c}
    /\ UNCHANGED <<rigVars, up, rowVars, blobVars, replicaVars, nas, s3, cache, colVars, rp, cl, sc, seenAt>>

HurtNas(p, bytes) ==
    /\ nas[p] # None
    /\ nas' = [nas EXCEPT ![p] = bytes] /\ hurt' = hurt \cup {wrote[p]}
    /\ UNCHANGED <<rigVars, up, rowVars, blobVars, replicaVars, spool, s3, cache, colVars, rp, cl, sc, seenAt>>
RotNas(p)  == Fault("nas") /\ HurtNas(p, Garbled)
LoseNas(p) == Fault("nas") /\ HurtNas(p, None)

LoseS3(p) ==
    /\ Fault("s3") /\ s3[p] # NoObject
    /\ s3' = [s3 EXCEPT ![p] = NoObject] /\ hurt' = hurt \cup {s3[p].meta}
    /\ UNCHANGED <<rigVars, up, rowVars, blobVars, replicaVars, spool, nas, cache, colVars, rp, cl, sc, seenAt>>

(* altaird dies: every worker's memory goes, the catalog and the files stay. *)
Crash ==
    /\ budget.crashes < MaxCrashes
    /\ budget' = [budget EXCEPT !.crashes = @ + 1]
    /\ scanned' = FALSE /\ batch' = {} /\ col' = [f \in Files |-> IdleTask]
    /\ rp' = IdlePass /\ cl' = IdleRun /\ sc' = IdleScrub
    /\ UNCHANGED <<rigVars, up, rowVars, blobVars, replicaVars, byteVars, seenAt, hurt>>

-----------------------------------------------------------------------------
(* The collector of the rig: a poll scans, then takes the stable rows as a  *)
(* batch and copies them in parallel; the next poll waits for all of them.  *)

CollectorIdle == batch = {} /\ \A f \in Files : col[f] = IdleTask

Scan ==
    /\ CollectorIdle /\ ~scanned /\ "rig" \in up
    /\ scanned' = TRUE
    /\ LET found == {f \in Files : rig[f] # None}
           gone  == {f \in Files \ found : row[f].st \in Waiting \cup {"collected"}}
           fresh == {f \in found : row[f].st \in {"none", "gone"}}
           moved == {f \in found : row[f].st \in Waiting}
       IN  /\ row' = [f \in Files |->
                        IF f \in fresh THEN [row[f] EXCEPT !.st = "seen", !.stamp = rig[f]]
                        ELSE IF f \in moved THEN [row[f] EXCEPT !.stamp = rig[f]]
                        ELSE IF f \in gone THEN [row[f] EXCEPT !.st = "gone"]
                        ELSE row[f]]
           /\ atRisk' = atRisk \cup {f \in gone : row[f].st \in Waiting}
           /\ rigRep' = [c \in Contents |->
                           IF \E f \in gone : row[f].st = "collected" /\ row[f].sha = c /\ rigRep[c] # "none"
                           THEN "missing" ELSE rigRep[c]]
    /\ seenAt' = rig
    /\ UNCHANGED <<rigVars, up, spoolRow, blobVars, nasRep, nasUri, rigUri, s3Rep, byteVars, batch, col, rp, cl, sc, hurt, budget>>

(* The rows that were stable for stable_seconds; none unless the NAS is usable. *)
CollectStable ==
    /\ CollectorIdle /\ scanned
    /\ scanned' = FALSE
    /\ batch' \in SUBSET (IF "nas" \in up THEN {f \in Files : row[f].st \in Waiting} ELSE {})
    /\ UNCHANGED <<rigVars, up, rowVars, blobVars, replicaVars, byteVars, col, rp, cl, sc, histVars>>

(* _failed: the row is stuck and the next poll tries again. *)
Failed(f) ==
    /\ row' = [row EXCEPT ![f].st = "stuck"]
    /\ col' = [col EXCEPT ![f] = IdleTask]

(* The first checks: unchanged since the scan, not held open, and complete. *)
CollectCheck(f) ==
    /\ f \in batch
    /\ batch' = batch \ {f}
    /\ \/ /\ OnRig(f) /\ (rig[f] # row[f].stamp \/ f \in open)
          /\ UNCHANGED <<row, col>>
       \/ /\ \/ ~OnRig(f)
             \/ (rig[f] = row[f].stamp /\ f \notin open /\ rig[f] = Partial)
          /\ Failed(f)
       \/ /\ OnRig(f) /\ rig[f] = row[f].stamp /\ f \notin open /\ rig[f] # Partial
          /\ col' = [col EXCEPT ![f].pc = "checked"]
          /\ UNCHANGED row
    /\ UNCHANGED <<rigVars, up, atRisk, spoolRow, blobVars, replicaVars, byteVars, scanned, rp, cl, sc, histVars>>

(* The copy to the spool's temporary file; its hash is what was read. *)
CollectRead(f) ==
    /\ col[f].pc = "checked"
    /\ \/ /\ OnRig(f)
          /\ col' = [col EXCEPT ![f].pc = "copied", ![f].sha = RigRead(f)]
          /\ UNCHANGED <<row, budget>>
       \/ /\ OnRig(f) /\ Disturb                   \* a bad read
          /\ col' = [col EXCEPT ![f].pc = "copied", ![f].sha = Garbled]
          /\ UNCHANGED row
       \/ /\ ~OnRig(f) /\ Failed(f) /\ UNCHANGED budget
    /\ UNCHANGED <<rigVars, up, atRisk, spoolRow, blobVars, replicaVars, byteVars, scanned, batch, rp, cl, sc, seenAt, hurt>>

(* Mutant: no second read and no second stat. *)
SecondReadSkipped(f) == OnRig(f)

(* The second read; a file of the same hash already in the spool is kept. *)
SecondReadMatches(f) == OnRig(f) /\ RigRead(f) = col[f].sha /\ rig[f] = row[f].stamp

CollectVerify(f) ==
    /\ col[f].pc = "copied"
    /\ IF SecondReadMatches(f)
       THEN /\ col' = [col EXCEPT ![f].pc = "spooled"]
            /\ spool' = [spool EXCEPT ![col[f].sha] = IF @ = "none" THEN "good" ELSE @]
            /\ UNCHANGED row
       ELSE Failed(f) /\ UNCHANGED spool
    /\ UNCHANGED <<rigVars, up, atRisk, spoolRow, blobVars, replicaVars, nas, s3, cache, scanned, batch, rp, cl, sc, histVars>>

(* write_verified from the spool: never over other bytes. *)
NasAccepts(p, c, source) == "nas" \in up /\ (nas[p] = c \/ (nas[p] = None /\ source = "good"))

StoreNas(f) ==
    /\ col[f].pc = "spooled"
    /\ LET c == col[f].sha
           p == IF blobPath[c] # None THEN blobPath[c] ELSE f
       IN  IF spool[c] # "none" /\ NasAccepts(p, c, spool[c])
           THEN /\ nas' = [nas EXCEPT ![p] = c]
                /\ col' = [col EXCEPT ![f].pc = "stored", ![f].path = p]
                /\ UNCHANGED row
           ELSE Failed(f) /\ UNCHANGED nas
    /\ UNCHANGED <<rigVars, up, atRisk, spoolRow, blobVars, replicaVars, spool, s3, cache, scanned, batch, rp, cl, sc, histVars>>

(* The ingest transaction: the blob once, its two replicas. *)
Ingest(f) ==
    /\ col[f].pc = "stored"
    /\ LET c == col[f].sha IN
       /\ IF c \in Registered THEN UNCHANGED blobVars
          ELSE /\ blobPath' = [blobPath EXCEPT ![c] = col[f].path]
               /\ age' = [age EXCEPT ![c] = 1 + Cardinality(Registered)]
       /\ nasRep' = [nasRep EXCEPT ![c] = "present"]
       /\ nasUri' = [nasUri EXCEPT ![c] = col[f].path]
       /\ rigRep' = [rigRep EXCEPT ![c] = "present"]
       /\ rigUri' = [rigUri EXCEPT ![c] = f]
    /\ col' = [col EXCEPT ![f].pc = "ingested"]
    /\ UNCHANGED <<rigVars, up, rowVars, s3Rep, byteVars, scanned, batch, rp, cl, sc, histVars>>

Commit(f) ==
    /\ col[f].pc = "ingested"
    /\ row' = [row EXCEPT ![f].st = "collected", ![f].sha = col[f].sha]
    /\ spoolRow' = spoolRow \cup {col[f].sha}
    /\ col' = [col EXCEPT ![f] = IdleTask]
    /\ UNCHANGED <<rigVars, up, atRisk, blobVars, replicaVars, byteVars, scanned, batch, rp, cl, sc, histVars>>

(* `altair collect exclude`, from another process, at any moment. *)
Exclude(f) ==
    /\ Disturb /\ row[f].st \notin {"none", "collected", "excluded"}
    /\ row' = [row EXCEPT ![f].st = "excluded"]
    /\ UNCHANGED <<rigVars, up, atRisk, spoolRow, blobVars, replicaVars, byteVars, colVars, rp, cl, sc, seenAt, hurt>>

-----------------------------------------------------------------------------
(* The replicator: a pass over the raw lights without an S3 replica, the    *)
(* oldest first.                                                            *)

Pending == {c \in Registered \cap Lights : s3Rep[c] # "present"}

ReplBegin ==
    /\ rp = IdlePass /\ Pending # {}
    /\ rp' = [rp EXCEPT !.queue = Pending]
    /\ UNCHANGED <<rigVars, up, rowVars, blobVars, replicaVars, byteVars, colVars, cl, sc, histVars>>

Youngest(c) == \A d \in rp.queue : age[c] >= age[d]   \* mutant: the newest first
Oldest(c)   == \A d \in rp.queue : age[c] <= age[d]

(* The spooled file, the cached one, else the NAS replica, or the item waits. *)
ReplPick(c) ==
    /\ rp.pc = "idle" /\ c \in rp.queue /\ Oldest(c)
    /\ rp' = IF c \in spoolRow /\ spool[c] # "none"
             THEN [rp EXCEPT !.pc = "put", !.cur = c, !.from = "spool"]
             ELSE IF c \in cache THEN [rp EXCEPT !.pc = "put", !.cur = c, !.from = "cache"]
             ELSE IF nasRep[c] = "present" /\ OnNas(nasUri[c])
             THEN [rp EXCEPT !.pc = "put", !.cur = c, !.from = nasUri[c]]
             ELSE [rp EXCEPT !.queue = @ \ {c}]
    /\ UNCHANGED <<rigVars, up, rowVars, blobVars, replicaVars, byteVars, colVars, cl, sc, histVars>>

Readable(c, from) ==
    CASE from = "spool" -> spool[c] # "none" [] from = "cache" -> c \in cache [] OTHER -> OnNas(from)
BytesOf(c, from)  ==
    CASE from = "spool" -> IF spool[c] = "good" THEN c ELSE Garbled [] from = "cache" -> c [] OTHER -> nas[from]

(* S3 checks the body of a single put against the declared SHA-256, a      *)
(* multipart upload only against what was read.                            *)
BodyRefused(c, bytes) == bytes # c /\ c \notin Large

EndPass  == rp' = IdlePass
NextItem == rp' = [rp EXCEPT !.pc = "idle", !.queue = @ \ {rp.cur}, !.cur = None, !.from = None]

(* The conditional write, then a HeadObject that compares the declared     *)
(* metadata.  An unreadable source, a refused body or an S3 error ends the *)
(* whole pass.                                                             *)
ReplPut ==
    /\ rp.pc = "put"
    /\ LET c == rp.cur
           key == blobPath[c]
           bytes == BytesOf(c, rp.from)
       IN  \/ /\ ~Readable(c, rp.from) \/ (s3[key] = NoObject /\ BodyRefused(c, bytes))
              /\ EndPass /\ UNCHANGED <<s3, budget>>
           \/ /\ budget.outages < MaxOutages       \* the uplink or S3 fails
              /\ budget' = [budget EXCEPT !.outages = @ + 1]
              /\ EndPass /\ UNCHANGED s3
           \/ /\ Readable(c, rp.from) /\ s3[key] = NoObject /\ ~BodyRefused(c, bytes)
              /\ s3' = [s3 EXCEPT ![key] = [meta |-> c, data |-> bytes]]
              /\ rp' = [rp EXCEPT !.pc = "record"] /\ UNCHANGED budget
           \/ /\ Readable(c, rp.from) /\ s3[key] # NoObject
              /\ IF s3[key].meta = c THEN rp' = [rp EXCEPT !.pc = "record"] ELSE NextItem
              /\ UNCHANGED <<s3, budget>>
    /\ UNCHANGED <<rigVars, up, rowVars, blobVars, replicaVars, spool, nas, cache, colVars, cl, sc, seenAt, hurt>>

ReplRecord ==
    /\ rp.pc = "record"
    /\ s3Rep' = [s3Rep EXCEPT ![rp.cur] = "present"]
    /\ NextItem
    /\ UNCHANGED <<rigVars, up, rowVars, blobVars, nasRep, nasUri, rigRep, rigUri, byteVars, colVars, cl, sc, histVars>>

-----------------------------------------------------------------------------
(* Retention cleanup: plan, then for each candidate re-check, delete and    *)
(* record.  Ages, free space, processing state and the other scheduling     *)
(* conditions are a free choice of the plan.                                *)

Eligible ==
    [loc : {"spool"}, sha : {c \in spoolRow \cap Registered : /\ nasRep[c] = "present"
                                                              /\ c \in Lights => s3Rep[c] = "present"},
     path : {None}]
    \cup {[loc |-> "rig", sha |-> row[f].sha, path |-> f] :
            f \in {g \in Files : row[g].st = "collected" /\ "rig" \in up}}
    \cup {[loc |-> "nas", sha |-> c, path |-> nasUri[c]] :
            c \in {d \in Registered : /\ nasRep[d] = "present"
                                      /\ d \in Lights => s3Rep[d] = "present"}}

CleanPlan ==
    /\ cl = IdleRun /\ "nas" \in up
    /\ \E plan \in (SUBSET Eligible) \ {{}} :
         /\ Cardinality(plan) <= MaxPlan
         /\ cl' = [cl EXCEPT !.plan = plan]
    /\ UNCHANGED <<rigVars, up, rowVars, blobVars, replicaVars, byteVars, colVars, rp, sc, histVars>>

(* Mutant: S3 is not asked again before a deletion. *)
FreshS3Assumed(c) == TRUE

(* _fresh: a stat on the NAS (its size is right), a HeadObject in S3. *)
FreshNas(c) == nasRep[c] = "present" /\ OnNas(nasUri[c])
FreshS3(c)  == s3Rep[c] = "present" /\ blobPath[c] # None /\ s3[blobPath[c]].meta = c

RigUnchanged(f, c) == OnRig(f) /\ rig[f] = row[f].stamp /\ RigRead(f) = c

RecheckPasses(k) ==
    \/ k.loc = "spool" /\ FreshNas(k.sha)
    \/ /\ k.loc = "rig" /\ FreshNas(k.sha)
       /\ k.sha \in Lights => FreshS3(k.sha)
       /\ RigUnchanged(k.path, k.sha)
    \/ /\ k.loc = "nas" /\ FreshS3(k.sha)
       /\ OnNas(k.path)
       /\ k.sha \in Lights => nas[k.path] = k.sha

FoundCorrupt(k) == k.loc = "nas" /\ k.sha \in Lights /\ FreshS3(k.sha) /\ OnNas(k.path) /\ nas[k.path] # k.sha

CleanRecheck(k) ==
    /\ cl.pc = "idle" /\ k \in cl.plan
    /\ cl' = IF RecheckPasses(k) THEN [cl EXCEPT !.pc = "delete", !.cand = k]
             ELSE [cl EXCEPT !.plan = @ \ {k}]
    /\ nasRep' = IF FoundCorrupt(k) /\ nasRep[k.sha] # "none" THEN [nasRep EXCEPT ![k.sha] = "corrupt"] ELSE nasRep
    /\ UNCHANGED <<rigVars, up, rowVars, blobVars, nasUri, rigRep, rigUri, s3Rep, byteVars, colVars, rp, sc, histVars>>

NextCandidate == cl' = [cl EXCEPT !.pc = "idle", !.plan = @ \ {cl.cand}, !.cand = NoCand]

(* A share that went away looks like a file that is already gone; a file    *)
(* N.I.N.A. holds open cannot be deleted.                                   *)
CleanDelete ==
    /\ cl.pc = "delete"
    /\ LET k == cl.cand IN
       \/ /\ k.loc = "spool"
          /\ spool' = [spool EXCEPT ![k.sha] = "none"]
          /\ cl' = [cl EXCEPT !.pc = "record"] /\ UNCHANGED <<rig, rigRot, nas>>
       \/ /\ k.loc = "rig" /\ ~("rig" \in up /\ k.path \in open)
          /\ IF "rig" \in up
             THEN rig' = [rig EXCEPT ![k.path] = None] /\ rigRot' = rigRot \ {k.path}
             ELSE UNCHANGED <<rig, rigRot>>
          /\ cl' = [cl EXCEPT !.pc = "record"] /\ UNCHANGED <<spool, nas>>
       \/ /\ k.loc = "rig" /\ "rig" \in up /\ k.path \in open
          /\ NextCandidate /\ UNCHANGED <<rig, rigRot, spool, nas>>
       \/ /\ k.loc = "nas"
          /\ nas' = IF "nas" \in up THEN [nas EXCEPT ![k.path] = None] ELSE nas
          /\ cl' = [cl EXCEPT !.pc = "record"] /\ UNCHANGED <<rig, rigRot, spool>>
    /\ UNCHANGED <<open, wrote, up, rowVars, blobVars, replicaVars, s3, cache, colVars, rp, sc, histVars>>

CleanRecord ==
    /\ cl.pc = "record"
    /\ LET k == cl.cand IN
       /\ spoolRow' = IF k.loc = "spool" THEN spoolRow \ {k.sha} ELSE spoolRow
       /\ rigRep' = IF k.loc = "rig" THEN [rigRep EXCEPT ![k.sha] = "missing"] ELSE rigRep
       /\ row' = IF k.loc = "rig" THEN [row EXCEPT ![k.path].st = "cleaned"] ELSE row
       /\ nasRep' = IF k.loc = "nas" THEN [nasRep EXCEPT ![k.sha] = "cleaned"] ELSE nasRep
    /\ NextCandidate
    /\ UNCHANGED <<rigVars, up, atRisk, blobVars, nasUri, rigUri, s3Rep, byteVars, colVars, rp, sc, histVars>>

-----------------------------------------------------------------------------
(* The scrub: re-hash a NAS replica, heal a lost or corrupt one from the    *)
(* rig or S3; re-verify an S3 replica, rewrite it from a good local copy.   *)
(* Cached copies are taken to stay intact.                                  *)

ScrubBegin(c) ==
    /\ sc = IdleScrub /\ "nas" \in up /\ nasRep[c] = "present"
    /\ sc' = [pc |-> "check", sha |-> c, uri |-> nasUri[c]]
    /\ UNCHANGED <<rigVars, up, rowVars, blobVars, replicaVars, byteVars, colVars, rp, cl, histVars>>

(* A copy written off only because the share is away counts as a fault. *)
ScrubNas ==
    /\ sc.pc = "check"
    /\ LET c == sc.sha IN
       \/ /\ ~OnNas(sc.uri)
          /\ nasRep' = [nasRep EXCEPT ![c] = "lost"]
          /\ IF "nas" \in up THEN UNCHANGED <<hurt, budget>>
             ELSE hurt' = hurt \cup {c} /\ budget' = [budget EXCEPT !.faults = @ + 1]
          /\ sc' = [sc EXCEPT !.pc = "fetch"]
       \/ /\ OnNas(sc.uri) /\ nas[sc.uri] # c
          /\ nasRep' = [nasRep EXCEPT ![c] = "corrupt"]
          /\ sc' = [sc EXCEPT !.pc = "fetch"] /\ UNCHANGED <<hurt, budget>>
       \/ /\ OnNas(sc.uri) /\ nas[sc.uri] = c
          /\ sc' = IdleScrub /\ UNCHANGED <<nasRep, hurt, budget>>
    /\ UNCHANGED <<rigVars, up, rowVars, blobVars, nasUri, rigRep, rigUri, s3Rep, byteVars, colVars, rp, cl, seenAt>>

(* _source without the NAS: the rig, then S3; a copy already in the cache  *)
(* is used as it is, a new one is hashed on the way in.                     *)
HealFetch ==
    /\ sc.pc = "fetch"
    /\ LET c == sc.sha
           onRig == rigRep[c] = "present" /\ rigUri[c] # None /\ OnRig(rigUri[c])
           inS3  == s3Rep[c] = "present" /\ blobPath[c] # None
           good  == \/ c \in cache /\ (onRig \/ inS3)
                    \/ onRig /\ RigRead(rigUri[c]) = c
                    \/ ~onRig /\ inS3 /\ s3[blobPath[c]].data = c
       IN  /\ rigRep' = IF onRig /\ ~good THEN [rigRep EXCEPT ![c] = "corrupt"] ELSE rigRep
           /\ cache' = IF good THEN cache \cup {c} ELSE cache
           /\ sc' = IF good THEN [sc EXCEPT !.pc = "remove"] ELSE IdleScrub
    /\ UNCHANGED <<rigVars, up, rowVars, blobVars, nasRep, nasUri, rigUri, s3Rep, spool, nas, s3, colVars, rp, cl, histVars>>

(* Housekeeping evicts a cached copy of a blob with another verified replica. *)
CacheEvict(c) ==
    /\ c \in cache /\ "present" \in {nasRep[c], rigRep[c], s3Rep[c]}
    /\ cache' = cache \ {c}
    /\ UNCHANGED <<rigVars, up, rowVars, blobVars, replicaVars, spool, nas, s3, colVars, rp, cl, sc, histVars>>

(* Only a copy that was lost, not cleaned up; what is in its place goes. *)
HealRemove ==
    /\ sc.pc = "remove"
    /\ IF nasRep[sc.sha] \in {"lost", "corrupt"} /\ nasUri[sc.sha] # None
       THEN /\ nas' = IF "nas" \in up THEN [nas EXCEPT ![nasUri[sc.sha]] = None] ELSE nas
            /\ sc' = [sc EXCEPT !.pc = "write"]
       ELSE sc' = IdleScrub /\ UNCHANGED nas
    /\ UNCHANGED <<rigVars, up, rowVars, blobVars, replicaVars, spool, s3, cache, colVars, rp, cl, histVars>>

HealWrite ==
    /\ sc.pc = "write"
    /\ LET p == blobPath[sc.sha] IN
       IF p # None /\ NasAccepts(p, sc.sha, IF sc.sha \in cache THEN "good" ELSE "bad")
       THEN nas' = [nas EXCEPT ![p] = sc.sha] /\ sc' = [sc EXCEPT !.pc = "record"]
       ELSE sc' = IdleScrub /\ UNCHANGED nas
    /\ UNCHANGED <<rigVars, up, rowVars, blobVars, replicaVars, spool, s3, cache, colVars, rp, cl, histVars>>

HealRecord ==
    /\ sc.pc = "record"
    /\ nasRep' = [nasRep EXCEPT ![sc.sha] = "present"]
    /\ nasUri' = [nasUri EXCEPT ![sc.sha] = blobPath[sc.sha]]
    /\ sc' = IdleScrub
    /\ UNCHANGED <<rigVars, up, rowVars, blobVars, rigRep, rigUri, s3Rep, byteVars, colVars, rp, cl, histVars>>

(* A head, and for a tenth of the sample a full download. *)
ScrubS3(c) ==
    /\ sc = IdleScrub /\ s3Rep[c] = "present" /\ blobPath[c] # None
    /\ s3[blobPath[c]] # [meta |-> c, data |-> c]
    /\ s3Rep' = [s3Rep EXCEPT ![c] = "corrupt"]
    /\ sc' = [pc |-> "s3fix", sha |-> c, uri |-> None]
    /\ UNCHANGED <<rigVars, up, rowVars, blobVars, nasRep, nasUri, rigRep, rigUri, byteVars, colVars, rp, cl, histVars>>

GoodLocal(c) ==
    \/ nasRep[c] = "present" /\ OnNas(nasUri[c]) /\ nas[nasUri[c]] = c
    \/ rigRep[c] = "present" /\ rigUri[c] # None /\ OnRig(rigUri[c]) /\ RigRead(rigUri[c]) = c
    \/ c \in cache

(* Mutant: the replica is marked present before the object is rewritten. *)
S3RewriteMarks ==
    /\ sc.pc = "s3fix"
    /\ s3Rep' = [s3Rep EXCEPT ![sc.sha] = "present"]
    /\ s3' = IF GoodLocal(sc.sha) THEN [s3 EXCEPT ![blobPath[sc.sha]] = [meta |-> sc.sha, data |-> sc.sha]] ELSE s3
    /\ sc' = IdleScrub
    /\ UNCHANGED <<rigVars, up, rowVars, blobVars, nasRep, nasUri, rigRep, rigUri, spool, nas, cache, colVars, rp, cl, histVars>>

S3Rewrite ==
    /\ sc.pc = "s3fix"
    /\ LET c == sc.sha IN
       IF GoodLocal(c)
       THEN /\ s3' = [s3 EXCEPT ![blobPath[c]] = [meta |-> c, data |-> c]]
            /\ s3Rep' = [s3Rep EXCEPT ![c] = "present"]
       ELSE UNCHANGED <<s3, s3Rep>>
    /\ sc' = IdleScrub
    /\ UNCHANGED <<rigVars, up, rowVars, blobVars, nasRep, nasUri, rigRep, rigUri, spool, nas, cache, colVars, rp, cl, histVars>>

-----------------------------------------------------------------------------
Nina ==
    \/ \E f \in Files : \/ \E c \in Frames : NinaBegin(f, c)
                        \/ NinaFinish(f) \/ NinaAbort(f) \/ NinaReopen(f)
    \/ \E f, g \in Files : RigMove(f, g)

Faults ==
    \/ \E f \in Files : RotRig(f) \/ UserDelete(f) \/ RotNas(f) \/ LoseNas(f) \/ LoseS3(f)
    \/ \E c \in Contents : RotSpool(c)

Collect(f) ==
    \/ CollectCheck(f) \/ CollectRead(f) \/ CollectVerify(f)
    \/ StoreNas(f) \/ Ingest(f) \/ Commit(f)

Replicate == ReplBegin \/ (\E c \in rp.queue : ReplPick(c)) \/ ReplPut \/ ReplRecord
CleanOn == (\E k \in cl.plan : CleanRecheck(k)) \/ CleanDelete \/ CleanRecord
Clean == CleanPlan \/ CleanOn
Scrub ==
    \/ \E c \in Contents : ScrubBegin(c) \/ ScrubS3(c) \/ CacheEvict(c)
    \/ ScrubNas \/ HealFetch \/ HealRemove \/ HealWrite \/ HealRecord \/ S3Rewrite

Next ==
    \/ Nina \/ Faults \/ Crash
    \/ \E s \in {"rig", "nas"} : ShareDown(s) \/ ShareUp(s)
    \/ Scan \/ CollectStable \/ \E f \in Files : Collect(f) \/ Exclude(f)
    \/ Replicate \/ Clean \/ Scrub

Spec == Init /\ [][Next]_vars

-----------------------------------------------------------------------------
(* Fairness: every worker's thread keeps ticking, though cleanup may find     *)
(* nothing old enough; a stable file stays stable, and a share that went      *)
(* away comes back.                                                         *)
Fairness ==
    /\ \A s \in {"rig", "nas"} : WF_vars(ShareUp(s))
    /\ WF_vars(Scan) /\ WF_vars(CollectStable)
    /\ \A f \in Files : WF_vars(NinaFinish(f)) /\ WF_vars(Collect(f)) /\ SF_vars(CollectStable /\ f \in batch')
    /\ WF_vars(Replicate) /\ WF_vars(CleanOn)

FairSpec == Spec /\ Fairness

NasGood(c) == \E p \in Files : nas[p] = c
S3Good(c)  == \E p \in Files : s3[p].data = c
RigGood(c) == \E f \in Files \ rigRot : rig[f] = c

(* A frame in the catalog whose copies outside the rig were touched by no   *)
(* fault has an intact copy on the NAS or in S3, whatever the collector,    *)
(* the replicator, cleanup, the scrub, outages and crashes interleave       *)
(* (SPEC 7.1: Altair never deletes the only verified copy of a blob).       *)
DurableCopy == \A c \in Registered \ hurt : NasGood(c) \/ S3Good(c)

(* One fault never costs a registered light: some location still holds it   *)
(* intact (cleanup's re-check, the hash of every copy and the S3 checksum). *)
SurvivesOneFault ==
    \A c \in Registered \cap Lights :
        budget.faults <= 1 => NasGood(c) \/ S3Good(c) \/ RigGood(c) \/ spool[c] = "good" \/ c \in cache

(* Nothing but whole frames is ever registered or archived under a name,    *)
(* though files are read while N.I.N.A. may reopen them and reads go wrong. *)
WholeFramesOnly ==
    /\ Registered \subseteq Frames
    /\ \A p \in Files : nas[p] # Partial /\ s3[p].meta \in Frames \cup {None}

(* At the moment cleanup deletes a copy of an untouched light, the copies   *)
(* it relies on really hold the light: both the NAS and S3 for a rig        *)
(* original or a spooled file, S3 for a NAS copy that ages out (SPEC 7.1).  *)
DeletesOnlyBackedUp ==
    [][cl.pc = "delete" /\ cl'.pc = "record" /\ cl.cand.sha \in Lights \ hurt
         => /\ S3Good(cl.cand.sha)
            /\ cl.cand.loc # "nas" => NasGood(cl.cand.sha)]_vars

(* A whole frame that one scan saw and that was gone before it was ever     *)
(* registered is reported as DATA_AT_RISK by the next scan (rig_worker).    *)
LossIsAlarmed ==
    [][\A f \in Files : (/\ seenAt[f] \in Frames \ Registered /\ seenAt'[f] = None
                         /\ row[f].st # "excluded") => f \in atRisk']_vars

(* A replica the scrub found corrupt is trusted again only when the object  *)
(* holds the frame: it was rewritten from a good copy (scrub.py:7).         *)
S3Recovery ==
    [][\A c \in Contents : s3Rep[c] = "corrupt" /\ s3Rep'[c] = "present" => S3Good(c)']_vars

(* The same, unless an object of the frame's name and declared hash is there *)
(* with other bytes: an object that was lost is uploaded again, by the scrub *)
(* or by the replicator that runs beside it, before it is trusted.          *)
S3Rotten(c) == \E p \in Files : s3[p].meta = c /\ s3[p].data # c

LostReuploaded ==
    [][\A c \in Contents : s3Rep[c] = "corrupt" /\ s3Rep'[c] = "present" => S3Good(c)' \/ S3Rotten(c)']_vars

(* Nothing is marked missing while the NAS is unhealthy (scrub.py).         *)
NothingLostWhileAway ==
    [][\A c \in Contents : nasRep'[c] = "lost" /\ nasRep[c] # "lost" => "nas" \in up]_vars

(* The ledger tells the truth: a rig file recorded as cleaned is gone.      *)
CleanedIsGone == \A f \in Files : row[f].st = "cleaned" => rig[f] = None

(* A calibration sub that its retention rule picked, whose NAS copy is      *)
(* intact, passes the re-check ("not in S3 by design").                     *)
CalibrationRetires ==
    \A k \in cl.plan : (cl.pc = "idle" /\ k.loc = "nas" /\ k.sha \notin Lights /\ OnNas(k.path) /\ nas[k.path] = k.sha)
                         => RecheckPasses(k)

(* A whole frame on the rig is registered, unless it leaves the rig, the     *)
(* operator excludes it, or its spooled copy rots before the NAS has it.     *)
CollectedInTheEnd ==
    \A f \in Files : rig[f] \in Frames
        ~> (rig[f] \in Registered \cup hurt \/ rig[f] \notin Frames \/ row[f].st = "excluded")

(* A registered light gets its S3 copy recorded, if no fault touches it     *)
(* ("as soon as the collector has pulled a raw light", docs/SPEC.md:1085).   *)
BackedUpInTheEnd == \A c \in Lights : c \in Registered ~> (s3Rep[c] = "present" \/ c \in hurt)

(* The same, unless an older light that a fault touched waits before it: one *)
(* that S3 refuses ends every pass (replicator.py).                         *)
BackedUpInItsTurn ==
    \A c \in Lights : c \in Registered ~>
        \/ s3Rep[c] = "present" \/ c \in hurt
        \/ \E d \in Registered \cap hurt : age[d] < age[c] /\ s3Rep[d] # "present"
=============================================================================
