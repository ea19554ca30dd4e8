----------------------------- MODULE RawArchiveInv -----------------------------
(***************************************************************************)
(* The inductive invariant behind DurableCopy, and what LossIsAlarmed and   *)
(* DeletesOnlyBackedUp need beside it.  Its heart is Held: a path           *)
(* is only ever given the bytes of the frame N.I.N.A. wrote there, so a     *)
(* wrong copy anywhere is one a fault left behind; and Backed: the catalog  *)
(* never counts on a NAS copy that is gone unless the frame is in S3.       *)
(***************************************************************************)
EXTENDS RawArchive

(* The frame is in S3, or a fault touched it. *)
Safe(c) == c \in hurt \/ S3Good(c)

(* The path holds the frame, or the frame does not need it to. *)
Backed(c, p) == Safe(c) \/ (p # None /\ nas[p] = c)

RigHeld ==
    /\ \A f \in Files : rig[f] \in {None, Partial, wrote[f]}
    /\ \A f \in Files : f \in open => wrote[f] # None
    /\ \A f \in Files : rig[f] # None => wrote[f] # None
    /\ \A f \in rigRot : /\ rig[f] # None /\ f \notin open /\ f \notin batch
                         /\ col[f] = IdleTask
                         /\ row[f].st \in {"collected", "cleaned", "excluded"}

NasHeld == \A p \in Files : nas[p] # None =>
    /\ wrote[p] \in Frames
    /\ nas[p] = wrote[p] \/ (nas[p] = Garbled /\ wrote[p] \in hurt)

S3Held == \A p \in Files : s3[p] # NoObject =>
    /\ wrote[p] \in Frames /\ s3[p].meta = wrote[p]
    /\ s3[p].data = wrote[p] \/ (s3[p].data = Garbled /\ wrote[p] \in hurt)

SpoolHeld == \A c \in Contents : spool[c] = "bad" => c \in hurt

(* What the catalog and each worker's memory say of a frame's paths. *)
Named(c, p) == p # None => wrote[p] = c /\ c \in Frames

CatalogHeld ==
    /\ \A c \in Contents : Named(c, blobPath[c]) /\ Named(c, nasUri[c])
    /\ \A c \in Contents : blobPath[c] # None <=> nasRep[c] # "none"
    /\ \A c \in Contents : nasRep[c] = "present" => Backed(c, nasUri[c])
    /\ \A c \in Contents : nasRep[c] \in {"lost", "corrupt", "cleaned"} => Safe(c)

TaskHeld(f) ==
    /\ row[f].st = "collected" => row[f].sha \in Frames /\ f \notin batch /\ col[f] = IdleTask
    /\ f \in batch => col[f] = IdleTask
    /\ col[f].pc \in {"checked", "copied"} => row[f].stamp = wrote[f] /\ wrote[f] \in Frames
    /\ col[f].pc \in {"copied", "spooled", "stored", "ingested"} => col[f].sha # None
    /\ col[f].pc \in {"spooled", "stored", "ingested"} => col[f].sha = wrote[f] /\ wrote[f] \in Frames
    /\ col[f].pc \in {"stored", "ingested"} => col[f].path # None /\ wrote[col[f].path] = col[f].sha
    /\ col[f].pc = "stored" => Backed(col[f].sha, col[f].path)
CollectorHeld == \A f \in Files : TaskHeld(f)

ReplicatorHeld ==
    /\ rp.queue \subseteq Registered
    /\ rp.pc \in {"put", "record"} => rp.cur \in Registered
    /\ rp.pc = "put" /\ rp.from \notin {"spool", "cache"} => rp.from # None /\ wrote[rp.from] = rp.cur

CleanerHeld ==
    /\ \A k \in cl.plan : /\ k.loc = "nas" => Named(k.sha, k.path)
                          /\ k.loc = "rig" => k.path # None
    /\ cl.pc \in {"delete", "record"} =>
         /\ cl.cand \in Candidates
         /\ cl.cand.loc = "nas" => /\ cl.cand.path # None
                                   /\ Named(cl.cand.sha, cl.cand.path)
                                   /\ Safe(cl.cand.sha) /\ blobPath[cl.cand.sha] # None
         /\ cl.cand.loc = "rig" => cl.cand.path # None

ScrubHeld ==
    /\ sc.pc # "idle" => sc.sha \in Frames /\ blobPath[sc.sha] # None
    /\ sc.pc = "check" => Backed(sc.sha, sc.uri)
    /\ sc.pc \in {"fetch", "remove", "write", "record"} => Safe(sc.sha)

(* What no step takes back: the frame named by a path, a fault's mark, a    *)
(* frame's safety, a registration, and an intact NAS copy that is needed.   *)
Keeps ==
    /\ \A p \in Files : wrote[p] # None => wrote'[p] = wrote[p]
    /\ hurt \subseteq hurt'
    /\ \A c \in Frames : Safe(c) => Safe(c)'
    /\ \A c \in Contents : blobPath[c] # None => blobPath'[c] = blobPath[c]
    /\ \A p \in Files, c \in Frames : nas[p] = c => nas'[p] = c \/ Safe(c)'

IInv ==
    /\ TypeOK /\ RigHeld /\ NasHeld /\ S3Held /\ SpoolHeld
    /\ CatalogHeld /\ CollectorHeld /\ ReplicatorHeld /\ CleanerHeld /\ ScrubHeld

(* The invariant behind LossIsAlarmed: what a scan saw on the rig has a row *)
(* that still waits, or its frame is registered.                            *)
Wanted(k) == k.loc = "rig" => k.path \in Files /\ wrote[k.path] \in Registered

AlarmHeld ==
    /\ \A f \in Files : seenAt[f] # None =>
         /\ wrote[f] \in Frames /\ seenAt[f] \in {Partial, wrote[f]}
         /\ row[f].st \notin {"none", "gone"}
    /\ \A f \in Files : row[f].st \in {"collected", "cleaned"} \/ col[f].pc = "ingested"
                          => wrote[f] \in Registered
    /\ \A k \in cl.plan : Wanted(k)
    /\ cl.pc \in {"delete", "record"} => Wanted(cl.cand)

(* The invariant behind DeletesOnlyBackedUp.  A file that is renamed on the *)
(* rig shares its frame with its new name; because a poll waits for every   *)
(* copy of the last one, the two names are never collected at once, so a    *)
(* frame has one path on the NAS and the scrub and cleanup look at the same *)
(* copy.                                                                    *)
Active(f)    == f \in batch \/ col[f] # IdleTask
Shared(f, g) == f # g /\ wrote[f] # None /\ wrote[f] = wrote[g]

MovesHeld ==
    /\ \A f \in open : rig[f] # None
    /\ \A f \in Files : row[f].st # "none" \/ Active(f) => wrote[f] # None
    /\ scanned => CollectorIdle
    /\ \A f, g \in Files : Shared(f, g) =>
         /\ rig[f] = None \/ rig[g] = None
         /\ ~(Active(f) /\ Active(g))
         /\ scanned => row[f].st \notin Waiting \/ row[g].st \notin Waiting

PathsHeld ==
    /\ \A c \in Contents : nasUri[c] = blobPath[c]
    /\ \A f \in Files : col[f].pc = "stored" => blobPath[col[f].sha] \in {None, col[f].path}
    /\ sc.pc = "check" => sc.uri = blobPath[sc.sha]

(* The NAS copy the catalog points to is intact, or a fault touched it. *)
OnFile(c) == c \in hurt \/ (nasRep[c] = "present" /\ blobPath[c] # None /\ nas[blobPath[c]] = c)

(* A copy recorded in S3 is there, or a fault touched the frame. *)
RecordHeld ==
    /\ \A c \in Contents : s3Rep[c] = "present" => c \in Frames /\ Safe(c)
    /\ rp.pc = "record" => Safe(rp.cur)

(* A candidate that may be deleted is still backed up. *)
CandidateHeld ==
    /\ \A k \in cl.plan : k.loc = "spool" /\ k.sha \in Lights => Safe(k.sha)
    /\ cl.pc = "delete" => /\ cl.cand.sha \in Lights => Safe(cl.cand.sha)
                           /\ cl.cand.loc # "nas" => OnFile(cl.cand.sha)
=============================================================================
