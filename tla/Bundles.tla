------------------------------- MODULE Bundles -------------------------------
(***************************************************************************)
(* The two kinds of zip altaird keeps in S3: one per night stack with its    *)
(* calibrated subs, under a key of its own, and one per project with the      *)
(* newest multi-night master of each filter, always under the same key.       *)
(* The processing worker builds them, replicators upload them (altaird's      *)
(* thread, and `altair storage backup run` beside it), the cleanup drops the  *)
(* subs' NAS copies, and the Hub is told where each zip is.                   *)
(***************************************************************************)
EXTENDS Naturals, FiniteSets, FiniteSetsExt

CONSTANTS
    Filter,         \* the filters of one project
    MaxVersion,     \* bound: merges of a filter
    MaxBuild,       \* bound: stacks of one night
    Replicator,     \* the processes that upload
    Daemon,         \* altaird's own
    MaxFaults       \* bound: failed uploads, crashes, unreadable masters, lost objects

ASSUME BundlesAssumption ==
    /\ IsFiniteSet(Filter) /\ Daemon \in Replicator
    /\ {MaxVersion, MaxBuild, MaxFaults} \subseteq Nat

(* A masters zip is known by the versions in it (0: left out): the same files *)
(* make the same zip.  The stack of build b has the subs 1..b.               *)
MastersZip == [Filter -> 0..MaxVersion]
NoZip  == [f \in Filter |-> 0]
Builds == 1..MaxBuild
SubIds == 1..MaxBuild

VARIABLES
    latest,     \* per filter, the newest multi_night_masters.version
    row,        \* masters_bundles: the zip and its build
    object,     \* what the key masters.zip holds in S3
    recorded,   \* the masters zip whose S3 replica is present, NoZip for none
    told,       \* the newest report of the masters zip to the Hub
    zips,       \* night zips registered, in the cache
    members,    \* night zips whose bundle_members are known
    published,  \* night_masters rows
    stored,     \* night zips in S3
    replica,    \* night zips whose S3 replica is present
    backed,     \* subs with an s3_bundle replica
    nas,        \* subs on the NAS
    toldStack,  \* stacks reported to the Hub, and whether with their zip's URI
    worker,     \* the processing worker
    pass,       \* per replicator, its pass
    gone,       \* history: subs whose last zip was lost in S3 after the NAS copy was cleaned
    behind,     \* history: a master was unreadable or altaird stopped before a zip was recorded
    crossed,    \* history: an upload of the masters zip crossed another, or was not recorded
    faults

projectVars == <<latest, row, object, recorded, told>>
nightVars   == <<zips, members, published, stored, replica, backed, nas, toldStack>>
history     == <<gone, behind, crossed>>
zipVars == <<projectVars, nightVars, worker, pass, history, faults>>

Work   == {"idle", "subs", "zip", "members", "row", "report", "merged", "zipped"}
NoWork  == [at |-> "idle", build |-> 0, zip |-> NoZip]
Resting == [at |-> "idle", zip |-> NoZip, builds |-> {}]

(* Everything has its type. *)
ZipTypeOK ==
    /\ latest \in [Filter -> 0..MaxVersion] /\ {object, recorded} \subseteq MastersZip
    /\ row.zip \in MastersZip /\ row.build \in Nat
    /\ told.zip \in MastersZip /\ told.build \in Nat /\ told.archived \in BOOLEAN
    /\ members \subseteq zips /\ zips \subseteq Builds /\ published \subseteq members
    /\ replica \subseteq zips /\ stored \subseteq zips
    /\ backed \cup nas \cup gone \subseteq SubIds
    /\ DOMAIN toldStack = published /\ \A b \in published : toldStack[b] \in {"unknown", "local", "archived"}
    /\ worker.at \in Work /\ worker.build \in 0..MaxBuild /\ worker.zip \in MastersZip
    /\ \A p \in Replicator : /\ pass[p].at \in {"idle", "put", "head", "record"}
                             /\ pass[p].zip \in MastersZip /\ pass[p].builds \subseteq zips
    /\ behind \in BOOLEAN /\ crossed \in BOOLEAN /\ faults \in 0..MaxFaults

ZipInit ==
    /\ latest = NoZip /\ row = [zip |-> NoZip, build |-> 0]
    /\ object = NoZip /\ recorded = NoZip /\ told = [zip |-> NoZip, build |-> 0, archived |-> FALSE]
    /\ zips = {} /\ members = {} /\ published = {} /\ stored = {} /\ replica = {} /\ backed = {} /\ nas = {}
    /\ toldStack = <<>>
    /\ worker = NoWork /\ pass = [p \in Replicator |-> Resting]
    /\ gone = {} /\ behind = FALSE /\ crossed = FALSE /\ faults = 0

Fault == faults < MaxFaults /\ faults' = faults + 1

-----------------------------------------------------------------------------
(* A night stack is published: its subs go to the NAS, its zip to the cache,  *)
(* the members are listed, the row is committed, and the Hub is told.  The    *)
(* same outputs are published again after a crash.                           *)

StoreSubs(b) ==
    /\ \/ worker = NoWork /\ b = Cardinality(published) + 1
       \/ worker.at = "subs" /\ b = worker.build
    /\ nas' = nas \cup 1..b
    /\ gone' = gone \ (1..b)
    /\ worker' = [NoWork EXCEPT !.at = "zip", !.build = b]
    /\ UNCHANGED <<projectVars, zips, members, published, stored, replica, backed, toldStack, pass, behind, crossed, faults>>

StoreNightZip ==
    /\ worker.at = "zip"
    /\ zips' = zips \cup {worker.build}
    /\ worker' = [worker EXCEPT !.at = "members"]
    /\ UNCHANGED <<projectVars, members, published, stored, replica, backed, nas, toldStack, pass, history, faults>>

ListMembers ==
    /\ worker.at = "members"
    /\ members' = members \cup {worker.build}
    /\ worker' = [worker EXCEPT !.at = "row"]
    /\ UNCHANGED <<projectVars, zips, published, stored, replica, backed, nas, toldStack, pass, history, faults>>

CommitStack ==
    /\ worker.at = "row"
    /\ published' = published \cup {worker.build}
    /\ toldStack' = [b \in published' |-> IF b \in published THEN toldStack[b] ELSE "unknown"]
    /\ worker' = [worker EXCEPT !.at = "report"]
    /\ UNCHANGED <<projectVars, zips, members, stored, replica, backed, nas, pass, history, faults>>

(* Mutant: a product is reported as one of the NAS, to be corrected after its *)
(* upload.                                                                   *)
LocalOnly(b) == "local"

(* products.enqueue: the archive URI is read with the rest. *)
Archive(b) == IF b \in replica THEN "archived" ELSE "local"

ReportStack ==
    /\ worker.at = "report"
    /\ toldStack' = [toldStack EXCEPT ![worker.build] = Archive(worker.build)]
    /\ worker' = NoWork
    /\ UNCHANGED <<projectVars, zips, members, published, stored, replica, backed, nas, pass, history, faults>>

-----------------------------------------------------------------------------
(* After a merge the project's zip is built of the newest masters that can    *)
(* be read; an unchanged zip is no new build.                                *)

MergeDone(f) ==
    /\ worker.at = "idle" /\ latest[f] < MaxVersion
    /\ latest' = [latest EXCEPT ![f] = @ + 1]
    /\ worker' = [NoWork EXCEPT !.at = "merged"]
    /\ UNCHANGED <<row, object, recorded, told, nightVars, pass, history, faults>>

StoreMastersZip(hidden) ==
    LET zip == [f \in Filter |-> IF f \in hidden THEN 0 ELSE latest[f]] IN
    /\ worker.at = "merged"
    /\ IF hidden = {} THEN behind' = FALSE /\ faults' = faults ELSE behind' = TRUE /\ Fault
    /\ worker' = IF zip = NoZip THEN NoWork ELSE [NoWork EXCEPT !.at = "zipped", !.zip = zip]
    /\ UNCHANGED <<projectVars, nightVars, pass, gone, crossed>>

(* Mutant: the zip of a project is registered once. *)
RegisteredOnce(zip) == IF row.build = 0 THEN [zip |-> zip, build |-> 1] ELSE row

Rebuilt(zip) == IF row.zip = zip THEN row ELSE [zip |-> zip, build |-> row.build + 1]

CommitMastersZip ==
    /\ worker.at = "zipped"
    /\ row' = Rebuilt(worker.zip)
    /\ told' = [zip |-> row'.zip, build |-> row'.build, archived |-> recorded = row'.zip]
    /\ worker' = NoWork
    /\ UNCHANGED <<latest, object, recorded, nightVars, pass, history, faults>>

(* altaird stops: a stack is published again, a masters zip is not built. *)
WorkerStops ==
    /\ worker.at # "idle" /\ Fault
    /\ IF worker.build # 0
       THEN worker' = [worker EXCEPT !.at = "subs"] /\ behind' = behind
       ELSE worker' = NoWork /\ behind' = TRUE
    /\ UNCHANGED <<projectVars, nightVars, pass, gone, crossed>>

-----------------------------------------------------------------------------
(* A replicator's pass: it reads what has no S3 replica (of the masters zips, *)
(* the current one), then uploads one after the other, the masters zip first: *)
(* the object is put, its head compared, its replica recorded.               *)

PendingZip    == IF row.zip = recorded THEN NoZip ELSE row.zip
PendingBuilds == zips \ replica
NonePending   == PendingZip = NoZip /\ PendingBuilds = {}

StartPass(p) ==
    /\ pass[p].at = "idle" /\ ~NonePending
    /\ pass' = [pass EXCEPT ![p] = [at |-> "put", zip |-> PendingZip, builds |-> PendingBuilds]]
    /\ UNCHANGED <<projectVars, nightVars, worker, history, faults>>

Masters(p)  == pass[p].zip # NoZip
Item(p)     == Min(pass[p].builds)
Rest(p)     == LET left == IF Masters(p) THEN pass[p].builds ELSE pass[p].builds \ {Item(p)}
               IN IF left = {} THEN Resting ELSE [at |-> "put", zip |-> NoZip, builds |-> left]
Uploading(q) == pass[q].at \in {"head", "record"} /\ Masters(q)

Put(p) ==
    /\ pass[p].at = "put"
    /\ pass' = [pass EXCEPT ![p].at = IF Masters(p) THEN "head" ELSE "record"]
    /\ IF Masters(p)
       THEN /\ object' = pass[p].zip
            /\ crossed' = (crossed \/ \E q \in Replicator \ {p} : Uploading(q))
            /\ UNCHANGED stored
       ELSE stored' = stored \cup {Item(p)} /\ UNCHANGED <<object, crossed>>
    /\ UNCHANGED <<latest, row, recorded, told, zips, members, published, replica, backed, nas, toldStack, worker, gone, behind, faults>>

(* Another zip in its place is an INTEGRITY_MISMATCH: not recorded. *)
HeadObject(p) ==
    /\ pass[p].at = "head"
    /\ pass' = [pass EXCEPT ![p] = IF object = pass[p].zip THEN [@ EXCEPT !.at = "record"] ELSE Rest(p)]
    /\ UNCHANGED <<projectVars, nightVars, worker, history, faults>>

Reenqueued(b) == [c \in published |-> IF c = b THEN "archived" ELSE toldStack[c]]

(* supersede_masters_zip: the others under the key are missing. *)
Superseding(zip) == zip

RecordMasters(p) ==
    /\ pass[p].at = "record" /\ Masters(p)
    /\ recorded' = Superseding(pass[p].zip)
    /\ told' = IF row.zip = pass[p].zip THEN [zip |-> row.zip, build |-> row.build, archived |-> TRUE] ELSE told
    /\ pass' = [pass EXCEPT ![p] = Rest(p)]
    /\ UNCHANGED <<latest, row, object, nightVars, worker, history, faults>>

RecordNight(p) ==
    /\ pass[p].at = "record" /\ ~Masters(p)
    /\ replica' = replica \cup {Item(p)}
    /\ backed' = IF Item(p) \in members THEN backed \cup 1..Item(p) ELSE backed
    /\ toldStack' = Reenqueued(Item(p))
    /\ pass' = [pass EXCEPT ![p] = Rest(p)]
    /\ UNCHANGED <<projectVars, zips, members, published, stored, nas, worker, history, faults>>

(* An upload fails, or the process ends. *)
PassEnds(p) ==
    /\ pass[p].at # "idle" /\ Fault
    /\ crossed' = (crossed \/ Uploading(p))
    /\ pass' = [pass EXCEPT ![p] = Resting]
    /\ UNCHANGED <<projectVars, nightVars, worker, gone, behind>>

-----------------------------------------------------------------------------
(* The cleanup drops the NAS copy of an old sub that is backed up in a zip,   *)
(* which it checks in S3 first.  An object may be lost there.                *)

Holders(s) == {b \in members \cap replica : s \in 1..b}

(* Mutant: the catalog's word is taken for the zip. *)
Recorded(s) == Holders(s) # {}

Fresh(s) == Holders(s) # {} /\ Min(Holders(s)) \in stored

CleanSub(s) ==
    /\ s \in nas /\ s \in backed /\ Fresh(s)
    /\ nas' = nas \ {s}
    /\ UNCHANGED <<projectVars, zips, members, published, stored, replica, backed, toldStack, worker, pass, history, faults>>

LoseZip(b) ==
    /\ b \in stored /\ Fault
    /\ stored' = stored \ {b}
    /\ gone' = gone \cup {s \in 1..b : s \notin nas /\ ~\E c \in stored' : s \in 1..c}
    /\ UNCHANGED <<projectVars, zips, members, published, replica, backed, nas, toldStack, worker, pass, behind, crossed>>

-----------------------------------------------------------------------------
Publish ==
    \/ \E b \in Builds : StoreSubs(b)
    \/ StoreNightZip \/ ListMembers \/ CommitStack \/ ReportStack
    \/ \E f \in Filter : MergeDone(f)
    \/ \E hidden \in SUBSET Filter : StoreMastersZip(hidden)
    \/ CommitMastersZip

Upload(p) == StartPass(p) \/ Put(p) \/ HeadObject(p) \/ RecordMasters(p) \/ RecordNight(p)

ZipNext ==
    \/ Publish \/ WorkerStops
    \/ \E p \in Replicator : Upload(p) \/ PassEnds(p)
    \/ \E s \in SubIds : CleanSub(s)
    \/ \E b \in Builds : LoseZip(b)

(* The worker and altaird's replicator go on. *)
ZipSpec == ZipInit /\ [][ZipNext]_zipVars /\ WF_zipVars(Publish) /\ WF_zipVars(Upload(Daemon))

-----------------------------------------------------------------------------
AllZipped == worker = NoWork /\ NonePending /\ \A p \in Replicator : pass[p] = Resting

(* With nothing left to do, the download holds the newest master of every     *)
(* filter, under its key in S3: unless one could not be read, altaird stopped  *)
(* before the zip was recorded, or two uploads of the key crossed.            *)
DownloadIsCurrent == AllZipped /\ ~behind /\ ~crossed => object = latest

(* With nothing left to do, the Hub knows the zip of every stack and the      *)
(* current masters zip with their archive URI, although uploads may come       *)
(* before, between or after a publication's own reports.                      *)
HubKnowsTheArchive ==
    AllZipped => /\ \A b \in published : toldStack[b] = "archived"
                 /\ row.zip # NoZip => told = [zip |-> row.zip, build |-> row.build, archived |-> TRUE]

(* A calibrated sub of a stack is on the NAS or in a zip in S3, through        *)
(* restacks that share subs and cleanups: unless the zip was lost in S3 after  *)
(* the NAS copy was cleaned.                                                 *)
SubsKept ==
    \A b \in published : \A s \in 1..b : s \in nas \/ s \in gone \/ \E c \in stored : s \in 1..c

(* SPEC 7.5: "A calibrated sub counts as backed up (replica s3_bundle) once    *)
(* its night's zip is in S3".                                                *)
SubsBackedUp == AllZipped => \A b \in published \cap replica : 1..b \subseteq backed

(* replicator.py, pending: "Only the current masters zip: an older one would  *)
(* overwrite it under the shared key".                                       *)
CurrentUnderTheKey == AllZipped => object = row.zip

(* SPEC 7.1: the masters zip is "rebuilt after each merge".                   *)
RebuiltAfterMerge == AllZipped => row.zip = latest \/ \E f \in Filter : row.zip[f] = 0
=============================================================================
