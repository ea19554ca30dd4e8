------------------------------ MODULE Staging ------------------------------
(***************************************************************************)
(* Before PixInsight starts, the stager finds every input of a job: in place *)
(* on the NAS, in the cache, or in S3, as an object of its own or inside a    *)
(* night's zip.  An object in a cold class is restored first, which takes S3   *)
(* hours, and the restored copy expires; S3's lifecycle rules make objects     *)
(* cold on their own, while the catalog keeps what it recorded.  Beside the    *)
(* worker, a poller watches restores, housekeeping evicts from the cache, and  *)
(* the cleanup moves old frames to S3 only.                                   *)
(***************************************************************************)
EXTENDS Naturals

CONSTANTS
    Job, Blob, Object,
    Needs,          \* per job, its plan's input_paths
    Holder,         \* per blob, the S3 object that holds it: its own, or a zip
    Ages,           \* the objects with a lifecycle rule to a cold class
    MaxSpent        \* bound: losses, outages, restarts, expiries

ASSUME StagingAssumption ==
    /\ Needs \in [Job -> SUBSET Blob] /\ Holder \in [Blob -> Object]
    /\ Ages \subseteq Object /\ MaxSpent \in Nat

VARIABLES
    nas,        \* blobs' nas replicas: present, missing (lost), cleaned
    onNas,      \* blobs whose file is on the NAS
    up,         \* the NAS, as last checked
    cached,     \* blobs in the cache
    object,     \* what S3 holds: hot, frozen, thawing, or thawed for a while
    replica,    \* objects' s3 replicas: hot, cold, restoring, restored
    asked,      \* fetch_requests in state restoring: <<job, object>>
    job,        \* jobs.status
    stager,     \* the worker: the job it stages, what is left to fetch, what is read from the cache
    evicting,   \* blobs housekeeping chose to evict
    aged,       \* history: objects S3 made cold, or cold again
    spent

archive == <<object, replica, asked, aged>>
local   == <<nas, onNas, up, cached>>
vars == <<local, archive, job, stager, evicting, spent>>

Statuses == {"absent", "queued", "staging", "waiting", "running", "succeeded"}
NoJob == "none"
Idle  == [at |-> "idle", job |-> NoJob, left |-> {}, linked |-> {}]

(* Everything has its type. *)
TypeOK ==
    /\ nas \in [Blob -> {"present", "missing", "cleaned"}] /\ onNas \cup cached \cup evicting \subseteq Blob /\ up \in BOOLEAN
    /\ object \in [Object -> {"hot", "frozen", "thawing", "thawed"}]
    /\ replica \in [Object -> {"hot", "cold", "restoring", "restored"}]
    /\ asked \subseteq Job \X Object /\ aged \subseteq Object
    /\ job \in [Job -> Statuses]
    /\ stager.at \in {"idle", "fetch", "link", "run"} /\ stager.job \in Job \cup {NoJob}
    /\ stager.left \cup stager.linked \subseteq Blob
    /\ stager # Idle => job[stager.job] = IF stager.at = "run" THEN "running" ELSE "staging"
    /\ spent \in 0..MaxSpent

(* An object was uploaded in an instant class, or in a cold one. *)
Init ==
    /\ nas = [b \in Blob |-> "present"] /\ onNas = Blob /\ up = TRUE /\ cached = {}
    /\ \E cold \in SUBSET Object :
        /\ object = [o \in Object |-> IF o \in cold THEN "frozen" ELSE "hot"]
        /\ replica = [o \in Object |-> IF o \in cold THEN "cold" ELSE "hot"]
    /\ asked = {} /\ aged = {}
    /\ job = [j \in Job |-> "absent"] /\ stager = Idle /\ evicting = {} /\ spent = 0

Spend == spent < MaxSpent /\ spent' = spent + 1

-----------------------------------------------------------------------------
(* What stage finds for a blob. *)

InPlace(b) == up /\ nas[b] = "present" /\ b \in onNas
Local(b)   == InPlace(b) \/ b \in cached

FromCache(j) == {b \in Needs[j] \cap cached : ~InPlace(b)}

(* The catalog decides what is cold, and restored once is no longer. *)
IsCold(o) == replica[o] \in {"cold", "restoring"}

ToFetch(j)   == {b \in Needs[j] : ~Local(b)}
Cold(j)      == {Holder[b] : b \in {c \in ToFetch(j) : IsCold(Holder[c])}}
Instant(j)   == {b \in ToFetch(j) : ~IsCold(Holder[b])}

(* A NAS that is merely away is waited for rather than S3's instant copies. *)
MustWait(j)  == ~up /\ Instant(j) # {}

Thawed(os)   == {o \in os : object[o] = "thawed"}

(* Mutant: each job asks for the restores it needs. *)
AskedByJob(j, o) == <<j, o>> \in asked

Requested(j, o) == \E k \in Job : <<k, o>> \in asked

New(j)       == {o \in Cold(j) \ Thawed(Cold(j)) : ~Requested(j, o)}

-----------------------------------------------------------------------------
(* The worker stages one job after the other. *)

Plan(j) ==
    /\ job[j] = "absent"
    /\ job' = [job EXCEPT ![j] = "queued"]
    /\ UNCHANGED <<local, archive, stager, evicting, spent>>

Stageable(j) == stager = Idle /\ job[j] \in {"queued", "waiting"}

Wait(j) == job' = [job EXCEPT ![j] = "waiting"] /\ UNCHANGED stager

(* The NAS is away: nothing is asked for. *)
Defer(j) ==
    /\ Stageable(j) /\ MustWait(j) /\ Wait(j)
    /\ UNCHANGED <<local, archive, evicting, spent>>

(* Mutant: a pending restore is noted, but asked for only with the next. *)
NotedOnly(j) == object

(* RestoreObject for each; one under way is no error. *)
Asking(j) == [o \in Object |-> IF o \in New(j) THEN "thawing" ELSE object[o]]

(* Restores asked for in one batch: the job waits until none is pending. *)
Restore(j) ==
    LET done == Thawed(Cold(j)) IN
    /\ Stageable(j) /\ ~MustWait(j) /\ Cold(j) # {}
    /\ object' = Asking(j)
    /\ replica' = [o \in Object |-> IF o \in done THEN "restored" ELSE IF o \in New(j) THEN "restoring" ELSE replica[o]]
    /\ asked' = {r \in asked : r[2] \notin done} \cup ({j} \X New(j))
    /\ IF done = Cold(j)
       THEN /\ job' = [job EXCEPT ![j] = "staging"]
            /\ stager' = [at |-> "fetch", job |-> j, left |-> ToFetch(j), linked |-> FromCache(j)]
       ELSE Wait(j)
    /\ UNCHANGED <<local, aged, evicting, spent>>

(* Everything needed can be read at once, as far as the catalog knows. *)
Begin(j) ==
    /\ Stageable(j) /\ ~MustWait(j) /\ Cold(j) = {}
    /\ job' = [job EXCEPT ![j] = "staging"]
    /\ stager' = [at |-> IF ToFetch(j) = {} THEN "link" ELSE "fetch", job |-> j, left |-> ToFetch(j),
                  linked |-> FromCache(j)]
    /\ UNCHANGED <<local, archive, evicting, spent>>

Readable(o) == object[o] \in {"hot", "thawed"}

(* A NAS copy that was lost, not cleaned, is written back. *)
Lost(b) == nas[b] = "missing" /\ up

Fetch(b) ==
    /\ stager.at = "fetch" /\ b \in stager.left /\ Readable(Holder[b])
    /\ cached' = cached \cup {b}
    /\ nas' = [nas EXCEPT ![b] = IF Lost(b) THEN "present" ELSE @]
    /\ onNas' = IF Lost(b) THEN onNas \cup {b} ELSE onNas
    /\ stager' = [stager EXCEPT !.left = @ \ {b}, !.linked = @ \cup {b}, !.at = IF stager.left = {b} THEN "link" ELSE @]
    /\ UNCHANGED <<up, archive, job, evicting, spent>>

(* RestoreRequired: the job waits, to try another source. *)
FetchFails(b) ==
    /\ stager.at = "fetch" /\ b \in stager.left /\ ~Readable(Holder[b])
    /\ job' = [job EXCEPT ![stager.job] = "waiting"] /\ stager' = Idle
    /\ UNCHANGED <<local, archive, evicting, spent>>

(* The cache's files are hard-linked; one that is gone by now is an error the  *)
(* executor does not expect, and the job stays in staging.                   *)
Handoff ==
    /\ stager.at = "link"
    /\ IF stager.linked \subseteq cached
       THEN /\ job' = [job EXCEPT ![stager.job] = "running"]
            /\ stager' = [stager EXCEPT !.at = "run"]
       ELSE job' = job /\ stager' = Idle
    /\ UNCHANGED <<local, archive, evicting, spent>>

ReadInPlace == Needs[stager.job] \ stager.linked

(* A run reads what was not linked from the NAS; it is retried. *)
Run ==
    /\ stager.at = "run"
    /\ job' = [job EXCEPT ![stager.job] = IF up /\ ReadInPlace \subseteq onNas THEN "succeeded" ELSE "queued"]
    /\ stager' = Idle
    /\ UNCHANGED <<local, archive, evicting, spent>>

(* Recovery queues what was interrupted. *)
Restart ==
    /\ Spend
    /\ job' = [j \in Job |-> IF job[j] \in {"staging", "running"} THEN "queued" ELSE job[j]]
    /\ stager' = Idle /\ evicting' = {}
    /\ UNCHANGED <<local, archive>>

(* altaird ends between a request to S3 and its row. *)
RestartAsking(j, o) ==
    /\ Stageable(j) /\ ~MustWait(j) /\ o \in New(j) /\ Spend
    /\ object' = [object EXCEPT ![o] = "thawing"]
    /\ job' = [k \in Job |-> IF job[k] \in {"staging", "running"} THEN "queued" ELSE job[k]]
    /\ evicting' = {}
    /\ UNCHANGED <<local, replica, asked, aged, stager>>

-----------------------------------------------------------------------------
(* The other workers. *)

Restored(o) == [replica EXCEPT ![o] = "restored"]

Woken(j) == IF job[j] = "waiting" THEN "queued" ELSE job[j]

Poll(j, o) ==
    /\ <<j, o>> \in asked /\ object[o] = "thawed"
    /\ asked' = asked \ {<<j, o>>}
    /\ replica' = Restored(o)
    /\ job' = [job EXCEPT ![j] = Woken(j)]
    /\ UNCHANGED <<local, object, aged, stager, evicting, spent>>

Busy == UNION {Needs[j] : j \in {k \in Job : job[k] \in {"queued", "staging", "waiting", "running"}}}

(* An own object's replica is verified unless cold; a zip's member always is. *)
InZip(b)     == \E c \in Blob \ {b} : Holder[c] = Holder[b]
Elsewhere(b) == nas[b] = "present" \/ replica[Holder[b]] = "hot" \/ InZip(b)

EvictChoose(b) ==
    /\ evicting = {} /\ b \in cached \ Busy /\ Elsewhere(b)
    /\ evicting' = {b}
    /\ UNCHANGED <<local, archive, job, stager, spent>>

EvictRemove ==
    /\ evicting # {}
    /\ cached' = cached \ evicting /\ evicting' = {}
    /\ UNCHANGED <<nas, onNas, up, archive, job, stager, spent>>

(* The cleanup: the S3 copy is checked, not read. *)
MoveToS3(b) ==
    /\ InPlace(b) /\ replica[Holder[b]] = "hot"
    /\ nas' = [nas EXCEPT ![b] = "cleaned"] /\ onNas' = onNas \ {b}
    /\ UNCHANGED <<up, cached, archive, job, stager, evicting, spent>>

(* A file lost on the NAS, and the scrub that finds out. *)
LoseFile(b) ==
    /\ b \in onNas /\ Spend
    /\ onNas' = onNas \ {b}
    /\ UNCHANGED <<nas, up, cached, archive, job, stager, evicting>>

Scrub(b) ==
    /\ up /\ nas[b] = "present" /\ b \notin onNas
    /\ nas' = [nas EXCEPT ![b] = "missing"]
    /\ UNCHANGED <<onNas, up, cached, archive, job, stager, evicting, spent>>

NasGone == up /\ Spend /\ up' = FALSE /\ UNCHANGED <<nas, onNas, cached, archive, job, stager, evicting>>
NasBack == ~up /\ up' = TRUE /\ UNCHANGED <<nas, onNas, cached, archive, job, stager, evicting, spent>>

-----------------------------------------------------------------------------
(* S3. *)

Cool(o) ==
    /\ o \in Ages /\ object[o] = "hot"
    /\ object' = [object EXCEPT ![o] = "frozen"] /\ aged' = aged \cup {o}
    /\ UNCHANGED <<local, replica, asked, job, stager, evicting, spent>>

Thaw(o) ==
    /\ object[o] = "thawing"
    /\ object' = [object EXCEPT ![o] = "thawed"]
    /\ UNCHANGED <<local, replica, asked, aged, job, stager, evicting, spent>>

Expire(o) ==
    /\ object[o] = "thawed" /\ Spend
    /\ object' = [object EXCEPT ![o] = "frozen"] /\ aged' = aged \cup {o}
    /\ UNCHANGED <<local, replica, asked, job, stager, evicting>>

-----------------------------------------------------------------------------
Stage(j) == Defer(j) \/ Restore(j) \/ Begin(j)
Work     == (\E b \in Blob : Fetch(b) \/ FetchFails(b)) \/ Handoff \/ Run

Next ==
    \/ \E j \in Job : Plan(j) \/ Stage(j)
    \/ Work \/ Restart \/ EvictRemove \/ NasGone \/ NasBack
    \/ \E j \in Job, o \in Object : Poll(j, o) \/ RestartAsking(j, o)
    \/ \E b \in Blob : EvictChoose(b) \/ MoveToS3(b) \/ LoseFile(b) \/ Scrub(b)
    \/ \E o \in Object : Cool(o) \/ Thaw(o) \/ Expire(o)

(* The worker goes on and tries every job in turn; scrubs go round; S3 ends a  *)
(* restore; the NAS comes back.                                             *)
Spec ==
    /\ Init /\ [][Next]_vars
    /\ WF_vars(Work) /\ WF_vars(NasBack)
    /\ \A j \in Job : SF_vars(Stage(j))
    /\ \A b \in Blob : WF_vars(Scrub(b))
    /\ \A o \in Object : WF_vars(Thaw(o))

-----------------------------------------------------------------------------
(* An object has one restore request open while its replica is being         *)
(* restored, and none otherwise: however many jobs and subs need it, and       *)
(* whichever of the worker and the poller sees the end of it.                *)
RequestsMatchReplicas ==
    /\ \A o \in Object : replica[o] = "restoring" <=> \E j \in Job : <<j, o>> \in asked
    /\ \A o \in Object, j, k \in Job : <<j, o>> \in asked /\ <<k, o>> \in asked => j = k

(* What the catalog knows nothing of: S3 made the object cold, or cold again.  *)
Forgotten(o) == o \in aged /\ object[o] = "frozen" /\ replica[o] # "cold"

(* The hand-off found a cached input gone: only a restart queues the job again. *)
Stranded(j)  == job[j] = "staging" /\ stager.job # j

(* Every planned job ends, through losses, outages, restores and restarts:    *)
(* unless S3 made an input cold behind the catalog's back, or an eviction      *)
(* already under way took one.                                              *)
StagedInTheEnd ==
    \A j \in Job : job[j] = "queued" ~> \/ job[j] = "succeeded" \/ Stranded(j)
                                        \/ \E b \in Needs[j] : Forgotten(Holder[b])

(* A restore may end when the job that asked for it, while the NAS was away,   *)
(* has been staged from elsewhere: the job done with it does not run again,    *)
(* and the one at work is not queued beside its own run.                      *)
NoneRunsAgain ==
    [][/\ \A j \in Job : job[j] = "succeeded" => job'[j] = "succeeded"
       /\ stager # Idle /\ stager' = stager => job'[stager.job] = job[stager.job]]_vars

(* SPEC 10.4: after 180 days "a Deep Archive restore is needed [...] The rerun *)
(* is only slower, never impossible".                                        *)
NeverImpossible == \A j \in Job : job[j] = "queued" ~> job[j] = "succeeded" \/ Stranded(j)

(* SPEC 7.7: "If the NAS is merely unreachable, the job waits [...] rather     *)
(* than pulling whole nights from S3".                                       *)
OutageAsksNothing == [][up \/ asked' \subseteq asked]_vars

(* SPEC 7.7, "Never evicted: inputs of queued or running jobs".               *)
InUseIsKept == [][\A b \in cached \ cached' : b \notin Busy]_vars
=============================================================================
