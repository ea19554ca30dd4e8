------------------------------- MODULE Outbox -------------------------------
(***************************************************************************)
(* altaird's reports to the Hub: catalog changes queue rows of hub_outbox   *)
(* in their own transaction, a drainer sends them over HTTP, the Hub        *)
(* answers, and the drainer records the outcome row by row.  The hub_sync   *)
(* thread is one drainer; `altair hub sync-now` is another, in a process    *)
(* of its own.                                                              *)
(*                                                                         *)
(* A document is a frame, reported whole (kind "frame") and then in patches *)
(* that carry some of its fields, or a job, a night, an issue or a product, *)
(* reported whole each time (kind "job" stands for them all).  A field is   *)
(* its version in the catalog, 0 when absent.  The report of the issue that *)
(* a parked row raises travels like a job and is left out.                  *)
(*                                                                         *)
(* got, dropped and the rows' refused count are history.                    *)
(***************************************************************************)
EXTENDS Naturals, Sequences, FiniteSets

CONSTANTS
    Frames, Jobs,   \* the documents reported
    Fields,         \* the fields of a document
    Drainers,       \* the processes that drain the outbox
    Max4xx,         \* MAX_4XX_ATTEMPTS
    MaxItems, MaxVersion, MaxOutages, MaxRefusals, MaxCrashes, MaxOperator  \* bounds

ASSUME DocsAssumption == Frames \cap Jobs = {} /\ Fields # {} /\ Max4xx \in Nat \ {0}

Docs  == Frames \cup Jobs
Kinds == {"frame", "frame_patch", "job"}

VARIABLES
    cat,      \* the catalog's version of each field
    box,      \* hub_outbox: row id -> row
    dr,       \* each drainer's memory
    raised,   \* the documents with a HUB_REJECTED issue
    hub,      \* the Hub's version of each field
    got,      \* the newest version of each field the Hub ever accepted
    dropped,  \* the documents a row of which the operator dropped
    budget

vars == <<cat, box, dr, raised, hub, got, dropped, budget>>

Bodies == [Fields -> Nat]
Empty  == [f \in Fields |-> 0]
Items  == [kind : Kinds, doc : Docs, body : Bodies, state : {"pending", "parked", "sent"},
           waiting : BOOLEAN, attempts : Nat, refused : Nat]
Rows   == [id : Nat, kind : Kinds, doc : Docs, body : Bodies, attempts : Nat]
Idle   == [pc |-> "idle", rows |-> {}, ok |-> {}, bad |-> {}, down |-> FALSE]

TypeOK ==
    /\ cat \in [Docs -> Bodies] /\ hub \in [Docs -> Bodies] /\ got \in [Docs -> Bodies]
    /\ box \in Seq(Items)
    /\ \A w \in Drainers :
         /\ dr[w].pc \in {"idle", "read", "send", "answered", "raise"}
         /\ dr[w].rows \cup dr[w].ok \cup dr[w].bad \subseteq Rows
         /\ dr[w].down \in BOOLEAN
    /\ raised \cup dropped \subseteq Docs
    /\ budget \in [outages : Nat, refusals : Nat, crashes : Nat, operator : Nat]

Init ==
    /\ cat = [d \in Docs |-> Empty] /\ hub = cat /\ got = cat
    /\ box = <<>> /\ dr = [w \in Drainers |-> Idle]
    /\ raised = {} /\ dropped = {}
    /\ budget = [outages |-> 0, refusals |-> 0, crashes |-> 0, operator |-> 0]

-----------------------------------------------------------------------------
(* Catalog changes, each queuing its report in the same transaction.       *)

Enqueue(kind, d, body) ==
    /\ Len(box) < MaxItems
    /\ box' = Append(box, [kind |-> kind, doc |-> d, body |-> body, state |-> "pending",
                           waiting |-> FALSE, attempts |-> 0, refused |-> 0])

(* A partial update merges into the newest pending row of its key. *)
EnqueueMerged(kind, d, body) ==
    LET pending == {i \in DOMAIN box : box[i].kind = kind /\ box[i].doc = d /\ box[i].state = "pending"}
    IN  \/ pending = {} /\ Enqueue(kind, d, body)
        \/ \E i \in pending :
             /\ \A j \in pending : j <= i
             /\ box' = [box EXCEPT ![i].body = [f \in Fields |-> IF body[f] # 0 THEN body[f] ELSE @[f]]]

Known(d) == \E f \in Fields : cat[d][f] # 0

RegisterFrame(d) ==
    /\ ~Known(d)
    /\ cat' = [cat EXCEPT ![d] = [f \in Fields |-> 1]]
    /\ Enqueue("frame", d, cat'[d])
    /\ UNCHANGED <<dr, raised, hub, got, dropped, budget>>

(* Grading, publication, replication and cleanup change one thing each. *)
PatchFrame(d, f) ==
    /\ Known(d) /\ cat[d][f] < MaxVersion
    /\ cat' = [cat EXCEPT ![d][f] = @ + 1]
    /\ EnqueueMerged("frame_patch", d, [Empty EXCEPT ![f] = cat'[d][f]])
    /\ UNCHANGED <<dr, raised, hub, got, dropped, budget>>

(* `altair hub reconcile` and `altair frames assign` report a frame again. *)
RequeueFrame(d) ==
    /\ Known(d)
    /\ Enqueue("frame", d, cat[d])
    /\ UNCHANGED <<cat, dr, raised, hub, got, dropped, budget>>

ReportJob(d) ==
    /\ \A f \in Fields : cat[d][f] < MaxVersion
    /\ cat' = [cat EXCEPT ![d] = [f \in Fields |-> @[f] + 1]]
    /\ Enqueue("job", d, cat'[d])
    /\ UNCHANGED <<dr, raised, hub, got, dropped, budget>>

-----------------------------------------------------------------------------
(* A drain: read the due rows, write off the superseded ones, then request  *)
(* after request, frames first, then patches, then the rest one by one.     *)

DueOnce == {i \in DOMAIN box : box[i].state = "pending" /\ box[i].attempts = 0}   \* mutant
Due == {i \in DOMAIN box : box[i].state = "pending" /\ ~box[i].waiting}

Snapshot(i) == [id |-> i, kind |-> box[i].kind, doc |-> box[i].doc, body |-> box[i].body, attempts |-> box[i].attempts]

Read(w) ==
    /\ dr[w].pc = "idle" /\ Due # {}
    /\ dr' = [dr EXCEPT ![w].pc = "read", ![w].rows = {Snapshot(i) : i \in Due}]
    /\ UNCHANGED <<cat, box, raised, hub, got, dropped, budget>>

(* Mutants: the oldest row survives; a frame report and its patches share a key. *)
SupersededOldest(rows) == {r \in rows : \E s \in rows : s.kind = r.kind /\ s.doc = r.doc /\ s.id < r.id}
SupersededAnyKind(rows) == {r \in rows : \E s \in rows : s.doc = r.doc /\ s.id > r.id}

Superseded(rows) == {r \in rows : \E s \in rows : s.kind = r.kind /\ s.doc = r.doc /\ s.id > r.id}

Ids(rows) == {r.id : r \in rows}
MarkSent(ids) == box' = [i \in DOMAIN box |-> IF i \in ids THEN [box[i] EXCEPT !.state = "sent"] ELSE box[i]]

Coalesce(w) ==
    /\ dr[w].pc = "read"
    /\ MarkSent(Ids(Superseded(dr[w].rows)))
    /\ dr' = [dr EXCEPT ![w].pc = "send", ![w].rows = @ \ Superseded(@)]
    /\ UNCHANGED <<cat, raised, hub, got, dropped, budget>>

(* The rows of the next request. *)
Request(rows) ==
    LET of(kind) == {r \in rows : r.kind = kind}
    IN  IF of("frame") # {} THEN of("frame")
        ELSE IF of("frame_patch") # {} THEN of("frame_patch")
        ELSE {r \in rows : \A s \in rows : r.id <= s.id}

(* The Hub refuses a patch of a frame it does not know. *)
Unknown(rows) == {r \in rows : r.kind = "frame_patch" /\ hub[r.doc] = Empty}

Newest(m, n) == IF m > n THEN m ELSE n

Accept(rows) ==
    LET of(d) == {r \in rows : r.doc = d}
    IN  /\ hub' = [d \in Docs |-> [f \in Fields |->
                     IF \E r \in of(d) : r.body[f] # 0 THEN (CHOOSE r \in of(d) : r.body[f] # 0).body[f] ELSE hub[d][f]]]
        /\ got' = [d \in Docs |-> [f \in Fields |-> Newest(hub'[d][f], got[d][f])]]

(* The Hub answers, refusing what it does not know and perhaps more. *)
Send(w) ==
    /\ dr[w].pc = "send"
    /\ \E refused \in SUBSET (Request(dr[w].rows) \ Unknown(Request(dr[w].rows))) :
         LET request == Request(dr[w].rows)
             bad     == refused \cup Unknown(request)
         IN  /\ refused # {} => budget.refusals < MaxRefusals
             /\ budget' = IF refused # {} THEN [budget EXCEPT !.refusals = @ + 1] ELSE budget
             /\ Accept(request \ bad)
             /\ dr' = [dr EXCEPT ![w].pc = "answered", ![w].rows = @ \ request,
                                 ![w].ok = request \ bad, ![w].bad = bad]
    /\ UNCHANGED <<cat, box, raised, dropped>>

(* A network error, a timeout or a 5xx, before or after the Hub did its work. *)
SendFails(w) ==
    /\ dr[w].pc = "send" /\ budget.outages < MaxOutages
    /\ budget' = [budget EXCEPT !.outages = @ + 1]
    /\ LET request == Request(dr[w].rows) IN
       /\ Accept(request \ Unknown(request)) \/ UNCHANGED <<hub, got>>
       /\ dr' = [dr EXCEPT ![w].pc = "answered", ![w].bad = request, ![w].down = TRUE]
    /\ UNCHANGED <<cat, box, raised, dropped>>

MarkOk(w) ==
    /\ dr[w].pc = "answered" /\ dr[w].ok # {}
    /\ MarkSent(Ids(dr[w].ok))
    /\ dr' = [dr EXCEPT ![w].ok = {}]
    /\ UNCHANGED <<cat, raised, hub, got, dropped, budget>>

(* _retry of one row, from the attempts read at the start of the drain; the *)
(* count saturates at Max4xx, which is all that is asked of it.             *)
Retry(w) ==
    /\ dr[w].pc = "answered" /\ dr[w].ok = {}
    /\ \E r \in dr[w].bad :
         /\ \A s \in dr[w].bad : r.id <= s.id
         /\ LET attempts == IF r.attempts < Max4xx THEN r.attempts + 1 ELSE Max4xx
                park     == ~dr[w].down /\ attempts >= Max4xx
            IN  /\ box' = [box EXCEPT ![r.id].attempts = attempts,
                                      ![r.id].waiting = IF park THEN @ ELSE TRUE,
                                      ![r.id].state = IF park /\ @ = "pending" THEN "parked" ELSE @,
                                      ![r.id].refused = IF dr[w].down \/ @ >= Max4xx THEN @ ELSE @ + 1]
                /\ dr' = [dr EXCEPT ![w].pc = IF park THEN "raise" ELSE "answered",
                                    ![w].bad = IF park THEN @ ELSE @ \ {r}]
    /\ UNCHANGED <<cat, raised, hub, got, dropped, budget>>

(* HUB_REJECTED, in a transaction of its own. *)
Raise(w) ==
    /\ dr[w].pc = "raise"
    /\ \E r \in dr[w].bad :
         /\ \A s \in dr[w].bad : r.id <= s.id
         /\ raised' = raised \cup {r.doc}
         /\ dr' = [dr EXCEPT ![w].pc = "answered", ![w].bad = @ \ {r}]
    /\ UNCHANGED <<cat, box, hub, got, dropped, budget>>

(* On to the next request; the first failure ends the drain. *)
Proceed(w) ==
    /\ dr[w].pc = "answered" /\ dr[w].ok = {} /\ dr[w].bad = {}
    /\ dr' = [dr EXCEPT ![w] = IF dr[w].down \/ dr[w].rows = {} THEN Idle ELSE [@ EXCEPT !.pc = "send"]]
    /\ UNCHANGED <<cat, box, raised, hub, got, dropped, budget>>

-----------------------------------------------------------------------------
(* Time, crashes and the operator. *)

BackoffEnds(i) ==
    /\ box[i].waiting
    /\ box' = [box EXCEPT ![i].waiting = FALSE]
    /\ UNCHANGED <<cat, dr, raised, hub, got, dropped, budget>>

Crash(w) ==
    /\ dr[w] # Idle /\ budget.crashes < MaxCrashes
    /\ budget' = [budget EXCEPT !.crashes = @ + 1]
    /\ dr' = [dr EXCEPT ![w] = Idle]
    /\ UNCHANGED <<cat, box, raised, hub, got, dropped>>

Operator == budget.operator < MaxOperator /\ budget' = [budget EXCEPT !.operator = @ + 1]

(* `altair hub outbox retry` and `drop`. *)
OperatorRetry(i) ==
    /\ Operator /\ box[i].state # "sent"
    /\ box' = [box EXCEPT ![i].state = "pending", ![i].attempts = 0, ![i].waiting = FALSE]
    /\ UNCHANGED <<cat, dr, raised, hub, got, dropped>>

OperatorDrop(i) ==
    /\ Operator /\ box[i].state # "sent"
    /\ box' = [box EXCEPT ![i].state = "sent"]
    /\ dropped' = dropped \cup {box[i].doc}
    /\ UNCHANGED <<cat, dr, raised, hub, got>>

-----------------------------------------------------------------------------
Report ==
    \/ \E d \in Frames : \/ RegisterFrame(d) \/ RequeueFrame(d)
                         \/ \E f \in Fields : PatchFrame(d, f)
    \/ \E d \in Jobs : ReportJob(d)

Drain(w) == \/ Read(w) \/ Coalesce(w) \/ Send(w) \/ MarkOk(w) \/ Retry(w) \/ Raise(w) \/ Proceed(w)

Next ==
    \/ Report
    \/ \E w \in Drainers : Drain(w) \/ SendFails(w) \/ Crash(w)
    \/ \E i \in DOMAIN box : BackoffEnds(i) \/ OperatorRetry(i) \/ OperatorDrop(i)

Spec == Init /\ [][Next]_vars

(* The hub_sync thread ticks for ever and the clock advances. *)
FairSpec ==
    /\ Spec
    /\ \A w \in Drainers : WF_vars(Drain(w))
    /\ \A i \in 1..MaxItems : WF_vars(i \in DOMAIN box /\ BackoffEnds(i))

-----------------------------------------------------------------------------
Unsent(i) == box[i].state # "sent"

(* Nothing is lost between "Altair knows" and "the Hub knows" (db.py): what *)
(* the Hub never accepted is in a row still to be sent, unless the operator *)
(* dropped it - whatever answers are lost, drains overlap or processes die. *)
NothingLost ==
    \A d \in Docs \ dropped, f \in Fields :
        got[d][f] < cat[d][f] => \E i \in DOMAIN box : box[i].doc = d /\ box[i].body[f] = cat[d][f] /\ Unsent(i)

(* The same of the documents that are reported whole each time.             *)
WholeReportsKept ==
    \A d \in Jobs \ dropped, f \in Fields :
        got[d][f] < cat[d][f] => \E i \in DOMAIN box : box[i].doc = d /\ box[i].body[f] = cat[d][f] /\ Unsent(i)

(* A registered frame is known to the Hub or its first report is queued,    *)
(* so a patch of it is only ever refused for a while.                       *)
FrameKnownOrQueued ==
    \A d \in Frames \ dropped : Known(d) => \/ hub[d] # Empty
                                            \/ \E i \in DOMAIN box : box[i].doc = d /\ box[i].kind = "frame" /\ Unsent(i)

(* When every row is sent and no drain is running, the Hub's copy is the    *)
(* catalog's, unless the operator dropped a row.                            *)
HubMatches ==
    (\A i \in DOMAIN box : ~Unsent(i)) /\ (\A w \in Drainers : dr[w] = Idle)
        => \A d \in Docs \ dropped : hub[d] = cat[d]

(* A 4xx retries until the limit, then the row is parked (outbox.py).       *)
ParkedAfterRefusals == \A i \in DOMAIN box : box[i].state = "parked" => box[i].refused >= Max4xx

(* Network errors retry for ever: with a Hub that refuses nothing of its    *)
(* own accord, outages park no row.                                         *)
OutagesParkNothing == budget.refusals = 0 => \A i \in DOMAIN box : box[i].state # "parked"

(* A parked row has its HUB_REJECTED issue, or a drainer about to raise it. *)
ParkedIsRaised ==
    \A i \in DOMAIN box : box[i].state = "parked" =>
        \/ box[i].doc \in raised
        \/ \E w \in Drainers : dr[w].pc = "raise" /\ \E r \in dr[w].bad : r.doc = box[i].doc

(* Every version of a document reported whole reaches the Hub, itself or a  *)
(* newer one, or its row is parked or dropped by the operator.              *)
ReportsArrive ==
    \A d \in Jobs, f \in Fields, v \in 1..MaxVersion :
        cat[d][f] = v ~> \/ got[d][f] >= v \/ d \in dropped
                         \/ \E i \in DOMAIN box : box[i].doc = d /\ box[i].state = "parked"
=============================================================================
