----------------------------- MODULE OutboxProofs -----------------------------
(* What Outbox keeps for any documents, fields and drainers, and any number of *)
(* outages, refusals, crashes and operator's actions.                         *)
EXTENDS Outbox, SequenceTheorems, TLAPS

-----------------------------------------------------------------------------
(* Types. *)

Memories == [pc : {"idle", "read", "send", "answered", "raise"}, rows : SUBSET Rows, ok : SUBSET Rows,
             bad : SUBSET Rows, down : BOOLEAN]

Typed ==
    /\ cat \in [Docs -> Bodies] /\ hub \in [Docs -> Bodies] /\ got \in [Docs -> Bodies]
    /\ box \in Seq(Items)
    /\ dr \in [Drainers -> Memories]
    /\ raised \subseteq Docs /\ dropped \subseteq Docs
    /\ budget \in [outages : Nat, refusals : Nat, crashes : Nat, operator : Nat]

(* What a drainer has in hand are rows of the box, each read once; only a      *)
(* patch may have changed since.                                             *)
Held(r) ==
    /\ r.id \in DOMAIN box
    /\ r.kind = box[r.id].kind /\ r.doc = box[r.id].doc
    /\ r.kind # "frame_patch" => r.body = box[r.id].body

RowsHeld ==
    \A w \in Drainers :
        /\ \A r \in dr[w].rows \cup dr[w].ok \cup dr[w].bad : Held(r)
        /\ \A r, s \in dr[w].rows : r.id = s.id => r = s

LEMMA BoxLen ==
    ASSUME Typed
    PROVE  /\ Len(box) \in Nat /\ DOMAIN box = 1..Len(box)
           /\ \A i \in DOMAIN box : box[i] \in Items
  BY DEF Typed

(* A box whose rows are replaced one by one. *)
LEMMA SameRows ==
    ASSUME Typed, NEW new, new = [i \in DOMAIN box |-> new[i]], \A i \in DOMAIN box : new[i] \in Items
    PROVE  new \in Seq(Items)
  <1>1. new \in [1..Len(box) -> Items] /\ Len(box) \in Nat
    BY BoxLen
  <1> QED
    BY <1>1, SeqDef

(* A new row, at the end. *)
LEMMA EnqueueTyped ==
    ASSUME Typed, NEW kind \in Kinds, NEW d \in Docs, NEW body \in Bodies, Enqueue(kind, d, body)
    PROVE  /\ box' \in Seq(Items) /\ DOMAIN box' = DOMAIN box \cup {Len(box) + 1}
           /\ \A i \in DOMAIN box : box'[i] = box[i]
           /\ box'[Len(box) + 1].kind = kind /\ box'[Len(box) + 1].doc = d
           /\ box'[Len(box) + 1].body = body /\ box'[Len(box) + 1].state = "pending"
  <1> DEFINE item == [kind |-> kind, doc |-> d, body |-> body, state |-> "pending",
                      waiting |-> FALSE, attempts |-> 0, refused |-> 0]
  <1>1. item \in Items
    BY DEF Items, Kinds
  <1>2. box' = Append(box, item) /\ box \in Seq(Items)
    BY DEF Enqueue, Typed
  <1> HIDE DEF item
  <1>3. /\ box' \in Seq(Items) /\ DOMAIN box' = DOMAIN box \cup {Len(box) + 1}
        /\ \A i \in DOMAIN box : box'[i] = box[i]
        /\ box'[Len(box) + 1] = item
    BY <1>1, <1>2
  <1> QED
    BY <1>3 DEF item

(* A patch merged into a pending row of its frame changes that row's body.     *)
LEMMA MergedTyped ==
    ASSUME Typed, NEW kind \in Kinds, NEW d \in Docs, NEW body \in Bodies, EnqueueMerged(kind, d, body)
    PROVE  \/ Enqueue(kind, d, body)
           \/ /\ box' \in Seq(Items) /\ DOMAIN box' = DOMAIN box
              /\ \A i \in DOMAIN box : /\ box'[i].kind = box[i].kind /\ box'[i].doc = box[i].doc
                                       /\ box'[i].state = box[i].state
                                       /\ box[i].kind # kind => box'[i].body = box[i].body
  <1> SUFFICES ASSUME ~Enqueue(kind, d, body)
               PROVE  /\ box' \in Seq(Items) /\ DOMAIN box' = DOMAIN box
                      /\ \A i \in DOMAIN box : /\ box'[i].kind = box[i].kind /\ box'[i].doc = box[i].doc
                                               /\ box'[i].state = box[i].state
                                               /\ box[i].kind # kind => box'[i].body = box[i].body
    OBVIOUS
  <1>1. PICK i \in DOMAIN box :
           /\ box[i].kind = kind
           /\ box' = [box EXCEPT ![i].body = [f \in Fields |-> IF body[f] # 0 THEN body[f] ELSE @[f]]]
    BY DEF EnqueueMerged
  <1> DEFINE merged == [f \in Fields |-> IF body[f] # 0 THEN body[f] ELSE box[i].body[f]]
  <1>2. box[i] \in Items
    BY BoxLen
  <1>3. merged \in Bodies
    BY <1>2 DEF Items, Bodies
  <1>4. box' = [box EXCEPT ![i] = [box[i] EXCEPT !.body = merged]]
    BY <1>1
  <1> HIDE DEF merged
  <1>5. [box[i] EXCEPT !.body = merged] \in Items
    BY <1>2, <1>3 DEF Items
  <1>6. \A j \in DOMAIN box : box'[j] \in Items
    BY <1>4, <1>5, BoxLen
  <1>7. box' = [j \in DOMAIN box |-> box'[j]]
    BY <1>4
  <1>8. box' \in Seq(Items)
    BY <1>6, <1>7, SameRows
  <1> QED
    BY <1>1, <1>2, <1>4, <1>8, BoxLen DEF Items

(* Any step on the box: rows keep their place, kind and document, and, unless    *)
(* they are patches, their body.                                             *)
Onward ==
    /\ DOMAIN box \subseteq DOMAIN box'
    /\ \A i \in DOMAIN box : /\ box'[i].kind = box[i].kind /\ box'[i].doc = box[i].doc
                             /\ box[i].kind # "frame_patch" => box'[i].body = box[i].body
    /\ \A i \in DOMAIN box' \ DOMAIN box : i > Len(box)

LEMMA HeldOn == ASSUME Onward, NEW r, Held(r) PROVE Held(r)'
  BY DEF Onward, Held

LEMMA MarkSentTyped ==
    ASSUME Typed, NEW ids, MarkSent(ids)
    PROVE  /\ box' \in Seq(Items) /\ DOMAIN box' = DOMAIN box /\ Onward
           /\ \A i \in DOMAIN box : i \notin ids => box'[i] = box[i]
  <1>1. \A i \in DOMAIN box : box'[i] \in Items
    BY BoxLen DEF MarkSent, Items
  <1>2. box' = [i \in DOMAIN box |-> box'[i]]
    BY DEF MarkSent
  <1>3. box' \in Seq(Items)
    BY <1>1, <1>2, SameRows
  <1> QED
    BY <1>3, BoxLen DEF MarkSent, Onward, Items

(* A step of one drainer's memory. *)
LEMMA MemoryTyped ==
    ASSUME Typed, NEW w \in Drainers, NEW m \in Memories, dr' = [dr EXCEPT ![w] = m]
    PROVE  /\ dr' \in [Drainers -> Memories] /\ dr'[w] = m
           /\ \A v \in Drainers \ {w} : dr'[v] = dr[v]
  BY DEF Typed

(* A step of the box and of one drainer, whose rows are rows of the box. *)
LEMMA RowsOn ==
    ASSUME Typed, RowsHeld, Onward, NEW w \in Drainers, \A v \in Drainers \ {w} : dr'[v] = dr[v],
           \A r \in dr'[w].rows \cup dr'[w].ok \cup dr'[w].bad : Held(r) \/ Held(r)',
           \A r, s \in dr'[w].rows : r.id = s.id => r = s
    PROVE  RowsHeld'
  <1>1. ASSUME NEW v \in Drainers, NEW r, r \in dr'[v].rows \cup dr'[v].ok \cup dr'[v].bad PROVE Held(r)'
    <2>1. Held(r) \/ Held(r)'
      BY <1>1 DEF RowsHeld
    <2> QED
      BY <2>1, HeldOn
  <1>2. ASSUME NEW v \in Drainers, NEW r \in dr'[v].rows, NEW s \in dr'[v].rows, r.id = s.id PROVE r = s
    BY <1>2 DEF RowsHeld
  <1> QED
    BY <1>1, <1>2 DEF RowsHeld

LEMMA SameBox == ASSUME Typed, box' = box PROVE Onward
  BY BoxLen DEF Onward

LEMMA InitSound == Init => Typed /\ RowsHeld
  BY DEF Init, Typed, RowsHeld, Memories, Idle, Bodies, Empty

-----------------------------------------------------------------------------
(* Every step keeps the types, and what the drainers have in hand.             *)

LEMMA PatchTyped == ASSUME NEW d \in Docs, NEW f \in Fields, NEW n \in Nat, cat \in [Docs -> Bodies]
                    PROVE  /\ [cat EXCEPT ![d][f] = n] \in [Docs -> Bodies]
                           /\ [Empty EXCEPT ![f] = n] \in Bodies
  BY DEF Bodies, Empty

(* What a catalog change does to the box. *)
Queued ==
    /\ box' \in Seq(Items) /\ Onward
    /\ UNCHANGED <<dr, raised, hub, got, dropped, budget>>

LEMMA EnqueueOn ==
    ASSUME Typed, NEW kind \in Kinds, NEW d \in Docs, NEW body \in Bodies, Enqueue(kind, d, body)
    PROVE  Onward /\ box' \in Seq(Items)
  <1>1. /\ box' \in Seq(Items) /\ DOMAIN box' = DOMAIN box \cup {Len(box) + 1}
        /\ \A i \in DOMAIN box : box'[i] = box[i]
    BY EnqueueTyped
  <1>2. Len(box) \in Nat /\ Len(box) + 1 > Len(box)
    BY BoxLen
  <1> QED
    BY <1>1, <1>2 DEF Onward

LEMMA MergedOn ==
    ASSUME Typed, NEW d \in Docs, NEW body \in Bodies, EnqueueMerged("frame_patch", d, body)
    PROVE  Onward /\ box' \in Seq(Items)
  BY MergedTyped, EnqueueOn, BoxLen DEF Onward, Kinds

LEMMA ReportOn ==
    ASSUME Typed, Report
    PROVE  cat' \in [Docs -> Bodies] /\ Queued
  <1>1. ASSUME NEW d \in Frames, RegisterFrame(d) PROVE cat' \in [Docs -> Bodies] /\ Queued
    <2>1. cat' \in [Docs -> Bodies] /\ cat'[d] \in Bodies /\ d \in Docs
      BY <1>1 DEF RegisterFrame, Typed, Bodies, Docs
    <2>2. Enqueue("frame", d, cat'[d]) /\ "frame" \in Kinds
      BY <1>1 DEF RegisterFrame, Kinds
    <2>3. Onward /\ box' \in Seq(Items)
      BY <2>1, <2>2, EnqueueOn
    <2> QED
      BY <1>1, <2>1, <2>3 DEF Queued, RegisterFrame
  <1>2. ASSUME NEW d \in Frames, RequeueFrame(d) PROVE cat' \in [Docs -> Bodies] /\ Queued
    <2>1. cat[d] \in Bodies /\ d \in Docs /\ Enqueue("frame", d, cat[d]) /\ "frame" \in Kinds
      BY <1>2 DEF RequeueFrame, Typed, Docs, Kinds
    <2>2. Onward /\ box' \in Seq(Items)
      BY <2>1, EnqueueOn
    <2> QED
      BY <1>2, <2>2 DEF Queued, RequeueFrame, Typed
  <1>3. ASSUME NEW d \in Frames, NEW f \in Fields, PatchFrame(d, f) PROVE cat' \in [Docs -> Bodies] /\ Queued
    <2>1. d \in Docs /\ cat[d][f] + 1 \in Nat
      BY DEF Typed, Docs, Bodies
    <2>2. cat' = [cat EXCEPT ![d][f] = cat[d][f] + 1] /\ cat \in [Docs -> Bodies]
      BY <1>3 DEF PatchFrame, Typed
    <2>3. cat' \in [Docs -> Bodies]
      BY <2>1, <2>2, PatchTyped
    <2>4. cat'[d][f] \in Nat
      BY <2>1, <2>3 DEF Bodies
    <2>5. [Empty EXCEPT ![f] = cat'[d][f]] \in Bodies
      BY <2>1, <2>2, <2>4, PatchTyped
    <2>6. Onward /\ box' \in Seq(Items)
      BY <1>3, <2>1, <2>5, MergedOn DEF PatchFrame
    <2> QED
      BY <1>3, <2>3, <2>6 DEF Queued, PatchFrame
  <1>4. ASSUME NEW d \in Jobs, ReportJob(d) PROVE cat' \in [Docs -> Bodies] /\ Queued
    <2>1. d \in Docs /\ [f \in Fields |-> cat[d][f] + 1] \in Bodies
      BY DEF Typed, Docs, Bodies
    <2>2. cat' = [cat EXCEPT ![d] = [f \in Fields |-> cat[d][f] + 1]]
      BY <1>4 DEF ReportJob
    <2>3. cat' \in [Docs -> Bodies] /\ cat'[d] \in Bodies
      BY <2>1, <2>2 DEF Typed
    <2>4. Enqueue("job", d, cat'[d]) /\ "job" \in Kinds
      BY <1>4 DEF ReportJob, Kinds
    <2>5. Onward /\ box' \in Seq(Items)
      BY <2>1, <2>3, <2>4, EnqueueOn
    <2> QED
      BY <1>4, <2>3, <2>5 DEF Queued, ReportJob
  <1> QED
    BY <1>1, <1>2, <1>3, <1>4 DEF Report

LEMMA SnapshotHeld == ASSUME Typed, NEW i \in DOMAIN box PROVE Snapshot(i) \in Rows /\ Held(Snapshot(i)) /\ Snapshot(i).id = i
  BY BoxLen DEF Snapshot, Held, Items, Rows

LEMMA ReadSound == ASSUME Typed, RowsHeld, NEW w \in Drainers, Read(w) PROVE Typed' /\ RowsHeld'
  <1> DEFINE m == [dr[w] EXCEPT !.pc = "read", !.rows = {Snapshot(i) : i \in Due}]
  <1>1. dr[w] \in Memories /\ Due \subseteq DOMAIN box
    BY DEF Typed, Due
  <1>2. {Snapshot(i) : i \in Due} \subseteq Rows
    BY <1>1, SnapshotHeld
  <1>3. m \in Memories
    BY <1>1, <1>2 DEF Memories
  <1>4. dr' = [dr EXCEPT ![w] = m]
    BY DEF Read, Typed
  <1>5. /\ m.rows = {Snapshot(i) : i \in Due} /\ m.ok = dr[w].ok /\ m.bad = dr[w].bad
    BY <1>1 DEF Memories
  <1> HIDE DEF m
  <1>6. dr' \in [Drainers -> Memories] /\ dr'[w] = m /\ \A v \in Drainers \ {w} : dr'[v] = dr[v]
    BY <1>3, <1>4, MemoryTyped
  <1>7. Onward
    BY SameBox DEF Read
  <1>8. \A r \in m.rows : Held(r)
    BY <1>1, <1>5, SnapshotHeld
  <1>9. \A r, s \in m.rows : r.id = s.id => r = s
    BY <1>1, <1>5, SnapshotHeld
  <1>10. RowsHeld'
    BY <1>5, <1>6, <1>7, <1>8, <1>9, RowsOn DEF RowsHeld
  <1> QED
    BY <1>6, <1>10 DEF Read, Typed

LEMMA CoalesceSound ==
    ASSUME Typed, RowsHeld, NEW w \in Drainers, Coalesce(w) PROVE Typed' /\ RowsHeld'
  <1> DEFINE m == [dr[w] EXCEPT !.pc = "send", !.rows = @ \ Superseded(@)]
  <1>1. dr[w] \in Memories
    BY DEF Typed
  <1>2. m \in Memories
    BY <1>1 DEF Memories
  <1>3. dr' = [dr EXCEPT ![w] = m]
    BY DEF Coalesce, Typed
  <1>4. /\ m.rows \subseteq dr[w].rows /\ m.ok = dr[w].ok /\ m.bad = dr[w].bad
    BY <1>1 DEF Memories
  <1> HIDE DEF m
  <1>5. dr' \in [Drainers -> Memories] /\ dr'[w] = m /\ \A v \in Drainers \ {w} : dr'[v] = dr[v]
    BY <1>2, <1>3, MemoryTyped
  <1>6. Onward /\ box' \in Seq(Items)
    BY MarkSentTyped DEF Coalesce
  <1>7. RowsHeld'
    BY <1>4, <1>5, <1>6, RowsOn DEF RowsHeld
  <1> QED
    BY <1>5, <1>6, <1>7 DEF Coalesce, Typed

LEMMA CountTyped ==
    ASSUME Typed
    PROVE  /\ [budget EXCEPT !.outages = @ + 1] \in [outages : Nat, refusals : Nat, crashes : Nat, operator : Nat]
           /\ [budget EXCEPT !.refusals = @ + 1] \in [outages : Nat, refusals : Nat, crashes : Nat, operator : Nat]
           /\ [budget EXCEPT !.crashes = @ + 1] \in [outages : Nat, refusals : Nat, crashes : Nat, operator : Nat]
           /\ [budget EXCEPT !.operator = @ + 1] \in [outages : Nat, refusals : Nat, crashes : Nat, operator : Nat]
  BY DEF Typed

(* What the Hub accepts it has; nothing it has is taken back. *)
LEMMA AcceptTyped ==
    ASSUME Typed, NEW rows, rows \subseteq Rows, Accept(rows)
    PROVE  /\ hub' \in [Docs -> Bodies] /\ got' \in [Docs -> Bodies]
           /\ \A d \in Docs, f \in Fields : /\ hub[d][f] # 0 => hub'[d][f] # 0
                                            /\ got'[d][f] >= got[d][f] /\ got'[d][f] >= hub'[d][f]
           /\ \A r \in rows, f \in Fields : r.body[f] # 0 => hub'[r.doc][f] # 0
           /\ \A d \in Docs, f \in Fields :
                 \/ hub'[d][f] = hub[d][f] /\ \A r \in rows : r.doc = d => r.body[f] = 0
                 \/ \E r \in rows : r.doc = d /\ r.body[f] # 0 /\ hub'[d][f] = r.body[f]
  <1> DEFINE of(d) == {r \in rows : r.doc = d}
             new(d, f) == IF \E r \in of(d) : r.body[f] # 0 THEN (CHOOSE r \in of(d) : r.body[f] # 0).body[f] ELSE hub[d][f]
  <1>1. hub' = [d \in Docs |-> [f \in Fields |-> new(d, f)]]
    BY DEF Accept
  <1>2. ASSUME NEW d \in Docs, NEW f \in Fields
        PROVE  /\ new(d, f) \in Nat
               /\ hub[d][f] # 0 => new(d, f) # 0
               /\ \/ new(d, f) = hub[d][f] /\ \A r \in rows : r.doc = d => r.body[f] = 0
                  \/ \E r \in rows : r.doc = d /\ r.body[f] # 0 /\ new(d, f) = r.body[f]
    <2>1. hub[d][f] \in Nat
      BY DEF Typed, Bodies
    <2>2. CASE \E r \in of(d) : r.body[f] # 0
      <3> DEFINE r == CHOOSE s \in of(d) : s.body[f] # 0
      <3>1. r \in of(d) /\ r.body[f] # 0
        BY <2>2
      <3>2. new(d, f) = r.body[f]
        BY <2>2
      <3> HIDE DEF r, new
      <3>3. r.body[f] \in Nat /\ r \in rows /\ r.doc = d
        BY <3>1 DEF Rows, Bodies
      <3> QED
        BY <3>1, <3>2, <3>3
    <2>3. CASE ~\E r \in of(d) : r.body[f] # 0
      BY <2>1, <2>3
    <2> QED
      BY <2>2, <2>3
  <1>3. \A d \in Docs, f \in Fields : hub'[d][f] = new(d, f)
    BY <1>1
  <1> HIDE DEF new
  <1>4. hub' \in [Docs -> Bodies]
    <2>1. \A d \in Docs : [f \in Fields |-> new(d, f)] \in Bodies
      BY <1>2 DEF Bodies
    <2> QED
      BY <1>1, <2>1
  <1>5. got' = [d \in Docs |-> [f \in Fields |-> Newest(hub'[d][f], got[d][f])]]
    BY DEF Accept
  <1>6. ASSUME NEW d \in Docs, NEW f \in Fields
        PROVE  got'[d][f] \in Nat /\ got'[d][f] >= got[d][f] /\ got'[d][f] >= hub'[d][f]
    BY <1>4, <1>5 DEF Newest, Typed, Bodies
  <1>7. got' \in [Docs -> Bodies]
    BY <1>4, <1>5 DEF Newest, Typed, Bodies
  <1>8. ASSUME NEW r \in rows, NEW f \in Fields, r.body[f] # 0 PROVE hub'[r.doc][f] # 0
    BY <1>2, <1>3, <1>8 DEF Rows
  <1> QED
    BY <1>2, <1>3, <1>4, <1>6, <1>7, <1>8

LEMMA RequestIn == ASSUME NEW rows PROVE Request(rows) \subseteq rows
  BY DEF Request

LEMMA SendSound == ASSUME Typed, RowsHeld, NEW w \in Drainers, Send(w) PROVE Typed' /\ RowsHeld'
  <1> DEFINE request == Request(dr[w].rows)
  <1>1. PICK refused \in SUBSET (request \ Unknown(request)) :
          /\ budget' = IF refused # {} THEN [budget EXCEPT !.refusals = @ + 1] ELSE budget
          /\ Accept(request \ (refused \cup Unknown(request)))
          /\ dr' = [dr EXCEPT ![w].pc = "answered", ![w].rows = @ \ request,
                              ![w].ok = request \ (refused \cup Unknown(request)), ![w].bad = refused \cup Unknown(request)]
    BY DEF Send
  <1> DEFINE bad == refused \cup Unknown(request)
             m == [dr[w] EXCEPT !.pc = "answered", !.rows = @ \ request, !.ok = request \ bad, !.bad = bad]
  <1>2. dr[w] \in Memories /\ request \subseteq dr[w].rows /\ bad \subseteq request
    BY RequestIn DEF Typed, Unknown
  <1>3. dr[w].rows \subseteq Rows
    BY <1>2 DEF Memories
  <1>4. dr' = [dr EXCEPT ![w] = m]
    BY <1>1 DEF Typed
  <1> HIDE DEF request, bad
  <1>5. m \in Memories /\ m.rows = dr[w].rows \ request /\ m.ok = request \ bad /\ m.bad = bad
    BY <1>2, <1>3 DEF Memories
  <1> HIDE DEF m
  <1>6. dr' \in [Drainers -> Memories] /\ dr'[w] = m /\ \A v \in Drainers \ {w} : dr'[v] = dr[v]
    BY <1>4, <1>5, MemoryTyped
  <1>7. Onward
    BY SameBox DEF Send
  <1>8. RowsHeld'
    BY <1>2, <1>5, <1>6, <1>7, RowsOn DEF RowsHeld
  <1>9. hub' \in [Docs -> Bodies] /\ got' \in [Docs -> Bodies]
    <2>1. Accept(request \ bad) /\ request \ bad \subseteq Rows
      BY <1>1, <1>2, <1>3 DEF bad, request
    <2> QED
      BY <2>1, AcceptTyped
  <1>10. budget' \in [outages : Nat, refusals : Nat, crashes : Nat, operator : Nat]
    BY <1>1, CountTyped DEF Typed
  <1> QED
    BY <1>6, <1>8, <1>9, <1>10 DEF Send, Typed

LEMMA SendFailsSound == ASSUME Typed, RowsHeld, NEW w \in Drainers, SendFails(w) PROVE Typed' /\ RowsHeld'
  <1> DEFINE request == Request(dr[w].rows)
             m == [dr[w] EXCEPT !.pc = "answered", !.bad = request, !.down = TRUE]
  <1>1. dr[w] \in Memories /\ request \subseteq dr[w].rows /\ request \ Unknown(request) \subseteq request
    BY RequestIn DEF Typed
  <1>2. dr[w].rows \subseteq Rows
    BY <1>1 DEF Memories
  <1>3. dr' = [dr EXCEPT ![w] = m] /\ (Accept(request \ Unknown(request)) \/ UNCHANGED <<hub, got>>)
    BY DEF SendFails, Typed
  <1> HIDE DEF request
  <1>4. m \in Memories /\ m.rows = dr[w].rows /\ m.ok = dr[w].ok /\ m.bad = request
    BY <1>1, <1>2 DEF Memories
  <1> HIDE DEF m
  <1>5. dr' \in [Drainers -> Memories] /\ dr'[w] = m /\ \A v \in Drainers \ {w} : dr'[v] = dr[v]
    BY <1>3, <1>4, MemoryTyped
  <1>6. Onward
    BY SameBox DEF SendFails
  <1>7. RowsHeld'
    BY <1>1, <1>4, <1>5, <1>6, RowsOn DEF RowsHeld
  <1>8. hub' \in [Docs -> Bodies] /\ got' \in [Docs -> Bodies]
    <2>1. CASE Accept(request \ Unknown(request))
      BY <1>1, <1>2, <2>1, AcceptTyped
    <2>2. CASE UNCHANGED <<hub, got>>
      BY <2>2 DEF Typed
    <2> QED
      BY <1>3, <2>1, <2>2
  <1> QED
    BY <1>5, <1>7, <1>8, CountTyped DEF SendFails, Typed

LEMMA MarkOkSound == ASSUME Typed, RowsHeld, NEW w \in Drainers, MarkOk(w) PROVE Typed' /\ RowsHeld'
  <1> DEFINE m == [dr[w] EXCEPT !.ok = {}]
  <1>1. dr[w] \in Memories
    BY DEF Typed
  <1>2. m \in Memories /\ m.rows = dr[w].rows /\ m.ok = {} /\ m.bad = dr[w].bad
    BY <1>1 DEF Memories
  <1>3. dr' = [dr EXCEPT ![w] = m]
    BY DEF MarkOk, Typed
  <1> HIDE DEF m
  <1>4. dr' \in [Drainers -> Memories] /\ dr'[w] = m /\ \A v \in Drainers \ {w} : dr'[v] = dr[v]
    BY <1>2, <1>3, MemoryTyped
  <1>5. Onward /\ box' \in Seq(Items)
    BY MarkSentTyped DEF MarkOk
  <1>6. RowsHeld'
    BY <1>2, <1>4, <1>5, RowsOn DEF RowsHeld
  <1> QED
    BY <1>4, <1>5, <1>6 DEF MarkOk, Typed

LEMMA RetrySound == ASSUME Typed, RowsHeld, NEW w \in Drainers, Retry(w) PROVE Typed' /\ RowsHeld'
  <1>1. PICK r \in dr[w].bad, attempts \in Nat, refused \in Nat, waiting \in BOOLEAN, state \in {"pending", "parked", "sent"},
               pc \in {"answered", "raise"}, left \in SUBSET dr[w].bad :
          /\ box' = [box EXCEPT ![r.id].attempts = attempts, ![r.id].waiting = waiting,
                                ![r.id].state = state, ![r.id].refused = refused]
          /\ dr' = [dr EXCEPT ![w].pc = pc, ![w].bad = left]
    <2>1. PICK r \in dr[w].bad : LET attempts == IF r.attempts < Max4xx THEN r.attempts + 1 ELSE Max4xx
                park     == ~dr[w].down /\ attempts >= Max4xx
            IN  /\ box' = [box EXCEPT ![r.id].attempts = attempts,
                                      ![r.id].waiting = IF park THEN @ ELSE TRUE,
                                      ![r.id].state = IF park /\ @ = "pending" THEN "parked" ELSE @,
                                      ![r.id].refused = IF dr[w].down \/ @ >= Max4xx THEN @ ELSE @ + 1]
                /\ dr' = [dr EXCEPT ![w].pc = IF park THEN "raise" ELSE "answered",
                                    ![w].bad = IF park THEN @ ELSE @ \ {r}]
      BY DEF Retry
    <2> DEFINE attempts == IF r.attempts < Max4xx THEN r.attempts + 1 ELSE Max4xx
               park == ~dr[w].down /\ attempts >= Max4xx
    <2>2. r \in Rows /\ r.id \in DOMAIN box /\ box[r.id] \in Items
      BY BoxLen DEF Typed, Memories, RowsHeld, Held
    <2>3. attempts \in Nat
      BY <2>2, DocsAssumption DEF Rows
    <2> HIDE DEF attempts
    <2>4. /\ (IF park /\ box[r.id].state = "pending" THEN "parked" ELSE box[r.id].state) \in {"pending", "parked", "sent"}
          /\ (IF dr[w].down \/ box[r.id].refused >= Max4xx THEN box[r.id].refused ELSE box[r.id].refused + 1) \in Nat
          /\ (IF park THEN "raise" ELSE "answered") \in {"answered", "raise"}
          /\ (IF park THEN dr[w].bad ELSE dr[w].bad \ {r}) \in SUBSET dr[w].bad
      BY <2>2 DEF Items
    <2>6. box[r.id].waiting \in BOOLEAN
      BY <2>2 DEF Items
    <2>7. (IF park THEN box[r.id].waiting ELSE TRUE) \in BOOLEAN
      BY <2>6
    <2>5. /\ box' = [box EXCEPT ![r.id].attempts = attempts,
                                ![r.id].waiting = IF park THEN box[r.id].waiting ELSE TRUE,
                                ![r.id].state = IF park /\ box[r.id].state = "pending" THEN "parked" ELSE box[r.id].state,
                                ![r.id].refused = IF dr[w].down \/ box[r.id].refused >= Max4xx THEN box[r.id].refused
                                                  ELSE box[r.id].refused + 1]
          /\ dr' = [dr EXCEPT ![w].pc = IF park THEN "raise" ELSE "answered",
                              ![w].bad = IF park THEN dr[w].bad ELSE dr[w].bad \ {r}]
      BY <2>1, <2>2 DEF attempts, Typed, Items
    <2> HIDE DEF park
    <2> QED
      BY <2>3, <2>4, <2>5, <2>7
  <1> DEFINE m == [dr[w] EXCEPT !.pc = pc, !.bad = left]
             item == [box[r.id] EXCEPT !.attempts = attempts, !.waiting = waiting, !.state = state, !.refused = refused]
  <1>2. dr[w] \in Memories /\ r.id \in DOMAIN box
    BY DEF Typed, RowsHeld, Held
  <1>3. m \in Memories /\ m.rows = dr[w].rows /\ m.ok = dr[w].ok /\ m.bad = left
    BY <1>2 DEF Memories
  <1>4. dr' = [dr EXCEPT ![w] = m]
    BY <1>1 DEF Typed
  <1> HIDE DEF m
  <1>5. dr' \in [Drainers -> Memories] /\ dr'[w] = m /\ \A v \in Drainers \ {w} : dr'[v] = dr[v]
    BY <1>3, <1>4, MemoryTyped
  <1>9. box[r.id] \in Items
    BY <1>2, BoxLen
  <1>10. box' = [box EXCEPT ![r.id] = item]
    BY <1>1, <1>2, <1>9 DEF Items
  <1>11. /\ item \in Items /\ item.kind = box[r.id].kind /\ item.doc = box[r.id].doc
         /\ item.body = box[r.id].body
    BY <1>9 DEF Items
  <1> HIDE DEF item
  <1>6. /\ DOMAIN box' = DOMAIN box /\ box' = [i \in DOMAIN box |-> box'[i]]
        /\ \A i \in DOMAIN box : box'[i] \in Items
        /\ \A i \in DOMAIN box : /\ box'[i].kind = box[i].kind /\ box'[i].doc = box[i].doc
                                 /\ box'[i].body = box[i].body
    BY <1>2, <1>10, <1>11, BoxLen
  <1>7. Onward /\ box' \in Seq(Items)
    BY <1>6, SameRows DEF Onward
  <1>8. RowsHeld'
    BY <1>3, <1>5, <1>7, RowsOn DEF RowsHeld
  <1> QED
    BY <1>5, <1>7, <1>8 DEF Retry, Typed

LEMMA RaiseSound == ASSUME Typed, RowsHeld, NEW w \in Drainers, Raise(w) PROVE Typed' /\ RowsHeld'
  <1>1. PICK r \in dr[w].bad : raised' = raised \cup {r.doc} /\ dr' = [dr EXCEPT ![w].pc = "answered", ![w].bad = @ \ {r}]
    BY DEF Raise
  <1> DEFINE m == [dr[w] EXCEPT !.pc = "answered", !.bad = @ \ {r}]
  <1>2. dr[w] \in Memories /\ r.doc \in Docs
    BY DEF Typed, Memories, Rows
  <1>3. m \in Memories /\ m.rows = dr[w].rows /\ m.ok = dr[w].ok /\ m.bad \subseteq dr[w].bad
    BY <1>2 DEF Memories
  <1>4. dr' = [dr EXCEPT ![w] = m]
    BY <1>1 DEF Typed
  <1> HIDE DEF m
  <1>5. dr' \in [Drainers -> Memories] /\ dr'[w] = m /\ \A v \in Drainers \ {w} : dr'[v] = dr[v]
    BY <1>3, <1>4, MemoryTyped
  <1>6. Onward
    BY SameBox DEF Raise
  <1>7. RowsHeld'
    BY <1>3, <1>5, <1>6, RowsOn DEF RowsHeld
  <1> QED
    BY <1>1, <1>2, <1>5, <1>7 DEF Raise, Typed

LEMMA IdleTyped == Idle \in Memories /\ Idle.rows = {} /\ Idle.ok = {} /\ Idle.bad = {}
  BY DEF Idle, Memories

LEMMA ProceedSound == ASSUME Typed, RowsHeld, NEW w \in Drainers, Proceed(w) \/ Crash(w) PROVE Typed' /\ RowsHeld'
  <1>1. PICK m : /\ m = Idle \/ m = [dr[w] EXCEPT !.pc = "send"]
                 /\ dr' = [dr EXCEPT ![w] = m]
    BY DEF Proceed, Crash, Typed
  <1>2. dr[w] \in Memories
    BY DEF Typed
  <1>3. /\ m \in Memories
        /\ m.rows \subseteq dr[w].rows /\ m.ok \subseteq dr[w].ok /\ m.bad \subseteq dr[w].bad
    BY <1>1, <1>2, IdleTyped DEF Memories
  <1>4. dr' \in [Drainers -> Memories] /\ dr'[w] = m /\ \A v \in Drainers \ {w} : dr'[v] = dr[v]
    BY <1>1, <1>3, MemoryTyped
  <1>5. Onward
    BY SameBox DEF Proceed, Crash
  <1>6. RowsHeld'
    BY <1>3, <1>4, <1>5, RowsOn DEF RowsHeld
  <1> QED
    BY <1>4, <1>6, CountTyped DEF Proceed, Crash, Typed

(* Time and the operator touch one row's queueing, never what it says. *)
LEMMA OperatorOn ==
    ASSUME Typed, NEW i \in DOMAIN box, BackoffEnds(i) \/ OperatorRetry(i) \/ OperatorDrop(i)
    PROVE  /\ Onward /\ box' \in Seq(Items) /\ DOMAIN box' = DOMAIN box
           /\ \A j \in DOMAIN box : box'[j] = [box[j] EXCEPT !.attempts = box'[j].attempts, !.waiting = box'[j].waiting,
                                                            !.state = box'[j].state]
  <1>1. PICK attempts \in Nat, waiting \in BOOLEAN, state \in {"pending", "parked", "sent"} :
          box' = [box EXCEPT ![i] = [box[i] EXCEPT !.attempts = attempts, !.waiting = waiting, !.state = state]]
    <2>1. box[i] \in Items
      BY BoxLen
    <2>2. CASE BackoffEnds(i)
      <3>1. box' = [box EXCEPT ![i] = [box[i] EXCEPT !.attempts = box[i].attempts, !.waiting = FALSE, !.state = box[i].state]]
        BY <2>1, <2>2 DEF BackoffEnds, Items
      <3> QED
        BY <2>1, <3>1 DEF Items
    <2>3. CASE OperatorRetry(i)
      <3>1. box' = [box EXCEPT ![i] = [box[i] EXCEPT !.attempts = 0, !.waiting = FALSE, !.state = "pending"]]
        BY <2>1, <2>3 DEF OperatorRetry, Items
      <3> QED
        BY <3>1
    <2>4. CASE OperatorDrop(i)
      <3>1. box[i].waiting \in BOOLEAN /\ box[i].attempts \in Nat
        BY <2>1 DEF Items
      <3>2. box' = [box EXCEPT ![i] = [box[i] EXCEPT !.attempts = box[i].attempts, !.waiting = box[i].waiting, !.state = "sent"]]
        BY <2>1, <2>4 DEF OperatorDrop, Items
      <3> QED
        BY <3>1, <3>2
    <2> QED
      BY <2>2, <2>3, <2>4
  <1>2. box[i] \in Items
    BY BoxLen
  <1>3. [box[i] EXCEPT !.attempts = attempts, !.waiting = waiting, !.state = state] \in Items
    BY <1>2 DEF Items
  <1>4. \A j \in DOMAIN box : box'[j] \in Items
    BY <1>1, <1>3, BoxLen
  <1>5. DOMAIN box' = DOMAIN box /\ box' = [j \in DOMAIN box |-> box'[j]]
    BY <1>1
  <1>6. \A j \in DOMAIN box : box'[j] = [box[j] EXCEPT !.attempts = box'[j].attempts, !.waiting = box'[j].waiting,
                                                       !.state = box'[j].state]
    BY <1>1, <1>2, BoxLen DEF Items
  <1>7. Onward
    BY <1>1, <1>2, <1>5, BoxLen DEF Onward, Items
  <1> QED
    BY <1>4, <1>5, <1>6, <1>7, SameRows

LEMMA OperatorSound ==
    ASSUME Typed, RowsHeld, NEW i \in DOMAIN box, BackoffEnds(i) \/ OperatorRetry(i) \/ OperatorDrop(i)
    PROVE  Typed' /\ RowsHeld'
  <1>1. Onward /\ box' \in Seq(Items)
    BY OperatorOn
  <1>2. dr' = dr /\ box[i].doc \in Docs
    BY BoxLen DEF BackoffEnds, OperatorRetry, OperatorDrop, Items
  <1>3. RowsHeld'
    BY <1>1, <1>2, HeldOn DEF RowsHeld
  <1> QED
    BY <1>1, <1>2, <1>3, CountTyped DEF BackoffEnds, OperatorRetry, OperatorDrop, Operator, Typed

LEMMA ReportSound == ASSUME Typed, RowsHeld, Report PROVE Typed' /\ RowsHeld'
  <1>1. cat' \in [Docs -> Bodies] /\ Queued
    BY ReportOn
  <1>2. RowsHeld'
    BY <1>1, HeldOn DEF Queued, RowsHeld
  <1> QED
    BY <1>1, <1>2 DEF Queued, Typed

LEMMA NextSound == Typed /\ RowsHeld /\ [Next]_vars => Typed' /\ RowsHeld'
  <1> SUFFICES ASSUME Typed, RowsHeld, [Next]_vars PROVE Typed' /\ RowsHeld'
    OBVIOUS
  <1>1. CASE Report
    BY <1>1, ReportSound
  <1>2. ASSUME NEW w \in Drainers, Drain(w) \/ SendFails(w) \/ Crash(w) PROVE Typed' /\ RowsHeld'
    BY <1>2, ReadSound, CoalesceSound, SendSound, SendFailsSound, MarkOkSound, RetrySound, RaiseSound, ProceedSound DEF Drain
  <1>3. ASSUME NEW i \in DOMAIN box, BackoffEnds(i) \/ OperatorRetry(i) \/ OperatorDrop(i) PROVE Typed' /\ RowsHeld'
    BY <1>3, OperatorSound
  <1>4. CASE UNCHANGED vars
    BY <1>4 DEF vars, Typed, RowsHeld, Held
  <1> QED
    BY <1>1, <1>2, <1>3, <1>4 DEF Next

LEMMA TypesFollow == Typed => TypeOK
  BY DEF Typed, TypeOK, Memories

(* The type invariant of the outbox, the drainers' memories and the Hub's copy *)
(* (hub/outbox.py, hub/sync.py).                                             *)
THEOREM OutboxTypeCorrect == Spec => []TypeOK
  BY InitSound, NextSound, TypesFollow, PTL DEF Spec

-----------------------------------------------------------------------------
(* The newest report of a document stays unsent until the Hub has what it says. *)

(* A frame is only ever reported whole, or patched, and a job reported.        *)
BoxHeld ==
    \A i \in DOMAIN box :
        /\ box[i].kind = "frame" => \E f \in Fields : box[i].body[f] # 0
        /\ box[i].doc \in Jobs => box[i].kind = "job"

(* What a drainer was told the Hub accepted, the Hub has. *)
AcceptedHeld ==
    \A w \in Drainers : \A r \in dr[w].ok :
        /\ r.kind = "frame" => \E f \in Fields : hub[r.doc][f] # 0
        /\ r.doc \in Jobs => \A f \in Fields : got[r.doc][f] >= r.body[f]

(* Row i is the newest of its kind about document d. *)
Last(kind, d, i) ==
    /\ i \in DOMAIN box /\ box[i].kind = kind /\ box[i].doc = d
    /\ \A j \in DOMAIN box : box[j].kind = kind /\ box[j].doc = d => j <= i

FrameHeld ==
    \A d \in Frames \ dropped : Known(d) =>
        \E i \in DOMAIN box : Last("frame", d, i) /\ (Unsent(i) \/ \E f \in Fields : hub[d][f] # 0)

JobHeld ==
    \A d \in Jobs \ dropped :
        \/ \A f \in Fields : got[d][f] >= cat[d][f]
        \/ \E i \in DOMAIN box : Last("job", d, i) /\ Unsent(i) /\ box[i].body = cat[d]

IInv == BoxHeld /\ AcceptedHeld /\ FrameHeld /\ JobHeld

(* A row that the newest of its kind is stays so unless another is queued.     *)
LEMMA LastOn ==
    ASSUME Onward, DOMAIN box' = DOMAIN box, NEW kind, NEW d, NEW i, Last(kind, d, i) PROVE Last(kind, d, i)'
  BY DEF Last, Onward

(* Coalescing writes off no newest row: a newer one of its kind was read.      *)
LEMMA LastSurvives ==
    ASSUME Typed, RowsHeld, NEW w \in Drainers, NEW kind, NEW d, NEW i, Last(kind, d, i)
    PROVE  i \notin Ids(Superseded(dr[w].rows))
  <1> SUFFICES ASSUME NEW r \in dr[w].rows, NEW s \in dr[w].rows, s.kind = r.kind, s.doc = r.doc, s.id > r.id, r.id = i
               PROVE  FALSE
    BY DEF Ids, Superseded
  <1>1. Held(r) /\ Held(s)
    BY DEF RowsHeld
  <1>2. box[s.id].kind = kind /\ box[s.id].doc = d /\ s.id \in DOMAIN box
    BY <1>1 DEF Held, Last
  <1>3. s.id <= i /\ s.id \in Nat /\ i \in Nat
    BY <1>2, BoxLen DEF Last
  <1> QED
    BY <1>3

(* Nothing is lost by a step that reports nothing new, queues nothing and takes *)
(* nothing back from the Hub, if what it marks sent is at the Hub or dropped.   *)
LEMMA QuietKeeps ==
    ASSUME Typed, IInv, Onward, DOMAIN box' = DOMAIN box, cat' = cat, dropped \subseteq dropped',
           \A d \in Docs, f \in Fields : (hub[d][f] # 0 => hub'[d][f] # 0) /\ got'[d][f] >= got[d][f],
           hub' \in [Docs -> Bodies], got' \in [Docs -> Bodies],
           \A d \in Frames \ dropped', i \in DOMAIN box :
              Last("frame", d, i) /\ Unsent(i) => Unsent(i)' \/ \E f \in Fields : hub'[d][f] # 0,
           \A d \in Jobs \ dropped', i \in DOMAIN box :
              Last("job", d, i) /\ Unsent(i) => Unsent(i)' \/ \A f \in Fields : got'[d][f] >= box[i].body[f]
    PROVE  BoxHeld' /\ FrameHeld' /\ JobHeld'
  <1>1. BoxHeld'
    BY DEF IInv, BoxHeld, Onward
  <1>2. ASSUME NEW d \in Frames \ dropped', Known(d)'
        PROVE  \E i \in DOMAIN box' : Last("frame", d, i)' /\ (Unsent(i)' \/ \E f \in Fields : hub'[d][f] # 0)
    <2>1. Known(d) /\ d \in Docs /\ d \notin dropped
      BY <1>2 DEF Known, Docs
    <2>2. PICK i \in DOMAIN box : Last("frame", d, i) /\ (Unsent(i) \/ \E f \in Fields : hub[d][f] # 0)
      BY <2>1, <1>2 DEF IInv, FrameHeld
    <2>3. Last("frame", d, i)'
      BY <2>2, LastOn
    <2> QED
      BY <2>1, <2>2, <2>3
  <1>3. ASSUME NEW d \in Jobs \ dropped'
        PROVE  \/ \A f \in Fields : got'[d][f] >= cat'[d][f]
               \/ \E i \in DOMAIN box' : Last("job", d, i)' /\ Unsent(i)' /\ box'[i].body = cat'[d]
    <2>1. d \in Docs /\ d \notin dropped
      BY DEF Docs
    <2>2. CASE \A f \in Fields : got[d][f] >= cat[d][f]
      <3>1. ASSUME NEW f \in Fields PROVE got'[d][f] >= cat'[d][f]
        <4>1. cat[d][f] \in Nat /\ got[d][f] \in Nat /\ got'[d][f] \in Nat
          BY <2>1 DEF Typed, Bodies
        <4> QED
          BY <2>1, <2>2, <4>1
      <3> QED
        BY <3>1
    <2>3. ASSUME NEW i \in DOMAIN box, Last("job", d, i), Unsent(i), box[i].body = cat[d]
          PROVE  \/ \A f \in Fields : got'[d][f] >= cat'[d][f]
                 \/ \E j \in DOMAIN box' : Last("job", d, j)' /\ Unsent(j)' /\ box'[j].body = cat'[d]
      <3>1. Last("job", d, i)' /\ box'[i].body = cat'[d]
        BY <2>3, LastOn DEF Last, Onward
      <3> QED
        BY <2>1, <2>3, <3>1
    <2> QED
      BY <2>1, <2>2, <2>3 DEF IInv, JobHeld
  <1> QED
    BY <1>1, <1>2, <1>3 DEF FrameHeld, JobHeld

(* A step that leaves the box alone. *)
LEMMA SameBoxKeeps ==
    ASSUME Typed, IInv, UNCHANGED <<cat, box, dropped>>,
           \A d \in Docs, f \in Fields : (hub[d][f] # 0 => hub'[d][f] # 0) /\ got'[d][f] >= got[d][f],
           hub' \in [Docs -> Bodies], got' \in [Docs -> Bodies]
    PROVE  BoxHeld' /\ FrameHeld' /\ JobHeld'
  <1>1. Onward
    BY SameBox
  <1>2. \A i \in DOMAIN box : Unsent(i) => Unsent(i)'
    BY DEF Unsent
  <1> QED
    BY <1>1, <1>2, QuietKeeps

(* What the Hub was seen to accept stays accepted. *)
LEMMA AcceptedKeeps ==
    ASSUME Typed, IInv, dr' \in [Drainers -> Memories],
           \A d \in Docs, f \in Fields : (hub[d][f] # 0 => hub'[d][f] # 0) /\ got'[d][f] >= got[d][f],
           got' \in [Docs -> Bodies],
           \A w \in Drainers : dr'[w].ok \subseteq dr[w].ok
    PROVE  AcceptedHeld'
  <1> SUFFICES ASSUME NEW w \in Drainers, NEW r \in dr'[w].ok
               PROVE  /\ r.kind = "frame" => \E f \in Fields : hub'[r.doc][f] # 0
                      /\ r.doc \in Jobs => \A f \in Fields : got'[r.doc][f] >= r.body[f]
    BY DEF AcceptedHeld
  <1>1. r \in dr[w].ok /\ r \in Rows /\ r.doc \in Docs /\ r.body \in Bodies
    BY DEF Typed, Memories, Rows
  <1>2. r.kind = "frame" => \E f \in Fields : hub'[r.doc][f] # 0
    BY <1>1 DEF IInv, AcceptedHeld
  <1>3. ASSUME r.doc \in Jobs, NEW f \in Fields PROVE got'[r.doc][f] >= r.body[f]
    <2>1. got[r.doc][f] >= r.body[f] /\ got'[r.doc][f] >= got[r.doc][f]
      BY <1>1, <1>3 DEF IInv, AcceptedHeld
    <2>2. r.body[f] \in Nat /\ got[r.doc][f] \in Nat /\ got'[r.doc][f] \in Nat
      BY <1>1 DEF Typed, Bodies
    <2> QED
      BY <2>1, <2>2
  <1> QED
    BY <1>2, <1>3

LEMMA SameHub ==
    ASSUME Typed, UNCHANGED <<hub, got>>
    PROVE  /\ \A d \in Docs, f \in Fields : (hub[d][f] # 0 => hub'[d][f] # 0) /\ got'[d][f] >= got[d][f]
           /\ hub' \in [Docs -> Bodies] /\ got' \in [Docs -> Bodies]
  BY DEF Typed, Bodies

LEMMA EnqueueLast ==
    ASSUME Typed, NEW kind \in Kinds, NEW d \in Docs, NEW body \in Bodies, Enqueue(kind, d, body)
    PROVE  /\ \E i \in DOMAIN box' : Last(kind, d, i)' /\ Unsent(i)' /\ box'[i].body = body
           /\ \A k, c, i : Last(k, c, i) /\ (k # kind \/ c # d) => Last(k, c, i)'
           /\ \A i \in DOMAIN box : i \in DOMAIN box' /\ box'[i] = box[i]
           /\ \A i \in DOMAIN box' \ DOMAIN box : box'[i].kind = kind /\ box'[i].doc = d /\ box'[i].body = body
  <1>1. PICK new : new = Len(box) + 1
    OBVIOUS
  <1>2. /\ DOMAIN box' = DOMAIN box \cup {new}
        /\ \A i \in DOMAIN box : box'[i] = box[i]
        /\ box'[new].kind = kind /\ box'[new].doc = d /\ box'[new].body = body /\ box'[new].state = "pending"
    BY <1>1, EnqueueTyped
  <1>3. new \in Nat /\ \A i \in DOMAIN box : i \in Nat /\ i <= new
    BY <1>1, BoxLen
  <1>4. \A i \in DOMAIN box' : i \in Nat /\ i <= new
    BY <1>2, <1>3
  <1>5. Last(kind, d, new)' /\ Unsent(new)' /\ new \in DOMAIN box'
    BY <1>2, <1>4 DEF Last, Unsent
  <1>6. ASSUME NEW k, NEW c, NEW i, Last(k, c, i), k # kind \/ c # d PROVE Last(k, c, i)'
    BY <1>2, <1>6 DEF Last
  <1> QED
    BY <1>2, <1>5, <1>6

(* A whole report of d, queued last, with all the catalog has of it. *)
LEMMA WholeKeeps ==
    ASSUME Typed, IInv, NEW kind \in {"frame", "job"}, NEW d \in Docs, d \in (IF kind = "frame" THEN Frames ELSE Jobs),
           cat' \in [Docs -> Bodies], \A c \in Docs \ {d} : cat'[c] = cat[c],
           kind = "frame" => \E f \in Fields : cat'[d][f] # 0,
           Enqueue(kind, d, cat'[d]), UNCHANGED <<hub, got, dropped>>
    PROVE  BoxHeld' /\ FrameHeld' /\ JobHeld'
  <1>0. kind \in Kinds /\ cat'[d] \in Bodies
    BY DEF Kinds
  <1>1. /\ \E i \in DOMAIN box' : Last(kind, d, i)' /\ Unsent(i)' /\ box'[i].body = cat'[d]
        /\ \A k, c, i : Last(k, c, i) /\ (k # kind \/ c # d) => Last(k, c, i)'
        /\ \A i \in DOMAIN box : i \in DOMAIN box' /\ box'[i] = box[i]
        /\ \A i \in DOMAIN box' \ DOMAIN box : box'[i].kind = kind /\ box'[i].doc = d /\ box'[i].body = cat'[d]
    BY <1>0, EnqueueLast
  <1>3. BoxHeld'
    BY <1>1, DocsAssumption DEF IInv, BoxHeld
  <1>4. ASSUME NEW c \in Frames \ dropped', Known(c)'
        PROVE  \E i \in DOMAIN box' : Last("frame", c, i)' /\ (Unsent(i)' \/ \E f \in Fields : hub'[c][f] # 0)
    <2>1. CASE c = d
      BY <1>1, <2>1, DocsAssumption
    <2>2. CASE c # d
      <3>1. c \in Docs /\ Known(c)
        BY <1>4, <2>2 DEF Known, Docs
      <3>2. PICK i \in DOMAIN box : Last("frame", c, i) /\ (Unsent(i) \/ \E f \in Fields : hub[c][f] # 0)
        BY <3>1 DEF IInv, FrameHeld
      <3> QED
        BY <1>1, <2>2, <3>2 DEF Unsent
    <2> QED
      BY <2>1, <2>2
  <1>5. ASSUME NEW c \in Jobs \ dropped'
        PROVE  \/ \A f \in Fields : got'[c][f] >= cat'[c][f]
               \/ \E i \in DOMAIN box' : Last("job", c, i)' /\ Unsent(i)' /\ box'[i].body = cat'[c]
    <2>1. CASE c = d
      BY <1>1, <2>1, DocsAssumption
    <2>2. CASE c # d
      <3>1. cat'[c] = cat[c]
        BY <2>2 DEF Docs
      <3> QED
        BY <1>1, <2>2, <3>1 DEF IInv, JobHeld, Unsent
    <2> QED
      BY <2>1, <2>2
  <1> QED
    BY <1>3, <1>4, <1>5 DEF FrameHeld, JobHeld

(* A patch changes nothing that is reported whole. *)
LEMMA PatchKeeps ==
    ASSUME Typed, IInv, NEW d \in Frames, NEW f \in Fields, PatchFrame(d, f)
    PROVE  BoxHeld' /\ FrameHeld' /\ JobHeld'
  <1>1. d \in Docs /\ cat[d][f] + 1 \in Nat /\ cat' = [cat EXCEPT ![d][f] = cat[d][f] + 1]
    BY DEF PatchFrame, Typed, Docs, Bodies
  <1>2. cat' \in [Docs -> Bodies]
    BY <1>1, PatchTyped DEF Typed
  <1>3. [Empty EXCEPT ![f] = cat'[d][f]] \in Bodies
    BY <1>1, <1>2, PatchTyped DEF Typed, Bodies
  <1> DEFINE body == [Empty EXCEPT ![f] = cat'[d][f]]
  <1>4. EnqueueMerged("frame_patch", d, body) /\ "frame_patch" \in Kinds /\ Known(d) /\ UNCHANGED <<hub, got, dropped>>
    BY DEF PatchFrame, Kinds
  <1> HIDE DEF body
  <1>5. \/ Enqueue("frame_patch", d, body)
        \/ /\ DOMAIN box' = DOMAIN box
           /\ \A i \in DOMAIN box : /\ box'[i].kind = box[i].kind /\ box'[i].doc = box[i].doc
                                    /\ box'[i].state = box[i].state
                                    /\ box[i].kind # "frame_patch" => box'[i].body = box[i].body
    BY <1>1, <1>3, <1>4, MergedTyped DEF body
  <1>6. /\ \A k, c, i : Last(k, c, i) /\ k # "frame_patch" => Last(k, c, i)'
        /\ \A i \in DOMAIN box : /\ i \in DOMAIN box' /\ box'[i].kind = box[i].kind /\ box'[i].doc = box[i].doc
                                 /\ box'[i].state = box[i].state
                                 /\ box[i].kind # "frame_patch" => box'[i].body = box[i].body
        /\ \A i \in DOMAIN box' \ DOMAIN box : box'[i].kind = "frame_patch" /\ box'[i].doc = d
    <2>1. CASE Enqueue("frame_patch", d, body)
      <3>1. /\ \A k, c, i : Last(k, c, i) /\ k # "frame_patch" => Last(k, c, i)'
            /\ \A i \in DOMAIN box : i \in DOMAIN box' /\ box'[i] = box[i]
            /\ \A i \in DOMAIN box' \ DOMAIN box : box'[i].kind = "frame_patch" /\ box'[i].doc = d
        BY <1>1, <1>3, <1>4, <2>1, EnqueueLast DEF body
      <3> QED
        BY <3>1
    <2>2. CASE ~Enqueue("frame_patch", d, body)
      BY <1>5, <2>2 DEF Last
    <2> QED
      BY <2>1, <2>2
  <1>7. BoxHeld'
    BY <1>6, DocsAssumption DEF IInv, BoxHeld
  <1>8. ASSUME NEW c \in Frames \ dropped', Known(c)'
        PROVE  \E i \in DOMAIN box' : Last("frame", c, i)' /\ (Unsent(i)' \/ \E g \in Fields : hub'[c][g] # 0)
    <2>1. Known(c) /\ c \notin dropped
      BY <1>1, <1>4, <1>8 DEF Known, Docs, Typed
    <2>2. PICK i \in DOMAIN box : Last("frame", c, i) /\ (Unsent(i) \/ \E g \in Fields : hub[c][g] # 0)
      BY <2>1 DEF IInv, FrameHeld
    <2>3. Last("frame", c, i)' /\ i \in DOMAIN box' /\ (Unsent(i) => Unsent(i)')
      BY <1>6, <2>2 DEF Unsent
    <2> QED
      BY <1>4, <2>2, <2>3
  <1>9. ASSUME NEW c \in Jobs \ dropped'
        PROVE  \/ \A g \in Fields : got'[c][g] >= cat'[c][g]
               \/ \E i \in DOMAIN box' : Last("job", c, i)' /\ Unsent(i)' /\ box'[i].body = cat'[c]
    <2>1. cat'[c] = cat[c] /\ c \notin dropped
      BY <1>1, <1>4, DocsAssumption DEF Docs, Typed
    <2>2. CASE \A g \in Fields : got[c][g] >= cat[c][g]
      BY <1>4, <2>1, <2>2
    <2>3. ASSUME NEW i \in DOMAIN box, Last("job", c, i), Unsent(i), box[i].body = cat[c]
          PROVE  \E j \in DOMAIN box' : Last("job", c, j)' /\ Unsent(j)' /\ box'[j].body = cat'[c]
      BY <1>6, <2>1, <2>3 DEF Last, Unsent
    <2> QED
      BY <2>1, <2>2, <2>3 DEF IInv, JobHeld
  <1> QED
    BY <1>7, <1>8, <1>9 DEF FrameHeld, JobHeld

LEMMA ReportKeeps == ASSUME Typed, IInv, Report PROVE IInv'
  <1>1. cat' \in [Docs -> Bodies] /\ Queued
    BY ReportOn
  <1>2. AcceptedHeld'
    BY <1>1 DEF Queued, IInv, AcceptedHeld
  <1>3. ASSUME NEW d \in Frames, RegisterFrame(d) PROVE BoxHeld' /\ FrameHeld' /\ JobHeld'
    <2>1. /\ Enqueue("frame", d, cat'[d]) /\ UNCHANGED <<hub, got, dropped>> /\ d \in Docs
          /\ \A c \in Docs \ {d} : cat'[c] = cat[c]
          /\ cat'[d] = [f \in Fields |-> 1]
      BY <1>3 DEF RegisterFrame, Typed, Docs
    <2>2. \E f \in Fields : cat'[d][f] # 0
      BY <2>1, DocsAssumption
    <2> QED
      BY <1>1, <2>1, <2>2, WholeKeeps
  <1>4. ASSUME NEW d \in Frames, RequeueFrame(d) PROVE BoxHeld' /\ FrameHeld' /\ JobHeld'
    <2>1. /\ Enqueue("frame", d, cat'[d]) /\ UNCHANGED <<cat, hub, got, dropped>> /\ d \in Docs
          /\ \E f \in Fields : cat'[d][f] # 0
      BY <1>4 DEF RequeueFrame, Docs, Known
    <2> QED
      BY <1>1, <2>1, WholeKeeps
  <1>5. ASSUME NEW d \in Jobs, ReportJob(d) PROVE BoxHeld' /\ FrameHeld' /\ JobHeld'
    <2>1. /\ Enqueue("job", d, cat'[d]) /\ UNCHANGED <<hub, got, dropped>> /\ d \in Docs
          /\ \A c \in Docs \ {d} : cat'[c] = cat[c]
      BY <1>5 DEF ReportJob, Typed, Docs
    <2> QED
      BY <1>1, <2>1, WholeKeeps
  <1>6. BoxHeld' /\ FrameHeld' /\ JobHeld'
    BY <1>3, <1>4, <1>5, PatchKeeps DEF Report
  <1> QED
    BY <1>2, <1>6 DEF IInv

LEMMA CoalesceKeeps == ASSUME Typed, RowsHeld, IInv, NEW w \in Drainers, Coalesce(w) PROVE IInv'
  <1> DEFINE ids == Ids(Superseded(dr[w].rows))
  <1>1. MarkSent(ids) /\ UNCHANGED <<cat, hub, got, dropped>>
    BY DEF Coalesce
  <1>2. \A kind, d, i : Last(kind, d, i) => i \notin ids
    BY LastSurvives
  <1> HIDE DEF ids
  <1>3. Onward /\ DOMAIN box' = DOMAIN box /\ \A i \in DOMAIN box : i \notin ids => box'[i] = box[i]
    BY <1>1, MarkSentTyped
  <1>4. BoxHeld' /\ FrameHeld' /\ JobHeld'
    <2>1. \A kind, d, i : Last(kind, d, i) /\ Unsent(i) => Unsent(i)'
      BY <1>2, <1>3 DEF Last, Unsent
    <2> QED
      BY <1>1, <1>3, <2>1, SameHub, QuietKeeps
  <1>5. AcceptedHeld'
    BY <1>1 DEF Coalesce, Typed, Memories, IInv, AcceptedHeld
  <1> QED
    BY <1>4, <1>5 DEF IInv

LEMMA MarkOkKeeps == ASSUME Typed, RowsHeld, IInv, NEW w \in Drainers, MarkOk(w) PROVE IInv'
  <1> DEFINE ids == Ids(dr[w].ok)
  <1>1. MarkSent(ids) /\ UNCHANGED <<cat, hub, got, dropped>>
    BY DEF MarkOk
  <1>2. ASSUME NEW i \in DOMAIN box, i \in ids
        PROVE  /\ box[i].kind = "frame" => \E f \in Fields : hub[box[i].doc][f] # 0
               /\ box[i].doc \in Jobs => \A f \in Fields : got[box[i].doc][f] >= box[i].body[f]
    <2>1. PICK r \in dr[w].ok : r.id = i
      BY <1>2 DEF Ids
    <2>2. Held(r)
      BY <2>1 DEF RowsHeld
    <2>3. box[i].doc = r.doc /\ box[i].kind = r.kind /\ (r.kind # "frame_patch" => box[i].body = r.body)
      BY <2>1, <2>2 DEF Held
    <2>4. box[i].doc \in Jobs => box[i].kind = "job"
      BY DEF IInv, BoxHeld
    <2> QED
      BY <2>1, <2>3, <2>4 DEF IInv, AcceptedHeld
  <1> HIDE DEF ids
  <1>3. Onward /\ DOMAIN box' = DOMAIN box /\ \A i \in DOMAIN box : i \notin ids => box'[i] = box[i]
    BY <1>1, MarkSentTyped
  <1>4. BoxHeld' /\ FrameHeld' /\ JobHeld'
    <2>1. ASSUME NEW d \in Frames, NEW i \in DOMAIN box, Last("frame", d, i), Unsent(i)
          PROVE  Unsent(i)' \/ \E f \in Fields : hub'[d][f] # 0
      BY <1>1, <1>2, <1>3, <2>1 DEF Last, Unsent
    <2>2. ASSUME NEW d \in Jobs, NEW i \in DOMAIN box, Last("job", d, i), Unsent(i)
          PROVE  Unsent(i)' \/ \A f \in Fields : got'[d][f] >= box[i].body[f]
      BY <1>1, <1>2, <1>3, <2>2 DEF Last, Unsent
    <2> QED
      BY <1>1, <1>3, <2>1, <2>2, SameHub, QuietKeeps
  <1>5. \A v \in Drainers : dr'[v].ok \subseteq dr[v].ok
    BY DEF MarkOk, Typed, Memories
  <1>6. AcceptedHeld'
    BY <1>1, <1>5 DEF IInv, AcceptedHeld
  <1> QED
    BY <1>4, <1>6 DEF IInv

(* A job is reported in a request of its own. *)
LEMMA JobAlone ==
    ASSUME RowsHeld, NEW w \in Drainers, NEW r \in Request(dr[w].rows), r.kind = "job",
           \A s \in dr[w].rows : s.id \in Nat
    PROVE  \A s \in Request(dr[w].rows) : s = r
  <1> SUFFICES ASSUME NEW s \in Request(dr[w].rows) PROVE s = r
    OBVIOUS
  <1> DEFINE rows == dr[w].rows
  <1>1. Request(rows) = {t \in rows : \A u \in rows : t.id <= u.id}
    BY DEF Request
  <1>2. r.id <= s.id /\ s.id <= r.id /\ r \in rows /\ s \in rows
    BY <1>1
  <1>3. r.id = s.id
    BY <1>2
  <1> QED
    BY <1>2, <1>3 DEF RowsHeld

LEMMA SendKeeps == ASSUME Typed, RowsHeld, IInv, NEW w \in Drainers, Send(w) PROVE IInv'
  <1>1. PICK bad \in SUBSET Request(dr[w].rows) :
          /\ Accept(Request(dr[w].rows) \ bad)
          /\ dr' = [dr EXCEPT ![w].pc = "answered", ![w].rows = @ \ Request(dr[w].rows),
                              ![w].ok = Request(dr[w].rows) \ bad, ![w].bad = bad]
    <2>1. \A refused \in SUBSET (Request(dr[w].rows) \ Unknown(Request(dr[w].rows))) :
            refused \cup Unknown(Request(dr[w].rows)) \in SUBSET Request(dr[w].rows)
      BY DEF Unknown
    <2> QED
      BY <2>1 DEF Send
  <1> DEFINE ok == Request(dr[w].rows) \ bad
  <1>2. UNCHANGED <<cat, box, dropped>>
    BY DEF Send
  <1>3. dr[w] \in Memories /\ ok \subseteq dr[w].rows /\ dr[w].rows \subseteq Rows
    BY RequestIn DEF Typed, Memories
  <1>4. dr'[w].ok = ok /\ \A v \in Drainers \ {w} : dr'[v] = dr[v]
    BY <1>1, <1>3 DEF Typed, Memories
  <1> HIDE DEF ok
  <1>5. Accept(ok) /\ ok \subseteq Rows
    BY <1>1, <1>3 DEF ok
  <1>6. /\ hub' \in [Docs -> Bodies] /\ got' \in [Docs -> Bodies]
        /\ \A d \in Docs, f \in Fields : /\ hub[d][f] # 0 => hub'[d][f] # 0
                                         /\ got'[d][f] >= got[d][f] /\ got'[d][f] >= hub'[d][f]
        /\ \A r \in ok, f \in Fields : r.body[f] # 0 => hub'[r.doc][f] # 0
        /\ \A d \in Docs, f \in Fields :
              \/ hub'[d][f] = hub[d][f] /\ \A r \in ok : r.doc = d => r.body[f] = 0
              \/ \E r \in ok : r.doc = d /\ r.body[f] # 0 /\ hub'[d][f] = r.body[f]
    BY <1>5, AcceptTyped
  <1>7. BoxHeld' /\ FrameHeld' /\ JobHeld'
    BY <1>2, <1>6, SameBoxKeeps
  <1>8. ASSUME NEW r \in ok
        PROVE  /\ r.kind = "frame" => \E f \in Fields : hub'[r.doc][f] # 0
               /\ r.doc \in Jobs => \A f \in Fields : got'[r.doc][f] >= r.body[f]
    <2>1. r \in Rows /\ r \in dr[w].rows /\ Held(r)
      BY <1>3 DEF RowsHeld
    <2>2. ASSUME r.kind = "frame" PROVE \E f \in Fields : hub'[r.doc][f] # 0
      <3>1. \E f \in Fields : r.body[f] # 0
        BY <2>1, <2>2 DEF Held, IInv, BoxHeld
      <3> QED
        BY <1>6, <3>1
    <2>3. ASSUME r.doc \in Jobs, NEW f \in Fields PROVE got'[r.doc][f] >= r.body[f]
      <3>1. r.kind = "job"
        BY <2>1, <2>3 DEF Held, IInv, BoxHeld
      <3>2. \A s \in ok : s = r
        BY <1>3, <3>1, JobAlone DEF ok, Rows
      <3>3. r.doc \in Docs /\ r.body[f] \in Nat /\ hub'[r.doc][f] \in Nat /\ got'[r.doc][f] \in Nat
        BY <1>6, <2>1 DEF Rows, Bodies
      <3>4. got'[r.doc][f] >= hub'[r.doc][f] /\ (r.body[f] = 0 \/ hub'[r.doc][f] = r.body[f])
        BY <1>6, <3>2, <3>3
      <3> QED
        BY <3>3, <3>4
    <2> QED
      BY <2>2, <2>3
  <1>9. ASSUME NEW v \in Drainers \ {w}, NEW r \in dr[v].ok
        PROVE  /\ r.kind = "frame" => \E f \in Fields : hub'[r.doc][f] # 0
               /\ r.doc \in Jobs => \A f \in Fields : got'[r.doc][f] >= r.body[f]
    <2>1. r \in Rows /\ r.doc \in Docs /\ r.body \in Bodies
      BY DEF Typed, Memories, Rows
    <2>2. r.kind = "frame" => \E f \in Fields : hub'[r.doc][f] # 0
      BY <1>6, <2>1 DEF IInv, AcceptedHeld
    <2>3. ASSUME r.doc \in Jobs, NEW f \in Fields PROVE got'[r.doc][f] >= r.body[f]
      <3>1. got[r.doc][f] >= r.body[f] /\ got'[r.doc][f] >= got[r.doc][f]
        BY <1>6, <2>1, <2>3 DEF IInv, AcceptedHeld
      <3>2. got[r.doc][f] \in Nat /\ got'[r.doc][f] \in Nat /\ r.body[f] \in Nat
        BY <1>6, <2>1 DEF Typed, Bodies
      <3> QED
        BY <3>1, <3>2
    <2> QED
      BY <2>2, <2>3
  <1>10. AcceptedHeld'
    BY <1>4, <1>8, <1>9 DEF AcceptedHeld
  <1> QED
    BY <1>7, <1>10 DEF IInv

LEMMA SendFailsKeeps == ASSUME Typed, RowsHeld, IInv, NEW w \in Drainers, SendFails(w) PROVE IInv'
  <1> DEFINE rows == Request(dr[w].rows) \ Unknown(Request(dr[w].rows))
  <1>1. UNCHANGED <<cat, box, dropped>> /\ (Accept(rows) \/ UNCHANGED <<hub, got>>)
    BY DEF SendFails
  <1>2. rows \subseteq Rows
    BY RequestIn DEF Typed, Memories
  <1> HIDE DEF rows
  <1>3. /\ \A d \in Docs, f \in Fields : (hub[d][f] # 0 => hub'[d][f] # 0) /\ got'[d][f] >= got[d][f]
        /\ hub' \in [Docs -> Bodies] /\ got' \in [Docs -> Bodies]
    BY <1>1, <1>2, AcceptTyped, SameHub
  <1>4. dr' \in [Drainers -> Memories]
    BY SendFailsSound DEF Typed
  <1>5. \A v \in Drainers : dr'[v].ok \subseteq dr[v].ok
    BY DEF SendFails, Typed, Memories
  <1> QED
    BY <1>1, <1>3, <1>4, <1>5, SameBoxKeeps, AcceptedKeeps DEF IInv

(* Retrying and raising change neither what is unsent nor what was accepted.   *)
LEMMA RetryKeeps == ASSUME Typed, RowsHeld, IInv, NEW w \in Drainers, Retry(w) PROVE IInv'
  <1>0. PICK r \in dr[w].bad : \E attempts, waiting, state, refused, pc, left :
          /\ box' = [box EXCEPT ![r.id].attempts = attempts, ![r.id].waiting = waiting,
                                ![r.id].state = state, ![r.id].refused = refused]
          /\ state = "sent" <=> box[r.id].state = "sent"
          /\ dr' = [dr EXCEPT ![w].pc = pc, ![w].bad = left]
    <2>1. \A r \in dr[w].bad : r.id \in DOMAIN box /\ box[r.id] \in Items
      BY BoxLen DEF RowsHeld, Held
    <2>2. PICK r \in dr[w].bad : LET attempts == IF r.attempts < Max4xx THEN r.attempts + 1 ELSE Max4xx
                park     == ~dr[w].down /\ attempts >= Max4xx
            IN  /\ box' = [box EXCEPT ![r.id].attempts = attempts,
                                      ![r.id].waiting = IF park THEN @ ELSE TRUE,
                                      ![r.id].state = IF park /\ @ = "pending" THEN "parked" ELSE @,
                                      ![r.id].refused = IF dr[w].down \/ @ >= Max4xx THEN @ ELSE @ + 1]
                /\ dr' = [dr EXCEPT ![w].pc = IF park THEN "raise" ELSE "answered",
                                    ![w].bad = IF park THEN @ ELSE @ \ {r}]
      BY DEF Retry
    <2> DEFINE attempts == IF r.attempts < Max4xx THEN r.attempts + 1 ELSE Max4xx
               park == ~dr[w].down /\ attempts >= Max4xx
               state == IF park /\ box[r.id].state = "pending" THEN "parked" ELSE box[r.id].state
    <2>3. /\ box' = [box EXCEPT ![r.id].attempts = attempts,
                                ![r.id].waiting = IF park THEN box[r.id].waiting ELSE TRUE,
                                ![r.id].state = state,
                                ![r.id].refused = IF dr[w].down \/ box[r.id].refused >= Max4xx THEN box[r.id].refused
                                                  ELSE box[r.id].refused + 1]
          /\ dr' = [dr EXCEPT ![w].pc = IF park THEN "raise" ELSE "answered",
                              ![w].bad = IF park THEN dr[w].bad ELSE dr[w].bad \ {r}]
      BY <2>1, <2>2 DEF attempts, Typed, Items
    <2>4. state = "sent" <=> box[r.id].state = "sent"
      OBVIOUS
    <2> HIDE DEF attempts, park, state
    <2> WITNESS r \in dr[w].bad
    <2> WITNESS attempts, IF park THEN box[r.id].waiting ELSE TRUE, state,
                IF dr[w].down \/ box[r.id].refused >= Max4xx THEN box[r.id].refused ELSE box[r.id].refused + 1,
                IF park THEN "raise" ELSE "answered", IF park THEN dr[w].bad ELSE dr[w].bad \ {r}
    <2> QED
      BY <2>3, <2>4
  <1>1. PICK attempts, waiting, state, refused, pc, left :
          /\ box' = [box EXCEPT ![r.id].attempts = attempts, ![r.id].waiting = waiting,
                                ![r.id].state = state, ![r.id].refused = refused]
          /\ state = "sent" <=> box[r.id].state = "sent"
          /\ dr' = [dr EXCEPT ![w].pc = pc, ![w].bad = left]
    BY <1>0
  <1>2. r.id \in DOMAIN box /\ box[r.id] \in Items
    BY BoxLen DEF RowsHeld, Held
  <1> DEFINE item == [box[r.id] EXCEPT !.attempts = attempts, !.waiting = waiting, !.state = state, !.refused = refused]
  <1>3. box' = [box EXCEPT ![r.id] = item]
    BY <1>1, <1>2 DEF Items
  <1>4. item.kind = box[r.id].kind /\ item.doc = box[r.id].doc /\ item.body = box[r.id].body /\ item.state = state
    BY <1>2 DEF Items
  <1> HIDE DEF item
  <1>5. /\ DOMAIN box' = DOMAIN box
        /\ \A i \in DOMAIN box : /\ box'[i].kind = box[i].kind /\ box'[i].doc = box[i].doc
                                 /\ box'[i].body = box[i].body /\ (Unsent(i) => Unsent(i)')
    BY <1>1, <1>2, <1>3, <1>4 DEF Unsent
  <1>6. Onward
    BY <1>5 DEF Onward
  <1>7. BoxHeld' /\ FrameHeld' /\ JobHeld'
    BY <1>5, <1>6, SameHub, QuietKeeps DEF Retry
  <1>8. \A v \in Drainers : dr'[v].ok = dr[v].ok
    BY <1>1 DEF Typed, Memories
  <1>9. AcceptedHeld'
    BY <1>8 DEF Retry, IInv, AcceptedHeld
  <1> QED
    BY <1>7, <1>9 DEF IInv

LEMMA MemoryKeeps ==
    ASSUME Typed, RowsHeld, IInv, NEW w \in Drainers, Read(w) \/ Raise(w) \/ Proceed(w) \/ Crash(w) PROVE IInv'
  <1>1. UNCHANGED <<cat, box, hub, got, dropped>>
    BY DEF Read, Raise, Proceed, Crash
  <1>2. \A v \in Drainers : dr'[v].ok \subseteq dr[v].ok
    <2>1. /\ dr \in [Drainers -> Memories] /\ dr[w] \in Memories
          /\ \A v \in Drainers \ {w} : dr'[v] = dr[v]
      BY DEF Typed, Read, Raise, Proceed, Crash
    <2>2. CASE Read(w) \/ Raise(w)
      <3>1. dr'[w].ok = dr[w].ok
        BY <2>1, <2>2 DEF Read, Raise, Memories
      <3> QED
        BY <2>1, <3>1
    <2>3. CASE Proceed(w) \/ Crash(w)
      <3>1. dr'[w] = Idle \/ dr'[w] = [dr[w] EXCEPT !.pc = "send"]
        BY <2>1, <2>3 DEF Proceed, Crash
      <3>2. dr'[w].ok = {} \/ dr'[w].ok = dr[w].ok
        BY <2>1, <3>1 DEF Idle, Memories
      <3> QED
        BY <2>1, <3>2
    <2> QED
      BY <2>2, <2>3
  <1>3. AcceptedHeld'
    BY <1>1, <1>2 DEF IInv, AcceptedHeld
  <1> QED
    BY <1>1, <1>3, SameHub, SameBoxKeeps DEF IInv

LEMMA OperatorKeeps ==
    ASSUME Typed, IInv, NEW i \in DOMAIN box, BackoffEnds(i) \/ OperatorRetry(i) \/ OperatorDrop(i) PROVE IInv'
  <1>1. /\ Onward /\ DOMAIN box' = DOMAIN box
        /\ dropped \subseteq dropped' /\ UNCHANGED <<cat, dr, hub, got>>
    BY OperatorOn DEF BackoffEnds, OperatorRetry, OperatorDrop
  <1>2. box[i] \in Items /\ \A j \in DOMAIN box : j # i => box'[j] = box[j]
    BY BoxLen DEF BackoffEnds, OperatorRetry, OperatorDrop
  <1>3. \A j \in DOMAIN box : box[j].doc \notin dropped' /\ Unsent(j) => Unsent(j)'
    BY <1>2 DEF BackoffEnds, OperatorRetry, OperatorDrop, Unsent, Items
  <1>4. BoxHeld' /\ FrameHeld' /\ JobHeld'
    BY <1>1, <1>3, SameHub, QuietKeeps DEF Last
  <1>5. AcceptedHeld'
    BY <1>1 DEF IInv, AcceptedHeld
  <1> QED
    BY <1>4, <1>5 DEF IInv

LEMMA InitHeld == Init => IInv
  BY DEF Init, IInv, BoxHeld, AcceptedHeld, FrameHeld, JobHeld, Known, Idle, Empty, Docs

LEMMA NextHeld == Typed /\ RowsHeld /\ IInv /\ [Next]_vars => IInv'
  <1> SUFFICES ASSUME Typed, RowsHeld, IInv, [Next]_vars PROVE IInv'
    OBVIOUS
  <1>1. CASE Report
    BY <1>1, ReportKeeps
  <1>2. ASSUME NEW w \in Drainers, Drain(w) \/ SendFails(w) \/ Crash(w) PROVE IInv'
    BY <1>2, CoalesceKeeps, SendKeeps, SendFailsKeeps, MarkOkKeeps, RetryKeeps, MemoryKeeps DEF Drain
  <1>3. ASSUME NEW i \in DOMAIN box, BackoffEnds(i) \/ OperatorRetry(i) \/ OperatorDrop(i) PROVE IInv'
    BY <1>3, OperatorKeeps
  <1>4. CASE UNCHANGED vars
    BY <1>4 DEF vars, IInv, BoxHeld, AcceptedHeld, FrameHeld, JobHeld, Known, Last, Unsent
  <1> QED
    BY <1>1, <1>2, <1>3, <1>4 DEF Next

LEMMA FrameFollows == Typed /\ IInv => FrameKnownOrQueued
  <1> SUFFICES ASSUME Typed, IInv, NEW d \in Frames \ dropped, Known(d)
               PROVE  hub[d] # Empty \/ \E i \in DOMAIN box : box[i].doc = d /\ box[i].kind = "frame" /\ Unsent(i)
    BY DEF FrameKnownOrQueued
  <1>1. PICK i \in DOMAIN box : Last("frame", d, i) /\ (Unsent(i) \/ \E f \in Fields : hub[d][f] # 0)
    BY DEF IInv, FrameHeld
  <1> QED
    BY <1>1 DEF Last, Empty

LEMMA JobFollows == Typed /\ IInv => WholeReportsKept
  <1> SUFFICES ASSUME Typed, IInv, NEW d \in Jobs \ dropped, NEW f \in Fields, got[d][f] < cat[d][f]
               PROVE  \E i \in DOMAIN box : box[i].doc = d /\ box[i].body[f] = cat[d][f] /\ Unsent(i)
    BY DEF WholeReportsKept
  <1>1. got[d][f] \in Nat /\ cat[d][f] \in Nat
    BY DEF Typed, Bodies, Docs
  <1>2. ~(got[d][f] >= cat[d][f])
    BY <1>1
  <1>3. PICK i \in DOMAIN box : Last("job", d, i) /\ Unsent(i) /\ box[i].body = cat[d]
    BY <1>2 DEF IInv, JobHeld
  <1> QED
    BY <1>3 DEF Last

(* A frame the catalog registered is known to the Hub or its first report is   *)
(* still to be sent, whatever drains overlap, answers are lost or processes die. *)
THEOREM FrameKnownOrQueuedHolds == Spec => []FrameKnownOrQueued
  BY InitSound, NextSound, InitHeld, NextHeld, FrameFollows, PTL DEF Spec

(* What the Hub never accepted of a document reported whole is in a row still  *)
(* to be sent, unless the operator dropped one.                              *)
THEOREM WholeReportsKeptHolds == Spec => []WholeReportsKept
  BY InitSound, NextSound, InitHeld, NextHeld, JobFollows, PTL DEF Spec
=============================================================================
