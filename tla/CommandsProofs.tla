--------------------------- MODULE CommandsProofs ---------------------------
(***************************************************************************)
(* With one poller, Commands keeps the promise of CommandQueue.  The Hub's  *)
(* states split the commands in two: those delivered come before those that *)
(* are not, so what a poller holds is above everything that took effect.    *)
(***************************************************************************)
EXTENDS Commands, TLAPS

Delivered(c) == hub[c] \notin {"none", "pending"}
TookEffect(c) == \E i \in DOMAIN ran : ran[i] = c
BeyondRan(c) == \A i \in DOMAIN ran : ran[i] < c

HubHeld ==
    /\ \A c \in Ids : hub[c] = "none" <=> c > issued
    /\ \A c, d \in Ids : Delivered(c) /\ ~Delivered(d) => c < d
    /\ \A i \in DOMAIN ran : Delivered(ran[i])

RowHeld ==
    /\ \A c \in Ids : row[c].state # "none" => Delivered(c)
    /\ \A c \in Ids : row[c].state = "succeeded" => TookEffect(c)
    /\ \A c \in Ids : hub[c] \in Final => row[c].state = hub[c]

(* The commands of an answer that were not taken up yet. *)
Fresh(c) == Delivered(c) /\ row[c].state = "none" /\ BeyondRan(c)

FetchHeld(p) == w[p].pc = "marking" =>
    /\ ~w[p].again
    /\ \A c \in w[p].left : hub[c] = "pending"
    /\ \A c \in w[p].left, d \in Ids : ~Delivered(d) /\ d \notin w[p].left => c < d

BatchHeld(p) == w[p].pc \in {"lookup", "insert", "run", "record", "ack", "acked"} /\ ~w[p].again =>
    \A c \in w[p].left : Fresh(c) /\ (w[p].pc # "lookup" => w[p].cmd < c)

CommandHeld(p) ==
    /\ w[p].pc \in {"insert", "run", "record", "ack", "acked"} => w[p].cmd \in Ids
    /\ w[p].pc = "insert" => Fresh(w[p].cmd)
    /\ w[p].pc = "run" => row[w[p].cmd].state = "received" /\ BeyondRan(w[p].cmd)
    /\ w[p].pc = "record" => /\ row[w[p].cmd].state = "received"
                             /\ w[p].state \in Final
                             /\ w[p].state = "succeeded" => TookEffect(w[p].cmd)
    /\ w[p].pc \in {"ack", "acked"} => w[p].state \in Final /\ row[w[p].cmd].state = w[p].state

AgainHeld(p) ==
    /\ w[p].pc \in {"lookup", "insert", "run", "record"} => ~w[p].again
    /\ w[p].pc = "unacked" => w[p].again
    /\ w[p].pc = "idle" => ~w[p].again
    /\ w[p].again => \A c \in w[p].left : w[p].seen[c] \in Final /\ row[c].state = w[p].seen[c]

CommandsInv ==
    /\ TypeOK /\ HubHeld /\ RowHeld
    /\ \A p \in Pollers : FetchHeld(p) /\ BatchHeld(p) /\ CommandHeld(p) /\ AgainHeld(p)

-----------------------------------------------------------------------------
LEMMA PcTyped == ASSUME NEW m \in Memories, NEW s \in Steps PROVE [m EXCEPT !.pc = s] \in Memories
  BY DEF Memories

LEMMA CommandTyped ==
  ASSUME NEW m \in Memories, NEW s \in Steps, NEW c \in Ids, NEW r \in {"none"} \cup Final
  PROVE [m EXCEPT !.pc = s, !.left = m.left \ {c}, !.cmd = c, !.state = r] \in Memories
<1>1. m.left \ {c} \in SUBSET Ids
  BY DEF Memories
<1> QED
  BY <1>1 DEF Memories

LEMMA IdleTyped == Idle \in Memories
  BY CommandsAssumption DEF Idle, Memories, Steps, Ids, Final, RowStates

(* A step of a poller that gives it a well-typed memory. *)
LEMMA MemoryTyped ==
  ASSUME TypeOK, NEW p \in Pollers, NEW m \in Memories, w' = [w EXCEPT ![p] = m]
  PROVE w' \in [Pollers -> Memories]
  BY DEF TypeOK

LEMMA GotoTyped ==
  ASSUME TypeOK, NEW p \in Pollers, NEW s \in Steps, Goto(p, s)
  PROVE w' \in [Pollers -> Memories]
<1>1. [w[p] EXCEPT !.pc = s] \in Memories
  BY PcTyped DEF TypeOK
<1> QED
  BY <1>1, MemoryTyped DEF Goto

LEMMA StopTyped ==
  ASSUME TypeOK, NEW p \in Pollers, Stop(p)
  PROVE w' \in [Pollers -> Memories]
  BY IdleTyped, MemoryTyped DEF Stop

LEMMA LostTyped == TypeOK /\ Lost => budget' \in [crashes : Nat, lost : Nat, refused : Nat]
  BY DEF TypeOK, Lost

LEMMA CommandsInit == Init => CommandsInv
<1> SUFFICES ASSUME Init PROVE CommandsInv
  OBVIOUS
<1>1. TypeOK
  BY IdleTyped, CommandsAssumption DEF Init, TypeOK, Ids, HubStates, RowStates
<1>2. HubHeld /\ RowHeld
  BY CommandsAssumption DEF Init, HubHeld, RowHeld, Delivered, TookEffect, Ids, Final
<1>3. ASSUME NEW p \in Pollers PROVE FetchHeld(p) /\ BatchHeld(p) /\ CommandHeld(p) /\ AgainHeld(p)
  <2>1. w[p] = Idle
    BY DEF Init
  <2> QED
    BY <2>1 DEF Idle, FetchHeld, BatchHeld, CommandHeld, AgainHeld
<1> QED
  BY <1>1, <1>2, <1>3 DEF CommandsInv

LEMMA TypeStep == CommandsInv /\ [Next]_vars => TypeOK'
<1> SUFFICES ASSUME CommandsInv, [Next]_vars PROVE TypeOK'
  OBVIOUS
<1> TypeOK
  BY DEF CommandsInv
<1>1. CASE Issue
  BY <1>1, CommandsAssumption DEF Issue, TypeOK, Ids, HubStates
<1>2. ASSUME NEW p \in Pollers, Fetch(p) PROVE TypeOK'
  <2>1. [w[p] EXCEPT !.pc = "marking", !.left = {c \in Ids : hub[c] = "pending"}] \in Memories
    BY DEF TypeOK, Memories, Steps
  <2> QED
    BY <1>2, <2>1, MemoryTyped DEF Fetch, TypeOK
<1>3. ASSUME NEW p \in Pollers, Deliver(p) PROVE TypeOK'
  <2>1. hub' \in [Ids -> HubStates]
    BY <1>3 DEF Deliver, MarkDelivered, TypeOK, HubStates
  <2> QED
    BY <1>3, <2>1, GotoTyped, StopTyped, LostTyped DEF Deliver, TypeOK, Steps
<1>4. ASSUME NEW p \in Pollers, NEW c \in Ids, Lookup(p, c) PROVE TypeOK'
  <2> DEFINE known == row[c].state
             step  == IF known = "none" THEN "insert" ELSE IF known = "received" THEN "run" ELSE "ack"
             m == [w[p] EXCEPT !.pc = step, !.left = w[p].left \ {c}, !.cmd = c, !.state = IF known \in Final THEN known ELSE "none"]
  <2>1. step \in Steps
    BY DEF Steps
  <2>2. m \in Memories
    BY <2>1, CommandTyped DEF TypeOK
  <2> QED
    BY <1>4, <2>2, MemoryTyped DEF Lookup, TypeOK
<1>5. ASSUME NEW p \in Pollers, Insert(p) PROVE TypeOK'
  <2>1. row' \in [Ids -> [state : RowStates, acked : BOOLEAN]]
    BY <1>5 DEF Insert, TypeOK, RowStates
  <2> QED
    BY <1>5, <2>1, GotoTyped, StopTyped DEF Insert, TypeOK, Steps
<1>6. ASSUME NEW p \in Pollers, RunHandler(p) PROVE TypeOK'
  <2>1. w[p].cmd \in Ids
    BY <1>6 DEF RunHandler, CommandsInv, CommandHeld
  <2>2. PICK effect \in BOOLEAN, state \in Final :
           /\ ran' = IF effect THEN Append(ran, w[p].cmd) ELSE ran
           /\ w' = [w EXCEPT ![p] = [@ EXCEPT !.pc = AfterRun, !.state = state]]
    BY <1>6 DEF RunHandler
  <2>3. [w[p] EXCEPT !.pc = AfterRun, !.state = state] \in Memories
    BY DEF TypeOK, Memories, Steps, AfterRun
  <2>4. ran' \in Seq(Ids)
    BY <2>1, <2>2 DEF TypeOK
  <2> QED
    BY <1>6, <2>2, <2>3, <2>4, MemoryTyped DEF RunHandler, TypeOK
<1>7. ASSUME NEW p \in Pollers, Record(p) PROVE TypeOK'
  <2>1. row' \in [Ids -> [state : RowStates, acked : BOOLEAN]]
    BY <1>7 DEF Record, TypeOK, RowStates, CommandsInv, CommandHeld
  <2> QED
    BY <1>7, <2>1, GotoTyped DEF Record, TypeOK, Steps
<1>8. ASSUME NEW p \in Pollers, Continue(p) PROVE w' \in [Pollers -> Memories]
  BY <1>8, GotoTyped DEF Continue, Steps
<1>9. ASSUME NEW p \in Pollers, Ack(p) PROVE TypeOK'
  <2>1. w[p].state \in Final
    BY <1>9 DEF Ack, CommandsInv, CommandHeld
  <2>2. hub' \in [Ids -> HubStates]
    BY <1>9, <2>1 DEF Ack, HubTakes, TypeOK, HubStates
  <2>3. w' \in [Pollers -> Memories]
    BY <1>8, <1>9, GotoTyped, StopTyped DEF Ack, Steps
  <2>4. budget' \in [crashes : Nat, lost : Nat, refused : Nat]
    BY <1>9, LostTyped DEF Ack, TypeOK
  <2> QED
    BY <1>9, <2>2, <2>3, <2>4 DEF Ack, TypeOK
<1>10. ASSUME NEW p \in Pollers, MarkAcked(p) PROVE TypeOK'
  <2>1. row' \in [Ids -> [state : RowStates, acked : BOOLEAN]]
    BY <1>10 DEF MarkAcked, TypeOK
  <2> QED
    BY <1>8, <1>10, <2>1 DEF MarkAcked, TypeOK
<1>11. ASSUME NEW p \in Pollers, AckUnacked(p) PROVE TypeOK'
  <2>1. [Idle EXCEPT !.pc = "unacked", !.again = TRUE, !.left = Unacked, !.seen = [c \in Ids |-> row[c].state]] \in Memories
    BY IdleTyped DEF TypeOK, Memories, Steps, Unacked
  <2> QED
    BY <1>11, <2>1, MemoryTyped DEF AckUnacked, TypeOK
<1>12. ASSUME NEW p \in Pollers, NEW c \in Ids, AckAgain(p, c) PROVE TypeOK'
  <2>1. w[p].seen[c] \in Final
    BY <1>12 DEF AckAgain, CommandsInv, AgainHeld
  <2>2. [w[p] EXCEPT !.pc = "ack", !.left = w[p].left \ {c}, !.cmd = c, !.state = w[p].seen[c]] \in Memories
    BY <2>1, CommandTyped DEF TypeOK, Steps
  <2> QED
    BY <1>12, <2>2, MemoryTyped DEF AckAgain, TypeOK
<1>13. ASSUME NEW p \in Pollers, PollEnds(p) PROVE TypeOK'
  BY <1>13, StopTyped DEF PollEnds, TypeOK
<1>14. ASSUME NEW p \in Pollers, Crash(p) PROVE TypeOK'
  <2>1. budget' \in [crashes : Nat, lost : Nat, refused : Nat]
    BY <1>14 DEF Crash, TypeOK
  <2> QED
    BY <1>14, <2>1, StopTyped DEF Crash, TypeOK
<1>15. CASE UNCHANGED vars
  BY <1>15 DEF vars, TypeOK
<1> QED
  BY <1>1, <1>2, <1>3, <1>4, <1>5, <1>6, <1>7, <1>9, <1>10, <1>11, <1>12, <1>13, <1>14, <1>15 DEF Next, Poll

-----------------------------------------------------------------------------
(* What the steps of the one poller P keep, besides the types. *)
PollerHeld(p) == FetchHeld(p) /\ BatchHeld(p) /\ CommandHeld(p) /\ AgainHeld(p)
Kept(p)       == HubHeld /\ RowHeld /\ PollerHeld(p)

LEMMA StopHeld ==
  ASSUME TypeOK, NEW p \in Pollers, Stop(p)
  PROVE PollerHeld(p)'
<1>1. w'[p] = Idle
  BY DEF Stop, TypeOK
<1> QED
  BY <1>1 DEF Idle, PollerHeld, FetchHeld, BatchHeld, CommandHeld, AgainHeld

LEMMA IssueKept ==
  ASSUME TypeOK, TypeOK', NEW p \in Pollers, Kept(p), Issue
  PROVE Kept(p)'
<1> USE DEF Kept
<1>1. /\ issued' = issued + 1 /\ issued + 1 \in Ids
      /\ hub[issued + 1] = "none" /\ hub'[issued + 1] = "pending"
      /\ \A c \in Ids : c # issued + 1 => hub'[c] = hub[c]
  BY CommandsAssumption DEF Issue, TypeOK, Ids, HubHeld
<1>2. \A c \in Ids : Delivered(c)' <=> Delivered(c)
  BY <1>1 DEF Delivered
<1>3. HubHeld'
  <2>1. \A c \in Ids : hub'[c] = "none" <=> c > issued'
    BY <1>1 DEF HubHeld, Ids, TypeOK
  <2> QED
    BY <2>1, <1>2 DEF HubHeld, Issue, TypeOK
<1>4. RowHeld'
  BY <1>1, <1>2 DEF RowHeld, Issue, TookEffect, Final
<1>5. FetchHeld(p)'
  <2> SUFFICES ASSUME w[p].pc = "marking"
               PROVE /\ ~w[p].again
                     /\ \A c \in w[p].left : hub'[c] = "pending"
                     /\ \A c \in w[p].left, d \in Ids : ~Delivered(d)' /\ d \notin w[p].left => c < d
    BY DEF FetchHeld, Issue
  <2>1. w[p].left \subseteq Ids
    BY DEF TypeOK, Memories
  <2> QED
    BY <1>1, <1>2, <2>1 DEF FetchHeld, PollerHeld
<1>6. BatchHeld(p)' /\ CommandHeld(p)' /\ AgainHeld(p)'
  <2>1. w[p].left \subseteq Ids
    BY DEF TypeOK, Memories
  <2>2. \A c \in Ids : Fresh(c)' <=> Fresh(c)
    BY <1>2 DEF Fresh, BeyondRan, Issue
  <2> QED
    BY <2>1, <2>2 DEF Issue, PollerHeld, BatchHeld, CommandHeld, AgainHeld, BeyondRan, TookEffect
<1> QED
  BY <1>3, <1>5, <1>4, <1>6 DEF PollerHeld

LEMMA LeftSet ==
  ASSUME NEW m \in Memories, NEW s, NEW l
  PROVE /\ [m EXCEPT !.pc = s, !.left = l].pc = s
        /\ [m EXCEPT !.pc = s, !.left = l].left = l
        /\ [m EXCEPT !.pc = s, !.left = l].again = m.again
  BY DEF Memories

LEMMA FetchKept ==
  ASSUME TypeOK, TypeOK', NEW p \in Pollers, Kept(p), Fetch(p)
  PROVE Kept(p)'
<1>1. /\ w'[p].pc = "marking" /\ w'[p].again = w[p].again
      /\ w'[p].left = {c \in Ids : hub[c] = "pending"}
  <2>1. w'[p] = [w[p] EXCEPT !.pc = "marking", !.left = {c \in Ids : hub[c] = "pending"}]
    BY DEF Fetch, TypeOK
  <2>2. w[p] \in Memories
    BY DEF TypeOK
  <2> QED
    BY <2>1, <2>2, LeftSet
<1>2. HubHeld' /\ RowHeld'
  BY DEF Fetch, Kept, HubHeld, RowHeld, Delivered, TookEffect
<1>3. ~w[p].again
  BY DEF Fetch, Kept, PollerHeld, AgainHeld
<1>4. FetchHeld(p)'
  <2> SUFFICES ASSUME NEW c \in Ids, hub[c] = "pending", NEW d \in Ids, hub[d] = "none"
               PROVE c < d
    BY <1>1, <1>3 DEF FetchHeld, Fetch, Delivered
  <2> QED
    BY DEF Kept, HubHeld, TypeOK, Ids
<1>5. BatchHeld(p)' /\ CommandHeld(p)' /\ AgainHeld(p)'
  BY <1>1, <1>3 DEF BatchHeld, CommandHeld, AgainHeld
<1> QED
  BY <1>2, <1>4, <1>5 DEF Kept, PollerHeld

LEMMA DeliverKept ==
  ASSUME TypeOK, TypeOK', NEW p \in Pollers, Kept(p), Deliver(p)
  PROVE Kept(p)'
<1> USE DEF Kept
<1>1. w[p].pc = "marking" /\ ~w[p].again /\ w[p].left \subseteq Ids
  BY DEF Deliver, PollerHeld, FetchHeld, TypeOK, Memories
<1>2. \A c \in w[p].left : hub[c] = "pending" /\ ~Delivered(c)
  BY <1>1 DEF PollerHeld, FetchHeld, Delivered
<1>3. \A c \in Ids : hub'[c] = IF c \in w[p].left THEN "delivered" ELSE hub[c]
  BY <1>2 DEF Deliver, MarkDelivered
<1>4. \A c \in Ids : Delivered(c)' <=> Delivered(c) \/ c \in w[p].left
  BY <1>3 DEF Delivered
<1>5. HubHeld'
  <2>1. \A c, d \in Ids : Delivered(c)' /\ ~Delivered(d)' => c < d
    BY <1>1, <1>4 DEF HubHeld, PollerHeld, FetchHeld
  <2>2. \A c \in Ids : hub'[c] = "none" <=> c > issued'
    BY <1>2, <1>3 DEF HubHeld, Deliver
  <2>3. \A i \in DOMAIN ran : ran[i] \in Ids /\ Delivered(ran[i])
    BY DEF HubHeld, TypeOK
  <2>4. ran' = ran
    BY DEF Deliver
  <2>5. \A i \in DOMAIN ran' : hub'[ran'[i]] \notin {"none", "pending"}
    BY <1>4, <2>3, <2>4 DEF Delivered
  <2> QED
    BY <2>1, <2>2, <2>5 DEF HubHeld, Delivered
<1>6. RowHeld'
  BY <1>2, <1>3, <1>4 DEF RowHeld, Deliver, TookEffect, Final
<1>7. CASE Stop(p)
  BY <1>5, <1>6, <1>7, StopHeld DEF PollerHeld
<1>8. CASE Goto(p, "lookup")
  <2>1. w'[p].pc = "lookup" /\ w'[p].left = w[p].left /\ w'[p].again = w[p].again
    BY <1>8 DEF Goto, TypeOK, Memories
  <2>2. ASSUME NEW c \in w[p].left PROVE Fresh(c)'
    <3>1. row[c].state = "none"
      BY <1>1, <1>2 DEF RowHeld
    <3>2. BeyondRan(c)
      BY <1>1, <1>2 DEF HubHeld, BeyondRan, TypeOK
    <3> QED
      BY <1>1, <1>4, <3>1, <3>2 DEF Fresh, Deliver, BeyondRan
  <2> QED
    BY <1>1, <1>5, <1>6, <2>1, <2>2 DEF PollerHeld, FetchHeld, BatchHeld, CommandHeld, AgainHeld
<1> QED
  BY <1>7, <1>8 DEF Deliver

(* The Hub, the rows and the history are as before. *)
LEMMA OnlyMemory ==
  ASSUME NEW p \in Pollers, Kept(p), UNCHANGED <<issued, hub, row, ran>>
  PROVE /\ HubHeld' /\ RowHeld'
        /\ \A c \in Ids : (Fresh(c)' <=> Fresh(c)) /\ (BeyondRan(c)' <=> BeyondRan(c)) /\ (TookEffect(c)' <=> TookEffect(c))
  BY DEF Kept, HubHeld, RowHeld, Delivered, TookEffect, Fresh, BeyondRan

LEMMA LookupKept ==
  ASSUME TypeOK, TypeOK', NEW p \in Pollers, Kept(p), NEW c \in Ids, Lookup(p, c)
  PROVE Kept(p)'
<1>1. w[p].pc = "lookup" /\ ~w[p].again /\ c \in w[p].left /\ w[p].left \subseteq Ids
      /\ \A d \in w[p].left : c <= d
  BY DEF Lookup, First, Kept, PollerHeld, AgainHeld, TypeOK, Memories
<1>2. \A d \in w[p].left : Fresh(d)
  BY <1>1 DEF Kept, PollerHeld, BatchHeld
<1>3. row[c].state = "none"
  BY <1>1, <1>2 DEF Fresh
<1>4. /\ w'[p].pc = "insert" /\ w'[p].left = w[p].left \ {c}
      /\ w'[p].cmd = c /\ w'[p].again = w[p].again
  BY <1>3 DEF Lookup, TypeOK, Memories
<1>5. HubHeld' /\ RowHeld' /\ \A d \in Ids : Fresh(d)' <=> Fresh(d)
  BY OnlyMemory DEF Lookup
<1>6. \A d \in w[p].left \ {c} : c < d
  BY <1>1 DEF Ids
<1> QED
  BY <1>1, <1>2, <1>4, <1>5, <1>6 DEF Kept, PollerHeld, FetchHeld, BatchHeld, CommandHeld, AgainHeld

LEMMA InsertKept ==
  ASSUME TypeOK, TypeOK', NEW p \in Pollers, Kept(p), Insert(p)
  PROVE Kept(p)'
<1> DEFINE c == w[p].cmd
<1>1. w[p].pc = "insert" /\ ~w[p].again /\ c \in Ids /\ Fresh(c) /\ w[p].left \subseteq Ids
  BY DEF Insert, Kept, PollerHeld, CommandHeld, AgainHeld, TypeOK, Memories
<1>2. row' = [row EXCEPT ![c].state = "received"] /\ Goto(p, "run")
  BY <1>1 DEF Insert, Fresh
<1>3. w'[p].pc = "run" /\ w'[p].left = w[p].left /\ w'[p].cmd = c /\ w'[p].again = w[p].again
  BY <1>2 DEF Goto, TypeOK, Memories
<1>4. row'[c].state = "received" /\ \A d \in Ids : d # c => row'[d] = row[d]
  BY <1>1, <1>2 DEF TypeOK
<1>5. HubHeld'
  BY DEF Kept, HubHeld, Insert, Delivered
<1>6. RowHeld'
  BY <1>1, <1>4 DEF Kept, RowHeld, Insert, Delivered, TookEffect, Fresh, Final
<1>7. BeyondRan(c)'
  BY <1>1, <1>3 DEF Fresh, BeyondRan, Insert
<1>8. BatchHeld(p)'
  <2>1. \A d \in w[p].left : Fresh(d) /\ c < d
    BY <1>1 DEF Kept, PollerHeld, BatchHeld
  <2>2. \A d \in w[p].left : d # c
    BY <1>1, <2>1 DEF Ids
  <2> QED
    BY <1>1, <1>3, <1>4, <2>1, <2>2 DEF BatchHeld, Fresh, BeyondRan, Delivered, Insert
<1> QED
  BY <1>1, <1>3, <1>4, <1>5, <1>6, <1>7, <1>8 DEF Kept, PollerHeld, FetchHeld, CommandHeld, AgainHeld

LEMMA RunKept ==
  ASSUME TypeOK, TypeOK', NEW p \in Pollers, Kept(p), RunHandler(p)
  PROVE Kept(p)'
<1>1. /\ w[p].pc = "run" /\ ~w[p].again /\ w[p].cmd \in Ids /\ w[p].left \subseteq Ids
      /\ row[w[p].cmd].state = "received" /\ BeyondRan(w[p].cmd)
  BY DEF RunHandler, Kept, PollerHeld, CommandHeld, AgainHeld, TypeOK, Memories
<1>2. PICK effect \in BOOLEAN, state \in Final :
         /\ state = "succeeded" => effect
         /\ ran' = IF effect THEN Append(ran, w[p].cmd) ELSE ran
         /\ w' = [w EXCEPT ![p] = [@ EXCEPT !.pc = AfterRun, !.state = state]]
  BY DEF RunHandler
<1>3. /\ w'[p].pc = "record" /\ w'[p].left = w[p].left /\ w'[p].cmd = w[p].cmd
      /\ w'[p].again = w[p].again /\ w'[p].state = state
  BY <1>2 DEF AfterRun, TypeOK, Memories
<1>4. Delivered(w[p].cmd)
  BY <1>1 DEF Kept, RowHeld
<1>5. ran \in Seq(Ids)
  BY DEF TypeOK
<1>6. \A i \in DOMAIN ran' : (i \in DOMAIN ran /\ ran'[i] = ran[i]) \/ ran'[i] = w[p].cmd
  BY <1>1, <1>2, <1>5
<1>7. \A i \in DOMAIN ran : i \in DOMAIN ran' /\ ran'[i] = ran[i]
  BY <1>1, <1>2, <1>5
<1>8. effect => TookEffect(w[p].cmd)'
  <2> SUFFICES ASSUME effect PROVE \E i \in DOMAIN ran' : ran'[i] = w'[p].cmd
    BY DEF TookEffect
  <2>1. Len(ran) + 1 \in DOMAIN ran' /\ ran'[Len(ran) + 1] = w[p].cmd
    BY <1>1, <1>2, <1>5
  <2> QED
    BY <1>3, <2>1
<1>9. HubHeld'
  BY <1>4, <1>6 DEF Kept, HubHeld, RunHandler, Delivered
<1>10. RowHeld'
  BY <1>7 DEF Kept, RowHeld, RunHandler, Delivered, TookEffect
<1>11. BatchHeld(p)'
  <2>1. \A c \in w[p].left : Fresh(c) /\ w[p].cmd < c
    BY <1>1 DEF Kept, PollerHeld, BatchHeld
  <2> QED
    BY <1>1, <1>3, <1>6, <2>1 DEF BatchHeld, Fresh, BeyondRan, Delivered, RunHandler
<1>12. CommandHeld(p)'
  BY <1>1, <1>2, <1>3, <1>8 DEF CommandHeld, RunHandler
<1> QED
  BY <1>1, <1>3, <1>9, <1>10, <1>11, <1>12 DEF Kept, PollerHeld, FetchHeld, AgainHeld

(* A step that changes the row in hand and goes on with it. *)
LEMMA RecordKept ==
  ASSUME TypeOK, TypeOK', NEW p \in Pollers, Kept(p), Record(p)
  PROVE Kept(p)'
<1>1. /\ w[p].pc = "record" /\ ~w[p].again /\ w[p].cmd \in Ids /\ w[p].left \subseteq Ids
      /\ row[w[p].cmd].state = "received" /\ w[p].state \in Final
      /\ w[p].state = "succeeded" => TookEffect(w[p].cmd)
  BY DEF Record, Kept, PollerHeld, CommandHeld, AgainHeld, TypeOK, Memories
<1>2. /\ w'[p].pc = "ack" /\ w'[p].left = w[p].left /\ w'[p].cmd = w[p].cmd
      /\ w'[p].again = w[p].again /\ w'[p].state = w[p].state
  BY DEF Record, Goto, TypeOK, Memories
<1>3. row'[w[p].cmd].state = w[p].state /\ \A d \in Ids : d # w[p].cmd => row'[d] = row[d]
  BY <1>1 DEF Record, TypeOK
<1>4. HubHeld'
  BY DEF Kept, HubHeld, Record, Delivered
<1>5. RowHeld'
  BY <1>1, <1>3 DEF Kept, RowHeld, Record, Delivered, TookEffect, Final
<1>6. BatchHeld(p)'
  <2>1. \A d \in w[p].left : Fresh(d) /\ w[p].cmd < d
    BY <1>1 DEF Kept, PollerHeld, BatchHeld
  <2>2. \A d \in w[p].left : d # w[p].cmd
    BY <1>1, <2>1 DEF Ids
  <2> QED
    BY <1>1, <1>2, <1>3, <2>1, <2>2 DEF BatchHeld, Fresh, BeyondRan, Delivered, Record
<1> QED
  BY <1>1, <1>2, <1>3, <1>4, <1>5, <1>6 DEF Kept, PollerHeld, FetchHeld, CommandHeld, AgainHeld

LEMMA AckKept ==
  ASSUME TypeOK, TypeOK', NEW p \in Pollers, Kept(p), Ack(p)
  PROVE Kept(p)'
<1>1. /\ w[p].pc = "ack" /\ w[p].cmd \in Ids /\ w[p].left \subseteq Ids
      /\ w[p].state \in Final /\ row[w[p].cmd].state = w[p].state
  BY DEF Ack, Kept, PollerHeld, CommandHeld, TypeOK, Memories
<1>2. \A c \in Ids : hub'[c] = hub[c] \/ (c = w[p].cmd /\ hub'[c] = w[p].state)
  BY <1>1 DEF Ack, HubTakes, TypeOK
<1>3. \A c \in Ids : Delivered(c)' <=> Delivered(c)
  BY <1>1, <1>2 DEF Delivered, Final, Kept, RowHeld
<1>4. HubHeld'
  <2>1. \A c \in Ids : hub'[c] = "none" <=> hub[c] = "none"
    BY <1>1, <1>2 DEF Final, Kept, RowHeld, Delivered
  <2>2. \A i \in DOMAIN ran : ran[i] \in Ids
    BY DEF TypeOK
  <2>3. ran' = ran /\ issued' = issued
    BY DEF Ack
  <2> QED
    BY <1>3, <2>1, <2>2, <2>3 DEF Kept, HubHeld
<1>5. RowHeld'
  BY <1>1, <1>2, <1>3 DEF Kept, RowHeld, Ack, TookEffect
<1>6. \A c \in Ids : Fresh(c)' <=> Fresh(c)
  BY <1>3 DEF Fresh, BeyondRan, Ack
<1>7. CASE Stop(p)
  BY <1>4, <1>5, <1>7, StopHeld DEF Kept
<1>8. CASE Goto(p, "acked") \/ Continue(p)
  <2>1. /\ w'[p].pc = "acked" \/ w'[p].pc = (IF w[p].again THEN "unacked" ELSE "lookup")
        /\ w'[p].left = w[p].left /\ w'[p].cmd = w[p].cmd /\ w'[p].again = w[p].again
        /\ w'[p].state = w[p].state /\ w'[p].seen = w[p].seen
    BY <1>8 DEF Goto, Continue, TypeOK, Memories
  <2>2. BatchHeld(p)'
    BY <1>1, <1>6, <2>1 DEF Kept, PollerHeld, BatchHeld
  <2>3. CommandHeld(p)' /\ FetchHeld(p)'
    BY <1>1, <2>1 DEF CommandHeld, FetchHeld, Ack
  <2>4. AgainHeld(p)'
    BY <1>1, <2>1 DEF Kept, PollerHeld, AgainHeld, Ack
  <2> QED
    BY <1>4, <1>5, <2>2, <2>3, <2>4 DEF Kept, PollerHeld
<1> QED
  BY <1>7, <1>8 DEF Ack

LEMMA MarkAckedKept ==
  ASSUME TypeOK, TypeOK', NEW p \in Pollers, Kept(p), MarkAcked(p)
  PROVE Kept(p)'
<1>1. w[p].pc = "acked" /\ w[p].cmd \in Ids /\ w[p].left \subseteq Ids
  BY DEF MarkAcked, TypeOK, Memories, Kept, PollerHeld, CommandHeld
<1>2. \A c \in Ids : row'[c].state = row[c].state
  BY <1>1 DEF MarkAcked, TypeOK
<1>3. HubHeld' /\ RowHeld'
  BY <1>2 DEF MarkAcked, Kept, HubHeld, RowHeld, Delivered, TookEffect
<1>4. \A c \in Ids : Fresh(c)' <=> Fresh(c)
  BY <1>2 DEF Fresh, BeyondRan, Delivered, MarkAcked
<1>5. /\ w'[p].pc = (IF w[p].again THEN "unacked" ELSE "lookup")
      /\ w'[p].left = w[p].left /\ w'[p].again = w[p].again /\ w'[p].seen = w[p].seen
  BY DEF MarkAcked, Goto, Continue, TypeOK, Memories
<1>6. BatchHeld(p)'
  BY <1>1, <1>4, <1>5 DEF Kept, PollerHeld, BatchHeld
<1>7. CommandHeld(p)' /\ FetchHeld(p)'
  BY <1>1, <1>5 DEF CommandHeld, FetchHeld
<1>8. AgainHeld(p)'
  BY <1>1, <1>2, <1>5 DEF Kept, PollerHeld, AgainHeld
<1> QED
  BY <1>3, <1>6, <1>7, <1>8 DEF Kept, PollerHeld

LEMMA AckUnackedKept ==
  ASSUME TypeOK, TypeOK', NEW p \in Pollers, Kept(p), AckUnacked(p)
  PROVE Kept(p)'
<1>1. /\ w'[p].pc = "unacked" /\ w'[p].again
      /\ w'[p].left = Unacked /\ w'[p].seen = [c \in Ids |-> row[c].state]
  BY DEF AckUnacked, Idle, TypeOK
<1>2. HubHeld' /\ RowHeld'
  BY OnlyMemory DEF AckUnacked
<1>3. AgainHeld(p)'
  BY <1>1 DEF AgainHeld, Unacked, AckUnacked
<1>4. BatchHeld(p)' /\ CommandHeld(p)' /\ FetchHeld(p)'
  BY <1>1 DEF BatchHeld, CommandHeld, FetchHeld
<1> QED
  BY <1>2, <1>3, <1>4 DEF Kept, PollerHeld

LEMMA AckAgainKept ==
  ASSUME TypeOK, TypeOK', NEW p \in Pollers, Kept(p), NEW c \in Ids, AckAgain(p, c)
  PROVE Kept(p)'
<1>1. w[p].pc = "unacked" /\ w[p].again /\ c \in w[p].left
  BY DEF AckAgain, Kept, PollerHeld, AgainHeld
<1>2. w[p].seen[c] \in Final /\ row[c].state = w[p].seen[c]
  BY <1>1 DEF Kept, PollerHeld, AgainHeld
<1>3. /\ w'[p].pc = "ack" /\ w'[p].left = w[p].left \ {c} /\ w'[p].cmd = c
      /\ w'[p].state = w[p].seen[c] /\ w'[p].again = w[p].again /\ w'[p].seen = w[p].seen
  BY DEF AckAgain, TypeOK, Memories
<1>4. HubHeld' /\ RowHeld'
  BY OnlyMemory DEF AckAgain
<1>5. AgainHeld(p)'
  BY <1>1, <1>3 DEF Kept, PollerHeld, AgainHeld, AckAgain
<1>6. CommandHeld(p)'
  BY <1>2, <1>3 DEF CommandHeld, AckAgain
<1>7. BatchHeld(p)' /\ FetchHeld(p)'
  BY <1>1, <1>3 DEF BatchHeld, FetchHeld
<1> QED
  BY <1>4, <1>5, <1>6, <1>7 DEF Kept, PollerHeld

LEMMA StopKept ==
  ASSUME TypeOK, NEW p \in Pollers, Kept(p), PollEnds(p) \/ Crash(p)
  PROVE Kept(p)'
  BY OnlyMemory, StopHeld DEF PollEnds, Crash, Kept

LEMMA StutterKept ==
  ASSUME NEW p \in Pollers, Kept(p), UNCHANGED vars
  PROVE Kept(p)'
  BY DEF vars, Kept, HubHeld, RowHeld, PollerHeld, FetchHeld, BatchHeld, CommandHeld, AgainHeld,
         Delivered, TookEffect, Fresh, BeyondRan

-----------------------------------------------------------------------------
LEMMA CommandsStep ==
  ASSUME NEW P, Pollers = {P}, CommandsInv, [Next]_vars
  PROVE CommandsInv'
<1>1. TypeOK /\ TypeOK'
  BY TypeStep DEF CommandsInv
<1>2. P \in Pollers /\ Kept(P)
  BY DEF CommandsInv, Kept, PollerHeld
<1>3. CASE Next
  <2>1. Issue \/ Poll(P) \/ Crash(P)
    BY <1>3 DEF Next
  <2> QED
    BY <1>1, <1>2, <2>1, IssueKept, FetchKept, DeliverKept, LookupKept, InsertKept, RunKept, RecordKept, AckKept,
       MarkAckedKept, AckUnackedKept, AckAgainKept, StopKept DEF Poll, CommandsInv, Kept, PollerHeld
<1> QED
  BY <1>1, <1>2, <1>3, StutterKept DEF CommandsInv, Kept, PollerHeld

LEMMA CommandsInvariant == ASSUME NEW P, Pollers = {P} PROVE Spec => []CommandsInv
<1>1. CommandsInv /\ [Next]_vars => CommandsInv'
  BY CommandsStep
<1> QED
  BY <1>1, CommandsInit, PTL DEF Spec

(* The rows, the Hub's states and the poller's memory keep their types, for *)
(* any number of commands, crashes, lost answers and refused acks.          *)
THEOREM CommandsTypeCorrect == ASSUME NEW P, Pollers = {P} PROVE Spec => []TypeOK
<1>1. CommandsInv => TypeOK
  BY DEF CommandsInv
<1> QED
  BY <1>1, CommandsInvariant, PTL

(* With one poller, what the Hub calls done is recorded at Altair with the  *)
(* same result, whatever crashes or is lost (commands.py, _ack).            *)
THEOREM ResultAgreesHolds == ASSUME NEW P, Pollers = {P} PROVE Spec => []ResultAgrees
<1>1. CommandsInv => ResultAgrees
  BY DEF CommandsInv, RowHeld, ResultAgrees
<1> QED
  BY <1>1, CommandsInvariant, PTL

-----------------------------------------------------------------------------
Result == [c \in Ids |-> IF hub[c] \in Final THEN hub[c] ELSE "none"]

LEMMA QueueInit == Init => Queue!Init
  BY DEF Init, Queue!Init, Queue!Ids, Ids, Final

(* A step that leaves the Hub's results alone. *)
LEMMA SameResult ==
  ASSUME \A c \in Ids : hub'[c] = hub[c] \/ (hub[c] \notin Final /\ hub'[c] \notin Final)
  PROVE Result' = Result
  BY DEF Result

LEMMA QueueStep ==
  ASSUME NEW P, Pollers = {P}, CommandsInv, [Next]_vars
  PROVE [Queue!Next]_<<issued, ran, Result>>
<1> USE DEF Queue!Ids, Queue!Next, Ids
<1>1. TypeOK /\ Kept(P) /\ P \in Pollers
  BY DEF CommandsInv, Kept, PollerHeld
<1>2. CASE Issue
  <2>1. \A c \in Ids : hub'[c] = hub[c] \/ (hub[c] \notin Final /\ hub'[c] \notin Final)
    BY <1>1, <1>2, CommandsAssumption DEF Issue, Kept, HubHeld, TypeOK, Final
  <2> QED
    BY <1>2, <2>1, SameResult DEF Issue, Queue!Issue, Result
<1>3. CASE Deliver(P)
  <2>1. \A c \in Ids : hub'[c] = hub[c] \/ (hub[c] \notin Final /\ hub'[c] \notin Final)
    BY <1>3 DEF Deliver, MarkDelivered, Final
  <2> QED
    BY <1>3, <2>1, SameResult DEF Deliver
<1>4. CASE RunHandler(P)
  <2>1. w[P].cmd \in Ids /\ BeyondRan(w[P].cmd) /\ row[w[P].cmd].state = "received"
    BY <1>1, <1>4 DEF RunHandler, Kept, PollerHeld, CommandHeld
  <2>2. w[P].cmd <= issued
    BY <1>1, <2>1 DEF Kept, RowHeld, HubHeld, Delivered, TypeOK
  <2>3. Result' = Result
    BY <1>4 DEF RunHandler, Result
  <2>4. CASE ran' = ran
    BY <1>4, <2>3, <2>4 DEF RunHandler
  <2>5. CASE ran' = Append(ran, w[P].cmd)
    <3>1. Queue!Run(w[P].cmd)
      BY <1>4, <2>1, <2>2, <2>3, <2>5 DEF RunHandler, Queue!Run, BeyondRan, Result
    <3> QED
      BY <2>1, <3>1
  <2> QED
    BY <1>4, <2>4, <2>5 DEF RunHandler
<1>5. CASE Ack(P)
  <2>1. PICK c \in Ids : c = w[P].cmd /\ w[P].state \in Final /\ row[c].state = w[P].state
    BY <1>1, <1>5 DEF Ack, Kept, PollerHeld, CommandHeld
  <2>2. CASE UNCHANGED hub \/ hub[c] \in Final
    <3>2. hub[c] \in Final => hub[c] = w[P].state
      BY <1>1, <2>1 DEF Kept, RowHeld
    <3>3. hub[c] \in Final /\ HubTakes(P) => hub' = hub
      BY <1>1, <2>1, <3>2 DEF HubTakes, TypeOK
    <3>1. hub' = hub
      BY <1>5, <2>2, <3>3 DEF Ack
    <3> QED
      BY <1>5, <3>1 DEF Ack, Result
  <2>3. CASE HubTakes(P) /\ hub[c] \notin Final
    <3>1. c <= issued
      BY <1>1, <2>1 DEF Kept, RowHeld, HubHeld, Delivered, TypeOK, Final
    <3>2. Result[c] = "none" /\ Result' = [Result EXCEPT ![c] = w[P].state]
      BY <1>1, <2>1, <2>3 DEF HubTakes, Result, TypeOK
    <3>3. w[P].state = "succeeded" => \E i \in DOMAIN ran : ran[i] = c
      BY <1>1, <2>1 DEF Kept, RowHeld, TookEffect
    <3>4. Queue!Report(c)
      BY <1>5, <2>1, <3>1, <3>2, <3>3 DEF Ack, Queue!Report, Result, Final
    <3> QED
      BY <3>4
  <2> QED
    BY <1>5, <2>2, <2>3 DEF Ack
<1>6. CASE UNCHANGED <<issued, hub, ran>>
  BY <1>6 DEF Result
<1> QED
  BY <1>1, <1>2, <1>3, <1>4, <1>5, <1>6
  DEF Next, Poll, vars, Fetch, Lookup, Insert, Record, MarkAcked, AckUnacked, AckAgain, PollEnds, Crash

(* With one poller, Commands implements the queue's promise: every command  *)
(* takes effect at most once and in order, and its result stands, whatever  *)
(* crashes or is lost (commands.py: an id seen twice is not re-run).        *)
THEOREM RefinesQueue == ASSUME NEW P, Pollers = {P} PROVE Spec => AtMostOnceInOrder
<1>1. CommandsInv /\ [Next]_vars => [Queue!Next]_<<issued, ran, Result>>
  BY QueueStep
<1> QED
  BY <1>1, QueueInit, CommandsInvariant, PTL DEF Spec, AtMostOnceInOrder, Queue!Spec, Result
=============================================================================
