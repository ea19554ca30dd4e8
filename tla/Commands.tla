------------------------------ MODULE Commands ------------------------------
(***************************************************************************)
(* Commands from the Hub to Altair: queued in processing_commands, marked   *)
(* delivered by the request that lists them, run in order of id by a        *)
(* poller, recorded in hub_commands and acknowledged.  A poller is          *)
(* altaird's sync thread, or `altair hub sync-now` in its own process.      *)
(* What a handler does is one effect: its transaction commits or not.       *)
(***************************************************************************)
EXTENDS Naturals, Sequences

CONSTANTS
    MaxCommands,
    Pollers,
    MaxCrashes, MaxLost, MaxRefused   \* bounds: crashes, answers lost, acks refused

ASSUME CommandsAssumption == {MaxCommands, MaxCrashes, MaxLost, MaxRefused} \subseteq Nat

VARIABLES
    issued,     \* how many commands exist
    hub,        \* processing_commands: state of each
    row,        \* hub_commands: state of each, and whether its ack was taken
    ran,        \* history: the commands that took effect, in order
    w,          \* each poller: what it does next, and what it has fetched
    budget

vars == <<issued, hub, row, ran, w, budget>>

Ids      == 1..MaxCommands
Final    == {"succeeded", "failed"}
HubStates == {"none", "pending", "delivered"} \cup Final
RowStates == {"none", "received"} \cup Final

Steps == {"idle", "marking", "lookup", "insert", "run", "record", "ack", "acked", "unacked"}

(* left: the commands still to take; cmd and state: the one in hand and     *)
(* what to acknowledge; seen: the rows that ack_unacked has read.           *)
Idle == [pc |-> "idle", left |-> {}, cmd |-> 0, state |-> "none", again |-> FALSE, seen |-> [c \in Ids |-> "none"]]

Memories ==
    [pc : Steps, left : SUBSET Ids, cmd : Ids \cup {0}, state : {"none"} \cup Final, again : BOOLEAN, seen : [Ids -> RowStates]]

TypeOK ==
    /\ issued \in 0..MaxCommands
    /\ hub \in [Ids -> HubStates]
    /\ row \in [Ids -> [state : RowStates, acked : BOOLEAN]]
    /\ ran \in Seq(Ids)
    /\ w \in [Pollers -> Memories]
    /\ budget \in [crashes : Nat, lost : Nat, refused : Nat]

Init ==
    /\ issued = 0 /\ hub = [c \in Ids |-> "none"]
    /\ row = [c \in Ids |-> [state |-> "none", acked |-> FALSE]]
    /\ ran = <<>> /\ w = [p \in Pollers |-> Idle]
    /\ budget = [crashes |-> 0, lost |-> 0, refused |-> 0]

Goto(p, pc) == w' = [w EXCEPT ![p].pc = pc]
Stop(p)     == w' = [w EXCEPT ![p] = Idle]
Lost        == budget.lost < MaxLost /\ budget' = [budget EXCEPT !.lost = @ + 1]

-----------------------------------------------------------------------------
(* Somebody gives a command, or a session ends. *)
Issue ==
    /\ issued < MaxCommands
    /\ issued' = issued + 1
    /\ hub' = [hub EXCEPT ![issued + 1] = "pending"]
    /\ UNCHANGED <<row, ran, w, budget>>

(* GET /processing/commands: the Hub reads the pending ones ... *)
Fetch(p) ==
    /\ w[p].pc = "idle"
    /\ w' = [w EXCEPT ![p].pc = "marking", ![p].left = {c \in Ids : hub[c] = "pending"}]
    /\ UNCHANGED <<issued, hub, row, ran, budget>>

(* Mutant: a command stays pending until it is acknowledged. *)
KeepPending(p) == UNCHANGED hub

MarkDelivered(p) == hub' = [c \in Ids |-> IF c \in w[p].left /\ hub[c] = "pending" THEN "delivered" ELSE hub[c]]

(* ... and marks them delivered; its answer arrives, or is lost. *)
Deliver(p) ==
    /\ w[p].pc = "marking"
    /\ MarkDelivered(p)
    /\ \/ Goto(p, "lookup") /\ UNCHANGED budget
       \/ Stop(p) /\ Lost
    /\ UNCHANGED <<issued, row, ran>>

-----------------------------------------------------------------------------
(* handle: one command after the other, in order of id. *)

First(c, S) == c \in S /\ \A d \in S : c <= d

Lookup(p, c) ==
    /\ w[p].pc = "lookup" /\ First(c, w[p].left)
    /\ LET known == row[c].state
           step  == IF known = "none" THEN "insert" ELSE IF known = "received" THEN "run" ELSE "ack"
       IN w' = [w EXCEPT ![p] = [@ EXCEPT !.pc = step, !.left = w[p].left \ {c}, !.cmd = c,
                                   !.state = IF known \in Final THEN known ELSE "none"]]
    /\ UNCHANGED <<issued, hub, row, ran, budget>>

(* The id is the key: another process may have inserted it by now, and the  *)
(* error ends the poll.                                                     *)
Insert(p) ==
    /\ w[p].pc = "insert"
    /\ LET c == w[p].cmd IN
       \/ /\ row[c].state = "none"
          /\ row' = [row EXCEPT ![c].state = "received"]
          /\ Goto(p, "run")
       \/ row[c].state # "none" /\ Stop(p) /\ UNCHANGED row
    /\ UNCHANGED <<issued, hub, ran, budget>>

AfterRun == "record"

(* The handler takes effect or not; one that did can still fail later on.   *)
RunHandler(p) ==
    /\ w[p].pc = "run"
    /\ \E effect \in BOOLEAN, state \in Final :
         /\ state = "succeeded" => effect
         /\ ran' = IF effect THEN Append(ran, w[p].cmd) ELSE ran
         /\ w' = [w EXCEPT ![p] = [@ EXCEPT !.pc = AfterRun, !.state = state]]
    /\ UNCHANGED <<issued, hub, row, budget>>

Record(p) ==
    /\ w[p].pc = "record"
    /\ row' = [row EXCEPT ![w[p].cmd].state = w[p].state]
    /\ Goto(p, "ack")
    /\ UNCHANGED <<issued, hub, ran, budget>>

Continue(p) == Goto(p, IF w[p].again THEN "unacked" ELSE "lookup")

HubTakes(p) == hub' = [hub EXCEPT ![w[p].cmd] = w[p].state]

(* The Hub takes the ack; it does not arrive, or its answer does not; or    *)
(* the Hub refuses it, and the error ends the poll.                         *)
Ack(p) ==
    /\ w[p].pc = "ack"
    /\ \/ HubTakes(p) /\ Goto(p, "acked") /\ UNCHANGED budget
       \/ (HubTakes(p) \/ UNCHANGED hub) /\ Continue(p) /\ Lost
       \/ /\ budget.refused < MaxRefused
          /\ budget' = [budget EXCEPT !.refused = @ + 1]
          /\ Stop(p) /\ UNCHANGED hub
    /\ UNCHANGED <<issued, row, ran>>

MarkAcked(p) ==
    /\ w[p].pc = "acked"
    /\ row' = [row EXCEPT ![w[p].cmd].acked = TRUE]
    /\ Continue(p)
    /\ UNCHANGED <<issued, hub, ran, budget>>

(* Mutant: an ack that was lost is not repeated. *)
NoneUnacked == {}

Unacked == {c \in Ids : row[c].state \in Final /\ ~row[c].acked}

(* ack_unacked, after the last command. *)
AckUnacked(p) ==
    /\ w[p].pc = "lookup" /\ w[p].left = {}
    /\ w' = [w EXCEPT ![p] = [Idle EXCEPT !.pc = "unacked", !.again = TRUE, !.left = Unacked,
                                         !.seen = [c \in Ids |-> row[c].state]]]
    /\ UNCHANGED <<issued, hub, row, ran, budget>>

AckAgain(p, c) ==
    /\ w[p].pc = "unacked" /\ c \in w[p].left
    /\ w' = [w EXCEPT ![p] = [@ EXCEPT !.pc = "ack", !.left = w[p].left \ {c}, !.cmd = c, !.state = w[p].seen[c]]]
    /\ UNCHANGED <<issued, hub, row, ran, budget>>

PollEnds(p) ==
    /\ w[p].pc = "unacked" /\ w[p].left = {}
    /\ Stop(p)
    /\ UNCHANGED <<issued, hub, row, ran, budget>>

Crash(p) ==
    /\ budget.crashes < MaxCrashes /\ w[p].pc # "idle"
    /\ budget' = [budget EXCEPT !.crashes = @ + 1]
    /\ Stop(p)
    /\ UNCHANGED <<issued, hub, row, ran>>

Poll(p) ==
    \/ Fetch(p) \/ Deliver(p) \/ Insert(p) \/ RunHandler(p) \/ Record(p)
    \/ Ack(p) \/ MarkAcked(p) \/ AckUnacked(p) \/ PollEnds(p)
    \/ \E c \in Ids : Lookup(p, c) \/ AckAgain(p, c)

Next == Issue \/ \E p \in Pollers : Poll(p) \/ Crash(p)

Spec == Init /\ [][Next]_vars

(* run_forever polls again whatever a poll ended with. *)
FairSpec == Spec /\ \A p \in Pollers : WF_vars(Poll(p))

-----------------------------------------------------------------------------
(* The promise of the queue, with the Hub's view of a result.               *)
Queue == INSTANCE CommandQueue WITH result <- [c \in Ids |-> IF hub[c] \in Final THEN hub[c] ELSE "none"]

(* With one poller, a command takes effect at most once and in order, and   *)
(* its result stands, whatever crashes or is lost (commands.py: an id seen  *)
(* twice is acked again, not re-run).                                       *)
AtMostOnceInOrder == Queue!Spec

(* What the Hub calls done is recorded at Altair with the same result.      *)
ResultAgrees == \A c \in Ids : hub[c] \in Final => row[c].state = hub[c]

(* A command takes effect once, however many pollers fetch it.              *)
RunsOnce == \A i, j \in DOMAIN ran : ran[i] = ran[j] => i = j

(* A command that is given is executed (SYSTEM_ARCHITECTURE 5.4).           *)
EveryCommandRuns == \A c \in Ids : issued >= c ~> row[c].state \in Final

(* The Hub learns a result of every command that was executed.              *)
AcksArrive == \A c \in Ids : row[c].state \in Final ~> hub[c] \in Final
=============================================================================
