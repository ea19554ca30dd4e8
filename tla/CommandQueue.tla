---------------------------- MODULE CommandQueue ----------------------------
(***************************************************************************)
(* What the Hub's command queue promises: a command takes effect at most    *)
(* once and in the order the commands were given, and its result, once the  *)
(* Hub has it, stands; a command that succeeded did take effect.            *)
(***************************************************************************)
EXTENDS Naturals, Sequences

CONSTANT MaxCommands

VARIABLES
    issued,     \* how many commands were given, numbered from 1
    ran,        \* the commands that took effect, in that order
    result      \* what the Hub knows of each command

Ids     == 1..MaxCommands

Init == issued = 0 /\ ran = <<>> /\ result = [c \in Ids |-> "none"]

Issue ==
    /\ issued < MaxCommands
    /\ issued' = issued + 1
    /\ UNCHANGED <<ran, result>>

Run(c) ==
    /\ c <= issued /\ \A i \in DOMAIN ran : ran[i] < c
    /\ ran' = Append(ran, c)
    /\ UNCHANGED <<issued, result>>

Report(c) ==
    /\ c <= issued /\ result[c] = "none"
    /\ \E r \in {"failed"} \cup (IF \E i \in DOMAIN ran : ran[i] = c THEN {"succeeded"} ELSE {}) :
         result' = [result EXCEPT ![c] = r]
    /\ UNCHANGED <<issued, ran>>

Next == Issue \/ \E c \in Ids : Run(c) \/ Report(c)

Spec == Init /\ [][Next]_<<issued, ran, result>>
=============================================================================
