----------------------------- MODULE MCCommands -----------------------------
(* Small instances of Commands for TLC. *)
EXTENDS Commands

CONSTANTS daemon, cli

OnePoller  == {daemon}
TwoPollers == {daemon, cli}
=============================================================================
