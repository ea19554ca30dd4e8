------------------------------ MODULE MCBundles ------------------------------
(* Small instances of Bundles for TLC. *)
EXTENDS Bundles, TLC

CONSTANTS Ha, OIII, altaird, cli

TwoFilters     == {Ha, OIII}
TwoReplicators == {altaird, cli}
=============================================================================
