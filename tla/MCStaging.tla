------------------------------ MODULE MCStaging ------------------------------
(* Small instances of Staging for TLC: a raw light with an object of its own,  *)
(* two calibrated subs in one zip.                                           *)
EXTENDS Staging, TLC

CONSTANTS j1, j2, light, sub1, sub2, lightObject, zip

TwoJobs     == {j1, j2}
ThreeBlobs  == {light, sub1, sub2}
TwoObjects  == {lightObject, zip}
TheirNeeds  == (j1 :> {light, sub1}) @@ (j2 :> {sub1, sub2})
TheirHolder == (light :> lightObject) @@ (sub1 :> zip) @@ (sub2 :> zip)
LightsAge   == {lightObject}
=============================================================================
