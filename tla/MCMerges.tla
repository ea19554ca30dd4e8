------------------------------ MODULE MCMerges ------------------------------
(* Small instances of Merges for TLC. *)
EXTENDS Merges

OneNight  == {1}
TwoNights == 1..2
OneSky    == {<<"sharp">>}
(* A good night and a poor one, or one that misses the field. *)
TwoSkies  == {<<"sharp", "soft">>, <<"off_frame", "sharp">>}
=============================================================================
