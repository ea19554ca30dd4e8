----------------------------- MODULE MCPlanner -----------------------------
(* Instances of Planner for TLC: one rig without a rotator, days of 10. *)
EXTENDS Planner

CONSTANTS L1, L2, L3, L4, F1, F2, B1, T1, T2, S1, S2, S3

RulesSmall   == [darkExposure |-> 0, darkTemp |-> 1, darkAge |-> 9, biasAge |-> 9, darkflatExposure |-> 0, darkflatAge |-> 9,
                 flatAge |-> 2, strategy |-> "auto", prefer |-> <<"same_night", "nearest_after", "nearest_before">>]
NoRotator    == [present |-> FALSE, tolerance |-> 0, turn |-> 0]

Light(at, night, target) == [type |-> "LIGHT", rig |-> "r", night |-> night, at |-> at, filter |-> "Ha", sensor |-> "g", size |-> "s", exposure |-> 300,
                             temp |-> 0, focal |-> 500, pos |-> None, object |-> "o", link |-> target]
Flat(at, night)          == [Light(at, night, None) EXCEPT !.type = "FLAT", !.exposure = 2]

InfoAll == [f \in {L1, L2, L3, L4, F1, F2, B1} |->
              CASE f = L1 -> Light(12, 1, T1) [] f = L2 -> Light(14, 1, T1) [] f = L3 -> Light(15, 1, T2)
                [] f = L4 -> Light(26, 2, T1)
                [] f = F1 -> Flat(18, 1) [] f = F2 -> Flat(22, 2)
                [] f = B1 -> [Flat(19, 1) EXCEPT !.type = "BIAS"]]
InfoLost == [InfoAll EXCEPT ![L1].link = None]

Master(kind, sha) == [kind |-> kind, rig |-> "r", filter |-> IF kind = "FLAT" THEN "Ha" ELSE None, sensor |-> "g", size |-> "s",
                      exposure |-> IF kind = "FLAT" THEN 2 ELSE 300, temp |-> 0, focal |-> 500, pos |-> None, night |-> 1, n |-> 1, at |-> 10, sha |-> sha]
DarkBias  == <<Master("DARK", S1), Master("BIAS", S2)>>
DarkOnly  == <<Master("DARK", S1)>>
OneFlat   == {Master("FLAT", S3)}
TheBias   == {Master("BIAS", S2)}
NoImport  == {}
Between   == {[rig |-> "r", filter |-> None, at |-> 16]}
Nights    == {1, 2}
JustOne   == {1}
Targets   == {T1, T2}
NoEvents  == {}
=============================================================================
