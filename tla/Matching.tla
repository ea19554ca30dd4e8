------------------------------ MODULE Matching ------------------------------
(***************************************************************************)
(* Which calibration master a group of frames is given: planner/matching.py. *)
(* A master is a record of what the rules look at; `order` is its place in   *)
(* the list it is searched in, which settles ties as Python's min and max    *)
(* do.  A match is the master itself, a miss names the issue it becomes.     *)
(* Times (`at`) and nights are integers; `sensor` stands for camera, gain,   *)
(* offset, binning and readout mode, `size` for binning, width and height.   *)
(***************************************************************************)
EXTENDS Integers, Sequences

CONSTANTS
    None,
    Rules,          \* calibration_matching: tolerances, ages, strategy, prefer
    Rotator,        \* of the rig: present, tolerance, turn (0: steps that never wrap)
    FocalTolerance, Cooled

ASSUME MatchingAssumption ==
    /\ Rotator.turn \in Nat /\ Rotator.tolerance \in Nat /\ Rotator.present \in BOOLEAN
    /\ FocalTolerance \in Nat /\ Cooled \in BOOLEAN

Abs(x) == IF x < 0 THEN -x ELSE x
Least(x, y) == IF x <= y THEN x ELSE y

(* rotator_delta: circular for degrees, and for steps when the turn is known *)
Delta(a, b) ==
    LET d == Abs(a - b) % Rotator.turn
    IN  IF Rotator.turn = 0 THEN Abs(a - b) ELSE Least(d, Rotator.turn - d)

(* rotator_buckets: frames within tolerance of a bucket's first position share it *)
Buckets(ps) ==
    LET Near(a, p) == Delta(a, p) <= Rotator.tolerance
        anchors[i \in 0..Len(ps)] ==
            IF i = 0 THEN <<>>
            ELSE IF ps[i] = None \/ \E k \in DOMAIN anchors[i-1] : Near(anchors[i-1][k], ps[i]) THEN anchors[i-1]
            ELSE Append(anchors[i-1], ps[i])
        all == anchors[Len(ps)]
        first(p) == CHOOSE k \in DOMAIN all : Near(all[k], p) /\ \A j \in 1..(k-1) : ~Near(all[j], p)
    IN  [i \in DOMAIN ps |-> IF ps[i] = None THEN None ELSE all[first(ps[i])]]

Miss(kind) == [miss |-> kind]
IsMiss(x)  == "miss" \in DOMAIN x

(* min() over tuples *)
Before(s, t)  == s = t \/ \E i \in DOMAIN s : s[i] < t[i] /\ \A j \in 1..(i-1) : s[j] = t[j]
Best(S, key) == CHOOSE m \in S : \A o \in S : Before(key[m], key[o])
Chosen(S, key, kind) == IF S = {} THEN Miss(kind) ELSE Best(S, key)

SameSensor(need, m) == m.sensor = need.sensor
Age(m, need)        == need.night - m.night

DarkFits(need, m) ==
    /\ m.kind = "DARK" /\ SameSensor(need, m) /\ m.size = need.size
    /\ Abs(m.exposure - need.exposure) <= Rules.darkExposure
    /\ Cooled /\ need.temp # None => m.temp # None /\ Abs(m.temp - need.temp) <= Rules.darkTemp
    /\ Abs(Age(m, need)) <= Rules.darkAge

MatchDark(need, masters) ==
    LET zero(t) == IF t = None THEN 0 ELSE t
        key == [m \in masters |-> <<IF Cooled THEN Abs(zero(m.temp) - zero(need.temp)) ELSE 0, -m.night, -m.n, m.order>>]
    IN  Chosen({m \in masters : DarkFits(need, m)}, key, "DARK_MISSING")

MatchBias(need, masters) ==
    LET key == [m \in masters |-> <<-m.night, -m.n, m.order>>]
    IN  Chosen({m \in masters : m.kind = "BIAS" /\ SameSensor(need, m) /\ Abs(Age(m, need)) <= Rules.biasAge}, key, "BIAS_MISSING")

MatchDarkflat(need, masters) ==
    LET fits(m) == /\ m.kind = "DARKFLAT" /\ SameSensor(need, m)
                   /\ Abs(m.exposure - need.exposure) <= Rules.darkflatExposure
                   /\ Abs(Age(m, need)) <= Rules.darkflatAge
        key     == [m \in masters |-> <<Abs(m.exposure - need.exposure), -m.night, m.order>>]
    IN  Chosen({m \in masters : fits(m)}, key, "DARKFLAT_MISSING")

(* match_flat_dark: what a flat master is calibrated with *)
MatchFlatDark(need, masters) ==
    LET darkflat == MatchDarkflat(need, masters)
        bias     == MatchBias(need, masters)
    IN  IF Rules.strategy = "bias_only" THEN bias
        ELSE IF ~IsMiss(darkflat) \/ Rules.strategy = "darkflat_only" THEN darkflat
        ELSE IF IsMiss(bias) THEN darkflat ELSE bias

(* event_between: strictly between the flat and the lights *)
Split(events, rig, filter, t1, t2) ==
    \E e \in events : /\ e.rig = rig /\ e.filter \in {None, filter}
                      /\ \/ t1 < e.at /\ e.at < t2
                         \/ t2 < e.at /\ e.at < t1

FlatFits(need, m, events) ==
    /\ m.kind = "FLAT" /\ m.rig = need.rig /\ m.filter = need.filter /\ m.size = need.size
    /\ need.focal # None /\ m.focal # None => Abs(m.focal - need.focal) <= FocalTolerance
    /\ Rotator.present => m.pos # None /\ Delta(m.pos, need.pos) <= Rotator.tolerance
    /\ Abs(Age(m, need)) <= Rules.flatAge
    /\ ~Split(events, need.rig, need.filter, m.at, need.at)

(* _flat_preference: same night, nearest after, nearest before, as configured *)
FlatPreference(need, m) ==
    LET age      == Age(m, need)
        category == IF age = 0 THEN "same_night" ELSE IF age < 0 THEN "nearest_after" ELSE "nearest_before"
        ranks    == {i \in DOMAIN Rules.prefer : Rules.prefer[i] = category}
    IN  <<IF ranks = {} THEN Len(Rules.prefer) + 1 ELSE CHOOSE i \in ranks : \A j \in ranks : i <= j, Abs(age), -m.n, m.order>>

MatchFlat(need, masters, events) ==
    LET key == [m \in masters |-> FlatPreference(need, m)]
    IN  IF Rotator.present /\ need.pos = None THEN Miss("ROTATOR_POSITION_UNKNOWN")
        ELSE Chosen({m \in masters : FlatFits(need, m, events)}, key, "FLAT_MISSING")
=============================================================================
