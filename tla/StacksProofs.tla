----------------------------- MODULE StacksProofs ----------------------------
(***************************************************************************)
(* What is proved of the stacks of nights: that the planner plans the same  *)
(* stack once (Planner), and that the zips made of the stacks keep their    *)
(* subs and are where the Hub is told (Bundles).  The two modules share no  *)
(* variable, and neither proof uses the other's.                            *)
(***************************************************************************)
EXTENDS Planner, Bundles, FiniteSetTheorems, SequenceTheorems, WellFoundedInduction, TLAPS

(***************************************************************************)
(* Least elements, of numbers and of finite sets                           *)
(***************************************************************************)
LEMMA LeastElement ==
    ASSUME NEW S, S \subseteq Nat, S # {}
    PROVE  \E x \in S : \A y \in S : x <= y
<1>1. IsWellFoundedOn(OpToRel(<, Nat), Nat)
  BY NatLessThanWellFounded
<1>2. PICK x \in S : \A y \in S : ~(<<y, x>> \in OpToRel(<, Nat))
  BY <1>1, WFMin
<1>3. \A y \in S : ~(y < x)
  BY <1>2 DEF OpToRel
<1> QED
  BY <1>3

\* What holds of 0 and of the next number holds of all up to n.
LEMMA UpTo ==
    ASSUME NEW n \in Nat, NEW good, 0 \in good, \A k \in 1..n : k - 1 \in good => k \in good
    PROVE  \A k \in 0..n : k \in good
<1>1. SUFFICES ASSUME (0..n) \ good # {}
               PROVE  FALSE
  OBVIOUS
<1>2. PICK k \in (0..n) \ good : \A m \in (0..n) \ good : k <= m
  <2>1. (0..n) \ good \subseteq Nat
    OBVIOUS
  <2> QED
    BY <1>1, <2>1, LeastElement
<1>3. k \in 1..n
  BY <1>2
<1>4. k - 1 \in 0..n /\ ~(k <= k - 1)
  BY <1>3
<1> QED
  BY <1>2, <1>3, <1>4

\* A finite set that is partly ordered has a minimal element.
LEMMA MinimalElement ==
    ASSUME NEW S, IsFiniteSet(S), S # {}, NEW less,
           \A x \in S : <<x, x>> \notin less,
           \A x, y, z \in S : <<x, y>> \in less /\ <<y, z>> \in less => <<x, z>> \in less
    PROVE  \E m \in S : \A o \in S : <<o, m>> \notin less
<1> DEFINE below(x) == {y \in S : <<y, x>> \in less}
<1>1. \A x \in S : IsFiniteSet(below(x)) /\ Cardinality(below(x)) \in Nat
  BY FS_Subset, FS_CardinalityType
<1>2. PICK rank : rank = [x \in S |-> Cardinality(below(x))]
  OBVIOUS
<1>3. rank \in [S -> Nat]
  BY <1>1, <1>2
<1>4. PICK m \in S : \A x \in S : rank[m] <= rank[x]
  <2>1. {rank[x] : x \in S} \subseteq Nat /\ {rank[x] : x \in S} # {}
    BY <1>3
  <2>2. PICK r \in {rank[x] : x \in S} : \A q \in {rank[x] : x \in S} : r <= q
    BY <2>1, LeastElement
  <2> QED
    BY <2>2
<1>5. SUFFICES ASSUME NEW o \in S, <<o, m>> \in less
               PROVE  FALSE
  OBVIOUS
<1>6. PICK A, B : A = below(m) /\ B = below(o)
  OBVIOUS
<1>7. IsFiniteSet(A) /\ B \in SUBSET A /\ A # B
  BY <1>1, <1>5, <1>6
<1>8. Cardinality(B) <= Cardinality(A) /\ Cardinality(B) # Cardinality(A)
  BY <1>7, FS_Subset
<1>9. rank[m] = Cardinality(A) /\ rank[o] = Cardinality(B)
  BY <1>2, <1>6
<1> QED
  BY <1>3, <1>4, <1>8, <1>9

(***************************************************************************)
(* min() over tuples finds one of them                                     *)
(***************************************************************************)
Less(n, s, t) == \E i \in 1..n : s[i] < t[i] /\ \A j \in 1..(i-1) : s[j] = t[j]

LEMMA LessTransitive ==
    ASSUME NEW n \in Nat, NEW s \in [1..n -> Int], NEW t \in [1..n -> Int], NEW u \in [1..n -> Int],
           Less(n, s, t), Less(n, t, u)
    PROVE  Less(n, s, u)
<1>1. PICK i \in 1..n : s[i] < t[i] /\ \A k \in 1..(i-1) : s[k] = t[k]
  BY DEF Less
<1>2. PICK j \in 1..n : t[j] < u[j] /\ \A k \in 1..(j-1) : t[k] = u[k]
  BY DEF Less
<1>3. CASE i <= j
  <2>1. s[i] < u[i]
    <3>1. CASE i = j
      BY <1>1, <1>2, <3>1
    <3>2. CASE i < j
      <4>1. t[i] = u[i]
        BY <1>2, <3>2
      <4> QED
        BY <1>1, <4>1
    <3> QED
      BY <1>3, <3>1, <3>2
  <2>2. \A k \in 1..(i-1) : s[k] = u[k]
    BY <1>1, <1>2, <1>3
  <2> QED
    BY <2>1, <2>2 DEF Less
<1>4. CASE j < i
  <2>1. s[j] < u[j]
    BY <1>1, <1>2, <1>4
  <2>2. \A k \in 1..(j-1) : s[k] = u[k]
    BY <1>1, <1>2, <1>4
  <2> QED
    BY <2>1, <2>2 DEF Less
<1> QED
  BY <1>3, <1>4

LEMMA LessTotal ==
    ASSUME NEW n \in Nat, NEW s \in [1..n -> Int], NEW t \in [1..n -> Int]
    PROVE  s = t \/ Less(n, s, t) \/ Less(n, t, s)
<1>1. SUFFICES ASSUME s # t
               PROVE  Less(n, s, t) \/ Less(n, t, s)
  OBVIOUS
<1> DEFINE differ == {i \in 1..n : s[i] # t[i]}
<1>2. differ # {} /\ differ \subseteq Nat
  BY <1>1
<1>3. PICK i \in differ : \A j \in differ : i <= j
  <2> HIDE DEF differ
  <2> QED
    BY <1>2, LeastElement
<1>4. i \in 1..n /\ s[i] # t[i] /\ \A j \in 1..(i-1) : s[j] = t[j]
  <2>1. \A j \in 1..(i-1) : j \in 1..n /\ ~(i <= j)
    BY <1>3
  <2> QED
    BY <1>3, <2>1
<1>5. s[i] < t[i] \/ t[i] < s[i]
  BY <1>4
<1> QED
  BY <1>4, <1>5 DEF Less

LEMMA BestIsOne ==
    ASSUME NEW S, IsFiniteSet(S), S # {}, NEW key, NEW n \in Nat, \A m \in S : key[m] \in [1..n -> Int]
    PROVE  Best(S, key) \in S
<1> DEFINE less == {p \in S \X S : Less(n, key[p[1]], key[p[2]])}
<1>1. \A x \in S : <<x, x>> \notin less
  BY DEF Less
<1>2. \A x, y, z \in S : <<x, y>> \in less /\ <<y, z>> \in less => <<x, z>> \in less
  BY LessTransitive
<1>3. PICK m \in S : \A o \in S : <<o, m>> \notin less
  <2> HIDE DEF less
  <2> QED
    BY <1>1, <1>2, MinimalElement
<1>4. \A o \in S : Before(key[m], key[o])
  <2>1. SUFFICES ASSUME NEW o \in S
                 PROVE  Before(key[m], key[o])
    OBVIOUS
  <2>2. ~Less(n, key[o], key[m])
    BY <1>3
  <2>3. key[m] = key[o] \/ Less(n, key[m], key[o])
    BY <2>2, LessTotal
  <2>4. DOMAIN key[m] = 1..n
    OBVIOUS
  <2> QED
    BY <2>3, <2>4 DEF Before, Less
<1> QED
  BY <1>4 DEF Best

(***************************************************************************)
(* Medians are among the numbers                                           *)
(***************************************************************************)
Below(S, value, f) == {g \in S : value[g] < value[f]}
Upto(S, value, f)  == {g \in S : value[g] <= value[f]}

LEMMA Ranked ==
    ASSUME NEW S, IsFiniteSet(S), NEW value, \A f \in S : value[f] \in Int,
           NEW i \in 1..Cardinality(S)
    PROVE  \E f \in S : Cardinality(Below(S, value, f)) < i /\ i <= Cardinality(Upto(S, value, f))
<1> DEFINE below(f) == {g \in S : value[g] < value[f]}
           upto(f)  == {g \in S : value[g] <= value[f]}
           less     == {p \in S \X S : value[p[1]] < value[p[2]]}
           more     == {p \in S \X S : value[p[2]] < value[p[1]]}
<1>1. \A f \in S : /\ IsFiniteSet(below(f)) /\ Cardinality(below(f)) \in Nat
                   /\ IsFiniteSet(upto(f)) /\ Cardinality(upto(f)) \in Nat
  BY FS_Subset, FS_CardinalityType
<1>2. Cardinality(S) \in Nat
  BY FS_CardinalityType
<1>3. ASSUME NEW T \in SUBSET S, T # {}
      PROVE  \E f \in T : \A g \in T : value[g] <= value[f]
  <2>1. IsFiniteSet(T)
    BY FS_Subset
  <2>2. PICK f \in T : \A g \in T : <<g, f>> \notin more
    <3>1. \A x \in T : <<x, x>> \notin more
      OBVIOUS
    <3>2. \A x, y, z \in T : <<x, y>> \in more /\ <<y, z>> \in more => <<x, z>> \in more
      OBVIOUS
    <3> HIDE DEF more
    <3> QED
      BY <1>3, <2>1, <3>1, <3>2, MinimalElement
  <2>3. \A g \in T : g \in S /\ f \in S /\ ~(value[f] < value[g])
    BY <2>2
  <2>4. \A g \in T : value[g] \in Int /\ value[f] \in Int
    BY <2>3
  <2> QED
    BY <2>3, <2>4
<1>4. PICK U : U = {f \in S : i <= Cardinality(upto(f))}
  OBVIOUS
<1>5. U # {}
  <2>1. S # {}
    BY <1>2, FS_EmptySet
  <2>2. PICK f \in S : \A g \in S : value[g] <= value[f]
    BY <1>3, <2>1
  <2>3. upto(f) = S
    BY <2>2
  <2>4. f \in U
    BY <1>2, <1>4, <2>3
  <2> QED
    BY <2>4
<1>6. PICK f \in U : \A g \in U : <<g, f>> \notin less
  <2>1. IsFiniteSet(U)
    BY <1>4, FS_Subset
  <2>2. \A x \in U : <<x, x>> \notin less
    BY <1>4
  <2>3. \A x, y, z \in U : <<x, y>> \in less /\ <<y, z>> \in less => <<x, z>> \in less
    BY <1>4
  <2> HIDE DEF less
  <2> QED
    BY <1>5, <2>1, <2>2, <2>3, MinimalElement
<1>7. f \in S /\ i <= Cardinality(upto(f))
  BY <1>4
<1>8. Cardinality(below(f)) < i
  <2>1. SUFFICES ASSUME ~(Cardinality(below(f)) < i)
                 PROVE  FALSE
    OBVIOUS
  <2>2. i <= Cardinality(below(f)) /\ Cardinality(below(f)) # 0
    BY <1>1, <1>2, <1>7, <2>1
  <2>3. below(f) # {}
    BY <2>2, FS_EmptySet
  <2>4. PICK h \in below(f) : \A g \in below(f) : value[g] <= value[h]
    BY <1>3, <2>3
  <2>5. h \in S /\ value[h] < value[f] /\ below(f) \subseteq upto(h)
    BY <2>4
  <2>6. Cardinality(below(f)) <= Cardinality(upto(h))
    BY <1>1, <2>5, FS_Subset
  <2>7. h \in U
    BY <1>1, <1>4, <1>7, <2>2, <2>5, <2>6
  <2> QED
    BY <1>6, <1>7, <2>5, <2>7
<1> QED
  BY <1>7, <1>8 DEF Below, Upto

LEMMA MedianTyped ==
    ASSUME NEW S, IsFiniteSet(S), NEW value, \A f \in S : value[f] \in Int \cup {None}
    PROVE  Median(S, value) \in Int \cup {None}
<1> DEFINE known    == {f \in S : value[f] # None}
           n        == Cardinality(known)
           below(f) == Cardinality({g \in known : value[g] < value[f]})
           upto(f)  == Cardinality({g \in known : value[g] <= value[f]})
           nth(i)   == value[CHOOSE f \in known : below(f) < i /\ i <= upto(f)]
<1>1. Median(S, value) = IF n = 0 THEN None ELSE (nth((n + 1) \div 2) + nth((n \div 2) + 1)) \div 2
  BY DEF Median
<1>2. IsFiniteSet(known) /\ n \in Nat /\ \A f \in known : value[f] \in Int
  BY FS_Subset, FS_CardinalityType
<1>3. ASSUME NEW i \in 1..n
      PROVE  nth(i) \in Int
  <2>1. \E f \in known : below(f) < i /\ i <= upto(f)
    <3>1. PICK K : K = known
      OBVIOUS
    <3>2. IsFiniteSet(K) /\ (\A f \in K : value[f] \in Int) /\ i \in 1..Cardinality(K)
      BY <1>2, <1>3, <3>1
    <3>3. \E f \in K : Cardinality(Below(K, value, f)) < i /\ i <= Cardinality(Upto(K, value, f))
      BY <3>2, Ranked
    <3> QED
      BY <3>1, <3>3 DEF Below, Upto
  <2>2. PICK c : c = CHOOSE f \in known : below(f) < i /\ i <= upto(f)
    OBVIOUS
  <2>3. c \in known
    <3> HIDE DEF known, below, upto
    <3> QED
      BY <2>1, <2>2
  <2>4. nth(i) = value[c]
    BY <2>2
  <2> QED
    BY <1>2, <2>3, <2>4
<1>4. CASE n = 0
  BY <1>1, <1>4
<1>5. CASE n # 0
  <2>1. (n + 1) \div 2 \in 1..n /\ (n \div 2) + 1 \in 1..n
    <3> HIDE DEF n
    <3> QED
      BY <1>2, <1>5
  <2>2. PICK a, b : a = nth((n + 1) \div 2) /\ b = nth((n \div 2) + 1)
    OBVIOUS
  <2>3. a \in Int /\ b \in Int
    <3> HIDE DEF n, nth
    <3> QED
      BY <1>3, <2>1, <2>2
  <2>4. Median(S, value) = (a + b) \div 2
    <3> HIDE DEF n, nth
    <3> QED
      BY <1>1, <1>5, <2>2
  <2> QED
    BY <2>3, <2>4
<1> QED
  BY <1>4, <1>5

(***************************************************************************)
(* A match is one of the masters it was looked for in                      *)
(***************************************************************************)
\* What the order of preference looks at.
Ordered(m) == /\ m.temp \in Int \cup {None} /\ m.night \in Int /\ m.n \in Int /\ m.order \in Int
              /\ ~IsMiss(m)
Candidates(C) == IsFiniteSet(C) /\ \A m \in C : Ordered(m)

LEMMA Missed == \A kind : IsMiss(Miss(kind))
  BY DEF IsMiss, Miss

LEMMA MatchDarkIs ==
    ASSUME NEW C, Candidates(C), NEW need, need.temp \in Int \cup {None}
    PROVE  MatchDark(need, C) \in C \/ IsMiss(MatchDark(need, C))
<1> DEFINE zero(t) == IF t = None THEN 0 ELSE t
           key == [m \in C |-> <<IF Cooled THEN Abs(zero(m.temp) - zero(need.temp)) ELSE 0, -m.night, -m.n, m.order>>]
           fit == {m \in C : DarkFits(need, m)}
<1>1. MatchDark(need, C) = IF fit = {} THEN Miss("DARK_MISSING") ELSE Best(fit, key)
  BY DEF MatchDark, Chosen
<1>2. \A m \in fit : key[m] \in [1..4 -> Int]
  BY DEF Candidates, Ordered, Abs
<1>3. IsFiniteSet(fit) /\ fit \subseteq C
  BY FS_Subset DEF Candidates
<1>4. CASE fit = {}
  BY <1>1, <1>4, Missed
<1>5. CASE fit # {}
  <2>1. Best(fit, key) \in fit
    <3> HIDE DEF fit, key
    <3> QED
      BY <1>2, <1>3, <1>5, BestIsOne
  <2> QED
    BY <1>1, <1>3, <1>5, <2>1
<1> QED
  BY <1>4, <1>5

LEMMA MatchFlatIs ==
    ASSUME NEW C, Candidates(C), NEW need, need.night \in Int, NEW evs
    PROVE  MatchFlat(need, C, evs) \in C \/ IsMiss(MatchFlat(need, C, evs))
<1> DEFINE key == [m \in C |-> FlatPreference(need, m)]
           fit == {m \in C : FlatFits(need, m, evs)}
<1>1. MatchFlat(need, C, evs) = IF Rotator.present /\ need.pos = None THEN Miss("ROTATOR_POSITION_UNKNOWN")
                                ELSE IF fit = {} THEN Miss("FLAT_MISSING") ELSE Best(fit, key)
  BY DEF MatchFlat, Chosen
<1>2. ASSUME NEW m \in C
      PROVE  FlatPreference(need, m) \in [1..4 -> Int]
  <2> DEFINE age == Age(m, need)
             category == IF age = 0 THEN "same_night" ELSE IF age < 0 THEN "nearest_after" ELSE "nearest_before"
             ranks    == {i \in DOMAIN Rules.prefer : Rules.prefer[i] = category}
             first    == IF ranks = {} THEN Len(Rules.prefer) + 1 ELSE CHOOSE i \in ranks : \A j \in ranks : i <= j
  <2>1. FlatPreference(need, m) = <<first, Abs(age), -m.n, m.order>>
    BY DEF FlatPreference
  <2>2. Abs(age) \in Int /\ -m.n \in Int /\ m.order \in Int
    BY DEF Candidates, Ordered, Abs, Age
  <2>3. Len(Rules.prefer) \in Nat /\ DOMAIN Rules.prefer \subseteq Nat
    BY RulesTyped
  <2>4. first \in Int
    <3>1. CASE ranks = {}
      BY <2>3, <3>1
    <3>2. CASE ranks # {}
      <4>1. ranks \subseteq Nat
        BY <2>3
      <4>2. \E i \in ranks : \A j \in ranks : i <= j
        <5> HIDE DEF ranks
        <5> QED
          BY <3>2, <4>1, LeastElement
      <4> QED
        BY <3>2, <4>1, <4>2
    <3> QED
      BY <3>1, <3>2
  <2> HIDE DEF first, age
  <2> QED
    BY <2>1, <2>2, <2>4
<1>3. IsFiniteSet(fit) /\ fit \subseteq C
  BY FS_Subset DEF Candidates
<1>4. CASE (Rotator.present /\ need.pos = None) \/ fit = {}
  BY <1>1, <1>4, Missed
<1>5. CASE ~(Rotator.present /\ need.pos = None) /\ fit # {}
  <2>1. \A m \in fit : key[m] \in [1..4 -> Int]
    BY <1>2, <1>3
  <2>2. Best(fit, key) \in fit
    <3> HIDE DEF fit, key
    <3> QED
      BY <1>3, <1>5, <2>1, BestIsOne
  <2>3. MatchFlat(need, C, evs) = Best(fit, key)
    BY <1>1, <1>5
  <2> HIDE DEF key
  <2> QED
    BY <1>3, <2>2, <2>3
<1> QED
  BY <1>4, <1>5

(***************************************************************************)
(* Sequences, by their elements                                            *)
(***************************************************************************)
IsSeq(s) == \E S : s \in Seq(S)
OneOf(x, s) == \E i \in DOMAIN s : x = s[i]

LEMMA SeqIs ==
    ASSUME NEW s, IsSeq(s)
    PROVE  Len(s) \in Nat /\ DOMAIN s = 1..Len(s) /\ s = [i \in 1..Len(s) |-> s[i]]
BY DEF IsSeq

LEMMA MadeSeq ==
    ASSUME NEW n \in Nat, NEW f, f = [i \in 1..n |-> f[i]]
    PROVE  IsSeq(f) /\ Len(f) = n /\ DOMAIN f = 1..n
<1>1. f \in [1..n -> {f[i] : i \in 1..n}]
  OBVIOUS
<1>2. f \in Seq({f[i] : i \in 1..n})
  BY <1>1
<1>3. IsSeq(f)
  BY <1>2 DEF IsSeq
<1>4. DOMAIN f = 1..n
  BY <1>1
<1>5. Len(f) = n
  BY <1>2, <1>4
<1> QED
  BY <1>3, <1>4, <1>5

LEMMA AppendIs ==
    ASSUME NEW s, IsSeq(s), NEW e
    PROVE  /\ IsSeq(Append(s, e)) /\ DOMAIN Append(s, e) = 1..(Len(s) + 1) /\ Len(Append(s, e)) = Len(s) + 1
           /\ \A i \in 1..Len(s) : Append(s, e)[i] = s[i]
           /\ Append(s, e)[Len(s) + 1] = e
<1>1. PICK S : s \in Seq(S)
  BY DEF IsSeq
<1>2. s \in Seq(S \cup {e}) /\ e \in S \cup {e}
  BY <1>1
<1>3. Append(s, e) \in Seq(S \cup {e})
  BY <1>2
<1> QED
  BY <1>2, <1>3 DEF IsSeq

LEMMA ConcatIs ==
    ASSUME NEW s, IsSeq(s), NEW t, IsSeq(t), NEW c, c = s \o t
    PROVE  /\ IsSeq(c)
           /\ \A k \in DOMAIN c : OneOf(c[k], s) \/ OneOf(c[k], t)
<1>1. PICK S, T : s \in Seq(S) /\ t \in Seq(T)
  BY DEF IsSeq
<1>2. s \in Seq(S \cup T) /\ t \in Seq(S \cup T)
  BY <1>1
<1>3. /\ c \in Seq(S \cup T) /\ Len(c) = Len(s) + Len(t)
      /\ \A i \in 1..(Len(s) + Len(t)) : c[i] = IF i <= Len(s) THEN s[i] ELSE t[i - Len(s)]
  BY <1>2, ConcatProperties
<1>4. ASSUME NEW k \in DOMAIN c
      PROVE  OneOf(c[k], s) \/ OneOf(c[k], t)
  <2>1. k \in 1..(Len(s) + Len(t)) /\ Len(s) \in Nat /\ Len(t) \in Nat /\ DOMAIN s = 1..Len(s) /\ DOMAIN t = 1..Len(t)
    BY <1>2, <1>3
  <2>2. CASE k <= Len(s)
    BY <1>3, <2>1, <2>2 DEF OneOf
  <2>3. CASE ~(k <= Len(s))
    <3>1. k - Len(s) \in DOMAIN t /\ c[k] = t[k - Len(s)]
      BY <1>3, <2>1, <2>3
    <3> QED
      BY <3>1 DEF OneOf
  <2> QED
    BY <2>2, <2>3
<1> QED
  BY <1>3, <1>4 DEF IsSeq

LEMMA SetToSeqIs ==
    ASSUME NEW S, IsFiniteSet(S)
    PROVE  IsSeq(SetToSeq(S)) /\ \A k \in DOMAIN SetToSeq(S) : SetToSeq(S)[k] \in S
<1>1. Cardinality(S) \in Nat /\ ExistsBijection(1..Cardinality(S), S)
  BY FS_CardinalityType
<1>2. \E f \in [1..Cardinality(S) -> S] : IsInjective(f)
  BY <1>1 DEF ExistsBijection, Bijection, Injection
<1>3. PICK f : f = SetToSeq(S)
  OBVIOUS
<1>4. f \in [1..Cardinality(S) -> S]
  BY <1>2, <1>3 DEF SetToSeq
<1>5. IsSeq(f)
  BY <1>1, <1>4, MadeSeq
<1> QED
  BY <1>3, <1>4, <1>5

\* The fold of a sequence of sequences, turn by turn.
LEMMA FlattenSeqIs ==
    ASSUME NEW ss, IsSeq(ss), \A i \in DOMAIN ss : IsSeq(ss[i])
    PROVE  /\ IsSeq(FlattenSeq(ss))
           /\ \A k \in DOMAIN FlattenSeq(ss) : \E i \in DOMAIN ss : \E j \in DOMAIN ss[i] : FlattenSeq(ss)[k] = ss[i][j]
<1>1. Len(ss) \in Nat /\ DOMAIN ss = 1..Len(ss)
  BY SeqIs
<1>2. CASE Len(ss) = 0
  <2>1. FlattenSeq(ss) = ss
    BY <1>2 DEF FlattenSeq
  <2> QED
    BY <1>1, <1>2, <2>1
<1>3. CASE Len(ss) # 0
  <2> DEFINE Is(g, k) == g = [i \in 1..k |-> IF i = 1 THEN ss[i] ELSE g[i-1] \o ss[i]]
  <2>1. \E g : Is(g, Len(ss))
    <3> DEFINE good == {k \in Nat : \E g : Is(g, k)}
    <3>1. 0 \in good
      <4>1. Is([i \in 1..0 |-> <<>>], 0)
        OBVIOUS
      <4> QED
        BY <4>1
    <3>2. ASSUME NEW k \in 1..Len(ss), k - 1 \in good
          PROVE  k \in good
      <4>1. PICK g : Is(g, k - 1)
        BY <3>2
      <4> DEFINE h == [i \in 1..k |-> IF i = k THEN IF i = 1 THEN ss[i] ELSE g[i-1] \o ss[i] ELSE g[i]]
      <4>4. \A i \in 1..k : i # 1 => i - 1 \in 1..(k-1) /\ h[i-1] = g[i-1]
        BY <1>1, <3>2
      <4>5. \A i \in 1..k : h[i] = IF i = 1 THEN ss[i] ELSE h[i-1] \o ss[i]
        <5>1. SUFFICES ASSUME NEW i \in 1..k
                       PROVE  h[i] = IF i = 1 THEN ss[i] ELSE h[i-1] \o ss[i]
          OBVIOUS
        <5>2. CASE i = k
          BY <4>4, <5>2
        <5>3. CASE i # k
          <6>1. i \in 1..(k-1) /\ h[i] = g[i]
            BY <1>1, <3>2, <5>3
          <6>2. g[i] = IF i = 1 THEN ss[i] ELSE g[i-1] \o ss[i]
            BY <4>1, <6>1
          <6> QED
            BY <4>4, <6>1, <6>2
        <5> QED
          BY <5>2, <5>3
      <4>2. Is(h, k)
        BY <4>5
      <4>3. k \in Nat
        BY <1>1, <3>2
      <4> QED
        BY <4>2, <4>3
    <3> HIDE DEF good
    <3>3. \A k \in 0..Len(ss) : k \in good
      BY <1>1, <3>1, <3>2, UpTo
    <3>4. Len(ss) \in good
      BY <1>1, <3>3
    <3> QED
      BY <3>4 DEF good
  <2>2. PICK g : g = CHOOSE f : Is(f, Len(ss))
    BY Zenon
  <2>3. Is(g, Len(ss))
    BY <2>1, <2>2, Zenon
  <2>4. FlattenSeq(ss) = g[Len(ss)]
    BY <1>3, <2>2 DEF FlattenSeq
  <2> DEFINE From(s) == IsSeq(s) /\ \A k \in DOMAIN s : \E i \in DOMAIN ss : \E j \in DOMAIN ss[i] : s[k] = ss[i][j]
             fine == {0} \cup {k \in 1..Len(ss) : From(g[k])}
  <2>5. ASSUME NEW k \in 1..Len(ss), k - 1 \in fine
        PROVE  k \in fine
    <3>1. From(ss[k])
      BY <1>1
    <3>2. CASE k = 1
      BY <1>1, <2>3, <3>1, <3>2
    <3>3. CASE k # 1
      <4>1. PICK s : s = g[k-1]
        OBVIOUS
      <4>2a. k - 1 \in 1..Len(ss) /\ k - 1 # 0
        BY <1>1, <3>3
      <4>2b. g[k] = g[k-1] \o ss[k]
        BY <2>3, <3>3
      <4>2. From(s) /\ g[k] = s \o ss[k]
        BY <2>5, <4>1, <4>2a, <4>2b
      <4>3. IsSeq(ss[k])
        BY <1>1
      <4>4. PICK t : t = s \o ss[k]
        OBVIOUS
      <4>5. IsSeq(t) /\ \A i \in DOMAIN t : OneOf(t[i], s) \/ OneOf(t[i], ss[k])
        <5>1. PICK u : u = ss[k]
          OBVIOUS
        <5>2. IsSeq(s) /\ IsSeq(u)
          BY <4>2, <4>3, <5>1
        <5>3. t = s \o u
          BY <4>4, <5>1
        <5>5. IsSeq(t) /\ \A i \in DOMAIN t : OneOf(t[i], s) \/ OneOf(t[i], u)
          BY <5>2, <5>3, ConcatIs
        <5> QED
          BY <5>1, <5>5
      <4>6. From(t)
        BY <3>1, <4>2, <4>5 DEF OneOf
      <4> HIDE DEF From
      <4>7. From(g[k])
        BY <4>2, <4>4, <4>6
      <4> QED
        BY <4>7
    <3> QED
      BY <3>2, <3>3
  <2>6. Len(ss) \in fine
    <3>1. 0 \in fine
      OBVIOUS
    <3> HIDE DEF fine
    <3>2. \A k \in 0..Len(ss) : k \in fine
      BY <1>1, <2>5, <3>1, UpTo
    <3> QED
      BY <1>1, <3>2
  <2> QED
    BY <1>1, <1>3, <2>4, <2>6
<1> QED
  BY <1>2, <1>3

LEMMA FiniteImage ==
    ASSUME NEW S, IsFiniteSet(S), NEW f
    PROVE  IsFiniteSet({f[x] : x \in S})
<1> DEFINE T == {f[x] : x \in S}
<1>1. PICK g : g = [x \in S |-> f[x]]
  OBVIOUS
<1>2. g \in Surjection(S, T)
  BY <1>1 DEF Surjection
<1> HIDE DEF T
<1>3. IsFiniteSet(T)
  BY <1>2, FS_Surjection
<1> QED
  BY <1>3 DEF T

(***************************************************************************)
(* What a plan is made of                                                  *)
(***************************************************************************)
NoneApart == {"kind", "sha", "job"} \cap DOMAIN None = {}     \* None is no record

IsRef(r)    == r = None \/ r = [sha |-> r.sha] \/ r = [job |-> r.job]
IsJobRef(r) == r # None /\ "job" \in DOMAIN r

GroupOk(g) == /\ g = [lights |-> g.lights, dark |-> g.dark, flat |-> g.flat, forced |-> g.forced]
              /\ IsRef(g.dark) /\ IsRef(g.flat)
StackOk(p) == /\ p = [kind |-> "NIGHT_STACK", stack |-> p.stack, target |-> p.target, night |-> p.night, filter |-> p.filter,
                      version |-> p.version, groups |-> p.groups, reference |-> p.reference]
              /\ IsRef(p.reference) /\ \A g \in p.groups : GroupOk(g)

MasterFields == {"kind", "rig", "filter", "sensor", "size", "pos", "exposure", "temp", "focal", "night", "n", "at"}
MasterTyped(m) == m.temp \in Int \cup {None} /\ m.night \in Int /\ m.n \in Int
CalibOk(p) == /\ DOMAIN p = {"kind", "master", "inputs", "with", "night"} /\ p.kind = "CALIB_MASTER"
              /\ DOMAIN p.master = MasterFields /\ MasterTyped(p.master)
              /\ p.inputs # {} /\ \A f \in p.inputs : f \in Frame /\ ~IsLight(f)
ReferenceOk(p) == /\ DOMAIN p = {"kind", "target", "night", "version", "groups"} /\ p.kind = "PROJECT_REFERENCE"
                  /\ p.target \in Target /\ p.version \in Int
PlanIs(p) == StackOk(p) \/ CalibOk(p) \/ ReferenceOk(p)

LEMMA KindIs ==
    ASSUME NoneApart, NEW p, PlanIs(p)
    PROVE  /\ p.kind = "NIGHT_STACK" <=> StackOk(p)
           /\ p.kind = "CALIB_MASTER" <=> CalibOk(p)
           /\ p.kind = "PROJECT_REFERENCE" <=> ReferenceOk(p)
           /\ "kind" \in DOMAIN p /\ p # None
<1>1. StackOk(p) => p.kind = "NIGHT_STACK" /\ "kind" \in DOMAIN p
  BY DEF StackOk
<1>2. CalibOk(p) => p.kind = "CALIB_MASTER" /\ "kind" \in DOMAIN p
  BY DEF CalibOk
<1>3. ReferenceOk(p) => p.kind = "PROJECT_REFERENCE" /\ "kind" \in DOMAIN p
  BY DEF ReferenceOk
<1> QED
  BY <1>1, <1>2, <1>3 DEF PlanIs, NoneApart

\* The jobs that built what a reference names, in a list of jobs.
BuiltIn(js, r) == {i \in DOMAIN js : js[i].plan = r.job /\ js[i].status = "succeeded"}
FixedIn(js, r) == IF IsJobRef(r) /\ BuiltIn(js, r) # {} THEN [sha |-> CHOOSE i \in BuiltIn(js, r) : TRUE] ELSE r

\* What a stack is made of, when its references are looked up in a list of jobs.
FullGroup(js, g) == [g EXCEPT !.dark = FixedIn(js, g.dark), !.flat = FixedIn(js, g.flat)]
FullIn(js, p)    == [p EXCEPT !.groups = {FullGroup(js, g) : g \in p.groups}, !.reference = FixedIn(js, p.reference)]

NoJobs(p)       == \A r \in Refs(p) : ~IsJobRef(r)
AllBuilt(js, p) == \A r \in Refs(p) : IsJobRef(r) => BuiltIn(js, r) # {}
\* Nothing that it waits for was built yet.
NoneBuilt(js, p) == \A r \in Refs(p) : IsJobRef(r) => BuiltIn(js, r) = {}
\* What it names by its hash is the product of a job that succeeded, or of none.
ShasMade(js, p) == \A r \in Refs(p) : r # None /\ ~IsJobRef(r) /\ r.sha \in Nat => r.sha \in DOMAIN js /\ js[r.sha].status = "succeeded"

LEMMA RefsOfStack ==
    ASSUME NEW p, StackOk(p)
    PROVE  /\ Refs(p) = GroupRefs(p.groups) \cup {p.reference}
           /\ p.reference \in Refs(p)
           /\ \A g \in p.groups : g.dark \in Refs(p) /\ g.flat \in Refs(p)
           /\ \A r \in Refs(p) : IsRef(r)
<1>1. p.kind = "NIGHT_STACK"
  BY DEF StackOk
<1>2. Refs(p) = GroupRefs(p.groups) \cup {p.reference}
  BY <1>1 DEF Refs
<1> QED
  BY <1>2 DEF GroupRefs, StackOk, GroupOk

LEMMA FixedIs ==
    ASSUME NEW js, NEW r, IsRef(r)
    PROVE  IsRef(FixedIn(js, r))
BY DEF IsRef, FixedIn

LEMMA FullGroupIs ==
    ASSUME NEW js, NEW g, GroupOk(g)
    PROVE  /\ FullGroup(js, g) = [lights |-> g.lights, dark |-> FixedIn(js, g.dark), flat |-> FixedIn(js, g.flat), forced |-> g.forced]
           /\ GroupOk(FullGroup(js, g))
<1>1. FullGroup(js, g) = [lights |-> g.lights, dark |-> FixedIn(js, g.dark), flat |-> FixedIn(js, g.flat), forced |-> g.forced]
  <2>1. PICK l, d, f, x : g = [lights |-> l, dark |-> d, flat |-> f, forced |-> x]
    BY DEF GroupOk
  <2>2. PICK a, b : a = FixedIn(js, g.dark) /\ b = FixedIn(js, g.flat)
    OBVIOUS
  <2>3. FullGroup(js, g) = [g EXCEPT !.dark = a, !.flat = b]
    BY <2>2 DEF FullGroup
  <2>4. [g EXCEPT !.dark = a, !.flat = b] = [lights |-> l, dark |-> a, flat |-> b, forced |-> x]
    <3>1. PICK e : e = [g EXCEPT !.dark = a, !.flat = b]
      OBVIOUS
    <3>2. DOMAIN g = {"lights", "dark", "flat", "forced"}
      BY <2>1
    <3>3. e = [y \in {"lights", "dark", "flat", "forced"} |-> e[y]]
      BY <3>1, <3>2
    <3>4. e["lights"] = l /\ e["dark"] = a /\ e["flat"] = b /\ e["forced"] = x
      BY <2>1, <3>1, <3>2
    <3>5. e = [lights |-> l, dark |-> a, flat |-> b, forced |-> x]
      BY <3>3, <3>4
    <3> QED
      BY <3>1, <3>5
  <2>5. g.lights = l /\ g.forced = x
    BY <2>1
  <2> QED
    BY <2>2, <2>3, <2>4, <2>5
<1>2. IsRef(FixedIn(js, g.dark)) /\ IsRef(FixedIn(js, g.flat))
  BY FixedIs DEF GroupOk
<1> QED
  BY <1>1, <1>2 DEF GroupOk

LEMMA FullIs ==
    ASSUME NEW js, NEW p, StackOk(p)
    PROVE  /\ FullIn(js, p) = [kind |-> "NIGHT_STACK", stack |-> p.stack, target |-> p.target, night |-> p.night, filter |-> p.filter,
                               version |-> p.version, groups |-> {FullGroup(js, g) : g \in p.groups}, reference |-> FixedIn(js, p.reference)]
           /\ StackOk(FullIn(js, p))
<1>1. PICK G : G = {FullGroup(js, g) : g \in p.groups}
  OBVIOUS
<1>2. FullIn(js, p) = [kind |-> "NIGHT_STACK", stack |-> p.stack, target |-> p.target, night |-> p.night, filter |-> p.filter,
                       version |-> p.version, groups |-> G, reference |-> FixedIn(js, p.reference)]
  <2>1. PICK s, t, n, f, v, gs, r : p = [kind |-> "NIGHT_STACK", stack |-> s, target |-> t, night |-> n, filter |-> f,
                                         version |-> v, groups |-> gs, reference |-> r]
    BY DEF StackOk
  <2>2. PICK R : R = FixedIn(js, p.reference)
    OBVIOUS
  <2>3. FullIn(js, p) = [p EXCEPT !.groups = G, !.reference = R]
    BY <1>1, <2>2 DEF FullIn
  <2>4. [p EXCEPT !.groups = G, !.reference = R] = [kind |-> "NIGHT_STACK", stack |-> s, target |-> t, night |-> n, filter |-> f,
                                                    version |-> v, groups |-> G, reference |-> R]
    <3> DEFINE D == {"kind", "stack", "target", "night", "filter", "version", "groups", "reference"}
    <3>1. PICK e : e = [p EXCEPT !.groups = G, !.reference = R]
      OBVIOUS
    <3>2. DOMAIN p = D
      BY <2>1
    <3>3. e = [y \in D |-> e[y]]
      BY <3>1, <3>2
    <3>4. /\ e["kind"] = "NIGHT_STACK" /\ e["stack"] = s /\ e["target"] = t /\ e["night"] = n
          /\ e["filter"] = f /\ e["version"] = v /\ e["groups"] = G /\ e["reference"] = R
      BY <2>1, <3>1, <3>2
    <3>5. e = [kind |-> "NIGHT_STACK", stack |-> s, target |-> t, night |-> n, filter |-> f, version |-> v, groups |-> G, reference |-> R]
      BY <3>3, <3>4
    <3> QED
      BY <3>1, <3>5
  <2>5. p.stack = s /\ p.target = t /\ p.night = n /\ p.filter = f /\ p.version = v
    BY <2>1
  <2> QED
    BY <2>2, <2>3, <2>4, <2>5
<1>3. IsRef(FixedIn(js, p.reference)) /\ \A g \in G : GroupOk(g)
  BY <1>1, FixedIs, FullGroupIs DEF StackOk
<1>4. StackOk(FullIn(js, p))
  BY <1>2, <1>3 DEF StackOk
<1> QED
  BY <1>1, <1>2, <1>4

LEMMA FullOfNoneBuilt ==
    ASSUME NEW js, NEW p, StackOk(p), NoneBuilt(js, p)
    PROVE  FullIn(js, p) = p
<1>1. \A r \in Refs(p) : FixedIn(js, r) = r
  BY DEF NoneBuilt, FixedIn
<1>2. ASSUME NEW g \in p.groups
      PROVE  FullGroup(js, g) = g
  <2>1. GroupOk(g) /\ FixedIn(js, g.dark) = g.dark /\ FixedIn(js, g.flat) = g.flat
    BY <1>1, RefsOfStack DEF StackOk
  <2>2. FullGroup(js, g) = [lights |-> g.lights, dark |-> g.dark, flat |-> g.flat, forced |-> g.forced]
    BY <2>1, FullGroupIs
  <2> QED
    BY <2>1, <2>2 DEF GroupOk
<1>3. {FullGroup(js, g) : g \in p.groups} = p.groups
  BY <1>2
<1>4. FixedIn(js, p.reference) = p.reference
  BY <1>1, RefsOfStack
<1>5. FullIn(js, p) = [kind |-> "NIGHT_STACK", stack |-> p.stack, target |-> p.target, night |-> p.night, filter |-> p.filter,
                       version |-> p.version, groups |-> p.groups, reference |-> p.reference]
  BY <1>3, <1>4, FullIs
<1> QED
  BY <1>5 DEF StackOk

LEMMA FullHasNoJobs ==
    ASSUME NEW js, NEW p, StackOk(p), AllBuilt(js, p)
    PROVE  NoJobs(FullIn(js, p))
<1>1. \A r \in Refs(p) : ~IsJobRef(FixedIn(js, r))
  BY DEF AllBuilt, FixedIn, IsJobRef
<1>2. PICK q : q = FullIn(js, p)
  OBVIOUS
<1>3. StackOk(q) /\ q.reference = FixedIn(js, p.reference) /\ q.groups = {FullGroup(js, g) : g \in p.groups}
  BY <1>2, FullIs
<1>4. ASSUME NEW h \in q.groups
      PROVE  ~IsJobRef(h.dark) /\ ~IsJobRef(h.flat)
  <2>1. PICK g \in p.groups : h = FullGroup(js, g)
    BY <1>3
  <2>2. h.dark = FixedIn(js, g.dark) /\ h.flat = FixedIn(js, g.flat)
    BY <2>1, FullGroupIs DEF StackOk
  <2> QED
    BY <1>1, <2>2, RefsOfStack
<1>5. ~IsJobRef(q.reference)
  BY <1>1, <1>3, RefsOfStack
<1>6. Refs(q) = GroupRefs(q.groups) \cup {q.reference}
  BY <1>3, RefsOfStack
<1>7. NoJobs(q)
  BY <1>4, <1>5, <1>6 DEF NoJobs, GroupRefs
<1> QED
  BY <1>2, <1>7

LEMMA SameFull ==
    ASSUME NEW js, NEW us, NEW p, StackOk(p), \A r \in Refs(p) : BuiltIn(us, r) = BuiltIn(js, r)
    PROVE  FullIn(us, p) = FullIn(js, p)
<1>1. \A r \in Refs(p) : FixedIn(us, r) = FixedIn(js, r)
  BY DEF FixedIn
<1>2. \A g \in p.groups : FullGroup(us, g) = FullGroup(js, g)
  BY <1>1, RefsOfStack, FullGroupIs DEF StackOk
<1>3. {FullGroup(us, g) : g \in p.groups} = {FullGroup(js, g) : g \in p.groups}
  BY <1>2
<1>4. FixedIn(us, p.reference) = FixedIn(js, p.reference)
  BY <1>1, RefsOfStack
<1> QED
  BY <1>3, <1>4 DEF FullIn

\* Two stacks that are the same afterwards were the same before, when no two references became one.
ToldApart(js, us, p, q) ==
    \A r \in Refs(p) : \A s \in Refs(q) : FixedIn(us, r) = FixedIn(us, s) => FixedIn(js, r) = FixedIn(js, s)

LEMMA FullEqual ==
    ASSUME NEW js, NEW us, NEW p, NEW q, StackOk(p), StackOk(q), ToldApart(js, us, p, q),
           FullIn(us, p) = FullIn(us, q)
    PROVE  FullIn(js, p) = FullIn(js, q)
<1>1. /\ p.stack = q.stack /\ p.target = q.target /\ p.night = q.night /\ p.filter = q.filter /\ p.version = q.version
      /\ FixedIn(us, p.reference) = FixedIn(us, q.reference)
      /\ {FullGroup(us, g) : g \in p.groups} = {FullGroup(us, g) : g \in q.groups}
  <2>1. PICK x, y : x = FullIn(us, p) /\ y = FullIn(us, q)
    OBVIOUS
  <2>2. /\ x.stack = p.stack /\ x.target = p.target /\ x.night = p.night /\ x.filter = p.filter /\ x.version = p.version
        /\ x.reference = FixedIn(us, p.reference) /\ x.groups = {FullGroup(us, g) : g \in p.groups}
    BY <2>1, FullIs
  <2>3. /\ y.stack = q.stack /\ y.target = q.target /\ y.night = q.night /\ y.filter = q.filter /\ y.version = q.version
        /\ y.reference = FixedIn(us, q.reference) /\ y.groups = {FullGroup(us, g) : g \in q.groups}
    BY <2>1, FullIs
  <2> QED
    BY <2>1, <2>2, <2>3
<1>2. FixedIn(js, p.reference) = FixedIn(js, q.reference)
  BY <1>1, RefsOfStack DEF ToldApart
<1>3. ASSUME NEW g \in p.groups, NEW h \in q.groups, FullGroup(us, g) = FullGroup(us, h)
      PROVE  FullGroup(js, g) = FullGroup(js, h)
  <2>1. GroupOk(g) /\ GroupOk(h)
    BY DEF StackOk
  <2>2. PICK x, y : x = FullGroup(us, g) /\ y = FullGroup(us, h)
    OBVIOUS
  <2>3. /\ x.lights = g.lights /\ x.dark = FixedIn(us, g.dark) /\ x.flat = FixedIn(us, g.flat) /\ x.forced = g.forced
        /\ y.lights = h.lights /\ y.dark = FixedIn(us, h.dark) /\ y.flat = FixedIn(us, h.flat) /\ y.forced = h.forced
    BY <2>1, <2>2, FullGroupIs
  <2>4. g.dark \in Refs(p) /\ g.flat \in Refs(p) /\ h.dark \in Refs(q) /\ h.flat \in Refs(q)
    BY RefsOfStack
  <2>5. FixedIn(js, g.dark) = FixedIn(js, h.dark) /\ FixedIn(js, g.flat) = FixedIn(js, h.flat) /\ g.lights = h.lights /\ g.forced = h.forced
    BY <1>3, <2>2, <2>3, <2>4 DEF ToldApart
  <2> QED
    BY <2>1, <2>5, FullGroupIs
<1>4. {FullGroup(js, g) : g \in p.groups} = {FullGroup(js, h) : h \in q.groups}
  <2>1. ASSUME NEW g \in p.groups
        PROVE  \E h \in q.groups : FullGroup(js, g) = FullGroup(js, h)
    <3>1. PICK h \in q.groups : FullGroup(us, g) = FullGroup(us, h)
      BY <1>1
    <3> QED
      BY <1>3, <3>1
  <2>2. ASSUME NEW h \in q.groups
        PROVE  \E g \in p.groups : FullGroup(js, g) = FullGroup(js, h)
    <3>1. PICK g \in p.groups : FullGroup(us, g) = FullGroup(us, h)
      BY <1>1
    <3> QED
      BY <1>3, <3>1
  <2> QED
    BY <2>1, <2>2
<1>5. PICK A, B : A = {FullGroup(js, g) : g \in p.groups} /\ B = {FullGroup(js, g) : g \in q.groups}
  OBVIOUS
<1>6. FullIn(js, p) = [kind |-> "NIGHT_STACK", stack |-> p.stack, target |-> p.target, night |-> p.night, filter |-> p.filter,
                       version |-> p.version, groups |-> A, reference |-> FixedIn(js, p.reference)]
  BY <1>5, FullIs
<1>7. FullIn(js, q) = [kind |-> "NIGHT_STACK", stack |-> q.stack, target |-> q.target, night |-> q.night, filter |-> q.filter,
                       version |-> q.version, groups |-> B, reference |-> FixedIn(js, q.reference)]
  BY <1>5, FullIs
<1>8. A = B
  BY <1>4, <1>5
<1> QED
  BY <1>1, <1>2, <1>6, <1>7, <1>8

(***************************************************************************)
(* What holds of a list of jobs                                            *)
(***************************************************************************)
Statuses == DEAD \cup Waiting \cup {"running", "succeeded"}
RowOk(j) == /\ DOMAIN j = {"plan", "depends", "status", "resolved"} /\ j.status \in Statuses /\ PlanIs(j.plan)
            /\ j.resolved # None => j.resolved.kind = j.plan.kind

\* What became of a stack's plan when it ran.
StackRow(js, j) == /\ ShasMade(js, j.plan)
                   /\ j.resolved # None => j.resolved = FullIn(js, j.plan) /\ AllBuilt(js, j.plan)
                   /\ j.status \in {"running", "succeeded", "failed"} => j.resolved # None \/ NoJobs(j.plan)

\* A stack that was put aside before it ran, for one that names what it waited for.
Gone(js, i) == js[i].status = "superseded" /\ js[i].resolved = None /\ ~NoneBuilt(js, js[i].plan)
Apart(js)   == \A i, j \in DOMAIN js : /\ i # j /\ StackOk(js[i].plan) /\ StackOk(js[j].plan)
                                       /\ FullIn(js, js[i].plan) = FullIn(js, js[j].plan)
                                       => Gone(js, i) \/ Gone(js, j)
Unique(js)  == \A i, j \in DOMAIN js : js[i].plan = js[j].plan => i = j

ListOk(js) == /\ IsSeq(js) /\ Unique(js) /\ Apart(js)
              /\ \A i \in DOMAIN js : RowOk(js[i]) /\ (StackOk(js[i].plan) => StackRow(js, js[i]))

\* The same jobs have built what there is.
SameBuilt(js, us) == \A r : BuiltIn(us, r) = BuiltIn(js, r)

\* What a row may become while nothing is built and nothing put aside comes back.
RowKept(js, us, i) ==
    /\ us[i].plan = js[i].plan /\ RowOk(us[i])
    /\ us[i].status = "succeeded" <=> js[i].status = "succeeded"
    /\ StackOk(js[i].plan) /\ Gone(js, i) => us[i].status = "superseded" /\ us[i].resolved = None
    /\ StackOk(js[i].plan) =>
          /\ us[i].resolved # None => us[i].resolved = FullIn(js, js[i].plan) /\ AllBuilt(js, js[i].plan)
          /\ us[i].status \in {"running", "succeeded", "failed"} => us[i].resolved # None \/ NoJobs(js[i].plan)

\* The list then stays as it should be.
LEMMA ListKept ==
    ASSUME NEW js, NEW us, ListOk(js), IsSeq(us), DOMAIN us = DOMAIN js,
           \A i \in DOMAIN js : RowKept(js, us, i)
    PROVE  ListOk(us) /\ SameBuilt(js, us)
<1> USE DEF RowKept
<1>1. \A r : BuiltIn(us, r) = BuiltIn(js, r)
  BY DEF BuiltIn
<1>2. Unique(us)
  BY DEF Unique, ListOk
<1>3. \A p : /\ NoneBuilt(us, p) <=> NoneBuilt(js, p)
             /\ AllBuilt(us, p) <=> AllBuilt(js, p)
             /\ ShasMade(us, p) <=> ShasMade(js, p)
  <2>1. ASSUME NEW p
        PROVE  /\ NoneBuilt(us, p) <=> NoneBuilt(js, p)
               /\ AllBuilt(us, p) <=> AllBuilt(js, p)
    BY <1>1 DEF NoneBuilt, AllBuilt
  <2>2. ASSUME NEW p
        PROVE  ShasMade(us, p) <=> ShasMade(js, p)
    BY DEF ShasMade
  <2> QED
    BY <2>1, <2>2
<1>4. \A i \in DOMAIN js : StackOk(js[i].plan) => FullIn(us, js[i].plan) = FullIn(js, js[i].plan)
  BY <1>1, SameFull
<1>5. \A i \in DOMAIN js : StackOk(js[i].plan) /\ Gone(js, i) => Gone(us, i)
  BY <1>3 DEF Gone
<1>6. Apart(us)
  <2>1. SUFFICES ASSUME NEW i \in DOMAIN us, NEW j \in DOMAIN us, i # j, StackOk(us[i].plan), StackOk(us[j].plan),
                        FullIn(us, us[i].plan) = FullIn(us, us[j].plan)
                 PROVE  Gone(us, i) \/ Gone(us, j)
    BY DEF Apart
  <2>2. FullIn(js, js[i].plan) = FullIn(js, js[j].plan) /\ StackOk(js[i].plan) /\ StackOk(js[j].plan)
    BY <1>4, <2>1
  <2>3. Gone(js, i) \/ Gone(js, j)
    BY <2>1, <2>2 DEF ListOk, Apart
  <2> QED
    BY <1>5, <2>1, <2>2, <2>3
<1>7. ASSUME NEW i \in DOMAIN us, StackOk(us[i].plan)
      PROVE  StackRow(us, us[i])
  <2>1. us[i].plan = js[i].plan /\ StackOk(js[i].plan) /\ ShasMade(js, js[i].plan)
    BY <1>7 DEF ListOk, StackRow
  <2> QED
    BY <1>3, <1>4, <2>1 DEF StackRow
<1> QED
  BY <1>1, <1>2, <1>6, <1>7 DEF ListOk, SameBuilt

\* A new job at the end.
Addable(js, p) == /\ NoneBuilt(js, p) /\ ShasMade(js, p)
                  /\ \A i \in DOMAIN js : StackOk(js[i].plan) /\ FullIn(js, js[i].plan) = p => Gone(js, i)

Added(js, entry, us) == /\ IsSeq(us) /\ DOMAIN us = DOMAIN js \cup {Len(js) + 1} /\ Len(js) + 1 \notin DOMAIN js
                        /\ (\A i \in DOMAIN js : us[i] = js[i]) /\ us[Len(js) + 1] = entry
NewPlan(js, p) == \A i \in DOMAIN js : js[i].plan # p
NewRow(js, entry) == /\ RowOk(entry) /\ entry.status = "queued" /\ entry.resolved = None
                     /\ NewPlan(js, entry.plan) /\ (StackOk(entry.plan) => Addable(js, entry.plan))

LEMMA AppendAdds ==
    ASSUME NEW js, IsSeq(js), NEW entry
    PROVE  Added(js, entry, Append(js, entry))
<1>1. Len(js) \in Nat /\ DOMAIN js = 1..Len(js)
  BY SeqIs
<1>2. DOMAIN js \cup {Len(js) + 1} = 1..(Len(js) + 1) /\ Len(js) + 1 \notin DOMAIN js
  BY <1>1
<1>3. /\ IsSeq(Append(js, entry)) /\ DOMAIN Append(js, entry) = 1..(Len(js) + 1)
      /\ \A i \in 1..Len(js) : Append(js, entry)[i] = js[i]
      /\ Append(js, entry)[Len(js) + 1] = entry
  BY AppendIs
<1> QED
  BY <1>1, <1>2, <1>3 DEF Added

LEMMA ListAppended ==
    ASSUME NEW js, ListOk(js), NEW entry, NewRow(js, entry), NEW us, Added(js, entry, us)
    PROVE  ListOk(us) /\ SameBuilt(js, us)
<1> USE DEF NewRow
<1>1. /\ IsSeq(us) /\ DOMAIN us = DOMAIN js \cup {Len(js) + 1} /\ Len(js) + 1 \notin DOMAIN js
      /\ (\A i \in DOMAIN js : us[i] = js[i]) /\ us[Len(js) + 1] = entry
  BY DEF Added
<1>2. \A r : BuiltIn(us, r) = BuiltIn(js, r)
  BY <1>1 DEF BuiltIn
<1>3. Unique(us)
  BY <1>1 DEF Unique, ListOk, NewPlan
<1>4. ASSUME NEW p
      PROVE  /\ NoneBuilt(us, p) <=> NoneBuilt(js, p)
             /\ AllBuilt(us, p) <=> AllBuilt(js, p)
             /\ ShasMade(js, p) => ShasMade(us, p)
             /\ StackOk(p) => FullIn(us, p) = FullIn(js, p)
  <2>1. (NoneBuilt(us, p) <=> NoneBuilt(js, p)) /\ (AllBuilt(us, p) <=> AllBuilt(js, p))
    BY <1>2 DEF NoneBuilt, AllBuilt
  <2>2. ShasMade(js, p) => ShasMade(us, p)
    BY <1>1 DEF ShasMade
  <2>3. StackOk(p) => FullIn(us, p) = FullIn(js, p)
    BY <1>2, SameFull
  <2> QED
    BY <2>1, <2>2, <2>3
<1>5. \A i \in DOMAIN js : Gone(js, i) => Gone(us, i)
  BY <1>1, <1>4 DEF Gone
<1>6. StackOk(entry.plan) => FullIn(us, entry.plan) = entry.plan
  BY <1>4, FullOfNoneBuilt DEF Addable
<1>7. Apart(us)
  <2>1. SUFFICES ASSUME NEW i \in DOMAIN us, NEW j \in DOMAIN us, i # j, StackOk(us[i].plan), StackOk(us[j].plan),
                        FullIn(us, us[i].plan) = FullIn(us, us[j].plan)
                 PROVE  Gone(us, i) \/ Gone(us, j)
    BY DEF Apart
  <2>2. CASE i \in DOMAIN js /\ j \in DOMAIN js
    <3>1. FullIn(js, js[i].plan) = FullIn(js, js[j].plan) /\ StackOk(js[i].plan) /\ StackOk(js[j].plan)
      BY <1>1, <1>4, <2>1, <2>2
    <3>2. Gone(js, i) \/ Gone(js, j)
      BY <2>1, <2>2, <3>1 DEF ListOk, Apart
    <3> QED
      BY <1>5, <2>2, <3>2
  <2>3. CASE i \notin DOMAIN js
    <3>1. j \in DOMAIN js /\ us[i] = entry
      BY <1>1, <2>1, <2>3
    <3>2. StackOk(js[j].plan) /\ FullIn(js, js[j].plan) = entry.plan /\ StackOk(entry.plan)
      BY <1>1, <1>4, <1>6, <2>1, <3>1
    <3> QED
      BY <1>5, <3>1, <3>2 DEF Addable
  <2>4. CASE j \notin DOMAIN js
    <3>1. i \in DOMAIN js /\ us[j] = entry
      BY <1>1, <2>1, <2>4
    <3>2. StackOk(js[i].plan) /\ FullIn(js, js[i].plan) = entry.plan /\ StackOk(entry.plan)
      BY <1>1, <1>4, <1>6, <2>1, <3>1
    <3> QED
      BY <1>5, <3>1, <3>2 DEF Addable
  <2> QED
    BY <2>2, <2>3, <2>4
<1>8. ASSUME NEW i \in DOMAIN us
      PROVE  RowOk(us[i]) /\ (StackOk(us[i].plan) => StackRow(us, us[i]))
  <2>1. CASE i \in DOMAIN js
    <3>1. us[i] = js[i] /\ RowOk(js[i]) /\ (StackOk(js[i].plan) => StackRow(js, js[i]))
      BY <1>1, <2>1 DEF ListOk
    <3> QED
      BY <1>4, <3>1 DEF StackRow
  <2>2. CASE i \notin DOMAIN js
    <3>1. us[i] = entry
      BY <1>1, <2>2
    <3> QED
      BY <1>4, <3>1 DEF StackRow, Addable
  <2> QED
    BY <2>1, <2>2
<1> QED
  BY <1>1, <1>2, <1>3, <1>7, <1>8 DEF ListOk, SameBuilt

\* A running job succeeds: what waited for it names its product now.
Finished(js, k, us) ==
    /\ DOMAIN us = DOMAIN js
    /\ \A i \in DOMAIN js : us[i].plan = js[i].plan /\ us[i].status = IF i = k THEN "succeeded" ELSE js[i].status

LEMMA ListBuilt ==
    ASSUME NoneApart, NEW js, ListOk(js), NEW k \in DOMAIN js, js[k].status = "running",
           NEW us, us = [js EXCEPT ![k].status = "succeeded"]
    PROVE  ListOk(us) /\ Finished(js, k, us)
<1>0. Len(js) \in Nat /\ DOMAIN js = 1..Len(js)
  BY SeqIs DEF ListOk
<1>1. us[k] = [js[k] EXCEPT !.status = "succeeded"] /\ DOMAIN us = DOMAIN js /\ \A i \in DOMAIN js \ {k} : us[i] = js[i]
  OBVIOUS
<1>2. IsSeq(us)
  <2>1. us = [i \in 1..Len(js) |-> us[i]]
    BY <1>0, <1>1
  <2>2. Len(js) \in Nat
    BY <1>0
  <2> QED
    BY <2>1, <2>2, MadeSeq, Zenon
<1>3. \A i \in DOMAIN js : /\ us[i].plan = js[i].plan /\ us[i].resolved = js[i].resolved
                           /\ us[i].status = IF i = k THEN "succeeded" ELSE js[i].status
                           /\ RowOk(us[i])
  <2>1. RowOk(js[k])
    BY DEF ListOk
  <2>2. DOMAIN us[k] = DOMAIN js[k] /\ us[k].plan = js[k].plan /\ us[k].resolved = js[k].resolved /\ us[k].status = "succeeded"
    BY <1>1, <2>1 DEF RowOk
  <2>3. RowOk(us[k])
    BY <2>1, <2>2 DEF RowOk, Statuses
  <2> QED
    BY <1>1, <2>2, <2>3 DEF ListOk
<1>4. \A r : BuiltIn(us, r) = BuiltIn(js, r) \cup (IF js[k].plan = r.job THEN {k} ELSE {})
  BY <1>1, <1>3 DEF BuiltIn
<1>5. \A r : js[k].plan = r.job => BuiltIn(js, r) = {} /\ BuiltIn(us, r) = {k}
  <2>1. ASSUME NEW r, js[k].plan = r.job
        PROVE  BuiltIn(js, r) = {}
    BY <2>1 DEF BuiltIn, ListOk, Unique
  <2> QED
    BY <1>4, <2>1
<1>6. \A r : js[k].plan # r.job => BuiltIn(us, r) = BuiltIn(js, r)
  BY <1>4
<1>7. ASSUME NEW p
      PROVE  /\ AllBuilt(js, p) => AllBuilt(us, p)
             /\ ~NoneBuilt(js, p) => ~NoneBuilt(us, p)
             /\ ShasMade(js, p) => ShasMade(us, p)
  <2>1. (AllBuilt(js, p) => AllBuilt(us, p)) /\ (~NoneBuilt(js, p) => ~NoneBuilt(us, p))
    BY <1>4 DEF AllBuilt, NoneBuilt
  <2>2. ShasMade(js, p) => ShasMade(us, p)
    BY <1>1, <1>3 DEF ShasMade
  <2> QED
    BY <2>1, <2>2
<1>8. ASSUME NEW p, StackOk(p), ShasMade(js, p), NEW q, StackOk(q), ShasMade(js, q),
             NEW r \in Refs(p), NEW s \in Refs(q), FixedIn(us, r) = FixedIn(us, s)
      PROVE  FixedIn(js, r) = FixedIn(js, s)
  <2>1. ASSUME NEW o, StackOk(o), ShasMade(js, o), NEW x \in Refs(o)
        PROVE  /\ IsJobRef(x) /\ x.job = js[k].plan => x = [job |-> js[k].plan] /\ FixedIn(us, x) = [sha |-> k]
               /\ ~(IsJobRef(x) /\ x.job = js[k].plan) => FixedIn(us, x) = FixedIn(js, x) /\ FixedIn(us, x) # [sha |-> k]
    <3>1. IsRef(x)
      BY <2>1, RefsOfStack
    <3>2. CASE IsJobRef(x) /\ x.job = js[k].plan
      <4>1. x = [job |-> x.job]
        BY <3>1, <3>2 DEF IsRef, IsJobRef
      <4>2. BuiltIn(us, x) = {k}
        BY <1>5, <3>2
      <4>3. (CHOOSE i \in {k} : TRUE) = k
        OBVIOUS
      <4> QED
        BY <3>2, <4>1, <4>2, <4>3 DEF FixedIn
    <3>3. CASE IsJobRef(x) /\ x.job # js[k].plan
      <4>1. BuiltIn(us, x) = BuiltIn(js, x)
        BY <1>6, <3>3
      <4>2. FixedIn(us, x) = FixedIn(js, x)
        BY <4>1 DEF FixedIn
      <4>3. CASE BuiltIn(js, x) = {}
        <5>1. FixedIn(js, x) = x
          BY <4>3 DEF FixedIn
        <5>2. x # [sha |-> k]
          BY <3>3 DEF IsJobRef
        <5> QED
          BY <3>3, <4>2, <5>1, <5>2
      <4>4. CASE BuiltIn(js, x) # {}
        <5>1. PICK c : c = CHOOSE i \in BuiltIn(js, x) : TRUE
          OBVIOUS
        <5>2. c \in BuiltIn(js, x) /\ FixedIn(js, x) = [sha |-> c]
          BY <3>3, <4>4, <5>1 DEF FixedIn
        <5>3. c # k
          BY <5>2 DEF BuiltIn
        <5> QED
          BY <3>3, <4>2, <5>2, <5>3
      <4> QED
        BY <4>3, <4>4
    <3>4. CASE ~IsJobRef(x)
      <4>1. FixedIn(us, x) = x /\ FixedIn(js, x) = x
        BY <3>4 DEF FixedIn
      <4>2. ASSUME x = [sha |-> k]
            PROVE  FALSE
        <5>1. x # None
          BY <4>2 DEF NoneApart
        <5>2. x.sha = k /\ k \in Nat
          BY <1>0, <4>2
        <5>3. js[k].status = "succeeded"
          BY <2>1, <3>4, <5>1, <5>2 DEF ShasMade
        <5> QED
          BY <5>3
      <4> QED
        BY <3>4, <4>1, <4>2
    <3> QED
      BY <3>2, <3>3, <3>4
  <2>2. CASE IsJobRef(r) /\ r.job = js[k].plan
    <3>1. r = [job |-> js[k].plan] /\ FixedIn(us, r) = [sha |-> k]
      BY <1>8, <2>1, <2>2
    <3>2. IsJobRef(s) /\ s.job = js[k].plan
      BY <1>8, <2>1, <3>1
    <3>3. s = [job |-> js[k].plan]
      BY <1>8, <2>1, <3>2
    <3> QED
      BY <3>1, <3>3
  <2>3. CASE ~(IsJobRef(r) /\ r.job = js[k].plan)
    <3>1. FixedIn(us, r) = FixedIn(js, r) /\ FixedIn(us, r) # [sha |-> k]
      BY <1>8, <2>1, <2>3
    <3>2. ~(IsJobRef(s) /\ s.job = js[k].plan)
      BY <1>8, <2>1, <3>1
    <3>3. FixedIn(us, s) = FixedIn(js, s)
      BY <1>8, <2>1, <3>2
    <3> QED
      BY <1>8, <3>1, <3>3
  <2> QED
    BY <2>2, <2>3
<1>9. \A i \in DOMAIN js : StackOk(js[i].plan) => ShasMade(js, js[i].plan)
  BY DEF ListOk, StackRow
<1>10. \A i \in DOMAIN js : Gone(js, i) => Gone(us, i)
  <2>1. SUFFICES ASSUME NEW i \in DOMAIN js, Gone(js, i)
                 PROVE  Gone(us, i)
    OBVIOUS
  <2>2. i # k
    BY <2>1 DEF Gone
  <2> QED
    BY <1>3, <1>7, <2>1, <2>2 DEF Gone
<1>11. Apart(us)
  <2>1. SUFFICES ASSUME NEW i \in DOMAIN us, NEW j \in DOMAIN us, i # j, StackOk(us[i].plan), StackOk(us[j].plan),
                        FullIn(us, us[i].plan) = FullIn(us, us[j].plan)
                 PROVE  Gone(us, i) \/ Gone(us, j)
    BY DEF Apart
  <2>2. PICK p, q : p = js[i].plan /\ q = js[j].plan
    OBVIOUS
  <2>3. StackOk(p) /\ StackOk(q) /\ ShasMade(js, p) /\ ShasMade(js, q) /\ FullIn(us, p) = FullIn(us, q)
    BY <1>1, <1>3, <1>9, <2>1, <2>2
  <2>4. ToldApart(js, us, p, q)
    BY <1>8, <2>3 DEF ToldApart
  <2>5. FullIn(js, p) = FullIn(js, q)
    BY <2>3, <2>4, FullEqual
  <2>6. Gone(js, i) \/ Gone(js, j)
    BY <1>1, <2>1, <2>2, <2>3, <2>5 DEF ListOk, Apart
  <2> QED
    BY <1>1, <1>10, <2>6
<1>12. Unique(us)
  BY <1>1, <1>3 DEF ListOk, Unique
<1>13. ASSUME NEW i \in DOMAIN us, StackOk(us[i].plan)
       PROVE  StackRow(us, us[i])
  <2>1. PICK p : p = js[i].plan
    OBVIOUS
  <2>2. us[i].plan = p /\ StackOk(p) /\ StackRow(js, js[i]) /\ us[i].resolved = js[i].resolved
    BY <1>1, <1>3, <1>13, <2>1 DEF ListOk
  <2>3. ShasMade(us, p)
    BY <1>7, <2>1, <2>2 DEF StackRow
  <2>4. AllBuilt(js, p) => AllBuilt(us, p) /\ FullIn(us, p) = FullIn(js, p)
    <3>1. SUFFICES ASSUME AllBuilt(js, p)
                   PROVE  AllBuilt(us, p) /\ FullIn(us, p) = FullIn(js, p)
      OBVIOUS
    <3>2. AllBuilt(us, p)
      BY <1>7, <3>1
    <3>3. \A r \in Refs(p) : FixedIn(us, r) = FixedIn(js, r)
      <4>1. SUFFICES ASSUME NEW r \in Refs(p)
                     PROVE  FixedIn(us, r) = FixedIn(js, r)
        OBVIOUS
      <4>2. IsJobRef(r) => js[k].plan # r.job
        BY <1>5, <3>1 DEF AllBuilt
      <4> QED
        BY <1>6, <4>2 DEF FixedIn
    <3>4. FullIn(us, p) = FullIn(js, p)
      <4>1. ASSUME NEW g \in p.groups
            PROVE  FullGroup(us, g) = FullGroup(js, g)
        <5>1. GroupOk(g) /\ g.dark \in Refs(p) /\ g.flat \in Refs(p)
          BY <2>2, RefsOfStack DEF StackOk
        <5>2. FixedIn(us, g.dark) = FixedIn(js, g.dark) /\ FixedIn(us, g.flat) = FixedIn(js, g.flat)
          BY <3>3, <5>1
        <5> QED
          BY <5>2 DEF FullGroup
      <4>2. {FullGroup(us, g) : g \in p.groups} = {FullGroup(js, g) : g \in p.groups}
        BY <4>1
      <4>3. FixedIn(us, p.reference) = FixedIn(js, p.reference)
        BY <2>2, <3>3, RefsOfStack
      <4> QED
        BY <4>2, <4>3 DEF FullIn
    <3> QED
      BY <3>2, <3>4
  <2>5. us[i].status \in {"running", "succeeded", "failed"} => js[i].status \in {"running", "succeeded", "failed"}
    BY <1>1, <1>3
  <2> QED
    BY <2>1, <2>2, <2>3, <2>4, <2>5 DEF StackRow
<1> QED
  BY <1>1, <1>2, <1>3, <1>11, <1>12, <1>13 DEF ListOk, Finished

(***************************************************************************)
(* insert_job, one job of a plan after the other                           *)
(***************************************************************************)
LEMMA MaxIsOne ==
    ASSUME NEW n \in Nat, NEW S, S \subseteq 1..n, S # {}
    PROVE  Max(S) \in S
<1> DEFINE T == {n - x : x \in S}
<1>1. T \subseteq Nat /\ T # {}
  <2>1. \A x \in S : n - x \in Nat
    OBVIOUS
  <2> QED
    BY <2>1
<1>2. PICK t \in T : \A u \in T : t <= u
  <2> HIDE DEF T
  <2> QED
    BY <1>1, LeastElement
<1>3. PICK x \in S : t = n - x
  BY <1>2
<1>4. \A y \in S : x >= y
  <2>1. SUFFICES ASSUME NEW y \in S
                 PROVE  x >= y
    OBVIOUS
  <2>2. n - x <= n - y
    BY <1>2, <1>3
  <2> QED
    BY <2>2
<1> QED
  BY <1>4 DEF Max

\* Jobs of a list after others were added to it, with plans from P.
Grown(js, us, P) ==
    /\ DOMAIN js \subseteq DOMAIN us
    /\ \A i \in DOMAIN js : /\ us[i].plan = js[i].plan
                            /\ us[i].status = "succeeded" <=> js[i].status = "succeeded"
                            /\ us[i].status = "running" <=> js[i].status = "running"
    /\ \A i \in DOMAIN us \ DOMAIN js : us[i].plan \in P /\ us[i].status \notin {"running", "succeeded"}

LEMMA ExistingIs ==
    ASSUME NEW js, IsSeq(js), NEW p, NEW e, e = Existing(js, p)
    PROVE  /\ e = 0 => \A i \in DOMAIN js : js[i].plan # p /\ js[i].resolved # p
           /\ e # 0 => e \in DOMAIN js /\ (js[e].plan = p \/ js[e].resolved = p)
<1> DEFINE own   == {i \in DOMAIN js : js[i].plan = p}
           alias == {i \in DOMAIN js : js[i].resolved = p}
<1>1. Len(js) \in Nat /\ own \subseteq 1..Len(js) /\ alias \subseteq 1..Len(js)
  BY SeqIs
<1>2. e = IF own # {} THEN Max(own) ELSE IF alias # {} THEN Max(alias) ELSE 0
  BY DEF Existing
<1>3. (own # {} => Max(own) \in own) /\ (alias # {} => Max(alias) \in alias)
  <2> HIDE DEF own, alias
  <2> QED
    BY <1>1, MaxIsOne
<1>4. CASE own # {}
  <2>1. e \in own
    <3> HIDE DEF own, alias
    <3> QED
      BY <1>2, <1>3, <1>4
  <2> QED
    BY <1>1, <2>1
<1>5. CASE own = {} /\ alias # {}
  <2>1. e \in alias
    <3> HIDE DEF own, alias
    <3> QED
      BY <1>2, <1>3, <1>5
  <2> QED
    BY <1>1, <2>1
<1>6. CASE own = {} /\ alias = {}
  BY <1>2, <1>6
<1> QED
  BY <1>4, <1>5, <1>6

\* What insert_job may be given.
Insertable(js, p) == PlanIs(p) /\ (StackOk(p) => NoneBuilt(js, p) /\ ShasMade(js, p))


LEMMA InsertJobIs ==
    ASSUME NoneApart, NEW acc, NEW js, js = acc.jobs, ListOk(js), NEW job, Insertable(js, job.plan),
           NEW us, us = InsertJob(acc, job).jobs
    PROVE  ListOk(us) /\ SameBuilt(js, us) /\ Grown(js, us, {job.plan})
<1> DEFINE Older(j) == j.status \in {"queued", "waiting_data", "blocked"} /\ SameStack(job.plan, j.plan)
<1>1. PICK e : e = Existing(js, job.plan)
  OBVIOUS
<1>2. PICK entry : /\ DOMAIN entry = {"plan", "depends", "status", "resolved"} /\ entry.plan = job.plan
                 /\ entry.status = "queued" /\ entry.resolved = None
                 /\ us = IF e = 0 THEN Append([i \in DOMAIN js |-> IF Older(js[i]) THEN [js[i] EXCEPT !.status = "superseded"] ELSE js[i]], entry)
                         ELSE IF js[e].status \in DEAD THEN [js EXCEPT ![e].status = "queued"]
                         ELSE js
  <2>1. PICK deps : deps = {acc.ids[d] : d \in job.depends \cap DOMAIN acc.ids}
                           \cup {i \in DOMAIN acc.jobs : acc.jobs[i].plan \in job.depends \ DOMAIN acc.ids}
    OBVIOUS
  <2>2. PICK entry : entry = [plan |-> job.plan, depends |-> deps, status |-> "queued", resolved |-> None]
    OBVIOUS
  <2>3. us = IF e = 0 THEN Append([i \in DOMAIN js |-> IF Older(js[i]) THEN [js[i] EXCEPT !.status = "superseded"] ELSE js[i]], entry)
             ELSE IF js[e].status \in DEAD THEN [js EXCEPT ![e].status = "queued"]
             ELSE js
    BY <1>1, <2>1, <2>2 DEF InsertJob
  <2>4. DOMAIN entry = {"plan", "depends", "status", "resolved"} /\ entry.plan = job.plan /\ entry.status = "queued" /\ entry.resolved = None
    BY <2>2
  <2> HIDE DEF Older
  <2> QED
    BY <2>3, <2>4, Zenon
<1>3. IsSeq(js) /\ Len(js) \in Nat /\ DOMAIN js = 1..Len(js)
  BY SeqIs DEF ListOk
<1>4. \A i \in DOMAIN js : RowOk(js[i])
  BY DEF ListOk
<1>5. /\ e = 0 => \A i \in DOMAIN js : js[i].plan # job.plan /\ js[i].resolved # job.plan
      /\ e # 0 => e \in DOMAIN js /\ (js[e].plan = job.plan \/ js[e].resolved = job.plan)
  BY <1>1, <1>3, ExistingIs
<1>6. CASE e = 0
  <2>1. PICK vs : vs = [i \in DOMAIN js |-> IF Older(js[i]) THEN [js[i] EXCEPT !.status = "superseded"] ELSE js[i]]
    OBVIOUS
  <2>2. us = Append(vs, entry)
    BY <1>2, <1>6, <2>1
  <2>3. IsSeq(vs) /\ DOMAIN vs = DOMAIN js /\ Len(vs) = Len(js)
    <3>1. vs = [i \in 1..Len(js) |-> vs[i]]
      BY <1>3, <2>1
    <3>2. Len(js) \in Nat
      BY <1>3
    <3>3. IsSeq(vs) /\ Len(vs) = Len(js) /\ DOMAIN vs = 1..Len(js)
      BY <3>1, <3>2, MadeSeq, Zenon
    <3> QED
      BY <1>3, <3>3
  <2>4. ASSUME NEW i \in DOMAIN js
        PROVE  /\ vs[i].plan = js[i].plan /\ vs[i].resolved = js[i].resolved /\ RowOk(vs[i])
               /\ Older(js[i]) => vs[i].status = "superseded"
               /\ ~Older(js[i]) => vs[i].status = js[i].status
    <3>1. CASE Older(js[i])
      <4>1. vs[i] = [js[i] EXCEPT !.status = "superseded"]
        BY <2>1, <3>1
      <4>2. DOMAIN vs[i] = DOMAIN js[i] /\ vs[i].plan = js[i].plan /\ vs[i].resolved = js[i].resolved /\ vs[i].status = "superseded"
        BY <1>4, <4>1 DEF RowOk
      <4> QED
        BY <1>4, <3>1, <4>2 DEF RowOk, Statuses, DEAD
    <3>2. CASE ~Older(js[i])
      <4>1. vs[i] = js[i]
        BY <2>1, <3>2
      <4> QED
        BY <1>4, <3>2, <4>1
    <3> QED
      BY <3>1, <3>2
  <2>5. ListOk(vs) /\ SameBuilt(js, vs)
    <3>1. \A i \in DOMAIN js : RowKept(js, vs, i)
      BY <2>4 DEF Gone, ListOk, StackRow, RowKept
    <3> QED
      BY <2>3, <3>1, ListKept
  <2>6. RowOk(entry)
    BY <1>2 DEF RowOk, Statuses, Waiting, Insertable
  <2>7. NewPlan(vs, entry.plan)
    BY <1>2, <1>5, <1>6, <2>3, <2>4 DEF NewPlan
  <2>8. ASSUME StackOk(entry.plan)
        PROVE  Addable(vs, entry.plan)
    <3>1. NoneBuilt(js, entry.plan) /\ ShasMade(js, entry.plan)
      BY <1>2, <2>8 DEF Insertable
    <3>2. NoneBuilt(vs, entry.plan)
      BY <2>5, <3>1 DEF NoneBuilt, SameBuilt
    <3>3. ShasMade(vs, entry.plan)
      <4>1. \A i \in DOMAIN js : js[i].status = "succeeded" => vs[i].status = "succeeded"
        BY <2>4
      <4> QED
        BY <2>3, <3>1, <4>1 DEF ShasMade
    <3>4. ASSUME NEW i \in DOMAIN vs, StackOk(vs[i].plan), FullIn(vs, vs[i].plan) = entry.plan
          PROVE  Gone(vs, i)
      <4>1. PICK p : p = js[i].plan
        OBVIOUS
      <4>2. i \in DOMAIN js /\ vs[i].plan = p /\ StackOk(p)
        BY <2>3, <2>4, <3>4, <4>1
      <4>3. FullIn(js, p) = entry.plan
        BY <2>5, <3>4, <4>2, SameFull DEF SameBuilt
      <4>4. ~NoneBuilt(js, p)
        <5>1. NoneBuilt(js, p) => FullIn(js, p) = p
          BY <4>2, FullOfNoneBuilt
        <5>2. p # entry.plan
          BY <2>3, <2>7, <4>2 DEF NewPlan
        <5> QED
          BY <4>3, <5>1, <5>2
      <4>5. StackRow(js, js[i])
        BY <4>1, <4>2 DEF ListOk
      <4>6. js[i].resolved = None
        BY <1>2, <1>5, <1>6, <4>1, <4>2, <4>3, <4>5 DEF StackRow
      <4>7. ~NoJobs(p)
        BY <4>4 DEF NoJobs, NoneBuilt
      <4>8. js[i].status \notin {"running", "succeeded", "failed"}
        BY <4>1, <4>5, <4>6, <4>7 DEF StackRow
      <4>9. js[i].status \in {"queued", "waiting_data", "blocked", "superseded"}
        BY <1>4, <4>2, <4>8 DEF RowOk, Statuses, DEAD, Waiting
      <4>10. SameStack(entry.plan, p)
        <5>1. /\ entry.plan.kind = "NIGHT_STACK" /\ entry.plan.target = p.target /\ entry.plan.night = p.night
              /\ entry.plan.filter = p.filter /\ entry.plan.stack = p.stack
          BY <4>2, <4>3, FullIs
        <5>2. p.kind = "NIGHT_STACK"
          BY <4>2 DEF StackOk
        <5> QED
          BY <5>1, <5>2 DEF SameStack
      <4>11. vs[i].status = "superseded"
        BY <1>2, <2>4, <4>1, <4>2, <4>9, <4>10
      <4>12. ~NoneBuilt(vs, p)
        BY <2>5, <4>4 DEF NoneBuilt, SameBuilt
      <4> QED
        BY <2>4, <4>2, <4>6, <4>11, <4>12 DEF Gone
    <3> QED
      BY <3>2, <3>3, <3>4 DEF Addable
  <2>9. ListOk(us) /\ SameBuilt(vs, us)
    <3>1. entry.status = "queued" /\ entry.resolved = None
      BY <1>2
    <3>2. StackOk(entry.plan) => Addable(vs, entry.plan)
      BY <2>8
    <3>3. ListOk(vs)
      BY <2>5
    <3>4. Added(vs, entry, us)
      BY <2>2, <2>3, AppendAdds
    <3>5. NewRow(vs, entry)
      BY <2>6, <2>7, <3>1, <3>2 DEF NewRow
    <3> QED
      BY <3>3, <3>4, <3>5, ListAppended, SMTT(30)
  <2>10. DOMAIN us = 1..(Len(js) + 1) /\ (\A i \in DOMAIN js : us[i] = vs[i]) /\ us[Len(js) + 1] = entry
    BY <1>3, <2>2, <2>3, AppendIs
  <2>11. Grown(js, us, {job.plan})
    BY <1>2, <1>3, <2>4, <2>10 DEF Grown
  <2> QED
    BY <2>5, <2>9, <2>11 DEF SameBuilt
<1>7. CASE e # 0 /\ js[e].status \in DEAD
  <2>1. us = [js EXCEPT ![e].status = "queued"] /\ e \in DOMAIN js
    BY <1>2, <1>5, <1>7
  <2>2. us[e] = [js[e] EXCEPT !.status = "queued"] /\ DOMAIN us = DOMAIN js /\ \A i \in DOMAIN js \ {e} : us[i] = js[i]
    BY <2>1
  <2>3. IsSeq(us)
    <3>1. us = [i \in 1..Len(js) |-> us[i]]
      BY <1>3, <2>1
    <3>2. Len(js) \in Nat
      BY <1>3
    <3> QED
      BY <3>1, <3>2, MadeSeq, Zenon
  <2>4. DOMAIN us[e] = DOMAIN js[e] /\ us[e].plan = js[e].plan /\ us[e].resolved = js[e].resolved /\ us[e].status = "queued"
    BY <1>4, <2>1, <2>2 DEF RowOk
  <2>5. RowOk(us[e])
    BY <1>4, <2>1, <2>4 DEF RowOk, Statuses, Waiting
  <2>6. StackOk(js[e].plan) => ~Gone(js, e)
    <3>1. SUFFICES ASSUME StackOk(js[e].plan), Gone(js, e)
                   PROVE  FALSE
      OBVIOUS
    <3>2. CASE js[e].plan = job.plan
      BY <3>1, <3>2 DEF Gone, Insertable
    <3>3. CASE js[e].resolved = job.plan
      <4>1. job.plan # None
        BY KindIs DEF Insertable
      <4> QED
        BY <3>1, <3>3, <4>1 DEF Gone
    <3> QED
      BY <1>5, <1>7, <3>2, <3>3
  <2>7. \A i \in DOMAIN js : RowKept(js, us, i)
    <3>1. SUFFICES ASSUME NEW i \in DOMAIN js
                   PROVE  RowKept(js, us, i)
      OBVIOUS
    <3>2. StackOk(js[i].plan) => StackRow(js, js[i])
      BY DEF ListOk
    <3>3. CASE i = e
      BY <1>7, <2>4, <2>5, <2>6, <3>2, <3>3 DEF StackRow, DEAD, RowKept
    <3>4. CASE i # e
      BY <1>4, <2>2, <3>2, <3>4 DEF StackRow, Gone, RowKept
    <3> QED
      BY <3>3, <3>4
  <2>8. ListOk(us) /\ SameBuilt(js, us)
    BY <2>2, <2>3, <2>7, ListKept, SMTT(30)
  <2>9. Grown(js, us, {job.plan})
    <3>1. \A i \in DOMAIN js : us[i].status = "running" <=> js[i].status = "running"
      BY <1>7, <2>2, <2>4 DEF DEAD
    <3> QED
      BY <2>2, <2>7, <3>1 DEF Grown, RowKept
  <2> QED
    BY <2>8, <2>9 DEF SameBuilt
<1>8. CASE e # 0 /\ js[e].status \notin DEAD
  <2>1. us = js
    BY <1>2, <1>8
  <2> QED
    BY <2>1 DEF Grown, SameBuilt
<1> QED
  BY <1>6, <1>7, <1>8

\* The jobs of a plan, turn by turn.
LEMMA InsertAllTurns ==
    ASSUME NEW js, NEW new, Len(new) \in Nat
    PROVE  \E g : /\ InsertAll(js, new) = g[Len(new)].jobs
                  /\ g[0] = [jobs |-> js, ids |-> <<>>]
                  /\ \A k \in 1..Len(new) : g[k] = InsertJob(g[k-1], new[k])
<1> DEFINE Is(g, k) == g = [n \in 0..k |-> IF n = 0 THEN [jobs |-> js, ids |-> <<>>] ELSE InsertJob(g[n-1], new[n])]
<1>1. \E g : Is(g, Len(new))
  <2> DEFINE good == {k \in Nat : \E g : Is(g, k)}
  <2>1. 0 \in good
    <3>1. Is([n \in 0..0 |-> [jobs |-> js, ids |-> <<>>]], 0)
      OBVIOUS
    <3> QED
      BY <3>1
  <2>2. ASSUME NEW k \in 1..Len(new), k - 1 \in good
        PROVE  k \in good
    <3>1. PICK g : Is(g, k - 1)
      BY <2>2
    <3> DEFINE h == [n \in 0..k |-> IF n = k THEN InsertJob(g[n-1], new[n]) ELSE g[n]]
    <3>2. Is(h, k)
      BY <2>2, <3>1
    <3>3. k \in Nat
      BY <2>2
    <3> QED
      BY <3>2, <3>3
  <2>3. \A k \in 0..Len(new) : k \in good
    <3> HIDE DEF good
    <3> QED
      BY <2>1, <2>2, UpTo
  <2>4. Len(new) \in good
    BY <2>3
  <2> QED
    BY <2>4
<1>2. PICK g : g = CHOOSE f : Is(f, Len(new))
  OBVIOUS
<1>3. Is(g, Len(new))
  BY <1>1, <1>2
<1>4. InsertAll(js, new) = g[Len(new)].jobs
  BY <1>2 DEF InsertAll
<1>5. g[0] = [jobs |-> js, ids |-> <<>>]
  BY <1>3
<1>6. \A k \in 1..Len(new) : g[k] = InsertJob(g[k-1], new[k])
  <2>1. SUFFICES ASSUME NEW k \in 1..Len(new)
                 PROVE  g[k] = InsertJob(g[k-1], new[k])
    OBVIOUS
  <2>2. k \in 0..Len(new) /\ k # 0
    OBVIOUS
  <2> QED
    BY <1>3, <2>2
<1> HIDE DEF Is
<1> QED
  BY <1>4, <1>5, <1>6, Zenon

LEMMA InsertAllIs ==
    ASSUME NoneApart, NEW js, ListOk(js), NEW new, IsSeq(new), \A k \in DOMAIN new : Insertable(js, new[k].plan),
           NEW us, us = InsertAll(js, new)
    PROVE  ListOk(us) /\ SameBuilt(js, us) /\ Grown(js, us, {new[k].plan : k \in DOMAIN new})
<1> DEFINE P == {new[k].plan : k \in DOMAIN new}
           Held(vs) == ListOk(vs) /\ SameBuilt(js, vs) /\ Grown(js, vs, P)
<1>1. Len(new) \in Nat /\ DOMAIN new = 1..Len(new)
  BY SeqIs
<1>2. PICK g : /\ InsertAll(js, new) = g[Len(new)].jobs
               /\ g[0] = [jobs |-> js, ids |-> <<>>]
               /\ \A k \in 1..Len(new) : g[k] = InsertJob(g[k-1], new[k])
  BY <1>1, InsertAllTurns
<1> DEFINE good == {k \in 0..Len(new) : Held(g[k].jobs)}
<1>3. 0 \in good
  <2>1. g[0].jobs = js
    BY <1>2
  <2>2. Grown(js, js, P) /\ SameBuilt(js, js)
    BY DEF Grown, SameBuilt
  <2> QED
    BY <1>1, <2>1, <2>2
<1>4. ASSUME NEW k \in 1..Len(new), k - 1 \in good
      PROVE  k \in good
  <2>1. PICK acc, vs, ws, job : acc = g[k-1] /\ vs = acc.jobs /\ job = new[k] /\ ws = InsertJob(acc, job).jobs
    OBVIOUS
  <2>2. ListOk(vs) /\ SameBuilt(js, vs) /\ Grown(js, vs, P)
    BY <1>4, <2>1
  <2>3. k \in DOMAIN new /\ job.plan \in P
    BY <1>1, <2>1
  <2>4. Insertable(vs, job.plan)
    <3>1. Insertable(js, job.plan)
      BY <2>1, <2>3
    <3>2. NoneBuilt(js, job.plan) => NoneBuilt(vs, job.plan)
      BY <2>2 DEF NoneBuilt, SameBuilt
    <3>3. ShasMade(js, job.plan) => ShasMade(vs, job.plan)
      BY <2>2 DEF ShasMade, Grown
    <3> QED
      BY <3>1, <3>2, <3>3 DEF Insertable
  <2>5. ListOk(ws) /\ SameBuilt(vs, ws) /\ Grown(vs, ws, {job.plan})
    <3>1. vs = acc.jobs /\ ws = InsertJob(acc, job).jobs /\ ListOk(vs)
      BY <2>1, <2>2
    <3> QED
      BY <2>4, <3>1, InsertJobIs
  <2>6. Grown(js, ws, P)
    <3> HIDE DEF P
    <3>1. DOMAIN js \subseteq DOMAIN vs /\ DOMAIN vs \subseteq DOMAIN ws
      BY <2>2, <2>5 DEF Grown
    <3>2. \A i \in DOMAIN js : /\ ws[i].plan = js[i].plan
                               /\ ws[i].status = "succeeded" <=> js[i].status = "succeeded"
                               /\ ws[i].status = "running" <=> js[i].status = "running"
      BY <2>2, <2>5, <3>1 DEF Grown
    <3>3. ASSUME NEW i \in DOMAIN ws \ DOMAIN js
          PROVE  ws[i].plan \in P /\ ws[i].status \notin {"running", "succeeded"}
      BY <2>2, <2>3, <2>5 DEF Grown
    <3> QED
      BY <3>1, <3>2, <3>3 DEF Grown
  <2>7. g[k].jobs = ws
    BY <1>2, <2>1
  <2>8. SameBuilt(js, ws)
    BY <2>2, <2>5 DEF SameBuilt
  <2> QED
    BY <1>1, <2>5, <2>6, <2>7, <2>8
<1>5. Len(new) \in good
  <2> HIDE DEF good
  <2>1. \A k \in 0..Len(new) : k \in good
    BY <1>1, <1>3, <1>4, UpTo
  <2> QED
    BY <1>1, <2>1
<1> QED
  BY <1>2, <1>5

(***************************************************************************)
(* The executor: _unblock, the candidates, the one that runs               *)
(***************************************************************************)
\* Jobs change between the states in which they wait, and nothing else.
Stirs == {"queued", "waiting_data", "blocked"}
Stirred(js, us) ==
    /\ IsSeq(us) /\ DOMAIN us = DOMAIN js
    /\ \A i \in DOMAIN js : /\ DOMAIN us[i] = DOMAIN js[i] /\ us[i].plan = js[i].plan /\ us[i].resolved = js[i].resolved
                            /\ us[i].status = js[i].status \/ (us[i].status \in Stirs /\ js[i].status \in Stirs)

LEMMA StirredAgain ==
    ASSUME NEW js, NEW us, NEW vs, Stirred(js, us), Stirred(us, vs)
    PROVE  Stirred(js, vs)
BY DEF Stirred

LEMMA StirredKeeps ==
    ASSUME NEW js, ListOk(js), NEW us, Stirred(js, us)
    PROVE  ListOk(us) /\ SameBuilt(js, us)
<1>1. \A i \in DOMAIN js : RowOk(us[i])
  BY DEF Stirred, ListOk, RowOk, Stirs, Statuses, Waiting, DEAD
<1>2. \A i \in DOMAIN js : RowKept(js, us, i)
  BY <1>1 DEF Stirred, Stirs, Gone, ListOk, StackRow, RowKept
<1>3. IsSeq(us) /\ DOMAIN us = DOMAIN js
  BY DEF Stirred
<1> QED
  BY <1>2, <1>3, ListKept DEF SameBuilt

LEMMA StirOne ==
    ASSUME NEW js, IsSeq(js), \A i \in DOMAIN js : RowOk(js[i]), NEW k \in DOMAIN js, js[k].status \in Stirs,
           NEW s \in Stirs, NEW us, us = [js EXCEPT ![k].status = s]
    PROVE  Stirred(js, us)
<1>1. us[k] = [js[k] EXCEPT !.status = s] /\ DOMAIN us = DOMAIN js /\ \A i \in DOMAIN js \ {k} : us[i] = js[i]
  OBVIOUS
<1>2. DOMAIN us[k] = DOMAIN js[k] /\ us[k].plan = js[k].plan /\ us[k].resolved = js[k].resolved /\ us[k].status = s
  BY <1>1 DEF RowOk
<1>3. IsSeq(us)
  <2>1. Len(js) \in Nat /\ DOMAIN js = 1..Len(js)
    BY SeqIs
  <2>2. us = [i \in 1..Len(js) |-> us[i]]
    BY <2>1
  <2>3. Len(js) \in Nat
    BY <2>1
  <2> QED
    BY <2>2, <2>3, MadeSeq, Zenon
<1> QED
  BY <1>1, <1>2, <1>3 DEF Stirred

LEMMA StirredNone ==
    ASSUME NEW js, IsSeq(js)
    PROVE  Stirred(js, js)
BY DEF Stirred

LEMMA UnblockIs ==
    ASSUME NEW js, IsSeq(js), \A i \in DOMAIN js : RowOk(js[i]), NEW k \in DOMAIN js
    PROVE  Stirred(js, Unblock(js, k)) /\ Stirred(js, Block(js, k))
<1>1. Unblock(js, k) = js \/ (js[k].status = "blocked" /\ Unblock(js, k) = [js EXCEPT ![k].status = "queued"])
  BY DEF Unblock
<1>2. Block(js, k) = js \/ (js[k].status \in Waiting /\ Block(js, k) = [js EXCEPT ![k].status = "blocked"])
  BY DEF Block
<1>3. Stirred(js, js)
  BY StirredNone
<1>4. ASSUME js[k].status = "blocked"
      PROVE  Stirred(js, [js EXCEPT ![k].status = "queued"])
  <2>1. js[k].status \in Stirs /\ "queued" \in Stirs
    BY <1>4 DEF Stirs
  <2> QED
    BY <2>1, StirOne
<1>5. ASSUME js[k].status \in Waiting
      PROVE  Stirred(js, [js EXCEPT ![k].status = "blocked"])
  <2>1. js[k].status \in Stirs /\ "blocked" \in Stirs
    BY <1>5 DEF Stirs, Waiting
  <2> QED
    BY <2>1, StirOne
<1> QED
  BY <1>1, <1>2, <1>3, <1>4, <1>5

LEMMA RowsStirred ==
    ASSUME NEW js, NEW us, Stirred(js, us), \A i \in DOMAIN js : RowOk(js[i])
    PROVE  IsSeq(us) /\ DOMAIN us = DOMAIN js /\ \A i \in DOMAIN us : RowOk(us[i])
BY DEF Stirred, RowOk, Stirs, Statuses, Waiting, DEAD

LEMMA SettledIs ==
    ASSUME NEW js, IsSeq(js), \A i \in DOMAIN js : RowOk(js[i])
    PROVE  Stirred(js, Settled(js))
<1> DEFINE IsU(g, k)    == g = [i \in 0..k |-> IF i = 0 THEN js ELSE Unblock(g[i-1], i)]
           IsB(g, u, k) == g = [i \in 0..k |-> IF i = 0 THEN u[Len(js)] ELSE Block(g[i-1], i)]
<1>1. Len(js) \in Nat /\ DOMAIN js = 1..Len(js)
  BY SeqIs
<1>2. \E g : IsU(g, Len(js))
  <2> DEFINE good == {k \in Nat : \E g : IsU(g, k)}
  <2>1. 0 \in good
    <3>1. IsU([i \in 0..0 |-> js], 0)
      OBVIOUS
    <3> QED
      BY <3>1
  <2>2. ASSUME NEW k \in 1..Len(js), k - 1 \in good
        PROVE  k \in good
    <3>1. PICK g : IsU(g, k - 1)
      BY <2>2
    <3> DEFINE h == [i \in 0..k |-> IF i = k THEN Unblock(g[i-1], i) ELSE g[i]]
    <3>2. IsU(h, k)
      BY <1>1, <2>2, <3>1
    <3>3. k \in Nat
      BY <1>1, <2>2
    <3> QED
      BY <3>2, <3>3
  <2>3. \A k \in 0..Len(js) : k \in good
    <3> HIDE DEF good
    <3> QED
      BY <1>1, <2>1, <2>2, UpTo
  <2>4. Len(js) \in good
    BY <1>1, <2>3
  <2> QED
    BY <2>4
<1>3. PICK u : u = CHOOSE g : IsU(g, Len(js))
  OBVIOUS
<1>4. IsU(u, Len(js))
  BY <1>2, <1>3
<1>5. \E g : IsB(g, u, Len(js))
  <2> DEFINE good == {k \in Nat : \E g : IsB(g, u, k)}
  <2>1. 0 \in good
    <3>1. IsB([i \in 0..0 |-> u[Len(js)]], u, 0)
      OBVIOUS
    <3> QED
      BY <3>1
  <2>2. ASSUME NEW k \in 1..Len(js), k - 1 \in good
        PROVE  k \in good
    <3>1. PICK g : IsB(g, u, k - 1)
      BY <2>2
    <3> DEFINE h == [i \in 0..k |-> IF i = k THEN Block(g[i-1], i) ELSE g[i]]
    <3>2. IsB(h, u, k)
      BY <1>1, <2>2, <3>1
    <3>3. k \in Nat
      BY <1>1, <2>2
    <3> QED
      BY <3>2, <3>3
  <2>3. \A k \in 0..Len(js) : k \in good
    <3> HIDE DEF good
    <3> QED
      BY <1>1, <2>1, <2>2, UpTo
  <2>4. Len(js) \in good
    BY <1>1, <2>3
  <2> QED
    BY <2>4
<1>6. PICK b : b = CHOOSE g : IsB(g, u, Len(js))
  OBVIOUS
<1>7. IsB(b, u, Len(js))
  BY <1>5, <1>6
<1>8. Settled(js) = b[Len(js)]
  BY <1>3, <1>6 DEF Settled
<1> DEFINE unblocked == {k \in 0..Len(js) : Stirred(js, u[k])}
           blocked   == {k \in 0..Len(js) : Stirred(js, b[k])}
<1>9. \A k \in 0..Len(js) : k \in unblocked
  <2>1. 0 \in unblocked
    BY <1>1, <1>4, StirredNone
  <2>2. ASSUME NEW k \in 1..Len(js), k - 1 \in unblocked
        PROVE  k \in unblocked
    <3>1. PICK vs : vs = u[k-1]
      OBVIOUS
    <3>2. Stirred(js, vs)
      BY <2>2, <3>1
    <3>3. IsSeq(vs) /\ DOMAIN vs = DOMAIN js /\ \A i \in DOMAIN vs : RowOk(vs[i])
      BY <3>2, RowsStirred
    <3>4. k \in DOMAIN vs
      BY <1>1, <3>3
    <3>5. Stirred(vs, Unblock(vs, k))
      BY <3>3, <3>4, UnblockIs
    <3>6. u[k] = Unblock(vs, k)
      BY <1>1, <1>4, <3>1
    <3>7. Stirred(js, u[k])
      BY <3>2, <3>5, <3>6, StirredAgain
    <3> QED
      BY <1>1, <3>7
  <2> HIDE DEF unblocked
  <2> QED
    BY <1>1, <2>1, <2>2, UpTo
<1>10. \A k \in 0..Len(js) : k \in blocked
  <2>1. 0 \in blocked
    <3>1. Len(js) \in unblocked
      <4> HIDE DEF unblocked
      <4> QED
        BY <1>1, <1>9
    <3>2. b[0] = u[Len(js)]
      BY <1>1, <1>7
    <3> QED
      BY <1>1, <3>1, <3>2
  <2>2. ASSUME NEW k \in 1..Len(js), k - 1 \in blocked
        PROVE  k \in blocked
    <3>1. PICK vs : vs = b[k-1]
      OBVIOUS
    <3>2. Stirred(js, vs)
      BY <2>2, <3>1
    <3>3. IsSeq(vs) /\ DOMAIN vs = DOMAIN js /\ \A i \in DOMAIN vs : RowOk(vs[i])
      BY <3>2, RowsStirred
    <3>4. k \in DOMAIN vs
      BY <1>1, <3>3
    <3>5. Stirred(vs, Block(vs, k))
      BY <3>3, <3>4, UnblockIs
    <3>6. b[k] = Block(vs, k)
      BY <1>1, <1>7, <3>1
    <3>7. Stirred(js, b[k])
      BY <3>2, <3>5, <3>6, StirredAgain
    <3> QED
      BY <1>1, <3>7
  <2> HIDE DEF blocked
  <2> QED
    BY <1>1, <2>1, <2>2, UpTo
<1>11. Len(js) \in blocked
  <2> HIDE DEF blocked
  <2> QED
    BY <1>1, <1>10
<1> QED
  BY <1>8, <1>11

\* What a plan becomes when it is resolved.
LEMMA ResolvedKind ==
    ASSUME NEW p, PlanIs(p), NoneApart
    PROVE  ResolvePlan(p).kind = p.kind
<1>1. CASE p.kind = "CALIB_MASTER"
  <2>1. PICK w : ResolvePlan(p) = [p EXCEPT !.with = w]
    BY <1>1 DEF ResolvePlan
  <2> QED
    BY <2>1, KindIs
<1>2. CASE p.kind = "PROJECT_REFERENCE"
  <2>1. PICK w : ResolvePlan(p) = [p EXCEPT !.groups = w]
    BY <1>2 DEF ResolvePlan
  <2> QED
    BY <2>1, KindIs
<1>3. CASE p.kind = "NIGHT_STACK"
  <2>1. PICK w, r : ResolvePlan(p) = [p EXCEPT !.groups = w, !.reference = r]
    BY <1>3 DEF ResolvePlan
  <2> QED
    BY <2>1, KindIs
<1> QED
  BY <1>1, <1>2, <1>3, KindIs DEF PlanIs

LEMMA ResolvedStack ==
    ASSUME NEW p, StackOk(p), \A q \in JobRefs(Refs(p)) : Built([job |-> q]) # {}, NoneApart
    PROVE  ResolvePlan(p) = FullIn(jobs, p) /\ AllBuilt(jobs, p)
<1>1. \A r : Built(r) = BuiltIn(jobs, r)
  BY DEF Built, BuiltIn
<1>2. \A r \in Refs(p) : IsJobRef(r) => BuiltIn(jobs, r) # {}
  <2>1. SUFFICES ASSUME NEW r \in Refs(p), IsJobRef(r)
                 PROVE  BuiltIn(jobs, r) # {}
    OBVIOUS
  <2>2. r.job \in JobRefs(Refs(p))
    BY <2>1 DEF JobRefs, IsJobRef
  <2>3. Built([job |-> r.job]) # {}
    BY <2>2
  <2> QED
    BY <2>3 DEF Built, BuiltIn
<1>3. \A r \in Refs(p) : Fixed(r) = FixedIn(jobs, r)
  <2>1. SUFFICES ASSUME NEW r \in Refs(p)
                 PROVE  Fixed(r) = FixedIn(jobs, r)
    OBVIOUS
  <2>2. IsRef(r)
    BY RefsOfStack
  <2>3. CASE IsJobRef(r)
    <3>1. r # None /\ r = [job |-> r.job]
      BY <2>2, <2>3 DEF IsRef, IsJobRef
    <3>2. "sha" \notin DOMAIN r
      BY <3>1
    <3> QED
      BY <1>1, <1>2, <2>3, <3>1, <3>2 DEF Fixed, FixedIn
  <2>4. CASE ~IsJobRef(r)
    <3>1. r = None \/ "sha" \in DOMAIN r
      BY <2>2, <2>4 DEF IsRef, IsJobRef
    <3> QED
      BY <2>4, <3>1 DEF Fixed, FixedIn
  <2> QED
    BY <2>3, <2>4
<1>4. \A g \in p.groups : [g EXCEPT !.dark = Fixed(g.dark), !.flat = Fixed(g.flat)] = FullGroup(jobs, g)
  <2>1. ASSUME NEW g \in p.groups
        PROVE  [g EXCEPT !.dark = Fixed(g.dark), !.flat = Fixed(g.flat)] = FullGroup(jobs, g)
    <3>1. Fixed(g.dark) = FixedIn(jobs, g.dark) /\ Fixed(g.flat) = FixedIn(jobs, g.flat)
      BY <1>3, RefsOfStack
    <3> QED
      BY <3>1 DEF FullGroup
  <2> QED
    BY <2>1
<1>5. {[g EXCEPT !.dark = Fixed(g.dark), !.flat = Fixed(g.flat)] : g \in p.groups} = {FullGroup(jobs, g) : g \in p.groups}
  BY <1>4
<1>6. Fixed(p.reference) = FixedIn(jobs, p.reference)
  BY <1>3, RefsOfStack
<1>7. p.kind = "NIGHT_STACK"
  BY DEF StackOk
<1>8. ResolvePlan(p) = [p EXCEPT !.groups = {[g EXCEPT !.dark = Fixed(g.dark), !.flat = Fixed(g.flat)] : g \in p.groups}, !.reference = Fixed(p.reference)]
  BY <1>7 DEF ResolvePlan
<1>9. ResolvePlan(p) = FullIn(jobs, p)
  BY <1>5, <1>6, <1>8 DEF FullIn
<1> QED
  BY <1>2, <1>9 DEF AllBuilt

LEMMA StartIs ==
    ASSUME NoneApart, ListOk(jobs), Start
    PROVE  /\ ListOk(jobs') /\ DOMAIN jobs' = DOMAIN jobs
           /\ \A i \in DOMAIN jobs : /\ jobs'[i].plan = jobs[i].plan
                                     /\ jobs'[i].status = "succeeded" <=> jobs[i].status = "succeeded"
           /\ (\A i \in DOMAIN jobs : jobs[i].status # "running") =>
                 \A i \in DOMAIN jobs' : jobs'[i].status = "running" <=> i = running'
           /\ running' \in Nat /\ (running' # 0 => running' \in DOMAIN jobs)
<1> DEFINE js    == Settled(jobs)
           ready == {i \in DOMAIN js : Ready(js, i)}
           able  == {i \in ready : Resolvable(i)}
           next  == CHOOSE i \in able : \A j \in able \ {i} : Sooner(i, j)
           stuck == {i \in ready \ able : able = {} \/ Sooner(i, next)}
           waits == [i \in DOMAIN js |-> IF i \in stuck THEN [js[i] EXCEPT !.status = "waiting_data"] ELSE js[i]]
           full  == ResolvePlan(jobs[next].plan)
<1>1. /\ able = {} => jobs' = waits /\ running' = 0
      /\ able # {} => /\ running' = next
                      /\ jobs' = [waits EXCEPT ![next].status = "running", ![next].resolved = IF full = jobs[next].plan THEN @ ELSE full]
  BY DEF Start
<1>2. IsSeq(jobs) /\ Len(jobs) \in Nat /\ DOMAIN jobs = 1..Len(jobs) /\ \A i \in DOMAIN jobs : RowOk(jobs[i])
  BY SeqIs DEF ListOk
<1>3. PICK J : J = js
  OBVIOUS
<1>4. Stirred(jobs, J)
  BY <1>2, <1>3, SettledIs
<1>5. IsSeq(J) /\ DOMAIN J = DOMAIN jobs /\ \A i \in DOMAIN J : RowOk(J[i])
  BY <1>2, <1>4, RowsStirred
<1>6. PICK W : W = waits
  OBVIOUS
<1>7. PICK S : S = stuck
  OBVIOUS
<1>8. /\ W = [i \in DOMAIN J |-> IF i \in S THEN [J[i] EXCEPT !.status = "waiting_data"] ELSE J[i]]
      /\ S \subseteq ready
  BY <1>3, <1>6, <1>7
<1>9. \A i \in ready : i \in DOMAIN J /\ J[i].status \in Waiting
  BY <1>3 DEF Ready
<1>10. Stirred(J, W)
  <2>1. IsSeq(W) /\ DOMAIN W = DOMAIN J
    <3>1. W = [i \in 1..Len(jobs) |-> W[i]]
      BY <1>2, <1>5, <1>8
    <3>2. Len(jobs) \in Nat
      BY <1>2
    <3>3. IsSeq(W)
      BY <3>1, <3>2, MadeSeq, Zenon
    <3> QED
      BY <1>8, <3>3
  <2>2. ASSUME NEW i \in DOMAIN J
        PROVE  /\ DOMAIN W[i] = DOMAIN J[i] /\ W[i].plan = J[i].plan /\ W[i].resolved = J[i].resolved
               /\ W[i].status = J[i].status \/ (W[i].status \in Stirs /\ J[i].status \in Stirs)
    <3>1. CASE i \in S
      <4>1. W[i] = [J[i] EXCEPT !.status = "waiting_data"]
        BY <1>8, <3>1
      <4>2. DOMAIN W[i] = DOMAIN J[i] /\ W[i].plan = J[i].plan /\ W[i].resolved = J[i].resolved /\ W[i].status = "waiting_data"
        BY <1>5, <4>1 DEF RowOk
      <4>3. J[i].status \in Waiting
        BY <1>8, <1>9, <3>1
      <4> QED
        BY <4>2, <4>3 DEF Stirs, Waiting
    <3>2. CASE i \notin S
      BY <1>8, <3>2
    <3> QED
      BY <3>1, <3>2
  <2> QED
    BY <2>1, <2>2 DEF Stirred
<1>11. Stirred(jobs, W)
  BY <1>4, <1>10, StirredAgain
<1>12. ListOk(W) /\ SameBuilt(jobs, W)
  BY <1>11, StirredKeeps
<1>13. \A i \in DOMAIN jobs : /\ W[i].plan = jobs[i].plan /\ W[i].resolved = jobs[i].resolved
                              /\ W[i].status = "succeeded" <=> jobs[i].status = "succeeded"
                              /\ W[i].status = "running" <=> jobs[i].status = "running"
  BY <1>11 DEF Stirred, Stirs
<1>14. DOMAIN W = DOMAIN jobs
  BY <1>11 DEF Stirred
<1>15. CASE able = {}
  <2>1. jobs' = W /\ running' = 0
    BY <1>1, <1>6, <1>15
  <2>2. \A i \in DOMAIN W : i # 0
    BY <1>2, <1>14
  <2> QED
    BY <1>12, <1>13, <1>14, <2>1, <2>2
<1>16. CASE able # {}
  <2>1. PICK n : n = next
    OBVIOUS
  <2>2. n \in able
    <3> DEFINE sooner == {p \in able \X able : Sooner(p[1], p[2])}
    <3>1. able \subseteq 1..Len(jobs) /\ IsFiniteSet(1..Len(jobs))
      BY <1>2, <1>3, <1>5, FS_Interval
    <3>2. IsFiniteSet(able)
      <4> HIDE DEF able
      <4> QED
        BY <3>1, FS_Subset
    <3>3. \A i : Priority(i) \in {0, 1, 2}
      BY DEF Priority
    <3>4. \A x \in able : <<x, x>> \notin sooner
      <4> HIDE DEF able
      <4> QED
        BY <1>2, <3>1, <3>3 DEF Sooner
    <3>5. \A x, y, z \in able : <<x, y>> \in sooner /\ <<y, z>> \in sooner => <<x, z>> \in sooner
      <4> HIDE DEF able
      <4>1. SUFFICES ASSUME NEW x \in able, NEW y \in able, NEW z \in able, Sooner(x, y), Sooner(y, z)
                     PROVE  Sooner(x, z)
        OBVIOUS
      <4>2. x \in Int /\ y \in Int /\ z \in Int /\ Priority(x) \in Int /\ Priority(y) \in Int /\ Priority(z) \in Int
        BY <1>2, <3>1, <3>3
      <4> QED
        BY <4>1, <4>2 DEF Sooner
    <3>6. PICK m \in able : \A o \in able : <<o, m>> \notin sooner
      <4> HIDE DEF able, sooner
      <4> QED
        BY <1>16, <3>2, <3>4, <3>5, MinimalElement
    <3>7. \A o \in able \ {m} : Sooner(m, o)
      <4>1. SUFFICES ASSUME NEW o \in able, o # m
                     PROVE  Sooner(m, o)
        OBVIOUS
      <4>2. ~Sooner(o, m)
        BY <3>6
      <4>3. o \in Int /\ m \in Int /\ Priority(o) \in Int /\ Priority(m) \in Int
        <5> HIDE DEF able
        <5> QED
          BY <1>2, <3>1, <3>3
      <4> QED
        BY <4>1, <4>2, <4>3 DEF Sooner
    <3> HIDE DEF able
    <3> QED
      BY <2>1, <3>7
  <2>3. n \in DOMAIN jobs /\ J[n].status \in Waiting /\ Resolvable(n)
    BY <1>3, <1>5, <1>9, <2>2
  <2>4. PICK p, F : p = jobs[n].plan /\ F = ResolvePlan(p)
    OBVIOUS
  <2>5. running' = n /\ jobs' = [W EXCEPT ![n].status = "running", ![n].resolved = IF F = p THEN @ ELSE F]
    <3> HIDE DEF able, next, waits
    <3> QED
      BY <1>1, <1>6, <1>16, <2>1, <2>4
  <2>6. PICK us : us = jobs'
    OBVIOUS
  <2>7. RowOk(W[n]) /\ W[n].plan = p
    BY <1>12, <1>13, <1>14, <2>3, <2>4 DEF ListOk
  <2>8. /\ DOMAIN us = DOMAIN W /\ (\A i \in DOMAIN W \ {n} : us[i] = W[i])
        /\ us[n] = [W[n] EXCEPT !.status = "running", !.resolved = IF F = p THEN @ ELSE F]
    BY <1>14, <2>3, <2>5, <2>6
  <2>9. /\ DOMAIN us[n] = DOMAIN W[n] /\ us[n].plan = p /\ us[n].status = "running"
        /\ us[n].resolved = IF F = p THEN W[n].resolved ELSE F
    BY <2>7, <2>8 DEF RowOk
  <2>10. IsSeq(us)
    <3>1. us = [i \in 1..Len(jobs) |-> us[i]]
      BY <1>2, <1>14, <2>5, <2>6
    <3>2. Len(jobs) \in Nat
      BY <1>2
    <3> QED
      BY <3>1, <3>2, MadeSeq, Zenon
  <2>11. PlanIs(p) /\ F.kind = p.kind
    BY <2>4, <2>7, ResolvedKind DEF RowOk
  <2>12. RowOk(us[n])
    <3>1. DOMAIN us[n] = {"plan", "depends", "status", "resolved"} /\ us[n].status \in Statuses /\ PlanIs(us[n].plan)
      BY <2>7, <2>9, <2>11 DEF RowOk, Statuses
    <3>2. us[n].resolved # None => us[n].resolved.kind = us[n].plan.kind
      BY <2>7, <2>9, <2>11 DEF RowOk
    <3> QED
      BY <3>1, <3>2 DEF RowOk
  <2>13. W[n].status \in Stirs
    BY <1>5, <1>10, <2>3 DEF Stirred, Stirs, Waiting
  <2>14. StackOk(p) => F = FullIn(W, p) /\ AllBuilt(W, p)
    <3>1. SUFFICES ASSUME StackOk(p)
                   PROVE  F = FullIn(W, p) /\ AllBuilt(W, p)
      OBVIOUS
    <3>2. \A q \in JobRefs(Refs(p)) : Built([job |-> q]) # {}
      BY <2>3, <2>4 DEF Resolvable
    <3>3. F = FullIn(jobs, p) /\ AllBuilt(jobs, p)
      BY <2>4, <3>1, <3>2, ResolvedStack
    <3>4. FullIn(W, p) = FullIn(jobs, p)
      BY <1>12, <3>1, SameFull DEF SameBuilt
    <3>5. AllBuilt(W, p)
      BY <1>12, <3>3 DEF AllBuilt, SameBuilt
    <3> QED
      BY <3>3, <3>4, <3>5
  <2>15. ASSUME StackOk(p)
         PROVE  /\ us[n].resolved # None => us[n].resolved = FullIn(W, p) /\ AllBuilt(W, p)
                /\ us[n].resolved # None \/ NoJobs(p)
    <3>1. StackRow(W, W[n])
      BY <1>12, <1>14, <2>3, <2>7, <2>15 DEF ListOk
    <3>2. CASE F = p
      <4>1. NoJobs(p)
        BY <2>14, <2>15, <3>2, FullHasNoJobs
      <4> QED
        BY <2>7, <2>9, <3>1, <3>2, <4>1 DEF StackRow
    <3>3. CASE F # p
      <4>1. StackOk(F)
        BY <2>14, <2>15, FullIs
      <4>2. F # None
        BY <4>1, KindIs DEF PlanIs
      <4> QED
        BY <2>9, <2>14, <2>15, <3>3, <4>2
    <3> QED
      BY <3>2, <3>3
  <2>16. \A i \in DOMAIN W : RowKept(W, us, i)
    <3>1. SUFFICES ASSUME NEW i \in DOMAIN W
                   PROVE  RowKept(W, us, i)
      OBVIOUS
    <3>2. RowOk(W[i]) /\ (StackOk(W[i].plan) => StackRow(W, W[i]))
      BY <1>12 DEF ListOk
    <3>3. CASE i = n
      BY <2>7, <2>9, <2>12, <2>13, <2>15, <3>3 DEF Stirs, Gone, RowKept
    <3>4. CASE i # n
      BY <2>8, <3>2, <3>4 DEF StackRow, Gone, RowKept
    <3> QED
      BY <3>3, <3>4
  <2>17. ListOk(us)
    BY <1>12, <2>8, <2>10, <2>16, ListKept
  <2>18. n \in Nat
    BY <1>2, <2>3
  <2>19. (\A i \in DOMAIN jobs : jobs[i].status # "running") => \A i \in DOMAIN us : us[i].status = "running" <=> i = n
    BY <1>13, <1>14, <2>3, <2>8, <2>9
  <2>20. \A i \in DOMAIN jobs : us[i].plan = jobs[i].plan /\ (us[i].status = "succeeded" <=> jobs[i].status = "succeeded")
    BY <1>13, <1>14, <2>16 DEF RowKept
  <2>21. running' = n /\ n \in DOMAIN jobs
    BY <2>3, <2>5
  <2>22. DOMAIN jobs' = DOMAIN jobs
    BY <1>14, <2>6, <2>8
  <2> HIDE DEF js, ready, able
  <2> QED
    BY <2>6, <2>17, <2>18, <2>19, <2>20, <2>21, <2>22
<1> QED
  BY <1>15, <1>16

(***************************************************************************)
(* The masters that a plan may name, and what it has of them               *)
(***************************************************************************)
ShaMade(js, x) == x \in Nat => x \in DOMAIN js /\ js[x].status = "succeeded"
MastersOk(ms, js) == /\ IsSeq(ms)
                     /\ \A i \in DOMAIN ms : /\ DOMAIN ms[i] = MasterFields \cup {"sha", "inputs", "imported", "superseded"}
                                             /\ MasterTyped(ms[i]) /\ ms[i].sha # None /\ ShaMade(js, ms[i].sha)

\* A calibration job of subs that no master was made of.
CalibNew(p) == CalibOk(p) /\ \A f \in p.inputs : frames[f] = "valid"
\* One that may be matched: a master, or what a job of this plan will make.
Source(m) == /\ Ordered(m)
             /\ m.sha # None => ShaMade(jobs, m.sha)
             /\ m.sha = None => CalibNew(m.job)
Sources(C) == IsFiniteSet(C) /\ \A m \in C : Source(m)

LEMMA SourcesAreCandidates == \A C : Sources(C) => Candidates(C)
BY DEF Sources, Source, Candidates

LEMMA LibraryIs ==
    ASSUME MastersOk(masters, jobs)
    PROVE  Sources(Library)
<1> DEFINE live == {k \in DOMAIN masters : ~masters[k].superseded}
<1>1. Len(masters) \in Nat /\ DOMAIN masters = 1..Len(masters)
  BY SeqIs DEF MastersOk
<1>2. IsFiniteSet(live)
  <2>1. IsFiniteSet(1..Len(masters))
    BY <1>1, FS_Interval
  <2> QED
    BY <1>1, <2>1, FS_Subset
<1>3. PICK h : h = [i \in live |-> With(masters[i], [order |-> i, job |-> None])]
  OBVIOUS
<1>4. Library = {h[i] : i \in live}
  BY <1>3 DEF Library
<1>5. IsFiniteSet(Library)
  <2> HIDE DEF live
  <2> QED
    BY <1>2, <1>4, FiniteImage
<1>6. ASSUME NEW i \in live
      PROVE  Source(h[i])
  <2>1. PICK m, x : m = masters[i] /\ x = h[i]
    OBVIOUS
  <2>2. x = With(m, [order |-> i, job |-> None])
    BY <1>3, <2>1
  <2>3. DOMAIN m = MasterFields \cup {"sha", "inputs", "imported", "superseded"} /\ MasterTyped(m) /\ m.sha # None /\ ShaMade(jobs, m.sha)
    BY <2>1 DEF MastersOk
  <2>4. DOMAIN x = DOMAIN m \cup {"order", "job"}
    BY <2>2 DEF With
  <2>5. x.temp = m.temp /\ x.night = m.night /\ x.n = m.n /\ x.sha = m.sha /\ x.order = i
    BY <2>2, <2>3 DEF With, MasterFields
  <2>6. i \in Int
    BY <1>1
  <2>7. ~IsMiss(x)
    BY <2>3, <2>4 DEF IsMiss, MasterFields
  <2> QED
    BY <2>1, <2>3, <2>5, <2>6, <2>7 DEF Source, Ordered, MasterTyped
<1> QED
  BY <1>4, <1>5, <1>6 DEF Sources

(***************************************************************************)
(* The calibration jobs of a night                                         *)
(***************************************************************************)
LEMMA FramesFinite ==
    ASSUME NEW S, S \subseteq Frame
    PROVE  IsFiniteSet(S) /\ Cardinality(S) \in Nat
BY PlannerAssumption, FS_Subset, FS_CardinalityType

LEMMA FirstRow ==
    ASSUME NEW S, S \subseteq Frame, S # {}
    PROVE  Rows(S)[1] \in S
<1> DEFINE sooner == {p \in S \X S : Info[p[1]].at < Info[p[2]].at}
<1>1. IsFiniteSet(S) /\ Cardinality(S) \in Nat /\ Cardinality(S) # 0
  BY FramesFinite, FS_EmptySet
<1>2. \A f \in S : Info[f].at \in Int
  BY HeadersTyped
<1>3. PICK m \in S : \A o \in S : <<o, m>> \notin sooner
  <2>1. \A x \in S : <<x, x>> \notin sooner
    BY <1>2
  <2>2. \A x, y, z \in S : <<x, y>> \in sooner /\ <<y, z>> \in sooner => <<x, z>> \in sooner
    BY <1>2
  <2> HIDE DEF sooner
  <2> QED
    BY <1>1, <2>1, <2>2, MinimalElement
<1>4. {g \in S : Info[g].at < Info[m].at} = {}
  BY <1>3
<1>5. Cardinality({g \in S : Info[g].at < Info[m].at}) = 1 - 1
  BY <1>4, FS_EmptySet
<1>6. PICK c : c = CHOOSE f \in S : Cardinality({g \in S : Info[g].at < Info[f].at}) = 1 - 1
  OBVIOUS
<1>7. c \in S
  BY <1>5, <1>6
<1>8. 1 \in 1..Cardinality(S)
  BY <1>1
<1>9. Rows(S)[1] = c
  BY <1>6, <1>8 DEF Rows
<1> QED
  BY <1>7, <1>9

LEMMA MedianOfTemps ==
    ASSUME NEW S, S \subseteq Frame
    PROVE  Median(S, [f \in S |-> Info[f].temp]) \in Int \cup {None}
<1>1. IsFiniteSet(S)
  BY FramesFinite
<1>2. PICK v : v = [f \in S |-> Info[f].temp]
  OBVIOUS
<1>3. \A f \in S : v[f] \in Int \cup {None}
  BY <1>2, HeadersTyped
<1>4. Median(S, v) \in Int \cup {None}
  BY <1>1, <1>3, MedianTyped
<1> QED
  BY <1>2, <1>4

LEMMA SubGroupsAre ==
    ASSUME NEW subs, subs \subseteq Frame, NEW kind, NEW pos
    PROVE  /\ IsSeq(SubGroups(subs, kind, pos))
           /\ \A k \in DOMAIN SubGroups(subs, kind, pos) :
                 SubGroups(subs, kind, pos)[k] # {} /\ SubGroups(subs, kind, pos)[k] \subseteq subs
<1> DEFINE some == {x \in subs : Info[x].type = kind}
           group(f) == {g \in subs : Info[g].type = kind /\ CalibKey(g, pos[g]) = CalibKey(f, pos[f])}
<1>1. PICK h : h = [f \in some |-> group(f)]
  OBVIOUS
<1>2. PICK G : G = {h[f] : f \in some}
  OBVIOUS
<1>3. SubGroups(subs, kind, pos) = SetToSeq(G)
  BY <1>1, <1>2 DEF SubGroups
<1>4. IsFiniteSet(G)
  <2>1. IsFiniteSet(some)
    BY FramesFinite
  <2> HIDE DEF some
  <2> QED
    BY <1>2, <2>1, FiniteImage
<1>5. \A S \in G : S # {} /\ S \subseteq subs
  BY <1>1, <1>2
<1>6. IsSeq(SetToSeq(G)) /\ \A k \in DOMAIN SetToSeq(G) : SetToSeq(G)[k] \in G
  BY <1>4, SetToSeqIs
<1> QED
  BY <1>3, <1>5, <1>6

LEMMA MasterOfIs ==
    ASSUME NEW n \in Int, NEW S, S \subseteq Frame, NEW pos
    PROVE  DOMAIN MasterOf(n, S, pos) = MasterFields /\ MasterTyped(MasterOf(n, S, pos))
<1> DEFINE first == Info[Rows(S)[1]]
           exps  == Median(S, [x \in S |-> Info[x].exposure])
           temps == Median(S, [x \in S |-> Info[x].temp])
           focs  == Median(S, [x \in S |-> Info[x].focal])
           count == Cardinality(S)
<1>1. MasterOf(n, S, pos) = [kind |-> first.type, rig |-> first.rig, filter |-> IF first.type = "FLAT" THEN first.filter ELSE None,
                             sensor |-> first.sensor, size |-> first.size, pos |-> IF first.type = "FLAT" THEN pos ELSE None,
                             exposure |-> exps, temp |-> temps, focal |-> focs, night |-> n, n |-> count, at |-> Middle(S)]
  BY DEF MasterOf
<1>2. temps \in Int \cup {None} /\ count \in Int
  BY MedianOfTemps, FramesFinite
<1> HIDE DEF first, exps, temps, focs, count
<1>3. PICK m : m = MasterOf(n, S, pos)
  BY Zenon
<1>4. DOMAIN m = MasterFields /\ m.temp = temps /\ m.night = n /\ m.n = count
  BY <1>1, <1>3 DEF MasterFields
<1> QED
  BY <1>2, <1>3, <1>4 DEF MasterTyped

\* Calibration jobs as _plan_calibration makes them, with the masters they will make.
CalibAcc(acc) == /\ DOMAIN acc = {"jobs", "pending", "issues"}
                 /\ IsSeq(acc.jobs) /\ (\A k \in DOMAIN acc.jobs : CalibNew(acc.jobs[k].plan))
                 /\ Sources(acc.pending)

LEMMA PendingIs ==
    ASSUME NEW m, DOMAIN m = MasterFields, MasterTyped(m), NEW p, CalibNew(p), NEW S, NEW o \in Int,
           NEW x, x = With(m, [sha |-> None, job |-> p, inputs |-> S, order |-> o])
    PROVE  Source(x)
<1>1. DOMAIN x = MasterFields \cup {"sha", "job", "inputs", "order"}
  BY DEF With
<1>2. x.temp = m.temp /\ x.night = m.night /\ x.n = m.n /\ x.sha = None /\ x.job = p /\ x.order = o
  BY DEF With, MasterFields
<1>3. ~IsMiss(x)
  BY <1>1 DEF IsMiss, MasterFields
<1> QED
  BY <1>2, <1>3 DEF Source, Ordered, MasterTyped

LEMMA CalibMasterIs ==
    ASSUME NEW acc, CalibAcc(acc), NEW m, DOMAIN m = MasterFields, MasterTyped(m),
           NEW S, S # {}, S \subseteq Frame, \A f \in S : ~IsLight(f) /\ frames[f] = "valid",
           NEW us, us = CalibMaster(acc, S, m)
    PROVE  CalibAcc(us)
<1> DEFINE pending(p, P) == P \cup {With(m, [sha |-> None, job |-> p, inputs |-> S, order |-> 1000 + Cardinality(P)])}
       AsPlanned(w, d, p) ==
           /\ p = [kind |-> "CALIB_MASTER", master |-> m, inputs |-> S, with |-> w, night |-> m.night]
           /\ us = [acc EXCEPT !.jobs = Append(@, [plan |-> p, depends |-> d]), !.pending = pending(p, acc.pending)]
<1>1. \/ us = acc
      \/ \E is : us = [acc EXCEPT !.issues = is]
      \/ \E w, d, p : AsPlanned(w, d, p)
  <2>1. PICK dark : us = CalibJob(acc, S, m, dark)
    BY DEF CalibMaster
  <2>2. PICK w, p : /\ w = IF m.kind = "FLAT" THEN {Ref(dark)} ELSE {}
                    /\ p = [kind |-> "CALIB_MASTER", master |-> m, inputs |-> S, with |-> w, night |-> m.night]
    OBVIOUS
  <2>3. us = IF S \in {x.inputs : x \in Library} THEN acc
             ELSE IF IsMiss(dark) THEN [acc EXCEPT !.issues = Append(@, CalibIssue(m.night, dark, m))]
             ELSE [acc EXCEPT !.jobs = Append(@, [plan |-> p, depends |-> JobRefs(w)]), !.pending = pending(p, @)]
    BY <2>1, <2>2 DEF CalibJob
  <2>4. PICK d : d = JobRefs(w)
    OBVIOUS
  <2>5. CASE S \in {x.inputs : x \in Library}
    BY <2>3, <2>5
  <2>6. CASE S \notin {x.inputs : x \in Library} /\ IsMiss(dark)
    <3>1. PICK is : is = Append(acc.issues, CalibIssue(m.night, dark, m))
      OBVIOUS
    <3>2. us = [acc EXCEPT !.issues = is]
      <4> HIDE DEF pending, AsPlanned
      <4> QED
        BY <2>3, <2>6, <3>1
    <3> HIDE DEF pending, AsPlanned
    <3> QED
      BY <3>2
  <2>7. CASE S \notin {x.inputs : x \in Library} /\ ~IsMiss(dark)
    <3>1. us = [acc EXCEPT !.jobs = Append(@, [plan |-> p, depends |-> d]), !.pending = pending(p, acc.pending)]
      BY <2>3, <2>4, <2>7
    <3>2. AsPlanned(w, d, p)
      BY <2>2, <3>1
    <3> HIDE DEF AsPlanned
    <3> QED
      BY <3>2
  <2> HIDE DEF pending, AsPlanned
  <2> QED
    BY <2>5, <2>6, <2>7, Zenon
<1>2. CASE us = acc
  BY <1>2
<1>3. ASSUME NEW is, us = [acc EXCEPT !.issues = is]
      PROVE  CalibAcc(us)
  <2>1. DOMAIN us = DOMAIN acc /\ us.jobs = acc.jobs /\ us.pending = acc.pending
    BY <1>3 DEF CalibAcc
  <2> QED
    BY <2>1 DEF CalibAcc
<1>4. ASSUME NEW w, NEW d, NEW p, p = [kind |-> "CALIB_MASTER", master |-> m, inputs |-> S, with |-> w, night |-> m.night],
             us = [acc EXCEPT !.jobs = Append(@, [plan |-> p, depends |-> d]), !.pending = pending(p, acc.pending)]
      PROVE  CalibAcc(us)
  <2>0. PICK j : j = [plan |-> p, depends |-> d]
    BY Zenon
  <2>1. PICK x : x = With(m, [sha |-> None, job |-> p, inputs |-> S, order |-> 1000 + Cardinality(acc.pending)])
    BY Zenon
  <2>2. DOMAIN us = DOMAIN acc /\ us.jobs = Append(acc.jobs, j) /\ us.pending = acc.pending \cup {x}
    <3>1. PICK P : P = pending(p, acc.pending)
      BY Zenon
    <3>2. us = [acc EXCEPT !.jobs = Append(@, j), !.pending = P]
      BY <1>4, <2>0, <3>1
    <3>3. DOMAIN us = DOMAIN acc /\ us.jobs = Append(acc.jobs, j) /\ us.pending = P
      BY <3>2 DEF CalibAcc
    <3> QED
      BY <2>0, <2>1, <3>1, <3>3
  <2>3. CalibNew(p)
    <3>1. DOMAIN p = {"kind", "master", "inputs", "with", "night"} /\ p.kind = "CALIB_MASTER" /\ p.master = m /\ p.inputs = S
      BY <1>4
    <3>2. S \subseteq Frame /\ \A f \in S : f \in Frame /\ ~IsLight(f) /\ frames[f] = "valid"
      OBVIOUS
    <3> QED
      BY <3>1, <3>2 DEF CalibNew, CalibOk
  <2>4. IsFiniteSet(acc.pending) /\ 1000 + Cardinality(acc.pending) \in Int
    BY FS_CardinalityType DEF CalibAcc, Sources
  <2>5. Source(x)
    <3>1. PICK o : o = 1000 + Cardinality(acc.pending)
      OBVIOUS
    <3>2. o \in Int /\ x = With(m, [sha |-> None, job |-> p, inputs |-> S, order |-> o])
      BY <2>1, <2>4, <3>1
    <3> QED
      BY <2>3, <3>2, PendingIs, Zenon
  <2>6. Sources(us.pending)
    BY <2>2, <2>4, <2>5, FS_AddElement DEF CalibAcc, Sources
  <2>7. IsSeq(us.jobs) /\ \A k \in DOMAIN us.jobs : CalibNew(us.jobs[k].plan)
    <3>1. PICK s, t : s = acc.jobs /\ t = us.jobs
      OBVIOUS
    <3>2. IsSeq(s) /\ (\A k \in DOMAIN s : CalibNew(s[k].plan)) /\ t = Append(s, j)
      BY <2>2, <3>1 DEF CalibAcc
    <3>3. Added(s, j, t)
      BY <3>2, AppendAdds
    <3>4. j.plan = p
      BY <2>0
    <3> QED
      BY <2>3, <3>1, <3>2, <3>3, <3>4 DEF Added
  <2> QED
    BY <2>2, <2>6, <2>7 DEF CalibAcc
<1>5. ASSUME NEW w, NEW d, NEW p, AsPlanned(w, d, p)
      PROVE  CalibAcc(us)
  <2> HIDE DEF pending
  <2> QED
    BY <1>4, <1>5
<1> HIDE DEF pending, AsPlanned
<1> QED
  BY <1>1, <1>2, <1>3, <1>5, Zenon

LEMMA TurnsAre ==
    ASSUME NEW subs, subs \subseteq Frame, NEW pos
    PROVE  IsSeq(Turns(subs, pos)) /\ \A k \in DOMAIN Turns(subs, pos) : Turns(subs, pos)[k] # {} /\ Turns(subs, pos)[k] \subseteq subs
<1>1. PICK ss : ss = [k \in 1..4 |-> SubGroups(subs, CALIB_ORDER[k], pos)]
  OBVIOUS
<1>2. DOMAIN CALIB_ORDER = 1..4
  BY DEF CALIB_ORDER
<1>3. Turns(subs, pos) = FlattenSeq(ss)
  BY <1>1, <1>2 DEF Turns
<1>4. IsSeq(ss) /\ DOMAIN ss = 1..4
  <2>1. ss = [k \in 1..4 |-> ss[k]] /\ 4 \in Nat
    BY <1>1
  <2> QED
    BY <2>1, MadeSeq, Zenon
<1>5. \A k \in DOMAIN ss : IsSeq(ss[k]) /\ \A i \in DOMAIN ss[k] : ss[k][i] # {} /\ ss[k][i] \subseteq subs
  BY <1>1, <1>4, SubGroupsAre
<1>6. /\ IsSeq(FlattenSeq(ss))
      /\ \A k \in DOMAIN FlattenSeq(ss) : \E i \in DOMAIN ss : \E j \in DOMAIN ss[i] : FlattenSeq(ss)[k] = ss[i][j]
  BY <1>4, <1>5, FlattenSeqIs
<1> QED
  BY <1>3, <1>5, <1>6

LEMMA CalibTurnsAre ==
    ASSUME NEW n, NEW pos, NEW turns, Len(turns) \in Nat
    PROVE  \E g : /\ CalibTurns(n, pos, turns) = g[Len(turns)]
                  /\ g[0] = [jobs |-> <<>>, pending |-> {}, issues |-> <<>>]
                  /\ \A k \in 1..Len(turns) : g[k] = CalibTurn(n, pos, g[k-1], turns[k])
<1>1. PICK base : base = [jobs |-> <<>>, pending |-> {}, issues |-> <<>>]
  OBVIOUS
<1> DEFINE Is(g, k) == g = [i \in 0..k |-> IF i = 0 THEN base ELSE CalibTurn(n, pos, g[i-1], turns[i])]
<1>2. \E g : Is(g, Len(turns))
  <2> DEFINE good == {k \in Nat : \E g : Is(g, k)}
  <2>1. 0 \in good
    <3>1. Is([i \in 0..0 |-> base], 0)
      OBVIOUS
    <3> QED
      BY <3>1
  <2>2. ASSUME NEW k \in 1..Len(turns), k - 1 \in good
        PROVE  k \in good
    <3>1. PICK g : Is(g, k - 1)
      BY <2>2
    <3> DEFINE h == [i \in 0..k |-> IF i = k THEN CalibTurn(n, pos, g[i-1], turns[i]) ELSE g[i]]
    <3>2. Is(h, k)
      <4>1. k \in Nat /\ k # 0
        BY <2>2
      <4>2. \A i \in 0..k : h[i] = IF i = 0 THEN base ELSE CalibTurn(n, pos, h[i-1], turns[i])
        BY <3>1, <4>1
      <4> QED
        BY <4>2
    <3>3. k \in Nat
      BY <2>2
    <3> QED
      BY <3>2, <3>3
  <2>3. \A k \in 0..Len(turns) : k \in good
    <3> HIDE DEF good
    <3> QED
      BY <2>1, <2>2, UpTo
  <2>4. Len(turns) \in good
    BY <2>3
  <2> QED
    BY <2>4
<1>3. PICK g : g = CHOOSE f : Is(f, Len(turns))
  OBVIOUS
<1>4. Is(g, Len(turns))
  BY <1>2, <1>3
<1>5. CalibTurns(n, pos, turns) = g[Len(turns)]
  BY <1>1, <1>3 DEF CalibTurns
<1>6. g[0] = base
  BY <1>4
<1>7. \A k \in 1..Len(turns) : g[k] = CalibTurn(n, pos, g[k-1], turns[k])
  BY <1>4
<1>8. g[0] = [jobs |-> <<>>, pending |-> {}, issues |-> <<>>]
  BY <1>1, <1>6
<1> HIDE DEF Is
<1> QED
  BY <1>5, <1>7, <1>8, Zenon

LEMMA PlanCalibrationIs ==
    ASSUME NEW n
    PROVE  CalibAcc(PlanCalibration(n))
<1> DEFINE subs    == Subs(n)
           flatPos == Positions({f \in Subs(n) : Info[f].type = "FLAT"})
<1>1. subs \subseteq Frame /\ \A f \in subs : ~IsLight(f) /\ frames[f] = "valid" /\ Info[f].night = n
  BY DEF Subs
<1>2. PICK pos : pos = [f \in subs |-> IF Info[f].type = "FLAT" THEN flatPos[f] ELSE None]
  OBVIOUS
<1>3. PICK turns : turns = Turns(subs, pos)
  OBVIOUS
<1>4. IsSeq(turns) /\ \A k \in DOMAIN turns : turns[k] # {} /\ turns[k] \subseteq subs
  BY <1>1, <1>3, TurnsAre
<1>5. Len(turns) \in Nat /\ DOMAIN turns = 1..Len(turns)
  BY <1>4, SeqIs
<1>6. PICK g : /\ CalibTurns(n, pos, turns) = g[Len(turns)]
               /\ g[0] = [jobs |-> <<>>, pending |-> {}, issues |-> <<>>]
               /\ \A k \in 1..Len(turns) : g[k] = CalibTurn(n, pos, g[k-1], turns[k])
  BY <1>5, CalibTurnsAre
<1> DEFINE good == {k \in 0..Len(turns) : CalibAcc(g[k])}
<1>7. 0 \in good
  <2>1. DOMAIN g[0] = {"jobs", "pending", "issues"} /\ g[0].jobs = <<>> /\ g[0].pending = {}
    BY <1>6
  <2>2. IsSeq(<<>>) /\ DOMAIN <<>> = {}
    BY EmptySeq DEF IsSeq
  <2>3. Sources(g[0].pending)
    BY <2>1, FS_EmptySet DEF Sources
  <2>4. IsSeq(g[0].jobs) /\ \A k \in DOMAIN g[0].jobs : CalibNew(g[0].jobs[k].plan)
    BY <2>1, <2>2
  <2>5. CalibAcc(g[0])
    BY <2>1, <2>3, <2>4 DEF CalibAcc
  <2> QED
    BY <1>5, <2>5
<1>8. ASSUME NEW k \in 1..Len(turns), k - 1 \in good
      PROVE  k \in good
  <2>1. PICK acc, S, m : acc = g[k-1] /\ S = turns[k] /\ m = MasterOf(n, S, pos[Rows(S)[1]])
    OBVIOUS
  <2>2. CalibAcc(acc) /\ S # {} /\ S \subseteq subs
    BY <1>4, <1>5, <1>8, <2>1
  <2>3. S \subseteq Frame /\ (\A f \in S : ~IsLight(f) /\ frames[f] = "valid") /\ n \in Int
    BY <1>1, <2>2, HeadersTyped
  <2>4. DOMAIN m = MasterFields /\ MasterTyped(m)
    BY <2>1, <2>3, MasterOfIs
  <2>5. g[k] = CalibMaster(acc, S, m)
    BY <1>6, <2>1 DEF CalibTurn
  <2>6. CalibAcc(g[k])
    BY <2>2, <2>3, <2>4, <2>5, CalibMasterIs
  <2> QED
    BY <1>5, <2>6
<1>9. Len(turns) \in good
  <2> HIDE DEF good
  <2>1. \A k \in 0..Len(turns) : k \in good
    BY <1>5, <1>7, <1>8, UpTo
  <2> QED
    BY <1>5, <2>1
<1>10. PlanCalibration(n) = g[Len(turns)]
  <2>1. PlanCalibration(n) = PlanSubs(n, subs, flatPos)
    BY DEF PlanCalibration
  <2>2. PlanSubs(n, subs, flatPos) = CalibTurns(n, pos, Turns(subs, pos))
    <3> HIDE DEF subs, flatPos
    <3> QED
      BY <1>2 DEF PlanSubs
  <2> QED
    BY <1>3, <1>6, <2>1, <2>2
<1> QED
  BY <1>9, <1>10

(***************************************************************************)
(* The groups of lights of a night                                         *)
(***************************************************************************)
LightGroup(g) == /\ DOMAIN g = {"target", "filter", "lights", "need"} /\ g.target \in Target
                 /\ (\A f \in g.lights : f \in Frame /\ IsLight(f))
                 /\ g.need.temp \in Int \cup {None} /\ g.need.night \in Int
Linked == \A f \in Frame : link[f] \in Target \cup {None}

LEMMA LightGroupsAre ==
    ASSUME Linked, NEW n
    PROVE  IsFiniteSet(LightGroups(n)) /\ \A g \in LightGroups(n) : LightGroup(g)
<1> DEFINE E      == Eligible(n)
           pos    == Positions(Eligible(n))
           key(f) == <<link[f], Info[f].filter, Info[f].exposure, Info[f].sensor, Info[f].size, IF Rotator.present THEN pos[f] ELSE None>>
           need(S) == LET f == Rows(S)[1]
                      IN  [rig |-> Info[f].rig, filter |-> Info[f].filter, sensor |-> Info[f].sensor, size |-> Info[f].size,
                           exposure |-> Info[f].exposure, pos |-> key(f)[6], night |-> n, at |-> Middle(S),
                           temp |-> Median(S, [g \in S |-> Info[g].temp]), focal |-> Median(S, [g \in S |-> Info[g].focal])]
           group(S) == [target |-> link[Rows(S)[1]], filter |-> Info[Rows(S)[1]].filter, lights |-> S, need |-> need(S)]
           same(f) == {g \in Eligible(n) : key(g) = key(f)}
<1>1. E \subseteq Frame /\ \A f \in E : IsLight(f) /\ Info[f].night = n /\ link[f] # None
  <2> HIDE DEF pos, key, need, group, same
  <2> QED
    BY DEF Eligible, Lights
<1>2. PICK h : h = [f \in E |-> group(same(f))]
  BY Zenon
<1>3. LightGroups(n) = {h[f] : f \in E}
  <2>1. LightGroups(n) = {group(same(f)) : f \in E}
    BY DEF LightGroups
  <2> HIDE DEF group, same, E
  <2> QED
    BY <1>2, <2>1
<1>4. IsFiniteSet(LightGroups(n))
  <2>1. IsFiniteSet(E)
    BY <1>1, FramesFinite
  <2> HIDE DEF E
  <2> QED
    BY <1>3, <2>1, FiniteImage
<1>5. ASSUME NEW f \in E
      PROVE  LightGroup(h[f])
  <2>1. PICK S : S = same(f)
    OBVIOUS
  <2>2. S \subseteq E /\ f \in S
    BY <2>1
  <2>3. PICK o : o = Rows(S)[1]
    OBVIOUS
  <2>4. o \in S
    <3>1. S # {} /\ S \subseteq Frame
      BY <1>1, <2>2
    <3> QED
      BY <2>3, <3>1, FirstRow
  <2>5. PICK m : m = Median(S, [g \in S |-> Info[g].temp])
    OBVIOUS
  <2>6. m \in Int \cup {None}
    BY <1>1, <2>2, <2>5, MedianOfTemps
  <2>7. n \in Int
    BY <1>1, HeadersTyped
  <2>8. PICK d, g : d = need(S) /\ g = h[f]
    OBVIOUS
  <2>9. d.temp = m /\ d.night = n
    BY <2>5, <2>8
  <2>10. g = [target |-> link[o], filter |-> Info[o].filter, lights |-> S, need |-> d]
    <3>1. g = group(S)
      <4> HIDE DEF group, same
      <4> QED
        BY <1>2, <2>1, <2>8
    <3> QED
      BY <2>3, <2>8, <3>1
  <2>11. DOMAIN g = {"target", "filter", "lights", "need"} /\ g.target = link[o] /\ g.lights = S /\ g.need = d
    BY <2>10
  <2>12. link[o] \in Target
    BY <1>1, <2>2, <2>4 DEF Linked
  <2>13. \A x \in S : x \in Frame /\ IsLight(x)
    BY <1>1, <2>2
  <2> HIDE DEF E, need, group, same
  <2>14. LightGroup(g)
    BY <2>6, <2>7, <2>9, <2>11, <2>12, <2>13 DEF LightGroup
  <2> QED
    BY <2>8, <2>14
<1> HIDE DEF E, group, same
<1> QED
  BY <1>3, <1>4, <1>5

\* One with what it was matched to.
MatchedGroup(m, C) == /\ DOMAIN m = {"target", "filter", "lights", "need", "dark", "flat", "forced"} /\ m.target \in Target
                      /\ (\A f \in m.lights : f \in Frame /\ IsLight(f))
                      /\ (m.dark \in C \/ IsMiss(m.dark)) /\ (m.flat \in C \/ IsMiss(m.flat))

LEMMA MatchedIs ==
    ASSUME NEW g, LightGroup(g), NEW C, Sources(C)
    PROVE  MatchedGroup(Matched(g, C), C)
<1>1. Candidates(C)
  BY SourcesAreCandidates
<1> DEFINE flat   == MatchFlat(g.need, C, events)
           own    == {m \in C : <<g.need.night, g.filter>> \in DOMAIN override /\ m.sha = override[<<g.need.night, g.filter>>]}
           forced == IsMiss(flat) /\ own # {}
           chosen == IF forced THEN CHOOSE m \in own : TRUE ELSE flat
           dark   == MatchDark(g.need, C)
           all    == [dark |-> dark, flat |-> chosen, forced |-> forced]
<1>4. Matched(g, C) = With(g, all)
  BY DEF Matched
<1>5. dark \in C \/ IsMiss(dark)
  BY <1>1, MatchDarkIs DEF LightGroup
<1>6. flat \in C \/ IsMiss(flat)
  BY <1>1, MatchFlatIs DEF LightGroup
<1>7. chosen \in C \/ IsMiss(chosen)
  <2>1. own \subseteq C /\ (forced => own # {})
    OBVIOUS
  <2>2. forced => chosen \in own
    BY <2>1
  <2>3. ~forced => chosen = flat
    OBVIOUS
  <2> QED
    BY <1>6, <2>1, <2>2, <2>3
<1>8. PICK m, more : m = Matched(g, C) /\ more = all
  OBVIOUS
<1> HIDE DEF forced, flat, dark, chosen
<1>9. m = With(g, more) /\ DOMAIN more = {"dark", "flat", "forced"} /\ more.dark = dark /\ more.flat = chosen
  BY <1>4, <1>8
<1>10. /\ DOMAIN m = {"target", "filter", "lights", "need", "dark", "flat", "forced"}
       /\ m.target = g.target /\ m.lights = g.lights /\ m.dark = dark /\ m.flat = chosen
  BY <1>9 DEF With, LightGroup
<1>11. g.target \in Target /\ \A f \in g.lights : f \in Frame /\ IsLight(f)
  BY DEF LightGroup
<1> QED
  BY <1>5, <1>7, <1>8, <1>10, <1>11 DEF MatchedGroup

(***************************************************************************)
(* The stacks of a night and the references they wait for                  *)
(***************************************************************************)
ProjectRow(x)     == x = [version |-> x.version, ref |-> x.ref]
ProjectOk(js, pr) == /\ pr = [t \in Target |-> pr[t]]
                     /\ \A t \in Target : /\ ProjectRow(pr[t]) /\ pr[t].version \in Int
                                          /\ pr[t].ref # None => ShaMade(js, pr[t].ref)

\* A reference of a version that has none yet.
ReferenceNew(p) == ReferenceOk(p) /\ p.version = project[p.target].version /\ project[p.target].ref = None

\* A reference to what there is, or to a job that is still to run.
Named(r) == \/ r = None
            \/ r = [sha |-> r.sha] /\ ShaMade(jobs, r.sha)
            \/ r = [job |-> r.job] /\ (CalibNew(r.job) \/ ReferenceNew(r.job))

GroupNamed(g) == GroupOk(g) /\ Named(g.dark) /\ Named(g.flat)
StackNew(p)   == /\ StackOk(p) /\ (\A r \in Refs(p) : Named(r))
                 /\ (p.reference # None /\ "job" \in DOMAIN p.reference => ReferenceNew(p.reference.job))

LEMMA RefIsNamed ==
    ASSUME NEW m, Source(m)
    PROVE  Named(Ref(m)) /\ IsRef(Ref(m))
<1>1. PICK r : r = Ref(m)
  OBVIOUS
<1>2. CASE m.sha # None
  <2>1. r = [sha |-> m.sha] /\ ShaMade(jobs, m.sha)
    BY <1>1, <1>2 DEF Ref, Source
  <2>2. r.sha = m.sha
    BY <2>1
  <2> QED
    BY <1>1, <2>1, <2>2 DEF Named, IsRef
<1>3. CASE m.sha = None
  <2>1. r = [job |-> m.job] /\ CalibNew(m.job)
    BY <1>1, <1>3 DEF Ref, Source
  <2>2. r.job = m.job
    BY <2>1
  <2> QED
    BY <1>1, <2>1, <2>2 DEF Named, IsRef
<1> QED
  BY <1>2, <1>3

LEMMA PlanGroupIs ==
    ASSUME NEW C, Sources(C), NEW m, MatchedGroup(m, C), ~IsMiss(m.dark)
    PROVE  GroupNamed(PlanGroup(m))
<1>1. PICK g, d, f, l, o : /\ g = PlanGroup(m) /\ d = Ref(m.dark) /\ f = IF IsMiss(m.flat) THEN None ELSE Ref(m.flat)
                           /\ l = m.lights /\ o = m.forced
  OBVIOUS
<1>2. g = [lights |-> l, dark |-> d, flat |-> f, forced |-> o]
  BY <1>1 DEF PlanGroup
<1>3. Source(m.dark) /\ (~IsMiss(m.flat) => Source(m.flat))
  BY DEF MatchedGroup, Sources
<1>4. Named(d) /\ IsRef(d)
  BY <1>1, <1>3, RefIsNamed
<1>5. Named(f) /\ IsRef(f)
  BY <1>1, <1>3, RefIsNamed DEF Named, IsRef
<1>6. g.lights = l /\ g.dark = d /\ g.flat = f /\ g.forced = o
  BY <1>2
<1> QED
  BY <1>1, <1>2, <1>4, <1>5, <1>6 DEF GroupNamed, GroupOk

LEMMA ReferencePlanIs ==
    ASSUME NoneApart, ListOk(jobs), ProjectOk(jobs, project), NEW n, NEW t \in Target, project[t].ref = None, NEW groups
    PROVE  ReferenceNew(ReferencePlan(n, t, groups))
<1> DEFINE onItsWay == {i \in DOMAIN jobs : /\ jobs[i].plan.kind = "PROJECT_REFERENCE" /\ jobs[i].plan.target = t
                                            /\ jobs[i].status \in Waiting \cup {"running"}
                                            /\ jobs[i].plan.version = project[t].version}
<1>1. PICK p : p = ReferencePlan(n, t, groups)
  OBVIOUS
<1>2. PICK F : F = {PlanGroup(g) : g \in {x \in groups : x.target = t /\ Calibrated(x)}}
  OBVIOUS
<1>3. p = IF onItsWay # {} THEN jobs[CHOOSE i \in onItsWay : TRUE].plan
          ELSE [kind |-> "PROJECT_REFERENCE", target |-> t, night |-> n, version |-> project[t].version, groups |-> F]
  BY <1>1, <1>2 DEF ReferencePlan
<1>4. CASE onItsWay # {}
  <2>1. PICK i : i = CHOOSE k \in onItsWay : TRUE
    OBVIOUS
  <2>2. i \in onItsWay
    BY <1>4, <2>1
  <2>3. p = jobs[i].plan
    BY <1>3, <1>4, <2>1
  <2>4. PlanIs(p) /\ p.kind = "PROJECT_REFERENCE" /\ p.target = t /\ p.version = project[t].version
    BY <2>2, <2>3 DEF ListOk, RowOk
  <2>5. ReferenceOk(p)
    BY <2>4, KindIs
  <2> QED
    BY <1>1, <2>4, <2>5 DEF ReferenceNew
<1>5. CASE onItsWay = {}
  <2>1. PICK v : v = project[t].version
    OBVIOUS
  <2>2. p = [kind |-> "PROJECT_REFERENCE", target |-> t, night |-> n, version |-> v, groups |-> F]
    BY <1>3, <1>5, <2>1
  <2>3. /\ DOMAIN p = {"kind", "target", "night", "version", "groups"} /\ p.kind = "PROJECT_REFERENCE"
        /\ p.target = t /\ p.version = v
    BY <2>2
  <2>4. v \in Int
    BY <2>1 DEF ProjectOk
  <2> QED
    BY <1>1, <2>1, <2>3, <2>4 DEF ReferenceNew, ReferenceOk
<1> QED
  BY <1>4, <1>5

LEMMA StackOfIs ==
    ASSUME NoneApart, ListOk(jobs), ProjectOk(jobs, project), NEW C, Sources(C), NEW n, NEW t \in Target, NEW groups,
           NEW S, \A g \in S : MatchedGroup(g, C), NEW s, s = StackOf(n, t, groups, S)
    PROVE  IsSeq(s) /\ \A k \in DOMAIN s : StackNew(s[k].plan)
<1> DEFINE final == \A g \in S : Calibrated(g)
           noref == final /\ project[t].ref = None
           ref   == ReferencePlan(n, t, groups)
           kind  == IF final THEN "final" ELSE "provisional_noflat"
           G     == {PlanGroup(g) : g \in S}
           to    == IF noref THEN [job |-> ref] ELSE IF project[t].ref # None THEN [sha |-> project[t].ref] ELSE None
           plan  == [kind |-> "NIGHT_STACK", stack |-> kind, target |-> t, night |-> n,
                     filter |-> (CHOOSE g \in S : TRUE).filter, version |-> project[t].version, groups |-> G, reference |-> to]
           none  == \/ Cardinality(UNION {g.lights : g \in S}) < MinLights
                    \/ ~final /\ ~(Provisional /\ \A g \in S : ~IsMiss(g.dark))
<1>1. s = IF none THEN <<>> ELSE <<[plan |-> plan, depends |-> JobRefs(GroupRefs(plan.groups) \cup {plan.reference})]>>
  BY DEF StackOf
<1>2. CASE none
  <2>1. s = <<>>
    BY <1>1, <1>2
  <2> QED
    BY <2>1, EmptySeq DEF IsSeq
<1>3. CASE ~none
  <2>1. \A g \in S : ~IsMiss(g.dark)
    BY <1>3 DEF Calibrated
  <2>2. \A g \in G : GroupNamed(g)
    <3>1. ASSUME NEW g \in S
          PROVE  GroupNamed(PlanGroup(g))
      BY <2>1, PlanGroupIs
    <3> QED
      BY <3>1
  <2>3. Named(to) /\ IsRef(to) /\ (to # None /\ "job" \in DOMAIN to => ReferenceNew(to.job))
    <3>1. PICK r, x, y : r = to /\ x = ref /\ y = project[t].ref
      OBVIOUS
    <3>2. CASE noref
      <4>1. r = [job |-> x] /\ ReferenceNew(x)
        <5>1. ReferenceNew(x)
          BY <3>1, <3>2, ReferencePlanIs
        <5> HIDE DEF ref
        <5> QED
          BY <3>1, <3>2, <5>1
      <4>2. r.job = x
        BY <4>1
      <4> HIDE DEF to
      <4> QED
        BY <3>1, <4>1, <4>2 DEF Named, IsRef
    <3>3. CASE ~noref /\ y # None
      <4>1. r = [sha |-> y] /\ ShaMade(jobs, y)
        <5> HIDE DEF ref, noref
        <5> QED
          BY <3>1, <3>3 DEF ProjectOk
      <4>2. r.sha = y /\ DOMAIN r = {"sha"}
        BY <4>1
      <4> HIDE DEF to
      <4> QED
        BY <3>1, <4>1, <4>2 DEF Named, IsRef
    <3>4. CASE ~noref /\ y = None
      <4>1. r = None
        <5> HIDE DEF ref, noref
        <5> QED
          BY <3>1, <3>4
      <4> HIDE DEF to
      <4> QED
        BY <3>1, <4>1 DEF Named, IsRef
    <3> HIDE DEF to, noref
    <3> QED
      BY <3>2, <3>3, <3>4
  <2>4. PICK k, f, v, o, H : /\ k = kind /\ f = (CHOOSE g \in S : TRUE).filter /\ v = project[t].version
                             /\ o = to /\ H = G
    OBVIOUS
  <2>5. PICK p : p = [kind |-> "NIGHT_STACK", stack |-> k, target |-> t, night |-> n,
                      filter |-> f, version |-> v, groups |-> H, reference |-> o]
    OBVIOUS
  <2>6. p = plan
    <3> HIDE DEF kind, to, G
    <3> QED
      BY <2>4, <2>5
  <2>7. /\ p.kind = "NIGHT_STACK" /\ p.stack = k /\ p.target = t /\ p.night = n
        /\ p.filter = f /\ p.version = v /\ p.groups = H /\ p.reference = o
    BY <2>5
  <2>8. Named(o) /\ IsRef(o) /\ (o # None /\ "job" \in DOMAIN o => ReferenceNew(o.job)) /\ \A g \in H : GroupNamed(g)
    <3> HIDE DEF to, G
    <3> QED
      BY <2>2, <2>3, <2>4
  <2>9. StackOk(p)
    BY <2>5, <2>7, <2>8 DEF StackOk, GroupNamed
  <2>10. \A r \in Refs(p) : Named(r)
    <3>1. Refs(p) = {g.dark : g \in H} \cup {g.flat : g \in H} \cup {o}
      BY <2>7 DEF Refs, GroupRefs
    <3> QED
      BY <2>8, <3>1 DEF GroupNamed
  <2>11. StackNew(p)
    BY <2>7, <2>8, <2>9, <2>10 DEF StackNew
  <2>12. PICK d, j : d = JobRefs(GroupRefs(plan.groups) \cup {plan.reference}) /\ j = [plan |-> p, depends |-> d]
    OBVIOUS
  <2>13. s = <<j>>
    <3> HIDE DEF plan, none
    <3> QED
      BY <1>1, <1>3, <2>6, <2>12
  <2>14. IsSeq(s) /\ DOMAIN s = {1} /\ s[1] = j
    <3>1. s \in Seq({j})
      BY <2>13
    <3>2. DOMAIN s = {1} /\ s[1] = j
      BY <2>13
    <3> QED
      BY <3>1, <3>2 DEF IsSeq
  <2>15. j.plan = p
    BY <2>12
  <2> QED
    BY <2>11, <2>14, <2>15
<1> HIDE DEF none
<1> QED
  BY <1>2, <1>3

LEMMA PlanStacksAre ==
    ASSUME NoneApart, ListOk(jobs), ProjectOk(jobs, project), NEW C, Sources(C), NEW n,
           NEW groups, IsFiniteSet(groups), \A g \in groups : MatchedGroup(g, C),
           NEW s, s = PlanStacks(n, groups)
    PROVE  IsSeq(s) /\ \A k \in DOMAIN s : StackNew(s[k].plan)
<1> DEFINE same(g) == {h \in groups : h.target = g.target /\ h.filter = g.filter}
           stack(S) == StackOf(n, (CHOOSE g \in S : TRUE).target, groups, S)
<1>1. PICK h : h = [g \in groups |-> same(g)]
  OBVIOUS
<1>2. PICK G : G = {h[g] : g \in groups}
  OBVIOUS
<1>3. G = {same(g) : g \in groups}
  <2> HIDE DEF same
  <2> QED
    BY <1>1, <1>2
<1>4. IsFiniteSet(G)
  BY <1>2, FiniteImage
<1>5. PICK together : together = SetToSeq(G)
  OBVIOUS
<1>6. IsSeq(together) /\ \A i \in DOMAIN together : together[i] \in G
  BY <1>4, <1>5, SetToSeqIs
<1>7. PICK ss : ss = [i \in DOMAIN together |-> stack(together[i])]
  OBVIOUS
<1>8. s = FlattenSeq(ss)
  <2>1. s = FlattenSeq([i \in DOMAIN SetToSeq({same(g) : g \in groups}) |-> stack(SetToSeq({same(g) : g \in groups})[i])])
    BY DEF PlanStacks
  <2>2. s = FlattenSeq([i \in DOMAIN together |-> stack(together[i])])
    <3> HIDE DEF same, stack
    <3> QED
      BY <1>3, <1>5, <2>1, Zenon
  <2> HIDE DEF same, stack
  <2> QED
    BY <1>7, <2>2, Zenon
<1>9. Len(together) \in Nat /\ DOMAIN together = 1..Len(together)
  BY <1>6, SeqIs
<1>10. IsSeq(ss) /\ DOMAIN ss = DOMAIN together
  <2>1. ss = [i \in 1..Len(together) |-> ss[i]]
    <3> HIDE DEF stack
    <3> QED
      BY <1>7, <1>9
  <2>2. Len(together) \in Nat
    BY <1>9
  <2>3. IsSeq(ss) /\ DOMAIN ss = 1..Len(together)
    BY <2>1, <2>2, MadeSeq, Zenon
  <2> QED
    BY <1>9, <2>3
<1>11. ASSUME NEW i \in DOMAIN ss
       PROVE  IsSeq(ss[i]) /\ \A k \in DOMAIN ss[i] : StackNew(ss[i][k].plan)
  <2>1. PICK S, c, t : S = together[i] /\ c = (CHOOSE g \in S : TRUE) /\ t = c.target
    OBVIOUS
  <2>2. PICK g \in groups : S = same(g)
    BY <1>3, <1>6, <1>10, <2>1
  <2>3. c \in S /\ S \subseteq groups
    <3>1. g \in S
      BY <2>2
    <3> QED
      BY <2>1, <2>2, <3>1
  <2>4. t \in Target /\ \A x \in S : MatchedGroup(x, C)
    BY <2>1, <2>3 DEF MatchedGroup
  <2>5. PICK x : x = ss[i]
    OBVIOUS
  <2>6. x = StackOf(n, t, groups, S)
    BY <1>7, <1>10, <2>1, <2>5
  <2>7. IsSeq(x) /\ \A k \in DOMAIN x : StackNew(x[k].plan)
    BY <2>4, <2>6, StackOfIs
  <2> QED
    BY <2>5, <2>7
<1>12. /\ IsSeq(s)
       /\ \A k \in DOMAIN s : \E i \in DOMAIN ss : \E j \in DOMAIN ss[i] : s[k] = ss[i][j]
  BY <1>8, <1>10, <1>11, FlattenSeqIs
<1> QED
  BY <1>11, <1>12

LEMMA JobRefsAre ==
    ASSUME NEW S, IsFiniteSet(S)
    PROVE  IsFiniteSet(JobRefs(S)) /\ \A p \in JobRefs(S) : \E r \in S : r # None /\ "job" \in DOMAIN r /\ p = r.job
<1>1. PICK named : named = {x \in S : x # None /\ "job" \in DOMAIN x}
  OBVIOUS
<1>2. PICK h : h = [r \in named |-> r.job]
  OBVIOUS
<1>3. JobRefs(S) = {h[r] : r \in named}
  BY <1>1, <1>2 DEF JobRefs
<1>4. IsFiniteSet(named)
  BY <1>1, FS_Subset
<1>5. IsFiniteSet({h[r] : r \in named})
  BY <1>4, FiniteImage
<1> QED
  BY <1>1, <1>2, <1>3, <1>5

LEMMA ReferencesAre ==
    ASSUME NEW s, IsSeq(s), \A k \in DOMAIN s : StackNew(s[k].plan)
    PROVE  IsFiniteSet(References(s)) /\ \A p \in References(s) : ReferenceNew(p)
<1>1. PICK named : named = {j.plan.reference : j \in ToSet(s)}
  OBVIOUS
<1>2. PICK h : h = [k \in DOMAIN s |-> s[k].plan.reference]
  OBVIOUS
<1>3. named = {h[k] : k \in DOMAIN s}
  BY <1>1, <1>2 DEF ToSet
<1>4. IsFiniteSet(DOMAIN s)
  <2>1. Len(s) \in Nat /\ DOMAIN s = 1..Len(s)
    BY SeqIs
  <2>2. IsFiniteSet(1..Len(s))
    BY <2>1, FS_Interval
  <2> QED
    BY <2>1, <2>2
<1>5. IsFiniteSet(named)
  BY <1>3, <1>4, FiniteImage
<1>6. IsFiniteSet(JobRefs(named)) /\ \A p \in JobRefs(named) : \E r \in named : r # None /\ "job" \in DOMAIN r /\ p = r.job
  BY <1>5, JobRefsAre
<1>7. References(s) \subseteq JobRefs(named)
  BY <1>1 DEF References
<1>8. \A p \in JobRefs(named) : ReferenceNew(p)
  <2>1. ASSUME NEW p \in JobRefs(named)
        PROVE  ReferenceNew(p)
    <3>1. PICK r \in named : r # None /\ "job" \in DOMAIN r /\ p = r.job
      BY <1>6
    <3>2. PICK k \in DOMAIN s : r = s[k].plan.reference
      BY <1>2, <1>3
    <3>3. StackNew(s[k].plan)
      OBVIOUS
    <3> QED
      BY <3>1, <3>2, <3>3 DEF StackNew
  <2> QED
    BY <2>1
<1> QED
  BY <1>6, <1>7, <1>8, FS_Subset

\* What a night's plan may ask for, all of it still to be made.
PlanNew(p) == CalibNew(p) \/ ReferenceNew(p) \/ StackNew(p)

LEMMA NightPlanIs ==
    ASSUME NoneApart, ListOk(jobs), ProjectOk(jobs, project), MastersOk(masters, jobs), Linked,
           NEW n, NEW plan, plan = PlanNight(n)
    PROVE  /\ plan.seen = frames /\ IsSeq(plan.jobs) /\ \A k \in DOMAIN plan.jobs : PlanNew(plan.jobs[k].plan)
           /\ \A g \in plan.groups : \A f \in g.lights : f \in Frame /\ IsLight(f)
<1>1. PICK calib, C, G : /\ calib = PlanCalibration(n) /\ C = Library \cup calib.pending
                         /\ G = {Matched(g, C) : g \in LightGroups(n)}
  OBVIOUS
<1>2. PICK stacked : stacked = PlanStacks(n, G)
  OBVIOUS
<1>3. plan = NightPlan(n, calib, G, stacked)
  BY <1>1, <1>2, Zenon DEF PlanNight, PlanWith, PlanLights
<1>4. CalibAcc(calib)
  BY <1>1, PlanCalibrationIs
<1>5. Sources(C)
  <2>1. Sources(Library) /\ Sources(calib.pending)
    BY <1>4, LibraryIs DEF CalibAcc
  <2> QED
    BY <1>1, <2>1, FS_Union DEF Sources
<1>6. IsFiniteSet(G) /\ \A g \in G : MatchedGroup(g, C)
  <2>1. IsFiniteSet(LightGroups(n)) /\ \A g \in LightGroups(n) : LightGroup(g)
    BY LightGroupsAre
  <2>2. PICK h : h = [g \in LightGroups(n) |-> Matched(g, C)]
    OBVIOUS
  <2>3. G = {h[g] : g \in LightGroups(n)}
    BY <1>1, <2>2
  <2>4. IsFiniteSet(G)
    BY <2>1, <2>3, FiniteImage
  <2>5. \A g \in LightGroups(n) : MatchedGroup(Matched(g, C), C)
    BY <1>5, <2>1, MatchedIs
  <2> QED
    BY <1>1, <2>4, <2>5
<1>7. IsSeq(stacked) /\ \A k \in DOMAIN stacked : StackNew(stacked[k].plan)
  BY <1>2, <1>5, <1>6, PlanStacksAre
<1>8. PICK refs, made0, front, js : /\ refs = SetToSeq(References(stacked)) /\ made0 = ReferenceJobs(refs)
                                    /\ front = calib.jobs \o made0 /\ js = plan.jobs
  OBVIOUS
<1>9. IsSeq(refs) /\ \A k \in DOMAIN refs : ReferenceNew(refs[k])
  BY <1>7, <1>8, ReferencesAre, SetToSeqIs
<1>10. IsSeq(made0) /\ \A k \in DOMAIN made0 : ReferenceNew(made0[k].plan)
  <2>1. Len(refs) \in Nat /\ DOMAIN refs = 1..Len(refs)
    BY <1>9, SeqIs
  <2>2. DOMAIN made0 = DOMAIN refs /\ \A k \in DOMAIN refs : made0[k].plan = refs[k]
    BY <1>8 DEF ReferenceJobs
  <2>3. made0 = [k \in 1..Len(refs) |-> made0[k]]
    BY <1>8, <2>1 DEF ReferenceJobs
  <2>4. IsSeq(made0)
    <3>1. Len(refs) \in Nat
      BY <2>1
    <3> QED
      BY <2>3, <3>1, MadeSeq, Zenon
  <2> QED
    BY <1>9, <2>2, <2>4
<1>11. js = front \o stacked /\ plan.seen = frames /\ plan.groups = {[lights |-> g.lights, why |-> {m.miss : m \in Misses(g)}] : g \in G}
  BY <1>3, <1>8 DEF NightPlan
<1>12. IsSeq(front) /\ \A k \in DOMAIN front : OneOf(front[k], calib.jobs) \/ OneOf(front[k], made0)
  BY <1>4, <1>8, <1>10, ConcatIs DEF CalibAcc
<1>13. IsSeq(js) /\ \A k \in DOMAIN js : OneOf(js[k], front) \/ OneOf(js[k], stacked)
  BY <1>7, <1>11, <1>12, ConcatIs
<1>14. \A x : OneOf(x, front) => PlanNew(x.plan)
  BY <1>4, <1>10, <1>12 DEF OneOf, PlanNew, CalibAcc
<1>15. \A x : OneOf(x, stacked) => PlanNew(x.plan)
  BY <1>7 DEF OneOf, PlanNew
<1>16. \A g \in G : \A f \in g.lights : f \in Frame /\ IsLight(f)
  BY <1>6 DEF MatchedGroup
<1>17. \A g \in plan.groups : \A f \in g.lights : f \in Frame /\ IsLight(f)
  <2>1. ASSUME NEW g \in plan.groups
        PROVE  \A f \in g.lights : f \in Frame /\ IsLight(f)
    <3>1. PICK m \in G : g = [lights |-> m.lights, why |-> {x.miss : x \in Misses(m)}]
      BY <1>11
    <3>2. g.lights = m.lights
      BY <3>1
    <3> QED
      BY <1>16, <3>2
  <2> QED
    BY <2>1
<1>18. \A k \in DOMAIN js : PlanNew(js[k].plan)
  BY <1>13, <1>14, <1>15
<1> QED
  BY <1>8, <1>11, <1>13, <1>17, <1>18

(***************************************************************************)
(* The invariant                                                           *)
(***************************************************************************)
\* What a job of the list is made of was there when it was planned.
Proposed(p, fr, pr) == /\ CalibOk(p) => \A f \in p.inputs : fr[f] # "absent"
                       /\ ReferenceOk(p) => p.version <= pr[p.target].version
\* What was made of it keeps a plan from naming it again.
Used(p, fr, pr) == /\ CalibOk(p) => \A f \in p.inputs : fr[f] # "valid"
                   /\ ReferenceOk(p) => p.version < pr[p.target].version \/ pr[p.target].ref # None
SourcesOk(js, fr, pr) == \A i \in DOMAIN js : /\ Proposed(js[i].plan, fr, pr)
                                              /\ js[i].status = "succeeded" => Used(js[i].plan, fr, pr)

RunsOk == /\ running \in Nat /\ (running # 0 => running \in DOMAIN jobs /\ planner.at = "idle")
          /\ \A i \in DOMAIN jobs : jobs[i].status = "running" <=> i = running

\* What the planner is about to write is still as it read it.
Planned == planner.at = "write" =>
    /\ IsSeq(planner.plan.jobs)
    /\ \A k \in DOMAIN planner.plan.jobs : LET p == planner.plan.jobs[k].plan
                                           IN  Insertable(jobs, p) /\ Proposed(p, frames, project)
    /\ \A g \in planner.plan.groups : \A f \in g.lights : f \in Frame /\ IsLight(f)
PlannerOk == DOMAIN planner = {"at", "todo", "plan"} /\ Planned

CatalogOk == frames = [f \in Frame |-> frames[f]] /\ link = [f \in Frame |-> link[f]] /\ Linked

StackInv == /\ ListOk(jobs) /\ SourcesOk(jobs, frames, project) /\ MastersOk(masters, jobs) /\ ProjectOk(jobs, project)
            /\ CatalogOk /\ RunsOk /\ PlannerOk

\* A plan that was just made can be written.
LEMMA NewIsInsertable ==
    ASSUME NoneApart, ListOk(jobs), SourcesOk(jobs, frames, project), ProjectOk(jobs, project), NEW p, PlanNew(p)
    PROVE  Insertable(jobs, p) /\ Proposed(p, frames, project)
<1>1. ASSUME NEW q, CalibNew(q) \/ ReferenceNew(q), NEW i \in DOMAIN jobs, jobs[i].plan = q
      PROVE  jobs[i].status # "succeeded"
  <2>1. SUFFICES ASSUME jobs[i].status = "succeeded"
                 PROVE  FALSE
    OBVIOUS
  <2>2. Used(q, frames, project)
    BY <1>1, <2>1 DEF SourcesOk
  <2>3. CASE CalibNew(q)
    <3>1. CalibOk(q) /\ q.inputs # {} /\ \A f \in q.inputs : frames[f] = "valid"
      BY <2>3 DEF CalibNew, CalibOk
    <3> QED
      BY <2>2, <3>1 DEF Used
  <2>4. CASE ReferenceNew(q)
    <3>1. ReferenceOk(q) /\ q.version = project[q.target].version /\ project[q.target].ref = None
      BY <2>4 DEF ReferenceNew
    <3>2. project[q.target].version \in Int
      BY <3>1 DEF ReferenceOk, ProjectOk
    <3> QED
      BY <2>2, <3>1, <3>2 DEF Used
  <2> QED
    BY <1>1, <2>3, <2>4
<1>2. CASE CalibNew(p)
  <2>1. CalibOk(p) /\ PlanIs(p) /\ \A f \in p.inputs : frames[f] = "valid"
    BY <1>2 DEF CalibNew, PlanIs
  <2>2. ~StackOk(p) /\ ~ReferenceOk(p)
    BY <2>1, KindIs
  <2> QED
    BY <2>1, <2>2 DEF Insertable, Proposed
<1>3. CASE ReferenceNew(p)
  <2>1. ReferenceOk(p) /\ PlanIs(p) /\ p.version = project[p.target].version /\ p.version \in Int
    BY <1>3 DEF ReferenceNew, PlanIs, ReferenceOk
  <2>2. ~StackOk(p) /\ ~CalibOk(p)
    BY <2>1, KindIs
  <2> QED
    BY <2>1, <2>2 DEF Insertable, Proposed
<1>4. CASE StackNew(p)
  <2>1. StackOk(p) /\ PlanIs(p) /\ \A r \in Refs(p) : Named(r)
    BY <1>4 DEF StackNew, PlanIs
  <2>2. ~CalibOk(p) /\ ~ReferenceOk(p)
    BY <2>1, KindIs
  <2>3. NoneBuilt(jobs, p)
    <3>1. ASSUME NEW r \in Refs(p), IsJobRef(r)
          PROVE  BuiltIn(jobs, r) = {}
      <4>1. Named(r) /\ r # None /\ "job" \in DOMAIN r
        BY <2>1, <3>1 DEF IsJobRef
      <4>2. CalibNew(r.job) \/ ReferenceNew(r.job)
        BY <4>1 DEF Named
      <4> QED
        BY <1>1, <4>2 DEF BuiltIn
    <3> QED
      BY <3>1 DEF NoneBuilt
  <2>4. ShasMade(jobs, p)
    <3>1. ASSUME NEW r \in Refs(p), r # None, ~IsJobRef(r), r.sha \in Nat
          PROVE  r.sha \in DOMAIN jobs /\ jobs[r.sha].status = "succeeded"
      <4>1. Named(r) /\ "job" \notin DOMAIN r
        BY <2>1, <3>1 DEF IsJobRef
      <4>2. ShaMade(jobs, r.sha)
        BY <3>1, <4>1 DEF Named
      <4> QED
        BY <3>1, <4>2 DEF ShaMade
    <3> QED
      BY <3>1 DEF ShasMade
  <2> QED
    BY <2>1, <2>2, <2>3, <2>4 DEF Insertable, Proposed
<1> QED
  BY <1>2, <1>3, <1>4 DEF PlanNew

\* The catalog of a later moment.
LaterFrames(fr, fs) == \A f \in Frame : ~IsLight(f) /\ fr[f] # "absent" => fs[f] # "absent" /\ (fr[f] # "valid" => fs[f] # "valid")
LaterProject(pr, ps) == \A t \in Target : /\ pr[t].version \in Int /\ ps[t].version \in Int
                                          /\ \/ pr[t].version < ps[t].version
                                             \/ pr[t].version = ps[t].version /\ (pr[t].ref # None => ps[t].ref # None)

LEMMA ProposedStays ==
    ASSUME NEW p, NEW fr, NEW fs, NEW pr, NEW ps, LaterFrames(fr, fs), LaterProject(pr, ps), Proposed(p, fr, pr)
    PROVE  Proposed(p, fs, ps) /\ (Used(p, fr, pr) => Used(p, fs, ps))
<1>1. ASSUME CalibOk(p)
      PROVE  (\A f \in p.inputs : fs[f] # "absent") /\ (Used(p, fr, pr) => \A f \in p.inputs : fs[f] # "valid")
  <2>1. \A f \in p.inputs : f \in Frame /\ ~IsLight(f) /\ fr[f] # "absent"
    BY <1>1 DEF CalibOk, Proposed
  <2>2. Used(p, fr, pr) => \A f \in p.inputs : fr[f] # "valid"
    BY <1>1 DEF Used
  <2> QED
    BY <2>1, <2>2 DEF LaterFrames
<1>2. ASSUME ReferenceOk(p)
      PROVE  /\ p.version <= ps[p.target].version
             /\ Used(p, fr, pr) => p.version < ps[p.target].version \/ ps[p.target].ref # None
  <2>1. PICK t, v : t = p.target /\ v = p.version
    OBVIOUS
  <2>2. t \in Target /\ v \in Int /\ v <= pr[t].version
    BY <1>2, <2>1 DEF ReferenceOk, Proposed
  <2>3. Used(p, fr, pr) => v < pr[t].version \/ pr[t].ref # None
    BY <1>2, <2>1 DEF Used
  <2> QED
    BY <2>1, <2>2, <2>3 DEF LaterProject
<1> QED
  BY <1>1, <1>2 DEF Proposed, Used

\* The list of a later moment: nothing that succeeded is undone, what is new has not succeeded.
LaterJobs(js, us) == /\ DOMAIN js \subseteq DOMAIN us
                     /\ \A i \in DOMAIN js : us[i].plan = js[i].plan /\ (js[i].status = "succeeded" => us[i].status = "succeeded")

LEMMA MadeStays ==
    ASSUME NEW js, NEW us, LaterJobs(js, us)
    PROVE  /\ \A x : ShaMade(js, x) => ShaMade(us, x)
           /\ \A ms : MastersOk(ms, js) => MastersOk(ms, us)
           /\ \A pr : ProjectOk(js, pr) => ProjectOk(us, pr)
<1>1. \A x : ShaMade(js, x) => ShaMade(us, x)
  BY DEF ShaMade, LaterJobs
<1> QED
  BY <1>1 DEF MastersOk, ProjectOk

LEMMA SourcesStay ==
    ASSUME NEW js, NEW fr, NEW fs, NEW pr, NEW ps, LaterFrames(fr, fs), LaterProject(pr, ps), SourcesOk(js, fr, pr),
           NEW us, \A i \in DOMAIN us : /\ i \in DOMAIN js /\ us[i].plan = js[i].plan
                                        /\ us[i].status = "succeeded" => js[i].status = "succeeded" \/ Used(js[i].plan, fs, ps)
    PROVE  SourcesOk(us, fs, ps)
<1>1. SUFFICES ASSUME NEW i \in DOMAIN us
               PROVE  Proposed(us[i].plan, fs, ps) /\ (us[i].status = "succeeded" => Used(us[i].plan, fs, ps))
  BY DEF SourcesOk
<1>2. PICK p : p = us[i].plan
  OBVIOUS
<1>3. Proposed(p, fr, pr) /\ (js[i].status = "succeeded" => Used(p, fr, pr))
  BY <1>1, <1>2 DEF SourcesOk
<1>4. Proposed(p, fs, ps) /\ (Used(p, fr, pr) => Used(p, fs, ps))
  BY <1>3, ProposedStays
<1> QED
  BY <1>2, <1>3, <1>4

LEMMA LaterSame ==
    ASSUME NEW js, NEW pr, ProjectOk(js, pr), NEW fr
    PROVE  LaterFrames(fr, fr) /\ LaterProject(pr, pr)
BY DEF LaterFrames, LaterProject, ProjectOk

\* While something arrives.
LEMMA Arrives ==
    ASSUME StackInv, jobs' = jobs, project' = project, planner' = planner, running' = running,
           LaterFrames(frames, frames'), CatalogOk', MastersOk(masters', jobs)
    PROVE  StackInv'
<1>1. /\ ListOk(jobs) /\ SourcesOk(jobs, frames, project) /\ MastersOk(masters, jobs) /\ ProjectOk(jobs, project)
      /\ CatalogOk /\ RunsOk /\ PlannerOk
  BY DEF StackInv
<1>2. LaterProject(project, project)
  BY <1>1, LaterSame
<1>3. SourcesOk(jobs, frames', project)
  BY <1>1, <1>2, SourcesStay
<1>4. PlannerOk'
  <2>1. CASE planner.at = "write"
    <3>1. PICK w : w = planner.plan
      OBVIOUS
    <3>2. /\ IsSeq(w.jobs)
          /\ \A k \in DOMAIN w.jobs : Insertable(jobs, w.jobs[k].plan) /\ Proposed(w.jobs[k].plan, frames, project)
          /\ \A g \in w.groups : \A f \in g.lights : f \in Frame /\ IsLight(f)
      BY <1>1, <2>1, <3>1 DEF PlannerOk, Planned
    <3>3. \A k \in DOMAIN w.jobs : Proposed(w.jobs[k].plan, frames', project)
      BY <1>2, <3>2, ProposedStays
    <3> QED
      BY <1>1, <3>1, <3>2, <3>3 DEF PlannerOk, Planned
  <2>2. CASE planner.at # "write"
    BY <1>1, <2>2 DEF PlannerOk, Planned
  <2> QED
    BY <2>1, <2>2
<1>5. RunsOk'
  BY <1>1 DEF RunsOk
<1> QED
  BY <1>1, <1>3, <1>4, <1>5 DEF StackInv

LEMMA CollectKeeps ==
    ASSUME StackInv, NEW f \in Frame, Collect(f)
    PROVE  StackInv'
<1>1. CatalogOk /\ MastersOk(masters, jobs)
  BY DEF StackInv
<1>2. /\ frames[f] = "absent" /\ link' = [link EXCEPT ![f] = Info[f].link]
      /\ jobs' = jobs /\ project' = project /\ planner' = planner /\ running' = running /\ masters' = masters
  BY DEF Collect, made
<1>3. PICK s : frames' = [frames EXCEPT ![f] = s]
  BY DEF Collect
<1>4. \A g \in Frame \ {f} : frames'[g] = frames[g] /\ link'[g] = link[g]
  BY <1>2, <1>3
<1>5. LaterFrames(frames, frames')
  BY <1>2, <1>4 DEF LaterFrames
<1>6. CatalogOk'
  <2>1. frames' = [g \in Frame |-> frames'[g]] /\ link' = [g \in Frame |-> link'[g]] /\ link'[f] = Info[f].link
    BY <1>1, <1>2, <1>3 DEF CatalogOk
  <2>2. Info[f].link \in Target \cup {None}
    BY HeadersTyped
  <2> QED
    BY <1>1, <1>4, <2>1, <2>2 DEF CatalogOk, Linked
<1> QED
  BY <1>1, <1>2, <1>5, <1>6, Arrives

LEMMA AssignKeeps ==
    ASSUME StackInv, NEW n, NEW o, NEW t \in Target, Assign(n, o, t)
    PROVE  StackInv'
<1> DEFINE rows == {f \in Lights : Info[f].night = n /\ Info[f].object = o}
<1>1. CatalogOk /\ MastersOk(masters, jobs)
  BY DEF StackInv
<1>2. /\ link' = [f \in Frame |-> IF f \in rows THEN t ELSE link[f]]
      /\ frames' = [f \in Frame |-> IF f \in rows /\ frames[f] = "held" THEN "valid" ELSE frames[f]]
      /\ jobs' = jobs /\ project' = project /\ planner' = planner /\ running' = running /\ masters' = masters
  BY DEF Assign, made
<1>3. \A f \in rows : IsLight(f)
  BY DEF Lights
<1> HIDE DEF rows
<1>4. LaterFrames(frames, frames')
  BY <1>2, <1>3 DEF LaterFrames
<1>5. CatalogOk'
  BY <1>1, <1>2 DEF CatalogOk, Linked
<1> QED
  BY <1>1, <1>2, <1>4, <1>5, Arrives

LEMMA AdoptKeeps ==
    ASSUME StackInv, NEW f, NEW t \in Target, Adopt(f, t)
    PROVE  StackInv'
<1>1. CatalogOk /\ MastersOk(masters, jobs)
  BY DEF StackInv
<1>2. /\ f \in Frame /\ IsLight(f) /\ link' = [link EXCEPT ![f] = t]
      /\ jobs' = jobs /\ project' = project /\ planner' = planner /\ running' = running /\ masters' = masters
  BY DEF Adopt, Lights, made
<1>3. PICK s : frames' = [frames EXCEPT ![f] = s]
  BY DEF Adopt
<1>4. \A g \in Frame \ {f} : frames'[g] = frames[g] /\ link'[g] = link[g]
  BY <1>1, <1>2, <1>3 DEF CatalogOk
<1>5. LaterFrames(frames, frames')
  BY <1>2, <1>4 DEF LaterFrames
<1>6. CatalogOk'
  <2>1. frames' = [g \in Frame |-> frames'[g]] /\ link' = [g \in Frame |-> link'[g]] /\ link'[f] = t
    BY <1>1, <1>2, <1>3 DEF CatalogOk
  <2> QED
    BY <1>1, <1>2, <1>4, <2>1 DEF CatalogOk, Linked
<1> QED
  BY <1>1, <1>2, <1>5, <1>6, Arrives

LEMMA RowIsMaster ==
    ASSUME NEW m \in Import \cup ToSet(Initially), NEW js
    PROVE  /\ DOMAIN Row(m) = MasterFields \cup {"sha", "inputs", "imported", "superseded"}
           /\ MasterTyped(Row(m)) /\ Row(m).sha # None /\ ShaMade(js, Row(m).sha)
<1>1. /\ DOMAIN m = MasterFields \cup {"sha"} /\ m.temp \in Int \cup {None} /\ m.night \in Int /\ m.n \in Int
      /\ m.sha # None /\ m.sha \notin Nat
  BY MastersTyped DEF MasterFields
<1>2. PICK r, more : r = Row(m) /\ more = [inputs |-> {}, imported |-> TRUE, superseded |-> FALSE]
  OBVIOUS
<1>3. r = With(m, more) /\ DOMAIN more = {"inputs", "imported", "superseded"}
  BY <1>2 DEF Row
<1>4. DOMAIN r = DOMAIN m \cup {"inputs", "imported", "superseded"}
  BY <1>3 DEF With
<1>5. r.temp = m.temp /\ r.night = m.night /\ r.n = m.n /\ r.sha = m.sha
  BY <1>1, <1>3 DEF With, MasterFields
<1> QED
  BY <1>1, <1>2, <1>4, <1>5 DEF MasterTyped, ShaMade

LEMMA ImportedAre ==
    ASSUME MastersOk(masters, jobs), NEW m \in Import
    PROVE  MastersOk(Imported(m), jobs)
<1>1. CASE Known(m)
  BY <1>1 DEF Imported
<1>2. CASE ~Known(m)
  <2>1. PICK r, us : r = Row(m) /\ us = Imported(m)
    OBVIOUS
  <2>2. us = Append(masters, r)
    BY <1>2, <2>1 DEF Imported
  <2>3. Added(masters, r, us)
    BY <2>2, AppendAdds DEF MastersOk
  <2>4. /\ DOMAIN r = MasterFields \cup {"sha", "inputs", "imported", "superseded"}
        /\ MasterTyped(r) /\ r.sha # None /\ ShaMade(jobs, r.sha)
    BY <2>1, RowIsMaster
  <2>5. MastersOk(us, jobs)
    BY <2>3, <2>4 DEF MastersOk, Added
  <2> QED
    BY <2>1, <2>5
<1> QED
  BY <1>1, <1>2

LEMMA OthersKeep ==
    ASSUME StackInv, \/ \E n \in Night : NightReady(n) \/ AskRerun(n)
                     \/ \E e \in Event : LogEvent(e)
                     \/ \E m \in Import : ImportMaster(m) \/ \E k \in DOMAIN issues, force \in BOOLEAN : ResolveWithFlat(k, m, force)
                     \/ \E k \in DOMAIN issues : Waive(k)
                     \/ CheckConfig
                     \/ \E t \in Target : AskRereference(t)
    PROVE  StackInv'
<1>1. CatalogOk /\ MastersOk(masters, jobs) /\ ProjectOk(jobs, project)
  BY DEF StackInv
<1>2. /\ jobs' = jobs /\ project' = project /\ planner' = planner /\ running' = running
      /\ frames' = frames /\ link' = link /\ (masters' = masters \/ \E m \in Import : masters' = Imported(m))
  BY DEF NightReady, AskRerun, LogEvent, ImportMaster, ResolveWithFlat, Waive, CheckConfig, AskRereference, inputs, made
<1>3. MastersOk(masters', jobs)
  BY <1>1, <1>2, ImportedAre
<1>4. CatalogOk'
  BY <1>1, <1>2 DEF CatalogOk, Linked
<1>5. LaterFrames(frames, frames')
  BY <1>1, <1>2, LaterSame
<1> QED
  BY <1>2, <1>3, <1>4, <1>5, Arrives

(***************************************************************************)
(* The planner's steps                                                     *)
(***************************************************************************)
Alone == ~Parallel      \* jobs run between the plans, in altaird

LEMMA BeginKeeps ==
    ASSUME Alone, StackInv, Begin
    PROVE  StackInv'
<1>1. /\ ListOk(jobs) /\ SourcesOk(jobs, frames, project) /\ MastersOk(masters, jobs) /\ ProjectOk(jobs, project)
      /\ CatalogOk /\ RunsOk
  BY DEF StackInv
<1>2. /\ running = 0 /\ jobs' = jobs /\ running' = running /\ frames' = frames /\ link' = link /\ masters' = masters
  BY DEF Begin, inputs, Alone
<1>3. PICK todo : planner' = [at |-> "read", todo |-> todo, plan |-> None]
  BY DEF Begin
<1>4. DOMAIN planner' = {"at", "todo", "plan"} /\ planner'.at = "read"
  BY <1>3
<1>5. project' = project \/ \E t : project' = [project EXCEPT ![t] = [version |-> @.version + 1, ref |-> None]]
  BY DEF Begin
<1>6. ProjectOk(jobs, project') /\ LaterProject(project, project')
  <2>1. CASE project' = project
    BY <1>1, <2>1, LaterSame
  <2>2. ASSUME NEW t, project' = [project EXCEPT ![t] = [version |-> @.version + 1, ref |-> None]]
        PROVE  ProjectOk(jobs, project') /\ LaterProject(project, project')
    <3>1. PICK r : r = [version |-> project[t].version + 1, ref |-> None]
      OBVIOUS
    <3>2. project' = [project EXCEPT ![t] = r]
      BY <2>2, <3>1
    <3>3. ProjectRow(r) /\ r.version = project[t].version + 1 /\ r.ref = None
      BY <3>1 DEF ProjectRow
    <3>4. /\ project' = [x \in Target |-> project'[x]]
          /\ \A x \in Target : project'[x] = IF x = t THEN r ELSE project[x]
      BY <1>1, <3>2 DEF ProjectOk
    <3>5. \A x \in Target : ProjectRow(project[x]) /\ project[x].version \in Int
                            /\ (project[x].ref # None => ShaMade(jobs, project[x].ref))
      BY <1>1 DEF ProjectOk
    <3>6. ASSUME NEW x \in Target
          PROVE  /\ ProjectRow(project'[x]) /\ project'[x].version \in Int
                 /\ project'[x].ref # None => ShaMade(jobs, project'[x].ref)
                 /\ \/ project[x].version < project'[x].version
                    \/ project[x].version = project'[x].version /\ (project[x].ref # None => project'[x].ref # None)
      BY <3>3, <3>4, <3>5
    <3> QED
      BY <3>4, <3>5, <3>6 DEF ProjectOk, LaterProject
  <2> QED
    BY <1>5, <2>1, <2>2
<1>7. SourcesOk(jobs, frames, project')
  <2>1. LaterFrames(frames, frames)
    BY <1>1, LaterSame
  <2> QED
    BY <1>1, <1>6, <2>1, SourcesStay
<1>8. RunsOk' /\ PlannerOk' /\ CatalogOk'
  BY <1>1, <1>2, <1>4 DEF RunsOk, PlannerOk, Planned, CatalogOk, Linked
<1> QED
  BY <1>1, <1>2, <1>6, <1>7, <1>8 DEF StackInv

LEMMA PlanReadKeeps ==
    ASSUME NoneApart, StackInv, PlanRead
    PROVE  StackInv'
<1>1. /\ ListOk(jobs) /\ SourcesOk(jobs, frames, project) /\ MastersOk(masters, jobs) /\ ProjectOk(jobs, project)
      /\ CatalogOk /\ RunsOk /\ PlannerOk
  BY DEF StackInv
<1>2. /\ planner.at = "read" /\ jobs' = jobs /\ project' = project /\ running' = running
      /\ frames' = frames /\ link' = link /\ masters' = masters
  BY DEF PlanRead, inputs, made
<1>3. CASE Paused
  <2>1. PICK todo : planner' = [planner EXCEPT !.todo = todo]
    BY <1>3 DEF PlanRead
  <2>2. DOMAIN planner' = {"at", "todo", "plan"} /\ planner'.at = "read"
    BY <1>1, <1>2, <2>1 DEF PlannerOk
  <2>3. RunsOk' /\ CatalogOk' /\ PlannerOk'
    BY <1>1, <1>2, <2>2 DEF RunsOk, CatalogOk, Linked, PlannerOk, Planned
  <2> QED
    BY <1>1, <1>2, <2>3 DEF StackInv
<1>4. SUFFICES ASSUME ~Paused
                PROVE  StackInv'
  BY <1>3
<1>5. PICK n, w : w = PlanNight(n) /\ planner' = [planner EXCEPT !.at = "write", !.plan = w]
  BY <1>4 DEF PlanRead
<1>6. DOMAIN planner' = {"at", "todo", "plan"} /\ planner'.at = "write" /\ planner'.plan = w
  BY <1>1, <1>5 DEF PlannerOk
<1>7. /\ IsSeq(w.jobs) /\ \A k \in DOMAIN w.jobs : PlanNew(w.jobs[k].plan)
      /\ \A g \in w.groups : \A f \in g.lights : f \in Frame /\ IsLight(f)
  BY <1>1, <1>5, NightPlanIs DEF CatalogOk
<1>8. \A k \in DOMAIN w.jobs : Insertable(jobs, w.jobs[k].plan) /\ Proposed(w.jobs[k].plan, frames, project)
  BY <1>1, <1>7, NewIsInsertable
<1>9. PlannerOk'
  BY <1>2, <1>6, <1>7, <1>8 DEF PlannerOk, Planned
<1>10. RunsOk' /\ CatalogOk'
  BY <1>1, <1>2 DEF RunsOk, CatalogOk, Linked
<1> QED
  BY <1>1, <1>2, <1>9, <1>10 DEF StackInv

LEMMA CommitKeeps ==
    ASSUME NoneApart, StackInv, NEW reworded, Commit(reworded)
    PROVE  StackInv'
<1>1. /\ ListOk(jobs) /\ SourcesOk(jobs, frames, project) /\ MastersOk(masters, jobs) /\ ProjectOk(jobs, project)
      /\ CatalogOk /\ RunsOk /\ PlannerOk
  BY DEF StackInv
<1>2. PICK w, us : w = planner.plan /\ us = jobs'
  OBVIOUS
<1>3. /\ planner.at = "write" /\ us = InsertAll(jobs, w.jobs) /\ frames' = [f \in Frame |-> StatusAfter(w, f)]
      /\ link' = link /\ project' = project /\ masters' = masters /\ running' = running
  BY <1>2 DEF Commit, made
<1>4. PICK todo : planner' = [at |-> "read", todo |-> todo, plan |-> None]
  BY DEF Commit
<1>5. /\ IsSeq(w.jobs)
      /\ \A k \in DOMAIN w.jobs : Insertable(jobs, w.jobs[k].plan) /\ Proposed(w.jobs[k].plan, frames, project)
      /\ \A g \in w.groups : \A f \in g.lights : f \in Frame /\ IsLight(f)
  BY <1>1, <1>2, <1>3 DEF PlannerOk, Planned
<1>6. PICK P : P = {w.jobs[k].plan : k \in DOMAIN w.jobs}
  OBVIOUS
<1>7. ListOk(us) /\ SameBuilt(jobs, us) /\ Grown(jobs, us, P)
  BY <1>1, <1>3, <1>5, <1>6, InsertAllIs
<1>8. running = 0
  BY <1>1, <1>3 DEF RunsOk
<1>9. \A f \in Frame : ~IsLight(f) => frames'[f] = frames[f]
  <2>1. ASSUME NEW f \in Frame, ~IsLight(f)
        PROVE  frames'[f] = frames[f]
    <3>1. {g \in w.groups : f \in g.lights} = {}
      BY <1>5, <2>1
    <3>2. StatusAfter(w, f) = frames[f]
      BY <3>1 DEF StatusAfter, Rewrites, Verdict
    <3> QED
      BY <1>3, <3>2
  <2> QED
    BY <2>1
<1>10. LaterFrames(frames, frames') /\ LaterProject(project, project)
  BY <1>1, <1>9, LaterSame DEF LaterFrames
<1>11. LaterJobs(jobs, us)
  BY <1>7 DEF Grown, LaterJobs
<1>12. MastersOk(masters, us) /\ ProjectOk(us, project)
  BY <1>1, <1>11, MadeStays
<1>13. SourcesOk(us, frames', project)
  <2>1. SourcesOk(jobs, frames', project)
    BY <1>1, <1>10, SourcesStay
  <2>2. ASSUME NEW i \in DOMAIN us
        PROVE  Proposed(us[i].plan, frames', project) /\ (us[i].status = "succeeded" => Used(us[i].plan, frames', project))
    <3>1. CASE i \in DOMAIN jobs
      BY <1>7, <2>1, <3>1 DEF Grown, SourcesOk
    <3>2. CASE i \notin DOMAIN jobs
      <4>1. PICK k \in DOMAIN w.jobs : us[i].plan = w.jobs[k].plan
        BY <1>6, <1>7, <3>2 DEF Grown
      <4>2. us[i].status # "succeeded"
        BY <1>7, <3>2 DEF Grown
      <4>3. Proposed(w.jobs[k].plan, frames', project)
        BY <1>5, <1>10, ProposedStays
      <4> QED
        BY <4>1, <4>2, <4>3
    <3> QED
      BY <3>1, <3>2
  <2> QED
    BY <2>2 DEF SourcesOk
<1>14. RunsOk'
  <2>1. \A i \in DOMAIN jobs : jobs[i].status # "running"
    <3>1. \A i \in DOMAIN jobs : i # 0
      BY <1>1, SeqIs DEF ListOk
    <3> QED
      BY <1>1, <1>8, <3>1 DEF RunsOk
  <2>2. \A i \in DOMAIN us : us[i].status # "running" /\ i # 0
    <3>1. \A i \in DOMAIN us : i # 0
      BY <1>7, SeqIs DEF ListOk
    <3> QED
      BY <1>7, <2>1, <3>1 DEF Grown
  <2> QED
    BY <1>2, <1>3, <1>8, <2>2 DEF RunsOk
<1>15. PlannerOk'
  <2>1. DOMAIN planner' = {"at", "todo", "plan"} /\ planner'.at = "read"
    BY <1>4
  <2> QED
    BY <2>1 DEF PlannerOk, Planned
<1>16. CatalogOk'
  BY <1>1, <1>3 DEF CatalogOk, Linked
<1> QED
  BY <1>2, <1>3, <1>7, <1>12, <1>13, <1>14, <1>15, <1>16 DEF StackInv

LEMMA MarkDoneKeeps ==
    ASSUME StackInv, MarkDone \/ PlanFails
    PROVE  StackInv'
<1>1. /\ ListOk(jobs) /\ SourcesOk(jobs, frames, project) /\ MastersOk(masters, jobs) /\ ProjectOk(jobs, project)
      /\ CatalogOk /\ RunsOk /\ PlannerOk
  BY DEF StackInv
<1>2. /\ planner' = Idle \/ planner' = [at |-> "read", todo |-> <<>>, plan |-> None]
      /\ jobs' = jobs /\ project' = project /\ running' = running
      /\ frames' = frames /\ link' = link /\ masters' = masters
  BY DEF MarkDone, PlanFails, inputs, made
<1>3. DOMAIN planner' = {"at", "todo", "plan"} /\ (planner'.at = "idle" \/ (planner'.at = "read" /\ planner.at \in {"read", "write"}))
  BY <1>2 DEF Idle, PlanFails, MarkDone
<1>4. RunsOk' /\ CatalogOk' /\ PlannerOk'
  BY <1>1, <1>2, <1>3 DEF RunsOk, CatalogOk, Linked, PlannerOk, Planned
<1> QED
  BY <1>1, <1>2, <1>4 DEF StackInv

(***************************************************************************)
(* The executor's steps                                                    *)
(***************************************************************************)
\* The planner is idle then: there is no plan that could get old.
LEMMA Executes ==
    ASSUME StackInv, planner' = planner \/ planner' = Idle, planner.at = "idle", ListOk(jobs'), LaterJobs(jobs, jobs'),
           LaterFrames(frames, frames'), frames' = [f \in Frame |-> frames'[f]], link' = link,
           LaterProject(project, project'), ProjectOk(jobs', project'), MastersOk(masters', jobs'),
           \A i \in DOMAIN jobs' : /\ i \in DOMAIN jobs
                                   /\ jobs'[i].status = "succeeded" => jobs[i].status = "succeeded" \/ Used(jobs[i].plan, frames', project'),
           running' \in Nat, running' # 0 => running' \in DOMAIN jobs',
           \A i \in DOMAIN jobs' : jobs'[i].status = "running" <=> i = running'
    PROVE  StackInv'
<1>1. SourcesOk(jobs, frames, project) /\ CatalogOk /\ PlannerOk
  BY DEF StackInv
<1>2. PICK us, fs, ps : us = jobs' /\ fs = frames' /\ ps = project'
  OBVIOUS
<1>3. \A i \in DOMAIN us : /\ i \in DOMAIN jobs /\ us[i].plan = jobs[i].plan
                           /\ us[i].status = "succeeded" => jobs[i].status = "succeeded" \/ Used(jobs[i].plan, fs, ps)
  BY <1>2 DEF LaterJobs
<1>4. SourcesOk(us, fs, ps)
  BY <1>1, <1>2, <1>3, SourcesStay
<1>5. planner'.at = "idle" /\ DOMAIN planner' = {"at", "todo", "plan"}
  BY <1>1 DEF PlannerOk, Idle
<1>6. PlannerOk' /\ RunsOk' /\ CatalogOk'
  BY <1>1, <1>5 DEF PlannerOk, Planned, RunsOk, CatalogOk, Linked
<1> QED
  BY <1>2, <1>4, <1>6 DEF StackInv

LEMMA StartKeeps ==
    ASSUME Alone, NoneApart, StackInv, Start
    PROVE  StackInv'
<1>1. /\ ListOk(jobs) /\ MastersOk(masters, jobs) /\ ProjectOk(jobs, project) /\ CatalogOk /\ RunsOk
  BY DEF StackInv
<1>2. /\ running = 0 /\ planner.at = "idle" /\ planner' = planner /\ frames' = frames /\ link' = link
      /\ masters' = masters /\ project' = project
  BY DEF Start, Alone, inputs, made
<1>3. /\ ListOk(jobs') /\ DOMAIN jobs' = DOMAIN jobs
      /\ \A i \in DOMAIN jobs : /\ jobs'[i].plan = jobs[i].plan
                                /\ jobs'[i].status = "succeeded" <=> jobs[i].status = "succeeded"
      /\ (\A i \in DOMAIN jobs : jobs[i].status # "running") =>
            \A i \in DOMAIN jobs' : jobs'[i].status = "running" <=> i = running'
      /\ running' \in Nat /\ (running' # 0 => running' \in DOMAIN jobs)
  BY <1>1, StartIs
<1>4. \A i \in DOMAIN jobs : jobs[i].status # "running"
  <2>1. \A i \in DOMAIN jobs : i # 0
    BY <1>1, SeqIs DEF ListOk
  <2> QED
    BY <1>1, <1>2, <2>1 DEF RunsOk
<1>5. LaterJobs(jobs, jobs')
  BY <1>3 DEF LaterJobs
<1>6. MastersOk(masters', jobs') /\ ProjectOk(jobs', project')
  BY <1>1, <1>2, <1>5, MadeStays
<1>7. LaterFrames(frames, frames') /\ LaterProject(project, project') /\ frames' = [f \in Frame |-> frames'[f]]
  BY <1>1, <1>2, LaterSame DEF CatalogOk
<1> QED
  BY <1>2, <1>3, <1>4, <1>5, <1>6, <1>7, Executes

\* What a job that ends well leaves in the list.
LEMMA Succeeds ==
    ASSUME NoneApart, StackInv, running # 0, Done("succeeded")
    PROVE  /\ ListOk(jobs') /\ LaterJobs(jobs, jobs') /\ DOMAIN jobs' = DOMAIN jobs /\ running \in DOMAIN jobs /\ running' = 0
           /\ jobs'[running].status = "succeeded" /\ planner.at = "idle"
           /\ \A i \in DOMAIN jobs' : jobs'[i].status = "succeeded" => jobs[i].status = "succeeded" \/ i = running
           /\ \A i \in DOMAIN jobs' : jobs'[i].status = "running" <=> i = running'
<1>1. ListOk(jobs) /\ RunsOk
  BY DEF StackInv
<1>2. PICK us, k : us = jobs' /\ k = running
  OBVIOUS
<1>3. k \in DOMAIN jobs /\ planner.at = "idle" /\ jobs[k].status = "running" /\ \A i \in DOMAIN jobs : jobs[i].status = "running" <=> i = k
  BY <1>1, <1>2 DEF RunsOk
<1>4. us = [jobs EXCEPT ![k].status = "succeeded"] /\ running' = 0
  BY <1>2 DEF Done
<1>5. /\ ListOk(us) /\ DOMAIN us = DOMAIN jobs
      /\ \A i \in DOMAIN jobs : us[i].plan = jobs[i].plan /\ us[i].status = IF i = k THEN "succeeded" ELSE jobs[i].status
  <2>1. ListOk(jobs) /\ jobs[k].status = "running" /\ us = [jobs EXCEPT ![k].status = "succeeded"]
    BY <1>1, <1>3, <1>4
  <2>2. ListOk(us) /\ Finished(jobs, k, us)
    BY <1>3, <2>1, ListBuilt
  <2> QED
    BY <2>2 DEF Finished
<1>6. \A i \in DOMAIN jobs : i # 0
  BY <1>1, SeqIs DEF ListOk
<1>7. LaterJobs(jobs, us) /\ us[k].status = "succeeded"
  BY <1>3, <1>5 DEF LaterJobs
<1>8. \A i \in DOMAIN us : us[i].status = "succeeded" => jobs[i].status = "succeeded" \/ i = k
  BY <1>5
<1>9. \A i \in DOMAIN us : us[i].status = "running" <=> i = 0
  BY <1>3, <1>5, <1>6
<1> QED
  BY <1>2, <1>3, <1>4, <1>5, <1>7, <1>8, <1>9

LEMMA PublishMasterKeeps ==
    ASSUME NoneApart, StackInv, PublishMaster
    PROVE  StackInv'
<1>1. /\ ListOk(jobs) /\ MastersOk(masters, jobs) /\ ProjectOk(jobs, project) /\ CatalogOk /\ RunsOk
  BY DEF StackInv
<1>2. PICK k, p, m : k = running /\ p = jobs[running].plan /\ m = With(p.master, [sha |-> running])
  OBVIOUS
<1>3. /\ running # 0 /\ p.kind = "CALIB_MASTER" /\ Done("succeeded")
      /\ link' = link /\ project' = project /\ planner' = planner
  BY <1>2 DEF PublishMaster
<1>4. masters' = Append([i \in DOMAIN masters |-> IF SameKey(masters[i], m) /\ ~masters[i].imported
                                                  THEN [masters[i] EXCEPT !.superseded = TRUE] ELSE masters[i]],
                        With(m, [inputs |-> p.inputs, imported |-> FALSE, superseded |-> FALSE]))
  BY <1>2, Zenon DEF PublishMaster
<1>5. frames' = [f \in Frame |-> IF f \in p.inputs /\ frames[f] = "valid" THEN "processed" ELSE frames[f]]
  BY <1>2 DEF PublishMaster
<1>6. /\ ListOk(jobs') /\ LaterJobs(jobs, jobs') /\ DOMAIN jobs' = DOMAIN jobs /\ k \in DOMAIN jobs /\ running' = 0
      /\ jobs'[k].status = "succeeded" /\ planner.at = "idle"
      /\ \A i \in DOMAIN jobs' : jobs'[i].status = "succeeded" => jobs[i].status = "succeeded" \/ i = k
      /\ \A i \in DOMAIN jobs' : jobs'[i].status = "running" <=> i = running'
  BY <1>2, <1>3, Succeeds
<1>7. CalibOk(p)
  BY <1>1, <1>2, <1>3, <1>6, KindIs DEF ListOk, RowOk
<1>8. ~ReferenceOk(p)
  BY <1>3 DEF ReferenceOk
<1>9. LaterFrames(frames, frames') /\ frames' = [f \in Frame |-> frames'[f]]
  BY <1>5 DEF LaterFrames
<1>10. Used(p, frames', project')
  <2>1. \A f \in p.inputs : frames'[f] # "valid"
    BY <1>5, <1>7 DEF CalibOk
  <2> QED
    BY <1>8, <2>1 DEF Used
<1>11. LaterProject(project, project') /\ ProjectOk(jobs', project') /\ MastersOk(masters, jobs')
  BY <1>1, <1>3, <1>6, MadeStays, LaterSame
<1>12. MastersOk(masters', jobs')
  <2>1. PICK old, r, us : /\ old = [i \in DOMAIN masters |-> IF SameKey(masters[i], m) /\ ~masters[i].imported
                                                             THEN [masters[i] EXCEPT !.superseded = TRUE] ELSE masters[i]]
                          /\ r = With(m, [inputs |-> p.inputs, imported |-> FALSE, superseded |-> FALSE]) /\ us = masters'
    OBVIOUS
  <2>2. us = Append(old, r)
    BY <1>4, <2>1
  <2>3. Len(masters) \in Nat /\ DOMAIN masters = 1..Len(masters)
    BY <1>1, SeqIs DEF MastersOk
  <2>4. IsSeq(old) /\ DOMAIN old = DOMAIN masters
    <3>1. old = [i \in 1..Len(masters) |-> old[i]]
      BY <2>1, <2>3
    <3>2. Len(masters) \in Nat
      BY <2>3
    <3>3. IsSeq(old) /\ DOMAIN old = 1..Len(masters)
      BY <3>1, <3>2, MadeSeq, Zenon
    <3> QED
      BY <2>3, <3>3
  <2>5. Added(old, r, us)
    BY <2>2, <2>4, AppendAdds
  <2>6. ASSUME NEW i \in DOMAIN old
        PROVE  /\ DOMAIN old[i] = MasterFields \cup {"sha", "inputs", "imported", "superseded"}
               /\ MasterTyped(old[i]) /\ old[i].sha # None /\ ShaMade(jobs', old[i].sha)
    <3>1. /\ DOMAIN masters[i] = MasterFields \cup {"sha", "inputs", "imported", "superseded"}
          /\ MasterTyped(masters[i]) /\ masters[i].sha # None /\ ShaMade(jobs', masters[i].sha)
      BY <1>11, <2>4 DEF MastersOk
    <3>2. old[i] = masters[i] \/ old[i] = [masters[i] EXCEPT !.superseded = TRUE]
      BY <2>1, <2>4
    <3>3. CASE old[i] = [masters[i] EXCEPT !.superseded = TRUE]
      <4>1. PICK x, y : x = masters[i] /\ y = old[i]
        OBVIOUS
      <4>2. y = [x EXCEPT !.superseded = TRUE]
        BY <3>3, <4>1
      <4>3. DOMAIN y = DOMAIN x /\ y.temp = x.temp /\ y.night = x.night /\ y.n = x.n /\ y.sha = x.sha
        BY <4>2
      <4> QED
        BY <3>1, <4>1, <4>3 DEF MasterTyped
    <3> QED
      BY <3>1, <3>2, <3>3
  <2>7. /\ DOMAIN r = MasterFields \cup {"sha", "inputs", "imported", "superseded"}
        /\ MasterTyped(r) /\ r.sha # None /\ ShaMade(jobs', r.sha)
    <3>1. PICK o : o = p.master
      OBVIOUS
    <3>2. DOMAIN o = MasterFields /\ MasterTyped(o)
      BY <1>7, <3>1 DEF CalibOk
    <3>3. m = With(o, [sha |-> k])
      BY <1>2, <3>1
    <3>4. DOMAIN m = MasterFields \cup {"sha"} /\ m.temp = o.temp /\ m.night = o.night /\ m.n = o.n /\ m.sha = k
      BY <3>2, <3>3 DEF With, MasterFields
    <3>5. DOMAIN r = DOMAIN m \cup {"inputs", "imported", "superseded"}
      BY <2>1 DEF With
    <3>6. r.temp = m.temp /\ r.night = m.night /\ r.n = m.n /\ r.sha = m.sha
      BY <2>1, <3>4 DEF With, MasterFields
    <3>7. k \in Nat /\ k # None
      BY <1>1, <1>2, MastersTyped DEF RunsOk
    <3>8. ShaMade(jobs', k)
      BY <1>6 DEF ShaMade
    <3> QED
      BY <3>2, <3>4, <3>5, <3>6, <3>7, <3>8 DEF MasterTyped
  <2>8. MastersOk(us, jobs')
    BY <2>5, <2>6, <2>7 DEF MastersOk, Added
  <2> QED
    BY <2>1, <2>8
<1>13. \A i \in DOMAIN jobs' : /\ i \in DOMAIN jobs
                               /\ jobs'[i].status = "succeeded" => jobs[i].status = "succeeded" \/ Used(jobs[i].plan, frames', project')
  BY <1>2, <1>6, <1>10
<1> QED
  BY <1>3, <1>6, <1>9, <1>11, <1>12, <1>13, Executes

LEMMA PublishReferenceKeeps ==
    ASSUME NoneApart, StackInv, PublishReference
    PROVE  StackInv'
<1>1. /\ ListOk(jobs) /\ SourcesOk(jobs, frames, project) /\ MastersOk(masters, jobs) /\ ProjectOk(jobs, project) /\ CatalogOk /\ RunsOk
  BY DEF StackInv
<1>2. PICK k, p, t, v : k = running /\ p = jobs[running].plan /\ t = p.target /\ v = p.version
  OBVIOUS
<1>3. /\ running # 0 /\ p.kind = "PROJECT_REFERENCE" /\ Done("succeeded")
      /\ frames' = frames /\ link' = link /\ masters' = masters /\ planner' = planner
  BY <1>2 DEF PublishReference, inputs
<1>4. project' = IF project[t] = [version |-> v, ref |-> None] THEN [project EXCEPT ![t].ref = k] ELSE project
  BY <1>2 DEF PublishReference
<1>5. /\ ListOk(jobs') /\ LaterJobs(jobs, jobs') /\ DOMAIN jobs' = DOMAIN jobs /\ k \in DOMAIN jobs /\ running' = 0
      /\ jobs'[k].status = "succeeded" /\ planner.at = "idle"
      /\ \A i \in DOMAIN jobs' : jobs'[i].status = "succeeded" => jobs[i].status = "succeeded" \/ i = k
      /\ \A i \in DOMAIN jobs' : jobs'[i].status = "running" <=> i = running'
  BY <1>2, <1>3, Succeeds
<1>6. ReferenceOk(p)
  BY <1>1, <1>2, <1>3, <1>5, KindIs DEF ListOk, RowOk
<1>7. ~CalibOk(p)
  BY <1>3 DEF CalibOk
<1>8. t \in Target /\ v \in Int /\ v <= project[t].version
  BY <1>1, <1>2, <1>5, <1>6 DEF ReferenceOk, SourcesOk, Proposed
<1>9. k \in Nat /\ k # None /\ ShaMade(jobs', k)
  BY <1>1, <1>2, <1>5, MastersTyped DEF RunsOk, ShaMade
<1>10. ProjectOk(jobs', project) /\ MastersOk(masters, jobs')
  BY <1>1, <1>5, MadeStays
<1>11. /\ project' = [x \in Target |-> project'[x]] /\ \A x \in Target \ {t} : project'[x] = project[x]
       /\ ProjectRow(project'[t]) /\ project'[t].version = project[t].version
       /\ project'[t].ref = project[t].ref \/ (project[t].ref = None /\ project'[t].ref = k)
       /\ v < project'[t].version \/ project'[t].ref # None
  <2>1. project = [x \in Target |-> project[x]] /\ ProjectRow(project[t]) /\ project[t].version \in Int
    BY <1>1, <1>8 DEF ProjectOk
  <2>2. PICK r : r = project[t]
    OBVIOUS
  <2>3. CASE r = [version |-> v, ref |-> None]
    <3>1. PICK q : q = [r EXCEPT !.ref = k]
      OBVIOUS
    <3>2. ProjectRow(q) /\ q.version = r.version /\ q.ref = k /\ r.ref = None
      BY <2>3, <3>1 DEF ProjectRow
    <3>3. project' = [project EXCEPT ![t] = q]
      BY <1>4, <2>2, <2>3, <3>1
    <3>4. project' = [x \in Target |-> project'[x]] /\ (\A x \in Target \ {t} : project'[x] = project[x]) /\ project'[t] = q
      BY <1>8, <2>1, <3>3
    <3> QED
      BY <1>9, <2>2, <3>2, <3>4
  <2>4. CASE r # [version |-> v, ref |-> None]
    <3>1. project' = project
      BY <1>4, <2>2, <2>4
    <3>2. r.version # v \/ r.ref # None
      <4>1. r = [version |-> r.version, ref |-> r.ref]
        BY <1>8, <2>1, <2>2 DEF ProjectRow
      <4> QED
        BY <2>4, <4>1
    <3>3. project[t].version = v => project'[t].ref # None
      BY <2>2, <3>1, <3>2
    <3>4. project[t].version # v => v < project'[t].version
      BY <1>8, <2>1, <3>1
    <3>5. project' = [x \in Target |-> project'[x]] /\ ProjectRow(project'[t])
      BY <2>1, <3>1
    <3> QED
      BY <3>1, <3>3, <3>4, <3>5
  <2> QED
    BY <2>3, <2>4
<1>12. ProjectOk(jobs', project')
  <2>1. ASSUME NEW x \in Target
        PROVE  /\ ProjectRow(project'[x]) /\ project'[x].version \in Int
               /\ project'[x].ref # None => ShaMade(jobs', project'[x].ref)
    <3>1. /\ ProjectRow(project[x]) /\ project[x].version \in Int
          /\ project[x].ref # None => ShaMade(jobs', project[x].ref)
      BY <1>10 DEF ProjectOk
    <3>2. CASE x = t
      BY <1>9, <1>11, <3>1, <3>2
    <3>3. CASE x # t
      BY <1>11, <3>1, <3>3
    <3> QED
      BY <3>2, <3>3
  <2> QED
    BY <1>11, <2>1 DEF ProjectOk
<1>13. LaterProject(project, project')
  <2>1. ASSUME NEW x \in Target
        PROVE  /\ project[x].version \in Int /\ project'[x].version = project[x].version
               /\ project[x].ref # None => project'[x].ref # None
    <3>1. project[x].version \in Int
      BY <1>1 DEF ProjectOk
    <3> QED
      BY <1>11, <3>1
  <2> QED
    BY <2>1 DEF LaterProject
<1>14. Used(p, frames', project')
  BY <1>2, <1>7, <1>11 DEF Used
<1>15. LaterFrames(frames, frames') /\ frames' = [f \in Frame |-> frames'[f]]
  BY <1>1, <1>3, LaterSame DEF CatalogOk
<1>16. \A i \in DOMAIN jobs' : /\ i \in DOMAIN jobs
                               /\ jobs'[i].status = "succeeded" => jobs[i].status = "succeeded" \/ Used(jobs[i].plan, frames', project')
  BY <1>2, <1>5, <1>14
<1> QED
  BY <1>3, <1>5, <1>10, <1>12, <1>13, <1>15, <1>16, Executes

LEMMA PublishStackKeeps ==
    ASSUME NoneApart, StackInv, NEW rejected, PublishStack(rejected)
    PROVE  StackInv'
<1>1. /\ ListOk(jobs) /\ MastersOk(masters, jobs) /\ ProjectOk(jobs, project) /\ CatalogOk /\ RunsOk
  BY DEF StackInv
<1>2. PICK k, p, lights, final : /\ k = running /\ p = jobs[running].plan
                                 /\ lights = UNION {g.lights : g \in p.groups} /\ final = (p.stack = "final")
  OBVIOUS
<1>3. /\ running # 0 /\ p.kind = "NIGHT_STACK" /\ Done("succeeded")
      /\ link' = link /\ masters' = masters /\ project' = project /\ planner' = planner
  BY <1>2 DEF PublishStack
<1>4. frames' = [f \in Frame |-> IF ~final \/ f \notin lights THEN frames[f] ELSE IF f \in rejected THEN "rejected" ELSE "processed"]
  BY <1>2, Zenon DEF PublishStack
<1>5. /\ ListOk(jobs') /\ LaterJobs(jobs, jobs') /\ DOMAIN jobs' = DOMAIN jobs /\ k \in DOMAIN jobs /\ running' = 0
      /\ jobs'[k].status = "succeeded" /\ planner.at = "idle"
      /\ \A i \in DOMAIN jobs' : jobs'[i].status = "succeeded" => jobs[i].status = "succeeded" \/ i = k
      /\ \A i \in DOMAIN jobs' : jobs'[i].status = "running" <=> i = running'
  BY <1>2, <1>3, Succeeds
<1>6. Used(p, frames', project')
  BY <1>3 DEF Used, CalibOk, ReferenceOk
<1>7. LaterFrames(frames, frames') /\ frames' = [f \in Frame |-> frames'[f]]
  BY <1>4 DEF LaterFrames
<1>8. LaterProject(project, project') /\ ProjectOk(jobs', project') /\ MastersOk(masters', jobs')
  BY <1>1, <1>3, <1>5, MadeStays, LaterSame
<1>9. \A i \in DOMAIN jobs' : /\ i \in DOMAIN jobs
                              /\ jobs'[i].status = "succeeded" => jobs[i].status = "succeeded" \/ Used(jobs[i].plan, frames', project')
  BY <1>2, <1>5, <1>6
<1> QED
  BY <1>3, <1>5, <1>7, <1>8, <1>9, Executes

\* A job that stops, for good or to be run again.
LEMMA Stops ==
    ASSUME NoneApart, StackInv, running # 0, NEW s \in {"failed", "queued"}, jobs' = [jobs EXCEPT ![running].status = s], running' = 0,
           planner' = planner \/ planner' = Idle, frames' = frames, link' = link, masters' = masters, project' = project
    PROVE  StackInv'
<1>1. /\ ListOk(jobs) /\ MastersOk(masters, jobs) /\ ProjectOk(jobs, project) /\ CatalogOk /\ RunsOk
  BY DEF StackInv
<1>2. PICK us, k : us = jobs' /\ k = running
  OBVIOUS
<1>3. k \in DOMAIN jobs /\ planner.at = "idle" /\ jobs[k].status = "running" /\ \A i \in DOMAIN jobs : jobs[i].status = "running" <=> i = k
  BY <1>1, <1>2 DEF RunsOk
<1>4. us[k] = [jobs[k] EXCEPT !.status = s] /\ DOMAIN us = DOMAIN jobs /\ \A i \in DOMAIN jobs \ {k} : us[i] = jobs[i]
  BY <1>2, <1>3
<1>5. RowOk(jobs[k])
  BY <1>1, <1>3 DEF ListOk
<1>6. /\ DOMAIN us[k] = DOMAIN jobs[k] /\ us[k].plan = jobs[k].plan /\ us[k].status = s /\ us[k].resolved = jobs[k].resolved
  BY <1>4, <1>5 DEF RowOk
<1>7. IsSeq(us)
  <2>1. Len(jobs) \in Nat /\ DOMAIN jobs = 1..Len(jobs)
    BY <1>1, SeqIs DEF ListOk
  <2>2. us = [i \in 1..Len(jobs) |-> us[i]]
    BY <1>2, <2>1
  <2>3. Len(jobs) \in Nat
    BY <2>1
  <2> QED
    BY <2>2, <2>3, MadeSeq, Zenon
<1>8. ASSUME NEW i \in DOMAIN jobs
      PROVE  RowKept(jobs, us, i) /\ us[i].status # "running"
  <2>1. RowOk(jobs[i]) /\ (StackOk(jobs[i].plan) => StackRow(jobs, jobs[i]))
    BY <1>1 DEF ListOk
  <2>2. CASE i = k
    <3>1. RowOk(us[k])
      BY <1>5, <1>6 DEF RowOk, Statuses, DEAD, Waiting
    <3> QED
      BY <1>3, <1>6, <2>1, <2>2, <3>1 DEF StackRow, Gone, RowKept
  <2>3. CASE i # k
    BY <1>3, <1>4, <2>1, <2>3 DEF StackRow, Gone, RowKept
  <2> QED
    BY <2>2, <2>3
<1>9. ListOk(us)
  BY <1>1, <1>4, <1>7, <1>8, ListKept
<1>10. LaterJobs(jobs, us)
  BY <1>4, <1>8 DEF LaterJobs, RowKept
<1>11. LaterFrames(frames, frames') /\ LaterProject(project, project') /\ frames' = [f \in Frame |-> frames'[f]]
  BY <1>1, LaterSame DEF CatalogOk
<1>12. MastersOk(masters', us) /\ ProjectOk(us, project')
  BY <1>1, <1>10, MadeStays
<1>13. \A i \in DOMAIN us : i \in DOMAIN jobs /\ (us[i].status = "succeeded" => jobs[i].status = "succeeded")
  BY <1>4, <1>8 DEF RowKept
<1>14. \A i \in DOMAIN us : us[i].status = "running" <=> i = running'
  <2>1. \A i \in DOMAIN us : i # 0
    BY <1>9, SeqIs DEF ListOk
  <2> QED
    BY <1>4, <1>8, <2>1
<1> QED
  BY <1>2, <1>3, <1>9, <1>10, <1>11, <1>12, <1>13, <1>14, Executes

LEMMA StopKeeps ==
    ASSUME NoneApart, StackInv, Fail \/ Restart
    PROVE  StackInv'
<1>1. CASE Fail
  <2>1. /\ running # 0 /\ jobs' = [jobs EXCEPT ![running].status = "failed"] /\ running' = 0
        /\ planner' = planner /\ frames' = frames /\ link' = link /\ masters' = masters /\ project' = project
    BY <1>1 DEF Fail, Done, inputs, made
  <2> QED
    BY <2>1, Stops
<1>2. CASE Restart /\ running # 0
  <2>1. /\ jobs' = [jobs EXCEPT ![running].status = "queued"] /\ running' = 0
        /\ planner' = Idle /\ frames' = frames /\ link' = link /\ masters' = masters /\ project' = project
    BY <1>2 DEF Restart, Recovered, inputs, made
  <2> QED
    BY <1>2, <2>1, Stops
<1>3. CASE Restart /\ running = 0
  <2>1. /\ jobs' = jobs /\ running' = running
        /\ planner' = Idle /\ frames' = frames /\ link' = link /\ masters' = masters /\ project' = project
    BY <1>3 DEF Restart, Recovered, inputs, made
  <2>2. /\ ListOk(jobs) /\ SourcesOk(jobs, frames, project) /\ MastersOk(masters, jobs) /\ ProjectOk(jobs, project)
        /\ CatalogOk /\ RunsOk /\ PlannerOk
    BY DEF StackInv
  <2>3. planner'.at = "idle" /\ DOMAIN planner' = {"at", "todo", "plan"}
    BY <2>1 DEF Idle
  <2>4. RunsOk' /\ CatalogOk' /\ PlannerOk'
    BY <2>1, <2>2, <2>3 DEF RunsOk, CatalogOk, Linked, PlannerOk, Planned
  <2> QED
    BY <2>1, <2>2, <2>4 DEF StackInv
<1> QED
  BY <1>1, <1>2, <1>3

LEMMA StackInvInit ==
    ASSUME Init
    PROVE  StackInv
<1>1. jobs = <<>> /\ DOMAIN jobs = {} /\ IsSeq(jobs)
  BY EmptySeq DEF Init, IsSeq
<1>2. ListOk(jobs) /\ SourcesOk(jobs, frames, project)
  BY <1>1 DEF ListOk, Unique, Apart, SourcesOk
<1>3. ProjectOk(jobs, project)
  <2>1. project = [t \in Target |-> [version |-> 1, ref |-> None]]
    BY DEF Init
  <2>2. \A t \in Target : ProjectRow(project[t]) /\ project[t].version = 1 /\ project[t].ref = None
    BY <2>1 DEF ProjectRow
  <2> QED
    BY <2>1, <2>2 DEF ProjectOk
<1>4. CatalogOk
  BY DEF Init, CatalogOk, Linked
<1>5. RunsOk /\ PlannerOk
  <2>1. running = 0 /\ DOMAIN planner = {"at", "todo", "plan"} /\ planner.at = "idle"
    BY DEF Init, Idle
  <2> QED
    BY <1>1, <2>1 DEF RunsOk, PlannerOk, Planned
<1>6. MastersOk(masters, jobs)
  <2>1. masters = [i \in DOMAIN Initially |-> Row(Initially[i])]
    BY DEF Init
  <2>2. IsSeq(Initially)
    BY MastersTyped DEF IsSeq
  <2>3. Len(Initially) \in Nat /\ DOMAIN Initially = 1..Len(Initially)
    BY <2>2, SeqIs
  <2>4. IsSeq(masters) /\ DOMAIN masters = DOMAIN Initially
    <3>1. masters = [i \in 1..Len(Initially) |-> masters[i]]
      BY <2>1, <2>3
    <3>2. Len(Initially) \in Nat
      BY <2>3
    <3>3. IsSeq(masters) /\ DOMAIN masters = 1..Len(Initially)
      BY <3>1, <3>2, MadeSeq, Zenon
    <3> QED
      BY <2>3, <3>3
  <2>5. ASSUME NEW i \in DOMAIN masters
        PROVE  /\ DOMAIN masters[i] = MasterFields \cup {"sha", "inputs", "imported", "superseded"}
               /\ MasterTyped(masters[i]) /\ masters[i].sha # None /\ ShaMade(jobs, masters[i].sha)
    <3>1. Initially[i] \in Import \cup ToSet(Initially) /\ masters[i] = Row(Initially[i])
      BY <2>1, <2>4 DEF ToSet
    <3> QED
      BY <3>1, RowIsMaster
  <2> QED
    BY <2>4, <2>5 DEF MastersOk
<1> QED
  BY <1>2, <1>3, <1>4, <1>5, <1>6 DEF StackInv

LEMMA StackInvNext ==
    ASSUME Alone, NoneApart, StackInv, [Next]_vars
    PROVE  StackInv'
<1>1. CASE UNCHANGED vars
  BY <1>1 DEF vars, inputs, made, StackInv, ListOk, Unique, Apart, SourcesOk, MastersOk, ProjectOk, CatalogOk, Linked, RunsOk, PlannerOk, Planned
<1>2. CASE Arrive
  BY <1>2, CollectKeeps, AdoptKeeps, OthersKeep DEF Arrive
<1>3. CASE \E n \in Night : NightReady(n)
  BY <1>3, OthersKeep
<1>4. CASE User
  BY <1>4, AssignKeeps, OthersKeep DEF User
<1>5. CASE Plan
  BY <1>5, BeginKeeps, PlanReadKeeps, CommitKeeps, MarkDoneKeeps DEF Plan
<1>6. CASE Execute
  BY <1>6, StartKeeps, PublishMasterKeeps, PublishReferenceKeeps, PublishStackKeeps, StopKeeps DEF Execute, Finish
<1>7. CASE Restart
  BY <1>7, StopKeeps
<1> QED
  BY <1>1, <1>2, <1>3, <1>4, <1>5, <1>6, <1>7 DEF Next

LEMMA StackInvIsEnough ==
    ASSUME NoneApart, StackInv
    PROVE  NoStackTwice
<1>1. ListOk(jobs)
  BY DEF StackInv
<1>2. ASSUME NEW i \in DOMAIN jobs, jobs[i].status = "succeeded", jobs[i].plan.kind = "NIGHT_STACK"
      PROVE  StackOk(jobs[i].plan) /\ Ran(i) = FullIn(jobs, jobs[i].plan) /\ ~Gone(jobs, i)
  <2>1. PICK p : p = jobs[i].plan
    OBVIOUS
  <2>2. StackOk(p) /\ StackRow(jobs, jobs[i])
    BY <1>1, <1>2, <2>1, KindIs DEF ListOk, RowOk
  <2>3. CASE jobs[i].resolved = None
    <3>1. NoneBuilt(jobs, p)
      BY <1>2, <2>1, <2>2, <2>3 DEF StackRow, NoJobs, NoneBuilt
    <3> QED
      BY <1>2, <2>1, <2>2, <2>3, <3>1, FullOfNoneBuilt DEF Ran, Gone
  <2>4. CASE jobs[i].resolved # None
    BY <1>2, <2>1, <2>2, <2>4 DEF StackRow, Ran, Gone
  <2> QED
    BY <2>3, <2>4
<1>3. SUFFICES ASSUME NEW i \in DOMAIN jobs, jobs[i].status = "succeeded", jobs[i].plan.kind = "NIGHT_STACK",
                      NEW j \in DOMAIN jobs, jobs[j].status = "succeeded", jobs[j].plan.kind = "NIGHT_STACK",
                      Ran(i) = Ran(j)
               PROVE  i = j
  BY DEF NoStackTwice
<1> QED
  BY <1>1, <1>2, <1>3 DEF ListOk, Apart

(* insert_job and resolve_plan together: whatever order nights are planned *)
(* in and masters are built in, one stack of the same lights, masters and  *)
(* reference is run once.  Alone: no plan is read before what it waits for *)
(* is built and written after.                                             *)
THEOREM StackedOnce == Alone /\ NoneApart => (Spec => []NoStackTwice)
<1>1. ASSUME Alone, NoneApart
      PROVE  Spec => []NoStackTwice
  <2>1. Init => StackInv
    BY StackInvInit
  <2>2. StackInv /\ [Next]_vars => StackInv'
    BY <1>1, StackInvNext
  <2>3. StackInv => NoStackTwice
    BY <1>1, StackInvIsEnough
  <2> QED
    BY <2>1, <2>2, <2>3, PTL DEF Spec
<1> QED
  BY <1>1

-----------------------------------------------------------------------------
(* What the zips promise, for any filters, replicators and bounds.  Everything *)
(* has its type. *)

Typed ==
    /\ latest \in MastersZip /\ object \in MastersZip /\ recorded \in MastersZip
    /\ row \in [zip : MastersZip, build : Nat]
    /\ told \in [zip : MastersZip, build : Nat, archived : BOOLEAN]
    /\ members \subseteq zips /\ zips \subseteq Builds /\ published \subseteq members
    /\ replica \subseteq zips /\ stored \subseteq zips
    /\ backed \subseteq SubIds /\ nas \subseteq SubIds /\ gone \subseteq SubIds
    /\ toldStack \in [published -> {"unknown", "local", "archived"}]
    /\ worker \in [at : Work, build : 0..MaxBuild, zip : MastersZip]
    /\ pass \in [Replicator -> [at : {"idle", "put", "head", "record"}, zip : MastersZip, builds : SUBSET Builds]]
    /\ behind \in BOOLEAN /\ crossed \in BOOLEAN /\ faults \in 0..MaxFaults

(* Where the worker is in a publication says what it has stored; a pass that   *)
(* goes on has something to upload.                                          *)
Placed ==
    /\ worker.at \in {"zip", "members", "row", "report"} => worker.build \in Builds
    /\ worker.at = "subs" => worker.build \in Builds
    /\ worker.at \in {"members", "row", "report"} => worker.build \in zips
    /\ worker.at \in {"row", "report"} => worker.build \in members
    /\ worker.at = "report" => worker.build \in published
    /\ \A p \in Replicator : /\ pass[p].builds \subseteq zips
                             /\ pass[p].at # "idle" /\ pass[p].zip = NoZip => pass[p].builds # {}
                             /\ pass[p].at = "head" => pass[p].zip # NoZip

(* The natural numbers are well-founded, so a set of builds has a least one.   *)
LEMMA MinOf ==
    ASSUME NEW S \in SUBSET Builds, S # {}
    PROVE  Min(S) \in S
  <1>1. MaxBuild \in Nat
    BY BundlesAssumption
  <1>2. S \subseteq Nat
    BY <1>1 DEF Builds
  <1> DEFINE less == OpToRel(<, Nat)
  <1>w. IsWellFoundedOn(less, Nat)
    BY NatLessThanWellFounded
  <1>d. \A m, n \in S : <<m, n>> \in less <=> m < n
    BY <1>2 DEF OpToRel
  <1> HIDE DEF less
  <1>3. PICK n \in S : \A m \in S : ~(<<m, n>> \in less)
    BY <1>2, <1>w, WFMin, Zenon
  <1>4. ASSUME NEW m \in S PROVE n <= m
    <2>1. ~(m < n)
      BY <1>3, <1>d, Zenon
    <2> QED
      BY <1>2, <2>1
  <1> QED
    BY <1>4 DEF Min

LEMMA Constants == MaxVersion \in Nat /\ MaxBuild \in Nat /\ MaxFaults \in Nat /\ NoZip \in MastersZip
  <1>1. MaxVersion \in Nat /\ MaxBuild \in Nat /\ MaxFaults \in Nat
    BY BundlesAssumption
  <1> QED
    BY <1>1 DEF NoZip, MastersZip

LEMMA InitTyped == ZipInit => Typed /\ Placed
  <1> SUFFICES ASSUME ZipInit PROVE Typed /\ Placed
    OBVIOUS
  <1>0. toldStack \in [published -> {"unknown", "local", "archived"}]
    BY DEF ZipInit
  <1>1. worker \in [at : Work, build : 0..MaxBuild, zip : MastersZip]
    BY Constants DEF ZipInit, NoWork, Work
  <1>2. pass \in [Replicator -> [at : {"idle", "put", "head", "record"}, zip : MastersZip, builds : SUBSET Builds]]
    BY Constants DEF ZipInit, Resting
  <1>3. row \in [zip : MastersZip, build : Nat] /\ told \in [zip : MastersZip, build : Nat, archived : BOOLEAN]
    BY Constants DEF ZipInit
  <1>4. behind \in BOOLEAN /\ crossed \in BOOLEAN
    BY DEF ZipInit
  <1>5. latest \in MastersZip /\ object \in MastersZip /\ recorded \in MastersZip /\ faults \in 0..MaxFaults
    BY Constants DEF ZipInit
  <1>6. Typed
    BY <1>0, <1>1, <1>2, <1>3, <1>4, <1>5 DEF ZipInit, Typed
  <1>7. Placed
    BY DEF ZipInit, Placed, NoWork, Resting
  <1> QED
    BY <1>6, <1>7

(* What is left of a pass. *)
LEMMA RestTyped ==
    ASSUME Typed, Placed, NEW p \in Replicator, pass[p].at # "idle"
    PROVE  /\ Rest(p) \in [at : {"idle", "put", "head", "record"}, zip : MastersZip, builds : SUBSET Builds]
           /\ Rest(p).builds \subseteq zips
           /\ Rest(p).zip = NoZip /\ Rest(p).at \in {"idle", "put"}
           /\ Rest(p).at # "idle" => Rest(p).builds # {}
  <1>1. pass[p].builds \in SUBSET Builds /\ pass[p].builds \subseteq zips
    BY DEF Typed, Placed
  <1>2. CASE Rest(p) = Resting
    BY <1>2, Constants DEF Resting
  <1>3. CASE Rest(p) # Resting
    <2>1. PICK left \in SUBSET pass[p].builds : left # {} /\ Rest(p) = [at |-> "put", zip |-> NoZip, builds |-> left]
      BY <1>3 DEF Rest
    <2> QED
      BY <1>1, <2>1, Constants
  <1> QED
    BY <1>2, <1>3

LEMMA ItemTyped ==
    ASSUME Typed, Placed, NEW p \in Replicator, pass[p].at # "idle", ~Masters(p)
    PROVE  Item(p) \in zips
  <1>1. pass[p].builds \in SUBSET Builds /\ pass[p].builds # {} /\ pass[p].builds \subseteq zips
    BY DEF Typed, Placed, Masters
  <1> QED
    BY <1>1, MinOf DEF Item

LEMMA PublishTyped ==
    ASSUME Typed, Placed, Publish
    PROVE  Typed' /\ Placed'
  <1> USE Constants
  <1>1. ASSUME NEW b \in Builds, StoreSubs(b) PROVE Typed' /\ Placed'
    <2>1. 1..b \subseteq SubIds /\ b \in 0..MaxBuild
      BY DEF Builds, SubIds
    <2>2. Typed'
      BY <1>1, <2>1 DEF StoreSubs, projectVars, Typed, NoWork, Work
    <2>3. Placed'
      BY <1>1 DEF StoreSubs, Placed, NoWork
    <2> QED
      BY <2>2, <2>3
  <1>2. CASE StoreNightZip
    BY <1>2 DEF StoreNightZip, projectVars, history, Typed, Placed, Builds, NoWork, Work
  <1>3. CASE ListMembers
    BY <1>3 DEF ListMembers, projectVars, history, Typed, Placed, Builds, NoWork, Work
  <1>4. CASE CommitStack
    BY <1>4 DEF CommitStack, projectVars, history, Typed, Placed, Builds, NoWork, Work
  <1>5. CASE ReportStack
    BY <1>5 DEF ReportStack, Archive, projectVars, history, Typed, Placed, Builds, NoWork, Work
  <1>6. ASSUME NEW f \in Filter, MergeDone(f) PROVE Typed' /\ Placed'
    BY <1>6 DEF MergeDone, nightVars, history, Typed, Placed, MastersZip, NoWork, Work
  <1>7. ASSUME NEW hidden \in SUBSET Filter, StoreMastersZip(hidden) PROVE Typed' /\ Placed'
    <2> DEFINE zip == [f \in Filter |-> IF f \in hidden THEN 0 ELSE latest[f]]
    <2>1. zip \in MastersZip
      BY DEF Typed, MastersZip
    <2>2. worker' \in [at : Work, build : 0..MaxBuild, zip : MastersZip] /\ worker'.at \in {"idle", "zipped"}
      <3>1. worker' \in {NoWork, [at |-> "zipped", build |-> 0, zip |-> zip]}
        BY <1>7 DEF StoreMastersZip, NoWork
      <3> HIDE DEF zip
      <3> QED
        BY <3>1, <2>1 DEF NoWork, Work
    <2>3. behind' \in BOOLEAN
      BY <1>7 DEF StoreMastersZip
    <2>4. faults' \in 0..MaxFaults
      BY <1>7 DEF StoreMastersZip, Fault, Typed
    <2>5. Typed'
      BY <1>7, <2>2, <2>3, <2>4 DEF StoreMastersZip, projectVars, nightVars, Typed
    <2>6. Placed'
      BY <1>7, <2>2 DEF StoreMastersZip, projectVars, nightVars, Placed
    <2> QED
      BY <2>5, <2>6
  <1>8. CASE CommitMastersZip
    BY <1>8 DEF CommitMastersZip, Rebuilt, nightVars, history, Typed, Placed, NoWork, Work
  <1> QED
    BY <1>1, <1>2, <1>3, <1>4, <1>5, <1>6, <1>7, <1>8 DEF Publish

LEMMA UploadTyped ==
    ASSUME Typed, Placed, NEW p \in Replicator, Upload(p) \/ PassEnds(p)
    PROVE  Typed' /\ Placed'
  <1> USE Constants
  <1>1. CASE StartPass(p)
    BY <1>1 DEF StartPass, NonePending, PendingZip, PendingBuilds, projectVars, nightVars, history, Typed, Placed
  <1>2. CASE Put(p)
    <2>1. crossed' \in BOOLEAN
      BY <1>2 DEF Put, Typed
    <2>2. stored' \subseteq zips /\ object' \in MastersZip
      BY <1>2, ItemTyped DEF Put, Typed
    <2>3. pass' \in [Replicator -> [at : {"idle", "put", "head", "record"}, zip : MastersZip, builds : SUBSET Builds]]
      BY <1>2 DEF Put, Typed
    <2>4. Typed'
      BY <1>2, <2>1, <2>2, <2>3 DEF Put, Typed
    <2>5. Placed'
      BY <1>2 DEF Put, Masters, Typed, Placed
    <2> QED
      BY <2>4, <2>5
  <1>3. CASE HeadObject(p)
    BY <1>3, RestTyped DEF HeadObject, projectVars, nightVars, history, Typed, Placed
  <1>4. CASE RecordMasters(p)
    BY <1>4, RestTyped DEF RecordMasters, Superseding, nightVars, history, Typed, Placed
  <1>5. CASE RecordNight(p)
    <2>1. Item(p) \in zips /\ Item(p) \in Builds
      BY <1>5, ItemTyped DEF RecordNight, Typed
    <2>2. 1..Item(p) \subseteq SubIds
      BY <2>1 DEF Builds, SubIds
    <2>3. toldStack' \in [published -> {"unknown", "local", "archived"}]
      BY <1>5 DEF RecordNight, Reenqueued, Typed
    <2>4. Typed'
      BY <1>5, <2>1, <2>2, <2>3, RestTyped DEF RecordNight, projectVars, history, Typed
    <2>5. Placed'
      BY <1>5, RestTyped DEF RecordNight, projectVars, history, Typed, Placed
    <2> QED
      BY <2>4, <2>5
  <1>6. CASE PassEnds(p)
    BY <1>6 DEF PassEnds, Fault, Resting, projectVars, nightVars, Typed, Placed
  <1> QED
    BY <1>1, <1>2, <1>3, <1>4, <1>5, <1>6 DEF Upload

LEMMA NextTyped == Typed /\ Placed /\ [ZipNext]_zipVars => Typed' /\ Placed'
  <1> SUFFICES ASSUME Typed, Placed, [ZipNext]_zipVars PROVE Typed' /\ Placed'
    OBVIOUS
  <1> USE Constants
  <1>1. CASE UNCHANGED zipVars
    BY <1>1 DEF zipVars, projectVars, nightVars, history, Typed, Placed
  <1>2. CASE WorkerStops
    <2>1. behind' \in BOOLEAN
      BY <1>2 DEF WorkerStops, Typed
    <2>2. worker' \in [at : Work, build : 0..MaxBuild, zip : MastersZip] /\ faults' \in 0..MaxFaults
      BY <1>2 DEF WorkerStops, Fault, Typed, NoWork, Work
    <2>3. Typed'
      BY <1>2, <2>1, <2>2 DEF WorkerStops, projectVars, nightVars, Typed
    <2>4. Placed'
      BY <1>2 DEF WorkerStops, projectVars, nightVars, Typed, Placed, Builds, NoWork
    <2> QED
      BY <2>3, <2>4
  <1>3. ASSUME NEW t \in SubIds, CleanSub(t) PROVE Typed' /\ Placed'
    BY <1>3 DEF CleanSub, projectVars, history, Typed, Placed
  <1>4. ASSUME NEW b \in Builds, LoseZip(b) PROVE Typed' /\ Placed'
    <2>1. 1..b \subseteq SubIds
      BY DEF Builds, SubIds
    <2>2. faults' \in 0..MaxFaults
      BY <1>4 DEF LoseZip, Fault, Typed
    <2>3. Typed'
      BY <1>4, <2>1, <2>2 DEF LoseZip, projectVars, Typed
    <2>4. Placed'
      BY <1>4 DEF LoseZip, projectVars, Placed
    <2> QED
      BY <2>3, <2>4
  <1> QED
    BY <1>1, <1>2, <1>3, <1>4, PublishTyped, UploadTyped DEF ZipNext

(* Everything has its type, in every state of Bundles: the rows name zips and  *)
(* builds that exist.                                                        *)
THEOREM BundlesTypeCorrect == ZipSpec => []ZipTypeOK
  <1>1. ASSUME Typed, Placed PROVE ZipTypeOK
    <2>1. latest \in [Filter -> 0..MaxVersion]
      BY <1>1 DEF Typed, MastersZip
    <2>2. told.archived \in BOOLEAN /\ behind \in BOOLEAN /\ crossed \in BOOLEAN
      BY <1>1 DEF Typed
    <2>3. backed \cup nas \cup gone \subseteq SubIds /\ {object, recorded} \subseteq MastersZip
      BY <1>1 DEF Typed
    <2>4. told.zip \in MastersZip /\ told.build \in Nat
      BY <1>1 DEF Typed
    <2>5. \A p \in Replicator : /\ pass[p].at \in {"idle", "put", "head", "record"}
                                /\ pass[p].zip \in MastersZip /\ pass[p].builds \subseteq zips
      BY <1>1 DEF Typed, Placed
    <2> QED
      BY <1>1, <2>1, <2>2, <2>3, <2>4, <2>5 DEF Typed, ZipTypeOK
  <1> QED
    BY <1>1, InitTyped, NextTyped, PTL DEF ZipSpec

-----------------------------------------------------------------------------
(* Subs: those of the publication under way are kept like those of a stack.    *)

Kept(t) == t \in nas \/ t \in gone \/ \E c \in stored : t \in 1..c

SubsHeld ==
    /\ worker.at \in {"zip", "members", "row", "report"} => \A t \in 1..worker.build : Kept(t)
    /\ \A b \in published : \A t \in 1..b : Kept(t)

(* What is kept stays kept: the cleanup looks for a zip in S3, and a zip lost   *)
(* there leaves its mark.                                                    *)
LEMMA KeptOn ==
    ASSUME Typed, Placed, [ZipNext]_zipVars, NEW t, Kept(t)
    PROVE  Kept(t)'
  <1>1. ASSUME nas \subseteq nas', gone \subseteq gone', stored \subseteq stored' PROVE Kept(t)'
    BY <1>1 DEF Kept
  <1>2. ASSUME NEW b \in Builds, StoreSubs(b) PROVE Kept(t)'
    BY <1>2 DEF StoreSubs, Kept
  <1>3. ASSUME NEW q \in SubIds, CleanSub(q) PROVE Kept(t)'
    <2>1. Holders(q) \in SUBSET Builds
      BY DEF Holders, Typed
    <2>2. Min(Holders(q)) \in Holders(q)
      BY <1>3, <2>1, MinOf DEF CleanSub, Fresh
    <2>3. \E c \in stored : q \in 1..c
      BY <1>3, <2>2 DEF CleanSub, Fresh, Holders
    <2> QED
      BY <1>3, <2>3 DEF CleanSub, Kept, history
  <1>4. ASSUME NEW b \in Builds, LoseZip(b) PROVE Kept(t)'
    <2>1. CASE t \in nas \/ t \in gone
      BY <1>4, <2>1 DEF LoseZip, Kept
    <2>2. CASE t \notin nas /\ t \notin gone
      <3>1. PICK c \in stored : t \in 1..c
        BY <2>2 DEF Kept
      <3>2. CASE c = b /\ ~\E d \in stored' : t \in 1..d
        BY <1>4, <2>2, <3>1, <3>2 DEF LoseZip, Kept
      <3>3. CASE c # b
        BY <1>4, <3>1, <3>3 DEF LoseZip, Kept
      <3> QED
        BY <3>2, <3>3 DEF Kept
    <2> QED
      BY <2>1, <2>2
  <1>5. CASE StoreNightZip \/ ListMembers \/ CommitStack \/ ReportStack \/ CommitMastersZip \/ WorkerStops
    BY <1>1, <1>5 DEF StoreNightZip, ListMembers, CommitStack, ReportStack, CommitMastersZip, WorkerStops, nightVars, history
  <1>6. ASSUME NEW f \in Filter, MergeDone(f) PROVE Kept(t)'
    BY <1>1, <1>6 DEF MergeDone, nightVars, history
  <1>7. ASSUME NEW hidden \in SUBSET Filter, StoreMastersZip(hidden) PROVE Kept(t)'
    BY <1>1, <1>7 DEF StoreMastersZip, nightVars
  <1>8. ASSUME NEW p \in Replicator, Upload(p) \/ PassEnds(p) PROVE Kept(t)'
    BY <1>1, <1>8 DEF Upload, StartPass, Put, HeadObject, RecordMasters, RecordNight, PassEnds, nightVars, history
  <1>9. CASE UNCHANGED zipVars
    BY <1>1, <1>9 DEF zipVars, nightVars, history
  <1> QED
    BY <1>2, <1>3, <1>4, <1>5, <1>6, <1>7, <1>8, <1>9 DEF ZipNext, Publish

LEMMA NextSubs ==
    ASSUME Typed, Placed, SubsHeld, [ZipNext]_zipVars
    PROVE  SubsHeld'
  <1>1. ASSUME worker' = worker, published' = published PROVE SubsHeld'
    BY <1>1, KeptOn DEF SubsHeld
  <1>2. ASSUME worker'.at \notin {"zip", "members", "row", "report"}, published' = published PROVE SubsHeld'
    BY <1>2, KeptOn DEF SubsHeld
  <1>3. ASSUME NEW b \in Builds, StoreSubs(b) PROVE SubsHeld'
    <2>1. \A t \in 1..b : Kept(t)'
      BY <1>3 DEF StoreSubs, Kept
    <2> QED
      BY <1>3, <2>1, KeptOn DEF StoreSubs, SubsHeld, NoWork
  <1>4. CASE StoreNightZip \/ ListMembers \/ CommitStack
    <2>1. worker'.build = worker.build /\ worker.at \in {"zip", "members", "row"}
      BY <1>4, Constants DEF StoreNightZip, ListMembers, CommitStack, Typed
    <2>2. published' \subseteq published \cup {worker.build}
      BY <1>4 DEF StoreNightZip, ListMembers, CommitStack
    <2> QED
      BY <2>1, <2>2, KeptOn DEF SubsHeld
  <1>5. CASE ReportStack \/ CommitMastersZip
    BY <1>2, <1>5 DEF ReportStack, CommitMastersZip, nightVars, NoWork
  <1>6. CASE WorkerStops
    BY <1>2, <1>6 DEF WorkerStops, nightVars, NoWork, Typed
  <1>7. ASSUME NEW f \in Filter, MergeDone(f) PROVE SubsHeld'
    BY <1>2, <1>7 DEF MergeDone, nightVars, NoWork
  <1>8. ASSUME NEW hidden \in SUBSET Filter, StoreMastersZip(hidden) PROVE SubsHeld'
    BY <1>2, <1>8 DEF StoreMastersZip, nightVars, NoWork
  <1>9. ASSUME NEW p \in Replicator, Upload(p) \/ PassEnds(p) PROVE SubsHeld'
    BY <1>1, <1>9 DEF Upload, StartPass, Put, HeadObject, RecordMasters, RecordNight, PassEnds, nightVars
  <1>10. ASSUME NEW q \in SubIds, CleanSub(q) PROVE SubsHeld'
    BY <1>1, <1>10 DEF CleanSub
  <1>11. ASSUME NEW b \in Builds, LoseZip(b) PROVE SubsHeld'
    BY <1>1, <1>11 DEF LoseZip
  <1>12. CASE UNCHANGED zipVars
    BY <1>1, <1>12 DEF zipVars, nightVars
  <1> QED
    BY <1>3, <1>4, <1>5, <1>6, <1>7, <1>8, <1>9, <1>10, <1>11, <1>12 DEF ZipNext, Publish

(* cleanup.py, _fresh_in_bundle: no sub of a stack is ever neither on the NAS   *)
(* nor in a zip in S3, unless the zip was lost after the copy was cleaned.     *)
THEOREM SubsKeptHolds == ZipSpec => []SubsKept
  <1>1. ZipInit => SubsHeld
    BY DEF ZipInit, SubsHeld, NoWork
  <1>2. SubsHeld => SubsKept
    BY DEF SubsHeld, SubsKept, Kept
  <1> QED
    BY <1>1, <1>2, InitTyped, NextTyped, NextSubs, PTL DEF ZipSpec

-----------------------------------------------------------------------------
(* Reports: a stack whose zip is in S3 was reported with it, or its            *)
(* publication is under way; the report of the masters zip is that of its row.  *)

WorkerHeld ==
    /\ worker.at \in {"idle", "merged", "zipped"} => worker.build = 0
    /\ worker.at = "merged" => latest # NoZip
    /\ worker.at = "zipped" => worker.zip # NoZip

HubHeld ==
    /\ \A b \in published : toldStack[b] = "archived" \/ b \notin replica \/ worker.build = b
    /\ row.zip # NoZip => /\ told.zip = row.zip /\ told.build = row.build
                          /\ recorded = row.zip => told.archived = TRUE

LEMMA NextWorker ==
    ASSUME Typed, Placed, WorkerHeld, [ZipNext]_zipVars
    PROVE  WorkerHeld'
  <1>1. ASSUME worker' = worker, latest' = latest PROVE WorkerHeld'
    BY <1>1 DEF WorkerHeld
  <1>2. ASSUME NEW b \in Builds, StoreSubs(b) PROVE WorkerHeld'
    BY <1>2 DEF StoreSubs, WorkerHeld, NoWork
  <1>3. CASE StoreNightZip \/ ListMembers \/ CommitStack
    BY <1>3 DEF StoreNightZip, ListMembers, CommitStack, WorkerHeld, Typed
  <1>4. CASE ReportStack \/ CommitMastersZip
    BY <1>4 DEF ReportStack, CommitMastersZip, WorkerHeld, NoWork
  <1>5. ASSUME NEW f \in Filter, MergeDone(f) PROVE WorkerHeld'
    <2>1. latest'[f] = latest[f] + 1 /\ latest[f] \in Nat
      BY <1>5, Constants DEF MergeDone, Typed, MastersZip
    <2>2. latest' # NoZip
      BY <2>1 DEF NoZip
    <2> QED
      BY <1>5, <2>2 DEF MergeDone, WorkerHeld, NoWork
  <1>6. ASSUME NEW hidden \in SUBSET Filter, StoreMastersZip(hidden) PROVE WorkerHeld'
    BY <1>6 DEF StoreMastersZip, WorkerHeld, NoWork
  <1>7. CASE WorkerStops
    BY <1>7 DEF WorkerStops, WorkerHeld, NoWork, Typed
  <1>8. ASSUME NEW p \in Replicator, Upload(p) \/ PassEnds(p) PROVE WorkerHeld'
    BY <1>1, <1>8 DEF Upload, StartPass, Put, HeadObject, RecordMasters, RecordNight, PassEnds, projectVars
  <1>9. ASSUME NEW q \in SubIds, CleanSub(q) PROVE WorkerHeld'
    BY <1>1, <1>9 DEF CleanSub, projectVars
  <1>10. ASSUME NEW b \in Builds, LoseZip(b) PROVE WorkerHeld'
    BY <1>1, <1>10 DEF LoseZip, projectVars
  <1>11. CASE UNCHANGED zipVars
    BY <1>1, <1>11 DEF zipVars, projectVars
  <1> QED
    BY <1>2, <1>3, <1>4, <1>5, <1>6, <1>7, <1>8, <1>9, <1>10, <1>11 DEF ZipNext, Publish

LEMMA NextHub ==
    ASSUME Typed, Placed, WorkerHeld, HubHeld, [ZipNext]_zipVars
    PROVE  HubHeld'
  <1>1. ASSUME worker.build \in {0, worker'.build}, UNCHANGED <<row, told, recorded, published, toldStack, replica>> PROVE HubHeld'
    BY <1>1 DEF HubHeld, Typed, Builds
  <1>2. ASSUME NEW b \in Builds, StoreSubs(b) PROVE HubHeld'
    BY <1>1, <1>2 DEF StoreSubs, projectVars, NoWork
  <1>3. CASE StoreNightZip \/ ListMembers
    BY <1>1, <1>3 DEF StoreNightZip, ListMembers, projectVars, Typed
  <1>4. CASE CommitStack
    BY <1>4 DEF CommitStack, projectVars, HubHeld, Typed
  <1>5. CASE ReportStack
    BY <1>5 DEF ReportStack, Archive, projectVars, HubHeld, Typed
  <1>6. CASE CommitMastersZip
    BY <1>6 DEF CommitMastersZip, Rebuilt, WorkerHeld, nightVars, HubHeld, Typed, NoWork, Builds
  <1>7. ASSUME NEW f \in Filter, MergeDone(f) PROVE HubHeld'
    BY <1>1, <1>7 DEF MergeDone, WorkerHeld, nightVars
  <1>8. ASSUME NEW hidden \in SUBSET Filter, StoreMastersZip(hidden) PROVE HubHeld'
    BY <1>1, <1>8 DEF StoreMastersZip, WorkerHeld, projectVars, nightVars
  <1>9. CASE WorkerStops
    BY <1>1, <1>9 DEF WorkerStops, projectVars, nightVars, Typed
  <1>10. ASSUME NEW p \in Replicator, RecordMasters(p) PROVE HubHeld'
    BY <1>10 DEF RecordMasters, Superseding, nightVars, HubHeld, Typed
  <1>11. ASSUME NEW p \in Replicator, RecordNight(p) PROVE HubHeld'
    BY <1>11 DEF RecordNight, Reenqueued, projectVars, HubHeld, Typed
  <1>12. ASSUME NEW p \in Replicator, StartPass(p) \/ Put(p) \/ HeadObject(p) \/ PassEnds(p) PROVE HubHeld'
    BY <1>1, <1>12 DEF StartPass, Put, HeadObject, PassEnds, projectVars, nightVars
  <1>13. ASSUME NEW q \in SubIds, CleanSub(q) PROVE HubHeld'
    BY <1>1, <1>13 DEF CleanSub, projectVars
  <1>14. ASSUME NEW b \in Builds, LoseZip(b) PROVE HubHeld'
    BY <1>1, <1>14 DEF LoseZip, projectVars
  <1>15. CASE UNCHANGED zipVars
    BY <1>1, <1>15 DEF zipVars, projectVars, nightVars
  <1> QED
    BY <1>2, <1>3, <1>4, <1>5, <1>6, <1>7, <1>8, <1>9, <1>10, <1>11, <1>12, <1>13, <1>14, <1>15
    DEF ZipNext, Publish, Upload

(* products.enqueue and supersede_masters_zip: when nothing is left to do, the  *)
(* Hub knows every zip by its archive URI, whichever came first, the upload or  *)
(* the report.                                                               *)
THEOREM HubKnowsHolds == ZipSpec => []HubKnowsTheArchive
  <1>1. ZipInit => WorkerHeld /\ HubHeld
    BY DEF ZipInit, WorkerHeld, HubHeld, NoWork
  <1>2. ASSUME Typed, HubHeld PROVE HubKnowsTheArchive
    <2>1. ASSUME AllZipped, NEW b \in published PROVE toldStack[b] = "archived"
      BY <1>2, <2>1 DEF AllZipped, NonePending, PendingBuilds, NoWork, HubHeld, Typed, Builds
    <2>2. ASSUME AllZipped, row.zip # NoZip PROVE told = [zip |-> row.zip, build |-> row.build, archived |-> TRUE]
      BY <1>2, <2>2 DEF AllZipped, NonePending, PendingZip, HubHeld, Typed
    <2> QED
      BY <2>1, <2>2 DEF HubKnowsTheArchive
  <1> QED
    BY <1>1, <1>2, InitTyped, NextTyped, NextWorker, NextHub, PTL DEF ZipSpec

-----------------------------------------------------------------------------
(* The download: while no two uploads of the key crossed, the object is the     *)
(* zip being uploaded, or the recorded one.                                   *)

RowHeld ==
    /\ ~behind => \/ worker.at = "merged"
                  \/ worker.at = "zipped" /\ worker.zip = latest
                  \/ worker.at \notin {"merged", "zipped"} /\ row.zip = latest
    /\ row.zip = NoZip => recorded = NoZip /\ \A p \in Replicator : pass[p].zip = NoZip

ObjectHeld ==
    ~crossed => /\ \A p, q \in Replicator : Uploading(p) /\ Uploading(q) => p = q
                /\ \A p \in Replicator : Uploading(p) => object = pass[p].zip
                /\ (\A p \in Replicator : ~Uploading(p)) => object = recorded

LEMMA NextRow ==
    ASSUME Typed, Placed, WorkerHeld, RowHeld, [ZipNext]_zipVars
    PROVE  RowHeld'
  <1>1. ASSUME UNCHANGED <<behind, worker, latest, row, recorded, pass>> PROVE RowHeld'
    BY <1>1 DEF RowHeld
  <1>2. ASSUME worker.at \notin {"merged", "zipped"}, worker'.at \notin {"merged", "zipped"},
               UNCHANGED <<behind, latest, row, recorded, pass>>
        PROVE  RowHeld'
    BY <1>2 DEF RowHeld
  <1>3. ASSUME NEW b \in Builds, StoreSubs(b) PROVE RowHeld'
    BY <1>2, <1>3 DEF StoreSubs, projectVars, NoWork
  <1>4. CASE StoreNightZip \/ ListMembers \/ CommitStack \/ ReportStack
    BY <1>2, <1>4 DEF StoreNightZip, ListMembers, CommitStack, ReportStack, projectVars, history, NoWork, Typed
  <1>5. ASSUME NEW f \in Filter, MergeDone(f) PROVE RowHeld'
    BY <1>5 DEF MergeDone, RowHeld, history, NoWork
  <1>6. ASSUME NEW hidden \in SUBSET Filter, StoreMastersZip(hidden) PROVE RowHeld'
    <2> DEFINE zip == [f \in Filter |-> IF f \in hidden THEN 0 ELSE latest[f]]
    <2>1. worker' = IF zip = NoZip THEN NoWork ELSE [NoWork EXCEPT !.at = "zipped", !.zip = zip]
      BY <1>6 DEF StoreMastersZip
    <2>2. hidden = {} => zip = latest
      BY DEF Typed, MastersZip
    <2>3. worker.at = "merged" /\ latest # NoZip
      BY <1>6 DEF StoreMastersZip, WorkerHeld
    <2>4. ~behind' => hidden = {}
      BY <1>6 DEF StoreMastersZip
    <2> HIDE DEF zip
    <2>5. ~behind' => worker'.at = "zipped" /\ worker'.zip = latest
      BY <2>1, <2>2, <2>3, <2>4 DEF NoWork
    <2> QED
      BY <1>6, <2>5 DEF StoreMastersZip, RowHeld, projectVars
  <1>7. CASE CommitMastersZip
    BY <1>7 DEF CommitMastersZip, Rebuilt, RowHeld, WorkerHeld, history, NoWork, Typed
  <1>8. CASE WorkerStops
    <2>1. CASE worker.build # 0
      BY <1>2, <1>8, <2>1 DEF WorkerStops, WorkerHeld, projectVars, Typed
    <2>2. CASE worker.build = 0
      BY <1>8, <2>2 DEF WorkerStops, RowHeld, projectVars
    <2> QED
      BY <2>1, <2>2
  <1>9. ASSUME NEW p \in Replicator, StartPass(p) PROVE RowHeld'
    BY <1>9 DEF StartPass, PendingZip, RowHeld, projectVars, history, Typed
  <1>10. ASSUME NEW p \in Replicator, Put(p) PROVE RowHeld'
    BY <1>10 DEF Put, RowHeld, Typed
  <1>11. ASSUME NEW p \in Replicator, HeadObject(p) PROVE RowHeld'
    BY <1>11, RestTyped DEF HeadObject, RowHeld, projectVars, history, Typed
  <1>12. ASSUME NEW p \in Replicator, RecordMasters(p) PROVE RowHeld'
    BY <1>12, RestTyped DEF RecordMasters, Superseding, RowHeld, history, Typed
  <1>13. ASSUME NEW p \in Replicator, RecordNight(p) PROVE RowHeld'
    BY <1>13, RestTyped DEF RecordNight, RowHeld, projectVars, history, Typed
  <1>14. ASSUME NEW p \in Replicator, PassEnds(p) PROVE RowHeld'
    BY <1>14 DEF PassEnds, Resting, RowHeld, projectVars, Typed
  <1>15. ASSUME NEW q \in SubIds, CleanSub(q) PROVE RowHeld'
    BY <1>1, <1>15 DEF CleanSub, projectVars, history
  <1>16. ASSUME NEW b \in Builds, LoseZip(b) PROVE RowHeld'
    BY <1>1, <1>16 DEF LoseZip, projectVars
  <1>17. CASE UNCHANGED zipVars
    BY <1>1, <1>17 DEF zipVars, projectVars, history
  <1> QED
    BY <1>3, <1>4, <1>5, <1>6, <1>7, <1>8, <1>9, <1>10, <1>11, <1>12, <1>13, <1>14, <1>15, <1>16, <1>17
    DEF ZipNext, Publish, Upload

LEMMA NextObject ==
    ASSUME Typed, Placed, ObjectHeld, [ZipNext]_zipVars
    PROVE  ObjectHeld'
  <1>1. ASSUME UNCHANGED <<crossed, object, recorded, pass>> PROVE ObjectHeld'
    BY <1>1 DEF ObjectHeld, Uploading, Masters
  <1>2. CASE Publish \/ WorkerStops
    BY <1>1, <1>2 DEF Publish, StoreSubs, StoreNightZip, ListMembers, CommitStack, ReportStack, MergeDone, StoreMastersZip,
                      CommitMastersZip, WorkerStops, projectVars, history
  <1>3. ASSUME NEW p \in Replicator, StartPass(p) PROVE ObjectHeld'
    BY <1>3 DEF StartPass, ObjectHeld, Uploading, Masters, projectVars, history, Typed
  <1>4. ASSUME NEW p \in Replicator, Put(p) PROVE ObjectHeld'
    <2>1. /\ recorded' = recorded /\ \A q \in Replicator \ {p} : pass'[q] = pass[q]
          /\ pass[p].at = "put" /\ pass'[p].zip = pass[p].zip
      BY <1>4 DEF Put, Typed
    <2>2. \A q \in Replicator \ {p} : Uploading(q)' <=> Uploading(q)
      BY <2>1 DEF Uploading, Masters
    <2>3. ~Uploading(p)
      BY <2>1 DEF Uploading
    <2>4. CASE Masters(p)
      <3>1. object' = pass[p].zip /\ (~crossed' => ~crossed /\ \A q \in Replicator \ {p} : ~Uploading(q))
        BY <1>4, <2>4 DEF Put
      <3>2. Uploading(p)'
        BY <1>4, <2>4 DEF Put, Uploading, Masters, Typed
      <3> QED
        BY <2>1, <2>2, <3>1, <3>2 DEF ObjectHeld
    <2>5. CASE ~Masters(p)
      <3>1. object' = object /\ crossed' = crossed /\ ~Uploading(p)'
        BY <1>4, <2>1, <2>5 DEF Put, Uploading, Masters
      <3> QED
        BY <2>1, <2>2, <2>3, <3>1 DEF ObjectHeld
    <2> QED
      BY <2>4, <2>5
  <1>5. ASSUME NEW p \in Replicator, HeadObject(p) PROVE ObjectHeld'
    BY <1>5, RestTyped DEF HeadObject, ObjectHeld, Uploading, Masters, Placed, projectVars, history, Typed
  <1>6. ASSUME NEW p \in Replicator, RecordMasters(p) PROVE ObjectHeld'
    BY <1>6, RestTyped DEF RecordMasters, Superseding, ObjectHeld, Uploading, Masters, history, Typed
  <1>7. ASSUME NEW p \in Replicator, RecordNight(p) PROVE ObjectHeld'
    BY <1>7, RestTyped DEF RecordNight, ObjectHeld, Uploading, Masters, projectVars, history, Typed
  <1>8. ASSUME NEW p \in Replicator, PassEnds(p) PROVE ObjectHeld'
    BY <1>8 DEF PassEnds, Resting, ObjectHeld, Uploading, Masters, projectVars, Typed
  <1>9. ASSUME NEW q \in SubIds, CleanSub(q) PROVE ObjectHeld'
    BY <1>1, <1>9 DEF CleanSub, projectVars, history
  <1>10. ASSUME NEW b \in Builds, LoseZip(b) PROVE ObjectHeld'
    BY <1>1, <1>10 DEF LoseZip, projectVars
  <1>11. CASE UNCHANGED zipVars
    BY <1>1, <1>11 DEF zipVars, projectVars, history
  <1> QED
    BY <1>2, <1>3, <1>4, <1>5, <1>6, <1>7, <1>8, <1>9, <1>10, <1>11 DEF ZipNext, Upload

(* replicator.py, _upload_bundle: with nothing left to do the key of the        *)
(* masters zip holds the newest masters, unless one could not be read, altaird   *)
(* stopped before the zip was recorded, or two uploads of the key crossed.      *)
THEOREM DownloadIsCurrentHolds == ZipSpec => []DownloadIsCurrent
  <1>1. ZipInit => WorkerHeld /\ RowHeld /\ ObjectHeld
    BY DEF ZipInit, WorkerHeld, RowHeld, ObjectHeld, Uploading, NoWork, Resting
  <1>2. RowHeld /\ ObjectHeld => DownloadIsCurrent
    BY DEF DownloadIsCurrent, AllZipped, NonePending, PendingZip, RowHeld, ObjectHeld, Uploading, NoWork, Resting
  <1> QED
    BY <1>1, <1>2, InitTyped, NextTyped, NextWorker, NextRow, NextObject, PTL DEF ZipSpec
=============================================================================
