--------------------------- MODULE KeyboardProofs ---------------------------
(***************************************************************************)
(* That keys arrive, that the leader's chords stay reachable, and that the *)
(* picker shows what matches, best first, and keeps its selection when     *)
(* rows turn up: for any keys, names, sessions and labels.  First, that    *)
(* the score is the best there is, for every query and every text whose    *)
(* score cannot reach the sentinel of the table.                           *)
(***************************************************************************)
EXTENDS Keyboard, FiniteSetTheorems, WellFoundedInduction, SequenceTheorems, TLAPS

(***************************************************************************)
(* The score.  Recursive functions are reasoned about through a least      *)
(* counterexample: any family of finite sets has a member that no other is *)
(* a part of, and so any set of naturals has a least element.              *)
(***************************************************************************)
-----------------------------------------------------------------------------
(* Least and greatest elements.                                            *)

\* Of finite sets, one has none of the others as a proper part.
LEMMA FinMin ==
  ASSUME NEW S, NEW F \in SUBSET FiniteSubsetsOf(S), F # {}
  PROVE  \E A \in F : \A B \in F : ~(B \subseteq A /\ B # A)
<1>1. IsWellFoundedOn(StrictSubsetOrdering(S), FiniteSubsetsOf(S))
  BY FS_StrictSubsetOrderingWellFounded
<1>3. \E A \in F : \A B \in F : ~(<<B, A>> \in StrictSubsetOrdering(S))
  BY <1>1, WFMin
<1> QED
  BY <1>3 DEF StrictSubsetOrdering, FiniteSubsetsOf


\* Any set of naturals has a least element.
LEMMA NatMin ==
  ASSUME NEW N, N \subseteq Nat, N # {}
  PROVE  \E n \in N : \A m \in N : n <= m
<1> DEFINE Upto == {0 .. n : n \in N}
<1>1. Upto \in SUBSET FiniteSubsetsOf(Nat)
  <2> SUFFICES ASSUME NEW n \in N PROVE 0 .. n \subseteq Nat /\ IsFiniteSet(0 .. n)
    BY DEF FiniteSubsetsOf
  <2>1. n \in Nat
    OBVIOUS
  <2>2. IsFiniteSet(0 .. n)
    BY <2>1, FS_Interval
  <2> QED
    BY <2>1, <2>2
<1>2. Upto # {}
  OBVIOUS
<1>3. PICK A \in Upto : \A B \in Upto : ~(B \subseteq A /\ B # A)
  <2> HIDE DEF Upto
  <2> QED
    BY <1>1, <1>2, FinMin
<1> HIDE DEF Upto
<1>4. PICK n \in N : A = 0 .. n
  BY <1>3 DEF Upto
<1>5. ASSUME NEW m \in N, ~(n <= m) PROVE FALSE
  <2>1. 0 .. m \in Upto
    BY DEF Upto
  <2>2. n \in Nat /\ m \in Nat /\ m < n
    BY <1>5
  <2>3. 0 .. m \subseteq 0 .. n /\ n \in 0 .. n /\ n \notin 0 .. m
    BY <2>2
  <2> QED
    BY <1>3, <1>4, <2>1, <2>3
<1> QED
  BY <1>5

\* A function from a finite set to the integers is greatest somewhere.
LEMMA FinMax ==
  ASSUME NEW D, IsFiniteSet(D), D # {}, NEW f \in [D -> Int]
  PROVE  \E d \in D : \A e \in D : f[e] <= f[d]
<1> DEFINE Over(d) == {e \in D : f[e] > f[d]}
           Tails == {Over(d) : d \in D}
<1>1. Tails \in SUBSET FiniteSubsetsOf(D)
  BY FS_Subset DEF FiniteSubsetsOf
<1>2. Tails # {}
  <2> PICK d \in D : TRUE
    OBVIOUS
  <2>1. Over(d) \in Tails
    OBVIOUS
  <2> QED
    BY <2>1
<1>3. PICK A \in Tails : \A B \in Tails : ~(B \subseteq A /\ B # A)
  <2> HIDE DEF Tails
  <2> QED
    BY <1>1, <1>2, FinMin
<1>4. PICK d \in D : A = Over(d)
  BY <1>3
<1>5. ASSUME NEW e \in D, ~(f[e] <= f[d]) PROVE FALSE
  <2>1. Over(e) \in Tails
    OBVIOUS
  <2>2. e \in Over(d) /\ e \notin Over(e)
    BY <1>5
  <2>3. Over(e) \subseteq Over(d)
    <3>1. \A x \in D : f[x] \in Int
      OBVIOUS
    <3> QED
      BY <1>5, <3>1
  <2> QED
    BY <1>3, <1>4, <2>1, <2>2, <2>3
<1> QED
  BY <1>5

\* Max is what bounds a set from within.
LEMMA MaxIs ==
  ASSUME NEW S, S \subseteq Int, NEW m \in S, \A x \in S : x <= m
  PROVE  Max(S) = m
<1>1. \A y \in S : m >= y
  OBVIOUS
<1>2. Max(S) \in S /\ \A y \in S : Max(S) >= y
  BY <1>1 DEF Max
<1> DEFINE M == Max(S)
<1>3. M \in Int /\ m \in Int /\ M >= m /\ M <= m
  BY <1>2
<1> HIDE DEF M
<1>4. M = m
  BY <1>3
<1> QED
  BY <1>4 DEF M

\* The numbers that a function gives to the members of a finite set have a Max.
LEMMA MaxOfImage ==
  ASSUME NEW D, IsFiniteSet(D), D # {}, NEW f \in [D -> Int]
  PROVE  LET S == {f[d] : d \in D}
         IN Max(S) \in S /\ \A x \in S : x <= Max(S)
<1> DEFINE S == {f[d] : d \in D}
<1>1. PICK d \in D : \A e \in D : f[e] <= f[d]
  BY FinMax
<1>2. S \subseteq Int /\ f[d] \in S /\ \A x \in S : x <= f[d]
  BY <1>1
<1>3. Max(S) = f[d]
  <2> HIDE DEF S
  <2> QED
    BY <1>2, MaxIs
<1> QED
  BY <1>2, <1>3

-----------------------------------------------------------------------------
(* The recursive functions are what their equations say.                   *)

IsTable(q, text, n, g) ==
  g = [i \in 1 .. n |-> Row(q, text, i, IF i = 1 THEN <<>> ELSE g[i - 1])]

\* The first n rows of the table exist.
LEMMA TableExists ==
  ASSUME NEW q, NEW text, NEW n \in Nat
  PROVE  \E g : IsTable(q, text, n, g)
<1> DEFINE Rows(m) == \E g : IsTable(q, text, m, g)
           Missing == {m \in Nat : ~Rows(m)}
<1>1. SUFFICES ASSUME Missing # {} PROVE FALSE
  OBVIOUS
<1>2. PICK m \in Missing : \A k \in Missing : m <= k
  <2>1. Missing \subseteq Nat
    OBVIOUS
  <2> HIDE DEF Missing
  <2> QED
    BY <1>1, <2>1, NatMin
<1>3. CASE m = 0
  <2> DEFINE g == [i \in 1 .. 0 |-> TRUE]
  <2>1. g = [i \in 1 .. 0 |-> Row(q, text, i, IF i = 1 THEN <<>> ELSE g[i - 1])]
    OBVIOUS
  <2> QED
    BY <1>2, <1>3, <2>1 DEF IsTable
<1>4. CASE m # 0
  <2>1. m \in Nat /\ m - 1 \in Nat /\ Rows(m - 1)
    BY <1>2, <1>4
  <2>2. PICK g : g = [i \in 1 .. m - 1 |-> Row(q, text, i, IF i = 1 THEN <<>> ELSE g[i - 1])]
    BY <2>1 DEF IsTable
  <2> DEFINE h == [i \in 1 .. m |->
                     IF i = m THEN Row(q, text, m, IF m = 1 THEN <<>> ELSE g[m - 1]) ELSE g[i]]
  <2>3. \A i \in 1 .. m : i # m => i \in 1 .. m - 1 /\ h[i] = g[i]
    BY <2>1
  <2>4. \A i \in 1 .. m : h[i] = Row(q, text, i, IF i = 1 THEN <<>> ELSE h[i - 1])
    <3> SUFFICES ASSUME NEW i \in 1 .. m
                 PROVE h[i] = Row(q, text, i, IF i = 1 THEN <<>> ELSE h[i - 1])
      OBVIOUS
    <3>1. i # 1 => i - 1 \in 1 .. m /\ i - 1 # m /\ h[i - 1] = g[i - 1]
      BY <2>1, <2>3
    <3>2. CASE i = m
      BY <3>1, <3>2
    <3>3. CASE i # m
      <4>1. g[i] = Row(q, text, i, IF i = 1 THEN <<>> ELSE g[i - 1])
        BY <2>2, <2>3, <3>3
      <4> QED
        BY <3>1, <3>3, <4>1
    <3> QED
      BY <3>2, <3>3
  <2>5. h = [i \in 1 .. m |-> Row(q, text, i, IF i = 1 THEN <<>> ELSE h[i - 1])]
    <3> DEFINE r == [i \in 1 .. m |-> Row(q, text, i, IF i = 1 THEN <<>> ELSE h[i - 1])]
    <3>1. h = [i \in 1 .. m |-> h[i]] /\ \A i \in 1 .. m : r[i] = h[i]
      BY <2>4
    <3>2. r = [i \in 1 .. m |-> r[i]]
      OBVIOUS
    <3> QED
      BY <3>1, <3>2
  <2> HIDE DEF h
  <2> QED
    BY <1>2, <2>5 DEF IsTable
<1> QED
  BY <1>3, <1>4

LEMMA BestIs ==
  ASSUME NEW q, NEW text, Len(q) \in Nat
  PROVE  Best(q, text) =
           [i \in 1 .. Len(q) |-> Row(q, text, i, IF i = 1 THEN <<>> ELSE Best(q, text)[i - 1])]
<1>0. PICK g : IsTable(q, text, Len(q), g)
  BY TableExists
<1>1. g = [i \in 1 .. Len(q) |-> Row(q, text, i, IF i = 1 THEN <<>> ELSE g[i - 1])]
  BY <1>0 DEF IsTable
<1> QED
  BY <1>1 DEF Best

IsSum(q, text, at, n, g) ==
  g = [k \in 0 .. n |-> IF k = 0 THEN 0 ELSE g[k - 1] + Adds(q, text, at, k)]

\* The worth of the first n characters exists.
LEMMA SumExists ==
  ASSUME NEW q, NEW text, NEW at, NEW n \in Nat
  PROVE  \E g : IsSum(q, text, at, n, g)
<1> DEFINE Sums(m) == \E g : IsSum(q, text, at, m, g)
           Missing == {m \in Nat : ~Sums(m)}
<1>1. SUFFICES ASSUME Missing # {} PROVE FALSE
  OBVIOUS
<1>2. PICK m \in Missing : \A k \in Missing : m <= k
  <2>1. Missing \subseteq Nat
    OBVIOUS
  <2> HIDE DEF Missing
  <2> QED
    BY <1>1, <2>1, NatMin
<1>3. CASE m = 0
  <2> DEFINE g == [k \in 0 .. 0 |-> 0]
  <2>1. g = [k \in 0 .. 0 |-> IF k = 0 THEN 0 ELSE g[k - 1] + Adds(q, text, at, k)]
    OBVIOUS
  <2> QED
    BY <1>2, <1>3, <2>1 DEF IsSum
<1>4. CASE m # 0
  <2>1. m \in Nat /\ m - 1 \in Nat /\ Sums(m - 1)
    BY <1>2, <1>4
  <2>2. PICK g : g = [k \in 0 .. m - 1 |-> IF k = 0 THEN 0 ELSE g[k - 1] + Adds(q, text, at, k)]
    BY <2>1 DEF IsSum
  <2> DEFINE h == [k \in 0 .. m |-> IF k = m THEN g[m - 1] + Adds(q, text, at, m) ELSE g[k]]
  <2>3. \A k \in 0 .. m : k # m => k \in 0 .. m - 1 /\ h[k] = g[k]
    BY <2>1
  <2>4. \A k \in 0 .. m : h[k] = IF k = 0 THEN 0 ELSE h[k - 1] + Adds(q, text, at, k)
    <3> SUFFICES ASSUME NEW k \in 0 .. m
                 PROVE h[k] = IF k = 0 THEN 0 ELSE h[k - 1] + Adds(q, text, at, k)
      OBVIOUS
    <3>1. k # 0 => k - 1 \in 0 .. m /\ k - 1 # m /\ h[k - 1] = g[k - 1]
      BY <2>1, <2>3
    <3>2. CASE k = m
      BY <1>4, <3>1, <3>2
    <3>3. CASE k # m
      <4>1. g[k] = IF k = 0 THEN 0 ELSE g[k - 1] + Adds(q, text, at, k)
        BY <2>2, <2>3, <3>3
      <4> QED
        BY <2>3, <3>1, <3>3, <4>1
    <3> QED
      BY <3>2, <3>3
  <2>5. h = [k \in 0 .. m |-> IF k = 0 THEN 0 ELSE h[k - 1] + Adds(q, text, at, k)]
    <3> DEFINE r == [k \in 0 .. m |-> IF k = 0 THEN 0 ELSE h[k - 1] + Adds(q, text, at, k)]
    <3>1. h = [k \in 0 .. m |-> h[k]] /\ \A k \in 0 .. m : r[k] = h[k]
      BY <2>4
    <3>2. r = [k \in 0 .. m |-> r[k]]
      OBVIOUS
    <3> QED
      BY <3>1, <3>2
  <2> HIDE DEF h
  <2> QED
    BY <1>2, <2>5 DEF IsSum
<1> QED
  BY <1>3, <1>4

LEMMA WorthToIs ==
  ASSUME NEW q, NEW text, NEW at, Len(q) \in Nat
  PROVE  WorthTo(q, text, at) =
           [k \in 0 .. Len(q) |->
              IF k = 0 THEN 0 ELSE WorthTo(q, text, at)[k - 1] + Adds(q, text, at, k)]
<1>0. PICK g : IsSum(q, text, at, Len(q), g)
  BY SumExists
<1>1. g = [k \in 0 .. Len(q) |-> IF k = 0 THEN 0 ELSE g[k - 1] + Adds(q, text, at, k)]
  BY <1>0 DEF IsSum
<1> QED
  BY <1>1 DEF WorthTo

-----------------------------------------------------------------------------
(* Alignments.  A placement puts every character of the query somewhere,   *)
(* and fits up to i when the first i of them could be a match.             *)

Placements(q, text) == [1 .. Len(q) -> 1 .. Len(text)]
Fits(q, text, at, i) ==
  /\ \A k \in 1 .. i : SameLetter(text[at[k]], q[k])
  /\ \A k, l \in 1 .. i : k < l => at[k] < at[l]

LEMMA LandingType ==
  ASSUME NEW q, NEW text, NEW i, NEW j
  PROVE  Landing(q, text, i, j) \in Nat
BY DEF Landing, PositionBonus, ScoreStart, ScoreBoundary, ScoreCaseMatch

LEMMA StepType ==
  ASSUME NEW k \in Int, NEW j \in Int, k < j
  PROVE  Step(k, j) \in Int /\ Step(k, j) >= -(j - k - 1)
BY DEF Step, ScoreConsecutive, PenaltyGap

LEMMA AddsType ==
  ASSUME NEW q, NEW text, Len(q) \in Nat, Len(text) \in Nat,
         NEW at \in Placements(q, text), NEW k \in 1 .. Len(q)
  PROVE  Adds(q, text, at, k) \in Int
<1>1. Landing(q, text, k, at[k]) \in Int
  BY LandingType
<1>2. at[k] \in Int /\ at[1] \in Int /\ (k # 1 => at[k - 1] \in Int)
  BY DEF Placements
<1>3. PenaltyLeading * (at[1] - 1) \in Int
  BY <1>2 DEF PenaltyLeading
<1>4. k # 1 => Step(at[k - 1], at[k]) \in Int
  BY <1>2 DEF Step, ScoreConsecutive, PenaltyGap
<1> QED
  BY <1>1, <1>3, <1>4 DEF Adds

LEMMA WorthToStep ==
  ASSUME NEW q, NEW text, NEW at, Len(q) \in Nat
  PROVE  /\ WorthTo(q, text, at)[0] = 0
         /\ \A k \in 1 .. Len(q) :
              WorthTo(q, text, at)[k] = WorthTo(q, text, at)[k - 1] + Adds(q, text, at, k)
<1> DEFINE w == WorthTo(q, text, at)
<1>1. w = [k \in 0 .. Len(q) |-> IF k = 0 THEN 0 ELSE w[k - 1] + Adds(q, text, at, k)]
  BY WorthToIs
<1> HIDE DEF w
<1>2. \A k \in 0 .. Len(q) : w[k] = IF k = 0 THEN 0 ELSE w[k - 1] + Adds(q, text, at, k)
  BY <1>1
<1>3. w[0] = 0 /\ \A k \in 1 .. Len(q) : w[k] = w[k - 1] + Adds(q, text, at, k)
  BY <1>2
<1> QED
  BY <1>3 DEF w

\* A worth is an integer.
LEMMA WorthToType ==
  ASSUME NEW q, NEW text, Len(q) \in Nat, Len(text) \in Nat,
         NEW at \in Placements(q, text), NEW n \in 0 .. Len(q)
  PROVE  WorthTo(q, text, at)[n] \in Int
<1> DEFINE w == WorthTo(q, text, at)
           Bad == {m \in 0 .. Len(q) : w[m] \notin Int}
<1>0. w[0] = 0 /\ \A k \in 1 .. Len(q) : w[k] = w[k - 1] + Adds(q, text, at, k)
  BY WorthToStep
<1> HIDE DEF w
<1>1. SUFFICES ASSUME Bad # {} PROVE FALSE
  BY DEF w
<1>2. PICK m \in Bad : \A k \in Bad : m <= k
  <2>1. Bad \subseteq Nat
    OBVIOUS
  <2> HIDE DEF Bad
  <2> QED
    BY <1>1, <2>1, NatMin
<1>3. m # 0
  BY <1>0, <1>2
<1>4. m \in 1 .. Len(q) /\ w[m - 1] \in Int
  BY <1>2, <1>3
<1>5. w[m] = w[m - 1] + Adds(q, text, at, m) /\ Adds(q, text, at, m) \in Int
  BY <1>0, <1>4, AddsType
<1> QED
  BY <1>2, <1>4, <1>5

Agree(at, bt, n) == \A k \in 1 .. n : at[k] = bt[k]

\* A worth depends only on where the characters so far are.
LEMMA WorthToAgrees ==
  ASSUME NEW q, NEW text, Len(q) \in Nat, NEW at, NEW bt, NEW n \in 0 .. Len(q),
         Agree(at, bt, n)
  PROVE  WorthTo(q, text, at)[n] = WorthTo(q, text, bt)[n]
<1> DEFINE w == WorthTo(q, text, at)
           v == WorthTo(q, text, bt)
           Bad == {m \in 0 .. n : w[m] # v[m]}
<1>0. /\ w[0] = 0 /\ \A k \in 1 .. Len(q) : w[k] = w[k - 1] + Adds(q, text, at, k)
      /\ v[0] = 0 /\ \A k \in 1 .. Len(q) : v[k] = v[k - 1] + Adds(q, text, bt, k)
  BY WorthToStep
<1> HIDE DEF w, v
<1>1. SUFFICES ASSUME Bad # {} PROVE FALSE
  BY DEF w, v
<1>2. PICK m \in Bad : \A k \in Bad : m <= k
  <2>1. Bad \subseteq Nat
    OBVIOUS
  <2> HIDE DEF Bad
  <2> QED
    BY <1>1, <2>1, NatMin
<1>3. m # 0
  BY <1>0, <1>2
<1>4. m \in 1 .. n /\ m \in 1 .. Len(q) /\ w[m - 1] = v[m - 1]
  BY <1>2, <1>3
<1>5. at[m] = bt[m] /\ at[1] = bt[1] /\ (m # 1 => at[m - 1] = bt[m - 1])
  BY <1>4 DEF Agree
<1>6. Adds(q, text, at, m) = Adds(q, text, bt, m)
  BY <1>5 DEF Adds
<1> QED
  BY <1>0, <1>2, <1>4, <1>6

\* The n-th character sits at n or later, and the worth is more than the gaps
\* before it can take away.
LEMMA WorthBound ==
  ASSUME NEW q, NEW text, Len(q) \in Nat, Len(text) \in Nat,
         NEW at \in Placements(q, text), NEW n \in 1 .. Len(q), Fits(q, text, at, n)
  PROVE  /\ at[n] \in n .. Len(text)
         /\ WorthTo(q, text, at)[n] >= -(at[n] - 1)
<1> DEFINE w == WorthTo(q, text, at)
           Good(m) == at[m] >= m /\ w[m] >= -(at[m] - 1)
           Bad == {m \in 1 .. n : ~Good(m)}
<1>0. w[0] = 0 /\ \A k \in 1 .. Len(q) : w[k] = w[k - 1] + Adds(q, text, at, k)
  BY WorthToStep
<1>a. \A k \in 0 .. Len(q) : w[k] \in Int
  BY WorthToType
<1>b. \A k \in 1 .. Len(q) : at[k] \in 1 .. Len(text)
  BY DEF Placements
<1> HIDE DEF w
<1>1. SUFFICES ASSUME Bad # {} PROVE FALSE
  <2>1. Good(n)
    BY <1>1
  <2> QED
    BY <1>b, <2>1 DEF w
<1>2. PICK m \in Bad : \A k \in Bad : m <= k
  <2>1. Bad \subseteq Nat
    OBVIOUS
  <2> HIDE DEF Bad
  <2> QED
    BY <1>1, <2>1, NatMin
<1>3. m \in 1 .. n /\ m \in 1 .. Len(q) /\ m \in Int /\ at[m] \in 1 .. Len(text) /\ ~Good(m)
  BY <1>b
<1>4. w[m] = w[m - 1] + Adds(q, text, at, m) /\ Landing(q, text, m, at[m]) \in Nat
  BY <1>0, <1>3, LandingType
<1>5. CASE m = 1
  <2>1. Adds(q, text, at, m) = Landing(q, text, m, at[m]) + PenaltyLeading * (at[1] - 1)
    BY <1>5 DEF Adds
  <2>2. PenaltyLeading * (at[m] - 1) = -(at[m] - 1)
    BY <1>3 DEF PenaltyLeading
  <2>3. w[m] = Landing(q, text, m, at[m]) - (at[m] - 1)
    BY <1>0, <1>3, <1>4, <1>5, <2>1, <2>2
  <2> QED
    BY <1>3, <1>4, <1>5, <2>3
<1>6. CASE m # 1
  <2>1. m - 1 \in 1 .. n /\ m - 1 \in 0 .. Len(q) /\ m - 1 < m /\ m - 1 \in 1 .. Len(q)
    BY <1>3, <1>6
  <2>2. Good(m - 1)
    BY <1>2, <1>3, <2>1
  <2>3. at[m - 1] < at[m] /\ at[m - 1] \in 1 .. Len(text)
    BY <1>3, <1>b, <2>1 DEF Fits
  <2>4. Adds(q, text, at, m) = Landing(q, text, m, at[m]) + Step(at[m - 1], at[m])
    BY <1>6 DEF Adds
  <2>5. Step(at[m - 1], at[m]) \in Int /\ Step(at[m - 1], at[m]) >= -(at[m] - at[m - 1] - 1)
    <3>1. at[m - 1] \in Int /\ at[m] \in Int /\ at[m - 1] < at[m]
      BY <1>3, <2>3
    <3> QED
      BY ONLY <3>1, StepType
  <2>6. w[m - 1] \in Int /\ w[m - 1] >= -(at[m - 1] - 1) /\ at[m - 1] >= m - 1
    BY <1>a, <2>1, <2>2
  <2>7. at[m] >= m
    BY <1>3, <2>3, <2>6
  <2>8. w[m] >= -(at[m] - 1)
    <3> DEFINE l == Landing(q, text, m, at[m])
               s == Step(at[m - 1], at[m])
               p == at[m - 1]
    <3>1. w[m] = w[m - 1] + (l + s)
      BY <1>4, <2>4
    <3>2. /\ l \in Int /\ l >= 0 /\ s \in Int /\ p \in Int /\ at[m] \in Int
          /\ s >= -(at[m] - p - 1) /\ w[m - 1] \in Int /\ w[m - 1] >= -(p - 1)
      BY <1>3, <1>4, <2>3, <2>5, <2>6
    <3>3. \A a, b, x, y, z \in Int :
            x >= 0 /\ y >= -(a - b - 1) /\ z >= -(b - 1) => z + (x + y) >= -(a - 1)
      OBVIOUS
    <3> HIDE DEF l, s, p
    <3>4. w[m - 1] + (l + s) >= -(at[m] - 1)
      BY ONLY <3>2, <3>3
    <3> QED
      BY ONLY <3>1, <3>4
  <2> QED
    BY <1>3, <2>7, <2>8
<1> QED
  BY <1>5, <1>6

-----------------------------------------------------------------------------
(* The table: each entry is the sentinel, or the most that a placement     *)
(* which fits so far and ends there is worth.                              *)

Ends(q, text, i, j) == {at \in Placements(q, text) : Fits(q, text, at, i) /\ at[i] = j}

TableRight(q, text, i) ==
  \A j \in 1 .. Len(text) :
    /\ Best(q, text)[i][j] \in Int
    /\ Best(q, text)[i][j] # Unreachable =>
         \E at \in Ends(q, text, i, j) : Best(q, text)[i][j] = WorthTo(q, text, at)[i]
    /\ \A at \in Ends(q, text, i, j) :
         /\ Best(q, text)[i][j] # Unreachable
         /\ WorthTo(q, text, at)[i] <= Best(q, text)[i][j]

LEMMA FirstRow ==
  ASSUME NEW C, NEW q \in Seq(C), NEW D, NEW text \in Seq(D), q # <<>>,
         Len(text) < -Unreachable
  PROVE  TableRight(q, text, 1)
<1> DEFINE B == Best(q, text)
           w(at) == WorthTo(q, text, at)
<1>0. 1 \in 1 .. Len(q) /\ Len(q) \in Nat /\ Len(text) \in Nat /\ DOMAIN text = 1 .. Len(text)
  OBVIOUS
<1>1. B[1] = Row(q, text, 1, <<>>)
  BY <1>0, BestIs
<1> HIDE DEF B, w
<1> SUFFICES ASSUME NEW j \in 1 .. Len(text)
             PROVE /\ B[1][j] \in Int
                   /\ B[1][j] # Unreachable => \E at \in Ends(q, text, 1, j) : B[1][j] = w(at)[1]
                   /\ \A at \in Ends(q, text, 1, j) : B[1][j] # Unreachable /\ w(at)[1] <= B[1][j]
  BY DEF TableRight, B, w
<1> DEFINE first == Landing(q, text, 1, j) + PenaltyLeading * (j - 1)
<1>2. B[1][j] = IF SameLetter(text[j], q[1]) THEN first ELSE Unreachable
  BY <1>0, <1>1 DEF Row
<1>3. first \in Int /\ first > Unreachable /\ Unreachable \in Int
  <2>1. Landing(q, text, 1, j) \in Nat
    BY LandingType
  <2> QED
    BY <1>0, <2>1 DEF Unreachable, PenaltyLeading
<1>4. \A at \in Ends(q, text, 1, j) : SameLetter(text[j], q[1]) /\ w(at)[1] = first
  <2> SUFFICES ASSUME NEW at \in Ends(q, text, 1, j)
               PROVE SameLetter(text[j], q[1]) /\ w(at)[1] = first
    OBVIOUS
  <2>1. at[1] = j /\ SameLetter(text[j], q[1])
    BY <1>0 DEF Ends, Fits
  <2>2. w(at)[1] = w(at)[0] + Adds(q, text, at, 1) /\ w(at)[0] = 0
    BY <1>0, WorthToStep DEF w
  <2>3. Adds(q, text, at, 1) = first
    BY <2>1 DEF Adds
  <2> QED
    BY <1>3, <2>1, <2>2, <2>3
<1>5. SameLetter(text[j], q[1]) => Ends(q, text, 1, j) # {}
  <2> DEFINE at == [k \in 1 .. Len(q) |-> j]
  <2>1. SameLetter(text[j], q[1]) => at \in Ends(q, text, 1, j)
    BY <1>0 DEF Ends, Fits, Placements
  <2> QED
    BY <2>1
<1> HIDE DEF first
<1> QED
  BY <1>2, <1>3, <1>4, <1>5

\* What a placement that fits up to i is worth, by what it is worth before i.
LEMMA WorthOfLast ==
  ASSUME NEW q, NEW text, Len(q) \in Nat, NEW at, NEW i \in 2 .. Len(q), NEW k, NEW j,
         at[i - 1] = k, at[i] = j,
         WorthTo(q, text, at)[i - 1] \in Int, Step(k, j) \in Int
  PROVE  WorthTo(q, text, at)[i]
           = WorthTo(q, text, at)[i - 1] + Landing(q, text, i, j) + Step(k, j)
<1>1. i \in 1 .. Len(q) /\ i # 1
  OBVIOUS
<1>2. WorthTo(q, text, at)[i] = WorthTo(q, text, at)[i - 1] + Adds(q, text, at, i)
  BY <1>1, WorthToStep
<1>3. Adds(q, text, at, i) = Landing(q, text, i, j) + Step(k, j)
  BY <1>1 DEF Adds
<1>4. Landing(q, text, i, j) \in Nat
  BY LandingType
<1>5. \A a, b, c \in Int : a + (b + c) = a + b + c
  OBVIOUS
<1> QED
  BY <1>2, <1>3, <1>4, <1>5

LEMMA NextRow ==
  ASSUME NEW C, NEW q \in Seq(C), NEW D, NEW text \in Seq(D), Len(text) < -Unreachable,
         NEW i \in 2 .. Len(q), TableRight(q, text, i - 1)
  PROVE  TableRight(q, text, i)
<1> DEFINE B == Best(q, text)
           w(at) == WorthTo(q, text, at)
           L == Len(text)
<1>0. /\ i \in 1 .. Len(q) /\ i # 1 /\ i - 1 \in 1 .. Len(q) /\ i - 1 \in 0 .. Len(q)
      /\ Len(q) \in Nat /\ L \in Nat /\ DOMAIN text = 1 .. L
  OBVIOUS
<1>1. B[i] = Row(q, text, i, B[i - 1])
  BY <1>0, BestIs
<1>2. \A j \in 1 .. L :
        /\ B[i - 1][j] \in Int
        /\ B[i - 1][j] # Unreachable =>
             \E at \in Ends(q, text, i - 1, j) : B[i - 1][j] = w(at)[i - 1]
        /\ \A at \in Ends(q, text, i - 1, j) :
             B[i - 1][j] # Unreachable /\ w(at)[i - 1] <= B[i - 1][j]
  BY DEF TableRight
<1>3. \A at \in Placements(q, text) : w(at)[i] \in Int /\ w(at)[i - 1] \in Int
  BY <1>0, WorthToType
<1> HIDE DEF B, w
<1> SUFFICES ASSUME NEW j \in 1 .. L
             PROVE /\ B[i][j] \in Int
                   /\ B[i][j] # Unreachable => \E at \in Ends(q, text, i, j) : B[i][j] = w(at)[i]
                   /\ \A at \in Ends(q, text, i, j) : B[i][j] # Unreachable /\ w(at)[i] <= B[i][j]
  BY DEF TableRight, B, w
<1> DEFINE from == {k \in (i - 1) .. (j - 1) : B[i - 1][k] # Unreachable}
           via == [k \in from |-> B[i - 1][k] + Landing(q, text, i, j) + Step(k, j)]
           S == {via[k] : k \in from}
\* A placement that ends at j came by way of a column of the row before.
<1>4. ASSUME NEW at \in Ends(q, text, i, j)
      PROVE  /\ SameLetter(text[j], q[i]) /\ j >= i
             /\ at[i - 1] \in from
             /\ w(at)[i] \in Int /\ w(at)[i] <= via[at[i - 1]] /\ w(at)[i] > Unreachable
  <2>1. at \in Placements(q, text) /\ Fits(q, text, at, i) /\ at[i] = j
    BY DEF Ends
  <2>2. SameLetter(text[j], q[i])
    BY <1>0, <2>1 DEF Fits
  <2>3. at[i] \in i .. L /\ w(at)[i] >= -(at[i] - 1)
    BY <1>0, <2>1, WorthBound DEF w
  <2>4. Fits(q, text, at, i - 1)
    BY <1>0, <2>1 DEF Fits
  <2>5. at[i - 1] \in (i - 1) .. L
    BY <1>0, <2>1, <2>4, WorthBound
  <2>6. at[i - 1] < at[i]
    BY <1>0, <2>1 DEF Fits
  <2>7. at \in Ends(q, text, i - 1, at[i - 1]) /\ at[i - 1] \in 1 .. L
    BY <1>0, <2>1, <2>4, <2>5 DEF Ends
  <2>8. B[i - 1][at[i - 1]] # Unreachable /\ w(at)[i - 1] <= B[i - 1][at[i - 1]]
        /\ B[i - 1][at[i - 1]] \in Int
    BY <1>2, <2>7
  <2>9. at[i - 1] \in from
    BY <2>1, <2>5, <2>6, <2>8
  <2>10. Step(at[i - 1], j) \in Int
    <3>1. at[i - 1] \in Int /\ j \in Int /\ at[i - 1] < j
      BY <2>1, <2>6, <2>7
    <3> QED
      BY ONLY <3>1, StepType
  <2>11. w(at)[i] = w(at)[i - 1] + Landing(q, text, i, j) + Step(at[i - 1], j)
    BY <1>0, <1>3, <2>1, <2>10, WorthOfLast DEF w
  <2>12. via[at[i - 1]] = B[i - 1][at[i - 1]] + Landing(q, text, i, j) + Step(at[i - 1], j)
    BY <2>9
  <2>13. w(at)[i] \in Int /\ w(at)[i - 1] \in Int /\ Landing(q, text, i, j) \in Int
    BY <1>3, <2>1, LandingType
  <2>14. w(at)[i] <= via[at[i - 1]]
    <3>1. \A a, b, c, d \in Int : a <= b => a + c + d <= b + c + d
      OBVIOUS
    <3> QED
      BY <2>8, <2>10, <2>11, <2>12, <2>13, <3>1
  <2>15. w(at)[i] > Unreachable
    BY <1>0, <2>1, <2>3, <2>13 DEF Unreachable
  <2> QED
    BY <2>1, <2>2, <2>3, <2>9, <2>13, <2>14, <2>15
\* And every column of the row before gives a placement that ends at j.
<1>5. ASSUME SameLetter(text[j], q[i]), NEW k \in from
      PROVE  via[k] \in Int /\ \E at \in Ends(q, text, i, j) : via[k] = w(at)[i]
  <2>1. k \in Int /\ k \in 1 .. L /\ k < j /\ B[i - 1][k] # Unreachable
    BY <1>0
  <2>2. PICK bt \in Ends(q, text, i - 1, k) : B[i - 1][k] = w(bt)[i - 1]
    BY <1>2, <2>1
  <2>3. bt \in Placements(q, text) /\ Fits(q, text, bt, i - 1) /\ bt[i - 1] = k
    BY DEF Ends
  <2> DEFINE at == [bt EXCEPT ![i] = j]
  <2>4. at \in Placements(q, text) /\ at[i] = j /\ \A l \in 1 .. i - 1 : at[l] = bt[l]
    BY <1>0, <2>3 DEF Placements
  <2> HIDE DEF at
  <2>5. at[i - 1] = k
    BY <1>0, <2>3, <2>4
  <2>6. \A l \in 1 .. i - 1 : at[l] <= k /\ at[l] \in Int
    <3>1. i - 1 \in 1 .. i - 1 /\ \A l \in 1 .. i - 1 : l = i - 1 \/ l < i - 1
      BY <1>0
    <3>2. \A l \in 1 .. i - 1 : bt[l] \in Int /\ (l < i - 1 => bt[l] < bt[i - 1])
      BY <1>0, <2>3, <3>1 DEF Fits, Placements
    <3> QED
      BY <2>1, <2>3, <2>4, <3>1, <3>2
  <2>7. Fits(q, text, at, i)
    <3>1. \A l \in 1 .. i : l = i \/ l \in 1 .. i - 1
      BY <1>0
    <3>2. \A l \in 1 .. i : SameLetter(text[at[l]], q[l])
      BY <1>5, <2>3, <2>4, <3>1 DEF Fits
    <3>3. \A l, m \in 1 .. i : l < m => at[l] < at[m]
      <4> SUFFICES ASSUME NEW l \in 1 .. i, NEW m \in 1 .. i, l < m PROVE at[l] < at[m]
        OBVIOUS
      <4>1. l \in 1 .. i - 1
        BY <1>0
      <4>2. CASE m = i
        BY <2>1, <2>4, <2>6, <4>1, <4>2
      <4>3. CASE m # i
        BY <2>3, <2>4, <3>1, <4>1, <4>3 DEF Fits
      <4> QED
        BY <4>2, <4>3
    <3> QED
      BY <3>2, <3>3 DEF Fits
  <2>8. at \in Ends(q, text, i, j)
    BY <2>4, <2>7 DEF Ends
  <2>9. w(at)[i - 1] = w(bt)[i - 1]
    <3> DEFINE n == i - 1
    <3>1. Len(q) \in Nat /\ n \in 0 .. Len(q) /\ Agree(at, bt, n)
      BY <1>0, <2>4 DEF Agree
    <3> HIDE DEF n
    <3>2. WorthTo(q, text, at)[n] = WorthTo(q, text, bt)[n]
      BY ONLY <3>1, WorthToAgrees
    <3> QED
      BY <3>2 DEF n, w
  <2>10. Step(k, j) \in Int
    <3>1. k \in Int /\ j \in Int /\ k < j
      BY <2>1
    <3> QED
      BY ONLY <3>1, StepType
  <2>11. w(at)[i] = w(at)[i - 1] + Landing(q, text, i, j) + Step(k, j)
    BY <1>0, <1>3, <2>4, <2>5, <2>10, WorthOfLast DEF w
  <2>12. via[k] = w(at)[i]
    BY <2>2, <2>9, <2>11
  <2> QED
    BY <1>3, <2>4, <2>8, <2>12
<1>6. CASE ~SameLetter(text[j], q[i]) \/ j < i
  <2>1. B[i][j] = Unreachable
    BY <1>0, <1>1, <1>6 DEF Row
  <2>2. Ends(q, text, i, j) = {}
    <3>1. \A at \in Ends(q, text, i, j) : SameLetter(text[j], q[i]) /\ j >= i
      BY <1>4
    <3>2. j \in Int /\ i \in Int
      BY <1>0
    <3> QED
      BY <1>6, <3>1, <3>2
  <2> QED
    BY <2>1, <2>2 DEF Unreachable
<1>7. CASE SameLetter(text[j], q[i]) /\ j >= i /\ from = {}
  <2>1. B[i][j] = Unreachable
    BY <1>0, <1>1, <1>7 DEF Row
  <2>2. Ends(q, text, i, j) = {}
    BY <1>4, <1>7
  <2> QED
    BY <2>1, <2>2 DEF Unreachable
<1>8. CASE SameLetter(text[j], q[i]) /\ j >= i /\ from # {}
  <2>1. S = {B[i - 1][k] + Landing(q, text, i, j) + Step(k, j) : k \in from}
    OBVIOUS
  <2>2. B[i][j] = Max(S)
    <3>1. j \in DOMAIN text /\ ~(j < i) /\ i # 1
      BY <1>0, <1>8
    <3>2. B[i][j] = IF from = {} THEN Unreachable
                    ELSE Max({B[i - 1][k] + Landing(q, text, i, j) + Step(k, j) : k \in from})
      BY <1>1, <1>8, <3>1 DEF Row
    <3> QED
      BY <1>8, <2>1, <3>2
  <2>3. via \in [from -> Int] /\ IsFiniteSet(from)
    <3>0. i - 1 \in Int /\ j - 1 \in Int
      BY <1>0
    <3>1. IsFiniteSet((i - 1) .. (j - 1)) /\ from \in SUBSET ((i - 1) .. (j - 1))
      BY <3>0, FS_Interval
    <3>2. IsFiniteSet(from)
      BY <3>1, FS_Subset
    <3>3. \A k \in from : via[k] \in Int
      BY <1>5, <1>8
    <3> QED
      BY <3>2, <3>3
  <2>4. Max(S) \in S /\ \A x \in S : x <= Max(S)
    <3> HIDE DEF from, via
    <3> QED
      BY <1>8, <2>3, MaxOfImage
  <2>5. PICK k \in from : B[i][j] = via[k]
    BY <2>2, <2>4
  <2>6. B[i][j] \in Int /\ \E at \in Ends(q, text, i, j) : B[i][j] = w(at)[i]
    BY <1>5, <1>8, <2>5
  <2>7. ASSUME NEW at \in Ends(q, text, i, j)
        PROVE  B[i][j] # Unreachable /\ w(at)[i] <= B[i][j]
    <3>1. /\ at[i - 1] \in from /\ w(at)[i] \in Int
          /\ w(at)[i] <= via[at[i - 1]] /\ w(at)[i] > Unreachable
      BY <1>4
    <3>2. via[at[i - 1]] <= B[i][j] /\ via[at[i - 1]] \in Int
      BY <2>2, <2>3, <2>4, <3>1
    <3>3. \A a, b, c, d \in Int : a > d /\ a <= b /\ b <= c => c # d /\ a <= c
      OBVIOUS
    <3>4. Unreachable \in Int
      BY DEF Unreachable
    <3> HIDE DEF from, via, S
    <3> QED
      BY <2>6, <3>1, <3>2, <3>3, <3>4
  <2> QED
    BY <2>6, <2>7
<1> QED
  BY <1>0, <1>6, <1>7, <1>8

LEMMA TableIsRight ==
  ASSUME NEW C, NEW q \in Seq(C), NEW D, NEW text \in Seq(D), Len(text) < -Unreachable,
         NEW i \in 1 .. Len(q)
  PROVE  TableRight(q, text, i)
<1> DEFINE Wrong == {k \in 1 .. Len(q) : ~TableRight(q, text, k)}
<1>1. SUFFICES ASSUME Wrong # {} PROVE FALSE
  OBVIOUS
<1>2. PICK m \in Wrong : \A k \in Wrong : m <= k
  <2>1. Wrong \subseteq Nat
    OBVIOUS
  <2> HIDE DEF Wrong
  <2> QED
    BY <1>1, <2>1, NatMin
<1>3. m \in 1 .. Len(q) /\ ~TableRight(q, text, m) /\ Len(q) \in Nat
  OBVIOUS
<1>4. m # 1
  <2>1. q # <<>>
    BY <1>3
  <2> QED
    BY <1>3, <2>1, FirstRow
<1>5. m \in 2 .. Len(q) /\ TableRight(q, text, m - 1)
  BY <1>2, <1>3, <1>4
<1> QED
  BY <1>3, <1>5, NextRow

-----------------------------------------------------------------------------
(* The score.                                                              *)

LEMMA WantedType ==
  ASSUME NEW C, NEW query \in Seq(C)
  PROVE  \E E : Wanted(query) \in Seq(E)
<1> DEFINE at == {i \in DOMAIN query : query[i] # " "}
           n == Cardinality(at)
           q == Wanted(query)
<1>1. IsFiniteSet(at) /\ n \in Nat
  <2>1. Len(query) \in Nat /\ DOMAIN query = 1 .. Len(query)
    OBVIOUS
  <2>2. IsFiniteSet(1 .. Len(query))
    BY <2>1, FS_Interval
  <2>3. IsFiniteSet(at)
    BY <2>1, <2>2, FS_Subset
  <2> QED
    BY <2>3, FS_CardinalityType
<1>2. DOMAIN q = 1 .. n /\ q = [k \in 1 .. n |-> q[k]]
  BY DEF Wanted
<1> HIDE DEF n, at, q
<1>3. q \in Seq({q[k] : k \in 1 .. n})
  BY <1>1, <1>2
<1> QED
  BY <1>3 DEF q

LEMMA AlignmentsAre ==
  ASSUME NEW C, NEW q \in Seq(C), NEW D, NEW text \in Seq(D)
  PROVE  Alignments(q, text) = {at \in Placements(q, text) : Fits(q, text, at, Len(q))}
<1>1. DOMAIN q = 1 .. Len(q) /\ DOMAIN text = 1 .. Len(text)
  OBVIOUS
<1>2. Placements(q, text) = [DOMAIN q -> DOMAIN text]
  BY <1>1 DEF Placements
<1>3. \A at \in [DOMAIN q -> DOMAIN text] :
        Fits(q, text, at, Len(q)) <=>
          /\ \A i \in DOMAIN q : SameLetter(text[at[i]], q[i])
          /\ \A i, j \in DOMAIN q : i < j => at[i] < at[j]
  BY <1>1 DEF Fits
<1> QED
  BY <1>2, <1>3 DEF Alignments

\* The code's dynamic program finds a match exactly when the query can be found
\* in the text, and scores it by the best way to find it, whatever the query
\* and the text, as long as the text is too short to reach the sentinel.
THEOREM ScoreIsBest ==
  ASSUME NEW C, NEW query \in Seq(C), NEW D, NEW text \in Seq(D), Len(text) < -Unreachable
  PROVE  FindsBest(query, text) /\ (Matches(query, text) => Score(query, text) \in Int)
<1> DEFINE q == Wanted(query)
           n == Len(q)
           last(j) == Best(q, text)[n][j]
           S == Scores(query, text)
           T == BestScores(query, text)
<1>1. PICK E : q \in Seq(E)
  BY WantedType
<1>2. n \in Nat /\ DOMAIN q = 1 .. n /\ Len(text) \in Nat /\ DOMAIN text = 1 .. Len(text)
  BY <1>1
<1> HIDE DEF q
<1>3. SUFFICES /\ S # {} <=> T # {}
               /\ S # {} => Max(S) = Max(T) /\ Max(S) \in Int
  BY DEF FindsBest, Matches, Score
<1>4. CASE q = <<>>
  <2>1. S = {0} /\ T = {0}
    BY <1>4 DEF Scores, BestScores, q
  <2>2. Max({0}) = 0
    <3> DEFINE Z == {0}
    <3>1. Z \subseteq Int /\ 0 \in Z /\ \A x \in Z : x <= 0
      OBVIOUS
    <3> HIDE DEF Z
    <3>2. Max(Z) = 0
      BY <3>1, MaxIs
    <3> QED
      BY <3>2 DEF Z
  <2> QED
    BY <2>1, <2>2
<1>5. CASE q # <<>>
  <2>0. n \in 1 .. n /\ n >= 1
    BY <1>1, <1>2, <1>5
  <2>1. T = {WorthTo(q, text, at)[n] : at \in {at \in Placements(q, text) : Fits(q, text, at, n)}}
    <3>1. T = {Worth(q, text, at) : at \in Alignments(q, text)}
      BY <1>5 DEF BestScores, q
    <3> QED
      BY <1>1, <3>1, AlignmentsAre DEF Worth
  <2>2. \A at \in Placements(q, text) :
          Fits(q, text, at, n) => /\ at[n] \in n .. Len(text)
                                  /\ WorthTo(q, text, at)[n] \in Int
                                  /\ at \in Ends(q, text, n, at[n])
    <3> SUFFICES ASSUME NEW at \in Placements(q, text), Fits(q, text, at, n)
                 PROVE  /\ at[n] \in n .. Len(text)
                        /\ WorthTo(q, text, at)[n] \in Int
                        /\ at \in Ends(q, text, n, at[n])
      OBVIOUS
    <3>1. at[n] \in n .. Len(text)
      BY <1>2, <2>0, WorthBound
    <3>2. n \in 0 .. Len(q)
      BY <1>2
    <3>3. WorthTo(q, text, at)[n] \in Int
      BY <1>2, <3>2, WorthToType
    <3> QED
      BY <3>1, <3>3 DEF Ends
  <2>3. CASE n > Len(text)
    <3>1. S = {}
      BY <1>5, <2>3 DEF Scores, q
    <3>2. \A at \in Placements(q, text) : ~Fits(q, text, at, n)
      BY <1>2, <2>2, <2>3
    <3> QED
      BY <2>1, <3>1, <3>2
  <2>4. CASE ~(n > Len(text))
    <3>1. S = {last(j) : j \in 1 .. Len(text)} \ {Unreachable}
      BY <1>2, <1>5, <2>4 DEF Scores, q
    <3>2. /\ \A j \in 1 .. Len(text) : last(j) \in Int
          /\ \A j \in 1 .. Len(text) : last(j) # Unreachable =>
               \E at \in Ends(q, text, n, j) : last(j) = WorthTo(q, text, at)[n]
          /\ \A j \in 1 .. Len(text) : \A at \in Ends(q, text, n, j) :
               last(j) # Unreachable /\ WorthTo(q, text, at)[n] <= last(j)
      BY <1>1, <2>0, TableIsRight DEF TableRight
    <3> HIDE DEF n, S, T, last
    <3>3. S \subseteq Int /\ S \subseteq T
      <4>1. \A j : \A at \in Ends(q, text, n, j) :
              at \in Placements(q, text) /\ Fits(q, text, at, n)
        BY DEF Ends
      <4> QED
        BY <2>1, <3>1, <3>2, <4>1
    <3>4. \A x \in T : x \in Int /\ \E y \in S : x <= y
      <4> SUFFICES ASSUME NEW x \in T PROVE x \in Int /\ \E y \in S : x <= y
        OBVIOUS
      <4>1. PICK at \in Placements(q, text) : Fits(q, text, at, n) /\ x = WorthTo(q, text, at)[n]
        BY <2>1
      <4>2. at[n] \in 1 .. Len(text) /\ at \in Ends(q, text, n, at[n]) /\ x \in Int
        BY <1>2, <2>0, <2>2, <4>1
      <4>3. last(at[n]) # Unreachable /\ x <= last(at[n])
        BY <3>2, <4>1, <4>2
      <4>4. last(at[n]) \in S
        BY <3>1, <4>2, <4>3
      <4> QED
        BY <4>2, <4>3, <4>4
    <3>5. S # {} => \E m \in S : \A x \in S : x <= m
      <4> SUFFICES ASSUME S # {} PROVE \E m \in S : \A x \in S : x <= m
        OBVIOUS
      <4> DEFINE cols == {j \in 1 .. Len(text) : last(j) # Unreachable}
                 f == [j \in cols |-> last(j)]
      <4>1. IsFiniteSet(cols) /\ cols # {} /\ f \in [cols -> Int]
        <5>1. IsFiniteSet(1 .. Len(text))
          BY <1>2, FS_Interval
        <5>2. cols \in SUBSET (1 .. Len(text))
          OBVIOUS
        <5>3. IsFiniteSet(cols)
          BY <5>1, <5>2, FS_Subset
        <5> QED
          BY <3>1, <3>2, <5>3
      <4>2. PICK d \in cols : \A e \in cols : f[e] <= f[d]
        <5> HIDE DEF cols, f
        <5> QED
          BY <4>1, FinMax
      <4>3. \A e \in cols : f[e] = last(e)
        OBVIOUS
      <4>4. last(d) \in S /\ \A x \in S : x <= last(d)
        BY <3>1, <4>2, <4>3
      <4> QED
        BY <4>4
    <3>6. ASSUME S # {} PROVE Max(S) = Max(T) /\ Max(S) \in Int
      <4>1. PICK m \in S : \A x \in S : x <= m
        BY <3>5, <3>6
      <4>2. Max(S) = m
        BY <3>3, <4>1, MaxIs
      <4>3. T \subseteq Int /\ m \in T
        BY <3>3, <3>4
      <4>4. \A x \in T : x <= m
        <5> SUFFICES ASSUME NEW x \in T PROVE x <= m
          OBVIOUS
        <5>1. PICK y \in S : x <= y
          BY <3>4
        <5> QED
          BY <3>3, <4>1, <4>3, <5>1
      <4>5. Max(T) = m
        BY <4>3, <4>4, MaxIs
      <4> QED
        BY <3>3, <4>2, <4>5
    <3> QED
      BY <3>3, <3>4, <3>6
  <2> QED
    BY <2>3, <2>4
<1> QED
  BY <1>4, <1>5

(***************************************************************************)
(* The keyboard.                                                           *)
(***************************************************************************)
-----------------------------------------------------------------------------
(* Keys.                                                                   *)

LEMMA KeyIs ==
  ASSUME NEW code \in Codes, NEW mods \in SUBSET Modifiers
  PROVE  Key(code, mods) \in AllKeys
BY DEF Key, AllKeys

LEMMA NamedType ==
  ASSUME NEW rest, Named(rest) # "none"
  PROVE  Named(rest) \in Codes
BY KeysAssumption
   DEF Named, Codes, Arrows, Editing, Keypad, Functions12, Characters

LEMMA ParseKeyNameType ==
  ASSUME NEW name
  PROVE  ParseKeyName(name) \in AllKeys \cup {NoKey}
<1> DEFINE mods == {ModifierOf(name.pre[i]) : i \in DOMAIN name.pre}
<1>1. mods \in SUBSET Modifiers
  BY DEF ModifierOf, Modifiers
<1> HIDE DEF mods
<1>2. ParseKeyName(name) = IF name.rest \in Characters
                           THEN IF mods = {} THEN NoKey ELSE Key(name.rest, mods)
                           ELSE IF Named(name.rest) # "none" THEN Key(Named(name.rest), mods)
                           ELSE NoKey
  BY DEF ParseKeyName, mods
<1>3. Characters \subseteq Codes
  BY DEF Codes
<1> QED
  BY <1>1, <1>2, <1>3, NamedType, KeyIs

LEMMA ParseBindingKeyType ==
  ASSUME NEW name
  PROVE  ParseBindingKey(name) \in AllKeys \cup {NoKey}
<1>1. {} \in SUBSET Modifiers /\ Characters \subseteq Codes
  BY DEF Codes
<1> QED
  BY <1>1, KeyIs, ParseKeyNameType DEF ParseBindingKey

LEMMA ModifiersDiffer ==
  Ctrl # Alt /\ Alt # Shift /\ Ctrl # Shift /\ Super \notin {Ctrl, Alt, Shift}
  BY DEF Ctrl, Alt, Shift, Super

LEMMA NamesakeIs ==
  Shared = {"i", "m"} /\ Namesake("i") = "Tab" /\ Namesake("m") = "Enter"
  BY DEF Namesake, Shared

LEMMA ReadPlain ==
  ASSUME NEW shape \in {"csi-u", "text", "byte", "csi", "ss3", "tilde"}, NEW c, NEW m
  PROVE  Read(Modified(shape, c, m)) = Key(c, m)
<1>1. /\ Modified(shape, c, m)[1] = shape /\ Modified(shape, c, m)[2] = c
      /\ Modified(shape, c, m)[3] = m /\ shape # "control"
  BY DEF Modified
<1> QED
  BY <1>1 DEF Read

LEMMA ReadIs ==
  ASSUME NEW c, NEW m
  PROVE  /\ c \notin Shared => Read(Modified("control", c, m)) = Key(c, m \cup {Ctrl})
         /\ c \in Shared => Read(Modified("control", c, m)) = Key(Namesake(c), m)
<1>1. \A s : Modified(s, c, m)[1] = s /\ Modified(s, c, m)[2] = c /\ Modified(s, c, m)[3] = m
  BY DEF Modified
<1> QED
  BY <1>1 DEF Read

\* What is read is the key, but for what is lost on the way, or its namesake.
Arrived(key, read, d) == Faithful(key, read, d) \/ (~d /\ Confused(key, read))

LEMMA ReadFaithfully ==
  ASSUME NEW code, NEW mods, NEW d, NEW sentBytes, NEW back,
         back = code \/ (mods \cap {Ctrl, Super} # {} /\ back = Lower(code)),
         Read(sentBytes) = Key(back, mods \ Lost(Key(code, mods), d))
  PROVE  Arrived(Key(code, mods), Read(sentBytes), d)
<1>1. \A c, m : Key(c, m).code = c /\ Key(c, m).mods = m
  BY DEF Key
<1> QED
  BY <1>1 DEF Arrived, Faithful, CaseLost

LEMMA EncodeCharRead ==
  ASSUME NEW code \in Characters, NEW mods \in SUBSET Modifiers, NEW d \in BOOLEAN
  PROVE  Arrived(Key(code, mods), Read(EncodeChar(code, mods, d)), d)
<1> DEFINE key == Key(code, mods)  lost == Lost(key, d)
<1>1. /\ key.code = code /\ key.mods = mods /\ mods \in SUBSET {Ctrl, Alt, Shift, Super}
      /\ \A c, m : Key(c, m).code = c /\ Key(c, m).mods = m
  BY DEF Key, Modifiers
<1>2. lost = IF d THEN IF mods \cap {Ctrl, Super} = {} THEN {Shift} ELSE {}
             ELSE IF code \in Letters THEN {Shift, Super}
             ELSE IF {Ctrl, Alt} \subseteq mods THEN {} ELSE {Shift, Super, Ctrl}
  BY <1>1, KeysAssumption DEF Lost
<1> HIDE DEF lost
<1>3. CASE d /\ mods \cap {Ctrl, Super} # {}
  <2>1. Read(EncodeChar(code, mods, d)) = Key(Lower(code), mods)
    BY <1>3, ReadPlain DEF EncodeChar
  <2>2. mods = mods \ lost
    BY <1>2, <1>3
  <2> QED
    BY <1>3, <2>1, <2>2, ReadFaithfully DEF lost
<1>4. CASE ~d /\ {Ctrl, Alt} \subseteq mods /\ code \notin Letters
  <2>1. Read(EncodeChar(code, mods, d)) = Key(code, mods)
    BY <1>4, ReadPlain DEF EncodeChar
  <2>2. mods = mods \ lost
    BY <1>2, <1>4
  <2> QED
    BY <2>1, <2>2, ReadFaithfully DEF lost
<1>5. CASE ~d /\ Ctrl \in mods /\ code \in Letters
  <2> DEFINE low == Lower(code)  rest == mods \cap {Alt}
  <2>1. EncodeChar(code, mods, d) = Modified("control", low, rest)
    BY <1>5 DEF EncodeChar, EncodeCtrlChar
  <2>2. CASE low \in Shared
    <3>1. Read(Modified("control", low, rest)) = Key(Namesake(low), rest)
      BY <2>2, ReadIs
    <3> QED
      BY <1>1, <1>5, <2>1, <2>2, <3>1 DEF Arrived, Confused
  <2>3. CASE low \notin Shared
    <3>1. Read(Modified("control", low, rest)) = Key(low, rest \cup {Ctrl})
      BY <2>3, ReadIs
    <3>2. rest \cup {Ctrl} = mods \ lost
      BY <1>1, <1>2, <1>5, ModifiersDiffer
    <3>3. mods \cap {Ctrl, Super} # {}
      BY <1>5
    <3> QED
      BY <2>1, <3>1, <3>2, <3>3, ReadFaithfully DEF lost
  <2> QED
    BY <2>2, <2>3
<1>6. CASE ~d /\ Ctrl \in mods /\ Alt \notin mods /\ code \notin Letters
  <2> DEFINE rest == mods \cap {Alt}
  <2>1. EncodeChar(code, mods, d) = Modified("text", code, {})
    BY <1>6 DEF EncodeChar, EncodeCtrlChar
  <2>2. Read(Modified("text", code, {})) = Key(code, {})
    BY ReadPlain
  <2>3. {} = mods \ lost
    BY <1>1, <1>2, <1>6
  <2> QED
    BY <2>1, <2>2, <2>3, ReadFaithfully DEF lost
<1>7. CASE Ctrl \notin mods /\ ~(d /\ mods \cap {Ctrl, Super} # {})
  <2> DEFINE rest == mods \cap {Alt}
  <2>1. EncodeChar(code, mods, d) = Modified("text", code, rest)
    BY <1>7 DEF EncodeChar
  <2>2. Read(Modified("text", code, rest)) = Key(code, rest)
    BY ReadPlain
  <2>3. rest = mods \ lost
    BY <1>1, <1>2, <1>7, ModifiersDiffer
  <2> QED
    BY <2>1, <2>2, <2>3, ReadFaithfully DEF lost
<1> QED
  BY <1>3, <1>4, <1>5, <1>6, <1>7

LEMMA EncodeRead ==
  ASSUME NEW key \in AllKeys, NEW d \in BOOLEAN, Encode(key, d) # None
  PROVE  Arrived(key, Read(Encode(key, d)), d)
<1> DEFINE code == key.code  mods == key.mods
<1>1. code \in Codes /\ mods \in SUBSET Modifiers /\ key = Key(code, mods)
  BY DEF AllKeys, Key
<1>2. CASE code \in Characters
  <2>1. Encode(key, d) = EncodeChar(code, mods, d)
    <3>1. code \notin Arrows \cup Editing \cup Keypad
          /\ code \notin {"Esc", "BackTab", "Home", "End", "F1", "F4", "F5", "F12"}
      BY <1>2, KeysAssumption DEF Functions12
    <3> QED
      BY <1>2, <3>1 DEF Encode
  <2> QED
    BY <1>1, <1>2, <2>1, EncodeCharRead
<1>3. CASE code \notin Characters
  <2> DEFINE bare == Modified("byte", code, {})
             mute == code = "BackTab" \/ (code = "Esc" /\ ~d)
  <2>1. IF mute THEN Lost(key, d) = Modifiers ELSE Lost(key, d) = {}
    BY <1>3 DEF Lost
  <2>2. Read(Encode(key, d)) = Key(code, mods \ Lost(key, d))
    <3>1. CASE mute
      <4>1. Encode(key, d) = bare
        BY <1>3, <3>1 DEF Encode, Editing, Arrows, Keypad
      <4>2. mods \ Lost(key, d) = {}
        BY <1>1, <2>1, <3>1
      <4> QED
        BY <4>1, <4>2, ReadPlain
    <3>2. CASE ~mute
      <4>1. mods \ Lost(key, d) = mods
        BY <2>1, <3>2
      <4>2. \/ \E shape \in {"csi-u", "csi", "tilde", "byte", "ss3"} :
                  Encode(key, d) = Modified(shape, code, mods)
            \/ mods = {} /\ code = "Tab" /\ Encode(key, d) = Modified("control", "i", mods)
            \/ mods = {} /\ code = "Enter" /\ Encode(key, d) = Modified("control", "m", mods)
        BY <1>1, <1>3, <3>2 DEF Encode, Codes, Editing, Arrows, Keypad, Functions12
      <4>3. Read(Modified("control", "i", mods)) = Key("Tab", mods)
            /\ Read(Modified("control", "m", mods)) = Key("Enter", mods)
        BY ReadIs, NamesakeIs
      <4> QED
        BY <4>1, <4>2, <4>3, ReadPlain
    <3> QED
      BY <3>1, <3>2
  <2> QED
    BY <1>1, <2>2, ReadFaithfully
<1> QED
  BY <1>2, <1>3

-----------------------------------------------------------------------------
(* The leader.                                                             *)

TableType == UNION {[K -> Binding] : K \in SUBSET AllKeys}

\* A default chord is on the leader, and not where another leader would put it.
OnLeader(ch, root, ldr) ==
  /\ Key(ch, ModifierSet(ldr)) \in DOMAIN root
  /\ root[Key(ch, ModifierSet(ldr))] = Once(DefaultChords[ch])
  /\ \A other \in Leaders \ {ldr} : Key(ch, ModifierSet(other)) \notin DOMAIN root

LEMMA TableIs ==
  ASSUME NEW r
  PROVE  r \in TableType <=> /\ r = [k \in DOMAIN r |-> r[k]]
                             /\ DOMAIN r \subseteq AllKeys
                             /\ \A k \in DOMAIN r : r[k] \in Binding
<1>1. ASSUME r \in TableType
      PROVE  /\ r = [k \in DOMAIN r |-> r[k]]
             /\ DOMAIN r \subseteq AllKeys
             /\ \A k \in DOMAIN r : r[k] \in Binding
  <2>1. PICK K \in SUBSET AllKeys : r \in [K -> Binding]
    BY <1>1 DEF TableType
  <2> QED
    BY <2>1
<1>2. ASSUME r = [k \in DOMAIN r |-> r[k]], DOMAIN r \subseteq AllKeys,
             \A k \in DOMAIN r : r[k] \in Binding
      PROVE  r \in TableType
  <2>1. r \in [DOMAIN r -> Binding] /\ DOMAIN r \in SUBSET AllKeys
    BY <1>2
  <2> QED
    BY <2>1 DEF TableType
<1> QED
  BY <1>1, <1>2

LEMMA MovedKeyType ==
  ASSUME NEW key \in AllKeys, NEW from \in Leaders, NEW to \in Leaders
  PROVE  MovedKey(key, from, to) \in AllKeys
<1>1. key.code \in Codes /\ key.mods \in SUBSET Modifiers
  BY DEF AllKeys
<1>2. ModifierSet(to) \in SUBSET Modifiers
  BY DEF ModifierSet, Modifiers
<1>3. (key.mods \ ModifierSet(from)) \cup ModifierSet(to) \in SUBSET Modifiers
  BY <1>1, <1>2
<1> QED
  BY <1>1, <1>3, KeyIs DEF MovedKey

\* What a table is when its chords have moved.
Moves(root, from, to, moved) ==
  /\ moved = [k \in DOMAIN moved |-> moved[k]]
  /\ DOMAIN moved = (DOMAIN root \ Movers(root, from))
                      \cup {MovedKey(k, from, to) : k \in Movers(root, from)}
  /\ \A k \in DOMAIN moved :
       IF k \in {MovedKey(s, from, to) : s \in Movers(root, from)}
       THEN \E s \in Movers(root, from) : MovedKey(s, from, to) = k /\ moved[k] = root[s]
       ELSE k \in DOMAIN root /\ moved[k] = root[k]

LEMMA MovedIs ==
  ASSUME NEW root, NEW from, NEW to, NEW moved \in MovedTables(root, from, to)
  PROVE  Moves(root, from, to, moved)
<1> DEFINE movers == Movers(root, from)
           landed == {MovedKey(k, from, to) : k \in movers}
           stay == DOMAIN root \ movers
<1>1. PICK f \in [landed -> movers] :
        /\ \A k \in landed : f[k] \in {s \in movers : MovedKey(s, from, to) = k}
        /\ moved = [k \in stay \cup landed |-> IF k \in landed THEN root[f[k]] ELSE root[k]]
  BY DEF MovedTables
<1> HIDE DEF movers, landed, stay
<1>2. DOMAIN moved = stay \cup landed /\ moved = [k \in DOMAIN moved |-> moved[k]]
  BY <1>1
<1>3. \A k \in DOMAIN moved :
        IF k \in landed THEN \E s \in movers : MovedKey(s, from, to) = k /\ moved[k] = root[s]
        ELSE k \in DOMAIN root /\ moved[k] = root[k]
  BY <1>1, <1>2 DEF stay
<1> QED
  BY <1>2, <1>3 DEF movers, landed, stay, Moves

LEMMA MovedType ==
  ASSUME NEW root \in TableType, NEW from \in Leaders, NEW to \in Leaders,
         NEW moved \in MovedTables(root, from, to)
  PROVE  moved \in TableType
<1>0. Moves(root, from, to, moved)
  BY MovedIs
<1>1. DOMAIN root \subseteq AllKeys /\ \A k \in DOMAIN root : root[k] \in Binding
  BY TableIs
<1>2. Movers(root, from) \subseteq DOMAIN root
  BY DEF Movers
<1>3. DOMAIN moved \subseteq AllKeys
  BY <1>0, <1>1, <1>2, MovedKeyType DEF Moves
<1>4. \A k \in DOMAIN moved : moved[k] \in Binding
  BY <1>0, <1>1, <1>2 DEF Moves
<1>5. moved = [k \in DOMAIN moved |-> moved[k]]
  BY <1>0 DEF Moves
<1> QED
  BY <1>3, <1>4, <1>5, TableIs

\* A default chord moves with the leader, and nothing gets in its way.
LEMMA MovedChord ==
  ASSUME NEW root \in TableType, NEW from \in Leaders, NEW to \in Leaders, from # to,
         NEW moved \in MovedTables(root, from, to), NEW ch, OnLeader(ch, root, from)
  PROVE  OnLeader(ch, moved, to)
<1> DEFINE old == Key(ch, ModifierSet(from))
           new == Key(ch, ModifierSet(to))
<1>0. Moves(root, from, to, moved)
  BY MovedIs
<1>1. old \in DOMAIN root /\ root[old] = Once(DefaultChords[ch]) /\ new \notin DOMAIN root
  BY DEF OnLeader
<1>2. old \in Movers(root, from) /\ MovedKey(old, from, to) = new
  <2>1. old.code = ch /\ old.mods = ModifierSet(from)
    BY DEF Key
  <2>2. (ModifierSet(from) \ ModifierSet(from)) \cup ModifierSet(to) = ModifierSet(to)
    OBVIOUS
  <2> QED
    BY <1>1, <2>1, <2>2 DEF Movers, MovedKey
<1>3. \A s \in Movers(root, from) : MovedKey(s, from, to) = new => s = old
  <2> SUFFICES ASSUME NEW s \in Movers(root, from), MovedKey(s, from, to) = new
               PROVE  s = old
    OBVIOUS
  <2>1. s \in DOMAIN root /\ ModifierSet(from) \subseteq s.mods /\ s \in AllKeys
    BY TableIs DEF Movers
  <2>2. s.code = ch /\ (s.mods \ ModifierSet(from)) \cup ModifierSet(to) = ModifierSet(to)
    BY DEF MovedKey, Key
  <2>3. s = Key(s.code, s.mods)
    BY <2>1 DEF AllKeys, Key
  <2>4. s.mods = ModifierSet(from) \/ s.mods = ModifierSet(to)
    <3>1. s.mods \in SUBSET {Ctrl, Alt, Shift, Super}
      BY <2>1 DEF AllKeys, Modifiers
    <3>2. CASE from = "Alt" /\ to = "CtrlAlt"
      BY <2>1, <2>2, <3>1, <3>2, ModifiersDiffer DEF ModifierSet
    <3>3. CASE from = "CtrlAlt" /\ to = "Alt"
      BY <2>1, <2>2, <3>1, <3>3, ModifiersDiffer DEF ModifierSet
    <3> QED
      BY <3>2, <3>3 DEF Leaders
  <2> QED
    BY <1>1, <2>1, <2>2, <2>3, <2>4
<1>4. new \in DOMAIN moved /\ moved[new] = Once(DefaultChords[ch])
  <2>1. new \in {MovedKey(s, from, to) : s \in Movers(root, from)}
    BY <1>2
  <2>2. new \in DOMAIN moved
    BY <1>0, <2>1 DEF Moves
  <2>3. \E s \in Movers(root, from) : MovedKey(s, from, to) = new /\ moved[new] = root[s]
    BY <1>0, <2>1, <2>2 DEF Moves
  <2> QED
    BY <1>1, <1>3, <2>2, <2>3
<1>5. old \notin DOMAIN moved
  <2>1. old \notin DOMAIN root \ Movers(root, from)
    BY <1>2
  <2>2. ASSUME NEW s \in Movers(root, from), MovedKey(s, from, to) = old PROVE FALSE
    <3>1. (s.mods \ ModifierSet(from)) \cup ModifierSet(to) = ModifierSet(from)
      BY <2>2 DEF MovedKey, Key
    <3>2. CASE from = "Alt" /\ to = "CtrlAlt"
      BY <3>1, <3>2, ModifiersDiffer DEF ModifierSet
    <3>3. CASE from = "CtrlAlt" /\ to = "Alt"
      BY <3>1, <3>3, ModifiersDiffer DEF ModifierSet
    <3> QED
      BY <3>2, <3>3 DEF Leaders
  <2> QED
    BY <1>0, <2>1, <2>2 DEF Moves
<1>6. \A other \in Leaders \ {to} : other = from
  BY DEF Leaders
<1> QED
  BY <1>4, <1>5, <1>6 DEF OnLeader

-----------------------------------------------------------------------------
(* The ranking.                                                            *)

IsRank(a) == \A n \in 1 .. 4 : a[n] \in Int

LEMMA BeforeIs ==
  ASSUME NEW a, NEW b, IsRank(a), IsRank(b)
  PROVE  Before(a, b) <=>
           \/ a[1] < b[1]
           \/ a[1] = b[1] /\ a[2] < b[2]
           \/ a[1] = b[1] /\ a[2] = b[2] /\ a[3] < b[3]
           \/ a[1] = b[1] /\ a[2] = b[2] /\ a[3] = b[3] /\ a[4] < b[4]
<1> DEFINE First(n) == a[n] < b[n] /\ \A m \in 1 .. n - 1 : a[m] = b[m]
<1>1. 1 \in 1 .. 4 /\ 2 \in 1 .. 4 /\ 3 \in 1 .. 4 /\ 4 \in 1 .. 4
      /\ \A n \in 1 .. 4 : n = 1 \/ n = 2 \/ n = 3 \/ n = 4
  OBVIOUS
<1>2. 1 .. 1 - 1 = {} /\ 1 .. 2 - 1 = {1} /\ 1 .. 3 - 1 = {1, 2} /\ 1 .. 4 - 1 = {1, 2, 3}
  OBVIOUS
<1>3. /\ First(1) <=> a[1] < b[1]
      /\ First(2) <=> a[1] = b[1] /\ a[2] < b[2]
      /\ First(3) <=> a[1] = b[1] /\ a[2] = b[2] /\ a[3] < b[3]
      /\ First(4) <=> a[1] = b[1] /\ a[2] = b[2] /\ a[3] = b[3] /\ a[4] < b[4]
  BY <1>2
<1>4. Before(a, b) <=> \E n \in 1 .. 4 : First(n)
  BY DEF Before
<1> HIDE DEF First
<1>5. Before(a, b) <=> First(1) \/ First(2) \/ First(3) \/ First(4)
  BY <1>1, <1>4
<1> QED
  BY <1>3, <1>5

LEMMA BeforeOrder ==
  ASSUME NEW a, NEW b, NEW c, IsRank(a), IsRank(b), IsRank(c)
  PROVE  /\ ~Before(a, a)
         /\ a[4] # b[4] => Before(a, b) \/ Before(b, a)
         /\ Before(a, b) /\ Before(b, c) => Before(a, c)
         /\ Before(a, b) => a[1] <= b[1]
<1>1. \A n \in {1, 2, 3, 4} : a[n] \in Int /\ b[n] \in Int /\ c[n] \in Int
  BY DEF IsRank
<1> QED
  BY <1>1, BeforeIs

\* Where each of some ranked things comes when they are put in order.
LEMMA PlacesAre ==
  ASSUME NEW found, IsFiniteSet(found), NEW rank, NEW place,
         \A i \in found : IsRank(rank[i]) /\ rank[i][4] = i,
         place = [i \in found |-> Cardinality({j \in found : Before(rank[j], rank[i])})]
  PROVE  /\ \A i, j \in found : Before(rank[i], rank[j]) <=> place[i] < place[j]
         /\ place \in Bijection(found, 0 .. Cardinality(found) - 1)
<1> DEFINE earlier(i) == {j \in found : Before(rank[j], rank[i])}
<1>1. \A i \in found : /\ earlier(i) \subseteq found /\ i \notin earlier(i)
                       /\ IsFiniteSet(earlier(i)) /\ Cardinality(earlier(i)) \in Nat
                       /\ place[i] = Cardinality(earlier(i))
  BY BeforeOrder, FS_Subset, FS_CardinalityType
<1>2. ASSUME NEW i \in found, NEW j \in found, Before(rank[i], rank[j])
      PROVE  place[i] < place[j]
  <2>1. earlier(i) \subseteq earlier(j)
    BY <1>2, BeforeOrder
  <2>2. i \in earlier(j)
    BY <1>2
  <2> HIDE DEF earlier
  <2>3. Cardinality(earlier(i)) <= Cardinality(earlier(j))
        /\ Cardinality(earlier(i)) # Cardinality(earlier(j))
    BY <1>1, <2>1, <2>2, FS_Subset
  <2>4. /\ place[i] = Cardinality(earlier(i)) /\ Cardinality(earlier(i)) \in Nat
        /\ place[j] = Cardinality(earlier(j)) /\ Cardinality(earlier(j)) \in Nat
    BY <1>1
  <2> QED
    BY ONLY <2>3, <2>4
<1>3. \A i, j \in found : i # j => Before(rank[i], rank[j]) \/ Before(rank[j], rank[i])
  BY BeforeOrder
<1> HIDE DEF earlier
<1>4. \A i \in found : place[i] \in Nat
  BY <1>1
<1>5. \A i, j \in found : Before(rank[i], rank[j]) <=> place[i] < place[j]
  <2> SUFFICES ASSUME NEW i \in found, NEW j \in found, place[i] < place[j]
               PROVE  Before(rank[i], rank[j])
    BY <1>2
  <2>1. ~(place[j] < place[i]) /\ i # j
    BY <1>4
  <2> QED
    BY <1>2, <1>3, <2>1
<1>6. Cardinality(found) \in Nat
  BY FS_CardinalityType
<1>7. \A i \in found : place[i] \in 0 .. Cardinality(found) - 1
  <2> SUFFICES ASSUME NEW i \in found PROVE place[i] < Cardinality(found)
    BY <1>4, <1>6
  <2>1. Cardinality(earlier(i)) <= Cardinality(found)
        /\ Cardinality(earlier(i)) # Cardinality(found)
    BY <1>1, FS_Subset
  <2> QED
    BY <1>1, <1>6, <2>1
<1>8. place \in Injection(found, 0 .. Cardinality(found) - 1)
  <2>1. place \in [found -> 0 .. Cardinality(found) - 1]
    BY <1>7
  <2>2. \A i, j \in found : place[i] = place[j] => i = j
    <3> SUFFICES ASSUME NEW i \in found, NEW j \in found, place[i] = place[j], i # j
                 PROVE  FALSE
      OBVIOUS
    <3>1. place[i] < place[j] \/ place[j] < place[i]
      BY <1>3, <1>5
    <3>2. place[i] \in Int
      BY <1>4
    <3> QED
      BY <3>1, <3>2
  <2> QED
    BY <2>1, <2>2 DEF Injection, IsInjective
<1>9. IsFiniteSet(0 .. Cardinality(found) - 1)
      /\ Cardinality(0 .. Cardinality(found) - 1) = Cardinality(found)
  BY <1>6, FS_Interval
<1>10. place \in Surjection(found, 0 .. Cardinality(found) - 1)
  BY <1>8, <1>9, FS_Injection
<1> QED
  BY <1>5, <1>8, <1>10 DEF Bijection

PickerRow == [session : Nat, window : Nat, label : Texts, current : BOOLEAN, local : BOOLEAN]

LEMMA LabelScored ==
  ASSUME NEW query \in Seq(Characters), NEW label \in Texts
  PROVE  FindsBest(query, label) /\ (Matches(query, label) => Score(query, label) \in Int)
<1>1. label \in Seq(STRING) /\ Len(label) < -Unreachable
  BY DEF Texts, Unreachable
<1> QED
  BY <1>1, ScoreIsBest

\* The rows that are shown: each that matches, once, best first.
RankedRight(rows, query, shown) ==
  /\ shown \in Seq(DOMAIN rows)
  /\ \A m, n \in DOMAIN shown : shown[m] = shown[n] => m = n
  /\ \A n \in DOMAIN shown : shown[n] \in Found(rows, query)
  /\ \A i \in Found(rows, query) : \E n \in DOMAIN shown : shown[n] = i
  /\ \A m, n \in DOMAIN shown :
       m < n => Score(query, rows[shown[m]].label) >= Score(query, rows[shown[n]].label)

LEMMA RankedIs ==
  ASSUME NEW rows \in Seq(PickerRow), NEW query \in Seq(Characters)
  PROVE  RankedRight(rows, query, Ranked(rows, query))
<1> DEFINE found == Found(rows, query)
           rank == [i \in found |->
                      <<-Score(query, rows[i].label), rows[i].session, rows[i].window, i>>]
           place == [i \in found |-> Cardinality({j \in found : Before(rank[j], rank[i])})]
           size == Cardinality(found)
           shown == [n \in 1 .. size |-> CHOOSE i \in found : place[i] = n - 1]
<1>1. Ranked(rows, query) = shown
  BY DEF Ranked
<1>2. found \subseteq DOMAIN rows /\ DOMAIN rows = 1 .. Len(rows) /\ IsFiniteSet(found)
      /\ size \in Nat
  <2>1. found \in SUBSET DOMAIN rows /\ DOMAIN rows = 1 .. Len(rows) /\ Len(rows) \in Nat
    BY DEF Found
  <2>2. IsFiniteSet(1 .. Len(rows))
    BY <2>1, FS_Interval
  <2>3. IsFiniteSet(found)
    BY <2>1, <2>2, FS_Subset
  <2> QED
    BY <2>1, <2>3, FS_CardinalityType
<1>3. \A i \in found : Score(query, rows[i].label) \in Int
  <2> SUFFICES ASSUME NEW i \in found PROVE Score(query, rows[i].label) \in Int
    OBVIOUS
  <2>1. rows[i] \in PickerRow /\ Matches(query, rows[i].label)
    BY <1>2 DEF Found
  <2>2. rows[i].label \in Texts
    BY <2>1 DEF PickerRow
  <2> QED
    BY <2>1, <2>2, LabelScored
<1>4. \A i \in found : IsRank(rank[i]) /\ rank[i][4] = i
                       /\ rank[i][1] = -Score(query, rows[i].label)
  <2> SUFFICES ASSUME NEW i \in found
               PROVE  IsRank(rank[i]) /\ rank[i][4] = i
                      /\ rank[i][1] = -Score(query, rows[i].label)
    OBVIOUS
  <2>1. rows[i].session \in Int /\ rows[i].window \in Int /\ i \in Int
    <3>1. i \in DOMAIN rows /\ i \in Int /\ rows[i] \in PickerRow
      BY <1>2
    <3> QED
      BY <3>1 DEF PickerRow
  <2>2. -Score(query, rows[i].label) \in Int
    BY <1>3
  <2> DEFINE s == -Score(query, rows[i].label)
  <2>3. rank[i] = <<s, rows[i].session, rows[i].window, i>>
    OBVIOUS
  <2> HIDE DEF rank, s
  <2> QED
    BY <2>1, <2>2, <2>3 DEF IsRank, s
<1> HIDE DEF rank, found
<1>5. /\ \A i, j \in found : Before(rank[i], rank[j]) <=> place[i] < place[j]
      /\ place \in Bijection(found, 0 .. size - 1)
  BY <1>2, <1>4, PlacesAre
<1>6. /\ \A i \in found : place[i] \in 0 .. size - 1
      /\ \A i, j \in found : place[i] = place[j] => i = j
      /\ \A m \in 0 .. size - 1 : \E i \in found : place[i] = m
  <2> HIDE DEF place, size
  <2>1. place \in Injection(found, 0 .. size - 1) /\ place \in Surjection(found, 0 .. size - 1)
    BY <1>5 DEF Bijection
  <2>2. place \in [found -> 0 .. size - 1] /\ \A i, j \in found : place[i] = place[j] => i = j
    BY <2>1 DEF Injection, IsInjective
  <2>3. \A m \in 0 .. size - 1 : \E i \in found : place[i] = m
    BY <2>1 DEF Surjection
  <2> QED
    BY <2>2, <2>3
<1> HIDE DEF place, size
<1>7. \A n \in 1 .. size : shown[n] \in found /\ place[shown[n]] = n - 1
  <2> SUFFICES ASSUME NEW n \in 1 .. size PROVE shown[n] \in found /\ place[shown[n]] = n - 1
    OBVIOUS
  <2>1. n - 1 \in 0 .. size - 1
    BY <1>2
  <2>2. \E i \in found : place[i] = n - 1
    BY <1>6, <2>1
  <2> QED
    BY <2>2
<1>8. DOMAIN shown = 1 .. size /\ shown \in [1 .. size -> DOMAIN rows]
  BY <1>2, <1>7
<1> HIDE DEF shown
<1>9. shown \in Seq(DOMAIN rows)
  BY <1>2, <1>8
<1>10. \A m, n \in DOMAIN shown : shown[m] = shown[n] => m = n
  <2> SUFFICES ASSUME NEW m \in 1 .. size, NEW n \in 1 .. size, shown[m] = shown[n]
               PROVE  m = n
    BY <1>8
  <2>1. m - 1 = n - 1 /\ m \in Int /\ n \in Int
    BY <1>7
  <2> QED
    BY <2>1
<1>11. \A i \in found : \E n \in DOMAIN shown : shown[n] = i
  <2> SUFFICES ASSUME NEW i \in found PROVE \E n \in 1 .. size : shown[n] = i
    BY <1>8
  <2>1. place[i] \in Nat /\ place[i] + 1 \in 1 .. size /\ (place[i] + 1) - 1 = place[i]
    BY <1>2, <1>6
  <2>2. shown[place[i] + 1] \in found /\ place[shown[place[i] + 1]] = place[i]
    BY <1>7, <2>1
  <2> QED
    BY <1>6, <2>1, <2>2
<1>12. ASSUME NEW m \in DOMAIN shown, NEW n \in DOMAIN shown, m < n
       PROVE  Score(query, rows[shown[m]].label) >= Score(query, rows[shown[n]].label)
  <2>1. shown[m] \in found /\ shown[n] \in found /\ m - 1 < n - 1
    BY <1>7, <1>8, <1>12
  <2>2. place[shown[m]] < place[shown[n]]
    BY <1>7, <1>8, <2>1
  <2>3. Before(rank[shown[m]], rank[shown[n]])
    BY <1>5, <2>1, <2>2
  <2>4. rank[shown[m]][1] <= rank[shown[n]][1]
    BY <1>4, <2>1, <2>3, BeforeOrder
  <2>5. \A x, y \in Int : -x <= -y => x >= y
    OBVIOUS
  <2> QED
    BY <1>3, <1>4, <2>1, <2>4, <2>5
<1> QED
  BY <1>1, <1>7, <1>8, <1>9, <1>10, <1>11, <1>12 DEF RankedRight, found

-----------------------------------------------------------------------------
(* The line that is typed.                                                 *)

Lines == {l \in [text : Seq(Characters), cursor : Nat] : l.cursor <= Len(l.text)}

LEMMA MinOfTwo ==
  ASSUME NEW a \in Int, NEW b \in Int
  PROVE  Min({a, b}) = IF a <= b THEN a ELSE b
<1> DEFINE S == {a, b}
           m == IF a <= b THEN a ELSE b
<1>1. m \in S /\ \A x \in S : m <= x
  OBVIOUS
<1>2. \A y \in S : (\A x \in S : y <= x) => y = m
  OBVIOUS
<1>3. Min(S) = CHOOSE y \in S : \A x \in S : y <= x
  BY DEF Min
<1> HIDE DEF S, m
<1>4. Min(S) = m
  BY <1>1, <1>2, <1>3
<1> QED
  BY <1>4 DEF S, m

LEMMA CutIs ==
  ASSUME NEW s \in Seq(Characters), NEW i \in 1 .. Len(s)
  PROVE  Cut(s, i) \in Seq(Characters) /\ Len(Cut(s, i)) = Len(s) - 1
<1> DEFINE before == SubSeq(s, 1, i - 1)
           after == SubSeq(s, i + 1, Len(s))
<1>1. before \in Seq(Characters) /\ Len(before) = i - 1
  BY SubSeqProperties
<1>2. after \in Seq(Characters) /\ Len(after) = Len(s) - i
  BY SubSeqProperties
<1> HIDE DEF before, after
<1>3. before \o after \in Seq(Characters) /\ Len(before \o after) = Len(before) + Len(after)
  BY <1>1, <1>2, ConcatProperties
<1>4. (i - 1) + (Len(s) - i) = Len(s) - 1
  OBVIOUS
<1> QED
  BY <1>1, <1>2, <1>3, <1>4 DEF Cut, before, after

LEMMA TypedIs ==
  ASSUME NEW s \in Seq(Characters), NEW at \in 0 .. Len(s), NEW ch \in Characters
  PROVE  Typed(s, at, ch) \in Seq(Characters) /\ Len(Typed(s, at, ch)) = Len(s) + 1
<1> DEFINE before == SubSeq(s, 1, at)
           after == SubSeq(s, at + 1, Len(s))
           typed == <<ch>>
<1>1. before \in Seq(Characters) /\ Len(before) = at
  BY SubSeqProperties
<1>2. after \in Seq(Characters) /\ Len(after) = Len(s) - at
  BY SubSeqProperties
<1>3. typed \in Seq(Characters) /\ Len(typed) = 1
  OBVIOUS
<1> HIDE DEF before, after, typed
<1>4. before \o typed \in Seq(Characters) /\ Len(before \o typed) = Len(before) + Len(typed)
  BY <1>1, <1>3, ConcatProperties
<1> DEFINE front == before \o typed
<1>5. front \in Seq(Characters) /\ Len(front) = at + 1
  BY <1>1, <1>3, <1>4
<1>6. Typed(s, at, ch) = front \o after
  BY DEF Typed, before, after, typed
<1> HIDE DEF front
<1>7. front \o after \in Seq(Characters) /\ Len(front \o after) = Len(front) + Len(after)
  BY <1>2, <1>5, ConcatProperties
<1>8. (at + 1) + (Len(s) - at) = Len(s) + 1
  OBVIOUS
<1> QED
  BY <1>2, <1>5, <1>6, <1>7, <1>8

\* An edited line is a line.
LEMMA EditedType ==
  ASSUME NEW line \in Lines, NEW key \in AllKeys
  PROVE  Edited(line, key) \in Lines
<1> DEFINE s == line.text  at == line.cursor
<1>1. /\ s \in Seq(Characters) /\ at \in Nat /\ at <= Len(s) /\ Len(s) \in Nat
      /\ line = [text |-> s, cursor |-> at]
  BY DEF Lines
<1>2. \A t \in Seq(Characters), c \in Nat : c <= Len(t) => [text |-> t, cursor |-> c] \in Lines
  BY DEF Lines
<1>3. \A c \in Nat : c <= Len(s) => [line EXCEPT !.cursor = c] \in Lines
  BY <1>1 DEF Lines
<1>4. \A t \in Seq(Characters) : at <= Len(t) => [line EXCEPT !.text = t] \in Lines
  BY <1>1 DEF Lines
<1>5. [text |-> <<>>, cursor |-> 0] \in Lines
  <2> DEFINE none == <<>>
  <2>1. none \in Seq(Characters) /\ 0 \in Nat /\ 0 <= Len(none)
    OBVIOUS
  <2> HIDE DEF none
  <2>2. [text |-> none, cursor |-> 0] \in Lines
    BY <1>2, <2>1
  <2> QED
    BY <2>2 DEF none
<1>6. (IF at > 0 THEN [text |-> Cut(s, at), cursor |-> at - 1] ELSE line) \in Lines
  <2>1. CASE at > 0
    <3>1. at \in 1 .. Len(s) /\ at - 1 \in Nat /\ at - 1 <= Len(s) - 1
      BY <1>1, <2>1
    <3>2. Cut(s, at) \in Seq(Characters) /\ Len(Cut(s, at)) = Len(s) - 1
      BY <1>1, <3>1, CutIs
    <3> QED
      BY <1>2, <2>1, <3>1, <3>2
  <2> QED
    BY <2>1
<1>7. (IF at < Len(s) THEN [line EXCEPT !.text = Cut(s, at + 1)] ELSE line) \in Lines
  <2>1. CASE at < Len(s)
    <3>1. at + 1 \in 1 .. Len(s) /\ at <= Len(s) - 1
      BY <1>1, <2>1
    <3>2. Cut(s, at + 1) \in Seq(Characters) /\ Len(Cut(s, at + 1)) = Len(s) - 1
      BY <1>1, <3>1, CutIs
    <3> QED
      BY <1>4, <2>1, <3>1, <3>2
  <2> QED
    BY <2>1
<1>8. [line EXCEPT !.cursor = IF at = 0 THEN 0 ELSE at - 1] \in Lines
  <2>1. (IF at = 0 THEN 0 ELSE at - 1) \in Nat /\ (IF at = 0 THEN 0 ELSE at - 1) <= Len(s)
    BY <1>1
  <2> QED
    BY <1>3, <2>1
<1>9. [line EXCEPT !.cursor = Min({at + 1, Len(s)})] \in Lines
  <2>0. at + 1 \in Int /\ Len(s) \in Int
    BY <1>1
  <2>1. Min({at + 1, Len(s)}) = IF at + 1 <= Len(s) THEN at + 1 ELSE Len(s)
    BY ONLY <2>0, MinOfTwo
  <2>2. Min({at + 1, Len(s)}) \in Nat /\ Min({at + 1, Len(s)}) <= Len(s)
    BY <1>1, <2>1
  <2> QED
    BY <1>3, <2>2
<1>10. [line EXCEPT !.cursor = 0] \in Lines /\ [line EXCEPT !.cursor = Len(s)] \in Lines
  <2>1. 0 \in Nat /\ 0 <= Len(s) /\ Len(s) <= Len(s)
    BY <1>1
  <2> QED
    BY <1>1, <1>3, <2>1
<1>11. key.code \in Characters => [text |-> Typed(s, at, key.code), cursor |-> at + 1] \in Lines
  <2> SUFFICES ASSUME key.code \in Characters
               PROVE  [text |-> Typed(s, at, key.code), cursor |-> at + 1] \in Lines
    OBVIOUS
  <2>1. at \in 0 .. Len(s)
    BY <1>1
  <2>2. Typed(s, at, key.code) \in Seq(Characters) /\ Len(Typed(s, at, key.code)) = Len(s) + 1
    BY <1>1, <2>1, TypedIs
  <2>3. at + 1 \in Nat /\ at + 1 <= Len(s) + 1
    BY <1>1
  <2> QED
    BY <1>2, <2>2, <2>3
<1>12. Edited(line, key) =
         CASE key.code = "u" /\ Ctrl \in key.mods -> [text |-> <<>>, cursor |-> 0]
           [] key.code = "Backspace" ->
                IF at > 0 THEN [text |-> Cut(s, at), cursor |-> at - 1] ELSE line
           [] key.code = "Delete" ->
                IF at < Len(s) THEN [line EXCEPT !.text = Cut(s, at + 1)] ELSE line
           [] key.code = "Left" -> [line EXCEPT !.cursor = IF at = 0 THEN 0 ELSE at - 1]
           [] key.code = "Right" -> [line EXCEPT !.cursor = Min({at + 1, Len(s)})]
           [] key.code = "Home" -> [line EXCEPT !.cursor = 0]
           [] key.code = "End" -> [line EXCEPT !.cursor = Len(s)]
           [] key.code \in Characters /\ Ctrl \notin key.mods ->
                [text |-> Typed(s, at, key.code), cursor |-> at + 1]
           [] OTHER -> line
  BY DEF Edited
<1> HIDE DEF s, at
<1> QED
  BY <1>5, <1>6, <1>7, <1>8, <1>9, <1>10, <1>11, <1>12

-----------------------------------------------------------------------------
(* The picker.                                                             *)

PickerShape ==
  [rows : Seq(PickerRow), query : Seq(Characters), cursor : Nat, shown : Seq(Nat),
   selected : Nat, closing : BOOLEAN, left : Nat]

\* What is so of a picker whatever is shown of it, and what is shown.
PickerSound(p) ==
  /\ p.cursor <= Len(p.query)
  /\ p.closing <=> p.left > 0
PickerOK(p) ==
  /\ p \in PickerShape /\ PickerSound(p)
  /\ p.shown = Ranked(p.rows, p.query)
  /\ HasSelection(p) \/ (p.selected = 1 /\ p.shown = <<>>)

LEMMA RankedType ==
  ASSUME NEW rows \in Seq(PickerRow), NEW query \in Seq(Characters)
  PROVE  Ranked(rows, query) \in Seq(Nat)
<1>1. Ranked(rows, query) \in Seq(DOMAIN rows)
  BY RankedIs DEF RankedRight
<1>2. DOMAIN rows \subseteq Nat
  OBVIOUS
<1> QED
  BY <1>1, <1>2

LEMMA RefilteredOK ==
  ASSUME NEW p \in PickerShape, PickerSound(p)
  PROVE  /\ PickerOK(Refiltered(p))
         /\ Refiltered(p).rows = p.rows /\ Refiltered(p).query = p.query
         /\ Refiltered(p).closing = p.closing /\ Refiltered(p).left = p.left
<1> DEFINE r == Ranked(p.rows, p.query)
           q == [p EXCEPT !.shown = r, !.selected = 1]
<1>1. r \in Seq(Nat) /\ Refiltered(p) = q
  BY RankedType DEF PickerShape, Refiltered
<1> HIDE DEF r
<1>2. /\ q \in PickerShape /\ q.shown = r /\ q.selected = 1 /\ q.rows = p.rows
      /\ q.query = p.query /\ q.cursor = p.cursor /\ q.closing = p.closing /\ q.left = p.left
  BY <1>1 DEF PickerShape
<1> HIDE DEF q
<1>3. q.selected \in DOMAIN q.shown \/ q.shown = <<>>
  BY <1>1, <1>2
<1>4. PickerSound(q)
  BY <1>2 DEF PickerSound
<1>5. q.shown = Ranked(q.rows, q.query)
  BY <1>2 DEF r
<1>6. PickerOK(q)
  BY <1>2, <1>3, <1>4, <1>5 DEF PickerOK, HasSelection
<1> QED
  BY <1>1, <1>2, <1>6

LEMMA MinOfNats ==
  ASSUME NEW S, S \subseteq Nat, S # {}
  PROVE  Min(S) \in S
<1>1. \E m \in S : \A x \in S : m <= x
  BY NatMin
<1> QED
  BY <1>1 DEF Min

\* Moving the selection to a row that is shown leaves a picker.
LEMMA SelectOK ==
  ASSUME NEW p, PickerOK(p), NEW n \in DOMAIN p.shown
  PROVE  /\ PickerOK([p EXCEPT !.selected = n])
         /\ [p EXCEPT !.selected = n].rows = p.rows /\ [p EXCEPT !.selected = n].shown = p.shown
         /\ [p EXCEPT !.selected = n].query = p.query
         /\ [p EXCEPT !.selected = n].closing = p.closing
         /\ [p EXCEPT !.selected = n].selected = n
<1> DEFINE q == [p EXCEPT !.selected = n]
<1>1. p \in PickerShape /\ n \in Nat
  <2>1. p \in PickerShape /\ p.shown \in Seq(Nat)
    BY DEF PickerOK, PickerShape
  <2> QED
    BY <2>1
<1>2. /\ q \in PickerShape /\ q.selected = n /\ q.rows = p.rows /\ q.query = p.query
      /\ q.cursor = p.cursor /\ q.shown = p.shown /\ q.closing = p.closing /\ q.left = p.left
  BY <1>1 DEF PickerShape
<1> HIDE DEF q
<1>3. PickerOK(q)
  BY <1>2 DEF PickerOK, PickerSound, HasSelection
<1> QED
  BY <1>2, <1>3 DEF q

LEMMA MoveSelectionOK ==
  ASSUME NEW p, PickerOK(p), NEW by \in {1, -1}
  PROVE  PickerOK(MoveSelection(p, by)) /\ MoveSelection(p, by).rows = p.rows
         /\ MoveSelection(p, by).closing = p.closing
<1>1. CASE p.shown = <<>>
  BY <1>1 DEF MoveSelection
<1>2. CASE p.shown # <<>>
  <2> DEFINE n == ((p.selected - 1 + by) % Len(p.shown)) + 1
  <2>1. MoveSelection(p, by) = [p EXCEPT !.selected = n]
    BY <1>2 DEF MoveSelection
  <2>2. Len(p.shown) \in Nat /\ Len(p.shown) > 0 /\ DOMAIN p.shown = 1 .. Len(p.shown)
        /\ p.selected \in Nat
    <3>1. p.shown \in Seq(Nat) /\ p.selected \in Nat
      BY DEF PickerOK, PickerShape
    <3> QED
      BY <1>2, <3>1
  <2>3. n \in DOMAIN p.shown
    <3>1. p.selected - 1 + by \in Int
      BY <2>2
    <3>2. \A a \in Int, b \in Nat : b > 0 => a % b \in 0 .. b - 1
      OBVIOUS
    <3>3. (p.selected - 1 + by) % Len(p.shown) \in 0 .. Len(p.shown) - 1
      BY <2>2, <3>1, <3>2
    <3> QED
      BY <2>2, <3>3
  <2> HIDE DEF n
  <2> QED
    BY <2>1, <2>3, SelectOK
<1> QED
  BY <1>1, <1>2

LEMMA ClosedOK ==
  ASSUME NEW p, PickerOK(p)
  PROVE  PickerOK(Closed(p)) /\ Closed(p).closing /\ Closed(p).rows = p.rows
<1>1. p \in PickerShape
  BY DEF PickerOK
<1>2. CASE p.closing
  BY <1>2 DEF Closed
<1>3. CASE ~p.closing
  <2> DEFINE q == [p EXCEPT !.closing = TRUE, !.left = PickerTime]
  <2>1. Closed(p) = q
    BY <1>3 DEF Closed
  <2>2. /\ q \in PickerShape /\ q.selected = p.selected /\ q.rows = p.rows /\ q.query = p.query
        /\ q.cursor = p.cursor /\ q.shown = p.shown /\ q.closing = TRUE /\ q.left = 2
    BY <1>1 DEF PickerShape, PickerTime
  <2> HIDE DEF q
  <2>3. PickerOK(q)
    BY <2>2 DEF PickerOK, PickerSound, HasSelection
  <2> QED
    BY <2>1, <2>2, <2>3
<1> QED
  BY <1>2, <1>3

LEMMA PickerAfterOK ==
  ASSUME NEW p, PickerOK(p), NEW key \in AllKeys
  PROVE  PickerOK(PickerAfter(p, key)) /\ PickerAfter(p, key).rows = p.rows
<1> DEFINE line == Edited([text |-> p.query, cursor |-> p.cursor], key)
           q == [p EXCEPT !.query = line.text, !.cursor = line.cursor]
<1>1. p \in PickerShape /\ PickerSound(p)
  BY DEF PickerOK
<1>2. line \in Lines
  <2>1. [text |-> p.query, cursor |-> p.cursor] \in Lines
    BY <1>1 DEF PickerShape, PickerSound, Lines
  <2> QED
    BY <2>1, EditedType
<1>3. PickerAfter(p, key) =
        CASE key.code = "Enter" \/ Cancels(key) -> Closed(p)
          [] Down(key) -> MoveSelection(p, 1)
          [] Up(key) -> MoveSelection(p, -1)
          [] OTHER -> IF line.text # p.query \/ (key.code = "u" /\ Ctrl \in key.mods)
                      THEN Refiltered(q) ELSE q
  BY DEF PickerAfter
<1> HIDE DEF line
<1>4. line.text \in Seq(Characters) /\ line.cursor \in Nat /\ line.cursor <= Len(line.text)
  BY <1>2 DEF Lines
<1>5. /\ q \in PickerShape /\ q.query = line.text /\ q.cursor = line.cursor /\ q.rows = p.rows
      /\ q.shown = p.shown /\ q.selected = p.selected /\ q.closing = p.closing /\ q.left = p.left
  BY <1>1, <1>4 DEF PickerShape
<1> HIDE DEF q
<1>6. PickerSound(q)
  BY <1>1, <1>4, <1>5 DEF PickerSound
<1>7. PickerOK(Refiltered(q)) /\ Refiltered(q).rows = p.rows
  BY <1>5, <1>6, RefilteredOK
<1>8. line.text = p.query => PickerOK(q)
  BY <1>5, <1>6 DEF PickerOK, HasSelection
<1>9. PickerOK(Closed(p)) /\ Closed(p).rows = p.rows
  BY ClosedOK
<1>10. /\ PickerOK(MoveSelection(p, 1)) /\ MoveSelection(p, 1).rows = p.rows
       /\ PickerOK(MoveSelection(p, -1)) /\ MoveSelection(p, -1).rows = p.rows
  BY MoveSelectionOK
<1> QED
  BY <1>3, <1>5, <1>7, <1>8, <1>9, <1>10

\* Rows that turn up leave the selection on its row.
LEMMA ExtendedOK ==
  ASSUME NEW p, PickerOK(p), NEW rows \in Seq(PickerRow)
  PROVE  /\ PickerOK(Extended(p, rows))
         /\ Extended(p, rows).rows = p.rows \o rows
         /\ Extended(p, rows).query = p.query
         /\ Extended(p, rows).closing = p.closing
         /\ HasSelection(p) => /\ HasSelection(Extended(p, rows))
                               /\ Selection(Extended(p, rows)) = Selection(p)
<1> DEFINE all == p.rows \o rows
           r == [p EXCEPT !.rows = all]
           q == Refiltered(r)
           same == {i \in DOMAIN q.shown : HasSelection(p) /\ q.rows[q.shown[i]] = Selection(p)}
           e == [q EXCEPT !.selected = Min(same)]
<1>1. p \in PickerShape /\ PickerSound(p) /\ p.shown = Ranked(p.rows, p.query)
  BY DEF PickerOK
<1>2. p.rows \in Seq(PickerRow) /\ p.query \in Seq(Characters)
  BY <1>1 DEF PickerShape
<1>3. /\ all \in Seq(PickerRow) /\ Len(all) = Len(p.rows) + Len(rows)
      /\ \A i \in DOMAIN p.rows : i \in DOMAIN all /\ all[i] = p.rows[i]
  BY <1>2, ConcatProperties
<1>4. Extended(p, rows) = IF same = {} THEN q ELSE e
  BY DEF Extended
<1> HIDE DEF all
<1>5. r \in PickerShape /\ PickerSound(r) /\ r.rows = all /\ r.query = p.query
      /\ r.closing = p.closing
  BY <1>1, <1>3 DEF PickerShape, PickerSound
<1> HIDE DEF r
<1>6. PickerOK(q) /\ q.rows = all /\ q.query = p.query /\ q.closing = p.closing
  BY <1>5, RefilteredOK
<1> HIDE DEF q
<1>7. q.shown = Ranked(all, p.query) /\ q.shown \in Seq(Nat)
  BY <1>6 DEF PickerOK, PickerShape
<1>8. HasSelection(p) => same # {}
  <2> SUFFICES ASSUME HasSelection(p) PROVE same # {}
    OBVIOUS
  <2> DEFINE k == p.shown[p.selected]
  <2>1. k \in Found(p.rows, p.query)
    BY <1>1, <1>2, RankedIs DEF RankedRight, HasSelection
  <2>2. k \in DOMAIN p.rows /\ Matches(p.query, p.rows[k].label)
    BY <2>1 DEF Found
  <2>3. k \in Found(all, p.query) /\ all[k] = p.rows[k]
    BY <1>3, <2>2 DEF Found
  <2>4. PICK n \in DOMAIN q.shown : q.shown[n] = k
    BY <1>2, <1>3, <1>7, <2>3, RankedIs DEF RankedRight
  <2>5. n \in same
    BY <1>6, <2>3, <2>4 DEF Selection
  <2> QED
    BY <2>5
<1>9. CASE same = {}
  <2>1. Extended(p, rows) = q /\ ~HasSelection(p)
    BY <1>4, <1>8, <1>9
  <2> HIDE DEF same
  <2> QED
    BY <1>6, <2>1 DEF all
<1>10. CASE same # {}
  <2>1. same \subseteq Nat
    BY <1>7
  <2>2. Min(same) \in same
    <3> HIDE DEF same
    <3> QED
      BY <1>10, <2>1, MinOfNats
  <2> DEFINE n == Min(same)
  <2>3. n \in DOMAIN q.shown /\ q.rows[q.shown[n]] = Selection(p)
    BY <2>2
  <2>4. Extended(p, rows) = [q EXCEPT !.selected = n]
    BY <1>4, <1>10
  <2> HIDE DEF n, e, same
  <2>5. /\ PickerOK(Extended(p, rows)) /\ Extended(p, rows).rows = q.rows
        /\ Extended(p, rows).shown = q.shown /\ Extended(p, rows).query = q.query
        /\ Extended(p, rows).closing = q.closing /\ Extended(p, rows).selected = n
    <3> DEFINE s == [q EXCEPT !.selected = n]
    <3>1. PickerOK(q) /\ n \in DOMAIN q.shown
      BY <1>6, <2>3
    <3>2. /\ PickerOK(s) /\ s.rows = q.rows /\ s.shown = q.shown /\ s.query = q.query
          /\ s.closing = q.closing /\ s.selected = n
      BY ONLY <3>1, SelectOK
    <3> QED
      BY <2>4, <3>2
  <2>6. HasSelection(Extended(p, rows)) /\ Selection(Extended(p, rows)) = Selection(p)
    BY <2>3, <2>5 DEF HasSelection, Selection
  <2> QED
    BY <1>6, <2>5, <2>6 DEF all
<1> QED
  BY <1>9, <1>10

LEMMA NewPickerOK ==
  ASSUME NEW rows \in Seq(PickerRow)
  PROVE  PickerOK(NewPicker(rows)) /\ NewPicker(rows).rows = rows /\ ~NewPicker(rows).closing
<1> DEFINE none == <<>>
           first == [rows |-> rows, query |-> none, cursor |-> 0, shown |-> none,
                     selected |-> 1, closing |-> FALSE, left |-> 0]
           p == Refiltered(first)
           here == {i \in DOMAIN p.shown : rows[p.shown[i]].current /\ rows[p.shown[i]].window # 0}
<1>1. none \in Seq(Characters) /\ none \in Seq(Nat) /\ Len(none) = 0
  OBVIOUS
<1>2. NewPicker(rows) = IF here = {} THEN p ELSE [p EXCEPT !.selected = Min(here)]
  BY DEF NewPicker
<1> HIDE DEF none
<1>3. first \in PickerShape /\ PickerSound(first) /\ first.rows = rows /\ first.closing = FALSE
  BY <1>1 DEF PickerShape, PickerSound
<1> HIDE DEF first
<1>4. PickerOK(p) /\ p.rows = rows /\ ~p.closing
  BY <1>3, RefilteredOK
<1> HIDE DEF p
<1>5. CASE here = {}
  BY <1>2, <1>4, <1>5
<1>6. CASE here # {}
  <2>1. here \subseteq Nat
    BY <1>4 DEF PickerOK, PickerShape
  <2>2. Min(here) \in here
    <3> HIDE DEF here
    <3> QED
      BY <1>6, <2>1, MinOfNats
  <2> DEFINE n == Min(here)
             s == [p EXCEPT !.selected = n]
  <2>3. n \in DOMAIN p.shown
    BY <2>2
  <2>4. NewPicker(rows) = s
    BY <1>2, <1>6
  <2> HIDE DEF n, here
  <2>5. PickerOK(s) /\ s.rows = p.rows /\ s.closing = p.closing
    BY ONLY <1>4, <2>3, SelectOK
  <2> QED
    BY <1>4, <2>4, <2>5
<1> QED
  BY <1>5, <1>6

\* The rows of one session: itself, and its windows in order.
OwnRows(rows, s) ==
  rows \in Seq(PickerRow) /\ \A i \in DOMAIN rows : rows[i].session = s /\ rows[i].window = i - 1

LEMMA OwnRowsIs ==
  ASSUME NEW s \in Nat, NEW first \in PickerRow, first.session = s, first.window = 0,
         NEW rest \in Seq(PickerRow),
         \A w \in DOMAIN rest : rest[w].session = s /\ rest[w].window = w
  PROVE  OwnRows(<<first>> \o rest, s)
<1> DEFINE head == <<first>>
           rows == head \o rest
<1>1. head \in Seq(PickerRow) /\ Len(head) = 1 /\ head[1] = first
  OBVIOUS
<1> HIDE DEF head
<1>2. /\ rows \in Seq(PickerRow) /\ Len(rows) = 1 + Len(rest)
      /\ \A i \in 1 .. 1 + Len(rest) : rows[i] = IF i <= 1 THEN head[i] ELSE rest[i - 1]
  BY <1>1, ConcatProperties
<1> HIDE DEF rows
<1>3. DOMAIN rows = 1 .. 1 + Len(rest) /\ DOMAIN rest = 1 .. Len(rest) /\ Len(rest) \in Nat
  BY <1>2
<1>4. ASSUME NEW i \in DOMAIN rows PROVE rows[i].session = s /\ rows[i].window = i - 1
  <2>1. CASE i = 1
    BY <1>1, <1>2, <1>3, <2>1
  <2>2. CASE i # 1
    <3>1. i - 1 \in DOMAIN rest /\ rows[i] = rest[i - 1]
      BY <1>2, <1>3, <2>2
    <3> QED
      BY <3>1
  <2> QED
    BY <2>1, <2>2
<1>5. OwnRows(rows, s)
  BY <1>2, <1>4 DEF OwnRows
<1> QED
  BY <1>5 DEF rows, head

LEMMA LabelsAre ==
  ASSUME NEW labels \in {Labels} \cup Range(PeerLabels)
  PROVE  /\ labels \in Seq(Texts) /\ Head(labels) \in Texts
         /\ DOMAIN Tail(labels) = 1 .. Len(labels) - 1
         /\ \A w \in DOMAIN Tail(labels) : labels[w + 1] \in Texts
<1>1. labels \in Seq(Texts) /\ labels # <<>>
  BY KeyboardAssumption
<1>2. Len(labels) \in Nat /\ Len(labels) > 0 /\ Head(labels) = labels[1]
      /\ DOMAIN Tail(labels) = 1 .. Len(labels) - 1
  BY <1>1
<1> QED
  BY <1>1, <1>2

LEMMA LocalRows == OwnRows(LocalPickerRows, Session)
<1> DEFINE rest == [w \in DOMAIN Tail(Labels) |-> WindowRow(Session, w, Labels[w + 1], w = window, TRUE)]
           first == SessionRow(Session, Head(Labels), TRUE)
<1>1. Session \in Nat /\ Len(Labels) \in Nat
      /\ Head(Labels) \in Texts /\ DOMAIN Tail(Labels) = 1 .. Len(Labels) - 1
      /\ \A w \in DOMAIN Tail(Labels) : Labels[w + 1] \in Texts
  <2>1. Labels \in {Labels} \cup Range(PeerLabels) /\ Session \in Nat
    BY KeyboardAssumption
  <2> QED
    BY <2>1, LabelsAre
<1>2. first \in PickerRow /\ first.session = Session /\ first.window = 0
  BY <1>1 DEF SessionRow, PickerRow
<1>3. \A w \in DOMAIN rest : /\ rest[w] \in PickerRow
                             /\ rest[w].session = Session /\ rest[w].window = w
  BY <1>1 DEF WindowRow, PickerRow
<1>4. rest \in Seq(PickerRow)
  <2>1. DOMAIN rest = 1 .. Len(Labels) - 1 /\ rest = [w \in DOMAIN rest |-> rest[w]]
    BY <1>1
  <2> HIDE DEF rest
  <2>2. rest \in [1 .. Len(Labels) - 1 -> PickerRow]
    BY <1>3, <2>1
  <2>3. CASE Len(Labels) = 0
    BY <2>2, <2>3
  <2>4. CASE Len(Labels) # 0
    BY <1>1, <2>2, <2>4
  <2> QED
    BY <2>3, <2>4
<1> HIDE DEF rest, first
<1>5. OwnRows(<<first>> \o rest, Session)
  BY <1>1, <1>2, <1>3, <1>4, OwnRowsIs
<1> QED
  BY <1>5 DEF LocalPickerRows, rest, first

LEMMA PeerRows ==
  ASSUME NEW s \in Peers, NEW reached \in BOOLEAN
  PROVE  OwnRows(PeerPickerRows(s, reached), s)
<1> DEFINE labels == PeerLabels[s]
           windows == [w \in DOMAIN Tail(labels) |-> WindowRow(s, w, labels[w + 1], FALSE, FALSE)]
           rest == IF reached THEN windows ELSE <<>>
           first == SessionRow(s, Head(labels), FALSE)
<1>1. s \in Nat /\ labels \in Range(PeerLabels)
  BY KeyboardAssumption DEF Peers, Range
<1>2. /\ Len(labels) \in Nat
      /\ Head(labels) \in Texts /\ DOMAIN Tail(labels) = 1 .. Len(labels) - 1
      /\ \A w \in DOMAIN Tail(labels) : labels[w + 1] \in Texts
  <2> HIDE DEF labels
  <2> QED
    BY <1>1, LabelsAre
<1> HIDE DEF labels
<1>3. first \in PickerRow /\ first.session = s /\ first.window = 0
  BY <1>1, <1>2 DEF SessionRow, PickerRow
<1>4. \A w \in DOMAIN windows : /\ windows[w] \in PickerRow
                                /\ windows[w].session = s /\ windows[w].window = w
  BY <1>1, <1>2 DEF WindowRow, PickerRow
<1>5. windows \in Seq(PickerRow)
  <2>1. DOMAIN windows = 1 .. Len(labels) - 1 /\ windows = [w \in DOMAIN windows |-> windows[w]]
    BY <1>2
  <2> HIDE DEF windows
  <2>2. windows \in [1 .. Len(labels) - 1 -> PickerRow]
    BY <1>4, <2>1
  <2>3. CASE Len(labels) = 0
    BY <2>2, <2>3
  <2>4. CASE Len(labels) # 0
    BY <1>2, <2>2, <2>4
  <2> QED
    BY <2>3, <2>4
<1> HIDE DEF windows
<1>6. rest \in Seq(PickerRow) /\ \A w \in DOMAIN rest : rest[w].session = s /\ rest[w].window = w
  <2>1. CASE reached
    BY <1>4, <1>5, <2>1
  <2>2. CASE ~reached
    <3>1. rest = <<>> /\ <<>> \in Seq(PickerRow) /\ DOMAIN <<>> = {}
      BY <2>2
    <3> QED
      BY <3>1
  <2> QED
    BY <2>1, <2>2
<1> HIDE DEF rest, first
<1>7. OwnRows(<<first>> \o rest, s)
  BY <1>1, <1>3, <1>6, OwnRowsIs
<1> QED
  BY <1>7 DEF PeerPickerRows, rest, windows, first, labels

-----------------------------------------------------------------------------
(* The invariant.                                                          *)

KeymapOK ==
  /\ tables \in [Tables -> TableType]
  /\ leader \in Leaders /\ prefixes \subseteq AllKeys /\ keyTable \in Tables
  /\ terminals \subseteq Terminals /\ nestedEnv \in BOOLEAN
  /\ message \in BOOLEAN /\ enhanced \in BOOLEAN /\ chords \subseteq DOMAIN DefaultChords
  /\ "nestedKeys" \in DOMAIN options

PromptShape == [text : Seq(Characters), cursor : Nat, template : {"rename", "ask"}]
PromptOK == prompt # NoPrompt => prompt \in PromptShape /\ prompt.cursor <= Len(prompt.text)

\* The chords that the leader may move are where it is and nowhere else: a chord
\* that a bind had left in the other place would be in the way of the next move.
LeaderOK ==
  /\ leader = LeaderFor(options, terminals)
  /\ prefixes = PrefixFor(options, leader)
  /\ \A ch \in chords : OnLeader(ch, tables["root"], leader)

Asked == [epoch : Nat, session : Peers]
\* A picker has the rows of each session once, because no task that reports to
\* it is for a session whose rows it has.
Distinct(rows) ==
  \A i, j \in DOMAIN rows :
    rows[i].session = rows[j].session /\ rows[i].window = rows[j].window => i = j
Missing(rows, tasks, e) ==
  \A task \in tasks : task.epoch = e => \A i \in DOMAIN rows : rows[i].session # task.session
RowsOK ==
  /\ epoch \in Nat /\ asked \subseteq Asked /\ \A task \in asked : task.epoch <= epoch
  /\ picker # NoPicker => PickerOK(picker)
  /\ TakesKeys(picker) => Distinct(picker.rows) /\ Missing(picker.rows, asked, epoch)

KeyboardInv == KeymapOK /\ PromptOK /\ LeaderOK /\ RowsOK

LEMMA LeaderForType ==
  ASSUME NEW opts, NEW attached
  PROVE  LeaderFor(opts, attached) \in Leaders
BY DEF LeaderFor, Leaders

LEMMA PrefixForType ==
  ASSUME NEW opts, NEW ldr
  PROVE  PrefixFor(opts, ldr) \subseteq AllKeys
BY ParseBindingKeyType DEF PrefixFor

\* After the terminals or the options have changed, the leader, the prefix and
\* the chords are where they belong.
LEMMA RefreshOK ==
  ASSUME KeymapOK, \A ch \in chords : OnLeader(ch, tables["root"], leader),
         NEW opts, NEW attached, RefreshNesting(opts, attached)
  PROVE  /\ leader' = LeaderFor(opts, attached) /\ leader' \in Leaders
         /\ prefixes' = PrefixFor(opts, leader') /\ prefixes' \subseteq AllKeys
         /\ tables' \in [Tables -> TableType] /\ message' \in BOOLEAN
         /\ \A ch \in chords : OnLeader(ch, tables'["root"], leader')
<1> DEFINE to == LeaderFor(opts, attached)
<1>1. leader' = to /\ prefixes' = PrefixFor(opts, to) /\ to \in Leaders
      /\ prefixes' \subseteq AllKeys
  BY LeaderForType, PrefixForType DEF RefreshNesting
<1> HIDE DEF to
<1>2. tables \in [Tables -> TableType] /\ "root" \in Tables /\ leader \in Leaders
      /\ message \in BOOLEAN
  BY DEF KeymapOK, Tables
<1>3. CASE to = leader
  <2>1. tables' = tables /\ message' = message
    BY <1>3 DEF RefreshNesting, to
  <2> QED
    BY <1>1, <1>2, <1>3, <2>1 DEF to
<1>4. CASE to # leader
  <2>1. /\ \E root \in MovedTables(tables["root"], leader, to) :
             tables' = [tables EXCEPT !["root"] = root]
        /\ message' = TRUE
    BY <1>4 DEF RefreshNesting, to
  <2>2. PICK root \in MovedTables(tables["root"], leader, to) :
               tables' = [tables EXCEPT !["root"] = root]
    BY <2>1
  <2>3. tables["root"] \in TableType
    BY <1>2
  <2>4. root \in TableType
    BY <1>1, <1>2, <2>3, MovedType
  <2>5. tables' \in [Tables -> TableType] /\ tables'["root"] = root
    BY <1>2, <2>2, <2>4
  <2>6. \A ch \in chords : OnLeader(ch, root, to)
    BY <1>1, <1>2, <1>4, <2>3, MovedChord
  <2> QED
    BY <1>1, <2>1, <2>5, <2>6 DEF to
<1> QED
  BY <1>3, <1>4

LEMMA OpenPickerOK ==
  ASSUME RowsOK, OpenPicker
  PROVE  RowsOK' /\ epoch' # epoch
<1> DEFINE rows == LocalPickerRows
<1>1. OwnRows(rows, Session) /\ rows \in Seq(PickerRow)
  BY LocalRows DEF OwnRows
<1>2. picker' = NewPicker(rows) /\ epoch' = epoch + 1
      /\ asked' = asked \cup {[epoch |-> epoch + 1, session |-> s] : s \in Peers}
  BY DEF OpenPicker
<1> HIDE DEF rows
<1>3. PickerOK(picker') /\ picker'.rows = rows
  BY <1>1, <1>2, NewPickerOK
<1>4. epoch \in Nat /\ asked \subseteq Asked /\ \A task \in asked : task.epoch <= epoch
  BY DEF RowsOK
<1>5. epoch' \in Nat /\ epoch' > epoch /\ asked' \subseteq Asked
      /\ \A task \in asked' : task.epoch <= epoch'
  BY <1>2, <1>4 DEF Asked
<1>6. Distinct(rows)
  <2>1. \A i \in DOMAIN rows : i \in Int /\ rows[i].window = i - 1
    BY <1>1 DEF OwnRows
  <2> QED
    BY <2>1 DEF Distinct
<1>7. Missing(rows, asked', epoch')
  <2>1. \A task \in asked' : task.session \in Peers
    BY <1>5 DEF Asked
  <2>2. Session \notin Peers
    BY KeyboardAssumption
  <2>3. \A i \in DOMAIN rows : rows[i].session = Session
    BY <1>1 DEF OwnRows
  <2> QED
    BY <2>1, <2>2, <2>3 DEF Missing
<1>8. RowsOK'
  BY <1>3, <1>5, <1>6, <1>7 DEF RowsOK
<1> QED
  BY <1>4, <1>5, <1>8

LEMMA RunOK ==
  ASSUME RowsOK, PromptOK, NEW command \in Commands, NEW open, open \in {prompt, NoPrompt},
         Run(command, open)
  PROVE  RowsOK' /\ PromptOK' /\ (epoch' # epoch \/ picker' = picker)
<1>1. open # NoPrompt => open \in PromptShape /\ open.cursor <= Len(open.text)
  BY DEF PromptOK
<1>2. CASE command = "choose"
  <2>1. OpenPicker /\ prompt' = open
    BY <1>2 DEF Run
  <2> QED
    BY <1>1, <2>1, OpenPickerOK DEF PromptOK
<1>3. CASE command \in {"rename", "ask"}
  <2>1. OpenPrompt(command) /\ UNCHANGED <<picker, epoch, asked>>
    BY <1>3 DEF Run
  <2>2. RowsOK'
    BY <2>1 DEF RowsOK, TakesKeys
  <2> DEFINE none == <<>>
             text == IF command = "rename" THEN InitialName ELSE none
             at == IF command = "rename" THEN Len(InitialName) ELSE 0
  <2>3. text \in Seq(Characters) /\ at \in Nat /\ at <= Len(text)
    <3>1. none \in Seq(Characters) /\ Len(none) = 0
      OBVIOUS
    <3>2. InitialName \in Seq(Characters)
      BY KeyboardAssumption, Zenon
    <3>3. Len(InitialName) \in Nat
      BY <3>2
    <3> HIDE DEF none
    <3> QED
      BY <3>1, <3>2, <3>3
  <2>4. prompt' = [text |-> text, cursor |-> at, template |-> command]
    BY <2>1 DEF OpenPrompt
  <2> HIDE DEF text, at
  <2>5. PromptOK'
    BY <1>3, <2>3, <2>4 DEF PromptOK, PromptShape
  <2> QED
    BY <2>1, <2>2, <2>5
<1>4. CASE command = "split"
  <2>1. prompt' = open /\ UNCHANGED <<picker, epoch, asked>>
    BY <1>4 DEF Run
  <2> QED
    BY <1>1, <2>1 DEF RowsOK, TakesKeys, PromptOK
<1> QED
  BY <1>2, <1>3, <1>4 DEF Commands

-----------------------------------------------------------------------------
(* Initially.                                                              *)

LEMMA DefaultsOK ==
  /\ RootDefaults \in TableType /\ PrefixDefaults \in TableType
  /\ \A ch \in DOMAIN DefaultChords : OnLeader(ch, RootDefaults, "Alt")
<1>1. DOMAIN DefaultChords = {"v", "r", ";"}
      /\ \A ch \in DOMAIN DefaultChords : DefaultChords[ch] \in Commands
  BY DEF DefaultChords, Commands
<1>2. {"v", "r", ";", "c", "w", "Left"} \subseteq Codes /\ {"c", "w"} \subseteq Characters
  BY KeyboardAssumption DEF Codes, Arrows
<1>3. {Alt} \in SUBSET Modifiers /\ {Ctrl} \in SUBSET Modifiers /\ {} \in SUBSET Modifiers
  BY DEF Modifiers
<1>4. \A command \in Commands : Once(command) \in Binding /\ Again(command) \in Binding
  BY DEF Once, Again, Binding
<1>5. RootDefaults \in TableType
  <2> DEFINE K == {Key(ch, {Alt}) : ch \in DOMAIN DefaultChords}
  <2>1. K \in SUBSET AllKeys
    BY <1>1, <1>2, <1>3, KeyIs
  <2>2. \A key \in K : key.code \in DOMAIN DefaultChords
    BY DEF Key
  <2>3. \A key \in K : Once(DefaultChords[key.code]) \in Binding
    BY <1>1, <1>4, <2>2
  <2>4. RootDefaults \in [K -> Binding]
    BY <2>3 DEF RootDefaults
  <2> QED
    BY <2>1, <2>4 DEF TableType
<1>6. PrefixDefaults \in TableType
  <2> DEFINE K == {Key("c", {}), Key("w", {}), Key("Left", {Ctrl})}
  <2>1. K \in SUBSET AllKeys
    BY <1>2, <1>3, KeyIs
  <2>2. \A key \in K : key.code \in {"c", "w", "Left"}
    BY DEF Key
  <2>3. \A key \in K :
          (CASE key.code = "c" -> Once("split") [] key.code = "w" -> Once("choose")
             [] key.code = "Left" -> Again("split")) \in Binding
    BY <1>4, <2>2 DEF Commands
  <2>4. PrefixDefaults \in [K -> Binding]
    BY <2>3 DEF PrefixDefaults
  <2> QED
    BY <2>1, <2>4 DEF TableType
<1>7. ASSUME NEW ch \in DOMAIN DefaultChords PROVE OnLeader(ch, RootDefaults, "Alt")
  <2>1. ModifierSet("Alt") = {Alt} /\ Key(ch, {Alt}).code = ch
    BY DEF ModifierSet, Key
  <2>2. Key(ch, {Alt}) \in DOMAIN RootDefaults
        /\ RootDefaults[Key(ch, {Alt})] = Once(DefaultChords[ch])
    BY <2>1 DEF RootDefaults
  <2>3. \A key \in DOMAIN RootDefaults : key.mods = {Alt}
    BY DEF RootDefaults, Key
  <2>4. ASSUME NEW other \in Leaders \ {"Alt"}
        PROVE  Key(ch, ModifierSet(other)) \notin DOMAIN RootDefaults
    <3>1. Key(ch, ModifierSet(other)).mods = {Ctrl, Alt}
      BY DEF Leaders, ModifierSet, Key
    <3>2. {Ctrl, Alt} # {Alt}
      BY ModifiersDiffer
    <3> QED
      BY <2>3, <3>1, <3>2
  <2> QED
    BY <2>1, <2>2, <2>4 DEF OnLeader
<1> QED
  BY <1>5, <1>6, <1>7

LEMMA InitOK ==
  ASSUME Init
  PROVE  KeyboardInv
<1>1. /\ nestedEnv \in BOOLEAN /\ options = DefaultOptions
      /\ leader = LeaderFor(options, {}) /\ prefixes = PrefixFor(options, leader)
      /\ keyTable = "root" /\ terminals = {} /\ picker = NoPicker /\ epoch = 0 /\ asked = {}
      /\ prompt = NoPrompt /\ message = nestedEnv /\ enhanced = FALSE
      /\ chords = DOMAIN DefaultChords
  BY DEF Init
<1>2. PICK root \in IF nestedEnv THEN MovedTables(RootDefaults, "Alt", "CtrlAlt")
                    ELSE {RootDefaults} :
        tables = [t \in Tables |-> IF t = "root" THEN root ELSE PrefixDefaults]
  BY DEF Init
<1>3. leader = IF nestedEnv THEN "CtrlAlt" ELSE "Alt"
  BY <1>1 DEF LeaderFor, WantsNested, DefaultOptions
<1>4. root \in TableType /\ \A ch \in chords : OnLeader(ch, root, leader)
  <2>1. CASE nestedEnv
    <3>1. "Alt" \in Leaders /\ "CtrlAlt" \in Leaders /\ "Alt" # "CtrlAlt"
      BY DEF Leaders
    <3>2. root \in MovedTables(RootDefaults, "Alt", "CtrlAlt")
      BY <1>2, <2>1
    <3> QED
      BY <1>1, <1>3, <2>1, <3>1, <3>2, DefaultsOK, MovedType, MovedChord
  <2>2. CASE ~nestedEnv
    BY <1>1, <1>2, <1>3, <2>2, DefaultsOK
  <2> QED
    BY <1>1, <2>1, <2>2
<1>5. tables \in [Tables -> TableType] /\ tables["root"] = root
  BY <1>2, <1>4, DefaultsOK DEF Tables
<1>6. KeymapOK
  <2>1. "nestedKeys" \in DOMAIN options
    BY <1>1 DEF DefaultOptions
  <2> QED
    BY <1>1, <1>5, <2>1, LeaderForType, PrefixForType DEF KeymapOK, Tables
<1>7. LeaderOK
  BY <1>1, <1>4, <1>5 DEF LeaderOK
<1> QED
  BY <1>1, <1>6, <1>7 DEF KeyboardInv, PromptOK, RowsOK, TakesKeys

-----------------------------------------------------------------------------
(* Every step.                                                             *)

\* Steps that leave the tables alone, and what they depend on.
LEMMA LeaderSame ==
  ASSUME LeaderOK, UNCHANGED <<tables, leader, prefixes, options, chords, terminals, nestedEnv>>
  PROVE  LeaderOK'
BY DEF LeaderOK, LeaderFor, WantsNested, PrefixFor, OnLeader

LEMMA KeymapSame ==
  ASSUME KeymapOK,
         UNCHANGED <<tables, leader, prefixes, options, chords, terminals, nestedEnv>>,
         keyTable' \in Tables, message' \in BOOLEAN, enhanced' \in BOOLEAN
  PROVE  KeymapOK'
BY DEF KeymapOK

LEMMA OverlaysSame ==
  ASSUME PromptOK, RowsOK, UNCHANGED overlays
  PROVE  PromptOK' /\ RowsOK'
BY DEF overlays, PromptOK, RowsOK, TakesKeys

\* Steps that work the leader and the prefix out anew.
LEMMA LeaderAnew ==
  ASSUME KeymapOK, LeaderOK, RefreshNesting(options', terminals'),
         "nestedKeys" \in DOMAIN options', terminals' \subseteq Terminals,
         UNCHANGED <<chords, nestedEnv, enhanced>>, keyTable' \in Tables
  PROVE  KeymapOK' /\ LeaderOK'
<1>1. \A ch \in chords : OnLeader(ch, tables["root"], leader)
  BY DEF LeaderOK
<1>2. /\ leader' = LeaderFor(options', terminals') /\ leader' \in Leaders
      /\ prefixes' = PrefixFor(options', leader') /\ prefixes' \subseteq AllKeys
      /\ tables' \in [Tables -> TableType] /\ message' \in BOOLEAN
      /\ \A ch \in chords : OnLeader(ch, tables'["root"], leader')
  BY <1>1, RefreshOK
<1>3. KeymapOK'
  BY <1>2 DEF KeymapOK
<1>4. leader' = LeaderFor(options, terminals)'
  BY <1>2 DEF LeaderFor, WantsNested
<1>5. LeaderOK'
  BY <1>2, <1>4 DEF LeaderOK, PrefixFor, OnLeader
<1> QED
  BY <1>3, <1>5

LEMMA SwitchStep ==
  ASSUME KeymapOK, LeaderOK, SwitchClients,
         UNCHANGED <<chords, nestedEnv, enhanced, options, keyTable>>
  PROVE  KeymapOK' /\ LeaderOK'
<1>1. keyTable' \in Tables /\ enhanced' \in BOOLEAN /\ terminals' = {}
      /\ "nestedKeys" \in DOMAIN options'
  BY DEF KeymapOK, SwitchClients
<1>2. CASE terminals = {}
  <2>1. message' = TRUE /\ UNCHANGED <<tables, leader, prefixes, terminals>>
    BY <1>2 DEF SwitchClients
  <2> QED
    BY <1>1, <2>1, KeymapSame, LeaderSame
<1>3. CASE terminals # {}
  <2>1. RefreshNesting(options', terminals')
    BY <1>3 DEF SwitchClients
  <2> QED
    BY <1>1, <2>1, LeaderAnew
<1> QED
  BY <1>2, <1>3

LEMMA PickerStep ==
  ASSUME KeyboardInv, NEW key \in AllKeys, PickerTakes(key)
  PROVE  KeyboardInv'
<1> USE DEF KeyboardInv
<1> DEFINE p == PickerAfter(picker, key)
           jump == key.code = "Enter" /\ HasSelection(picker)
           row == Selection(picker)
<1>1. /\ Press /\ TakesKeys(picker) /\ picker' = p
      /\ IF ~jump \/ (row.local /\ row.window = 0)
         THEN UNCHANGED <<window, terminals, tables, leader, prefixes, message>>
         ELSE IF row.local
         THEN window' = row.window /\ UNCHANGED <<terminals, tables, leader, prefixes, message>>
         ELSE SwitchClients /\ UNCHANGED window
      /\ UNCHANGED <<keyTable, epoch, asked, prompt, sent, chords>>
  BY DEF PickerTakes
<1>2. UNCHANGED <<nestedEnv, options, enhanced>>
  BY <1>1 DEF Press
<1>3. PickerOK(picker)
  BY <1>1 DEF RowsOK, TakesKeys
<1>4. PickerOK(picker') /\ picker'.rows = picker.rows
  BY <1>1, <1>3, PickerAfterOK
<1>5. RowsOK'
  BY <1>1, <1>4 DEF RowsOK, TakesKeys
<1>6. PromptOK'
  BY <1>1 DEF PromptOK
<1> HIDE DEF p, jump, row
<1>7. CASE UNCHANGED <<terminals, tables, leader, prefixes, message>>
  <2>1. keyTable' \in Tables /\ message' \in BOOLEAN /\ enhanced' \in BOOLEAN
    BY <1>1, <1>2, <1>7 DEF KeymapOK
  <2> QED
    BY <1>1, <1>2, <1>5, <1>6, <1>7, <2>1, KeymapSame, LeaderSame
<1>8. CASE SwitchClients
  BY <1>1, <1>2, <1>5, <1>6, <1>8, SwitchStep
<1> QED
  BY <1>1, <1>7, <1>8

LEMMA PromptStep ==
  ASSUME KeyboardInv, NEW key \in AllKeys, PromptTakes(key)
  PROVE  KeyboardInv'
<1> USE DEF KeyboardInv
<1> DEFINE line == Edited([text |-> prompt.text, cursor |-> prompt.cursor], key)
<1>1. /\ Press /\ ~TakesKeys(picker) /\ prompt # NoPrompt
      /\ UNCHANGED <<tables, leader, prefixes, keyTable, terminals, window, sent, chords>>
      /\ UNCHANGED <<nestedEnv, options, enhanced>>
  BY DEF PromptTakes, Press
<1>2. \/ prompt' = NoPrompt /\ UNCHANGED <<picker, epoch, asked>> /\ message' \in {message, TRUE}
      \/ /\ prompt' = [prompt EXCEPT !.text = line.text, !.cursor = line.cursor]
         /\ UNCHANGED <<picker, epoch, asked, message>>
      \/ \E command \in Commands : Run(command, NoPrompt) /\ UNCHANGED message
  <2>1. "split" \in Commands
    BY DEF Commands
  <2> HIDE DEF line
  <2> QED
    BY <2>1 DEF PromptTakes, line
<1>3. message' \in BOOLEAN /\ keyTable' \in Tables /\ enhanced' \in BOOLEAN
  BY <1>1, <1>2 DEF KeymapOK
<1>4. KeymapOK' /\ LeaderOK'
  BY <1>1, <1>3, KeymapSame, LeaderSame
<1>5. CASE prompt' = NoPrompt /\ UNCHANGED <<picker, epoch, asked>>
  BY <1>4, <1>5 DEF PromptOK, RowsOK, TakesKeys
<1>6. CASE /\ prompt' = [prompt EXCEPT !.text = line.text, !.cursor = line.cursor]
           /\ UNCHANGED <<picker, epoch, asked, message>>
  <2>1. prompt \in PromptShape /\ prompt.cursor <= Len(prompt.text)
    BY <1>1 DEF PromptOK
  <2>2. [text |-> prompt.text, cursor |-> prompt.cursor] \in Lines
    BY <2>1 DEF PromptShape, Lines
  <2>3. line \in Lines
    BY <2>2, EditedType
  <2> HIDE DEF line
  <2>4. line.text \in Seq(Characters) /\ line.cursor \in Nat /\ line.cursor <= Len(line.text)
    BY <2>3 DEF Lines
  <2>5. prompt' \in PromptShape /\ prompt'.cursor = line.cursor /\ prompt'.text = line.text
    BY <1>6, <2>1, <2>4 DEF PromptShape
  <2> QED
    BY <1>4, <1>6, <2>4, <2>5 DEF PromptOK, RowsOK, TakesKeys
<1>7. CASE \E command \in Commands : Run(command, NoPrompt)
  <2>1. PICK command \in Commands : Run(command, NoPrompt)
    BY <1>7
  <2>2. NoPrompt \in {prompt, NoPrompt}
    OBVIOUS
  <2> QED
    BY <1>4, <2>1, <2>2, RunOK
<1> QED
  BY <1>2, <1>5, <1>6, <1>7

LEMMA PrefixStep ==
  ASSUME KeyboardInv, NEW key \in AllKeys, PrefixTakes(key) \/ RunsChord(key)
  PROVE  KeyboardInv'
<1> USE DEF KeyboardInv
<1>1. /\ UNCHANGED <<tables, leader, prefixes, terminals, message, chords>>
      /\ UNCHANGED <<nestedEnv, options, enhanced>>
  BY DEF PrefixTakes, RunsChord, Press
<1>2. keyTable' \in Tables
  BY DEF PrefixTakes, RunsChord, Tables, KeymapOK
<1>3. KeymapOK' /\ LeaderOK'
  <2>1. message' \in BOOLEAN /\ enhanced' \in BOOLEAN
    BY <1>1 DEF KeymapOK
  <2> QED
    BY <1>1, <1>2, <2>1, KeymapSame, LeaderSame
<1>4. \A t \in Tables, k \in AllKeys : k \in DOMAIN tables[t] => tables[t][k].command \in Commands
  <2> SUFFICES ASSUME NEW t \in Tables, NEW k \in AllKeys, k \in DOMAIN tables[t]
               PROVE  tables[t][k].command \in Commands
    OBVIOUS
  <2>1. tables[t] \in TableType
    BY DEF KeymapOK
  <2>2. tables[t][k] \in Binding
    BY <2>1, TableIs
  <2> QED
    BY <2>2 DEF Binding
<1>5. UNCHANGED overlays \/ \E command \in Commands : Run(command, NoPrompt)
  <2>1. "root" \in Tables /\ "prefix" \in Tables
    BY DEF Tables
  <2> QED
    BY <1>4, <2>1 DEF PrefixTakes, RunsChord
<1>6. CASE \E command \in Commands : Run(command, NoPrompt)
  <2>1. PICK command \in Commands : Run(command, NoPrompt)
    BY <1>6
  <2>2. NoPrompt \in {prompt, NoPrompt}
    OBVIOUS
  <2> QED
    BY <1>3, <2>1, <2>2, RunOK
<1> QED
  BY <1>3, <1>5, <1>6, OverlaysSame

\* Steps that leave the tables and the overlays alone.
LEMMA QuietStep ==
  ASSUME KeyboardInv,
         (\E key \in AllKeys : ArmsPrefix(key) \/ ReachesPane(key))
           \/ (\E name : SendKeys(name)) \/ Negotiate \/ UNCHANGED vars
  PROVE  KeyboardInv'
<1> USE DEF KeyboardInv
<1>1. /\ UNCHANGED <<tables, leader, prefixes, options, chords, terminals, nestedEnv>>
      /\ UNCHANGED overlays /\ UNCHANGED message /\ keyTable' \in {keyTable, "prefix"}
      /\ enhanced' \in {enhanced, ~enhanced}
  BY DEF ArmsPrefix, ReachesPane, SendKeys, Negotiate, vars, keymap, overlays, Press, Request
<1>2. message' \in BOOLEAN /\ keyTable' \in Tables /\ enhanced' \in BOOLEAN
  BY <1>1 DEF KeymapOK, Tables
<1> QED
  BY <1>1, <1>2, KeymapSame, LeaderSame, OverlaysSame

LEMMA CommandStep ==
  ASSUME KeyboardInv, NEW command \in Commands, RunCommand(command)
  PROVE  KeyboardInv'
<1> USE DEF KeyboardInv
<1>1. /\ UNCHANGED <<tables, leader, prefixes, options, chords, terminals, nestedEnv>>
      /\ UNCHANGED <<message, keyTable, enhanced>> /\ Run(command, prompt)
  BY DEF RunCommand, Request, keymap
<1>2. message' \in BOOLEAN /\ keyTable' \in Tables /\ enhanced' \in BOOLEAN
  BY <1>1 DEF KeymapOK
<1>3. prompt \in {prompt, NoPrompt}
  OBVIOUS
<1> QED
  BY <1>1, <1>2, <1>3, KeymapSame, LeaderSame, RunOK

\* Keys of other codes are bound as they were.
Spares(old, table, codes) ==
  \A key \in AllKeys : key.code \notin codes =>
    /\ key \in DOMAIN table <=> key \in DOMAIN old
    /\ key \in DOMAIN table => table[key] = old[key]

\* Steps that change one table: the chords they touch are nobody's default any more.
LEMMA TableStep ==
  ASSUME KeyboardInv, NEW t \in Tables, NEW table \in TableType, NEW codes,
         tables' = [tables EXCEPT ![t] = table], Disowned(t, codes),
         Spares(tables[t], table, codes),
         UNCHANGED <<leader, prefixes, options, keyTable, terminals, nestedEnv, message, enhanced>>,
         UNCHANGED overlays
  PROVE  KeyboardInv'
<1> USE DEF KeyboardInv
<1>1. tables \in [Tables -> TableType] /\ "root" \in Tables /\ chords' \subseteq chords
  BY DEF KeymapOK, Tables, Disowned
<1>2. tables' \in [Tables -> TableType]
  BY <1>1
<1>3. KeymapOK'
  BY <1>1, <1>2 DEF KeymapOK
<1>4. leader' = LeaderFor(options, terminals)' /\ prefixes' = PrefixFor(options, leader)'
  BY DEF LeaderOK, LeaderFor, WantsNested, PrefixFor
<1>5. ASSUME NEW ch \in chords' PROVE OnLeader(ch, tables'["root"], leader)
  <2>1. OnLeader(ch, tables["root"], leader)
    BY <1>1 DEF LeaderOK
  <2>2. CASE t # "root"
    BY <1>1, <2>1, <2>2
  <2>3. CASE t = "root"
    <3>1. tables'["root"] = table /\ ch \notin codes
      BY <1>1, <2>3 DEF Disowned
    <3>2. \A ldr : Key(ch, ModifierSet(ldr)).code = ch
      BY DEF Key
    <3>3. \A ldr : Key(ch, ModifierSet(ldr)) \in AllKeys
      <4>1. ch \in Codes
        BY <1>1, KeyboardAssumption DEF KeymapOK, DefaultChords, Codes
      <4>2. \A ldr : ModifierSet(ldr) \in SUBSET Modifiers
        BY DEF ModifierSet, Modifiers
      <4> QED
        BY <4>1, <4>2, KeyIs
    <3>4. \A ldr : LET key == Key(ch, ModifierSet(ldr))
                   IN /\ key \in DOMAIN table <=> key \in DOMAIN tables["root"]
                      /\ key \in DOMAIN table => table[key] = tables["root"][key]
      BY <2>3, <3>1, <3>2, <3>3 DEF Spares
    <3> QED
      BY <2>1, <3>1, <3>4 DEF OnLeader
  <2> QED
    BY <2>2, <2>3
<1>6. LeaderOK'
  BY <1>4, <1>5 DEF LeaderOK
<1> QED
  BY <1>3, <1>6, OverlaysSame

LEMMA BindStep ==
  ASSUME KeyboardInv, NEW t \in Tables, NEW name, NEW command \in Commands,
         NEW repeat \in BOOLEAN, BindKey(t, name, command, repeat)
  PROVE  KeyboardInv'
<1> DEFINE key == ParseBindingKey(name)
           binding == [command |-> command, repeat |-> repeat]
           table == [k \in DOMAIN tables[t] \cup {key} |->
                       IF k = key THEN binding ELSE tables[t][k]]
<1>1. key \in AllKeys /\ binding \in Binding
  BY ParseBindingKeyType DEF BindKey, Binding
<1>2. tables[t] \in TableType /\ tables \in [Tables -> TableType]
  BY DEF KeyboardInv, KeymapOK
<1>3. /\ tables' = [tables EXCEPT ![t] = table] /\ Disowned(t, {key.code})
      /\ UNCHANGED <<leader, prefixes, options, keyTable, terminals, nestedEnv, message, enhanced>>
      /\ UNCHANGED overlays
  BY <1>2 DEF BindKey, Request
<1> HIDE DEF key, binding
<1>4. table \in TableType
  <2>1. DOMAIN tables[t] \subseteq AllKeys /\ \A k \in DOMAIN tables[t] : tables[t][k] \in Binding
    BY <1>2, TableIs
  <2>2. DOMAIN table \subseteq AllKeys /\ \A k \in DOMAIN table : table[k] \in Binding
    BY <1>1, <2>1
  <2>3. table = [k \in DOMAIN table |-> table[k]]
    OBVIOUS
  <2> HIDE DEF table
  <2> QED
    BY <2>2, <2>3, TableIs
<1>5. Spares(tables[t], table, {key.code})
  BY DEF Spares
<1> HIDE DEF table
<1> QED
  BY <1>3, <1>4, <1>5, TableStep

LEMMA UnbindStep ==
  ASSUME KeyboardInv, NEW t \in Tables, NEW gone, Unbind(t, gone), UNCHANGED nestedEnv
  PROVE  KeyboardInv'
<1> DEFINE table == [k \in DOMAIN tables[t] \ gone |-> tables[t][k]]
           codes == {k.code : k \in gone}
<1>1. tables[t] \in TableType /\ tables \in [Tables -> TableType]
  BY DEF KeyboardInv, KeymapOK
<1>2. /\ tables' = [tables EXCEPT ![t] = table] /\ Disowned(t, codes)
      /\ UNCHANGED <<leader, prefixes, options, keyTable, terminals, nestedEnv, message, enhanced>>
      /\ UNCHANGED overlays
  BY <1>1 DEF Unbind
<1>3. table \in TableType
  <2>1. DOMAIN tables[t] \subseteq AllKeys /\ \A k \in DOMAIN tables[t] : tables[t][k] \in Binding
    BY <1>1, TableIs
  <2>2. DOMAIN table \subseteq AllKeys /\ \A k \in DOMAIN table : table[k] \in Binding
    BY <2>1
  <2>3. table = [k \in DOMAIN table |-> table[k]]
    OBVIOUS
  <2> HIDE DEF table
  <2> QED
    BY <2>2, <2>3, TableIs
<1>4. Spares(tables[t], table, codes)
  BY DEF Spares
<1> HIDE DEF table, codes
<1> QED
  BY <1>2, <1>3, <1>4, TableStep

LEMMA OptionStep ==
  ASSUME KeyboardInv,
         \/ \E option \in {"prefix", "prefix2", "nestedPrefix"}, name \in PrefixNames :
                SetPrefix(option, name)
         \/ \E value \in {"auto", "on", "off"} : SetNestedKeys(value)
  PROVE  KeyboardInv'
<1> USE DEF KeyboardInv
<1>1. CASE \E option \in {"prefix", "prefix2", "nestedPrefix"}, name \in PrefixNames :
           SetPrefix(option, name)
  <2>1. PICK option \in {"prefix", "prefix2", "nestedPrefix"}, name \in PrefixNames :
             SetPrefix(option, name)
    BY <1>1
  <2>2. /\ options' = [options EXCEPT ![option] = name]
        /\ prefixes' = PrefixFor(options', leader)
        /\ UNCHANGED <<tables, leader, keyTable, terminals, nestedEnv, message, enhanced, chords>>
        /\ UNCHANGED overlays
    BY <2>1 DEF SetPrefix, Request
  <2>3. options'.nestedKeys = options.nestedKeys /\ "nestedKeys" \in DOMAIN options'
    BY <2>2 DEF KeymapOK
  <2>4. KeymapOK'
    BY <2>2, <2>3, PrefixForType DEF KeymapOK
  <2>5. leader' = LeaderFor(options, terminals)'
    BY <2>2, <2>3 DEF LeaderOK, LeaderFor, WantsNested
  <2>6. LeaderOK'
    BY <2>2, <2>5 DEF LeaderOK, PrefixFor, OnLeader
  <2> QED
    BY <2>2, <2>4, <2>6, OverlaysSame
<1>2. CASE \E value \in {"auto", "on", "off"} : SetNestedKeys(value)
  <2>1. PICK value \in {"auto", "on", "off"} : SetNestedKeys(value)
    BY <1>2
  <2>2. /\ options' = [options EXCEPT !.nestedKeys = value]
        /\ RefreshNesting(options', terminals')
        /\ UNCHANGED <<keyTable, terminals, enhanced, chords, nestedEnv>> /\ UNCHANGED overlays
    BY <2>1 DEF SetNestedKeys, Request
  <2>3. /\ "nestedKeys" \in DOMAIN options' /\ terminals' \subseteq Terminals
        /\ keyTable' \in Tables
    BY <2>2 DEF KeymapOK
  <2> QED
    BY <2>2, <2>3, LeaderAnew, OverlaysSame
<1> QED
  BY <1>1, <1>2

LEMMA TerminalStep ==
  ASSUME KeyboardInv, NEW t \in Terminals, Attach(t) \/ Leave(t)
  PROVE  KeyboardInv'
<1> USE DEF KeyboardInv
<1>1. /\ RefreshNesting(options', terminals')
      /\ UNCHANGED <<keyTable, enhanced, chords, nestedEnv, options>> /\ UNCHANGED overlays
  BY DEF Attach, Leave, Request
<1>2. terminals' \subseteq Terminals /\ "nestedKeys" \in DOMAIN options' /\ keyTable' \in Tables
  BY <1>1 DEF Attach, Leave, KeymapOK
<1> QED
  BY <1>1, <1>2, LeaderAnew, OverlaysSame

LEMMA TickStep ==
  ASSUME KeyboardInv, Tick
  PROVE  KeyboardInv'
<1> USE DEF KeyboardInv
<1>1. /\ UNCHANGED <<tables, leader, prefixes, options, chords, terminals, nestedEnv>>
      /\ UNCHANGED <<keyTable, enhanced, epoch, asked, prompt>> /\ message' \in {FALSE, message}
  BY DEF Tick, keymap
<1>2. message' \in BOOLEAN /\ keyTable' \in Tables /\ enhanced' \in BOOLEAN
  BY <1>1 DEF KeymapOK
<1>3. picker' = IF picker = NoPicker \/ ~picker.closing THEN picker
                ELSE IF picker.left = 1 THEN NoPicker ELSE [picker EXCEPT !.left = @ - 1]
  BY DEF Tick
<1>4. ASSUME picker' = picker \/ picker' = NoPicker PROVE RowsOK'
  <2>1. CASE picker' = picker
    BY <1>1, <2>1 DEF RowsOK, TakesKeys
  <2>2. CASE picker' = NoPicker
    BY <1>1, <2>2 DEF RowsOK, TakesKeys
  <2> QED
    BY <1>4, <2>1, <2>2
<1>5. ASSUME picker # NoPicker, picker.closing, picker.left # 1,
             picker' = [picker EXCEPT !.left = @ - 1]
      PROVE  RowsOK'
  <2>1. PickerOK(picker)
    BY <1>5 DEF RowsOK
  <2> DEFINE p == [picker EXCEPT !.left = @ - 1]
  <2>2. picker \in PickerShape /\ picker.left - 1 \in Nat /\ picker.left - 1 > 0
    BY <1>5, <2>1 DEF PickerOK, PickerSound, PickerShape
  <2>3. /\ p \in PickerShape /\ p.selected = picker.selected /\ p.rows = picker.rows
        /\ p.query = picker.query /\ p.cursor = picker.cursor /\ p.shown = picker.shown
        /\ p.closing = picker.closing /\ p.left = picker.left - 1
    BY <2>2 DEF PickerShape
  <2>4. picker' = p
    BY <1>5
  <2> HIDE DEF p
  <2>5. PickerOK(p) /\ p.closing
    BY <1>5, <2>1, <2>2, <2>3 DEF PickerOK, PickerSound, HasSelection
  <2> QED
    BY <1>1, <2>4, <2>5 DEF RowsOK, TakesKeys
<1>6. RowsOK'
  BY <1>3, <1>4, <1>5
<1>7. PromptOK'
  BY <1>1 DEF PromptOK
<1> QED
  BY <1>1, <1>2, <1>6, <1>7, KeymapSame, LeaderSame

LEMMA AnswerStep ==
  ASSUME KeyboardInv, PeerAnswers
  PROVE  KeyboardInv'
<1> USE DEF KeyboardInv
<1>1. PICK task \in asked, reached \in BOOLEAN :
        /\ asked' = asked \ {task}
        /\ picker' = IF task.epoch = epoch /\ TakesKeys(picker)
                     THEN Extended(picker, PeerPickerRows(task.session, reached)) ELSE picker
        /\ UNCHANGED <<keymap, keyTable, terminals, nestedEnv, window, epoch, prompt, message,
                       enhanced, sent, keys, requests>>
  BY DEF PeerAnswers
<1>2. KeymapOK' /\ LeaderOK' /\ PromptOK'
  <2>1. /\ UNCHANGED <<tables, leader, prefixes, options, chords, terminals, nestedEnv>>
        /\ UNCHANGED <<keyTable, message, enhanced, prompt>>
    BY <1>1 DEF keymap
  <2>2. message' \in BOOLEAN /\ keyTable' \in Tables /\ enhanced' \in BOOLEAN
    BY <2>1 DEF KeymapOK
  <2> QED
    BY <2>1, <2>2, KeymapSame, LeaderSame DEF PromptOK
<1>3. /\ epoch' = epoch /\ asked' \subseteq asked /\ epoch \in Nat /\ asked \subseteq Asked
      /\ \A other \in asked : other.epoch <= epoch
  BY <1>1 DEF RowsOK
<1>4. CASE ~(task.epoch = epoch /\ TakesKeys(picker))
  <2>1. picker' = picker
    BY <1>1, <1>4
  <2>2. ASSUME TakesKeys(picker) PROVE Missing(picker.rows, asked', epoch)
    BY <1>3, <2>2 DEF RowsOK, Missing
  <2> QED
    BY <1>2, <1>3, <2>1, <2>2 DEF RowsOK, TakesKeys
<1>5. CASE task.epoch = epoch /\ TakesKeys(picker)
  <2> DEFINE s == task.session
             more == PeerPickerRows(s, reached)
             all == picker.rows \o more
  <2>1. task \in Asked /\ s \in Peers /\ s \in Nat
    BY <1>1, <1>3, KeyboardAssumption DEF Asked
  <2>2. OwnRows(more, s) /\ more \in Seq(PickerRow)
    BY <2>1, PeerRows DEF OwnRows
  <2>3. PickerOK(picker) /\ Distinct(picker.rows) /\ Missing(picker.rows, asked, epoch)
    BY <1>5 DEF RowsOK, TakesKeys
  <2>4. picker.rows \in Seq(PickerRow)
    BY <2>3 DEF PickerOK, PickerShape
  <2>5. picker' = Extended(picker, more)
    BY <1>1, <1>5
  <2> HIDE DEF more, s
  <2>6. PickerOK(picker') /\ picker'.rows = all
    BY <2>2, <2>3, <2>5, ExtendedOK
  <2>7. /\ Len(picker.rows) \in Nat /\ Len(more) \in Nat
        /\ DOMAIN all = 1 .. Len(picker.rows) + Len(more)
        /\ \A i \in DOMAIN all :
             \/ i \in DOMAIN picker.rows /\ all[i] = picker.rows[i]
             \/ i - Len(picker.rows) \in DOMAIN more /\ all[i] = more[i - Len(picker.rows)]
    BY <2>2, <2>4, ConcatProperties
  <2> HIDE DEF all
  <2>8. \A i \in DOMAIN picker.rows : picker.rows[i].session # s
    BY <1>1, <1>5, <2>3 DEF Missing, s
  <2>9. \A i \in DOMAIN more : more[i].session = s /\ more[i].window = i - 1
    BY <2>2 DEF OwnRows
  <2>10. Distinct(all)
    <3> SUFFICES ASSUME NEW i \in DOMAIN all, NEW j \in DOMAIN all,
                        all[i].session = all[j].session, all[i].window = all[j].window
                 PROVE  i = j
      BY DEF Distinct
    <3>1. i \in Nat /\ j \in Nat
      BY <2>7
    <3>2. CASE all[i].session = s
      <4>1. /\ i - Len(picker.rows) \in DOMAIN more /\ all[i] = more[i - Len(picker.rows)]
            /\ j - Len(picker.rows) \in DOMAIN more /\ all[j] = more[j - Len(picker.rows)]
        BY <2>7, <2>8, <3>2
      <4>2. i - Len(picker.rows) - 1 = j - Len(picker.rows) - 1
        BY <2>9, <4>1
      <4> QED
        BY <2>7, <3>1, <4>2
    <3>3. CASE all[i].session # s
      <4>1. i \in DOMAIN picker.rows /\ j \in DOMAIN picker.rows
            /\ all[i] = picker.rows[i] /\ all[j] = picker.rows[j]
        BY <2>7, <2>9, <3>3
      <4> QED
        BY <2>3, <4>1 DEF Distinct
    <3> QED
      BY <3>2, <3>3
  <2>11. Missing(all, asked', epoch)
    <3> SUFFICES ASSUME NEW other \in asked', other.epoch = epoch, NEW i \in DOMAIN all
                 PROVE  all[i].session # other.session
      BY DEF Missing
    <3>1. other \in asked /\ other # task /\ other \in Asked
      BY <1>1, <1>3
    <3>2. other.session # s
      BY <1>5, <2>1, <3>1 DEF Asked, s
    <3>3. \A k \in DOMAIN picker.rows : picker.rows[k].session # other.session
      BY <2>3, <3>1 DEF Missing
    <3> QED
      BY <2>7, <2>9, <3>2, <3>3
  <2>12. RowsOK'
    BY <1>3, <2>6, <2>10, <2>11 DEF RowsOK
  <2> QED
    BY <1>2, <2>12
<1> QED
  BY <1>4, <1>5

LEMMA StepOK ==
  ASSUME KeyboardInv, [Next]_vars
  PROVE  KeyboardInv'
<1>1. PressKeys \subseteq AllKeys
  BY KeyboardAssumption
<1>2. CASE \E key \in PressKeys :
             PickerTakes(key) \/ PromptTakes(key) \/ PrefixTakes(key) \/ ArmsPrefix(key)
               \/ RunsChord(key) \/ ReachesPane(key)
  BY <1>1, <1>2, PickerStep, PromptStep, PrefixStep, QuietStep
<1>3. CASE \E command \in Commands : RunCommand(command)
  BY <1>3, CommandStep
<1>4. CASE (\E name \in SentNames : SendKeys(name)) \/ Negotiate \/ UNCHANGED vars
  BY <1>4, QuietStep
<1>5. CASE \E t \in Tables, name \in BindNames, command \in {"split"}, repeat \in BOOLEAN :
             BindKey(t, name, command, repeat)
  <2>1. "split" \in Commands
    BY DEF Commands
  <2> QED
    BY <1>5, <2>1, BindStep
<1>6. CASE \/ \E t \in Tables, name \in BindNames : UnbindKey(t, name)
           \/ \E t \in Tables : UnbindAll(t)
  <2>1. PICK t \in Tables : \E gone : Unbind(t, gone) /\ UNCHANGED nestedEnv
    BY <1>6 DEF UnbindKey, UnbindAll, Request
  <2> QED
    BY <2>1, UnbindStep
<1>7. CASE \/ \E option \in {"prefix", "prefix2", "nestedPrefix"}, name \in PrefixNames :
                SetPrefix(option, name)
           \/ \E value \in {"auto", "on", "off"} : SetNestedKeys(value)
  BY <1>7, OptionStep
<1>8. CASE \E t \in Terminals : Attach(t) \/ Leave(t)
  BY <1>8, TerminalStep
<1>9. CASE PeerAnswers
  BY <1>9, AnswerStep
<1>10. CASE Tick
  BY <1>10, TickStep
<1> QED
  BY <1>2, <1>3, <1>4, <1>5, <1>6, <1>7, <1>8, <1>9, <1>10 DEF Next

LEMMA Invariance == Spec => []KeyboardInv
<1>1. Init => KeyboardInv
  BY InitOK
<1>2. KeyboardInv /\ [Next]_vars => KeyboardInv'
  BY StepOK
<1> QED
  BY <1>1, <1>2, PTL DEF Spec

-----------------------------------------------------------------------------
(* What follows.                                                           *)

\* The state has its type: cursors stay within their lines, and the selection
\* within the rows that are shown, whatever is typed and whenever rows turn up.
THEOREM TypeCorrect == Spec => []TypeOK
<1>1. KeyboardInv => TypeOK
  <2> SUFFICES ASSUME KeyboardInv PROVE TypeOK
    OBVIOUS
  <2>1. ASSUME NEW t \in Tables
        PROVE  DOMAIN tables[t] \subseteq AllKeys /\ Range(tables[t]) \subseteq Binding
    <3>1. tables[t] \in TableType
      BY DEF KeyboardInv, KeymapOK
    <3> QED
      BY <3>1, TableIs DEF Range
  <2>2. picker # NoPicker => /\ picker.cursor \in 0 .. Len(picker.query)
                             /\ HasSelection(picker) \/ (picker.selected = 1 /\ picker.shown = <<>>)
                             /\ picker.closing <=> picker.left > 0
    <3> SUFFICES ASSUME PickerOK(picker)
                 PROVE  /\ picker.cursor \in 0 .. Len(picker.query)
                        /\ HasSelection(picker) \/ (picker.selected = 1 /\ picker.shown = <<>>)
                        /\ picker.closing <=> picker.left > 0
      BY DEF KeyboardInv, RowsOK
    <3>1. picker.cursor \in Nat /\ picker.query \in Seq(Characters)
          /\ picker.cursor <= Len(picker.query)
      BY DEF PickerOK, PickerSound, PickerShape
    <3> QED
      BY <3>1 DEF PickerOK, PickerSound
  <2>3. prompt # NoPrompt => prompt.cursor \in 0 .. Len(prompt.text)
    BY DEF KeyboardInv, PromptOK, PromptShape
  <2> QED
    BY <2>1, <2>2, <2>3 DEF KeyboardInv, KeymapOK, TypeOK
<1> QED
  BY <1>1, Invariance, PTL

\* Wherever the leader has gone, back and forth, through whatever was bound and
\* unbound in the meantime, it and the prefix are those that the options and the
\* terminals call for, and the chords nobody rebound are on it and nowhere else.
THEOREM ChordsAlwaysReachable == Spec => []ChordsReachable
<1>1. KeyboardInv => ChordsReachable
  <2> SUFFICES ASSUME KeyboardInv PROVE ChordsReachable
    OBVIOUS
  <2>1. ASSUME NEW ch \in chords
        PROVE  LET key == Key(ch, ModifierSet(leader))
               IN /\ key \in DOMAIN tables["root"]
                  /\ tables["root"][key] = Once(DefaultChords[ch])
                  /\ leader = "CtrlAlt" => Key(ch, {Alt}) \notin DOMAIN tables["root"]
    <3>1. OnLeader(ch, tables["root"], leader)
      BY DEF KeyboardInv, LeaderOK
    <3>2. leader = "CtrlAlt" => "Alt" \in Leaders \ {leader} /\ ModifierSet("Alt") = {Alt}
      BY DEF Leaders, ModifierSet
    <3> QED
      BY <3>1, <3>2 DEF OnLeader
  <2> QED
    BY <2>1 DEF KeyboardInv, LeaderOK, ChordsReachable
<1> QED
  BY <1>1, Invariance, PTL

\* The picker that takes keys shows the rows of its own opening, each once, those
\* that match and no others, and ranks them by the best way to find the query in
\* them, for any labels and any query: not by the first way, or a greedy one.
THEOREM PickerAlwaysBest == Spec => []PickerShowsBest
<1>1. KeyboardInv => PickerShowsBest
  <2> SUFFICES ASSUME KeyboardInv, TakesKeys(picker) PROVE PickerShowsBest
    BY DEF PickerShowsBest
  <2> DEFINE rows == picker.rows
             query == picker.query
             shown == picker.shown
  <2>1. PickerOK(picker) /\ Distinct(rows)
    BY DEF KeyboardInv, RowsOK, TakesKeys
  <2>2. rows \in Seq(PickerRow) /\ query \in Seq(Characters) /\ shown = Ranked(rows, query)
    BY <2>1 DEF PickerOK, PickerShape
  <2> HIDE DEF rows, query, shown
  <2>3. RankedRight(rows, query, shown)
    BY <2>2, RankedIs
  <2>4. IsInjective(rows)
    BY <2>1 DEF Distinct, IsInjective
  <2>5. \A i \in DOMAIN rows : FindsBest(query, rows[i].label)
    <3>1. \A i \in DOMAIN rows : rows[i].label \in Texts
      <4>1. \A i \in DOMAIN rows : rows[i] \in PickerRow
        BY <2>2
      <4> QED
        BY <4>1 DEF PickerRow
    <3> QED
      BY <2>2, <3>1, LabelScored
  <2>6. IsInjective(shown)
    BY <2>3 DEF RankedRight, IsInjective
  <2>7. Found(rows, query) = {i \in DOMAIN rows : BestScores(query, rows[i].label) # {}}
    BY <2>5 DEF Found, FindsBest
  <2>8. Range(shown) = Found(rows, query)
    BY <2>3 DEF RankedRight, Range
  <2>9. \A i, j \in DOMAIN shown :
          i < j => Score(query, rows[shown[i]].label) >= Score(query, rows[shown[j]].label)
    BY <2>3 DEF RankedRight
  <2> QED
    BY <2>4, <2>5, <2>6, <2>7, <2>8, <2>9 DEF PickerShowsBest, rows, query, shown
<1> QED
  BY <1>1, Invariance, PTL

\* What a step may do to the rows of a picker that goes on taking keys.
LEMMA RowsMove ==
  ASSUME KeyboardInv, [Next]_vars, TakesKeys(picker), epoch' = epoch
  PROVE  picker'.rows = picker.rows
           \/ \E rows \in Seq(PickerRow) : picker' = Extended(picker, rows)
<1>0. PickerOK(picker) /\ RowsOK /\ PromptOK
  BY DEF KeyboardInv, RowsOK, TakesKeys
<1>1. CASE \E key \in PressKeys : PickerTakes(key)
  <2>1. PICK key \in PressKeys : PickerTakes(key)
    BY <1>1
  <2>2. key \in AllKeys /\ picker' = PickerAfter(picker, key)
    BY <2>1, KeyboardAssumption DEF PickerTakes
  <2> QED
    BY <1>0, <2>2, PickerAfterOK
<1>2. CASE \E command \in Commands : RunCommand(command)
  <2>1. PICK command \in Commands : RunCommand(command)
    BY <1>2
  <2>2. Run(command, prompt) /\ prompt \in {prompt, NoPrompt}
    BY <2>1 DEF RunCommand
  <2>3. epoch' # epoch \/ picker' = picker
    BY <1>0, <2>2, RunOK
  <2> QED
    BY <2>3
<1>3. CASE PeerAnswers
  <2>1. PICK task \in asked, reached \in BOOLEAN :
          picker' = IF task.epoch = epoch /\ TakesKeys(picker)
                    THEN Extended(picker, PeerPickerRows(task.session, reached)) ELSE picker
    BY <1>3 DEF PeerAnswers
  <2>2. task.session \in Peers
    BY <1>0 DEF RowsOK, Asked
  <2>3. PeerPickerRows(task.session, reached) \in Seq(PickerRow)
    BY <2>2, PeerRows DEF OwnRows
  <2> QED
    BY <2>1, <2>3
<1>4. CASE UNCHANGED picker
  BY <1>4
<1>5. \/ UNCHANGED picker \/ PeerAnswers
      \/ \E key \in PressKeys : PickerTakes(key)
      \/ \E command \in Commands : RunCommand(command)
  <2>1. ASSUME NEW key \in PressKeys,
               PromptTakes(key) \/ PrefixTakes(key) \/ ArmsPrefix(key) \/ RunsChord(key)
                 \/ ReachesPane(key)
        PROVE  UNCHANGED picker
    <3>1. ~TakesKeys(picker)
      BY <2>1 DEF PromptTakes, PrefixTakes, ArmsPrefix, RunsChord, ReachesPane, Free
    <3> QED
      BY <3>1
  <2>2. ASSUME Tick PROVE UNCHANGED picker
    BY <2>2 DEF Tick, TakesKeys
  <2>3. ASSUME NEW t \in Tables, NEW name, UnbindKey(t, name) \/ UnbindAll(t)
        PROVE  UNCHANGED picker
    BY <2>3 DEF UnbindKey, UnbindAll, Unbind, overlays
  <2>4. ASSUME NEW t \in Tables, NEW name, NEW command, NEW repeat,
               BindKey(t, name, command, repeat)
        PROVE  UNCHANGED picker
    BY <2>4 DEF BindKey, overlays
  <2>5. ASSUME NEW a, NEW b, SendKeys(a) \/ SetPrefix(a, b) \/ SetNestedKeys(a) \/ Attach(a)
                               \/ Leave(a) \/ Negotiate
        PROVE  UNCHANGED picker
    BY <2>5 DEF SendKeys, SetPrefix, SetNestedKeys, Attach, Leave, Negotiate, overlays
  <2>6. ASSUME UNCHANGED vars PROVE UNCHANGED picker
    BY <2>6 DEF vars
  <2> QED
    BY <2>1, <2>2, <2>3, <2>4, <2>5, <2>6 DEF Next
<1> QED
  BY <1>1, <1>2, <1>3, <1>4, <1>5

\* Rows that turn up late leave the selection on its row, wherever the ranking
\* puts them and it.
THEOREM SelectionKept == Spec => PickerKeepsRow
<1> DEFINE Kept == TakesKeys(picker) /\ TakesKeys(picker') /\ epoch' = epoch
                     /\ picker'.rows # picker.rows /\ HasSelection(picker) =>
                   HasSelection(picker') /\ Selection(picker') = Selection(picker)
<1>1. KeyboardInv /\ [Next]_vars => Kept
  <2> SUFFICES ASSUME KeyboardInv, [Next]_vars, TakesKeys(picker), epoch' = epoch,
                      picker'.rows # picker.rows, HasSelection(picker)
               PROVE  HasSelection(picker') /\ Selection(picker') = Selection(picker)
    OBVIOUS
  <2>1. PICK rows \in Seq(PickerRow) : picker' = Extended(picker, rows)
    BY RowsMove
  <2>2. PickerOK(picker)
    BY DEF KeyboardInv, RowsOK, TakesKeys
  <2> QED
    BY <2>1, <2>2, ExtendedOK
<1> HIDE DEF Kept
<1>2. Spec => [][Kept]_vars
  BY <1>1, Invariance, PTL DEF Spec
<1> QED
  BY <1>2 DEF PickerKeepsRow, Kept

\* What the program reads is the key, but for what `Faithful` and `Confused`
\* say is lost, and nobody else has taken it: for every key there is, whether or
\* not it asked for unambiguous ones.
THEOREM KeysAlwaysArrive == Spec => KeysArrive
<1> DEFINE Arrives ==
      sent' # sent =>
        LET read == Read(sent'.bytes)
        IN /\ Faithful(sent'.key, read, enhanced) \/ (~enhanced /\ Confused(sent'.key, read))
           /\ UNCHANGED <<keyTable, picker, prompt>>
<1>1. KeyboardInv /\ [Next]_vars => Arrives
  <2> SUFFICES ASSUME KeyboardInv, [Next]_vars, sent' # sent
               PROVE  /\ Arrived(sent'.key, Read(sent'.bytes), enhanced)
                      /\ UNCHANGED <<keyTable, picker, prompt>>
    BY DEF Arrived
  <2>1. \/ \E key \in PressKeys : ReachesPane(key)
        \/ \E name \in SentNames : SendKeys(name)
    <3>1. ASSUME NEW key \in PressKeys,
                 PickerTakes(key) \/ PromptTakes(key) \/ PrefixTakes(key) \/ ArmsPrefix(key)
                   \/ RunsChord(key)
          PROVE  FALSE
      BY <3>1 DEF PickerTakes, PromptTakes, PrefixTakes, ArmsPrefix, RunsChord
    <3>2. ASSUME NEW t \in Tables, NEW name, UnbindKey(t, name) \/ UnbindAll(t)
          PROVE  FALSE
      BY <3>2 DEF UnbindKey, UnbindAll, Unbind
    <3>3. ASSUME NEW t \in Tables, NEW name, NEW command, NEW repeat,
                 BindKey(t, name, command, repeat)
          PROVE  FALSE
      BY <3>3 DEF BindKey
    <3>4. ASSUME NEW a, NEW b, RunCommand(a) \/ SetPrefix(a, b) \/ SetNestedKeys(a) \/ Attach(a)
                                 \/ Leave(a) \/ Negotiate \/ Tick
          PROVE  FALSE
      BY <3>4 DEF RunCommand, SetPrefix, SetNestedKeys, Attach, Leave, Negotiate, Tick
    <3>5. ASSUME PeerAnswers PROVE FALSE
      BY <3>5 DEF PeerAnswers
    <3>6. ASSUME UNCHANGED vars PROVE FALSE
      BY <3>6 DEF vars
    <3> QED
      BY <3>1, <3>2, <3>3, <3>4, <3>5, <3>6 DEF Next
  <2>2. PICK key \in AllKeys, by \in {"key", "send-keys"} :
               /\ Write(by, key, Encode(key, enhanced))
               /\ UNCHANGED <<keyTable, picker, prompt>>
    <3>1. ASSUME NEW key \in PressKeys, ReachesPane(key)
          PROVE  /\ key \in AllKeys /\ Write("key", key, Encode(key, enhanced))
                 /\ UNCHANGED <<keyTable, picker, prompt>>
      BY <3>1, KeyboardAssumption DEF ReachesPane, overlays
    <3>2. ASSUME NEW name \in SentNames, SendKeys(name)
          PROVE  /\ ParseKeyName(name) \in AllKeys
                 /\ Write("send-keys", ParseKeyName(name), Encode(ParseKeyName(name), enhanced))
                 /\ UNCHANGED <<keyTable, picker, prompt>>
      BY <3>2, ParseKeyNameType DEF SendKeys, overlays
    <3> QED
      BY <2>1, <3>1, <3>2
  <2>3. Encode(key, enhanced) # None
        /\ sent' = [by |-> by, key |-> key, bytes |-> Encode(key, enhanced)]
    BY <2>2 DEF Write
  <2>4. enhanced \in BOOLEAN
    BY DEF KeyboardInv, KeymapOK
  <2>5. sent'.key = key /\ sent'.bytes = Encode(key, enhanced)
    BY <2>3
  <2> QED
    BY <2>2, <2>3, <2>4, <2>5, EncodeRead
<1> HIDE DEF Arrives
<1>2. Spec => [][Arrives]_vars
  BY <1>1, Invariance, PTL DEF Spec
<1> QED
  BY <1>2 DEF KeysArrive, Arrives
=============================================================================
