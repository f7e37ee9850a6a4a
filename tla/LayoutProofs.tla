---------------------------- MODULE LayoutProofs ----------------------------
(***************************************************************************)
(* The properties of module Layout proved for any number of windows, panes *)
(* and commands, any tree that a session starts from and any terminal.     *)
(*                                                                         *)
(* A tree is taken apart by places, never by induction over trees: what is *)
(* proved of every place of a tree follows by infinite descent over the    *)
(* lengths of places, as the least place at which it would fail.  Two      *)
(* inductive invariants carry the theorems:                                *)
(*   TreesInv  every window's tree is one, with the panes it should have;  *)
(*   LandsInv  what is off the screen is still, and a window that is not   *)
(*             marked has its panes drawn, or moving, to where they belong *)
(*             once what is closing is gone.                               *)
(***************************************************************************)
EXTENDS Layout, FiniteSetTheorems, SequenceTheorems, WellFoundedInduction, TLAPS

-----------------------------------------------------------------------------
(* Geometry                                                                *)

LEMMA MaxTwo ==
  ASSUME NEW a \in Int, NEW b \in Int
  PROVE  Max({a, b}) = IF a >= b THEN a ELSE b
BY DEF Max

LEMMA MinTwo ==
  ASSUME NEW a \in Int, NEW b \in Int
  PROVE  Min({a, b}) = IF a <= b THEN a ELSE b
BY DEF Min

LEMMA RestIs ==
  ASSUME NEW e \in Int, NEW first \in Int
  PROVE  Rest(e, first) = IF e - first >= 1 THEN e - first ELSE 1
<1>1. Max({e - first, 1}) = IF e - first >= 1 THEN e - first ELSE 1
  BY MaxTwo
<1> QED
  BY <1>1 DEF Rest

LEMMA OverlapIs ==
  ASSUME NEW a \in Int, NEW b \in Int, NEW c \in Int, NEW d \in Int
  PROVE  /\ Overlap(a, b, c, d) \in Nat
         /\ Overlap(a, b, c, d) = 0 <=> b <= a \/ b <= c \/ d <= a \/ d <= c
<1>1. Min({b, d}) = IF b <= d THEN b ELSE d
  BY MinTwo
<1>2. Max({a, c}) = IF a >= c THEN a ELSE c
  BY MaxTwo
<1> DEFINE len == Min({b, d}) - Max({a, c})
<1>3. len \in Int
  BY <1>1, <1>2
<1> HIDE DEF len
<1>4. Max({0, len}) = IF 0 >= len THEN 0 ELSE len
  BY <1>3, MaxTwo
<1>5. Overlap(a, b, c, d) = IF 0 >= len THEN 0 ELSE len
  BY <1>4 DEF Overlap, len
<1> QED
  BY <1>1, <1>2, <1>3, <1>5 DEF len

\* Two intervals that meet at an end do not overlap.
LEMMA OverlapMeeting ==
  ASSUME NEW a \in Int, NEW b \in Int, NEW c \in Int
  PROVE  Overlap(a, b, b, c) = 0 /\ Overlap(b, c, a, b) = 0
BY OverlapIs

LEMMA SplitExtentIs ==
  ASSUME NEW e \in Nat, NEW ratio \in Int
  PROVE  /\ SplitExtent(e, ratio) \in Nat /\ SplitExtent(e, ratio) >= 1
         /\ e >= 2 => SplitExtent(e, ratio) <= e - 1
<1> DEFINE share == Clamp(0, ratio, Whole)
           cells == (2 * e * share + Whole) \div (2 * Whole)
<1>1. share \in Int
  BY DEF Clamp, Whole
<1>2. 2 * e * share \in Int
  BY <1>1
<1>3. cells \in Int
  BY <1>2 DEF Whole
<1>4. SplitExtent(e, ratio) = IF e <= 1 THEN 1 ELSE Clamp(1, cells, e - 1)
  BY DEF SplitExtent
<1> HIDE DEF cells
<1> QED
  BY <1>3, <1>4 DEF Clamp

\* The two halves of a rectangle that has two cells to divide tile it.
LEMMA HalvesTile ==
  ASSUME NEW r \in Rectangle, NEW split \in Axes, NEW ratio \in Int,
         r[3] > 0, r[4] > 0, ExtentOf(r, split) >= 2,
         NEW h, h = Halves(r, split, ratio)
  PROVE  /\ h[1] \in Rectangle /\ h[2] \in Rectangle
         /\ h[1][3] > 0 /\ h[1][4] > 0 /\ h[2][3] > 0 /\ h[2][4] > 0
         /\ Inside(h[1], r) /\ Inside(h[2], r) /\ Apart(h[1], h[2]) /\ Apart(h[2], h[1])
         /\ \A x, y \in Int : Holds(r, x, y) => Holds(h[1], x, y) \/ Holds(h[2], x, y)
<1>1. r = <<r[1], r[2], r[3], r[4]>> /\ r[1] \in Nat /\ r[2] \in Nat /\ r[3] \in Nat /\ r[4] \in Nat
  BY DEF Rectangle
<1>2. CASE split = Vertical
  <2> DEFINE w == SplitExtent(r[3], ratio)
  <2>1. w \in Nat /\ w >= 1 /\ w <= r[3] - 1
    BY <1>1, <1>2, SplitExtentIs DEF ExtentOf
  <2>2. Rest(r[3], w) = r[3] - w
    BY <1>1, <2>1, RestIs
  <2>3. h[1] = <<r[1], r[2], w, r[4]>> /\ h[2] = <<r[1] + w, r[2], r[3] - w, r[4]>>
    BY <1>2, <2>2 DEF Halves
  <2> HIDE DEF w
  <2>4. h[1] \in Rectangle /\ h[2] \in Rectangle
    BY <1>1, <2>1, <2>3 DEF Rectangle
  <2>5. /\ h[1][1] = r[1] /\ h[1][2] = r[2] /\ h[1][3] = w /\ h[1][4] = r[4]
        /\ h[2][1] = r[1] + w /\ h[2][2] = r[2] /\ h[2][3] = r[3] - w /\ h[2][4] = r[4]
    BY <2>3
  <2>6. Apart(h[1], h[2]) /\ Apart(h[2], h[1])
    <3>1. Right(h[1]) = r[1] + w /\ Right(h[2]) = r[1] + r[3]
      BY <1>1, <2>1, <2>5 DEF Right
    <3>2. r[1] + w \in Int /\ r[1] + r[3] \in Int
      BY <1>1, <2>1
    <3>3. /\ Overlap(r[1], r[1] + w, r[1] + w, r[1] + r[3]) = 0
          /\ Overlap(r[1] + w, r[1] + r[3], r[1], r[1] + w) = 0
      BY <1>1, <3>2, OverlapMeeting
    <3> QED
      BY <2>5, <3>1, <3>3 DEF Apart
  <2> QED
    BY <1>1, <2>1, <2>4, <2>5, <2>6 DEF Inside, Holds, Right, Bottom
<1>3. CASE split = Horizontal
  <2> DEFINE w == SplitExtent(r[4], ratio)
  <2>1. w \in Nat /\ w >= 1 /\ w <= r[4] - 1
    BY <1>1, <1>3, SplitExtentIs DEF ExtentOf, Vertical, Horizontal
  <2>2. Rest(r[4], w) = r[4] - w
    BY <1>1, <2>1, RestIs
  <2>3. h[1] = <<r[1], r[2], r[3], w>> /\ h[2] = <<r[1], r[2] + w, r[3], r[4] - w>>
    BY <1>3, <2>2 DEF Halves, Vertical, Horizontal
  <2> HIDE DEF w
  <2>4. h[1] \in Rectangle /\ h[2] \in Rectangle
    BY <1>1, <2>1, <2>3 DEF Rectangle
  <2>5. /\ h[1][1] = r[1] /\ h[1][2] = r[2] /\ h[1][3] = r[3] /\ h[1][4] = w
        /\ h[2][1] = r[1] /\ h[2][2] = r[2] + w /\ h[2][3] = r[3] /\ h[2][4] = r[4] - w
    BY <2>3
  <2>6. Apart(h[1], h[2]) /\ Apart(h[2], h[1])
    <3>1. Bottom(h[1]) = r[2] + w /\ Bottom(h[2]) = r[2] + r[4]
      BY <1>1, <2>1, <2>5 DEF Bottom
    <3>2. r[2] + w \in Int /\ r[2] + r[4] \in Int
      BY <1>1, <2>1
    <3>3. /\ Overlap(r[2], r[2] + w, r[2] + w, r[2] + r[4]) = 0
          /\ Overlap(r[2] + w, r[2] + r[4], r[2], r[2] + w) = 0
      BY <1>1, <3>2, OverlapMeeting
    <3> QED
      BY <2>5, <3>1, <3>3 DEF Apart
  <2> QED
    BY <1>1, <2>1, <2>4, <2>5, <2>6 DEF Inside, Holds, Right, Bottom
<1> QED
  BY <1>2, <1>3 DEF Axes

-----------------------------------------------------------------------------
(* Least and greatest.  What a recursive function gives, and that it gives *)
(* anything, is had from the least argument at which it would not.         *)

\* Of finite sets, one has none of the others as a proper part.
LEMMA FinMin ==
  ASSUME NEW S, NEW F \in SUBSET FiniteSubsetsOf(S), F # {}
  PROVE  \E A \in F : \A B \in F : ~(B \subseteq A /\ B # A)
<1>1. IsWellFoundedOn(StrictSubsetOrdering(S), FiniteSubsetsOf(S))
  BY FS_StrictSubsetOrderingWellFounded
<1>2. \E A \in F : \A B \in F : ~(<<B, A>> \in StrictSubsetOrdering(S))
  BY <1>1, WFMin
<1> QED
  BY <1>2 DEF StrictSubsetOrdering, FiniteSubsetsOf

\* Any set of naturals has a least element.
LEMMA NatMin ==
  ASSUME NEW N, N \subseteq Nat, N # {}
  PROVE  \E n \in N : \A m \in N : n <= m
<1>1. \E n \in N : \A m \in N : ~(<<m, n>> \in OpToRel(<, Nat))
  BY NatLessThanWellFounded, WFMin
<1>2. PICK n \in N : \A m \in N : ~(<<m, n>> \in OpToRel(<, Nat))
  BY <1>1
<1>3. \A m \in N : ~(m < n)
  BY <1>2, Zenon DEF OpToRel
<1>4. \A m \in N : n <= m
  BY <1>3
<1> QED
  BY <1>4

\* What holds of 0, and of n + 1 if of n, holds of every natural.
LEMMA NatAll ==
  ASSUME NEW G, 0 \in G, \A n \in Nat : n \in G => n + 1 \in G
  PROVE  \A n \in Nat : n \in G
<1> SUFFICES ASSUME Nat \ G # {} PROVE FALSE
  OBVIOUS
<1>1. PICK n \in Nat \ G : \A m \in Nat \ G : n <= m
  BY NatMin
<1>2. n # 0 /\ n - 1 \in Nat
  BY <1>1
<1>3. n - 1 \in G
  BY <1>1, <1>2
<1> QED
  BY <1>1, <1>2, <1>3

\* A finite set of naturals has a greatest element.
LEMMA FinMax ==
  ASSUME NEW N, N \subseteq Nat, IsFiniteSet(N), N # {}
  PROVE  \E n \in N : \A m \in N : m <= n
<1> DEFINE above(n) == {m \in N : m > n}
           F == {above(n) : n \in N}
<1>1. F \in SUBSET FiniteSubsetsOf(N) /\ F # {}
  <2>1. ASSUME NEW n \in N PROVE above(n) \in FiniteSubsetsOf(N)
    <3>1. above(n) \in SUBSET N
      OBVIOUS
    <3> QED
      BY <3>1, FS_Subset DEF FiniteSubsetsOf
  <2> QED
    BY <2>1
<1> HIDE DEF F
<1>2. \E A \in F : \A B \in F : ~(B \subseteq A /\ B # A)
  BY <1>1, FinMin
<1>3. PICK A \in F : \A B \in F : ~(B \subseteq A /\ B # A)
  BY <1>2
<1>4. PICK n \in N : A = above(n)
  BY <1>3 DEF F
<1>5. ASSUME NEW m \in N, ~(m <= n) PROVE FALSE
  <2>1. m \in Nat /\ n \in Nat /\ m > n
    <3>1. m \in Nat /\ n \in Nat
      OBVIOUS
    <3> QED
      BY <1>5, <3>1
  <2>2. m \in above(n) /\ m \notin above(m) /\ above(m) \in F
    BY <2>1 DEF F
  <2>3. above(m) \subseteq above(n)
    <3> SUFFICES ASSUME NEW k \in N, k > m PROVE k > n
      OBVIOUS
    <3>1. k \in Nat
      OBVIOUS
    <3> QED
      BY <2>1, <3>1
  <2> HIDE DEF above
  <2> QED
    BY <1>3, <1>4, <2>2, <2>3
<1> QED
  BY <1>5

\* What holds of a finite set's parts as soon as it holds of each with one
\* element less holds of all of them.
LEMMA SubsetAll ==
  ASSUME NEW S, IsFiniteSet(S), NEW G,
         ASSUME NEW T \in SUBSET S, \A x \in T : T \ {x} \in G
         PROVE  T \in G
  PROVE  \A T \in SUBSET S : T \in G
<1> SUFFICES ASSUME (SUBSET S) \ G # {} PROVE FALSE
  OBVIOUS
<1> DEFINE F == (SUBSET S) \ G
<1>1. F \in SUBSET FiniteSubsetsOf(S) /\ F # {}
  <2>1. \A T \in SUBSET S : IsFiniteSet(T)
    BY FS_Subset
  <2> QED
    BY <2>1 DEF FiniteSubsetsOf
<1>2. \E A \in F : \A B \in F : ~(B \subseteq A /\ B # A)
  <2> HIDE DEF F
  <2> QED
    BY <1>1, FinMin
<1>3. PICK A \in F : \A B \in F : ~(B \subseteq A /\ B # A)
  BY <1>2
<1>4. \A x \in A : A \ {x} \in G
  BY <1>3
<1> QED
  BY <1>3, <1>4

-----------------------------------------------------------------------------
(* Places                                                                  *)

Place == Seq({"a", "b"})

LEMMA PlaceEqual ==
  ASSUME NEW x \in Place, NEW y \in Place, Len(x) = Len(y), \A i \in 1 .. Len(x) : x[i] = y[i]
  PROVE  x = y
BY SeqEqual DEF Place

LEMMA PlaceLen ==
  ASSUME NEW x \in Place
  PROVE  /\ Len(x) \in Nat /\ DOMAIN x = 1 .. Len(x) /\ (x # <<>> => Len(x) >= 1)
         /\ \A i \in 1 .. Len(x) : x[i] \in {"a", "b"}
BY LenProperties, EmptySeq, ElementOfSeq DEF Place

LEMMA RootPlace == <<>> \in Place /\ Len(<<>>) = 0
BY EmptySeq DEF Place

LEMMA SubPlace ==
  ASSUME NEW x \in Place, NEW m \in Int, NEW n \in Int, 1 <= m, n <= Len(x)
  PROVE  /\ SubSeq(x, m, n) \in Place
         /\ Len(SubSeq(x, m, n)) = IF m <= n THEN n - m + 1 ELSE 0
         /\ \A i \in 1 .. n - m + 1 : SubSeq(x, m, n)[i] = x[m + i - 1]
<1>1. \A i \in m .. n : x[i] \in {"a", "b"}
  BY PlaceLen
<1> QED
  BY <1>1, SubSeqProperties DEF Place

LEMMA PrefixIs ==
  ASSUME NEW x \in Place, NEW y \in Place
  PROVE  IsPrefix(x, y) <=> Len(x) <= Len(y) /\ \A i \in 1 .. Len(x) : x[i] = y[i]
<1>1. CASE ~(Len(x) <= Len(y))
  BY <1>1 DEF IsPrefix
<1>2. CASE Len(x) <= Len(y)
  <2> DEFINE u == SubSeq(x, 1, Len(x))
             v == SubSeq(y, 1, Len(x))
  <2>1. Len(x) \in Nat /\ Len(y) \in Nat
    BY PlaceLen
  <2>2. u \in Place /\ Len(u) = Len(x) /\ \A i \in 1 .. Len(x) : u[i] = x[i]
    BY <2>1, SubPlace
  <2>3. v \in Place /\ Len(v) = Len(x) /\ \A i \in 1 .. Len(x) : v[i] = y[i]
    BY <1>2, <2>1, SubPlace
  <2>4. IsPrefix(x, y) <=> u = v
    BY <1>2 DEF IsPrefix
  <2> HIDE DEF u, v
  <2>5. u = v <=> \A i \in 1 .. Len(x) : x[i] = y[i]
    BY <2>2, <2>3, PlaceEqual
  <2> QED
    BY <1>2, <2>4, <2>5
<1> QED
  BY <1>1, <1>2

LEMMA FrontIs ==
  ASSUME NEW x \in Place, x # <<>>
  PROVE  /\ Front(x) \in Place /\ Len(Front(x)) = Len(x) - 1
         /\ \A i \in 1 .. Len(x) - 1 : Front(x)[i] = x[i]
         /\ Last(x) = x[Len(x)] /\ Last(x) \in {"a", "b"}
<1>1. Len(x) \in Nat /\ Len(x) >= 1
  BY PlaceLen
<1> DEFINE n == Len(x) - 1
<1>a. n \in Int /\ n <= Len(x) /\ n >= 0
  BY <1>1
<1>2. /\ SubSeq(x, 1, n) \in Place
      /\ Len(SubSeq(x, 1, n)) = n
      /\ \A i \in 1 .. n : SubSeq(x, 1, n)[i] = x[i]
  <2> HIDE DEF n
  <2>1. /\ SubSeq(x, 1, n) \in Place
        /\ Len(SubSeq(x, 1, n)) = IF 1 <= n THEN n - 1 + 1 ELSE 0
        /\ \A i \in 1 .. n - 1 + 1 : SubSeq(x, 1, n)[i] = x[1 + i - 1]
    BY <1>a, SubPlace
  <2> QED
    BY <1>a, <2>1
<1>3. x[Len(x)] \in {"a", "b"}
  BY <1>1, PlaceLen
<1> QED
  BY <1>2, <1>3 DEF Front, Last

LEMMA AppendIs ==
  ASSUME NEW x \in Place, NEW s \in {"a", "b"}
  PROVE  /\ Append(x, s) \in Place /\ Len(Append(x, s)) = Len(x) + 1 /\ Append(x, s) # <<>>
         /\ \A i \in 1 .. Len(x) : Append(x, s)[i] = x[i]
         /\ Append(x, s)[Len(x) + 1] = s
         /\ Front(Append(x, s)) = x /\ Last(Append(x, s)) = s
<1> DEFINE y == Append(x, s)
<1>1. /\ y \in Place /\ Len(y) = Len(x) + 1
      /\ \A i \in 1 .. Len(x) : y[i] = x[i]
      /\ y[Len(x) + 1] = s
  BY AppendProperties, PlaceLen DEF Place
<1> HIDE DEF y
<1>2. Len(x) \in Nat /\ y # <<>>
  BY <1>1, PlaceLen, RootPlace
<1>a. /\ Front(y) \in Place /\ Len(Front(y)) = Len(y) - 1
      /\ \A i \in 1 .. Len(y) - 1 : Front(y)[i] = y[i]
  BY <1>1, <1>2, FrontIs
<1>3. Front(y) \in Place /\ Len(Front(y)) = Len(x) /\ \A i \in 1 .. Len(x) : Front(y)[i] = x[i]
  BY <1>1, <1>2, <1>a
<1>4. Front(y) = x
  BY <1>3, PlaceEqual
<1> QED
  BY <1>1, <1>2, <1>4 DEF y, Last

LEMMA AppendFront ==
  ASSUME NEW x \in Place, x # <<>>
  PROVE  Append(Front(x), Last(x)) = x
<1> DEFINE f == Front(x)
           y == Append(f, Last(x))
<1>1. /\ f \in Place /\ Len(f) = Len(x) - 1 /\ \A i \in 1 .. Len(x) - 1 : f[i] = x[i]
      /\ Last(x) = x[Len(x)] /\ Last(x) \in {"a", "b"} /\ Len(x) \in Nat /\ Len(x) >= 1
  BY FrontIs, PlaceLen
<1> HIDE DEF f
<1>2. /\ y \in Place /\ Len(y) = Len(x) /\ \A i \in 1 .. Len(f) : y[i] = f[i]
      /\ y[Len(f) + 1] = Last(x)
  BY <1>1, AppendIs
<1> HIDE DEF y
<1>3. \A i \in 1 .. Len(x) : y[i] = x[i]
  BY <1>1, <1>2
<1>4. y = x
  BY <1>2, <1>3, PlaceEqual
<1> QED
  BY <1>4 DEF y, f

LEMMA SidesDiffer ==
  ASSUME NEW x \in Place, NEW y \in Place
  PROVE  /\ Append(x, "a") # Append(y, "b")
         /\ \A s \in {"a", "b"} : Append(x, s) = Append(y, s) => x = y
<1>1. Append(x, "a") # Append(y, "b")
  <2>1. Last(Append(x, "a")) = "a" /\ Last(Append(y, "b")) = "b"
    BY AppendIs
  <2> QED
    BY <2>1
<1>2. ASSUME NEW s \in {"a", "b"}, Append(x, s) = Append(y, s) PROVE x = y
  <2>1. Front(Append(x, s)) = x /\ Front(Append(y, s)) = y
    BY AppendIs
  <2> QED
    BY <1>2, <2>1
<1> QED
  BY <1>1, <1>2

LEMMA PrefixRefl ==
  ASSUME NEW x \in Place
  PROVE  IsPrefix(x, x) /\ IsPrefix(<<>>, x)
BY PrefixIs, PlaceLen, RootPlace

LEMMA PrefixTrans ==
  ASSUME NEW x \in Place, NEW y \in Place, NEW z \in Place, IsPrefix(x, y), IsPrefix(y, z)
  PROVE  IsPrefix(x, z)
BY PrefixIs, PlaceLen

\* Of the ways to what is below x, all but the last step lie below x as well.
LEMMA PrefixFront ==
  ASSUME NEW x \in Place, NEW y \in Place, y # <<>>
  PROVE  IsPrefix(x, y) <=> x = y \/ IsPrefix(x, Front(y))
<1>1. /\ Front(y) \in Place /\ Len(Front(y)) = Len(y) - 1
      /\ \A i \in 1 .. Len(y) - 1 : Front(y)[i] = y[i]
      /\ Len(x) \in Nat /\ Len(y) \in Nat /\ Len(y) >= 1
  BY FrontIs, PlaceLen
<1>2. ASSUME IsPrefix(x, y) PROVE x = y \/ IsPrefix(x, Front(y))
  <2>1. Len(x) <= Len(y) /\ \A i \in 1 .. Len(x) : x[i] = y[i]
    BY <1>2, PrefixIs
  <2>2. CASE Len(x) = Len(y)
    BY <2>1, <2>2, PlaceEqual
  <2>3. CASE Len(x) # Len(y)
    <3>1. Len(x) <= Len(Front(y)) /\ \A i \in 1 .. Len(x) : x[i] = Front(y)[i]
      BY <1>1, <2>1, <2>3
    <3> QED
      BY <1>1, <3>1, PrefixIs
  <2> QED
    BY <2>2, <2>3
<1>3. IsPrefix(Front(y), y)
  BY <1>1, PrefixIs
<1> QED
  BY <1>1, <1>2, <1>3, PrefixTrans, PrefixRefl

LEMMA PrefixAppend ==
  ASSUME NEW x \in Place, NEW y \in Place, NEW s \in {"a", "b"}
  PROVE  /\ IsPrefix(x, Append(x, s)) /\ ~IsPrefix(Append(x, s), x)
         /\ IsPrefix(Append(x, s), y) <=> IsPrefix(x, y) /\ Len(y) > Len(x) /\ y[Len(x) + 1] = s
<1>1. /\ Append(x, s) \in Place /\ Len(Append(x, s)) = Len(x) + 1
      /\ \A i \in 1 .. Len(x) : Append(x, s)[i] = x[i]
      /\ Append(x, s)[Len(x) + 1] = s
  BY AppendIs
<1>a. Len(x) \in Nat /\ Len(y) \in Nat
  BY PlaceLen
<1> DEFINE z == Append(x, s)
<1> HIDE DEF z
<1>2. z \in Place /\ Len(z) = Len(x) + 1 /\ (\A i \in 1 .. Len(x) : z[i] = x[i]) /\ z[Len(x) + 1] = s
  BY <1>1 DEF z
<1>3. IsPrefix(x, z) /\ ~IsPrefix(z, x)
  BY <1>a, <1>2, PrefixIs
<1>4. IsPrefix(z, y) <=> IsPrefix(x, y) /\ Len(y) > Len(x) /\ y[Len(x) + 1] = s
  <2>1. IsPrefix(z, y) <=> Len(z) <= Len(y) /\ \A i \in 1 .. Len(z) : z[i] = y[i]
    BY <1>2, PrefixIs
  <2>2. IsPrefix(x, y) <=> Len(x) <= Len(y) /\ \A i \in 1 .. Len(x) : x[i] = y[i]
    BY PrefixIs
  <2> QED
    BY <1>a, <1>2, <2>1, <2>2
<1> QED
  BY <1>3, <1>4 DEF z

\* Two places, neither of them above the other, part somewhere.
LEMMA Parting ==
  ASSUME NEW x \in Place, NEW y \in Place, ~IsPrefix(x, y), ~IsPrefix(y, x)
  PROVE  \E z \in Place, s, o \in {"a", "b"} :
           s # o /\ IsPrefix(Append(z, s), x) /\ IsPrefix(Append(z, o), y)
<1>1. Len(x) \in Nat /\ Len(y) \in Nat
  BY PlaceLen
<1> DEFINE N == {i \in 1 .. Len(x) : i <= Len(y) /\ x[i] # y[i]}
<1>2. N # {}
  BY <1>1, PrefixIs
<1>a. \E n \in N : \A m \in N : n <= m
  <2>1. N \subseteq Nat
    BY <1>1
  <2> HIDE DEF N
  <2> QED
    BY <1>2, <2>1, NatMin
<1>3. PICK n \in N : \A m \in N : n <= m
  BY <1>a
<1> DEFINE k == n - 1
           z == SubSeq(x, 1, k)
<1>4. /\ n \in Nat /\ n >= 1 /\ n <= Len(x) /\ n <= Len(y) /\ x[n] # y[n]
      /\ \A i \in 1 .. n - 1 : x[i] = y[i]
  BY <1>1, <1>3
<1>b. k \in Int /\ k <= Len(x) /\ k >= 0
  BY <1>1, <1>4
<1>5. z \in Place /\ Len(z) = k /\ \A i \in 1 .. k : z[i] = x[i]
  <2> HIDE DEF k
  <2>1. /\ z \in Place /\ Len(z) = IF 1 <= k THEN k - 1 + 1 ELSE 0
        /\ \A i \in 1 .. k - 1 + 1 : z[i] = x[1 + i - 1]
    BY <1>b, SubPlace
  <2> QED
    BY <1>b, <2>1
<1> HIDE DEF z
<1>6. IsPrefix(z, x) /\ IsPrefix(z, y)
  BY <1>1, <1>4, <1>5, PrefixIs
<1>7. x[n] \in {"a", "b"} /\ y[n] \in {"a", "b"}
  BY <1>1, <1>4, PlaceLen
<1>8. Len(z) + 1 = n /\ Len(x) > Len(z) /\ Len(y) > Len(z)
  BY <1>1, <1>4, <1>5
<1>9. IsPrefix(Append(z, x[n]), x) /\ IsPrefix(Append(z, y[n]), y)
  BY <1>5, <1>6, <1>7, <1>8, PrefixAppend
<1> QED
  BY <1>4, <1>5, <1>7, <1>9

-----------------------------------------------------------------------------
(* Trees                                                                   *)

LEMMA TreeFacts ==
  ASSUME NEW t, IsTree(t)
  PROVE  /\ IsFiniteSet(DOMAIN t) /\ DOMAIN t \subseteq Place /\ <<>> \in DOMAIN t
         /\ \A x \in DOMAIN t : x # <<>> => Front(x) \in DOMAIN t /\ ~IsLeaf(t[Front(x)])
         /\ \A x \in DOMAIN t : ~IsLeaf(t[x]) =>
              /\ t[x].split \in Axes /\ t[x].ratio \in 0 .. Whole /\ t[x].ratio \in Int
              /\ t[x] \in [split : Axes, ratio : 0 .. Whole]
              /\ Append(x, "a") \in DOMAIN t /\ Append(x, "b") \in DOMAIN t
         /\ \A x \in DOMAIN t : IsLeaf(t[x]) => t[x] \in [pane : Nat \ {0}] /\ t[x].pane \in Nat \ {0}
         /\ \A x, y \in LeafPlaces(t) : t[x].pane = t[y].pane => x = y
<1>1. /\ IsFiniteSet(DOMAIN t) /\ DOMAIN t \subseteq Place /\ <<>> \in DOMAIN t
      /\ \A x \in DOMAIN t : x # <<>> => Front(x) \in DOMAIN t /\ ~IsLeaf(t[Front(x)])
      /\ \A x, y \in LeafPlaces(t) : t[x].pane = t[y].pane => x = y
  BY DEF IsTree, Place
<1>2. ASSUME NEW x \in DOMAIN t, ~IsLeaf(t[x])
      PROVE  /\ t[x] \in [split : Axes, ratio : 0 .. Whole]
             /\ Append(x, "a") \in DOMAIN t /\ Append(x, "b") \in DOMAIN t
  BY <1>2 DEF IsTree
<1>3. ASSUME NEW x \in DOMAIN t, ~IsLeaf(t[x])
      PROVE  t[x].split \in Axes /\ t[x].ratio \in 0 .. Whole /\ t[x].ratio \in Int
  BY <1>2, <1>3 DEF Whole
<1>4. ASSUME NEW x \in DOMAIN t, IsLeaf(t[x])
      PROVE  t[x] \in [pane : Nat \ {0}] /\ t[x].pane \in Nat \ {0}
  <2>1. t[x] \in [pane : Nat \ {0}]
    BY <1>4 DEF IsTree
  <2> QED
    BY <2>1
<1> QED
  BY <1>1, <1>2, <1>3, <1>4

LEMMA LeafFacts ==
  ASSUME NEW t, IsTree(t)
  PROVE  /\ LeafPlaces(t) \subseteq DOMAIN t /\ LeafPlaces(t) \subseteq Place
         /\ IsFiniteSet(LeafPlaces(t))
         /\ \A x \in LeafPlaces(t) : t[x].pane \in PanesIn(t) /\ PlaceOf(t, t[x].pane) = x
         /\ \A p \in PanesIn(t) : PlaceOf(t, p) \in LeafPlaces(t) /\ t[PlaceOf(t, p)].pane = p
         /\ PanesIn(t) \subseteq Nat \ {0}
         /\ \A p, q \in PanesIn(t) : PlaceOf(t, p) = PlaceOf(t, q) => p = q
<1>1. LeafPlaces(t) \subseteq DOMAIN t /\ LeafPlaces(t) \subseteq Place
  BY TreeFacts DEF LeafPlaces
<1>2. IsFiniteSet(LeafPlaces(t))
  BY <1>1, TreeFacts, FS_Subset
<1>3. \A x, y \in LeafPlaces(t) : t[x].pane = t[y].pane => x = y
  BY TreeFacts
<1>4. \A p \in PanesIn(t) : PlaceOf(t, p) \in LeafPlaces(t) /\ t[PlaceOf(t, p)].pane = p
  BY DEF PanesIn, PlaceOf
<1>5. \A x \in LeafPlaces(t) : t[x].pane \in PanesIn(t)
  BY DEF PanesIn
<1>6. \A x \in LeafPlaces(t) : PlaceOf(t, t[x].pane) = x
  BY <1>3, <1>4, <1>5
<1>7. PanesIn(t) \subseteq Nat \ {0}
  BY TreeFacts DEF PanesIn, LeafPlaces
<1> QED
  BY <1>1, <1>2, <1>4, <1>5, <1>6, <1>7

\* All that is above a place is there, and is a split.
LEMMA AboveIsSplit ==
  ASSUME NEW t, IsTree(t), NEW x \in Place, NEW y \in DOMAIN t, IsPrefix(x, y)
  PROVE  x \in DOMAIN t /\ (x # y => ~IsLeaf(t[x]))
<1> DEFINE G == {n \in Nat : \A z \in DOMAIN t : Len(z) = n /\ IsPrefix(x, z) =>
                                x \in DOMAIN t /\ (x # z => ~IsLeaf(t[x]))}
<1>1. 0 \in G
  <2> SUFFICES ASSUME NEW z \in DOMAIN t, Len(z) = 0, IsPrefix(x, z)
               PROVE  x = z
    OBVIOUS
  <2>1. z \in Place /\ Len(x) = 0
    BY TreeFacts, PrefixIs, PlaceLen
  <2> QED
    BY <2>1, PlaceEqual
<1>2. ASSUME NEW n \in Nat, n \in G PROVE n + 1 \in G
  <2> SUFFICES ASSUME NEW z \in DOMAIN t, Len(z) = n + 1, IsPrefix(x, z), x # z
               PROVE  x \in DOMAIN t /\ ~IsLeaf(t[x])
    OBVIOUS
  <2>1. z \in Place /\ z # <<>>
    BY TreeFacts, RootPlace
  <2>2. Front(z) \in DOMAIN t /\ ~IsLeaf(t[Front(z)]) /\ Len(Front(z)) = n
    BY <2>1, TreeFacts, FrontIs
  <2>3. IsPrefix(x, Front(z))
    BY <2>1, PrefixFront
  <2> QED
    BY <1>2, <2>2, <2>3
<1> HIDE DEF G
<1>3. \A n \in Nat : n \in G
  BY <1>1, <1>2, NatAll
<1>4. y \in Place /\ Len(y) \in Nat
  BY TreeFacts, PlaceLen
<1> QED
  BY <1>3, <1>4 DEF G

LEMMA LeavesApart ==
  ASSUME NEW t, IsTree(t), NEW x \in LeafPlaces(t), NEW y \in DOMAIN t, IsPrefix(x, y)
  PROVE  x = y
<1>1. x \in Place /\ IsLeaf(t[x])
  BY LeafFacts DEF LeafPlaces
<1> QED
  BY <1>1, AboveIsSplit

\* A tree is so many levels deep.
LEMMA TreeHeight ==
  ASSUME NEW t, IsTree(t)
  PROVE  \E n \in Nat : \A x \in DOMAIN t : Len(x) <= n
<1> DEFINE D == DOMAIN t
           N == {Len(x) : x \in D}
           f == [x \in D |-> Len(x)]
<1>1. IsFiniteSet(D) /\ D # {} /\ \A x \in D : Len(x) \in Nat
  BY TreeFacts, PlaceLen
<1>2. f \in Surjection(D, N)
  BY DEF Surjection
<1>3. IsFiniteSet(N)
  <2> HIDE DEF f, N, D
  <2> QED
    BY <1>1, <1>2, FS_Surjection
<1>4. N \subseteq Nat /\ N # {}
  BY <1>1
<1>5. \E n \in N : \A m \in N : m <= n
  <2> HIDE DEF N
  <2> QED
    BY <1>3, <1>4, FinMax
<1> QED
  BY <1>4, <1>5

-----------------------------------------------------------------------------
(* Rectangles                                                              *)

\* What of the rectangle of a split comes to one of its sides.
Half(rect, node, side) ==
  LET halves == Halves(rect, node.split, node.ratio)
  IN IF side = "a" THEN halves[1] ELSE halves[2]

\* There is the function that Rects defines.
LEMMA RectsDefined ==
  ASSUME NEW t, IsTree(t), NEW r
  PROVE  Rects(t, r) = [x \in DOMAIN t |->
           IF x = <<>> THEN r ELSE Half(Rects(t, r)[Front(x)], t[Front(x)], Last(x))]
<1> DEFINE D(n) == {x \in DOMAIN t : Len(x) <= n}
           Body(f, x) == IF x = <<>> THEN r ELSE Half(f[Front(x)], t[Front(x)], Last(x))
           G == {n \in Nat : \E f : f = [x \in D(n) |-> Body(f, x)]}
<1>1. \A x \in DOMAIN t : x \in Place /\ Len(x) \in Nat /\ (x # <<>> => Front(x) \in DOMAIN t)
  BY TreeFacts, PlaceLen
<1>2. \A x \in DOMAIN t : x # <<>> => Len(Front(x)) = Len(x) - 1
  BY <1>1, FrontIs
<1>3. 0 \in G
  <2>1. \A x \in D(0) : x = <<>>
    <3> SUFFICES ASSUME NEW x \in DOMAIN t, Len(x) <= 0, x # <<>> PROVE FALSE
      OBVIOUS
    <3> QED
      BY <1>1, PlaceLen
  <2> DEFINE f == [x \in D(0) |-> r]
  <2>2. f = [x \in D(0) |-> Body(f, x)]
    BY <2>1
  <2> HIDE DEF f
  <2> QED
    BY <2>2
<1>4. ASSUME NEW n \in Nat, n \in G PROVE n + 1 \in G
  <2>1. PICK f : f = [x \in D(n) |-> Body(f, x)]
    BY <1>4
  <2> DEFINE g == [x \in D(n + 1) |-> Body(f, x)]
  <2>2. \A x \in D(n + 1) : x # <<>> => Front(x) \in D(n) /\ Front(x) \in D(n + 1)
    BY <1>1, <1>2
  <2>3. \A x \in D(n) : x \in D(n + 1) /\ g[x] = f[x]
    <3> SUFFICES ASSUME NEW x \in D(n) PROVE x \in D(n + 1) /\ g[x] = f[x]
      OBVIOUS
    <3>1. x \in D(n + 1)
      BY <1>1
    <3>2. f[x] = Body(f, x)
      BY <2>1
    <3>3. g[x] = Body(f, x)
      BY <3>1
    <3> HIDE DEF g, Body
    <3> QED
      BY <3>1, <3>2, <3>3
  <2>4. \A x \in D(n + 1) : g[x] = Body(g, x)
    <3> SUFFICES ASSUME NEW x \in D(n + 1) PROVE g[x] = Body(g, x)
      OBVIOUS
    <3>1. g[x] = Body(f, x)
      OBVIOUS
    <3>2. x # <<>> => g[Front(x)] = f[Front(x)]
      BY <2>2, <2>3
    <3> HIDE DEF g
    <3> QED
      BY <3>1, <3>2
  <2>5. g = [x \in D(n + 1) |-> Body(g, x)]
    <3>1. g = [x \in D(n + 1) |-> g[x]]
      OBVIOUS
    <3> HIDE DEF g, Body, D
    <3> QED
      BY <2>4, <3>1
  <2> HIDE DEF g, D, Body
  <2>6. \E h : h = [x \in D(n + 1) |-> Body(h, x)]
    BY <2>5
  <2>7. n + 1 \in Nat
    OBVIOUS
  <2> QED
    BY <2>6, <2>7
<1>5. \A n \in Nat : n \in G
  <2> HIDE DEF G
  <2> QED
    BY <1>3, <1>4, NatAll
<1>6. PICK n \in Nat : \A x \in DOMAIN t : Len(x) <= n
  BY TreeHeight
<1>7. D(n) = DOMAIN t
  BY <1>6
<1>8. PICK f : f = [x \in D(n) |-> Body(f, x)]
  BY <1>5
<1>9. f = [x \in DOMAIN t |-> Body(f, x)]
  BY <1>7, <1>8
<1>10. Rects(t, r) = CHOOSE g : g = [x \in DOMAIN t |-> Body(g, x)]
  BY DEF Rects, Half
<1> HIDE DEF Body
<1>11. Rects(t, r) = [x \in DOMAIN t |-> Body(Rects(t, r), x)]
  BY <1>9, <1>10
<1> QED
  BY <1>11 DEF Body

LEMMA RectsAre ==
  ASSUME NEW t, IsTree(t), NEW r
  PROVE  /\ DOMAIN Rects(t, r) = DOMAIN t
         /\ Rects(t, r)[<<>>] = r
         /\ \A x \in DOMAIN t : ~IsLeaf(t[x]) =>
              /\ Rects(t, r)[Append(x, "a")] = Halves(Rects(t, r)[x], t[x].split, t[x].ratio)[1]
              /\ Rects(t, r)[Append(x, "b")] = Halves(Rects(t, r)[x], t[x].split, t[x].ratio)[2]
<1> DEFINE R == Rects(t, r)
<1>1. R = [x \in DOMAIN t |-> IF x = <<>> THEN r ELSE Half(R[Front(x)], t[Front(x)], Last(x))]
  BY RectsDefined
<1> HIDE DEF R
<1>2. DOMAIN R = DOMAIN t /\ <<>> \in DOMAIN t
  BY <1>1, TreeFacts
<1>3. \A x \in DOMAIN t : R[x] = IF x = <<>> THEN r ELSE Half(R[Front(x)], t[Front(x)], Last(x))
  BY <1>1
<1>4. ASSUME NEW x \in DOMAIN t, ~IsLeaf(t[x]), NEW s \in {"a", "b"}
      PROVE  R[Append(x, s)] = Half(R[x], t[x], s)
  <2>1. Append(x, s) \in DOMAIN t /\ x \in Place
    BY <1>4, TreeFacts
  <2>2. Append(x, s) # <<>> /\ Front(Append(x, s)) = x /\ Last(Append(x, s)) = s
    BY <2>1, AppendIs
  <2> QED
    BY <1>3, <2>1, <2>2
<1>5. ASSUME NEW x \in DOMAIN t, ~IsLeaf(t[x])
      PROVE  /\ R[Append(x, "a")] = Halves(R[x], t[x].split, t[x].ratio)[1]
             /\ R[Append(x, "b")] = Halves(R[x], t[x].split, t[x].ratio)[2]
  <2>1. R[Append(x, "a")] = Half(R[x], t[x], "a") /\ R[Append(x, "b")] = Half(R[x], t[x], "b")
    BY <1>4, <1>5
  <2> QED
    BY <2>1 DEF Half
<1> QED
  BY <1>2, <1>3, <1>5 DEF R

\* What holds of the root, and of both sides of a split if of the split, holds
\* all over the tree.
LEMMA TreeAll ==
  ASSUME NEW t, IsTree(t), NEW G, <<>> \in G,
         \A x \in DOMAIN t : ~IsLeaf(t[x]) /\ x \in G => Append(x, "a") \in G /\ Append(x, "b") \in G
  PROVE  \A x \in DOMAIN t : x \in G
<1> DEFINE N == {n \in Nat : \A x \in DOMAIN t : Len(x) = n => x \in G}
<1>1. 0 \in N
  <2> SUFFICES ASSUME NEW x \in DOMAIN t, Len(x) = 0 PROVE x = <<>>
    OBVIOUS
  <2>1. x \in Place
    BY TreeFacts
  <2> QED
    BY <2>1, PlaceLen
<1>2. ASSUME NEW n \in Nat, n \in N PROVE n + 1 \in N
  <2> SUFFICES ASSUME NEW x \in DOMAIN t, Len(x) = n + 1 PROVE x \in G
    OBVIOUS
  <2>1. x \in Place /\ x # <<>>
    BY TreeFacts, RootPlace
  <2>2. Front(x) \in DOMAIN t /\ ~IsLeaf(t[Front(x)])
    BY <2>1, TreeFacts
  <2>3. Len(Front(x)) = n /\ Last(x) \in {"a", "b"} /\ Append(Front(x), Last(x)) = x
    BY <2>1, FrontIs, AppendFront
  <2>4. Front(x) \in G
    BY <1>2, <2>2, <2>3
  <2> QED
    BY <2>2, <2>3, <2>4
<1> HIDE DEF N
<1>3. \A n \in Nat : n \in N
  BY <1>1, <1>2, NatAll
<1>4. \A x \in DOMAIN t : Len(x) \in Nat
  BY TreeFacts, PlaceLen
<1> QED
  BY <1>3, <1>4 DEF N

LEMMA HalvesAre ==
  ASSUME NEW r \in Rectangle, NEW split \in Axes, NEW ratio \in Int
  PROVE  Halves(r, split, ratio)[1] \in Rectangle /\ Halves(r, split, ratio)[2] \in Rectangle
<1>1. r = <<r[1], r[2], r[3], r[4]>> /\ r[1] \in Nat /\ r[2] \in Nat /\ r[3] \in Nat /\ r[4] \in Nat
  BY DEF Rectangle
<1> DEFINE w == SplitExtent(r[3], ratio)
           h == SplitExtent(r[4], ratio)
<1>2. w \in Nat /\ h \in Nat
  BY <1>1, SplitExtentIs
<1>3. Halves(r, split, ratio) =
        IF split = Vertical
        THEN << <<r[1], r[2], w, r[4]>>, <<r[1] + w, r[2], Rest(r[3], w), r[4]>> >>
        ELSE << <<r[1], r[2], r[3], h>>, <<r[1], r[2] + h, r[3], Rest(r[4], h)>> >>
  BY DEF Halves
<1> HIDE DEF w, h
<1>4. Rest(r[3], w) \in Nat /\ Rest(r[4], h) \in Nat
  BY <1>1, <1>2, RestIs
<1> QED
  BY <1>1, <1>2, <1>3, <1>4 DEF Rectangle

LEMMA RectsAreRectangles ==
  ASSUME NEW t, IsTree(t), NEW r \in Rectangle
  PROVE  \A x \in DOMAIN t : Rects(t, r)[x] \in Rectangle
<1> DEFINE R == Rects(t, r)
           G == {x \in DOMAIN t : R[x] \in Rectangle}
<1>1. <<>> \in G
  BY RectsAre, TreeFacts
<1>2. ASSUME NEW x \in DOMAIN t, ~IsLeaf(t[x]), x \in G
      PROVE  Append(x, "a") \in G /\ Append(x, "b") \in G
  <2>1. t[x].split \in Axes /\ t[x].ratio \in Int /\ Append(x, "a") \in DOMAIN t /\ Append(x, "b") \in DOMAIN t
    BY <1>2, TreeFacts
  <2>2. /\ R[Append(x, "a")] = Halves(R[x], t[x].split, t[x].ratio)[1]
        /\ R[Append(x, "b")] = Halves(R[x], t[x].split, t[x].ratio)[2]
    BY <1>2, RectsAre
  <2>3. R[x] \in Rectangle
    BY <1>2
  <2> HIDE DEF R
  <2> QED
    BY <2>1, <2>2, <2>3, HalvesAre
<1> HIDE DEF G
<1>3. \A x \in DOMAIN t : x \in G
  BY <1>1, <1>2, TreeAll
<1> QED
  BY <1>3 DEF G

-----------------------------------------------------------------------------
(* Tiling                                                                  *)

LEMMA RectangleIs ==
  ASSUME NEW r \in Rectangle
  PROVE  r[1] \in Int /\ r[2] \in Int /\ r[3] \in Int /\ r[4] \in Int
         /\ r[1] >= 0 /\ r[2] >= 0 /\ r[3] >= 0 /\ r[4] >= 0
BY DEF Rectangle

LEMMA InsideTrans ==
  ASSUME NEW r \in Rectangle, NEW s \in Rectangle, NEW u \in Rectangle
  PROVE  Inside(r, r) /\ (Inside(r, s) /\ Inside(s, u) => Inside(r, u))
BY RectangleIs DEF Inside, Right, Bottom

LEMMA ApartIs ==
  ASSUME NEW r \in Rectangle, NEW s \in Rectangle, r[3] > 0, r[4] > 0, s[3] > 0, s[4] > 0
  PROVE  Apart(r, s) <=> \/ Right(r) <= s[1] \/ Right(s) <= r[1]
                         \/ Bottom(r) <= s[2] \/ Bottom(s) <= r[2]
<1>1. /\ r[1] \in Int /\ r[2] \in Int /\ Right(r) \in Int /\ Bottom(r) \in Int
      /\ s[1] \in Int /\ s[2] \in Int /\ Right(s) \in Int /\ Bottom(s) \in Int
      /\ r[1] < Right(r) /\ r[2] < Bottom(r) /\ s[1] < Right(s) /\ s[2] < Bottom(s)
  BY RectangleIs DEF Right, Bottom
<1>2. Overlap(r[1], Right(r), s[1], Right(s)) = 0
        <=> Right(r) <= r[1] \/ Right(r) <= s[1] \/ Right(s) <= r[1] \/ Right(s) <= s[1]
  BY <1>1, OverlapIs
<1>3. Overlap(r[2], Bottom(r), s[2], Bottom(s)) = 0
        <=> Bottom(r) <= r[2] \/ Bottom(r) <= s[2] \/ Bottom(s) <= r[2] \/ Bottom(s) <= s[2]
  BY <1>1, OverlapIs
<1> QED
  BY <1>1, <1>2, <1>3 DEF Apart

LEMMA ApartInside ==
  ASSUME NEW r \in Rectangle, NEW s \in Rectangle, NEW u \in Rectangle, NEW v \in Rectangle,
         r[3] > 0, r[4] > 0, s[3] > 0, s[4] > 0, u[3] > 0, u[4] > 0, v[3] > 0, v[4] > 0,
         Inside(r, u), Inside(s, v), Apart(u, v)
  PROVE  Apart(r, s)
<1>1. \/ Right(u) <= v[1] \/ Right(v) <= u[1] \/ Bottom(u) <= v[2] \/ Bottom(v) <= u[2]
  BY ApartIs
<1>2. \/ Right(r) <= s[1] \/ Right(s) <= r[1] \/ Bottom(r) <= s[2] \/ Bottom(s) <= r[2]
  BY <1>1, RectangleIs DEF Inside, Right, Bottom
<1> QED
  BY <1>2, ApartIs

\* In a layout with room for every split, nothing is empty.
LEMMA RoomyRects ==
  ASSUME NEW t, IsTree(t), NEW r \in Rectangle, Roomy(t, r)
  PROVE  \A x \in DOMAIN t : /\ Rects(t, r)[x] \in Rectangle
                             /\ Rects(t, r)[x][3] > 0 /\ Rects(t, r)[x][4] > 0
<1> DEFINE R == Rects(t, r)
           G == {x \in DOMAIN t : R[x][3] > 0 /\ R[x][4] > 0}
<1>1. \A x \in DOMAIN t : R[x] \in Rectangle
  BY RectsAreRectangles
<1>2. <<>> \in G
  BY RectsAre, TreeFacts DEF Roomy
<1>3. ASSUME NEW x \in DOMAIN t, ~IsLeaf(t[x]), x \in G
      PROVE  Append(x, "a") \in G /\ Append(x, "b") \in G
  <2>1. t[x].split \in Axes /\ t[x].ratio \in Int /\ Append(x, "a") \in DOMAIN t /\ Append(x, "b") \in DOMAIN t
    BY <1>3, TreeFacts
  <2>2. /\ R[Append(x, "a")] = Halves(R[x], t[x].split, t[x].ratio)[1]
        /\ R[Append(x, "b")] = Halves(R[x], t[x].split, t[x].ratio)[2]
    BY <1>3, RectsAre
  <2>3. ExtentOf(R[x], t[x].split) >= 2
    BY <1>3 DEF Roomy, LeafPlaces
  <2>4. R[x][3] > 0 /\ R[x][4] > 0 /\ R[x] \in Rectangle
    BY <1>1, <1>3
  <2> HIDE DEF R
  <2> QED
    BY <2>1, <2>2, <2>3, <2>4, HalvesTile
<1> HIDE DEF G
<1>4. \A x \in DOMAIN t : x \in G
  BY <1>2, <1>3, TreeAll
<1> QED
  BY <1>1, <1>4 DEF G

LEMMA RoomyHalves ==
  ASSUME NEW t, IsTree(t), NEW r \in Rectangle, Roomy(t, r), NEW x \in DOMAIN t, ~IsLeaf(t[x])
  PROVE  LET R == Rects(t, r) IN
         /\ Inside(R[Append(x, "a")], R[x]) /\ Inside(R[Append(x, "b")], R[x])
         /\ Apart(R[Append(x, "a")], R[Append(x, "b")]) /\ Apart(R[Append(x, "b")], R[Append(x, "a")])
         /\ \A i, j \in Int : Holds(R[x], i, j) =>
              Holds(R[Append(x, "a")], i, j) \/ Holds(R[Append(x, "b")], i, j)
<1> DEFINE R == Rects(t, r)
<1>1. R[x] \in Rectangle /\ R[x][3] > 0 /\ R[x][4] > 0
  BY RoomyRects
<1>2. t[x].split \in Axes /\ t[x].ratio \in Int
  BY TreeFacts
<1>3. ExtentOf(R[x], t[x].split) >= 2
  BY DEF Roomy, LeafPlaces
<1>4. /\ R[Append(x, "a")] = Halves(R[x], t[x].split, t[x].ratio)[1]
      /\ R[Append(x, "b")] = Halves(R[x], t[x].split, t[x].ratio)[2]
  BY RectsAre
<1> HIDE DEF R
<1>5. /\ Inside(R[Append(x, "a")], R[x]) /\ Inside(R[Append(x, "b")], R[x])
      /\ Apart(R[Append(x, "a")], R[Append(x, "b")]) /\ Apart(R[Append(x, "b")], R[Append(x, "a")])
      /\ \A i, j \in Int : Holds(R[x], i, j) =>
           Holds(R[Append(x, "a")], i, j) \/ Holds(R[Append(x, "b")], i, j)
  BY <1>1, <1>2, <1>3, <1>4, HalvesTile
<1> QED
  BY <1>5 DEF R

LEMMA RectsNested ==
  ASSUME NEW t, IsTree(t), NEW r \in Rectangle, Roomy(t, r),
         NEW x \in Place, NEW y \in DOMAIN t, IsPrefix(x, y)
  PROVE  Inside(Rects(t, r)[y], Rects(t, r)[x])
<1> DEFINE R == Rects(t, r)
           G == {z \in DOMAIN t : IsPrefix(x, z) => Inside(R[z], R[x])}
<1>1. \A z \in DOMAIN t : R[z] \in Rectangle /\ z \in Place
  BY RoomyRects, TreeFacts
<1>2. <<>> \in G
  <2> SUFFICES ASSUME IsPrefix(x, <<>>) PROVE Inside(R[<<>>], R[x])
    BY TreeFacts
  <2>1. Len(x) <= 0
    BY RootPlace DEF IsPrefix
  <2>2. x = <<>>
    BY <2>1, PlaceLen
  <2>3. R[<<>>] \in Rectangle
    BY <1>1, TreeFacts
  <2> HIDE DEF R
  <2> QED
    BY <2>2, <2>3, InsideTrans
<1>3. ASSUME NEW z \in DOMAIN t, ~IsLeaf(t[z]), z \in G, NEW s \in {"a", "b"}
      PROVE  Append(z, s) \in G
  <2>1. Append(z, s) \in DOMAIN t /\ z \in Place
    BY <1>3, TreeFacts
  <2>2. Inside(R[Append(z, s)], R[z])
    BY <1>3, RoomyHalves
  <2> SUFFICES ASSUME IsPrefix(x, Append(z, s)), x # Append(z, s) PROVE Inside(R[Append(z, s)], R[x])
    <3>1. R[Append(z, s)] \in Rectangle
      BY <1>1, <2>1
    <3>2. Inside(R[Append(z, s)], R[Append(z, s)])
      <4> HIDE DEF R
      <4> QED
        BY <3>1, InsideTrans
    <3> QED
      BY <2>1, <3>2
  <2>3. IsPrefix(x, z)
    <3> DEFINE y2 == Append(z, s)
    <3>1. y2 \in Place /\ y2 # <<>> /\ Front(y2) = z
      BY <2>1, AppendIs
    <3>2. IsPrefix(x, y2) /\ x # y2
      OBVIOUS
    <3> HIDE DEF y2, R
    <3>3. x = y2 \/ IsPrefix(x, Front(y2))
      BY <3>1, <3>2, PrefixFront
    <3> QED
      BY <3>1, <3>2, <3>3
  <2>4. Inside(R[z], R[x])
    BY <1>3, <2>3
  <2>5. x \in DOMAIN t
    BY <2>1, <2>3, AboveIsSplit
  <2>6. R[x] \in Rectangle /\ R[z] \in Rectangle /\ R[Append(z, s)] \in Rectangle
    BY <1>1, <2>1, <2>5
  <2> HIDE DEF R
  <2> QED
    BY <2>2, <2>4, <2>6, InsideTrans
<1> HIDE DEF G
<1>4. \A z \in DOMAIN t : z \in G
  BY <1>2, <1>3, TreeAll
<1> QED
  BY <1>4 DEF G

LEMMA RectsApart ==
  ASSUME NEW t, IsTree(t), NEW r \in Rectangle, Roomy(t, r),
         NEW x \in DOMAIN t, NEW y \in DOMAIN t, ~IsPrefix(x, y), ~IsPrefix(y, x)
  PROVE  Apart(Rects(t, r)[x], Rects(t, r)[y])
<1> DEFINE R == Rects(t, r)
<1>1. x \in Place /\ y \in Place
  BY TreeFacts
<1>2. PICK z \in Place, s, o \in {"a", "b"} :
        s # o /\ IsPrefix(Append(z, s), x) /\ IsPrefix(Append(z, o), y)
  BY <1>1, Parting
<1> DEFINE u == Append(z, s)
           v == Append(z, o)
<1>3. u \in Place /\ v \in Place /\ IsPrefix(z, u) /\ ~IsPrefix(u, z)
  BY AppendIs, PrefixAppend
<1>4. u \in DOMAIN t /\ v \in DOMAIN t
  BY <1>2, <1>3, AboveIsSplit
<1>5. z \in DOMAIN t /\ ~IsLeaf(t[z])
  <2>1. z # u
    BY <1>3, PrefixRefl
  <2> QED
    BY <1>3, <1>4, <2>1, AboveIsSplit
<1>6. Apart(R[u], R[v])
  BY <1>2, <1>5, RoomyHalves
<1>7. Inside(R[x], R[u]) /\ Inside(R[y], R[v])
  BY <1>2, <1>3, RectsNested
<1>8. \A w \in {x, y, u, v} : R[w] \in Rectangle /\ R[w][3] > 0 /\ R[w][4] > 0
  BY <1>4, RoomyRects
<1>9. Apart(R[x], R[y])
  <2> HIDE DEF R, u, v
  <2> QED
    BY <1>6, <1>7, <1>8, ApartInside
<1> QED
  BY <1>9

\* Every cell of the whole is in some leaf's part.
LEMMA CellsHeld ==
  ASSUME NEW t, IsTree(t), NEW r \in Rectangle, Roomy(t, r), NEW i \in Int, NEW j \in Int, Holds(r, i, j)
  PROVE  \E x \in LeafPlaces(t) : Holds(Rects(t, r)[x], i, j)
<1> DEFINE R == Rects(t, r)
           N == {n \in Nat : \E x \in DOMAIN t : Len(x) = n /\ Holds(R[x], i, j)}
<1>1. \A x \in DOMAIN t : x \in Place /\ Len(x) \in Nat
  BY TreeFacts, PlaceLen
<1>2. 0 \in N
  <2>1. <<>> \in DOMAIN t /\ Len(<<>>) = 0 /\ R[<<>>] = r
    BY TreeFacts, RectsAre, RootPlace
  <2> QED
    BY <2>1
<1>3. \E n \in N : \A m \in N : m <= n
  <2>1. PICK h \in Nat : \A x \in DOMAIN t : Len(x) <= h
    BY TreeHeight
  <2>2. N \subseteq Nat /\ IsFiniteSet(N)
    <3>1. N \in SUBSET (0 .. h)
      BY <2>1
    <3>2. IsFiniteSet(0 .. h)
      BY FS_Interval
    <3>3. N \subseteq Nat
      OBVIOUS
    <3> HIDE DEF N
    <3>4. IsFiniteSet(N)
      BY <3>1, <3>2, FS_Subset
    <3> QED
      BY <3>3, <3>4
  <2> HIDE DEF N
  <2> QED
    BY <1>2, <2>2, FinMax
<1>4. PICK n \in N : \A m \in N : m <= n
  BY <1>3
<1>5. PICK x \in DOMAIN t : Len(x) = n /\ Holds(R[x], i, j)
  OBVIOUS
<1>6. CASE ~IsLeaf(t[x])
  <2>1. Append(x, "a") \in DOMAIN t /\ Append(x, "b") \in DOMAIN t
    BY <1>6, TreeFacts
  <2>2. Len(Append(x, "a")) = n + 1 /\ Len(Append(x, "b")) = n + 1
    BY <1>1, <1>5, AppendIs
  <2>3. Holds(R[Append(x, "a")], i, j) \/ Holds(R[Append(x, "b")], i, j)
    BY <1>5, <1>6, RoomyHalves
  <2>4. n \in Nat
    OBVIOUS
  <2>5. n + 1 \in N
    <3>1. \E y \in DOMAIN t : Len(y) = n + 1 /\ Holds(R[y], i, j)
      BY <2>1, <2>2, <2>3
    <3>2. n + 1 \in Nat
      BY <2>4
    <3> QED
      BY <3>1, <3>2
  <2> HIDE DEF N
  <2> QED
    BY <1>4, <2>4, <2>5
<1> QED
  BY <1>5, <1>6 DEF LeafPlaces

LEMMA LaidIs ==
  ASSUME NEW t, IsTree(t), NEW r
  PROVE  /\ DOMAIN Laid(t, r) = PanesIn(t)
         /\ \A p \in PanesIn(t) : Laid(t, r)[p] = Rects(t, r)[PlaceOf(t, p)]
BY DEF Laid

\* Whatever the tree, its panes tile the rectangle.
LEMMA TreeTiles ==
  ASSUME NEW t, IsTree(t), NEW r \in Rectangle, Roomy(t, r)
  PROVE  LET at == Laid(t, r) IN
         /\ \A p \in PanesIn(t) : at[p] \in Rectangle /\ at[p][3] > 0 /\ at[p][4] > 0 /\ Inside(at[p], r)
         /\ \A p, q \in PanesIn(t) : p # q => Apart(at[p], at[q])
         /\ \A i, j \in Int : Holds(r, i, j) => \E p \in PanesIn(t) : Holds(at[p], i, j)
<1> DEFINE at == Laid(t, r)
           R == Rects(t, r)
<1>1. \A p \in PanesIn(t) : at[p] = R[PlaceOf(t, p)]
  BY LaidIs
<1>2. \A p \in PanesIn(t) : /\ PlaceOf(t, p) \in DOMAIN t /\ PlaceOf(t, p) \in Place
                            /\ PlaceOf(t, p) \in LeafPlaces(t)
  BY LeafFacts
<1>3. ASSUME NEW p \in PanesIn(t)
      PROVE  at[p] \in Rectangle /\ at[p][3] > 0 /\ at[p][4] > 0 /\ Inside(at[p], r)
  <2>1. Inside(R[PlaceOf(t, p)], R[<<>>])
    <3>1. IsPrefix(<<>>, PlaceOf(t, p)) /\ <<>> \in Place
      BY <1>2, PrefixRefl, RootPlace
    <3> QED
      BY <1>2, <3>1, RectsNested
  <2>2. R[<<>>] = r
    BY RectsAre
  <2>3. R[PlaceOf(t, p)] \in Rectangle /\ R[PlaceOf(t, p)][3] > 0 /\ R[PlaceOf(t, p)][4] > 0
    BY <1>2, RoomyRects
  <2> QED
    BY <1>1, <2>1, <2>2, <2>3
<1>4. ASSUME NEW p \in PanesIn(t), NEW q \in PanesIn(t), p # q PROVE Apart(at[p], at[q])
  <2>1. PlaceOf(t, p) # PlaceOf(t, q)
    BY <1>4, LeafFacts
  <2>2. ~IsPrefix(PlaceOf(t, p), PlaceOf(t, q)) /\ ~IsPrefix(PlaceOf(t, q), PlaceOf(t, p))
    BY <1>2, <2>1, LeavesApart
  <2>3. Apart(R[PlaceOf(t, p)], R[PlaceOf(t, q)])
    BY <1>2, <2>2, RectsApart
  <2> QED
    BY <1>1, <2>3
<1>5. ASSUME NEW i \in Int, NEW j \in Int, Holds(r, i, j)
      PROVE  \E p \in PanesIn(t) : Holds(at[p], i, j)
  <2>1. PICK x \in LeafPlaces(t) : Holds(R[x], i, j)
    BY <1>5, CellsHeld
  <2>2. t[x].pane \in PanesIn(t) /\ PlaceOf(t, t[x].pane) = x
    BY LeafFacts
  <2> QED
    BY <1>1, <2>1, <2>2
<1> QED
  BY <1>3, <1>4, <1>5

-----------------------------------------------------------------------------
(* Layout order                                                            *)

\* One place comes before another when they are in the two halves of a split.
LEMMA BeforeIs ==
  ASSUME NEW x \in Place, NEW y \in Place
  PROVE  Before(x, y) <=>
           \E z \in Place : IsPrefix(Append(z, "a"), x) /\ IsPrefix(Append(z, "b"), y)
<1>1. /\ DOMAIN x = 1 .. Len(x) /\ Len(x) \in Nat
      /\ DOMAIN y = 1 .. Len(y) /\ Len(y) \in Nat
  BY PlaceLen
<1>2. ASSUME Before(x, y)
      PROVE  \E z \in Place : IsPrefix(Append(z, "a"), x) /\ IsPrefix(Append(z, "b"), y)
  <2>1. PICK i \in 1 .. Len(x) :
          /\ i <= Len(y) /\ x[i] = "a" /\ y[i] = "b"
          /\ \A j \in 1 .. i - 1 : x[j] = y[j]
    BY <1>1, <1>2 DEF Before
  <2> DEFINE k == i - 1
             z == SubSeq(x, 1, k)
  <2>2. k \in Int /\ k <= Len(x) /\ k >= 0 /\ k + 1 = i
    BY <1>1, <2>1
  <2>3. z \in Place /\ Len(z) = k /\ \A j \in 1 .. k : z[j] = x[j]
    <3> HIDE DEF k
    <3>1. /\ z \in Place /\ Len(z) = IF 1 <= k THEN k - 1 + 1 ELSE 0
          /\ \A j \in 1 .. k - 1 + 1 : z[j] = x[1 + j - 1]
      BY <2>2, SubPlace
    <3> QED
      BY <2>2, <3>1
  <2>4. \A j \in 1 .. k : x[j] = y[j]
    BY <2>1
  <2> HIDE DEF z, k
  <2>5. IsPrefix(z, x) /\ IsPrefix(z, y) /\ Len(x) > Len(z) /\ Len(y) > Len(z)
    BY <1>1, <2>1, <2>2, <2>3, <2>4, PrefixIs
  <2>6. x[Len(z) + 1] = "a" /\ y[Len(z) + 1] = "b"
    BY <2>1, <2>2, <2>3
  <2>7. IsPrefix(Append(z, "a"), x) /\ IsPrefix(Append(z, "b"), y)
    BY <2>3, <2>5, <2>6, PrefixAppend
  <2> QED
    BY <2>3, <2>7
<1>3. ASSUME NEW z \in Place, IsPrefix(Append(z, "a"), x), IsPrefix(Append(z, "b"), y)
      PROVE  Before(x, y)
  <2>1. IsPrefix(z, x) /\ Len(x) > Len(z) /\ x[Len(z) + 1] = "a"
    BY <1>3, PrefixAppend
  <2>2. IsPrefix(z, y) /\ Len(y) > Len(z) /\ y[Len(z) + 1] = "b"
    BY <1>3, PrefixAppend
  <2>3. Len(z) \in Nat
    BY PlaceLen
  <2> DEFINE i == Len(z) + 1
  <2>4. i \in DOMAIN x \cap DOMAIN y
    BY <1>1, <2>1, <2>2, <2>3
  <2>5. \A j \in 1 .. i - 1 : x[j] = y[j]
    BY <2>1, <2>2, <2>3, PrefixIs
  <2> QED
    BY <2>1, <2>2, <2>4, <2>5 DEF Before
<1> QED
  BY <1>2, <1>3

LEMMA BeforeStrict ==
  ASSUME NEW x \in Place, NEW y \in Place, Before(x, y)
  PROVE  x # y /\ ~Before(y, x) /\ ~IsPrefix(x, y) /\ ~IsPrefix(y, x)
<1>1. /\ DOMAIN x = 1 .. Len(x) /\ Len(x) \in Nat
      /\ DOMAIN y = 1 .. Len(y) /\ Len(y) \in Nat
  BY PlaceLen
<1>2. PICK i \in 1 .. Len(x) :
        /\ i <= Len(y) /\ x[i] = "a" /\ y[i] = "b"
        /\ \A j \in 1 .. i - 1 : x[j] = y[j]
  BY <1>1 DEF Before
<1>3. ~IsPrefix(x, y) /\ ~IsPrefix(y, x)
  BY <1>1, <1>2, PrefixIs
<1>4. ASSUME Before(y, x) PROVE FALSE
  <2>1. PICK k \in 1 .. Len(y) :
          /\ k <= Len(x) /\ y[k] = "a" /\ x[k] = "b"
          /\ \A j \in 1 .. k - 1 : y[j] = x[j]
    BY <1>1, <1>4 DEF Before
  <2> QED
    BY <1>1, <1>2, <2>1
<1> QED
  BY <1>2, <1>3, <1>4

LEMMA BeforeTrans ==
  ASSUME NEW x \in Place, NEW y \in Place, NEW z \in Place, Before(x, y), Before(y, z)
  PROVE  Before(x, z)
<1>1. /\ DOMAIN x = 1 .. Len(x) /\ Len(x) \in Nat
      /\ DOMAIN y = 1 .. Len(y) /\ Len(y) \in Nat
      /\ DOMAIN z = 1 .. Len(z) /\ Len(z) \in Nat
  BY PlaceLen
<1>2. PICK i \in 1 .. Len(x) :
        /\ i <= Len(y) /\ x[i] = "a" /\ y[i] = "b"
        /\ \A j \in 1 .. i - 1 : x[j] = y[j]
  BY <1>1 DEF Before
<1>3. PICK k \in 1 .. Len(y) :
        /\ k <= Len(z) /\ y[k] = "a" /\ z[k] = "b"
        /\ \A j \in 1 .. k - 1 : y[j] = z[j]
  BY <1>1 DEF Before
<1>4. CASE i < k
  BY <1>1, <1>2, <1>3, <1>4 DEF Before
<1>5. CASE k < i
  <2>1. k \in DOMAIN x \cap DOMAIN z /\ x[k] = "a" /\ z[k] = "b"
    BY <1>1, <1>2, <1>3, <1>5
  <2>2. \A j \in 1 .. k - 1 : x[j] = z[j]
    BY <1>1, <1>2, <1>3, <1>5
  <2> QED
    BY <2>1, <2>2 DEF Before
<1>6. i # k
  BY <1>2, <1>3
<1> QED
  BY <1>4, <1>5, <1>6

LEMMA BeforeTotal ==
  ASSUME NEW x \in Place, NEW y \in Place, ~IsPrefix(x, y), ~IsPrefix(y, x)
  PROVE  Before(x, y) \/ Before(y, x)
<1>1. PICK z \in Place, s, o \in {"a", "b"} :
        s # o /\ IsPrefix(Append(z, s), x) /\ IsPrefix(Append(z, o), y)
  BY Parting
<1>2. CASE s = "a" /\ o = "b"
  BY <1>1, <1>2, BeforeIs
<1>3. CASE s = "b" /\ o = "a"
  BY <1>1, <1>3, BeforeIs
<1> QED
  BY <1>1, <1>2, <1>3

\* Places none of which is above another, as a tree's leaves are.
Unnested(S) == S \subseteq Place /\ \A x, y \in S : x # y => ~IsPrefix(x, y)

LEMMA LeavesUnnested ==
  ASSUME NEW t, IsTree(t)
  PROVE  Unnested(LeafPlaces(t))
BY LeafFacts, LeavesApart DEF Unnested

LEMMA FirstOfAll ==
  ASSUME NEW S, IsFiniteSet(S), Unnested(S), S # {}
  PROVE  \E x \in S : \A y \in S \ {x} : Before(x, y)
<1> DEFINE below(x) == {y \in S : Before(y, x)}
           F == {below(x) : x \in S}
<1>1. F \in SUBSET FiniteSubsetsOf(S) /\ F # {}
  <2>1. ASSUME NEW x \in S PROVE below(x) \in FiniteSubsetsOf(S)
    <3>1. below(x) \in SUBSET S
      OBVIOUS
    <3> QED
      BY <3>1, FS_Subset DEF FiniteSubsetsOf
  <2> QED
    BY <2>1
<1> HIDE DEF F
<1>2. \E A \in F : \A B \in F : ~(B \subseteq A /\ B # A)
  BY <1>1, FinMin
<1>3. PICK A \in F : \A B \in F : ~(B \subseteq A /\ B # A)
  BY <1>2
<1>4. PICK x \in S : A = below(x)
  BY <1>3 DEF F
<1>5. ASSUME NEW y \in S \ {x}, ~Before(x, y) PROVE FALSE
  <2>1. x \in Place /\ y \in Place /\ ~IsPrefix(x, y) /\ ~IsPrefix(y, x)
    BY <1>5 DEF Unnested
  <2>2. Before(y, x)
    BY <1>5, <2>1, BeforeTotal
  <2>3. y \in below(x) /\ y \notin below(y) /\ below(y) \in F
    BY <2>1, <2>2, BeforeStrict DEF F
  <2>4. below(y) \subseteq below(x)
    <3> SUFFICES ASSUME NEW z \in S, Before(z, y) PROVE Before(z, x)
      OBVIOUS
    <3>1. z \in Place
      BY DEF Unnested
    <3> QED
      BY <2>1, <2>2, <3>1, BeforeTrans
  <2> HIDE DEF below
  <2> QED
    BY <1>3, <1>4, <2>3, <2>4
<1> QED
  BY <1>5

-----------------------------------------------------------------------------
(* Neighbors                                                               *)

LEMMA SharedEdgeIs ==
  ASSUME NEW f \in Rectangle, NEW c \in Rectangle, NEW dir \in Directions,
         f[3] > 0, f[4] > 0, c[3] > 0, c[4] > 0
  PROVE  /\ SharedEdge(f, c, dir) \in Nat
         /\ SharedEdge(f, c, dir) > 0 <=>
              /\ Meets(f, c, dir)
              /\ IF dir \in {"left", "right"} THEN c[2] < Bottom(f) /\ f[2] < Bottom(c)
                 ELSE c[1] < Right(f) /\ f[1] < Right(c)
<1>1. /\ f[1] \in Int /\ f[2] \in Int /\ Right(f) \in Int /\ Bottom(f) \in Int
      /\ c[1] \in Int /\ c[2] \in Int /\ Right(c) \in Int /\ Bottom(c) \in Int
      /\ f[1] < Right(f) /\ f[2] < Bottom(f) /\ c[1] < Right(c) /\ c[2] < Bottom(c)
  BY RectangleIs DEF Right, Bottom
<1>2. /\ Overlap(f[1], Right(f), c[1], Right(c)) \in Nat
      /\ Overlap(f[1], Right(f), c[1], Right(c)) = 0
          <=> Right(f) <= f[1] \/ Right(f) <= c[1] \/ Right(c) <= f[1] \/ Right(c) <= c[1]
  BY <1>1, OverlapIs
<1>3. /\ Overlap(f[2], Bottom(f), c[2], Bottom(c)) \in Nat
      /\ Overlap(f[2], Bottom(f), c[2], Bottom(c)) = 0
          <=> Bottom(f) <= f[2] \/ Bottom(f) <= c[2] \/ Bottom(c) <= f[2] \/ Bottom(c) <= c[2]
  BY <1>1, OverlapIs
<1>4. CASE ~Meets(f, c, dir)
  BY <1>4 DEF SharedEdge
<1>5. CASE Meets(f, c, dir) /\ dir \in {"left", "right"}
  <2>1. SharedEdge(f, c, dir) = Overlap(f[2], Bottom(f), c[2], Bottom(c))
    BY <1>5 DEF SharedEdge, AxisOf
  <2> QED
    BY <1>1, <1>3, <1>5, <2>1
<1>6. CASE Meets(f, c, dir) /\ dir \notin {"left", "right"}
  <2>1. SharedEdge(f, c, dir) = Overlap(f[1], Right(f), c[1], Right(c))
    BY <1>6 DEF SharedEdge, AxisOf, Vertical, Horizontal
  <2> QED
    BY <1>1, <1>2, <1>6, <2>1
<1> QED
  BY <1>4, <1>5, <1>6

\* There is a neighbor when some pane shares an edge, and it is one of the panes.
LEMMA NeighborIs ==
  ASSUME NEW t, IsTree(t), NEW at, NEW p \in PanesIn(t), NEW dir,
         \A q \in PanesIn(t) : SharedEdge(at[p], at[q], dir) \in Nat
  PROVE  /\ Neighbor(t, at, p, dir) \in PanesIn(t) \cup {0}
         /\ Neighbor(t, at, p, dir) # 0 <=>
              \E q \in PanesIn(t) \ {p} : SharedEdge(at[p], at[q], dir) > 0
<1> DEFINE edge(q) == SharedEdge(at[p], at[q], dir)
           others == PanesIn(t) \ {p}
           best == {q \in others : edge(q) > 0 /\ \A o \in others : edge(o) <= edge(q)}
<1>1. Neighbor(t, at, p, dir) =
        IF best = {} THEN 0 ELSE CHOOSE q \in best : \A o \in best \ {q} : Earlier(t, q, o)
  BY DEF Neighbor
<1>2. /\ \A q \in PanesIn(t) : /\ q \in Nat \ {0} /\ PlaceOf(t, q) \in LeafPlaces(t)
                               /\ t[PlaceOf(t, q)].pane = q
      /\ \A x \in LeafPlaces(t) : PlaceOf(t, t[x].pane) = x
      /\ IsFiniteSet(LeafPlaces(t)) /\ Unnested(LeafPlaces(t))
  BY LeafFacts, LeavesUnnested
<1>3. ASSUME best # {} PROVE \E q \in best : \A o \in best \ {q} : Earlier(t, q, o)
  <2> DEFINE S == {x \in LeafPlaces(t) : t[x].pane \in best}
  <2>1. IsFiniteSet(S)
    <3>1. S \in SUBSET LeafPlaces(t)
      OBVIOUS
    <3> HIDE DEF S
    <3> QED
      BY <1>2, <3>1, FS_Subset
  <2>2. Unnested(S)
    BY <1>2 DEF Unnested
  <2>3. \A q \in best : PlaceOf(t, q) \in S
    BY <1>2
  <2>4. S # {}
    BY <1>3, <2>3
  <2>5. \E x \in S : \A y \in S \ {x} : Before(x, y)
    <3> HIDE DEF S
    <3> QED
      BY <2>1, <2>2, <2>4, FirstOfAll
  <2>6. PICK x \in S : \A y \in S \ {x} : Before(x, y)
    BY <2>5
  <2>7. t[x].pane \in best /\ PlaceOf(t, t[x].pane) = x
    BY <1>2
  <2>8. ASSUME NEW o \in best \ {t[x].pane} PROVE Earlier(t, t[x].pane, o)
    <3>1. PlaceOf(t, o) \in S /\ t[PlaceOf(t, o)].pane = o
      BY <1>2, <2>3
    <3>2. PlaceOf(t, o) # x
      BY <3>1
    <3> QED
      BY <2>6, <2>7, <3>1, <3>2 DEF Earlier
  <2> QED
    BY <2>7, <2>8
<1>4. Neighbor(t, at, p, dir) \in best \cup {0} /\ (Neighbor(t, at, p, dir) = 0 <=> best = {})
  <2>1. 0 \notin best
    BY <1>2
  <2> HIDE DEF best
  <2> QED
    BY <1>1, <1>3, <2>1
<1>5. ASSUME NEW q \in others, edge(q) > 0 PROVE best # {}
  <2> DEFINE N == {edge(o) : o \in others}
             f == [o \in others |-> edge(o)]
  <2>1. N \subseteq Nat /\ N # {}
    BY <1>5
  <2>2. IsFiniteSet(N)
    <3>1. IsFiniteSet(others)
      <4> DEFINE g == [x \in LeafPlaces(t) |-> t[x].pane]
      <4>1. g \in Surjection(LeafPlaces(t), PanesIn(t))
        BY DEF Surjection, PanesIn
      <4>2. IsFiniteSet(PanesIn(t))
        <5> HIDE DEF g
        <5> QED
          BY <1>2, <4>1, FS_Surjection
      <4> QED
        BY <4>2, FS_RemoveElement
    <3>2. f \in Surjection(others, N)
      BY DEF Surjection
    <3> HIDE DEF f, N, others
    <3> QED
      BY <3>1, <3>2, FS_Surjection
  <2>3. \E n \in N : \A m \in N : m <= n
    <3> HIDE DEF N
    <3> QED
      BY <2>1, <2>2, FinMax
  <2>4. PICK o \in others : \A m \in N : m <= edge(o)
    BY <2>3
  <2>5. \A u \in others : edge(u) <= edge(o)
    BY <2>4
  <2>6. edge(o) \in Nat /\ edge(q) \in Nat
    OBVIOUS
  <2>7. edge(o) > 0
    BY <1>5, <2>5, <2>6
  <2> QED
    BY <2>5, <2>7
<1> QED
  BY <1>4, <1>5

\* A pane that does not end at the side of a layout has a neighbor there.
LEMMA SidesCross ==
  ASSUME NEW t, IsTree(t), RootRect \in Rectangle, Roomy(t, RootRect),
         NEW p \in PanesIn(t), NEW dir \in Directions
  PROVE  (Neighbor(t, Laid(t, RootRect), p, dir) # 0) <=> ~AtSide(Laid(t, RootRect)[p], dir)
<1> DEFINE at == Laid(t, RootRect)
<1>1. /\ \A q \in PanesIn(t) : at[q] \in Rectangle /\ at[q][3] > 0 /\ at[q][4] > 0 /\ Inside(at[q], RootRect)
      /\ \A q, o \in PanesIn(t) : q # o => Apart(at[q], at[o])
      /\ \A i, j \in Int : Holds(RootRect, i, j) => \E q \in PanesIn(t) : Holds(at[q], i, j)
  BY TreeTiles
<1> HIDE DEF at
<1>2. RootRect[1] = 0 /\ RootRect[2] = 0 /\ Right(RootRect) = RootRect[3] /\ Bottom(RootRect) = RootRect[4]
      /\ RootRect[3] \in Nat /\ RootRect[4] \in Nat
  <2>1. RootRect[3] \in Nat /\ RootRect[4] \in Nat
    BY DEF Rectangle
  <2>2. RootRect[1] = 0 /\ RootRect[2] = 0
    BY DEF RootRect, RootOf
  <2> QED
    BY <2>1, <2>2 DEF Right, Bottom
<1>3. ASSUME NEW q \in PanesIn(t)
      PROVE  /\ at[q][1] \in Int /\ at[q][2] \in Int /\ Right(at[q]) \in Int /\ Bottom(at[q]) \in Int
             /\ 0 <= at[q][1] /\ at[q][1] < Right(at[q]) /\ Right(at[q]) <= RootRect[3]
             /\ 0 <= at[q][2] /\ at[q][2] < Bottom(at[q]) /\ Bottom(at[q]) <= RootRect[4]
  <2>1. at[q][1] \in Int /\ at[q][2] \in Int /\ Right(at[q]) \in Int /\ Bottom(at[q]) \in Int
        /\ at[q][1] < Right(at[q]) /\ at[q][2] < Bottom(at[q])
    BY <1>1, RectangleIs DEF Right, Bottom
  <2>2. Inside(at[q], RootRect)
    BY <1>1
  <2> QED
    BY <1>2, <2>1, <2>2 DEF Inside
<1>4. \A q \in PanesIn(t) :
        /\ SharedEdge(at[p], at[q], dir) \in Nat
        /\ SharedEdge(at[p], at[q], dir) > 0 <=>
              /\ Meets(at[p], at[q], dir)
              /\ IF dir \in {"left", "right"} THEN at[q][2] < Bottom(at[p]) /\ at[p][2] < Bottom(at[q])
                 ELSE at[q][1] < Right(at[p]) /\ at[p][1] < Right(at[q])
  BY <1>1, SharedEdgeIs
<1>5. Neighbor(t, at, p, dir) # 0 <=>
        \E q \in PanesIn(t) \ {p} : SharedEdge(at[p], at[q], dir) > 0
  BY <1>4, NeighborIs
<1>6. ASSUME NEW q \in PanesIn(t) \ {p}, SharedEdge(at[p], at[q], dir) > 0 PROVE ~AtSide(at[p], dir)
  <2>1. Meets(at[p], at[q], dir)
    BY <1>4, <1>6
  <2> QED
    BY <1>2, <1>3, <2>1 DEF AtSide, Meets, Directions
\* The cell just beyond the pane's first one on that side.
<1>7. ASSUME ~AtSide(at[p], dir)
      PROVE  \E q \in PanesIn(t) \ {p} : SharedEdge(at[p], at[q], dir) > 0
  <2> DEFINE i == IF dir = "left" THEN at[p][1] - 1 ELSE IF dir = "right" THEN Right(at[p]) ELSE at[p][1]
             j == IF dir = "up" THEN at[p][2] - 1 ELSE IF dir = "down" THEN Bottom(at[p]) ELSE at[p][2]
  <2>1. i \in Int /\ j \in Int
    BY <1>3
  <2>2. Holds(RootRect, i, j)
    BY <1>2, <1>3, <1>7 DEF Holds, AtSide, Directions
  <2>3. ~Holds(at[p], i, j)
    BY <1>3 DEF Holds, Directions
  <2>4. PICK q \in PanesIn(t) : Holds(at[q], i, j)
    <3> HIDE DEF i, j
    <3> QED
      BY <1>1, <2>1, <2>2
  <2>5. q # p
    BY <2>3, <2>4
  <2>6. \/ Right(at[p]) <= at[q][1] \/ Right(at[q]) <= at[p][1]
        \/ Bottom(at[p]) <= at[q][2] \/ Bottom(at[q]) <= at[p][2]
    BY <1>1, <2>5, ApartIs
  <2>7. at[q][1] <= i /\ i < Right(at[q]) /\ at[q][2] <= j /\ j < Bottom(at[q])
    BY <2>4 DEF Holds
  <2>8. Meets(at[p], at[q], dir)
    BY <1>3, <2>6, <2>7 DEF Meets, Directions
  <2>9. IF dir \in {"left", "right"} THEN at[q][2] < Bottom(at[p]) /\ at[p][2] < Bottom(at[q])
        ELSE at[q][1] < Right(at[p]) /\ at[p][1] < Right(at[q])
    BY <1>3, <2>7 DEF Directions
  <2> QED
    BY <1>4, <2>5, <2>8, <2>9
<1> QED
  BY <1>5, <1>6, <1>7 DEF at

-----------------------------------------------------------------------------
(* Changing a tree keeps it a tree                                         *)

LEMMA NodeFacts ==
  /\ \A p : IsLeaf(LeafNode(p)) /\ LeafNode(p).pane = p
  /\ \A p \in Nat \ {0} : LeafNode(p) \in [pane : Nat \ {0}]
  /\ \A s, r : ~IsLeaf(Internal(s, r)) /\ Internal(s, r).split = s /\ Internal(s, r).ratio = r
  /\ \A s \in Axes, r \in 0 .. Whole : Internal(s, r) \in [split : Axes, ratio : 0 .. Whole]
BY DEF IsLeaf, LeafNode, Internal

\* Trees of one shape that are split alike are laid out alike.
LEMMA SameRects ==
  ASSUME NEW t, IsTree(t), NEW u, IsTree(u), DOMAIN u = DOMAIN t, NEW r,
         \A x \in DOMAIN t : ~IsLeaf(t[x]) => u[x] = t[x]
  PROVE  \A x \in DOMAIN t : Rects(u, r)[x] = Rects(t, r)[x]
<1> DEFINE G == {x \in DOMAIN t : Rects(u, r)[x] = Rects(t, r)[x]}
<1>1. <<>> \in G
  BY TreeFacts, RectsAre
<1>2. ASSUME NEW x \in DOMAIN t, ~IsLeaf(t[x]), x \in G
      PROVE  Append(x, "a") \in G /\ Append(x, "b") \in G
  <2>1. Append(x, "a") \in DOMAIN t /\ Append(x, "b") \in DOMAIN t
    BY <1>2, TreeFacts
  <2>2. u[x] = t[x] /\ x \in DOMAIN u /\ ~IsLeaf(u[x])
    BY <1>2
  <2>3. /\ Rects(t, r)[Append(x, "a")] = Halves(Rects(t, r)[x], t[x].split, t[x].ratio)[1]
        /\ Rects(t, r)[Append(x, "b")] = Halves(Rects(t, r)[x], t[x].split, t[x].ratio)[2]
    BY <1>2, RectsAre
  <2>4. /\ Rects(u, r)[Append(x, "a")] = Halves(Rects(u, r)[x], t[x].split, t[x].ratio)[1]
        /\ Rects(u, r)[Append(x, "b")] = Halves(Rects(u, r)[x], t[x].split, t[x].ratio)[2]
    BY <2>2, RectsAre
  <2>5. Rects(u, r)[x] = Rects(t, r)[x]
    BY <1>2
  <2> QED
    BY <2>1, <2>3, <2>4, <2>5
<1> HIDE DEF G
<1>3. \A x \in DOMAIN t : x \in G
  BY <1>1, <1>2, TreeAll
<1> QED
  BY <1>3 DEF G

LEMMA RelabelTree ==
  ASSUME NEW t, IsTree(t), NEW f,
         \A p \in PanesIn(t) : f[p] \in Nat \ {0},
         \A p, q \in PanesIn(t) : f[p] = f[q] => p = q
  PROVE  LET u == Relabel(t, f) IN
         /\ IsTree(u) /\ DOMAIN u = DOMAIN t /\ LeafPlaces(u) = LeafPlaces(t)
         /\ \A x \in DOMAIN t : ~IsLeaf(t[x]) => u[x] = t[x]
         /\ PanesIn(u) = {f[p] : p \in PanesIn(t)}
         /\ \A p \in PanesIn(t) : PlaceOf(u, f[p]) = PlaceOf(t, p)
<1> DEFINE u == Relabel(t, f)
<1>1. /\ DOMAIN u = DOMAIN t
      /\ \A x \in DOMAIN t : u[x] = IF IsLeaf(t[x]) THEN LeafNode(f[t[x].pane]) ELSE t[x]
  BY DEF Relabel
<1> HIDE DEF u
<1>2. \A x \in DOMAIN t : IsLeaf(u[x]) <=> IsLeaf(t[x])
  BY <1>1, NodeFacts
<1>3. LeafPlaces(u) = LeafPlaces(t)
  BY <1>1, <1>2 DEF LeafPlaces
<1>4. \A x \in LeafPlaces(t) : u[x].pane = f[t[x].pane] /\ t[x].pane \in PanesIn(t)
  <2> SUFFICES ASSUME NEW x \in LeafPlaces(t) PROVE u[x].pane = f[t[x].pane] /\ t[x].pane \in PanesIn(t)
    OBVIOUS
  <2>1. x \in DOMAIN t /\ IsLeaf(t[x]) /\ t[x].pane \in PanesIn(t)
    BY LeafFacts DEF LeafPlaces
  <2>2. u[x] = LeafNode(f[t[x].pane])
    BY <1>1, <2>1
  <2>3. LeafNode(f[t[x].pane]).pane = f[t[x].pane]
    BY NodeFacts
  <2> QED
    BY <2>1, <2>2, <2>3
<1>5. \A x \in DOMAIN t : ~IsLeaf(t[x]) => u[x] = t[x]
  BY <1>1
<1>6. IsTree(u)
  <2>1. IsFiniteSet(DOMAIN u) /\ DOMAIN u \subseteq Seq({"a", "b"}) /\ <<>> \in DOMAIN u
    BY <1>1, TreeFacts DEF Place
  <2>2. ASSUME NEW x \in DOMAIN u
        PROVE  /\ x # <<>> => Front(x) \in DOMAIN u /\ ~IsLeaf(u[Front(x)])
               /\ ~IsLeaf(u[x]) => /\ u[x] \in [split : Axes, ratio : 0 .. Whole]
                                   /\ Append(x, "a") \in DOMAIN u /\ Append(x, "b") \in DOMAIN u
    BY <1>1, <1>2, <1>5, TreeFacts
  <2>3. ASSUME NEW x \in DOMAIN u, IsLeaf(u[x]) PROVE u[x] \in [pane : Nat \ {0}]
    <3>1. IsLeaf(t[x]) /\ x \in LeafPlaces(t)
      BY <1>1, <1>2, <2>3 DEF LeafPlaces
    <3>2. u[x] = LeafNode(f[t[x].pane]) /\ t[x].pane \in PanesIn(t)
      BY <1>1, <2>3, <3>1, LeafFacts
    <3> QED
      BY <3>2, NodeFacts
  <2>4. \A x, y \in LeafPlaces(u) : u[x].pane = u[y].pane => x = y
    BY <1>3, <1>4, TreeFacts
  <2> QED
    BY <2>1, <2>2, <2>3, <2>4 DEF IsTree
<1>7. PanesIn(u) = {f[p] : p \in PanesIn(t)}
  BY <1>3, <1>4 DEF PanesIn
<1>8. ASSUME NEW p \in PanesIn(t) PROVE PlaceOf(u, f[p]) = PlaceOf(t, p)
  <2>1. PlaceOf(t, p) \in LeafPlaces(u) /\ u[PlaceOf(t, p)].pane = f[p]
    BY <1>3, <1>4, LeafFacts
  <2> QED
    BY <1>6, <2>1, LeafFacts
<1> QED
  BY <1>1, <1>3, <1>5, <1>6, <1>7, <1>8 DEF u

LEMMA SetRatioTree ==
  ASSUME NEW t, IsTree(t), NEW x \in DOMAIN t, ~IsLeaf(t[x]), NEW ratio \in 0 .. Whole
  PROVE  IsTree(SetRatio(t, x, ratio)) /\ PanesIn(SetRatio(t, x, ratio)) = PanesIn(t)
<1> DEFINE u == SetRatio(t, x, ratio)
<1>1. /\ DOMAIN u = DOMAIN t
      /\ \A y \in DOMAIN t : u[y] = IF y = x THEN Internal(t[x].split, ratio) ELSE t[y]
  BY DEF SetRatio
<1> HIDE DEF u
<1>2. \A y \in DOMAIN t : (IsLeaf(u[y]) <=> IsLeaf(t[y])) /\ (IsLeaf(t[y]) => u[y] = t[y])
  BY <1>1, NodeFacts
<1>3. LeafPlaces(u) = LeafPlaces(t) /\ \A y \in LeafPlaces(t) : u[y] = t[y]
  BY <1>1, <1>2 DEF LeafPlaces
<1>4. IsTree(u)
  <2>1. IsFiniteSet(DOMAIN u) /\ DOMAIN u \subseteq Seq({"a", "b"}) /\ <<>> \in DOMAIN u
    BY <1>1, TreeFacts DEF Place
  <2>2. ASSUME NEW y \in DOMAIN u
        PROVE  /\ y # <<>> => Front(y) \in DOMAIN u /\ ~IsLeaf(u[Front(y)])
               /\ ~IsLeaf(u[y]) => Append(y, "a") \in DOMAIN u /\ Append(y, "b") \in DOMAIN u
               /\ IsLeaf(u[y]) => u[y] \in [pane : Nat \ {0}]
    BY <1>1, <1>2, TreeFacts
  <2>3. ASSUME NEW y \in DOMAIN u, ~IsLeaf(u[y]) PROVE u[y] \in [split : Axes, ratio : 0 .. Whole]
    <3>1. t[x].split \in Axes
      BY TreeFacts
    <3>2. Internal(t[x].split, ratio) \in [split : Axes, ratio : 0 .. Whole]
      BY <3>1, NodeFacts
    <3>3. ~IsLeaf(t[y]) /\ t[y] \in [split : Axes, ratio : 0 .. Whole]
      BY <1>1, <1>2, <2>3, TreeFacts
    <3> QED
      BY <1>1, <3>2, <3>3
  <2>4. \A y, z \in LeafPlaces(u) : u[y].pane = u[z].pane => y = z
    BY <1>3, TreeFacts
  <2> QED
    BY <2>1, <2>2, <2>3, <2>4 DEF IsTree
<1>5. PanesIn(u) = PanesIn(t)
  BY <1>3 DEF PanesIn
<1> QED
  BY <1>4, <1>5 DEF u

LEMMA SplitLeafTree ==
  ASSUME NEW t, IsTree(t), NEW p \in PanesIn(t), NEW split \in Axes, NEW ratio \in 0 .. Whole,
         NEW new \in Nat \ {0}, new \notin PanesIn(t)
  PROVE  /\ IsTree(SplitLeaf(t, p, split, ratio, new))
         /\ PanesIn(SplitLeaf(t, p, split, ratio, new)) = PanesIn(t) \cup {new}
<1> DEFINE u == SplitLeaf(t, p, split, ratio, new)
           x == PlaceOf(t, p)
           first == Append(x, "a")
           second == Append(x, "b")
<1>1. /\ DOMAIN u = DOMAIN t \cup {first, second}
      /\ \A y \in DOMAIN u : u[y] = IF y = x THEN Internal(split, ratio)
                                    ELSE IF y = first THEN LeafNode(p)
                                    ELSE IF y = second THEN LeafNode(new) ELSE t[y]
  BY DEF SplitLeaf
<1>2. x \in LeafPlaces(t) /\ x \in DOMAIN t /\ IsLeaf(t[x]) /\ t[x].pane = p /\ x \in Place
  BY LeafFacts DEF LeafPlaces
<1> HIDE DEF u, x
<1>3. /\ first \in Place /\ second \in Place /\ first # <<>> /\ second # <<>>
      /\ Front(first) = x /\ Front(second) = x /\ first # second
      /\ first # x /\ second # x
  <2>1. first # x /\ second # x
    BY <1>2, PrefixAppend, PrefixRefl
  <2> QED
    BY <1>2, <2>1, AppendIs, SidesDiffer
<1>4. first \notin DOMAIN t /\ second \notin DOMAIN t
  BY <1>2, <1>3, TreeFacts
<1>5. /\ u[x] = Internal(split, ratio) /\ u[first] = LeafNode(p) /\ u[second] = LeafNode(new)
      /\ \A y \in DOMAIN t : y # x => u[y] = t[y]
  BY <1>1, <1>2, <1>3, <1>4
<1>6. \A y \in DOMAIN u : y = x \/ y = first \/ y = second \/ (y \in DOMAIN t /\ y # x)
  BY <1>1
<1>7. ~IsLeaf(u[x]) /\ IsLeaf(u[first]) /\ IsLeaf(u[second])
      /\ u[first].pane = p /\ u[second].pane = new
  BY <1>5, NodeFacts
<1>8. LeafPlaces(u) = (LeafPlaces(t) \ {x}) \cup {first, second}
  BY <1>1, <1>4, <1>5, <1>6, <1>7 DEF LeafPlaces
<1>9. IsTree(u)
  <2>1. IsFiniteSet(DOMAIN u) /\ DOMAIN u \subseteq Seq({"a", "b"}) /\ <<>> \in DOMAIN u
    <3>1. IsFiniteSet(DOMAIN t)
      BY TreeFacts
    <3>2. IsFiniteSet({first, second})
      <4>1. IsFiniteSet({first}) /\ IsFiniteSet({second})
        BY FS_Singleton
      <4>2. IsFiniteSet({first} \cup {second})
        BY <4>1, FS_Union
      <4>3. {first, second} = {first} \cup {second}
        OBVIOUS
      <4> QED
        BY <4>2, <4>3
    <3>3. IsFiniteSet(DOMAIN u)
      <4> HIDE DEF first, second
      <4> QED
        BY <1>1, <3>1, <3>2, FS_Union
    <3> QED
      BY <1>1, <1>3, <3>3, TreeFacts DEF Place
  <2>2. ASSUME NEW y \in DOMAIN u, y # <<>> PROVE Front(y) \in DOMAIN u /\ ~IsLeaf(u[Front(y)])
    <3>1. CASE y \in {first, second}
      BY <1>1, <1>2, <1>3, <1>7, <3>1
    <3>2. CASE y \in DOMAIN t
      <4>1. Front(y) \in DOMAIN t /\ ~IsLeaf(t[Front(y)])
        BY <2>2, <3>2, TreeFacts
      <4>2. Front(y) # x
        BY <1>2, <4>1
      <4> QED
        BY <1>1, <1>5, <4>1, <4>2
    <3> QED
      BY <1>1, <3>1, <3>2
  <2>3. ASSUME NEW y \in DOMAIN u, ~IsLeaf(u[y])
        PROVE  /\ u[y] \in [split : Axes, ratio : 0 .. Whole]
               /\ Append(y, "a") \in DOMAIN u /\ Append(y, "b") \in DOMAIN u
    <3>1. CASE y = x
      <4>1. u[y] \in [split : Axes, ratio : 0 .. Whole]
        BY <1>5, <3>1, NodeFacts
      <4> QED
        BY <1>1, <3>1, <4>1
    <3>2. CASE y \in DOMAIN t /\ y # x
      BY <1>1, <1>5, <2>3, <3>2, TreeFacts
    <3> QED
      BY <1>6, <1>7, <2>3, <3>1, <3>2
  <2>4. ASSUME NEW y \in DOMAIN u, IsLeaf(u[y]) PROVE u[y] \in [pane : Nat \ {0}]
    <3>1. CASE y \in DOMAIN t /\ y # x
      BY <1>5, <2>4, <3>1, TreeFacts
    <3>2. p \in Nat \ {0}
      BY LeafFacts
    <3>3. CASE y \in {first, second}
      BY <1>5, <3>2, <3>3, NodeFacts
    <3> QED
      BY <1>6, <1>7, <2>4, <3>1, <3>3
  <2>5. ASSUME NEW y \in LeafPlaces(u), NEW z \in LeafPlaces(u), u[y].pane = u[z].pane PROVE y = z
    <3>1. \A v \in LeafPlaces(t) \ {x} : u[v] = t[v] /\ t[v].pane # p /\ t[v].pane # new
      <4>1. \A v \in LeafPlaces(t) : t[v].pane \in PanesIn(t)
        BY LeafFacts
      <4>2. \A v \in LeafPlaces(t) : t[v].pane = p => v = x
        BY <1>2, TreeFacts
      <4> QED
        BY <1>5, <4>1, <4>2, LeafFacts
    <3>2. p # new
      OBVIOUS
    <3>3. \A v, w \in LeafPlaces(t) : t[v].pane = t[w].pane => v = w
      BY TreeFacts
    <3>4. \A v \in LeafPlaces(u) :
            v = first \/ v = second \/ (v \in LeafPlaces(t) /\ u[v].pane = t[v].pane /\ u[v].pane # p /\ u[v].pane # new)
      BY <1>8, <3>1
    <3>5. u[first].pane = p /\ u[second].pane = new
      BY <1>7
    <3> HIDE DEF first, second
    <3> QED
      BY <2>5, <3>2, <3>3, <3>4, <3>5
  <2> QED
    BY <2>1, <2>2, <2>3, <2>4, <2>5 DEF IsTree
<1>10. PanesIn(u) = PanesIn(t) \cup {new}
  <2>1. \A y \in LeafPlaces(t) \ {x} : u[y] = t[y]
    BY <1>5, LeafFacts
  <2>2. ASSUME NEW q \in PanesIn(u) PROVE q \in PanesIn(t) \cup {new}
    <3>1. PICK y \in LeafPlaces(u) : q = u[y].pane
      BY <2>2 DEF PanesIn
    <3>2. CASE y \in LeafPlaces(t) \ {x}
      BY <2>1, <3>1, <3>2, LeafFacts
    <3> QED
      BY <1>7, <1>8, <3>1, <3>2
  <2>3. ASSUME NEW q \in PanesIn(t), q # p PROVE q \in PanesIn(u)
    <3>1. PICK y \in LeafPlaces(t) : q = t[y].pane
      BY <2>3 DEF PanesIn
    <3>2. y \in LeafPlaces(u) /\ u[y].pane = q
      BY <1>2, <1>8, <2>1, <2>3, <3>1
    <3> QED
      BY <3>2 DEF PanesIn
  <2>4. p \in PanesIn(u) /\ new \in PanesIn(u)
    <3>1. first \in LeafPlaces(u) /\ second \in LeafPlaces(u)
      BY <1>8
    <3> HIDE DEF first, second
    <3> QED
      BY <1>7, <3>1 DEF PanesIn
  <2> QED
    BY <2>2, <2>3, <2>4
<1> QED
  BY <1>9, <1>10 DEF u

\* What is below a place moves up one step, to where the place above it was.
LEMMA MovedIs ==
  ASSUME NEW f \in Place, NEW o \in {"a", "b"}, NEW y \in Place, IsPrefix(Append(f, o), y)
  PROVE  LET m == Moved(y, Append(f, o), f) IN
         /\ m \in Place /\ Len(m) = Len(y) - 1 /\ Len(y) > Len(f)
         /\ \A i \in 1 .. Len(f) : m[i] = y[i]
         /\ \A i \in Len(f) + 1 .. Len(y) - 1 : m[i] = y[i + 1]
         /\ IsPrefix(f, m)
<1> DEFINE s == Append(f, o)
           k == Len(f) + 2
           u == SubSeq(y, k, Len(y))
           m == Moved(y, s, f)
<1>1. Len(f) \in Nat /\ Len(y) \in Nat
  BY PlaceLen
<1>2. s \in Place /\ Len(s) = Len(f) + 1
  BY AppendIs
<1>3. IsPrefix(f, y) /\ Len(y) > Len(f)
  BY PrefixAppend
<1>4. m = f \o u
  <2>1. Len(s) + 1 = k
    BY <1>1, <1>2
  <2>2. m = f \o SubSeq(y, Len(s) + 1, Len(y))
    BY DEF Moved
  <2> QED
    BY <2>1, <2>2
<1>5. k \in Int /\ 1 <= k
  BY <1>1
<1>6. /\ u \in Place /\ Len(u) = IF k <= Len(y) THEN Len(y) - k + 1 ELSE 0
      /\ \A i \in 1 .. Len(y) - k + 1 : u[i] = y[k + i - 1]
  <2> HIDE DEF k
  <2> QED
    BY <1>1, <1>5, SubPlace
<1> HIDE DEF u
<1>7. /\ f \o u \in Place /\ Len(f \o u) = Len(f) + Len(u)
      /\ \A i \in 1 .. Len(f) + Len(u) : (f \o u)[i] = IF i <= Len(f) THEN f[i] ELSE u[i - Len(f)]
  BY <1>6, ConcatProperties DEF Place
<1> HIDE DEF m
<1>8. Len(u) = Len(y) - Len(f) - 1
  BY <1>1, <1>3, <1>6
<1>9. m \in Place /\ Len(m) = Len(y) - 1
  BY <1>1, <1>4, <1>7, <1>8
<1>10. \A i \in 1 .. Len(f) : m[i] = f[i] /\ f[i] = y[i]
  BY <1>1, <1>3, <1>4, <1>7, <1>8, PrefixIs
<1>11. \A i \in Len(f) + 1 .. Len(y) - 1 : m[i] = y[i + 1]
  <2> SUFFICES ASSUME NEW i \in Len(f) + 1 .. Len(y) - 1 PROVE m[i] = y[i + 1]
    OBVIOUS
  <2>1. i \in Int /\ i >= Len(f) + 1 /\ i <= Len(y) - 1
    BY <1>1
  <2>2. m[i] = u[i - Len(f)]
    BY <1>1, <1>4, <1>7, <1>8, <2>1
  <2>3. i - Len(f) \in 1 .. Len(y) - k + 1
    BY <1>1, <2>1
  <2>4. u[i - Len(f)] = y[k + (i - Len(f)) - 1]
    BY <1>6, <2>3
  <2>5. k + (i - Len(f)) - 1 = i + 1
    BY <1>1, <2>1
  <2> QED
    BY <2>2, <2>4, <2>5
<1>12. IsPrefix(f, m)
  BY <1>1, <1>3, <1>9, <1>10, PrefixIs
<1> QED
  BY <1>3, <1>9, <1>10, <1>11, <1>12 DEF m, s

LEMMA MovedAgain ==
  ASSUME NEW f \in Place, NEW o \in {"a", "b"}
  PROVE  LET s == Append(f, o) IN
         /\ \A y \in Place : ~IsPrefix(s, y) => Moved(y, s, f) = y
         /\ Moved(s, s, f) = f
         /\ \A y, z \in Place : IsPrefix(s, y) /\ IsPrefix(s, z) /\ Moved(y, s, f) = Moved(z, s, f) => y = z
         /\ \A y \in Place, c \in {"a", "b"} :
              IsPrefix(s, y) => IsPrefix(s, Append(y, c)) /\ Moved(Append(y, c), s, f) = Append(Moved(y, s, f), c)
         /\ \A y \in Place : IsPrefix(s, y) /\ y # s =>
              y # <<>> /\ IsPrefix(s, Front(y)) /\ Front(Moved(y, s, f)) = Moved(Front(y), s, f)
<1> DEFINE s == Append(f, o)
           g(y) == Moved(y, s, f)
<1>1. s \in Place /\ Len(s) = Len(f) + 1 /\ Len(f) \in Nat
  BY AppendIs, PlaceLen
<1>2. \A y \in Place : ~IsPrefix(s, y) => g(y) = y
  BY DEF Moved
<1>3. \A y \in Place : IsPrefix(s, y) =>
        /\ g(y) \in Place /\ Len(g(y)) = Len(y) - 1 /\ Len(y) > Len(f)
        /\ \A i \in 1 .. Len(f) : g(y)[i] = y[i]
        /\ \A i \in Len(f) + 1 .. Len(y) - 1 : g(y)[i] = y[i + 1]
        /\ IsPrefix(f, g(y))
  BY MovedIs
<1>4. \A y \in Place : IsPrefix(s, y) => Len(y) \in Nat /\ \A i \in 1 .. Len(f) : y[i] = s[i]
  <2> HIDE DEF s, g
  <2> SUFFICES ASSUME NEW y \in Place, IsPrefix(s, y)
               PROVE  Len(y) \in Nat /\ \A i \in 1 .. Len(f) : y[i] = s[i]
    OBVIOUS
  <2>1. Len(y) \in Nat /\ \A i \in 1 .. Len(s) : s[i] = y[i]
    BY <1>1, PrefixIs, PlaceLen
  <2>2. \A i \in 1 .. Len(f) : i \in 1 .. Len(s)
    BY <1>1
  <2> QED
    BY <2>1, <2>2
<1>5. \A y \in Place : IsPrefix(s, y) => y[Len(f) + 1] = o
  BY PrefixAppend
<1> HIDE DEF g, s
<1>6. g(s) = f
  <2>1. IsPrefix(s, s)
    BY <1>1, PrefixRefl
  <2>2. g(s) \in Place /\ Len(g(s)) = Len(f) /\ IsPrefix(f, g(s))
    BY <1>1, <1>3, <2>1
  <2>3. \A i \in 1 .. Len(f) : f[i] = g(s)[i]
    BY <2>2, PrefixIs
  <2> QED
    BY <2>2, <2>3, PlaceEqual
<1>7. ASSUME NEW y \in Place, NEW z \in Place, IsPrefix(s, y), IsPrefix(s, z), g(y) = g(z) PROVE y = z
  <2>1. Len(y) = Len(z) /\ Len(y) \in Nat /\ Len(y) > Len(f)
    BY <1>3, <1>4, <1>7
  <2>2. ASSUME NEW i \in 1 .. Len(y) PROVE y[i] = z[i]
    <3>1. CASE i <= Len(f)
      <4>1. i \in 1 .. Len(f)
        BY <1>1, <3>1
      <4>2. y[i] = s[i] /\ z[i] = s[i]
        BY <1>4, <1>7, <4>1
      <4> QED
        BY <4>2
    <3>2. CASE i = Len(f) + 1
      BY <1>5, <1>7, <3>2
    <3>3. CASE i > Len(f) + 1
      <4>1. i - 1 \in Len(f) + 1 .. Len(y) - 1
        BY <1>1, <2>1, <3>3
      <4>2. g(y)[i - 1] = y[(i - 1) + 1] /\ g(z)[i - 1] = z[(i - 1) + 1]
        BY <1>3, <1>7, <2>1, <4>1
      <4>3. (i - 1) + 1 = i
        OBVIOUS
      <4> QED
        BY <1>7, <4>2, <4>3
    <3> QED
      BY <1>1, <3>1, <3>2, <3>3
  <2> QED
    BY <2>1, <2>2, PlaceEqual
<1>8. ASSUME NEW y \in Place, NEW c \in {"a", "b"}, IsPrefix(s, y)
      PROVE  IsPrefix(s, Append(y, c)) /\ g(Append(y, c)) = Append(g(y), c)
  <2> DEFINE z == Append(y, c)
             m == Append(g(y), c)
  <2>1. /\ z \in Place /\ Len(z) = Len(y) + 1 /\ \A i \in 1 .. Len(y) : z[i] = y[i]
        /\ z[Len(y) + 1] = c
    BY AppendIs
  <2>2. IsPrefix(s, z)
    BY <1>1, <1>8, <2>1, PrefixAppend, PrefixTrans
  <2>3. g(y) \in Place /\ Len(g(y)) = Len(y) - 1 /\ Len(y) \in Nat /\ Len(y) > Len(f)
    BY <1>3, <1>4, <1>8
  <2>4. /\ m \in Place /\ Len(m) = Len(g(y)) + 1 /\ \A i \in 1 .. Len(g(y)) : m[i] = g(y)[i]
        /\ m[Len(g(y)) + 1] = c
    BY <2>3, AppendIs
  <2> HIDE DEF z, m
  <2>5. /\ g(z) \in Place /\ Len(g(z)) = Len(z) - 1
        /\ \A i \in 1 .. Len(f) : g(z)[i] = z[i]
        /\ \A i \in Len(f) + 1 .. Len(z) - 1 : g(z)[i] = z[i + 1]
    BY <1>3, <2>1, <2>2
  <2>6. Len(g(z)) = Len(m)
    BY <2>1, <2>3, <2>4, <2>5
  <2>7. ASSUME NEW i \in 1 .. Len(g(z)) PROVE g(z)[i] = m[i]
    <3>1. i \in Int /\ 1 <= i /\ i <= Len(y)
      BY <2>1, <2>3, <2>5
    <3>2. CASE i <= Len(f)
      <4>1. g(z)[i] = z[i] /\ z[i] = y[i] /\ g(y)[i] = y[i]
        BY <1>1, <1>3, <1>8, <2>1, <2>5, <3>1, <3>2
      <4>2. m[i] = g(y)[i]
        BY <2>3, <2>4, <3>1, <3>2
      <4> QED
        BY <4>1, <4>2
    <3>3. CASE i > Len(f) /\ i < Len(y)
      <4>1. g(z)[i] = z[i + 1]
        BY <1>1, <2>1, <2>3, <2>5, <3>1, <3>3
      <4>2. z[i + 1] = y[i + 1]
        BY <2>1, <2>3, <3>1, <3>3
      <4>3. g(y)[i] = y[i + 1]
        BY <1>1, <1>3, <1>8, <2>3, <3>1, <3>3
      <4>4. m[i] = g(y)[i]
        BY <2>3, <2>4, <3>1, <3>3
      <4> QED
        BY <4>1, <4>2, <4>3, <4>4
    <3>4. CASE i > Len(f) /\ i = Len(y)
      <4>1. g(z)[i] = z[i + 1]
        BY <1>1, <2>1, <2>3, <2>5, <3>1, <3>4
      <4>2. m[i] = c
        BY <2>3, <2>4, <3>1, <3>4
      <4> QED
        BY <2>1, <3>4, <4>1, <4>2
    <3> QED
      BY <1>1, <2>3, <3>1, <3>2, <3>3, <3>4
  <2>8. g(z) = m
    BY <2>4, <2>5, <2>6, <2>7, PlaceEqual
  <2> QED
    BY <2>2, <2>8 DEF z, m
<1>9. ASSUME NEW y \in Place, IsPrefix(s, y), y # s
      PROVE  y # <<>> /\ IsPrefix(s, Front(y)) /\ Front(g(y)) = g(Front(y))
  <2>1. y # <<>>
    BY <1>1, <1>3, <1>9, RootPlace
  <2>2. Front(y) \in Place /\ Last(y) \in {"a", "b"} /\ Append(Front(y), Last(y)) = y
    BY <2>1, FrontIs, AppendFront
  <2>3. IsPrefix(s, Front(y))
    BY <1>1, <1>9, <2>1, PrefixFront
  <2>4. g(y) = Append(g(Front(y)), Last(y)) /\ g(Front(y)) \in Place
    BY <1>3, <1>8, <2>2, <2>3
  <2>5. Front(g(y)) = g(Front(y))
    BY <2>2, <2>4, AppendIs
  <2> QED
    BY <2>1, <2>3, <2>5
<1> QED
  BY <1>2, <1>6, <1>7, <1>8, <1>9 DEF g, s

\* The place of a leaf that can be closed, of the node above it and of its sibling.
LEMMA SiblingIs ==
  ASSUME NEW t, IsTree(t), NEW p, CanClose(t, p)
  PROVE  LET x == PlaceOf(t, p)
             f == Front(x)
         IN /\ p \in PanesIn(t) /\ x \in LeafPlaces(t) /\ x \in DOMAIN t /\ x \in Place /\ x # <<>>
            /\ IsLeaf(t[x]) /\ t[x].pane = p
            /\ f \in Place /\ f \in DOMAIN t /\ ~IsLeaf(t[f]) /\ f # x
            /\ \E o \in {"a", "b"} : /\ Sibling(x) = Append(f, o) /\ Last(x) # o
                                     /\ \A c \in {"a", "b"} : c # o => x = Append(f, c)
            /\ Sibling(x) \in DOMAIN t /\ Sibling(x) # x /\ Sibling(x) # f
<1> DEFINE x == PlaceOf(t, p)
           f == Front(x)
           o == IF Last(x) = "a" THEN "b" ELSE "a"
<1>1. p \in PanesIn(t) /\ x # <<>>
  BY DEF CanClose
<1>2. x \in LeafPlaces(t) /\ x \in DOMAIN t /\ x \in Place /\ IsLeaf(t[x]) /\ t[x].pane = p
  BY <1>1, LeafFacts DEF LeafPlaces
<1> HIDE DEF x
<1>3. f \in DOMAIN t /\ ~IsLeaf(t[f]) /\ f \in Place
  BY <1>1, <1>2, TreeFacts
<1>4. Last(x) \in {"a", "b"} /\ x = Append(f, Last(x))
  BY <1>1, <1>2, FrontIs, AppendFront
<1>5. Sibling(x) = Append(f, o) /\ o \in {"a", "b"} /\ Last(x) # o
  BY <1>4 DEF Sibling
<1>6. Append(f, o) \in DOMAIN t
  BY <1>3, <1>5, TreeFacts
<1>7. Append(f, o) # x /\ Append(f, o) # f
  <2>1. Append(f, o) # x
    BY <1>3, <1>4, <1>5, SidesDiffer
  <2>2. Len(Append(f, o)) = Len(f) + 1 /\ Len(f) \in Nat
    BY <1>3, <1>5, AppendIs, PlaceLen
  <2> QED
    BY <2>1, <2>2
<1>8. \A c \in {"a", "b"} : c # o => x = Append(f, c)
  BY <1>4, <1>5
<1> HIDE DEF o, f
<1>9. f # x
  BY <1>2, <1>3
<1> QED
  BY <1>1, <1>2, <1>3, <1>5, <1>6, <1>7, <1>8, <1>9 DEF x, f

LEMMA CloseFacts ==
  ASSUME NEW t, IsTree(t), NEW p, CanClose(t, p),
         NEW x, x = PlaceOf(t, p), NEW f, f = Front(x), NEW s, s = Sibling(x),
         NEW kept, kept = DOMAIN t \ {x, f}, NEW u, u = CloseLeaf(t, p)
  PROVE  /\ DOMAIN u = {Moved(z, s, f) : z \in kept}
         /\ \A z \in kept : u[Moved(z, s, f)] = t[z]
         /\ \A y, z \in kept : Moved(y, s, f) = Moved(z, s, f) => y = z
         /\ \A z \in kept : z \in Place /\ Moved(z, s, f) \in Place
         /\ \A z \in kept : ~IsPrefix(s, z) => ~IsPrefix(f, z)
         /\ \A z \in kept : IsPrefix(s, z) => IsPrefix(f, Moved(z, s, f))
<1> DEFINE g(y) == Moved(y, s, f)
<1>1. PICK o \in {"a", "b"} : s = Append(f, o) /\ \A c \in {"a", "b"} : c # o => x = Append(f, c)
  BY SiblingIs
<1>2. f \in Place /\ x \in Place /\ f \in DOMAIN t /\ x \in DOMAIN t /\ s \in DOMAIN t /\ s \in Place
      /\ x \in LeafPlaces(t)
  BY SiblingIs, TreeFacts
<1>3. \A z \in kept : z \in Place /\ z \in DOMAIN t /\ z # x /\ z # f
  BY TreeFacts
<1>4. ASSUME NEW z \in kept, IsPrefix(f, z) PROVE IsPrefix(s, z)
  <2>1. z \in Place /\ z \in DOMAIN t /\ z # x /\ z # f
    BY <1>3
  <2>2. Len(z) > Len(f) /\ Len(f) \in Nat
    <3>1. Len(f) <= Len(z) /\ (\A i \in 1 .. Len(f) : f[i] = z[i]) /\ Len(f) \in Nat /\ Len(z) \in Nat
      BY <1>2, <1>4, <2>1, PrefixIs, PlaceLen
    <3>2. Len(f) # Len(z)
      BY <1>2, <2>1, <3>1, PlaceEqual
    <3> QED
      BY <3>1, <3>2
  <2>3. z[Len(f) + 1] \in {"a", "b"}
    BY <2>1, <2>2, PlaceLen
  <2>4. CASE z[Len(f) + 1] = o
    BY <1>1, <1>2, <1>4, <2>1, <2>2, <2>4, PrefixAppend
  <2>5. CASE z[Len(f) + 1] # o
    <3>1. x = Append(f, z[Len(f) + 1])
      BY <1>1, <2>3, <2>5
    <3>2. IsPrefix(Append(f, z[Len(f) + 1]), z)
      BY <1>2, <1>4, <2>1, <2>2, <2>3, PrefixAppend
    <3>3. x = z
      BY <1>2, <2>1, <3>1, <3>2, LeavesApart
    <3> QED
      BY <2>1, <3>3
  <2> QED
    BY <2>4, <2>5
<1>5. \A z \in kept : /\ g(z) \in Place
                      /\ IF IsPrefix(s, z) THEN IsPrefix(f, g(z)) ELSE g(z) = z /\ ~IsPrefix(f, z)
  <2> SUFFICES ASSUME NEW z \in kept
               PROVE  /\ g(z) \in Place
                      /\ IF IsPrefix(s, z) THEN IsPrefix(f, g(z)) ELSE g(z) = z /\ ~IsPrefix(f, z)
    OBVIOUS
  <2>1. CASE IsPrefix(s, z)
    BY <1>1, <1>2, <1>3, <2>1, MovedIs
  <2>2. CASE ~IsPrefix(s, z)
    BY <1>1, <1>2, <1>3, <1>4, <2>2, MovedAgain
  <2> QED
    BY <2>1, <2>2
<1>6. \A y, z \in kept : IsPrefix(s, y) /\ IsPrefix(s, z) /\ g(y) = g(z) => y = z
  BY <1>1, <1>2, <1>3, MovedAgain
<1>7. u = [y \in {g(z) : z \in kept} |-> t[CHOOSE z \in kept : g(z) = y]]
  BY DEF CloseLeaf
<1> HIDE DEF g
<1>8. \A y, z \in kept : g(y) = g(z) => y = z
  BY <1>5, <1>6
<1>9. \A z \in kept : u[g(z)] = t[z]
  <2> SUFFICES ASSUME NEW z \in kept PROVE u[g(z)] = t[z]
    OBVIOUS
  <2>1. u[g(z)] = t[CHOOSE y \in kept : g(y) = g(z)]
    BY <1>7
  <2>2. (CHOOSE y \in kept : g(y) = g(z)) = z
    BY <1>8
  <2> QED
    BY <2>1, <2>2
<1>10. DOMAIN u = {g(z) : z \in kept}
  BY <1>7
<1> QED
  BY <1>3, <1>5, <1>8, <1>9, <1>10 DEF g

LEMMA CloseLeafTree ==
  ASSUME NEW t, IsTree(t), NEW p, CanClose(t, p)
  PROVE  LET u == CloseLeaf(t, p) IN
         /\ IsTree(u) /\ PanesIn(u) = PanesIn(t) \ {p}
         /\ \A q \in PanesIn(u) :
              PlaceOf(u, q) = Moved(PlaceOf(t, q), Sibling(PlaceOf(t, p)), Front(PlaceOf(t, p)))
<1> DEFINE x == PlaceOf(t, p)
           f == Front(x)
           s == Sibling(x)
           kept == DOMAIN t \ {x, f}
           u == CloseLeaf(t, p)
           g(y) == Moved(y, s, f)
<1>1. PICK o \in {"a", "b"} : s = Append(f, o) /\ \A c \in {"a", "b"} : c # o => x = Append(f, c)
  BY SiblingIs
<1>2. /\ p \in PanesIn(t) /\ f \in Place /\ x \in Place /\ f \in DOMAIN t /\ x \in DOMAIN t
      /\ s \in DOMAIN t /\ s \in Place /\ x \in LeafPlaces(t) /\ IsLeaf(t[x]) /\ t[x].pane = p
      /\ ~IsLeaf(t[f]) /\ f # x /\ x # <<>> /\ s # x /\ s # f
  BY SiblingIs, TreeFacts
<1>3. /\ DOMAIN u = {g(z) : z \in kept}
      /\ \A z \in kept : u[g(z)] = t[z]
      /\ \A y, z \in kept : g(y) = g(z) => y = z
      /\ \A z \in kept : z \in Place /\ g(z) \in Place
      /\ \A z \in kept : ~IsPrefix(s, z) => ~IsPrefix(f, z)
  <2>1. x = PlaceOf(t, p) /\ f = Front(x) /\ s = Sibling(x) /\ kept = DOMAIN t \ {x, f} /\ u = CloseLeaf(t, p)
    OBVIOUS
  <2> HIDE DEF x, f, s, kept, u
  <2>2. /\ DOMAIN u = {Moved(z, s, f) : z \in kept}
        /\ \A z \in kept : u[Moved(z, s, f)] = t[z]
        /\ \A y, z \in kept : Moved(y, s, f) = Moved(z, s, f) => y = z
        /\ \A z \in kept : z \in Place /\ Moved(z, s, f) \in Place
        /\ \A z \in kept : ~IsPrefix(s, z) => ~IsPrefix(f, z)
        /\ \A z \in kept : IsPrefix(s, z) => IsPrefix(f, Moved(z, s, f))
    BY <2>1, CloseFacts
  <2> QED
    BY <2>2
<1>4. /\ \A z \in kept : ~IsPrefix(s, z) => g(z) = z
      /\ g(s) = f
      /\ \A z \in Place, c \in {"a", "b"} :
           IsPrefix(s, z) => IsPrefix(s, Append(z, c)) /\ g(Append(z, c)) = Append(g(z), c)
      /\ \A z \in Place : IsPrefix(s, z) /\ z # s =>
           z # <<>> /\ IsPrefix(s, Front(z)) /\ Front(g(z)) = g(Front(z))
  BY <1>1, <1>2, <1>3, MovedAgain
<1>5. s \in kept /\ \A z \in kept : z \in DOMAIN t /\ z # x /\ z # f /\ g(z) \in DOMAIN u
  BY <1>2, <1>3
<1>6. \A z \in DOMAIN t : IsPrefix(s, z) => z \in kept
  <2> SUFFICES ASSUME NEW z \in DOMAIN t, IsPrefix(s, z) PROVE z # x /\ z # f
    BY <1>2
  <2>1. z \in Place
    BY TreeFacts
  <2>2. ~IsPrefix(s, f)
    BY <1>1, <1>2, PrefixAppend
  <2>3. ~IsPrefix(s, x)
    <3>1. SUFFICES ASSUME IsPrefix(s, x) PROVE FALSE
      OBVIOUS
    <3>2. s[Len(f) + 1] = o /\ x[Len(f) + 1] # o
      <4>1. \E c \in {"a", "b"} : c # o
        OBVIOUS
      <4>2. PICK c \in {"a", "b"} : c # o
        BY <4>1
      <4>3. x = Append(f, c)
        BY <1>1, <4>2
      <4> HIDE DEF x, s, f
      <4>4. x[Len(f) + 1] = c /\ s[Len(f) + 1] = o
        BY <1>1, <1>2, <4>3, AppendIs
      <4> QED
        BY <4>2, <4>4
    <3>3. x[Len(f) + 1] = o
      <4> HIDE DEF x, s, f
      <4> QED
        BY <1>1, <1>2, <3>1, PrefixAppend
    <3> QED
      BY <3>2, <3>3
  <2> QED
    BY <2>2, <2>3
<1> HIDE DEF x, f, s, u, g
<1>7. <<>> \in DOMAIN u
  <2>1. <<>> \in DOMAIN t
    BY TreeFacts
  <2>2. CASE f = <<>>
    BY <1>4, <1>5, <2>2
  <2>3. CASE f # <<>>
    <3>1. <<>> \in kept
      BY <1>2, <2>1, <2>3
    <3>2. ~IsPrefix(s, <<>>)
      <4>1. Len(s) = Len(f) + 1 /\ Len(f) \in Nat
        BY <1>1, <1>2, AppendIs, PlaceLen
      <4> QED
        BY <4>1, RootPlace DEF IsPrefix
    <3> QED
      BY <1>4, <1>5, <3>1, <3>2
  <2> QED
    BY <2>2, <2>3
<1>8. ASSUME NEW z \in kept, g(z) # <<>>
      PROVE  \E v \in kept : ~IsLeaf(t[v]) /\ Front(g(z)) = g(v)
  <2>1. z \in Place /\ z \in DOMAIN t
    BY <1>3, <1>5
  <2>2. CASE z = s
    <3>1. f # <<>>
      BY <1>4, <1>8, <2>2
    <3>2. Front(f) \in DOMAIN t /\ ~IsLeaf(t[Front(f)])
      BY <1>2, <3>1, TreeFacts
    <3>3. Front(f) \in Place /\ Len(Front(f)) = Len(f) - 1 /\ Len(f) \in Nat
      BY <1>2, <3>1, FrontIs, PlaceLen
    <3>4. Front(f) \in kept
      BY <1>2, <3>2, <3>3
    <3>5. Len(s) = Len(f) + 1
      BY <1>1, <1>2, AppendIs
    <3>6. ~IsPrefix(s, Front(f))
      BY <1>2, <3>3, <3>5, PrefixIs
    <3>7. g(Front(f)) = Front(f) /\ g(z) = f
      BY <1>4, <2>2, <3>4, <3>6
    <3> QED
      BY <3>2, <3>4, <3>7
  <2>3. CASE IsPrefix(s, z) /\ z # s
    <3>1. z # <<>> /\ IsPrefix(s, Front(z)) /\ Front(g(z)) = g(Front(z))
      BY <1>4, <2>1, <2>3
    <3>2. Front(z) \in DOMAIN t /\ ~IsLeaf(t[Front(z)])
      BY <2>1, <3>1, TreeFacts
    <3> QED
      BY <1>6, <3>1, <3>2
  <2>4. CASE ~IsPrefix(s, z)
    <3>1. g(z) = z /\ ~IsPrefix(f, z)
      BY <1>3, <1>4, <2>4
    <3>2. z # <<>>
      BY <1>8, <3>1
    <3>3. Front(z) \in DOMAIN t /\ ~IsLeaf(t[Front(z)]) /\ Front(z) \in Place
      BY <2>1, <3>2, TreeFacts
    <3>4. Front(z) # f
      BY <1>2, <2>1, <3>1, <3>2, PrefixFront, PrefixRefl
    <3>5. Front(z) \in kept
      BY <1>2, <3>3, <3>4
    <3>6. ~IsPrefix(s, Front(z))
      BY <1>2, <2>1, <2>4, <3>2, PrefixFront
    <3>7. g(Front(z)) = Front(z)
      BY <1>4, <3>5, <3>6
    <3> QED
      BY <3>1, <3>3, <3>5, <3>7
  <2> QED
    BY <2>2, <2>3, <2>4
<1>9. ASSUME NEW z \in kept, ~IsLeaf(t[z]), NEW c \in {"a", "b"}
      PROVE  Append(g(z), c) \in DOMAIN u
  <2>1. z \in Place /\ z \in DOMAIN t /\ Append(z, c) \in DOMAIN t /\ Append(z, c) \in Place
    BY <1>3, <1>5, <1>9, TreeFacts
  <2>2. CASE IsPrefix(s, z)
    <3>1. IsPrefix(s, Append(z, c)) /\ g(Append(z, c)) = Append(g(z), c)
      BY <1>4, <2>1, <2>2
    <3> QED
      BY <1>5, <1>6, <2>1, <3>1
  <2>3. CASE ~IsPrefix(s, z)
    <3>1. g(z) = z
      BY <1>4, <2>3
    <3>2. CASE Append(z, c) = f
      BY <1>4, <1>5, <3>1, <3>2
    <3>3. CASE Append(z, c) # f
      <4>1. Front(Append(z, c)) = z /\ Append(z, c) # <<>>
        BY <2>1, AppendIs
      <4>2. Append(z, c) # x
        BY <1>5, <4>1 DEF f
      <4>3. Append(z, c) \in kept
        BY <2>1, <3>3, <4>2
      <4>4. Append(z, c) # s
        <5>1. Front(s) = f
          BY <1>1, <1>2, AppendIs
        <5> QED
          BY <1>5, <4>1, <5>1
      <4>5. ~IsPrefix(s, Append(z, c))
        <5> DEFINE y == Append(z, c)
        <5>1. y \in Place /\ y # <<>> /\ Front(y) = z /\ y # s
          BY <2>1, <4>1, <4>4
        <5> HIDE DEF y
        <5>2. ~IsPrefix(s, y)
          BY <1>2, <2>3, <5>1, PrefixFront
        <5> QED
          BY <5>2 DEF y
      <4>6. g(Append(z, c)) = Append(z, c)
        BY <1>4, <4>3, <4>5
      <4> QED
        BY <1>5, <3>1, <4>3, <4>6
    <3> QED
      BY <3>2, <3>3
  <2> QED
    BY <2>2, <2>3
<1>10. LeafPlaces(u) = {g(z) : z \in LeafPlaces(t) \ {x}}
  <2>1. \A z \in LeafPlaces(t) \ {x} : z \in kept /\ IsLeaf(t[z])
    BY <1>2 DEF LeafPlaces
  <2>2. \A z \in kept : IsLeaf(t[z]) => z \in LeafPlaces(t) \ {x}
    BY <1>5 DEF LeafPlaces
  <2>3. ASSUME NEW y \in LeafPlaces(u) PROVE y \in {g(z) : z \in LeafPlaces(t) \ {x}}
    <3>1. y \in DOMAIN u /\ IsLeaf(u[y])
      BY DEF LeafPlaces
    <3>2. PICK z \in kept : y = g(z)
      BY <1>3, <3>1
    <3> QED
      BY <1>3, <2>2, <3>1, <3>2
  <2>4. ASSUME NEW z \in LeafPlaces(t) \ {x} PROVE g(z) \in LeafPlaces(u)
    BY <1>3, <1>5, <2>1 DEF LeafPlaces
  <2> QED
    BY <2>3, <2>4
<1>11. \A z \in LeafPlaces(t) \ {x} : z \in kept /\ u[g(z)].pane = t[z].pane
  BY <1>2, <1>3 DEF LeafPlaces
<1>12. IsTree(u)
  <2>1. IsFiniteSet(DOMAIN u)
    <3> DEFINE h == [z \in kept |-> g(z)]
    <3>1. IsFiniteSet(kept)
      BY TreeFacts, FS_Difference
    <3>2. h \in Surjection(kept, DOMAIN u)
      BY <1>3 DEF Surjection
    <3> HIDE DEF h, kept
    <3> QED
      BY <3>1, <3>2, FS_Surjection
  <2>2. DOMAIN u \subseteq Seq({"a", "b"})
    BY <1>3 DEF Place
  <2>3. ASSUME NEW y \in DOMAIN u
        PROVE  /\ y # <<>> => Front(y) \in DOMAIN u /\ ~IsLeaf(u[Front(y)])
               /\ ~IsLeaf(u[y]) => /\ u[y] \in [split : Axes, ratio : 0 .. Whole]
                                   /\ Append(y, "a") \in DOMAIN u /\ Append(y, "b") \in DOMAIN u
               /\ IsLeaf(u[y]) => u[y] \in [pane : Nat \ {0}]
    <3>1. PICK z \in kept : y = g(z)
      BY <1>3
    <3>2. u[y] = t[z] /\ z \in DOMAIN t
      BY <1>3, <1>5, <3>1
    <3>3. ASSUME y # <<>> PROVE Front(y) \in DOMAIN u /\ ~IsLeaf(u[Front(y)])
      <4>1. PICK v \in kept : ~IsLeaf(t[v]) /\ Front(y) = g(v)
        BY <1>8, <3>1, <3>3
      <4> QED
        BY <1>3, <1>5, <4>1
    <3>4. ASSUME ~IsLeaf(u[y])
          PROVE  /\ u[y] \in [split : Axes, ratio : 0 .. Whole]
                 /\ Append(y, "a") \in DOMAIN u /\ Append(y, "b") \in DOMAIN u
      BY <1>9, <3>1, <3>2, <3>4, TreeFacts
    <3>5. ASSUME IsLeaf(u[y]) PROVE u[y] \in [pane : Nat \ {0}]
      BY <3>2, <3>5, TreeFacts
    <3> QED
      BY <3>3, <3>4, <3>5
  <2>4. ASSUME NEW y \in LeafPlaces(u), NEW z \in LeafPlaces(u), u[y].pane = u[z].pane PROVE y = z
    <3>1. PICK v \in LeafPlaces(t) \ {x} : y = g(v)
      BY <1>10
    <3>2. PICK w \in LeafPlaces(t) \ {x} : z = g(w)
      BY <1>10
    <3>3. t[v].pane = t[w].pane
      BY <1>11, <2>4, <3>1, <3>2
    <3>4. v = w
      BY <3>3, TreeFacts
    <3> QED
      BY <3>1, <3>2, <3>4
  <2> QED
    BY <1>7, <2>1, <2>2, <2>3, <2>4 DEF IsTree
<1>13. PanesIn(u) = PanesIn(t) \ {p}
  <2>1. ASSUME NEW q \in PanesIn(u) PROVE q \in PanesIn(t) /\ q # p
    <3>1. PICK y \in LeafPlaces(u) : q = u[y].pane
      BY DEF PanesIn
    <3>2. PICK z \in LeafPlaces(t) \ {x} : y = g(z)
      BY <1>10
    <3>3. q = t[z].pane
      BY <1>11, <3>1, <3>2
    <3>4. q # p
      BY <1>2, <3>2, <3>3, TreeFacts
    <3> QED
      BY <3>2, <3>3, <3>4, LeafFacts
  <2>2. ASSUME NEW q \in PanesIn(t), q # p PROVE q \in PanesIn(u)
    <3>1. PlaceOf(t, q) \in LeafPlaces(t) \ {x} /\ t[PlaceOf(t, q)].pane = q
      BY <1>2, <2>2, LeafFacts
    <3>2. g(PlaceOf(t, q)) \in LeafPlaces(u) /\ u[g(PlaceOf(t, q))].pane = q
      BY <1>10, <1>11, <3>1
    <3> QED
      BY <3>2 DEF PanesIn
  <2> QED
    BY <2>1, <2>2
<1>14. ASSUME NEW q \in PanesIn(u) PROVE PlaceOf(u, q) = g(PlaceOf(t, q))
  <2>1. q \in PanesIn(t) /\ q # p
    BY <1>13
  <2>2. PlaceOf(t, q) \in LeafPlaces(t) \ {x} /\ t[PlaceOf(t, q)].pane = q
    BY <1>2, <2>1, LeafFacts
  <2>3. g(PlaceOf(t, q)) \in LeafPlaces(u) /\ u[g(PlaceOf(t, q))].pane = q
    BY <1>10, <1>11, <2>2
  <2> QED
    BY <1>12, <2>3, LeafFacts
<1> QED
  BY <1>12, <1>13, <1>14 DEF u, g, s, f, x

\* What moves up stays in order with what does not, and with itself.
LEMMA MovedOrder ==
  ASSUME NEW f \in Place, NEW o \in {"a", "b"}, NEW s, s = Append(f, o), NEW y \in Place, NEW z \in Place,
         IsPrefix(f, y) => IsPrefix(s, y), IsPrefix(f, z) => IsPrefix(s, z), Before(y, z)
  PROVE  Before(Moved(y, s, f), Moved(z, s, f))
<1> DEFINE g(v) == Moved(v, s, f)
<1>1. /\ DOMAIN y = 1 .. Len(y) /\ Len(y) \in Nat
      /\ DOMAIN z = 1 .. Len(z) /\ Len(z) \in Nat /\ Len(f) \in Nat
  BY PlaceLen
<1>2. PICK i \in 1 .. Len(y) :
        /\ i <= Len(z) /\ y[i] = "a" /\ z[i] = "b"
        /\ \A j \in 1 .. i - 1 : y[j] = z[j]
  BY <1>1 DEF Before
<1>3. \A v \in {y, z} :
        IF IsPrefix(s, v)
        THEN /\ g(v) \in Place /\ Len(g(v)) = Len(v) - 1 /\ Len(v) > Len(f)
             /\ \A j \in 1 .. Len(f) : g(v)[j] = v[j]
             /\ \A j \in Len(f) + 1 .. Len(v) - 1 : g(v)[j] = v[j + 1]
        ELSE g(v) = v
  BY MovedIs, MovedAgain
<1>4. g(y) \in Place /\ g(z) \in Place
  BY <1>3
<1> HIDE DEF g
<1>5. /\ DOMAIN g(y) = 1 .. Len(g(y)) /\ Len(g(y)) \in Nat
      /\ DOMAIN g(z) = 1 .. Len(g(z)) /\ Len(g(z)) \in Nat
  BY <1>4, PlaceLen
<1>6. s \in Place /\ Len(s) = Len(f) + 1
  BY AppendIs
<1>7. CASE IsPrefix(s, y) /\ IsPrefix(s, z)
  <2>1. \A j \in 1 .. Len(f) + 1 : y[j] = s[j] /\ z[j] = s[j]
    BY <1>6, <1>7, PrefixIs
  <2>2. i > Len(f) + 1
    BY <1>1, <1>2, <2>1
  <2> DEFINE k == i - 1
  <2>3. k \in Nat /\ k >= Len(f) + 1 /\ k <= Len(y) - 1 /\ k <= Len(z) - 1 /\ k + 1 = i
    BY <1>1, <1>2, <2>2
  <2> HIDE DEF k
  <2>4. g(y)[k] = "a" /\ g(z)[k] = "b"
    <3>1. k \in Len(f) + 1 .. Len(y) - 1 /\ k \in Len(f) + 1 .. Len(z) - 1
      BY <1>1, <2>3
    <3>2. g(y)[k] = y[k + 1] /\ g(z)[k] = z[k + 1]
      BY <1>3, <1>7, <3>1
    <3> QED
      BY <1>2, <2>3, <3>2
  <2>5. ASSUME NEW j \in 1 .. k - 1 PROVE g(y)[j] = g(z)[j]
    <3>1. CASE j <= Len(f)
      <4>1. g(y)[j] = y[j] /\ g(z)[j] = z[j]
        BY <1>1, <1>3, <1>7, <2>3, <3>1
      <4>2. y[j] = z[j]
        BY <1>1, <1>2, <2>3, <3>1
      <4> QED
        BY <4>1, <4>2
    <3>2. CASE j > Len(f)
      <4>1. g(y)[j] = y[j + 1] /\ g(z)[j] = z[j + 1]
        BY <1>1, <1>3, <1>7, <2>3, <3>2
      <4>2. y[j + 1] = z[j + 1]
        BY <1>1, <1>2, <2>3, <3>2
      <4> QED
        BY <4>1, <4>2
    <3> QED
      BY <1>1, <2>3, <3>1, <3>2
  <2>6. k \in DOMAIN g(y) \cap DOMAIN g(z)
    BY <1>1, <1>3, <1>5, <1>7, <2>3
  <2> QED
    BY <2>4, <2>5, <2>6 DEF Before, g
<1>8. CASE ~IsPrefix(s, y) \/ ~IsPrefix(s, z)
  <2>1. i <= Len(f) \/ (~IsPrefix(s, y) /\ ~IsPrefix(s, z))
    <3> SUFFICES ASSUME i > Len(f), IsPrefix(s, y) \/ IsPrefix(s, z) PROVE FALSE
      BY <1>1, <1>2
    <3>1. IsPrefix(f, s)
      BY <1>6, PrefixAppend
    <3>2. IsPrefix(f, y) \/ IsPrefix(f, z)
      BY <1>6, <3>1, PrefixTrans
    <3>3. IsPrefix(f, y) /\ IsPrefix(f, z)
      BY <1>1, <1>2, <3>2, PrefixIs
    <3> QED
      BY <1>8, <3>3
  <2>2. CASE ~IsPrefix(s, y) /\ ~IsPrefix(s, z)
    BY <1>3, <2>2 DEF g
  <2>3. CASE i <= Len(f)
    <3>1. /\ \A j \in 1 .. i : g(y)[j] = y[j]
          /\ i <= Len(g(y))
      <4>1. CASE IsPrefix(s, y)
        <5>1. \A j \in 1 .. i : j \in 1 .. Len(f)
          BY <1>1, <2>3
        <5>2. \A j \in 1 .. Len(f) : g(y)[j] = y[j]
          BY <1>3, <4>1
        <5>3. Len(g(y)) = Len(y) - 1 /\ Len(y) > Len(f)
          BY <1>3, <4>1
        <5> QED
          BY <1>1, <2>3, <5>1, <5>2, <5>3
      <4>2. CASE ~IsPrefix(s, y)
        <5>1. g(y) = y
          BY <1>3, <4>2
        <5> QED
          BY <1>1, <5>1
      <4> QED
        BY <4>1, <4>2
    <3>4. /\ \A j \in 1 .. i : g(z)[j] = z[j]
          /\ i <= Len(g(z))
      <4>1. CASE IsPrefix(s, z)
        <5>1. \A j \in 1 .. i : j \in 1 .. Len(f)
          BY <1>1, <2>3
        <5>2. \A j \in 1 .. Len(f) : g(z)[j] = z[j]
          BY <1>3, <4>1
        <5>3. Len(g(z)) = Len(z) - 1 /\ Len(z) > Len(f)
          BY <1>3, <4>1
        <5> QED
          BY <1>1, <2>3, <5>1, <5>2, <5>3
      <4>2. CASE ~IsPrefix(s, z)
        <5>1. g(z) = z
          BY <1>3, <4>2
        <5> QED
          BY <1>1, <1>2, <5>1
      <4> QED
        BY <4>1, <4>2
    <3>2. i \in DOMAIN g(y) \cap DOMAIN g(z)
      BY <1>1, <1>5, <3>1, <3>4
    <3>3. g(y)[i] = "a" /\ g(z)[i] = "b" /\ \A j \in 1 .. i - 1 : g(y)[j] = g(z)[j]
      BY <1>1, <1>2, <3>1, <3>4
    <3> QED
      BY <3>2, <3>3 DEF Before, g
  <2> QED
    BY <2>1, <2>2, <2>3
<1> QED
  BY <1>7, <1>8

LEMMA CloseLeafOrder ==
  ASSUME NEW t, IsTree(t), NEW p, CanClose(t, p)
  PROVE  LET u == CloseLeaf(t, p) IN
         \A q, o \in PanesIn(u) : Earlier(u, q, o) <=> Earlier(t, q, o)
<1> DEFINE x == PlaceOf(t, p)
           f == Front(x)
           s == Sibling(x)
           u == CloseLeaf(t, p)
<1>1. PICK o \in {"a", "b"} : s = Append(f, o)
  BY SiblingIs
<1>2. /\ IsTree(u) /\ PanesIn(u) = PanesIn(t) \ {p}
      /\ \A q \in PanesIn(u) : PlaceOf(u, q) = Moved(PlaceOf(t, q), s, f)
  BY CloseLeafTree
<1>3. f \in Place /\ f \in DOMAIN t /\ ~IsLeaf(t[f])
  BY SiblingIs
<1>5. \A z \in DOMAIN t \ {x, f} : ~IsPrefix(s, z) => ~IsPrefix(f, z)
  <2> DEFINE kept == DOMAIN t \ {x, f}
  <2>1. x = PlaceOf(t, p) /\ f = Front(x) /\ s = Sibling(x) /\ kept = DOMAIN t \ {x, f} /\ u = CloseLeaf(t, p)
    OBVIOUS
  <2>2. kept = DOMAIN t \ {x, f}
    OBVIOUS
  <2> HIDE DEF x, f, s, kept, u
  <2>3. /\ DOMAIN u = {Moved(z, s, f) : z \in kept}
        /\ \A z \in kept : u[Moved(z, s, f)] = t[z]
        /\ \A y, z \in kept : Moved(y, s, f) = Moved(z, s, f) => y = z
        /\ \A z \in kept : z \in Place /\ Moved(z, s, f) \in Place
        /\ \A z \in kept : ~IsPrefix(s, z) => ~IsPrefix(f, z)
    BY <2>1, CloseFacts
  <2> QED
    BY <2>2, <2>3
<1>4. ASSUME NEW q \in PanesIn(u)
      PROVE  /\ PlaceOf(t, q) \in Place
             /\ IsPrefix(f, PlaceOf(t, q)) => IsPrefix(s, PlaceOf(t, q))
  <2>1. q \in PanesIn(t) /\ q # p
    BY <1>2
  <2>2. PlaceOf(t, q) \in LeafPlaces(t) /\ PlaceOf(t, q) \in DOMAIN t /\ PlaceOf(t, q) \in Place /\ PlaceOf(t, q) # x
        /\ IsLeaf(t[PlaceOf(t, q)])
    BY <2>1, LeafFacts, SiblingIs DEF LeafPlaces
  <2>3. PlaceOf(t, q) \in DOMAIN t \ {x, f}
    BY <1>3, <2>2
  <2> QED
    BY <1>5, <2>2, <2>3
<1> HIDE DEF u, f, s
<1>7. ASSUME NEW q \in PanesIn(u), NEW r \in PanesIn(u), Earlier(t, q, r)
      PROVE  Earlier(u, q, r)
  <2>1. Before(PlaceOf(t, q), PlaceOf(t, r))
    BY <1>7 DEF Earlier
  <2>2. Before(Moved(PlaceOf(t, q), s, f), Moved(PlaceOf(t, r), s, f))
    BY <1>1, <1>3, <1>4, <2>1, MovedOrder
  <2> QED
    BY <1>2, <2>2 DEF Earlier
<1>6. ASSUME NEW q \in PanesIn(u), NEW r \in PanesIn(u), Earlier(u, q, r)
      PROVE  Earlier(t, q, r)
  <2>1. PlaceOf(u, q) \in Place /\ PlaceOf(u, r) \in Place /\ Before(PlaceOf(u, q), PlaceOf(u, r))
    BY <1>2, <1>6, LeafFacts DEF Earlier
  <2>2. q # r /\ ~Earlier(u, r, q)
    BY <2>1, BeforeStrict DEF Earlier
  <2>3. ~Earlier(t, r, q)
    BY <1>7, <2>2
  <2>4. q \in PanesIn(t) /\ r \in PanesIn(t)
    BY <1>2
  <2>5. PlaceOf(t, q) \in LeafPlaces(t) /\ PlaceOf(t, r) \in LeafPlaces(t) /\ PlaceOf(t, q) # PlaceOf(t, r)
    BY <2>2, <2>4, LeafFacts
  <2>6. ~IsPrefix(PlaceOf(t, q), PlaceOf(t, r)) /\ ~IsPrefix(PlaceOf(t, r), PlaceOf(t, q))
    BY <2>5, LeavesUnnested DEF Unnested
  <2> QED
    BY <1>4, <2>3, <2>6, BeforeTotal DEF Earlier
<1> QED
  BY <1>6, <1>7 DEF u

-----------------------------------------------------------------------------
(* Taking several panes out                                                *)

LEMMA NoTreeEmpty ==
  /\ DOMAIN NoTree = {} /\ LeafPlaces(NoTree) = {} /\ PanesIn(NoTree) = {}
  /\ \A t : IsTree(t) => t # NoTree
<1>1. DOMAIN NoTree = {}
  BY DEF NoTree
<1>2. \A t : IsTree(t) => t # NoTree
  BY <1>1, TreeFacts
<1> QED
  BY <1>1, <1>2 DEF LeafPlaces, PanesIn

LEMMA TreeHasPanes ==
  ASSUME NEW t, IsTree(t)
  PROVE  PanesIn(t) # {}
<1> DEFINE G == {x \in DOMAIN t : ~IsLeaf(t[x])}
<1> SUFFICES ASSUME LeafPlaces(t) = {} PROVE FALSE
  BY LeafFacts DEF PanesIn
<1>1. \A x \in DOMAIN t : ~IsLeaf(t[x])
  BY DEF LeafPlaces
<1> DEFINE N == {Len(x) : x \in DOMAIN t}
<1>2. PICK h \in Nat : \A x \in DOMAIN t : Len(x) <= h
  BY TreeHeight
<1>3. \A x \in DOMAIN t : Len(x) \in Nat /\ x \in Place
  BY TreeFacts, PlaceLen
<1>4. N \subseteq Nat /\ N # {}
  <2>1. <<>> \in DOMAIN t
    BY TreeFacts
  <2>2. Len(<<>>) \in N
    BY <2>1
  <2> QED
    BY <1>3, <2>2
<1>5. IsFiniteSet(N)
  <2>1. N \in SUBSET (0 .. h)
    BY <1>2, <1>3
  <2>2. IsFiniteSet(0 .. h)
    BY FS_Interval
  <2> HIDE DEF N
  <2> QED
    BY <2>1, <2>2, FS_Subset
<1>6. \E n \in N : \A m \in N : m <= n
  <2> HIDE DEF N
  <2> QED
    BY <1>4, <1>5, FinMax
<1>7. PICK x \in DOMAIN t : \A y \in DOMAIN t : Len(y) <= Len(x)
  BY <1>6
<1>8. Append(x, "a") \in DOMAIN t
  BY <1>1, TreeFacts
<1>9. Len(Append(x, "a")) = Len(x) + 1
  BY <1>3, AppendIs
<1>10. Len(Append(x, "a")) <= Len(x)
  BY <1>7, <1>8
<1> QED
  BY <1>3, <1>9, <1>10

\* A pane that is not alone can be closed.
LEMMA NotAlone ==
  ASSUME NEW t, IsTree(t), NEW p \in PanesIn(t)
  PROVE  CanClose(t, p) <=> \E q \in PanesIn(t) : q # p
<1>1. ASSUME NEW q \in PanesIn(t), q # p PROVE CanClose(t, p)
  <2>1. PlaceOf(t, p) \in LeafPlaces(t) /\ PlaceOf(t, q) \in LeafPlaces(t) /\ PlaceOf(t, p) # PlaceOf(t, q)
        /\ PlaceOf(t, q) \in Place
    BY <1>1, LeafFacts
  <2>2. IsPrefix(<<>>, PlaceOf(t, q))
    BY <2>1, PrefixRefl
  <2>3. PlaceOf(t, p) # <<>>
    BY <2>1, <2>2, LeavesUnnested DEF Unnested
  <2> QED
    BY <2>3 DEF CanClose
<1>2. ASSUME CanClose(t, p) PROVE \E q \in PanesIn(t) : q # p
  <2>1. IsTree(CloseLeaf(t, p)) /\ PanesIn(CloseLeaf(t, p)) = PanesIn(t) \ {p}
    BY <1>2, CloseLeafTree
  <2>2. PanesIn(CloseLeaf(t, p)) # {}
    BY <2>1, TreeHasPanes
  <2> QED
    BY <2>1, <2>2
<1> QED
  BY <1>1, <1>2

LEMMA PrunedIs ==
  ASSUME NEW t, IsTree(t), NEW gone, IsFiniteSet(gone)
  PROVE  \/ Pruned(t, gone) = NoTree /\ gone # {} /\ ~(gone \subseteq PanesIn(t) /\ PanesIn(t) \ gone # {})
         \/ /\ IsTree(Pruned(t, gone)) /\ PanesIn(Pruned(t, gone)) = PanesIn(t) \ gone
            /\ \A q, o \in PanesIn(Pruned(t, gone)) : Earlier(Pruned(t, gone), q, o) <=> Earlier(t, q, o)
<1> DEFINE Body(f, S) == IF S = {} THEN t ELSE CloseLeaf(f[S \ {CHOOSE p \in S : TRUE}], CHOOSE p \in S : TRUE)
           W0 == CHOOSE f : f = [S \in SUBSET gone |-> Body(f, S)]
<1>1. CASE gone = {}
  BY <1>1 DEF Pruned
<1>2. CASE gone # {} /\ ~(gone \subseteq PanesIn(t) /\ PanesIn(t) \ gone # {})
  BY <1>2 DEF Pruned
<1>3. CASE gone # {} /\ gone \subseteq PanesIn(t) /\ PanesIn(t) \ gone # {}
  <2>1. Pruned(t, gone) = W0[gone]
    BY <1>3 DEF Pruned
  <2> DEFINE D(n) == {S \in SUBSET gone : Cardinality(S) <= n}
             G == {n \in Nat : \E f : f = [S \in D(n) |-> Body(f, S)]}
             Less(S) == S \ {CHOOSE p \in S : TRUE}
  <2>2. \A S \in SUBSET gone : /\ IsFiniteSet(S) /\ Cardinality(S) \in Nat /\ Cardinality(S) <= Cardinality(gone)
                               /\ S # {} => Less(S) \in SUBSET gone /\ Cardinality(Less(S)) = Cardinality(S) - 1
    <3> SUFFICES ASSUME NEW S \in SUBSET gone
                 PROVE  /\ IsFiniteSet(S) /\ Cardinality(S) \in Nat /\ Cardinality(S) <= Cardinality(gone)
                        /\ S # {} => Less(S) \in SUBSET gone /\ Cardinality(Less(S)) = Cardinality(S) - 1
      OBVIOUS
    <3>1. IsFiniteSet(S) /\ Cardinality(S) <= Cardinality(gone)
      BY FS_Subset
    <3>2. Cardinality(S) \in Nat
      BY <3>1, FS_CardinalityType
    <3>3. ASSUME S # {} PROVE Cardinality(Less(S)) = Cardinality(S) - 1
      <4> DEFINE p == CHOOSE p \in S : TRUE
      <4>1. p \in S
        BY <3>3
      <4> HIDE DEF p
      <4>2. Cardinality(S \ {p}) = Cardinality(S) - 1
        BY <3>1, <4>1, FS_RemoveElement
      <4> QED
        BY <4>2 DEF p
    <3> QED
      BY <3>1, <3>2, <3>3
  <2>3. 0 \in G
    <3>1. \A S \in D(0) : S = {}
      <4> SUFFICES ASSUME NEW S \in SUBSET gone, Cardinality(S) <= 0 PROVE S = {}
        OBVIOUS
      <4> HIDE DEF Less
      <4>1. Cardinality(S) = 0 /\ IsFiniteSet(S)
        BY <2>2
      <4> QED
        BY <4>1, FS_EmptySet
    <3> DEFINE f == [S \in D(0) |-> t]
    <3>2. f = [S \in D(0) |-> Body(f, S)]
      BY <3>1
    <3> HIDE DEF f, Body, D
    <3>3. \E h : h = [S \in D(0) |-> Body(h, S)]
      BY <3>2
    <3> QED
      BY <3>3
  <2>4. ASSUME NEW n \in Nat, n \in G PROVE n + 1 \in G
    <3>1. PICK f : f = [S \in D(n) |-> Body(f, S)]
      BY <2>4
    <3> DEFINE g == [S \in D(n + 1) |-> Body(f, S)]
    <3>2. \A S \in D(n + 1) : S # {} => Less(S) \in D(n)
      <4> HIDE DEF Less
      <4> QED
        BY <2>2
    <3>3. \A S \in D(n) : S \in D(n + 1) /\ g[S] = f[S]
      <4> SUFFICES ASSUME NEW S \in D(n) PROVE S \in D(n + 1) /\ g[S] = f[S]
        OBVIOUS
      <4>1. S \in D(n + 1)
        <5> HIDE DEF Less
        <5>1. S \in SUBSET gone /\ Cardinality(S) <= n
          OBVIOUS
        <5>2. Cardinality(S) \in Nat
          BY <2>2
        <5>3. Cardinality(S) <= n + 1
          BY <5>1, <5>2
        <5> QED
          BY <5>1, <5>3
      <4>2. f[S] = Body(f, S)
        BY <3>1
      <4>3. g[S] = Body(f, S)
        BY <4>1
      <4> HIDE DEF g, Body
      <4> QED
        BY <4>1, <4>2, <4>3
    <3>4. \A S \in D(n + 1) : g[S] = Body(g, S)
      <4> SUFFICES ASSUME NEW S \in D(n + 1) PROVE g[S] = Body(g, S)
        OBVIOUS
      <4>1. g[S] = Body(f, S)
        OBVIOUS
      <4>2. S # {} => g[Less(S)] = f[Less(S)]
        BY <3>2, <3>3
      <4> HIDE DEF g
      <4> QED
        BY <4>1, <4>2
    <3>5. g = [S \in D(n + 1) |-> Body(g, S)]
      <4>1. g = [S \in D(n + 1) |-> g[S]]
        OBVIOUS
      <4> HIDE DEF g, Body, D
      <4> QED
        BY <3>4, <4>1
    <3> HIDE DEF g, D, Body
    <3>6. \E h : h = [S \in D(n + 1) |-> Body(h, S)]
      BY <3>5
    <3>7. n + 1 \in Nat
      OBVIOUS
    <3> QED
      BY <3>6, <3>7
  <2>5. \A n \in Nat : n \in G
    <3> HIDE DEF G
    <3> QED
      BY <2>3, <2>4, NatAll
  <2>6. Cardinality(gone) \in Nat /\ D(Cardinality(gone)) = SUBSET gone
    BY <2>2
  <2>7. \E f : f = [S \in SUBSET gone |-> Body(f, S)]
    <3> HIDE DEF Body, D
    <3>1. \E f : f = [S \in D(Cardinality(gone)) |-> Body(f, S)]
      BY <2>5, <2>6
    <3> QED
      BY <2>6, <3>1
  <2>8. W0 = [S \in SUBSET gone |-> Body(W0, S)]
    <3> HIDE DEF Body
    <3> QED
      BY <2>7
  <2> HIDE DEF W0, G, D
  <2>9. \A S \in SUBSET gone : W0[S] = Body(W0, S)
    <3> HIDE DEF Body
    <3> QED
      BY <2>8
  <2> DEFINE Fine(u, S) == /\ IsTree(u) /\ PanesIn(u) = PanesIn(t) \ S
                           /\ \A q, o \in PanesIn(u) : Earlier(u, q, o) <=> Earlier(t, q, o)
             H == {S \in SUBSET gone : Fine(W0[S], S)}
  <2>10. ASSUME NEW S \in SUBSET gone, \A p \in S : S \ {p} \in H PROVE S \in H
    <3>1. CASE S = {}
      BY <2>9, <3>1
    <3>2. CASE S # {}
      <4> DEFINE p == CHOOSE p \in S : TRUE
      <4>1. p \in S
        BY <3>2
      <4>2. W0[S] = CloseLeaf(W0[S \ {p}], p)
        BY <2>9, <3>2
      <4> HIDE DEF p
      <4> DEFINE u == W0[S \ {p}]
      <4>3. Fine(u, S \ {p})
        BY <2>10, <4>1
      <4> HIDE DEF u
      <4>4. p \in PanesIn(u) /\ \E q \in PanesIn(u) : q # p
        BY <1>3, <4>1, <4>3
      <4>5. CanClose(u, p)
        BY <4>3, <4>4, NotAlone
      <4>6. IsTree(CloseLeaf(u, p)) /\ PanesIn(CloseLeaf(u, p)) = PanesIn(u) \ {p}
        BY <4>3, <4>5, CloseLeafTree
      <4>7. \A q, o \in PanesIn(CloseLeaf(u, p)) : Earlier(CloseLeaf(u, p), q, o) <=> Earlier(u, q, o)
        BY <4>3, <4>5, CloseLeafOrder
      <4>8. W0[S] = CloseLeaf(u, p)
        BY <4>2 DEF u
      <4>9. PanesIn(CloseLeaf(u, p)) = PanesIn(t) \ S /\ PanesIn(CloseLeaf(u, p)) \subseteq PanesIn(u)
        BY <4>1, <4>3, <4>6
      <4>10. Fine(CloseLeaf(u, p), S)
        BY <4>3, <4>6, <4>7, <4>9
      <4> HIDE DEF Fine
      <4> QED
        BY <4>8, <4>10
    <3> QED
      BY <3>1, <3>2
  <2>11. gone \in H
    <3> HIDE DEF H
    <3>1. \A S \in SUBSET gone : S \in H
      BY <2>10, SubsetAll
    <3> QED
      BY <3>1
  <2> QED
    BY <2>1, <2>11
<1> QED
  BY <1>1, <1>2, <1>3

-----------------------------------------------------------------------------
(* The order of the leaves                                                 *)

\* Places in order are numbered from one, each number once.
LEMMA RankIs ==
  ASSUME NEW S, IsFiniteSet(S), Unnested(S)
  PROVE  /\ Cardinality(S) \in Nat
         /\ \A x \in S : Rank(x, S) \in 1 .. Cardinality(S)
         /\ \A x, y \in S : Before(x, y) => Rank(x, S) < Rank(y, S)
         /\ \A x, y \in S : Rank(x, S) = Rank(y, S) => x = y
         /\ \A i \in 1 .. Cardinality(S) : \E x \in S : Rank(x, S) = i
<1> DEFINE B(x) == {y \in S : Before(y, x)}
           n == Cardinality(S)
<1>1. n \in Nat
  BY FS_CardinalityType
<1>2. \A x \in S : x \in Place
  BY DEF Unnested
<1>3. ASSUME NEW x \in S
      PROVE  IsFiniteSet(B(x)) /\ Cardinality(B(x)) \in Nat /\ Cardinality(B(x)) < n /\ x \notin B(x)
  <2>1. x \notin B(x)
    BY <1>2, BeforeStrict
  <2> DEFINE b == B(x)
             R == S \ {x}
  <2>2. b \in SUBSET R
    BY <2>1
  <2> HIDE DEF b
  <2>3. IsFiniteSet(R) /\ Cardinality(R) = n - 1
    BY FS_RemoveElement
  <2> HIDE DEF R, n
  <2>4. IsFiniteSet(b) /\ Cardinality(b) <= Cardinality(R)
    BY <2>2, <2>3, FS_Subset
  <2>5. Cardinality(b) \in Nat
    BY <2>4, FS_CardinalityType
  <2>6. Cardinality(b) < n
    BY <1>1, <2>3, <2>4, <2>5
  <2> QED
    BY <2>1, <2>4, <2>5, <2>6 DEF b
<1>4. ASSUME NEW x \in S, NEW y \in S, Before(x, y) PROVE Cardinality(B(x)) < Cardinality(B(y))
  <2> DEFINE b == B(x)
             c == B(y)
             d == b \cup {x}
  <2>1. d \in SUBSET c
    <3> SUFFICES ASSUME NEW z \in S, Before(z, x) PROVE Before(z, y)
      BY <1>4
    <3> QED
      BY <1>2, <1>4, BeforeTrans
  <2>2. IsFiniteSet(b) /\ Cardinality(b) \in Nat /\ x \notin b
    BY <1>3
  <2>3. IsFiniteSet(c) /\ Cardinality(c) \in Nat
    BY <1>3
  <2> HIDE DEF b, c
  <2>4. Cardinality(d) = Cardinality(b) + 1
    BY <2>2, FS_AddElement
  <2> HIDE DEF d
  <2>5. Cardinality(d) <= Cardinality(c)
    BY <2>1, <2>3, FS_Subset
  <2>6. Cardinality(b) < Cardinality(c)
    BY <2>2, <2>3, <2>4, <2>5
  <2> QED
    BY <2>6 DEF b, c
<1>5. \A x \in S : Rank(x, S) = Cardinality(B(x)) + 1
  BY DEF Rank
<1> DEFINE k(x) == Cardinality(B(x))
<1>6. \A x \in S : Rank(x, S) = k(x) + 1 /\ k(x) \in Nat /\ k(x) < n
  BY <1>3, <1>5
<1>7. \A x, y \in S : Before(x, y) => k(x) < k(y)
  BY <1>4
<1> HIDE DEF k, B, n
<1>8. \A x \in S : Rank(x, S) \in 1 .. n
  BY <1>1, <1>6
<1>9. \A x, y \in S : Before(x, y) => Rank(x, S) < Rank(y, S)
  BY <1>6, <1>7
<1>10. \A x, y \in S : Rank(x, S) = Rank(y, S) => x = y
  <2> SUFFICES ASSUME NEW x \in S, NEW y \in S, Rank(x, S) = Rank(y, S), x # y PROVE FALSE
    OBVIOUS
  <2>1. Rank(x, S) \in Int
    BY <1>1, <1>8
  <2>2. Before(x, y) \/ Before(y, x)
    BY <1>2, BeforeTotal DEF Unnested
  <2> QED
    BY <1>9, <2>1, <2>2
<1>11. \A i \in 1 .. n : \E x \in S : Rank(x, S) = i
  <2> DEFINE h == [x \in S |-> Rank(x, S)]
             T == 1 .. n
  <2>1. h \in Injection(S, T)
    BY <1>8, <1>10 DEF Injection, IsInjective
  <2>2. \A x \in S : h[x] = Rank(x, S)
    OBVIOUS
  <2>3. IsFiniteSet(T) /\ Cardinality(T) = n
    BY <1>1, FS_Interval
  <2> HIDE DEF h, T
  <2>4. h \in Surjection(S, T)
    BY <2>1, <2>3, FS_Injection DEF n
  <2> QED
    BY <2>2, <2>4 DEF Surjection, T
<1> QED
  BY <1>1, <1>8, <1>9, <1>10, <1>11 DEF n

LEMMA InOrderIs ==
  ASSUME NEW S, IsFiniteSet(S), Unnested(S)
  PROVE  /\ DOMAIN InOrder(S) = 1 .. Cardinality(S)
         /\ \A i \in 1 .. Cardinality(S) : InOrder(S)[i] \in S /\ Rank(InOrder(S)[i], S) = i
         /\ \A x \in S : InOrder(S)[Rank(x, S)] = x
<1>1. \A i \in 1 .. Cardinality(S) : InOrder(S)[i] \in S /\ Rank(InOrder(S)[i], S) = i
  BY RankIs DEF InOrder
<1>2. \A x \in S : InOrder(S)[Rank(x, S)] = x
  BY <1>1, RankIs
<1> QED
  BY <1>1, <1>2 DEF InOrder

\* The panes of a tree are those between two places of a list, in its order.
Shows(t, L, m, n) ==
  /\ IsTree(t) /\ PanesIn(t) = {L[i] : i \in m .. n}
  /\ \A i, j \in m .. n : i < j => Earlier(t, L[i], L[j])

LEMMA LeavesAre ==
  ASSUME NEW t, IsTree(t)
  PROVE  LET L == Leaves(t)
             n == Cardinality(LeafPlaces(t))
         IN /\ n \in Nat /\ n > 0 /\ L \in Seq(Nat \ {0}) /\ Len(L) = n /\ DOMAIN L = 1 .. n
            /\ Shows(t, L, 1, n)
            /\ \A i, j \in 1 .. n : L[i] = L[j] => i = j
            /\ \A p \in PanesIn(t) : LET i == Rank(PlaceOf(t, p), LeafPlaces(t)) IN i \in 1 .. n /\ L[i] = p
<1> DEFINE S == LeafPlaces(t)
           n == Cardinality(S)
           O == InOrder(S)
           L == Leaves(t)
<1>1. IsFiniteSet(S) /\ Unnested(S)
  BY LeafFacts, LeavesUnnested
<1>2. n \in Nat
  BY <1>1, FS_CardinalityType
<1>3. DOMAIN O = 1 .. n /\ \A i \in 1 .. n : O[i] \in S /\ Rank(O[i], S) = i
  BY <1>1, InOrderIs
<1>4. \A x \in S : Rank(x, S) \in 1 .. n /\ O[Rank(x, S)] = x
  BY <1>1, InOrderIs, RankIs
<1>5. \A x, y \in S : Before(x, y) => Rank(x, S) < Rank(y, S)
  BY <1>1, RankIs
<1>6. L = [i \in 1 .. n |-> t[O[i]].pane]
  BY <1>3 DEF Leaves
<1>7. /\ \A x \in S : t[x].pane \in PanesIn(t) /\ PlaceOf(t, t[x].pane) = x
      /\ \A p \in PanesIn(t) : PlaceOf(t, p) \in S /\ t[PlaceOf(t, p)].pane = p /\ p \in Nat \ {0}
  BY LeafFacts
<1> HIDE DEF S, n, O, L
<1>8. \A i \in 1 .. n : L[i] = t[O[i]].pane /\ L[i] \in PanesIn(t) /\ PlaceOf(t, L[i]) = O[i] /\ L[i] \in Nat \ {0}
  BY <1>3, <1>6, <1>7
<1>9. L \in Seq(Nat \ {0}) /\ Len(L) = n /\ DOMAIN L = 1 .. n
  <2>1. L \in [1 .. n -> Nat \ {0}]
    BY <1>6, <1>8
  <2>2. L \in Seq(Nat \ {0})
    BY <1>2, <2>1, SeqDef
  <2>3. DOMAIN L = 1 .. n /\ Len(L) \in Nat /\ DOMAIN L = 1 .. Len(L)
    BY <2>1, <2>2, LenProperties
  <2> QED
    BY <1>2, <2>2, <2>3
<1>10. \A p \in PanesIn(t) : Rank(PlaceOf(t, p), S) \in 1 .. n /\ L[Rank(PlaceOf(t, p), S)] = p
  BY <1>4, <1>7, <1>8
<1>11. \A i, j \in 1 .. n : L[i] = L[j] => i = j
  BY <1>3, <1>8
<1>12. ASSUME NEW i \in 1 .. n, NEW j \in 1 .. n, i < j PROVE Earlier(t, L[i], L[j])
  <2>1. O[i] \in S /\ O[j] \in S /\ O[i] # O[j]
    BY <1>2, <1>3, <1>12
  <2>2. O[i] \in Place /\ O[j] \in Place /\ ~IsPrefix(O[i], O[j]) /\ ~IsPrefix(O[j], O[i])
    BY <1>1, <2>1 DEF Unnested
  <2>3. ~Before(O[j], O[i])
    <3> SUFFICES ASSUME Before(O[j], O[i]) PROVE FALSE
      OBVIOUS
    <3>1. Rank(O[j], S) < Rank(O[i], S)
      BY <1>5, <2>1
    <3>2. j < i
      BY <1>3, <3>1
    <3> QED
      BY <1>2, <1>12, <3>2
  <2>4. Before(O[i], O[j])
    BY <2>2, <2>3, BeforeTotal
  <2> QED
    BY <1>8, <2>4 DEF Earlier
<1>13. PanesIn(t) = {L[i] : i \in 1 .. n}
  BY <1>8, <1>10
<1>14. n > 0
  BY <1>2, <1>13, TreeHasPanes
<1> QED
  BY <1>2, <1>9, <1>10, <1>11, <1>12, <1>13, <1>14 DEF Shows, S, n, L

\* There is one list of a tree's panes in layout order.
LEMMA ShowsIsLeaves ==
  ASSUME NEW t, NEW L \in Seq(Nat), Shows(t, L, 1, Len(L))
  PROVE  Leaves(t) = L
<1> DEFINE S == LeafPlaces(t)
           m == Len(L)
           n == Cardinality(S)
           x(i) == PlaceOf(t, L[i])
<1>1. IsTree(t) /\ m \in Nat /\ DOMAIN L = 1 .. m
  BY LenProperties DEF Shows
<1>2. IsFiniteSet(S) /\ Unnested(S)
  BY <1>1, LeafFacts, LeavesUnnested
<1>3. \A i \in 1 .. m : L[i] \in PanesIn(t) /\ x(i) \in S /\ t[x(i)].pane = L[i]
  BY <1>1, LeafFacts DEF Shows
<1>4. \A y \in S : \E i \in 1 .. m : x(i) = y
  <2> SUFFICES ASSUME NEW y \in S PROVE \E i \in 1 .. m : x(i) = y
    OBVIOUS
  <2>1. t[y].pane \in PanesIn(t) /\ PlaceOf(t, t[y].pane) = y
    BY <1>1, LeafFacts
  <2>2. \E i \in 1 .. m : t[y].pane = L[i]
    BY <2>1 DEF Shows
  <2> QED
    BY <2>1, <2>2
<1>5. \A i, j \in 1 .. m : i < j => Before(x(i), x(j))
  BY DEF Shows, Earlier
<1>6. \A i \in 1 .. m : x(i) \in Place
  BY <1>2, <1>3 DEF Unnested
<1> HIDE DEF S, x, m, n
<1>7. \A i, j \in 1 .. m : Before(x(i), x(j)) => i < j
  <2> SUFFICES ASSUME NEW i \in 1 .. m, NEW j \in 1 .. m, Before(x(i), x(j)), ~(i < j) PROVE FALSE
    OBVIOUS
  <2>1. x(i) # x(j) /\ ~Before(x(j), x(i))
    BY <1>6, BeforeStrict
  <2>2. i = j \/ j < i
    BY <1>1
  <2> QED
    BY <1>5, <2>1, <2>2
<1>8. \A i, j \in 1 .. m : x(i) = x(j) => i = j
  <2> SUFFICES ASSUME NEW i \in 1 .. m, NEW j \in 1 .. m, x(i) = x(j), i # j PROVE FALSE
    OBVIOUS
  <2>1. i < j \/ j < i
    BY <1>1
  <2>2. Before(x(i), x(j)) \/ Before(x(j), x(i))
    BY <1>5, <2>1
  <2> QED
    BY <1>6, <2>2, BeforeStrict
<1>9. ASSUME NEW k \in 0 .. m, NEW T, T = {x(j) : j \in 1 .. k} PROVE IsFiniteSet(T) /\ Cardinality(T) = k
  <2> DEFINE I == 1 .. k
             h == [j \in I |-> x(j)]
  <2>6. k \in Nat /\ k <= m
    BY <1>1
  <2>1. IsFiniteSet(I) /\ Cardinality(I) = k
    <3>1. IsFiniteSet(1 .. k) /\ Cardinality(1 .. k) = IF 1 > k THEN 0 ELSE k - 1 + 1
      BY <2>6, FS_Interval
    <3> QED
      BY <2>6, <3>1
  <2>2. \A j \in I : j \in 1 .. m
    BY <1>1, <2>6
  <2>3. h \in Surjection(I, T)
    BY <1>9 DEF Surjection
  <2>4. h \in Injection(I, T)
    BY <1>8, <1>9, <2>2 DEF Injection, IsInjective
  <2>5. h \in Bijection(I, T)
    BY <2>3, <2>4 DEF Bijection
  <2> HIDE DEF h, I
  <2>7. ExistsBijection(I, T)
    BY <2>5 DEF ExistsBijection
  <2> QED
    BY <2>1, <2>7, FS_Bijection
<1>10. m = n
  <2>1. S = {x(j) : j \in 1 .. m}
    BY <1>3, <1>4
  <2>2. m \in 0 .. m
    BY <1>1
  <2> QED
    BY <1>9, <2>1, <2>2 DEF n
<1>11. ASSUME NEW i \in 1 .. m PROVE Rank(x(i), S) = i
  <2> DEFINE k == i - 1
             T == {y \in S : Before(y, x(i))}
  <2>1. T = {x(j) : j \in 1 .. k}
    <3>1. ASSUME NEW y \in T PROVE y \in {x(j) : j \in 1 .. k}
      <4>1. PICK j \in 1 .. m : x(j) = y
        BY <1>4
      <4>2. j < i
        BY <1>7, <4>1
      <4>3. j \in 1 .. k
        BY <1>1, <4>2
      <4> QED
        BY <4>1, <4>3
    <3>2. ASSUME NEW j \in 1 .. k PROVE x(j) \in T
      <4>1. j \in 1 .. m /\ j < i
        BY <1>1
      <4> QED
        BY <1>3, <1>5, <4>1
    <3> QED
      BY <3>1, <3>2
  <2>2. k \in 0 .. m /\ k + 1 = i
    BY <1>1
  <2>3. Rank(x(i), S) = Cardinality(T) + 1
    BY Zenon DEF Rank
  <2> HIDE DEF T, k
  <2>4. Cardinality(T) = k
    BY <1>9, <2>1, <2>2
  <2> QED
    BY <2>2, <2>3, <2>4
<1>12. Leaves(t) \in Seq(Nat) /\ Len(Leaves(t)) = m
  <2>1. Leaves(t) \in Seq(Nat \ {0}) /\ Len(Leaves(t)) = Cardinality(LeafPlaces(t))
    BY <1>1, LeavesAre
  <2>2. (Nat \ {0}) \subseteq Nat
    OBVIOUS
  <2>3. Leaves(t) \in Seq(Nat)
    BY <2>1, <2>2, SeqMonotonic
  <2> QED
    BY <1>10, <2>1, <2>3 DEF n, S
<1>13. \A i \in 1 .. m : Leaves(t)[i] = L[i]
  <2> SUFFICES ASSUME NEW i \in 1 .. m PROVE Leaves(t)[i] = L[i]
    OBVIOUS
  <2>1. InOrder(S)[i] = x(i)
    BY <1>2, <1>3, <1>11, InOrderIs
  <2>2. DOMAIN InOrder(S) = 1 .. m
    BY <1>2, <1>10, InOrderIs DEF n
  <2>3. Leaves(t)[i] = t[InOrder(S)[i]].pane
    BY <2>2 DEF Leaves, S
  <2> QED
    BY <1>3, <2>1, <2>3
<1> QED
  BY <1>12, <1>13, SeqEqual DEF m

-----------------------------------------------------------------------------
(* The presets of select-layout                                            *)

Side == {"a", "b"}

\* The places of a tree that is one side of another.
LEMMA UnderIs ==
  ASSUME NEW c \in Side, NEW y \in Place
  PROVE  LET z == <<c>> \o y IN
         /\ z \in Place /\ z # <<>> /\ Len(z) = Len(y) + 1
         /\ z[1] = c /\ \A i \in 1 .. Len(y) : z[i + 1] = y[i]
         /\ Head(z) = c /\ Tail(z) = y
         /\ \A d \in Side : Append(z, d) = <<c>> \o Append(y, d)
         /\ Append(<<>>, c) = <<c>> \o <<>>
<1> DEFINE z == <<c>> \o y
<1>1. \A v \in Place : /\ <<c>> \o v \in Place /\ Len(<<c>> \o v) = Len(v) + 1
                       /\ (<<c>> \o v)[1] = c /\ \A i \in 1 .. Len(v) : (<<c>> \o v)[i + 1] = v[i]
  <2> SUFFICES ASSUME NEW v \in Place
               PROVE  /\ <<c>> \o v \in Place /\ Len(<<c>> \o v) = Len(v) + 1
                      /\ (<<c>> \o v)[1] = c /\ \A i \in 1 .. Len(v) : (<<c>> \o v)[i + 1] = v[i]
    OBVIOUS
  <2> DEFINE one == <<c>>
  <2>1. one \in Seq({"a", "b"}) /\ Len(one) = 1 /\ one[1] = c /\ v \in Seq({"a", "b"})
    BY DEF Side, Place
  <2> HIDE DEF one
  <2>2. /\ one \o v \in Seq({"a", "b"})
        /\ Len(one \o v) = Len(one) + Len(v)
        /\ \A i \in 1 .. Len(one) + Len(v) : (one \o v)[i] = IF i <= Len(one) THEN one[i] ELSE v[i - Len(one)]
    BY <2>1, ConcatProperties
  <2>3. Len(v) \in Nat
    BY PlaceLen
  <2>4. Len(one \o v) = Len(v) + 1 /\ (one \o v)[1] = c
    BY <2>1, <2>2, <2>3
  <2>5. ASSUME NEW i \in 1 .. Len(v) PROVE (one \o v)[i + 1] = v[i]
    <3> DEFINE k == i + 1
    <3>1. k \in 1 .. Len(one) + Len(v) /\ ~(k <= Len(one)) /\ k - Len(one) = i
      BY <2>1, <2>3
    <3> HIDE DEF k
    <3>2. (one \o v)[k] = v[i]
      BY <2>2, <3>1
    <3> QED
      BY <3>2 DEF k
  <2> QED
    BY <2>2, <2>4, <2>5 DEF one, Place
<1>2. z \in Place /\ Len(z) = Len(y) + 1 /\ z[1] = c /\ \A i \in 1 .. Len(y) : z[i + 1] = y[i]
  BY <1>1
<1>3. Len(y) \in Nat
  BY PlaceLen
<1>4. z # <<>>
  BY <1>2, <1>3, RootPlace
<1>5. \A d \in Side : Append(z, d) = <<c>> \o Append(y, d)
  <2> SUFFICES ASSUME NEW d \in Side PROVE Append(z, d) = <<c>> \o Append(y, d)
    OBVIOUS
  <2> HIDE DEF z
  <2> DEFINE l == Append(z, d)
             v == Append(y, d)
             r == <<c>> \o v
  <2>1. /\ l \in Place /\ Len(l) = Len(z) + 1 /\ \A i \in 1 .. Len(z) : l[i] = z[i]
        /\ l[Len(z) + 1] = d
    BY <1>2, AppendIs DEF Side
  <2>2. /\ v \in Place /\ Len(v) = Len(y) + 1 /\ \A i \in 1 .. Len(y) : v[i] = y[i]
        /\ v[Len(y) + 1] = d
    BY AppendIs DEF Side
  <2> HIDE DEF v, l
  <2>3. r \in Place /\ Len(r) = Len(v) + 1 /\ r[1] = c /\ \A i \in 1 .. Len(v) : r[i + 1] = v[i]
    BY <1>1, <2>2
  <2> HIDE DEF r
  <2>4. Len(l) = Len(r) /\ Len(l) = Len(y) + 2
    BY <1>2, <1>3, <2>1, <2>2, <2>3
  <2>5. ASSUME NEW i \in 1 .. Len(l) PROVE l[i] = r[i]
    <3>1. CASE i = 1
      BY <1>2, <1>3, <2>1, <2>3, <3>1
    <3>2. CASE i # 1
      <4> DEFINE k == i - 1
      <4>1. k \in 1 .. Len(y) + 1 /\ i = k + 1
        BY <1>3, <2>4, <3>2
      <4> HIDE DEF k
      <4>2. r[i] = v[k]
        BY <2>2, <2>3, <4>1
      <4>3. CASE k = Len(y) + 1
        BY <1>2, <2>1, <2>2, <4>1, <4>2, <4>3
      <4>4. CASE k \in 1 .. Len(y)
        <5>1. i \in 1 .. Len(z)
          BY <1>2, <1>3, <4>1, <4>4
        <5>2. l[i] = z[i] /\ z[k + 1] = y[k] /\ v[k] = y[k]
          BY <1>2, <2>1, <2>2, <4>4, <5>1
        <5> QED
          BY <4>1, <4>2, <5>2
      <4> QED
        BY <1>3, <4>1, <4>3, <4>4
    <3> QED
      BY <3>1, <3>2
  <2>6. l = r
    BY <2>1, <2>3, <2>4, <2>5, PlaceEqual
  <2> QED
    BY <2>6 DEF l, r, v
<1>6. Append(<<>>, c) = <<c>> \o <<>>
  <2>1. /\ Append(<<>>, c) \in Place /\ Len(Append(<<>>, c)) = 1 /\ Append(<<>>, c)[1] = c
    <3>1. Append(<<>>, c) \in Place /\ Len(Append(<<>>, c)) = Len(<<>>) + 1 /\ Append(<<>>, c)[Len(<<>>) + 1] = c
      BY RootPlace, AppendIs DEF Side
    <3> QED
      BY <3>1, RootPlace
  <2>2. <<c>> \o <<>> \in Place /\ Len(<<c>> \o <<>>) = 1 /\ (<<c>> \o <<>>)[1] = c
    <3>1. <<c>> \o <<>> \in Place /\ Len(<<c>> \o <<>>) = Len(<<>>) + 1 /\ (<<c>> \o <<>>)[1] = c
      BY <1>1, RootPlace
    <3> QED
      BY <3>1, RootPlace
  <2>3. \A i \in 1 .. Len(Append(<<>>, c)) : Append(<<>>, c)[i] = (<<c>> \o <<>>)[i]
    BY <2>1, <2>2
  <2> QED
    BY <2>1, <2>2, <2>3, PlaceEqual
<1>9. Head(z) = c /\ Tail(z) = y
  <2>1. z \in Seq({"a", "b"}) /\ z # <<>>
    BY <1>2, <1>4 DEF Place
  <2>2. Head(z) = z[1]
    <3> HIDE DEF z
    <3> QED
      BY <2>1
  <2>3. Tail(z) \in Place /\ Len(Tail(z)) = Len(z) - 1 /\ \A i \in 1 .. Len(Tail(z)) : Tail(z)[i] = z[i + 1]
    <3> HIDE DEF z
    <3> QED
      BY <2>1, HeadTailProperties DEF Place
  <2>4. Len(Tail(z)) = Len(y) /\ \A i \in 1 .. Len(Tail(z)) : Tail(z)[i] = y[i]
    <3> HIDE DEF z
    <3> QED
      BY <1>2, <1>3, <2>3
  <2>5. Tail(z) = y
    BY <2>3, <2>4, PlaceEqual
  <2> QED
    BY <1>2, <2>2, <2>5
<1> QED
  BY <1>2, <1>4, <1>5, <1>6, <1>9

LEMMA UnderFront ==
  ASSUME NEW c \in Side, NEW y \in Place
  PROVE  Front(<<c>> \o y) = IF y = <<>> THEN <<>> ELSE <<c>> \o Front(y)
<1>1. CASE y = <<>>
  <2>1. <<c>> \o y = Append(<<>>, c)
    BY <1>1, UnderIs
  <2>2. Front(Append(<<>>, c)) = <<>>
    BY AppendIs, RootPlace DEF Side
  <2> QED
    BY <1>1, <2>1, <2>2
<1>2. CASE y # <<>>
  <2> DEFINE v == Front(y)
             d == Last(y)
             w == <<c>> \o v
  <2>1. v \in Place /\ d \in Side /\ Append(v, d) = y
    BY <1>2, FrontIs, AppendFront DEF Side
  <2> HIDE DEF v, d
  <2>2. w \in Place /\ Append(w, d) = <<c>> \o Append(v, d)
    BY <2>1, UnderIs
  <2> HIDE DEF w
  <2>3. Front(Append(w, d)) = w
    BY <2>1, <2>2, AppendIs DEF Side
  <2> QED
    BY <1>2, <2>1, <2>2, <2>3 DEF v, w
<1> QED
  BY <1>1, <1>2


LEMMA LeafTree ==
  ASSUME NEW p \in Nat \ {0}
  PROVE  IsTree(Leaf(p)) /\ PanesIn(Leaf(p)) = {p}
<1>1. DOMAIN Leaf(p) = {<<>>} /\ Leaf(p)[<<>>] = LeafNode(p)
  BY DEF Leaf
<1>2. IsLeaf(LeafNode(p)) /\ LeafNode(p) \in [pane : Nat \ {0}] /\ LeafNode(p).pane = p
  BY NodeFacts
<1>3. LeafPlaces(Leaf(p)) = {<<>>}
  BY <1>1, <1>2 DEF LeafPlaces
<1>4. IsFiniteSet({<<>>}) /\ {<<>>} \subseteq Seq({"a", "b"})
  BY FS_Singleton, RootPlace DEF Place
<1>5. IsTree(Leaf(p))
  BY <1>1, <1>2, <1>3, <1>4 DEF IsTree
<1> QED
  BY <1>1, <1>2, <1>3, <1>5 DEF PanesIn

LEMMA JoinedIs ==
  ASSUME NEW split, NEW ratio, NEW s, IsTree(s), NEW t, IsTree(t)
  PROVE  LET u == Joined(split, ratio, s, t)
             K(c) == IF c = "a" THEN s ELSE t
         IN /\ <<>> \in DOMAIN u /\ u[<<>>] = Internal(split, ratio)
            /\ \A c \in Side : \A y \in DOMAIN K(c) :
                 <<c>> \o y \in DOMAIN u /\ u[<<c>> \o y] = K(c)[y] /\ <<c>> \o y # <<>>
            /\ \A x \in DOMAIN u : x # <<>> => \E c \in Side : \E y \in DOMAIN K(c) : x = <<c>> \o y
            /\ IsFiniteSet(DOMAIN u) /\ DOMAIN u \subseteq Place
<1> DEFINE u == Joined(split, ratio, s, t)
           K(c) == IF c = "a" THEN s ELSE t
           A == {<<"a">> \o y : y \in DOMAIN s}
           B == {<<"b">> \o y : y \in DOMAIN t}
<1>1. u = [x \in {<<>>} \cup A \cup B |->
             IF x = <<>> THEN Internal(split, ratio)
             ELSE IF Head(x) = "a" THEN s[Tail(x)] ELSE t[Tail(x)]]
  BY DEF Joined
<1>2. \A c \in Side : IsTree(K(c)) /\ \A y \in DOMAIN K(c) : y \in Place
  BY TreeFacts
<1>3. \A c \in Side : \A y \in DOMAIN K(c) :
        <<c>> \o y \in Place /\ <<c>> \o y # <<>> /\ Head(<<c>> \o y) = c /\ Tail(<<c>> \o y) = y
  BY <1>2, UnderIs
<1>4. \A c \in Side : \A y \in DOMAIN K(c) : <<c>> \o y \in A \cup B
  BY DEF Side
<1>5. \A x \in A \cup B : \E c \in Side : \E y \in DOMAIN K(c) : x = <<c>> \o y
  BY DEF Side
<1> HIDE DEF A, B, u
<1>6. \A c \in Side : \A y \in DOMAIN K(c) : <<c>> \o y \in DOMAIN u /\ u[<<c>> \o y] = K(c)[y]
  <2> SUFFICES ASSUME NEW c \in Side, NEW y \in DOMAIN K(c)
               PROVE  <<c>> \o y \in DOMAIN u /\ u[<<c>> \o y] = K(c)[y]
    OBVIOUS
  <2> DEFINE z == <<c>> \o y
  <2>1. z \in A \cup B /\ z # <<>> /\ Head(z) = c /\ Tail(z) = y
    BY <1>3, <1>4
  <2>2. c = "a" \/ c = "b"
    BY DEF Side
  <2> HIDE DEF z
  <2>3. z \in DOMAIN u /\ u[z] = IF Head(z) = "a" THEN s[Tail(z)] ELSE t[Tail(z)]
    BY <1>1, <2>1
  <2> QED
    BY <2>1, <2>2, <2>3 DEF z
<1>7. \A x \in DOMAIN u : x # <<>> => \E c \in Side : \E y \in DOMAIN K(c) : x = <<c>> \o y
  BY <1>1, <1>5
<1>8. <<>> \in DOMAIN u /\ u[<<>>] = Internal(split, ratio)
  BY <1>1
<1>9. IsFiniteSet(DOMAIN u)
  <2> DEFINE f == [y \in DOMAIN s |-> <<"a">> \o y]
             g == [y \in DOMAIN t |-> <<"b">> \o y]
             S == DOMAIN s
             T == DOMAIN t
  <2>1. f \in Surjection(S, A) /\ g \in Surjection(T, B)
    BY DEF Surjection, A, B
  <2>2. IsFiniteSet(S) /\ IsFiniteSet(T)
    BY TreeFacts
  <2> HIDE DEF f, g, S, T
  <2>3. IsFiniteSet(A)
    BY <2>1, <2>2, FS_Surjection
  <2>4. IsFiniteSet(B)
    BY <2>1, <2>2, FS_Surjection
  <2> DEFINE O == {<<>>}
             C == O \cup A
  <2>5. IsFiniteSet(O)
    BY FS_Singleton
  <2> HIDE DEF O
  <2>6. IsFiniteSet(C)
    BY <2>3, <2>5, FS_Union
  <2> HIDE DEF C
  <2>7. IsFiniteSet(C \cup B)
    BY <2>4, <2>6, FS_Union
  <2> QED
    BY <1>1, <2>7 DEF C, O
<1>10. DOMAIN u \subseteq Place
  <2> SUFFICES ASSUME NEW x \in DOMAIN u, x # <<>> PROVE x \in Place
    BY RootPlace
  <2> HIDE DEF K
  <2>1. PICK c \in Side : \E y \in DOMAIN K(c) : x = <<c>> \o y
    BY <1>7
  <2>2. PICK y \in DOMAIN K(c) : x = <<c>> \o y
    BY <2>1
  <2>3. <<c>> \o y \in Place
    BY <1>3
  <2> QED
    BY <2>2, <2>3
<1> QED
  BY <1>3, <1>6, <1>7, <1>8, <1>9, <1>10 DEF u

LEMMA JoinedTree ==
  ASSUME NEW split \in Axes, NEW ratio \in 0 .. Whole, NEW s, IsTree(s), NEW t, IsTree(t),
         PanesIn(s) \cap PanesIn(t) = {}
  PROVE  LET u == Joined(split, ratio, s, t) IN
         /\ IsTree(u) /\ PanesIn(u) = PanesIn(s) \cup PanesIn(t)
         /\ \A p, q \in PanesIn(s) : Earlier(s, p, q) => Earlier(u, p, q)
         /\ \A p, q \in PanesIn(t) : Earlier(t, p, q) => Earlier(u, p, q)
         /\ \A p \in PanesIn(s), q \in PanesIn(t) : Earlier(u, p, q)
<1> DEFINE u == Joined(split, ratio, s, t)
           K(c) == IF c = "a" THEN s ELSE t
<1>1. /\ <<>> \in DOMAIN u /\ u[<<>>] = Internal(split, ratio)
      /\ \A c \in Side : \A y \in DOMAIN K(c) :
           <<c>> \o y \in DOMAIN u /\ u[<<c>> \o y] = K(c)[y] /\ <<c>> \o y # <<>>
      /\ \A x \in DOMAIN u : x # <<>> => \E c \in Side : \E y \in DOMAIN K(c) : x = <<c>> \o y
      /\ IsFiniteSet(DOMAIN u) /\ DOMAIN u \subseteq Place
  BY JoinedIs
<1>2. \A c \in Side : IsTree(K(c))
  OBVIOUS
<1>3. \A c, d \in Side : c # d => PanesIn(K(c)) \cap PanesIn(K(d)) = {}
  BY DEF Side
<1>4. K("a") = s /\ K("b") = t /\ "a" \in Side /\ "b" \in Side /\ \A c \in Side : c \in {"a", "b"}
  BY DEF Side
<1> HIDE DEF u, K
<1>5. \A c \in Side : \A y \in DOMAIN K(c) : y \in Place
  BY <1>2, TreeFacts
<1>6. ~IsLeaf(u[<<>>]) /\ u[<<>>] \in [split : Axes, ratio : 0 .. Whole]
  BY <1>1, NodeFacts
<1>7. \A c \in Side : <<>> \in DOMAIN K(c) /\ Append(<<>>, c) \in DOMAIN u
  <2> SUFFICES ASSUME NEW c \in Side PROVE <<>> \in DOMAIN K(c) /\ Append(<<>>, c) \in DOMAIN u
    OBVIOUS
  <2>1. <<>> \in DOMAIN K(c)
    BY <1>2, TreeFacts
  <2>2. Append(<<>>, c) = <<c>> \o <<>>
    BY RootPlace, UnderIs
  <2> QED
    BY <1>1, <2>1, <2>2
<1>8. ASSUME NEW c \in Side, NEW y \in DOMAIN K(c)
      PROVE  LET x == <<c>> \o y IN
             /\ Front(x) \in DOMAIN u /\ ~IsLeaf(u[Front(x)])
             /\ ~IsLeaf(u[x]) => /\ u[x] \in [split : Axes, ratio : 0 .. Whole]
                                 /\ Append(x, "a") \in DOMAIN u /\ Append(x, "b") \in DOMAIN u
             /\ IsLeaf(u[x]) => u[x] \in [pane : Nat \ {0}]
  <2> DEFINE x == <<c>> \o y
  <2>1. u[x] = K(c)[y] /\ y \in Place /\ IsTree(K(c))
    BY <1>1, <1>2, <1>5
  <2>2. Front(x) \in DOMAIN u /\ ~IsLeaf(u[Front(x)])
    <3>1. CASE y = <<>>
      BY <1>1, <1>6, <2>1, <3>1, UnderFront
    <3>2. CASE y # <<>>
      <4>1. Front(x) = <<c>> \o Front(y)
        BY <2>1, <3>2, UnderFront
      <4>2. Front(y) \in DOMAIN K(c) /\ ~IsLeaf(K(c)[Front(y)])
        BY <2>1, <3>2, TreeFacts
      <4> QED
        BY <1>1, <4>1, <4>2
    <3> QED
      BY <3>1, <3>2
  <2>3. ASSUME ~IsLeaf(u[x])
        PROVE  /\ u[x] \in [split : Axes, ratio : 0 .. Whole]
               /\ Append(x, "a") \in DOMAIN u /\ Append(x, "b") \in DOMAIN u
    <3>1. /\ K(c)[y] \in [split : Axes, ratio : 0 .. Whole]
          /\ Append(y, "a") \in DOMAIN K(c) /\ Append(y, "b") \in DOMAIN K(c)
      BY <2>1, <2>3, TreeFacts
    <3>4. \A d \in Side : Append(x, d) = <<c>> \o Append(y, d)
      BY <2>1, UnderIs
    <3>2. Append(x, "a") = <<c>> \o Append(y, "a") /\ Append(x, "b") = <<c>> \o Append(y, "b")
      <4> HIDE DEF x
      <4> QED
        BY <1>4, <3>4
    <3>3. Append(x, "a") \in DOMAIN u /\ Append(x, "b") \in DOMAIN u
      <4> HIDE DEF x
      <4> QED
        BY <1>1, <3>1, <3>2
    <3> QED
      BY <2>1, <3>1, <3>3
  <2>4. IsLeaf(u[x]) => u[x] \in [pane : Nat \ {0}]
    BY <2>1, TreeFacts
  <2> QED
    BY <2>2, <2>3, <2>4
<1>9. \A c \in Side : \A y \in LeafPlaces(K(c)) :
        /\ y \in DOMAIN K(c) /\ IsLeaf(K(c)[y]) /\ <<c>> \o y \in LeafPlaces(u)
        /\ u[<<c>> \o y].pane = K(c)[y].pane /\ K(c)[y].pane \in PanesIn(K(c))
  BY <1>1 DEF LeafPlaces, PanesIn
<1>10. \A x \in LeafPlaces(u) : \E c \in Side : \E y \in LeafPlaces(K(c)) : x = <<c>> \o y
  <2> SUFFICES ASSUME NEW x \in LeafPlaces(u)
               PROVE  \E c \in Side : \E y \in LeafPlaces(K(c)) : x = <<c>> \o y
    OBVIOUS
  <2>1. x \in DOMAIN u /\ IsLeaf(u[x])
    BY DEF LeafPlaces
  <2>2. PICK c \in Side : \E y \in DOMAIN K(c) : x = <<c>> \o y
    BY <1>1, <1>6, <2>1
  <2>22. PICK y \in DOMAIN K(c) : x = <<c>> \o y
    BY <2>2
  <2>3. y \in LeafPlaces(K(c))
    BY <1>1, <2>1, <2>22 DEF LeafPlaces
  <2> QED
    BY <2>22, <2>3
<1>11. ASSUME NEW x \in LeafPlaces(u), NEW z \in LeafPlaces(u), u[x].pane = u[z].pane PROVE x = z
  <2>1. PICK c \in Side : \E y \in LeafPlaces(K(c)) : x = <<c>> \o y
    BY <1>10
  <2>21. PICK y \in LeafPlaces(K(c)) : x = <<c>> \o y
    BY <2>1
  <2>2. PICK d \in Side : \E v \in LeafPlaces(K(d)) : z = <<d>> \o v
    BY <1>10
  <2>22. PICK v \in LeafPlaces(K(d)) : z = <<d>> \o v
    BY <2>2
  <2>3. K(c)[y].pane = K(d)[v].pane /\ K(c)[y].pane \in PanesIn(K(c)) /\ K(d)[v].pane \in PanesIn(K(d))
    BY <1>9, <1>11, <2>21, <2>22
  <2>4. c = d
    BY <1>3, <2>3
  <2>5. y = v
    BY <1>2, <2>3, <2>4, TreeFacts
  <2> QED
    BY <2>21, <2>22, <2>4, <2>5
<1>12. IsTree(u)
  <2>1. ASSUME NEW x \in DOMAIN u
        PROVE  /\ x # <<>> => Front(x) \in DOMAIN u /\ ~IsLeaf(u[Front(x)])
               /\ ~IsLeaf(u[x]) => /\ u[x] \in [split : Axes, ratio : 0 .. Whole]
                                   /\ Append(x, "a") \in DOMAIN u /\ Append(x, "b") \in DOMAIN u
               /\ IsLeaf(u[x]) => u[x] \in [pane : Nat \ {0}]
    <3>1. CASE x = <<>>
      BY <1>4, <1>6, <1>7, <3>1
    <3>2. CASE x # <<>>
      <4>1. PICK c \in Side : \E y \in DOMAIN K(c) : x = <<c>> \o y
        BY <1>1, <3>2
      <4>21. PICK y \in DOMAIN K(c) : x = <<c>> \o y
        BY <4>1
      <4> QED
        BY <1>8, <4>21
    <3> QED
      BY <3>1, <3>2
  <2>2. DOMAIN u \subseteq Seq({"a", "b"})
    BY <1>1 DEF Place
  <2> QED
    BY <1>1, <1>11, <2>1, <2>2 DEF IsTree
<1>13. \A c \in Side : PanesIn(K(c)) \subseteq PanesIn(u)
  <2> SUFFICES ASSUME NEW c \in Side, NEW y \in LeafPlaces(K(c)) PROVE K(c)[y].pane \in PanesIn(u)
    BY DEF PanesIn
  <2> DEFINE z == <<c>> \o y
  <2>1. z \in LeafPlaces(u) /\ u[z].pane = K(c)[y].pane
    BY <1>9
  <2> HIDE DEF z
  <2> QED
    BY <2>1 DEF PanesIn
<1>14. \A p \in PanesIn(u) : \E c \in Side : p \in PanesIn(K(c))
  <2> SUFFICES ASSUME NEW p \in PanesIn(u) PROVE \E c \in Side : p \in PanesIn(K(c))
    OBVIOUS
  <2>1. PICK x \in LeafPlaces(u) : p = u[x].pane
    BY DEF PanesIn
  <2>2. PICK c \in Side : \E y \in LeafPlaces(K(c)) : x = <<c>> \o y
    BY <1>10
  <2>22. PICK y \in LeafPlaces(K(c)) : x = <<c>> \o y
    BY <2>2
  <2> QED
    BY <1>9, <2>1, <2>22
<1>15. PanesIn(u) = PanesIn(s) \cup PanesIn(t)
  BY <1>4, <1>13, <1>14
<1>16. \A c \in Side : \A p \in PanesIn(K(c)) :
         /\ PlaceOf(u, p) = <<c>> \o PlaceOf(K(c), p)
         /\ PlaceOf(K(c), p) \in Place
  <2> SUFFICES ASSUME NEW c \in Side, NEW p \in PanesIn(K(c))
               PROVE  PlaceOf(u, p) = <<c>> \o PlaceOf(K(c), p) /\ PlaceOf(K(c), p) \in Place
    OBVIOUS
  <2>1. PlaceOf(K(c), p) \in LeafPlaces(K(c)) /\ K(c)[PlaceOf(K(c), p)].pane = p /\ PlaceOf(K(c), p) \in Place
    BY <1>2, LeafFacts
  <2> DEFINE z == <<c>> \o PlaceOf(K(c), p)
  <2>2. z \in LeafPlaces(u) /\ u[z].pane = p
    BY <1>9, <2>1
  <2> HIDE DEF z
  <2>3. PlaceOf(u, u[z].pane) = z
    BY <1>12, <2>2, LeafFacts
  <2> QED
    BY <2>1, <2>2, <2>3 DEF z
<1>17. ASSUME NEW c \in Side, NEW p \in PanesIn(K(c)), NEW q \in PanesIn(K(c)), Earlier(K(c), p, q)
       PROVE  Earlier(u, p, q)
  <2> DEFINE x == PlaceOf(K(c), p)
             y == PlaceOf(K(c), q)
             v == <<c>> \o x
             w == <<c>> \o y
  <2>1. x \in Place /\ y \in Place /\ Before(x, y) /\ PlaceOf(u, p) = v /\ PlaceOf(u, q) = w
    BY <1>16, <1>17 DEF Earlier
  <2> HIDE DEF x, y
  <2>2. v \in Place /\ Len(v) = Len(x) + 1 /\ v[1] = c /\ \A i \in 1 .. Len(x) : v[i + 1] = x[i]
    BY <2>1, UnderIs, ZenonT(40)
  <2>3. w \in Place /\ Len(w) = Len(y) + 1 /\ w[1] = c /\ \A i \in 1 .. Len(y) : w[i + 1] = y[i]
    BY <2>1, UnderIs, ZenonT(40)
  <2> HIDE DEF v, w
  <2>4. /\ DOMAIN x = 1 .. Len(x) /\ DOMAIN y = 1 .. Len(y) /\ Len(x) \in Nat /\ Len(y) \in Nat
        /\ DOMAIN v = 1 .. Len(v) /\ DOMAIN w = 1 .. Len(w)
    BY <2>1, <2>2, <2>3, PlaceLen
  <2>5. PICK i \in 1 .. Len(x) :
          /\ i <= Len(y) /\ x[i] = "a" /\ y[i] = "b"
          /\ \A j \in 1 .. i - 1 : x[j] = y[j]
    BY <2>1, <2>4 DEF Before
  <2> DEFINE k == i + 1
  <2>6. k \in DOMAIN v \cap DOMAIN w /\ v[k] = "a" /\ w[k] = "b"
    BY <2>2, <2>3, <2>4, <2>5
  <2>7. ASSUME NEW j \in 1 .. k - 1 PROVE v[j] = w[j]
    <3>1. CASE j = 1
      BY <2>2, <2>3, <3>1
    <3>2. CASE j # 1
      <4> DEFINE h == j - 1
      <4>1. h \in 1 .. i - 1 /\ h \in 1 .. Len(x) /\ h \in 1 .. Len(y) /\ j = h + 1
        BY <2>4, <2>5, <3>2
      <4> HIDE DEF h
      <4> QED
        BY <2>2, <2>3, <2>5, <4>1
    <3> QED
      BY <3>1, <3>2
  <2> HIDE DEF k
  <2>8. Before(v, w)
    BY <2>6, <2>7 DEF Before
  <2> QED
    BY <2>1, <2>8 DEF Earlier
<1>18. ASSUME NEW p \in PanesIn(s), NEW q \in PanesIn(t) PROVE Earlier(u, p, q)
  <2> DEFINE x == PlaceOf(s, p)
             y == PlaceOf(t, q)
             v == <<"a">> \o x
             w == <<"b">> \o y
  <2>1. x \in Place /\ y \in Place /\ PlaceOf(u, p) = v /\ PlaceOf(u, q) = w
    BY <1>4, <1>16
  <2> HIDE DEF x, y
  <2>2. v \in Place /\ Len(v) = Len(x) + 1 /\ v[1] = "a"
    BY <1>4, <2>1, UnderIs
  <2>3. w \in Place /\ Len(w) = Len(y) + 1 /\ w[1] = "b"
    BY <1>4, <2>1, UnderIs
  <2> HIDE DEF v, w
  <2>4. Len(x) \in Nat /\ Len(y) \in Nat /\ DOMAIN v = 1 .. Len(v) /\ DOMAIN w = 1 .. Len(w)
    BY <2>1, <2>2, <2>3, PlaceLen
  <2>5. 1 \in DOMAIN v \cap DOMAIN w /\ \A j \in 1 .. 1 - 1 : v[j] = w[j]
    BY <2>2, <2>3, <2>4
  <2>6. Before(v, w)
    BY <2>2, <2>3, <2>5 DEF Before
  <2> QED
    BY <2>1, <2>6 DEF Earlier
<1> QED
  BY <1>4, <1>12, <1>15, <1>17, <1>18 DEF u

\* A list of panes, each of them once.
Named(L) == L \in Seq(Nat \ {0}) /\ \A i, j \in 1 .. Len(L) : L[i] = L[j] => i = j

LEMMA NamedIs ==
  ASSUME NEW L, Named(L)
  PROVE  Len(L) \in Nat /\ DOMAIN L = 1 .. Len(L) /\ \A i \in 1 .. Len(L) : L[i] \in Nat \ {0}
BY LenProperties, ElementOfSeq DEF Named

LEMMA LeafShows ==
  ASSUME NEW L, Named(L), NEW i \in 1 .. Len(L)
  PROVE  Shows(Leaf(L[i]), L, i, i)
<1>1. L[i] \in Nat \ {0} /\ i \in Int
  BY NamedIs
<1>2. IsTree(Leaf(L[i])) /\ PanesIn(Leaf(L[i])) = {L[i]}
  BY <1>1, LeafTree
<1>3. \A j \in i .. i : j = i
  BY <1>1
<1>4. i \in i .. i
  BY <1>1
<1>5. {L[i]} = {L[j] : j \in i .. i}
  BY <1>3, <1>4
<1> QED
  BY <1>1, <1>2, <1>3, <1>5 DEF Shows

LEMMA JoinedShows ==
  ASSUME NEW L, Named(L), NEW a \in Nat \ {0}, NEW b \in Nat, NEW c \in Nat,
         a <= b + 1, b <= c, c <= Len(L),
         NEW s, Shows(s, L, a, b), NEW t, Shows(t, L, b + 1, c),
         NEW split \in Axes, NEW ratio \in 0 .. Whole
  PROVE  Shows(Joined(split, ratio, s, t), L, a, c)
<1> DEFINE u == Joined(split, ratio, s, t)
<1>1. Len(L) \in Nat
  BY NamedIs
<1>2. IsTree(s) /\ IsTree(t) /\ PanesIn(s) = {L[i] : i \in a .. b} /\ PanesIn(t) = {L[i] : i \in b + 1 .. c}
  BY DEF Shows
<1>3. PanesIn(s) \cap PanesIn(t) = {}
  <2> SUFFICES ASSUME NEW i \in a .. b, NEW j \in b + 1 .. c, L[i] = L[j] PROVE FALSE
    BY <1>2
  <2>1. i \in 1 .. Len(L) /\ j \in 1 .. Len(L) /\ i # j
    BY <1>1
  <2> QED
    BY <2>1 DEF Named
<1>4. /\ IsTree(u) /\ PanesIn(u) = PanesIn(s) \cup PanesIn(t)
      /\ \A p, q \in PanesIn(s) : Earlier(s, p, q) => Earlier(u, p, q)
      /\ \A p, q \in PanesIn(t) : Earlier(t, p, q) => Earlier(u, p, q)
      /\ \A p \in PanesIn(s), q \in PanesIn(t) : Earlier(u, p, q)
  BY <1>2, <1>3, JoinedTree
<1> HIDE DEF u
<1>5. \A i \in a .. c : i \in a .. b \/ i \in b + 1 .. c
  OBVIOUS
<1>6. \A i \in a .. b : i \in a .. c
  OBVIOUS
<1>7. \A i \in b + 1 .. c : i \in a .. c
  OBVIOUS
<1>8. PanesIn(u) = {L[i] : i \in a .. c}
  BY <1>2, <1>4, <1>5, <1>6, <1>7
<1>9. ASSUME NEW i \in a .. c, NEW j \in a .. c, i < j PROVE Earlier(u, L[i], L[j])
  <2>1. CASE i \in a .. b /\ j \in a .. b
    <3>1. Earlier(s, L[i], L[j]) /\ L[i] \in PanesIn(s) /\ L[j] \in PanesIn(s)
      BY <1>2, <1>9, <2>1 DEF Shows
    <3> QED
      BY <1>4, <3>1
  <2>2. CASE i \in b + 1 .. c /\ j \in b + 1 .. c
    <3>1. Earlier(t, L[i], L[j]) /\ L[i] \in PanesIn(t) /\ L[j] \in PanesIn(t)
      BY <1>2, <1>9, <2>2 DEF Shows
    <3> QED
      BY <1>4, <3>1
  <2>3. CASE i \in a .. b /\ j \in b + 1 .. c
    <3>1. L[i] \in PanesIn(s) /\ L[j] \in PanesIn(t)
      BY <1>2, <2>3
    <3> QED
      BY <1>4, <3>1
  <2>4. ~(i \in b + 1 .. c /\ j \in a .. b)
    BY <1>9
  <2> QED
    BY <1>5, <2>1, <2>2, <2>3, <2>4
<1> QED
  BY <1>4, <1>8, <1>9 DEF Shows, u

LEMMA ShareIs == \A n \in Nat \ {0} : Whole \div n \in 0 .. Whole
<1> SUFFICES ASSUME NEW n \in Nat \ {0} PROVE Whole \div n \in 0 .. Whole
  OBVIOUS
<1> DEFINE q == Whole \div n
<1>1. Whole = 120
  BY DEF Whole
<1>2. q \in Int /\ n * q <= 120 /\ 120 < n * q + n
  BY <1>1
<1> HIDE DEF q
<1>3. q >= 0
  <2> SUFFICES ASSUME q <= -1 PROVE FALSE
    BY <1>2
  <2> DEFINE r == -1 - q
  <2>1. r \in Nat /\ q = -1 - r
    BY <1>2
  <2> HIDE DEF r
  <2>2. n * r >= 0 /\ n * (-1 - r) = -n - n * r
    BY <2>1
  <2> QED
    BY <1>2, <2>1, <2>2
<1>4. q <= 120
  <2> DEFINE k == n - 1
  <2>2. k \in Nat /\ n = k + 1
    OBVIOUS
  <2> HIDE DEF k
  <2>3. k * q >= 0 /\ (k + 1) * q = k * q + q
    BY <1>2, <1>3, <2>2
  <2>1. q <= n * q
    BY <1>2, <2>2, <2>3
  <2> QED
    BY <1>2, <2>1
<1> QED
  BY <1>1, <1>2, <1>3, <1>4 DEF q

\* What a chain joins are consecutive stretches of the list.
LEMMA ChainShows ==
  ASSUME NEW L, Named(L), NEW n \in Nat \ {0}, NEW trees, Len(trees) = n, NEW split \in Axes,
         NEW cut \in [0 .. n -> Nat], cut[n] <= Len(L),
         \A i \in 1 .. n : cut[i - 1] <= cut[i] /\ Shows(trees[i], L, cut[i - 1] + 1, cut[i])
  PROVE  Shows(Chain(trees, split), L, cut[0] + 1, cut[n])
<1> DEFINE Body(f, k) == IF k = 1 THEN trees[n] ELSE Joined(split, Whole \div k, trees[n - k + 1], f[k - 1])
           last == CHOOSE f : f = [k \in 1 .. n |-> Body(f, k)]
           G == {m \in Nat : \E f : f = [k \in 1 .. m |-> Body(f, k)]}
<1>1. Chain(trees, split) = last[n]
  BY DEF Chain
<1>2. 0 \in G
  <2> DEFINE f == [k \in 1 .. 0 |-> <<>>]
  <2>1. f = [k \in 1 .. 0 |-> Body(f, k)]
    OBVIOUS
  <2> HIDE DEF f, Body
  <2>2. \E h : h = [k \in 1 .. 0 |-> Body(h, k)]
    BY <2>1
  <2> QED
    BY <2>2
<1>3. ASSUME NEW m \in Nat, m \in G PROVE m + 1 \in G
  <2>1. PICK f : f = [k \in 1 .. m |-> Body(f, k)]
    BY <1>3
  <2> DEFINE g == [k \in 1 .. m + 1 |-> Body(f, k)]
  <2>2. \A k \in 1 .. m : k \in 1 .. m + 1
    OBVIOUS
  <2>3. \A k \in 1 .. m : g[k] = f[k]
    <3> SUFFICES ASSUME NEW k \in 1 .. m PROVE g[k] = f[k]
      OBVIOUS
    <3> HIDE DEF Body
    <3>1. f[k] = Body(f, k)
      BY <2>1
    <3>2. g[k] = Body(f, k)
      BY <2>2
    <3> QED
      BY <3>1, <3>2
  <2>4. \A k \in 1 .. m + 1 : g[k] = Body(g, k)
    <3> SUFFICES ASSUME NEW k \in 1 .. m + 1 PROVE g[k] = Body(g, k)
      OBVIOUS
    <3>1. g[k] = Body(f, k)
      OBVIOUS
    <3>2. k # 1 => k - 1 \in 1 .. m
      OBVIOUS
    <3> HIDE DEF g
    <3>3. k # 1 => g[k - 1] = f[k - 1]
      BY <2>3, <3>2
    <3> QED
      BY <3>1, <3>3
  <2>5. g = [k \in 1 .. m + 1 |-> g[k]]
    OBVIOUS
  <2> HIDE DEF g, Body
  <2>6. g = [k \in 1 .. m + 1 |-> Body(g, k)]
    BY <2>4, <2>5
  <2>7. \E h : h = [k \in 1 .. m + 1 |-> Body(h, k)]
    BY <2>6
  <2>8. m + 1 \in Nat
    OBVIOUS
  <2> QED
    BY <2>7, <2>8
<1>4. \A m \in Nat : m \in G
  <2> HIDE DEF G
  <2> QED
    BY <1>2, <1>3, NatAll
<1>5. \E f : f = [k \in 1 .. n |-> Body(f, k)]
  <2> HIDE DEF Body
  <2> QED
    BY <1>4
<1>6. last = [k \in 1 .. n |-> Body(last, k)]
  <2> HIDE DEF Body
  <2> QED
    BY <1>5
<1> HIDE DEF G, last
<1>7. \A k \in 1 .. n : last[k] = Body(last, k)
  <2> HIDE DEF Body
  <2> QED
    BY <1>6
<1> DEFINE H == {m \in Nat : m + 1 \in 1 .. n =>
                   cut[n - (m + 1)] <= cut[n] /\ Shows(last[m + 1], L, cut[n - (m + 1)] + 1, cut[n])}
<1>8. 0 \in H
  <2>1. n \in 1 .. n /\ 1 \in 1 .. n /\ 0 + 1 = 1
    OBVIOUS
  <2>2. last[1] = trees[n]
    BY <1>7, <2>1
  <2>3. cut[n - 1] <= cut[n] /\ Shows(trees[n], L, cut[n - 1] + 1, cut[n])
    BY <2>1
  <2> QED
    BY <2>1, <2>2, <2>3
<1>9. ASSUME NEW m \in Nat, m \in H PROVE m + 1 \in H
  <2> DEFINE k == m + 1
             i == n - k
  <2>1. k \in Nat
    OBVIOUS
  <2>2. SUFFICES ASSUME k + 1 \in 1 .. n
                 PROVE  cut[n - (k + 1)] <= cut[n] /\ Shows(last[k + 1], L, cut[n - (k + 1)] + 1, cut[n])
    BY <2>1
  <2>3. k \in 1 .. n /\ k + 1 # 1 /\ k + 1 \in Nat \ {0} /\ i \in 1 .. n /\ i \in 0 .. n /\ i - 1 \in 0 .. n
    BY <2>1, <2>2
  <2>4. n - (k + 1) = i - 1 /\ n - (k + 1) + 1 = i /\ (k + 1) - 1 = k
    BY <2>1
  <2>5. cut[i] <= cut[n] /\ Shows(last[k], L, cut[i] + 1, cut[n])
    BY <1>9, <2>3
  <2>6. cut[i - 1] <= cut[i] /\ Shows(trees[i], L, cut[i - 1] + 1, cut[i])
    BY <2>3
  <2>7. last[k + 1] = Joined(split, Whole \div (k + 1), trees[i], last[k])
    <3>1. last[k + 1] = Body(last, k + 1)
      <4> HIDE DEF Body, k
      <4> QED
        BY <1>7, <2>2
    <3> HIDE DEF k, i
    <3> QED
      BY <2>3, <2>4, <3>1
  <2> DEFINE share == Whole \div (k + 1)
  <2> HIDE DEF k, i
  <2>8. share \in 0 .. Whole
    BY <2>3, ShareIs
  <2> HIDE DEF share
  <2> DEFINE a == cut[i - 1] + 1
             b == cut[i]
             c == cut[n]
  <2>9. a \in Nat \ {0} /\ b \in Nat /\ c \in Nat /\ a <= b + 1 /\ b <= c /\ c <= Len(L) /\ cut[i - 1] \in Nat
    <3> DEFINE h == i - 1
    <3>1. h \in 0 .. n /\ i \in 0 .. n /\ n \in 0 .. n
      BY <2>3
    <3>2. cut[h] <= cut[i] /\ cut[i] <= cut[n]
      BY <2>5, <2>6
    <3> DEFINE u == cut[h]
               l == Len(L)
    <3>3. u \in Nat /\ b \in Nat /\ c \in Nat /\ c <= l /\ u <= b /\ b <= c
      BY <3>1, <3>2
    <3>4. a = u + 1 /\ cut[i - 1] = u
      OBVIOUS
    <3> HIDE DEF u, l, a, b, c, h
    <3>5. u + 1 \in Nat \ {0} /\ u + 1 <= b + 1
      BY <3>3
    <3> QED
      BY <3>3, <3>4, <3>5 DEF l
  <2>10. Shows(trees[i], L, a, b) /\ Shows(last[k], L, b + 1, c)
    BY <2>5, <2>6
  <2>11. cut[i - 1] <= cut[n]
    <3> DEFINE u == cut[i - 1]
    <3>1. u \in Nat /\ b \in Nat /\ c \in Nat /\ u <= b /\ b <= c
      BY <2>6, <2>9
    <3> HIDE DEF u, b, c
    <3>2. u <= c
      BY <3>1
    <3> QED
      BY <3>2 DEF u, c
  <2> HIDE DEF a, b, c
  <2>12. Shows(Joined(split, share, trees[i], last[k]), L, a, c)
    BY <2>8, <2>9, <2>10, JoinedShows
  <2> QED
    BY <2>4, <2>7, <2>11, <2>12 DEF a, c, share
<1>10. \A m \in Nat : m \in H
  <2> HIDE DEF H
  <2> QED
    BY <1>8, <1>9, NatAll
<1>11. n - 1 \in Nat /\ (n - 1) + 1 = n /\ n \in 1 .. n /\ n - n = 0
  OBVIOUS
<1>12. Shows(last[n], L, cut[n - n] + 1, cut[n])
  BY <1>10, <1>11
<1> QED
  BY <1>1, <1>11, <1>12

LEMMA EvenChainShows ==
  ASSUME NEW L, Named(L), NEW o \in Nat, NEW n \in Nat \ {0}, o + n <= Len(L),
         NEW panes, DOMAIN panes = 1 .. n, \A i \in 1 .. n : panes[i] = L[o + i], NEW split \in Axes
  PROVE  Shows(EvenChain(panes, split), L, o + 1, o + n)
<1> DEFINE trees == [i \in DOMAIN panes |-> Leaf(panes[i])]
           T == {Leaf(panes[i]) : i \in 1 .. n}
           cut == [i \in 0 .. n |-> o + i]
<1>1. Len(trees) = n
  <2>1. trees \in [1 .. n -> T]
    OBVIOUS
  <2> HIDE DEF trees, T
  <2>2. trees \in Seq(T) /\ DOMAIN trees = 1 .. n
    BY <2>1, SeqDef
  <2>3. DOMAIN trees = 1 .. Len(trees) /\ Len(trees) \in Nat
    BY <2>2, LenProperties
  <2> QED
    BY <2>2, <2>3
<1>2. Len(L) \in Nat
  BY NamedIs
<1>3. ASSUME NEW i \in 1 .. n
      PROVE  cut[i - 1] <= cut[i] /\ Shows(trees[i], L, cut[i - 1] + 1, cut[i])
  <2>1. cut[i - 1] = o + (i - 1) /\ cut[i] = o + i /\ trees[i] = Leaf(L[o + i])
    OBVIOUS
  <2> DEFINE k == o + i
  <2>2. k \in 1 .. Len(L) /\ o + (i - 1) + 1 = k /\ o + (i - 1) <= k
    BY <1>2
  <2> HIDE DEF k
  <2>3. Shows(Leaf(L[k]), L, k, k)
    BY <2>2, LeafShows
  <2> HIDE DEF cut, trees
  <2> QED
    BY <2>1, <2>2, <2>3 DEF k
<1>4. cut \in [0 .. n -> Nat] /\ cut[n] = o + n /\ cut[0] = o
  OBVIOUS
<1> HIDE DEF cut, trees
<1>5. cut[n] <= Len(L)
  BY <1>4
<1>6. Shows(Chain(trees, split), L, cut[0] + 1, cut[n])
  BY <1>1, <1>3, <1>4, <1>5, ChainShows
<1> QED
  BY <1>4, <1>6 DEF EvenChain, trees

LEMMA MainAndStackShows ==
  ASSUME NEW L, Named(L), L # <<>>, NEW split \in Axes
  PROVE  Shows(MainAndStack(L, split), L, 1, Len(L))
<1>1. Len(L) \in Nat \ {0} /\ L \in Seq(Nat \ {0}) /\ DOMAIN L = 1 .. Len(L)
  BY EmptySeq, NamedIs DEF Named
<1>2. Shows(Leaf(L[1]), L, 1, 1)
  BY <1>1, LeafShows
<1>3. CASE Len(L) = 1
  BY <1>2, <1>3 DEF MainAndStack
<1>4. CASE Len(L) # 1
  <2> DEFINE other == IF split = Vertical THEN Horizontal ELSE Vertical
             n == Len(L) - 1
             panes == Tail(L)
             rest == EvenChain(panes, other)
  <2>1. other \in Axes
    BY DEF Axes
  <2>2. n \in Nat \ {0} /\ 1 + n <= Len(L) /\ 1 + n = Len(L) /\ 1 \in Nat
    BY <1>1, <1>4
  <2>3. DOMAIN panes = 1 .. n /\ \A i \in 1 .. n : panes[i] = L[1 + i]
    <3>1. /\ panes \in Seq(Nat \ {0}) /\ Len(panes) = n
          /\ \A i \in 1 .. Len(panes) : panes[i] = L[i + 1]
      BY <1>1, HeadTailProperties
    <3>2. DOMAIN panes = 1 .. Len(panes)
      BY <3>1, LenProperties
    <3> QED
      BY <3>1, <3>2
  <2> HIDE DEF other, n, panes
  <2>4. Shows(rest, L, 1 + 1, 1 + n)
    BY <2>1, <2>2, <2>3, EvenChainShows
  <2> HIDE DEF rest
  <2> DEFINE ratio == Whole \div 2
             c == Len(L)
  <2>5. ratio \in 0 .. Whole
    BY ShareIs
  <2>6. Shows(rest, L, 1 + 1, c) /\ 1 <= 1 + 1 /\ 1 <= c /\ c <= Len(L) /\ c \in Nat /\ 1 \in Nat \ {0} /\ 1 \in Nat
    BY <1>1, <2>2, <2>4
  <2>7. MainAndStack(L, split) = Joined(split, ratio, Leaf(L[1]), rest)
    BY <1>4 DEF MainAndStack, rest, panes, other
  <2> HIDE DEF ratio, c
  <2>8. Shows(Joined(split, ratio, Leaf(L[1]), rest), L, 1, c)
    BY <1>2, <2>5, <2>6, JoinedShows
  <2> QED
    BY <2>7, <2>8 DEF c
<1> QED
  BY <1>3, <1>4

LEMMA CeilDivIs ==
  ASSUME NEW n \in Nat \ {0}, NEW size \in Nat \ {0}
  PROVE  LET k == CeilDiv(n, size) IN k \in Nat \ {0} /\ n <= k * size /\ (k - 1) * size < n
<1> DEFINE m == n + size - 1
           k == m \div size
<1>1. m \in Nat /\ m = n + size - 1
  OBVIOUS
<1> HIDE DEF m
<1>2. k \in Int /\ size * k <= m /\ m < size * k + size
  BY <1>1
<1>3. CeilDiv(n, size) = k
  BY DEF CeilDiv, m
<1> HIDE DEF k
<1>4. size * k = k * size /\ (k - 1) * size = k * size - size
  BY <1>2
<1>5. n <= k * size /\ (k - 1) * size < n
  BY <1>1, <1>2, <1>4
<1>6. k > 0
  <2> SUFFICES ASSUME k <= 0 PROVE FALSE
    BY <1>2
  <2> DEFINE r == -k
  <2>1. r \in Nat /\ k = -r
    BY <1>2
  <2> HIDE DEF r
  <2>2. r * size >= 0 /\ (-r) * size = -(r * size)
    BY <2>1
  <2> DEFINE v == r * size
  <2>3. v \in Int /\ v >= 0 /\ k * size = -v
    BY <2>1, <2>2
  <2> HIDE DEF v
  <2> QED
    BY <1>5, <2>3
<1> QED
  BY <1>2, <1>3, <1>5, <1>6

LEMMA BuildRowsShows ==
  ASSUME NEW L, Named(L), L # <<>>, NEW size \in Nat \ {0}
  PROVE  Shows(BuildRows(L, size), L, 1, Len(L))
<1> DEFINE n == Len(L)
           k == CeilDiv(n, size)
           upto(i) == Min({i * size, n})
           row(i) == EvenChain(SubSeq(L, (i - 1) * size + 1, upto(i)), Vertical)
           trees == [i \in 1 .. k |-> row(i)]
           cut == [i \in 0 .. k |-> upto(i)]
<1>1. n \in Nat \ {0} /\ L \in Seq(Nat \ {0}) /\ DOMAIN L = 1 .. n
  BY EmptySeq, NamedIs DEF Named
<1>2. k \in Nat \ {0} /\ n <= k * size /\ (k - 1) * size < n
  <2> HIDE DEF n
  <2> QED
    BY <1>1, CeilDivIs
<1>3. Vertical \in Axes /\ Horizontal \in Axes
  BY DEF Axes
<1>4. BuildRows(L, size) = Chain(trees, Horizontal)
  BY DEF BuildRows
<1> HIDE DEF n, k, row
<1>5. Len(trees) = k
  <2> DEFINE T == {row(i) : i \in 1 .. k}
  <2>1. trees \in [1 .. k -> T]
    OBVIOUS
  <2> HIDE DEF trees, T
  <2>2. trees \in Seq(T) /\ DOMAIN trees = 1 .. k
    BY <1>2, <2>1, SeqDef
  <2>3. DOMAIN trees = 1 .. Len(trees) /\ Len(trees) \in Nat
    BY <2>2, LenProperties
  <2> QED
    BY <1>2, <2>2, <2>3
<1>6. \A i \in 0 .. k : i * size \in Nat /\ upto(i) = IF i * size <= n THEN i * size ELSE n
  <2> SUFFICES ASSUME NEW i \in 0 .. k
               PROVE  i * size \in Nat /\ upto(i) = IF i * size <= n THEN i * size ELSE n
    OBVIOUS
  <2> DEFINE a == i * size
  <2>1. a \in Int /\ a >= 0
    BY <1>2
  <2> HIDE DEF a
  <2>2. Min({a, n}) = IF a <= n THEN a ELSE n
    BY <1>1, <2>1, MinTwo
  <2> QED
    BY <2>1, <2>2 DEF a
<1> HIDE DEF upto
<1>7. ASSUME NEW i \in 1 .. k
      PROVE  /\ (i - 1) * size \in Nat /\ (i - 1) * size < n /\ (i - 1) * size < i * size
             /\ upto(i - 1) = (i - 1) * size
             /\ upto(i) \in Nat /\ upto(i) <= n /\ upto(i) > (i - 1) * size
  <2> DEFINE h == i - 1
             a == h * size
  <2>1. h \in 0 .. k /\ i \in 0 .. k /\ i = h + 1 /\ h <= k - 1
    BY <1>2
  <2>2. (h + 1) * size = h * size + size
    BY <2>1
  <2>3. h * size <= (k - 1) * size
    <3> DEFINE d == k - 1 - h
    <3>1. d \in Nat /\ k - 1 = d + h
      BY <1>2, <2>1
    <3> HIDE DEF d, h
    <3>2. d * size >= 0 /\ (d + h) * size = d * size + h * size
      BY <2>1, <3>1
    <3>3. (k - 1) * size = (d + h) * size
      BY <3>1
    <3> DEFINE v == d * size
               w == h * size
    <3>4. v \in Int /\ w \in Int
      BY <2>1, <3>1
    <3> HIDE DEF v, w
    <3>5. v >= 0 /\ (k - 1) * size = v + w
      BY <3>2, <3>3 DEF v, w
    <3>6. w <= (k - 1) * size
      BY <3>4, <3>5
    <3> QED
      BY <3>6 DEF w
  <2>4. a \in Nat
    <3> HIDE DEF h
    <3> QED
      BY <1>6, <2>1
  <2>5. a < n
    <3> HIDE DEF h
    <3>1. (k - 1) * size \in Int
      BY <1>2
    <3> QED
      BY <1>1, <1>2, <2>3, <2>4, <3>1
  <2>6. upto(h) = a
    <3> HIDE DEF h
    <3> QED
      BY <1>1, <1>6, <2>1, <2>4, <2>5
  <2>7. i * size = a + size
    <3> HIDE DEF h
    <3> QED
      BY <2>1, <2>2
  <2>8. upto(i) = IF i * size <= n THEN i * size ELSE n
    BY <1>6, <2>1
  <2> HIDE DEF a, h
  <2>9. /\ a < i * size /\ upto(i) \in Nat /\ upto(i) <= n /\ upto(i) > a
    BY <1>1, <2>4, <2>5, <2>7, <2>8
  <2> QED
    BY <2>4, <2>5, <2>6, <2>9 DEF a, h
<1>8. ASSUME NEW i \in 1 .. k
      PROVE  Shows(row(i), L, upto(i - 1) + 1, upto(i))
  <2> DEFINE o == (i - 1) * size
             e == upto(i)
             m == e - o
             panes == SubSeq(L, o + 1, e)
  <2>1. o \in Nat /\ o < n /\ upto(i - 1) = o /\ e \in Nat /\ e <= n /\ e > o
    BY <1>7
  <2>2. row(i) = EvenChain(panes, Vertical)
    BY DEF row
  <2> HIDE DEF o, e
  <2>3. m \in Nat \ {0} /\ o + m = e /\ o + m <= Len(L) /\ o + 1 \in Int /\ o + 1 <= e
    BY <1>1, <2>1 DEF n
  <2>4. DOMAIN panes = 1 .. m /\ \A j \in 1 .. m : panes[j] = L[o + j]
    <3> DEFINE b == o + 1
    <3>1. b \in Int /\ e \in Int /\ b <= e /\ e - b + 1 = m /\ 1 <= b /\ e <= Len(L)
      BY <2>1, <2>3 DEF n
    <3>2. \A j \in b .. e : L[j] \in Nat \ {0}
      <4> HIDE DEF b
      <4> QED
        BY <3>1, <1>1, NamedIs
    <3>3. \A j \in 1 .. m : b + j - 1 = o + j
      BY <2>1, <2>3
    <3>4. panes = SubSeq(L, b, e)
      OBVIOUS
    <3> HIDE DEF b, panes, m
    <3>5. /\ SubSeq(L, b, e) \in Seq(Nat \ {0})
          /\ Len(SubSeq(L, b, e)) = IF b <= e THEN e - b + 1 ELSE 0
          /\ \A j \in 1 .. e - b + 1 : SubSeq(L, b, e)[j] = L[b + j - 1]
      BY <3>1, <3>2, SubSeqProperties
    <3>6. panes \in Seq(Nat \ {0}) /\ Len(panes) = m
      BY <3>1, <3>4, <3>5
    <3>7. DOMAIN panes = 1 .. m
      BY <3>6, LenProperties
    <3> QED
      BY <3>1, <3>3, <3>4, <3>5, <3>7
  <2> HIDE DEF m, panes
  <2>5. Shows(EvenChain(panes, Vertical), L, o + 1, o + m)
    BY <1>3, <2>1, <2>3, <2>4, EvenChainShows
  <2> QED
    BY <2>1, <2>2, <2>3, <2>5 DEF e
<1>9. cut \in [0 .. k -> Nat] /\ cut[0] = 0 /\ cut[k] = n
  <2>1. \A i \in 0 .. k : upto(i) \in Nat
    BY <1>1, <1>6
  <2>2. 0 \in 0 .. k /\ k \in 0 .. k
    BY <1>2
  <2>3. 0 * size = 0
    OBVIOUS
  <2>4. upto(0) = 0
    BY <1>1, <1>6, <2>2, <2>3
  <2>5. upto(k) = n
    <3>1. k * size \in Nat /\ upto(k) = IF k * size <= n THEN k * size ELSE n
      BY <1>6, <2>2
    <3> QED
      BY <1>1, <1>2, <3>1
  <2> QED
    BY <2>1, <2>2, <2>4, <2>5
<1>10. ASSUME NEW i \in 1 .. k
       PROVE  cut[i - 1] <= cut[i] /\ Shows(trees[i], L, cut[i - 1] + 1, cut[i])
  <2>1. i - 1 \in 0 .. k /\ i \in 0 .. k
    BY <1>2
  <2>2. cut[i - 1] = upto(i - 1) /\ cut[i] = upto(i) /\ trees[i] = row(i)
    BY <2>1
  <2>3. upto(i - 1) <= upto(i)
    BY <1>7
  <2> HIDE DEF cut, trees
  <2> QED
    BY <1>8, <2>2, <2>3
<1> HIDE DEF cut, trees
<1>11. cut[k] <= Len(L)
  BY <1>1, <1>9 DEF n
<1>12. Shows(Chain(trees, Horizontal), L, cut[0] + 1, cut[k])
  BY <1>2, <1>3, <1>5, <1>9, <1>10, <1>11, ChainShows
<1> QED
  BY <1>4, <1>9, <1>12 DEF n

LEMMA PresetShows ==
  ASSUME NEW L, Named(L), L # <<>>, NEW name
  PROVE  Shows(Preset(L, name), L, 1, Len(L))
<1> DEFINE n == Len(L)
<1>1. n \in Nat \ {0} /\ L \in Seq(Nat \ {0}) /\ DOMAIN L = 1 .. n
  BY EmptySeq, NamedIs DEF Named
<1>2. \A split \in Axes : Shows(EvenChain(L, split), L, 1, n)
  <2> SUFFICES ASSUME NEW split \in Axes PROVE Shows(EvenChain(L, split), L, 1, n)
    OBVIOUS
  <2>1. 0 \in Nat /\ 0 + n <= Len(L) /\ (\A i \in 1 .. n : L[i] = L[0 + i]) /\ 0 + n = n /\ 0 + 1 = 1
    BY <1>1
  <2> HIDE DEF n
  <2>2. Shows(EvenChain(L, split), L, 0 + 1, 0 + n)
    BY <1>1, <2>1, EvenChainShows
  <2> QED
    BY <2>1, <2>2
<1>3. \A split \in Axes : Shows(MainAndStack(L, split), L, 1, n)
  BY MainAndStackShows
<1>4. Shows(Tiled(L), L, 1, n)
  <2> DEFINE K == {k \in 1 .. n : k * k >= n}
             rows == Min(K)
             size == CeilDiv(n, rows)
  <2>1. n * n >= n
    <3> DEFINE m == n - 1
    <3>1. m \in Nat /\ n = m + 1
      BY <1>1
    <3> HIDE DEF m, n
    <3>2. m * m \in Nat /\ (m + 1) * (m + 1) = m * m + m + m + 1
      BY <3>1
    <3> QED
      BY <3>1, <3>2
  <2> HIDE DEF rows, size, n
  <2>8. n \in K
    BY <1>1, <2>1
  <2>9. \A k \in K : k \in Nat
    BY <1>1
  <2>2. K \subseteq Nat /\ K # {}
    <3> HIDE DEF K
    <3> QED
      BY <2>8, <2>9
  <2>3. \E k \in K : \A j \in K : k <= j
    <3> HIDE DEF K
    <3> QED
      BY <2>2, NatMin
  <2>4. rows \in K
    <3> HIDE DEF K
    <3> QED
      BY <2>3 DEF Min, rows
  <2>5. rows \in Nat \ {0}
    <3>1. \A k \in K : k \in Nat \ {0}
      BY <1>1
    <3> HIDE DEF K, rows
    <3> QED
      BY <2>4, <3>1
  <2>6. Tiled(L) = BuildRows(L, size)
    BY DEF Tiled, size, rows, n
  <2>7. size \in Nat \ {0}
    BY <1>1, <2>5, CeilDivIs DEF size
  <2> QED
    BY <2>6, <2>7, BuildRowsShows DEF n
<1>5. Vertical \in Axes /\ Horizontal \in Axes
  BY DEF Axes
<1> HIDE DEF n
<1>6. name = "even-horizontal" => Preset(L, name) = EvenChain(L, Vertical)
  BY Zenon DEF Preset
<1>7. name = "even-vertical" => Preset(L, name) = EvenChain(L, Horizontal)
  BY Zenon DEF Preset
<1>8. name = "main-vertical" => Preset(L, name) = MainAndStack(L, Vertical)
  BY Zenon DEF Preset
<1>9. name = "main-horizontal" => Preset(L, name) = MainAndStack(L, Horizontal)
  BY Zenon DEF Preset
<1>10. \/ Preset(L, name) = Tiled(L)
       \/ name = "even-horizontal" \/ name = "even-vertical" \/ name = "main-vertical" \/ name = "main-horizontal"
  BY Zenon DEF Preset
<1> QED
  <2> DEFINE P == Preset(L, name)
  <2>1. Preset(L, name) = P
    OBVIOUS
  <2> HIDE DEF P, n
  <2>2. /\ Shows(EvenChain(L, Vertical), L, 1, n) /\ Shows(EvenChain(L, Horizontal), L, 1, n)
        /\ Shows(MainAndStack(L, Vertical), L, 1, n) /\ Shows(MainAndStack(L, Horizontal), L, 1, n)
    BY <1>2, <1>3, <1>5
  <2>3. Shows(P, L, 1, n)
    BY <1>4, <1>6, <1>7, <1>8, <1>9, <1>10, <2>1, <2>2, Zenon
  <2> QED
    BY <2>1, <2>3 DEF n

-----------------------------------------------------------------------------
(* Moving panes and boundaries                                             *)

LEMMA PanesFinite ==
  ASSUME NEW t, IsTree(t)
  PROVE  IsFiniteSet(PanesIn(t))
<1> DEFINE S == LeafPlaces(t)
           P == PanesIn(t)
           f == [x \in S |-> t[x].pane]
<1>1. IsFiniteSet(S)
  BY LeafFacts
<1>2. f \in Surjection(S, P)
  BY DEF Surjection, PanesIn
<1> HIDE DEF f, S, P
<1>3. IsFiniteSet(P)
  BY <1>1, <1>2, FS_Surjection
<1> QED
  BY <1>3 DEF P

\* The rectangles that a tree has to give.
SlotsIn(t, r) == {Laid(t, r)[p] : p \in PanesIn(t)}

\* Panes that trade places leave no place empty and nobody out.
LEMMA PermutedTree ==
  ASSUME NEW t, IsTree(t), NEW f,
         \A p \in PanesIn(t) : f[p] \in PanesIn(t),
         \A p, q \in PanesIn(t) : f[p] = f[q] => p = q
  PROVE  LET u == Relabel(t, f) IN
         /\ IsTree(u) /\ PanesIn(u) = PanesIn(t)
         /\ \A r : SlotsIn(u, r) = SlotsIn(t, r)
<1> DEFINE u == Relabel(t, f)
           P == PanesIn(t)
<1>1. \A p \in P : p \in Nat \ {0}
  BY LeafFacts
<1>2. /\ IsTree(u) /\ DOMAIN u = DOMAIN t
      /\ \A x \in DOMAIN t : ~IsLeaf(t[x]) => u[x] = t[x]
      /\ PanesIn(u) = {f[p] : p \in P}
      /\ \A p \in P : PlaceOf(u, f[p]) = PlaceOf(t, p)
  BY <1>1, RelabelTree
<1>3. \A q \in P : \E p \in P : f[p] = q
  <2> DEFINE h == [p \in P |-> f[p]]
  <2>1. h \in Injection(P, P)
    BY DEF Injection, IsInjective
  <2>2. \A p \in P : h[p] = f[p]
    OBVIOUS
  <2>3. IsFiniteSet(P)
    BY PanesFinite
  <2> HIDE DEF h, P
  <2>4. h \in Surjection(P, P)
    BY <2>1, <2>3, FS_Injection
  <2> QED
    BY <2>2, <2>4 DEF Surjection
<1>4. PanesIn(u) = P
  BY <1>2, <1>3
<1>5. ASSUME NEW r, NEW p \in P PROVE Laid(u, r)[f[p]] = Laid(t, r)[p]
  <2>1. f[p] \in PanesIn(u)
    BY <1>2
  <2>2. Laid(u, r)[f[p]] = Rects(u, r)[PlaceOf(u, f[p])]
    BY <1>2, <2>1, LaidIs
  <2>3. Laid(t, r)[p] = Rects(t, r)[PlaceOf(t, p)]
    BY LaidIs
  <2>4. PlaceOf(t, p) \in DOMAIN t
    BY LeafFacts
  <2>5. Rects(u, r)[PlaceOf(t, p)] = Rects(t, r)[PlaceOf(t, p)]
    BY <1>2, <2>4, SameRects
  <2> QED
    BY <1>2, <2>2, <2>3, <2>5
<1>6. \A p \in P : f[p] \in P
  OBVIOUS
<1> HIDE DEF u, P
<1>7. \A r : {Laid(u, r)[p] : p \in PanesIn(u)} = {Laid(t, r)[p] : p \in P}
  BY <1>3, <1>4, <1>5, <1>6
<1> QED
  BY <1>2, <1>4, <1>7 DEF u, P, SlotsIn

LEMMA SwapLeavesTree ==
  ASSUME NEW t, IsTree(t), NEW p \in PanesIn(t), NEW q \in PanesIn(t)
  PROVE  LET u == SwapLeaves(t, p, q) IN
         /\ IsTree(u) /\ PanesIn(u) = PanesIn(t)
         /\ \A r : SlotsIn(u, r) = SlotsIn(t, r)
<1> DEFINE f == [o \in PanesIn(t) |-> IF o = p THEN q ELSE IF o = q THEN p ELSE o]
<1>1. \A o \in PanesIn(t) : f[o] \in PanesIn(t)
  OBVIOUS
<1>2. \A o, r \in PanesIn(t) : f[o] = f[r] => o = r
  OBVIOUS
<1>3. SwapLeaves(t, p, q) = Relabel(t, f)
  BY DEF SwapLeaves
<1> HIDE DEF f
<1>4. LET u == Relabel(t, f) IN
      /\ IsTree(u) /\ PanesIn(u) = PanesIn(t)
      /\ \A r : SlotsIn(u, r) = SlotsIn(t, r)
  BY <1>1, <1>2, PermutedTree
<1> QED
  BY <1>3, <1>4

LEMMA RotatedTree ==
  ASSUME NEW t, IsTree(t), NEW reverse
  PROVE  LET u == Rotated(t, reverse) IN
         /\ IsTree(u) /\ PanesIn(u) = PanesIn(t)
         /\ \A r : SlotsIn(u, r) = SlotsIn(t, r)
<1> DEFINE L == Leaves(t)
           n == Len(L)
           next(i) == IF reverse THEN IF i = 1 THEN n ELSE i - 1 ELSE IF i = n THEN 1 ELSE i + 1
           rank(p) == Rank(PlaceOf(t, p), LeafPlaces(t))
           f == [p \in PanesIn(t) |-> L[next(rank(p))]]
<1>1. /\ n \in Nat /\ n > 0
      /\ PanesIn(t) = {L[i] : i \in 1 .. n}
      /\ \A i, j \in 1 .. n : L[i] = L[j] => i = j
      /\ \A p \in PanesIn(t) : rank(p) \in 1 .. n /\ L[rank(p)] = p
  BY LeavesAre DEF Shows
<1>2. Rotated(t, reverse) = Relabel(t, f)
  BY DEF Rotated
<1> HIDE DEF n, L, rank
<1>3. \A i \in 1 .. n : next(i) \in 1 .. n
  BY <1>1
<1>4. \A i, j \in 1 .. n : next(i) = next(j) => i = j
  BY <1>1
<1> HIDE DEF next
<1>5. \A p \in PanesIn(t) : f[p] \in PanesIn(t)
  BY <1>1, <1>3
<1>6. \A p, q \in PanesIn(t) : f[p] = f[q] => p = q
  BY <1>1, <1>3, <1>4
<1> HIDE DEF f
<1>7. LET u == Relabel(t, f) IN
      /\ IsTree(u) /\ PanesIn(u) = PanesIn(t)
      /\ \A r : SlotsIn(u, r) = SlotsIn(t, r)
  BY <1>5, <1>6, PermutedTree
<1> QED
  BY <1>2, <1>7

LEMMA NearestSplitIs ==
  ASSUME NEW t, IsTree(t), NEW p, NEW axis, SplitsAbove(t, p, axis) # {}
  PROVE  NearestSplit(t, p, axis) \in DOMAIN t /\ ~IsLeaf(t[NearestSplit(t, p, axis)])
<1> DEFINE S == SplitsAbove(t, p, axis)
           N == {Len(x) : x \in S}
<1>1. \A x \in S : x \in DOMAIN t /\ ~IsLeaf(t[x]) /\ Len(x) \in Nat
  BY TreeFacts, PlaceLen DEF SplitsAbove, LeafPlaces
<1>2. PICK h \in Nat : \A x \in DOMAIN t : Len(x) <= h
  BY TreeHeight
<1> HIDE DEF S
<1>3. N \subseteq Nat /\ N # {}
  BY <1>1 DEF S
<1>4. IsFiniteSet(N)
  <2>1. N \in SUBSET (0 .. h)
    BY <1>1, <1>2
  <2>2. IsFiniteSet(0 .. h)
    BY FS_Interval
  <2> HIDE DEF N
  <2> QED
    BY <2>1, <2>2, FS_Subset
<1>5. \E n \in N : \A m \in N : m <= n
  <2> HIDE DEF N
  <2> QED
    BY <1>3, <1>4, FinMax
<1>6. \E x \in S : \A y \in S : Len(y) <= Len(x)
  BY <1>5
<1>7. NearestSplit(t, p, axis) \in S
  BY <1>6 DEF NearestSplit, S
<1> QED
  BY <1>1, <1>7

LEMMA ClampRatioIs == \A v \in Int : ClampRatio(v) \in 0 .. Whole
BY DEF ClampRatio, Clamp, MinRatio, Whole

\* The cells of a boundary are some share of the extent that it divides.
LEMMA BoundaryIs ==
  ASSUME NEW t, IsTree(t), NEW r \in Rectangle, NEW p, NEW axis, HasSplit(t, r, p, axis), NEW cells \in Nat
  PROVE  LET x == NearestSplit(t, p, axis) IN
         /\ x \in DOMAIN t /\ ~IsLeaf(t[x]) /\ t[x].ratio \in Int
         /\ (Whole * cells) \div ExtentOf(Rects(t, r)[x], axis) \in Int
<1> DEFINE x == NearestSplit(t, p, axis)
           e == ExtentOf(Rects(t, r)[x], axis)
<1>1. SplitsAbove(t, p, axis) # {} /\ e # 0
  BY DEF HasSplit
<1>2. x \in DOMAIN t /\ ~IsLeaf(t[x])
  BY <1>1, NearestSplitIs
<1> HIDE DEF x
<1>3. t[x].ratio \in Int
  BY <1>2, TreeFacts
<1>4. Rects(t, r)[x] \in Rectangle
  BY <1>2, RectsAreRectangles
<1>5. e \in Int /\ e >= 0
  BY <1>4, RectangleIs DEF ExtentOf
<1> DEFINE a == Whole * cells
<1>6. a \in Int
  BY DEF Whole
<1> HIDE DEF e, a
<1>7. a \div e \in Int
  BY <1>1, <1>5, <1>6
<1> QED
  BY <1>2, <1>3, <1>7 DEF x, e, a

LEMMA MoveBoundaryTree ==
  ASSUME NEW t, IsTree(t), NEW r \in Rectangle, NEW p, NEW dir, HasSplit(t, r, p, AxisOf(dir)),
         NEW cells \in Nat
  PROVE  /\ IsTree(MoveBoundary(t, r, p, dir, cells))
         /\ PanesIn(MoveBoundary(t, r, p, dir, cells)) = PanesIn(t)
<1> DEFINE x == NearestSplit(t, p, AxisOf(dir))
           by == (Whole * cells) \div ExtentOf(Rects(t, r)[x], AxisOf(dir))
           v == IF dir \in {"left", "up"} THEN t[x].ratio - by ELSE t[x].ratio + by
           ratio == ClampRatio(v)
<1>1. x \in DOMAIN t /\ ~IsLeaf(t[x]) /\ t[x].ratio \in Int /\ by \in Int
  BY BoundaryIs
<1>2. MoveBoundary(t, r, p, dir, cells) = SetRatio(t, x, ratio)
  BY DEF MoveBoundary
<1> HIDE DEF x, by
<1>3. v \in Int
  BY <1>1
<1> HIDE DEF v
<1>4. ratio \in 0 .. Whole
  BY <1>3, ClampRatioIs
<1> HIDE DEF ratio
<1> QED
  BY <1>1, <1>2, <1>4, SetRatioTree

LEMMA ResizeToTree ==
  ASSUME NEW t, IsTree(t), NEW r \in Rectangle, NEW p, NEW axis, HasSplit(t, r, p, axis),
         NEW cells \in Nat
  PROVE  /\ IsTree(ResizeTo(t, r, p, axis, cells))
         /\ PanesIn(ResizeTo(t, r, p, axis, cells)) = PanesIn(t)
<1> DEFINE x == NearestSplit(t, p, axis)
           wanted == (Whole * cells) \div ExtentOf(Rects(t, r)[x], axis)
           v == IF PlaceOf(t, p)[Len(x) + 1] = "a" THEN wanted ELSE Whole - wanted
           ratio == ClampRatio(v)
<1>1. x \in DOMAIN t /\ ~IsLeaf(t[x]) /\ wanted \in Int
  BY BoundaryIs
<1>2. ResizeTo(t, r, p, axis, cells) = SetRatio(t, x, ratio)
  BY DEF ResizeTo
<1> HIDE DEF x, wanted
<1>3. v \in Int
  BY <1>1 DEF Whole
<1> HIDE DEF v
<1>4. ratio \in 0 .. Whole
  BY <1>3, ClampRatioIs
<1> HIDE DEF ratio
<1> QED
  BY <1>1, <1>2, <1>4, SetRatioTree

\* Any of the presets has the panes that the tree had, in the order they had.
LEMMA PresetTree ==
  ASSUME NEW t, IsTree(t), NEW name
  PROVE  LET u == Preset(Leaves(t), name) IN
         IsTree(u) /\ PanesIn(u) = PanesIn(t) /\ Leaves(u) = Leaves(t)
<1> DEFINE L == Leaves(t)
           n == Cardinality(LeafPlaces(t))
           u == Preset(L, name)
<1>1. /\ n \in Nat /\ n > 0 /\ L \in Seq(Nat \ {0}) /\ Len(L) = n
      /\ Shows(t, L, 1, n)
      /\ \A i, j \in 1 .. n : L[i] = L[j] => i = j
  BY LeavesAre
<1> HIDE DEF L, n
<1>2. Named(L) /\ L # <<>>
  BY <1>1, EmptySeq DEF Named
<1>3. Shows(u, L, 1, Len(L))
  BY <1>2, PresetShows
<1> HIDE DEF u
<1>4. L \in Seq(Nat)
  <2>1. (Nat \ {0}) \subseteq Nat
    OBVIOUS
  <2> QED
    BY <1>1, <2>1, SeqMonotonic
<1>5. Leaves(u) = L
  BY <1>3, <1>4, ShowsIsLeaves
<1>6. PanesIn(t) = {L[i] : i \in 1 .. n} /\ PanesIn(u) = {L[i] : i \in 1 .. n} /\ IsTree(u)
  BY <1>1, <1>3 DEF Shows
<1> QED
  BY <1>5, <1>6 DEF u, L

-----------------------------------------------------------------------------
(* The trees of a session                                                  *)

IsWindow(w) == DOMAIN w = {"root", "focused", "zoomed", "closing", "area"}
\* A window has a tree, laid out in some rectangle, or none.
WindowOK(w) ==
  /\ IsWindow(w)
  /\ w.root = NoTree \/ (IsTree(w.root) /\ w.area \in Rectangle)
  /\ IsFiniteSet(w.closing)
\* Every pane was spawned, and is in one window.
WindowsOK(win, n) ==
  /\ DOMAIN win = Window
  /\ \A v \in Window :
       WindowOK(win[v]) /\ PanesIn(win[v].root) \subseteq 1 .. n /\ win[v].closing \subseteq 1 .. n
  /\ \A u, v \in Window : u # v =>
       /\ PanesIn(win[u].root) \cap PanesIn(win[v].root) = {}
       /\ PanesIn(win[u].root) \cap win[v].closing = {}

\* The inductive invariant of the trees.
TreesInv ==
  /\ current \in Window /\ screen \in Sizes /\ bar \in BOOLEAN
  /\ spawned \in 0 .. MaxPanes /\ commands \in Nat
  /\ WindowsOK(window, spawned)

LEMMA RootIsRectangle ==
  ASSUME NEW size \in Sizes, NEW b \in BOOLEAN
  PROVE  RootOf(size, b) \in Rectangle
<1>1. size[1] \in Nat /\ size[2] \in Nat
  BY LayoutAssumption
<1> DEFINE k == size[2] - 1
<1>2. k \in Int /\ Max({k, 0}) = IF k >= 0 THEN k ELSE 0
  <2>1. k \in Int
    BY <1>1
  <2> HIDE DEF k
  <2> QED
    BY <2>1, MaxTwo
<1>3. Max({k, 0}) \in Nat
  BY <1>2
<1> DEFINE m == Max({k, 0})
<1>4. RootOf(size, b) = <<0, 0, size[1], IF b THEN m ELSE size[2]>>
  BY DEF RootOf
<1> HIDE DEF m
<1>5. m \in Nat
  BY <1>3 DEF m
<1> QED
  BY <1>1, <1>4, <1>5 DEF Rectangle

LEMMA RootRectIs == ASSUME TreesInv PROVE RootRect \in Rectangle
BY RootIsRectangle DEF TreesInv, RootRect

LEMMA PruningNothing == ASSUME NEW gone PROVE Pruned(NoTree, gone) = NoTree
<1>1. CASE gone = {}
  BY <1>1, Zenon DEF Pruned
<1>2. CASE gone # {}
  <2>1. ~(gone \subseteq PanesIn(NoTree) /\ PanesIn(NoTree) \ gone # {})
    BY NoTreeEmpty
  <2> QED
    BY <1>2, <2>1, Zenon DEF Pruned
<1> QED
  BY <1>1, <1>2

\* A window that changes has the panes it had, or fewer, and perhaps one that no
\* other has.
LEMMA OneWindow ==
  ASSUME NEW win, NEW n \in Nat, WindowsOK(win, n), NEW m \in Nat, n <= m,
         NEW v \in Window, NEW w, WindowOK(w), NEW S, S \subseteq 1 .. m,
         \A u \in Window \ {v} : S \cap PanesIn(win[u].root) = {} /\ S \cap win[u].closing = {},
         PanesIn(w.root) \subseteq PanesIn(win[v].root) \cup S,
         w.closing \subseteq PanesIn(win[v].root) \cup win[v].closing
  PROVE  WindowsOK([win EXCEPT ![v] = w], m)
<1> DEFINE new == [win EXCEPT ![v] = w]
<1>1. DOMAIN win = Window
  BY DEF WindowsOK
<1>2. DOMAIN new = Window /\ new[v] = w /\ \A u \in Window \ {v} : new[u] = win[u]
  BY <1>1
<1>3. \A u \in Window : /\ WindowOK(win[u]) /\ PanesIn(win[u].root) \subseteq 1 .. m
                        /\ win[u].closing \subseteq 1 .. m
  <2>1. 1 .. n \subseteq 1 .. m
    OBVIOUS
  <2> QED
    BY <2>1 DEF WindowsOK
<1> HIDE DEF new
<1>4. \A u \in Window : WindowOK(new[u])
  BY <1>2, <1>3
<1>5. \A u \in Window : PanesIn(new[u].root) \subseteq 1 .. m /\ new[u].closing \subseteq 1 .. m
  <2> TAKE u \in Window
  <2>1. CASE u = v
    <3>1. PanesIn(win[v].root) \subseteq 1 .. m /\ win[v].closing \subseteq 1 .. m
      BY <1>3
    <3> QED
      BY <1>2, <2>1, <3>1
  <2>2. CASE u # v
    BY <1>2, <1>3, <2>2
  <2> QED
    BY <2>1, <2>2
<1>6. \A u, o \in Window : u # o =>
        /\ PanesIn(win[u].root) \cap PanesIn(win[o].root) = {}
        /\ PanesIn(win[u].root) \cap win[o].closing = {}
  BY DEF WindowsOK
<1>7. \A u, o \in Window : u # o =>
        /\ PanesIn(new[u].root) \cap PanesIn(new[o].root) = {}
        /\ PanesIn(new[u].root) \cap new[o].closing = {}
  <2> TAKE u, o \in Window
  <2> HAVE u # o
  <2>1. CASE u = v
    <3>1. new[u] = w /\ new[o] = win[o] /\ o \in Window \ {v}
      BY <1>2, <2>1
    <3>2. PanesIn(win[v].root) \cap PanesIn(win[o].root) = {} /\ PanesIn(win[v].root) \cap win[o].closing = {}
      BY <1>6, <2>1
    <3>3. S \cap PanesIn(win[o].root) = {} /\ S \cap win[o].closing = {}
      BY <3>1
    <3> QED
      BY <3>1, <3>2, <3>3
  <2>2. CASE o = v
    <3>1. new[u] = win[u] /\ new[o] = w /\ u \in Window \ {v}
      BY <1>2, <2>2
    <3>2. PanesIn(win[v].root) \cap PanesIn(win[u].root) = {} /\ PanesIn(win[u].root) \cap win[v].closing = {}
      BY <1>6, <2>2
    <3>3. S \cap PanesIn(win[u].root) = {}
      BY <3>1
    <3> QED
      BY <3>1, <3>2, <3>3
  <2>3. CASE u # v /\ o # v
    BY <1>2, <1>6, <2>3
  <2> QED
    BY <2>1, <2>2, <2>3
<1> QED
  BY <1>2, <1>4, <1>5, <1>7 DEF WindowsOK, new

LEMMA SettledOK ==
  ASSUME NEW w, WindowOK(w)
  PROVE  LET o == SettledWindow(w) IN
         /\ WindowOK(o) /\ o.root = Pruned(w.root, w.closing) /\ o.closing = {}
         /\ o.zoomed = w.zoomed /\ o.area = w.area
         /\ PanesIn(o.root) \subseteq PanesIn(w.root) \ w.closing
         /\ \A p, q \in PanesIn(o.root) : Earlier(o.root, p, q) <=> Earlier(w.root, p, q)
<1> DEFINE root == Pruned(w.root, w.closing)
           o == SettledWindow(w)
<1>1. IsWindow(o) /\ o.root = root /\ o.closing = {} /\ o.zoomed = w.zoomed /\ o.area = w.area
  BY DEF WindowOK, IsWindow, SettledWindow
<1>2. /\ root = NoTree \/ (IsTree(root) /\ w.area \in Rectangle)
      /\ PanesIn(root) \subseteq PanesIn(w.root) \ w.closing
      /\ \A p, q \in PanesIn(root) : Earlier(root, p, q) <=> Earlier(w.root, p, q)
  <2>1. CASE w.root = NoTree
    <3>1. root = NoTree
      BY <2>1, PruningNothing
    <3> HIDE DEF root
    <3> QED
      BY <3>1, NoTreeEmpty
  <2>2. CASE IsTree(w.root) /\ w.area \in Rectangle
    <3>1. IsFiniteSet(w.closing)
      BY DEF WindowOK
    <3>2. \/ root = NoTree
          \/ /\ IsTree(root) /\ PanesIn(root) = PanesIn(w.root) \ w.closing
             /\ \A p, q \in PanesIn(root) : Earlier(root, p, q) <=> Earlier(w.root, p, q)
      BY <2>2, <3>1, PrunedIs
    <3> HIDE DEF root
    <3> QED
      BY <2>2, <3>2, NoTreeEmpty
  <2> QED
    BY <2>1, <2>2 DEF WindowOK
<1> HIDE DEF root
<1> HIDE DEF o
<1>3. WindowOK(o)
  BY <1>1, <1>2, FS_EmptySet DEF WindowOK
<1> QED
  BY <1>1, <1>2, <1>3 DEF o, root

LEMMA DetachedOK ==
  ASSUME NEW w, WindowOK(w), NEW p \in PanesIn(w.root)
  PROVE  LET o == Detached(w, p) IN
         /\ WindowOK(o) /\ PanesIn(o.root) = PanesIn(w.root) \ {p}
         /\ o.closing = w.closing \ {p} /\ o.area = w.area
<1> DEFINE root == IF CanClose(w.root, p) THEN CloseLeaf(w.root, p) ELSE NoTree
           o == Detached(w, p)
<1>1. IsWindow(o) /\ o.root = root /\ o.closing = w.closing \ {p} /\ o.area = w.area
  BY DEF WindowOK, IsWindow, Detached
<1>2. IsTree(w.root) /\ w.area \in Rectangle /\ IsFiniteSet(w.closing)
  BY NoTreeEmpty DEF WindowOK
<1>3. (root = NoTree \/ IsTree(root)) /\ PanesIn(root) = PanesIn(w.root) \ {p}
  <2>1. CASE CanClose(w.root, p)
    BY <1>2, <2>1, CloseLeafTree
  <2>2. CASE ~CanClose(w.root, p)
    BY <1>2, <2>2, NotAlone, NoTreeEmpty
  <2> QED
    BY <2>1, <2>2
<1>4. IsFiniteSet(w.closing \ {p})
  BY <1>2, FS_RemoveElement
<1> HIDE DEF root, o
<1> QED
  BY <1>1, <1>2, <1>3, <1>4 DEF WindowOK, o

LEMMA LoneOK ==
  ASSUME NEW w, WindowOK(w), NEW p \in Nat \ {0}, NEW r \in Rectangle
  PROVE  LET o == Lone(w, p, r) IN
         /\ WindowOK(o) /\ o.root = Leaf(p) /\ PanesIn(o.root) = {p}
         /\ o.closing = w.closing /\ o.zoomed = w.zoomed /\ o.area = r
<1> DEFINE o == Lone(w, p, r)
<1>1. IsWindow(o) /\ o.root = Leaf(p) /\ o.closing = w.closing /\ o.zoomed = w.zoomed /\ o.area = r
  BY DEF WindowOK, IsWindow, Lone
<1> HIDE DEF o
<1> QED
  BY <1>1, LeafTree DEF WindowOK, o

Incoming(w) ==
  [(IF w.root = NoTree THEN Lone(w, spawned + 1, RootRect) ELSE w) EXCEPT !.area = RootRect]

LEMMA IncomingOK ==
  ASSUME NEW w, WindowOK(w), spawned \in Nat, RootRect \in Rectangle
  PROVE  LET o == Incoming(w) IN
         /\ WindowOK(o) /\ IsTree(o.root) /\ o.area = RootRect /\ o.closing = w.closing /\ o.zoomed = w.zoomed
         /\ w.root # NoTree => o.root = w.root
         /\ w.root = NoTree => o.root = Leaf(spawned + 1) /\ PanesIn(o.root) = {spawned + 1}
<1> DEFINE b == IF w.root = NoTree THEN Lone(w, spawned + 1, RootRect) ELSE w
           o == Incoming(w)
<1>1. /\ IsWindow(b) /\ IsTree(b.root) /\ b.closing = w.closing /\ b.zoomed = w.zoomed
      /\ IsFiniteSet(b.closing)
      /\ w.root # NoTree => b.root = w.root
      /\ w.root = NoTree => b.root = Leaf(spawned + 1) /\ PanesIn(b.root) = {spawned + 1}
  <2>1. CASE w.root = NoTree
    <3>1. spawned + 1 \in Nat \ {0}
      OBVIOUS
    <3> DEFINE l == Lone(w, spawned + 1, RootRect)
    <3>2. /\ WindowOK(l) /\ l.root = Leaf(spawned + 1) /\ PanesIn(l.root) = {spawned + 1}
          /\ l.closing = w.closing /\ l.zoomed = w.zoomed
      BY <3>1, LoneOK
    <3>3. IsTree(Leaf(spawned + 1))
      BY <3>1, LeafTree
    <3>4. b = l
      BY <2>1
    <3> HIDE DEF l, b
    <3> QED
      BY <2>1, <3>2, <3>3, <3>4 DEF WindowOK
  <2>2. CASE w.root # NoTree
    BY <2>2 DEF WindowOK
  <2> QED
    BY <2>1, <2>2
<1>2. o = [b EXCEPT !.area = RootRect]
  BY DEF Incoming
<1> HIDE DEF o, b
<1>3. IsWindow(o) /\ o.root = b.root /\ o.area = RootRect /\ o.closing = b.closing /\ o.zoomed = b.zoomed
  BY <1>1, <1>2 DEF IsWindow
<1> QED
  BY <1>1, <1>3 DEF WindowOK, o

\* What switch_workspace does to the windows.
LEMMA SwitchedIs ==
  ASSUME NEW win, WindowsOK(win, spawned), spawned \in 0 .. MaxPanes, current \in Window,
         RootRect \in Rectangle, NEW v \in Window \ {current}, CanSwitch(win, v), NEW L
  PROVE  LET s == Switched(win, L, v) IN
         /\ s.spawned \in spawned .. MaxPanes
         /\ s.spawned = IF win[v].root = NoTree THEN spawned + 1 ELSE spawned
         /\ WindowsOK(s.win, s.spawned)
         /\ s.win[current] = SettledWindow(win[current]) /\ s.win[v] = Incoming(win[v])
         /\ \A u \in Window \ {current, v} : s.win[u] = win[u]
<1> DEFINE s == Switched(win, L, v)
           m == s.spawned
           out == SettledWindow(win[current])
           in == Incoming(win[v])
           one == [win EXCEPT ![current] = out]
           two == [one EXCEPT ![v] = in]
<1>1. s.win = two /\ m = IF win[v].root = NoTree THEN spawned + 1 ELSE spawned
  BY DEF Switched, Incoming
<1>2. spawned \in Nat /\ m \in spawned .. MaxPanes /\ m \in Nat /\ spawned <= m
  BY <1>1, LayoutAssumption DEF CanSwitch
<1>3. DOMAIN win = Window /\ \A u \in Window : WindowOK(win[u])
  BY DEF WindowsOK
<1>4. /\ WindowOK(out) /\ out.closing = {}
      /\ PanesIn(out.root) \subseteq PanesIn(win[current].root) \ win[current].closing
  BY <1>3, SettledOK
<1>5. /\ WindowOK(in) /\ in.closing = win[v].closing
      /\ win[v].root # NoTree => in.root = win[v].root
      /\ win[v].root = NoTree => PanesIn(in.root) = {spawned + 1}
  BY <1>2, <1>3, IncomingOK
<1>6. s.win[current] = out /\ s.win[v] = in /\ \A u \in Window \ {current, v} : s.win[u] = win[u]
  BY <1>1, <1>3
<1>7. one[v] = win[v]
  BY <1>3
<1> HIDE DEF s, m, out, in
<1>8. WindowsOK(one, spawned)
  <2> DEFINE S == {}
  <2>1. S \subseteq 1 .. spawned /\ \A u \in Window \ {current} : S \cap PanesIn(win[u].root) = {} /\ S \cap win[u].closing = {}
    OBVIOUS
  <2> HIDE DEF S
  <2>2. PanesIn(out.root) \subseteq PanesIn(win[current].root) \cup S
    BY <1>4
  <2>3. out.closing \subseteq PanesIn(win[current].root) \cup win[current].closing
    BY <1>4
  <2> QED
    BY <1>2, <1>4, <2>1, <2>2, <2>3, OneWindow
<1> HIDE DEF one
<1>9. WindowsOK(two, m)
  <2> DEFINE S == IF win[v].root = NoTree THEN {spawned + 1} ELSE {}
  <2>1. S \subseteq 1 .. m
    BY <1>1, <1>2
  <2>2. PanesIn(in.root) \subseteq PanesIn(one[v].root) \cup S
    BY <1>5, <1>7
  <2>3. in.closing \subseteq PanesIn(one[v].root) \cup one[v].closing
    BY <1>5, <1>7
  <2>4. \A u \in Window : spawned + 1 \notin PanesIn(one[u].root) /\ spawned + 1 \notin one[u].closing
    BY <1>2, <1>8 DEF WindowsOK
  <2>5. \A u \in Window \ {v} : S \cap PanesIn(one[u].root) = {} /\ S \cap one[u].closing = {}
    BY <2>4
  <2> HIDE DEF S
  <2> QED
    BY <1>2, <1>5, <1>8, <2>1, <2>2, <2>3, <2>5, OneWindow
<1> QED
  BY <1>1, <1>2, <1>6, <1>9 DEF s, m, out, in

-----------------------------------------------------------------------------
(* Every step keeps the trees                                              *)

\* A command that changes the window on screen only.
LEMMA PutKeeps ==
  ASSUME TreesInv, NEW w, WindowOK(w), NEW S, window' = [window EXCEPT ![current] = w],
         UNCHANGED <<current, screen, bar>>, commands' \in Nat,
         spawned' \in 0 .. MaxPanes, spawned <= spawned', S \subseteq 1 .. spawned',
         \A u \in Window \ {current} : S \cap PanesIn(window[u].root) = {} /\ S \cap window[u].closing = {},
         PanesIn(w.root) \subseteq Shown \cup S, w.closing \subseteq Shown \cup W.closing
  PROVE  TreesInv'
<1>1. spawned \in Nat /\ spawned' \in Nat /\ current \in Window /\ WindowsOK(window, spawned)
  BY LayoutAssumption DEF TreesInv
<1>2. WindowsOK([window EXCEPT ![current] = w], spawned')
  BY <1>1, OneWindow DEF W, Shown
<1> QED
  BY <1>2 DEF TreesInv, WindowsOK, Window

LEMMA Fresh1 ==
  ASSUME TreesInv, spawned < MaxPanes
  PROVE  /\ spawned + 1 \in 0 .. MaxPanes /\ spawned + 1 \in Nat \ {0} /\ {spawned + 1} \subseteq 1 .. spawned + 1
         /\ \A u \in Window : spawned + 1 \notin PanesIn(window[u].root) /\ spawned + 1 \notin window[u].closing
BY LayoutAssumption DEF TreesInv, WindowsOK

LEMMA ShownTree ==
  ASSUME TreesInv, Shown # {}
  PROVE  /\ WindowOK(W) /\ IsWindow(W) /\ IsTree(W.root) /\ W.area \in Rectangle /\ IsFiniteSet(W.closing)
BY NoTreeEmpty DEF TreesInv, WindowsOK, WindowOK, W, Shown

LEMMA ReshapeKeeps ==
  ASSUME TreesInv, Shown # {}, NEW w, IsWindow(w), w.closing = W.closing, IsTree(w.root), PanesIn(w.root) = Shown,
         Reshape(w)
  PROVE  TreesInv'
<1> DEFINE o == [w EXCEPT !.area = RootRect]
<1>1. IsWindow(o) /\ o.closing = W.closing /\ o.root = w.root /\ o.area = RootRect
  BY DEF IsWindow
<1>2. window' = [window EXCEPT ![current] = o] /\ UNCHANGED <<current, screen, bar, spawned>> /\ commands' = commands + 1
  BY DEF Reshape, Put, Command
<1> HIDE DEF o
<1>3. WindowOK(o)
  BY <1>1, RootRectIs, ShownTree DEF WindowOK
<1>4. PanesIn(o.root) \subseteq Shown \cup {} /\ o.closing \subseteq Shown \cup W.closing
  BY <1>1
<1>5. commands' \in Nat /\ spawned' \in 0 .. MaxPanes /\ spawned <= spawned'
  BY <1>2, LayoutAssumption DEF TreesInv
<1> QED
  BY <1>2, <1>3, <1>4, <1>5, PutKeeps

LEMMA SplitKeeps ==
  ASSUME TreesInv, NEW p, NEW split \in Axes, NEW share \in Shares, NEW detached, Split(p, split, share, detached)
  PROVE  TreesInv'
<1> DEFINE new == spawned + 1
           ratio == ClampRatio(Whole - share)
           w == [W EXCEPT !.root = SplitLeaf(@, p, split, ratio, new),
                          !.focused = IF detached THEN @ ELSE new, !.area = RootRect]
<1>1. /\ p \in Shown /\ spawned < MaxPanes /\ window' = [window EXCEPT ![current] = w] /\ spawned' = new
      /\ commands' = commands + 1 /\ UNCHANGED <<current, screen, bar>>
  BY DEF Split, Put, Command
<1>2. IsWindow(W) /\ IsTree(W.root) /\ IsFiniteSet(W.closing)
  BY <1>1, ShownTree
<1>3. /\ new \in 0 .. MaxPanes /\ new \in Nat \ {0} /\ {new} \subseteq 1 .. new
      /\ \A u \in Window : new \notin PanesIn(window[u].root) /\ new \notin window[u].closing
  BY <1>1, Fresh1
<1>4. current \in Window /\ spawned \in Nat /\ commands \in Nat
  BY LayoutAssumption DEF TreesInv
<1>5. new \notin PanesIn(W.root)
  BY <1>3, <1>4 DEF W
<1>6. ratio \in 0 .. Whole
  <2>1. Whole - share \in Int
    BY LayoutAssumption DEF Whole
  <2> QED
    BY <2>1, ClampRatioIs
<1>7. IsWindow(w) /\ w.root = SplitLeaf(W.root, p, split, ratio, new) /\ w.closing = W.closing /\ w.area = RootRect
  BY <1>2 DEF IsWindow
<1>8. spawned <= spawned' /\ spawned' = new /\ commands' \in Nat
  BY <1>1, <1>4
<1> HIDE DEF new, ratio, w
<1>9. IsTree(w.root) /\ PanesIn(w.root) = Shown \cup {new}
  BY <1>1, <1>2, <1>3, <1>5, <1>6, <1>7, SplitLeafTree DEF Shown
<1>10. WindowOK(w)
  BY <1>2, <1>7, <1>9, RootRectIs DEF WindowOK
<1> DEFINE S == {new}
<1>11. /\ S \subseteq 1 .. spawned'
       /\ \A u \in Window \ {current} : S \cap PanesIn(window[u].root) = {} /\ S \cap window[u].closing = {}
       /\ PanesIn(w.root) \subseteq Shown \cup S /\ w.closing \subseteq Shown \cup W.closing
       /\ spawned' \in 0 .. MaxPanes
  BY <1>3, <1>7, <1>8, <1>9
<1> HIDE DEF S
<1> QED
  BY <1>1, <1>8, <1>10, <1>11, PutKeeps

LEMMA ResizeByKeeps ==
  ASSUME TreesInv, NEW p, NEW dir, NEW cells \in Nat, ResizeBy(p, dir, cells)
  PROVE  TreesInv'
<1> DEFINE root == MoveBoundary(W.root, W.area, p, dir, cells)
           w == [W EXCEPT !.root = MoveBoundary(@, W.area, p, dir, cells)]
<1>1. p \in Shown /\ HasSplit(W.root, W.area, p, AxisOf(dir)) /\ Reshape(w)
  BY DEF ResizeBy
<1>2. IsWindow(W) /\ IsTree(W.root) /\ W.area \in Rectangle
  BY <1>1, ShownTree
<1>3. IsWindow(w) /\ w.root = root /\ w.closing = W.closing
  BY <1>2 DEF IsWindow
<1>4. IsTree(root) /\ PanesIn(root) = Shown
  BY <1>1, <1>2, MoveBoundaryTree DEF Shown
<1> HIDE DEF w, root
<1> QED
  BY <1>1, <1>3, <1>4, ReshapeKeeps

LEMMA ResizePaneToKeeps ==
  ASSUME TreesInv, NEW p, NEW axis, NEW cells \in Nat, ResizePaneTo(p, axis, cells)
  PROVE  TreesInv'
<1> DEFINE root == ResizeTo(W.root, W.area, p, axis, cells)
           w == [W EXCEPT !.root = ResizeTo(@, W.area, p, axis, cells)]
<1>1. p \in Shown /\ HasSplit(W.root, W.area, p, axis) /\ Reshape(w)
  BY DEF ResizePaneTo
<1>2. IsWindow(W) /\ IsTree(W.root) /\ W.area \in Rectangle
  BY <1>1, ShownTree
<1>3. IsWindow(w) /\ w.root = root /\ w.closing = W.closing
  BY <1>2 DEF IsWindow
<1>4. IsTree(root) /\ PanesIn(root) = Shown
  BY <1>1, <1>2, ResizeToTree DEF Shown
<1> HIDE DEF w, root
<1> QED
  BY <1>1, <1>3, <1>4, ReshapeKeeps

LEMMA ToggleZoomKeeps == ASSUME TreesInv, NEW p, ToggleZoom(p) PROVE TreesInv'
<1> DEFINE w == IF W.zoomed = p THEN [W EXCEPT !.zoomed = NoPane] ELSE [W EXCEPT !.zoomed = p, !.focused = p]
<1>1. p \in Shown /\ Reshape(w)
  BY DEF ToggleZoom
<1>2. IsWindow(W) /\ IsTree(W.root)
  BY <1>1, ShownTree
<1>3. IsWindow(w) /\ w.root = W.root /\ w.closing = W.closing
  <2>1. CASE W.zoomed = p
    BY <1>2, <2>1 DEF IsWindow
  <2>2. CASE W.zoomed # p
    BY <1>2, <2>2 DEF IsWindow
  <2> QED
    BY <2>1, <2>2
<1> HIDE DEF w
<1> QED
  BY <1>1, <1>2, <1>3, ReshapeKeeps DEF Shown

LEMMA SwapPanesIs ==
  ASSUME TreesInv, NEW p, NEW q, NEW keep, SwapPanes(p, q, keep)
  PROVE  /\ p \in Shown /\ q \in Shown
         /\ window'[current].root = SwapLeaves(W.root, p, q) /\ IsTree(W.root) /\ TreesInv'
<1> DEFINE w == [W EXCEPT !.root = SwapLeaves(@, p, q), !.focused = IF keep THEN @ ELSE p]
           root == SwapLeaves(W.root, p, q)
<1>1. p \in Shown /\ q \in Shown /\ Reshape(w)
  BY DEF SwapPanes
<1>2. IsWindow(W) /\ IsTree(W.root)
  BY <1>1, ShownTree
<1>3. IsWindow(w) /\ w.root = root /\ w.closing = W.closing
  BY <1>2 DEF IsWindow
<1>4. IsTree(root) /\ PanesIn(root) = Shown
  BY <1>1, <1>2, SwapLeavesTree DEF Shown
<1>5. current \in Window /\ DOMAIN window = Window
  BY DEF TreesInv, WindowsOK
<1>6. window'[current].root = w.root
  <2>1. window' = [window EXCEPT ![current] = [w EXCEPT !.area = RootRect]]
    BY <1>1 DEF Reshape, Put
  <2> HIDE DEF w
  <2> QED
    BY <1>3, <1>5, <2>1 DEF IsWindow
<1> HIDE DEF w, root
<1>7. TreesInv'
  BY <1>1, <1>3, <1>4, ReshapeKeeps
<1> QED
  BY <1>1, <1>2, <1>3, <1>6, <1>7 DEF root

LEMMA RotateWindowIs ==
  ASSUME TreesInv, NEW reverse, RotateWindow(reverse)
  PROVE  window'[current].root = Rotated(W.root, reverse) /\ IsTree(W.root) /\ TreesInv'
<1> DEFINE w == [W EXCEPT !.root = Rotated(@, reverse)]
           root == Rotated(W.root, reverse)
<1>1. Cardinality(Shown) > 1 /\ Reshape(w)
  BY DEF RotateWindow
<1>2. Shown # {}
  BY <1>1, FS_EmptySet
<1>3. IsWindow(W) /\ IsTree(W.root)
  BY <1>2, ShownTree
<1>4. IsWindow(w) /\ w.root = root /\ w.closing = W.closing
  BY <1>3 DEF IsWindow
<1>5. IsTree(root) /\ PanesIn(root) = Shown
  BY <1>3, RotatedTree DEF Shown
<1>6. current \in Window /\ DOMAIN window = Window
  BY DEF TreesInv, WindowsOK
<1>7. window'[current].root = w.root
  <2>1. window' = [window EXCEPT ![current] = [w EXCEPT !.area = RootRect]]
    BY <1>1 DEF Reshape, Put
  <2> HIDE DEF w
  <2> QED
    BY <1>4, <1>6, <2>1 DEF IsWindow
<1> HIDE DEF w, root
<1>8. TreesInv'
  BY <1>1, <1>2, <1>4, <1>5, ReshapeKeeps
<1> QED
  BY <1>3, <1>4, <1>7, <1>8 DEF root

LEMMA SelectLayoutIs ==
  ASSUME TreesInv, NEW name, SelectLayout(name)
  PROVE  window'[current].root = Preset(Leaves(W.root), name) /\ IsTree(W.root) /\ TreesInv'
<1> DEFINE w == [W EXCEPT !.root = Preset(Leaves(@), name)]
           root == Preset(Leaves(W.root), name)
<1>1. Shown # {} /\ Reshape(w)
  BY DEF SelectLayout
<1>2. IsWindow(W) /\ IsTree(W.root)
  BY <1>1, ShownTree
<1>3. IsWindow(w) /\ w.root = root /\ w.closing = W.closing
  BY <1>2 DEF IsWindow
<1>4. IsTree(root) /\ PanesIn(root) = Shown
  BY <1>2, PresetTree DEF Shown
<1>5. current \in Window /\ DOMAIN window = Window
  BY DEF TreesInv, WindowsOK
<1>6. window'[current].root = w.root
  <2>1. window' = [window EXCEPT ![current] = [w EXCEPT !.area = RootRect]]
    BY <1>1 DEF Reshape, Put
  <2> HIDE DEF w
  <2> QED
    BY <1>3, <1>5, <2>1 DEF IsWindow
<1> HIDE DEF w, root
<1>7. TreesInv'
  BY <1>1, <1>3, <1>4, ReshapeKeeps
<1> QED
  BY <1>2, <1>3, <1>6, <1>7 DEF root

\* A command that changes nothing in the windows but what is focused, and what
\* is closing.
LEMMA FocusDirectionKeeps == ASSUME TreesInv, NEW dir, FocusDirection(dir) PROVE TreesInv'
<1> PICK next : Put([W EXCEPT !.focused = next])
  BY DEF FocusDirection
<1> DEFINE w == [W EXCEPT !.focused = next]
<1>1. window' = [window EXCEPT ![current] = w] /\ UNCHANGED <<current, screen, bar, spawned>> /\ commands' = commands + 1
  BY DEF FocusDirection, Put, Command
<1>2. WindowOK(W)
  BY DEF TreesInv, WindowsOK, W
<1>3. WindowOK(w) /\ w.root = W.root /\ w.closing = W.closing
  <2>1. IsWindow(w) /\ w.root = W.root /\ w.closing = W.closing /\ w.area = W.area
    BY <1>2 DEF WindowOK, IsWindow
  <2> HIDE DEF w
  <2> QED
    BY <1>2, <2>1 DEF WindowOK
<1>4. commands' \in Nat /\ spawned' \in 0 .. MaxPanes /\ spawned <= spawned'
  BY <1>1, LayoutAssumption DEF TreesInv
<1> HIDE DEF w
<1>5. PanesIn(w.root) \subseteq Shown \cup {} /\ w.closing \subseteq Shown \cup W.closing
  BY <1>3 DEF Shown
<1> QED
  BY <1>1, <1>3, <1>4, <1>5, PutKeeps, ZenonT(40)

LEMMA KillPaneKeeps == ASSUME TreesInv, NEW p, KillPane(p) PROVE TreesInv'
<1> DEFINE c == IF CanClose(W.root, p) THEN W.closing \cup {p} ELSE W.closing
           root == IF CanClose(W.root, p) THEN W.root ELSE NoTree
<1>1. p \in Shown /\ UNCHANGED <<current, screen, bar, spawned>> /\ commands' = commands + 1
  BY DEF KillPane, Command
<1>2. WindowOK(W) /\ IsWindow(W) /\ IsTree(W.root) /\ W.area \in Rectangle /\ IsFiniteSet(W.closing)
  BY <1>1, ShownTree
<1>3. \E w : IsWindow(w) /\ w.root = root /\ w.closing = c /\ w.area = W.area /\ window' = [window EXCEPT ![current] = w]
  <2>1. CASE CanClose(W.root, p)
    <3> DEFINE w == [W EXCEPT !.closing = @ \cup {p}, !.focused = FirstLeaf(CloseLeaf(W.root, p))]
    <3>1. window' = [window EXCEPT ![current] = w]
      BY <2>1 DEF KillPane, Put
    <3>2. IsWindow(w) /\ w.root = root /\ w.closing = c /\ w.area = W.area
      BY <1>2, <2>1 DEF IsWindow
    <3> QED
      BY <3>1, <3>2
  <2>2. CASE ~CanClose(W.root, p)
    <3> DEFINE w == [W EXCEPT !.root = NoTree, !.focused = NoPane]
    <3>1. window' = [window EXCEPT ![current] = w]
      BY <2>2 DEF KillPane, Put
    <3>2. IsWindow(w) /\ w.root = root /\ w.closing = c /\ w.area = W.area
      BY <1>2, <2>2 DEF IsWindow
    <3> QED
      BY <3>1, <3>2
  <2> QED
    BY <2>1, <2>2
<1>4. IsFiniteSet(c) /\ c \subseteq Shown \cup W.closing
  BY <1>1, <1>2, FS_AddElement
<1>5. (root = NoTree \/ IsTree(root)) /\ PanesIn(root) \subseteq Shown \cup {}
  BY <1>2, NoTreeEmpty DEF Shown
<1>6. commands' \in Nat /\ spawned' \in 0 .. MaxPanes /\ spawned <= spawned'
  BY <1>1, LayoutAssumption DEF TreesInv
<1> HIDE DEF c, root
<1>7. PICK w : IsWindow(w) /\ w.root = root /\ w.closing = c /\ w.area = W.area /\ window' = [window EXCEPT ![current] = w]
  BY <1>3
<1>8. WindowOK(w)
  BY <1>2, <1>4, <1>5, <1>7 DEF WindowOK
<1> QED
  BY <1>1, <1>4, <1>5, <1>6, <1>7, <1>8, PutKeeps

\* Any window that changes.
LEMMA WindowKeeps ==
  ASSUME TreesInv, NEW v \in Window, NEW w, WindowOK(w), window' = [window EXCEPT ![v] = w],
         UNCHANGED <<current, screen, bar, spawned>>, commands' = commands + 1,
         PanesIn(w.root) \subseteq PanesIn(window[v].root),
         w.closing \subseteq PanesIn(window[v].root) \cup window[v].closing
  PROVE  TreesInv'
<1> DEFINE S == {}
<1>1. spawned \in Nat /\ spawned <= spawned /\ WindowsOK(window, spawned) /\ commands' \in Nat
  BY LayoutAssumption DEF TreesInv
<1>2. S \subseteq 1 .. spawned /\ \A u \in Window \ {v} : S \cap PanesIn(window[u].root) = {} /\ S \cap window[u].closing = {}
  OBVIOUS
<1>3. PanesIn(w.root) \subseteq PanesIn(window[v].root) \cup S
  OBVIOUS
<1> HIDE DEF S
<1>4. WindowsOK([window EXCEPT ![v] = w], spawned)
  BY <1>1, <1>2, <1>3, OneWindow
<1>5. WindowsOK(window', spawned')
  BY <1>4
<1> QED
  BY <1>1, <1>5 DEF TreesInv, WindowsOK, Window

LEMMA PaneDiedKeeps == ASSUME TreesInv, NEW p, PaneDied(p) PROVE TreesInv'
<1>1. UNCHANGED <<current, screen, bar, spawned>> /\ commands' = commands + 1
  BY DEF PaneDied, Command
<1>2. \E v \in Window : \E w :
        /\ p \in PanesIn(window[v].root) /\ window' = [window EXCEPT ![v] = w]
        /\ IsWindow(w) /\ w.closing = window[v].closing /\ w.area \in {window[v].area, RootRect}
        /\ w.root = IF CanClose(window[v].root, p) THEN CloseLeaf(window[v].root, p) ELSE NoTree
  <2> PICK v \in Window :
        /\ p \in PanesIn(window[v].root)
        /\ LET w == window[v]
               root == CloseLeaf(w.root, p)
               closed == [w EXCEPT !.root = root, !.focused = FirstLeaf(root),
                                   !.area = IF v = current THEN RootRect ELSE @]
           IN IF CanClose(w.root, p) THEN window' = [window EXCEPT ![v] = closed]
              ELSE window' = [window EXCEPT ![v] = [@ EXCEPT !.root = NoTree, !.focused = NoPane]]
    BY Zenon DEF PaneDied
  <2>1. IsWindow(window[v]) /\ DOMAIN window = Window
    BY DEF TreesInv, WindowsOK, WindowOK
  <2>2. CASE CanClose(window[v].root, p)
    <3> DEFINE w == [window[v] EXCEPT !.root = CloseLeaf(window[v].root, p),
                                      !.focused = FirstLeaf(CloseLeaf(window[v].root, p)),
                                      !.area = IF v = current THEN RootRect ELSE @]
    <3>1. window' = [window EXCEPT ![v] = w]
      BY <2>2
    <3>2. /\ IsWindow(w) /\ w.closing = window[v].closing /\ w.area \in {window[v].area, RootRect}
          /\ w.root = CloseLeaf(window[v].root, p)
      BY <2>1 DEF IsWindow
    <3> QED
      BY <2>2, <3>1, <3>2
  <2>3. CASE ~CanClose(window[v].root, p)
    <3> DEFINE w == [window[v] EXCEPT !.root = NoTree, !.focused = NoPane]
    <3>1. window' = [window EXCEPT ![v] = w]
      BY <2>1, <2>3
    <3>2. /\ IsWindow(w) /\ w.closing = window[v].closing /\ w.area = window[v].area /\ w.root = NoTree
      BY <2>1 DEF IsWindow
    <3> QED
      BY <2>3, <3>1, <3>2
  <2> QED
    BY <2>2, <2>3
<1>3. PICK v \in Window : \E w :
        /\ p \in PanesIn(window[v].root) /\ window' = [window EXCEPT ![v] = w]
        /\ IsWindow(w) /\ w.closing = window[v].closing /\ w.area \in {window[v].area, RootRect}
        /\ w.root = IF CanClose(window[v].root, p) THEN CloseLeaf(window[v].root, p) ELSE NoTree
  BY <1>2
<1>4. PICK w :
        /\ p \in PanesIn(window[v].root) /\ window' = [window EXCEPT ![v] = w]
        /\ IsWindow(w) /\ w.closing = window[v].closing /\ w.area \in {window[v].area, RootRect}
        /\ w.root = IF CanClose(window[v].root, p) THEN CloseLeaf(window[v].root, p) ELSE NoTree
  BY <1>3
<1>5. IsTree(window[v].root) /\ window[v].area \in Rectangle /\ IsFiniteSet(window[v].closing)
  BY <1>4, NoTreeEmpty DEF TreesInv, WindowsOK, WindowOK
<1>6. (w.root = NoTree \/ IsTree(w.root)) /\ PanesIn(w.root) \subseteq PanesIn(window[v].root)
  BY <1>4, <1>5, CloseLeafTree, NoTreeEmpty
<1>7. WindowOK(w)
  BY <1>4, <1>5, <1>6, RootRectIs DEF WindowOK
<1>8. w.closing \subseteq PanesIn(window[v].root) \cup window[v].closing
  BY <1>4
<1> QED
  BY <1>1, <1>4, <1>6, <1>7, <1>8, WindowKeeps

LEMMA RespawnedTree ==
  ASSUME NEW t, IsTree(t), NEW p, NEW new \in Nat \ {0}, new \notin PanesIn(t)
  PROVE  LET u == Relabel(t, [q \in PanesIn(t) |-> IF q = p THEN new ELSE q]) IN
         IsTree(u) /\ PanesIn(u) \subseteq PanesIn(t) \cup {new}
<1> DEFINE f == [q \in PanesIn(t) |-> IF q = p THEN new ELSE q]
<1>1. \A q \in PanesIn(t) : f[q] \in Nat \ {0} /\ f[q] \in PanesIn(t) \cup {new}
  BY LeafFacts
<1>2. \A q, o \in PanesIn(t) : f[q] = f[o] => q = o
  OBVIOUS
<1> HIDE DEF f
<1>3. IsTree(Relabel(t, f)) /\ PanesIn(Relabel(t, f)) = {f[q] : q \in PanesIn(t)}
  BY <1>1, <1>2, RelabelTree
<1>4. PanesIn(Relabel(t, f)) \subseteq PanesIn(t) \cup {new}
  BY <1>1, <1>3
<1> QED
  BY <1>3, <1>4 DEF f

LEMMA RespawnPaneKeeps == ASSUME TreesInv, NEW p, RespawnPane(p) PROVE TreesInv'
<1> DEFINE new == spawned + 1
           root == Relabel(W.root, [q \in Shown |-> IF q = p THEN new ELSE q])
           w == [W EXCEPT !.root = Relabel(@, [q \in Shown |-> IF q = p THEN new ELSE q]),
                          !.focused = IF @ = p THEN new ELSE @, !.area = RootRect]
           S == {new}
<1>1. /\ p \in Shown /\ spawned < MaxPanes /\ window' = [window EXCEPT ![current] = w] /\ spawned' = new
      /\ commands' = commands + 1 /\ UNCHANGED <<current, screen, bar>>
  BY DEF RespawnPane, Put, Command
<1>2. IsWindow(W) /\ IsTree(W.root) /\ IsFiniteSet(W.closing)
  BY <1>1, ShownTree
<1>3. /\ new \in 0 .. MaxPanes /\ new \in Nat \ {0} /\ {new} \subseteq 1 .. new
      /\ \A u \in Window : new \notin PanesIn(window[u].root) /\ new \notin window[u].closing
  BY <1>1, Fresh1
<1>4. current \in Window /\ spawned \in Nat /\ commands \in Nat
  BY LayoutAssumption DEF TreesInv
<1>5. new \notin PanesIn(W.root)
  BY <1>3, <1>4 DEF W
<1>6. IsWindow(w) /\ w.root = root /\ w.closing = W.closing /\ w.area = RootRect
  BY <1>2 DEF IsWindow
<1>7. spawned <= spawned' /\ spawned' = new /\ commands' \in Nat
  BY <1>1, <1>4
<1>8. IsTree(root) /\ PanesIn(root) \subseteq Shown \cup S
  <2> HIDE DEF new
  <2> QED
    BY <1>2, <1>3, <1>5, RespawnedTree DEF Shown
<1> HIDE DEF root, w, new
<1>9. WindowOK(w)
  BY <1>2, <1>6, <1>8, RootRectIs DEF WindowOK
<1>10. /\ S \subseteq 1 .. spawned'
       /\ \A u \in Window \ {current} : S \cap PanesIn(window[u].root) = {} /\ S \cap window[u].closing = {}
       /\ w.closing \subseteq Shown \cup W.closing /\ PanesIn(w.root) \subseteq Shown \cup S
       /\ spawned' \in 0 .. MaxPanes
  BY <1>3, <1>6, <1>7, <1>8
<1> HIDE DEF S
<1> QED
  BY <1>1, <1>7, <1>9, <1>10, PutKeeps

LEMMA SwitchKeeps ==
  ASSUME TreesInv, NEW v \in Window, Switch(v)
  PROVE  TreesInv' /\ window'[current].root = SettledWindow(W).root
<1> DEFINE s == Switched(window, leaf, v)
<1>1. /\ v \in Window \ {current} /\ CanSwitch(window, v) /\ window' = s.win /\ spawned' = s.spawned
      /\ current' = v /\ UNCHANGED <<screen, bar>> /\ commands' = commands + 1
  BY DEF Switch, Command
<1>2. /\ s.spawned \in spawned .. MaxPanes /\ WindowsOK(s.win, s.spawned)
      /\ s.win[current] = SettledWindow(window[current])
  BY <1>1, RootRectIs, SwitchedIs DEF TreesInv
<1> HIDE DEF s
<1>3. spawned' \in 0 .. MaxPanes /\ commands' \in Nat
  BY <1>1, <1>2, LayoutAssumption DEF TreesInv
<1>4. WindowsOK(window', spawned')
  BY <1>1, <1>2
<1>5. TreesInv'
  BY <1>1, <1>3, <1>4 DEF TreesInv, WindowsOK, Window
<1> QED
  BY <1>1, <1>2, <1>5 DEF W

LEMMA ToggleBarKeeps == ASSUME TreesInv, ToggleBar PROVE TreesInv'
<1>1. bar' \in BOOLEAN
  BY DEF ToggleBar
<1>2. commands' \in Nat
  BY DEF TreesInv, ToggleBar, Command
<1>3. UNCHANGED <<window, current, screen, spawned>>
  BY DEF ToggleBar
<1> QED
  BY <1>1, <1>2, <1>3 DEF TreesInv, WindowsOK, Window

LEMMA TreesAre ==
  ASSUME TreesInv
  PROVE  /\ WindowsOK(window, spawned) /\ DOMAIN window = Window
         /\ \A v \in Window : WindowOK(window[v])
         /\ spawned \in 0 .. MaxPanes /\ spawned \in Nat /\ spawned <= spawned
         /\ commands \in Nat /\ commands + 1 \in Nat /\ current \in Window
         /\ screen \in Sizes /\ bar \in BOOLEAN /\ RootRect \in Rectangle
<1>1. WindowsOK(window, spawned)
  BY DEF TreesInv
<1>2. DOMAIN window = Window /\ \A v \in Window : WindowOK(window[v])
  BY <1>1 DEF WindowsOK
<1> QED
  BY <1>1, <1>2, RootRectIs, LayoutAssumption DEF TreesInv

LEMMA TreesNext ==
  ASSUME current' \in Window, screen' \in Sizes, bar' \in BOOLEAN, spawned' \in 0 .. MaxPanes,
         commands' \in Nat, WindowsOK(window', spawned')
  PROVE  TreesInv'
BY DEF TreesInv, WindowsOK, Window

LEMMA OneWindowLess ==
  ASSUME NEW win, NEW n \in Nat, WindowsOK(win, n), NEW v \in Window, NEW w, WindowOK(w),
         PanesIn(w.root) \subseteq PanesIn(win[v].root),
         w.closing \subseteq PanesIn(win[v].root) \cup win[v].closing
  PROVE  WindowsOK([win EXCEPT ![v] = w], n)
<1> DEFINE S == {}
<1>1. S \subseteq 1 .. n /\ \A u \in Window \ {v} : S \cap PanesIn(win[u].root) = {} /\ S \cap win[u].closing = {}
  OBVIOUS
<1>2. PanesIn(w.root) \subseteq PanesIn(win[v].root) \cup S /\ n <= n
  OBVIOUS
<1> HIDE DEF S
<1> QED
  BY <1>1, <1>2, OneWindow

\* A pane that was taken out of one window and is put into another.
LEMMA OwnWindow ==
  ASSUME TreesInv, NEW u \in Window, NEW p \in PanesIn(window[u].root), NEW from, WindowOK(from),
         PanesIn(from.root) = PanesIn(window[u].root) \ {p}, from.closing = window[u].closing \ {p}
  PROVE  LET win == [window EXCEPT ![u] = from] IN
         /\ WindowsOK(win, spawned) /\ spawned \in Nat /\ p \in 1 .. spawned /\ p \in Nat \ {0}
         /\ DOMAIN win = Window /\ win[u] = from /\ \A v \in Window \ {u} : win[v] = window[v]
         /\ \A v \in Window : p \notin PanesIn(win[v].root) /\ p \notin win[v].closing
<1> DEFINE win == [window EXCEPT ![u] = from]
<1>1. spawned \in Nat /\ WindowsOK(window, spawned) /\ DOMAIN window = Window
  BY TreesAre
<1>2. DOMAIN win = Window /\ win[u] = from /\ \A v \in Window \ {u} : win[v] = window[v]
  BY <1>1
<1>3. /\ PanesIn(from.root) \subseteq PanesIn(window[u].root)
      /\ from.closing \subseteq PanesIn(window[u].root) \cup window[u].closing
  OBVIOUS
<1> HIDE DEF win
<1>5. WindowsOK([window EXCEPT ![u] = from], spawned)
  BY <1>1, <1>3, OneWindowLess
<1>6. p \in 1 .. spawned
  BY <1>1 DEF WindowsOK
<1>7. p \in Nat \ {0}
  BY <1>1, <1>6
<1>8. \A v \in Window \ {u} : p \notin PanesIn(window[v].root) /\ p \notin window[v].closing
  BY <1>1 DEF WindowsOK
<1>9. \A v \in Window : p \notin PanesIn(win[v].root) /\ p \notin win[v].closing
  BY <1>2, <1>8
<1> QED
  BY <1>1, <1>2, <1>5, <1>6, <1>7, <1>9 DEF win

\* What break-pane does to the two windows.
Broken(p) == [Detached(W, p) EXCEPT !.area = RootRect]

LEMMA BrokenIs ==
  ASSUME TreesInv, NEW p \in Shown, NEW v \in Window \ {current}, window[v].root = NoTree
  PROVE  LET from == Broken(p)
             win == [window EXCEPT ![current] = from, ![v] = Lone(@, p, RootRect)]
         IN /\ WindowsOK(win, spawned) /\ p \in Nat \ {0}
            /\ win[current] = from /\ \A u \in Window \ {current, v} : win[u] = window[u]
            /\ PanesIn(from.root) = Shown \ {p}
            /\ win[v].root = Leaf(p) /\ PanesIn(win[v].root) = {p} /\ win[v].root # NoTree
            /\ win[v].closing = window[v].closing
<1> DEFINE d == Detached(W, p)
           from == Broken(p)
           one == [window EXCEPT ![current] = from]
           lone == Lone(window[v], p, RootRect)
           win == [one EXCEPT ![v] = lone]
<1>1. current \in Window /\ DOMAIN window = Window /\ WindowOK(window[v]) /\ RootRect \in Rectangle
      /\ spawned \in 0 .. MaxPanes /\ spawned \in Nat /\ spawned <= spawned
  BY TreesAre
<1>2. one[v] = window[v] /\ DOMAIN one = Window /\ one[current] = from
      /\ \A u \in Window \ {current} : one[u] = window[u]
  BY <1>1
<1>3. win = [window EXCEPT ![current] = from, ![v] = Lone(@, p, RootRect)]
  BY <1>2
<1>4. WindowOK(d) /\ PanesIn(d.root) = Shown \ {p} /\ d.closing = W.closing \ {p} /\ IsWindow(d)
  BY ShownTree, DetachedOK DEF Shown, WindowOK
<1>5. from = [d EXCEPT !.area = RootRect]
  BY DEF Broken
<1> HIDE DEF d
<1>6. IsWindow(from) /\ from.root = d.root /\ from.closing = d.closing /\ from.area = RootRect
  BY <1>4, <1>5 DEF IsWindow
<1> HIDE DEF from
<1>7. WindowOK(from) /\ PanesIn(from.root) = PanesIn(window[current].root) \ {p} /\ from.closing = window[current].closing \ {p}
  BY <1>1, <1>4, <1>6 DEF WindowOK, Shown, W
<1>8. /\ WindowsOK(one, spawned) /\ p \in 1 .. spawned /\ p \in Nat \ {0}
      /\ \A u \in Window : p \notin PanesIn(one[u].root) /\ p \notin one[u].closing
  BY <1>1, <1>7, OwnWindow, ZenonT(40) DEF Shown, W
<1>9. WindowOK(lone) /\ PanesIn(lone.root) = {p} /\ lone.closing = window[v].closing /\ lone.root = Leaf(p)
  <2> DEFINE o == window[v]
  <2>1. WindowOK(o) /\ p \in Nat \ {0} /\ RootRect \in Rectangle
    BY <1>1, <1>8
  <2> HIDE DEF o
  <2>2. LET l == Lone(o, p, RootRect) IN
        WindowOK(l) /\ PanesIn(l.root) = {p} /\ l.closing = o.closing /\ l.root = Leaf(p)
    BY <2>1, LoneOK
  <2> QED
    BY <2>2 DEF o
<1>10. win[v] = lone /\ win[current] = from /\ \A u \in Window \ {current, v} : win[u] = window[u]
  <2> HIDE DEF lone, one
  <2> QED
    BY <1>1, <1>2
<1> HIDE DEF lone, one
<1>11. WindowsOK(win, spawned)
  <2> DEFINE S == {p}
  <2>1. /\ S \subseteq 1 .. spawned
        /\ \A u \in Window \ {v} : S \cap PanesIn(one[u].root) = {} /\ S \cap one[u].closing = {}
        /\ PanesIn(lone.root) \subseteq PanesIn(one[v].root) \cup S
        /\ lone.closing \subseteq PanesIn(one[v].root) \cup one[v].closing
    BY <1>2, <1>8, <1>9
  <2> HIDE DEF S
  <2> QED
    BY <1>1, <1>8, <1>9, <2>1, OneWindow
<1> HIDE DEF win
<1> QED
  BY <1>3, <1>4, <1>6, <1>8, <1>9, <1>10, <1>11, NoTreeEmpty DEF from

LEMMA BreakPaneKeeps ==
  ASSUME TreesInv, NEW p, NEW v \in Window, NEW detached, BreakPane(p, v, detached)
  PROVE  TreesInv'
<1> DEFINE from == Broken(p)
           win == [window EXCEPT ![current] = from, ![v] = Lone(@, p, RootRect)]
           L == [Recomputed(leaf, from, RootRect) EXCEPT ![p].cur = RootRect, ![p].target = RootRect]
           s == Switched(win, L, v)
<1>1. /\ p \in Shown /\ v \in Window \ {current} /\ window[v].root = NoTree
      /\ UNCHANGED <<screen, bar, spawned>> /\ commands' = commands + 1
      /\ IF detached THEN window' = win /\ UNCHANGED current ELSE window' = s.win /\ current' = v
  BY DEF BreakPane, Command, Broken
<1>2. WindowsOK(win, spawned) /\ win[v].root # NoTree
  BY <1>1, BrokenIs
<1>3. current \in Window /\ RootRect \in Rectangle /\ spawned \in 0 .. MaxPanes
  BY TreesAre
<1> HIDE DEF win, L, from
<1>4. CASE detached
  <2>1. WindowsOK(window', spawned') /\ current' = current
    BY <1>1, <1>2, <1>4
  <2> QED
    BY <1>1, <2>1, TreesAre, TreesNext
<1>5. CASE ~detached
  <2>1. CanSwitch(win, v)
    BY <1>2 DEF CanSwitch
  <2>2. WindowsOK(s.win, s.spawned) /\ s.spawned = spawned
    BY <1>1, <1>2, <1>3, <2>1, SwitchedIs
  <2> HIDE DEF s
  <2>3. WindowsOK(window', spawned')
    BY <1>1, <1>5, <2>2
  <2> QED
    BY <1>1, <1>5, <2>3, TreesAre, TreesNext
<1> QED
  BY <1>4, <1>5

\* What join-pane does to the window that a pane leaves, ...
Leaving(u, p) == [Detached(window[u], p) EXCEPT !.area = IF u = current THEN RootRect ELSE @]

LEMMA LeavingIs ==
  ASSUME TreesInv, NEW u \in Window, NEW p \in PanesIn(window[u].root)
  PROVE  LET from == Leaving(u, p)
             win == [window EXCEPT ![u] = from]
         IN /\ WindowsOK(win, spawned) /\ p \in 1 .. spawned /\ p \in Nat \ {0} /\ DOMAIN win = Window
            /\ win[u] = from /\ \A o \in Window \ {u} : win[o] = window[o]
            /\ \A o \in Window : p \notin PanesIn(win[o].root) /\ p \notin win[o].closing
            /\ PanesIn(from.root) = PanesIn(window[u].root) \ {p} /\ from.closing = window[u].closing \ {p}
<1> DEFINE d == Detached(window[u], p)
           from == Leaving(u, p)
<1>1. WindowOK(window[u]) /\ RootRect \in Rectangle
  BY TreesAre
<1>2. /\ WindowOK(d) /\ PanesIn(d.root) = PanesIn(window[u].root) \ {p} /\ d.closing = window[u].closing \ {p}
  <2> DEFINE o == window[u]
  <2>1. WindowOK(o) /\ p \in PanesIn(o.root)
    BY <1>1
  <2> HIDE DEF o
  <2>2. LET e == Detached(o, p) IN WindowOK(e) /\ PanesIn(e.root) = PanesIn(o.root) \ {p} /\ e.closing = o.closing \ {p}
    BY <2>1, DetachedOK
  <2> QED
    BY <2>2 DEF o
<1>3. from = [d EXCEPT !.area = IF u = current THEN RootRect ELSE d.area]
  BY DEF Leaving
<1> HIDE DEF d, from
<1>4. WindowOK(from) /\ PanesIn(from.root) = PanesIn(window[u].root) \ {p} /\ from.closing = window[u].closing \ {p}
  <2> DEFINE a == IF u = current THEN RootRect ELSE d.area
             e == [d EXCEPT !.area = a]
  <2>1. IsWindow(d) /\ a \in {RootRect, d.area}
    BY <1>2 DEF WindowOK
  <2>2. from = e
    BY <1>3
  <2> HIDE DEF a
  <2>3. IsWindow(e) /\ e.root = d.root /\ e.closing = d.closing /\ e.area = a
    BY <2>1 DEF IsWindow
  <2> HIDE DEF e
  <2>4. WindowOK(e)
    BY <1>1, <1>2, <2>1, <2>3 DEF WindowOK
  <2> QED
    BY <1>2, <2>2, <2>3, <2>4
<1> QED
  BY <1>4, OwnWindow DEF from

\* ... to the window on screen, when the pane arrives elsewhere, ...
Arriving(win, L, v) == IF v = current THEN [win |-> win, leaf |-> L] ELSE Switched(win, L, v)

\* From the windows `one` to the windows `two`: v is as it was, and the one that it
\* replaces on screen has lost at most what was closing there.
Arrived(two, one, v) ==
  /\ WindowsOK(two, spawned) /\ two[v].root = one[v].root /\ two[v].closing = one[v].closing
  /\ two[v].zoomed = one[v].zoomed
  /\ \A o \in Window : PanesIn(two[o].root) \subseteq PanesIn(one[o].root) /\ two[o].closing \subseteq one[o].closing
  /\ \A o \in Window \ {current, v} : two[o] = one[o]

LEMMA ArrivingIs ==
  ASSUME TreesInv, NEW win, WindowsOK(win, spawned), NEW v \in Window, win[v].root # NoTree, NEW L
  PROVE  Arrived(Arriving(win, L, v).win, win, v)
<1> DEFINE s == Arriving(win, L, v)
<1>1. spawned \in 0 .. MaxPanes /\ spawned \in Nat /\ current \in Window /\ RootRect \in Rectangle
  BY TreesAre
<1>2. CASE v = current
  <2>1. s.win = win
    BY <1>2 DEF Arriving
  <2> HIDE DEF s
  <2> QED
    BY <2>1 DEF s, Arrived
<1>3. CASE v # current
  <2> DEFINE z == Switched(win, L, v)
  <2>1. CanSwitch(win, v) /\ v \in Window \ {current}
    BY <1>3 DEF CanSwitch
  <2>2. /\ WindowsOK(z.win, z.spawned) /\ z.spawned = spawned
        /\ z.win[current] = SettledWindow(win[current]) /\ z.win[v] = Incoming(win[v])
        /\ \A o \in Window \ {current, v} : z.win[o] = win[o]
    BY <1>1, <2>1, SwitchedIs
  <2>3. WindowOK(win[v]) /\ WindowOK(win[current])
    BY <1>1 DEF WindowsOK
  <2>4. z.win[v].root = win[v].root /\ z.win[v].closing = win[v].closing /\ z.win[v].zoomed = win[v].zoomed
    BY <1>1, <2>2, <2>3, IncomingOK
  <2>5. z.win[current].closing = {} /\ PanesIn(z.win[current].root) \subseteq PanesIn(win[current].root)
    BY <2>2, <2>3, SettledOK
  <2>6. s = z
    BY <1>3 DEF Arriving
  <2> HIDE DEF z, s
  <2>7. ASSUME NEW o \in Window
        PROVE  PanesIn(s.win[o].root) \subseteq PanesIn(win[o].root) /\ s.win[o].closing \subseteq win[o].closing
    <3>1. CASE o = current
      BY <1>1, <2>5, <2>6, <3>1
    <3>2. CASE o = v
      BY <2>4, <2>6, <3>2
    <3>3. CASE o # current /\ o # v
      BY <2>2, <2>6, <3>3
    <3> QED
      BY <3>1, <3>2, <3>3
  <2> QED
    BY <2>2, <2>4, <2>6, <2>7 DEF s, Arrived
<1> QED
  BY <1>2, <1>3

\* ... and to the window where it arrives.
Joining(t, onto, split, p, detached) ==
  [t EXCEPT !.root = SplitLeaf(@, onto, split, Whole \div 2, p),
            !.focused = IF detached THEN @ ELSE p, !.area = RootRect]

LEMMA JoiningIs ==
  ASSUME NEW t, WindowOK(t), NEW onto \in PanesIn(t.root), NEW split \in Axes, NEW p \in Nat \ {0},
         p \notin PanesIn(t.root), NEW detached, RootRect \in Rectangle
  PROVE  LET w == Joining(t, onto, split, p, detached) IN
         /\ WindowOK(w) /\ IsTree(w.root) /\ PanesIn(w.root) = PanesIn(t.root) \cup {p}
         /\ w.closing = t.closing
<1> DEFINE w == Joining(t, onto, split, p, detached)
           half == Whole \div 2
<1>1. IsWindow(t) /\ IsTree(t.root) /\ IsFiniteSet(t.closing)
  BY NoTreeEmpty DEF WindowOK
<1>2. /\ IsWindow(w) /\ w.root = SplitLeaf(t.root, onto, split, half, p) /\ w.closing = t.closing /\ w.area = RootRect
  BY <1>1 DEF IsWindow, Joining
<1>3. half \in 0 .. Whole
  BY DEF Whole
<1> HIDE DEF w, half
<1>4. IsTree(w.root) /\ PanesIn(w.root) = PanesIn(t.root) \cup {p}
  BY <1>1, <1>2, <1>3, SplitLeafTree
<1>5. WindowOK(w)
  BY <1>1, <1>2, <1>4 DEF WindowOK
<1> QED
  BY <1>2, <1>4, <1>5 DEF w

LEMMA JoinPaneKeeps ==
  ASSUME TreesInv, NEW u \in Window, NEW v \in Window, NEW p \in PanesIn(window[u].root),
         NEW onto \in PanesIn(window[v].root), NEW split \in Axes, NEW detached,
         JoinPane(p, u, onto, v, split, detached)
  PROVE  TreesInv'
<1> DEFINE from == Leaving(u, p)
           win == [window EXCEPT ![u] = from]
           L == IF u = current THEN Recomputed(leaf, from, RootRect) ELSE leaf
           s == Arriving(win, L, v)
           t == s.win[v]
           w == Joining(t, onto, split, p, detached)
<1>1. /\ p # onto /\ window' = [s.win EXCEPT ![v] = w] /\ current' = v
      /\ UNCHANGED <<screen, bar, spawned>> /\ commands' = commands + 1
  BY Zenon DEF JoinPane, Command, Leaving, Arriving, Joining
<1>2. /\ WindowsOK(win, spawned) /\ p \in 1 .. spawned /\ p \in Nat \ {0} /\ win[u] = from
      /\ \A o \in Window \ {u} : win[o] = window[o]
      /\ \A o \in Window : p \notin PanesIn(win[o].root) /\ p \notin win[o].closing
      /\ PanesIn(from.root) = PanesIn(window[u].root) \ {p}
  BY LeavingIs, ZenonT(40)
<1>3. spawned \in Nat /\ RootRect \in Rectangle
  BY TreesAre
<1> HIDE DEF win, from, L
<1>4. onto \in PanesIn(win[v].root) /\ win[v].root # NoTree
  <2>1. onto \in PanesIn(win[v].root)
    BY <1>1, <1>2
  <2> QED
    BY <2>1, NoTreeEmpty
<1>5. /\ WindowsOK(s.win, spawned) /\ t.root = win[v].root
      /\ \A o \in Window : p \notin PanesIn(s.win[o].root) /\ p \notin s.win[o].closing
  <2>1. Arrived(s.win, win, v)
    BY <1>2, <1>4, ArrivingIs
  <2> HIDE DEF s
  <2> QED
    BY <1>2, <2>1 DEF Arrived
<1> HIDE DEF s
<1>6. WindowOK(t) /\ p \notin PanesIn(t.root) /\ onto \in PanesIn(t.root)
  BY <1>4, <1>5 DEF WindowsOK
<1>7. WindowOK(w) /\ PanesIn(w.root) = PanesIn(t.root) \cup {p} /\ w.closing = t.closing
  <2> HIDE DEF t
  <2> QED
    BY <1>2, <1>3, <1>6, JoiningIs
<1> HIDE DEF w
<1>8. WindowsOK([s.win EXCEPT ![v] = w], spawned)
  <2> DEFINE S == {p}
             z == s.win
  <2>1. /\ S \subseteq 1 .. spawned
        /\ \A o \in Window \ {v} : S \cap PanesIn(z[o].root) = {} /\ S \cap z[o].closing = {}
        /\ PanesIn(w.root) \subseteq PanesIn(z[v].root) \cup S
        /\ w.closing \subseteq PanesIn(z[v].root) \cup z[v].closing
        /\ WindowsOK(z, spawned) /\ spawned <= spawned
    BY <1>2, <1>3, <1>5, <1>7
  <2> HIDE DEF S, z
  <2>2. WindowsOK([z EXCEPT ![v] = w], spawned)
    BY <1>3, <1>7, <2>1, OneWindow
  <2> QED
    BY <2>2 DEF z
<1>9. WindowsOK(window', spawned')
  BY <1>1, <1>8
<1>10. current' \in Window /\ screen' \in Sizes /\ bar' \in BOOLEAN /\ spawned' \in 0 .. MaxPanes /\ commands' \in Nat
  BY <1>1, TreesAre
<1> QED
  BY <1>9, <1>10, TreesNext

LEMMA HostResizeKeeps == ASSUME TreesInv, NEW size \in Sizes, HostResize(size) PROVE TreesInv'
<1> DEFINE r == RootOf(size, bar)
           laid == [v \in Window |-> IF window[v].root = NoTree THEN window[v] ELSE [window[v] EXCEPT !.area = r]]
           c == SettledWindow(laid[current])
<1>1. /\ window' = [laid EXCEPT ![current] = c] /\ screen' = size
      /\ UNCHANGED <<current, bar, spawned>> /\ commands' = commands + 1
  BY Zenon DEF HostResize, Command
<1>2. /\ WindowsOK(window, spawned) /\ spawned \in Nat /\ bar \in BOOLEAN /\ current \in Window
      /\ \A v \in Window : WindowOK(window[v])
  BY TreesAre
<1>3. r \in Rectangle
  BY <1>2, RootIsRectangle
<1> HIDE DEF r
<1>4. ASSUME NEW v \in Window
      PROVE  WindowOK(laid[v]) /\ laid[v].root = window[v].root /\ laid[v].closing = window[v].closing
  <2>1. CASE window[v].root = NoTree
    BY <1>2, <2>1
  <2>2. CASE window[v].root # NoTree
    <3> DEFINE o == [window[v] EXCEPT !.area = r]
    <3>1. WindowOK(window[v]) /\ laid[v] = o
      BY <1>2, <2>2
    <3>2. IsWindow(o) /\ o.root = window[v].root /\ o.closing = window[v].closing /\ o.area = r
      BY <3>1 DEF WindowOK, IsWindow
    <3> HIDE DEF o
    <3>3. WindowOK(o)
      BY <1>3, <3>1, <3>2 DEF WindowOK
    <3> QED
      BY <3>1, <3>2, <3>3
  <2> QED
    BY <2>1, <2>2
<1>5. DOMAIN laid = Window
  OBVIOUS
<1> HIDE DEF laid
<1>6. WindowsOK(laid, spawned)
  BY <1>2, <1>4, <1>5 DEF WindowsOK
<1> DEFINE l == laid[current]
<1>7. WindowOK(l)
  BY <1>2, <1>4
<1>8. WindowOK(c) /\ c.closing = {} /\ PanesIn(c.root) \subseteq PanesIn(l.root)
  <2> HIDE DEF l
  <2>1. LET o == SettledWindow(l) IN WindowOK(o) /\ o.closing = {} /\ PanesIn(o.root) \subseteq PanesIn(l.root) \ l.closing
    BY <1>7, SettledOK
  <2> QED
    BY <2>1 DEF l
<1> HIDE DEF c
<1>9. WindowsOK([laid EXCEPT ![current] = c], spawned)
  <2>1. c.closing \subseteq PanesIn(laid[current].root) \cup laid[current].closing
    BY <1>8
  <2> QED
    BY <1>2, <1>6, <1>8, <2>1, OneWindowLess
<1>10. WindowsOK(window', spawned')
  BY <1>1, <1>9
<1> QED
  BY <1>1, <1>10, TreesAre, TreesNext

\* The window on screen after a tick.
LEMMA TickIs ==
  ASSUME TreesInv, NEW d, Tick(d)
  PROVE  LET done == Finished(d)
             root == IF W.root = NoTree THEN NoTree ELSE Pruned(W.root, done)
         IN /\ TreesInv' /\ done \subseteq W.closing /\ IsFiniteSet(done)
            /\ window'[current].root = root /\ window'[current].closing = W.closing \ done
            /\ window'[current].zoomed = W.zoomed
<1> DEFINE done == Finished(d)
           root == IF W.root = NoTree THEN NoTree ELSE Pruned(W.root, done)
           w == [W EXCEPT
                   !.root = root,
                   !.closing = @ \ done,
                   !.focused = IF done = {} \/ W.root = NoTree THEN @
                               ELSE IF root = NoTree THEN NoPane
                               ELSE IF @ \in done \cup {NoPane} THEN FirstLeaf(root) ELSE @,
                   !.area = IF done # {} /\ root # NoTree THEN RootRect ELSE @]
<1>1. window' = [window EXCEPT ![current] = w] /\ UNCHANGED <<current, screen, bar, spawned, commands>>
  BY DEF Tick, Put
<1>2. /\ WindowOK(W) /\ current \in Window /\ DOMAIN window = Window /\ RootRect \in Rectangle
      /\ spawned \in 0 .. MaxPanes /\ spawned \in Nat /\ WindowsOK(window, spawned)
  BY TreesAre DEF W
<1>3. done \subseteq W.closing /\ IsFiniteSet(done)
  <2>1. done \subseteq W.closing /\ IsFiniteSet(W.closing)
    BY <1>2 DEF Finished, WindowOK
  <2> HIDE DEF done
  <2> QED
    BY <2>1, FS_Subset
<1> HIDE DEF done
<1>4. (root = NoTree \/ (IsTree(root) /\ W.area \in Rectangle)) /\ PanesIn(root) \subseteq PanesIn(W.root)
  <2>1. CASE W.root = NoTree
    BY <2>1, NoTreeEmpty
  <2>2. CASE W.root # NoTree
    <3>1. IsTree(W.root) /\ W.area \in Rectangle /\ root = Pruned(W.root, done)
      BY <1>2, <2>2 DEF WindowOK
    <3> HIDE DEF root
    <3> QED
      BY <1>3, <3>1, PrunedIs, NoTreeEmpty
  <2> QED
    BY <2>1, <2>2
<1> HIDE DEF root
<1>5. /\ IsWindow(w) /\ w.root = root /\ w.closing = W.closing \ done /\ w.zoomed = W.zoomed
      /\ w.area \in {W.area, RootRect}
  BY <1>2 DEF WindowOK, IsWindow
<1> HIDE DEF w
<1>6. WindowOK(w)
  <2>1. IsFiniteSet(W.closing \ done)
    BY <1>2, FS_Difference DEF WindowOK
  <2> QED
    BY <1>2, <1>4, <1>5, <2>1 DEF WindowOK
<1>7. WindowsOK([window EXCEPT ![current] = w], spawned)
  <2>1. PanesIn(w.root) \subseteq PanesIn(window[current].root)
    BY <1>4, <1>5 DEF W
  <2>2. w.closing \subseteq PanesIn(window[current].root) \cup window[current].closing
    BY <1>5 DEF W
  <2> QED
    BY <1>2, <1>6, <2>1, <2>2, OneWindowLess
<1>8. WindowsOK(window', spawned')
  BY <1>1, <1>7
<1>9. TreesInv'
  BY <1>1, <1>8, TreesAre, TreesNext
<1>10. window'[current] = w
  BY <1>1, <1>2
<1> QED
  BY <1>3, <1>5, <1>9, <1>10 DEF done, root

LEMMA TreesInit == Init => TreesInv
<1> SUFFICES ASSUME Init PROVE TreesInv
  OBVIOUS
<1>1. bar = TRUE /\ screen \in Sizes /\ current = 1 /\ commands = 0
  BY DEF Init
<1>2. PICK root \in Startups :
        /\ spawned = Cardinality(PanesIn(root))
        /\ window = [w \in Window |->
             IF w = 1 THEN [Lone(NoWindow, 1, RootOf(screen, TRUE)) EXCEPT !.root = root] ELSE NoWindow]
  BY DEF Init
<1> DEFINE r == RootOf(screen, TRUE)
           first == [Lone(NoWindow, 1, r) EXCEPT !.root = root]
<1>3. r \in Rectangle
  BY <1>1, RootIsRectangle
<1>4. IsTree(root) /\ Cardinality(PanesIn(root)) <= MaxPanes /\ PanesIn(root) = 1 .. spawned
  BY <1>2, LayoutAssumption
<1>5. spawned \in Nat /\ spawned \in 0 .. MaxPanes
  <2>1. IsFiniteSet(PanesIn(root))
    BY <1>4, PanesFinite
  <2>2. spawned \in Nat
    BY <1>2, <2>1, FS_CardinalityType
  <2> QED
    BY <1>2, <1>4, <2>2, LayoutAssumption
<1>6. /\ IsWindow(NoWindow) /\ NoWindow.root = NoTree /\ NoWindow.closing = {} /\ WindowOK(NoWindow)
  BY FS_EmptySet DEF IsWindow, NoWindow, WindowOK
<1>7. IsWindow(first) /\ first.root = root /\ first.closing = {} /\ first.area = r
  BY <1>6 DEF IsWindow, Lone
<1>8. DOMAIN window = Window /\ \A w \in Window : window[w] = IF w = 1 THEN first ELSE NoWindow
  BY <1>2
<1> HIDE DEF r, first
<1>9. WindowOK(first)
  BY <1>3, <1>4, <1>7, FS_EmptySet DEF WindowOK
<1>10. \A v \in Window : WindowOK(window[v]) /\ window[v].closing = {} /\ PanesIn(window[v].root) \subseteq 1 .. spawned
  <2> TAKE v \in Window
  <2>1. CASE v = 1
    BY <1>4, <1>7, <1>8, <1>9, <2>1
  <2>2. CASE v # 1
    BY <1>6, <1>8, <2>2, NoTreeEmpty
  <2> QED
    BY <2>1, <2>2
<1>11. \A u, v \in Window : u # v => PanesIn(window[u].root) \cap PanesIn(window[v].root) = {}
  <2> TAKE u, v \in Window
  <2> HAVE u # v
  <2>1. \A o \in Window : o # 1 => PanesIn(window[o].root) = {}
    BY <1>6, <1>8, NoTreeEmpty
  <2> QED
    BY <2>1
<1>12. WindowsOK(window, spawned)
  BY <1>8, <1>10, <1>11 DEF WindowsOK
<1>13. 1 \in Window
  BY LayoutAssumption DEF Window
<1> QED
  BY <1>1, <1>5, <1>12, <1>13 DEF TreesInv

LEMMA TreesStep == TreesInv /\ [Next]_vars => TreesInv'
<1> SUFFICES ASSUME TreesInv, [Next]_vars PROVE TreesInv'
  OBVIOUS
<1>1. ASSUME NEW p \in PaneId, NEW split \in {Vertical, Horizontal}, NEW share \in Shares, NEW d \in BOOLEAN,
             Split(p, split, share, d)
      PROVE  TreesInv'
  BY <1>1, SplitKeeps DEF Axes
<1>2. ASSUME NEW p \in PaneId, NEW dir \in Directions, NEW n \in Amounts, ResizeBy(p, dir, n) PROVE TreesInv'
  BY <1>2, ResizeByKeeps, LayoutAssumption
<1>3. ASSUME NEW p \in PaneId, NEW axis \in {Vertical, Horizontal}, NEW n \in Amounts, ResizePaneTo(p, axis, n)
      PROVE  TreesInv'
  BY <1>3, ResizePaneToKeeps, LayoutAssumption
<1>4. ASSUME NEW p \in PaneId, ToggleZoom(p) \/ KillPane(p) \/ PaneDied(p) \/ RespawnPane(p) PROVE TreesInv'
  BY <1>4, ToggleZoomKeeps, KillPaneKeeps, PaneDiedKeeps, RespawnPaneKeeps
<1>5. ASSUME NEW p \in PaneId, NEW q \in PaneId, NEW keep \in BOOLEAN, SwapPanes(p, q, keep) PROVE TreesInv'
  BY <1>5, SwapPanesIs
<1>6. ASSUME NEW reverse \in BOOLEAN, RotateWindow(reverse) PROVE TreesInv'
  BY <1>6, RotateWindowIs
<1>7. ASSUME NEW name \in Presets, SelectLayout(name) PROVE TreesInv'
  BY <1>7, SelectLayoutIs
<1>8. ASSUME NEW dir \in Directions, FocusDirection(dir) PROVE TreesInv'
  BY <1>8, FocusDirectionKeeps
<1>9. ASSUME NEW v \in Window, Switch(v) PROVE TreesInv'
  BY <1>9, SwitchKeeps
<1>10. ASSUME NEW p \in PaneId, NEW v \in Window, NEW d \in BOOLEAN, BreakPane(p, v, d) PROVE TreesInv'
  BY <1>10, BreakPaneKeeps
<1>11. ASSUME NEW u \in Window, NEW v \in Window, NEW p \in PanesIn(window[u].root),
              NEW onto \in PanesIn(window[v].root), NEW split \in {Vertical, Horizontal}, NEW d \in BOOLEAN,
              JoinPane(p, u, onto, v, split, d)
       PROVE  TreesInv'
  BY <1>11, JoinPaneKeeps DEF Axes
<1>12. ASSUME NEW size \in Sizes, HostResize(size) PROVE TreesInv'
  BY <1>12, HostResizeKeeps
<1>13. ASSUME NEW d \in {1, NewTime}, Tick(d) PROVE TreesInv'
  BY <1>13, TickIs
<1>14. ASSUME UNCHANGED vars PROVE TreesInv'
  BY <1>14 DEF vars, TreesInv, WindowsOK, Window
<1> QED
  BY <1>1, <1>2, <1>3, <1>4, <1>5, <1>6, <1>7, <1>8, <1>9, <1>10, <1>11, <1>12, <1>13, <1>14, ToggleBarKeeps
     DEF Next, Ended, Idle

-----------------------------------------------------------------------------
(* What holds of every state and step                                      *)

\* In every state each window's tree is one, and no pane is in two windows.
THEOREM TreesStayTrees == Spec => []TreesInv
BY TreesInit, TreesStep, PTL DEF Spec

LEMMA ScreenTree ==
  ASSUME TreesInv, W.root # NoTree
  PROVE  IsTree(W.root) /\ RootRect \in Rectangle
BY TreesAre DEF W, WindowOK

LEMMA TreesTile == TreesInv => LeavesTile
<1> DEFINE t == W.root
           r == RootRect
           at == Laid(t, r)
<1> SUFFICES ASSUME TreesInv, t # NoTree, Roomy(t, r)
             PROVE  /\ \A p \in DOMAIN at : Inside(at[p], r)
                    /\ \A p, q \in DOMAIN at : p # q => Apart(at[p], at[q])
                    /\ \A x \in 0 .. r[3] - 1, y \in 0 .. r[4] - 1 : \E p \in DOMAIN at : Holds(at[p], x, y)
  BY DEF LeavesTile
<1>1. IsTree(t) /\ r \in Rectangle
  BY ScreenTree
<1>2. r[1] = 0 /\ r[2] = 0 /\ r[3] \in Nat /\ r[4] \in Nat
  <2>1. r[1] = 0 /\ r[2] = 0
    BY DEF RootRect, RootOf
  <2> HIDE DEF r
  <2> QED
    BY <1>1, <2>1 DEF Rectangle
<1> HIDE DEF t, r
<1>3. DOMAIN at = PanesIn(t)
  BY <1>1, LaidIs
<1>4. /\ \A p \in PanesIn(t) : Inside(at[p], r)
      /\ \A p, q \in PanesIn(t) : p # q => Apart(at[p], at[q])
      /\ \A i, j \in Int : Holds(r, i, j) => \E p \in PanesIn(t) : Holds(at[p], i, j)
  BY <1>1, TreeTiles
<1>5. \A x \in 0 .. r[3] - 1, y \in 0 .. r[4] - 1 : x \in Int /\ y \in Int /\ Holds(r, x, y)
  BY <1>2 DEF Holds, Right, Bottom
<1> HIDE DEF at
<1> QED
  BY <1>3, <1>4, <1>5

\* The leaves of the tree on screen tile it, whatever was done to it: any
\* number of splits, closes, swaps, rotations, presets and resizes, on screens
\* of any size.
THEOREM LeavesAlwaysTile == Spec => []LeavesTile
BY TreesTile, TreesStayTrees, PTL

LEMMA TreesCross == TreesInv => FocusCrosses
<1> DEFINE at == Laid(W.root, RootRect)
<1> SUFFICES ASSUME TreesInv, W.root # NoTree, Roomy(W.root, RootRect)
             PROVE  \A p \in DOMAIN at, dir \in Directions :
                      (Neighbor(W.root, at, p, dir) # 0) <=> ~AtSide(at[p], dir)
  BY DEF FocusCrosses
<1>1. IsTree(W.root) /\ RootRect \in Rectangle
  BY ScreenTree
<1>2. DOMAIN at = PanesIn(W.root)
  BY <1>1, LaidIs
<1> QED
  BY <1>1, <1>2, SidesCross

\* No pane is out of the keyboard's reach: focus moves in a direction exactly
\* when the pane does not end at that side.
THEOREM FocusAlwaysCrosses == Spec => []FocusCrosses
BY TreesCross, TreesStayTrees, PTL

LEMMA RearrangedKeeps ==
  ASSUME TreesInv, Rearranged
  PROVE  PanesIn(window'[current].root) = Shown /\ Slots(window'[current].root) = Slots(W.root)
<1>1. ASSUME NEW t, IsTree(t), NEW u, PanesIn(u) = PanesIn(t), SlotsIn(u, RootRect) = SlotsIn(t, RootRect)
      PROVE  PanesIn(u) = PanesIn(t) /\ Slots(u) = Slots(t)
  BY <1>1 DEF Slots, SlotsIn
<1>2. ASSUME NEW p \in PaneId, NEW q \in PaneId, NEW keep \in BOOLEAN, SwapPanes(p, q, keep)
      PROVE  PanesIn(window'[current].root) = Shown /\ Slots(window'[current].root) = Slots(W.root)
  <2>1. /\ p \in PanesIn(W.root) /\ q \in PanesIn(W.root) /\ IsTree(W.root)
        /\ window'[current].root = SwapLeaves(W.root, p, q)
    BY <1>2, SwapPanesIs DEF Shown
  <2> QED
    BY <1>1, <2>1, SwapLeavesTree DEF Shown
<1>3. ASSUME NEW reverse \in BOOLEAN, RotateWindow(reverse)
      PROVE  PanesIn(window'[current].root) = Shown /\ Slots(window'[current].root) = Slots(W.root)
  <2>1. IsTree(W.root) /\ window'[current].root = Rotated(W.root, reverse)
    BY <1>3, RotateWindowIs
  <2> QED
    BY <1>1, <2>1, RotatedTree DEF Shown
<1> QED
  BY <1>2, <1>3 DEF Rearranged

LEMMA PresetsKeep ==
  ASSUME TreesInv, NEW name, SelectLayout(name)
  PROVE  Leaves(window'[current].root) = Leaves(W.root)
<1>1. IsTree(W.root) /\ window'[current].root = Preset(Leaves(W.root), name)
  BY SelectLayoutIs
<1> QED
  BY <1>1, PresetTree

\* swap-pane and rotate-window leave every slot where it is and every pane in
\* the window; select-layout leaves the panes in their order, any number of them.
THEOREM RearrangingAlwaysKeeps == Spec => RearrangingKeeps
<1> DEFINE after == window'[current].root
           Kept == ~SameTree /\ current' = current /\ spawned' = spawned =>
                     /\ (PanesIn(after) = Shown /\ Slots(after) = Slots(W.root)) \/ ~Rearranged
                     /\ Leaves(after) = Leaves(W.root) \/ ~(\E name \in Presets : SelectLayout(name))
<1>1. TreesInv => Kept
  BY RearrangedKeeps, PresetsKeep
<1>2. RearrangingKeeps <=> [][Kept]_vars
  BY DEF RearrangingKeeps
<1> HIDE DEF Kept
<1> QED
  BY <1>1, <1>2, TreesStayTrees, PTL

\* A step that runs no command is a tick, or nothing happens.
LEMMA TicksOnly ==
  ASSUME TreesInv, [Next]_vars, commands' = commands, window'[current].root # W.root
  PROVE  \E d \in {1, NewTime} : Tick(d)
<1>1. commands \in Nat /\ commands + 1 # commands
  BY TreesAre
<1>2. ~Command
  BY <1>1 DEF Command
<1>3. ~UNCHANGED vars
  BY DEF vars, W
<1>4. Next
  BY <1>3
<1>5. /\ \A p, split, share, d : ~Split(p, split, share, d)
      /\ \A p, v, d : ~BreakPane(p, v, d)
      /\ \A p, u, onto, v, split, d : ~JoinPane(p, u, onto, v, split, d)
  <2>1. ASSUME NEW p, NEW split, NEW share, NEW d, Split(p, split, share, d) PROVE Command
    BY <2>1, Zenon DEF Split
  <2>2. ASSUME NEW p, NEW v, NEW d, BreakPane(p, v, d) PROVE Command
    BY <2>2, Zenon DEF BreakPane
  <2>3. ASSUME NEW p, NEW u, NEW onto, NEW v, NEW split, NEW d, JoinPane(p, u, onto, v, split, d) PROVE Command
    BY <2>3, Zenon DEF JoinPane
  <2> QED
    BY <1>2, <2>1, <2>2, <2>3
<1>6. /\ \A p, dir, n : ~ResizeBy(p, dir, n)
      /\ \A p, axis, n : ~ResizePaneTo(p, axis, n)
      /\ \A p : ~ToggleZoom(p)
      /\ \A p, q, keep : ~SwapPanes(p, q, keep)
      /\ \A reverse : ~RotateWindow(reverse)
      /\ \A name : ~SelectLayout(name)
  BY <1>2, Zenon DEF ResizeBy, ResizePaneTo, ToggleZoom, SwapPanes, RotateWindow, SelectLayout, Reshape
<1>7. /\ \A p : ~KillPane(p) /\ ~PaneDied(p) /\ ~RespawnPane(p)
      /\ \A dir : ~FocusDirection(dir)
      /\ \A v : ~Switch(v)
      /\ \A size : ~HostResize(size)
      /\ ~ToggleBar
  BY <1>2, Zenon DEF KillPane, PaneDied, RespawnPane, FocusDirection, Switch, HostResize, ToggleBar
<1> QED
  BY <1>3, <1>4, <1>5, <1>6, <1>7 DEF Next, Ended, Idle

LEMMA ClosedKeepsOrder ==
  ASSUME TreesInv, [Next]_vars, ~SameTree, commands' = commands \/ (\E v \in Window : Switch(v))
  PROVE  LET after == window'[current].root
         IN /\ PanesIn(after) \subseteq Shown
            /\ \A p, q \in PanesIn(after) : Earlier(after, p, q) <=> Earlier(W.root, p, q)
<1> DEFINE after == window'[current].root
<1>1. WindowOK(W)
  BY TreesAre DEF W
<1>2. CASE commands' = commands
  <2>1. PICK d \in {1, NewTime} : Tick(d)
    BY <1>2, TicksOnly DEF SameTree
  <2>2. /\ IsFiniteSet(Finished(d))
        /\ after = IF W.root = NoTree THEN NoTree ELSE Pruned(W.root, Finished(d))
    BY <2>1, TickIs
  <2>3. CASE W.root = NoTree
    BY <2>2, <2>3, NoTreeEmpty DEF SameTree
  <2>4. CASE W.root # NoTree
    <3>1. IsTree(W.root) /\ after = Pruned(W.root, Finished(d))
      BY <1>1, <2>2, <2>4 DEF WindowOK
    <3> HIDE DEF after
    <3>2. \/ after = NoTree
          \/ /\ PanesIn(after) = PanesIn(W.root) \ Finished(d)
             /\ \A p, q \in PanesIn(after) : Earlier(after, p, q) <=> Earlier(W.root, p, q)
      BY <2>2, <3>1, PrunedIs
    <3>3. PanesIn(after) \subseteq Shown /\ \A p, q \in PanesIn(after) : Earlier(after, p, q) <=> Earlier(W.root, p, q)
      BY <3>2, NoTreeEmpty DEF Shown
    <3> QED
      BY <3>3 DEF after
  <2> QED
    BY <2>3, <2>4
<1>3. CASE \E v \in Window : Switch(v)
  <2>1. after = SettledWindow(W).root
    BY <1>3, SwitchKeeps
  <2> HIDE DEF after
  <2>2. /\ PanesIn(after) \subseteq PanesIn(W.root) \ W.closing
        /\ \A p, q \in PanesIn(after) : Earlier(after, p, q) <=> Earlier(W.root, p, q)
    BY <1>1, <2>1, SettledOK
  <2> QED
    BY <2>2 DEF after, Shown
<1> QED
  BY <1>2, <1>3

\* Panes that leave a tree disturb no order among those that stay.
THEOREM ClosingAlwaysKeepsOrder == Spec => ClosingKeepsOrder
<1> DEFINE after == window'[current].root
           Kept == ~SameTree /\ (commands' = commands \/ (\E v \in Window : Switch(v))) =>
                     /\ PanesIn(after) \subseteq Shown
                     /\ \A p, q \in PanesIn(after) : Earlier(after, p, q) <=> Earlier(W.root, p, q)
<1>1. TreesInv /\ [Next]_vars => Kept
  BY ClosedKeepsOrder
<1>2. ClosingKeepsOrder <=> [][Kept]_vars
  BY DEF ClosingKeepsOrder
<1> HIDE DEF Kept
<1> QED
  BY <1>1, <1>2, TreesStayTrees, PTL DEF Spec

-----------------------------------------------------------------------------
(* Where panes are drawn                                                   *)

LeafOK(l) == DOMAIN l = {"cur", "target", "to", "left", "pty", "grid"} /\ l.left \in Nat
LeavesOK(L) == DOMAIN L = PaneId /\ \A p \in PaneId : LeafOK(L[p])

Drawn(l, r) == l.cur = r /\ l.pty = Content(r) /\ l.grid = Content(r)
\* Every pane moves to where it will be when the closings are over, or is there.
Lands(L, w, r) ==
  LET at == LayOut(Pruned(w.root, w.closing), r, w.zoomed)
  IN \A p \in PanesIn(Pruned(w.root, w.closing)) :
       IF L[p].left > 0 THEN L[p].to = at[p] ELSE Drawn(L[p], at[p])

Sound(L, w, r) == Lands(L, w, r) /\ (w.closing = {} => Placed(L, w, r))
Targeted(L, w) == \A p \in PanesIn(w.root) : L[p].target \in Rectangle
Hidden(L, w) == w.closing = {} /\ \A p \in PanesIn(w.root) : L[p].left = 0

\* The inductive invariant of the panes: nothing moves or closes off the screen,
\* and a window that is not marked lands, from targets that are right unless a
\* close is in flight.
LandsIn(L, win, c, marked, r) ==
  /\ LeavesOK(L)
  /\ \A v \in Window : /\ Targeted(L, win[v])
                       /\ v # c => Hidden(L, win[v])
                       /\ v \notin marked => Sound(L, win[v], r)
LandsInv == TreesInv /\ LandsIn(leaf, window, current, rough, RootRect)

LEMMA NoLeafIs ==
  LeafOK(NoLeaf) /\ NoLeaf.left = 0
BY DEF LeafOK, NoLeaf

LEMMA TweenIs ==
  ASSUME NEW l, LeafOK(l), NEW to, NEW time \in Nat
  PROVE  LET m == Tween(l, to, time) IN
         /\ LeafOK(m) /\ m.to = to /\ m.left = time
         /\ m.cur = l.cur /\ m.target = l.target /\ m.pty = l.pty /\ m.grid = l.grid
BY DEF LeafOK, Tween

LEMMA StillIs ==
  ASSUME NEW l, LeafOK(l)
  PROVE  LET m == Still(l) IN
         /\ LeafOK(m) /\ m.left = 0
         /\ m.cur = l.cur /\ m.target = l.target /\ m.pty = l.pty /\ m.grid = l.grid
BY DEF LeafOK, Still

LEMMA SizedIs ==
  ASSUME NEW l, LeafOK(l), NEW size
  PROVE  LET m == Sized(l, size) IN
         /\ LeafOK(m) /\ m.pty = size /\ m.grid = size
         /\ m.cur = l.cur /\ m.target = l.target /\ m.to = l.to /\ m.left = l.left
BY DEF LeafOK, Sized

LEMMA VacatedIs == ASSUME NEW l, LeafOK(l) PROVE LeafOK(Vacated(l))
BY DEF LeafOK, Vacated, NoLeaf

LEMMA FreshIs ==
  ASSUME NEW r, NEW size
  PROVE  LET m == Fresh(r, size) IN
         LeafOK(m) /\ m.left = 0 /\ m.cur = r /\ m.target = r /\ m.grid = Content(r) /\ m.pty = size
BY DEF LeafOK, Fresh, NoLeaf

IsTreeOrNone(t) == t = NoTree \/ IsTree(t)

LEMMA LayOutIs ==
  ASSUME NEW t, IsTreeOrNone(t), NEW r \in Rectangle, NEW z
  PROVE  /\ DOMAIN LayOut(t, r, z) = PanesIn(t)
         /\ \A p \in PanesIn(t) : /\ LayOut(t, r, z)[p] \in Rectangle
                                  /\ LayOut(t, r, z)[p] = IF p = z THEN r ELSE Laid(t, r)[p]
<1>1. /\ DOMAIN LayOut(t, r, z) = PanesIn(t)
      /\ \A p \in PanesIn(t) : LayOut(t, r, z)[p] = IF p = z THEN r ELSE Laid(t, r)[p]
  <2>1. \A p \in PanesIn(t) : Laid(t, r)[p] = Rects(t, r)[PlaceOf(t, p)]
    BY DEF Laid
  <2>2. /\ DOMAIN LayOut(t, r, z) = PanesIn(t)
        /\ \A p \in PanesIn(t) : LayOut(t, r, z)[p] = IF p = z THEN r ELSE Rects(t, r)[PlaceOf(t, p)]
    BY DEF LayOut
  <2> QED
    BY <2>1, <2>2
<1>2. \A p \in PanesIn(t) : Laid(t, r)[p] \in Rectangle
  <2>1. CASE t = NoTree
    BY <2>1, NoTreeEmpty
  <2>2. CASE IsTree(t)
    <3>1. \A p \in PanesIn(t) : PlaceOf(t, p) \in DOMAIN t /\ Laid(t, r)[p] = Rects(t, r)[PlaceOf(t, p)]
      BY <2>2, LaidIs, LeafFacts
    <3>2. \A x \in DOMAIN t : Rects(t, r)[x] \in Rectangle
      BY <2>2, RectsAreRectangles
    <3> QED
      BY <3>1, <3>2
  <2> QED
    BY <2>1, <2>2 DEF IsTreeOrNone
<1> QED
  BY <1>1, <1>2

LEMMA LoneLaid ==
  ASSUME NEW p \in Nat \ {0}, NEW r \in Rectangle, NEW z
  PROVE  LayOut(Leaf(p), r, z)[p] = r
<1> DEFINE t == Leaf(p)
<1>1. IsTree(t) /\ PanesIn(t) = {p} /\ DOMAIN t = {<<>>}
  BY LeafTree DEF Leaf
<1> HIDE DEF t
<1>2. PlaceOf(t, p) = <<>>
  BY <1>1, LeafFacts
<1>3. Laid(t, r)[p] = r
  BY <1>1, <1>2, LaidIs, RectsAre
<1>4. LayOut(t, r, z)[p] = IF p = z THEN r ELSE Laid(t, r)[p]
  BY <1>1, LayOutIs DEF IsTreeOrNone
<1> QED
  BY <1>3, <1>4 DEF t

\* recompute_layout moves no pane and gives every one its target.
LEMMA RecomputedIs ==
  ASSUME NEW L, LeavesOK(L), NEW w, IsTreeOrNone(w.root), PanesIn(w.root) \subseteq PaneId, NEW r \in Rectangle
  PROVE  LET M == Recomputed(L, w, r) IN
         /\ LeavesOK(M)
         /\ \A p \in PaneId \ PanesIn(w.root) : M[p] = L[p]
         /\ \A p \in PanesIn(w.root) : M[p].target = LayOut(w.root, r, w.zoomed)[p] /\ M[p].target \in Rectangle
         /\ \A p \in PaneId : /\ M[p].cur = L[p].cur /\ M[p].to = L[p].to /\ M[p].left = L[p].left
                              /\ M[p].pty = L[p].pty /\ M[p].grid = L[p].grid
<1> DEFINE at == LayOut(w.root, r, w.zoomed)
           M == Recomputed(L, w, r)
<1>1. DOMAIN at = PanesIn(w.root) /\ \A p \in PanesIn(w.root) : at[p] \in Rectangle
  BY LayOutIs
<1>2. DOMAIN M = PaneId /\ \A p \in PaneId : M[p] = IF p \in PanesIn(w.root) THEN [L[p] EXCEPT !.target = at[p]] ELSE L[p]
  BY DEF Recomputed
<1> HIDE DEF at, M
<1>3. ASSUME NEW p \in PaneId
      PROVE  /\ LeafOK(M[p]) /\ M[p].cur = L[p].cur /\ M[p].to = L[p].to /\ M[p].left = L[p].left
             /\ M[p].pty = L[p].pty /\ M[p].grid = L[p].grid
             /\ p \in PanesIn(w.root) => M[p].target = at[p]
             /\ p \notin PanesIn(w.root) => M[p] = L[p]
  <2>1. LeafOK(L[p])
    BY DEF LeavesOK
  <2>2. CASE p \in PanesIn(w.root)
    <3> DEFINE l == L[p]
               to == at[p]
               m == [l EXCEPT !.target = to]
    <3>1. M[p] = m
      BY <1>1, <1>2, <2>2
    <3>2. LeafOK(l)
      BY <2>1
    <3> HIDE DEF l, to
    <3>3. /\ LeafOK(m) /\ m.target = to /\ m.cur = l.cur /\ m.to = l.to /\ m.left = l.left
          /\ m.pty = l.pty /\ m.grid = l.grid
      BY <3>2 DEF LeafOK
    <3> HIDE DEF m
    <3> QED
      BY <2>2, <3>1, <3>3 DEF l, to
  <2>3. CASE p \notin PanesIn(w.root)
    BY <1>1, <1>2, <2>1, <2>3
  <2> QED
    BY <2>2, <2>3
<1> QED
  BY <1>1, <1>2, <1>3 DEF LeavesOK, M, at

LEMMA PrunedPanes ==
  ASSUME NEW w, WindowOK(w)
  PROVE  LET t == Pruned(w.root, w.closing) IN
         /\ IsTreeOrNone(t) /\ PanesIn(t) \subseteq PanesIn(w.root)
         /\ w.closing = {} => t = w.root
<1>1. \A t : Pruned(t, {}) = t
  BY Zenon DEF Pruned
<1>2. LET o == SettledWindow(w) IN
      WindowOK(o) /\ o.root = Pruned(w.root, w.closing) /\ PanesIn(o.root) \subseteq PanesIn(w.root) \ w.closing
  BY SettledOK
<1> QED
  BY <1>1, <1>2 DEF WindowOK, IsTreeOrNone

LEMMA WindowTree ==
  ASSUME NEW win, NEW n, WindowsOK(win, n), n \in 0 .. MaxPanes, NEW v \in Window
  PROVE  /\ WindowOK(win[v]) /\ IsTreeOrNone(win[v].root) /\ PanesIn(win[v].root) \subseteq PaneId
         /\ win[v].closing \subseteq PaneId
<1>1. WindowOK(win[v]) /\ PanesIn(win[v].root) \subseteq 1 .. n /\ win[v].closing \subseteq 1 .. n
  BY DEF WindowsOK
<1>2. 1 .. n \subseteq PaneId
  BY LayoutAssumption DEF PaneId
<1> QED
  BY <1>1, <1>2 DEF WindowOK, IsTreeOrNone

LEMMA SoundAgain ==
  ASSUME NEW L, NEW M, NEW w, NEW r, WindowOK(w), Sound(L, w, r), \A p \in PanesIn(w.root) : M[p] = L[p]
  PROVE  Sound(M, w, r)
<1>1. PanesIn(Pruned(w.root, w.closing)) \subseteq PanesIn(w.root)
  BY PrunedPanes
<1>2. Lands(M, w, r)
  BY <1>1 DEF Sound, Lands
<1>3. w.closing = {} => Placed(M, w, r)
  BY DEF Sound, Placed
<1> QED
  BY <1>2, <1>3 DEF Sound

\* A step that changes one window and leaves the panes of the others alone.
LEMMA OneLands ==
  ASSUME NEW L, NEW win, NEW c, NEW marked, NEW r, LandsIn(L, win, c, marked, r),
         NEW n, WindowsOK(win, n), NEW v \in Window, NEW w, NEW new,
         new[v] = w, \A u \in Window \ {v} : new[u] = win[u],
         NEW M, LeavesOK(M), \A u \in Window \ {v} : \A p \in PanesIn(win[u].root) : M[p] = L[p],
         NEW more, \A u \in Window \ {v} : u \in marked => u \in more,
         Targeted(M, w), v # c => Hidden(M, w), v \notin more => Sound(M, w, r)
  PROVE  LandsIn(M, new, c, more, r)
<1> SUFFICES ASSUME NEW u \in Window
             PROVE  /\ Targeted(M, new[u])
                    /\ u # c => Hidden(M, new[u])
                    /\ u \notin more => Sound(M, new[u], r)
  BY DEF LandsIn
<1>1. CASE u = v
  BY <1>1
<1>2. CASE u # v
  <2>1. new[u] = win[u] /\ (u \in marked => u \in more) /\ \A p \in PanesIn(win[u].root) : M[p] = L[p]
    BY <1>2
  <2>2. /\ Targeted(L, win[u]) /\ (u # c => Hidden(L, win[u])) /\ (u \notin marked => Sound(L, win[u], r))
    BY DEF LandsIn
  <2>3. Targeted(M, win[u]) /\ (u # c => Hidden(M, win[u]))
    <3> DEFINE o == win[u]
    <3>1. Targeted(L, o) /\ (u # c => Hidden(L, o)) /\ \A p \in PanesIn(o.root) : M[p] = L[p]
      BY <2>1, <2>2
    <3> HIDE DEF o
    <3>2. Targeted(M, o)
      BY <3>1 DEF Targeted
    <3>3. u # c => Hidden(M, o)
      BY <3>1 DEF Hidden
    <3> QED
      BY <3>2, <3>3 DEF o
  <2>4. u \notin more => Sound(M, win[u], r)
    <3>1. WindowOK(win[u])
      BY DEF WindowsOK
    <3> QED
      BY <2>1, <2>2, <3>1, SoundAgain
  <2> QED
    BY <2>1, <2>3, <2>4
<1> QED
  BY <1>1, <1>2

LEMMA LandsAre ==
  ASSUME LandsInv
  PROVE  /\ TreesInv /\ LeavesOK(leaf) /\ LandsIn(leaf, window, current, rough, RootRect)
         /\ \A v \in Window : /\ Targeted(leaf, window[v])
                              /\ v # current => Hidden(leaf, window[v])
                              /\ v \notin rough => Sound(leaf, window[v], RootRect)
         /\ Targeted(leaf, W)
         /\ current \notin rough => Sound(leaf, W, RootRect)
<1>1. TreesInv /\ LandsIn(leaf, window, current, rough, RootRect)
  BY DEF LandsInv
<1>2. /\ LeavesOK(leaf)
      /\ \A v \in Window : /\ Targeted(leaf, window[v])
                           /\ v # current => Hidden(leaf, window[v])
                           /\ v \notin rough => Sound(leaf, window[v], RootRect)
  BY <1>1 DEF LandsIn
<1>3. current \in Window
  BY <1>1, TreesAre
<1> QED
  BY <1>1, <1>2, <1>3 DEF W

\* The same of the window on screen, for a command.
LEMMA PutLands ==
  ASSUME LandsInv, TreesInv', NEW w, window' = [window EXCEPT ![current] = w], UNCHANGED <<current, screen, bar>>,
         LeavesOK(leaf'), \A u \in Window \ {current} : \A p \in PanesIn(window[u].root) : leaf'[p] = leaf[p],
         \A u \in Window \ {current} : u \in rough => u \in rough',
         Targeted(leaf', w), current \notin rough' => Sound(leaf', w, RootRect)
  PROVE  LandsInv'
<1>1. LandsIn(leaf, window, current, rough, RootRect) /\ WindowsOK(window, spawned) /\ current \in Window /\ DOMAIN window = Window
  BY LandsAre, TreesAre
<1>2. window'[current] = w /\ \A u \in Window \ {current} : window'[u] = window[u]
  BY <1>1
<1>3. LandsIn(leaf', window', current, rough', RootRect)
  <2> DEFINE new == window'
             M == leaf'
             more == rough'
  <2>1. /\ new[current] = w /\ \A u \in Window \ {current} : new[u] = window[u]
        /\ LeavesOK(M) /\ \A u \in Window \ {current} : \A p \in PanesIn(window[u].root) : M[p] = leaf[p]
        /\ \A u \in Window \ {current} : u \in rough => u \in more
        /\ Targeted(M, w) /\ (current \notin more => Sound(M, w, RootRect))
    BY <1>2
  <2> HIDE DEF new, M, more
  <2>2. LandsIn(M, new, current, more, RootRect)
    BY <1>1, <2>1, OneLands
  <2> QED
    BY <2>2 DEF new, M, more
<1>4. current' = current /\ RootRect' = RootRect
  BY DEF RootRect
<1>5. LandsIn(leaf, window, current, rough, RootRect)'
  BY <1>3, <1>4 DEF LandsIn, LeavesOK, Sound, Lands, Placed, Targeted, Hidden
<1> QED
  BY <1>5 DEF LandsInv

\* What `rough` does not record.
LEMMA MarkIs ==
  ASSUME NEW v, NEW bad
  PROVE  /\ \A u : u \in rough => u \in Mark(v, bad)
         /\ v \notin Mark(v, bad) => ~bad /\ v \notin rough
BY DEF Mark

LEMMA AnimatedIs ==
  ASSUME NEW L, LeavesOK(L), NEW w, IsTreeOrNone(w.root), PanesIn(w.root) \subseteq PaneId, NEW r \in Rectangle
  PROVE  LET M == Animated(L, w, r)
             at == LayOut(w.root, r, w.zoomed)
         IN /\ LeavesOK(M)
            /\ \A p \in PaneId \ PanesIn(w.root) : M[p] = L[p]
            /\ \A p \in PanesIn(w.root) :
                 /\ M[p].target = at[p] /\ M[p].target \in Rectangle /\ M[p].cur = L[p].cur
                 /\ M[p].pty = L[p].pty /\ M[p].grid = L[p].grid
                 /\ IF L[p].cur # at[p] THEN M[p].to = at[p] /\ M[p].left > 0
                    ELSE M[p].to = L[p].to /\ M[p].left = L[p].left
<1> DEFINE R == Recomputed(L, w, r)
           M == Animated(L, w, r)
           at == LayOut(w.root, r, w.zoomed)
           panes == PanesIn(w.root)
<1>1. /\ LeavesOK(R)
      /\ \A p \in PaneId \ panes : R[p] = L[p]
      /\ \A p \in panes : R[p].target = at[p] /\ R[p].target \in Rectangle
      /\ \A p \in PaneId : /\ R[p].cur = L[p].cur /\ R[p].to = L[p].to /\ R[p].left = L[p].left
                           /\ R[p].pty = L[p].pty /\ R[p].grid = L[p].grid
  BY RecomputedIs
<1>2. DOMAIN M = PaneId /\ \A p \in PaneId : M[p] = IF p \in panes /\ R[p].cur # R[p].target
                                                   THEN Tween(R[p], R[p].target, ReshapeTime) ELSE R[p]
  BY DEF Animated
<1> HIDE DEF R, M, at
<1>3. ASSUME NEW p \in PaneId
      PROVE  /\ LeafOK(M[p])
             /\ p \notin panes => M[p] = L[p]
             /\ p \in panes =>
                 /\ M[p].target = at[p] /\ M[p].target \in Rectangle /\ M[p].cur = L[p].cur
                 /\ M[p].pty = L[p].pty /\ M[p].grid = L[p].grid
                 /\ IF L[p].cur # at[p] THEN M[p].to = at[p] /\ M[p].left > 0
                    ELSE M[p].to = L[p].to /\ M[p].left = L[p].left
  <2> DEFINE l == R[p]
             m == M[p]
  <2>1. LeafOK(l)
    BY <1>1 DEF LeavesOK
  <2>2. CASE p \in panes /\ l.cur # l.target
    <3>1. m = Tween(l, l.target, ReshapeTime)
      BY <1>2, <2>2
    <3>2. ReshapeTime \in Nat /\ ReshapeTime > 0
      BY DEF ReshapeTime
    <3> HIDE DEF l, m
    <3>3. LET o == Tween(l, l.target, ReshapeTime) IN
          /\ LeafOK(o) /\ o.to = l.target /\ o.left = ReshapeTime
          /\ o.cur = l.cur /\ o.target = l.target /\ o.pty = l.pty /\ o.grid = l.grid
      BY <2>1, <3>2, TweenIs
    <3>4. /\ LeafOK(m) /\ m.to = l.target /\ m.left > 0
          /\ m.cur = l.cur /\ m.target = l.target /\ m.pty = l.pty /\ m.grid = l.grid
      BY <3>1, <3>2, <3>3
    <3> QED
      BY <1>1, <2>2, <3>4 DEF l, m
  <2>3. CASE ~(p \in panes /\ l.cur # l.target)
    <3>1. m = l
      BY <1>2, <2>3
    <3> QED
      BY <1>1, <2>1, <2>3, <3>1
  <2> QED
    BY <2>2, <2>3
<1> QED
  BY <1>2, <1>3 DEF LeavesOK, M, at

\* A command that animates the window on screen to a new layout of its panes.
LEMMA ReshapeLands ==
  ASSUME LandsInv, TreesInv', Shown # {}, NEW w, IsWindow(w), w.closing = W.closing, IsTree(w.root),
         PanesIn(w.root) = Shown, Reshape(w)
  PROVE  LandsInv'
<1> DEFINE o == [w EXCEPT !.area = RootRect]
           at == LayOut(w.root, RootRect, w.zoomed)
           M == Recomputed(leaf, w, RootRect)
           A == Animated(leaf, w, RootRect)
<1>1. /\ window' = [window EXCEPT ![current] = o] /\ leaf' = A
      /\ UNCHANGED <<current, screen, bar, spawned>>
      /\ rough' = Mark(current, Closing \/ Misled(leaf, w, RootRect))
  BY DEF Reshape, Put
<1>2. o.closing = W.closing /\ o.root = w.root /\ o.zoomed = w.zoomed
  BY DEF IsWindow
<1>3. /\ LeavesOK(leaf) /\ RootRect \in Rectangle /\ WindowsOK(window, spawned) /\ spawned \in 0 .. MaxPanes
      /\ current \in Window
  BY LandsAre, TreesAre
<1>4. IsTreeOrNone(w.root) /\ Shown \subseteq PaneId /\ \A u \in Window \ {current} : PanesIn(window[u].root) \subseteq PaneId \ Shown
  BY <1>3, WindowTree DEF IsTreeOrNone, Shown, W, WindowsOK
<1>5. /\ LeavesOK(A)
      /\ \A p \in PaneId \ Shown : A[p] = leaf[p]
      /\ \A p \in Shown :
           /\ A[p].target = at[p] /\ A[p].target \in Rectangle /\ A[p].cur = leaf[p].cur
           /\ A[p].pty = leaf[p].pty /\ A[p].grid = leaf[p].grid
           /\ IF leaf[p].cur # at[p] THEN A[p].to = at[p] /\ A[p].left > 0
              ELSE A[p].to = leaf[p].to /\ A[p].left = leaf[p].left
  BY <1>3, <1>4, AnimatedIs
<1>6. /\ \A u : u \in rough => u \in rough'
      /\ current \notin rough' => ~Closing /\ ~Misled(leaf, w, RootRect) /\ current \notin rough
  <2> DEFINE bad == Closing \/ Misled(leaf, w, RootRect)
  <2>1. rough' = Mark(current, bad)
    BY <1>1
  <2> HIDE DEF bad
  <2>2. (\A u : u \in rough => u \in rough') /\ (current \notin rough' => ~bad /\ current \notin rough)
    BY <2>1, MarkIs
  <2> QED
    BY <2>2 DEF bad
<1>7. ASSUME current \notin rough' PROVE Sound(A, o, RootRect)
  <2>1. W.closing = {} /\ ~Misled(leaf, w, RootRect) /\ Sound(leaf, W, RootRect)
    BY <1>6, <1>7, LandsAre DEF Closing
  <2>2. WindowOK(W) /\ Pruned(W.root, W.closing) = W.root /\ Pruned(o.root, o.closing) = w.root
    <3>1. \A t : Pruned(t, {}) = t
      BY Zenon DEF Pruned
    <3> HIDE DEF o
    <3> QED
      BY <1>2, <1>3, <2>1, <3>1 DEF WindowsOK, W
  <2> DEFINE was == LayOut(W.root, RootRect, W.zoomed)
  <2>3. \A p \in Shown : leaf[p].left > 0 \/ Drawn(leaf[p], was[p])
    BY <2>1, <2>2 DEF Sound, Lands, Shown
  <2>4. \A p \in Shown : leaf[p].cur = at[p] /\ leaf[p].left > 0 => leaf[p].to = at[p]
    <3>1. \A p \in Shown : M[p].target = at[p] /\ M[p].cur = leaf[p].cur /\ M[p].left = leaf[p].left /\ M[p].to = leaf[p].to
      BY <1>3, <1>4, RecomputedIs
    <3>2. \A p \in Shown : ~(M[p].cur = M[p].target /\ M[p].left > 0 /\ M[p].to # M[p].target)
      BY <2>1 DEF Misled
    <3> HIDE DEF M, at
    <3> QED
      BY <3>1, <3>2
  <2> HIDE DEF at, was, A, o, M
  <2>5. \A p \in Shown : IF A[p].left > 0 THEN A[p].to = at[p] ELSE Drawn(A[p], at[p])
    <3> TAKE p \in Shown
    <3>1. CASE leaf[p].cur # at[p]
      BY <1>5, <3>1
    <3>2. CASE leaf[p].cur = at[p]
      BY <1>5, <2>3, <2>4, <3>2 DEF Drawn
    <3> QED
      BY <3>1, <3>2
  <2>6. Placed(A, o, RootRect)
    BY <1>2, <1>5 DEF Placed, at
  <2>7. Lands(A, o, RootRect)
    BY <1>2, <2>2, <2>5 DEF Lands, at
  <2> QED
    BY <2>6, <2>7 DEF Sound
<1>8. Targeted(A, o)
  BY <1>2, <1>5 DEF Targeted
<1> HIDE DEF A, o
<1>9. \A u \in Window \ {current} : \A p \in PanesIn(window[u].root) : leaf'[p] = leaf[p]
  BY <1>1, <1>4, <1>5
<1> QED
  BY <1>1, <1>5, <1>6, <1>7, <1>8, <1>9, PutLands

LEMMA ResizeByLands ==
  ASSUME LandsInv, NEW p, NEW dir, NEW cells \in Nat, ResizeBy(p, dir, cells)
  PROVE  LandsInv'
<1> DEFINE root == MoveBoundary(W.root, W.area, p, dir, cells)
           w == [W EXCEPT !.root = MoveBoundary(@, W.area, p, dir, cells)]
<1>1. p \in Shown /\ HasSplit(W.root, W.area, p, AxisOf(dir)) /\ Reshape(w)
  BY DEF ResizeBy
<1>2. TreesInv /\ TreesInv'
  BY LandsAre, ResizeByKeeps
<1>3. IsWindow(W) /\ IsTree(W.root) /\ W.area \in Rectangle
  BY <1>1, <1>2, ShownTree
<1>4. IsWindow(w) /\ w.root = root /\ w.closing = W.closing
  BY <1>3 DEF IsWindow
<1>5. IsTree(root) /\ PanesIn(root) = Shown
  BY <1>1, <1>3, MoveBoundaryTree DEF Shown
<1> HIDE DEF w, root
<1> QED
  BY <1>1, <1>2, <1>4, <1>5, ReshapeLands

LEMMA ResizePaneToLands ==
  ASSUME LandsInv, NEW p, NEW axis, NEW cells \in Nat, ResizePaneTo(p, axis, cells)
  PROVE  LandsInv'
<1> DEFINE root == ResizeTo(W.root, W.area, p, axis, cells)
           w == [W EXCEPT !.root = ResizeTo(@, W.area, p, axis, cells)]
<1>1. p \in Shown /\ HasSplit(W.root, W.area, p, axis) /\ Reshape(w)
  BY DEF ResizePaneTo
<1>2. TreesInv /\ TreesInv'
  BY LandsAre, ResizePaneToKeeps
<1>3. IsWindow(W) /\ IsTree(W.root) /\ W.area \in Rectangle
  BY <1>1, <1>2, ShownTree
<1>4. IsWindow(w) /\ w.root = root /\ w.closing = W.closing
  BY <1>3 DEF IsWindow
<1>5. IsTree(root) /\ PanesIn(root) = Shown
  BY <1>1, <1>3, ResizeToTree DEF Shown
<1> HIDE DEF w, root
<1> QED
  BY <1>1, <1>2, <1>4, <1>5, ReshapeLands

LEMMA ToggleZoomLands == ASSUME LandsInv, NEW p, ToggleZoom(p) PROVE LandsInv'
<1> DEFINE w == IF W.zoomed = p THEN [W EXCEPT !.zoomed = NoPane] ELSE [W EXCEPT !.zoomed = p, !.focused = p]
<1>1. p \in Shown /\ Reshape(w)
  BY DEF ToggleZoom
<1>2. TreesInv /\ TreesInv'
  BY LandsAre, ToggleZoomKeeps
<1>3. IsWindow(W) /\ IsTree(W.root)
  BY <1>1, <1>2, ShownTree
<1>4. IsWindow(w) /\ w.root = W.root /\ w.closing = W.closing
  <2>1. CASE W.zoomed = p
    BY <1>3, <2>1 DEF IsWindow
  <2>2. CASE W.zoomed # p
    BY <1>3, <2>2 DEF IsWindow
  <2> QED
    BY <2>1, <2>2
<1> HIDE DEF w
<1> QED
  BY <1>1, <1>2, <1>3, <1>4, ReshapeLands DEF Shown

LEMMA SwapPanesLands == ASSUME LandsInv, NEW p, NEW q, NEW keep, SwapPanes(p, q, keep) PROVE LandsInv'
<1> DEFINE w == [W EXCEPT !.root = SwapLeaves(@, p, q), !.focused = IF keep THEN @ ELSE p]
           root == SwapLeaves(W.root, p, q)
<1>1. p \in Shown /\ q \in Shown /\ Reshape(w)
  BY DEF SwapPanes
<1>2. TreesInv /\ TreesInv'
  BY LandsAre, SwapPanesIs
<1>3. IsWindow(W) /\ IsTree(W.root)
  BY <1>1, <1>2, ShownTree
<1>4. IsWindow(w) /\ w.root = root /\ w.closing = W.closing
  BY <1>3 DEF IsWindow
<1>5. IsTree(root) /\ PanesIn(root) = Shown
  BY <1>1, <1>3, SwapLeavesTree DEF Shown
<1> HIDE DEF w, root
<1> QED
  BY <1>1, <1>2, <1>4, <1>5, ReshapeLands

LEMMA RotateWindowLands == ASSUME LandsInv, NEW reverse, RotateWindow(reverse) PROVE LandsInv'
<1> DEFINE w == [W EXCEPT !.root = Rotated(@, reverse)]
           root == Rotated(W.root, reverse)
<1>1. Cardinality(Shown) > 1 /\ Reshape(w)
  BY DEF RotateWindow
<1>2. TreesInv /\ TreesInv' /\ Shown # {}
  BY <1>1, LandsAre, RotateWindowIs, FS_EmptySet
<1>3. IsWindow(W) /\ IsTree(W.root)
  BY <1>2, ShownTree
<1>4. IsWindow(w) /\ w.root = root /\ w.closing = W.closing
  BY <1>3 DEF IsWindow
<1>5. IsTree(root) /\ PanesIn(root) = Shown
  BY <1>3, RotatedTree DEF Shown
<1> HIDE DEF w, root
<1> QED
  BY <1>1, <1>2, <1>4, <1>5, ReshapeLands

LEMMA SelectLayoutLands == ASSUME LandsInv, NEW name, SelectLayout(name) PROVE LandsInv'
<1> DEFINE w == [W EXCEPT !.root = Preset(Leaves(@), name)]
           root == Preset(Leaves(W.root), name)
<1>1. Shown # {} /\ Reshape(w)
  BY DEF SelectLayout
<1>2. TreesInv /\ TreesInv'
  BY LandsAre, SelectLayoutIs
<1>3. IsWindow(W) /\ IsTree(W.root)
  BY <1>1, <1>2, ShownTree
<1>4. IsWindow(w) /\ w.root = root /\ w.closing = W.closing
  BY <1>3 DEF IsWindow
<1>5. IsTree(root) /\ PanesIn(root) = Shown
  BY <1>3, PresetTree DEF Shown
<1> HIDE DEF w, root
<1> QED
  BY <1>1, <1>2, <1>4, <1>5, ReshapeLands

LEMMA FocusDirectionLands == ASSUME LandsInv, NEW dir, FocusDirection(dir) PROVE LandsInv'
<1>1. PICK next : Put([W EXCEPT !.focused = next])
  BY DEF FocusDirection
<1> DEFINE w == [W EXCEPT !.focused = next]
<1>2. window' = [window EXCEPT ![current] = w] /\ UNCHANGED <<current, screen, bar, leaf, rough>>
  BY <1>1 DEF FocusDirection, Put
<1>3. TreesInv /\ TreesInv' /\ LeavesOK(leaf) /\ Targeted(leaf, W)
      /\ (current \notin rough => Sound(leaf, W, RootRect)) /\ WindowOK(W)
  BY LandsAre, FocusDirectionKeeps, TreesAre DEF W
<1>4. w.root = W.root /\ w.closing = W.closing /\ w.zoomed = W.zoomed
  BY <1>3 DEF WindowOK, IsWindow
<1> HIDE DEF w
<1>5. Targeted(leaf, w) /\ (current \notin rough => Sound(leaf, w, RootRect))
  BY <1>3, <1>4 DEF Targeted, Sound, Lands, Placed
<1> QED
  BY <1>2, <1>3, <1>5, PutLands

LEMMA ToggleBarLands == ASSUME LandsInv, ToggleBar PROVE LandsInv'
<1>1. UNCHANGED <<window, leaf, current>> /\ rough' = Window
  BY DEF ToggleBar
<1>2. TreesInv'
  BY LandsAre, ToggleBarKeeps
<1>3. /\ LeavesOK(leaf)
      /\ \A v \in Window : Targeted(leaf, window[v]) /\ (v # current => Hidden(leaf, window[v]))
  BY LandsAre
<1>4. LandsIn(leaf', window', current', rough', RootRect')
  <2> DEFINE r == RootRect'
             more == rough'
  <2>1. \A v \in Window : v \in more
    BY <1>1
  <2> HIDE DEF r, more
  <2>2. LandsIn(leaf, window, current, more, r)
    BY <1>3, <2>1 DEF LandsIn
  <2>3. leaf' = leaf /\ window' = window /\ current' = current
    BY <1>1
  <2>4. LandsIn(leaf', window', current', more, r)
    BY <2>2, <2>3
  <2> QED
    BY <2>4 DEF r, more
<1>5. LandsIn(leaf, window, current, rough, RootRect)'
  BY <1>4 DEF LandsIn, LeavesOK, Sound, Lands, Placed, Targeted, Hidden
<1> QED
  BY <1>2, <1>5 DEF LandsInv

LEMMA TweenFrom ==
  ASSUME NEW l, LeafOK(l), NEW c, NEW time \in Nat
  PROVE  LET m == Tween([l EXCEPT !.cur = c], l.target, time) IN
         /\ LeafOK(m) /\ m.to = l.target /\ m.left = time /\ m.target = l.target
BY DEF LeafOK, Tween

\* Two panes of a window part, as after a split: both are on the move.
PartedLeaves(M, a, b, c, d, s, t) ==
  [M EXCEPT ![a] = Tween([@ EXCEPT !.cur = c], @.target, s),
            ![b] = Tween([@ EXCEPT !.cur = d], @.target, t)]

LEMMA Parted ==
  ASSUME NEW L, LeavesOK(L), NEW w, IsTree(w.root), PanesIn(w.root) \subseteq PaneId, NEW r \in Rectangle,
         NEW a \in PanesIn(w.root), NEW b \in PanesIn(w.root), a # b, NEW c, NEW d,
         NEW s \in Nat \ {0}, NEW t \in Nat \ {0}
  PROVE  LET M == Recomputed(L, w, r)
             at == LayOut(w.root, r, w.zoomed)
             N == PartedLeaves(M, a, b, c, d, s, t)
         IN /\ LeavesOK(N)
            /\ \A q \in PaneId \ PanesIn(w.root) : N[q] = L[q]
            /\ \A q \in PanesIn(w.root) : N[q].target = at[q] /\ N[q].target \in Rectangle
            /\ \A q \in {a, b} : N[q].to = at[q] /\ N[q].left > 0
            /\ \A q \in PaneId \ {a, b} : /\ N[q].cur = L[q].cur /\ N[q].to = L[q].to /\ N[q].left = L[q].left
                                          /\ N[q].pty = L[q].pty /\ N[q].grid = L[q].grid
<1> DEFINE M == Recomputed(L, w, r)
           at == LayOut(w.root, r, w.zoomed)
           N == PartedLeaves(M, a, b, c, d, s, t)
           panes == PanesIn(w.root)
<1>1. /\ LeavesOK(M)
      /\ \A q \in PaneId \ panes : M[q] = L[q]
      /\ \A q \in panes : M[q].target = at[q] /\ M[q].target \in Rectangle
      /\ \A q \in PaneId : /\ M[q].cur = L[q].cur /\ M[q].to = L[q].to /\ M[q].left = L[q].left
                           /\ M[q].pty = L[q].pty /\ M[q].grid = L[q].grid
  BY RecomputedIs DEF IsTreeOrNone
<1> HIDE DEF M, at
<1>2. /\ DOMAIN N = PaneId
      /\ N[a] = Tween([M[a] EXCEPT !.cur = c], M[a].target, s)
      /\ N[b] = Tween([M[b] EXCEPT !.cur = d], M[b].target, t)
      /\ \A q \in PaneId \ {a, b} : N[q] = M[q]
  BY <1>1 DEF LeavesOK, PartedLeaves
<1> HIDE DEF N
<1>3. LeafOK(N[a]) /\ N[a].to = at[a] /\ N[a].left > 0 /\ N[a].target = at[a] /\ N[a].target \in Rectangle
  <2> DEFINE l == M[a]
  <2>1. LeafOK(l) /\ l.target = at[a] /\ l.target \in Rectangle
    BY <1>1 DEF LeavesOK
  <2> HIDE DEF l
  <2>2. LET m == Tween([l EXCEPT !.cur = c], l.target, s) IN
        LeafOK(m) /\ m.to = l.target /\ m.left = s /\ m.target = l.target
    BY <2>1, TweenFrom
  <2>3. N[a] = Tween([l EXCEPT !.cur = c], l.target, s)
    BY <1>2 DEF l
  <2> QED
    BY <2>1, <2>2, <2>3
<1>4. LeafOK(N[b]) /\ N[b].to = at[b] /\ N[b].left > 0 /\ N[b].target = at[b] /\ N[b].target \in Rectangle
  <2> DEFINE l == M[b]
  <2>1. LeafOK(l) /\ l.target = at[b] /\ l.target \in Rectangle
    BY <1>1 DEF LeavesOK
  <2> HIDE DEF l
  <2>2. LET m == Tween([l EXCEPT !.cur = d], l.target, t) IN
        LeafOK(m) /\ m.to = l.target /\ m.left = t /\ m.target = l.target
    BY <2>1, TweenFrom
  <2>3. N[b] = Tween([l EXCEPT !.cur = d], l.target, t)
    BY <1>2 DEF l
  <2> QED
    BY <2>1, <2>2, <2>3
<1>5. LeavesOK(N)
  BY <1>1, <1>2, <1>3, <1>4 DEF LeavesOK
<1>6. \A q \in PaneId \ panes : N[q] = L[q]
  BY <1>1, <1>2
<1>7. \A q \in panes : N[q].target = at[q] /\ N[q].target \in Rectangle
  BY <1>1, <1>2, <1>3, <1>4
<1>8. \A q \in PaneId \ {a, b} : /\ N[q].cur = L[q].cur /\ N[q].to = L[q].to /\ N[q].left = L[q].left
                                 /\ N[q].pty = L[q].pty /\ N[q].grid = L[q].grid
  BY <1>1, <1>2
<1> QED
  BY <1>3, <1>4, <1>5, <1>6, <1>7, <1>8 DEF M, N, at

LEMMA SplitLands ==
  ASSUME LandsInv, NEW p, NEW split \in Axes, NEW share \in Shares, NEW detached, Split(p, split, share, detached)
  PROVE  LandsInv'
<1> DEFINE new == spawned + 1
           ratio == ClampRatio(Whole - share)
           w == [W EXCEPT !.root = SplitLeaf(@, p, split, ratio, new),
                          !.focused = IF detached THEN @ ELSE new, !.area = RootRect]
           K == [leaf EXCEPT ![new] = Fresh(RootRect, Unsized)]
           L == Recomputed(K, w, RootRect)
           N == PartedLeaves(L, p, new, leaf[p].target, Moving, SiblingTime, NewTime)
           at == LayOut(w.root, RootRect, w.zoomed)
           was == LayOut(W.root, RootRect, W.zoomed)
<1>1. /\ p \in Shown /\ spawned < MaxPanes /\ window' = [window EXCEPT ![current] = w] /\ leaf' = N
      /\ rough' = Mark(current, Closing \/ Unmoved(leaf, w, RootRect, {p, new}))
      /\ UNCHANGED <<current, screen, bar>>
  BY DEF Split, Put, PartedLeaves
<1>2. /\ TreesInv /\ TreesInv' /\ LeavesOK(leaf) /\ RootRect \in Rectangle
      /\ current \notin rough => Sound(leaf, W, RootRect)
  BY LandsAre, SplitKeeps, RootRectIs
<1>3. IsWindow(W) /\ IsTree(W.root) /\ WindowOK(W)
  BY <1>1, <1>2, ShownTree
<1>4. /\ new \in 0 .. MaxPanes /\ new \in Nat \ {0} /\ new \in PaneId
      /\ \A u \in Window : new \notin PanesIn(window[u].root)
  BY <1>1, <1>2, Fresh1 DEF PaneId
<1>5. current \in Window /\ WindowsOK(window, spawned) /\ spawned \in 0 .. MaxPanes
  BY <1>2, TreesAre
<1>6. /\ Shown \subseteq PaneId /\ new \notin Shown
      /\ \A u \in Window \ {current} : PanesIn(window[u].root) \subseteq PaneId \ (Shown \cup {new})
  BY <1>4, <1>5, WindowTree DEF WindowsOK, Shown, W
<1>7. ratio \in 0 .. Whole
  <2>1. Whole - share \in Int
    BY LayoutAssumption DEF Whole
  <2> QED
    BY <2>1, ClampRatioIs
<1>8. IsWindow(w) /\ w.root = SplitLeaf(W.root, p, split, ratio, new) /\ w.closing = W.closing /\ w.zoomed = W.zoomed
  BY <1>3 DEF IsWindow
<1> HIDE DEF ratio, w
<1>9. IsTree(w.root) /\ PanesIn(w.root) = Shown \cup {new}
  <2> HIDE DEF new
  <2> QED
    BY <1>1, <1>3, <1>4, <1>6, <1>7, <1>8, SplitLeafTree DEF Shown
<1> HIDE DEF new
<1>10. LeavesOK(K) /\ \A q \in PaneId \ {new} : K[q] = leaf[q]
  <2>1. DOMAIN K = PaneId /\ K[new] = Fresh(RootRect, Unsized) /\ \A q \in PaneId \ {new} : K[q] = leaf[q]
    BY <1>2, <1>4 DEF LeavesOK
  <2>2. LeafOK(Fresh(RootRect, Unsized))
    BY FreshIs
  <2> HIDE DEF K
  <2> QED
    BY <1>2, <2>1, <2>2 DEF LeavesOK
<1> HIDE DEF K
<1>11. PanesIn(w.root) \subseteq PaneId /\ p \in PanesIn(w.root) /\ new \in PanesIn(w.root) /\ p # new
  BY <1>1, <1>4, <1>6, <1>9
<1>12. /\ LeavesOK(N)
       /\ \A q \in PaneId \ PanesIn(w.root) : N[q] = K[q]
       /\ \A q \in PanesIn(w.root) : N[q].target = at[q] /\ N[q].target \in Rectangle
       /\ \A q \in {p, new} : N[q].to = at[q] /\ N[q].left > 0
       /\ \A q \in PaneId \ {p, new} : /\ N[q].cur = K[q].cur /\ N[q].to = K[q].to /\ N[q].left = K[q].left
                                       /\ N[q].pty = K[q].pty /\ N[q].grid = K[q].grid
  <2> DEFINE old == leaf[p].target
  <2>1. SiblingTime \in Nat \ {0} /\ NewTime \in Nat \ {0}
    BY DEF SiblingTime, NewTime
  <2> HIDE DEF old
  <2> DEFINE c == Moving
             s == SiblingTime
             t == NewTime
  <2>3. s \in Nat \ {0} /\ t \in Nat \ {0}
    BY <2>1
  <2> HIDE DEF c, s, t
  <2>4. LET M == Recomputed(K, w, RootRect)
            to == LayOut(w.root, RootRect, w.zoomed)
            O == PartedLeaves(M, p, new, old, c, s, t)
        IN /\ LeavesOK(O)
           /\ \A q \in PaneId \ PanesIn(w.root) : O[q] = K[q]
           /\ \A q \in PanesIn(w.root) : O[q].target = to[q] /\ O[q].target \in Rectangle
           /\ \A q \in {p, new} : O[q].to = to[q] /\ O[q].left > 0
           /\ \A q \in PaneId \ {p, new} : /\ O[q].cur = K[q].cur /\ O[q].to = K[q].to /\ O[q].left = K[q].left
                                           /\ O[q].pty = K[q].pty /\ O[q].grid = K[q].grid
    <3> DEFINE r == RootRect
    <3>1. /\ LeavesOK(K) /\ IsTree(w.root) /\ PanesIn(w.root) \subseteq PaneId /\ r \in Rectangle
          /\ p \in PanesIn(w.root) /\ new \in PanesIn(w.root) /\ p # new
      BY <1>2, <1>9, <1>10, <1>11
    <3> HIDE DEF r, at, was, L, N
    <3> QED
      BY <2>3, <3>1, Parted, SMTT(30) DEF r
  <2> QED
    BY <2>4 DEF c, s, t, old
<1> HIDE DEF N, L
<1>13. Targeted(N, w)
  BY <1>12 DEF Targeted
<1>14. \A u \in Window \ {current} : \A q \in PanesIn(window[u].root) : N[q] = leaf[q]
  BY <1>6, <1>9, <1>10, <1>12
<1>15. /\ \A u : u \in rough => u \in rough'
       /\ current \notin rough' => ~Closing /\ ~Unmoved(leaf, w, RootRect, {p, new}) /\ current \notin rough
  <2> DEFINE bad == Closing \/ Unmoved(leaf, w, RootRect, {p, new})
  <2>1. rough' = Mark(current, bad)
    BY <1>1
  <2> HIDE DEF bad
  <2>2. (\A u : u \in rough => u \in rough') /\ (current \notin rough' => ~bad /\ current \notin rough)
    BY <2>1, MarkIs
  <2> QED
    BY <2>2 DEF bad
<1>16. ASSUME current \notin rough' PROVE Sound(N, w, RootRect)
  <2>1. W.closing = {} /\ ~Unmoved(leaf, w, RootRect, {p, new}) /\ Sound(leaf, W, RootRect)
    BY <1>2, <1>15, <1>16 DEF Closing
  <2>2. Pruned(W.root, W.closing) = W.root /\ Pruned(w.root, w.closing) = w.root
    <3>1. \A t : Pruned(t, {}) = t
      BY Zenon DEF Pruned
    <3> QED
      BY <1>8, <2>1, <3>1
  <2>3. \A q \in Shown : /\ leaf[q].target = was[q]
                         /\ IF leaf[q].left > 0 THEN leaf[q].to = was[q] ELSE Drawn(leaf[q], was[q])
    BY <2>1, <2>2 DEF Sound, Lands, Placed, Shown
  <2> DEFINE M == Recomputed(leaf, w, RootRect)
  <2>4. \A q \in PanesIn(w.root) : M[q].target = at[q]
    BY <1>2, <1>9, <1>11, RecomputedIs DEF IsTreeOrNone
  <2>5. \A q \in PanesIn(w.root) \ {p, new} : M[q].target = leaf[q].target
    BY <2>1 DEF Unmoved
  <2> HIDE DEF M, at, was
  <2>6. \A q \in PanesIn(w.root) : IF N[q].left > 0 THEN N[q].to = at[q] ELSE Drawn(N[q], at[q])
    <3> TAKE q \in PanesIn(w.root)
    <3>1. CASE q \in {p, new}
      BY <1>12, <3>1
    <3>2. CASE q \notin {p, new}
      <4>1. q \in Shown /\ q \in PaneId \ {p, new} /\ K[q] = leaf[q] /\ at[q] = was[q]
        BY <1>9, <1>10, <1>11, <2>3, <2>4, <2>5, <3>2
      <4> QED
        BY <1>12, <2>3, <4>1 DEF Drawn
    <3> QED
      BY <3>1, <3>2
  <2>7. Placed(N, w, RootRect)
    BY <1>12 DEF Placed, at
  <2>8. Lands(N, w, RootRect)
    BY <2>2, <2>6 DEF Lands, at
  <2> QED
    BY <2>7, <2>8 DEF Sound
<1>17. LeavesOK(N)
  BY <1>12
<1>18. leaf' = N
  BY <1>1 DEF N, L
<1> QED
  BY <1>1, <1>2, <1>13, <1>14, <1>15, <1>16, <1>17, <1>18, PutLands

LEMMA PrunedOne ==
  ASSUME NEW t, IsTree(t), NEW p, CanClose(t, p)
  PROVE  Pruned(t, {p}) = CloseLeaf(t, p)
<1> DEFINE gone == {p}
           Body(f, S) == IF S = {} THEN t ELSE CloseLeaf(f[S \ {CHOOSE q \in S : TRUE}], CHOOSE q \in S : TRUE)
           W0 == CHOOSE f : f = [S \in SUBSET gone |-> Body(f, S)]
           f0 == [S \in SUBSET gone |-> IF S = {} THEN t ELSE CloseLeaf(t, p)]
<1>1. gone \subseteq PanesIn(t) /\ PanesIn(t) \ gone # {} /\ gone # {}
  BY NotAlone DEF CanClose
<1>2. Pruned(t, gone) = W0[gone]
  BY <1>1 DEF Pruned
<1>3. \A S \in SUBSET gone : S # {} => S = gone /\ (CHOOSE q \in S : TRUE) = p /\ S \ {p} = {}
  OBVIOUS
<1>4. {} \in SUBSET gone /\ gone \in SUBSET gone /\ gone # {}
  OBVIOUS
<1>5. f0 = [S \in SUBSET gone |-> Body(f0, S)]
  <2>1. \A S \in SUBSET gone : f0[S] = Body(f0, S)
    <3> SUFFICES ASSUME NEW S \in SUBSET gone PROVE f0[S] = Body(f0, S)
      OBVIOUS
    <3>1. CASE S = {}
      BY <3>1
    <3>2. CASE S # {}
      <4>1. (CHOOSE q \in S : TRUE) = p /\ S \ {p} = {} /\ f0[{}] = t /\ f0[S] = CloseLeaf(t, p)
        BY <1>3, <1>4, <3>2
      <4> HIDE DEF f0
      <4> QED
        BY <3>2, <4>1
    <3> QED
      BY <3>1, <3>2
  <2>2. DOMAIN f0 = SUBSET gone /\ f0 = [S \in SUBSET gone |-> f0[S]]
    OBVIOUS
  <2> HIDE DEF f0, Body
  <2> QED
    BY <2>1, <2>2
<1> HIDE DEF f0
<1>6. W0 = [S \in SUBSET gone |-> Body(W0, S)]
  <2> HIDE DEF Body
  <2> QED
    BY <1>5
<1> HIDE DEF W0
<1>7. W0[{}] = t
  BY <1>4, <1>6
<1>8. W0[gone] = CloseLeaf(W0[gone \ {p}], p)
  <2>1. W0[gone] = Body(W0, gone)
    <3> HIDE DEF Body
    <3> QED
      BY <1>4, <1>6
  <2>2. (CHOOSE q \in gone : TRUE) = p
    OBVIOUS
  <2> QED
    BY <1>4, <2>1, <2>2
<1>9. gone \ {p} = {}
  OBVIOUS
<1> HIDE DEF gone
<1> QED
  BY <1>2, <1>7, <1>8, <1>9 DEF gone

LEMMA KillPaneLands == ASSUME LandsInv, NEW p, KillPane(p) PROVE LandsInv'
<1>1. p \in Shown /\ p \notin W.closing /\ UNCHANGED <<current, screen, bar, spawned>>
  BY DEF KillPane
<1>2. /\ TreesInv /\ TreesInv' /\ LeavesOK(leaf) /\ RootRect \in Rectangle /\ Targeted(leaf, W)
      /\ current \notin rough => Sound(leaf, W, RootRect)
  BY LandsAre, KillPaneKeeps, RootRectIs
<1>3. WindowOK(W) /\ IsWindow(W) /\ IsTree(W.root)
  BY <1>1, <1>2, ShownTree
<1>4. /\ Shown \subseteq PaneId
      /\ \A u \in Window \ {current} : PanesIn(window[u].root) \cap Shown = {} /\ PanesIn(window[u].root) \subseteq PaneId
  <2>1. current \in Window /\ WindowsOK(window, spawned) /\ spawned \in 0 .. MaxPanes
    BY <1>2, TreesAre
  <2> QED
    BY <2>1, WindowTree DEF WindowsOK, Shown, W
<1>5. CASE CanClose(W.root, p)
  <2> DEFINE post == CloseLeaf(W.root, p)
             at == Laid(post, RootRect)
             w == [W EXCEPT !.closing = @ \cup {p}, !.focused = FirstLeaf(post)]
             N == [q \in PaneId |->
                    IF q = p THEN Tween(leaf[q], Moving, CloseTime)
                    ELSE IF q \in DOMAIN at THEN Tween(leaf[q], at[q], CloseTime)
                    ELSE leaf[q]]
             S == PanesIn(post)
  <2>1. window' = [window EXCEPT ![current] = w] /\ leaf' = N
        /\ rough' = Mark(current, Closing \/ W.zoomed \in Shown)
    BY <1>5, Zenon DEF KillPane, Put
  <2>2. w.root = W.root /\ w.closing = W.closing \cup {p} /\ w.zoomed = W.zoomed
    BY <1>3 DEF IsWindow
  <2>3. IsTree(post) /\ S = Shown \ {p}
    BY <1>3, <1>5, CloseLeafTree DEF Shown
  <2> HIDE DEF post, w
  <2>4. DOMAIN at = S
    BY <2>3, LaidIs
  <2>5. DOMAIN N = PaneId /\ \A q \in PaneId : N[q] = IF q = p THEN Tween(leaf[q], Moving, CloseTime)
                                                     ELSE IF q \in S THEN Tween(leaf[q], at[q], CloseTime) ELSE leaf[q]
    BY <2>4
  <2> HIDE DEF at, S, N
  <2>6. ASSUME NEW q \in PaneId
        PROVE  /\ LeafOK(N[q]) /\ N[q].target = leaf[q].target
               /\ q \in S => N[q].left > 0 /\ N[q].to = at[q]
               /\ q \notin Shown => N[q] = leaf[q]
    <3> DEFINE l == leaf[q]
               to == IF q = p THEN Moving ELSE at[q]
    <3>1. LeafOK(l) /\ CloseTime \in Nat /\ CloseTime > 0
      BY <1>2 DEF LeavesOK, CloseTime
    <3>2. CASE q = p \/ q \in S
      <4>1. N[q] = Tween(l, to, CloseTime)
        BY <2>5, <3>2
      <4>2. q \in S => to = at[q]
        BY <2>3
      <4>3. q \in Shown
        BY <1>1, <2>3, <3>2
      <4> HIDE DEF l, to
      <4>4. LET m == Tween(l, to, CloseTime) IN LeafOK(m) /\ m.to = to /\ m.left = CloseTime /\ m.target = l.target
        BY <3>1, TweenIs
      <4> QED
        BY <3>1, <4>1, <4>2, <4>3, <4>4 DEF l
    <3>3. CASE ~(q = p \/ q \in S)
      BY <2>5, <3>1, <3>3
    <3> QED
      BY <3>2, <3>3
  <2>7. LeavesOK(N)
    BY <2>5, <2>6 DEF LeavesOK
  <2>8. Targeted(N, w)
    BY <1>2, <1>4, <2>2, <2>6 DEF Targeted, Shown
  <2>9. \A u \in Window \ {current} : \A q \in PanesIn(window[u].root) : N[q] = leaf[q]
    BY <1>4, <2>6
  <2>10. /\ \A u : u \in rough => u \in rough'
         /\ current \notin rough' => ~Closing /\ W.zoomed \notin Shown
    <3> DEFINE bad == Closing \/ W.zoomed \in Shown
    <3>1. rough' = Mark(current, bad)
      BY <2>1
    <3> HIDE DEF bad
    <3>2. (\A u : u \in rough => u \in rough') /\ (current \notin rough' => ~bad /\ current \notin rough)
      BY <3>1, MarkIs
    <3> QED
      BY <3>2 DEF bad
  <2>11. ASSUME current \notin rough' PROVE Sound(N, w, RootRect)
    <3>1. W.closing = {} /\ W.zoomed \notin Shown
      BY <2>10, <2>11 DEF Closing
    <3>2. w.closing = {p} /\ w.closing # {}
      BY <2>2, <3>1
    <3>3. Pruned(w.root, w.closing) = post
      BY <1>3, <1>5, <2>2, <3>2, PrunedOne DEF post
    <3>4. \A q \in S : LayOut(post, RootRect, w.zoomed)[q] = at[q]
      <4>1. \A q \in PanesIn(post) : LayOut(post, RootRect, w.zoomed)[q]
               = IF q = w.zoomed THEN RootRect ELSE Laid(post, RootRect)[q]
        BY <1>2, <2>3, LayOutIs DEF IsTreeOrNone
      <4> QED
        BY <2>2, <2>3, <3>1, <4>1 DEF at, S
    <3>5. \A q \in PanesIn(post) : q \in PaneId /\ q \in S
      BY <1>4, <2>3 DEF S
    <3>6. Lands(N, w, RootRect)
      BY <2>6, <3>3, <3>4, <3>5 DEF Lands
    <3> QED
      BY <3>2, <3>6 DEF Sound
  <2> QED
    BY <1>1, <1>2, <2>1, <2>7, <2>8, <2>9, <2>10, <2>11, PutLands
<1>6. CASE ~CanClose(W.root, p)
  <2> DEFINE w == [W EXCEPT !.root = NoTree, !.focused = NoPane]
             l == leaf[p]
             N == [leaf EXCEPT ![p] = Vacated(l)]
  <2>1. window' = [window EXCEPT ![current] = w] /\ leaf' = N /\ rough' = rough
    BY <1>6, Zenon DEF KillPane, Put
  <2>2. w.root = NoTree
    BY <1>3 DEF IsWindow
  <2> HIDE DEF w
  <2>3. LeavesOK(N) /\ \A q \in PaneId \ {p} : N[q] = leaf[q]
    <3>1. LeafOK(l) /\ p \in PaneId
      BY <1>1, <1>2, <1>4 DEF LeavesOK
    <3> HIDE DEF l
    <3>2. LeafOK(Vacated(l))
      BY <3>1, VacatedIs
    <3> QED
      BY <1>2, <3>1, <3>2 DEF LeavesOK
  <2> HIDE DEF N
  <2>4. PanesIn(Pruned(w.root, w.closing)) = {} /\ PanesIn(w.root) = {}
    BY <2>2, PruningNothing, NoTreeEmpty
  <2>5. Targeted(N, w) /\ Sound(N, w, RootRect)
    BY <2>4 DEF Targeted, Sound, Lands, Placed
  <2>6. \A u \in Window \ {current} : \A q \in PanesIn(window[u].root) : N[q] = leaf[q]
    BY <1>1, <1>4, <2>3
  <2> QED
    BY <1>1, <1>2, <2>1, <2>3, <2>5, <2>6, PutLands
<1> QED
  BY <1>5, <1>6

\* As PutLands, of any window.
LEMMA WindowLands ==
  ASSUME LandsInv, TreesInv', NEW v \in Window, NEW w, window' = [window EXCEPT ![v] = w],
         UNCHANGED <<current, screen, bar>>,
         LeavesOK(leaf'), \A u \in Window \ {v} : \A p \in PanesIn(window[u].root) : leaf'[p] = leaf[p],
         \A u \in Window \ {v} : u \in rough => u \in rough',
         Targeted(leaf', w), v # current => Hidden(leaf', w), v \notin rough' => Sound(leaf', w, RootRect)
  PROVE  LandsInv'
<1>1. LandsIn(leaf, window, current, rough, RootRect) /\ WindowsOK(window, spawned) /\ DOMAIN window = Window
  BY LandsAre, TreesAre
<1>2. window'[v] = w /\ \A u \in Window \ {v} : window'[u] = window[u]
  BY <1>1
<1>3. LandsIn(leaf', window', current, rough', RootRect)
  <2> DEFINE new == window'
             M == leaf'
             more == rough'
  <2>1. /\ new[v] = w /\ \A u \in Window \ {v} : new[u] = window[u]
        /\ LeavesOK(M) /\ \A u \in Window \ {v} : \A p \in PanesIn(window[u].root) : M[p] = leaf[p]
        /\ \A u \in Window \ {v} : u \in rough => u \in more
        /\ Targeted(M, w) /\ (v # current => Hidden(M, w)) /\ (v \notin more => Sound(M, w, RootRect))
    BY <1>2
  <2> HIDE DEF new, M, more
  <2>2. LandsIn(M, new, current, more, RootRect)
    BY <1>1, <2>1, OneLands
  <2> QED
    BY <2>2 DEF new, M, more
<1>4. current' = current /\ RootRect' = RootRect
  BY DEF RootRect
<1>5. LandsIn(leaf, window, current, rough, RootRect)'
  BY <1>3, <1>4 DEF LandsIn, LeavesOK, Sound, Lands, Placed, Targeted, Hidden
<1> QED
  BY <1>5 DEF LandsInv

LEMMA PaneDiedLands == ASSUME LandsInv, NEW p, PaneDied(p) PROVE LandsInv'
<1>1. UNCHANGED <<current, screen, bar>>
  BY DEF PaneDied
<1>2. TreesInv /\ TreesInv' /\ LeavesOK(leaf)
  BY LandsAre, PaneDiedKeeps
<1>3. PICK v \in Window :
        /\ p \in PanesIn(window[v].root)
        /\ LET w == window[v]
               root == CloseLeaf(w.root, p)
               closed == [w EXCEPT !.root = root, !.focused = FirstLeaf(root),
                                   !.area = IF v = current THEN RootRect ELSE @]
               L == [leaf EXCEPT ![p] = Vacated(leaf[p])]
           IN IF CanClose(w.root, p)
              THEN /\ window' = [window EXCEPT ![v] = closed]
                   /\ leaf' = IF v = current THEN Recomputed(L, closed, RootRect) ELSE L
                   /\ rough' = rough \cup {v}
              ELSE /\ window' = [window EXCEPT ![v] = [@ EXCEPT !.root = NoTree, !.focused = NoPane]]
                   /\ leaf' = L
                   /\ UNCHANGED rough
  BY Zenon DEF PaneDied
<1> DEFINE o == window[v]
           l == leaf[p]
           L == [leaf EXCEPT ![p] = Vacated(l)]
<1>4. /\ WindowOK(o) /\ IsWindow(o) /\ PanesIn(o.root) \subseteq PaneId /\ p \in PanesIn(o.root) /\ IsTree(o.root)
      /\ Targeted(leaf, o) /\ (v # current => Hidden(leaf, o)) /\ DOMAIN window = Window /\ RootRect \in Rectangle
      /\ \A u \in Window \ {v} : p \notin PanesIn(window[u].root)
      /\ \A u \in Window \ {v} : PanesIn(window[u].root) \cap PanesIn(o.root) = {} /\ PanesIn(window[u].root) \subseteq PaneId
  <2>1. /\ WindowsOK(window, spawned) /\ spawned \in 0 .. MaxPanes /\ DOMAIN window = Window /\ RootRect \in Rectangle
    BY <1>2, TreesAre
  <2>2. WindowOK(o) /\ PanesIn(o.root) \subseteq PaneId /\ p \in PanesIn(o.root)
    BY <1>3, <2>1, WindowTree
  <2>3. Targeted(leaf, o) /\ (v # current => Hidden(leaf, o))
    BY LandsAre
  <2>4. \A u \in Window \ {v} : PanesIn(window[u].root) \cap PanesIn(o.root) = {} /\ PanesIn(window[u].root) \subseteq PaneId
    BY <2>1, WindowTree DEF WindowsOK
  <2> HIDE DEF o
  <2>5. IsTree(o.root) /\ IsWindow(o)
    BY <2>2, NoTreeEmpty DEF WindowOK
  <2> QED
    BY <2>1, <2>2, <2>3, <2>4, <2>5
<1>5. LeavesOK(L) /\ \A q \in PaneId \ {p} : L[q] = leaf[q]
  <2>1. LeafOK(l) /\ p \in PaneId
    BY <1>2, <1>4 DEF LeavesOK
  <2> HIDE DEF l
  <2>2. LeafOK(Vacated(l))
    BY <2>1, VacatedIs
  <2> QED
    BY <1>2, <2>1, <2>2 DEF LeavesOK
<1>6. CASE CanClose(o.root, p)
  <2> DEFINE root == CloseLeaf(o.root, p)
             w == [o EXCEPT !.root = root, !.focused = FirstLeaf(root),
                            !.area = IF v = current THEN RootRect ELSE @]
             N == IF v = current THEN Recomputed(L, w, RootRect) ELSE L
  <2>1. window' = [window EXCEPT ![v] = w] /\ leaf' = N /\ rough' = rough \cup {v}
    BY <1>3, <1>6, Zenon
  <2>2. w.root = root /\ w.closing = o.closing
    BY <1>4 DEF IsWindow
  <2>3. IsTree(root) /\ PanesIn(root) = PanesIn(o.root) \ {p}
    BY <1>4, <1>6, CloseLeafTree
  <2> HIDE DEF o, L, w, root
  <2>4. \A q \in PanesIn(w.root) : q \in PaneId /\ L[q] = leaf[q] /\ q \in PanesIn(o.root)
    BY <1>4, <1>5, <2>2, <2>3
  <2>5. /\ LeavesOK(N) /\ Targeted(N, w) /\ (v # current => Hidden(N, w))
        /\ \A u \in Window \ {v} : \A q \in PanesIn(window[u].root) : N[q] = leaf[q]
    <3>1. CASE v = current
      <4> DEFINE R == Recomputed(L, w, RootRect)
      <4>1. IsTreeOrNone(w.root) /\ PanesIn(w.root) \subseteq PaneId
        BY <2>2, <2>3, <2>4 DEF IsTreeOrNone
      <4>2. /\ LeavesOK(R)
            /\ \A q \in PaneId \ PanesIn(w.root) : R[q] = L[q]
            /\ \A q \in PanesIn(w.root) : R[q].target \in Rectangle
        BY <1>4, <1>5, <4>1, RecomputedIs
      <4>3. N = R
        BY <3>1
      <4> HIDE DEF R, N
      <4>4. \A u \in Window \ {v} : \A q \in PanesIn(window[u].root) : N[q] = leaf[q]
        BY <1>4, <1>5, <2>2, <2>3, <4>2, <4>3
      <4> QED
        BY <3>1, <4>2, <4>3, <4>4 DEF Targeted
    <3>2. CASE v # current
      <4>1. N = L
        BY <3>2
      <4> HIDE DEF N
      <4>2. Targeted(N, w)
        BY <1>4, <2>4, <4>1 DEF Targeted
      <4>3. Hidden(N, w)
        BY <1>4, <2>2, <2>4, <3>2, <4>1 DEF Hidden
      <4>4. \A u \in Window \ {v} : \A q \in PanesIn(window[u].root) : N[q] = leaf[q]
        BY <1>4, <1>5, <4>1
      <4> QED
        BY <1>5, <4>1, <4>2, <4>3, <4>4
    <3> QED
      BY <3>1, <3>2
  <2> HIDE DEF N
  <2> QED
    BY <1>1, <1>2, <2>1, <2>5, WindowLands
<1>7. CASE ~CanClose(o.root, p)
  <2> DEFINE w == [o EXCEPT !.root = NoTree, !.focused = NoPane]
  <2>1. window' = [window EXCEPT ![v] = w] /\ leaf' = L /\ rough' = rough
    BY <1>3, <1>4, <1>7, Zenon
  <2>2. w.root = NoTree /\ w.closing = o.closing
    BY <1>4 DEF IsWindow
  <2> HIDE DEF w
  <2>3. PanesIn(Pruned(w.root, w.closing)) = {} /\ PanesIn(w.root) = {}
    BY <2>2, PruningNothing, NoTreeEmpty
  <2> HIDE DEF L, o
  <2>4. Targeted(L, w) /\ Sound(L, w, RootRect)
    BY <2>3 DEF Targeted, Sound, Lands, Placed
  <2>5. v # current => Hidden(L, w)
    BY <1>4, <2>2, <2>3 DEF Hidden
  <2>6. \A u \in Window \ {v} : \A q \in PanesIn(window[u].root) : L[q] = leaf[q]
    BY <1>4, <1>5
  <2> QED
    BY <1>1, <1>2, <1>5, <2>1, <2>4, <2>5, <2>6, WindowLands
<1> QED
  BY <1>6, <1>7

LEMMA RespawnPaneLands == ASSUME LandsInv, NEW p, RespawnPane(p) PROVE LandsInv'
<1> DEFINE new == spawned + 1
           root == Relabel(W.root, [q \in Shown |-> IF q = p THEN new ELSE q])
           w == [W EXCEPT !.root = Relabel(@, [q \in Shown |-> IF q = p THEN new ELSE q]),
                          !.focused = IF @ = p THEN new ELSE @, !.area = RootRect]
           l == leaf[p]
           f == Fresh(RootRect, Unsized)
           g == [f EXCEPT !.cur = leaf[p].cur]
           L == [leaf EXCEPT ![new] = g, ![p] = Vacated(l)]
           N == Recomputed(L, w, RootRect)
<1>1. /\ p \in Shown /\ spawned < MaxPanes /\ window' = [window EXCEPT ![current] = w] /\ leaf' = N
      /\ rough' = rough \cup {current} /\ UNCHANGED <<current, screen, bar>>
  BY Zenon DEF RespawnPane, Put
<1>2. TreesInv /\ TreesInv' /\ LeavesOK(leaf) /\ RootRect \in Rectangle
  BY LandsAre, RespawnPaneKeeps, RootRectIs
<1>3. IsWindow(W) /\ IsTree(W.root)
  BY <1>1, <1>2, ShownTree
<1>4. /\ new \in 0 .. MaxPanes /\ new \in Nat \ {0} /\ new \in PaneId
      /\ \A u \in Window : new \notin PanesIn(window[u].root)
  BY <1>1, <1>2, Fresh1 DEF PaneId
<1>5. current \in Window /\ WindowsOK(window, spawned) /\ spawned \in 0 .. MaxPanes
  BY <1>2, TreesAre
<1>6. /\ Shown \subseteq PaneId /\ new \notin Shown /\ p \in PaneId
      /\ \A u \in Window \ {current} : PanesIn(window[u].root) \subseteq PaneId \ (Shown \cup {new})
  BY <1>1, <1>4, <1>5, WindowTree DEF WindowsOK, Shown, W
<1>7. w.root = root
  BY <1>3 DEF IsWindow
<1>8. IsTree(root) /\ PanesIn(root) \subseteq Shown \cup {new}
  <2> HIDE DEF new
  <2> QED
    BY <1>3, <1>4, <1>6, RespawnedTree DEF Shown
<1> HIDE DEF root, w
<1>9. LeavesOK(L) /\ \A q \in PaneId \ {p, new} : L[q] = leaf[q]
  <2>1. LeafOK(l)
    BY <1>2, <1>6 DEF LeavesOK
  <2>2. LeafOK(f)
    BY FreshIs
  <2> HIDE DEF l, f
  <2>3. LeafOK(Vacated(l))
    BY <2>1, VacatedIs
  <2>4. LeafOK(g)
    BY <2>2 DEF LeafOK
  <2> HIDE DEF g, new
  <2> QED
    BY <1>2, <1>4, <1>6, <2>3, <2>4 DEF LeavesOK
<1> HIDE DEF L, new
<1>10. PanesIn(w.root) \subseteq PaneId /\ IsTreeOrNone(w.root)
  BY <1>4, <1>6, <1>7, <1>8 DEF IsTreeOrNone
<1>11. /\ LeavesOK(N)
       /\ \A q \in PaneId \ PanesIn(w.root) : N[q] = L[q]
       /\ \A q \in PanesIn(w.root) : N[q].target \in Rectangle
  BY <1>2, <1>9, <1>10, RecomputedIs
<1> HIDE DEF N
<1>12. Targeted(N, w)
  BY <1>11 DEF Targeted
<1>13. \A u \in Window \ {current} : \A q \in PanesIn(window[u].root) : N[q] = leaf[q]
  BY <1>1, <1>6, <1>7, <1>8, <1>9, <1>11
<1> QED
  BY <1>1, <1>2, <1>11, <1>12, <1>13, PutLands

\* A step that changes some windows, the one that was on screen among them, and
\* leaves the panes of the others alone.
LEMMA SomeLand ==
  ASSUME NEW L, NEW win, NEW c, NEW marked, NEW r, LandsIn(L, win, c, marked, r),
         NEW n, WindowsOK(win, n), NEW T, c \in T, NEW new, \A u \in Window \ T : new[u] = win[u],
         NEW M, LeavesOK(M), \A u \in Window \ T : \A p \in PanesIn(win[u].root) : M[p] = L[p],
         NEW more, \A u \in Window \ T : u \in marked => u \in more, NEW d,
         \A u \in Window : u \in T => /\ Targeted(M, new[u])
                                      /\ u # d => Hidden(M, new[u])
                                      /\ u \notin more => Sound(M, new[u], r)
  PROVE  LandsIn(M, new, d, more, r)
<1> SUFFICES ASSUME NEW u \in Window
             PROVE  /\ Targeted(M, new[u])
                    /\ u # d => Hidden(M, new[u])
                    /\ u \notin more => Sound(M, new[u], r)
  BY DEF LandsIn
<1>1. CASE u \in T
  BY <1>1
<1>2. CASE u \notin T
  <2> DEFINE o == win[u]
  <2>1. new[u] = o /\ (u \in marked => u \in more) /\ (\A p \in PanesIn(o.root) : M[p] = L[p]) /\ u # c /\ WindowOK(o)
    BY <1>2 DEF WindowsOK
  <2>2. Targeted(L, o) /\ Hidden(L, o) /\ (u \notin marked => Sound(L, o, r))
    BY <2>1 DEF LandsIn
  <2> HIDE DEF o
  <2>3. Targeted(M, o)
    BY <2>1, <2>2 DEF Targeted
  <2>4. Hidden(M, o)
    BY <2>1, <2>2 DEF Hidden
  <2>5. u \notin more => Sound(M, o, r)
    BY <2>1, <2>2, SoundAgain
  <2> QED
    BY <2>1, <2>3, <2>4, <2>5
<1> QED
  BY <1>1, <1>2

\* snap_workspace_tweens
LEMMA SettledLands ==
  ASSUME NEW L, LeavesOK(L), NEW w, WindowOK(w), PanesIn(w.root) \subseteq PaneId, Targeted(L, w),
         NEW r \in Rectangle
  PROVE  LET o == SettledWindow(w)
             M == SettledLeaves(L, w)
         IN /\ LeavesOK(M)
            /\ \A p \in PaneId \ (PanesIn(w.root) \cup w.closing) : M[p] = L[p]
            /\ Targeted(M, o) /\ Hidden(M, o)
            /\ w.closing = {} /\ Placed(L, w, r) => Sound(M, o, r)
<1> DEFINE o == SettledWindow(w)
           M == SettledLeaves(L, w)
           panes == PanesIn(o.root)
           S(l) == [Sized(Still(l), Content(l.target)) EXCEPT !.cur = l.target]
<1>1. /\ WindowOK(o) /\ o.root = Pruned(w.root, w.closing) /\ o.closing = {} /\ o.zoomed = w.zoomed
      /\ panes \subseteq PanesIn(w.root) \ w.closing
  BY SettledOK
<1>2. DOMAIN M = PaneId /\ \A p \in PaneId : M[p] = IF p \in w.closing THEN NoLeaf
                                                   ELSE IF p \in panes THEN S(L[p]) ELSE L[p]
  BY DEF SettledLeaves
<1>3. \A t : Pruned(t, {}) = t
  BY Zenon DEF Pruned
<1> HIDE DEF M, o
<1>4. ASSUME NEW p \in PaneId
      PROVE  /\ LeafOK(M[p])
             /\ p \in panes => Drawn(M[p], L[p].target) /\ M[p].target = L[p].target /\ M[p].left = 0
  <2> DEFINE l == L[p]
  <2>1. LeafOK(l)
    BY DEF LeavesOK
  <2>2. CASE p \in w.closing
    BY <1>1, <1>2, <2>2, NoLeafIs
  <2>3. CASE p \in panes
    <3>1. M[p] = S(l)
      BY <1>1, <1>2, <2>3
    <3> HIDE DEF l
    <3> DEFINE a == Still(l)
               b == Sized(a, Content(l.target))
               to == l.target
               m == [b EXCEPT !.cur = to]
    <3>2. LeafOK(a) /\ a.left = 0 /\ a.target = l.target
      BY <2>1, StillIs
    <3>3. S(l) = m
      OBVIOUS
    <3> DEFINE size == Content(l.target)
    <3> HIDE DEF a, size
    <3>4. LET e == Sized(a, size) IN LeafOK(e) /\ e.left = a.left /\ e.target = a.target /\ e.pty = size /\ e.grid = size
      BY <3>2, SizedIs
    <3>5. LeafOK(b) /\ b.left = 0 /\ b.target = to /\ b.pty = size /\ b.grid = size
      BY <3>2, <3>4 DEF size
    <3> HIDE DEF b, to
    <3>6. LeafOK(m) /\ m.left = 0 /\ m.target = to /\ m.pty = size /\ m.grid = size /\ m.cur = to
      BY <3>5 DEF LeafOK
    <3> HIDE DEF m, S
    <3> QED
      BY <3>1, <3>3, <3>6 DEF to, size, l, Drawn
  <2>4. CASE p \notin w.closing /\ p \notin panes
    BY <1>2, <2>1, <2>4
  <2> QED
    BY <2>2, <2>3, <2>4
<1>5. LeavesOK(M)
  BY <1>2, <1>4 DEF LeavesOK
<1>6. \A p \in PaneId \ (PanesIn(w.root) \cup w.closing) : M[p] = L[p]
  <2> HIDE DEF S
  <2> QED
    BY <1>1, <1>2
<1>7. \A p \in panes : p \in PaneId /\ p \in PanesIn(w.root)
  BY <1>1
<1>8. Targeted(M, o)
  BY <1>4, <1>7 DEF Targeted
<1>9. Hidden(M, o)
  BY <1>1, <1>4, <1>7 DEF Hidden
<1>10. ASSUME w.closing = {}, Placed(L, w, r) PROVE Sound(M, o, r)
  <2>1. o.root = w.root /\ Pruned(o.root, o.closing) = w.root
    BY <1>1, <1>3, <1>10
  <2> DEFINE at == LayOut(w.root, r, w.zoomed)
  <2>2. \A p \in PanesIn(w.root) : L[p].target = at[p]
    BY <1>10 DEF Placed
  <2> HIDE DEF at
  <2>3. \A p \in PanesIn(w.root) : Drawn(M[p], at[p]) /\ M[p].target = at[p] /\ M[p].left = 0
    BY <1>4, <1>7, <2>1, <2>2
  <2>4. Lands(M, o, r)
    BY <1>1, <2>1, <2>3 DEF Lands, at
  <2>5. Placed(M, o, r)
    BY <1>1, <2>1, <2>3 DEF Placed, at
  <2> QED
    BY <2>4, <2>5 DEF Sound
<1> QED
  BY <1>5, <1>6, <1>8, <1>9, <1>10 DEF o, M

\* A window that comes on screen: its panes are sized, and stand where they stood.
LEMMA FittedLands ==
  ASSUME NEW L, LeavesOK(L), NEW w, IsTreeOrNone(w.root), PanesIn(w.root) \subseteq PaneId, NEW r \in Rectangle
  PROVE  LET M == FittedLeaves(Recomputed(L, w, r), PanesIn(w.root))
             at == LayOut(w.root, r, w.zoomed)
         IN /\ LeavesOK(M)
            /\ \A p \in PaneId \ PanesIn(w.root) : M[p] = L[p]
            /\ Targeted(M, w)
            /\ \A p \in PanesIn(w.root) : M[p].target = at[p]
            /\ w.closing = {} /\ (\A p \in PanesIn(w.root) : L[p].left = 0 /\ L[p].cur = at[p]) => Sound(M, w, r)
<1> DEFINE R == Recomputed(L, w, r)
           M == FittedLeaves(R, PanesIn(w.root))
           at == LayOut(w.root, r, w.zoomed)
           panes == PanesIn(w.root)
<1>1. /\ LeavesOK(R)
      /\ \A p \in PaneId \ panes : R[p] = L[p]
      /\ \A p \in panes : R[p].target = at[p] /\ R[p].target \in Rectangle
      /\ \A p \in PaneId : R[p].cur = L[p].cur /\ R[p].left = L[p].left
  BY RecomputedIs
<1>2. DOMAIN M = PaneId /\ \A p \in PaneId : M[p] = IF p \in panes THEN Sized(R[p], Content(R[p].target)) ELSE R[p]
  BY DEF FittedLeaves
<1> HIDE DEF R, M, at
<1>3. ASSUME NEW p \in PaneId
      PROVE  /\ LeafOK(M[p])
             /\ p \notin panes => M[p] = L[p]
             /\ p \in panes => /\ M[p].target = at[p] /\ M[p].target \in Rectangle
                               /\ M[p].cur = L[p].cur /\ M[p].left = L[p].left
                               /\ M[p].pty = Content(at[p]) /\ M[p].grid = Content(at[p])
  <2> DEFINE l == R[p]
             size == Content(l.target)
  <2>1. LeafOK(l)
    BY <1>1 DEF LeavesOK
  <2>2. CASE p \in panes
    <3>1. M[p] = Sized(l, size) /\ l.target = at[p] /\ l.target \in Rectangle /\ l.cur = L[p].cur /\ l.left = L[p].left
      BY <1>1, <1>2, <2>2
    <3>2. size = Content(at[p])
      BY <3>1
    <3> HIDE DEF l, size
    <3>3. LET m == Sized(l, size) IN
          /\ LeafOK(m) /\ m.pty = size /\ m.grid = size /\ m.cur = l.cur /\ m.target = l.target /\ m.left = l.left
      BY <2>1, SizedIs
    <3> QED
      BY <2>2, <3>1, <3>2, <3>3
  <2>3. CASE p \notin panes
    BY <1>1, <1>2, <2>1, <2>3
  <2> QED
    BY <2>2, <2>3
<1>4. LeavesOK(M)
  BY <1>2, <1>3 DEF LeavesOK
<1>5. Targeted(M, w)
  BY <1>3 DEF Targeted
<1>6. ASSUME w.closing = {}, \A p \in panes : L[p].left = 0 /\ L[p].cur = at[p] PROVE Sound(M, w, r)
  <2>1. \A t : Pruned(t, {}) = t
    BY Zenon DEF Pruned
  <2>2. Pruned(w.root, w.closing) = w.root
    BY <1>6, <2>1
  <2>3. \A p \in panes : M[p].left = 0 /\ Drawn(M[p], at[p]) /\ M[p].target = at[p]
    BY <1>3, <1>6 DEF Drawn
  <2>4. Lands(M, w, r)
    BY <2>2, <2>3 DEF Lands, at
  <2>5. Placed(M, w, r)
    BY <2>3 DEF Placed, at
  <2> QED
    BY <2>4, <2>5 DEF Sound
<1> QED
  BY <1>3, <1>4, <1>5, <1>6 DEF M, R, at

\* switch_workspace: the window that goes off screen settles; the one that comes
\* on is sized.
LEMMA SwitchedLands ==
  ASSUME NEW win, WindowsOK(win, spawned), spawned \in 0 .. MaxPanes, current \in Window,
         RootRect \in Rectangle, NEW v \in Window \ {current}, CanSwitch(win, v),
         NEW L, LeavesOK(L), Targeted(L, win[current]), win[v].closing = {}
  PROVE  LET s == Switched(win, L, v)
             at == LayOut(win[v].root, RootRect, win[v].zoomed)
         IN /\ LeavesOK(s.leaf)
            /\ \A u \in Window \ {current, v} : \A p \in PanesIn(win[u].root) : s.leaf[p] = L[p]
            /\ Targeted(s.leaf, s.win[current]) /\ Hidden(s.leaf, s.win[current])
            /\ win[current].closing = {} /\ Placed(L, win[current], RootRect)
                 => Sound(s.leaf, s.win[current], RootRect)
            /\ Targeted(s.leaf, s.win[v])
            /\ (\A p \in PanesIn(win[v].root) : L[p].left = 0 /\ L[p].cur = at[p])
                 => Sound(s.leaf, s.win[v], RootRect)
            /\ win[v].root # NoTree => \A p \in PanesIn(win[v].root) : s.leaf[p].target = at[p]
<1> DEFINE s == Switched(win, L, v)
           at == LayOut(win[v].root, RootRect, win[v].zoomed)
           new == spawned + 1
           w == win[current]
           i == win[v]
           o == SettledWindow(w)
           in == Incoming(i)
           L1 == SettledLeaves(L, w)
           f == Fresh(RootRect, Content(RootRect))
           L2 == IF i.root = NoTree THEN [L1 EXCEPT ![new] = f] ELSE L1
           R == Recomputed(L2, in, RootRect)
           M == FittedLeaves(R, PanesIn(in.root))
<1>1. s.leaf = M
  BY DEF Switched, Incoming
<1>2. s.win[current] = o /\ s.win[v] = in
  BY SwitchedIs
<1>3. /\ WindowOK(w) /\ PanesIn(w.root) \subseteq PaneId /\ w.closing \subseteq PaneId
      /\ WindowOK(i) /\ PanesIn(i.root) \subseteq PaneId /\ IsTreeOrNone(i.root)
      /\ spawned \in Nat /\ (i.root = NoTree => spawned < MaxPanes)
  BY WindowTree, LayoutAssumption DEF CanSwitch
<1>4. /\ \A u \in Window : u # current => PanesIn(win[u].root) \cap (PanesIn(w.root) \cup w.closing) = {}
      /\ \A u \in Window : u # v => PanesIn(win[u].root) \cap PanesIn(i.root) = {}
      /\ \A u \in Window : PanesIn(win[u].root) \subseteq PaneId /\ new \notin PanesIn(win[u].root)
  <2>1. \A u \in Window : PanesIn(win[u].root) \subseteq 1 .. spawned /\ PanesIn(win[u].root) \subseteq PaneId
    BY WindowTree DEF WindowsOK
  <2>2. new \notin 1 .. spawned
    BY <1>3
  <2> QED
    BY <2>1, <2>2 DEF WindowsOK
<1>5. /\ WindowOK(in) /\ IsTree(in.root) /\ in.closing = i.closing /\ in.zoomed = i.zoomed
      /\ i.root # NoTree => in.root = i.root
      /\ i.root = NoTree => in.root = Leaf(new) /\ PanesIn(in.root) = {new}
  <2> DEFINE j == i
  <2>1. WindowOK(j)
    BY <1>3
  <2> HIDE DEF j, i
  <2>2. LET z == Incoming(j) IN
         /\ WindowOK(z) /\ IsTree(z.root) /\ z.closing = j.closing /\ z.zoomed = j.zoomed
         /\ j.root # NoTree => z.root = j.root
         /\ j.root = NoTree => z.root = Leaf(spawned + 1) /\ PanesIn(z.root) = {spawned + 1}
    BY <1>3, <2>1, IncomingOK
  <2> QED
    BY <2>2 DEF j
<1>6. new \in Nat \ {0} /\ (i.root = NoTree => new \in PaneId)
  BY <1>3, LayoutAssumption DEF PaneId
<1>7. /\ LeavesOK(L1)
      /\ \A p \in PaneId \ (PanesIn(w.root) \cup w.closing) : L1[p] = L[p]
      /\ Targeted(L1, o) /\ Hidden(L1, o)
      /\ w.closing = {} /\ Placed(L, w, RootRect) => Sound(L1, o, RootRect)
  <2> DEFINE j == w
  <2>1. WindowOK(j) /\ PanesIn(j.root) \subseteq PaneId /\ Targeted(L, j)
    BY <1>3
  <2> HIDE DEF j
  <2>2. LET y == SettledWindow(j)
            N == SettledLeaves(L, j)
        IN /\ LeavesOK(N)
           /\ \A p \in PaneId \ (PanesIn(j.root) \cup j.closing) : N[p] = L[p]
           /\ Targeted(N, y) /\ Hidden(N, y)
           /\ j.closing = {} /\ Placed(L, j, RootRect) => Sound(N, y, RootRect)
    BY <2>1, SettledLands
  <2> QED
    BY <2>2 DEF j
<1>8. WindowOK(o) /\ PanesIn(o.root) \subseteq PanesIn(w.root) \ w.closing
  BY <1>3, SettledOK
<1> HIDE DEF s, in, L1, o, w, i
<1>9. /\ LeavesOK(L2)
      /\ \A p \in PaneId : p \in PanesIn(in.root) /\ i.root = NoTree => L2[p] = f
      /\ \A p \in PaneId : ~(p \in PanesIn(in.root) /\ i.root = NoTree) => L2[p] = L1[p]
  <2>1. LeafOK(f)
    BY FreshIs
  <2> HIDE DEF f
  <2>2. CASE i.root = NoTree
    BY <1>5, <1>6, <1>7, <2>1, <2>2 DEF LeavesOK
  <2>3. CASE i.root # NoTree
    BY <1>7, <2>3
  <2> QED
    BY <2>2, <2>3
<1> HIDE DEF L2
<1>10. IsTreeOrNone(in.root) /\ PanesIn(in.root) \subseteq PaneId /\ in.closing = {}
  BY <1>3, <1>5, <1>6 DEF IsTreeOrNone, i
<1> DEFINE to == LayOut(in.root, RootRect, in.zoomed)
<1>11. /\ LeavesOK(M)
       /\ \A p \in PaneId \ PanesIn(in.root) : M[p] = L2[p]
       /\ Targeted(M, in)
       /\ \A p \in PanesIn(in.root) : M[p].target = to[p]
       /\ in.closing = {} /\ (\A p \in PanesIn(in.root) : L2[p].left = 0 /\ L2[p].cur = to[p])
            => Sound(M, in, RootRect)
  BY <1>9, <1>10, FittedLands
<1>12. i.root # NoTree => to = at
  BY <1>5 DEF i
<1>13. i.root = NoTree => \A p \in PanesIn(in.root) : to[p] = RootRect
  <2> DEFINE z == in.zoomed
             r == RootRect
  <2>1. r \in Rectangle
    OBVIOUS
  <2> HIDE DEF z, r, new
  <2>2. LayOut(Leaf(new), r, z)[new] = r
    BY <1>6, <2>1, LoneLaid
  <2> QED
    BY <1>5, <2>2 DEF z, r
<1> HIDE DEF M, R, to, at
<1>14. \A p \in PanesIn(o.root) : p \in PaneId /\ p \notin PanesIn(in.root) /\ M[p] = L1[p]
  <2>1. \A p \in PanesIn(w.root) : p \notin PanesIn(in.root)
    <3>1. PanesIn(w.root) \cap PanesIn(i.root) = {} /\ new \notin PanesIn(w.root)
      BY <1>4 DEF w
    <3> QED
      BY <1>5, <3>1
  <2> QED
    BY <1>3, <1>8, <1>9, <1>11, <2>1
<1>15. Targeted(M, o) /\ Hidden(M, o)
  BY <1>7, <1>14 DEF Targeted, Hidden
<1>16. ASSUME w.closing = {}, Placed(L, w, RootRect) PROVE Sound(M, o, RootRect)
  <2>1. Sound(L1, o, RootRect)
    BY <1>7, <1>16
  <2>2. \A p \in PanesIn(o.root) : M[p] = L1[p]
    BY <1>14
  <2> QED
    BY <1>8, <2>1, <2>2, SoundAgain
<1>17. \A u \in Window \ {current, v} : \A p \in PanesIn(win[u].root) : M[p] = L[p]
  <2> TAKE u \in Window \ {current, v}
  <2> TAKE p \in PanesIn(win[u].root)
  <2>1. p \in PaneId /\ p \notin PanesIn(w.root) \cup w.closing /\ p \notin PanesIn(i.root) /\ p # new
    BY <1>4
  <2>2. p \notin PanesIn(in.root)
    BY <1>5, <2>1
  <2> QED
    BY <1>7, <1>9, <1>11, <2>1, <2>2
<1>18. ASSUME \A p \in PanesIn(i.root) : L[p].left = 0 /\ L[p].cur = at[p] PROVE Sound(M, in, RootRect)
  <2>1. CASE i.root = NoTree
    <3>1. f.left = 0 /\ f.cur = RootRect
      BY FreshIs
    <3> HIDE DEF f
    <3>2. \A p \in PanesIn(in.root) : L2[p].left = 0 /\ L2[p].cur = to[p]
      BY <1>9, <1>10, <1>13, <2>1, <3>1
    <3> QED
      BY <1>10, <1>11, <3>2
  <2>2. CASE i.root # NoTree
    <3>1. ASSUME NEW p \in PanesIn(in.root) PROVE L2[p] = L[p] /\ p \in PanesIn(i.root)
      <4>1. p \in PanesIn(i.root) /\ p \in PaneId
        BY <1>5, <1>10, <2>2
      <4>2. p \notin PanesIn(w.root) \cup w.closing
        BY <1>4, <4>1 DEF i
      <4> QED
        BY <1>7, <1>9, <2>2, <4>1, <4>2
    <3>2. \A p \in PanesIn(in.root) : L2[p].left = 0 /\ L2[p].cur = to[p]
      BY <1>12, <1>18, <2>2, <3>1
    <3> QED
      BY <1>10, <1>11, <3>2
  <2> QED
    BY <2>1, <2>2
<1>19. i.root # NoTree => \A p \in PanesIn(i.root) : M[p].target = at[p]
  BY <1>5, <1>11, <1>12
<1> QED
  BY <1>1, <1>2, <1>11, <1>15, <1>16, <1>17, <1>18, <1>19 DEF s, at, w, i

LEMMA SwitchLands == ASSUME LandsInv, NEW v \in Window, Switch(v) PROVE LandsInv'
<1> DEFINE s == Switched(window, leaf, v)
<1>1. /\ v \in Window \ {current} /\ CanSwitch(window, v) /\ window' = s.win /\ leaf' = s.leaf
      /\ current' = v /\ rough' = Left(leaf, W) /\ UNCHANGED <<screen, bar>>
  BY DEF Switch
<1>2. TreesInv /\ TreesInv' /\ LandsIn(leaf, window, current, rough, RootRect) /\ LeavesOK(leaf)
  BY LandsAre, SwitchKeeps
<1>3. WindowsOK(window, spawned) /\ spawned \in 0 .. MaxPanes /\ current \in Window /\ RootRect \in Rectangle
  BY <1>2, TreesAre
<1>4. /\ Targeted(leaf, window[current]) /\ Hidden(leaf, window[v])
      /\ v \notin rough => Sound(leaf, window[v], RootRect)
  BY <1>1, <1>3, LandsAre
<1>5. window[v].closing = {}
  BY <1>4 DEF Hidden
<1> DEFINE at == LayOut(window[v].root, RootRect, window[v].zoomed)
<1>6. /\ LeavesOK(s.leaf)
      /\ \A u \in Window \ {current, v} : \A p \in PanesIn(window[u].root) : s.leaf[p] = leaf[p]
      /\ Targeted(s.leaf, s.win[current]) /\ Hidden(s.leaf, s.win[current])
      /\ window[current].closing = {} /\ Placed(leaf, window[current], RootRect)
           => Sound(s.leaf, s.win[current], RootRect)
      /\ Targeted(s.leaf, s.win[v])
      /\ (\A p \in PanesIn(window[v].root) : leaf[p].left = 0 /\ leaf[p].cur = at[p])
           => Sound(s.leaf, s.win[v], RootRect)
  BY <1>1, <1>2, <1>3, <1>4, <1>5, SwitchedLands
<1>7. \A u \in Window \ {current, v} : s.win[u] = window[u]
  BY <1>1, <1>3, SwitchedIs
<1> DEFINE M == s.leaf
           new == s.win
           more == rough'
           T == {current, v}
<1>8. /\ current \in T /\ \A u \in Window : u \in T => u = current \/ u = v
      /\ Window \ T = Window \ {current, v}
  OBVIOUS
<1> HIDE DEF s, at
<1>9. /\ \A u \in Window \ {current} : u \in rough => u \in more
      /\ current \notin more => window[current].closing = {} /\ Placed(leaf, window[current], RootRect)
  <2>1. rough' = IF W.closing = {} /\ Placed(leaf, W, RootRect) THEN rough \ {current} ELSE rough \cup {current}
    BY <1>1 DEF Left
  <2> QED
    BY <2>1 DEF W
<1>10. v \notin more => Sound(M, new[v], RootRect)
  <2> SUFFICES ASSUME v \notin more PROVE Sound(M, new[v], RootRect)
    OBVIOUS
  <2>1. v \notin rough
    BY <1>1, <1>9
  <2>2. Sound(leaf, window[v], RootRect) /\ Hidden(leaf, window[v])
    BY <1>4, <2>1
  <2>3. \A t : Pruned(t, {}) = t
    BY Zenon DEF Pruned
  <2>4. Pruned(window[v].root, window[v].closing) = window[v].root
    BY <1>5, <2>3
  <2>5. \A p \in PanesIn(window[v].root) : leaf[p].left = 0 /\ leaf[p].cur = at[p]
    BY <2>2, <2>4 DEF Sound, Lands, Hidden, Drawn, at
  <2> QED
    BY <1>6, <2>5
<1> HIDE DEF M, new, more, T
<1>11. /\ \A u \in Window \ T : new[u] = window[u]
       /\ LeavesOK(M) /\ \A u \in Window \ T : \A p \in PanesIn(window[u].root) : M[p] = leaf[p]
       /\ \A u \in Window \ T : u \in rough => u \in more
       /\ \A u \in Window : u \in T => /\ Targeted(M, new[u])
                                       /\ u # v => Hidden(M, new[u])
                                       /\ u \notin more => Sound(M, new[u], RootRect)
  BY <1>6, <1>7, <1>8, <1>9, <1>10 DEF M, new
<1>12. LandsIn(M, new, v, more, RootRect)
  BY <1>2, <1>3, <1>8, <1>11, SomeLand
<1>13. LandsIn(leaf', window', current', rough', RootRect)
  BY <1>1, <1>12 DEF M, new, more
<1>14. RootRect' = RootRect
  BY <1>1 DEF RootRect
<1>15. LandsIn(leaf, window, current, rough, RootRect)'
  BY <1>13, <1>14 DEF LandsIn, LeavesOK, Sound, Lands, Placed, Targeted, Hidden
<1> QED
  BY <1>2, <1>15 DEF LandsInv

LEMMA BreakPaneLands ==
  ASSUME LandsInv, NEW p, NEW v \in Window, NEW detached, BreakPane(p, v, detached)
  PROVE  LandsInv'
<1> DEFINE from == Broken(p)
           win == [window EXCEPT ![current] = from, ![v] = Lone(@, p, RootRect)]
           R == Recomputed(leaf, from, RootRect)
           r == RootRect
           L == [Recomputed(leaf, from, RootRect) EXCEPT ![p].cur = RootRect, ![p].target = RootRect]
           s == Switched(win, L, v)
           D == [L EXCEPT ![p] = Sized(Still(@), Content(RootRect))]
           at == LayOut(from.root, RootRect, from.zoomed)
<1>1. /\ p \in Shown /\ v \in Window \ {current} /\ window[v].root = NoTree
      /\ UNCHANGED <<screen, bar>>
      /\ IF detached THEN /\ window' = win /\ leaf' = D /\ current' = current
                          /\ rough' = (rough \cup {current}) \ {v}
         ELSE /\ window' = s.win /\ leaf' = s.leaf /\ current' = v
              /\ rough' = (Left(L, from) \ {v}) \cup (IF leaf[p].left > 0 THEN {v} ELSE {})
  BY DEF BreakPane, Broken
<1>2. TreesInv /\ TreesInv' /\ LandsIn(leaf, window, current, rough, RootRect) /\ LeavesOK(leaf)
  BY LandsAre, BreakPaneKeeps
<1>3. WindowsOK(window, spawned) /\ spawned \in 0 .. MaxPanes /\ current \in Window /\ RootRect \in Rectangle
  BY <1>2, TreesAre
<1>4. /\ WindowsOK(win, spawned) /\ p \in Nat \ {0}
      /\ win[current] = from /\ \A u \in Window \ {current, v} : win[u] = window[u]
      /\ PanesIn(from.root) = Shown \ {p}
      /\ win[v].root = Leaf(p) /\ PanesIn(win[v].root) = {p} /\ win[v].root # NoTree
      /\ win[v].closing = window[v].closing
  BY <1>1, <1>2, BrokenIs
<1>5. window[v].closing = {}
  BY <1>1, LandsAre DEF Hidden
<1>6. /\ Shown \subseteq PaneId /\ p \in PaneId
      /\ \A u \in Window \ {current} : PanesIn(window[u].root) \cap Shown = {} /\ PanesIn(window[u].root) \subseteq PaneId
  BY <1>1, <1>3, WindowTree DEF WindowsOK, Shown, W
<1> DEFINE lone == win[v]
<1>7. IsTreeOrNone(from.root) /\ PanesIn(from.root) \subseteq PaneId
  BY <1>3, <1>4, WindowTree
<1> HIDE DEF win, from
<1>8. /\ LeavesOK(R)
      /\ \A q \in PaneId \ PanesIn(from.root) : R[q] = leaf[q]
      /\ \A q \in PanesIn(from.root) : R[q].target = at[q] /\ R[q].target \in Rectangle
      /\ \A q \in PaneId : R[q].left = leaf[q].left
  BY <1>2, <1>3, <1>7, RecomputedIs
<1> HIDE DEF R, at
<1>9. /\ LeavesOK(L) /\ L[p].cur = RootRect /\ L[p].target = RootRect /\ L[p].left = leaf[p].left
      /\ \A q \in PaneId \ {p} : L[q] = R[q]
  <2> DEFINE l == R[p]
             m == [l EXCEPT !.cur = r, !.target = r]
  <2>1. L[p] = m /\ DOMAIN L = PaneId /\ \A q \in PaneId \ {p} : L[q] = R[q]
    BY <1>6, <1>8 DEF LeavesOK, R
  <2>2. LeafOK(l) /\ l.left = leaf[p].left
    BY <1>6, <1>8 DEF LeavesOK
  <2> HIDE DEF l, r, L
  <2>3. LeafOK(m) /\ m.cur = r /\ m.target = r /\ m.left = l.left
    BY <2>2 DEF LeafOK
  <2> QED
    BY <1>8, <2>1, <2>2, <2>3 DEF LeavesOK, r
<1>10. Targeted(L, from) /\ Placed(L, from, RootRect)
  <2>1. \A q \in PanesIn(from.root) : L[q].target = at[q] /\ L[q].target \in Rectangle
    <3> HIDE DEF L
    <3> QED
      BY <1>4, <1>7, <1>8, <1>9
  <2> HIDE DEF L
  <2> QED
    BY <2>1 DEF Targeted, Placed, at
<1> HIDE DEF L
<1>11. \A u \in Window \ {current, v} : \A q \in PanesIn(window[u].root) : q \in PaneId /\ q # p /\ L[q] = leaf[q]
  <2> TAKE u \in Window \ {current, v}
  <2> TAKE q \in PanesIn(window[u].root)
  <2>1. q \in PaneId /\ q \notin Shown
    BY <1>6
  <2>2. q # p /\ q \notin PanesIn(from.root)
    BY <1>1, <1>4, <2>1
  <2> HIDE DEF from, lone
  <2>3. L[q] = R[q] /\ R[q] = leaf[q]
    BY <1>8, <1>9, <2>1, <2>2
  <2> QED
    BY <2>1, <2>2, <2>3
<1>12. LayOut(lone.root, RootRect, lone.zoomed)[p] = RootRect
  <2> DEFINE z == lone.zoomed
  <2> HIDE DEF z, r
  <2>1. r \in Rectangle
    BY <1>3 DEF r
  <2>2. LayOut(Leaf(p), r, z)[p] = r
    BY <1>4, <2>1, LoneLaid
  <2> QED
    BY <1>4, <2>2 DEF z, r
<1>13. RootRect' = RootRect
  BY <1>1 DEF RootRect
<1> DEFINE T == {current, v}
           more == rough'
<1>14. current \in T /\ (\A u \in Window : u \in T => u = current \/ u = v) /\ Window \ T = Window \ {current, v}
  OBVIOUS
<1> HIDE DEF T, more, lone
<1>15. CASE detached
  <2>1. window' = win /\ leaf' = D /\ current' = current /\ more = (rough \cup {current}) \ {v}
    BY <1>1, <1>15 DEF more
  <2>2. /\ LeavesOK(D) /\ \A q \in PaneId \ {p} : D[q] = L[q]
        /\ Drawn(D[p], RootRect) /\ D[p].target = RootRect /\ D[p].left = 0
    <3> DEFINE l == L[p]
               a == Still(l)
               size == Content(RootRect)
               m == Sized(a, size)
    <3>1. D[p] = m /\ DOMAIN D = PaneId /\ \A q \in PaneId \ {p} : D[q] = L[q]
      BY <1>6, <1>9 DEF LeavesOK
    <3>2. LeafOK(l) /\ l.cur = RootRect /\ l.target = RootRect
      BY <1>6, <1>9 DEF LeavesOK
    <3> HIDE DEF l, D, size
    <3>3. LeafOK(a) /\ a.left = 0 /\ a.target = l.target /\ a.cur = l.cur
      BY <3>2, StillIs
    <3> HIDE DEF a
    <3>4. LeafOK(m) /\ m.pty = size /\ m.grid = size /\ m.cur = a.cur /\ m.target = a.target /\ m.left = a.left
      BY <3>3, SizedIs
    <3> HIDE DEF m
    <3> QED
      BY <1>9, <3>1, <3>2, <3>3, <3>4 DEF LeavesOK, Drawn, size
  <2> HIDE DEF D
  <2>3. Targeted(D, from)
    BY <1>4, <1>6, <1>10, <2>2 DEF Targeted
  <2>4. Targeted(D, lone) /\ Hidden(D, lone)
    BY <1>3, <1>4, <1>5, <2>2 DEF Targeted, Hidden, lone
  <2>5. Sound(D, lone, RootRect)
    <3>1. \A t : Pruned(t, {}) = t
      BY Zenon DEF Pruned
    <3>2. Pruned(lone.root, lone.closing) = lone.root /\ PanesIn(lone.root) = {p}
      BY <1>4, <1>5, <3>1 DEF lone
    <3>3. Lands(D, lone, RootRect)
      BY <1>12, <2>2, <3>2 DEF Lands
    <3>4. Placed(D, lone, RootRect)
      BY <1>12, <2>2, <3>2 DEF Placed
    <3> QED
      BY <3>3, <3>4 DEF Sound
  <2>6. \A u \in Window \ T : \A q \in PanesIn(window[u].root) : D[q] = leaf[q]
    BY <1>11, <1>14, <2>2
  <2>7. \A u \in Window \ T : win[u] = window[u] /\ (u \in rough => u \in more)
    BY <1>4, <1>14, <2>1
  <2>8. \A u \in Window : u \in T => /\ Targeted(D, win[u])
                                     /\ u # current => Hidden(D, win[u])
                                     /\ u \notin more => Sound(D, win[u], RootRect)
    <3>1. current \in more
      BY <1>1, <2>1
    <3> QED
      BY <1>4, <1>14, <2>3, <2>4, <2>5, <3>1 DEF lone
  <2>9. LandsIn(D, win, current, more, RootRect)
    BY <1>2, <1>3, <1>14, <2>2, <2>6, <2>7, <2>8, SomeLand
  <2>10. LandsIn(leaf', window', current', rough', RootRect')
    BY <1>13, <2>1, <2>9 DEF more
  <2>11. LandsIn(leaf, window, current, rough, RootRect)'
    BY <2>10 DEF LandsIn, LeavesOK, Sound, Lands, Placed, Targeted, Hidden
  <2> QED
    BY <1>2, <2>11 DEF LandsInv
<1>16. CASE ~detached
  <2>1. /\ window' = s.win /\ leaf' = s.leaf /\ current' = v
        /\ more = (Left(L, from) \ {v}) \cup (IF leaf[p].left > 0 THEN {v} ELSE {})
    BY <1>1, <1>16 DEF more
  <2> DEFINE to == LayOut(win[v].root, RootRect, win[v].zoomed)
  <2>2. /\ LeavesOK(s.leaf)
        /\ \A u \in Window \ {current, v} : \A q \in PanesIn(win[u].root) : s.leaf[q] = L[q]
        /\ Targeted(s.leaf, s.win[current]) /\ Hidden(s.leaf, s.win[current])
        /\ win[current].closing = {} /\ Placed(L, win[current], RootRect)
             => Sound(s.leaf, s.win[current], RootRect)
        /\ Targeted(s.leaf, s.win[v])
        /\ (\A q \in PanesIn(win[v].root) : L[q].left = 0 /\ L[q].cur = to[q])
             => Sound(s.leaf, s.win[v], RootRect)
        /\ \A u \in Window \ {current, v} : s.win[u] = win[u]
    <3>1. CanSwitch(win, v) /\ Targeted(L, win[current]) /\ win[v].closing = {}
      BY <1>4, <1>5, <1>10 DEF CanSwitch
    <3> QED
      BY <1>1, <1>3, <1>4, <1>9, <3>1, SwitchedIs, SwitchedLands
  <2> DEFINE M == s.leaf
             new == s.win
  <2> HIDE DEF s, to
  <2>3. v \notin more => Sound(M, new[v], RootRect)
    <3> SUFFICES ASSUME v \notin more PROVE Sound(M, new[v], RootRect)
      OBVIOUS
    <3>1. leaf[p].left \in Nat
      BY <1>2, <1>6 DEF LeavesOK, LeafOK
    <3>2. leaf[p].left = 0
      BY <2>1, <3>1
    <3>3. \A q \in PanesIn(win[v].root) : L[q].left = 0 /\ L[q].cur = to[q]
      BY <1>4, <1>9, <1>12, <3>2 DEF to, lone
    <3> QED
      BY <2>2, <3>3
  <2>4. /\ current \notin more => Sound(M, new[current], RootRect)
        /\ \A u \in Window \ {current, v} : u \in rough => u \in more
    <3>1. Left(L, from) = IF from.closing = {} /\ Placed(L, from, RootRect) THEN rough \ {current} ELSE rough \cup {current}
      BY DEF Left
    <3> QED
      BY <1>1, <1>4, <2>1, <2>2, <3>1
  <2>5. /\ \A u \in Window \ T : new[u] = window[u]
        /\ LeavesOK(M) /\ \A u \in Window \ T : \A q \in PanesIn(window[u].root) : M[q] = leaf[q]
        /\ \A u \in Window \ T : u \in rough => u \in more
    BY <1>4, <1>11, <1>14, <2>2, <2>4
  <2>6. \A u \in Window : u \in T => /\ Targeted(M, new[u])
                                     /\ u # v => Hidden(M, new[u])
                                     /\ u \notin more => Sound(M, new[u], RootRect)
    BY <1>14, <2>2, <2>3, <2>4
  <2> HIDE DEF M, new
  <2>7. LandsIn(M, new, v, more, RootRect)
    BY <1>2, <1>3, <1>14, <2>5, <2>6, SomeLand
  <2>8. LandsIn(leaf', window', current', rough', RootRect')
    BY <1>13, <2>1, <2>7 DEF more, M, new
  <2>9. LandsIn(leaf, window, current, rough, RootRect)'
    BY <2>8 DEF LandsIn, LeavesOK, Sound, Lands, Placed, Targeted, Hidden
  <2> QED
    BY <1>2, <2>9 DEF LandsInv
<1> QED
  BY <1>15, <1>16

\* The panes of a window that one leaves, which is laid out if it is on screen.
LeavingLeaves(u, from) == IF u = current THEN Recomputed(leaf, from, RootRect) ELSE leaf

LEMMA LeavingLands ==
  ASSUME LandsInv, NEW u \in Window, NEW p \in PanesIn(window[u].root)
  PROVE  LET from == Leaving(u, p)
             win == [window EXCEPT ![u] = from]
             L == LeavingLeaves(u, from)
         IN /\ LeavesOK(L)
            /\ \A o \in Window : Targeted(L, win[o]) /\ (o # current => Hidden(L, win[o]))
            /\ \A o \in Window \ {u} : \A q \in PanesIn(window[o].root) : L[q] = leaf[q]
<1> DEFINE from == Leaving(u, p)
           win == [window EXCEPT ![u] = from]
           L == LeavingLeaves(u, from)
           R == Recomputed(leaf, from, RootRect)
<1>1. TreesInv /\ LeavesOK(leaf) /\ RootRect \in Rectangle /\ spawned \in 0 .. MaxPanes /\ WindowsOK(window, spawned)
      /\ \A o \in Window : Targeted(leaf, window[o]) /\ (o # current => Hidden(leaf, window[o]))
  BY LandsAre, TreesAre
<1>2. /\ WindowsOK(win, spawned) /\ win[u] = from /\ \A o \in Window \ {u} : win[o] = window[o]
      /\ PanesIn(from.root) = PanesIn(window[u].root) \ {p} /\ from.closing = window[u].closing \ {p}
  BY <1>1, LeavingIs
<1>3. IsTreeOrNone(from.root) /\ PanesIn(from.root) \subseteq PaneId
  BY <1>1, <1>2, WindowTree
<1>4. \A o \in Window \ {u} : PanesIn(window[o].root) \subseteq PaneId /\ PanesIn(window[o].root) \cap PanesIn(window[u].root) = {}
  BY <1>1, WindowTree DEF WindowsOK
<1> HIDE DEF win, from
<1>5. CASE u = current
  <2>1. /\ LeavesOK(R)
        /\ \A q \in PaneId \ PanesIn(from.root) : R[q] = leaf[q]
        /\ \A q \in PanesIn(from.root) : R[q].target \in Rectangle
    BY <1>1, <1>3, RecomputedIs
  <2>2. L = R
    BY <1>5 DEF LeavingLeaves
  <2> HIDE DEF R, L
  <2>3. \A o \in Window \ {u} : \A q \in PanesIn(window[o].root) : L[q] = leaf[q]
    BY <1>2, <1>4, <2>1, <2>2
  <2>4. Targeted(L, win[u])
    BY <1>2, <2>1, <2>2 DEF Targeted
  <2>5. \A o \in Window \ {u} : Targeted(L, win[o]) /\ Hidden(L, win[o])
    BY <1>1, <1>2, <1>5, <2>3 DEF Targeted, Hidden
  <2>6. \A o \in Window : Targeted(L, win[o]) /\ (o # current => Hidden(L, win[o]))
    BY <1>5, <2>4, <2>5
  <2> QED
    BY <2>1, <2>2, <2>3, <2>6 DEF L, win, from
<1>6. CASE u # current
  <2>1. L = leaf
    BY <1>6 DEF LeavingLeaves
  <2> HIDE DEF L
  <2>2. Targeted(L, win[u]) /\ Hidden(L, win[u])
    BY <1>1, <1>2, <1>6, <2>1 DEF Targeted, Hidden
  <2>3. \A o \in Window \ {u} : Targeted(L, win[o]) /\ (o # current => Hidden(L, win[o]))
    BY <1>1, <1>2, <2>1
  <2>4. \A o \in Window : Targeted(L, win[o]) /\ (o # current => Hidden(L, win[o]))
    BY <2>2, <2>3
  <2>5. LeavesOK(L) /\ \A o \in Window \ {u} : \A q \in PanesIn(window[o].root) : L[q] = leaf[q]
    BY <1>1, <2>1
  <2> QED
    BY <2>4, <2>5 DEF L, win, from
<1> QED
  BY <1>5, <1>6

\* The panes when the window where the pane arrives has come on screen.
LEMMA ArrivingLands ==
  ASSUME TreesInv, NEW win, WindowsOK(win, spawned), NEW v \in Window, win[v].root # NoTree,
         NEW L, LeavesOK(L), \A o \in Window : Targeted(L, win[o]) /\ (o # current => Hidden(L, win[o]))
  PROVE  LET s == Arriving(win, L, v) IN
         /\ LeavesOK(s.leaf)
         /\ \A o \in Window \ {v} : Targeted(s.leaf, s.win[o]) /\ Hidden(s.leaf, s.win[o])
         /\ \A o \in Window \ {current, v} : \A q \in PanesIn(win[o].root) : s.leaf[q] = L[q]
         /\ v # current /\ win[current].closing = {} /\ Placed(L, win[current], RootRect)
              => Sound(s.leaf, s.win[current], RootRect)
<1> DEFINE s == Arriving(win, L, v)
<1>1. spawned \in 0 .. MaxPanes /\ current \in Window /\ RootRect \in Rectangle
  BY TreesAre
<1>2. CASE v = current
  <2>1. s.win = win /\ s.leaf = L
    BY <1>2 DEF Arriving
  <2> HIDE DEF s
  <2> QED
    BY <1>2, <2>1 DEF s
<1>3. CASE v # current
  <2> DEFINE z == Switched(win, L, v)
  <2>1. CanSwitch(win, v) /\ v \in Window \ {current} /\ Targeted(L, win[current]) /\ win[v].closing = {}
    BY <1>1, <1>3 DEF CanSwitch, Hidden
  <2>2. \A o \in Window \ {current, v} : z.win[o] = win[o]
    BY <1>1, <2>1, SwitchedIs
  <2>3. /\ LeavesOK(z.leaf)
        /\ \A o \in Window \ {current, v} : \A q \in PanesIn(win[o].root) : z.leaf[q] = L[q]
        /\ Targeted(z.leaf, z.win[current]) /\ Hidden(z.leaf, z.win[current])
        /\ win[current].closing = {} /\ Placed(L, win[current], RootRect)
             => Sound(z.leaf, z.win[current], RootRect)
    BY <1>1, <2>1, SwitchedLands
  <2>4. s = z
    BY <1>3 DEF Arriving
  <2> HIDE DEF z, s
  <2>5. ASSUME NEW o \in Window \ {v} PROVE Targeted(s.leaf, s.win[o]) /\ Hidden(s.leaf, s.win[o])
    <3>1. CASE o = current
      BY <2>3, <2>4, <3>1
    <3>2. CASE o # current
      <4> DEFINE M == s.leaf
                 x == win[o]
      <4>1. s.win[o] = x /\ Targeted(L, x) /\ Hidden(L, x) /\ \A q \in PanesIn(x.root) : M[q] = L[q]
        BY <2>2, <2>3, <2>4, <2>5, <3>2
      <4> HIDE DEF M, x
      <4>2. Targeted(M, x) /\ Hidden(M, x)
        BY <4>1 DEF Targeted, Hidden
      <4> QED
        BY <4>1, <4>2 DEF M
    <3> QED
      BY <3>1, <3>2
  <2> QED
    BY <2>3, <2>4, <2>5 DEF s
<1> QED
  BY <1>2, <1>3

LEMMA JoinPaneLands ==
  ASSUME LandsInv, NEW u \in Window, NEW v \in Window, NEW p \in PanesIn(window[u].root),
         NEW onto \in PanesIn(window[v].root), NEW split \in Axes, NEW detached,
         JoinPane(p, u, onto, v, split, detached)
  PROVE  LandsInv'
<1> DEFINE from == Leaving(u, p)
           win == [window EXCEPT ![u] = from]
           L == LeavingLeaves(u, from)
           s == Arriving(win, L, v)
           marked == IF v = current THEN rough ELSE Left(L, win[current])
           t == s.win[v]
           w == Joining(t, onto, split, p, detached)
           K == s.leaf
           old == K[onto].target
           N == PartedLeaves(Recomputed(K, w, RootRect), onto, p, old, Moving, SiblingTime, NewTime)
<1>1. /\ p # onto /\ window' = [s.win EXCEPT ![v] = w] /\ current' = v /\ leaf' = N
      /\ rough' = marked \cup {u, v} /\ UNCHANGED <<screen, bar>>
  BY Zenon DEF JoinPane, Leaving, LeavingLeaves, Arriving, Joining, PartedLeaves
<1>2. TreesInv /\ TreesInv' /\ LandsIn(leaf, window, current, rough, RootRect)
  BY LandsAre, JoinPaneKeeps
<1>3. WindowsOK(window, spawned) /\ spawned \in 0 .. MaxPanes /\ current \in Window /\ RootRect \in Rectangle
      /\ DOMAIN window = Window
  BY <1>2, TreesAre
<1>4. /\ WindowsOK(win, spawned) /\ p \in Nat \ {0} /\ p \in 1 .. spawned
      /\ win[u] = from /\ \A o \in Window \ {u} : win[o] = window[o]
      /\ \A o \in Window : p \notin PanesIn(win[o].root)
      /\ PanesIn(from.root) = PanesIn(window[u].root) \ {p}
  BY <1>2, LeavingIs
<1>5. /\ LeavesOK(L)
      /\ \A o \in Window : Targeted(L, win[o]) /\ (o # current => Hidden(L, win[o]))
      /\ \A o \in Window \ {u} : \A q \in PanesIn(window[o].root) : L[q] = leaf[q]
  BY LeavingLands
<1> HIDE DEF win, from, L
<1>6. onto \in PanesIn(win[v].root) /\ win[v].root # NoTree
  <2>1. onto \in PanesIn(win[v].root)
    BY <1>1, <1>4
  <2> QED
    BY <2>1, NoTreeEmpty
<1>7. /\ WindowsOK(s.win, spawned) /\ t.root = win[v].root
      /\ \A o \in Window : PanesIn(s.win[o].root) \subseteq PanesIn(win[o].root)
      /\ \A o \in Window \ {current, v} : s.win[o] = win[o]
  <2>1. Arrived(s.win, win, v)
    BY <1>2, <1>4, <1>6, ArrivingIs
  <2> HIDE DEF s
  <2> QED
    BY <2>1 DEF Arrived
<1>8. /\ LeavesOK(K)
      /\ \A o \in Window \ {v} : Targeted(K, s.win[o]) /\ Hidden(K, s.win[o])
      /\ \A o \in Window \ {current, v} : \A q \in PanesIn(win[o].root) : K[q] = L[q]
      /\ v # current /\ win[current].closing = {} /\ Placed(L, win[current], RootRect)
           => Sound(K, s.win[current], RootRect)
  BY <1>2, <1>4, <1>5, <1>6, ArrivingLands
<1> HIDE DEF s, K
<1>9. WindowOK(t) /\ p \notin PanesIn(t.root) /\ onto \in PanesIn(t.root) /\ PanesIn(t.root) \subseteq PaneId
  BY <1>3, <1>4, <1>6, <1>7, WindowTree
<1>10. /\ IsTree(w.root) /\ PanesIn(w.root) = PanesIn(t.root) \cup {p} /\ w.closing = t.closing
  <2> HIDE DEF t
  <2> QED
    BY <1>3, <1>4, <1>9, JoiningIs
<1>11. p \in PaneId
  BY <1>3, <1>4, LayoutAssumption DEF PaneId
<1> HIDE DEF w, t
<1>12. /\ LeavesOK(N)
       /\ \A q \in PaneId \ PanesIn(w.root) : N[q] = K[q]
       /\ \A q \in PanesIn(w.root) : N[q].target \in Rectangle
  <2> DEFINE c == Moving
             a == SiblingTime
             b == NewTime
             r == RootRect
  <2>1. a \in Nat \ {0} /\ b \in Nat \ {0}
    BY DEF SiblingTime, NewTime
  <2>2. /\ LeavesOK(K) /\ IsTree(w.root) /\ PanesIn(w.root) \subseteq PaneId /\ r \in Rectangle
        /\ onto \in PanesIn(w.root) /\ p \in PanesIn(w.root) /\ onto # p
    BY <1>1, <1>3, <1>8, <1>9, <1>10, <1>11
  <2> HIDE DEF c, a, b, r, old, N
  <2>3. LET M == Recomputed(K, w, r)
            to == LayOut(w.root, r, w.zoomed)
            O == PartedLeaves(M, onto, p, old, c, a, b)
        IN /\ LeavesOK(O)
           /\ \A q \in PaneId \ PanesIn(w.root) : O[q] = K[q]
           /\ \A q \in PanesIn(w.root) : O[q].target = to[q] /\ O[q].target \in Rectangle
           /\ \A q \in {onto, p} : O[q].to = to[q] /\ O[q].left > 0
           /\ \A q \in PaneId \ {onto, p} : /\ O[q].cur = K[q].cur /\ O[q].to = K[q].to /\ O[q].left = K[q].left
                                            /\ O[q].pty = K[q].pty /\ O[q].grid = K[q].grid
    BY <2>1, <2>2, Parted, SMTT(30)
  <2> QED
    BY <2>3 DEF N, c, a, b, r
<1> HIDE DEF N, marked
<1> DEFINE T == {current, u, v}
           new == window'
           more == rough'
<1>13. /\ current \in T /\ (\A o \in Window : o \in T => o = v \/ o = current \/ o = u)
       /\ \A o \in Window \ T : o \in Window \ {current, v} /\ o \in Window \ {u} /\ o \in Window \ {v}
  OBVIOUS
<1>14. new[v] = w /\ \A o \in Window \ {v} : new[o] = s.win[o]
  <2>1. DOMAIN s.win = Window
    BY <1>7 DEF WindowsOK
  <2> QED
    BY <1>1, <2>1
<1>15. \A o \in Window \ {v} : \A q \in PanesIn(s.win[o].root) : q \in PaneId /\ q \notin PanesIn(w.root) /\ N[q] = K[q]
  <2> TAKE o \in Window \ {v}
  <2> TAKE q \in PanesIn(s.win[o].root)
  <2>1. q \in PaneId
    BY <1>3, <1>7, WindowTree
  <2>2. q # p
    BY <1>4, <1>7
  <2>3. q \notin PanesIn(t.root)
    BY <1>7 DEF WindowsOK, t
  <2> QED
    BY <1>10, <1>12, <2>1, <2>2, <2>3
<1>16. u \in more /\ v \in more /\ marked \subseteq more
  BY <1>1
<1> HIDE DEF T, new, more
<1>17. Targeted(N, new[v])
  BY <1>12, <1>14 DEF Targeted
<1>18. \A o \in Window \ {v} : Targeted(N, new[o]) /\ Hidden(N, new[o])
  <2> TAKE o \in Window \ {v}
  <2> DEFINE x == s.win[o]
  <2>1. new[o] = x /\ Targeted(K, x) /\ Hidden(K, x) /\ \A q \in PanesIn(x.root) : N[q] = K[q]
    BY <1>8, <1>14, <1>15
  <2> HIDE DEF x
  <2>2. Targeted(N, x) /\ Hidden(N, x)
    BY <2>1 DEF Targeted, Hidden
  <2> QED
    BY <2>1, <2>2
<1>19. \A o \in Window \ T : /\ new[o] = window[o] /\ (o \in rough => o \in more)
                             /\ \A q \in PanesIn(window[o].root) : N[q] = leaf[q]
  <2> TAKE o \in Window \ T
  <2>1. o \in Window \ {current, v} /\ o \in Window \ {u} /\ o \in Window \ {v} /\ o # current
    BY <1>13
  <2>2. s.win[o] = window[o] /\ new[o] = window[o]
    BY <1>4, <1>7, <1>14, <2>1
  <2>3. o \in rough => o \in marked
    BY <2>1 DEF marked, Left
  <2>4. \A q \in PanesIn(window[o].root) : N[q] = leaf[q]
    BY <1>4, <1>5, <1>8, <1>15, <2>1, <2>2
  <2> QED
    BY <1>16, <2>2, <2>3, <2>4
<1>20. ASSUME current \notin more, current # v PROVE Sound(N, new[current], RootRect)
  <2>1. current \notin marked
    BY <1>16, <1>20
  <2>2. win[current].closing = {} /\ Placed(L, win[current], RootRect)
    BY <1>20, <2>1 DEF marked, Left
  <2> DEFINE x == s.win[current]
  <2>3. Sound(K, x, RootRect) /\ new[current] = x /\ WindowOK(x) /\ \A q \in PanesIn(x.root) : N[q] = K[q]
    BY <1>3, <1>7, <1>8, <1>14, <1>15, <1>20, <2>2 DEF WindowsOK
  <2> HIDE DEF x
  <2> QED
    BY <2>3, SoundAgain
<1>21. \A o \in Window : o \in T => /\ Targeted(N, new[o])
                                    /\ o # v => Hidden(N, new[o])
                                    /\ o \notin more => Sound(N, new[o], RootRect)
  BY <1>13, <1>16, <1>17, <1>18, <1>20
<1>22. LandsIn(N, new, v, more, RootRect)
  BY <1>2, <1>3, <1>12, <1>13, <1>19, <1>21, SomeLand
<1>23. RootRect' = RootRect
  BY <1>1 DEF RootRect
<1>24. LandsIn(leaf', window', current', rough', RootRect')
  BY <1>1, <1>22, <1>23 DEF new, more
<1>25. LandsIn(leaf, window, current, rough, RootRect)'
  BY <1>24 DEF LandsIn, LeavesOK, Sound, Lands, Placed, Targeted, Hidden
<1> QED
  BY <1>2, <1>25, Zenon DEF LandsInv

LEMMA SnappedIs ==
  ASSUME NEW l, LeafOK(l), NEW t
  PROVE  LET m == [Sized(l, Content(t)) EXCEPT !.cur = t, !.target = t] IN
         LeafOK(m) /\ Drawn(m, t) /\ m.target = t /\ m.left = l.left
<1> DEFINE size == Content(t)
           a == Sized(l, size)
           m == [a EXCEPT !.cur = t, !.target = t]
<1> HIDE DEF size
<1>1. LeafOK(a) /\ a.pty = size /\ a.grid = size /\ a.left = l.left
  BY SizedIs
<1> HIDE DEF a
<1>2. LeafOK(m) /\ m.cur = t /\ m.target = t /\ m.pty = size /\ m.grid = size /\ m.left = l.left
  BY <1>1 DEF LeafOK
<1> QED
  BY <1>2 DEF Drawn, a, size

LEMMA HostResizeLands == ASSUME LandsInv, NEW size \in Sizes, HostResize(size) PROVE LandsInv'
<1>1. TreesInv /\ TreesInv' /\ LeavesOK(leaf) /\ \A v \in Window : v # current => Hidden(leaf, window[v])
  BY LandsAre, HostResizeKeeps
<1>2. /\ WindowsOK(window, spawned) /\ spawned \in 0 .. MaxPanes /\ current \in Window /\ bar \in BOOLEAN
      /\ \A v \in Window : WindowOK(window[v])
  BY <1>1, TreesAre
<1> DEFINE r == RootOf(size, bar)
           laid == [v \in Window |-> IF window[v].root = NoTree THEN window[v] ELSE [window[v] EXCEPT !.area = r]]
           win == [laid EXCEPT ![current] = SettledWindow(laid[current])]
           At(v) == LayOut(window[v].root, r, window[v].zoomed)
           Owner(p) == {v \in Window : p \in PanesIn(window[v].root)}
           Place1(p) == At(CHOOSE v \in Owner(p) : TRUE)[p]
           Snap(p) == [Sized(leaf[p], Content(Place1(p))) EXCEPT !.cur = Place1(p), !.target = Place1(p)]
           N == [p \in PaneId |->
                  IF p \in W.closing THEN NoLeaf
                  ELSE IF Owner(p) = {} THEN leaf[p]
                  ELSE IF current \in Owner(p) THEN Still(Snap(p)) ELSE Snap(p)]
<1>3. /\ window' = win /\ leaf' = N /\ screen' = size /\ rough' = (IF Closing THEN {current} ELSE {})
      /\ UNCHANGED <<current, bar>>
  BY Zenon DEF HostResize
<1>4. r \in Rectangle /\ RootRect' = r
  <2> HIDE DEF laid, win, N, At, Owner, Place1, Snap
  <2> QED
    BY <1>2, <1>3, RootIsRectangle DEF RootRect
<1>5. \A v \in Window : IsTreeOrNone(window[v].root) /\ PanesIn(window[v].root) \subseteq PaneId
  BY <1>2, WindowTree
<1> HIDE DEF r
<1>6. ASSUME NEW v \in Window
      PROVE  /\ WindowOK(laid[v]) /\ laid[v].root = window[v].root /\ laid[v].closing = window[v].closing
             /\ laid[v].zoomed = window[v].zoomed
  <2>1. CASE window[v].root = NoTree
    BY <1>2, <2>1
  <2>2. CASE window[v].root # NoTree
    <3> DEFINE o == [window[v] EXCEPT !.area = r]
    <3>1. WindowOK(window[v]) /\ laid[v] = o
      BY <1>2, <2>2
    <3>2. IsWindow(o) /\ o.root = window[v].root /\ o.closing = window[v].closing /\ o.area = r /\ o.zoomed = window[v].zoomed
      BY <3>1 DEF WindowOK, IsWindow
    <3> HIDE DEF o
    <3>3. WindowOK(o)
      BY <1>4, <3>1, <3>2 DEF WindowOK
    <3> QED
      BY <3>1, <3>2, <3>3
  <2> QED
    BY <2>1, <2>2
<1>7. /\ DOMAIN win = Window /\ win[current] = SettledWindow(laid[current])
      /\ \A v \in Window \ {current} : win[v] = laid[v]
  BY <1>2
<1> HIDE DEF laid, win
<1>8. /\ DOMAIN N = PaneId
      /\ \A p \in PaneId : N[p] = IF p \in W.closing THEN NoLeaf
                                  ELSE IF Owner(p) = {} THEN leaf[p]
                                  ELSE IF current \in Owner(p) THEN Still(Snap(p)) ELSE Snap(p)
  OBVIOUS
<1> HIDE DEF N
<1>9. ASSUME NEW p \in PaneId
      PROVE  LET m == Snap(p) IN
             LeafOK(m) /\ Drawn(m, Place1(p)) /\ m.target = Place1(p) /\ m.left = leaf[p].left
  <2> HIDE DEF At, Owner, Place1
  <2> DEFINE l == leaf[p]
             t == Place1(p)
             m == [Sized(l, Content(t)) EXCEPT !.cur = t, !.target = t]
  <2>1. LeafOK(l)
    BY <1>1 DEF LeavesOK
  <2>2. Snap(p) = m
    OBVIOUS
  <2> HIDE DEF l, t, Snap
  <2>3. LeafOK(m) /\ Drawn(m, t) /\ m.target = t /\ m.left = l.left
    BY <2>1, SnappedIs
  <2> HIDE DEF m
  <2> QED
    BY <2>2, <2>3 DEF l, t
<1>10. ASSUME NEW v \in Window, NEW p \in PanesIn(window[v].root)
       PROVE  /\ p \in PaneId /\ Owner(p) = {v} /\ Place1(p) = At(v)[p] /\ At(v)[p] \in Rectangle
              /\ v # current => p \notin W.closing
  <2>1. p \in PaneId /\ \A u \in Window : u # v => p \notin PanesIn(window[u].root)
    BY <1>2, <1>5 DEF WindowsOK
  <2>2. Owner(p) = {v}
    BY <2>1
  <2>3. (CHOOSE u \in Owner(p) : TRUE) = v
    BY <2>2
  <2>4. At(v)[p] \in Rectangle
    BY <1>4, <1>5, LayOutIs
  <2>5. v # current => p \notin W.closing
    BY <1>2 DEF WindowsOK, W
  <2> HIDE DEF At, Owner
  <2> QED
    BY <2>1, <2>2, <2>3, <2>4, <2>5
<1> HIDE DEF Place1, Snap, Owner, At
<1>11. LeavesOK(N)
  <2> SUFFICES ASSUME NEW p \in PaneId PROVE LeafOK(N[p])
    BY <1>8 DEF LeavesOK
  <2>1. LeafOK(leaf[p]) /\ LeafOK(Snap(p)) /\ LeafOK(NoLeaf)
    BY <1>1, <1>9, NoLeafIs DEF LeavesOK
  <2>2. LeafOK(Still(Snap(p)))
    BY <2>1, StillIs
  <2> QED
    BY <1>8, <2>1, <2>2
<1>12. \A t : Pruned(t, {}) = t
  BY Zenon DEF Pruned
<1> DEFINE more == rough'
<1> HIDE DEF more
<1>13. ASSUME NEW v \in Window, v # current
       PROVE  Targeted(N, win[v]) /\ Hidden(N, win[v]) /\ Sound(N, win[v], r)
  <2> DEFINE o == win[v]
             at == LayOut(o.root, r, o.zoomed)
  <2>1. o.root = window[v].root /\ o.closing = {} /\ at = At(v) /\ Hidden(leaf, window[v])
    BY <1>1, <1>6, <1>7, <1>13 DEF Hidden, At
  <2> HIDE DEF at, o
  <2>2. \A p \in PanesIn(o.root) : /\ N[p].left = 0 /\ N[p].target = at[p] /\ N[p].target \in Rectangle
                                   /\ Drawn(N[p], at[p])
    <3> TAKE p \in PanesIn(o.root)
    <3>1. /\ p \in PaneId /\ Owner(p) = {v} /\ Place1(p) = At(v)[p] /\ At(v)[p] \in Rectangle
          /\ p \notin W.closing /\ leaf[p].left = 0
      BY <1>10, <1>13, <2>1 DEF Hidden
    <3>2. N[p] = Snap(p)
      BY <1>8, <1>13, <3>1
    <3> QED
      BY <1>9, <2>1, <3>1, <3>2
  <2>3. Targeted(N, o) /\ Hidden(N, o)
    BY <2>1, <2>2 DEF Targeted, Hidden
  <2>4. Pruned(o.root, o.closing) = o.root
    BY <1>12, <2>1
  <2>5. Lands(N, o, r) /\ Placed(N, o, r)
    BY <2>2, <2>4 DEF Lands, Placed, at
  <2> QED
    BY <2>3, <2>5 DEF Sound, o
<1>14. Targeted(N, win[current]) /\ (current \notin more => Sound(N, win[current], r))
  <2> DEFINE l == laid[current]
             o == win[current]
             at == LayOut(W.root, r, W.zoomed)
  <2>1. /\ WindowOK(l) /\ l.root = W.root /\ l.closing = W.closing /\ l.zoomed = W.zoomed /\ o = SettledWindow(l)
    BY <1>2, <1>6, <1>7 DEF W
  <2>2. at = At(current)
    BY DEF At, W
  <2> HIDE DEF l, o, at
  <2>3. /\ o.root = Pruned(W.root, W.closing) /\ o.closing = {} /\ o.zoomed = W.zoomed
        /\ PanesIn(o.root) \subseteq PanesIn(W.root) \ W.closing
    BY <2>1, SettledOK
  <2>4. \A p \in PanesIn(o.root) : /\ N[p].left = 0 /\ N[p].target = at[p] /\ N[p].target \in Rectangle
                                   /\ Drawn(N[p], at[p])
    <3> TAKE p \in PanesIn(o.root)
    <3>1. p \in PanesIn(window[current].root) /\ p \notin W.closing
      BY <2>3 DEF W
    <3>2. p \in PaneId /\ Owner(p) = {current} /\ Place1(p) = at[p] /\ at[p] \in Rectangle
      BY <1>2, <1>10, <2>2, <3>1
    <3> DEFINE s == Snap(p)
    <3>3. N[p] = Still(s)
      BY <1>8, <3>1, <3>2
    <3>4. LeafOK(s) /\ Drawn(s, at[p]) /\ s.target = at[p]
      BY <1>9, <3>2
    <3> HIDE DEF s
    <3>5. LET m == Still(s) IN m.left = 0 /\ m.cur = s.cur /\ m.target = s.target /\ m.pty = s.pty /\ m.grid = s.grid
      BY <3>4, StillIs
    <3> QED
      BY <3>2, <3>3, <3>4, <3>5 DEF Drawn
  <2>5. Targeted(N, o)
    BY <2>4 DEF Targeted
  <2>6. ASSUME current \notin more PROVE Sound(N, o, r)
    <3>1. W.closing = {}
      BY <1>3, <2>6 DEF Closing, more
    <3>2. o.root = W.root /\ Pruned(o.root, o.closing) = o.root
      BY <1>12, <2>3, <3>1
    <3>3. Lands(N, o, r) /\ Placed(N, o, r)
      BY <2>3, <2>4, <3>2 DEF Lands, Placed, at
    <3> QED
      BY <3>3 DEF Sound
  <2> QED
    BY <2>5, <2>6 DEF o
<1>15. LandsIn(N, win, current, more, r)
  BY <1>11, <1>13, <1>14 DEF LandsIn
<1>16. LandsIn(leaf', window', current', rough', RootRect')
  BY <1>3, <1>4, <1>15 DEF more
<1>17. LandsIn(leaf, window, current, rough, RootRect)'
  BY <1>16 DEF LandsIn, LeavesOK, Sound, Lands, Placed, Targeted, Hidden
<1> QED
  BY <1>1, <1>17 DEF LandsInv

\* What the timeline does to one pane.
LEMMA AdvancedIs ==
  ASSUME NEW p, LeafOK(leaf[p]), NEW d \in Nat \ {0}
  PROVE  LET l == leaf[p]
             m == Advanced(p, d)
         IN /\ LeafOK(m) /\ m.target = l.target /\ m.pty = l.pty /\ m.grid = l.grid
            /\ l.left = 0 \/ p \notin Shown => m.left = 0 /\ m.cur = l.cur
            /\ p \in Shown /\ l.left \in 1 .. d => m.left = 0 /\ m.cur = l.to
            /\ p \in Shown /\ l.left > d => m.left > 0 /\ m.to = l.to
<1> DEFINE l == leaf[p]
           m == Advanced(p, d)
           a == Still(l)
<1>1. LeafOK(a) /\ a.left = 0 /\ a.cur = l.cur /\ a.target = l.target /\ a.pty = l.pty /\ a.grid = l.grid
  <2> HIDE DEF l
  <2> QED
    BY StillIs DEF l
<1>2. l.left \in Nat
  BY DEF LeafOK
<1>3. CASE l.left = 0 \/ p \notin Shown
  <2>1. m = a
    BY <1>3 DEF Advanced
  <2> HIDE DEF m, a, l
  <2>2. ~(p \in Shown /\ l.left \in 1 .. d) /\ ~(p \in Shown /\ l.left > d)
    BY <1>3
  <2> QED
    BY <1>1, <2>1, <2>2 DEF m, l
<1>4. CASE l.left # 0 /\ p \in Shown /\ l.left <= d
  <2> DEFINE to == l.to
             b == [a EXCEPT !.cur = to]
  <2>1. m = b
    BY <1>4 DEF Advanced
  <2> HIDE DEF to, a, m, l
  <2>2. LeafOK(b) /\ b.left = 0 /\ b.cur = to /\ b.target = a.target /\ b.pty = a.pty /\ b.grid = a.grid
    BY <1>1 DEF LeafOK
  <2> HIDE DEF b
  <2>3. ~(l.left = 0 \/ p \notin Shown) /\ ~(l.left > d)
    BY <1>2, <1>4
  <2> QED
    BY <1>1, <2>1, <2>2, <2>3 DEF m, l, to
<1>5. CASE l.left # 0 /\ p \in Shown /\ ~(l.left <= d)
  <2> DEFINE c == IF l.cur = l.to THEN l.cur ELSE Moving
             n == l.left - d
             b == [l EXCEPT !.left = n, !.cur = c]
  <2>1. m = b
    BY <1>5 DEF Advanced
  <2>2. n \in Nat /\ n > 0
    BY <1>2, <1>5
  <2>3. LeafOK(l)
    OBVIOUS
  <2> HIDE DEF c, n, m, l
  <2>4. LeafOK(b) /\ b.left = n /\ b.to = l.to /\ b.target = l.target /\ b.pty = l.pty /\ b.grid = l.grid
    BY <2>2, <2>3 DEF LeafOK
  <2> HIDE DEF b
  <2>5. ~(l.left = 0 \/ p \notin Shown) /\ l.left \notin 1 .. d
    BY <1>2, <1>5
  <2> QED
    BY <2>1, <2>2, <2>4, <2>5 DEF m, l
<1> QED
  BY <1>3, <1>4, <1>5

LEMMA RectanglesAre ==
  ASSUME NEW r \in Rectangle
  PROVE  r # NoRect /\ SizeOf(r) = Content(r)
<1>1. Len(r) = 4
  BY DEF Rectangle
<1>2. Len(NoRect) = 0 /\ Len(Moving) = 1
  BY DEF NoRect, Moving
<1>3. r # NoRect /\ r # Moving
  BY <1>1, <1>2
<1> QED
  BY <1>3 DEF SizeOf

\* A pane after the timeline has moved it, and its program has been told.
Ticked(p, d, done) ==
  IF p \in done THEN NoLeaf
  ELSE LET l == Advanced(p, d)
       IN IF p \in Completed(d) \ W.closing /\ l.target # NoRect THEN Sized(l, SizeOf(l.cur)) ELSE l

LEMMA TickedIs ==
  ASSUME LandsInv, NEW d \in Nat \ {0}, NEW p \in PaneId
  PROVE  LET done == Finished(d)
             m == Ticked(p, d, done)
         IN /\ LeafOK(m)
            /\ p \notin done => m.target = leaf[p].target
            \* Off the screen nothing moves, and nothing changes size.
            /\ p \notin Shown /\ p \notin W.closing /\ leaf[p].left = 0 =>
                 m.left = 0 /\ m.cur = leaf[p].cur /\ m.pty = leaf[p].pty /\ m.grid = leaf[p].grid
            \* On screen a pane goes on, arrives, or stays.
            /\ \A at \in Rectangle :
                 p \in Shown /\ p \notin W.closing
                 /\ (IF leaf[p].left > 0 THEN leaf[p].to = at ELSE Drawn(leaf[p], at)) =>
                   IF m.left > 0 THEN m.to = at ELSE Drawn(m, at)
<1> DEFINE done == Finished(d)
           m == Ticked(p, d, done)
           l == leaf[p]
           a == Advanced(p, d)
<1>1. LeafOK(l) /\ l.left \in Nat /\ done \subseteq W.closing
  BY LandsAre DEF LeavesOK, LeafOK, Finished
<1>2. /\ LeafOK(a) /\ a.target = l.target /\ a.pty = l.pty /\ a.grid = l.grid
      /\ l.left = 0 \/ p \notin Shown => a.left = 0 /\ a.cur = l.cur
      /\ p \in Shown /\ l.left \in 1 .. d => a.left = 0 /\ a.cur = l.to
      /\ p \in Shown /\ l.left > d => a.left > 0 /\ a.to = l.to
  BY <1>1, AdvancedIs
<1>3. p \in Completed(d) <=> W.root # NoTree /\ l.left \in 1 .. d
  BY DEF Completed
<1> DEFINE size == SizeOf(a.cur)
           told == p \in Completed(d) \ W.closing /\ a.target # NoRect
<1>4. m = IF p \in done THEN NoLeaf ELSE IF told THEN Sized(a, size) ELSE a
  BY DEF Ticked
<1> HIDE DEF m, a, l, done, size
<1>5. LET b == Sized(a, size) IN
      LeafOK(b) /\ b.pty = size /\ b.grid = size /\ b.cur = a.cur /\ b.target = a.target /\ b.to = a.to /\ b.left = a.left
  BY <1>2, SizedIs
<1> HIDE DEF told
<1>6. LeafOK(m) /\ (p \notin done => m.target = l.target)
  BY <1>2, <1>4, <1>5, NoLeafIs
<1>7. ASSUME p \notin Shown, p \notin W.closing, l.left = 0
      PROVE  m.left = 0 /\ m.cur = l.cur /\ m.pty = l.pty /\ m.grid = l.grid
  <2>1. ~told /\ p \notin done
    BY <1>1, <1>3, <1>7 DEF told
  <2> QED
    BY <1>2, <1>4, <1>7, <2>1
<1>8. ASSUME NEW at \in Rectangle, p \in Shown, p \notin W.closing,
             IF l.left > 0 THEN l.to = at ELSE Drawn(l, at)
      PROVE  IF m.left > 0 THEN m.to = at ELSE Drawn(m, at)
  <2>1. p \notin done
    BY <1>1, <1>8
  <2>2. CASE l.left = 0
    <3>1. ~told /\ Drawn(l, at)
      BY <1>3, <1>8, <2>2 DEF told
    <3> QED
      BY <1>2, <1>4, <2>1, <2>2, <3>1 DEF Drawn
  <2>3. CASE l.left \in 1 .. d
    <3>1. l.to = at /\ a.left = 0 /\ a.cur = at
      BY <1>2, <1>8, <2>3
    <3>2. told
      <4>1. W.root # NoTree
        BY <1>8, NoTreeEmpty DEF Shown
      <4>2. l.target \in Rectangle
        BY <1>8, LandsAre DEF Targeted, Shown, l
      <4> QED
        BY <1>2, <1>3, <1>8, <2>3, <4>1, <4>2, RectanglesAre DEF told
    <3>3. size = Content(at)
      BY <3>1, RectanglesAre DEF size
    <3> QED
      BY <1>4, <1>5, <2>1, <3>1, <3>2, <3>3 DEF Drawn
  <2>4. CASE l.left > d
    <3>1. ~told /\ l.to = at /\ a.left > 0 /\ a.to = at
      BY <1>1, <1>2, <1>3, <1>8, <2>4 DEF told
    <3> QED
      BY <1>4, <2>1, <3>1
  <2> QED
    BY <1>1, <2>2, <2>3, <2>4
<1> QED
  BY <1>6, <1>7, <1>8 DEF m, l, done

LEMMA TickLands == ASSUME LandsInv, NEW d \in Nat \ {0}, Tick(d) PROVE LandsInv'
<1> DEFINE done == Finished(d)
           root == IF W.root = NoTree THEN NoTree ELSE Pruned(W.root, done)
           w == [W EXCEPT
                   !.root = root,
                   !.closing = @ \ done,
                   !.focused = IF done = {} \/ W.root = NoTree THEN @
                               ELSE IF root = NoTree THEN NoPane
                               ELSE IF @ \in done \cup {NoPane} THEN FirstLeaf(root) ELSE @,
                   !.area = IF done # {} /\ root # NoTree THEN RootRect ELSE @]
           L == [p \in PaneId |-> Ticked(p, d, done)]
           R == Recomputed(L, w, RootRect)
           N == IF done # {} /\ root # NoTree THEN R ELSE L
           new == window'
           more == rough'
           T == Pruned(W.root, W.closing)
           at == LayOut(T, RootRect, W.zoomed)
<1>1. /\ window' = [window EXCEPT ![current] = w] /\ leaf' = N /\ rough' = Mark(current, done # {} /\ w.closing # {})
      /\ UNCHANGED <<current, screen, bar>>
  BY Zenon DEF Tick, Put, Ticked
<1>2. /\ TreesInv /\ TreesInv' /\ LeavesOK(leaf) /\ Targeted(leaf, W)
      /\ current \notin rough => Sound(leaf, W, RootRect)
      /\ \A v \in Window : /\ Targeted(leaf, window[v])
                           /\ v # current => Hidden(leaf, window[v])
                           /\ v \notin rough => Sound(leaf, window[v], RootRect)
  BY LandsAre, TickIs
<1>3. /\ current \in Window /\ DOMAIN window = Window /\ RootRect \in Rectangle /\ spawned \in 0 .. MaxPanes
      /\ WindowsOK(window, spawned) /\ \A v \in Window : WindowOK(window[v])
  BY <1>2, TreesAre
<1>4. /\ done \subseteq W.closing /\ new[current].root = root /\ new[current].closing = W.closing \ done
      /\ new[current].zoomed = W.zoomed
  BY <1>2, TickIs
<1>5. new[current] = w /\ \A v \in Window \ {current} : new[v] = window[v]
  BY <1>1, <1>3
<1>6. w.root = root /\ w.closing = W.closing \ done /\ w.zoomed = W.zoomed
  BY <1>4, <1>5
<1>7. spawned' \in 0 .. MaxPanes /\ WindowsOK(new, spawned')
  BY <1>2 DEF TreesInv
<1> HIDE DEF w, new
<1>8. \A p \in PaneId : L[p] = Ticked(p, d, done)
  OBVIOUS
<1>9. DOMAIN L = PaneId
  OBVIOUS
<1>10. ASSUME NEW p \in PaneId
       PROVE  /\ LeafOK(L[p])
              /\ p \notin done => L[p].target = leaf[p].target
              /\ p \notin Shown /\ p \notin W.closing /\ leaf[p].left = 0 =>
                   L[p].left = 0 /\ L[p].cur = leaf[p].cur /\ L[p].pty = leaf[p].pty /\ L[p].grid = leaf[p].grid
              /\ \A to \in Rectangle :
                   p \in Shown /\ p \notin W.closing
                   /\ (IF leaf[p].left > 0 THEN leaf[p].to = to ELSE Drawn(leaf[p], to)) =>
                     IF L[p].left > 0 THEN L[p].to = to ELSE Drawn(L[p], to)
  BY <1>8, TickedIs
<1> HIDE DEF L
<1>11. LeavesOK(L)
  BY <1>9, <1>10 DEF LeavesOK
<1>12. PanesIn(root) \subseteq Shown \ done /\ PanesIn(root) \subseteq PaneId /\ IsTreeOrNone(root)
  <2>1. Shown \subseteq PaneId /\ IsTreeOrNone(W.root) /\ IsFiniteSet(done)
    BY <1>2, <1>3, WindowTree, TickIs DEF W, Shown
  <2>2. CASE W.root = NoTree
    BY <2>2, NoTreeEmpty DEF IsTreeOrNone
  <2>3. CASE IsTree(W.root)
    <3>1. W.root # NoTree
      BY <2>3, NoTreeEmpty
    <3> HIDE DEF done
    <3>2. \/ root = NoTree
          \/ IsTree(root) /\ PanesIn(root) = PanesIn(W.root) \ done
      BY <2>1, <2>3, <3>1, PrunedIs
    <3> HIDE DEF root
    <3> QED
      BY <2>1, <3>2, NoTreeEmpty DEF IsTreeOrNone, Shown
  <2> QED
    BY <2>1, <2>2, <2>3 DEF IsTreeOrNone
<1>13. /\ LeavesOK(R)
       /\ \A p \in PaneId \ PanesIn(root) : R[p] = L[p]
       /\ \A p \in PanesIn(root) : R[p].target = LayOut(root, RootRect, w.zoomed)[p] /\ R[p].target \in Rectangle
       /\ \A p \in PaneId : /\ R[p].cur = L[p].cur /\ R[p].to = L[p].to /\ R[p].left = L[p].left
                            /\ R[p].pty = L[p].pty /\ R[p].grid = L[p].grid
  BY <1>3, <1>6, <1>11, <1>12, RecomputedIs
<1>14. T = Pruned(W.root, W.closing) /\ (\A t : Pruned(t, {}) = t) /\ Pruned(NoTree, W.closing \ done) = NoTree
  BY PruningNothing, Zenon DEF Pruned
<1>15. PanesIn(T) \subseteq Shown \ W.closing /\ PanesIn(T) \subseteq PaneId /\ IsTreeOrNone(T)
  <2>1. WindowOK(W) /\ Shown \subseteq PaneId
    BY <1>3, WindowTree DEF W, Shown
  <2>2. WindowOK(SettledWindow(W)) /\ SettledWindow(W).root = T /\ PanesIn(T) \subseteq PanesIn(W.root) \ W.closing
    BY <2>1, SettledOK
  <2> HIDE DEF T
  <2> QED
    BY <2>1, <2>2 DEF WindowOK, IsTreeOrNone, Shown
<1> HIDE DEF R
<1>16. /\ \A v : v \in rough => v \in more
       /\ current \notin more => ~(done # {} /\ w.closing # {}) /\ current \notin rough
  <2> DEFINE bad == done # {} /\ w.closing # {}
  <2>1. rough' = Mark(current, bad)
    BY <1>1
  <2> HIDE DEF bad
  <2>2. (\A u : u \in rough => u \in rough') /\ (current \notin rough' => ~bad /\ current \notin rough)
    BY <2>1, MarkIs
  <2> QED
    BY <2>2 DEF bad, more
<1> HIDE DEF more
<1>17. Targeted(N, w)
  <2>1. CASE done # {} /\ root # NoTree
    BY <1>6, <1>13, <2>1 DEF Targeted
  <2>2. CASE ~(done # {} /\ root # NoTree)
    BY <1>2, <1>6, <1>10, <1>12, <2>2 DEF Targeted, Shown
  <2> QED
    BY <2>1, <2>2
<1>18. LeavesOK(N)
  BY <1>11, <1>13
<1>19. \A p \in PaneId : /\ N[p].cur = L[p].cur /\ N[p].to = L[p].to /\ N[p].left = L[p].left
                         /\ N[p].pty = L[p].pty /\ N[p].grid = L[p].grid
                         /\ p \notin PanesIn(root) => N[p].target = L[p].target
  BY <1>13
<1>20. ASSUME current \notin more PROVE Sound(N, w, RootRect)
  <2>1. Sound(leaf, W, RootRect) /\ (done = {} \/ W.closing = done)
    BY <1>2, <1>4, <1>6, <1>16, <1>20
  <2>2. Pruned(w.root, w.closing) = T
    <3>1. CASE W.root = NoTree
      <4>1. T = NoTree
        BY <3>1, PruningNothing
      <4> HIDE DEF T
      <4> QED
        BY <1>6, <1>14, <3>1, <4>1
    <3>2. CASE W.root # NoTree /\ done = {}
      BY <1>6, <1>14, <3>2
    <3>3. CASE W.root # NoTree /\ W.closing = done
      BY <1>6, <1>14, <3>3
    <3> QED
      BY <2>1, <3>1, <3>2, <3>3
  <2>3. \A p \in PanesIn(T) : at[p] \in Rectangle
    BY <1>3, <1>15, LayOutIs
  <2>4. \A p \in PanesIn(T) : IF leaf[p].left > 0 THEN leaf[p].to = at[p] ELSE Drawn(leaf[p], at[p])
    BY <2>1 DEF Sound, Lands
  <2> HIDE DEF at, T, N, done, root
  <2>5. \A p \in PanesIn(T) : IF N[p].left > 0 THEN N[p].to = at[p] ELSE Drawn(N[p], at[p])
    <3> TAKE p \in PanesIn(T)
    <3>1. p \in PaneId /\ p \in Shown /\ p \notin W.closing /\ at[p] \in Rectangle
      BY <1>15, <2>3
    <3>2. IF L[p].left > 0 THEN L[p].to = at[p] ELSE Drawn(L[p], at[p])
      BY <1>10, <2>4, <3>1
    <3> QED
      BY <1>19, <3>1, <3>2 DEF Drawn
  <2>6. Lands(N, w, RootRect)
    BY <1>6, <2>2, <2>5 DEF Lands, at
  <2>7. ASSUME w.closing = {} PROVE Placed(N, w, RootRect)
    <3>1. CASE done # {} /\ root # NoTree
      BY <1>6, <1>13, <3>1 DEF Placed, N
    <3>2. CASE done # {} /\ root = NoTree
      BY <1>6, <3>2, NoTreeEmpty DEF Placed
    <3>3. CASE done = {}
      <4>1. W.closing = {} /\ N = L
        BY <1>6, <2>7, <3>3 DEF N
      <4>2. Placed(leaf, W, RootRect)
        BY <2>1, <4>1 DEF Sound
      <4>3. root = W.root
        BY <1>14, <3>3 DEF root
      <4> QED
        BY <1>6, <1>10, <1>12, <3>3, <4>1, <4>2, <4>3 DEF Placed, Shown
    <3> QED
      BY <3>1, <3>2, <3>3
  <2> QED
    BY <2>6, <2>7 DEF Sound
<1>21. ASSUME NEW v \in Window, v # current
       PROVE  /\ Targeted(N, window[v]) /\ Hidden(N, window[v])
              /\ v \notin rough => Sound(N, window[v], RootRect)
  <2> DEFINE o == window[v]
  <2>1. Targeted(leaf, o) /\ Hidden(leaf, o) /\ (v \notin rough => Sound(leaf, o, RootRect)) /\ WindowOK(o)
    BY <1>2, <1>3, <1>21
  <2>2. \A p \in PanesIn(o.root) : p \in PaneId /\ p \notin Shown /\ p \notin W.closing
    BY <1>3, <1>21, WindowTree DEF WindowsOK, W, Shown
  <2> HIDE DEF o, N, done, root
  <2>3. \A p \in PanesIn(o.root) :
          /\ N[p].left = 0 /\ leaf[p].left = 0 /\ N[p].cur = leaf[p].cur /\ N[p].target = leaf[p].target
          /\ N[p].pty = leaf[p].pty /\ N[p].grid = leaf[p].grid
    <3> TAKE p \in PanesIn(o.root)
    <3>1. p \in PaneId /\ p \notin Shown /\ p \notin W.closing /\ p \notin done /\ p \notin PanesIn(root) /\ leaf[p].left = 0
      BY <1>4, <1>12, <2>1, <2>2 DEF Hidden
    <3> QED
      BY <1>10, <1>19, <3>1
  <2>4. Targeted(N, o) /\ Hidden(N, o)
    BY <2>1, <2>3 DEF Targeted, Hidden
  <2>5. ASSUME v \notin rough PROVE Sound(N, o, RootRect)
    <3>1. Sound(leaf, o, RootRect) /\ o.closing = {}
      BY <2>1, <2>5 DEF Hidden
    <3>2. Pruned(o.root, o.closing) = o.root
      BY <1>14, <3>1
    <3>3. Lands(N, o, RootRect)
      BY <2>3, <3>1, <3>2 DEF Sound, Lands, Drawn
    <3>4. Placed(N, o, RootRect)
      BY <2>3, <3>1 DEF Sound, Placed
    <3> QED
      BY <3>3, <3>4 DEF Sound
  <2> QED
    BY <2>4, <2>5 DEF o
<1> HIDE DEF N
<1>22. LandsIn(N, new, current, more, RootRect)
  <2> SUFFICES ASSUME NEW v \in Window
               PROVE  /\ Targeted(N, new[v])
                      /\ v # current => Hidden(N, new[v])
                      /\ v \notin more => Sound(N, new[v], RootRect)
    BY <1>18 DEF LandsIn
  <2>1. CASE v = current
    BY <1>5, <1>17, <1>20, <2>1
  <2>2. CASE v # current
    BY <1>5, <1>16, <1>21, <2>2
  <2> QED
    BY <2>1, <2>2
<1>23. RootRect' = RootRect
  BY <1>1 DEF RootRect
<1>24. LandsIn(leaf', window', current', rough', RootRect')
  BY <1>1, <1>22, <1>23 DEF new, more
<1>25. LandsIn(leaf, window, current, rough, RootRect)'
  BY <1>24 DEF LandsIn, LeavesOK, Sound, Lands, Placed, Targeted, Hidden
<1> QED
  BY <1>2, <1>25 DEF LandsInv

LEMMA LandsInit == Init => LandsInv
<1> SUFFICES ASSUME Init PROVE LandsInv
  OBVIOUS
<1>1. TreesInv
  BY TreesInit
<1>2. bar = TRUE /\ screen \in Sizes /\ current = 1 /\ rough = {}
  BY DEF Init
<1> DEFINE r == RootOf(screen, TRUE)
<1>3. PICK root \in Startups :
        /\ spawned = Cardinality(PanesIn(root))
        /\ window = [w \in Window |-> IF w = 1 THEN [Lone(NoWindow, 1, r) EXCEPT !.root = root] ELSE NoWindow]
        /\ leaf = [p \in PaneId |-> IF p \in DOMAIN Laid(root, r)
                                    THEN Fresh(Laid(root, r)[p], Content(Laid(root, r)[p])) ELSE NoLeaf]
  BY DEF Init
<1> DEFINE at == Laid(root, r)
           first == [Lone(NoWindow, 1, r) EXCEPT !.root = root]
<1>4. r \in Rectangle /\ RootRect = r
  BY <1>2, RootIsRectangle DEF RootRect
<1>5. DOMAIN window = Window /\ \A w \in Window : window[w] = IF w = 1 THEN first ELSE NoWindow
  BY <1>3
<1>6. first.root = root /\ first.closing = {} /\ first.zoomed = NoPane
  BY DEF Lone, NoWindow
<1>7. NoWindow.root = NoTree /\ NoWindow.closing = {}
  BY DEF NoWindow
<1>8. DOMAIN leaf = PaneId /\ \A p \in PaneId : leaf[p] = IF p \in DOMAIN at THEN Fresh(at[p], Content(at[p])) ELSE NoLeaf
  BY <1>3
<1>9. IsTree(root) /\ PanesIn(root) \subseteq PaneId /\ 0 \notin PanesIn(root) /\ DOMAIN at = PanesIn(root)
  <2>1. IsTree(root) /\ PanesIn(root) = 1 .. Cardinality(PanesIn(root)) /\ DOMAIN at = PanesIn(root)
    BY LayoutAssumption DEF Laid
  <2>2. 1 \in Window /\ spawned \in 0 .. MaxPanes
    BY <1>1, <1>2, TreesAre
  <2>3. PanesIn(root) = 1 .. spawned
    BY <1>3, <2>1
  <2>4. 1 .. spawned \subseteq PaneId /\ 0 \notin 1 .. spawned
    BY <2>2, LayoutAssumption DEF PaneId
  <2> QED
    BY <2>1, <2>3, <2>4
<1> HIDE DEF r, first
<1>10. DOMAIN LayOut(root, r, NoPane) = PanesIn(root)
       /\ \A p \in PanesIn(root) : LayOut(root, r, NoPane)[p] = at[p] /\ at[p] \in Rectangle
  <2>1. /\ DOMAIN LayOut(root, r, NoPane) = PanesIn(root)
        /\ \A p \in PanesIn(root) : /\ LayOut(root, r, NoPane)[p] \in Rectangle
                                    /\ LayOut(root, r, NoPane)[p] = IF p = NoPane THEN r ELSE Laid(root, r)[p]
    BY <1>4, <1>9, LayOutIs DEF IsTreeOrNone
  <2> QED
    BY <1>9, <2>1 DEF NoPane
<1> HIDE DEF at
<1>11. \A p \in PaneId : /\ LeafOK(leaf[p]) /\ leaf[p].left = 0
                         /\ p \in PanesIn(root) => leaf[p].target = at[p] /\ Drawn(leaf[p], at[p])
  BY <1>8, <1>9, FreshIs, NoLeafIs DEF Drawn
<1>12. LeavesOK(leaf)
  BY <1>8, <1>11 DEF LeavesOK
<1>13. \A t : Pruned(t, {}) = t
  BY Zenon DEF Pruned
<1>14. Targeted(leaf, first) /\ Hidden(leaf, first) /\ Sound(leaf, first, r)
  <2>1. Targeted(leaf, first) /\ Hidden(leaf, first)
    BY <1>6, <1>9, <1>10, <1>11 DEF Targeted, Hidden
  <2>2. Lands(leaf, first, r)
    BY <1>6, <1>9, <1>10, <1>11, <1>13 DEF Lands
  <2>3. Placed(leaf, first, r)
    BY <1>6, <1>9, <1>10, <1>11 DEF Placed
  <2> QED
    BY <2>1, <2>2, <2>3 DEF Sound
<1>15. Targeted(leaf, NoWindow) /\ Hidden(leaf, NoWindow) /\ Sound(leaf, NoWindow, r)
  <2>1. PanesIn(NoWindow.root) = {} /\ Pruned(NoWindow.root, NoWindow.closing) = NoWindow.root
    BY <1>7, <1>13, NoTreeEmpty
  <2> QED
    BY <1>7, <2>1 DEF Targeted, Hidden, Sound, Lands, Placed
<1>16. LandsIn(leaf, window, current, rough, r)
  <2> SUFFICES ASSUME NEW v \in Window
               PROVE  /\ Targeted(leaf, window[v]) /\ Hidden(leaf, window[v]) /\ Sound(leaf, window[v], r)
    BY <1>12 DEF LandsIn
  <2>1. window[v] = first \/ window[v] = NoWindow
    BY <1>5
  <2> QED
    BY <1>14, <1>15, <2>1
<1> QED
  BY <1>1, <1>4, <1>16 DEF LandsInv

LEMMA LandsStep == LandsInv /\ [Next]_vars => LandsInv'
<1> SUFFICES ASSUME LandsInv, [Next]_vars PROVE LandsInv'
  OBVIOUS
<1>1. ASSUME NEW p \in PaneId, NEW split \in {Vertical, Horizontal}, NEW share \in Shares, NEW d \in BOOLEAN,
             Split(p, split, share, d)
      PROVE  LandsInv'
  BY <1>1, SplitLands DEF Axes
<1>2. ASSUME NEW p \in PaneId, NEW dir \in Directions, NEW n \in Amounts, ResizeBy(p, dir, n) PROVE LandsInv'
  BY <1>2, ResizeByLands, LayoutAssumption
<1>3. ASSUME NEW p \in PaneId, NEW axis \in {Vertical, Horizontal}, NEW n \in Amounts, ResizePaneTo(p, axis, n)
      PROVE  LandsInv'
  BY <1>3, ResizePaneToLands, LayoutAssumption
<1>4. ASSUME NEW p \in PaneId, ToggleZoom(p) \/ KillPane(p) \/ PaneDied(p) \/ RespawnPane(p) PROVE LandsInv'
  BY <1>4, ToggleZoomLands, KillPaneLands, PaneDiedLands, RespawnPaneLands
<1>5. ASSUME NEW p \in PaneId, NEW q \in PaneId, NEW keep \in BOOLEAN, SwapPanes(p, q, keep) PROVE LandsInv'
  BY <1>5, SwapPanesLands
<1>6. ASSUME NEW reverse \in BOOLEAN, RotateWindow(reverse) PROVE LandsInv'
  BY <1>6, RotateWindowLands
<1>7. ASSUME NEW name \in Presets, SelectLayout(name) PROVE LandsInv'
  BY <1>7, SelectLayoutLands
<1>8. ASSUME NEW dir \in Directions, FocusDirection(dir) PROVE LandsInv'
  BY <1>8, FocusDirectionLands
<1>9. ASSUME NEW v \in Window, Switch(v) PROVE LandsInv'
  BY <1>9, SwitchLands
<1>10. ASSUME NEW p \in PaneId, NEW v \in Window, NEW d \in BOOLEAN, BreakPane(p, v, d) PROVE LandsInv'
  BY <1>10, BreakPaneLands
<1>11. ASSUME NEW u \in Window, NEW v \in Window, NEW p \in PanesIn(window[u].root),
              NEW onto \in PanesIn(window[v].root), NEW split \in {Vertical, Horizontal}, NEW d \in BOOLEAN,
              JoinPane(p, u, onto, v, split, d)
       PROVE  LandsInv'
  BY <1>11, JoinPaneLands DEF Axes
<1>12. ASSUME NEW size \in Sizes, HostResize(size) PROVE LandsInv'
  BY <1>12, HostResizeLands
<1>13. ASSUME NEW d \in {1, NewTime}, Tick(d) PROVE LandsInv'
  <2>1. d \in Nat \ {0}
    BY DEF NewTime
  <2> QED
    BY <1>13, <2>1, TickLands
<1>14. ASSUME UNCHANGED vars PROVE LandsInv'
  <2>1. TreesInv'
    BY <1>14, TreesStep DEF LandsInv
  <2>2. LandsIn(leaf, window, current, rough, RootRect)
    BY DEF LandsInv
  <2>3. UNCHANGED <<leaf, window, current, rough, RootRect>>
    BY <1>14 DEF vars, RootRect
  <2>4. LandsIn(leaf', window', current', rough', RootRect')
    BY <2>2, <2>3
  <2>5. LandsIn(leaf, window, current, rough, RootRect)'
    BY <2>4 DEF LandsIn, LeavesOK, Sound, Lands, Placed, Targeted, Hidden
  <2> QED
    BY <2>1, <2>5 DEF LandsInv
<1> QED
  BY <1>1, <1>2, <1>3, <1>4, <1>5, <1>6, <1>7, <1>8, <1>9, <1>10, <1>11, <1>12, <1>13, <1>14, ToggleBarLands
     DEF Next, Ended, Idle

LEMMA InvariantLands == LandsInv => LayoutLands
<1> SUFFICES ASSUME LandsInv, current \notin rough
             PROVE  LET at == Landing(W)
                    IN \A p \in DOMAIN at :
                         IF leaf[p].left > 0 THEN leaf[p].to = at[p]
                         ELSE /\ leaf[p].cur = at[p]
                              /\ leaf[p].pty = Content(at[p]) /\ leaf[p].grid = Content(at[p])
  BY DEF LayoutLands
<1> DEFINE T == Pruned(W.root, W.closing)
           at == LayOut(T, RootRect, W.zoomed)
<1>1. Sound(leaf, W, RootRect) /\ WindowOK(W) /\ RootRect \in Rectangle
  BY LandsAre, TreesAre DEF W
<1>2. IsTreeOrNone(T)
  BY <1>1, PrunedPanes
<1>3. \A p \in PanesIn(T) : IF leaf[p].left > 0 THEN leaf[p].to = at[p] ELSE Drawn(leaf[p], at[p])
  BY <1>1 DEF Sound, Lands
<1>4. Landing(W) = at
  BY DEF Landing
<1> HIDE DEF T
<1>5. DOMAIN at = PanesIn(T)
  BY <1>1, <1>2, LayOutIs
<1> HIDE DEF at
<1> QED
  BY <1>3, <1>4, <1>5 DEF Drawn

\* Wherever every handler has moved and sized what its change concerns, a pane
\* is on its way to the slot that it will have once the panes that are closing
\* are gone, or is drawn there with its program and its emulator at that size.
THEOREM PanesAlwaysLand == Spec => []LayoutLands
<1>1. Init => LandsInv
  BY LandsInit
<1>2. LandsInv /\ [Next]_vars => LandsInv'
  BY LandsStep
<1>3. LandsInv => LayoutLands
  BY InvariantLands
<1> QED
  BY <1>1, <1>2, <1>3, PTL DEF Spec
=============================================================================
