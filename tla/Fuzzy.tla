-------------------------------- MODULE Fuzzy --------------------------------
(***************************************************************************)
(* The score that the picker ranks its rows by: src/src/picker/fuzzy.rs.   *)
(* `Scores` is the code's dynamic program.  `BestScore` says what it is    *)
(* for: the best of all the ways to find the query in the candidate.       *)
(*                                                                         *)
(* A text is a sequence of characters.                                     *)
(***************************************************************************)
EXTENDS Integers, Sequences, FiniteSets, FiniteSetsExt, LetterCase

Separators == {"-", "_", ":", ".", "/", " "}
ScoreStart == 12
ScoreBoundary == 8
ScoreConsecutive == 6
ScoreCaseMatch == 2
PenaltyGap == -1
PenaltyLeading == -1
Unreachable == -536870912     \* i32::MIN / 4

SameLetter(a, b) == Fold(a) = Fold(b)
\* The query without its spaces.
Wanted(query) ==
  LET at == {i \in DOMAIN query : query[i] # " "}
      place == [i \in at |-> Cardinality({k \in at : k <= i})]
  IN [n \in 1 .. Cardinality(at) |-> query[CHOOSE i \in at : place[i] = n]]

PositionBonus(text, j) ==
  IF j = 1 THEN ScoreStart ELSE IF text[j - 1] \in Separators THEN ScoreBoundary ELSE 0
Landing(q, text, i, j) ==
  PositionBonus(text, j) + (IF text[j] = q[i] THEN ScoreCaseMatch ELSE 0)
Step(k, j) ==
  IF j = k + 1 THEN ScoreConsecutive ELSE PenaltyGap * (j - k - 1)

\* A row of the table: q up to i, with q[i] at j, from the row before.
Row(q, text, i, previous) ==
  [j \in DOMAIN text |->
     IF ~SameLetter(text[j], q[i]) \/ j < i THEN Unreachable
     ELSE IF i = 1 THEN Landing(q, text, 1, j) + PenaltyLeading * (j - 1)
     ELSE LET from == {k \in (i - 1) .. (j - 1) : previous[k] # Unreachable}
          IN IF from = {} THEN Unreachable
             ELSE Max({previous[k] + Landing(q, text, i, j) + Step(k, j) : k \in from})]

Best(q, text) ==
  LET best[i \in 1 .. Len(q)] == Row(q, text, i, IF i = 1 THEN <<>> ELSE best[i - 1])
  IN best

Scores(query, text) ==
  LET q == Wanted(query)
  IN IF q = <<>> THEN {0}
     ELSE IF Len(q) > Len(text) THEN {}
     ELSE {Best(q, text)[Len(q)][j] : j \in DOMAIN text} \ {Unreachable}

Matches(query, text) == Scores(query, text) # {}
Score(query, text) == Max(Scores(query, text))

-----------------------------------------------------------------------------
(* What it is for *)

\* The ways to find q in a text: where each of its characters sits.
Alignments(q, text) ==
  {at \in [DOMAIN q -> DOMAIN text] :
     /\ \A i \in DOMAIN q : SameLetter(text[at[i]], q[i])
     /\ \A i, j \in DOMAIN q : i < j => at[i] < at[j]}

\* What the n-th character is worth there, the first n, and all of them.
Adds(q, text, at, n) ==
  Landing(q, text, n, at[n])
    + (IF n = 1 THEN PenaltyLeading * (at[1] - 1) ELSE Step(at[n - 1], at[n]))
WorthTo(q, text, at) ==
  LET sum[n \in 0 .. Len(q)] == IF n = 0 THEN 0 ELSE sum[n - 1] + Adds(q, text, at, n)
  IN sum
Worth(q, text, at) == WorthTo(q, text, at)[Len(q)]

BestScores(query, text) ==
  LET q == Wanted(query)
  IN IF q = <<>> THEN {0} ELSE {Worth(q, text, at) : at \in Alignments(q, text)}

\* The dynamic program finds a match exactly when there is one, and its best.
FindsBest(query, text) ==
  /\ Matches(query, text) <=> BestScores(query, text) # {}
  /\ Matches(query, text) => Score(query, text) = Max(BestScores(query, text))
=============================================================================
