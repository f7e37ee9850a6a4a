--------------------------- MODULE CommandsProofs ---------------------------
(***************************************************************************)
(* What commands do to a session (Commands), and to the configuration that *)
(* a session starts from (Configuration).                                  *)
(*                                                                         *)
(* For any callers, command lines, scripts and windows, a command that is  *)
(* refused takes no pane away, spawns none, and names and sets nothing, but *)
(* for the join-pane that finds too late that there is no place for the    *)
(* pane.  Every command keeps the shape of the session, so that a target   *)
(* which resolves is a window that is there and has panes.                 *)
(*                                                                         *)
(* A setting copied out of an option always says what the option says,     *)
(* whatever the files hold and however they source one another.  Nothing   *)
(* is assumed there of how lines are split into words or words parsed into *)
(* commands: a line is any command at all, and only what is stored of it   *)
(* matters.                                                                *)
(***************************************************************************)
EXTENDS Commands, Configuration, FiniteSetTheorems, WellFoundedInduction, SequenceTheorems, TLAPS

-----------------------------------------------------------------------------
(* Folds.  What a fold comes to is had from the least place at which it    *)
(* does not, as any set of naturals has a least element.                   *)

\* Of finite sets, one has none of the others as a proper part.
LEMMA FinMin ==
  ASSUME NEW S, NEW F \in SUBSET FiniteSubsetsOf(S), F # {}
  PROVE  \E A \in F : \A B \in F : ~(B \subseteq A /\ B # A)
<1>1. IsWellFoundedOn(StrictSubsetOrdering(S), FiniteSubsetsOf(S))
  BY FS_StrictSubsetOrderingWellFounded
<1>2. \E A \in F : \A B \in F : ~(<<B, A>> \in StrictSubsetOrdering(S))
  BY <1>1, WFMin
<1> QED
  BY <1>2 DEF StrictSubsetOrdering, FiniteSubsetsOf

\* Any set of naturals has a least element.
LEMMA NatMin ==
  ASSUME NEW N, N \subseteq Nat, N # {}
  PROVE  \E n \in N : \A m \in N : n <= m
<1> DEFINE Upto == {0 .. n : n \in N}
<1>1. Upto \in SUBSET FiniteSubsetsOf(Nat)
  <2> SUFFICES ASSUME NEW n \in N PROVE 0 .. n \subseteq Nat /\ IsFiniteSet(0 .. n)
    BY DEF FiniteSubsetsOf
  <2>1. n \in Nat
    OBVIOUS
  <2>2. IsFiniteSet(0 .. n)
    BY <2>1, FS_Interval
  <2> QED
    BY <2>1, <2>2
<1>2. Upto # {}
  OBVIOUS
<1>3. PICK A \in Upto : \A B \in Upto : ~(B \subseteq A /\ B # A)
  <2> HIDE DEF Upto
  <2> QED
    BY <1>1, <1>2, FinMin
<1> HIDE DEF Upto
<1>4. PICK n \in N : A = 0 .. n
  BY <1>3 DEF Upto
<1>5. ASSUME NEW m \in N, ~(n <= m) PROVE FALSE
  <2>1. 0 .. m \in Upto
    BY DEF Upto
  <2>2. n \in Nat /\ m \in Nat /\ m < n
    BY <1>5
  <2>3. 0 .. m \subseteq 0 .. n /\ n \in 0 .. n /\ n \notin 0 .. m
    BY <2>2
  <2> QED
    BY <1>3, <1>4, <2>1, <2>3
<1> QED
  BY <1>5

LEMMA MinIs ==
  ASSUME NEW N, N \subseteq Nat, N # {}
  PROVE  Min(N) \in N
BY NatMin DEF Min

\* The steps of the folds there are: over the panes that are kept, over those
\* that are closed, and over the lines of a past.
KeepStep(seq, S, i, kept) == With(kept, LAMBDA acc : IF seq[i] \in S THEN Append(acc, seq[i]) ELSE acc)
CloseStep(seq, p, i, s) == With(s, LAMBDA acc : IF seq[i] = p THEN acc ELSE ClosePane(acc, seq[i]))
LineStep(past, i, s) == With(s, LAMBDA acc : Execute(acc, Parse(past[i])).session)
FoldStep(kind, seq, x, i, acc) ==
  IF kind = "keep" THEN KeepStep(seq, x, i, acc)
  ELSE IF kind = "close" THEN CloseStep(seq, x, i, acc) ELSE LineStep(seq, i, acc)

IsFold(kind, seq, x, base, n, g) ==
  g = [i \in 0 .. n |-> IF i = 0 THEN base ELSE FoldStep(kind, seq, x, i, g[i - 1])]

\* A fold is as long as its sequence.
LEMMA FoldExists ==
  ASSUME NEW kind, NEW seq, NEW x, NEW base, NEW n \in Nat
  PROVE  \E g : IsFold(kind, seq, x, base, n, g)
<1> USE DEF IsFold
<1> DEFINE Fold(m, g) == IsFold(kind, seq, x, base, m, g)
           Missing == {m \in Nat : ~\E g : Fold(m, g)}
<1>1. SUFFICES ASSUME Missing # {} PROVE FALSE
  OBVIOUS
<1>2. PICK m \in Missing : \A k \in Missing : m <= k
  <2>1. Missing \subseteq Nat
    OBVIOUS
  <2> HIDE DEF Missing
  <2> QED
    BY <1>1, <2>1, NatMin
<1>3. CASE m = 0
  <2> DEFINE g == [i \in 0 .. 0 |-> base]
  <2>1. Fold(0, g)
    OBVIOUS
  <2> QED
    BY <1>2, <1>3, <2>1
<1>4. CASE m # 0
  <2>1. m \in Nat /\ m - 1 \in Nat /\ \E g : Fold(m - 1, g)
    BY <1>2, <1>4
  <2>2. PICK g : g = [i \in 0 .. m - 1 |-> IF i = 0 THEN base ELSE FoldStep(kind, seq, x, i, g[i - 1])]
    BY <2>1
  <2> DEFINE h == [i \in 0 .. m |-> IF i = m THEN FoldStep(kind, seq, x, m, g[m - 1]) ELSE g[i]]
             r == [i \in 0 .. m |-> IF i = 0 THEN base ELSE FoldStep(kind, seq, x, i, h[i - 1])]
  <2>3. \A i \in 0 .. m : i # m => i \in 0 .. m - 1 /\ h[i] = g[i]
    BY <2>1
  <2>4. ASSUME NEW i \in 0 .. m PROVE h[i] = r[i]
    <3>1. i # 0 => i - 1 \in 0 .. m /\ i - 1 # m /\ h[i - 1] = g[i - 1]
      BY <2>1, <2>3
    <3>2. CASE i = m
      BY <1>4, <3>1, <3>2
    <3>3. CASE i # m
      <4>1. g[i] = IF i = 0 THEN base ELSE FoldStep(kind, seq, x, i, g[i - 1])
        BY <2>2, <2>3, <3>3
      <4> QED
        BY <2>3, <3>1, <3>3, <4>1
    <3> QED
      BY <3>2, <3>3
  <2>5. h = r
    <3>1. h = [i \in 0 .. m |-> h[i]] /\ r = [i \in 0 .. m |-> r[i]]
      OBVIOUS
    <3> HIDE DEF h, r
    <3> QED
      BY <2>4, <3>1
  <2>6. Fold(m, h)
    BY <2>5
  <2> HIDE DEF h, r
  <2> QED
    BY <1>2, <2>6
<1> QED
  BY <1>3, <1>4

LEMMA KeptIs ==
  ASSUME NEW seq, Len(seq) \in Nat, NEW S
  PROVE  \E g : /\ g = [i \in 0 .. Len(seq) |-> IF i = 0 THEN <<>> ELSE KeepStep(seq, S, i, g[i - 1])]
                /\ Kept(seq, S) = g[Len(seq)]
<1> DEFINE G == CHOOSE g : g = [i \in 0 .. Len(seq) |-> IF i = 0 THEN <<>> ELSE KeepStep(seq, S, i, g[i - 1])]
<1>1. PICK f : IsFold("keep", seq, S, <<>>, Len(seq), f)
  BY FoldExists
<1>2. f = [i \in 0 .. Len(seq) |-> IF i = 0 THEN <<>> ELSE KeepStep(seq, S, i, f[i - 1])]
  BY <1>1 DEF IsFold, FoldStep
<1>3. G = [i \in 0 .. Len(seq) |-> IF i = 0 THEN <<>> ELSE KeepStep(seq, S, i, G[i - 1])]
  BY <1>2
<1>4. Kept(seq, S) = G[Len(seq)]
  BY DEF Kept, Through, KeepStep, With
<1> HIDE DEF G
<1> QED
  BY <1>3, <1>4

\* What is kept of a sequence is what of it is in the set.
LEMMA KeptRange ==
  ASSUME NEW T, NEW seq \in Seq(T), NEW S
  PROVE  Kept(seq, S) \in Seq(T) /\ Range(Kept(seq, S)) = Range(seq) \cap S
<1>0. Len(seq) \in Nat /\ \A i \in 1 .. Len(seq) : seq[i] \in T
  OBVIOUS
<1>1. PICK g : /\ g = [i \in 0 .. Len(seq) |-> IF i = 0 THEN <<>> ELSE KeepStep(seq, S, i, g[i - 1])]
               /\ Kept(seq, S) = g[Len(seq)]
  BY <1>0, KeptIs
<1> DEFINE Good(i) == g[i] \in Seq(T) /\ Range(g[i]) = {seq[j] : j \in 1 .. i} \cap S
           Off == {i \in 0 .. Len(seq) : ~Good(i)}
<1>2. Off = {}
  <2>1. SUFFICES ASSUME Off # {} PROVE FALSE
    OBVIOUS
  <2>2. PICK m \in Off : \A k \in Off : m <= k
    <3>1. Off \subseteq Nat
      OBVIOUS
    <3> HIDE DEF Off
    <3> QED
      BY <2>1, <3>1, NatMin
  <2>3. CASE m = 0
    <3>1. g[0] = <<>>
      BY <1>0, <1>1
    <3>2. g[0] \in Seq(T) /\ Range(g[0]) = {} /\ {seq[j] : j \in 1 .. 0} = {}
      BY <3>1 DEF Range
    <3> QED
      BY <2>2, <2>3, <3>2
  <2>4. CASE m # 0
    <3>0. m \in 0 .. Len(seq)
      BY <2>2
    <3>1. m \in 1 .. Len(seq) /\ m - 1 \in 0 .. Len(seq) /\ m - 1 \notin Off
      <4>1. m \in 1 .. Len(seq) /\ m - 1 \in 0 .. Len(seq) /\ ~(m <= m - 1)
        BY <1>0, <3>0, <2>4
      <4> QED
        BY <2>2, <4>1
    <3>2. Good(m - 1)
      BY <3>1
    <3>3. g[m] = IF seq[m] \in S THEN Append(g[m - 1], seq[m]) ELSE g[m - 1]
      BY <1>0, <1>1, <3>1, <2>4 DEF KeepStep, With
    <3>4. {seq[j] : j \in 1 .. m} = {seq[j] : j \in 1 .. m - 1} \cup {seq[m]}
      BY <3>1
    <3> DEFINE h == g[m - 1]  e == seq[m]
    <3>5. h \in Seq(T) /\ e \in T
      BY <1>0, <3>1, <3>2
    <3>6. Append(h, e) \in Seq(T) /\ Range(Append(h, e)) = Range(h) \cup {e}
      <4> HIDE DEF h, e
      <4>1. Append(h, e) \in Seq(T) /\ DOMAIN Append(h, e) = DOMAIN h \cup {Len(h) + 1}
            /\ Len(h) \in Nat /\ DOMAIN h = 1 .. Len(h)
        BY <3>5
      <4>2. Append(h, e)[Len(h) + 1] = e /\ \A j \in DOMAIN h : Append(h, e)[j] = h[j]
        BY <3>5
      <4> QED
        BY <4>1, <4>2 DEF Range
    <3>7. Good(m)
      BY <3>2, <3>3, <3>4, <3>6
    <3> QED
      BY <2>2, <3>7
  <2> QED
    BY <2>3, <2>4
<1>3. Good(Len(seq))
  <2>1. Len(seq) \in 0 .. Len(seq)
    BY <1>0
  <2> QED
    BY <1>2, <2>1
<1>4. Range(seq) = {seq[j] : j \in 1 .. Len(seq)}
  BY <1>0 DEF Range
<1> QED
  BY <1>1, <1>3, <1>4

-----------------------------------------------------------------------------
(* The shape of a session: windows of panes in a sequence, one of them on  *)
(* the screen.                                                             *)

WindowOK(x) ==
  DOMAIN x = {"panes", "focused", "last", "closing", "name"} /\ x.panes \in Seq(Nat)
SessionOK(s) ==
  /\ DOMAIN s = {"win", "current", "lastWindow", "nextPane", "options", "exit"}
  /\ DOMAIN s.win = Window /\ \A w \in Window : WindowOK(s.win[w])
  /\ s.current \in Window /\ s.lastWindow \in Window \cup {NoWindow} /\ s.nextPane \in Nat

LEMMA PanesPut ==
  ASSUME NEW x, WindowOK(x), NEW panes \in Seq(Nat)
  PROVE  WindowOK([x EXCEPT !.panes = panes])
BY DEF WindowOK

LEMMA RestPut ==
  ASSUME NEW x, WindowOK(x), NEW e
  PROVE  /\ WindowOK([x EXCEPT !.focused = e]) /\ WindowOK([x EXCEPT !.last = e])
         /\ WindowOK([x EXCEPT !.closing = e]) /\ WindowOK([x EXCEPT !.name = e])
BY DEF WindowOK

\* Whatever gets the focus, the panes stay.
LEMMA FocusOK ==
  ASSUME NEW x, WindowOK(x), NEW p
  PROVE  /\ WindowOK(SetFocus(x, p)) /\ SetFocus(x, p).panes = x.panes
         /\ SetFocus(x, p).closing = x.closing /\ SetFocus(x, p).name = x.name
BY DEF SetFocus, WindowOK

LEMMA DropOK ==
  ASSUME NEW x, WindowOK(x)
  PROVE  /\ WindowOK(Drop(x)) /\ Drop(x).panes = <<>>
         /\ Drop(x).closing = x.closing /\ Drop(x).name = x.name
<1> DEFINE y == [x EXCEPT !.panes = <<>>]
<1>1. WindowOK(y) /\ y.panes = <<>> /\ y.closing = x.closing /\ y.name = x.name
  BY DEF WindowOK
<1> HIDE DEF y
<1>2. Drop(x) = SetFocus(y, NoPane)
  BY DEF Drop, y
<1> QED
  BY <1>1, <1>2, FocusOK

LEMMA AloneOK ==
  ASSUME NEW x, WindowOK(x), NEW p \in Nat
  PROVE  WindowOK(Alone(x, p))
<1>1. <<p>> \in Seq(Nat)
  OBVIOUS
<1> QED
  BY <1>1 DEF Alone, WindowOK

LEMMA WithoutOK ==
  ASSUME NEW x, WindowOK(x), NEW p
  PROVE  Without(x, p) \in Seq(Nat) /\ WindowOK([x EXCEPT !.panes = Without(x, p)])
<1>1. x.panes \in Seq(Nat)
  BY DEF WindowOK
<1>2. Without(x, p) \in Seq(Nat)
  BY <1>1, KeptRange DEF Without
<1> QED
  BY <1>2, PanesPut

\* Leaving a window takes what was closing out of it, and nothing else.
LEMMA SnapOK ==
  ASSUME NEW x, WindowOK(x)
  PROVE  /\ WindowOK(Snap(x)) /\ Snap(x).name = x.name /\ Snap(x).closing = {}
         /\ Range(x.panes) \ Range(Snap(x).panes) \subseteq x.closing
<1> DEFINE kept == Kept(x.panes, Range(x.panes) \ x.closing)
           rest == [x EXCEPT !.closing = {}]
<1>1. x.panes \in Seq(Nat)
  BY DEF WindowOK
<1>2. kept \in Seq(Nat) /\ Range(kept) = Range(x.panes) \cap (Range(x.panes) \ x.closing)
  BY <1>1, KeptRange
<1>3. WindowOK(rest) /\ rest.closing = {} /\ rest.name = x.name
  BY DEF WindowOK
<1>4. Snap(x) = IF kept = <<>> THEN Drop(rest) ELSE [rest EXCEPT !.panes = kept]
  BY DEF Snap
<1> HIDE DEF kept, rest
<1>5. CASE kept = <<>>
  <2>1. Range(kept) = {}
    BY <1>5 DEF Range
  <2>2. Range(x.panes) \subseteq x.closing
    BY <1>2, <2>1
  <2> QED
    BY <1>3, <1>4, <1>5, <2>2, DropOK
<1>6. CASE kept # <<>>
  <2>1. Snap(x) = [rest EXCEPT !.panes = kept]
    BY <1>4, <1>6
  <2>2. /\ Snap(x).panes = kept /\ Snap(x).closing = {} /\ Snap(x).name = x.name
        /\ WindowOK(Snap(x))
    BY <1>2, <1>3, <2>1 DEF WindowOK
  <2> QED
    BY <1>2, <2>2
<1> QED
  BY <1>5, <1>6

LEMMA WindowPut ==
  ASSUME NEW s, SessionOK(s), NEW w, NEW x, WindowOK(x)
  PROVE  SessionOK([s EXCEPT !.win[w] = x])
BY DEF SessionOK

LEMMA PanePut ==
  ASSUME NEW s, SessionOK(s), NEW w, NEW x, WindowOK(x)
  PROVE  SessionOK([s EXCEPT !.win[w] = x, !.nextPane = s.nextPane + 1])
BY DEF SessionOK

LEMMA OtherPut ==
  ASSUME NEW s, SessionOK(s), NEW e
  PROVE  SessionOK([s EXCEPT !.options = e]) /\ SessionOK([s EXCEPT !.exit = e])
BY DEF SessionOK

LEMMA QuitOK ==
  ASSUME NEW s, SessionOK(s)
  PROVE  SessionOK(QuitIfEmpty(s))
BY OtherPut DEF QuitIfEmpty

Left(s, w) == [s EXCEPT !.win[s.current] = Snap(@), !.lastWindow = s.current, !.current = w]

LEMMA SwitchIs ==
  ASSUME NEW s, NEW w, w # s.current
  PROVE  SwitchTo(s, w) = IF IsEmpty(Left(s, w), w)
                          THEN [Left(s, w) EXCEPT !.win[w] = Alone(@, s.nextPane), !.nextPane = @ + 1]
                          ELSE Left(s, w)
<1> DEFINE arrived(left) ==
             IF IsEmpty(left, w) THEN [left EXCEPT !.win[w] = Alone(@, s.nextPane), !.nextPane = @ + 1]
             ELSE left
<1>1. SwitchTo(s, w) = CHOOSE t \in {arrived(left) : left \in {Left(s, w)}} : TRUE
  BY DEF SwitchTo, With, Left
<1> HIDE DEF arrived
<1>2. SwitchTo(s, w) = arrived(Left(s, w))
  BY <1>1
<1> QED
  BY <1>2 DEF arrived

\* Another window is shown, with a shell if it has nothing else.
LEMMA SwitchOK ==
  ASSUME NEW s, SessionOK(s), NEW w \in Window
  PROVE  SessionOK(SwitchTo(s, w)) /\ SwitchTo(s, w).current = w
<1> DEFINE left == Left(s, w)
<1>1. WindowOK(Snap(s.win[s.current]))
  BY SnapOK DEF SessionOK
<1>2. SessionOK(left) /\ left.current = w /\ s.nextPane \in Nat
  BY <1>1 DEF SessionOK, Left
<1> HIDE DEF left
<1>3. WindowOK(Alone(left.win[w], s.nextPane))
  BY <1>2, AloneOK DEF SessionOK
<1>4. ASSUME NEW x, WindowOK(x)
      PROVE  LET t == [left EXCEPT !.win[w] = x, !.nextPane = @ + 1] IN
             SessionOK(t) /\ t.current = w
  BY <1>2, <1>4 DEF SessionOK
<1>5. CASE w = s.current
  BY <1>5 DEF SwitchTo
<1>6. CASE w # s.current
  <2>1. SwitchTo(s, w) = IF IsEmpty(left, w)
                         THEN [left EXCEPT !.win[w] = Alone(@, s.nextPane), !.nextPane = @ + 1]
                         ELSE left
    BY <1>6, SwitchIs DEF left
  <2> QED
    BY <1>2, <1>3, <1>4, <2>1
<1> QED
  BY <1>5, <1>6

\* A window that has panes is shown, and that is all.
Shown(s, t) ==
  \E w \in Window :
    w # s.current /\ ~IsEmpty(s, w) /\ t = Left(s, w)

LEMMA SwitchShows ==
  ASSUME NEW s, SessionOK(s), NEW w \in Window, ~IsEmpty(s, w)
  PROVE  SwitchTo(s, w) = s \/ Shown(s, SwitchTo(s, w))
<1>1. CASE w = s.current
  BY <1>1 DEF SwitchTo
<1>2. CASE w # s.current
  <2>1. Left(s, w).win[w] = s.win[w]
    BY <1>2 DEF SessionOK, Left
  <2>2. ~IsEmpty(Left(s, w), w)
    BY <2>1 DEF IsEmpty
  <2>3. SwitchTo(s, w) = Left(s, w)
    BY <1>2, <2>2, SwitchIs
  <2> QED
    BY <1>2, <2>3 DEF Shown
<1> QED
  BY <1>1, <1>2

-----------------------------------------------------------------------------
(* Targets.  Whatever a target names, what it comes to is there.           *)

LEMMA WindowsAre == Window \subseteq Nat /\ [i \in Window |-> i] \in Seq(Window)
<1>1. WindowCount \in Nat
  BY CommandsAssumption
<1> QED
  BY <1>1 DEF Window

LEMMA OccupiedOK ==
  ASSUME NEW s, SessionOK(s)
  PROVE  Occupied(s) \in Seq(Window) /\ Occupied(s) # <<>>
<1> DEFINE all == [i \in Window |-> i]
           S == {w \in Window : w = s.current \/ ~IsEmpty(s, w)}
<1>1. Occupied(s) = Kept(all, S)
  BY DEF Occupied
<1>2. all \in Seq(Window) /\ s.current \in Range(all) \cap S
  BY WindowsAre DEF SessionOK, Range
<1> HIDE DEF all, S
<1>3. Occupied(s) \in Seq(Window) /\ s.current \in Range(Occupied(s))
  BY <1>1, <1>2, KeptRange
<1>4. Range(<<>>) = {}
  BY DEF Range
<1> QED
  BY <1>3, <1>4

LEMMA PlaceOK ==
  ASSUME NEW T, NEW seq \in Seq(T), NEW x
  PROVE  PlaceOf(seq, x) \in Nat \ {0} /\ (x \in Range(seq) => PlaceOf(seq, x) \in 1 .. Len(seq))
<1> DEFINE I == {i \in 1 .. Len(seq) : seq[i] = x}
<1>1. DOMAIN seq = 1 .. Len(seq) /\ Len(seq) \in Nat
  OBVIOUS
<1>2. CASE \E i \in DOMAIN seq : seq[i] = x
  <2>1. I # {} /\ I \subseteq Nat
    BY <1>1, <1>2
  <2>2. PlaceOf(seq, x) = Min(I)
    BY <1>2, <2>1 DEF PlaceOf, SelectInSeq
  <2> HIDE DEF I
  <2>3. Min(I) \in I
    BY <2>1, MinIs
  <2> QED
    BY <2>2, <2>3 DEF I
<1>3. CASE ~\E i \in DOMAIN seq : seq[i] = x
  BY <1>3 DEF PlaceOf, Range
<1> QED
  BY <1>2, <1>3

LEMMA StepOK ==
  ASSUME NEW T, NEW seq \in Seq(T), seq # <<>>, NEW from, NEW how
  PROVE  StepFrom(seq, from, how) \in T
<1> DEFINE n == Len(seq)
           here == PlaceOf(seq, from) - 1
           there == IF how = "Next" THEN here + 1 ELSE here + n - 1
<1>1. n \in Nat \ {0} /\ here \in Nat
  BY PlaceOK
<1>2. there \in Int
  BY <1>1
<1>3. StepFrom(seq, from, how) = seq[(there % n) + 1]
  BY DEF StepFrom
<1> HIDE DEF here, there, n
<1>4. there % n \in 0 .. n - 1
  BY <1>1, <1>2
<1>5. (there % n) + 1 \in 1 .. n
  BY <1>1, <1>4
<1> QED
  BY <1>3, <1>5 DEF n

LEMMA ResolveWindowOK ==
  ASSUME NEW s, SessionOK(s), NEW target
  PROVE  ResolveWindow(s, target) \in Window \cup {NoWindow}
<1> DEFINE by == target.window
<1>1. Occupied(s) \in Seq(Window) /\ Occupied(s) # <<>>
  BY OccupiedOK
<1>2. StepFrom(Occupied(s), s.current, by[1]) \in Window
  BY <1>1, StepOK
<1>3. Head(Occupied(s)) \in Window /\ Last(Occupied(s)) \in Window
  BY <1>1 DEF Last
<1>4. WindowByName(s, by[2]) \in Window \cup {NoWindow}
  <2> DEFINE named == { w \in Window : WindowName(s, w) = by[2] /\ (w = s.current \/ ~IsEmpty(s, w)) }
  <2>1. named # {} => Min(named) \in named
    BY MinIs, WindowsAre
  <2> QED
    BY <2>1 DEF WindowByName, SessionOK
<1>5. s.current \in Window /\ s.lastWindow \in Window \cup {NoWindow}
  BY DEF SessionOK
<1> QED
  BY <1>2, <1>3, <1>4, <1>5 DEF ResolveWindow

LEMMA ResolvePaneOK ==
  ASSUME NEW s, SessionOK(s), NEW target
  PROVE  LET at == ResolvePane(s, target) IN
         at # Nowhere => at.window \in Window /\ ~IsEmpty(s, at.window)
<1>1. ASSUME NEW p, ResolveById(s, target, p) # Nowhere
      PROVE  LET at == ResolveById(s, target, p) IN at.window \in Window /\ ~IsEmpty(s, at.window)
  <2>1. WindowOf(s, p) # NoWindow /\ ResolveById(s, target, p) = [window |-> WindowOf(s, p), pane |-> p]
    BY <1>1 DEF ResolveById
  <2>2. WindowOf(s, p) \in Window /\ Holds(s.win[WindowOf(s, p)], p)
    BY <2>1 DEF WindowOf
  <2>3. ~IsEmpty(s, WindowOf(s, p))
    BY <2>2 DEF Holds, IsEmpty, Range
  <2> QED
    BY <2>1, <2>2, <2>3
<1>2. ASSUME NEW w \in Window \cup {NoWindow}, NEW by, ResolveInWindow(s, w, by) # Nowhere
      PROVE  LET at == ResolveInWindow(s, w, by) IN at.window \in Window /\ ~IsEmpty(s, at.window)
  <2>1. w # NoWindow /\ ~IsEmpty(s, w)
    BY <1>2 DEF ResolveInWindow
  <2>2. ResolveInWindow(s, w, by) = [window |-> w, pane |-> PaneIn(s.win[w], by)]
    BY <1>2, <2>1 DEF ResolveInWindow, With
  <2> QED
    BY <2>1, <2>2
<1>3. ResolvePane(s, target) \in {ResolveById(s, target, target.pane[2]),
                                  ResolveInWindow(s, ResolveWindow(s, target), target.pane)}
  BY DEF ResolvePane, With
<1> QED
  BY <1>1, <1>2, <1>3, ResolveWindowOK

-----------------------------------------------------------------------------
(* What a command leaves: a session in shape, and where the command was    *)
(* rejected the session it met, or that with another window on the screen. *)

Fine(s, outcome) ==
  /\ SessionOK(outcome.session)
  /\ outcome.answer = "error" => outcome.session = s \/ Shown(s, outcome.session)

LEMMA FineOnes ==
  ASSUME NEW s, NEW t, SessionOK(t)
  PROVE  /\ Fine(s, Ok(t)) /\ Fine(s, Fatal(t)) /\ Fine(s, Panics(t)) /\ Fine(s, OkUnlessFailed(t))
         /\ Fine(s, Leaves(t))
         /\ Fine(t, Rejected(t)) /\ (Shown(s, t) => Fine(s, Rejected(t)))
<1>1. /\ SessionOK([t EXCEPT !.exit = "Failed"]) /\ SessionOK([t EXCEPT !.exit = "Panicked"])
      /\ SessionOK([t EXCEPT !.exit = "Unfollowed"])
  BY OtherPut
<1>2. Fine(s, Ok(t))
  BY DEF Fine, Ok, Outcome
<1>3. Fine(s, Fatal(t)) /\ Fine(s, Panics(t)) /\ Fine(s, Leaves(t))
  BY <1>1 DEF Fine, Fatal, Panics, Leaves, Outcome
<1>4. Fine(t, Rejected(t)) /\ (Shown(s, t) => Fine(s, Rejected(t)))
  BY DEF Fine, Rejected, Outcome
<1> QED
  BY <1>2, <1>3, <1>4 DEF OkUnlessFailed

\* The window of a resolved pane is shown before anything else.
LEMMA AtShown ==
  ASSUME NEW s, SessionOK(s), NEW target, ResolvePane(s, target) # Nowhere
  PROVE  LET t == SwitchTo(s, ResolvePane(s, target).window) IN
         SessionOK(t) /\ (t = s \/ Shown(s, t))
BY ResolvePaneOK, SwitchOK, SwitchShows

LEMMA SplitFine ==
  ASSUME NEW s, SessionOK(s), NEW command
  PROVE  Fine(s, SplitWindowCommand(s, command))
<1>1. ASSUME NEW t, SessionOK(t), NEW p, NEW detached
      PROVE  Fine(s, SplitPane(t, p, detached))
  <2> DEFINE x == OnScreen(t)
             k == PlaceOf(x.panes, p)
             panes == InsertAt(x.panes, k + 1, t.nextPane)
             wider == [x EXCEPT !.panes = panes]
  <2>1. WindowOK(x) /\ x.panes \in Seq(Nat) /\ t.nextPane \in Nat
    BY <1>1 DEF SessionOK, WindowOK, OnScreen
  <2>2. CASE ~Holds(x, p)
    BY <1>1, <2>2, FineOnes DEF SplitPane
  <2>3. CASE Holds(x, p)
    <3>1. k \in 1 .. Len(x.panes)
      BY <2>1, <2>3, PlaceOK DEF Holds
    <3>2. panes \in Seq(Nat)
      <4>1. panes = SubSeq(x.panes, 1, k) \o <<t.nextPane>> \o SubSeq(x.panes, k + 1, Len(x.panes))
        <5> HIDE DEF x, k
        <5>1. k \in Nat /\ (k + 1) - 1 = k
          BY <2>1, <3>1
        <5> QED
          BY <5>1 DEF InsertAt
      <4> HIDE DEF x, k, panes
      <4>2. SubSeq(x.panes, 1, k) \in Seq(Nat) /\ SubSeq(x.panes, k + 1, Len(x.panes)) \in Seq(Nat)
        BY <2>1, <3>1
      <4>3. <<t.nextPane>> \in Seq(Nat)
        BY <2>1
      <4> QED
        BY <4>1, <4>2, <4>3
    <3>3. WindowOK(wider) /\ WindowOK(SetFocus(wider, t.nextPane))
      <4> HIDE DEF x, panes
      <4> QED
        BY <2>1, <3>2, PanesPut, FocusOK
    <3>4. SplitPane(t, p, detached) =
            Ok([t EXCEPT !.win[t.current] = IF detached THEN wider ELSE SetFocus(wider, t.nextPane),
                         !.nextPane = t.nextPane + 1])
      BY <2>3 DEF SplitPane
    <3> HIDE DEF x, panes, wider
    <3> QED
      BY <1>1, <3>3, <3>4, PanePut, FineOnes
  <2> QED
    BY <2>2, <2>3
<1> QED
  BY <1>1, AtShown, FineOnes DEF SplitWindowCommand, AtPane, With

LEMMA CloseOK ==
  ASSUME NEW s, SessionOK(s), NEW p
  PROVE  SessionOK(ClosePane(s, p))
<1> DEFINE x == OnScreen(s)
           closing == [x EXCEPT !.closing = @ \cup {p}]
<1>1. WindowOK(x)
  BY DEF SessionOK, OnScreen
<1>2. WindowOK(closing)
  <2> HIDE DEF x
  <2> QED
    BY <1>1, RestPut
<1>3. WindowOK(SetFocus(closing, Head(Without(x, p)))) /\ WindowOK(Drop(x))
  <2> HIDE DEF x, closing
  <2> QED
    BY <1>1, <1>2, FocusOK, DropOK
<1>4. ClosePane(s, p) \in
        { s, [s EXCEPT !.exit = "Failed"], QuitIfEmpty([s EXCEPT !.win[s.current] = Drop(x)]),
          [s EXCEPT !.win[s.current] = SetFocus(closing, Head(Without(x, p)))] }
  BY DEF ClosePane
<1> HIDE DEF x, closing
<1>5. SessionOK([s EXCEPT !.exit = "Failed"])
  BY OtherPut
<1>6. SessionOK(QuitIfEmpty([s EXCEPT !.win[s.current] = Drop(x)]))
  BY <1>3, WindowPut, QuitOK
<1>7. SessionOK([s EXCEPT !.win[s.current] = SetFocus(closing, Head(Without(x, p)))])
  BY <1>3, WindowPut
<1> QED
  BY <1>4, <1>5, <1>6, <1>7

ClosedOthers(s, seq, p) == Through(LAMBDA acc, q : IF q = p THEN acc ELSE ClosePane(acc, q), s, seq)

LEMMA ClosedIs ==
  ASSUME NEW s, NEW seq, Len(seq) \in Nat, NEW p
  PROVE  \E g : /\ g = [i \in 0 .. Len(seq) |-> IF i = 0 THEN s ELSE CloseStep(seq, p, i, g[i - 1])]
                /\ ClosedOthers(s, seq, p) = g[Len(seq)]
<1> DEFINE G == CHOOSE g : g = [i \in 0 .. Len(seq) |-> IF i = 0 THEN s ELSE CloseStep(seq, p, i, g[i - 1])]
<1>1. PICK f : IsFold("close", seq, p, s, Len(seq), f)
  BY FoldExists
<1>2. f = [i \in 0 .. Len(seq) |-> IF i = 0 THEN s ELSE CloseStep(seq, p, i, f[i - 1])]
  BY <1>1 DEF IsFold, FoldStep
<1>3. G = [i \in 0 .. Len(seq) |-> IF i = 0 THEN s ELSE CloseStep(seq, p, i, G[i - 1])]
  BY <1>2
<1>4. ClosedOthers(s, seq, p) = G[Len(seq)]
  BY DEF ClosedOthers, Through, CloseStep, With
<1> HIDE DEF G
<1> QED
  BY <1>3, <1>4

\* A property of sessions that each step of a fold keeps, the fold keeps.
LEMMA FoldOK ==
  ASSUME NEW n \in Nat, NEW g, SessionOK(g[0]),
         \A i \in 1 .. n : SessionOK(g[i - 1]) => SessionOK(g[i])
  PROVE  SessionOK(g[n])
<1> DEFINE Off == {i \in 0 .. n : ~SessionOK(g[i])}
<1>1. SUFFICES ASSUME Off # {} PROVE FALSE
  <2>1. n \in 0 .. n
    OBVIOUS
  <2> QED
    BY <2>1
<1>2. PICK m \in Off : \A k \in Off : m <= k
  <2>1. Off \subseteq Nat
    OBVIOUS
  <2> HIDE DEF Off
  <2> QED
    BY <1>1, <2>1, NatMin
<1>3. m \in 1 .. n /\ m - 1 \in 0 .. n /\ ~(m <= m - 1)
  BY <1>2
<1>4. SessionOK(g[m - 1])
  BY <1>2, <1>3
<1> QED
  BY <1>2, <1>3, <1>4

LEMMA KillPaneFine ==
  ASSUME NEW s, SessionOK(s), NEW command
  PROVE  Fine(s, KillPaneCommand(s, command))
<1>1. ASSUME NEW t, SessionOK(t), NEW p
      PROVE  Fine(s, KillPane(t, p, FALSE)) /\ Fine(s, KillPane(t, p, TRUE))
  <2> DEFINE seq == OnScreen(t).panes
             rest == ClosedOthers(t, seq, p)
  <2>1. Len(seq) \in Nat
    BY <1>1 DEF SessionOK, WindowOK, OnScreen
  <2>2. KillPane(t, p, TRUE) = OkUnlessFailed(rest)
    BY DEF KillPane, ClosedOthers, With
  <2>3. KillPane(t, p, FALSE) = OkUnlessFailed(ClosePane(t, p))
    BY DEF KillPane, With
  <2> HIDE DEF seq
  <2>4. PICK g : /\ g = [i \in 0 .. Len(seq) |-> IF i = 0 THEN t ELSE CloseStep(seq, p, i, g[i - 1])]
                 /\ rest = g[Len(seq)]
    BY <2>1, ClosedIs
  <2>5. g[0] = t
    BY <2>1, <2>4
  <2>6. ASSUME NEW i \in 1 .. Len(seq), SessionOK(g[i - 1]) PROVE SessionOK(g[i])
    <3>1. g[i] = CloseStep(seq, p, i, g[i - 1])
      BY <2>1, <2>4
    <3>2. g[i] = IF seq[i] = p THEN g[i - 1] ELSE ClosePane(g[i - 1], seq[i])
      BY <3>1 DEF CloseStep, With
    <3> QED
      BY <2>6, <3>2, CloseOK
  <2>7. SessionOK(rest)
    <3> HIDE DEF rest
    <3> QED
      BY <1>1, <2>1, <2>4, <2>5, <2>6, FoldOK
  <2> HIDE DEF rest
  <2> QED
    BY <1>1, <2>2, <2>3, <2>7, CloseOK, FineOnes
<1>2. ASSUME NEW t, SessionOK(t), NEW p, NEW others PROVE Fine(s, KillPane(t, p, others))
  <2>1. KillPane(t, p, others) \in {KillPane(t, p, FALSE), KillPane(t, p, TRUE)}
    BY DEF KillPane
  <2> QED
    BY <1>1, <1>2, <2>1
<1> QED
  BY <1>2, AtShown, FineOnes DEF KillPaneCommand, AtPane, With

\* Of all commands, this one can be rejected after a window has been shown.
LEMMA ResizeFine ==
  ASSUME NEW s, SessionOK(s), NEW command
  PROVE  Fine(s, ResizePaneCommand(s, command))
<1>1. ResizePaneCommand(s, command) \in
        {Rejected(s)} \cup
        {outcome \in {Ok(SwitchTo(s, ResolvePane(s, Target(command)).window)),
                      Rejected(SwitchTo(s, ResolvePane(s, Target(command)).window))} :
           ResolvePane(s, Target(command)) # Nowhere}
  BY DEF ResizePaneCommand, AtPane, With
<1> QED
  BY <1>1, AtShown, FineOnes

LEMMA SelectPaneFine ==
  ASSUME NEW s, SessionOK(s), NEW selector
  PROVE  Fine(s, SelectPaneCommand(s, selector))
<1> DEFINE focus(t, p) == Ok([t EXCEPT !.win[t.current] = SetFocus(@, p)])
<1>1. ASSUME NEW t, SessionOK(t), NEW p PROVE Fine(s, focus(t, p))
  <2>1. WindowOK(SetFocus(t.win[t.current], p))
    BY <1>1, FocusOK DEF SessionOK
  <2>2. SessionOK([t EXCEPT !.win[t.current] = SetFocus(t.win[t.current], p)])
    BY <1>1, <2>1, WindowPut
  <2> QED
    BY <2>2, FineOnes
<1>2. Fine(s, FocusDirection(s, selector[2]))
  <2>1. FocusDirection(s, selector[2]) = Ok(s)
        \/ \E next : FocusDirection(s, selector[2]) = Ok([s EXCEPT !.win[s.current] = SetFocus(OnScreen(s), next)])
    BY DEF FocusDirection
  <2>2. ASSUME NEW next PROVE Fine(s, Ok([s EXCEPT !.win[s.current] = SetFocus(OnScreen(s), next)]))
    <3>1. WindowOK(SetFocus(OnScreen(s), next))
      BY FocusOK DEF SessionOK, OnScreen
    <3> QED
      BY <3>1, WindowPut, FineOnes
  <2> QED
    BY <2>1, <2>2, FineOnes
<1>3. ASSUME NEW target PROVE Fine(s, AtPane(s, target, focus))
  <2> HIDE DEF focus
  <2> QED
    BY <1>1, AtShown, FineOnes DEF AtPane, With
<1> HIDE DEF focus
<1> QED
  BY <1>2, <1>3 DEF SelectPaneCommand, focus

LEMMA SwapFine ==
  ASSUME NEW s, SessionOK(s), NEW command
  PROVE  Fine(s, SwapPaneCommand(s, command))
<1>1. ASSUME NEW t, SessionOK(t), NEW p, NEW q, NEW keep_focus
      PROVE  Fine(s, SwapPanes(t, p, q, keep_focus))
  <2> DEFINE x == OnScreen(t)
             panes == [i \in DOMAIN x.panes |-> CASE x.panes[i] = p -> q [] x.panes[i] = q -> p [] OTHER -> x.panes[i]]
             swapped == [x EXCEPT !.panes = panes]
  <2>1. WindowOK(x) /\ x.panes \in Seq(Nat)
    BY <1>1 DEF SessionOK, WindowOK, OnScreen
  <2>2. CASE p = q \/ ~Holds(x, p) \/ ~Holds(x, q)
    BY <1>1, <2>2, FineOnes DEF SwapPanes
  <2>3. CASE p # q /\ Holds(x, p) /\ Holds(x, q)
    <3>1. p \in Nat /\ q \in Nat
      BY <2>1, <2>3 DEF Holds, Range
    <3>2. DOMAIN x.panes = 1 .. Len(x.panes) /\ Len(x.panes) \in Nat /\ \A i \in DOMAIN x.panes : x.panes[i] \in Nat
      BY <2>1
    <3>3. \A i \in DOMAIN x.panes : panes[i] \in Nat
      <4> HIDE DEF x
      <4> QED
        BY <3>1, <3>2
    <3>4. panes \in Seq(Nat)
      <4> DEFINE n == Len(x.panes)
      <4>1. n \in Nat /\ panes \in [1 .. n -> Nat]
        BY <3>2, <3>3
      <4> HIDE DEF n, panes
      <4> QED
        BY <4>1
    <3>5. WindowOK(swapped) /\ WindowOK(SetFocus(swapped, p))
      <4> HIDE DEF x, panes
      <4> QED
        BY <2>1, <3>4, PanesPut, FocusOK
    <3>6. SwapPanes(t, p, q, keep_focus) =
            Ok([t EXCEPT !.win[t.current] = IF keep_focus THEN swapped ELSE SetFocus(swapped, p)])
      BY <2>3 DEF SwapPanes
    <3> HIDE DEF swapped, panes, x
    <3> QED
      BY <1>1, <3>5, <3>6, WindowPut, FineOnes
  <2> QED
    BY <2>2, <2>3
<1> DEFINE from == ResolvePane(s, Source(command))
           to == ResolvePane(s, Target(command))
<1>2. SwapPaneCommand(s, command) =
        IF Nowhere \in {from, to} \/ from.window # to.window THEN Rejected(s)
        ELSE SwapPanes(SwitchTo(s, from.window), from.pane, to.pane, Switched(command, "keep_focus"))
  BY DEF SwapPaneCommand, With
<1>3. from # Nowhere => SessionOK(SwitchTo(s, from.window))
  BY AtShown
<1> HIDE DEF from, to
<1> QED
  BY <1>1, <1>2, <1>3, FineOnes

LEMMA RotateFine ==
  ASSUME NEW s, SessionOK(s), NEW command
  PROVE  Fine(s, RotateWindowCommand(s, command))
<1> DEFINE w == ResolveWindow(s, Target(command))
           t == SwitchTo(s, w)
           turned(seq) == IF Switched(command, "reverse") THEN <<Last(seq)>> \o Front(seq)
                          ELSE Tail(seq) \o <<Head(seq)>>
           panes == IF t.win[w].panes = <<>> THEN t.win[w].panes ELSE turned(t.win[w].panes)
<1>1. w \in Window \cup {NoWindow}
  BY ResolveWindowOK
<1>2. RotateWindowCommand(s, command) =
        IF w = NoWindow THEN Rejected(s) ELSE Ok([t EXCEPT !.win[w].panes = panes])
  BY DEF RotateWindowCommand, With
<1>3. ASSUME w \in Window PROVE SessionOK([t EXCEPT !.win[w].panes = panes])
  <2>1. SessionOK(t)
    BY <1>3, SwitchOK
  <2>2. WindowOK(t.win[w]) /\ t.win[w].panes \in Seq(Nat)
    BY <1>3, <2>1 DEF SessionOK, WindowOK
  <2> HIDE DEF t, w
  <2>3. panes \in Seq(Nat)
    <3> DEFINE seq == t.win[w].panes
    <3>1. ASSUME seq # <<>> PROVE turned(seq) \in Seq(Nat)
      <4>1. seq \in Seq(Nat) /\ Len(seq) \in Nat \ {0}
        BY <2>2, <3>1
      <4> HIDE DEF seq
      <4>2. Front(seq) \in Seq(Nat) /\ Last(seq) \in Nat /\ Tail(seq) \in Seq(Nat) /\ Head(seq) \in Nat
        BY <4>1 DEF Front, Last
      <4>3. <<Last(seq)>> \in Seq(Nat) /\ <<Head(seq)>> \in Seq(Nat)
        BY <4>2
      <4> QED
        BY <4>2, <4>3
    <3> HIDE DEF turned
    <3> QED
      BY <2>2, <3>1
  <2> HIDE DEF panes
  <2>4. WindowOK([t.win[w] EXCEPT !.panes = panes])
    BY <2>2, <2>3, PanesPut
  <2>5. [t EXCEPT !.win[w].panes = panes] = [t EXCEPT !.win[w] = [t.win[w] EXCEPT !.panes = panes]]
    OBVIOUS
  <2> QED
    BY <2>1, <2>4, <2>5, WindowPut
<1> HIDE DEF w, t, panes
<1> QED
  BY <1>1, <1>2, <1>3, FineOnes

LEMMA EmptyOK == WindowOK(EmptyWindow)
<1>1. <<>> \in Seq(Nat)
  OBVIOUS
<1> QED
  BY <1>1 DEF WindowOK, EmptyWindow

LEMMA KillWindowFine ==
  ASSUME NEW s, SessionOK(s), NEW command
  PROVE  Fine(s, KillWindowCommand(s, command))
<1> DEFINE w == ResolveWindow(s, Target(command))
           left == [s EXCEPT !.win[w] = EmptyWindow]
           others == { v \in Window : ~IsEmpty(left, v) }
<1>1. SessionOK(left)
  BY EmptyOK, WindowPut
<1>2. others # {} => Min(others) \in Window
  BY MinIs, WindowsAre
<1>3. KillWindowCommand(s, command) = KillWindow(s, w)
  BY DEF KillWindowCommand, With
<1>4. \/ KillWindow(s, w) = Rejected(s)
      \/ KillWindow(s, w) = Ok(QuitIfEmpty(left))
      \/ KillWindow(s, w) = Ok(left)
      \/ others # {} /\ KillWindow(s, w) = Ok(SwitchTo(left, Min(others)))
  <2> HIDE DEF w
  <2> QED
    BY DEF KillWindow
<1> HIDE DEF w, left, others
<1> QED
  BY <1>1, <1>2, <1>3, <1>4, QuitOK, SwitchOK, FineOnes

LEMMA SelectWindowFine ==
  ASSUME NEW s, SessionOK(s), NEW command
  PROVE  Fine(s, SelectWindowCommand(s, command))
<1> DEFINE w == ResolveWindow(s, Target(command))
<1>1. w \in Window \cup {NoWindow}
  BY ResolveWindowOK
<1>2. SelectWindowCommand(s, command) = Rejected(s)
      \/ (w # NoWindow /\ SelectWindowCommand(s, command) = Ok(SwitchTo(s, w)))
  BY DEF SelectWindowCommand, With
<1> HIDE DEF w
<1> QED
  BY <1>1, <1>2, SwitchOK, FineOnes

LEMMA FreeWindowOK ==
  ASSUME NEW s, SessionOK(s), NEW target
  PROVE  FreeWindow(s, target) \in Window \cup {NoWindow}
<1> DEFINE free == { v \in Window : IsEmpty(s, v) }
<1>1. free # {} => Min(free) \in Window
  BY MinIs, WindowsAre
<1>2. ResolveWindow(s, target) \in Window \cup {NoWindow}
  BY ResolveWindowOK
<1> QED
  BY <1>1, <1>2 DEF FreeWindow

LEMMA NewWindowFine ==
  ASSUME NEW s, SessionOK(s), NEW command
  PROVE  Fine(s, NewWindowCommand(s, command))
<1> DEFINE w == FreeWindow(s, Target(command))
           opened == OpenWindow(s, w, Slot(command, "window_name", None))
<1>1. w \in Window \cup {NoWindow}
  BY FreeWindowOK
<1>2. \/ NewWindowCommand(s, command) = Rejected(s)
      \/ w # NoWindow /\ NewWindowCommand(s, command) \in {Ok(opened), Ok(SwitchTo(opened, w))}
  BY DEF NewWindowCommand, With
<1> HIDE DEF w
<1>3. ASSUME w \in Window PROVE SessionOK(opened)
  <2> DEFINE x == [Alone(s.win[w], s.nextPane) EXCEPT !.name = Slot(command, "window_name", None)]
  <2>1. WindowOK(s.win[w]) /\ s.nextPane \in Nat
    BY <1>3 DEF SessionOK
  <2>2. WindowOK(x)
    BY <2>1, AloneOK, RestPut
  <2>3. opened = [s EXCEPT !.win[w] = x, !.nextPane = s.nextPane + 1]
    BY DEF OpenWindow
  <2> HIDE DEF x, opened
  <2>4. SessionOK([s EXCEPT !.win[w] = x, !.nextPane = s.nextPane + 1])
    BY <2>2, PanePut
  <2> QED
    BY <2>3, <2>4
<1> HIDE DEF opened
<1> QED
  BY <1>1, <1>2, <1>3, SwitchOK, FineOnes

LEMMA NamingFine ==
  ASSUME NEW s, SessionOK(s), NEW w \in Window \cup {NoWindow}, NEW name, NEW target
  PROVE  Fine(s, RenameWindowCommand(s, w, name)) /\ Fine(s, KillSessionCommand(s, target))
<1>1. ASSUME w \in Window PROVE SessionOK([s EXCEPT !.win[w].name = name])
  <2>1. WindowOK([s.win[w] EXCEPT !.name = name])
    BY <1>1, RestPut DEF SessionOK
  <2>2. [s EXCEPT !.win[w].name = name] = [s EXCEPT !.win[w] = [s.win[w] EXCEPT !.name = name]]
    OBVIOUS
  <2> QED
    BY <2>1, <2>2, WindowPut
<1>2. SessionOK([s EXCEPT !.exit = "Quit"])
  BY OtherPut
<1> QED
  BY <1>1, <1>2, FineOnes DEF RenameWindowCommand, KillSessionCommand

LEMMA TellingFine ==
  ASSUME NEW s, SessionOK(s), NEW command, NEW target, NEW shown
  PROVE  /\ Fine(s, SendKeysCommand(s, target)) /\ Fine(s, CapturePaneCommand(s, command, shown))
         /\ Fine(s, ListCommand(s, command)) /\ Fine(s, DisplayMessageCommand(s, command))
         /\ Fine(s, ShowOptionsCommand(s, command))
<1>1. Fine(s, SendKeysCommand(s, target))
  BY FineOnes DEF SendKeysCommand, With
<1>2. Fine(s, CapturePaneCommand(s, command, shown))
  BY FineOnes DEF CapturePaneCommand, With
<1>3. Fine(s, ListCommand(s, command))
  BY FineOnes DEF ListCommand
<1>4. Fine(s, DisplayMessageCommand(s, command))
  BY FineOnes DEF DisplayMessageCommand, With
<1>5. Fine(s, ShowOptionsCommand(s, command))
  BY FineOnes DEF ShowOptionsCommand
<1> QED
  BY <1>1, <1>2, <1>3, <1>4, <1>5

LEMMA SetOptionFine ==
  ASSUME NEW s, SessionOK(s), NEW command
  PROVE  Fine(s, SetOptionCommand(s, command))
<1> DEFINE t == [s EXCEPT !.options = Set(@, command)]
<1>1. SessionOK(t)
  BY OtherPut
<1>2. SetOptionCommand(s, command) \in {Rejected(s), Panics(t), Ok(t)}
  BY DEF SetOptionCommand, With
<1> HIDE DEF t
<1> QED
  BY <1>1, <1>2, FineOnes

-----------------------------------------------------------------------------
(* Panes that move.  A pane that is taken out of its window is no loss but *)
(* to that window; what is lost to the session when a command is rejected  *)
(* is measured against the panes it may lose.                              *)

LossesOf(s, t) ==
  UNION { (Range(s.win[w].panes) \ Range(t.win[w].panes)) \cup (t.win[w].closing \ s.win[w].closing) : w \in Window }
Spared(s, t, lost) ==
  /\ LossesOf(s, t) \subseteq OnScreen(s).closing \cup lost
  /\ t.options = s.options /\ \A w \in Window : t.win[w].name = s.win[w].name
  /\ lost = {} => t.nextPane = s.nextPane
Safe(s, outcome, lost) ==
  SessionOK(outcome.session) /\ (outcome.answer = "error" => Spared(s, outcome.session, lost))

LEMMA LeftSpares ==
  ASSUME NEW s, SessionOK(s), NEW v \in Window
  PROVE  /\ \A w \in Window : Left(s, v).win[w] = IF w = s.current THEN Snap(s.win[w]) ELSE s.win[w]
         /\ LossesOf(s, Left(s, v)) \subseteq OnScreen(s).closing
         /\ Left(s, v).options = s.options /\ Left(s, v).nextPane = s.nextPane /\ Left(s, v).current = v
         /\ \A w \in Window : Left(s, v).win[w].name = s.win[w].name
         /\ SessionOK(Left(s, v))
<1> DEFINE x == s.win[s.current]
           t == Left(s, v)
<1>1. /\ t.nextPane = s.nextPane /\ t.options = s.options /\ t.current = v
      /\ t.win = [s.win EXCEPT ![s.current] = Snap(x)]
  BY DEF SessionOK, Left
<1>2. \A w \in Window : t.win[w] = IF w = s.current THEN Snap(x) ELSE s.win[w]
  BY <1>1 DEF SessionOK
<1>3. /\ Snap(x).name = x.name /\ Snap(x).closing = {} /\ WindowOK(Snap(x))
      /\ Range(x.panes) \ Range(Snap(x).panes) \subseteq x.closing
  BY SnapOK DEF SessionOK
<1>4. SessionOK(t)
  BY <1>3 DEF SessionOK, Left
<1> HIDE DEF t
<1>5. ASSUME NEW w \in Window
      PROVE (Range(s.win[w].panes) \ Range(t.win[w].panes)) \cup (t.win[w].closing \ s.win[w].closing) \subseteq x.closing
  BY <1>2, <1>3
<1>6. LossesOf(s, t) \subseteq x.closing
  BY <1>5 DEF LossesOf
<1> QED
  BY <1>1, <1>2, <1>3, <1>4, <1>6 DEF OnScreen, t

\* A window that has nothing loses nothing when a shell is put into it.
LEMMA SwitchSpares ==
  ASSUME NEW s, SessionOK(s), NEW v \in Window
  PROVE  LET t == SwitchTo(s, v) IN
         /\ LossesOf(s, t) \subseteq OnScreen(s).closing
         /\ t.options = s.options /\ \A w \in Window : t.win[w].name = s.win[w].name
<1> DEFINE left == Left(s, v)
           full == [left EXCEPT !.win[v] = Alone(@, s.nextPane), !.nextPane = @ + 1]
<1>1. CASE v = s.current
  BY <1>1 DEF SwitchTo, LossesOf
<1>2. CASE v # s.current
  <2>1. SwitchTo(s, v) = IF IsEmpty(left, v) THEN full ELSE left
    BY <1>2, SwitchIs
  <2>2. /\ LossesOf(s, left) \subseteq OnScreen(s).closing /\ left.options = s.options
        /\ \A w \in Window : left.win[w].name = s.win[w].name
        /\ SessionOK(left)
    BY LeftSpares
  <2>3. CASE IsEmpty(left, v)
    <3> HIDE DEF left
    <3> DEFINE x == left.win[v]
    <3>1. /\ Alone(x, s.nextPane).closing = x.closing /\ Alone(x, s.nextPane).name = x.name
          /\ Range(x.panes) = {}
      <4>1. DOMAIN x = {"panes", "focused", "last", "closing", "name"} /\ x.panes = <<>>
        BY <2>2, <2>3 DEF SessionOK, WindowOK, IsEmpty
      <4> QED
        BY <4>1 DEF Alone, Range
    <3>2. /\ full.options = left.options
          /\ \A w \in Window : full.win[w] = IF w = v THEN Alone(x, s.nextPane) ELSE left.win[w]
      BY <2>2 DEF SessionOK
    <3> HIDE DEF full, x
    <3>3. ASSUME NEW w \in Window
          PROVE  /\ full.win[w].closing = left.win[w].closing /\ full.win[w].name = left.win[w].name
                 /\ Range(s.win[w].panes) \ Range(full.win[w].panes)
                      \subseteq Range(s.win[w].panes) \ Range(left.win[w].panes)
      <4>1. CASE w = v
        BY <3>1, <3>2, <4>1 DEF x
      <4>2. CASE w # v
        BY <3>2, <4>2
      <4> QED
        BY <4>1, <4>2
    <3>4. LossesOf(s, full) \subseteq LossesOf(s, left)
      BY <3>3 DEF LossesOf
    <3> QED
      BY <2>1, <2>2, <2>3, <3>2, <3>3, <3>4
  <2>4. CASE ~IsEmpty(left, v)
    BY <2>1, <2>2, <2>4
  <2> QED
    BY <2>3, <2>4
<1> QED
  BY <1>1, <1>2

LEMMA ShownSpares ==
  ASSUME NEW s, SessionOK(s), NEW t, t = s \/ Shown(s, t), NEW lost
  PROVE  Spared(s, t, lost)
<1>1. CASE t = s
  BY <1>1 DEF Spared, LossesOf
<1>2. CASE Shown(s, t)
  <2>1. PICK v \in Window : t = Left(s, v)
    BY <1>2 DEF Shown
  <2> QED
    BY <2>1, LeftSpares DEF Spared
<1> QED
  BY <1>1, <1>2

LEMMA FineSafe ==
  ASSUME NEW s, SessionOK(s), NEW outcome, Fine(s, outcome), NEW lost
  PROVE  Safe(s, outcome, lost)
BY ShownSpares DEF Fine, Safe

\* Taking a pane out leaves the others where they are, if the pane is there.
LEMMA DetachOK ==
  ASSUME NEW x, WindowOK(x), NEW p
  PROVE  LET y == Detach(x, p) IN
         /\ WindowOK(y) /\ y.name = x.name /\ y.closing \subseteq x.closing
         /\ Holds(x, p) => Range(y.panes) = Range(x.panes) \ {p}
<1> DEFINE kept == IF Holds(x, p) THEN Without(x, p) ELSE <<>>
           y == Detach(x, p)
<1>1. x.panes \in Seq(Nat) /\ DOMAIN x = {"panes", "focused", "last", "closing", "name"}
  BY DEF WindowOK
<1>2. Without(x, p) \in Seq(Nat) /\ Range(Without(x, p)) = Range(x.panes) \ {p}
  BY <1>1, KeptRange DEF Without
<1>3. kept \in Seq(Nat)
  BY <1>2
<1>4. /\ DOMAIN y = DOMAIN x /\ y.panes = kept /\ y.closing = x.closing \ {p} /\ y.name = x.name
  BY <1>1 DEF Detach
<1> QED
  BY <1>1, <1>2, <1>3, <1>4 DEF WindowOK

LEMMA TakenOK ==
  ASSUME NEW s, SessionOK(s), NEW from, from.window \in Window
  PROVE  LET u == Taken(s, from)
             x == s.win[from.window] IN
         /\ SessionOK(u) /\ u.current = s.current /\ u.options = s.options /\ u.nextPane = s.nextPane
         /\ \A w \in Window : u.win[w] = IF w = from.window THEN Detach(x, from.pane) ELSE s.win[w]
         /\ \A w \in Window : u.win[w].name = s.win[w].name
         /\ OnScreen(u).closing \subseteq OnScreen(s).closing
         /\ LossesOf(s, u) \subseteq IF Holds(x, from.pane) THEN {from.pane} ELSE Range(x.panes)
<1> DEFINE x == s.win[from.window]
           y == Detach(x, from.pane)
           u == Taken(s, from)
           lost == IF Holds(x, from.pane) THEN {from.pane} ELSE Range(x.panes)
<1>1. /\ WindowOK(y) /\ y.name = x.name /\ y.closing \subseteq x.closing
      /\ Holds(x, from.pane) => Range(y.panes) = Range(x.panes) \ {from.pane}
  BY DetachOK DEF SessionOK
<1>2. u = [s EXCEPT !.win[from.window] = y]
  BY DEF Taken
<1> HIDE DEF y
<1>3. SessionOK(u)
  BY <1>1, <1>2, WindowPut
<1>4. /\ u.current = s.current /\ u.options = s.options /\ u.nextPane = s.nextPane
      /\ \A w \in Window : u.win[w] = IF w = from.window THEN y ELSE s.win[w]
  BY <1>2 DEF SessionOK
<1> HIDE DEF u
<1>5. ASSUME NEW w \in Window
      PROVE  /\ u.win[w].name = s.win[w].name /\ u.win[w].closing \subseteq s.win[w].closing
             /\ Range(s.win[w].panes) \ Range(u.win[w].panes) \subseteq lost
  BY <1>1, <1>4
<1>6. LossesOf(s, u) \subseteq lost
  BY <1>5 DEF LossesOf
<1>7. OnScreen(u).closing \subseteq OnScreen(s).closing
  BY <1>4, <1>5 DEF OnScreen, SessionOK
<1> QED
  BY <1>3, <1>4, <1>5, <1>6, <1>7 DEF u, y

LEMMA PlacedOK ==
  ASSUME NEW x, WindowOK(x), NEW p \in Nat, NEW onto, Holds(x, onto), NEW detached
  PROVE  WindowOK(Beside(x, p, onto, detached))
<1> DEFINE k == PlaceOf(x.panes, onto)
           panes == InsertAt(x.panes, k + 1, p)
           wider == [x EXCEPT !.panes = panes]
<1>1. x.panes \in Seq(Nat)
  BY DEF WindowOK
<1>2. k \in 1 .. Len(x.panes)
  BY <1>1, PlaceOK DEF Holds
<1>3. panes \in Seq(Nat)
  <2>1. panes = SubSeq(x.panes, 1, k) \o <<p>> \o SubSeq(x.panes, k + 1, Len(x.panes))
    <3> HIDE DEF k
    <3>1. k \in Nat /\ (k + 1) - 1 = k
      BY <1>1, <1>2
    <3> QED
      BY <3>1 DEF InsertAt
  <2> HIDE DEF k, panes
  <2>2. SubSeq(x.panes, 1, k) \in Seq(Nat) /\ SubSeq(x.panes, k + 1, Len(x.panes)) \in Seq(Nat)
    BY <1>1, <1>2
  <2>3. <<p>> \in Seq(Nat)
    OBVIOUS
  <2> QED
    BY <2>1, <2>2, <2>3
<1> HIDE DEF panes
<1>4. WindowOK(wider) /\ WindowOK(SetFocus(wider, p))
  BY <1>3, PanesPut, FocusOK
<1>5. Beside(x, p, onto, detached) \in {wider, SetFocus(wider, p)}
  BY DEF Beside, panes
<1> QED
  BY <1>4, <1>5

\* A pane is broken out only once there is a window for it.
LEMMA BreakFine ==
  ASSUME NEW s, SessionOK(s), NEW command
  PROVE  Fine(s, BreakPaneCommand(s, command))
<1> DEFINE from == ResolvePane(s, Source(command))
           w == FreeWindow(s, Target(command))
<1>1. w \in Window \cup {NoWindow} /\ (from # Nowhere => from.window \in Window)
  BY FreeWindowOK, ResolvePaneOK
<1>2. \/ BreakPaneCommand(s, command) = Rejected(s)
      \/ from # Nowhere /\ BreakPaneCommand(s, command) = Break(s, from, w, command)
  BY DEF BreakPaneCommand, With
<1> HIDE DEF w, from
<1>3. ASSUME from # Nowhere, w # NoWindow, Holds(s.win[from.window], from.pane)
      PROVE  LET u == Taken(s, from)
                 moved == [u EXCEPT !.win[w] = [Alone(@, from.pane) EXCEPT !.name = Slot(command, "window_name", None)]] IN
             SessionOK(moved) /\ SessionOK(SwitchTo(moved, w))
  <2> DEFINE u == Taken(s, from)
             x == [Alone(u.win[w], from.pane) EXCEPT !.name = Slot(command, "window_name", None)]
  <2>1. SessionOK(u)
    BY <1>1, <1>3, TakenOK
  <2>2. from.pane \in Nat
    <3>1. s.win[from.window].panes \in Seq(Nat)
      BY <1>1, <1>3 DEF SessionOK, WindowOK
    <3> QED
      BY <1>3, <3>1 DEF Holds, Range
  <2>3. WindowOK(u.win[w])
    BY <1>1, <1>3, <2>1 DEF SessionOK
  <2> HIDE DEF u
  <2>4. WindowOK(x)
    BY <2>2, <2>3, AloneOK, RestPut
  <2> HIDE DEF x
  <2>5. SessionOK([u EXCEPT !.win[w] = x])
    BY <2>1, <2>4, WindowPut
  <2> QED
    BY <1>1, <1>3, <2>5, SwitchOK DEF x, u
<1>4. \/ Break(s, from, w, command) \in {Rejected(s), Leaves(s)}
      \/ /\ w # NoWindow /\ Holds(s.win[from.window], from.pane)
         /\ LET moved == [Taken(s, from) EXCEPT
                            !.win[w] = [Alone(@, from.pane) EXCEPT !.name = Slot(command, "window_name", None)]] IN
            Break(s, from, w, command) \in {Ok(moved), Ok(SwitchTo(moved, w))}
  BY DEF Break
<1> QED
  BY <1>2, <1>3, <1>4, FineOnes

\* A join that is rejected after the pane is out of its window names a pane that has
\* no place in the window it was found in.
LEMMA JoinSafe ==
  ASSUME NEW s, SessionOK(s), NEW command, command.name = "join-pane"
  PROVE  Safe(s, JoinPaneCommand(s, command), Strands(s, command))
<1> DEFINE from == ResolvePane(s, Source(command))
           to == ResolvePane(s, Target(command))
           x == s.win[from.window]
           u == Taken(s, from)
           t == SwitchTo(u, to.window)
           lost == Strands(s, command)
<1>1. \/ JoinPaneCommand(s, command) = Rejected(s)
      \/ /\ from # Nowhere /\ to # Nowhere /\ from.pane # to.pane
         /\ JoinPaneCommand(s, command) = JoinedAt(s, t, from, to.pane, command)
  BY DEF JoinPaneCommand, With
<1>2. CASE JoinPaneCommand(s, command) = Rejected(s)
  BY <1>2, FineOnes, FineSafe
<1>3. ASSUME from # Nowhere, to # Nowhere, from.pane # to.pane
      PROVE  Safe(s, JoinedAt(s, t, from, to.pane, command), lost)
  <2>1. from.window \in Window /\ to.window \in Window /\ ~IsEmpty(s, from.window) /\ ~IsEmpty(s, to.window)
    BY <1>3, ResolvePaneOK
  <2>2. lost = IF ~Holds(x, from.pane) THEN Range(x.panes)
               ELSE IF ~Holds(s.win[to.window], to.pane) THEN {from.pane} ELSE {}
    BY <1>3 DEF Strands
  <2> HIDE DEF lost, from, to
  <2>3. /\ SessionOK(u) /\ u.current = s.current /\ u.options = s.options /\ u.nextPane = s.nextPane
        /\ \A w \in Window : u.win[w] = IF w = from.window THEN Detach(x, from.pane) ELSE s.win[w]
        /\ \A w \in Window : u.win[w].name = s.win[w].name
        /\ OnScreen(u).closing \subseteq OnScreen(s).closing
        /\ LossesOf(s, u) \subseteq IF Holds(x, from.pane) THEN {from.pane} ELSE Range(x.panes)
    BY <2>1, TakenOK
  <2> HIDE DEF u
  <2>4. SessionOK(t) /\ t.current = to.window
    BY <2>1, <2>3, SwitchOK
  <2>5. /\ LossesOf(u, t) \subseteq OnScreen(u).closing
        /\ t.options = u.options /\ \A w \in Window : t.win[w].name = u.win[w].name
    BY <2>1, <2>3, SwitchSpares
  <2>6. ASSUME Holds(x, from.pane), Holds(s.win[to.window], to.pane) PROVE Holds(OnScreen(t), to.pane)
    <3>1. to.pane \in Range(u.win[to.window].panes)
      <4>1. CASE to.window = from.window
        <5>1. WindowOK(x) /\ u.win[to.window] = Detach(x, from.pane)
          BY <2>1, <2>3, <4>1 DEF SessionOK
        <5>2. to.pane \in Range(x.panes)
          BY <2>6, <4>1 DEF Holds
        <5> HIDE DEF x
        <5>3. Range(Detach(x, from.pane).panes) = Range(x.panes) \ {from.pane}
          BY <2>6, <5>1, DetachOK
        <5> QED
          BY <1>3, <5>1, <5>2, <5>3
      <4>2. CASE to.window # from.window
        BY <2>1, <2>3, <2>6, <4>2 DEF Holds
      <4> QED
        BY <4>1, <4>2
    <3>2. ~IsEmpty(u, to.window)
      BY <3>1 DEF IsEmpty, Range
    <3>3. CASE to.window = u.current
      BY <3>1, <3>3 DEF SwitchTo, Holds, OnScreen
    <3>4. CASE to.window # u.current
      <4>1. Left(u, to.window).win[to.window] = u.win[to.window] /\ Left(u, to.window).current = to.window
        BY <2>1, <2>3, <3>4, LeftSpares
      <4>2. t = Left(u, to.window)
        BY <3>2, <3>4, <4>1, SwitchIs DEF IsEmpty
      <4> QED
        BY <3>1, <4>1, <4>2 DEF Holds, OnScreen
    <3> QED
      BY <3>3, <3>4
  <2> HIDE DEF t
  <2>7. CASE ~Holds(OnScreen(t), to.pane)
    <3>1. JoinedAt(s, t, from, to.pane, command) = Rejected(t)
      BY <2>7 DEF JoinedAt
    <3>2. lost # {} /\ LossesOf(s, u) \subseteq lost
      <4>1. Range(x.panes) # {}
        <5>1. x.panes \in Seq(Nat) /\ x.panes # <<>>
          BY <2>1 DEF SessionOK, WindowOK, IsEmpty
        <5>2. 1 \in DOMAIN x.panes
          <6> HIDE DEF x
          <6> QED
            BY <5>1
        <5> QED
          BY <5>2 DEF Range
      <4> QED
        BY <2>2, <2>3, <2>6, <2>7, <4>1
    <3>3. LossesOf(s, t) \subseteq LossesOf(s, u) \cup LossesOf(u, t)
      BY DEF LossesOf
    <3>4. Spared(s, t, lost)
      BY <2>3, <2>5, <3>2, <3>3 DEF Spared
    <3> QED
      BY <2>4, <3>1, <3>4 DEF Safe, Rejected, Outcome
  <2>8. CASE Holds(OnScreen(t), to.pane) /\ ~Holds(x, from.pane)
    <3>1. JoinedAt(s, t, from, to.pane, command) = Leaves(s)
      BY <2>8 DEF JoinedAt
    <3> QED
      BY <3>1, FineOnes, FineSafe
  <2>9. CASE Holds(OnScreen(t), to.pane) /\ Holds(x, from.pane)
    <3> DEFINE y == Beside(t.win[t.current], from.pane, to.pane, Switched(command, "detached"))
    <3>1. JoinedAt(s, t, from, to.pane, command) = Ok([t EXCEPT !.win[t.current] = y])
      BY <2>9 DEF JoinedAt
    <3>2. from.pane \in Nat
      <4>1. x.panes \in Seq(Nat)
        BY <2>1 DEF SessionOK, WindowOK
      <4> QED
        BY <2>9, <4>1 DEF Holds, Range
    <3>3. WindowOK(y)
      BY <2>1, <2>4, <2>9, <3>2, PlacedOK DEF SessionOK, OnScreen
    <3> HIDE DEF y
    <3>4. SessionOK([t EXCEPT !.win[t.current] = y])
      BY <2>4, <3>3, WindowPut
    <3> QED
      BY <3>1, <3>4, FineOnes, FineSafe
  <2> QED
    BY <2>7, <2>8, <2>9
<1> HIDE DEF from, to, t, lost
<1> QED
  BY <1>1, <1>2, <1>3 DEF lost

LEMMA ExecuteSafe ==
  ASSUME NEW s, SessionOK(s), NEW command
  PROVE  Safe(s, Execute(s, command), Strands(s, command))
<1>1. ResolveWindow(s, Target(command)) \in Window \cup {NoWindow}
  BY ResolveWindowOK
<1>2. CASE command.name = "join-pane"
  BY <1>2, JoinSafe DEF Execute
<1>3. CASE command.name # "join-pane"
  <2>1. Fine(s, Execute(s, command))
    BY <1>1, <1>3, SplitFine, KillPaneFine, ResizeFine, SelectPaneFine, SwapFine, RotateFine, KillWindowFine,
       SelectWindowFine, NewWindowFine, NamingFine, TellingFine, SetOptionFine, BreakFine, FineOnes
       DEF Execute
  <2> QED
    BY <2>1, FineSafe
<1> QED
  BY <1>2, <1>3

LEMMA OutcomeSafe ==
  ASSUME NEW s, SessionOK(s), NEW command, NEW outcome \in Outcomes(s, command)
  PROVE  Safe(s, outcome, Stranded(s, command))
<1>1. CASE outcome \in { CapturePaneCommand(s, command, n) : n \in ScreenLines }
  BY <1>1, TellingFine, FineSafe
<1>2. CASE command.name = "if-shell"
  <2>1. Stranded(s, command) = Strands(s, Branch(command, TRUE)) \cup Strands(s, Branch(command, FALSE))
    BY <1>2 DEF Stranded
  <2>2. ASSUME NEW branch PROVE Safe(s, IfShellOutcome(s, branch), Strands(s, branch))
    <3>1. Safe(s, Ok(s), Strands(s, branch))
      BY FineOnes, FineSafe
    <3> QED
      BY <3>1, ExecuteSafe DEF IfShellOutcome
  <2>3. PICK holds \in BOOLEAN : outcome = IfShellOutcome(s, Branch(command, holds))
    BY <1>2 DEF Outcomes, With
  <2>4. Safe(s, outcome, Strands(s, Branch(command, holds)))
    BY <2>2, <2>3
  <2>5. Strands(s, Branch(command, holds)) \subseteq Stranded(s, command)
    BY <2>1
  <2> HIDE DEF With
  <2> QED
    BY <2>4, <2>5 DEF Safe, Spared
<1>3. CASE command.name # "if-shell" /\ outcome = Execute(s, command)
  BY <1>3, ExecuteSafe DEF Stranded
<1> QED
  BY <1>1, <1>2, <1>3 DEF Outcomes

-----------------------------------------------------------------------------
(* What happened before, and what the session does by itself.              *)

LEMMA FreshOK == SessionOK(FreshSession)
<1> DEFINE wins == [w \in Window |-> IF w = 1 THEN Alone(EmptyWindow, 1) ELSE EmptyWindow]
<1>1. 1 \in Window
  BY CommandsAssumption DEF Window
<1>2. WindowOK(Alone(EmptyWindow, 1)) /\ WindowOK(EmptyWindow)
  BY EmptyOK, AloneOK
<1>3. DOMAIN wins = Window /\ \A w \in Window : WindowOK(wins[w])
  BY <1>2
<1> HIDE DEF wins
<1>4. FreshSession = [win |-> wins, current |-> 1, lastWindow |-> NoWindow, nextPane |-> 2,
                      options |-> NoneSet, exit |-> "Running"]
  BY DEF FreshSession, wins
<1> QED
  BY <1>1, <1>3, <1>4 DEF SessionOK

LEMMA AfterIs ==
  ASSUME NEW past, Len(past) \in Nat
  PROVE  \E g : /\ g = [i \in 0 .. Len(past) |-> IF i = 0 THEN FreshSession ELSE LineStep(past, i, g[i - 1])]
                /\ After(past) = g[Len(past)]
<1> DEFINE G == CHOOSE g : g = [i \in 0 .. Len(past) |-> IF i = 0 THEN FreshSession ELSE LineStep(past, i, g[i - 1])]
<1>1. PICK f : IsFold("line", past, 0, FreshSession, Len(past), f)
  BY FoldExists
<1>2. f = [i \in 0 .. Len(past) |-> IF i = 0 THEN FreshSession ELSE LineStep(past, i, f[i - 1])]
  BY <1>1 DEF IsFold, FoldStep
<1>3. G = [i \in 0 .. Len(past) |-> IF i = 0 THEN FreshSession ELSE LineStep(past, i, G[i - 1])]
  BY <1>2
<1>4. After(past) = G[Len(past)]
  BY DEF After, Through, LineStep, With
<1> HIDE DEF G
<1> QED
  BY <1>3, <1>4

LEMMA AfterOK ==
  ASSUME NEW past \in Pasts
  PROVE  SessionOK(After(past))
<1>1. Len(past) \in Nat
  BY CommandsAssumption
<1>2. PICK g : /\ g = [i \in 0 .. Len(past) |-> IF i = 0 THEN FreshSession ELSE LineStep(past, i, g[i - 1])]
               /\ After(past) = g[Len(past)]
  BY <1>1, AfterIs
<1>3. SessionOK(g[0])
  BY <1>1, <1>2, FreshOK
<1>4. ASSUME NEW i \in 1 .. Len(past), SessionOK(g[i - 1]) PROVE SessionOK(g[i])
  <2>1. g[i] = LineStep(past, i, g[i - 1])
    BY <1>1, <1>2
  <2>2. g[i] = Execute(g[i - 1], Parse(past[i])).session
    BY <2>1 DEF LineStep, With
  <2> QED
    BY <1>4, <2>2, ExecuteSafe DEF Safe
<1> QED
  BY <1>1, <1>2, <1>3, <1>4, FoldOK

LEMMA ClosingFinishes ==
  ASSUME SessionOK(session), NEW p, FinishClosing(p)
  PROVE  SessionOK(session')
<1> DEFINE x == [OnScreen(session) EXCEPT !.closing = @ \ {p}]
           shrunk == [x EXCEPT !.panes = Without(x, p)]
<1>1. WindowOK(x)
  BY RestPut DEF SessionOK, OnScreen
<1> HIDE DEF x
<1>2. WindowOK(shrunk)
  BY <1>1, WithoutOK
<1> HIDE DEF shrunk
<1>3. WindowOK(Drop(x)) /\ WindowOK(SetFocus(shrunk, Head(shrunk.panes)))
  BY <1>1, <1>2, DropOK, FocusOK
<1>4. \/ session' = QuitIfEmpty([session EXCEPT !.win[session.current] = Drop(x)])
      \/ session' = [session EXCEPT !.win[session.current] = SetFocus(shrunk, Head(shrunk.panes))]
      \/ session' = [session EXCEPT !.win[session.current] = shrunk]
  BY DEF FinishClosing, Becomes, x, shrunk
<1>5. SessionOK(QuitIfEmpty([session EXCEPT !.win[session.current] = Drop(x)]))
  <2>1. SessionOK([session EXCEPT !.win[session.current] = Drop(x)])
    BY <1>3, WindowPut
  <2> QED
    BY <2>1, QuitOK
<1>6. SessionOK([session EXCEPT !.win[session.current] = SetFocus(shrunk, Head(shrunk.panes))])
  BY <1>3, WindowPut
<1>7. SessionOK([session EXCEPT !.win[session.current] = shrunk])
  BY <1>2, WindowPut
<1> QED
  BY <1>4, <1>5, <1>6, <1>7

LEMMA PaneGoes ==
  ASSUME SessionOK(session), NEW p, PaneDies(p)
  PROVE  SessionOK(session')
<1> DEFINE w == WindowOf(session, p)
           x == session.win[w]
           shrunk == [x EXCEPT !.panes = Without(x, p)]
           left == IF Len(x.panes) > 1 THEN SetFocus(shrunk, Head(shrunk.panes)) ELSE Drop(x)
<1>1. w \in Window
  BY DEF PaneDies, WindowOf
<1>2. session' = QuitIfEmpty([session EXCEPT !.win[w] = left])
  BY DEF PaneDies, Becomes
<1>3. WindowOK(x)
  BY <1>1 DEF SessionOK
<1> HIDE DEF x, w
<1>4. WindowOK(shrunk)
  BY <1>3, WithoutOK
<1> HIDE DEF shrunk
<1>5. WindowOK(left)
  BY <1>3, <1>4, DropOK, FocusOK
<1> HIDE DEF left
<1> QED
  BY <1>2, <1>5, WindowPut, QuitOK

LEMMA SessionInit == Init => SessionOK(session)
BY AfterOK DEF Init

LEMMA SessionNext == SessionOK(session) /\ [Next]_vars => SessionOK(session')
<1> SUFFICES ASSUME SessionOK(session), [Next]_vars PROVE SessionOK(session')
  OBVIOUS
<1>1. CASE Take
  <2>1. session' = session \/ \E outcome \in Outcomes(session, Asked(Head(queue))) : session' = outcome.session
    BY <1>1 DEF Take, Park, Signal, StartShell, Run
  <2> QED
    BY <2>1, OutcomeSafe DEF Safe
<1>2. CASE Terminate
  BY <1>2, OtherPut DEF Terminate, Becomes
<1>3. ASSUME NEW p, FinishClosing(p) PROVE SessionOK(session')
  BY <1>3, ClosingFinishes
<1>4. ASSUME NEW p, PaneDies(p) PROVE SessionOK(session')
  BY <1>4, PaneGoes
<1>5. CASE UNCHANGED session
  BY <1>5
<1>6. \/ Take \/ Terminate \/ \E p : FinishClosing(p) \/ PaneDies(p)
      \/ UNCHANGED session
  BY DEF Next, vars, Type, ChildTypes, HangUp, Enqueue, ShellEnds, Deliver, TimesOut, End
<1> QED
  BY <1>1, <1>2, <1>3, <1>4, <1>5, <1>6

-----------------------------------------------------------------------------
(* Requests keep their shape: one for every process, with its answer.      *)

RequestOK(r) == {"at", "answer"} \subseteq DOMAIN r
RequestsInv == DOMAIN request = Process /\ \A c \in Process : RequestOK(request[c])

LEMMA NoRequestOK ==
  ASSUME NEW at, NEW command
  PROVE  /\ RequestOK(NoRequest)
         /\ RequestOK([NoRequest EXCEPT !.at = at, !.command = command])
<1>1. DOMAIN NoRequest = {"at", "command", "answer"}
  BY DEF NoRequest
<1> QED
  BY <1>1 DEF RequestOK

LEMMA RequestsNext == RequestsInv /\ [Next]_vars => RequestsInv'
<1> SUFFICES ASSUME RequestsInv, [Next]_vars PROVE RequestsInv'
  OBVIOUS
<1>1. ASSUME NEW c, NEW r, c \in Process => RequestOK(r), request' = [request EXCEPT ![c] = r]
      PROVE  RequestsInv'
  BY <1>1 DEF RequestsInv
<1>2. ASSUME NEW c \in Process, NEW at, NEW answer
      PROVE  RequestOK([request[c] EXCEPT !.at = at]) /\ RequestOK(Answered(request[c], answer))
  BY DEF RequestsInv, RequestOK, Answered
<1>3. CASE request' = request
  BY <1>3 DEF RequestsInv
<1>4. ASSUME NEW c, NEW line, Asks(c, line) PROVE RequestsInv'
  <2>1. PICK command :
          request' \in {request, [request EXCEPT ![c] = [NoRequest EXCEPT !.at = "sending", !.command = command]]}
    BY <1>4 DEF Asks
  <2> QED
    BY <1>1, <1>3, <2>1, NoRequestOK
<1>5. CASE Take
  <2> DEFINE c == Head(queue)
  <2>1. Park(c) \/ Signal(c) \/ StartShell(c) \/ Run(c)
    BY <1>5 DEF Take
  <2> HIDE DEF c
  <2>2. \/ \E at : request' = [request EXCEPT ![c] = [request[c] EXCEPT !.at = at]]
        \/ \E answer : request' = [request EXCEPT ![c] = Answered(request[c], answer)]
        \/ request' = [w \in Process |-> IF w \in Freed(c) \cup {c} THEN Answered(request[w], "ok") ELSE request[w]]
    BY <2>1 DEF Park, Signal, StartShell, Run
  <2>3. CASE request' = [w \in Process |-> IF w \in Freed(c) \cup {c} THEN Answered(request[w], "ok") ELSE request[w]]
    BY <1>2, <2>3 DEF RequestsInv
  <2> QED
    BY <1>1, <1>2, <2>2, <2>3
<1>6. ASSUME NEW c \in Process, Enqueue(c) \/ ShellEnds(c) PROVE RequestsInv'
  BY <1>1, <1>2, <1>6 DEF Enqueue, ShellEnds
<1> QED
  BY <1>3, <1>4, <1>5, <1>6
     DEF Next, vars, Type, ChildTypes, HangUp, Deliver, TimesOut, End, FinishClosing, PaneDies, Terminate, Becomes

-----------------------------------------------------------------------------
(* Refusals                                                                *)

\* Only a command that ran is refused while no script holds the loop.
LEMMA RefusedRan ==
  ASSUME RequestsInv, [Next]_vars, NEW c \in Process,
         request'[c].answer = "error", request[c].answer = "", shell = NoCaller
  PROVE  \E outcome \in Outcomes(session, Asked(c)) :
           outcome.answer = "error" /\ session' = outcome.session
<1> DEFINE d == Head(queue)
<1>1. DOMAIN request = Process /\ \A e \in Process : RequestOK(request[e])
  BY DEF RequestsInv
<1>2. ASSUME NEW e, NEW line, Asks(e, line) PROVE FALSE
  <2>1. PICK command :
          request' \in {request, [request EXCEPT ![e] = [NoRequest EXCEPT !.at = "sending", !.command = command]]}
    BY <1>2 DEF Asks
  <2>2. [NoRequest EXCEPT !.at = "sending", !.command = command].answer = ""
    BY DEF NoRequest
  <2> QED
    BY <1>1, <2>1, <2>2
<1>3. ASSUME NEW e, request' = [request EXCEPT ![e].at = "queued"] PROVE FALSE
  BY <1>1, <1>3 DEF RequestOK
<1>4. ASSUME NEW e, e \in Process, ShellEnds(e) PROVE FALSE
  BY <1>4, CommandsAssumption DEF ShellEnds
<1>5. request' # request
  OBVIOUS
<1>6. Take
  BY <1>2, <1>3, <1>4, <1>5
     DEF Next, vars, Type, ChildTypes, HangUp, Enqueue, Deliver, TimesOut, End, FinishClosing, PaneDies,
         Terminate, Becomes
<1>7. Park(d) \/ Signal(d) \/ StartShell(d) \/ Run(d)
  BY <1>6 DEF Take
<1> HIDE DEF d
<1>8. ASSUME NEW e PROVE request' # [request EXCEPT ![d].at = e]
  BY <1>1 DEF RequestOK
<1>9. request' # [request EXCEPT ![d] = Answered(@, "ok")]
  BY <1>1 DEF RequestOK, Answered
<1>10. ~Park(d)
  BY <1>8 DEF Park
<1>11. ~StartShell(d)
  BY <1>8, <1>9 DEF StartShell
<1>12. ~Signal(d)
  <2>1. Answered(request[c], "ok").answer = "ok"
    BY <1>1 DEF RequestOK, Answered
  <2> QED
    BY <2>1 DEF Signal
<1>13. PICK outcome \in Outcomes(session, Asked(d)) :
         /\ session' = outcome.session
         /\ request' = [request EXCEPT ![d] = IF outcome.answer = "" THEN [@ EXCEPT !.at = "running"]
                                               ELSE Answered(@, outcome.answer)]
  BY <1>7, <1>10, <1>11, <1>12 DEF Run
<1>14. outcome.answer # ""
  BY <1>8, <1>13
<1>15. request' = [request EXCEPT ![d] = Answered(@, outcome.answer)]
  BY <1>13, <1>14
<1>16. c = d
  BY <1>1, <1>15
<1>17. Answered(request[c], outcome.answer).answer = outcome.answer
  BY <1>1 DEF RequestOK, Answered
<1> QED
  BY <1>1, <1>13, <1>15, <1>16, <1>17

\* A command that is refused takes no pane away, spawns none, names nothing and sets
\* nothing (app.rs execute_request), for any windows, callers and command lines: the only
\* ones modelled here that may have been at work already are resize-pane, which has shown
\* its window, and the join-pane that names a pane without a place in its window, which
\* has taken out the pane it was to move, or emptied its window (app.rs join_pane).
THEOREM RefusalsKeepPanes == Spec => RejectedKeepsPanes
<1> DEFINE Unhurt(c) ==
             (request'[c].answer = "error" /\ request[c].answer = "" /\ shell = NoCaller) =>
               LET stranded == Stranded(session, Asked(c)) IN
               /\ Losses \subseteq OnScreen(session).closing \cup stranded
               /\ session'.options = session.options
               /\ \A w \in Window : session'.win[w].name = session.win[w].name
               /\ stranded = {} => session'.nextPane = session.nextPane
<1>1. RequestsInv /\ SessionOK(session) /\ [Next]_vars => \A c \in Process : Unhurt(c)
  <2> SUFFICES ASSUME RequestsInv, SessionOK(session), [Next]_vars, NEW c \in Process,
                      request'[c].answer = "error", request[c].answer = "", shell = NoCaller
               PROVE  Unhurt(c)
    OBVIOUS
  <2>1. PICK outcome \in Outcomes(session, Asked(c)) :
          outcome.answer = "error" /\ session' = outcome.session
    BY RefusedRan
  <2>2. Spared(session, session', Stranded(session, Asked(c)))
    BY <2>1, OutcomeSafe DEF Safe
  <2>3. LossesOf(session, session') = Losses
    BY DEF LossesOf, Losses
  <2> QED
    BY <2>2, <2>3 DEF Spared
<1>2. RequestsInv /\ SessionOK(session) /\ [Next]_vars => [\A c \in Process : Unhurt(c)]_vars
  BY <1>1
<1>3. Spec => [](RequestsInv /\ SessionOK(session))
  <2>1. Init => RequestsInv /\ SessionOK(session)
    BY NoRequestOK, SessionInit DEF Init, RequestsInv
  <2>2. RequestsInv /\ SessionOK(session) /\ [Next]_vars => (RequestsInv /\ SessionOK(session))'
    BY RequestsNext, SessionNext
  <2> QED
    BY <2>1, <2>2, PTL DEF Spec
<1> QED
  BY <1>2, <1>3, PTL DEF Spec, RejectedKeepsPanes

-----------------------------------------------------------------------------
(* Numbers                                                                 *)

\* Every numeral stands for a natural.
LEMMA NumeralNat == \A w \in DOMAIN Numeral : Numeral[w] \in Nat
BY DEF Numeral

LEMMA NumberNat ==
  ASSUME NEW w, IsNumber(w)
  PROVE  Number(w) \in Nat
BY NumeralNat DEF IsNumber, Number

LEMMA FpsInRange ==
  ASSUME NEW fps \in Int
  PROVE  NormalizeFps(fps) \in 30 .. 240
<1>1. CASE fps < 30
  BY <1>1 DEF NormalizeFps
<1>2. CASE fps > 240
  <2>1. ~(fps < 30)
    BY <1>2
  <2> QED
    BY <1>2, <2>1 DEF NormalizeFps
<1>3. CASE ~(fps < 30) /\ ~(fps > 240)
  BY <1>3 DEF NormalizeFps
<1> QED
  BY <1>1, <1>2, <1>3

-----------------------------------------------------------------------------
(* The settings of one configuration.                                      *)

Fields == {"options", "tables", "prefix", "ui", "theme"}

(* What agreement rests on: the prefix is exactly what the two options     *)
(* make of it, even where neither of them is set.                          *)
Agrees(cfg) ==
  /\ Fields \subseteq DOMAIN cfg
  /\ {"status_bar", "pane_titles", "target_fps"} \subseteq DOMAIN cfg.ui
  /\ "status" \in DOMAIN cfg.options => cfg.ui.status_bar = Flag(cfg.options, "status")
  /\ "pane-border-status" \in DOMAIN cfg.options =>
       cfg.ui.pane_titles = Flag(cfg.options, "pane-border-status")
  /\ cfg.ui.target_fps \in 30 .. 240
  /\ cfg.prefix = PrefixKeys(cfg.options)

ConfigurationInv ==
  /\ phase = "toml" => config = DefaultConfig
  /\ "target_fps" \in DOMAIN toml.numbers => toml.numbers["target_fps"] \in 0 .. MaxU16
  /\ Agrees(config)

(* Bindings are no part of it.                                             *)
LEMMA TablesAside ==
  ASSUME NEW cfg, Agrees(cfg), NEW tables
  PROVE  Agrees([cfg EXCEPT !.tables = tables])
BY DEF Agrees, Fields

(* What ApplyOption does, option by option.                                *)
LEMMA AppliedPrefix ==
  ASSUME NEW cfg, NEW name \in {"prefix", "prefix2"}
  PROVE  ApplyOption(cfg, name) = [cfg EXCEPT !.prefix = PrefixKeys(cfg.options)]
BY DEF ApplyOption

LEMMA AppliedStatus ==
  ASSUME NEW cfg
  PROVE  ApplyOption(cfg, "status") = [cfg EXCEPT !.ui.status_bar = Flag(cfg.options, "status")]
BY DEF ApplyOption

LEMMA AppliedTitles ==
  ASSUME NEW cfg
  PROVE  ApplyOption(cfg, "pane-border-status")
           = [cfg EXCEPT !.ui.pane_titles = Flag(cfg.options, "pane-border-status")]
BY DEF ApplyOption

LEMMA AppliedFps ==
  ASSUME NEW cfg, Number(Get(cfg.options, "target-fps")) \in Nat
  PROVE  \E fps \in 30 .. 240 : ApplyOption(cfg, "target-fps") = [cfg EXCEPT !.ui.target_fps = fps]
<1> DEFINE asked == Number(Get(cfg.options, "target-fps"))
           fps == NormalizeFps(IF asked <= MaxU16 THEN asked ELSE DefaultFps)
<1>1. fps \in 30 .. 240
  <2>1. (IF asked <= MaxU16 THEN asked ELSE DefaultFps) \in Int
    BY DEF DefaultFps
  <2> QED
    BY <2>1, FpsInRange
<1>2. ApplyOption(cfg, "target-fps") = [cfg EXCEPT !.ui.target_fps = fps]
  BY DEF ApplyOption
<1> QED
  BY <1>1, <1>2

LEMMA AppliedOther ==
  ASSUME NEW cfg, NEW name,
         name \notin {"prefix", "prefix2", "status", "pane-border-status", "target-fps"}
  PROVE  ApplyOption(cfg, name) = cfg
BY DEF ApplyOption

(* A rate that is stored is a number.                                      *)
LEMMA RateIsNumber ==
  ASSUME NEW value, Normalize("target-fps", value) # Bad
  PROVE  IsNumber(Normalize("target-fps", value))
<1>1. Kind("target-fps") = "Number"
  <2>1. /\ "target-fps" \notin LiveFlags \cup InertFlags
        /\ "target-fps" \in LiveNumbers \cup InertNumbers
        /\ "target-fps" \notin LiveKeys /\ "target-fps" \notin LiveChoices
    BY DEF LiveFlags, InertFlags, LiveNumbers, InertNumbers, LiveKeys, LiveChoices
  <2> QED
    BY <2>1 DEF Kind
<1>2. CASE IsNumber(value)
  BY <1>1, <1>2 DEF Normalize
<1>3. CASE ~IsNumber(value)
  BY <1>1, <1>3 DEF Normalize
<1> QED
  BY <1>2, <1>3

(* The prefix follows two options and no other.                            *)
LEMMA PrefixFollows ==
  ASSUME NEW options, NEW others,
         Get(options, "prefix") = Get(others, "prefix"),
         Get(options, "prefix2") = Get(others, "prefix2")
  PROVE  PrefixKeys(options) = PrefixKeys(others)
BY DEF PrefixKeys

LEMMA SetAgrees ==
  ASSUME NEW cfg, Agrees(cfg), NEW command, Settable(command)
  PROVE  Agrees(SetAndApply(cfg, command))
<1> DEFINE name == OptionName(command)[1]
           value == Normalize(name, Wanted(command))
           stored == [cfg EXCEPT !.options = Put(@, name, value)]
           result == ApplyOption(stored, name)
<1>1. SetAndApply(cfg, command) = result
  BY DEF SetAndApply, Set
<1>2. value # Bad
  BY DEF Settable
<1>3. /\ stored.options = Put(cfg.options, name, value)
      /\ stored.ui = cfg.ui /\ stored.prefix = cfg.prefix
      /\ DOMAIN stored = DOMAIN cfg
  BY DEF Agrees, Fields
<1>4. /\ DOMAIN stored.options = DOMAIN cfg.options \cup {name}
      /\ Get(stored.options, name) = value
      /\ \A other : other # name => Get(stored.options, other) = Get(cfg.options, other)
  <2> HIDE DEF name, value, stored
  <2>1. /\ DOMAIN Put(cfg.options, name, value) = DOMAIN cfg.options \cup {name}
        /\ Get(Put(cfg.options, name, value), name) = value
        /\ \A other : other # name =>
             Get(Put(cfg.options, name, value), other) = Get(cfg.options, other)
    BY DEF Put, Get
  <2> QED
    BY <1>3, <2>1
<1> HIDE DEF name, value, stored
<1>5. CASE name \in {"prefix", "prefix2"}
  <2>1. result = [stored EXCEPT !.prefix = PrefixKeys(stored.options)]
    BY <1>5, AppliedPrefix
  <2> QED
    BY <1>1, <1>3, <1>4, <1>5, <2>1 DEF Agrees, Fields, Flag
<1>6. name \notin {"prefix", "prefix2"} => PrefixKeys(stored.options) = cfg.prefix
  BY <1>4, PrefixFollows DEF Agrees
<1>7. CASE name = "status"
  <2>1. result = [stored EXCEPT !.ui.status_bar = Flag(stored.options, "status")]
    BY <1>7, AppliedStatus
  <2> QED
    BY <1>1, <1>3, <1>4, <1>6, <1>7, <2>1 DEF Agrees, Fields, Flag
<1>8. CASE name = "pane-border-status"
  <2>1. result = [stored EXCEPT !.ui.pane_titles = Flag(stored.options, "pane-border-status")]
    BY <1>8, AppliedTitles
  <2> QED
    BY <1>1, <1>3, <1>4, <1>6, <1>8, <2>1 DEF Agrees, Fields, Flag
<1>9. CASE name = "target-fps"
  <2>1. Number(Get(stored.options, "target-fps")) \in Nat
    BY <1>2, <1>4, <1>9, RateIsNumber, NumberNat DEF value
  <2>2. PICK fps \in 30 .. 240 : result = [stored EXCEPT !.ui.target_fps = fps]
    BY <1>9, <2>1, AppliedFps
  <2> QED
    BY <1>1, <1>3, <1>4, <1>6, <1>9, <2>2 DEF Agrees, Fields, Flag
<1>10. CASE name \notin {"prefix", "prefix2", "status", "pane-border-status", "target-fps"}
  <2>1. result = stored
    BY <1>10, AppliedOther
  <2> QED
    BY <1>1, <1>3, <1>4, <1>6, <1>10, <2>1 DEF Agrees, Fields, Flag
<1> QED
  BY <1>5, <1>7, <1>8, <1>9, <1>10

-----------------------------------------------------------------------------
(* Loading.                                                                *)

LEMMA DefaultAgrees == Agrees(DefaultConfig)
<1>1. /\ DefaultConfig.options = NoneSet /\ DefaultConfig.prefix = PrefixKeys(NoneSet)
      /\ DefaultConfig.ui = [border_color |-> <<"cyan">>, status_bar |-> TRUE,
                             pane_titles |-> FALSE, target_fps |-> 160]
      /\ DOMAIN DefaultConfig = Fields
  BY DEF DefaultConfig, DefaultFps, Fields
<1> QED
  BY <1>1 DEF Agrees, NoneSet

LEMMA SettingType ==
  ASSUME NEW settings, NEW name, NEW else \in Int,
         name \in DOMAIN settings => settings[name] \in Int
  PROVE  Setting(settings, name, else) \in Int
BY DEF Setting

(* config.toml sets one option, and every rate that it names is a u16.     *)
LEMMA TomlAgrees ==
  ASSUME NEW raw, NEW read \in FromRaw(raw, DefaultConfig),
         "target_fps" \in DOMAIN raw.numbers => raw.numbers["target_fps"] \in 0 .. MaxU16
  PROVE  Agrees(read)
<1> DEFINE set == [DefaultConfig EXCEPT !.ui = Ui(raw), !.theme = Theme(raw), !.options = Powerline(raw)]
<1>1. Agrees(set)
  <2>1. /\ set.ui = Ui(raw) /\ set.options = Powerline(raw) /\ set.prefix = PrefixKeys(NoneSet)
        /\ DOMAIN set = Fields
    BY DEF DefaultConfig, Fields
  <2>2. DOMAIN Powerline(raw) \subseteq {"status-powerline"}
    BY DEF Powerline, Put, NoneSet
  <2>3. /\ Ui(raw).target_fps \in 30 .. 240
        /\ {"status_bar", "pane_titles", "target_fps"} \subseteq DOMAIN Ui(raw)
    <3>1. Setting(raw.numbers, "target_fps", DefaultFps) \in Int
      BY SettingType DEF DefaultFps
    <3> QED
      BY <3>1, FpsInRange DEF Ui
  <2>4. PrefixKeys(Powerline(raw)) = PrefixKeys(NoneSet)
    BY <2>2, PrefixFollows DEF Get, NoneSet
  <2> HIDE DEF set
  <2> QED
    BY <2>1, <2>2, <2>3, <2>4 DEF Agrees
<1>2. CASE ~Readable(raw)
  BY <1>2, DefaultAgrees DEF FromRaw
<1>3. CASE Readable(raw)
  <2>1. read \in BoundBy(raw, set)
    BY <1>3 DEF FromRaw
  <2> HIDE DEF set
  <2>2. PICK tables : read = [set EXCEPT !.tables = tables]
    BY <2>1 DEF BoundBy
  <2> QED
    BY <1>1, <2>2, TablesAside
<1> QED
  BY <1>2, <1>3

(* A line of weave.conf.                                                   *)
LEMMA BindKeeps ==
  ASSUME NEW cfg, NEW table, NEW key, NEW binding
  PROVE  \E tables : Bind(cfg, table, key, binding) = [cfg EXCEPT !.tables = tables]
BY DEF Bind

LEMMA UnbindKeeps ==
  ASSUME NEW cfg, NEW table, NEW key
  PROVE  \/ Unbind(cfg, table, key) = cfg
         \/ \E tables : Unbind(cfg, table, key) = [cfg EXCEPT !.tables = tables]
BY DEF Unbind

LEMMA UnbindAllKeeps ==
  ASSUME NEW cfg, NEW table
  PROVE  \E tables : UnbindAll(cfg, table) = [cfg EXCEPT !.tables = tables]
BY DEF UnbindAll

LEMMA LineAgrees ==
  ASSUME Agrees(config), NEW command,
         \/ ApplySetOption(command) \/ ApplyBindKey(command)
         \/ ApplyUnbindKey(command) \/ RefuseLine(command)
  PROVE  Agrees(config') /\ UNCHANGED <<phase, toml>>
<1>1. CASE ApplySetOption(command)
  BY <1>1, SetAgrees DEF ApplySetOption, Answer
<1>2. CASE ApplyBindKey(command)
  <2>1. config' = config \/ \E tables : config' = [config EXCEPT !.tables = tables]
    <3>1. PICK bindable, table, key, binding :
            config' = Bind(config, table, key, binding) \/ config' = config
      BY <1>2 DEF ApplyBindKey
    <3> QED
      BY <3>1, BindKeeps
  <2>2. Agrees(config')
    BY <2>1, TablesAside
  <2> QED
    BY <1>2, <2>2 DEF ApplyBindKey, Answer
<1>3. CASE ApplyUnbindKey(command)
  <2>1. config' = config \/ \E tables : config' = [config EXCEPT !.tables = tables]
    <3> DEFINE all == Switched(command, "all")
               table == TableOf(command)
               key == ParseKey(Slot(command, "word", None))
    <3>1. config' = CASE all -> UnbindAll(config, table)
                      [] ~all /\ key # K!NoKey -> Unbind(config, table, key)
                      [] OTHER -> config
      BY <1>3 DEF ApplyUnbindKey
    <3> HIDE DEF all, table, key
    <3>2. CASE all
      BY <3>1, <3>2, UnbindAllKeeps
    <3>3. CASE ~all /\ key # K!NoKey
      BY <3>1, <3>3, UnbindKeeps
    <3>4. CASE ~all /\ key = K!NoKey
      BY <3>1, <3>4
    <3> QED
      BY <3>2, <3>3, <3>4
  <2>2. Agrees(config')
    BY <2>1, TablesAside
  <2> QED
    BY <1>3, <2>2 DEF ApplyUnbindKey, Answer
<1>4. CASE RefuseLine(command)
  BY <1>4 DEF RefuseLine, Answer
<1> QED
  BY <1>1, <1>2, <1>3, <1>4

LEMMA InvInit == LoadInit => ConfigurationInv
<1> SUFFICES ASSUME LoadInit PROVE ConfigurationInv
  OBVIOUS
<1>1. PICK input \in Inputs : toml = input[1]
  BY DEF LoadInit
<1>2. config = DefaultConfig
  BY DEF LoadInit
<1> QED
  BY <1>1, <1>2, InputsAssumption, DefaultAgrees DEF ConfigurationInv

LEMMA InvNext == ConfigurationInv /\ [LoadNext]_loadVars => ConfigurationInv'
<1> SUFFICES ASSUME ConfigurationInv, [LoadNext]_loadVars PROVE ConfigurationInv'
  OBVIOUS
<1>1. CASE LoadToml
  <2>1. Agrees(config')
    BY <1>1, TomlAgrees DEF LoadToml, ConfigurationInv
  <2> QED
    BY <1>1, <2>1 DEF LoadToml, ConfigurationInv, Agrees
<1>2. CASE OpenConf \/ SourceFile \/ ReadLine \/ CloseFile \/ Finish
  <2>1. phase' # "toml" /\ UNCHANGED <<toml, config>>
    <3>1. ASSUME NEW complaints, Abort(complaints) PROVE phase' # "toml"
      BY <3>1 DEF Abort
    <3>2. ASSUME Quietly PROVE phase' # "toml"
      BY <3>1, <3>2 DEF Quietly
    <3>3. CASE OpenConf
      BY <3>3, <3>2 DEF OpenConf
    <3>4. CASE SourceFile
      <4>1. ASSUME NEW path, NEW under, OpenFile(path, under), phase = "read" PROVE phase' # "toml"
        <5>1. CASE Len(under) > MaxSourceDepth
          BY <3>1, <3>2, <4>1, <5>1 DEF OpenFile
        <5>2. CASE Len(under) <= MaxSourceDepth /\ path \notin DOMAIN files
          BY <3>1, <3>2, <4>1, <5>2 DEF OpenFile
        <5>3. CASE ~(Len(under) > MaxSourceDepth) /\ ~(Len(under) <= MaxSourceDepth /\ path \notin DOMAIN files)
          <6>1. UNCHANGED <<lines, phase, diagnostics>>
            BY <4>1, <5>3 DEF OpenFile
          <6> QED
            BY <4>1, <6>1
        <5> QED
          BY <5>1, <5>2, <5>3
      <4> QED
        BY <3>4, <4>1 DEF SourceFile
    <3>5. CASE ReadLine
      BY <3>1, <3>5 DEF ReadLine
    <3>6. CASE CloseFile \/ Finish
      BY <3>6 DEF CloseFile, Finish
    <3> QED
      BY <1>2, <3>3, <3>4, <3>5, <3>6
  <2> QED
    BY <2>1 DEF ConfigurationInv, Agrees
<1>3. CASE ApplyLine
  <2>1. Agrees(config') /\ UNCHANGED <<phase, toml>> /\ phase # "toml"
    BY <1>3, LineAgrees DEF ApplyLine, ConfigurationInv
  <2> QED
    BY <2>1 DEF ConfigurationInv, Agrees
<1>4. CASE UNCHANGED loadVars
  BY <1>4 DEF loadVars, ConfigurationInv, Agrees
<1> QED
  BY <1>1, <1>2, <1>3, <1>4 DEF LoadNext

(* The prefix is as long as there are prefix options that say a key.       *)
LEMMA PrefixCounted ==
  ASSUME NEW options, NEW prefix, prefix = PrefixKeys(options)
  PROVE  /\ \A i \in DOMAIN prefix :
              \E option \in {"prefix", "prefix2"} : ParseKey(Get(options, option)) = prefix[i]
         /\ Len(prefix) = Cardinality({ option \in {"prefix", "prefix2"} :
                                        ParseKey(Get(options, option)) # K!NoKey })
<1> DEFINE key(option) == ParseKey(Get(options, option))
           said == { option \in {"prefix", "prefix2"} : key(option) # K!NoKey }
           named(option) == IF key(option) = K!NoKey THEN <<>> ELSE <<key(option)>>
<1>1. prefix = named("prefix") \o named("prefix2")
  BY DEF PrefixKeys
<1> HIDE DEF key
<1>2. CASE key("prefix") = K!NoKey /\ key("prefix2") = K!NoKey
  <2>1. prefix = <<>> /\ said = {}
    BY <1>1, <1>2
  <2> QED
    BY <2>1, FS_EmptySet DEF key
<1>3. CASE key("prefix") # K!NoKey /\ key("prefix2") = K!NoKey
  <2>1. prefix = <<key("prefix")>> /\ said = {"prefix"}
    BY <1>1, <1>3
  <2> QED
    BY <2>1, FS_Singleton DEF key
<1>4. CASE key("prefix") = K!NoKey /\ key("prefix2") # K!NoKey
  <2>1. prefix = <<key("prefix2")>> /\ said = {"prefix2"}
    BY <1>1, <1>4
  <2> QED
    BY <2>1, FS_Singleton DEF key
<1>5. CASE key("prefix") # K!NoKey /\ key("prefix2") # K!NoKey
  <2>1. prefix = <<key("prefix"), key("prefix2")>> /\ said = {"prefix", "prefix2"}
    <3>1. prefix = <<key("prefix"), key("prefix2")>>
      <4>1. named("prefix") = <<key("prefix")>> /\ named("prefix2") = <<key("prefix2")>>
        BY <1>5
      <4>2. ASSUME NEW a, NEW b PROVE <<a>> \o <<b>> = <<a, b>>
        <5>1. <<a>> \in Seq({a, b}) /\ <<b>> \in Seq({a, b}) /\ <<a, b>> \in Seq({a, b})
          OBVIOUS
        <5>2. /\ <<a>> \o <<b>> \in Seq({a, b}) /\ Len(<<a>> \o <<b>>) = 2
              /\ (<<a>> \o <<b>>)[1] = a /\ (<<a>> \o <<b>>)[2] = b
          BY <5>1
        <5>3. \A i \in 1 .. 2 : (<<a>> \o <<b>>)[i] = <<a, b>>[i]
          BY <5>2
        <5> QED
          BY <5>1, <5>2, <5>3, SeqEqual
      <4> QED
        BY <1>1, <4>1, <4>2
    <3>2. said = {"prefix", "prefix2"}
      BY <1>5
    <3> QED
      BY <3>1, <3>2
  <2>2. Cardinality({"prefix", "prefix2"}) = 2
    <3>1. /\ IsFiniteSet({"prefix"}) /\ Cardinality({"prefix"}) = 1
          /\ {"prefix", "prefix2"} = {"prefix"} \cup {"prefix2"} /\ "prefix2" \notin {"prefix"}
      BY FS_Singleton
    <3> QED
      BY <3>1, FS_AddElement
  <2> QED
    BY <2>1, <2>2 DEF key
<1> QED
  BY <1>2, <1>3, <1>4, <1>5

\* What a setting that is copied out of the options says is what the option says
\* from the moment a line sets it (config/mod.rs apply_option), whatever the files
\* hold: every line of every file may be any command at all.
THEOREM SettingsAlwaysAgree == LoadSpec => []SettingsAgree
<1>1. ConfigurationInv => SettingsAgree
  <2> SUFFICES ASSUME ConfigurationInv PROVE SettingsAgree
    OBVIOUS
  <2>1. config.prefix = PrefixKeys(config.options)
    BY DEF ConfigurationInv, Agrees
  <2> QED
    BY <2>1, PrefixCounted DEF ConfigurationInv, Agrees, SettingsAgree
<1>2. QED
  BY <1>1, InvInit, InvNext, PTL DEF LoadSpec
=============================================================================
