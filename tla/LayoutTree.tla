----------------------------- MODULE LayoutTree -----------------------------
(***************************************************************************)
(* The binary tree of panes in one window: src/src/layout/tree.rs and      *)
(* src/src/layout/geometry.rs, and the functions of src/src/app.rs that    *)
(* walk the tree.  No state: `Layout` holds trees and applies these.       *)
(*                                                                         *)
(* A tree is a function from places to nodes.  A place is the way to it    *)
(* from the root, a sequence of "a" and "b" (the fields of Node::Internal  *)
(* that are taken).  A node is a leaf [pane] or internal [split, ratio];   *)
(* the nodes below an internal one are at the places that extend its own.  *)
(* NoTree, where the code has None, has no places.  What the code finds by *)
(* walking down, a pane or the nearest split above it, is said here of the *)
(* places themselves.                                                      *)
(*                                                                         *)
(* A rectangle is <<x, y, w, h>> in cells.  A ratio is counted in 1/Whole, *)
(* so that halves, thirds and quarters are exact; other shares are rounded *)
(* down to it, where the code has an f32.                                  *)
(***************************************************************************)
EXTENDS Integers, Sequences, SequencesExt, FiniteSetsExt

NoTree == <<>>
NoRect == <<>>
Whole == 120
MinRatio == 6                    \* MIN_SPLIT_RATIO, 0.05
Vertical == "vertical"           \* the divider is vertical: the width is split
Horizontal == "horizontal"
Axes == {Vertical, Horizontal}
Directions == {"left", "right", "up", "down"}

LeafNode(p) == [pane |-> p]
Internal(split, ratio) == [split |-> split, ratio |-> ratio]
IsLeaf(n) == "pane" \in DOMAIN n

Clamp(lo, v, hi) == IF v < lo THEN lo ELSE IF v > hi THEN hi ELSE v
ClampRatio(r) == Clamp(MinRatio, r, Whole - MinRatio)
AxisOf(dir) == IF dir \in {"left", "right"} THEN Vertical ELSE Horizontal

-----------------------------------------------------------------------------
(* Geometry *)

\* The first part of `extent` cells: rounded, and neither part empty unless
\* there is no room for both.
SplitExtent(extent, ratio) ==
  IF extent <= 1 THEN 1
  ELSE Clamp(1, (2 * extent * Clamp(0, ratio, Whole) + Whole) \div (2 * Whole), extent - 1)

\* Mutant: a column is kept for the divider.
RestLessDivider(extent, first) == Max({extent - first - 1, 1})

Rest(extent, first) == Max({extent - first, 1})

Halves(r, split, ratio) ==
  LET w == SplitExtent(r[3], ratio)
      h == SplitExtent(r[4], ratio)
  IN IF split = Vertical
     THEN << <<r[1], r[2], w, r[4]>>, <<r[1] + w, r[2], Rest(r[3], w), r[4]>> >>
     ELSE << <<r[1], r[2], r[3], h>>, <<r[1], r[2] + h, r[3], Rest(r[4], h)>> >>

\* The cells inside a pane's border, at least the two that an emulator needs.
MinGrid == 2
Content(r) == <<Max({r[3] - 2, MinGrid}), Max({r[4] - 2, MinGrid})>>

Right(r) == r[1] + r[3]
Bottom(r) == r[2] + r[4]
Overlap(a, b, c, d) == Max({0, Min({b, d}) - Max({a, c})})

\* Whether c meets f's edge towards `dir` at all, were it as long as the screen.
Meets(f, c, dir) ==
  IF dir = "left" THEN Right(c) = f[1]
  ELSE IF dir = "right" THEN c[1] = Right(f)
  ELSE IF dir = "up" THEN Bottom(c) = f[2] ELSE c[2] = Bottom(f)

\* Mutant: the two axes are confused.
SharedEdgeConfused(f, c, dir) ==
  IF ~Meets(f, c, dir) THEN 0
  ELSE IF AxisOf(dir) = Horizontal THEN Overlap(f[2], Bottom(f), c[2], Bottom(c))
  ELSE Overlap(f[1], Right(f), c[1], Right(c))

\* How much of f's edge towards `dir` the rectangle c touches.
SharedEdge(f, c, dir) ==
  IF ~Meets(f, c, dir) THEN 0
  ELSE IF AxisOf(dir) = Vertical THEN Overlap(f[2], Bottom(f), c[2], Bottom(c))
  ELSE Overlap(f[1], Right(f), c[1], Right(c))

-----------------------------------------------------------------------------
(* Reading a tree *)

LeafPlaces(t) == {x \in DOMAIN t : IsLeaf(t[x])}
PanesIn(t) == {t[x].pane : x \in LeafPlaces(t)}
\* What every tree is: both halves of an internal node are there and nothing is
\* below a leaf, and no pane is in two places.
IsTree(t) ==
  /\ IsFiniteSet(DOMAIN t) /\ DOMAIN t \subseteq Seq({"a", "b"}) /\ <<>> \in DOMAIN t
  /\ \A x \in DOMAIN t :
       /\ x # <<>> => Front(x) \in DOMAIN t /\ ~IsLeaf(t[Front(x)])
       /\ IF IsLeaf(t[x]) THEN t[x] \in [pane : Nat \ {0}]
          ELSE /\ t[x] \in [split : Axes, ratio : 0 .. Whole]
               /\ Append(x, "a") \in DOMAIN t /\ Append(x, "b") \in DOMAIN t
  /\ \A x, y \in LeafPlaces(t) : t[x].pane = t[y].pane => x = y

PlaceOf(t, p) == CHOOSE x \in LeafPlaces(t) : t[x].pane = p

\* The first half of a node comes before the second, and all that is in them.
Before(x, y) ==
  \E i \in DOMAIN x \cap DOMAIN y :
    x[i] = "a" /\ y[i] = "b" /\ \A j \in 1 .. i - 1 : x[j] = y[j]
Earlier(t, p, q) == Before(PlaceOf(t, p), PlaceOf(t, q))

\* Every leaf's pane, in layout order.
Rank(x, places) == Cardinality({y \in places : Before(y, x)}) + 1
InOrder(places) ==
  [i \in 1 .. Cardinality(places) |-> CHOOSE x \in places : Rank(x, places) = i]
Leaves(t) ==
  LET order == InOrder(LeafPlaces(t)) IN [i \in DOMAIN order |-> t[order[i]].pane]
FirstLeaf(t) == IF t = NoTree THEN 0 ELSE Leaves(t)[1]

\* What compute_layout gives every node: its half of what the one above it has.
Rects(t, r) ==
  LET rect[x \in DOMAIN t] ==
        IF x = <<>> THEN r
        ELSE LET above == t[Front(x)]
                 halves == Halves(rect[Front(x)], above.split, above.ratio)
             IN IF Last(x) = "a" THEN halves[1] ELSE halves[2]
  IN rect
Laid(t, r) == LET rects == Rects(t, r) IN [p \in PanesIn(t) |-> rects[PlaceOf(t, p)]]

\* A zoomed pane is laid out normally and then stretched over the whole window.
LayOut(t, r, zoomed) ==
  LET rects == Rects(t, r)
  IN [p \in PanesIn(t) |-> IF p = zoomed THEN r ELSE rects[PlaceOf(t, p)]]

\* The split nearest above a pane on one axis: the deepest of those that hold it.
SplitsAbove(t, p, axis) ==
  {x \in DOMAIN t \ LeafPlaces(t) : t[x].split = axis /\ IsPrefix(x, PlaceOf(t, p))}
NearestSplit(t, p, axis) ==
  CHOOSE x \in SplitsAbove(t, p, axis) : \A y \in SplitsAbove(t, p, axis) : Len(y) <= Len(x)

\* The pane with the longest shared edge, the first in layout order if several.
\* `at` is where the tree's leaves were last laid out.
Neighbor(t, at, p, dir) ==
  LET edge(q) == SharedEdge(at[p], at[q], dir)
      others == PanesIn(t) \ {p}
      best == {q \in others : edge(q) > 0 /\ \A o \in others : edge(o) <= edge(q)}
  IN IF p \notin PanesIn(t) \/ best = {} THEN 0
     ELSE CHOOSE q \in best : \A o \in best \ {q} : Earlier(t, q, o)

-----------------------------------------------------------------------------
(* Changing a tree *)

\* The leaf becomes a split of itself and a new one.
SplitLeaf(t, p, split, ratio, new) ==
  LET x == PlaceOf(t, p)
      first == Append(x, "a")
      second == Append(x, "b")
  IN [y \in DOMAIN t \cup {first, second} |->
        IF y = x THEN Internal(split, ratio)
        ELSE IF y = first THEN LeafNode(p)
        ELSE IF y = second THEN LeafNode(new) ELSE t[y]]

\* Where a node goes when what is at `from` takes the place `to`.
Moved(x, from, to) ==
  IF IsPrefix(from, x) THEN to \o SubSeq(x, Len(from) + 1, Len(x)) ELSE x

Sibling(x) == Append(Front(x), IF Last(x) = "a" THEN "b" ELSE "a")

\* Mutant: the sibling's halves change places on the way up.
CloseLeafTurning(t, p) ==
  LET x == PlaceOf(t, p)
      goes(y) == IF y # Sibling(x) /\ IsPrefix(Sibling(x), y)
                 THEN Moved(y, SubSeq(y, 1, Len(x) + 1),
                            Append(Front(x), IF y[Len(x) + 1] = "a" THEN "b" ELSE "a"))
                 ELSE Moved(y, Sibling(x), Front(x))
      kept == DOMAIN t \ {x, Front(x)}
  IN [y \in {goes(z) : z \in kept} |-> t[CHOOSE z \in kept : goes(z) = y]]

\* A leaf's sibling takes the place of the node above them.  The root leaf
\* cannot be closed.
CloseLeaf(t, p) ==
  LET x == PlaceOf(t, p)
      goes(y) == Moved(y, Sibling(x), Front(x))
      kept == DOMAIN t \ {x, Front(x)}
  IN [y \in {goes(z) : z \in kept} |-> t[CHOOSE z \in kept : goes(z) = y]]

CanClose(t, p) == p \in PanesIn(t) /\ PlaceOf(t, p) # <<>>

SetRatio(t, x, ratio) == [t EXCEPT ![x] = Internal(@.split, ratio)]

ExtentOf(r, split) == IF split = Vertical THEN r[3] ELSE r[4]

\* There is a boundary to move, in cells that there are.
HasSplit(t, r, p, axis) ==
  /\ SplitsAbove(t, p, axis) # {}
  /\ ExtentOf(Rects(t, r)[NearestSplit(t, p, axis)], axis) # 0

\* Move the boundary nearest `p` along `dir` by some cells: left and up lessen
\* the first part, whichever side the pane is on.
MoveBoundary(t, r, p, dir, cells) ==
  LET x == NearestSplit(t, p, AxisOf(dir))
      by == (Whole * cells) \div ExtentOf(Rects(t, r)[x], AxisOf(dir))
  IN SetRatio(t, x, ClampRatio(IF dir \in {"left", "up"} THEN t[x].ratio - by ELSE t[x].ratio + by))

\* Give the pane so many cells along one axis.
ResizeTo(t, r, p, axis, cells) ==
  LET x == NearestSplit(t, p, axis)
      wanted == (Whole * cells) \div ExtentOf(Rects(t, r)[x], axis)
      first == PlaceOf(t, p)[Len(x) + 1] = "a"
  IN SetRatio(t, x, ClampRatio(IF first THEN wanted ELSE Whole - wanted))

\* The same shape with other panes in it: f says who takes whose place.
Relabel(t, f) == [x \in DOMAIN t |-> IF IsLeaf(t[x]) THEN LeafNode(f[t[x].pane]) ELSE t[x]]

SwapLeaves(t, p, q) ==
  Relabel(t, [o \in PanesIn(t) |-> IF o = p THEN q ELSE IF o = q THEN p ELSE o])

Rotated(t, reverse) ==
  LET order == Leaves(t)
      n == Len(order)
      next(i) == IF reverse THEN IF i = 1 THEN n ELSE i - 1 ELSE IF i = n THEN 1 ELSE i + 1
  IN Relabel(t, [p \in PanesIn(t) |-> order[next(Rank(PlaceOf(t, p), LeafPlaces(t)))]])

-----------------------------------------------------------------------------
(* The presets of select-layout *)

Leaf(p) == [x \in {<<>>} |-> LeafNode(p)]

\* A split of two trees.
Joined(split, ratio, s, t) ==
  [x \in {<<>>} \cup {<<"a">> \o y : y \in DOMAIN s} \cup {<<"b">> \o y : y \in DOMAIN t} |->
     IF x = <<>> THEN Internal(split, ratio)
     ELSE IF Head(x) = "a" THEN s[Tail(x)] ELSE t[Tail(x)]]

\* Each of the trees takes its share of what is left: 1/n, then 1/(n-1), ...
Chain(trees, split) ==
  LET last[n \in 1 .. Len(trees)] ==
        IF n = 1 THEN trees[Len(trees)]
        ELSE Joined(split, Whole \div n, trees[Len(trees) - n + 1], last[n - 1])
  IN last[Len(trees)]

EvenChain(panes, split) == Chain([i \in DOMAIN panes |-> Leaf(panes[i])], split)

\* Mutant: the stack is built from its far end.
MainAndStackReversed(panes, split) ==
  IF Len(panes) = 1 THEN Leaf(panes[1])
  ELSE Joined(split, Whole \div 2, Leaf(panes[1]),
              EvenChain(Reverse(Tail(panes)), IF split = Vertical THEN Horizontal ELSE Vertical))

MainAndStack(panes, split) ==
  IF Len(panes) = 1 THEN Leaf(panes[1])
  ELSE Joined(split, Whole \div 2, Leaf(panes[1]),
              EvenChain(Tail(panes), IF split = Vertical THEN Horizontal ELSE Vertical))

\* How many parts of `size` there are in n, the last one perhaps smaller.
CeilDiv(n, size) == (n + size - 1) \div size

\* Rows of so many panes, and what is left in the last one.
BuildRows(panes, perRow) ==
  Chain([i \in 1 .. CeilDiv(Len(panes), perRow) |->
           EvenChain(SubSeq(panes, (i - 1) * perRow + 1, Min({i * perRow, Len(panes)})), Vertical)],
        Horizontal)

\* A roughly square grid.
Tiled(panes) ==
  LET rows == Min({k \in 1 .. Len(panes) : k * k >= Len(panes)})
  IN BuildRows(panes, CeilDiv(Len(panes), rows))

Presets == {"even-horizontal", "even-vertical", "main-vertical", "main-horizontal", "tiled"}

Preset(panes, name) ==
  CASE name = "even-horizontal" -> EvenChain(panes, Vertical)
    [] name = "even-vertical" -> EvenChain(panes, Horizontal)
    [] name = "main-vertical" -> MainAndStack(panes, Vertical)
    [] name = "main-horizontal" -> MainAndStack(panes, Horizontal)
    [] OTHER -> Tiled(panes)
=============================================================================
