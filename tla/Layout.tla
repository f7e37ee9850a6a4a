------------------------------- MODULE Layout -------------------------------
(***************************************************************************)
(* Where the panes of a session are drawn, and how large their programs    *)
(* are told they are: the handlers of src/src/app.rs that change a layout, *)
(* over src/src/layout/ and src/src/anim/timeline.rs.                      *)
(*                                                                         *)
(* A leaf of a tree has the rectangle it is drawn in now (`cur`), the one  *)
(* the layout gives it (`target`) and, while it moves, a tween to some     *)
(* rectangle (`to`) with time left.  Its program's terminal (`pty`) and    *)
(* the emulator (`grid`) have sizes of their own.  A rectangle part-way    *)
(* through a tween is `Moving`, which no target equals.                    *)
(*                                                                         *)
(* A command names a pane of the window on screen here: one that names     *)
(* another window's shows that window first, which is Switch.  Processes   *)
(* and numbers are left to `Workspaces`.                                   *)
(***************************************************************************)
EXTENDS LayoutTree

CONSTANTS
  WindowCount,   \* how many windows there are
  MaxPanes,      \* bound: panes ever spawned
  MaxCommands,   \* bound: commands, deaths and resizes in a run
  Sizes,         \* the sizes the terminal can have, as <<columns, rows>>
  Shares,        \* the shares of Whole that split-window -p may ask for
  Amounts,       \* the cells that resize-pane may ask for
  Startups       \* the trees the session starts from

ASSUME LayoutAssumption ==
  /\ WindowCount \in Nat \ {0} /\ MaxPanes \in Nat
  /\ Sizes \subseteq Nat \X Nat /\ Shares \subseteq Int /\ Amounts \subseteq Nat
  \* A session starts with one pane, or with those of a startup script, numbered from 1.
  /\ \A root \in Startups :
       /\ IsTree(root) /\ Cardinality(PanesIn(root)) <= MaxPanes
       /\ PanesIn(root) = 1 .. Cardinality(PanesIn(root))

Window == 1 .. WindowCount
PaneId == 1 .. MaxPanes
NoPane == 0

VARIABLES
  window,    \* workspaces: root, focused, zoomed, closing; `area` is the
             \* rectangle of the last layout
  leaf,      \* per pane: cur, target, tween (to, left), pty, grid
  current,   \* current_workspace
  screen,    \* the size of the surfaces
  bar,       \* status_bar
  spawned,   \* how many panes have been spawned
  commands,  \* how many commands have been run (a bound)
  rough      \* history: the windows in which a handler has changed the layout
             \* without moving or sizing every pane that it concerns

vars == <<window, leaf, current, screen, bar, spawned, commands, rough>>

\* Durations in ticks of the clock, in the order of the code's milliseconds:
\* 220 for a new pane, 180 for its sibling and for a close, 140 for a reshape.
NewTime == 4
SiblingTime == 3
CloseTime == 3
ReshapeTime == 2

Moving == <<"moving">>
Collapsed == <<MinGrid, MinGrid>>
Unsized == <<80, 24>>            \* what a new PTY has until it is resized

NoLeaf == [cur |-> NoRect, target |-> NoRect, to |-> NoRect, left |-> 0,
           pty |-> Unsized, grid |-> Unsized]
NoWindow == [root |-> NoTree, focused |-> NoPane, zoomed |-> NoPane, closing |-> {},
             area |-> NoRect]

RootOf(size, b) == <<0, 0, size[1], IF b THEN Max({size[2] - 1, 0}) ELSE size[2]>>
RootRect == RootOf(screen, bar)

W == window[current]
Shown == PanesIn(W.root)
Tweening == {p \in PaneId : leaf[p].left > 0}

-----------------------------------------------------------------------------
(* The pieces that handlers are made of *)

\* recompute_layout: the tree's leaves get their targets.
Recomputed(L, w, r) ==
  LET at == LayOut(w.root, r, w.zoomed)
      panes == PanesIn(w.root)
  IN [p \in PaneId |-> IF p \in panes THEN [L[p] EXCEPT !.target = at[p]] ELSE L[p]]

Tween(l, to, time) == [l EXCEPT !.to = to, !.left = time]
Still(l) == [l EXCEPT !.left = 0, !.to = NoRect]
Vacated(l) == [NoLeaf EXCEPT !.to = l.to, !.left = l.left]  \* the timeline keeps the tween
Sized(l, size) == [l EXCEPT !.pty = size, !.grid = size]

\* Mutant: the leaves are placed and not moved.
AnimatedNot(L, w, r) == Recomputed(L, w, r)

\* animate_to_new_layout: a pane that is drawn where it belongs is passed over,
\* whatever it is moving to.
Animated(L, w, r) ==
  LET M == Recomputed(L, w, r)
      panes == PanesIn(w.root)
  IN [p \in PaneId |->
        IF p \in panes /\ M[p].cur # M[p].target
        THEN Tween(M[p], M[p].target, ReshapeTime) ELSE M[p]]

\* Panes are taken out of the tree one by one; the last one, and one that is
\* not in it any more, takes the tree along.
Pruned(root, gone) ==
  LET without[S \in SUBSET gone] ==
        IF S = {} THEN root
        ELSE LET p == CHOOSE p \in S : TRUE IN CloseLeaf(without[S \ {p}], p)
  IN IF gone = {} THEN root
     ELSE IF gone \subseteq PanesIn(root) /\ PanesIn(root) \ gone # {} THEN without[gone]
     ELSE NoTree

\* snap_workspace_tweens: closings end now, the rest goes where it belongs.
SettledWindow(w) ==
  LET root == Pruned(w.root, w.closing)
  IN [w EXCEPT !.root = root, !.closing = {},
               !.focused = IF w.closing # {} /\ root = NoTree THEN NoPane ELSE @]

SettledLeaves(L, w) ==
  LET panes == PanesIn(SettledWindow(w).root)
  IN [p \in PaneId |->
     IF p \in w.closing THEN NoLeaf
     ELSE IF p \in panes THEN [Sized(Still(L[p]), Content(L[p].target)) EXCEPT !.cur = L[p].target]
     ELSE L[p]]

\* resize every pane of a window to its slot, wherever it is drawn.
FittedLeaves(L, panes) ==
  [p \in PaneId |-> IF p \in panes THEN Sized(L[p], Content(L[p].target)) ELSE L[p]]

Fresh(r, size) == [NoLeaf EXCEPT !.cur = r, !.target = r, !.grid = Content(r), !.pty = size]

Lone(w, p, r) == [w EXCEPT !.root = Leaf(p), !.focused = p, !.area = r]

\* switch_workspace(v) on given windows and leaves, when v is not on screen: a
\* window without a tree gets a pane.
Switched(win, L, v) ==
  LET out == SettledWindow(win[current])
      L1 == SettledLeaves(L, win[current])
      new == spawned + 1
      empty == win[v].root = NoTree
      in == [(IF empty THEN Lone(win[v], new, RootRect) ELSE win[v]) EXCEPT !.area = RootRect]
      L2 == IF empty THEN [L1 EXCEPT ![new] = Fresh(RootRect, Content(RootRect))] ELSE L1
  IN [win |-> [win EXCEPT ![current] = out, ![v] = in],
      leaf |-> FittedLeaves(Recomputed(L2, in, RootRect), PanesIn(in.root)),
      spawned |-> IF empty THEN new ELSE spawned]

CanSwitch(win, v) == win[v].root = NoTree => spawned < MaxPanes

\* detach_pane_from_window
Detached(w, p) ==
  LET root == IF CanClose(w.root, p) THEN CloseLeaf(w.root, p) ELSE NoTree
  IN [w EXCEPT !.root = root,
               !.closing = @ \ {p},
               !.focused = IF @ = p THEN FirstLeaf(root) ELSE @,
               !.zoomed = IF @ = p THEN NoPane ELSE @]

-----------------------------------------------------------------------------
(* What `rough` records.  No action reads it. *)

\* A close in flight moves the other panes to where they will be without it,
\* which anything else that lays the window out knows nothing of.
Closing == W.closing # {}

\* A pane that stands where it belongs keeps a tween to somewhere else.
Misled(L, w, r) ==
  LET M == Recomputed(L, w, r)
  IN \E p \in PanesIn(w.root) :
       M[p].cur = M[p].target /\ M[p].left > 0 /\ M[p].to # M[p].target

\* Leaves that a change of the tree moves, apart from those it animates.
Unmoved(L, w, r, moved) ==
  LET M == Recomputed(L, w, r)
  IN \E p \in PanesIn(w.root) \ moved : M[p].target # L[p].target

Mark(w, bad) == IF bad THEN rough \cup {w} ELSE rough

\* Every pane's target is where it belongs.
Placed(L, w, r) ==
  LET at == LayOut(w.root, r, w.zoomed) IN \A p \in PanesIn(w.root) : L[p].target = at[p]

\* The window on screen, now w, goes off it: settling puts every pane at its
\* target, which is where it belongs unless a pane has been taken out since the
\* last layout, or is being taken out now.
Left(L, w) ==
  IF w.closing = {} /\ Placed(L, w, RootRect) THEN rough \ {current} ELSE rough \cup {current}

-----------------------------------------------------------------------------
Init ==
  /\ bar = TRUE
  /\ screen \in Sizes
  /\ current = 1
  /\ \E root \in Startups :
       LET r == RootOf(screen, TRUE)
           at == Laid(root, r)
       IN /\ spawned = Cardinality(PanesIn(root))
          /\ window = [w \in Window |->
                         IF w = 1 THEN [Lone(NoWindow, 1, r) EXCEPT !.root = root] ELSE NoWindow]
          /\ leaf = [p \in PaneId |->
                       IF p \in DOMAIN at THEN Fresh(at[p], Content(at[p])) ELSE NoLeaf]
  /\ commands = 0
  /\ rough = {}

Running == \E w \in Window : window[w].root # NoTree
Command == Running /\ commands < MaxCommands /\ commands' = commands + 1

Put(w) == window' = [window EXCEPT ![current] = w]

\* Every command that changes shape without adding or removing a pane.
Reshape(w) ==
  /\ Command
  /\ Put([w EXCEPT !.area = RootRect])
  /\ leaf' = Animated(leaf, w, RootRect)
  /\ rough' = Mark(current, Closing \/ Misled(leaf, w, RootRect))
  /\ UNCHANGED <<current, screen, bar, spawned>>

Split(p, split, share, detached) ==
  /\ Command
  /\ p \in Shown /\ spawned < MaxPanes
  /\ LET new == spawned + 1
         old == leaf[p].target
         w == [W EXCEPT !.root = SplitLeaf(@, p, split, ClampRatio(Whole - share), new),
                        !.focused = IF detached THEN @ ELSE new,
                        !.area = RootRect]
         L == Recomputed([leaf EXCEPT ![new] = Fresh(RootRect, Unsized)], w, RootRect)
     IN /\ Put(w)
        /\ spawned' = new
        /\ leaf' = [L EXCEPT
             ![p] = Tween([@ EXCEPT !.cur = old], @.target, SiblingTime),
             ![new] = Tween([@ EXCEPT !.cur = Moving], @.target, NewTime)]
        /\ rough' = Mark(current, Closing \/ Unmoved(leaf, w, RootRect, {p, new}))
  /\ UNCHANGED <<current, screen, bar>>

ResizeBy(p, dir, cells) ==
  /\ p \in Shown /\ W.zoomed = NoPane
  /\ HasSplit(W.root, W.area, p, AxisOf(dir))
  /\ Reshape([W EXCEPT !.root = MoveBoundary(@, W.area, p, dir, cells)])

ResizePaneTo(p, axis, cells) ==
  /\ p \in Shown /\ W.zoomed = NoPane
  /\ HasSplit(W.root, W.area, p, axis)
  /\ Reshape([W EXCEPT !.root = ResizeTo(@, W.area, p, axis, cells)])

ToggleZoom(p) ==
  /\ p \in Shown
  /\ Reshape(IF W.zoomed = p THEN [W EXCEPT !.zoomed = NoPane]
             ELSE [W EXCEPT !.zoomed = p, !.focused = p])

SwapPanes(p, q, keepFocus) ==
  /\ p \in Shown /\ q \in Shown /\ p # q
  /\ Reshape([W EXCEPT !.root = SwapLeaves(@, p, q),
                       !.focused = IF keepFocus THEN @ ELSE p])

RotateWindow(reverse) ==
  /\ Cardinality(Shown) > 1
  /\ Reshape([W EXCEPT !.root = Rotated(@, reverse)])

SelectLayout(name) ==
  /\ Shown # {}
  /\ Reshape([W EXCEPT !.root = Preset(Leaves(@), name)])

\* select-pane -L and the like: by geometry, as last laid out.
FocusDirection(dir) ==
  /\ Command
  /\ W.root # NoTree /\ W.focused \in Shown
  /\ LET at == [p \in PaneId |-> leaf[p].target]
         next == Neighbor(W.root, at, W.focused, dir)
     IN next # 0 /\ Put([W EXCEPT !.focused = next])
  /\ UNCHANGED <<leaf, current, screen, bar, spawned, rough>>

\* close_pane: the pane stays in the tree until its animation ends; the others
\* grow into its space at once.
KillPane(p) ==
  /\ Command
  /\ p \in Shown /\ p \notin W.closing
  /\ IF ~CanClose(W.root, p)
     THEN /\ Put([W EXCEPT !.root = NoTree, !.focused = NoPane])
          /\ leaf' = [leaf EXCEPT ![p] = Vacated(leaf[p])]
          /\ UNCHANGED rough
     ELSE LET post == CloseLeaf(W.root, p)
              at == Laid(post, RootRect)
          IN /\ Put([W EXCEPT !.closing = @ \cup {p}, !.focused = FirstLeaf(post)])
             /\ leaf' = [q \in PaneId |->
                  IF q = p THEN Tween(leaf[q], Moving, CloseTime)
                  ELSE IF q \in DOMAIN at THEN Tween(leaf[q], at[q], CloseTime)
                  ELSE leaf[q]]
             /\ rough' = Mark(current, Closing \/ W.zoomed \in Shown)
  /\ UNCHANGED <<current, screen, bar, spawned>>

\* PaneDied: the tree closes up; nobody is moved or told.
PaneDied(p) ==
  /\ Command
  /\ \E v \in Window :
       /\ p \in PanesIn(window[v].root)
       /\ LET w == window[v]
              root == CloseLeaf(w.root, p)
              closed == [w EXCEPT !.root = root, !.focused = FirstLeaf(root),
                                  !.area = IF v = current THEN RootRect ELSE @]
              L == [leaf EXCEPT ![p] = Vacated(leaf[p])]
          IN IF CanClose(w.root, p)
             THEN /\ window' = [window EXCEPT ![v] = closed]
                  /\ leaf' = IF v = current THEN Recomputed(L, closed, RootRect) ELSE L
                  /\ rough' = rough \cup {v}
             ELSE /\ w.focused = p
                  /\ window' = [window EXCEPT ![v] = [@ EXCEPT !.root = NoTree, !.focused = NoPane]]
                  /\ leaf' = L
                  /\ UNCHANGED rough
  /\ UNCHANGED <<current, screen, bar, spawned>>

\* respawn-pane -k: the replacement stands where the pane stood, at the size a
\* lone pane would have, and its PTY is not resized.
RespawnPane(p) ==
  /\ Command
  /\ p \in Shown /\ spawned < MaxPanes
  /\ LET new == spawned + 1
         w == [W EXCEPT !.root = Relabel(@, [q \in Shown |-> IF q = p THEN new ELSE q]),
                        !.focused = IF @ = p THEN new ELSE @,
                        !.area = RootRect]
         L == [leaf EXCEPT ![new] = [Fresh(RootRect, Unsized) EXCEPT !.cur = leaf[p].cur],
                           ![p] = Vacated(leaf[p])]
     IN /\ Put(w)
        /\ leaf' = Recomputed(L, w, RootRect)
        /\ spawned' = new
  /\ rough' = rough \cup {current}
  /\ UNCHANGED <<current, screen, bar>>

Switch(v) ==
  /\ Command
  /\ v # current /\ CanSwitch(window, v)
  /\ LET s == Switched(window, leaf, v)
     IN window' = s.win /\ leaf' = s.leaf /\ spawned' = s.spawned
  /\ current' = v
  \* On the way in panes are sized and not moved: a window that is rough stays so.
  /\ rough' = Left(leaf, W)
  /\ UNCHANGED <<screen, bar>>

\* break-pane into window v.
BreakPane(p, v, detached) ==
  /\ Command
  /\ p \in Shown /\ Cardinality(Shown) > 1
  /\ v # current /\ window[v].root = NoTree
  /\ LET from == [Detached(W, p) EXCEPT !.area = RootRect]
         win == [window EXCEPT ![current] = from, ![v] = Lone(@, p, RootRect)]
         L == [Recomputed(leaf, from, RootRect) EXCEPT
                 ![p].cur = RootRect, ![p].target = RootRect]
         s == Switched(win, L, v)
     IN IF detached
        THEN /\ window' = win
             /\ leaf' = [L EXCEPT ![p] = Sized(Still(@), Content(RootRect))]
             /\ rough' = (rough \cup {current}) \ {v}
             /\ UNCHANGED current
        ELSE /\ window' = s.win /\ leaf' = s.leaf
             /\ current' = v
             /\ rough' = (Left(L, from) \ {v}) \cup (IF leaf[p].left > 0 THEN {v} ELSE {})
  /\ UNCHANGED <<screen, bar, spawned>>

\* join-pane: p, of window u, is split off a pane of window v.
JoinPane(p, u, onto, v, split, detached) ==
  /\ Command
  /\ p \in PanesIn(window[u].root) /\ onto \in PanesIn(window[v].root) /\ p # onto
  /\ LET from == [Detached(window[u], p) EXCEPT !.area = IF u = current THEN RootRect ELSE @]
         win == [window EXCEPT ![u] = from]
         L == IF u = current THEN Recomputed(leaf, from, RootRect) ELSE leaf
         s == IF v = current THEN [win |-> win, leaf |-> L] ELSE Switched(win, L, v)
         marked == IF v = current THEN rough ELSE Left(L, win[current])
         old == s.leaf[onto].target
         w == [s.win[v] EXCEPT !.root = SplitLeaf(@, onto, split, Whole \div 2, p),
                               !.focused = IF detached THEN @ ELSE p,
                               !.area = RootRect]
         M == Recomputed(s.leaf, w, RootRect)
     IN /\ window' = [s.win EXCEPT ![v] = w]
        /\ leaf' = [M EXCEPT
             ![onto] = Tween([@ EXCEPT !.cur = old], @.target, SiblingTime),
             ![p] = Tween([@ EXCEPT !.cur = Moving], @.target, NewTime)]
        /\ rough' = marked \cup {u, v}
  /\ current' = v
  /\ UNCHANGED <<screen, bar, spawned>>

\* resize_to: every window is laid out anew, the hidden ones snap, the one on
\* screen settles, and every pane gets the size of its slot.
HostResize(size) ==
  /\ Command
  /\ size # screen
  /\ screen' = size
  /\ LET r == RootOf(size, bar)
         laid == [v \in Window |->
                    IF window[v].root = NoTree THEN window[v] ELSE [window[v] EXCEPT !.area = r]]
         win == [laid EXCEPT ![current] = SettledWindow(laid[current])]
         at(v) == LayOut(window[v].root, r, window[v].zoomed)
         owner(p) == {v \in Window : p \in PanesIn(window[v].root)}
         snap(p) == LET t == at(CHOOSE v \in owner(p) : TRUE)[p]
                    IN [Sized(leaf[p], Content(t)) EXCEPT !.cur = t, !.target = t]
     IN /\ window' = win
        /\ leaf' = [p \in PaneId |->
             IF p \in W.closing THEN NoLeaf
             ELSE IF owner(p) = {} THEN leaf[p]
             ELSE IF current \in owner(p) THEN Still(snap(p)) ELSE snap(p)]
  /\ rough' = IF Closing THEN {current} ELSE {}
  /\ UNCHANGED <<current, bar, spawned>>

\* set-option status: the panes stay where they were.
ToggleBar ==
  /\ Command
  /\ bar' = ~bar
  /\ rough' = Window
  /\ UNCHANGED <<window, leaf, current, screen, spawned>>

-----------------------------------------------------------------------------
\* Timeline::advance and what follows it.  Only the tree on screen moves; a
\* tween of any other pane is dropped.
Advanced(p, d) ==
  LET l == leaf[p]
  IN IF l.left = 0 \/ p \notin Shown THEN Still(l)
     ELSE IF l.left <= d THEN [Still(l) EXCEPT !.cur = l.to]
     ELSE [l EXCEPT !.left = @ - d, !.cur = IF @ = l.to THEN @ ELSE Moving]

Completed(d) == {p \in PaneId : W.root # NoTree /\ leaf[p].left \in 1 .. d}

\* finish_completed_closings: of those that ended, and of those without a tween.
Finished(d) ==
  {p \in W.closing : W.root = NoTree \/ p \in Completed(d) \/ p \notin Tweening \/ p \notin Shown}

SizeOf(rect) == IF rect = Moving THEN Collapsed ELSE Content(rect)

Tick(d) ==
  /\ Running
  /\ Tweening # {} \/ Closing
  /\ LET completed == Completed(d) \ W.closing
         done == Finished(d)
         root == IF W.root = NoTree THEN NoTree ELSE Pruned(W.root, done)
         w == [W EXCEPT
                 !.root = root,
                 !.closing = @ \ done,
                 !.focused = IF done = {} \/ W.root = NoTree THEN @
                             ELSE IF root = NoTree THEN NoPane
                             ELSE IF @ \in done \cup {NoPane} THEN FirstLeaf(root) ELSE @,
                 !.area = IF done # {} /\ root # NoTree THEN RootRect ELSE @]
         L == [p \in PaneId |->
                 IF p \in done THEN NoLeaf
                 ELSE LET l == Advanced(p, d)
                      IN IF p \in completed /\ l.target # NoRect THEN Sized(l, SizeOf(l.cur)) ELSE l]
     IN /\ Put(w)
        /\ leaf' = IF done # {} /\ root # NoTree THEN Recomputed(L, w, RootRect) ELSE L
        /\ rough' = Mark(current, done # {} /\ w.closing # {})
  /\ UNCHANGED <<current, screen, bar, spawned, commands>>

\* The last window is gone.
Ended == ~Running /\ UNCHANGED vars

\* Only a bound: the session sits idle when the run's commands are used up.
Idle == commands = MaxCommands /\ Tweening = {} /\ ~Closing /\ UNCHANGED vars
-----------------------------------------------------------------------------
Next ==
  \/ \E p \in PaneId, split \in {Vertical, Horizontal}, share \in Shares, d \in BOOLEAN :
       Split(p, split, share, d)
  \/ \E p \in PaneId, dir \in Directions, n \in Amounts : ResizeBy(p, dir, n)
  \/ \E p \in PaneId, axis \in {Vertical, Horizontal}, n \in Amounts : ResizePaneTo(p, axis, n)
  \/ \E p \in PaneId : ToggleZoom(p) \/ KillPane(p) \/ PaneDied(p) \/ RespawnPane(p)
  \/ \E p, q \in PaneId, keep \in BOOLEAN : SwapPanes(p, q, keep)
  \/ \E reverse \in BOOLEAN : RotateWindow(reverse)
  \/ \E name \in Presets : SelectLayout(name)
  \/ \E dir \in Directions : FocusDirection(dir)
  \/ \E v \in Window : Switch(v)
  \/ \E p \in PaneId, v \in Window, d \in BOOLEAN : BreakPane(p, v, d)
  \/ \E u, v \in Window : \E p \in PanesIn(window[u].root), onto \in PanesIn(window[v].root),
         split \in {Vertical, Horizontal}, d \in BOOLEAN :
       JoinPane(p, u, onto, v, split, d)
  \/ \E size \in Sizes : HostResize(size)
  \/ ToggleBar
  \/ \E d \in {1, NewTime} : Tick(d)
  \/ Ended
  \/ Idle

Spec == Init /\ [][Next]_vars

-----------------------------------------------------------------------------
(* Properties *)

Rectangle == Nat \X Nat \X Nat \X Nat

\* The state has its type, and a pane is in one window (tree.rs, `Workspace`).
TypeOK ==
  /\ current \in Window /\ screen \in Sizes /\ bar \in BOOLEAN
  /\ spawned \in PaneId /\ commands \in 0 .. MaxCommands /\ rough \subseteq Window
  /\ \A w \in Window :
       /\ PanesIn(window[w].root) \subseteq 1 .. spawned
       /\ Cardinality(PanesIn(window[w].root)) = Cardinality(LeafPlaces(window[w].root))
       /\ window[w].focused \in 0 .. spawned /\ window[w].zoomed \in 0 .. spawned
       /\ window[w].closing \subseteq 1 .. spawned
  /\ \A p \in PaneId :
       /\ leaf[p].cur \in Rectangle \cup {Moving, NoRect}
       /\ leaf[p].target \in Rectangle \cup {NoRect}
       /\ leaf[p].to \in Rectangle \cup {Moving, NoRect}
       /\ leaf[p].left \in 0 .. NewTime

\* Whatever was done to a tree, its leaves tile the rectangle that it is laid
\* out in: they are inside it and apart, and every cell is in one.  That is as
\* long as nothing is split that has a single cell (geometry.rs `split` gives
\* both parts a cell then, and they overlap).
Roomy(t, r) ==
  /\ r[3] > 0 /\ r[4] > 0
  /\ \A x \in DOMAIN t \ LeafPlaces(t) : ExtentOf(Rects(t, r)[x], t[x].split) >= 2
Apart(r, s) ==
  Overlap(r[1], Right(r), s[1], Right(s)) = 0 \/ Overlap(r[2], Bottom(r), s[2], Bottom(s)) = 0
Holds(r, x, y) == r[1] <= x /\ x < Right(r) /\ r[2] <= y /\ y < Bottom(r)
Inside(r, s) == s[1] <= r[1] /\ Right(r) <= Right(s) /\ s[2] <= r[2] /\ Bottom(r) <= Bottom(s)
LeavesTile ==
  LET at == Laid(W.root, RootRect)
  IN W.root # NoTree /\ Roomy(W.root, RootRect) =>
       /\ \A p \in DOMAIN at : Inside(at[p], RootRect)
       /\ \A p, q \in DOMAIN at : p # q => Apart(at[p], at[q])
       /\ \A x \in 0 .. RootRect[3] - 1, y \in 0 .. RootRect[4] - 1 : \E p \in DOMAIN at : Holds(at[p], x, y)

\* From any pane, focus moves in a direction exactly when the pane does not end
\* at that side of the window (app.rs focus_direction, tree.rs focus_neighbor):
\* no pane is unreachable by the keyboard.
AtSide(r, dir) ==
  IF dir = "left" THEN r[1] = 0
  ELSE IF dir = "right" THEN Right(r) = RootRect[3]
  ELSE IF dir = "up" THEN r[2] = 0 ELSE Bottom(r) = RootRect[4]
FocusCrosses ==
  LET at == Laid(W.root, RootRect)
  IN W.root # NoTree /\ Roomy(W.root, RootRect) =>
       \A p \in DOMAIN at, dir \in Directions :
         (Neighbor(W.root, at, p, dir) # 0) <=> ~AtSide(at[p], dir)

\* In a window where every handler has moved and sized what its change concerns
\* (~rough), a pane that moves is moving to where it will belong, and one that
\* does not is drawn there, with its program and its emulator at that size.
\* This is what borders, content and PTY agreeing amounts to (geometry.rs 54-59).
Landing(w) == LayOut(Pruned(w.root, w.closing), RootRect, w.zoomed)
LayoutLands ==
  current \notin rough =>
    LET at == Landing(W)
    IN \A p \in DOMAIN at :
         IF leaf[p].left > 0 THEN leaf[p].to = at[p]
         ELSE /\ leaf[p].cur = at[p]
              /\ leaf[p].pty = Content(at[p]) /\ leaf[p].grid = Content(at[p])

\* Commands that rearrange panes leave the window's slots and its panes as they
\* were: swap-pane and rotate-window lose nobody and resize no slot (tree.rs
\* swap_leaves, set_leaves), and select-layout keeps the order of the panes.
Slots(root) == {Laid(root, RootRect)[p] : p \in PanesIn(root)}
Rearranged ==
  \/ \E p, q \in PaneId, keep \in BOOLEAN : SwapPanes(p, q, keep)
  \/ \E reverse \in BOOLEAN : RotateWindow(reverse)
SameTree == window'[current].root = W.root
RearrangingKeeps ==
  [][~SameTree /\ current' = current /\ spawned' = spawned =>
       LET after == window'[current].root
       IN /\ (PanesIn(after) = Shown /\ Slots(after) = Slots(W.root)) \/ ~Rearranged
          /\ Leaves(after) = Leaves(W.root) \/ ~(\E name \in Presets : SelectLayout(name))]_vars

\* Closing a pane hands its space to the others and disturbs no order: when
\* panes leave a tree, those that stay are in the order they were in (tree.rs
\* close; app.rs finish_completed_closings and snap_workspace_tweens).
ClosingKeepsOrder ==
  [][~SameTree /\ (commands' = commands \/ (\E v \in Window : Switch(v))) =>
       LET after == window'[current].root
       IN /\ PanesIn(after) \subseteq Shown
          /\ \A p, q \in PanesIn(after) : Earlier(after, p, q) <=> Earlier(W.root, p, q)]_vars
=============================================================================
