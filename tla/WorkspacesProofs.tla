-------------------------- MODULE WorkspacesProofs --------------------------
(***************************************************************************)
(* The safety invariants of module Workspaces proved for any number of     *)
(* windows and panes: every process stays within reach, a `%N` names one   *)
(* pane, no two windows claim the same pane, and panes close on screen.    *)
(***************************************************************************)
EXTENDS Workspaces, FiniteSetTheorems, TLAPS

-----------------------------------------------------------------------------
(* The state has its type.                                                 *)

(* What settling a window leaves behind is a window.                       *)
LEMMA SettledType ==
  ASSUME NEW x \in WindowRecord, NEW S
  PROVE  Settled(x, S) \in WindowRecord
BY DEF Settled, Closed, WindowRecord, PaneId, NoPane

LEMMA LeftType ==
  ASSUME TypeOK, NEW w \in Window
  PROVE  Left(w) \in [Window -> WindowRecord] /\ KilledLeaving(w) \subseteq PaneId
<1>1. win[current] \in WindowRecord
  BY DEF TypeOK
<1>2. Settled(win[current], win[current].closing) \in WindowRecord
  BY <1>1, SettledType
<1>3. QED
  BY <1>1, <1>2 DEF TypeOK, Left, KilledLeaving, WindowRecord

LEMMA TurnoverType ==
  ASSUME TypeOK, NEW gone \in SUBSET PaneId, NEW new,
         new = {} \/ (new = Fresh /\ CanSpawn), Turnover(gone, new)
  PROVE  /\ panes' \in SUBSET PaneId
         /\ number' \in [PaneId -> 0 .. MaxPanes]
         /\ held' \in SUBSET PaneId
         /\ process' \in [PaneId -> {"none", "running", "adrift", "exited"}]
         /\ nextPane' \in 2 .. (MaxPanes + 1)
<1>1. new \subseteq PaneId
  BY DEF Fresh, CanSpawn
<1>2. panes' \in SUBSET PaneId /\ held' \in SUBSET PaneId
  BY <1>1 DEF Turnover, Numbered, Held, NextId, TypeOK
<1>3. number' \in [PaneId -> 0 .. MaxPanes]
  BY <1>1, WindowsAssumption DEF Turnover, Numbered, Held, NextId, TypeOK, PaneId
<1>4. process' \in [PaneId -> {"none", "running", "adrift", "exited"}]
  BY <1>1 DEF Turnover, Numbered, Held, NextId, TypeOK
<1>5. nextPane' \in 2 .. (MaxPanes + 1)
  <2>1. CASE new = {}
    BY <2>1 DEF Turnover, Numbered, Held, NextId, TypeOK
  <2>2. CASE new = Fresh /\ CanSpawn
    BY <2>2, WindowsAssumption DEF Turnover, Numbered, Held, NextId, TypeOK, CanSpawn, PaneId, Fresh
  <2>3. QED
    BY <2>1, <2>2
<1>6. QED
  BY <1>2, <1>3, <1>4, <1>5

LEMMA TargetsType ==
  ASSUME TypeOK, NEW w \in Window
  PROVE  Targets(w) \subseteq PaneId
BY DEF TypeOK, Targets, WindowRecord, NoPane, PaneId

LEMMA InitType == Init => TypeOK
<1> SUFFICES ASSUME Init PROVE TypeOK
  OBVIOUS
<1>1. 1 \in PaneId /\ 1 \in Window
  BY WindowsAssumption DEF PaneId, Window
<1>2. Empty \in WindowRecord
  BY DEF Empty, WindowRecord, NoPane
<1>3. [Empty EXCEPT !.leaves = {1}, !.focused = 1] \in WindowRecord
  BY <1>1 DEF Empty, WindowRecord, NoPane
<1>4. win \in [Window -> WindowRecord]
  BY <1>2, <1>3 DEF Init
<1>5. number \in [PaneId -> 0 .. MaxPanes]
  BY WindowsAssumption DEF Init
<1>6. nextPane \in 2 .. (MaxPanes + 1)
  BY WindowsAssumption DEF Init
<1>7. QED
  BY <1>1, <1>4, <1>5, <1>6 DEF Init, TypeOK

(* A step that changes the pool by one Turnover only has to mind the rest. *)
LEMMA TurnoverStep ==
  ASSUME TypeOK, NEW gone \in SUBSET PaneId, NEW new,
         new = {} \/ (new = Fresh /\ CanSpawn), Turnover(gone, new),
         win' \in [Window -> WindowRecord], current' \in Window,
         UNCHANGED deaths, drawn' \in SUBSET PaneId, exit' \in {exit, "Quit"}
  PROVE  TypeOK'
BY TurnoverType DEF TypeOK

LEMMA WithoutType ==
  ASSUME NEW x \in WindowRecord, NEW p, NEW f \in PaneId \cup {NoPane}
  PROVE  Without(x, p, f) \in WindowRecord
BY DEF Without, WindowRecord, NoPane

LEMMA FirstOfType ==
  ASSUME NEW S \in SUBSET PaneId
  PROVE  FirstOf(S) \subseteq PaneId \cup {NoPane}
BY DEF FirstOf

(* So is a window with another layout and focus, or closing set.           *)
LEMMA ShowType ==
  ASSUME NEW x \in WindowRecord
  PROVE  /\ \A S \in SUBSET PaneId, f \in PaneId \cup {NoPane} : Show(x, S, f) \in WindowRecord
         /\ \A T, S \in SUBSET PaneId, f \in PaneId \cup {NoPane} : Closed(x, T, S, f) \in WindowRecord
BY DEF Show, Closed, WindowRecord

LEMMA FieldType ==
  ASSUME NEW x \in WindowRecord
  PROVE  /\ x.leaves \in SUBSET PaneId /\ x.closing \in SUBSET PaneId
         /\ x.focused \in PaneId \cup {NoPane}
BY DEF WindowRecord

(* Changing one window to a window.                                        *)
LEMMA EditType ==
  ASSUME NEW ws \in [Window -> WindowRecord], NEW w \in Window, NEW r \in WindowRecord
  PROVE  [ws EXCEPT ![w] = r] \in [Window -> WindowRecord]
OBVIOUS

(* What has been drawn is always of panes.                                 *)
LEMMA DrawnType ==
  ASSUME TypeOK, [Next]_vars
  PROVE  drawn' \in SUBSET PaneId
<1>1. drawn \in SUBSET PaneId /\ win[current].closing \in SUBSET PaneId
  BY FieldType DEF TypeOK
<1>2. \A w \in Window : DrawnLeaving(w) \in SUBSET PaneId
  BY <1>1 DEF DrawnLeaving
<1>3. current \in Window
  BY DEF TypeOK
<1>4. ASSUME NEW w \in Window, NEW S, KillPanes(w, S) PROVE drawn' \in SUBSET PaneId
  BY <1>2, <1>4 DEF KillPanes
<1>5. ASSUME NEW w \in Window, SelectWindow(w) \/ KillWindow(w) PROVE drawn' \in SUBSET PaneId
  BY <1>1, <1>2, <1>5 DEF SelectWindow, KillWindow
<1>6. ASSUME NEW w \in Window, NEW detached \in BOOLEAN, NewWindow(w, detached)
      PROVE drawn' \in SUBSET PaneId
  BY <1>2, <1>3, <1>6 DEF NewWindow
<1>7. ASSUME NEW w \in Window, NEW p \in PaneId, NEW d \in Window, NEW detached \in BOOLEAN,
             BreakPane(w, p, d, detached)
      PROVE drawn' \in SUBSET PaneId
  BY <1>2, <1>3, <1>7 DEF BreakPane
<1>8. ASSUME NEW w \in Window, NEW p \in PaneId, NEW t \in Window, NEW o \in PaneId,
             NEW detached \in BOOLEAN, JoinPane(w, p, t, o, detached)
      PROVE drawn' \in SUBSET PaneId
  BY <1>2, <1>8 DEF JoinPane
<1>9. ASSUME NEW w \in Window, NEW p \in PaneId,
             \/ KillLonePane(w, p) \/ SelectPane(w, p) \/ RespawnPane(w, p)
             \/ \E detached \in BOOLEAN : SplitWindow(w, p, detached)
      PROVE drawn' \in SUBSET PaneId
  <2>1. drawn' \in SUBSET DrawnLeaving(w)
    BY <1>9 DEF KillLonePane, SelectPane, RespawnPane, SplitWindow, Retweened
  <2>2. QED
    BY <1>2, <2>1
<1>10. CASE Reshape \/ KillSession
  BY <1>2, <1>1, <1>3, <1>10 DEF Reshape, Retweened, KillSession
<1>11. CASE Command
  BY <1>4, <1>5, <1>6, <1>7, <1>8, <1>9, <1>10, <1>11 DEF Command
<1>12. ASSUME NEW S \in SUBSET win[current].closing, Resize(S) PROVE drawn' \in SUBSET PaneId
  BY <1>1, <1>12 DEF Resize
<1>13. ASSUME NEW p \in PaneId,
             \/ FinishClosing(p) \/ ProcessExits(p) \/ TerminalCloses(p) \/ PaneDied(p)
             \/ CloseFails(p) \/ CommandFails(p)
      PROVE drawn' \in SUBSET PaneId
  BY <1>1, <1>13 DEF FinishClosing, ProcessExits, TerminalCloses, PaneDied, CloseFails, CommandFails
<1>14. CASE Advance \/ SpawnFails \/ Shutdown
  BY <1>1, <1>14 DEF Advance, SpawnFails, Shutdown
<1>15. CASE Environment
  BY <1>12, <1>13, <1>14, <1>15 DEF Environment
<1>16. CASE UNCHANGED vars
  BY <1>1, <1>16 DEF vars
<1>17. QED
  BY <1>11, <1>15, <1>16 DEF Next

(* Every command keeps the sorts.                                          *)
LEMMA CommandType ==
  ASSUME TypeOK, Command, drawn' \in SUBSET PaneId
  PROVE  TypeOK'
<1> USE DEF NoPane
<1>0. /\ win \in [Window -> WindowRecord] /\ current \in Window
      /\ \A w \in Window : win[w] \in WindowRecord /\ Targets(w) \subseteq PaneId
  BY TargetsType DEF TypeOK
<1>L. \A w \in Window : /\ Left(w) \in [Window -> WindowRecord]
                        /\ KilledLeaving(w) \in SUBSET PaneId
  BY LeftType
<1>S. \A w, v \in Window, S \in SUBSET PaneId, f \in PaneId \cup {NoPane} :
        /\ Left(v)[w] \in WindowRecord
        /\ Show(Left(v)[w], S, f) \in WindowRecord
  BY <1>L, ShowType
<1>F. CanSpawn => nextPane \in PaneId /\ Fresh \subseteq PaneId
  BY DEF CanSpawn, Fresh
<1>1. ASSUME NEW w \in Window, SelectWindow(w) PROVE TypeOK'
  <2>1. CASE Turnover(KilledLeaving(w), {}) /\ win' = Left(w)
    BY <1>1, <1>L, <2>1, TurnoverStep DEF SelectWindow
  <2>2. CASE /\ Turnover(KilledLeaving(w), Fresh) /\ CanSpawn
             /\ win' = [Left(w) EXCEPT ![w] = Show(@, Fresh, nextPane)]
    <3>1. win' \in [Window -> WindowRecord]
      BY <1>L, <1>S, <1>F, <2>2, EditType
    <3>2. QED
      BY <1>1, <1>L, <2>2, <3>1, TurnoverStep DEF SelectWindow
  <2>3. QED
    BY <1>1, <2>1, <2>2 DEF SelectWindow
<1>2. ASSUME NEW w \in Window, KillWindow(w) PROVE TypeOK'
  <2> DEFINE r == Closed(win[w], win[w].closing, {}, NoPane)
             x == [win EXCEPT ![w] = r]
  <2>0. r \in WindowRecord
    BY <1>0, FieldType, ShowType
  <2>a. x \in [Window -> WindowRecord]
    BY <1>0, <2>0, EditType
  <2>b. win' = x
    BY <1>2 DEF KillWindow
  <2>c. current' \in Window
    BY <1>0, <1>2 DEF KillWindow
  <2>1. win' \in [Window -> WindowRecord] /\ current' \in Window
    BY <2>a, <2>b, <2>c
  <2>2. win[w].leaves \in SUBSET PaneId
    BY <1>0 DEF WindowRecord
  <2>3. Turnover(win[w].leaves, {}) /\ exit' \in {exit, "Quit"} /\ UNCHANGED deaths
    BY <1>2 DEF KillWindow
  <2>4. QED
    BY <2>1, <2>2, <2>3, TurnoverStep
<1>3. ASSUME NEW w \in Window, NEW detached \in BOOLEAN, NewWindow(w, detached) PROVE TypeOK'
  <2> DEFINE v == IF detached THEN current ELSE w
  <2>1. v \in Window
    BY <1>0
  <2>2. /\ win' = [Left(v) EXCEPT ![w] = Show(@, Fresh, nextPane)]
        /\ Turnover(KilledLeaving(v), Fresh) /\ CanSpawn /\ current' = v
        /\ UNCHANGED <<deaths, exit>>
    BY <1>3 DEF NewWindow
  <2>3. win' \in [Window -> WindowRecord]
    BY <1>L, <1>S, <1>F, <2>1, <2>2, EditType
  <2>4. QED
    BY <1>L, <2>1, <2>2, <2>3, TurnoverStep
<1>4. ASSUME NEW w \in Window, NEW S, KillPanes(w, S) PROVE TypeOK'
  <2> DEFINE begun == (S \cap win[w].leaves) \ win[w].closing
             x == Left(w)[w]
             r(f) == [x EXCEPT !.focused = f, !.closing = @ \cup begun]
  <2>0. \E last \in begun : \E f \in win[w].leaves \ {last} :
          win' = [Left(w) EXCEPT ![w] = r(f)]
    BY <1>4 DEF KillPanes
  <2>1. PICK f \in win[w].leaves : win' = [Left(w) EXCEPT ![w] = r(f)]
    <3> HIDE DEF begun, r
    <3>1. QED
      BY <2>0
  <2>2. x \in WindowRecord /\ begun \in SUBSET PaneId /\ f \in PaneId
    BY <1>0, <1>S, FieldType
  <2>4. r(f) \in WindowRecord
    <3> HIDE DEF x, begun
    <3>1. QED
      BY <2>2 DEF WindowRecord
  <2>5. win' \in [Window -> WindowRecord]
    BY <1>L, <2>1, <2>4, EditType
  <2>6. QED
    BY <1>4, <1>L, <2>5, TurnoverStep DEF KillPanes
<1>5. ASSUME NEW w \in Window, NEW p \in PaneId, KillLonePane(w, p) PROVE TypeOK'
  <2>1. win' \in [Window -> WindowRecord]
    BY <1>L, <1>S, <1>5, EditType DEF KillLonePane
  <2>2. KilledLeaving(w) \cup {p} \in SUBSET PaneId
    BY <1>L
  <2>3. /\ Turnover(KilledLeaving(w) \cup {p}, {}) /\ exit' \in {exit, "Quit"}
        /\ UNCHANGED deaths /\ current' = w
    BY <1>5 DEF KillLonePane
  <2>4. QED
    BY <2>1, <2>2, <2>3, TurnoverStep
<1>6. ASSUME NEW w \in Window, NEW p \in PaneId, SelectPane(w, p) PROVE TypeOK'
  <2>1. Show(Left(w)[w], Left(w)[w].leaves, p) \in WindowRecord
    BY <1>S, FieldType
  <2>2. win' \in [Window -> WindowRecord]
    BY <1>L, <1>6, <2>1, EditType DEF SelectPane
  <2>3. QED
    BY <1>L, <1>6, <2>2, TurnoverStep DEF SelectPane
<1>7. ASSUME Reshape PROVE TypeOK'
  BY <1>7 DEF Reshape, TypeOK, pool
<1>8. ASSUME NEW w \in Window, NEW p \in PaneId, NEW detached \in BOOLEAN,
             SplitWindow(w, p, detached)
      PROVE TypeOK'
  <2>1. CASE /\ CanSpawn /\ Turnover(KilledLeaving(w), Fresh)
             /\ win' = [Left(w) EXCEPT ![w] = Show(@, @.leaves \cup Fresh,
                                         IF detached THEN @.focused ELSE nextPane)]
    <3>1. Left(w)[w].leaves \cup Fresh \in SUBSET PaneId /\ Left(w)[w].focused \in PaneId \cup {NoPane}
      BY <1>S, <1>F, <2>1, FieldType
    <3>a. win' \in [Window -> WindowRecord]
      BY <1>L, <1>S, <1>F, <2>1, <3>1, EditType
    <3>2. QED
      BY <1>8, <1>L, <2>1, <3>a, TurnoverStep DEF SplitWindow
  <2>2. CASE win' = Left(w) /\ Turnover(KilledLeaving(w), {})
    BY <1>8, <1>L, <2>2, TurnoverStep DEF SplitWindow
  <2>3. QED
    BY <1>8, <2>1, <2>2 DEF SplitWindow
<1>9. ASSUME NEW w \in Window, NEW p \in PaneId, NEW d \in Window, NEW detached \in BOOLEAN,
             BreakPane(w, p, d, detached)
      PROVE TypeOK'
  <2> DEFINE v == IF detached THEN current ELSE d
             x(f) == [win EXCEPT ![w] = Without(@, p, f),
                              ![d] = Show(@, {p}, p)]
             gone(f) == IF v = current THEN {} ELSE x(f)[current].closing
  <2>1. PICK f \in FirstOf(Without(win[w], p, NoPane).leaves) :
          /\ win' = IF v = current THEN x(f)
                    ELSE [x(f) EXCEPT ![current] = Settled(@, @.closing)]
          /\ Turnover(gone(f), {})
    BY <1>9 DEF BreakPane
  <2>2. f \in PaneId \cup {NoPane}
    BY <1>0, WithoutType, FirstOfType DEF WindowRecord
  <2>3. x(f) \in [Window -> WindowRecord]
    <3> DEFINE u == [win EXCEPT ![w] = Without(@, p, f)]
    <3>1. u \in [Window -> WindowRecord]
      BY <1>0, <2>2, WithoutType, EditType
    <3>2. Show(win[d], {p}, p) \in WindowRecord
      BY <1>0, ShowType
    <3>a. w # d
      BY <1>9 DEF BreakPane, Targets
    <3>3. x(f) = [u EXCEPT ![d] = Show(win[d], {p}, p)]
      BY <3>a
    <3>4. QED
      BY <3>1, <3>2, <3>3, EditType
  <2>4. win' \in [Window -> WindowRecord] /\ gone(f) \in SUBSET PaneId
    <3>1. x(f)[current] \in WindowRecord
      BY <1>0, <2>3
    <3>2. Settled(x(f)[current], x(f)[current].closing) \in WindowRecord
      BY <3>1, SettledType
    <3>3. QED
      BY <2>1, <2>3, <3>1, <3>2 DEF WindowRecord
  <2>5. current' \in Window /\ UNCHANGED <<deaths, exit>>
    BY <1>0, <1>9 DEF BreakPane
  <2>6. QED
    BY <2>1, <2>4, <2>5, TurnoverStep
<1>10. ASSUME NEW s \in Window, NEW p \in PaneId, NEW t \in Window, NEW o \in PaneId,
              NEW detached \in BOOLEAN, JoinPane(s, p, t, o, detached)
       PROVE TypeOK'
  <2> DEFINE x(f) == [win EXCEPT ![s] = Without(@, p, f)]
             gone(f) == IF t = current THEN {} ELSE x(f)[current].closing
             y(f) == IF t = current THEN x(f)
                     ELSE [x(f) EXCEPT ![current] = Settled(@, @.closing)]
  <2>1. PICK f \in FirstOf(Without(win[s], p, NoPane).leaves) :
          \/ /\ win' = [y(f) EXCEPT ![t] = Show(@, @.leaves \cup {p},
                                         IF detached THEN @.focused ELSE p)]
             /\ Turnover(gone(f), {})
          \/ win' = y(f) /\ Turnover(gone(f), {})
          \/ /\ CanSpawn
             /\ win' = [y(f) EXCEPT ![t] = Show(@, Fresh, nextPane)]
             /\ Turnover(gone(f), Fresh)
    BY <1>10 DEF JoinPane
  <2>2. f \in PaneId \cup {NoPane}
    BY <1>0, WithoutType, FirstOfType DEF WindowRecord
  <2>3. x(f) \in [Window -> WindowRecord]
    BY <1>0, <2>2, WithoutType
  <2>4. y(f) \in [Window -> WindowRecord] /\ gone(f) \in SUBSET PaneId
    <3>1. x(f)[current] \in WindowRecord
      BY <1>0, <2>3
    <3>2. Settled(x(f)[current], x(f)[current].closing) \in WindowRecord
      BY <3>1, SettledType
    <3>3. QED
      BY <2>3, <3>1, <3>2 DEF WindowRecord
  <2>5. win' \in [Window -> WindowRecord]
    <3> DEFINE z == y(f)[t]
               joined == Show(z, z.leaves \cup {p}, IF detached THEN z.focused ELSE p)
               spawned == Show(z, Fresh, nextPane)
    <3>1. z \in WindowRecord
      BY <2>4
    <3>2. joined \in WindowRecord
      <4>1. z.leaves \cup {p} \in SUBSET PaneId /\ z.focused \in PaneId \cup {NoPane}
        BY <3>1, FieldType
      <4> HIDE DEF z
      <4>2. QED
        BY <3>1, <4>1, ShowType
    <3>3. CASE win' = [y(f) EXCEPT ![t] = joined]
      BY <2>4, <3>2, <3>3, EditType
    <3>4. CASE CanSpawn /\ win' = [y(f) EXCEPT ![t] = spawned]
      <4>1. spawned \in WindowRecord
        BY <1>F, <3>1, <3>4, ShowType
      <4>2. QED
        BY <2>4, <3>4, <4>1, EditType
    <3>5. QED
      BY <2>1, <2>4, <3>3, <3>4
  <2>6. current' \in Window /\ UNCHANGED <<deaths, exit>>
    BY <1>10 DEF JoinPane
  <2>7. QED
    BY <2>1, <2>4, <2>5, <2>6, TurnoverStep
<1>11. ASSUME NEW w \in Window, NEW p \in PaneId, RespawnPane(w, p) PROVE TypeOK'
  <2> DEFINE swap(x) == [x EXCEPT !.leaves  = IF p \in @ THEN (@ \ {p}) \cup Fresh ELSE @,
                                  !.focused = IF @ = p THEN nextPane ELSE @]
  <2>1. CanSpawn
    BY <1>11 DEF RespawnPane
  <2>2. \A x \in WindowRecord : swap(x) \in WindowRecord
    BY <1>F, <2>1 DEF WindowRecord
  <2>3. win' \in [Window -> WindowRecord]
    <3>1. win' = [v \in Window |-> swap(Left(w)[v])]
      BY <1>11 DEF RespawnPane
    <3>2. \A v \in Window : Left(w)[v] \in WindowRecord
      BY <1>L
    <3>3. QED
      BY <2>2, <3>1, <3>2
  <2>4. number' \in [PaneId -> 0 .. MaxPanes]
    <3> DEFINE taken == IF number[p] # 0 THEN number[p] ELSE nextPane
    <3>1. nextPane \in 0 .. MaxPanes /\ \A q \in PaneId : number[q] \in 0 .. MaxPanes
      BY <1>F, <2>1, WindowsAssumption DEF TypeOK, PaneId
    <3>2. taken \in 0 .. MaxPanes /\ 0 \in 0 .. MaxPanes
      BY <3>1, WindowsAssumption
    <3>3. number' = [q \in PaneId |-> IF q = nextPane THEN taken
                       ELSE IF q \in KilledLeaving(w) \cup {p} THEN 0 ELSE number[q]]
      BY <1>11 DEF RespawnPane
    <3>4. QED
      BY <3>1, <3>2, <3>3
  <2>5. /\ panes' \in SUBSET PaneId /\ held' \in SUBSET PaneId
        /\ process' \in [PaneId -> {"none", "running", "adrift", "exited"}]
    BY <1>11, <1>F, <2>1 DEF RespawnPane, TypeOK
  <2>6. nextPane' \in 2 .. (MaxPanes + 1)
    <3>1. nextPane' = nextPane + 1
      BY <1>11 DEF RespawnPane
    <3>2. QED
      BY <2>1, <3>1, WindowsAssumption DEF TypeOK, CanSpawn, PaneId
  <2>7. QED
    BY <1>11, <2>3, <2>4, <2>5, <2>6 DEF RespawnPane, TypeOK
<1>12. ASSUME KillSession PROVE TypeOK'
  BY <1>12 DEF KillSession, TypeOK, pool
<1>13. QED
  BY <1>1, <1>2, <1>3, <1>4, <1>5, <1>6, <1>7, <1>8, <1>9, <1>10, <1>11, <1>12 DEF Command

(* So does everything else that happens to the session.                    *)
LEMMA EnvironmentType ==
  ASSUME TypeOK, Environment, drawn' \in SUBSET PaneId
  PROVE  TypeOK'
<1> USE DEF NoPane
<1>0. /\ win \in [Window -> WindowRecord] /\ current \in Window
      /\ \A w \in Window : win[w] \in WindowRecord
  BY DEF TypeOK
<1>1. ASSUME NEW p \in PaneId, FinishClosing(p) PROVE TypeOK'
  <2> DEFINE x == win[current]
             rest == x.leaves \ {p}
             shrunk == p \in x.leaves /\ rest # {}
             kept == IF shrunk THEN rest ELSE {}
             focus(f) == IF x.leaves = {} THEN x.focused
                         ELSE IF ~ shrunk THEN NoPane
                         ELSE IF x.focused \in {NoPane, p} THEN f ELSE x.focused
  <2>1. PICK f \in FirstOf(rest) : win' = [win EXCEPT ![current] = Closed(x, {p}, kept, focus(f))]
    BY <1>1 DEF FinishClosing
  <2>2. /\ x \in WindowRecord /\ rest \in SUBSET PaneId /\ kept \in SUBSET PaneId
        /\ f \in PaneId \cup {NoPane} /\ focus(f) \in PaneId \cup {NoPane}
    <3>1. x \in WindowRecord
      BY <1>0
    <3>2. rest \in SUBSET PaneId /\ kept \in SUBSET PaneId /\ x.focused \in PaneId \cup {NoPane}
      BY <3>1, FieldType
    <3>3. f \in PaneId \cup {NoPane}
      BY <2>1, <3>2, FirstOfType
    <3>4. QED
      BY <3>1, <3>2, <3>3
  <2>3. Closed(x, {p}, kept, focus(f)) \in WindowRecord
    <3> HIDE DEF x, kept, focus
    <3>1. QED
      BY <2>2, ShowType
  <2>4. win' \in [Window -> WindowRecord]
    BY <1>0, <2>1, <2>3, EditType
  <2>5. Turnover({p}, {}) /\ exit' \in {exit, "Quit"} /\ UNCHANGED <<current, deaths>>
    BY <1>1 DEF FinishClosing
  <2>6. QED
    BY <1>0, <2>4, <2>5, TurnoverStep
<1>2. ASSUME NEW p \in PaneId, ProcessExits(p) \/ TerminalCloses(p) PROVE TypeOK'
  BY <1>2 DEF ProcessExits, TerminalCloses, TypeOK
<1>3. ASSUME NEW p \in PaneId, PaneDied(p) PROVE TypeOK'
  <2>1. ASSUME NEW w \in Window, NEW f \in FirstOf(win[w].leaves \ {p}),
               win' = [win EXCEPT ![w] = Show(@, @.leaves \ {p}, f)]
        PROVE  win' \in [Window -> WindowRecord]
    <3>1. win[w].leaves \ {p} \in SUBSET PaneId /\ f \in PaneId \cup {NoPane}
      BY <1>0, FieldType, FirstOfType
    <3>2. QED
      BY <1>0, <2>1, <3>1, ShowType, EditType
  <2>2. win' \in [Window -> WindowRecord]
    BY <1>0, <1>3, <2>1 DEF PaneDied
  <2>3. number' \in [PaneId -> 0 .. MaxPanes]
    BY <1>3, WindowsAssumption DEF PaneDied, TypeOK
  <2>4. QED
    BY <1>3, <2>2, <2>3 DEF PaneDied, TypeOK
<1>4. ASSUME NEW S \in SUBSET win[current].closing, Resize(S) PROVE TypeOK'
  <2> DEFINE x == win[current]
  <2>0. x \in WindowRecord /\ S \in SUBSET PaneId
    BY <1>0, FieldType
  <2>1. CASE win' = [win EXCEPT ![current] = Settled(@, S)] /\ Turnover(S, {})
    <3>1. win' \in [Window -> WindowRecord]
      BY <1>0, <2>0, <2>1, SettledType, EditType
    <3>2. UNCHANGED <<current, deaths, exit>>
      BY <1>4 DEF Resize, Numbered
    <3>3. QED
      BY <1>0, <2>0, <2>1, <3>1, <3>2, TurnoverStep
  <2>2. ASSUME NEW p \in x.closing,
               win' = [win EXCEPT ![current] = Closed(x, S \cup {p}, Settled(x, S).leaves,
                                                      Settled(x, S).focused)],
               panes' = panes \ S,
               number' = [q \in PaneId |-> IF q \in S THEN 0 ELSE number[q]],
               held' = held \ (S \cup {p}),
               UNCHANGED <<process, nextPane>>
        PROVE  TypeOK'
    <3>1. S \cup {p} \in SUBSET PaneId
      BY <2>0, <2>2, FieldType
    <3>2. /\ Settled(x, S).leaves \in SUBSET PaneId
          /\ Settled(x, S).focused \in PaneId \cup {NoPane}
      BY <2>0, SettledType, FieldType
    <3>3. Closed(x, S \cup {p}, Settled(x, S).leaves, Settled(x, S).focused) \in WindowRecord
      BY <2>0, <3>1, <3>2, ShowType
    <3>4. win' \in [Window -> WindowRecord]
      BY <1>0, <2>2, <3>3, EditType
    <3>5. number' \in [PaneId -> 0 .. MaxPanes]
      BY <2>2, WindowsAssumption DEF TypeOK
    <3>6. UNCHANGED <<current, deaths, exit>>
      BY <1>4 DEF Resize, Numbered
    <3>7. QED
      BY <2>2, <3>4, <3>5, <3>6 DEF TypeOK
  <2>3. QED
    BY <1>4, <2>1, <2>2 DEF Resize, Numbered
<1>5. ASSUME NEW p \in PaneId, CloseFails(p) \/ CommandFails(p) PROVE TypeOK'
  BY <1>5 DEF CloseFails, CommandFails, TypeOK, pool
<1>6. ASSUME SpawnFails \/ Advance PROVE TypeOK'
  BY <1>6 DEF SpawnFails, Advance, TypeOK, pool
<1>7. ASSUME Shutdown PROVE TypeOK'
  BY <1>7 DEF Shutdown, TypeOK
<1>8. QED
  BY <1>1, <1>2, <1>3, <1>4, <1>5, <1>6, <1>7 DEF Environment

LEMMA StutterType == TypeOK /\ UNCHANGED vars => TypeOK'
BY DEF TypeOK, vars

(* Every variable keeps its sort, whatever happens to the session.         *)
THEOREM TypeCorrect == Spec => []TypeOK
<1>1. TypeOK /\ [Next]_vars => TypeOK'
  BY DrawnType, CommandType, EnvironmentType, StutterType DEF Next
<1>2. QED
  BY <1>1, InitType, PTL DEF Spec

-----------------------------------------------------------------------------
(* The pool of processes and their numbers.                                *)

(* Identifiers are handed out in order: one that was not handed out yet    *)
(* has no process, and no `%N` is as large.                                *)
HandedOut ==
  /\ \A p \in PaneId : process[p] = "none" <=> p >= nextPane
  /\ \A p \in PaneId : number[p] < nextPane

(* What is reported dead has exited, or closed its terminal.               *)
DeathsTrue == \A p \in deaths : process[p] \in {"adrift", "exited"}

(* What must be known of the pool to prove that every program stays within *)
(* reach: the report of a death takes a pane off the app's list, so        *)
(* ProcessRegistered is not inductive without DeathsTrue, nor is           *)
(* NumbersUnique without HandedOut.                                        *)
PoolInv ==
  /\ ProcessRegistered
  /\ NumbersUnique
  /\ HandedOut
  /\ DeathsTrue
  /\ NothingLeftBehind

(* Every step treats the pool in one of a few ways.                        *)
LEMMA PoolSteps ==
  ASSUME TypeOK, Next
  PROVE  \/ \E gone \in SUBSET PaneId, new \in {{}, Fresh} :
              /\ Turnover(gone, new) /\ UNCHANGED deaths
              /\ new = Fresh => CanSpawn
              /\ exit = "Running" /\ exit' \in {"Running", "Quit"}
         \/ \E w \in Window, p \in PaneId : RespawnPane(w, p)
         \/ \E p \in PaneId : PaneDied(p) \/ ProcessExits(p) \/ TerminalCloses(p)
         \/ \E S \in SUBSET PaneId, p \in PaneId :
              /\ panes' = panes \ S /\ held' = held \ (S \cup {p})
              /\ number' = [q \in PaneId |-> IF q \in S THEN 0 ELSE number[q]]
              /\ UNCHANGED <<process, nextPane, deaths, exit>> /\ exit = "Running"
         \/ UNCHANGED <<pool, deaths>> /\ exit' \in {"Running", "Quit", "Failed"}
         \/ Shutdown
<1> USE DEF NoPane
<1> DEFINE Turn == \E gone \in SUBSET PaneId, new \in {{}, Fresh} :
              /\ Turnover(gone, new) /\ UNCHANGED deaths
              /\ new = Fresh => CanSpawn
              /\ exit = "Running" /\ exit' \in {"Running", "Quit"}
<1>0. /\ \A w \in Window : KilledLeaving(w) \in SUBSET PaneId
      /\ \A w \in Window : win[w] \in WindowRecord
      /\ current \in Window
  BY LeftType DEF TypeOK
<1>T. ASSUME NEW gone \in SUBSET PaneId, NEW new \in {{}, Fresh},
             Turnover(gone, new), UNCHANGED deaths, new = Fresh => CanSpawn,
             exit = "Running", exit' \in {"Running", "Quit"}
      PROVE  Turn
  BY <1>T
<1>M. Fresh # {}
  BY DEF Fresh
<1> HIDE DEF Turn
<1>1. ASSUME NEW w \in Window, SelectWindow(w) PROVE Turn
  BY <1>1, <1>0, <1>T, <1>M DEF SelectWindow
<1>2. ASSUME NEW w \in Window, KillWindow(w) PROVE Turn
  <2>1. win[w].leaves \in SUBSET PaneId
    BY <1>0, FieldType
  <2>2. Turnover(win[w].leaves, {}) /\ UNCHANGED deaths /\ exit = "Running" /\ exit' \in {"Running", "Quit"}
    BY <1>2 DEF KillWindow
  <2>3. QED
    BY <2>1, <2>2, <1>T, <1>M
<1>3. ASSUME NEW w \in Window, NEW detached \in BOOLEAN, NewWindow(w, detached) PROVE Turn
  BY <1>3, <1>0, <1>T, <1>M DEF NewWindow
<1>4. ASSUME NEW w \in Window, NEW S, KillPanes(w, S) PROVE Turn
  BY <1>4, <1>0, <1>T, <1>M DEF KillPanes
<1>5. ASSUME NEW w \in Window, NEW p \in PaneId, KillLonePane(w, p) PROVE Turn
  <2>1. KilledLeaving(w) \cup {p} \in SUBSET PaneId
    BY <1>0
  <2>2. /\ Turnover(KilledLeaving(w) \cup {p}, {}) /\ UNCHANGED deaths
        /\ exit = "Running" /\ exit' \in {"Running", "Quit"}
    BY <1>5 DEF KillLonePane
  <2>3. QED
    BY <2>1, <2>2, <1>T, <1>M
<1>6. ASSUME NEW w \in Window, NEW p \in PaneId, SelectPane(w, p) PROVE Turn
  BY <1>6, <1>0, <1>T, <1>M DEF SelectPane
<1>7. ASSUME NEW w \in Window, NEW p \in PaneId, NEW detached \in BOOLEAN,
             SplitWindow(w, p, detached)
      PROVE Turn
  BY <1>7, <1>0, <1>T, <1>M DEF SplitWindow
<1>8. ASSUME NEW w \in Window, NEW p \in PaneId, NEW d \in Window, NEW detached \in BOOLEAN,
             BreakPane(w, p, d, detached)
      PROVE Turn
  <2>1. PICK f : LET v == IF detached THEN current ELSE d
                     x == [win EXCEPT ![w] = Without(@, p, f), ![d] = Show(@, {p}, p)]
                 IN  /\ f \in FirstOf(Without(win[w], p, NoPane).leaves)
                     /\ Turnover(IF v = current THEN {} ELSE x[current].closing, {})
    BY <1>8 DEF BreakPane
  <2>2. f \in PaneId \cup {NoPane}
    BY <1>0, <2>1, WithoutType, FirstOfType, FieldType
  <2>3. w # d
    BY <1>8 DEF BreakPane, Targets
  <2>4. Without(win[w], p, f) \in WindowRecord /\ Show(win[d], {p}, p) \in WindowRecord
    BY <1>0, <2>2, WithoutType, ShowType
  <2>5. PICK gone \in SUBSET PaneId : Turnover(gone, {})
    BY <1>0, <2>1, <2>3, <2>4, FieldType DEF TypeOK
  <2>6. UNCHANGED <<deaths, exit>> /\ exit = "Running"
    BY <1>8 DEF BreakPane
  <2>7. QED
    BY <2>5, <2>6, <1>T, <1>M
<1>9. ASSUME NEW s \in Window, NEW p \in PaneId, NEW t \in Window, NEW o \in PaneId,
             NEW detached \in BOOLEAN, JoinPane(s, p, t, o, detached)
      PROVE Turn
  <2>1. PICK f : LET x == [win EXCEPT ![s] = Without(@, p, f)]
                     gone == IF t = current THEN {} ELSE x[current].closing
                 IN  /\ f \in FirstOf(Without(win[s], p, NoPane).leaves)
                     /\ Turnover(gone, {}) \/ (Turnover(gone, Fresh) /\ CanSpawn)
    BY <1>9 DEF JoinPane
  <2>2. f \in PaneId \cup {NoPane}
    BY <1>0, <2>1, WithoutType, FirstOfType, FieldType
  <2>3. Without(win[s], p, f) \in WindowRecord
    BY <1>0, <2>2, WithoutType
  <2>4. PICK gone \in SUBSET PaneId : Turnover(gone, {}) \/ (Turnover(gone, Fresh) /\ CanSpawn)
    BY <1>0, <2>1, <2>3, FieldType DEF TypeOK
  <2>5. UNCHANGED <<deaths, exit>> /\ exit = "Running"
    BY <1>9 DEF JoinPane
  <2>6. QED
    BY <2>4, <2>5, <1>T, <1>M
<1>10. ASSUME \/ Reshape \/ KillSession \/ Advance \/ SpawnFails
              \/ \E p \in PaneId : CloseFails(p) \/ CommandFails(p)
       PROVE  UNCHANGED <<pool, deaths>> /\ exit' \in {"Running", "Quit", "Failed"}
  BY <1>10 DEF Reshape, KillSession, Advance, SpawnFails, CloseFails, CommandFails
<1>11. ASSUME NEW p \in PaneId, FinishClosing(p) PROVE Turn
  <2>1. Turnover({p}, {}) /\ UNCHANGED deaths /\ exit = "Running" /\ exit' \in {"Running", "Quit"}
    BY <1>11 DEF FinishClosing
  <2>2. QED
    BY <2>1, <1>T, <1>M
<1>12. ASSUME NEW S \in SUBSET win[current].closing, Resize(S)
       PROVE  \/ Turn
              \/ \E p \in PaneId :
                   /\ panes' = panes \ S /\ held' = held \ (S \cup {p})
                   /\ number' = [q \in PaneId |-> IF q \in S THEN 0 ELSE number[q]]
                   /\ UNCHANGED <<process, nextPane, deaths, exit>> /\ exit = "Running"
  <2>1. win[current].closing \in SUBSET PaneId
    BY <1>0, FieldType
  <2>2. CASE Turnover(S, {})
    BY <1>12, <2>1, <2>2, <1>T, <1>M DEF Resize, Numbered
  <2>3. CASE ~ Turnover(S, {})
    BY <1>12, <2>1, <2>3 DEF Resize, Numbered
  <2>4. QED
    BY <2>2, <2>3
<1>13. CASE Command
  BY <1>13, <1>1, <1>2, <1>3, <1>4, <1>5, <1>6, <1>7, <1>8, <1>9, <1>10 DEF Command, Turn
<1>14. CASE Environment
  <2>1. win[current].closing \in SUBSET PaneId
    BY <1>0, FieldType
  <2>2. CASE \E p \in PaneId : FinishClosing(p)
    BY <2>2, <1>11 DEF Turn
  <2>3. CASE \E p \in PaneId : PaneDied(p) \/ ProcessExits(p) \/ TerminalCloses(p)
    BY <2>3
  <2>4. CASE \E S \in SUBSET win[current].closing : Resize(S)
    <3>1. PICK S \in SUBSET win[current].closing : Resize(S)
      BY <2>4
    <3>2. S \in SUBSET PaneId
      BY <2>1
    <3>3. QED
      BY <3>1, <3>2, <1>12 DEF Turn
  <2>5. CASE \/ Advance \/ SpawnFails
             \/ \E p \in PaneId : CloseFails(p) \/ CommandFails(p)
    BY <2>5, <1>10
  <2>6. QED
    BY <1>14, <2>2, <2>3, <2>4, <2>5 DEF Environment
<1>15. QED
  BY <1>13, <1>14 DEF Next

LEMMA PoolInit == Init => PoolInv
<1> SUFFICES ASSUME Init PROVE PoolInv
  OBVIOUS
<1>1. 1 \in PaneId
  BY WindowsAssumption DEF PaneId
<1>2. ProcessRegistered /\ NothingLeftBehind /\ DeathsTrue
  BY DEF Init, ProcessRegistered, NothingLeftBehind, DeathsTrue
<1>3. NumbersUnique
  BY <1>1 DEF Init, NumbersUnique
<1>4. HandedOut
  BY WindowsAssumption DEF Init, HandedOut, PaneId
<1>5. QED
  BY <1>2, <1>3, <1>4 DEF PoolInv

LEMMA PoolStep ==
  ASSUME TypeOK, PoolInv, [Next]_vars
  PROVE  PoolInv'
<1> USE DEF ProcessRegistered, NumbersUnique, HandedOut, DeathsTrue, NothingLeftBehind
<1>0. /\ nextPane \in Nat /\ PaneId \subseteq Nat \ {0} /\ nextPane # 0
      /\ panes \subseteq PaneId /\ held \subseteq PaneId /\ deaths \subseteq PaneId
      /\ \A p \in PaneId : number[p] \in Nat
  BY WindowsAssumption DEF TypeOK, PaneId
<1>1. ASSUME NEW gone \in SUBSET PaneId, NEW new \in {{}, Fresh},
             Turnover(gone, new), UNCHANGED deaths, new = Fresh => CanSpawn,
             exit' \in {"Running", "Quit"}
      PROVE  PoolInv'
  <2>1. CASE new = {}
    <3>1. /\ panes' = panes \ gone /\ held' = held \ gone /\ nextPane' = nextPane
          /\ \A p \in PaneId : process'[p] = process[p]
          /\ \A p \in PaneId : number'[p] = IF p \in gone THEN 0 ELSE number[p]
      BY <1>1, <2>1 DEF Turnover, Numbered, Held, NextId
    <3>2. ProcessRegistered' /\ NothingLeftBehind' /\ DeathsTrue'
      BY <1>0, <1>1, <3>1 DEF PoolInv
    <3>3. NumbersUnique'
      BY <1>0, <3>1 DEF PoolInv
    <3>4. HandedOut'
      BY <1>0, <3>1 DEF PoolInv
    <3>5. QED
      BY <3>2, <3>3, <3>4 DEF PoolInv
  <2>2. CASE new = Fresh /\ new # {}
    <3>1. /\ panes' = (panes \ gone) \cup {nextPane} /\ held' = (held \ gone) \cup {nextPane}
          /\ nextPane' = nextPane + 1 /\ nextPane \in PaneId
          /\ \A p \in PaneId : process'[p] = IF p = nextPane THEN "running" ELSE process[p]
          /\ \A p \in PaneId : number'[p] = IF p = nextPane THEN p
                                            ELSE IF p \in gone THEN 0 ELSE number[p]
      BY <1>1, <2>2 DEF Turnover, Numbered, Held, NextId, Fresh, CanSpawn
    <3>2. nextPane \notin deaths
      BY <1>0, <3>1 DEF PoolInv
    <3>3. ProcessRegistered' /\ NothingLeftBehind' /\ DeathsTrue'
      BY <1>0, <1>1, <3>1, <3>2 DEF PoolInv
    <3>4. NumbersUnique'
      BY <1>0, <3>1 DEF PoolInv
    <3>5. HandedOut'
      BY <1>0, <3>1 DEF PoolInv
    <3>6. QED
      BY <3>3, <3>4, <3>5 DEF PoolInv
  <2>3. QED
    BY <2>1, <2>2
<1>2. ASSUME NEW w \in Window, NEW p \in PaneId, RespawnPane(w, p) PROVE PoolInv'
  <2> DEFINE gone == KilledLeaving(w) \cup {p}
             taken == IF number[p] # 0 THEN number[p] ELSE nextPane
  <2>1. /\ panes' = (panes \ gone) \cup {nextPane} /\ held' = (held \ gone) \cup {nextPane}
        /\ nextPane' = nextPane + 1 /\ nextPane \in PaneId
        /\ \A q \in PaneId : process'[q] = IF q = nextPane THEN "running" ELSE process[q]
        /\ \A q \in PaneId : number'[q] = IF q = nextPane THEN taken
                                          ELSE IF q \in gone THEN 0 ELSE number[q]
        /\ UNCHANGED deaths /\ exit' = "Running"
    BY <1>2 DEF RespawnPane, Fresh, CanSpawn, TypeOK
  <2>2. p \in gone /\ taken \in Nat /\ taken # 0 /\ taken < nextPane + 1
    BY <1>0 DEF PoolInv
  <2>3. nextPane \notin deaths
    BY <1>0, <2>1 DEF PoolInv
  <2>4. \A q \in PaneId \ gone : number[q] # taken
    BY <1>0, <2>2 DEF PoolInv
  <2> HIDE DEF gone, taken
  <2>5. ProcessRegistered' /\ NothingLeftBehind' /\ DeathsTrue'
    BY <1>0, <2>1, <2>3 DEF PoolInv
  <2>6. NumbersUnique'
    BY <1>0, <2>1, <2>2, <2>4 DEF PoolInv
  <2>7. HandedOut'
    BY <1>0, <2>1, <2>2 DEF PoolInv
  <2>8. QED
    BY <2>5, <2>6, <2>7 DEF PoolInv
<1>3. ASSUME NEW p \in PaneId, PaneDied(p) PROVE PoolInv'
  <2>1. /\ panes' = panes \ {p} /\ deaths' = deaths \ {p} /\ p \in deaths
        /\ \A q \in PaneId : number'[q] = IF q = p THEN 0 ELSE number[q]
        /\ UNCHANGED <<held, process, nextPane>> /\ exit' \in {"Running", "Quit"}
    BY <1>3 DEF PaneDied, TypeOK
  <2>2. ProcessRegistered' /\ NothingLeftBehind' /\ DeathsTrue'
    BY <1>0, <2>1 DEF PoolInv
  <2>3. NumbersUnique'
    BY <1>0, <2>1 DEF PoolInv
  <2>4. HandedOut'
    BY <1>0, <2>1 DEF PoolInv
  <2>5. QED
    BY <2>2, <2>3, <2>4 DEF PoolInv
<1>4. ASSUME NEW p \in PaneId, ProcessExits(p) \/ TerminalCloses(p) PROVE PoolInv'
  <2>1. /\ IF process[p] = "running" THEN deaths' = deaths \cup {p}
           ELSE deaths' = deaths /\ process[p] = "adrift"
        /\ process'[p] \in {"adrift", "exited"}
        /\ \A q \in PaneId \ {p} : process'[q] = process[q]
        /\ UNCHANGED <<panes, held, number, nextPane>> /\ exit' = "Running"
    BY <1>4 DEF ProcessExits, TerminalCloses, TypeOK
  <2>2. ProcessRegistered'
    BY <1>0, <2>1 DEF PoolInv
  <2>3. NumbersUnique' /\ NothingLeftBehind'
    BY <2>1 DEF PoolInv
  <2>4. HandedOut'
    BY <1>0, <2>1 DEF PoolInv
  <2>5. DeathsTrue'
    BY <1>0, <2>1 DEF PoolInv
  <2>6. QED
    BY <2>2, <2>3, <2>4, <2>5 DEF PoolInv
<1>5. ASSUME NEW S \in SUBSET PaneId, NEW p \in PaneId,
             panes' = panes \ S, held' = held \ (S \cup {p}),
             number' = [q \in PaneId |-> IF q \in S THEN 0 ELSE number[q]],
             UNCHANGED <<process, nextPane, deaths, exit>>, exit = "Running"
      PROVE  PoolInv'
  <2>1. \A q \in PaneId : number'[q] = IF q \in S THEN 0 ELSE number[q]
    BY <1>5
  <2>2. ProcessRegistered' /\ NothingLeftBehind' /\ DeathsTrue'
    BY <1>0, <1>5 DEF PoolInv
  <2>3. NumbersUnique'
    BY <1>0, <1>5, <2>1 DEF PoolInv
  <2>4. HandedOut'
    BY <1>0, <1>5, <2>1 DEF PoolInv
  <2>5. QED
    BY <2>2, <2>3, <2>4 DEF PoolInv
<1>6. CASE UNCHANGED <<pool, deaths>> /\ exit' \in {"Running", "Quit", "Failed"}
  BY <1>6 DEF PoolInv, pool
<1>7. CASE Shutdown
  BY <1>7, <1>0 DEF PoolInv, Shutdown
<1>8. CASE UNCHANGED vars
  BY <1>8 DEF PoolInv, vars
<1>9. CASE Next
  BY <1>9, <1>1, <1>2, <1>3, <1>4, <1>5, <1>6, <1>7, PoolSteps
<1>10. QED
  BY <1>8, <1>9

(* For any number of windows and panes: every program the backend can      *)
(* still reach is one the app lists until its death, or its terminal's,    *)
(* has been handled; none that has its terminal survives an orderly end;   *)
(* and a `%N` names at most one pane.                                      *)
THEOREM PoolCorrect == Spec => [](ProcessRegistered /\ NothingLeftBehind /\ NumbersUnique)
<1>1. TypeOK /\ PoolInv /\ [Next]_vars => PoolInv'
  BY PoolStep
<1>2. PoolInv => ProcessRegistered /\ NothingLeftBehind /\ NumbersUnique
  BY DEF PoolInv
<1>3. QED
  BY <1>1, <1>2, PoolInit, TypeCorrect, PTL DEF Spec

(* A `%N` that no pane has any more is never given to another, for any     *)
(* number of windows and panes.                                            *)
THEOREM NumbersNeverReused == Spec => NumbersRetire
<1> DEFINE Kept == \A n \in 1 .. nextPane - 1 :
      (\A p \in PaneId : number[p] # n) => \A p \in PaneId : number'[p] # n
<1>1. ASSUME TypeOK, [Next]_vars PROVE Kept
  <2>0. nextPane \in Nat /\ PaneId \subseteq Nat /\ \A p \in PaneId : number[p] \in Nat
    BY <1>1, WindowsAssumption DEF TypeOK, PaneId
  <2>1. ASSUME NEW gone \in SUBSET PaneId, NEW new \in {{}, Fresh}, Turnover(gone, new)
        PROVE  Kept
    <3>1. \A p \in PaneId : number'[p] \in {number[p], nextPane, 0}
      BY <2>1 DEF Turnover, Numbered, Held, NextId, Fresh
    <3>2. QED
      BY <2>0, <3>1
  <2>2. ASSUME NEW w \in Window, NEW p \in PaneId, RespawnPane(w, p) PROVE Kept
    <3>1. \A q \in PaneId : number'[q] \in {number[p], number[q], nextPane, 0}
      BY <2>2 DEF RespawnPane
    <3>2. QED
      BY <2>0, <3>1
  <2>3. ASSUME NEW p \in PaneId, PaneDied(p) \/ ProcessExits(p) \/ TerminalCloses(p) PROVE Kept
    <3>1. \A q \in PaneId : number'[q] \in {number[q], 0}
      BY <1>1, <2>3 DEF PaneDied, ProcessExits, TerminalCloses, TypeOK
    <3>2. QED
      BY <2>0, <3>1
  <2>4. ASSUME NEW S \in SUBSET PaneId,
               number' = [q \in PaneId |-> IF q \in S THEN 0 ELSE number[q]]
        PROVE  Kept
    BY <2>0, <2>4
  <2>5. CASE UNCHANGED number
    BY <2>5
  <2>6. QED
    BY <1>1, <2>1, <2>2, <2>3, <2>4, <2>5, PoolSteps DEF Shutdown, pool, vars
<1>2. QED
  BY <1>1, TypeCorrect, PTL DEF Spec, NumbersRetire

-----------------------------------------------------------------------------
(* The windows and what each of them claims.                               *)

(* What a window has a claim on: the leaves of its tree and its focus.     *)
Claim(x) == x.leaves \cup ({x.focused} \ {NoPane})

(* PlacedOnce and OwnFocus are not inductive apart: join-pane takes what a *)
(* window merely focuses, and what it takes must not be a leaf elsewhere.  *)
(* Nor are they without the identifiers that a spawn hands out being new.  *)
LayoutInv ==
  /\ \A v, w \in Window : v # w => Claim(win[v]) \cap Claim(win[w]) = {}
  /\ \A w \in Window : Claim(win[w]) \subseteq 1 .. nextPane - 1
  /\ ClosingOnScreen

LEMMA ClaimOf ==
  ASSUME NEW x \in WindowRecord, NEW S, NEW f
  PROVE  /\ Claim(Show(x, S, f)) = S \cup ({f} \ {NoPane})
         /\ Show(x, S, f).closing = x.closing
BY DEF Claim, Show, WindowRecord

LEMMA ClaimClosed ==
  ASSUME NEW x \in WindowRecord, NEW S, NEW T, NEW f
  PROVE  /\ Claim(Closed(x, T, S, f)) = S \cup ({f} \ {NoPane})
         /\ Closed(x, T, S, f).closing = x.closing \ T
BY DEF Claim, Closed, WindowRecord

LEMMA ClaimSettled ==
  ASSUME NEW x \in WindowRecord, NEW S
  PROVE  Claim(Settled(x, S)) \subseteq Claim(x) /\ Settled(x, S).closing = x.closing \ S
BY DEF Claim, Settled, Closed, WindowRecord

(* Leaving a window for another one: the windows claim no more than        *)
(* before, and nothing is closing outside the window that is shown now.    *)
LEMMA ClaimLeft ==
  ASSUME TypeOK, NEW w \in Window
  PROVE  /\ \A v \in Window : Claim(Left(w)[v]) \subseteq Claim(win[v])
         /\ ClosingOnScreen => \A v \in Window : v # w => Left(w)[v].closing = {}
         /\ Left(w)[w] = win[w]
<1>1. win[current] \in WindowRecord /\ win \in [Window -> WindowRecord] /\ current \in Window
  BY DEF TypeOK
<1>2. /\ Claim(Settled(win[current], win[current].closing)) \subseteq Claim(win[current])
      /\ Settled(win[current], win[current].closing).closing = {}
  BY <1>1, ClaimSettled
<1>3. QED
  BY <1>1, <1>2 DEF Left, ClosingOnScreen

(* A pane taken out of a window is not claimed by it any more.             *)
LEMMA ClaimWithout ==
  ASSUME NEW x \in WindowRecord, NEW p \in PaneId,
         NEW f \in FirstOf(Without(x, p, NoPane).leaves)
  PROVE  Claim(Without(x, p, f)) \subseteq Claim(x) \ {p} /\ Without(x, p, f).closing = x.closing \ {p}
BY DEF Claim, Without, FirstOf, WindowRecord

(* What a target can name is claimed by its window.                        *)
LEMMA TargetsClaimed ==
  ASSUME NEW w \in Window
  PROVE  Targets(w) \subseteq Claim(win[w])
BY DEF Targets, Claim

(* Only the panes of `new`, which nobody claimed, are claimed anew, and    *)
(* only by window w.                                                       *)
LEMMA GrowStep ==
  ASSUME TypeOK, LayoutInv, NEW w \in Window, NEW new \in {{}, Fresh},
         nextPane' = IF new = {} THEN nextPane ELSE nextPane + 1,
         \A v \in Window : Claim(win'[v]) \subseteq Claim(win[v]) \cup (IF v = w THEN new ELSE {}),
         \A v \in Window : v # current' => win'[v].closing = {}
  PROVE  LayoutInv'
<1>1. nextPane \in Nat /\ nextPane \notin 1 .. nextPane - 1
  BY WindowsAssumption DEF TypeOK
<1>2. \A n \in 1 .. nextPane - 1 : n \in 1 .. nextPane' - 1
  BY <1>1, WindowsAssumption
<1>3. \A q \in new : q = nextPane /\ q \in 1 .. nextPane' - 1
  <2>1. CASE new = {}
    BY <2>1
  <2>2. CASE new # {}
    <3>1. nextPane \in 2 .. MaxPanes + 1 /\ new = {nextPane} /\ nextPane' = nextPane + 1
      BY <2>2 DEF Fresh, TypeOK
    <3>2. QED
      BY <3>1, <1>1
  <2>3. QED
    BY <2>1, <2>2
<1>4. \A v \in Window : Claim(win[v]) \cap new = {}
  BY <1>1, <1>3 DEF LayoutInv
<1>5. \A v, u \in Window : v # u => Claim(win'[v]) \cap Claim(win'[u]) = {}
  BY <1>4 DEF LayoutInv
<1>6. \A v \in Window : Claim(win'[v]) \subseteq 1 .. nextPane' - 1
  BY <1>2, <1>3 DEF LayoutInv
<1>7. QED
  BY <1>5, <1>6 DEF LayoutInv, ClosingOnScreen

(* Pane p moves from the claims of window s to those of window t.          *)
LEMMA MoveStep ==
  ASSUME TypeOK, LayoutInv, NEW s \in Window, NEW t \in Window, NEW p \in Claim(win[s]),
         nextPane' = nextPane,
         \A v \in Window : Claim(win'[v]) \subseteq
           (IF v = s THEN Claim(win[v]) \ {p} ELSE Claim(win[v])) \cup (IF v = t THEN {p} ELSE {}),
         \A v \in Window : v # current' => win'[v].closing = {}
  PROVE  LayoutInv'
<1>1. \A v, u \in Window : v # u => Claim(win'[v]) \cap Claim(win'[u]) = {}
  BY DEF LayoutInv
<1>2. \A v \in Window : Claim(win'[v]) \subseteq 1 .. nextPane' - 1
  BY DEF LayoutInv
<1>3. QED
  BY <1>1, <1>2 DEF LayoutInv, ClosingOnScreen

LEMMA LayoutInit == Init => LayoutInv
<1> SUFFICES ASSUME Init PROVE LayoutInv
  OBVIOUS
<1>1. \A w \in Window : Claim(win[w]) = IF w = 1 THEN {1} ELSE {}
  BY DEF Init, Claim, Empty, NoPane
<1>2. \A w \in Window : win[w].closing = {}
  BY DEF Init, Empty
<1>3. QED
  BY <1>1, <1>2 DEF LayoutInv, ClosingOnScreen, Init

LEMMA CommandLayout ==
  ASSUME TypeOK, LayoutInv, Command
  PROVE  LayoutInv'
<1>0. /\ win \in [Window -> WindowRecord] /\ current \in Window
      /\ \A w \in Window : win[w] \in WindowRecord
      /\ \A v \in Window : v # current => win[v].closing = {}
  BY DEF TypeOK, LayoutInv, ClosingOnScreen
<1>L. \A w \in Window :
        /\ Left(w) \in [Window -> WindowRecord] /\ Left(w)[w] = win[w]
        /\ \A v \in Window : Left(w)[v] \in WindowRecord
        /\ \A v \in Window : Claim(Left(w)[v]) \subseteq Claim(win[v])
        /\ \A v \in Window : v # w => Left(w)[v].closing = {}
  BY LeftType, ClaimLeft DEF LayoutInv
<1>T. ASSUME NEW gone, NEW new, Turnover(gone, new)
      PROVE  nextPane' = IF new = {} THEN nextPane ELSE nextPane + 1
  BY <1>T DEF Turnover, Numbered, Held, NextId
<1>M. ~ (nextPane \in {}) /\ Fresh = {nextPane} /\ Fresh # {}
  BY DEF Fresh
<1>1. ASSUME NEW w \in Window, SelectWindow(w) PROVE LayoutInv'
  <2>1. PICK new \in {{}, Fresh} :
          /\ win' = Left(w) \/ (new = Fresh /\ win' = [Left(w) EXCEPT ![w] = Show(@, Fresh, nextPane)])
          /\ Turnover(KilledLeaving(w), new) /\ current' = w
    BY <1>1 DEF SelectWindow
  <2>2. Claim(Show(Left(w)[w], Fresh, nextPane)) \subseteq Fresh
        /\ Show(Left(w)[w], Fresh, nextPane).closing = Left(w)[w].closing
    BY <1>L, <1>M, ClaimOf
  <2>3. \A v \in Window : Claim(win'[v]) \subseteq Claim(win[v]) \cup (IF v = w THEN new ELSE {})
    BY <2>1, <2>2, <1>L
  <2>4. \A v \in Window : v # current' => win'[v].closing = {}
    BY <2>1, <2>2, <1>L
  <2>5. QED
    BY <2>1, <2>3, <2>4, <1>T, GrowStep
<1>2. ASSUME NEW w \in Window, KillWindow(w) PROVE LayoutInv'
  <2> DEFINE r == Closed(win[w], win[w].closing, {}, NoPane)
  <2>1. win' = [win EXCEPT ![w] = r] /\ Turnover(win[w].leaves, {})
    BY <1>2 DEF KillWindow
  <2>2. Claim(r) = {} /\ r.closing = {}
    BY <1>0, ClaimClosed
  <2>3. current' = current \/ w = current
    BY <1>2 DEF KillWindow
  <2> HIDE DEF r
  <2>4. \A v \in Window : Claim(win'[v]) \subseteq Claim(win[v])
    BY <2>1, <2>2, <1>0
  <2>5. \A v \in Window : v # current' => win'[v].closing = {}
    BY <2>1, <2>2, <2>3, <1>0
  <2>6. QED
    BY <2>1, <2>4, <2>5, <1>T, GrowStep
<1>3. ASSUME NEW w \in Window, NEW detached \in BOOLEAN, NewWindow(w, detached) PROVE LayoutInv'
  <2> DEFINE u == IF detached THEN current ELSE w
             r == Show(Left(u)[w], Fresh, nextPane)
  <2>1. /\ win' = [Left(u) EXCEPT ![w] = r] /\ Turnover(KilledLeaving(u), Fresh) /\ current' = u
    BY <1>3 DEF NewWindow
  <2>2. u \in Window
    BY <1>0
  <2>3. Claim(r) \subseteq Fresh /\ r.closing = Left(u)[w].closing
    BY <2>2, <1>L, <1>M, ClaimOf
  <2> HIDE DEF u, r
  <2>4. \A v \in Window : Claim(win'[v]) \subseteq Claim(win[v]) \cup (IF v = w THEN Fresh ELSE {})
    BY <2>1, <2>2, <2>3, <1>L
  <2>5. \A v \in Window : v # current' => win'[v].closing = {}
    BY <2>1, <2>2, <2>3, <1>L
  <2>6. QED
    BY <2>1, <2>4, <2>5, <1>T, GrowStep
<1>4. ASSUME NEW w \in Window, NEW S, KillPanes(w, S) PROVE LayoutInv'
  <2> DEFINE begun == (S \cap win[w].leaves) \ win[w].closing
             x == Left(w)[w]
             r(f) == [x EXCEPT !.focused = f, !.closing = @ \cup begun]
  <2>0. \E last \in begun : \E f \in win[w].leaves \ {last} : win' = [Left(w) EXCEPT ![w] = r(f)]
    BY <1>4 DEF KillPanes
  <2>1. PICK f \in win[w].leaves : win' = [Left(w) EXCEPT ![w] = r(f)]
    <3> HIDE DEF begun, r
    <3>1. QED
      BY <2>0
  <2>2. x \in WindowRecord /\ x = win[w]
    BY <1>L
  <2>3. Claim(r(f)) \subseteq Claim(win[w])
    <3> HIDE DEF x, begun
    <3>1. r(f).leaves = win[w].leaves /\ r(f).focused = f
      BY <2>2 DEF WindowRecord
    <3>2. QED
      BY <2>1, <3>1 DEF Claim
  <2>4. current' = w /\ Turnover(KilledLeaving(w), {})
    BY <1>4 DEF KillPanes
  <2> HIDE DEF r
  <2>5. \A v \in Window : Claim(win'[v]) \subseteq Claim(win[v])
    BY <2>1, <2>3, <1>L
  <2>6. \A v \in Window : v # current' => win'[v].closing = {}
    BY <2>1, <2>4, <1>L
  <2>7. QED
    BY <2>4, <2>5, <2>6, <1>T, GrowStep
<1>5. ASSUME NEW w \in Window, NEW p \in PaneId, KillLonePane(w, p) PROVE LayoutInv'
  <2> DEFINE r == Show(Left(w)[w], {}, NoPane)
  <2>1. win' = [Left(w) EXCEPT ![w] = r] /\ current' = w /\ Turnover(KilledLeaving(w) \cup {p}, {})
    BY <1>5 DEF KillLonePane
  <2>2. Claim(r) = {}
    BY <1>L, ClaimOf
  <2> HIDE DEF r
  <2>3. \A v \in Window : Claim(win'[v]) \subseteq Claim(win[v])
    BY <2>1, <2>2, <1>L
  <2>4. \A v \in Window : v # current' => win'[v].closing = {}
    BY <2>1, <1>L
  <2>5. QED
    BY <2>1, <2>3, <2>4, <1>T, GrowStep
<1>6. ASSUME NEW w \in Window, NEW p \in PaneId, SelectPane(w, p) PROVE LayoutInv'
  <2> DEFINE x == Left(w)[w]
             shown == Show(x, x.leaves, p)
  <2>1. /\ win' = [Left(w) EXCEPT ![w] = shown]
        /\ current' = w /\ Turnover(KilledLeaving(w), {}) /\ p \in Targets(w)
    BY <1>6 DEF SelectPane
  <2>2. x \in WindowRecord /\ x = win[w]
    BY <1>L
  <2>3. Claim(shown) = x.leaves \cup ({p} \ {NoPane})
    <3> HIDE DEF x
    <3>1. QED
      BY <2>2 DEF Claim, Show, WindowRecord
  <2>4. x.leaves \subseteq Claim(win[w]) /\ p \in Claim(win[w])
    BY <2>1, <2>2, TargetsClaimed DEF Claim
  <2>5. Claim(shown) \subseteq Claim(win[w])
    BY <2>2, <2>3, <2>4
  <2> HIDE DEF x, shown
  <2>6. \A v \in Window : Claim(win'[v]) \subseteq Claim(win[v])
    BY <2>1, <2>5, <1>L
  <2>7. \A v \in Window : v # current' => win'[v].closing = {}
    BY <2>1, <1>L
  <2>8. QED
    BY <2>1, <2>6, <2>7, <1>T, GrowStep
<1>7. ASSUME NEW w \in Window, NEW p \in PaneId, NEW detached \in BOOLEAN,
             SplitWindow(w, p, detached)
      PROVE LayoutInv'
  <2> DEFINE x == Left(w)[w]
             f == IF detached THEN x.focused ELSE nextPane
             r == Show(x, x.leaves \cup Fresh, f)
  <2>1. /\ current' = w
        /\ \/ Turnover(KilledLeaving(w), Fresh) /\ win' = [Left(w) EXCEPT ![w] = r]
           \/ Turnover(KilledLeaving(w), {}) /\ win' = Left(w)
    BY <1>7 DEF SplitWindow
  <2>2. x \in WindowRecord /\ x = win[w]
    BY <1>L
  <2>3. Claim(r) \subseteq Claim(win[w]) \cup Fresh
    <3>1. Claim(r) = x.leaves \cup Fresh \cup ({f} \ {NoPane})
      BY <2>2, ClaimOf
    <3>2. QED
      BY <2>2, <3>1, <1>M DEF Claim
  <2> HIDE DEF r
  <2>4. CASE Turnover(KilledLeaving(w), Fresh) /\ win' = [Left(w) EXCEPT ![w] = r]
    <3>1. \A v \in Window : Claim(win'[v]) \subseteq Claim(win[v]) \cup (IF v = w THEN Fresh ELSE {})
      BY <2>3, <2>4, <1>L
    <3>2. \A v \in Window : v # current' => win'[v].closing = {}
      BY <2>1, <2>4, <1>L
    <3>3. QED
      BY <2>4, <3>1, <3>2, <1>T, GrowStep
  <2>5. CASE Turnover(KilledLeaving(w), {}) /\ win' = Left(w)
    <3>1. \A v \in Window : Claim(win'[v]) \subseteq Claim(win[v])
      BY <2>5, <1>L
    <3>2. \A v \in Window : v # current' => win'[v].closing = {}
      BY <2>1, <2>5, <1>L
    <3>3. QED
      BY <2>5, <3>1, <3>2, <1>T, GrowStep
  <2>6. QED
    BY <2>1, <2>4, <2>5
<1>8. ASSUME NEW w \in Window, NEW p \in PaneId, NEW d \in Window, NEW detached \in BOOLEAN,
             BreakPane(w, p, d, detached)
      PROVE LayoutInv'
  <2> DEFINE u == IF detached THEN current ELSE d
             away(f) == Without(win[w], p, f)
             alone == Show(win[d], {p}, p)
             x(f) == [win EXCEPT ![w] = away(f), ![d] = alone]
             gone(f) == IF u = current THEN {} ELSE x(f)[current].closing
  <2>1. w # d /\ p \in Claim(win[w])
    BY <1>8, TargetsClaimed DEF BreakPane, Targets
  <2>2. PICK f \in FirstOf(Without(win[w], p, NoPane).leaves) :
          /\ win' = IF u = current THEN x(f)
                    ELSE [x(f) EXCEPT ![current] = Settled(x(f)[current], x(f)[current].closing)]
          /\ Turnover(gone(f), {})
    BY <1>8, <2>1 DEF BreakPane
  <2>3. current' = u /\ u \in Window
    BY <1>0, <1>8 DEF BreakPane
  <2>4. /\ Claim(away(f)) \subseteq Claim(win[w]) \ {p} /\ away(f).closing \subseteq win[w].closing
        /\ Claim(alone) = {p} /\ alone.closing = win[d].closing
        /\ away(f) \in WindowRecord /\ alone \in WindowRecord
    <3>1. f \in PaneId \cup {NoPane}
      BY <1>0, <2>2, WithoutType, FirstOfType, FieldType DEF NoPane
    <3>2. /\ Claim(away(f)) \subseteq Claim(win[w]) \ {p}
          /\ away(f).closing = win[w].closing \ {p} /\ away(f) \in WindowRecord
      BY <1>0, <2>2, <3>1, ClaimWithout, WithoutType
    <3>3. Claim(alone) = {p} \cup ({p} \ {NoPane}) /\ alone.closing = win[d].closing
      BY <1>0, ClaimOf
    <3>4. alone \in WindowRecord
      BY <1>0, ShowType
    <3>5. QED
      BY <3>2, <3>3, <3>4
  <2> DEFINE y == x(f)
  <2>5. /\ \A v \in Window : y[v] = IF v = w THEN away(f) ELSE IF v = d THEN alone ELSE win[v]
        /\ y \in [Window -> WindowRecord]
    BY <1>0, <2>1, <2>4
  <2> HIDE DEF u, away, alone, x
  <2>6. /\ Claim(Settled(y[current], y[current].closing)) \subseteq Claim(y[current])
        /\ Settled(y[current], y[current].closing).closing = {}
    BY <1>0, <2>5, ClaimSettled
  <2>7. \A v \in Window : Claim(y[v]) \subseteq
           (IF v = w THEN Claim(win[v]) \ {p} ELSE Claim(win[v])) \cup (IF v = d THEN {p} ELSE {})
    BY <2>4, <2>5
  <2>8. \A v \in Window : v # current => y[v].closing = {}
    BY <1>0, <2>4, <2>5
  <2>9. \A v \in Window : Claim(win'[v]) \subseteq Claim(y[v])
    BY <1>0, <2>2, <2>5, <2>6
  <2>10. \A v \in Window : v # current' => win'[v].closing = {}
    BY <1>0, <2>2, <2>3, <2>5, <2>6, <2>8
  <2>11. \A v \in Window : Claim(win'[v]) \subseteq
           (IF v = w THEN Claim(win[v]) \ {p} ELSE Claim(win[v])) \cup (IF v = d THEN {p} ELSE {})
    BY <2>7, <2>9
  <2>12. QED
    BY <2>1, <2>2, <2>10, <2>11, <1>T, MoveStep
<1>9. ASSUME NEW s \in Window, NEW p \in PaneId, NEW t \in Window, NEW o \in PaneId,
             NEW detached \in BOOLEAN, JoinPane(s, p, t, o, detached)
      PROVE LayoutInv'
  <2> DEFINE away(f) == Without(win[s], p, f)
             x(f) == [win EXCEPT ![s] = away(f)]
             gone(f) == IF t = current THEN {} ELSE x(f)[current].closing
             y(f) == IF t = current THEN x(f)
                     ELSE [x(f) EXCEPT ![current] = Settled(x(f)[current], x(f)[current].closing)]
             joined(z) == Show(z, z.leaves \cup {p}, IF detached THEN z.focused ELSE p)
             spawned(z) == Show(z, Fresh, nextPane)
  <2>1. PICK f \in FirstOf(Without(win[s], p, NoPane).leaves) :
          \/ /\ win' = [y(f) EXCEPT ![t] = joined(y(f)[t])]
             /\ Turnover(gone(f), {})
          \/ win' = y(f) /\ Turnover(gone(f), {})
          \/ /\ win' = [y(f) EXCEPT ![t] = spawned(y(f)[t])]
             /\ Turnover(gone(f), Fresh)
    BY <1>9 DEF JoinPane
  <2>2. current' = t /\ p \in Claim(win[s])
    BY <1>9, TargetsClaimed DEF JoinPane
  <2>3. /\ Claim(away(f)) \subseteq Claim(win[s]) \ {p}
        /\ away(f).closing = win[s].closing \ {p} /\ away(f) \in WindowRecord
    <3>1. f \in PaneId \cup {NoPane}
      BY <1>0, <2>1, WithoutType, FirstOfType, FieldType DEF NoPane
    <3>2. QED
      BY <1>0, <2>1, <3>1, ClaimWithout, WithoutType
  <2> DEFINE x0 == x(f)
             y0 == y(f)
  <2>4. /\ \A v \in Window : x0[v] = IF v = s THEN away(f) ELSE win[v]
        /\ x0 \in [Window -> WindowRecord] /\ \A v \in Window : x0[v] \in WindowRecord
    BY <1>0, <2>3
  <2> HIDE DEF away, x
  <2>5. /\ Claim(Settled(x0[current], x0[current].closing)) \subseteq Claim(x0[current])
        /\ Settled(x0[current], x0[current].closing).closing = {}
        /\ Settled(x0[current], x0[current].closing) \in WindowRecord
    BY <1>0, <2>4, ClaimSettled, SettledType
  <2>6. /\ y0 \in [Window -> WindowRecord] /\ \A v \in Window : y0[v] \in WindowRecord
        /\ \A v \in Window : Claim(y0[v]) \subseteq Claim(x0[v])
        /\ \A v \in Window : v # t => y0[v].closing = {}
    BY <1>0, <2>3, <2>4, <2>5
  <2>7. \A v \in Window : Claim(y0[v]) \subseteq
          IF v = s THEN Claim(win[v]) \ {p} ELSE Claim(win[v])
    BY <2>3, <2>4, <2>6
  <2> HIDE DEF y, gone
  <2>8. CASE win' = [y0 EXCEPT ![t] = joined(y0[t])] /\ Turnover(gone(f), {})
    <3>1. Claim(joined(y0[t])) \subseteq Claim(y0[t]) \cup {p}
      <4> DEFINE z == y0[t]
                 g == IF detached THEN z.focused ELSE p
      <4>1. z \in WindowRecord
        BY <2>6
      <4>2. Claim(Show(z, z.leaves \cup {p}, g)) = z.leaves \cup {p} \cup ({g} \ {NoPane})
        BY <4>1, ClaimOf
      <4>3. QED
        BY <4>2 DEF Claim
    <3> HIDE DEF joined, y0
    <3>2. \A v \in Window : Claim(win'[v]) \subseteq
            (IF v = s THEN Claim(win[v]) \ {p} ELSE Claim(win[v])) \cup (IF v = t THEN {p} ELSE {})
      BY <2>6, <2>7, <2>8, <3>1
    <3>3. \A v \in Window : v # current' => win'[v].closing = {}
      BY <2>2, <2>6, <2>8
    <3>4. QED
      BY <2>2, <2>8, <3>2, <3>3, <1>T, MoveStep
  <2>9. CASE win' = y0 /\ Turnover(gone(f), {})
    <3>1. \A v \in Window : Claim(win'[v]) \subseteq Claim(win[v])
      BY <2>7, <2>9
    <3>2. \A v \in Window : v # current' => win'[v].closing = {}
      BY <2>2, <2>6, <2>9
    <3>3. QED
      BY <2>9, <3>1, <3>2, <1>T, GrowStep
  <2>10. CASE win' = [y0 EXCEPT ![t] = spawned(y0[t])] /\ Turnover(gone(f), Fresh)
    <3>1. Claim(spawned(y0[t])) \subseteq Fresh
      BY <2>6, <1>M, ClaimOf
    <3> HIDE DEF spawned, y0
    <3>2. \A v \in Window : Claim(win'[v]) \subseteq Claim(win[v]) \cup (IF v = t THEN Fresh ELSE {})
      BY <2>6, <2>7, <2>10, <3>1
    <3>3. \A v \in Window : v # current' => win'[v].closing = {}
      BY <2>2, <2>6, <2>10
    <3>4. QED
      BY <2>10, <3>2, <3>3, <1>T, GrowStep
  <2>11. QED
    BY <2>1, <2>8, <2>9, <2>10
<1>10. ASSUME NEW w \in Window, NEW p \in PaneId, RespawnPane(w, p) PROVE LayoutInv'
  <2> DEFINE swap(x) == [x EXCEPT !.leaves  = IF p \in @ THEN (@ \ {p}) \cup Fresh ELSE @,
                                  !.focused = IF @ = p THEN nextPane ELSE @]
  <2>1. /\ win' = [v \in Window |-> swap(Left(w)[v])] /\ current' = w
        /\ nextPane' = nextPane + 1 /\ p \in Claim(win[w])
    BY <1>10, TargetsClaimed DEF RespawnPane
  <2>2. \A x \in WindowRecord :
          /\ Claim(swap(x)) \subseteq Claim(x) \cup Fresh
          /\ p \notin Claim(x) => Claim(swap(x)) = Claim(x)
          /\ swap(x).closing = x.closing
    BY <1>M DEF Claim, WindowRecord, PaneId, NoPane
  <2>3. \A v \in Window : v # w => p \notin Claim(win[v])
    BY <2>1 DEF LayoutInv
  <2> HIDE DEF swap
  <2>4. \A v \in Window : Claim(win'[v]) \subseteq Claim(win[v]) \cup (IF v = w THEN Fresh ELSE {})
    BY <2>1, <2>2, <2>3, <1>L
  <2>5. \A v \in Window : v # current' => win'[v].closing = {}
    BY <2>1, <2>2, <1>L
  <2>6. QED
    BY <2>1, <2>4, <2>5, <1>M, GrowStep
<1>11. ASSUME Reshape \/ KillSession PROVE LayoutInv'
  BY <1>11 DEF Reshape, KillSession, LayoutInv, ClosingOnScreen, pool
<1>12. QED
  BY <1>1, <1>2, <1>3, <1>4, <1>5, <1>6, <1>7, <1>8, <1>9, <1>10, <1>11 DEF Command

LEMMA EnvironmentLayout ==
  ASSUME TypeOK, LayoutInv, Environment
  PROVE  LayoutInv'
<1>0. /\ win \in [Window -> WindowRecord] /\ current \in Window
      /\ \A w \in Window : win[w] \in WindowRecord
      /\ \A v \in Window : v # current => win[v].closing = {}
  BY DEF TypeOK, LayoutInv, ClosingOnScreen
<1>G. ASSUME NEW r, Claim(r) \subseteq Claim(win[current]),
             win' = [win EXCEPT ![current] = r],
             UNCHANGED current, nextPane' = nextPane
      PROVE  LayoutInv'
  <2>1. \A v \in Window : Claim(win'[v]) \subseteq Claim(win[v])
    BY <1>G, <1>0
  <2>2. \A v \in Window : v # current' => win'[v].closing = {}
    BY <1>G, <1>0
  <2>3. QED
    BY <1>G, <1>0, <2>1, <2>2, GrowStep
<1>1. ASSUME NEW p \in PaneId, FinishClosing(p) PROVE LayoutInv'
  <2> DEFINE x == win[current]
             rest == x.leaves \ {p}
             shrunk == p \in x.leaves /\ rest # {}
             kept == IF shrunk THEN rest ELSE {}
             focus(f) == IF x.leaves = {} THEN x.focused
                         ELSE IF ~ shrunk THEN NoPane
                         ELSE IF x.focused \in {NoPane, p} THEN f ELSE x.focused
  <2>1. PICK f \in FirstOf(rest) : win' = [win EXCEPT ![current] = Closed(x, {p}, kept, focus(f))]
    BY <1>1 DEF FinishClosing
  <2>2. Claim(Closed(x, {p}, kept, focus(f))) = kept \cup ({focus(f)} \ {NoPane})
    <3>1. x \in WindowRecord
      BY <1>0
    <3> HIDE DEF x, kept, focus
    <3>2. QED
      BY <3>1, ClaimClosed
  <2>3. kept \cup ({focus(f)} \ {NoPane}) \subseteq Claim(win[current])
    BY <2>1 DEF Claim, FirstOf
  <2>4. UNCHANGED current /\ nextPane' = nextPane
    BY <1>1 DEF FinishClosing, Turnover, Numbered, Held, NextId
  <2>5. QED
    BY <2>1, <2>2, <2>3, <2>4, <1>G
<1>2. ASSUME NEW p \in PaneId, PaneDied(p) PROVE LayoutInv'
  <2>1. ASSUME NEW w \in Window, NEW f \in FirstOf(win[w].leaves \ {p}),
               win' = [win EXCEPT ![w] = Show(@, @.leaves \ {p}, f)]
        PROVE  \A v \in Window : /\ Claim(win'[v]) \subseteq Claim(win[v])
                                 /\ win'[v].closing = win[v].closing
    <3> DEFINE r == Show(win[w], win[w].leaves \ {p}, f)
    <3>1. Claim(r) = (win[w].leaves \ {p}) \cup ({f} \ {NoPane}) /\ r.closing = win[w].closing
      BY <1>0, ClaimOf
    <3>2. Claim(r) \subseteq Claim(win[w])
      BY <3>1, <2>1 DEF Claim, FirstOf
    <3> HIDE DEF r
    <3>3. win' = [win EXCEPT ![w] = r]
      BY <2>1 DEF r
    <3>4. QED
      BY <3>1, <3>2, <3>3, <1>0
  <2>2. \A v \in Window : Claim(win'[v]) \subseteq Claim(win[v]) /\ win'[v].closing = win[v].closing
    BY <1>2, <2>1 DEF PaneDied
  <2>3. UNCHANGED current /\ nextPane' = nextPane
    BY <1>2 DEF PaneDied
  <2>4. \A v \in Window : v # current' => win'[v].closing = {}
    BY <1>0, <2>2, <2>3
  <2>5. QED
    BY <1>0, <2>2, <2>3, <2>4, GrowStep
<1>3. ASSUME NEW S \in SUBSET win[current].closing, Resize(S) PROVE LayoutInv'
  <2> DEFINE x == win[current]
             y == Settled(x, S)
  <2>0. /\ x \in WindowRecord /\ y \in WindowRecord /\ Claim(y) \subseteq Claim(win[current])
        /\ UNCHANGED current /\ nextPane' = nextPane
    BY <1>0, <1>3, SettledType, ClaimSettled DEF Resize, Numbered, Turnover, Numbered, Held, NextId
  <2>1. \/ win' = [win EXCEPT ![current] = y]
        \/ \E p \in x.closing :
             win' = [win EXCEPT ![current] = Closed(x, S \cup {p}, y.leaves, y.focused)]
    BY <1>3 DEF Resize, Numbered
  <2> HIDE DEF y
  <2>2. CASE win' = [win EXCEPT ![current] = y]
    BY <2>0, <2>2, <1>G
  <2>3. ASSUME NEW p, win' = [win EXCEPT ![current] = Closed(x, S \cup {p}, y.leaves, y.focused)]
        PROVE  LayoutInv'
    <3>1. Claim(Closed(x, S \cup {p}, y.leaves, y.focused)) = Claim(y)
      BY <2>0, ClaimClosed DEF Claim
    <3>2. QED
      BY <2>0, <2>3, <3>1, <1>G
  <2>4. QED
    BY <2>1, <2>2, <2>3
<1>4. CASE UNCHANGED <<win, current, nextPane>>
  BY <1>4 DEF LayoutInv, ClosingOnScreen
<1>5. ASSUME NEW p \in PaneId,
             ProcessExits(p) \/ TerminalCloses(p) \/ CloseFails(p) \/ CommandFails(p)
      PROVE  UNCHANGED <<win, current, nextPane>>
  BY <1>5 DEF ProcessExits, TerminalCloses, CloseFails, CommandFails, pool
<1>6. ASSUME Advance \/ SpawnFails \/ Shutdown PROVE UNCHANGED <<win, current, nextPane>>
  BY <1>6 DEF Advance, SpawnFails, Shutdown, pool
<1>7. QED
  BY <1>1, <1>2, <1>3, <1>4, <1>5, <1>6 DEF Environment

LEMMA LayoutStep ==
  ASSUME TypeOK, LayoutInv, [Next]_vars
  PROVE  LayoutInv'
<1>1. CASE UNCHANGED vars
  BY <1>1 DEF LayoutInv, ClosingOnScreen, vars
<1>2. QED
  BY <1>1, CommandLayout, EnvironmentLayout DEF Next

LEMMA LayoutAlways == Spec => []LayoutInv
<1>1. TypeOK /\ LayoutInv /\ [Next]_vars => LayoutInv'
  BY LayoutStep
<1>2. QED
  BY <1>1, LayoutInit, TypeCorrect, PTL DEF Spec

(* For any number of windows and panes: a pane has one place, through any  *)
(* break, join or respawn, and panes close only in the window on screen.   *)
THEOREM LayoutCorrect == Spec => [](PlacedOnce /\ ClosingOnScreen)
<1>1. LayoutInv => PlacedOnce /\ ClosingOnScreen
  BY DEF LayoutInv, PlacedOnce, Claim
<1>2. QED
  BY <1>1, LayoutAlways, PTL

(* What a window focuses, even when that pane is gone, is neither a pane   *)
(* nor the focus of another window: a target without a pane part acts on   *)
(* the window it names, for any number of windows and panes.               *)
THEOREM FocusCorrect == Spec => []OwnFocus
<1>1. LayoutInv => OwnFocus
  BY DEF LayoutInv, OwnFocus, Claim
<1>2. QED
  BY <1>1, LayoutAlways, PTL

(***************************************************************************)
(* What a step may do to a session whose windows are in step: it loses no  *)
(* running pane, it leaves the windows in step if nothing was closing, and *)
(* it ends the session only with its last pane.                            *)
(***************************************************************************)
-----------------------------------------------------------------------------
(* No running pane is lost.                                                *)

LEMMA Leaves ==
  ASSUME TypeOK, Healthy, NEW w \in Window
  PROVE  /\ win[w] \in WindowRecord /\ InStep(win[w])
         /\ win[w].closing \subseteq win[w].leaves
         /\ Targets(w) \subseteq win[w].leaves
BY DEF TypeOK, Healthy, InStep, Targets

(* break-pane and join-pane take the pane out first, which gives windows   *)
(* x, and then switch to window v, which settles the window on screen.     *)
SettledFor(x, v) ==
  IF v = current THEN x
  ELSE [x EXCEPT ![current] = Settled(@, @.closing)]

KilledFor(x, v) == IF v = current THEN {} ELSE x[current].closing

LEMMA SettledKeeps ==
  ASSUME current \in Window, NEW x \in [Window -> WindowRecord], NEW v \in Window,
         \A u \in Window : x[u].closing \subseteq x[u].leaves
  PROVE  /\ SettledFor(x, v)[v] = x[v]
         /\ SettledFor(x, v) \in [Window -> WindowRecord]
         /\ KilledFor(x, v) \in SUBSET PaneId
         /\ \A u \in Window :
              x[u].leaves \subseteq SettledFor(x, v)[u].leaves \cup KilledFor(x, v)
<1>1. CASE v = current
  BY <1>1 DEF SettledFor, KilledFor
<1>2. CASE v # current
  <2> DEFINE r == Settled(x[current], x[current].closing)
  <2>1. r.leaves = x[current].leaves \ x[current].closing
    BY DEF Settled, Closed, WindowRecord
  <2>2. r \in WindowRecord /\ x[current].closing \in SUBSET PaneId
    BY SettledType, FieldType
  <2>3. SettledFor(x, v) = [x EXCEPT ![current] = r] /\ KilledFor(x, v) = x[current].closing
    BY <1>2 DEF SettledFor, KilledFor
  <2> HIDE DEF r
  <2> QED
    BY <1>2, <2>1, <2>2, <2>3
<1> QED
  BY <1>1, <1>2

(* Leaving a window takes out of its tree what it kills, and no more.      *)
LEMMA LeftLeaves ==
  ASSUME TypeOK, Healthy, NEW w \in Window
  PROVE  /\ Left(w) \in [Window -> WindowRecord] /\ Left(w)[w] = win[w]
         /\ \A v \in Window : win[v].leaves \subseteq Left(w)[v].leaves \cup KilledLeaving(w)
<1>1. /\ win \in [Window -> WindowRecord] /\ current \in Window
      /\ win[current] \in WindowRecord /\ win[current].closing \subseteq win[current].leaves
  BY Leaves DEF TypeOK
<1>2. /\ Settled(win[current], win[current].closing).leaves
           = win[current].leaves \ win[current].closing
  BY <1>1 DEF Settled, Closed, WindowRecord
<1>3. Left(w) \in [Window -> WindowRecord]
  BY LeftType
<1> QED
  BY <1>1, <1>2, <1>3 DEF Left, KilledLeaving

(* A step that places what it spawns, and kills what it takes out of the   *)
(* layout.                                                                 *)
LEMMA KillsWhatGoes ==
  ASSUME TypeOK, NEW gone, NEW new,
         held' = (held \ gone) \cup new,
         \A p \in PaneId : process'[p] = IF p \in new THEN "running" ELSE process[p],
         \A p \in new : \E w \in Window : p \in win'[w].leaves,
         \A w \in Window : \A p \in win[w].leaves :
           p \in gone \/ \E v \in Window : p \in win'[v].leaves
  PROVE  Orphans' \subseteq Orphans
<1> SUFFICES ASSUME NEW p \in Orphans' PROVE p \in Orphans
  OBVIOUS
<1>1. p \in held' /\ process'[p] = "running" /\ \A w \in Window : p \notin win'[w].leaves
  BY DEF Orphans, Placed
<1>2. p \notin new /\ p \notin gone /\ p \in held
  BY <1>1
<1>3. p \in PaneId
  BY <1>2 DEF TypeOK
<1>4. process[p] = "running"
  BY <1>1, <1>2, <1>3
<1>5. \A w \in Window : p \notin win[w].leaves
  BY <1>1, <1>2
<1> QED
  BY <1>2, <1>4, <1>5 DEF Orphans, Placed

LEMMA TurnoverKeeps ==
  ASSUME TypeOK, NEW gone, NEW new, Turnover(gone, new),
         \A p \in new : \E w \in Window : p \in win'[w].leaves,
         \A w \in Window : \A p \in win[w].leaves :
           p \in gone \/ \E v \in Window : p \in win'[v].leaves
  PROVE  Orphans' \subseteq Orphans
<1>1. /\ held' = (held \ gone) \cup new
      /\ \A p \in PaneId : process'[p] = IF p \in new THEN "running" ELSE process[p]
  BY DEF Turnover, Held
<1> QED
  BY <1>1, KillsWhatGoes

LEMMA CommandKeeps == ASSUME TypeOK, Healthy, Command PROVE Orphans' \subseteq Orphans
<1>0. /\ win \in [Window -> WindowRecord] /\ current \in Window
      /\ \A w \in Window : /\ win[w] \in WindowRecord /\ InStep(win[w])
                           /\ win[w].closing \subseteq win[w].leaves
                           /\ Targets(w) \subseteq win[w].leaves
  BY Leaves DEF TypeOK
<1>L. \A w \in Window :
        /\ Left(w) \in [Window -> WindowRecord] /\ Left(w)[w] = win[w]
        /\ \A v \in Window : Left(w)[v] \in WindowRecord
        /\ \A v \in Window : win[v].leaves \subseteq Left(w)[v].leaves \cup KilledLeaving(w)
  BY LeftLeaves
<1>F. nextPane \in Fresh /\ \A p \in Fresh : p = nextPane
  BY DEF Fresh
(* A command that shows window u, and window w keeps its leaves.           *)
<1>S. ASSUME NEW u \in Window, NEW w \in Window, NEW new, NEW x,
             Turnover(KilledLeaving(u), new), win' = [Left(u) EXCEPT ![w] = x],
             win[w].leaves \cup new \subseteq x.leaves
      PROVE  Orphans' \subseteq Orphans
  <2>1. win'[w] = x /\ \A v \in Window : v # w => win'[v] = Left(u)[v]
    BY <1>L, <1>S
  <2>2. \A v \in Window : \A p \in win[v].leaves :
          p \in KilledLeaving(u) \/ \E t \in Window : p \in win'[t].leaves
    BY <1>L, <1>S, <2>1
  <2>3. \A p \in new : \E v \in Window : p \in win'[v].leaves
    BY <1>S, <2>1
  <2> QED
    BY <1>S, <2>2, <2>3, TurnoverKeeps
<1>N. ASSUME NEW w \in Window, Turnover(KilledLeaving(w), {}), win' = Left(w)
      PROVE  Orphans' \subseteq Orphans
  BY <1>L, <1>N, TurnoverKeeps
<1>H. \A x \in WindowRecord : \A S, f : Show(x, S, f).leaves = S
  BY DEF Show, WindowRecord
<1>1. ASSUME NEW w \in Window, SelectWindow(w) PROVE Orphans' \subseteq Orphans
  <2>1. CASE win[w].leaves # {}
    BY <1>1, <1>N, <2>1 DEF SelectWindow
  <2>2. CASE win[w].leaves = {}
    <3>1. win' = [Left(w) EXCEPT ![w] = Show(Left(w)[w], Fresh, nextPane)]
          /\ Turnover(KilledLeaving(w), Fresh)
      BY <1>1, <2>2 DEF SelectWindow
    <3>2. Show(Left(w)[w], Fresh, nextPane).leaves = Fresh
      BY <1>L, <1>H
    <3> QED
      BY <1>S, <2>2, <3>1, <3>2
  <2> QED
    BY <2>1, <2>2
<1>2. ASSUME NEW w \in Window, NEW p \in PaneId, NEW detached \in BOOLEAN,
             SplitWindow(w, p, detached)
      PROVE  Orphans' \subseteq Orphans
  <2>1. CASE p \in win[w].leaves
    <3>1. PICK f : /\ win' = [Left(w) EXCEPT ![w] = Show(Left(w)[w], Left(w)[w].leaves \cup Fresh, f)]
                   /\ Turnover(KilledLeaving(w), Fresh)
      BY <1>2, <2>1 DEF SplitWindow
    <3>2. Show(Left(w)[w], Left(w)[w].leaves \cup Fresh, f).leaves = win[w].leaves \cup Fresh
      BY <1>L, <1>H
    <3> QED
      BY <1>S, <3>1, <3>2
  <2>2. CASE p \notin win[w].leaves
    BY <1>2, <1>N, <2>2 DEF SplitWindow
  <2> QED
    BY <2>1, <2>2
<1>3. ASSUME NEW w \in Window, NEW detached \in BOOLEAN, NewWindow(w, detached)
      PROVE  Orphans' \subseteq Orphans
  <2>1. PICK v \in Window :
          /\ win' = [Left(v) EXCEPT ![w] = Show(Left(v)[w], Fresh, nextPane)]
          /\ Turnover(KilledLeaving(v), Fresh) /\ win[w].leaves = {}
    BY <1>0, <1>3 DEF NewWindow
  <2>2. Show(Left(v)[w], Fresh, nextPane).leaves = Fresh
    BY <1>L, <1>H
  <2> QED
    BY <1>S, <2>1, <2>2
<1>4. ASSUME NEW w \in Window, KillWindow(w) PROVE Orphans' \subseteq Orphans
  <2>1. /\ win' = [win EXCEPT ![w] = Closed(win[w], win[w].closing, {}, NoPane)]
        /\ Turnover(win[w].leaves, {})
    BY <1>4 DEF KillWindow
  <2>2. \A v \in Window : v # w => win'[v] = win[v]
    BY <1>0, <2>1
  <2> QED
    BY <2>1, <2>2, TurnoverKeeps
<1>5. ASSUME NEW w \in Window, NEW p \in PaneId, KillLonePane(w, p)
      PROVE  Orphans' \subseteq Orphans
  <2>1. /\ win' = [Left(w) EXCEPT ![w] = Show(Left(w)[w], {}, NoPane)]
        /\ Turnover(KilledLeaving(w) \cup {p}, {})
        /\ win[w].leaves = {p}
    BY <1>0, <1>5 DEF KillLonePane
  <2>2. \A v \in Window : v # w => win'[v] = Left(w)[v]
    BY <1>L, <2>1
  <2>3. \A v \in Window : \A q \in win[v].leaves :
          q \in KilledLeaving(w) \cup {p} \/ \E t \in Window : q \in win'[t].leaves
    BY <1>L, <2>1, <2>2
  <2> QED
    BY <2>1, <2>3, TurnoverKeeps
<1>6. ASSUME NEW w \in Window, NEW S \in SUBSET win[w].leaves, KillPanes(w, S)
      PROVE  Orphans' \subseteq Orphans
  <2>1. PICK f, T :
          /\ win' = [Left(w) EXCEPT ![w] = [Left(w)[w] EXCEPT !.focused = f, !.closing = Left(w)[w].closing \cup T]]
          /\ Turnover(KilledLeaving(w), {})
    BY <1>6 DEF KillPanes
  <2>2. [Left(w)[w] EXCEPT !.focused = f, !.closing = Left(w)[w].closing \cup T].leaves = win[w].leaves
    BY <1>L DEF WindowRecord
  <2> QED
    BY <1>S, <2>1, <2>2
<1>7. ASSUME NEW w \in Window, NEW p \in PaneId, SelectPane(w, p) PROVE Orphans' \subseteq Orphans
  <2>1. /\ win' = [Left(w) EXCEPT ![w] = Show(Left(w)[w], Left(w)[w].leaves, p)]
        /\ Turnover(KilledLeaving(w), {})
    BY <1>7 DEF SelectPane
  <2>2. Show(Left(w)[w], Left(w)[w].leaves, p).leaves = win[w].leaves
    BY <1>L, <1>H
  <2> QED
    BY <1>S, <2>1, <2>2
<1>8. ASSUME Reshape PROVE Orphans' \subseteq Orphans
  BY <1>8 DEF Reshape, pool, Orphans, Placed
<1>9. ASSUME NEW w \in Window, NEW p \in PaneId, RespawnPane(w, p) PROVE Orphans' \subseteq Orphans
  <2>1. p \in win[w].leaves
    BY <1>0, <1>9 DEF RespawnPane
  <2>2. /\ held' = (held \ (KilledLeaving(w) \cup {p})) \cup Fresh
        /\ process' = [process EXCEPT ![nextPane] = "running"]
    BY <1>9 DEF RespawnPane
  <2>3. \A q \in PaneId : process'[q] = IF q \in Fresh THEN "running" ELSE process[q]
    BY <1>F, <2>2 DEF TypeOK
  <2>4. \A v \in Window :
          win'[v].leaves = IF p \in Left(w)[v].leaves
                           THEN (Left(w)[v].leaves \ {p}) \cup Fresh ELSE Left(w)[v].leaves
    <3> TAKE v \in Window
    <3> DEFINE y == Left(w)[v]
               S == IF p \in y.leaves THEN (y.leaves \ {p}) \cup Fresh ELSE y.leaves
               f == IF y.focused = p THEN nextPane ELSE y.focused
    <3>1. win'[v] = [y EXCEPT !.leaves = S, !.focused = f]
      BY <1>9 DEF RespawnPane
    <3>2. y \in WindowRecord
      BY <1>L
    <3> HIDE DEF y, f
    <3> QED
      BY <3>1, <3>2 DEF WindowRecord, y
  <2>5. \A q \in Fresh : q \in win'[w].leaves
    BY <1>L, <2>1, <2>4
  <2>6. \A v \in Window : \A q \in win[v].leaves :
          q \in KilledLeaving(w) \cup {p} \/ \E t \in Window : q \in win'[t].leaves
    BY <1>L, <2>4
  <2> QED
    BY <2>2, <2>3, <2>5, <2>6, KillsWhatGoes
<1>W. \A x \in WindowRecord : \A p \in x.leaves : \A f :
        Without(x, p, f).leaves = x.leaves \ {p} /\ Without(x, p, f).closing = x.closing \ {p}
  BY DEF Without, WindowRecord
<1>V. \A x \in WindowRecord : \A p \in x.leaves : \A f \in FirstOf(Without(x, p, NoPane).leaves) :
        Without(x, p, f) \in WindowRecord
  BY <1>W, FieldType, FirstOfType, WithoutType
<1>T. \A x \in WindowRecord : x.closing \subseteq x.leaves =>
        Settled(x, x.closing).leaves = x.leaves \ x.closing
  BY DEF Settled, Closed, WindowRecord
<1>10. ASSUME NEW w \in Window, NEW p \in PaneId, NEW d \in Window, NEW detached \in BOOLEAN,
              BreakPane(w, p, d, detached)
       PROVE  Orphans' \subseteq Orphans
  <2> DEFINE v == IF detached THEN current ELSE d
  <2>1. p \in win[w].leaves /\ w # d /\ win[d].leaves = {} /\ v \in Window
    BY <1>0, <1>10, FS_EmptySet DEF BreakPane
  <2> DEFINE moved(f) == [win EXCEPT ![w] = Without(win[w], p, f), ![d] = Show(win[d], {p}, p)]
  <2>2. PICK f \in FirstOf(Without(win[w], p, NoPane).leaves) :
          /\ win' = SettledFor(moved(f), v)
          /\ Turnover(KilledFor(moved(f), v), {})
    BY <1>10 DEF BreakPane, SettledFor, KilledFor
  <2> DEFINE x == moved(f)
             gone == KilledFor(x, v)
  <2>3. /\ Without(win[w], p, f) \in WindowRecord
        /\ Without(win[w], p, f).leaves = win[w].leaves \ {p}
        /\ Without(win[w], p, f).closing = win[w].closing \ {p}
    BY <1>0, <1>V, <1>W, <2>1
  <2>4. /\ Show(win[d], {p}, p) \in WindowRecord
        /\ Show(win[d], {p}, p).leaves = {p}
        /\ Show(win[d], {p}, p).closing = win[d].closing
    BY <1>0 DEF Show, WindowRecord
  <2>5. /\ x \in [Window -> WindowRecord]
        /\ x[d].leaves = {p} /\ x[w].leaves = win[w].leaves \ {p}
        /\ \A u \in Window : /\ u \notin {w, d} => x[u] = win[u]
                             /\ x[u].closing \subseteq x[u].leaves
    BY <1>0, <2>1, <2>3, <2>4
  <2> HIDE DEF v, x, moved
  <2>6. /\ \A u \in Window : x[u].leaves \subseteq win'[u].leaves \cup gone
        /\ win'[v] = x[v] /\ (v = current => win' = x)
    BY <1>0, <2>1, <2>2, <2>5, SettledKeeps DEF x, SettledFor
  <2> HIDE DEF gone
  <2>7. p \in win'[d].leaves
    <3>1. v # current => v = d
      BY DEF v
    <3> QED
      BY <2>5, <2>6, <3>1
  <2>8. \A u \in Window : \A q \in win[u].leaves :
          q \in gone \/ \E t \in Window : q \in win'[t].leaves
    <3> SUFFICES ASSUME NEW u \in Window, NEW q \in win[u].leaves, q \notin gone
                 PROVE  \E t \in Window : q \in win'[t].leaves
      OBVIOUS
    <3>1. CASE q = p
      BY <2>7, <3>1
    <3>2. CASE q # p
      <4>1. q \in x[u].leaves
        BY <2>1, <2>5, <3>2
      <4> QED
        BY <2>6, <4>1
    <3> QED
      BY <3>1, <3>2
  <2>9. Turnover(gone, {})
    BY <2>2 DEF gone, x
  <2> QED
    BY <2>8, <2>9, TurnoverKeeps
<1>11. ASSUME NEW s \in Window, NEW p \in PaneId, NEW t \in Window, NEW o \in PaneId,
              NEW detached \in BOOLEAN, JoinPane(s, p, t, o, detached)
       PROVE  Orphans' \subseteq Orphans
  <2>1. p \in win[s].leaves /\ o \in win[t].leaves /\ p # o
    BY <1>0, <1>11 DEF JoinPane
  <2> DEFINE moved(f) == [win EXCEPT ![s] = Without(win[s], p, f)]
             there(y)  == [y EXCEPT ![t] = Show(y[t], y[t].leaves \cup {p},
                                               IF detached THEN y[t].focused ELSE p)]
  <2>2. PICK f \in FirstOf(Without(win[s], p, NoPane).leaves) :
          \/ /\ win' = there(SettledFor(moved(f), t))
             /\ Turnover(KilledFor(moved(f), t), {})
          \/ o \notin SettledFor(moved(f), t)[t].leaves
          \/ SettledFor(moved(f), t)[t].leaves = {}
    <3> DEFINE y(f) == SettledFor(moved(f), t)
    <3>1. \E f \in FirstOf(Without(win[s], p, NoPane).leaves) :
            \/ /\ o \in y(f)[t].leaves
               /\ win' = [y(f) EXCEPT ![t] = Show(y(f)[t], y(f)[t].leaves \cup {p},
                                               IF detached THEN y(f)[t].focused ELSE p)]
               /\ Turnover(KilledFor(moved(f), t), {})
            \/ /\ o \notin y(f)[t].leaves
               /\ t = current \/ y(f)[t].leaves # {}
               /\ win' = y(f)
               /\ Turnover(KilledFor(moved(f), t), {})
            \/ /\ y(f)[t].leaves = {} /\ t # current /\ CanSpawn
               /\ win' = [y(f) EXCEPT ![t] = Show(y(f)[t], Fresh, nextPane)]
               /\ Turnover(KilledFor(moved(f), t), Fresh)
      BY <1>11 DEF JoinPane, SettledFor, KilledFor
    <3> QED
      BY <3>1
  <2> DEFINE x == moved(f)
             y == SettledFor(x, t)
             gone == KilledFor(x, t)
  <2>3. /\ Without(win[s], p, f) \in WindowRecord
        /\ Without(win[s], p, f).leaves = win[s].leaves \ {p}
        /\ Without(win[s], p, f).closing = win[s].closing \ {p}
    BY <1>0, <1>V, <1>W, <2>1
  <2>4. /\ x \in [Window -> WindowRecord] /\ x[s].leaves = win[s].leaves \ {p}
        /\ \A u \in Window : /\ u # s => x[u] = win[u]
                             /\ x[u].closing \subseteq x[u].leaves
    BY <1>0, <2>1, <2>3
  <2> HIDE DEF x, moved
  <2>5. /\ y[t] = x[t] /\ y \in [Window -> WindowRecord]
        /\ \A u \in Window : x[u].leaves \subseteq y[u].leaves \cup gone
    BY <1>0, <2>4, SettledKeeps
  <2>6. o \in y[t].leaves
    BY <2>1, <2>4, <2>5
  <2>7. PICK g : win' = [y EXCEPT ![t] = Show(y[t], y[t].leaves \cup {p}, g)]
                 /\ Turnover(gone, {})
    BY <2>2, <2>6 DEF x
  <2> HIDE DEF y, gone
  <2>8. /\ win'[t].leaves = y[t].leaves \cup {p}
        /\ \A u \in Window : u # t => win'[u] = y[u]
    BY <1>H, <2>5, <2>7
  <2>9. \A u \in Window : \A q \in win[u].leaves :
          q \in gone \/ \E v \in Window : q \in win'[v].leaves
    <3> SUFFICES ASSUME NEW u \in Window, NEW q \in win[u].leaves, q \notin gone
                 PROVE  \E v \in Window : q \in win'[v].leaves
      OBVIOUS
    <3>1. CASE q = p
      BY <2>8, <3>1
    <3>2. CASE q # p
      <4>1. q \in y[u].leaves
        BY <2>4, <2>5, <3>2
      <4> QED
        BY <2>8, <4>1
    <3> QED
      BY <3>1, <3>2
  <2>10. Turnover(gone, {})
    BY <2>7
  <2> QED
    BY <2>9, <2>10, TurnoverKeeps
<1>12. ASSUME KillSession PROVE Orphans' \subseteq Orphans
  BY <1>12 DEF KillSession, pool, Orphans, Placed
<1> QED
  BY <1>1, <1>2, <1>3, <1>4, <1>5, <1>6, <1>7, <1>8, <1>9, <1>10, <1>11, <1>12 DEF Command

LEMMA EnvironmentKeeps ==
  ASSUME TypeOK, Healthy, DeathsTrue, Environment
  PROVE  Orphans' \subseteq Orphans
<1>0. /\ win \in [Window -> WindowRecord] /\ current \in Window
      /\ \A w \in Window : /\ win[w] \in WindowRecord
                           /\ win[w].closing \subseteq win[w].leaves
  BY Leaves DEF TypeOK
<1>H. \A x \in WindowRecord : \A T, S, f : Show(x, S, f).leaves = S /\ Closed(x, T, S, f).leaves = S
  BY DEF Show, Closed, WindowRecord
(* The window on screen loses the leaves S and what is killed is gone.     *)
<1>S. ASSUME NEW S, NEW gone, NEW x, S \subseteq gone,
             win' = [win EXCEPT ![current] = x], x.leaves = win[current].leaves \ S,
             held' = held \ gone, UNCHANGED process
      PROVE  Orphans' \subseteq Orphans
  <2>1. \A w \in Window : \A q \in win[w].leaves :
          q \in gone \/ \E v \in Window : q \in win'[v].leaves
    BY <1>0, <1>S
  <2> DEFINE new == {}
  <2>2. /\ held' = (held \ gone) \cup new
        /\ \A q \in PaneId : process'[q] = IF q \in new THEN "running" ELSE process[q]
        /\ \A q \in new : \E w \in Window : q \in win'[w].leaves
    BY <1>S
  <2> HIDE DEF new
  <2> QED
    BY <2>1, <2>2, KillsWhatGoes
<1>T. ASSUME NEW gone, Turnover(gone, {}) PROVE held' = held \ gone /\ UNCHANGED process
  <2>1. process' = [q \in PaneId |-> process[q]] /\ process \in [PaneId -> {"none", "running", "adrift", "exited"}]
    BY <1>T DEF Turnover, TypeOK
  <2> QED
    BY <1>T, <2>1 DEF Turnover, Held
<1>1. ASSUME NEW p \in PaneId, FinishClosing(p) PROVE Orphans' \subseteq Orphans
  <2>1. PICK T, f : /\ win' = [win EXCEPT ![current] = Closed(win[current], T, win[current].leaves \ {p}, f)]
                    /\ Turnover({p}, {})
    <3> DEFINE rest == win[current].leaves \ {p}
               shrunk == p \in win[current].leaves /\ rest # {}
    <3>1. p \in win[current].leaves
      BY <1>0, <1>1 DEF FinishClosing
    <3>2. (IF shrunk THEN rest ELSE {}) = rest
      BY <3>1
    <3>3. \E f : win' = [win EXCEPT ![current] =
                            Closed(win[current], {p}, IF shrunk THEN rest ELSE {}, f)]
      BY <1>1 DEF FinishClosing
    <3> QED
      BY <1>1, <3>2, <3>3 DEF FinishClosing
  <2>2. Closed(win[current], T, win[current].leaves \ {p}, f).leaves = win[current].leaves \ {p}
    BY <1>0, <1>H
  <2> QED
    BY <1>S, <1>T, <2>1, <2>2
<1>2. ASSUME NEW S \in SUBSET win[current].closing, Resize(S) PROVE Orphans' \subseteq Orphans
  <2>1. Settled(win[current], S).leaves = win[current].leaves \ S
    BY <1>0, <1>H DEF Settled
  <2>2. CASE win' = [win EXCEPT ![current] = Settled(win[current], S)] /\ Turnover(S, {})
    BY <1>S, <1>T, <2>1, <2>2
  <2>3. ASSUME NEW p, held' = held \ (S \cup {p}), UNCHANGED process,
               win' = [win EXCEPT ![current] = Closed(win[current], S \cup {p},
                        Settled(win[current], S).leaves, Settled(win[current], S).focused)]
        PROVE  Orphans' \subseteq Orphans
    <3> DEFINE x == Closed(win[current], S \cup {p}, Settled(win[current], S).leaves,
                           Settled(win[current], S).focused)
    <3>1. x.leaves = win[current].leaves \ S
      BY <1>0, <1>H, <2>1
    <3> HIDE DEF x
    <3> QED
      BY <1>S, <2>3, <3>1 DEF x
  <2> QED
    BY <1>2, <2>2, <2>3 DEF Resize
(* A program that is reported dead does not have its terminal.             *)
<1>3. ASSUME NEW p \in PaneId, PaneDied(p) PROVE Orphans' \subseteq Orphans
  <2>1. held' = held /\ process' = process /\ process[p] # "running"
    BY <1>3 DEF PaneDied, DeathsTrue
  <2>2. \A w \in Window : win[w].leaves \ {p} \subseteq win'[w].leaves
    <3>1. ASSUME NEW w \in Window, NEW f,
                 win' = [win EXCEPT ![w] = Show(win[w], win[w].leaves \ {p}, f)]
          PROVE  \A v \in Window : win[v].leaves \ {p} \subseteq win'[v].leaves
      <4>1. Show(win[w], win[w].leaves \ {p}, f).leaves = win[w].leaves \ {p}
        BY <1>0, <1>H
      <4> QED
        BY <1>0, <3>1, <4>1
    <3>2. CASE win' = win
      BY <3>2
    <3> QED
      BY <1>3, <3>1, <3>2 DEF PaneDied
  <2>3. \A q \in PaneId : q \in Placed /\ q # p => q \in Placed'
    BY <2>2 DEF Placed
  <2> QED
    BY <2>1, <2>3 DEF Orphans, TypeOK
<1>4. ASSUME NEW p \in PaneId, ProcessExits(p) \/ TerminalCloses(p)
      PROVE  Orphans' \subseteq Orphans
  <2>1. /\ process' = [process EXCEPT ![p] = "exited"] \/ process' = [process EXCEPT ![p] = "adrift"]
        /\ UNCHANGED <<win, held>>
    BY <1>4 DEF ProcessExits, TerminalCloses
  <2>2. held \subseteq PaneId /\ process \in [PaneId -> {"none", "running", "adrift", "exited"}]
    BY DEF TypeOK
  <2> QED
    BY <2>1, <2>2 DEF Orphans, Placed
<1>5. ASSUME NEW p \in PaneId, CloseFails(p) \/ CommandFails(p) PROVE Orphans' \subseteq Orphans
  BY <1>5 DEF CloseFails, CommandFails, pool, Orphans, Placed
<1>6. ASSUME Advance \/ SpawnFails \/ Shutdown PROVE Orphans' \subseteq Orphans
  BY <1>6 DEF Advance, SpawnFails, Shutdown, pool, Orphans, Placed
<1> QED
  BY <1>1, <1>2, <1>3, <1>4, <1>5, <1>6 DEF Environment

LEMMA StepKeeps ==
  ASSUME TypeOK, PoolInv, Healthy, [Next]_vars
  PROVE  Orphans' \subseteq Orphans
<1>1. CASE UNCHANGED vars
  BY <1>1 DEF vars, Orphans, Placed
<1> QED
  BY <1>1, CommandKeeps, EnvironmentKeeps DEF Next, PoolInv

(* While every window is in step, no command, tick, resize or report of a  *)
(* death takes a pane whose program has its terminal out of the layout     *)
(* without killing it, for any number of windows and panes.                *)
THEOREM MovesLoseNoPane == Spec => MovesKeepPanes
<1>1. TypeOK /\ PoolInv /\ [Next]_vars => (Healthy => Orphans' \subseteq Orphans)
  BY StepKeeps
<1>2. Spec => []PoolInv
  BY PoolStep, PoolInit, TypeCorrect, PTL DEF Spec
<1> QED
  BY <1>1, <1>2, TypeCorrect, PTL DEF Spec, MovesKeepPanes

-----------------------------------------------------------------------------
(* A session at rest stays in step.                                        *)

LEMMA SettledAtRest ==
  ASSUME NEW x \in WindowRecord
  PROVE  Settled(x, {}) = x
<1>1. Settled(x, {}) = [x EXCEPT !.leaves = x.leaves, !.focused = x.focused, !.closing = x.closing \ {}]
  BY DEF Settled, Closed
<1>2. x.closing \ {} = x.closing
  BY DEF WindowRecord
<1> QED
  BY <1>1, <1>2 DEF WindowRecord

(* With nothing closing, leaving a window changes nothing.                 *)
LEMMA RestLeft ==
  ASSUME TypeOK, AtRest, NEW w \in Window
  PROVE  Left(w) = win
<1>1. /\ win \in [Window -> WindowRecord] /\ current \in Window
      /\ win[current] \in WindowRecord /\ win[current].closing = {}
  BY DEF TypeOK, AtRest
<1>2. Settled(win[current], win[current].closing) = win[current]
  BY <1>1, SettledAtRest
<1> QED
  BY <1>1, <1>2 DEF Left

LEMMA RestSettledFor ==
  ASSUME current \in Window, NEW x \in [Window -> WindowRecord], NEW v \in Window,
         x[current].closing = {}
  PROVE  SettledFor(x, v) = x
<1>1. x[current] \in WindowRecord
  OBVIOUS
<1>2. Settled(x[current], x[current].closing) = x[current]
  BY <1>1, SettledAtRest
<1> QED
  BY <1>2 DEF SettledFor

LEMMA CommandStaysInStep == ASSUME TypeOK, Healthy, AtRest, Command PROVE Healthy'
<1>0. /\ win \in [Window -> WindowRecord] /\ current \in Window
      /\ \A w \in Window : /\ win[w] \in WindowRecord /\ InStep(win[w])
                           /\ win[w].closing = {}
                           /\ Targets(w) \subseteq win[w].leaves
                           /\ Left(w) = win
  BY Leaves, RestLeft DEF TypeOK, AtRest
<1>F. Fresh = {nextPane} /\ nextPane # NoPane
  BY WindowsAssumption DEF Fresh, TypeOK, NoPane
(* One window is changed, and is in step.                                  *)
<1>E. ASSUME NEW w \in Window, NEW x, win' = [win EXCEPT ![w] = x], InStep(x)
      PROVE  Healthy'
  BY <1>0, <1>E DEF Healthy, InStep
<1>H. ASSUME NEW w \in Window, NEW S, NEW f, win' = [win EXCEPT ![w] = Show(win[w], S, f)],
             IF S = {} THEN f = NoPane ELSE f \in S
      PROVE  Healthy'
  <2>1. /\ Show(win[w], S, f).leaves = S /\ Show(win[w], S, f).focused = f
        /\ Show(win[w], S, f).closing = {}
    BY <1>0 DEF Show, WindowRecord
  <2> QED
    BY <1>E, <1>H, <2>1 DEF InStep
<1>N. ASSUME win' = win PROVE Healthy'
  BY <1>N DEF Healthy, InStep
<1>1. ASSUME NEW w \in Window, SelectWindow(w) PROVE Healthy'
  <2>1. win' = win \/ win' = [win EXCEPT ![w] = Show(win[w], Fresh, nextPane)]
    BY <1>0, <1>1 DEF SelectWindow
  <2> QED
    BY <1>F, <1>H, <1>N, <2>1
<1>2. ASSUME NEW w \in Window, NEW p \in PaneId, NEW detached \in BOOLEAN,
             SplitWindow(w, p, detached)
      PROVE  Healthy'
  <2>1. p \in win[w].leaves
    BY <1>0, <1>2 DEF SplitWindow
  <2>2. win' = [win EXCEPT ![w] = Show(win[w], win[w].leaves \cup Fresh,
                                       IF detached THEN win[w].focused ELSE nextPane)]
    BY <1>0, <1>2, <2>1 DEF SplitWindow
  <2> DEFINE S == win[w].leaves \cup Fresh
             f == IF detached THEN win[w].focused ELSE nextPane
  <2>3. S # {} /\ f \in S
    BY <1>0, <1>F, <2>1 DEF InStep
  <2>4. win' = [win EXCEPT ![w] = Show(win[w], S, f)]
    BY <2>2
  <2> HIDE DEF S, f
  <2> QED
    BY <1>H, <2>3, <2>4
<1>3. ASSUME NEW w \in Window, NEW detached \in BOOLEAN, NewWindow(w, detached)
      PROVE  Healthy'
  <2>1. win' = [win EXCEPT ![w] = Show(win[w], Fresh, nextPane)]
    BY <1>0, <1>3 DEF NewWindow
  <2> QED
    BY <1>F, <1>H, <2>1
<1>4. ASSUME NEW w \in Window, KillWindow(w) PROVE Healthy'
  <2> DEFINE x == Closed(win[w], win[w].closing, {}, NoPane)
  <2>1. x.leaves = {} /\ x.focused = NoPane /\ x.closing = {}
    BY <1>0 DEF Closed, WindowRecord
  <2>2. win' = [win EXCEPT ![w] = x]
    BY <1>4 DEF KillWindow
  <2> HIDE DEF x
  <2> QED
    BY <1>E, <2>1, <2>2 DEF InStep
<1>5. ASSUME NEW w \in Window, NEW p \in PaneId, KillLonePane(w, p) PROVE Healthy'
  <2>1. win' = [win EXCEPT ![w] = Show(win[w], {}, NoPane)]
    BY <1>0, <1>5 DEF KillLonePane
  <2> QED
    BY <1>H, <2>1
<1>6. ASSUME NEW w \in Window, NEW S \in SUBSET win[w].leaves, KillPanes(w, S) PROVE Healthy'
  <2> DEFINE begun == (S \cap win[w].leaves) \ win[w].closing
  <2>1. PICK last \in begun : \E f \in win[w].leaves \ {last} :
          win' = [win EXCEPT ![w] = [win[w] EXCEPT !.focused = f, !.closing = win[w].closing \cup begun]]
    BY <1>0, <1>6 DEF KillPanes
  <2>2. PICK f \in win[w].leaves :
          win' = [win EXCEPT ![w] = [win[w] EXCEPT !.focused = f, !.closing = win[w].closing \cup begun]]
    BY <2>1
  <2> DEFINE x == [win[w] EXCEPT !.focused = f, !.closing = win[w].closing \cup begun]
  <2>3. x.leaves = win[w].leaves /\ x.focused = f /\ x.closing \subseteq win[w].leaves
    BY <1>0 DEF WindowRecord
  <2> HIDE DEF x, begun
  <2>4. InStep(x)
    BY <2>2, <2>3 DEF InStep
  <2> QED
    BY <1>E, <2>2, <2>4 DEF x
<1>7. ASSUME NEW w \in Window, NEW p \in PaneId, SelectPane(w, p) PROVE Healthy'
  <2>1. p \in win[w].leaves /\ win' = [win EXCEPT ![w] = Show(win[w], win[w].leaves, p)]
    BY <1>0, <1>7 DEF SelectPane
  <2> QED
    BY <1>H, <2>1
<1>8. ASSUME Reshape PROVE Healthy'
  BY <1>8, <1>N DEF Reshape
<1>9. ASSUME NEW w \in Window, NEW p \in PaneId, RespawnPane(w, p) PROVE Healthy'
  <2> SUFFICES ASSUME NEW v \in Window PROVE InStep(win'[v])
    BY DEF Healthy, InStep
  <2> DEFINE y == win[v]
             S == IF p \in y.leaves THEN (y.leaves \ {p}) \cup Fresh ELSE y.leaves
             f == IF y.focused = p THEN nextPane ELSE y.focused
  <2>1. win'[v] = [y EXCEPT !.leaves = S, !.focused = f]
    BY <1>0, <1>9 DEF RespawnPane
  <2>2. y \in WindowRecord /\ InStep(y) /\ y.closing = {}
    BY <1>0
  <2>3. p # NoPane
    BY DEF PaneId, NoPane
  <2>4. IF S = {} THEN f = NoPane ELSE f \in S
    BY <1>F, <2>2, <2>3 DEF InStep
  <2> HIDE DEF y, S, f
  <2>5. win'[v].leaves = S /\ win'[v].focused = f /\ win'[v].closing = {}
    BY <2>1, <2>2 DEF WindowRecord
  <2> QED
    BY <2>4, <2>5 DEF InStep
<1>W. ASSUME NEW w \in Window, NEW p \in win[w].leaves,
             NEW f \in FirstOf(Without(win[w], p, NoPane).leaves)
      PROVE  /\ Without(win[w], p, f) \in WindowRecord
             /\ Without(win[w], p, f).leaves = win[w].leaves \ {p}
             /\ Without(win[w], p, f).closing = {}
             /\ InStep(Without(win[w], p, f))
  <2>1. \A g : /\ Without(win[w], p, g).leaves = win[w].leaves \ {p}
               /\ Without(win[w], p, g).closing = {}
               /\ Without(win[w], p, g).focused = IF win[w].focused = p THEN g ELSE win[w].focused
    BY <1>0 DEF Without, WindowRecord
  <2>2. InStep(Without(win[w], p, f))
    BY <1>0, <2>1 DEF InStep, FirstOf
  <2>3. f \in PaneId \cup {NoPane}
    BY <1>0, <2>1, FieldType, FirstOfType
  <2>4. Without(win[w], p, f) \in WindowRecord
    BY <1>0, <2>3, WithoutType
  <2> QED
    BY <2>1, <2>2, <2>4
<1>10. ASSUME NEW w \in Window, NEW p \in PaneId, NEW d \in Window, NEW detached \in BOOLEAN,
              BreakPane(w, p, d, detached)
       PROVE  Healthy'
  <2> DEFINE v == IF detached THEN current ELSE d
             moved(f) == [win EXCEPT ![w] = Without(win[w], p, f), ![d] = Show(win[d], {p}, p)]
  <2>1. p \in win[w].leaves /\ w # d /\ v \in Window
    BY <1>0, <1>10, FS_EmptySet DEF BreakPane
  <2>2. PICK f \in FirstOf(Without(win[w], p, NoPane).leaves) : win' = SettledFor(moved(f), v)
    BY <1>10 DEF BreakPane, SettledFor
  <2> DEFINE x == moved(f)
  <2>4. /\ Show(win[d], {p}, p) \in WindowRecord
        /\ Show(win[d], {p}, p).closing = {}
        /\ InStep(Show(win[d], {p}, p))
    <3>1. /\ Show(win[d], {p}, p) \in WindowRecord
          /\ Show(win[d], {p}, p).leaves = {p} /\ Show(win[d], {p}, p).focused = p
          /\ Show(win[d], {p}, p).closing = {}
      BY <1>0 DEF Show, WindowRecord
    <3> QED
      BY <3>1 DEF InStep
  <2>5. /\ x \in [Window -> WindowRecord]
        /\ \A u \in Window : x[u].closing = {} /\ InStep(x[u])
    <3>1. /\ x[w] = Without(win[w], p, f) /\ x[d] = Show(win[d], {p}, p)
          /\ \A u \in Window : u \notin {w, d} => x[u] = win[u]
          /\ x \in [Window -> WindowRecord]
      BY <1>0, <1>W, <2>1, <2>4
    <3> QED
      BY <1>0, <1>W, <2>1, <2>4, <3>1
  <2>6. win' = SettledFor(x, v)
    BY <2>2
  <2> HIDE DEF x, v, moved
  <2>7. win' = x
    BY <1>0, <2>1, <2>5, <2>6, RestSettledFor
  <2> QED
    BY <2>5, <2>7 DEF Healthy, InStep
<1>11. ASSUME NEW s \in Window, NEW p \in PaneId, NEW t \in Window, NEW o \in PaneId,
              NEW detached \in BOOLEAN, JoinPane(s, p, t, o, detached)
       PROVE  Healthy'
  <2>1. p \in win[s].leaves /\ o \in win[t].leaves /\ p # o
    BY <1>0, <1>11 DEF JoinPane
  <2> DEFINE moved(f) == [win EXCEPT ![s] = Without(win[s], p, f)]
             y(f)     == SettledFor(moved(f), t)
  <2>2. \A f \in FirstOf(Without(win[s], p, NoPane).leaves) :
          /\ y(f) \in [Window -> WindowRecord]
          /\ \A u \in Window : y(f)[u].closing = {} /\ InStep(y(f)[u])
          /\ o \in y(f)[t].leaves
    <3> TAKE f \in FirstOf(Without(win[s], p, NoPane).leaves)
    <3>1. /\ moved(f) \in [Window -> WindowRecord]
          /\ \A u \in Window : /\ u # s => moved(f)[u] = win[u]
                               /\ moved(f)[u].closing = {}
                               /\ InStep(moved(f)[u])
          /\ moved(f)[s].leaves = win[s].leaves \ {p}
      BY <1>0, <1>W, <2>1
    <3>2. y(f) = moved(f)
      BY <1>0, <3>1, RestSettledFor
    <3> HIDE DEF y, moved
    <3> QED
      BY <2>1, <3>1, <3>2
  <2> DEFINE there(z) == [z EXCEPT ![t] = Show(z[t], z[t].leaves \cup {p},
                                               IF detached THEN z[t].focused ELSE p)]
  <2>3. PICK f \in FirstOf(Without(win[s], p, NoPane).leaves) :
          \/ win' = there(y(f))
          \/ o \notin y(f)[t].leaves
          \/ y(f)[t].leaves = {}
    <3>1. \E f \in FirstOf(Without(win[s], p, NoPane).leaves) :
            \/ /\ o \in y(f)[t].leaves
               /\ win' = [y(f) EXCEPT ![t] = Show(y(f)[t], y(f)[t].leaves \cup {p},
                                               IF detached THEN y(f)[t].focused ELSE p)]
            \/ /\ o \notin y(f)[t].leaves
               /\ t = current \/ y(f)[t].leaves # {}
               /\ win' = y(f)
            \/ /\ y(f)[t].leaves = {} /\ t # current /\ CanSpawn
               /\ win' = [y(f) EXCEPT ![t] = Show(y(f)[t], Fresh, nextPane)]
      BY <1>11 DEF JoinPane, SettledFor
    <3> QED
      BY <3>1
  <2> DEFINE z == y(f)
             S == z[t].leaves \cup {p}
             g == IF detached THEN z[t].focused ELSE p
  <2>4. /\ z \in [Window -> WindowRecord] /\ o \in z[t].leaves
        /\ \A u \in Window : z[u].closing = {} /\ InStep(z[u])
    BY <2>2
  <2>5. win' = [z EXCEPT ![t] = Show(z[t], S, g)]
    BY <2>3, <2>4
  <2> HIDE DEF y, z
  <2>6. S # {} /\ g \in S
    BY <2>4 DEF InStep
  <2> HIDE DEF S, g
  <2>7. /\ Show(z[t], S, g).leaves = S /\ Show(z[t], S, g).focused = g
        /\ Show(z[t], S, g).closing = {}
    <3>1. z[t] \in WindowRecord /\ z[t].closing = {}
      BY <2>4
    <3> QED
      BY <3>1 DEF Show, WindowRecord
  <2>8. InStep(Show(z[t], S, g))
    BY <2>6, <2>7 DEF InStep
  <2>9. \A u \in Window : InStep(win'[u])
    BY <2>4, <2>5, <2>8
  <2> QED
    BY <2>9 DEF Healthy, InStep
<1>12. ASSUME KillSession PROVE Healthy'
  BY <1>12, <1>N DEF KillSession
<1> QED
  BY <1>1, <1>2, <1>3, <1>4, <1>5, <1>6, <1>7, <1>8, <1>9, <1>10, <1>11, <1>12 DEF Command

LEMMA RestStep ==
  ASSUME TypeOK, Healthy, AtRest, [Next]_vars
  PROVE  Healthy'
<1>0. /\ win \in [Window -> WindowRecord] /\ current \in Window
      /\ \A w \in Window : win[w] \in WindowRecord /\ InStep(win[w]) /\ win[w].closing = {}
  BY DEF TypeOK, Healthy, AtRest
<1>N. ASSUME win' = win PROVE Healthy'
  BY <1>N DEF Healthy, InStep
<1>1. ASSUME NEW p \in PaneId, FinishClosing(p) PROVE FALSE
  BY <1>0, <1>1 DEF FinishClosing
<1>2. ASSUME NEW S \in SUBSET win[current].closing, Resize(S) PROVE FALSE
  BY <1>0, <1>2 DEF Resize
<1>3. ASSUME NEW p \in PaneId, PaneDied(p) PROVE Healthy'
  <2>1. ASSUME NEW w \in Window, p \in win[w].leaves, NEW f \in FirstOf(win[w].leaves \ {p}),
               win' = [win EXCEPT ![w] = Show(win[w], win[w].leaves \ {p}, f)]
        PROVE  Healthy'
    <3> DEFINE x == Show(win[w], win[w].leaves \ {p}, f)
    <3>1. x.leaves = win[w].leaves \ {p} /\ x.focused = f /\ x.closing = {}
      BY <1>0 DEF Show, WindowRecord
    <3>2. win' = [win EXCEPT ![w] = x]
      BY <2>1
    <3> HIDE DEF x
    <3>3. InStep(x)
      BY <3>1 DEF InStep, FirstOf
    <3> QED
      BY <1>0, <3>2, <3>3 DEF Healthy, InStep
  <2>2. CASE win' = win
    BY <1>N, <2>2
  <2> QED
    BY <1>3, <2>1, <2>2 DEF PaneDied
<1>4. ASSUME NEW p \in PaneId,
             ProcessExits(p) \/ TerminalCloses(p) \/ CloseFails(p) \/ CommandFails(p)
      PROVE  Healthy'
  BY <1>4, <1>N DEF ProcessExits, TerminalCloses, CloseFails, CommandFails
<1>5. ASSUME Advance \/ SpawnFails \/ Shutdown PROVE Healthy'
  BY <1>5, <1>N DEF Advance, SpawnFails, Shutdown
<1>6. CASE UNCHANGED vars
  BY <1>6, <1>N DEF vars
<1> QED
  BY <1>1, <1>2, <1>3, <1>4, <1>5, <1>6, CommandStaysInStep DEF Next, Environment

(* A session in which nothing is closing stays in step whatever command,   *)
(* tick or event comes next, for any number of windows and panes.          *)
THEOREM RestStaysInStep == Spec => RestKeepsStep
<1>1. TypeOK /\ [Next]_vars => (Healthy /\ AtRest => Healthy')
  BY RestStep
<1> QED
  BY <1>1, TypeCorrect, PTL DEF Spec, RestKeepsStep

-----------------------------------------------------------------------------
(* A session ends itself only with its last pane.                          *)

(* The handlers that set App.exit ask every window first.                  *)
LEMMA QuitAsksAll ==
  ASSUME Next, exit = "Running", exit' = "Quit", ~ KillSession
  PROVE  AllEmpty(win')
<1>1. ASSUME NEW w \in Window, KillWindow(w) PROVE AllEmpty(win')
  BY <1>1 DEF KillWindow
<1>2. ASSUME NEW w \in Window, NEW p \in PaneId, KillLonePane(w, p) PROVE AllEmpty(win')
  BY <1>2 DEF KillLonePane
<1>3. ASSUME NEW p \in PaneId, FinishClosing(p) PROVE AllEmpty(win')
  BY <1>3 DEF FinishClosing
<1>4. ASSUME NEW p \in PaneId, PaneDied(p) PROVE AllEmpty(win')
  BY <1>4 DEF PaneDied
<1>5. ASSUME NEW w \in Window, SelectWindow(w) \/ \E b \in BOOLEAN : NewWindow(w, b)
      PROVE  UNCHANGED exit
  BY <1>5 DEF SelectWindow, NewWindow
<1>6. ASSUME NEW w \in Window, NEW S, KillPanes(w, S) PROVE UNCHANGED exit
  BY <1>6 DEF KillPanes
<1>7. ASSUME NEW w \in Window, NEW p \in PaneId,
              \/ SelectPane(w, p) \/ RespawnPane(w, p)
              \/ \E b \in BOOLEAN : SplitWindow(w, p, b)
       PROVE  UNCHANGED exit
  BY <1>7 DEF SelectPane, RespawnPane, SplitWindow
<1>8. ASSUME NEW w \in Window, NEW p \in PaneId, NEW t \in Window, NEW o \in PaneId,
              NEW b \in BOOLEAN, BreakPane(w, p, t, b) \/ JoinPane(w, p, t, o, b)
       PROVE  UNCHANGED exit
  BY <1>8 DEF BreakPane, JoinPane
<1>9. ASSUME NEW p \in PaneId, NEW S,
             \/ ProcessExits(p) \/ TerminalCloses(p) \/ Resize(S) \/ CloseFails(p)
             \/ CommandFails(p) \/ Reshape \/ Advance \/ SpawnFails \/ Shutdown
      PROVE  FALSE
  BY <1>9 DEF ProcessExits, TerminalCloses, Resize, CloseFails, CommandFails, Reshape, Advance,
     SpawnFails, Shutdown
<1>10. CASE Command
  <2>1. PaneId # {}
    BY WindowsAssumption DEF PaneId
  <2> QED
    BY <1>1, <1>2, <1>5, <1>9, <1>10, <1>6, <1>7, <1>8, <2>1 DEF Command
<1>11. CASE Environment
  <2>1. PaneId # {}
    BY WindowsAssumption DEF PaneId
  <2> QED
    BY <1>3, <1>4, <1>9, <1>11, <2>1 DEF Environment
<1> QED
  BY <1>10, <1>11 DEF Next

LEMMA QuitStep ==
  ASSUME TypeOK, PoolInv, [Next]_vars, Healthy, Orphans = {},
         exit = "Running", exit' = "Quit", ~ KillSession
  PROVE  AllEmpty(win') /\ \A p \in held' : process'[p] # "running"
<1>1. exit' # exit
  OBVIOUS
<1>2. Next
  BY <1>1 DEF vars
<1>3. AllEmpty(win')
  BY <1>2, QuitAsksAll
<1>4. Orphans' = {}
  BY StepKeeps
<1>5. Placed' = {}
  BY <1>3 DEF Placed, AllEmpty
<1> QED
  BY <1>3, <1>4, <1>5 DEF Orphans

(* A session in step that was not told to quit does so only when every     *)
(* window is empty and no program the backend holds has its terminal       *)
(* still, for any number of windows and panes.                             *)
THEOREM QuitsOnlyWhenDone == Spec => QuitsWhenDone
<1>1. TypeOK /\ PoolInv /\ [Next]_vars =>
        (exit = "Running" /\ exit' = "Quit" /\ ~ KillSession /\ Healthy /\ Orphans = {}
           => AllEmpty(win') /\ \A p \in held' : process'[p] # "running")
  BY QuitStep
<1>2. Spec => []PoolInv
  BY PoolStep, PoolInit, TypeCorrect, PTL DEF Spec
<1> QED
  BY <1>1, <1>2, TypeCorrect, PTL DEF Spec, QuitsWhenDone
=============================================================================
