---------------------------- MODULE CommandLine ----------------------------
(***************************************************************************)
(* The command language: what command/mod.rs makes of an argv and what     *)
(* command/target.rs makes of a `-t` value.  A key binding, `wv exec` and  *)
(* a configuration file all come through Parse.                            *)
(*                                                                         *)
(* A word is a sequence of pieces, cut where the parser looks: the leading *)
(* "-" of a flag, the "%" and "@" of an id, the ":" and "." of a target.   *)
(* `kill-pane -t dev:1.%7` is                                              *)
(*   << <<"kill-pane">>, <<"-", "t">>, <<"dev", ":", "1", ".", "%", "7">> >>*)
(* A parsed command is its name, the slots its flags filled, and its words.*)
(***************************************************************************)
EXTENDS Integers, Sequences, SequencesExt, TLC

None == <<>>
\* An operator on a value: TLC would evaluate an expression again at every use.
With(value, op(_)) == CHOOSE result \in { op(v) : v \in {value} } : TRUE
Through(op(_, _), base, seq) ==
  LET upto[i \in 0 .. Len(seq)] ==
        IF i = 0 THEN base ELSE With(upto[i - 1], LAMBDA acc : op(acc, seq[i])) IN
  upto[Len(seq)]
\* The elements of a sequence that are in S, in their order.
Kept(seq, S) == Through(LAMBDA acc, x : IF x \in S THEN Append(acc, x) ELSE acc, <<>>, seq)

\* The map f with value at key, whether or not there was one.
Put(f, key, value) == [k \in DOMAIN f \cup {key} |-> IF k = key THEN value ELSE f[k]]

\* Command::parse_str: words of a line that no quote can join.
SplitWhitespace(line) ==
  LET reads(acc, piece) ==
        CASE piece = " " -> [words |-> IF acc.word = None THEN acc.words ELSE Append(acc.words, acc.word),
                             word |-> None]
          [] OTHER       -> [acc EXCEPT !.word = Append(@, piece)] IN
  Through(reads, [words |-> <<>>, word |-> None], Append(line, " ")).words
Cut(w, mark) == SelectInSeq(w, LAMBDA piece : piece = mark)  \* 0: not there

(***************************************************************************)
(* Words                                                                   *)
(***************************************************************************)
\* A lone "-" is the minus key or a relative target, never a flag.
IsFlag(w) == Len(w) > 1 /\ w[1] = "-"

Numeral ==
  [w \in {"0", "1", "2", "3", "4", "5", "6", "7", "8", "40", "160", "500", "2000", "3000", "70000"} |->
     CASE w = "0" -> 0      [] w = "1" -> 1      [] w = "2" -> 2       [] w = "3" -> 3
       [] w = "4" -> 4      [] w = "5" -> 5      [] w = "6" -> 6       [] w = "7" -> 7
       [] w = "8" -> 8      [] w = "40" -> 40    [] w = "160" -> 160   [] w = "500" -> 500
       [] w = "2000" -> 2000 [] w = "3000" -> 3000 [] w = "70000" -> 70000]
MaxU16 == 65535
IsNumber(w) == Len(w) = 1 /\ w[1] \in DOMAIN Numeral
Number(w) == Numeral[w[1]]
IsSize(w) == IsNumber(w) /\ Number(w) <= MaxU16

(***************************************************************************)
(* Targets.  Each part is None or <<how it is named, by what>>.            *)
(***************************************************************************)
Current == [session |-> None, window |-> None, pane |-> None]
Wrong == <<"Wrong", "target">>
Part(how, w) == IF IsNumber(w) THEN <<how, Number(w)>> ELSE Wrong

Relative == ("+" :> "Next") @@ ("{next}" :> "Next") @@ ("-" :> "Previous")
            @@ ("{previous}" :> "Previous") @@ ("{prev}" :> "Previous")
            @@ ("!" :> "Last") @@ ("{last}" :> "Last")
Ends == ("{start}" :> "Start") @@ ("{end}" :> "End")
Edges == ("{top}" :> "Top") @@ ("{bottom}" :> "Bottom")
         @@ ("{left}" :> "Left") @@ ("{right}" :> "Right")
Besides == ("{left-of}" :> "Left") @@ ("{right-of}" :> "Right")
           @@ ("{up-of}" :> "Up") @@ ("{down-of}" :> "Down")
Braced == {"{nowhere}"} \cup { piece \in DOMAIN Relative : piece \notin {"+", "-", "!"} }
          \cup DOMAIN Ends \cup DOMAIN Edges \cup DOMAIN Besides

\* Anything that is not a form of its own is a window's name.
ParseWindow(w) ==
  CASE w[1] = "@"                               -> Part("Id", Tail(w))
    [] Len(w) = 1 /\ w[1] \in DOMAIN Relative -> <<Relative[w[1]], 0>>
    [] Len(w) = 1 /\ w[1] \in DOMAIN Ends     -> <<Ends[w[1]], 0>>
    [] Len(w) = 1 /\ w[1] \in Braced          -> Wrong
    [] IsNumber(w)                              -> <<"Index", Number(w)>>
    [] OTHER                                    -> <<"Name", w>>

ParsePane(w) ==
  CASE w[1] = "%"                               -> Part("Id", Tail(w))
    [] Len(w) = 1 /\ w[1] \in DOMAIN Relative -> <<Relative[w[1]], 0>>
    [] Len(w) = 1 /\ w[1] \in DOMAIN Edges    -> <<"Extreme", Edges[w[1]]>>
    [] Len(w) = 1 /\ w[1] \in DOMAIN Besides  -> <<"DirectionOf", Besides[w[1]]>>
    [] OTHER                                    -> Part("Index", w)

\* What a session may be called: letters, digits, "-" and "_".
NotInNames == {"%", "@", ".", ":", "+", "!", "#"} \cup Braced
ValidName(w) == \A i \in DOMAIN w : w[i] \notin NotInNames

\* What follows the colon, or the whole of a value that has none.
ParseWindowAndPane(w, kind) ==
  LET dot == Cut(w, ".")
      before == SubSeq(w, 1, dot - 1)
      after == SubSeq(w, dot + 1, Len(w)) IN
  CASE w = None      -> <<None, None>>
    [] dot > 0       -> <<IF before = None THEN None ELSE ParseWindow(before),
                          IF after = None THEN None ELSE ParsePane(after)>>
    [] kind = "pane" -> <<None, ParsePane(w)>>
    [] OTHER         -> <<ParseWindow(w), None>>

\* A colon puts what follows it in window position, whatever the command's kind.
EffectiveKind(w, kind) == IF Cut(w, ":") > 0 THEN "window" ELSE kind

ParseTarget(w, kind) ==
  LET colon == Cut(w, ":")
      session == SubSeq(w, 1, colon - 1)
      rest == SubSeq(w, colon + 1, Len(w))
      parts == ParseWindowAndPane(rest, EffectiveKind(w, kind)) IN
  CASE w = None           -> [Current EXCEPT !.window = Wrong]
    [] w[1] = "%"         -> [Current EXCEPT !.pane = Part("Id", Tail(w))]
    [] w[1] = "@"         -> [Current EXCEPT !.window = Part("Id", Tail(w))]
    [] ~ValidName(session) -> [Current EXCEPT !.session = Wrong]
    [] OTHER -> [session |-> session, window |-> parts[1], pane |-> parts[2]]

IsWrong(t) == Wrong \in {t.session, t.window, t.pane}

(***************************************************************************)
(* The grammar of a command.                                               *)
(*   flags    what each flag takes and which slot it fills                 *)
(*   refused  flags tmux has and weave names as not supported              *)
(*   bare     what a word that is no flag is: not wanted, the one word,    *)
(*            one of many, a layout, or the start of a command line        *)
(*   dashes   whether `--` starts the command line                         *)
(*   once     slots that may be filled once                                *)
(***************************************************************************)
Row == [flags |-> <<>>, refused |-> {}, bare |-> "none", dashes |-> FALSE, once |-> {}]

Sets(flag, slot, value) == flag :> [takes |-> "nothing", slot |-> slot, as |-> value]
Takes(flag, kind, slot) == flag :> [takes |-> kind, slot |-> slot, as |-> ""]
Tagged(flag, kind, slot, tag) == flag :> [takes |-> kind, slot |-> slot, as |-> tag]
Ignored(flag) == Sets(flag, "ignored", TRUE)

\* tmux's -h and -v name how the panes sit, Split the axis that is divided.
SplitFromTmuxFlag(flag) == IF flag = "h" THEN "Vertical" ELSE "Horizontal"

AxisFlags == Sets("h", "split", SplitFromTmuxFlag("h")) @@ Sets("v", "split", SplitFromTmuxFlag("v"))
SpawnFlags == Takes("c", "value", "cwd")

SplitWindow(fixed) ==
  [Row EXCEPT !.flags = (IF fixed THEN <<>> ELSE AxisFlags) @@ Takes("t", "pane", "target") @@ SpawnFlags
                @@ Sets("d", "detached", TRUE) @@ Tagged("p", "number", "size", "Percent")
                @@ Takes("l", "size", "size"),
              !.refused = {"f", "b", "P", "F"}, !.bare = "line", !.dashes = TRUE, !.once = {"split"}]
SendKeys ==
  [Row EXCEPT !.flags = Takes("t", "pane", "target") @@ Sets("l", "literal", TRUE),
              !.refused = {"H", "R", "M", "X", "N"}, !.bare = "many", !.dashes = TRUE, !.once = {"target"}]
RespawnPane ==
  [Row EXCEPT !.flags = Takes("t", "pane", "target") @@ Sets("k", "kill", TRUE) @@ SpawnFlags,
              !.refused = {"e"}, !.bare = "line", !.dashes = TRUE]
ResizePane ==
  [Row EXCEPT !.flags = Takes("t", "pane", "target") @@ Sets("Z", "change", <<"ToggleZoom", 0>>)
                @@ Tagged("L", "count", "change", "Left") @@ Tagged("R", "count", "change", "Right")
                @@ Tagged("U", "count", "change", "Up") @@ Tagged("D", "count", "change", "Down")
                @@ Tagged("x", "number", "change", "Width") @@ Tagged("y", "number", "change", "Height"),
              !.refused = {"M"}, !.once = {"change"}]

RelativePane(how, of) == [Current EXCEPT !.pane = <<how, of>>]
SwapPane ==
  [Row EXCEPT !.flags = Takes("s", "pane", "source") @@ Takes("t", "pane", "target")
                @@ Sets("d", "keep_focus", TRUE)
                @@ Sets("U", "target", RelativePane("Previous", 0))
                @@ Sets("D", "target", RelativePane("Next", 0))]
RotateWindow ==
  [Row EXCEPT !.flags = Takes("t", "window", "target") @@ Sets("U", "reverse", TRUE)
                @@ Sets("D", "reverse", FALSE),
              !.refused = {"Z"}]

LayoutPresets == {"even-horizontal", "even-vertical", "main-vertical", "main-horizontal", "tiled"}
SelectLayout ==
  [Row EXCEPT !.flags = Takes("t", "window", "target") @@ Sets("n", "layout", <<"tiled">>),
              !.refused = {"p", "o", "E"}, !.bare = "layout"]

List(kind) ==
  [Row EXCEPT !.flags = Takes("t", kind, "target") @@ Takes("F", "value", "format") @@ Sets("a", "all", TRUE),
              !.refused = {"s", "f"}]
CapturePane ==
  [Row EXCEPT !.flags = Takes("t", "pane", "target") @@ Ignored("p")
                @@ Takes("S", "line", "start") @@ Takes("E", "line", "end"),
              !.refused = {"e", "C", "J", "N", "T", "b", "a"}]

TableFlags == Takes("T", "value", "table") @@ Sets("n", "root", TRUE)
BindKey == [Row EXCEPT !.flags = TableFlags @@ Sets("r", "repeat", TRUE), !.refused = {"N"}, !.bare = "line"]
UnbindKey == [Row EXCEPT !.flags = TableFlags @@ Sets("a", "all", TRUE), !.bare = "one"]
ListKeys == [Row EXCEPT !.flags = Takes("T", "value", "table"), !.refused = {"N", "P", "1"}]

ScopeFlags == Ignored("g") @@ Ignored("w") @@ Ignored("p") @@ Ignored("s") @@ Ignored("q")
SetOption == [Row EXCEPT !.flags = ScopeFlags @@ Ignored("a") @@ Sets("u", "unset", TRUE),
                         !.refused = {"o", "F"}, !.bare = "many"]
ShowOptions == [Row EXCEPT !.flags = ScopeFlags @@ Ignored("v") @@ Ignored("A"), !.bare = "one"]

BreakPane ==
  [Row EXCEPT !.flags = Takes("s", "pane", "source") @@ Takes("t", "window", "target")
                @@ Takes("n", "value", "window_name") @@ Sets("d", "detached", TRUE),
              !.refused = {"P", "F", "a", "b"}]
JoinPane ==
  [Row EXCEPT !.flags = Takes("s", "pane", "source") @@ Takes("t", "pane", "target") @@ AxisFlags
                @@ Sets("d", "detached", TRUE),
              !.refused = {"p", "l", "b", "f"}]
RunShell == [Row EXCEPT !.flags = Sets("b", "background", TRUE) @@ Takes("t", "value", "ignored"),
                        !.refused = {"d", "C"}, !.bare = "one"]
IfShell == [Row EXCEPT !.flags = Sets("b", "background", TRUE) @@ Takes("t", "value", "ignored"),
                       !.refused = {"F"}, !.bare = "many"]
WaitFor == [Row EXCEPT !.flags = Sets("S", "signal", TRUE), !.refused = {"L", "U"}, !.bare = "one"]

SelectPane ==
  [Row EXCEPT !.flags = Sets("L", "selector", <<"Direction", "Left">>)
                @@ Sets("R", "selector", <<"Direction", "Right">>)
                @@ Sets("U", "selector", <<"Direction", "Up">>) @@ Sets("D", "selector", <<"Direction", "Down">>)
                @@ Sets("l", "selector", <<"Last", "">>) @@ Tagged("t", "pane", "selector", "Target"),
              !.refused = {"Z", "T", "P", "g"}, !.once = {"selector"}]

WindowTarget(how) == [Current EXCEPT !.window = <<how, 0>>]
SelectWindow ==
  [Row EXCEPT !.flags = Takes("t", "window", "target") @@ Sets("n", "target", WindowTarget("Next"))
                @@ Sets("p", "target", WindowTarget("Previous")) @@ Sets("l", "target", WindowTarget("Last")),
              !.refused = {"T"}, !.once = {"target"}]
NewWindow ==
  [Row EXCEPT !.flags = Takes("t", "window", "target") @@ Takes("n", "value", "window_name") @@ SpawnFlags
                @@ Sets("d", "detached", TRUE),
              !.refused = {"a", "b", "k", "P", "F", "S"}, !.bare = "line", !.dashes = TRUE]
CommandPrompt ==
  [Row EXCEPT !.flags = Takes("p", "value", "prompt") @@ Takes("I", "value", "initial"),
              !.refused = {"1", "N", "i", "k", "W", "T", "F"}, !.bare = "one"]
RenameSession == [Row EXCEPT !.flags = Takes("t", "session", "target"), !.bare = "one"]
RenameWindow == [Row EXCEPT !.flags = Takes("t", "window", "target"), !.bare = "one"]
DisplayMessage ==
  [Row EXCEPT !.flags = Sets("p", "print", TRUE) @@ Takes("t", "pane", "target") @@ Takes("F", "value", "word"),
              !.refused = {"v", "a", "I", "N", "c", "d"}, !.bare = "one", !.once = {"target"}]
TargetOnlyWithAll(kind) ==
  [Row EXCEPT !.flags = Takes("t", kind, "target") @@ Sets("a", "all", TRUE), !.once = {"target"}]
DetachClient ==
  [Row EXCEPT !.flags = Takes("t", "value", "client") @@ Sets("a", "all", TRUE), !.refused = {"s", "P", "E"}]
SwitchClient == [Row EXCEPT !.flags = Takes("t", "session", "target"), !.refused = {"l", "n", "p"}]

(***************************************************************************)
(* Names: each command's grammar, the shorter tmux spellings, and the weave *)
(* aliases, which are a command with some of its slots already filled.      *)
(***************************************************************************)
Grammar(name) ==
  CASE name = "split-window" -> SplitWindow(FALSE)  [] name = "split" -> SplitWindow(TRUE)
    [] name = "select-pane" -> SelectPane           [] name = "select-window" -> SelectWindow
    [] name = "new-window" -> NewWindow             [] name = "kill-window" -> TargetOnlyWithAll("window")
    [] name = "rename-window" -> RenameWindow       [] name = "rename-session" -> RenameSession
    [] name = "command-prompt" -> CommandPrompt     [] name = "resize-pane" -> ResizePane
    [] name = "swap-pane" -> SwapPane               [] name = "rotate-window" -> RotateWindow
    [] name = "select-layout" -> SelectLayout       [] name = "capture-pane" -> CapturePane
    [] name = "list-panes" -> List("window")        [] name = "list-windows" -> List("session")
    [] name = "list-sessions" -> List("session")    [] name = "bind-key" -> BindKey
    [] name = "unbind-key" -> UnbindKey             [] name = "list-keys" -> ListKeys
    [] name = "set-option" -> SetOption             [] name = "show-options" -> ShowOptions
    [] name = "break-pane" -> BreakPane             [] name = "join-pane" -> JoinPane
    [] name = "run-shell" -> RunShell               [] name = "if-shell" -> IfShell
    [] name = "wait-for" -> WaitFor                 [] name = "kill-pane" -> TargetOnlyWithAll("pane")
    [] name = "detach-client" -> DetachClient       [] name = "switch-client" -> SwitchClient
    [] name = "kill-session" -> TargetOnlyWithAll("session")
    [] name = "display-message" -> DisplayMessage   [] name = "send-keys" -> SendKeys
    [] name = "respawn-pane" -> RespawnPane         [] name \in {"refresh-client", "choose-tree"} -> Row
    [] OTHER -> [Row EXCEPT !.bare = "unread"]

CommandNames ==
  {"split-window", "select-pane", "select-window", "kill-pane", "detach-client", "kill-session",
   "display-message", "send-keys", "respawn-pane", "new-window", "kill-window", "rename-window",
   "resize-pane", "swap-pane", "rotate-window", "select-layout", "capture-pane", "list-panes",
   "list-windows", "list-sessions", "bind-key", "unbind-key", "list-keys", "set-option",
   "show-options", "break-pane", "join-pane", "run-shell", "if-shell", "wait-for", "refresh-client",
   "rename-session", "command-prompt", "choose-tree", "switch-client"}

GrammarOf == [name \in CommandNames \cup {"split", "move"} |-> Grammar(name)]

Spellings ==
  ("splitw" :> "split-window") @@ ("selectp" :> "select-pane") @@ ("selectw" :> "select-window")
  @@ ("neww" :> "new-window") @@ ("killw" :> "kill-window") @@ ("renamew" :> "rename-window")
  @@ ("rename" :> "rename-session") @@ ("resizep" :> "resize-pane") @@ ("swapp" :> "swap-pane")
  @@ ("rotatew" :> "rotate-window") @@ ("selectl" :> "select-layout") @@ ("capturep" :> "capture-pane")
  @@ ("lsp" :> "list-panes") @@ ("lsw" :> "list-windows") @@ ("ls" :> "list-sessions")
  @@ ("bind" :> "bind-key") @@ ("unbind" :> "unbind-key") @@ ("lsk" :> "list-keys")
  @@ ("set" :> "set-option") @@ ("setw" :> "set-option") @@ ("set-window-option" :> "set-option")
  @@ ("show" :> "show-options") @@ ("showw" :> "show-options") @@ ("breakp" :> "break-pane")
  @@ ("joinp" :> "join-pane") @@ ("move-pane" :> "join-pane") @@ ("movep" :> "join-pane")
  @@ ("run" :> "run-shell") @@ ("if" :> "if-shell") @@ ("wait" :> "wait-for") @@ ("killp" :> "kill-pane")
  @@ ("close" :> "kill-pane") @@ ("detach" :> "detach-client") @@ ("refresh" :> "refresh-client")
  @@ ("choose-session" :> "choose-tree") @@ ("choose-window" :> "choose-tree")
  @@ ("choose" :> "choose-tree") @@ ("switchc" :> "switch-client") @@ ("quit" :> "kill-session")
  @@ ("display" :> "display-message") @@ ("send" :> "send-keys") @@ ("respawnp" :> "respawn-pane")

Toward(direction) == "target" :> RelativePane("DirectionOf", direction)
Select(direction) == "selector" :> <<"Direction", direction>>
Step(how) == "target" :> WindowTarget(how)

\* Names that already say where: <<the command, the grammar, the slots filled>>.
Fixed ==
  ("split-h" :> <<"split-window", "split", "split" :> "Horizontal">>)
  @@ ("split-v" :> <<"split-window", "split", "split" :> "Vertical">>)
  @@ ("focus-left" :> <<"select-pane", "select-pane", Select("Left")>>)
  @@ ("focus-right" :> <<"select-pane", "select-pane", Select("Right")>>)
  @@ ("focus-up" :> <<"select-pane", "select-pane", Select("Up")>>)
  @@ ("focus-down" :> <<"select-pane", "select-pane", Select("Down")>>)
  @@ ("move-left" :> <<"swap-pane", "move", Toward("Left")>>)
  @@ ("move-right" :> <<"swap-pane", "move", Toward("Right")>>)
  @@ ("move-up" :> <<"swap-pane", "move", Toward("Up")>>)
  @@ ("move-down" :> <<"swap-pane", "move", Toward("Down")>>)
  @@ [n \in {"next-window", "nextw"} |-> <<"select-window", "move", Step("Next")>>]
  @@ [n \in {"previous-window", "prevw"} |-> <<"select-window", "move", Step("Previous")>>]
  @@ ("last-window" :> <<"select-window", "move", Step("Last")>>)

\* `workspace-3` makes window 3 when there is none, as its key always has.
IsWorkspaceAlias(w) == Len(w) = 2 /\ w[1] = "workspace-" /\ w[2] \in DOMAIN Numeral
                       /\ Numeral[w[2]] \in 1 .. 9
WorkspaceSlots(w) == ("target" :> [Current EXCEPT !.window = <<"Index", Numeral[w[2]]>>])
                     @@ ("create" :> TRUE)

(***************************************************************************)
(* Reading the words of a command line, one after the other.  want is the  *)
(* flag whose value comes next.                                            *)
(***************************************************************************)
NoFlag == [takes |-> "nothing", slot |-> "", as |-> ""]
Reading(slots) == [error |-> "", slots |-> slots, words |-> <<>>, want |-> NoFlag, rest |-> FALSE]
Fails(st, error) == [st EXCEPT !.error = error]

\* A slot that may be filled once; saying the same axis twice is no conflict.
Fill(row, st, slot, value) ==
  IF slot \in row.once /\ slot \in DOMAIN st.slots /\ ~(slot = "split" /\ st.slots[slot] = value)
  THEN Fails(st, "ConflictingFlags")
  ELSE [st EXCEPT !.slots = Put(@, slot, value), !.want = NoFlag]
Tag(flag, value) == IF flag.as = "" THEN value ELSE <<flag.as, value>>

ValueError(kind, w) ==
  CASE kind \in {"pane", "window", "session"} /\ IsWrong(ParseTarget(w, kind)) -> "Target"
    [] kind = "line" /\ w # None /\ w[1] = "-"                                 -> "UnsupportedFlag"
    [] kind \in {"number", "line"} /\ ~IsSize(w)                               -> "InvalidValue"
    [] kind = "size" /\ ~IsSize(IF w # None /\ Last(w) = "%" THEN Front(w) ELSE w) -> "InvalidValue"
    [] OTHER                                                                   -> ""
ValueOf(kind, w) ==
  CASE kind \in {"pane", "window", "session"}   -> ParseTarget(w, kind)
    [] kind \in {"number", "line", "count"}     -> Number(w)
    [] kind = "size" /\ Last(w) = "%"           -> <<"Percent", Number(Front(w))>>
    [] kind = "size"                            -> <<"Cells", Number(w)>>
    [] OTHER                                    -> w

\* -t, -F and the others that take the next word, whatever it is.
NextValue(row, st, w) ==
  IF ValueError(st.want.takes, w) # "" THEN Fails(st, ValueError(st.want.takes, w))
  ELSE Fill(row, st, st.want.slot, Tag(st.want, ValueOf(st.want.takes, w)))

\* -L and the other directions: a number that follows is the count, else one cell.
OptionalCount(row, st) ==
  IF st.want.takes = "count" THEN Fill(row, st, st.want.slot, Tag(st.want, 1)) ELSE st

ReadFlag(row, st, w) ==
  LET known == Len(w) = 2 /\ w[2] \in DOMAIN row.flags
      flag == row.flags[w[2]] IN
  CASE row.dashes /\ w = <<"-", "-">>        -> [st EXCEPT !.rest = TRUE]
    [] known /\ flag.takes = "nothing"       -> Fill(row, st, flag.slot, flag.as)
    [] known                                 -> [st EXCEPT !.want = flag]
    [] Len(w) = 2 /\ w[2] \in row.refused    -> Fails(st, "UnsupportedFlag")
    [] OTHER                                 -> Fails(st, "UnknownFlag")

\* A word that is no flag.
ReadBare(row, st, w) ==
  CASE row.bare = "line" -> [st EXCEPT !.words = <<w>>, !.rest = TRUE]
    [] row.bare = "many" -> [st EXCEPT !.words = Append(@, w)]
    [] row.bare = "layout" /\ Len(w) = 1 /\ w[1] \in LayoutPresets -> Fill(row, st, "layout", w)
    [] row.bare = "layout" -> Fails(st, "InvalidValue")
    [] row.bare = "one" /\ "word" \notin DOMAIN st.slots -> Fill(row, st, "word", w)
    [] OTHER -> Fails(st, "UnexpectedArgument")

Read(row, st, w) ==
  LET counts == st.want.takes = "count" /\ IsSize(w)
      ready == OptionalCount(row, st) IN
  CASE st.error # "" \/ row.bare = "unread"                   -> st
    [] st.rest                                                -> [st EXCEPT !.words = Append(@, w)]
    [] counts \/ st.want.takes \notin {"nothing", "count"}    -> NextValue(row, st, w)
    [] ready.error # ""                                       -> ready
    [] IsFlag(w)                                              -> ReadFlag(row, ready, w)
    [] OTHER                                                  -> ReadBare(row, ready, w)

(***************************************************************************)
(* What a command must have been given, and the command itself.            *)
(***************************************************************************)
Given(st, slot) == slot \in DOMAIN st.slots
\* `-t other` names a session, though every other command reads a window there.
SwitchSession(t) == CASE t.session # None                -> t.session
                      [] t.window = None                 -> None
                      [] t.window[1] = "Name"            -> t.window[2]
                      [] t.window[1] = "Index"           -> <<ToString(t.window[2])>>
                      [] OTHER                           -> None
Unfinished(name, st) ==
  CASE name = "send-keys" /\ st.words = <<>>                              -> "MissingValue"
    [] name = "resize-pane" /\ ~Given(st, "change")                       -> "MissingValue"
    [] name = "select-layout" /\ ~Given(st, "layout")                     -> "MissingValue"
    [] name = "bind-key" /\ Len(st.words) < 2                             -> "MissingValue"
    [] name = "unbind-key" /\ ~Given(st, "word") /\ ~Given(st, "all")     -> "MissingValue"
    [] name = "set-option" /\ st.words = <<>>                             -> "MissingValue"
    [] name = "set-option" /\ Len(st.words) > 2                           -> "UnexpectedArgument"
    [] name = "if-shell" /\ Len(st.words) < 2                             -> "MissingValue"
    [] name \in {"run-shell", "wait-for", "command-prompt", "rename-session", "rename-window"}
         /\ ~Given(st, "word")                                            -> "MissingValue"
    [] name \in {"kill-window", "kill-session"} /\ Given(st, "all")       -> "UnknownFlag"
    [] name = "switch-client"
         /\ (IF Given(st, "target") THEN SwitchSession(st.slots.target) = None ELSE TRUE)
                                                                          -> "MissingValue"
    [] name = "switch-client" /\ ~ValidName(SwitchSession(st.slots.target)) -> "Target"
    [] OTHER                                                              -> ""

Refused(error) == [error |-> error, name |-> "", slots |-> <<>>, words |-> <<>>]

\* A flag still waiting for its value when the words run out.
Settle(row, st) ==
  LET done == OptionalCount(row, st) IN
  IF done.error = "" /\ done.want.takes # "nothing" THEN Fails(done, "MissingValue") ELSE done

ParseWords(name, grammar, slots, words) ==
  LET read(row) == Settle(row, Through(LAMBDA acc, w : Read(row, acc, w), Reading(slots), words))
      command(st) ==
        LET error == IF st.error # "" THEN st.error ELSE Unfinished(name, st) IN
        IF error # "" THEN Refused(error)
        ELSE [error |-> "", name |-> name, slots |-> st.slots, words |-> st.words] IN
  With(With(GrammarOf[grammar], read), command)

Parse(argv) ==
  LET first == argv[1]
      said == first[1]
      name == IF said \in DOMAIN Spellings THEN Spellings[said] ELSE said IN
  CASE argv = <<>>                              -> Refused("Empty")
    [] IsWorkspaceAlias(first)                  -> [error |-> "", name |-> "select-window",
                                                    slots |-> WorkspaceSlots(first), words |-> <<>>]
    [] Len(first) # 1                           -> Refused("UnknownCommand")
    [] said \in {"set-environment", "setenv"}   -> Refused("UnsupportedFlag")
    [] said \in DOMAIN Fixed -> ParseWords(Fixed[said][1], Fixed[said][2], Fixed[said][3], Tail(argv))
    [] name \in CommandNames -> ParseWords(name, name, <<>>, Tail(argv))
    [] OTHER                                    -> Refused("UnknownCommand")

\* A slot of a parsed command, or what leaving it out means.
Slot(command, slot, default) ==
  IF slot \in DOMAIN command.slots THEN command.slots[slot] ELSE default
Target(command) == Slot(command, "target", Current)
Source(command) == Slot(command, "source", Current)
Switched(command, slot) == Slot(command, slot, FALSE)
TableOf(command) == IF Switched(command, "root") THEN <<"root">> ELSE Slot(command, "table", <<"prefix">>)

=============================================================================
