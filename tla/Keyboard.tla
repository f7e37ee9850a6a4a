------------------------------ MODULE Keyboard ------------------------------
(***************************************************************************)
(* What a key does: the picker, the prompt, the key tables and the focused *)
(* pane, in the order in which src/src/app.rs offers it to them, and what  *)
(* changes the tables, the leader and the prefix.  Keys come from every    *)
(* terminal attached, and commands from other processes at any time.       *)
(*                                                                         *)
(* Commands stand for what they do here: "rename" opens a prompt with a    *)
(* template of its own, "ask" one whose template is the whole command,     *)
(* "choose" the picker, and "split" is any that does none of this.  A pane *)
(* is focused throughout: who that is, is the subject of `Workspaces`.     *)
(***************************************************************************)
EXTENDS Keys, Fuzzy, SequencesExt

CONSTANTS
  PressKeys,        \* the keys that are pressed
  SentNames,        \* the names that send-keys is given
  BindNames,        \* the key names that bind-key and unbind-key are given
  PrefixNames,      \* the key names that the prefix options are given
  Session,          \* this session's number, in the order of the names, and its
  Labels,           \*   labels: of itself and its windows
  PeerLabels,       \* the other sessions, by number, and theirs
  InitialName,      \* what rename's prompt starts with
  MaxKeys,          \* bound: keys pressed
  MaxRequests,      \* bound: commands from other processes, and terminals that come or go
  MaxEvents,        \* bound: keys and requests together
  MaxInput          \* bound: characters in a prompt or a query

Peers == DOMAIN PeerLabels
\* Labels whose score fits an i32, of which each character earns 20 at most.
Texts == {text \in Seq(STRING) : Len(text) <= 100000000}
Terminals == {"local", "remote"}     \* the remote one is reached over SSH
Tables == {"root", "prefix"}
Commands == {"split", "rename", "ask", "choose"}
Binding == [command : Commands, repeat : BOOLEAN]
Once(command) == [command |-> command, repeat |-> FALSE]
Again(command) == [command |-> command, repeat |-> TRUE]

ASSUME KeyboardAssumption ==
  /\ PressKeys \subseteq AllKeys
  /\ {"v", "r", ";", "c", "w"} \subseteq Characters
  /\ Session \in Nat /\ Peers \subseteq Nat \ {Session} /\ IsFiniteSet(Peers)
  /\ \A labels \in {Labels} \cup Range(PeerLabels) :
       labels # <<>> /\ labels \in Seq(Texts)
  /\ InitialName \in Seq(Characters)

VARIABLES
  tables,     \* keymap.tables
  leader,     \* keymap.leader
  prefixes,   \* keymap.prefix
  keyTable,   \* key_table
  options,    \* prefix, prefix2, nested-prefix and nested-keys
  terminals,  \* clients: the terminals attached; a local run has none
  nestedEnv,  \* nested_env: the server's own terminal is reached over SSH
  window,     \* current_workspace
  picker,     \* the picker, if one is up
  epoch,      \* picker_epoch
  asked,      \* the tasks that wait for a peer, with the epoch they report under
  prompt,     \* the prompt, if one is open
  message,    \* whether the status line shows a message
  enhanced,   \* whether the focused pane asked for unambiguous keys
  sent,       \* history: what was last written to the pane
  chords,     \* history: the default chords that nobody has bound or unbound
  keys, requests  \* bounds

vars == <<tables, leader, prefixes, keyTable, options, terminals, nestedEnv, window,
          picker, epoch, asked, prompt, message, enhanced, sent, chords, keys, requests>>
keymap == <<tables, leader, prefixes, options, chords>>
overlays == <<picker, epoch, asked, prompt>>

NoPicker == [none |-> TRUE]
NoPrompt == [none |-> TRUE]
Nothing == [by |-> "nobody"]

-----------------------------------------------------------------------------
(* Tables, leader and prefix *)

\* Defaults, one for each kind of command that the tables hold.
DefaultChords == [ch \in {"v", "r", ";"} |->
                    CASE ch = "v" -> "split" [] ch = "r" -> "rename" [] ch = ";" -> "choose"]
RootDefaults == [key \in {Key(ch, {Alt}) : ch \in DOMAIN DefaultChords} |->
                   Once(DefaultChords[key.code])]
PrefixDefaults == [key \in {Key("c", {}), Key("w", {}), Key("Left", {Ctrl})} |->
                     CASE key.code = "c" -> Once("split") [] key.code = "w" -> Once("choose")
                       [] key.code = "Left" -> Again("split")]

Empty == [pre |-> <<>>, rest |-> ""]
ControlName(ch) == [pre |-> <<"C-">>, rest |-> ch]
DefaultOptions == [prefix |-> ControlName("b"), prefix2 |-> Empty,
                   nestedPrefix |-> ControlName("a"), nestedKeys |-> "auto"]

WantsNested(opts, attached) ==
  CASE opts.nestedKeys = "on" -> TRUE
    [] opts.nestedKeys = "off" -> FALSE
    [] OTHER -> IF attached = {} THEN nestedEnv ELSE "remote" \in attached

LeaderFor(opts, attached) == IF WantsNested(opts, attached) THEN "CtrlAlt" ELSE "Alt"

\* refresh_prefix: names that are no keys are dropped.
PrefixFor(opts, ldr) ==
  LET names == IF opts.nestedPrefix # Empty /\ ldr = "CtrlAlt" THEN {opts.nestedPrefix}
               ELSE {opts.prefix, opts.prefix2} \ {Empty}
  IN {ParseBindingKey(name) : name \in names} \ {NoKey}

\* Mutant: the prefix is worked out before the leader has moved.
RefreshNestingEarly(opts, attached) ==
  LET to == LeaderFor(opts, attached)
  IN /\ leader' = to
     /\ IF to = leader THEN UNCHANGED <<tables, message>>
        ELSE /\ \E root \in MovedTables(tables["root"], leader, to) :
                  tables' = [tables EXCEPT !["root"] = root]
             /\ message' = TRUE
     /\ prefixes' = PrefixFor(opts, leader)

\* refresh_nesting, over options and terminals as they are going to be.
RefreshNesting(opts, attached) ==
  LET to == LeaderFor(opts, attached)
  IN /\ leader' = to
     /\ IF to = leader THEN UNCHANGED <<tables, message>>
        ELSE /\ \E root \in MovedTables(tables["root"], leader, to) :
                  tables' = [tables EXCEPT !["root"] = root]
             /\ message' = TRUE
     /\ prefixes' = PrefixFor(opts, to)

-----------------------------------------------------------------------------
(* The picker *)

\* local_picker_rows and peer_picker_rows: a row for the session, then one for
\* each window.  A peer that cannot be reached, or refuses, has no windows.
SessionRow(s, label, here) ==
  [session |-> s, window |-> 0, label |-> label, current |-> here, local |-> here]
WindowRow(s, w, label, current, here) ==
  [session |-> s, window |-> w, label |-> label, current |-> current, local |-> here]
LocalPickerRows ==
  <<SessionRow(Session, Head(Labels), TRUE)>>
    \o [w \in DOMAIN Tail(Labels) |-> WindowRow(Session, w, Labels[w + 1], w = window, TRUE)]
PeerPickerRows(s, reached) ==
  <<SessionRow(s, Head(PeerLabels[s]), FALSE)>>
    \o (IF reached
        THEN [w \in DOMAIN Tail(PeerLabels[s]) |-> WindowRow(s, w, PeerLabels[s][w + 1], FALSE, FALSE)]
        ELSE <<>>)

PickerTime == 2      \* PICKER_TWEEN_DURATION, in ticks

\* refilter's order: score, then session, then window, and the order of arrival.
Before(a, b) == \E n \in 1 .. 4 : a[n] < b[n] /\ \A m \in 1 .. n - 1 : a[m] = b[m]

Found(rows, query) == {i \in DOMAIN rows : Matches(query, rows[i].label)}
Ranked(rows, query) ==
  LET found == Found(rows, query)
      rank == [i \in found |->
                 <<-Score(query, rows[i].label), rows[i].session, rows[i].window, i>>]
      place == [i \in found |-> Cardinality({j \in found : Before(rank[j], rank[i])})]
  IN [n \in 1 .. Cardinality(found) |-> CHOOSE i \in found : place[i] = n - 1]

\* Mutant: the selection stays where it was in the old list.
RefilteredInPlace(p) == [p EXCEPT !.shown = Ranked(p.rows, p.query)]

Refiltered(p) == [p EXCEPT !.shown = Ranked(p.rows, p.query), !.selected = 1]

HasSelection(p) == p.selected \in DOMAIN p.shown
Selection(p) == p.rows[p.shown[p.selected]]

NewPicker(rows) ==
  LET p == Refiltered([rows |-> rows, query |-> <<>>, cursor |-> 0, shown |-> <<>>,
                       selected |-> 1, closing |-> FALSE, left |-> 0])
      here == {i \in DOMAIN p.shown : rows[p.shown[i]].current /\ rows[p.shown[i]].window # 0}
  IN IF here = {} THEN p ELSE [p EXCEPT !.selected = Min(here)]

\* Mutant: the selection goes back to the top.
ExtendedFromTop(p, rows) == Refiltered([p EXCEPT !.rows = @ \o rows])

\* extend: rows turn up, and the selection stays on the row it was on.
Extended(p, rows) ==
  LET q == Refiltered([p EXCEPT !.rows = @ \o rows])
      same == {i \in DOMAIN q.shown : HasSelection(p) /\ q.rows[q.shown[i]] = Selection(p)}
  IN IF same = {} THEN q ELSE [q EXCEPT !.selected = Min(same)]

MoveSelection(p, by) ==
  IF p.shown = <<>> THEN p
  ELSE [p EXCEPT !.selected = ((@ - 1 + by) % Len(p.shown)) + 1]

Closed(p) == IF p.closing THEN p ELSE [p EXCEPT !.closing = TRUE, !.left = PickerTime]

\* The line that is typed, in a picker or a prompt.
Typed(s, at, ch) == SubSeq(s, 1, at) \o <<ch>> \o SubSeq(s, at + 1, Len(s))
Cut(s, i) == SubSeq(s, 1, i - 1) \o SubSeq(s, i + 1, Len(s))
Edited(line, key) ==
  LET s == line.text
      at == line.cursor
  IN CASE key.code = "u" /\ Ctrl \in key.mods -> [text |-> <<>>, cursor |-> 0]
       [] key.code = "Backspace" ->
            IF at > 0 THEN [text |-> Cut(s, at), cursor |-> at - 1] ELSE line
       [] key.code = "Delete" ->
            IF at < Len(s) THEN [line EXCEPT !.text = Cut(s, at + 1)] ELSE line
       [] key.code = "Left" -> [line EXCEPT !.cursor = IF at = 0 THEN 0 ELSE at - 1]
       [] key.code = "Right" -> [line EXCEPT !.cursor = Min({at + 1, Len(s)})]
       [] key.code = "Home" -> [line EXCEPT !.cursor = 0]
       [] key.code = "End" -> [line EXCEPT !.cursor = Len(s)]
       [] key.code \in Characters /\ Ctrl \notin key.mods ->
            [text |-> Typed(s, at, key.code), cursor |-> at + 1]
       [] OTHER -> line

Cancels(key) == key.code = "Esc" \/ (key.code \in {"c", "g"} /\ Ctrl \in key.mods)
Down(key) == key.code \in {"Down", "Tab"} \/ (key.code \in {"n", "j"} /\ Ctrl \in key.mods)
Up(key) == key.code \in {"Up", "BackTab"} \/ (key.code \in {"p", "k"} /\ Ctrl \in key.mods)

\* A key that leaves the query alone leaves the selection alone, too; C-u does not.
PickerAfter(p, key) ==
  LET line == Edited([text |-> p.query, cursor |-> p.cursor], key)
      q == [p EXCEPT !.query = line.text, !.cursor = line.cursor]
  IN CASE key.code = "Enter" \/ Cancels(key) -> Closed(p)
       [] Down(key) -> MoveSelection(p, 1)
       [] Up(key) -> MoveSelection(p, -1)
       [] OTHER -> IF line.text # p.query \/ (key.code = "u" /\ Ctrl \in key.mods)
                   THEN Refiltered(q) ELSE q

TakesKeys(p) == p # NoPicker /\ ~p.closing
-----------------------------------------------------------------------------
(* Running a command *)

OpenPicker ==
  /\ picker' = NewPicker(LocalPickerRows)
  /\ epoch' = epoch + 1
  /\ asked' = asked \cup {[epoch |-> epoch + 1, session |-> s] : s \in Peers}

OpenPrompt(template) ==
  prompt' = [text |-> IF template = "rename" THEN InitialName ELSE <<>>,
             cursor |-> IF template = "rename" THEN Len(InitialName) ELSE 0,
             template |-> template]

\* `open` is the prompt that the command would find.
Run(command, open) ==
  CASE command = "choose" -> OpenPicker /\ prompt' = open
    [] command \in {"rename", "ask"} -> OpenPrompt(command) /\ UNCHANGED <<picker, epoch, asked>>
    [] OTHER -> prompt' = open /\ UNCHANGED <<picker, epoch, asked>>

Write(by, key, bytes) ==
  sent' = IF bytes = None THEN sent
          ELSE [by |-> by, key |-> key, bytes |-> bytes]

-----------------------------------------------------------------------------
Init ==
  /\ nestedEnv \in BOOLEAN
  /\ tables \in {[t \in Tables |-> IF t = "root" THEN root ELSE PrefixDefaults] :
                   root \in IF nestedEnv THEN MovedTables(RootDefaults, "Alt", "CtrlAlt")
                            ELSE {RootDefaults}}
  /\ options = DefaultOptions
  /\ leader = LeaderFor(options, {})
  /\ prefixes = PrefixFor(options, leader)
  /\ keyTable = "root"
  /\ terminals = {}
  /\ window = 1
  /\ picker = NoPicker /\ epoch = 0 /\ asked = {}
  /\ prompt = NoPrompt
  /\ message = nestedEnv
  /\ enhanced = FALSE
  /\ sent = Nothing
  /\ chords = DOMAIN DefaultChords
  /\ keys = 0 /\ requests = 0

Press ==
  /\ keys < MaxKeys /\ keys + requests < MaxEvents
  /\ keys' = keys + 1 /\ UNCHANGED <<requests, nestedEnv, options, enhanced>>

\* All terminals go, and there must be one.
SwitchClients ==
  /\ terminals' = {}
  /\ IF terminals = {}
     THEN message' = TRUE /\ UNCHANGED <<tables, leader, prefixes>>
     ELSE RefreshNesting(options, {})

\* handle_picker_key and activate_picker_row.
PickerTakes(key) ==
  /\ Press
  /\ TakesKeys(picker)
  /\ LET p == PickerAfter(picker, key)
         jump == key.code = "Enter" /\ HasSelection(picker)
         row == Selection(picker)
     IN /\ Len(p.query) <= MaxInput
        /\ picker' = p
        /\ IF ~jump \/ (row.local /\ row.window = 0)
           THEN UNCHANGED <<window, terminals, tables, leader, prefixes, message>>
           ELSE IF row.local
           THEN window' = row.window /\ UNCHANGED <<terminals, tables, leader, prefixes, message>>
           ELSE SwitchClients /\ UNCHANGED window
  /\ UNCHANGED <<keyTable, epoch, asked, prompt, sent, chords>>

\* handle_prompt_key and run_prompt_template.
PromptTakes(key) ==
  /\ Press
  /\ ~TakesKeys(picker) /\ prompt # NoPrompt
  /\ LET line == Edited([text |-> prompt.text, cursor |-> prompt.cursor], key)
     IN IF Cancels(key)
        THEN prompt' = NoPrompt /\ UNCHANGED <<picker, epoch, asked, message>>
        ELSE IF key.code # "Enter"
        THEN /\ Len(line.text) <= MaxInput + Len(InitialName)
             /\ prompt' = [prompt EXCEPT !.text = line.text, !.cursor = line.cursor]
             /\ UNCHANGED <<picker, epoch, asked, message>>
        ELSE IF prompt.text = <<>>
        THEN prompt' = NoPrompt /\ UNCHANGED <<picker, epoch, asked, message>>
        ELSE IF prompt.template = "rename"
        THEN Run("split", NoPrompt) /\ UNCHANGED message
        \* What was typed is a command, or it does not parse.
        ELSE \/ \E command \in Commands : Run(command, NoPrompt) /\ UNCHANGED message
             \/ prompt' = NoPrompt /\ message' = TRUE /\ UNCHANGED <<picker, epoch, asked>>
  /\ UNCHANGED <<tables, leader, prefixes, keyTable, terminals, window, sent, chords>>

Free == ~TakesKeys(picker) /\ prompt = NoPrompt

\* handle_key_binding: the key after a prefix is taken whatever it is, and a
\* repeating binding waits for another.
PrefixTakes(key) ==
  /\ Press
  /\ Free /\ keyTable = "prefix"
  /\ LET bound == tables["prefix"]
     IN IF key \in DOMAIN bound
        THEN /\ keyTable' = IF bound[key].repeat THEN "prefix" ELSE "root"
             /\ Run(bound[key].command, NoPrompt)
        ELSE keyTable' = "root" /\ UNCHANGED overlays
  /\ UNCHANGED <<tables, leader, prefixes, terminals, window, message, sent, chords>>

ArmsPrefix(key) ==
  /\ Press
  /\ Free /\ keyTable = "root" /\ key \in prefixes
  /\ keyTable' = "prefix"
  /\ UNCHANGED <<tables, leader, prefixes, terminals, window, overlays, message, sent, chords>>

RunsChord(key) ==
  /\ Press
  /\ Free /\ keyTable = "root" /\ key \notin prefixes
  /\ key \in DOMAIN tables["root"]
  /\ Run(tables["root"][key].command, NoPrompt)
  /\ UNCHANGED <<tables, leader, prefixes, keyTable, terminals, window, message, sent, chords>>

ReachesPane(key) ==
  /\ Press
  /\ Free /\ keyTable = "root" /\ key \notin prefixes \cup DOMAIN tables["root"]
  /\ Write("key", key, Encode(key, enhanced))
  /\ UNCHANGED <<tables, leader, prefixes, keyTable, terminals, window, overlays, message, chords>>

\* Of another process, or a terminal that comes or goes.
Request ==
  /\ requests < MaxRequests /\ keys + requests < MaxEvents
  /\ requests' = requests + 1 /\ UNCHANGED <<keys, nestedEnv>>

RunCommand(command) ==
  /\ Request
  /\ Run(command, prompt)
  /\ UNCHANGED <<keymap, keyTable, terminals, window, message, enhanced, sent>>

SendKeys(name) ==
  /\ Request
  /\ LET key == ParseKeyName(name)
     IN /\ key # NoKey       \* otherwise it is text, and sent as it is
        /\ Write("send-keys", key, Encode(key, enhanced))
  /\ UNCHANGED <<keymap, keyTable, terminals, window, overlays, message, enhanced>>

\* What the user has bound or unbound is no default chord any more, in either
\* place that the leader can put it.
Disowned(t, codes) == chords' = IF t = "root" THEN chords \ codes ELSE chords

BindKey(t, name, command, repeat) ==
  /\ Request
  /\ LET key == ParseBindingKey(name)
     IN /\ key # NoKey
        /\ tables' = [tables EXCEPT ![t] =
                        [k \in DOMAIN @ \cup {key} |->
                           IF k = key THEN [command |-> command, repeat |-> repeat] ELSE @[k]]]
        /\ Disowned(t, {key.code})
  /\ UNCHANGED <<leader, prefixes, options, keyTable, terminals, window, overlays, message,
                 enhanced, sent>>

Unbind(t, gone) ==
  /\ tables' = [tables EXCEPT ![t] = [k \in DOMAIN @ \ gone |-> @[k]]]
  /\ Disowned(t, {k.code : k \in gone})
  /\ UNCHANGED <<leader, prefixes, options, keyTable, terminals, window, overlays, message,
                 enhanced, sent>>

UnbindKey(t, name) ==
  /\ Request
  /\ ParseBindingKey(name) \in DOMAIN tables[t]
  /\ Unbind(t, {ParseBindingKey(name)})

UnbindAll(t) == Request /\ Unbind(t, DOMAIN tables[t])

SetPrefix(option, name) ==
  /\ Request
  /\ options' = [options EXCEPT ![option] = name]
  /\ prefixes' = PrefixFor(options', leader)
  /\ UNCHANGED <<tables, leader, keyTable, terminals, window, overlays, message, enhanced, sent,
                 chords>>

SetNestedKeys(value) ==
  /\ Request
  /\ options' = [options EXCEPT !.nestedKeys = value]
  /\ RefreshNesting(options', terminals)
  /\ UNCHANGED <<keyTable, terminals, window, overlays, enhanced, sent, chords>>

Attach(t) ==
  /\ Request
  /\ t \notin terminals
  /\ terminals' = terminals \cup {t}
  /\ RefreshNesting(options, terminals')
  /\ UNCHANGED <<options, keyTable, window, overlays, enhanced, sent, chords>>

\* Keys of its that are still queued are handled afterwards all the same.
Leave(t) ==
  /\ Request
  /\ t \in terminals
  /\ terminals' = terminals \ {t}
  /\ RefreshNesting(options, terminals')
  /\ UNCHANGED <<options, keyTable, window, overlays, enhanced, sent, chords>>

\* The program in the pane pushes or pops keyboard flags.
Negotiate ==
  /\ Request
  /\ enhanced' = ~enhanced
  /\ UNCHANGED <<keymap, keyTable, terminals, window, overlays, message, sent>>

\* Mutant: rows that an earlier picker asked for are taken, too.
LatePeerAnswers ==
  \E task \in asked, reached \in BOOLEAN :
    LET rows == PeerPickerRows(task.session, reached)
    IN /\ asked' = asked \ {task}
       /\ picker' = IF TakesKeys(picker) THEN Extended(picker, rows) ELSE picker
       /\ UNCHANGED <<keymap, keyTable, terminals, nestedEnv, window, epoch, prompt, message,
                      enhanced, sent, keys, requests>>

\* add_picker_rows.  A peer that cannot be reached has one row, for itself.
PeerAnswers ==
  \E task \in asked, reached \in BOOLEAN :
    LET rows == PeerPickerRows(task.session, reached)
    IN /\ asked' = asked \ {task}
       /\ picker' = IF task.epoch = epoch /\ TakesKeys(picker) THEN Extended(picker, rows)
                    ELSE picker
       /\ UNCHANGED <<keymap, keyTable, terminals, nestedEnv, window, epoch, prompt, message,
                      enhanced, sent, keys, requests>>

\* advance_animations and advance_message: a message has its time, and a
\* picker that closes is dropped.
Tick ==
  /\ (picker # NoPicker /\ picker.closing) \/ message
  /\ picker' = IF picker = NoPicker \/ ~picker.closing THEN picker
               ELSE IF picker.left = 1 THEN NoPicker ELSE [picker EXCEPT !.left = @ - 1]
  /\ message' \in {FALSE, message}
  /\ UNCHANGED <<keymap, keyTable, terminals, nestedEnv, window, epoch, asked, prompt,
                 enhanced, sent, keys, requests>>

Next ==
  \/ \E key \in PressKeys :
       PickerTakes(key) \/ PromptTakes(key) \/ PrefixTakes(key) \/ ArmsPrefix(key)
         \/ RunsChord(key) \/ ReachesPane(key)
  \/ \E command \in Commands : RunCommand(command)
  \/ \E name \in SentNames : SendKeys(name)
  \/ \E t \in Tables, name \in BindNames, command \in {"split"}, repeat \in BOOLEAN :
       BindKey(t, name, command, repeat)
  \/ \E t \in Tables, name \in BindNames : UnbindKey(t, name)
  \/ \E t \in Tables : UnbindAll(t)
  \/ \E option \in {"prefix", "prefix2", "nestedPrefix"}, name \in PrefixNames :
       SetPrefix(option, name)
  \/ \E value \in {"auto", "on", "off"} : SetNestedKeys(value)
  \/ \E t \in Terminals : Attach(t) \/ Leave(t)
  \/ Negotiate
  \/ PeerAnswers
  \/ Tick

Spec == Init /\ [][Next]_vars

-----------------------------------------------------------------------------
(* Properties *)

\* The state has its type; cursors stay within their lines and the selection
\* within the rows that are shown.
TypeOK ==
  /\ \A t \in Tables : DOMAIN tables[t] \subseteq AllKeys /\ Range(tables[t]) \subseteq Binding
  /\ leader \in Leaders /\ prefixes \subseteq AllKeys /\ keyTable \in Tables
  /\ terminals \subseteq Terminals /\ nestedEnv \in BOOLEAN
  /\ picker # NoPicker =>
       /\ picker.cursor \in 0 .. Len(picker.query)
       /\ HasSelection(picker) \/ (picker.selected = 1 /\ picker.shown = <<>>)
       /\ picker.closing <=> picker.left > 0
  /\ prompt # NoPrompt => prompt.cursor \in 0 .. Len(prompt.text)
  /\ message \in BOOLEAN /\ enhanced \in BOOLEAN /\ chords \subseteq DOMAIN DefaultChords

\* Wherever terminals and options have taken the leader, it and the prefix are
\* the ones that those call for, and every default chord that nobody rebound is
\* on it, and not in its other place (keymap.rs set_leader, app.rs
\* refresh_nesting): half a config must not become unreachable.
ChordsReachable ==
  /\ leader = LeaderFor(options, terminals)
  /\ prefixes = PrefixFor(options, leader)
  /\ \A ch \in chords :
       LET key == Key(ch, ModifierSet(leader))
       IN /\ key \in DOMAIN tables["root"]
          /\ tables["root"][key] = Once(DefaultChords[ch])
          /\ leader = "CtrlAlt" => Key(ch, {Alt}) \notin DOMAIN tables["root"]

\* The picker shows each row of its own opening once, those that match the
\* query and no others, and ranks them by the best way to find it in them
\* (picker/mod.rs refilter and extend, app.rs add_picker_rows).
PickerShowsBest ==
  TakesKeys(picker) =>
    /\ IsInjective(picker.rows)
    /\ \A i \in DOMAIN picker.rows : FindsBest(picker.query, picker.rows[i].label)
    /\ IsInjective(picker.shown)
    /\ Range(picker.shown) =
         {i \in DOMAIN picker.rows : BestScores(picker.query, picker.rows[i].label) # {}}
    /\ \A i, j \in DOMAIN picker.shown :
         i < j => Score(picker.query, picker.rows[picker.shown[i]].label)
                    >= Score(picker.query, picker.rows[picker.shown[j]].label)

\* Rows that turn up late do not move the selection to another row: Enter
\* pressed in the same instant must not jump somewhere else (picker/mod.rs extend).
PickerKeepsRow ==
  [][TakesKeys(picker) /\ TakesKeys(picker') /\ epoch' = epoch /\ picker'.rows # picker.rows
       /\ HasSelection(picker) =>
     HasSelection(picker') /\ Selection(picker') = Selection(picker)]_vars

\* A program that asked for the protocol reads the key that was pressed, but for
\* what `Lost` and `CaseLost` name; one that did not may also read Tab for C-i
\* and Enter for C-m, and loses the Ctrl of anything else that is no letter
\* (input/mod.rs encode_with, encode_char).  A key that reaches it has not also
\* edited a line, run a command or armed the prefix.
KeysArrive ==
  [][sent' # sent =>
       LET read == Read(sent'.bytes)
       IN /\ Faithful(sent'.key, read, enhanced) \/ (~enhanced /\ Confused(sent'.key, read))
          /\ UNCHANGED <<keyTable, picker, prompt>>]_vars
=============================================================================
