--------------------------- MODULE Configuration ---------------------------
(***************************************************************************)
(* Reading the configuration: src/src/config/mod.rs and tmux_conf.rs.      *)
(*                                                                         *)
(* The TOML comes first, all of it or nothing.  Then weave.conf and what it*)
(* sources is read line by line into one list, and the list is applied.    *)
(* A file is a sequence of lines and a line a sequence of pieces: blanks,  *)
(* quotes, backslashes and hashes, and the runs of text between them.      *)
(***************************************************************************)
EXTENDS Options, FiniteSets

CONSTANTS
  Inputs,        \* what there may be: <<config.toml, weave.conf and the files beside it>>
  ConfPath,      \* where weave.conf is, and Home: a path is a sequence of names
  Home,
  Letters, Symbols

K == INSTANCE Keys WITH Upper <- {}, LowerOf <- <<>>

\* The rate of config.toml is a u16.
ASSUME InputsAssumption ==
  \A input \in Inputs :
    "target_fps" \in DOMAIN input[1].numbers => input[1].numbers["target_fps"] \in 0 .. MaxU16

VARIABLES
  toml, files,   \* the files there are
  phase,         \* "toml", "open", "read", "apply" or "done"
  open,          \* the files being read, the sourced one last
  lines,         \* what has been read: [file, number, words]
  applied,       \* how many lines have been applied
  config,        \* Config
  diagnostics    \* where each complaint came from
loadVars == <<toml, files, phase, open, lines, applied, config, diagnostics>>

MaxSourceDepth == 8

(***************************************************************************)
(* Settings                                                                *)
(***************************************************************************)
ThemeSlots == {"border_focused", "border_unfocused", "status_fg", "status_bg", "status_segment",
               "status_session", "accent", "agent_working", "agent_waiting", "agent_idle"}
Preset(name) == [slot \in ThemeSlots |-> <<name, slot>>]
PresetNamed(w) == IF w = <<"tokyonight">> THEN "tokyonight" ELSE "nord"

HexColors == {"ff0000", "00ff00"}
ColorNames == {"red", "blue", "cyan"}
IsHex(w) == Len(w) = 2 /\ w[1] = "#" /\ w[2] \in HexColors
ColorOrCyan(w) == IF IsHex(w) \/ (Len(w) = 1 /\ w[1] \in ColorNames) THEN w ELSE <<"cyan">>

DefaultFps == 160
NormalizeFps(fps) == CASE fps < 30 -> 30 [] fps > 240 -> 240 [] OTHER -> fps

\* A key's name is its modifiers and then the key.
IsModifier(piece) == piece \in {"C-", "^", "ctrl-", "M-", "alt-", "S-"}
ParseKey(w) ==
  IF w # None /\ (\A i \in 1 .. Len(w) - 1 : IsModifier(w[i]))
  THEN K!ParseBindingKey([pre |-> Front(w), rest |-> Last(w)]) ELSE K!NoKey

\* The one or two keys of the prefix, as the options name them.
PrefixKeys(options) ==
  LET named(option) == IF ParseKey(Get(options, option)) = K!NoKey THEN <<>>
                       ELSE <<ParseKey(Get(options, option))>> IN
  named("prefix") \o named("prefix2")

Binding(command, again) == [command |-> command, repeat |-> again]
Once(words) == Binding(Parse(words), FALSE)
DefaultLines ==
  (<<"root">> :> ((K!Key("h", {K!Alt}) :> <<<<"select-pane">>, <<"-", "L">>>>)
                  @@ (K!Key("v", {K!Alt}) :> <<<<"split-h">>>>)))
  @@ (<<"prefix">> :> ((K!Key("x", {}) :> <<<<"kill-pane">>>>) @@ (K!Key("n", {}) :> <<<<"next-window">>>>)))
DefaultTables ==
  [table \in DOMAIN DefaultLines |->
     [key \in DOMAIN DefaultLines[table] |-> Once(DefaultLines[table][key])]]

DefaultConfig ==
  [options |-> NoneSet, tables |-> DefaultTables, prefix |-> PrefixKeys(NoneSet),
   ui |-> [border_color |-> <<"cyan">>, status_bar |-> TRUE, pane_titles |-> FALSE, target_fps |-> DefaultFps],
   theme |-> Preset("nord")]

Bindings(cfg, table) == IF table \in DOMAIN cfg.tables THEN cfg.tables[table] ELSE <<>>
\* Mutant: a key that is bound keeps its binding.
BindFirst(cfg, table, key, binding) ==
  [cfg EXCEPT !.tables = Put(@, table, Bindings(cfg, table) @@ (key :> binding))]

Bind(cfg, table, key, binding) ==
  [cfg EXCEPT !.tables = Put(@, table, Put(Bindings(cfg, table), key, binding))]
Unbind(cfg, table, key) ==
  LET rest == DOMAIN Bindings(cfg, table) \ {key} IN
  IF table \in DOMAIN cfg.tables
  THEN [cfg EXCEPT !.tables[table] = [k \in rest |-> cfg.tables[table][k]]] ELSE cfg
UnbindAll(cfg, table) ==
  [cfg EXCEPT !.tables = [t \in DOMAIN @ \ {table} |-> cfg.tables[t]]]

(***************************************************************************)
(* config.toml                                                             *)
(***************************************************************************)
\* `Alt+s`: one modifier at most, and a name that starts with f is a function key.
TomlModifier == [m \in {"Ctrl", "ctrl", "control"} |-> K!Ctrl] @@ [m \in {"Alt", "alt"} |-> K!Alt]
TomlKey(w) ==
  LET name == Last(w) IN
  CASE name \in {"space", "esc", "escape"} -> K!Named(name)
    [] name \in {"f1", "f5"}               -> K!Named(name)
    [] name \in K!Characters \ {"f"}       -> name
    [] OTHER                               -> "none"
ParseTomlKey(w) ==
  CASE TomlKey(w) = "none"                                               -> K!NoKey
    [] Len(w) = 1                                                        -> K!Key(TomlKey(w), {})
    [] Len(w) = 3 /\ w[2] = "+" /\ w[1] \in DOMAIN TomlModifier -> K!Key(TomlKey(w), {TomlModifier[w[1]]})
    [] OTHER                                                             -> K!NoKey

\* One key or command that cannot be read costs the whole file.
Readable(raw) ==
  \A w \in DOMAIN raw.bindings :
    ParseTomlKey(w) # K!NoKey /\ Parse(SplitWhitespace(raw.bindings[w])).error = ""

\* Two spellings of one key come in the order of a hash map.
BoundBy(raw, cfg) ==
  LET keys == { ParseTomlKey(w) : w \in DOMAIN raw.bindings }
      choices == { f \in [keys -> DOMAIN raw.bindings] : \A key \in keys : ParseTomlKey(f[key]) = key } IN
  { [cfg EXCEPT !.tables[<<"root">>] =
       [key \in keys |-> Once(SplitWhitespace(raw.bindings[f[key]]))] @@ @] : f \in choices }

Setting(settings, name, else) == IF name \in DOMAIN settings THEN settings[name] ELSE else
Ui(raw) ==
  [border_color |-> ColorOrCyan(Setting(raw.colors, "border_color", <<"cyan">>)),
   status_bar |-> Setting(raw.flags, "status_bar", TRUE), pane_titles |-> Setting(raw.flags, "pane_titles", FALSE),
   target_fps |-> NormalizeFps(Setting(raw.numbers, "target_fps", DefaultFps))]

\* The border colour is the focused border's too, and a theme's own colour goes over it.
Theme(raw) ==
  LET preset == Preset(PresetNamed(Setting(raw.colors, "preset", <<"nord">>)))
      framed == IF "border_color" \in DOMAIN raw.colors
                THEN [preset EXCEPT !["border_focused"] = ColorOrCyan(raw.colors["border_color"])] ELSE preset IN
  [slot \in ThemeSlots |->
     CASE slot \notin DOMAIN raw.colors -> framed[slot]
       [] IsHex(raw.colors[slot])        -> raw.colors[slot]
       [] OTHER                          -> preset[slot]]

\* status_powerline is the one setting that becomes an option.
Powerline(raw) ==
  IF "status_powerline" \in DOMAIN raw.flags
  THEN Put(NoneSet, "status-powerline", IF raw.flags["status_powerline"] THEN <<"on">> ELSE <<"off">>)
  ELSE NoneSet

\* No file is an empty file, and one that cannot be read leaves the defaults.
FromRaw(raw, default) ==
  IF ~Readable(raw) THEN {default}
  ELSE BoundBy(raw, [default EXCEPT !.ui = Ui(raw), !.theme = Theme(raw), !.options = Powerline(raw)])

(***************************************************************************)
(* weave.conf: the words of a line                                         *)
(***************************************************************************)
Start == [words |-> <<>>, word |-> None, has_word |-> FALSE, quote |-> "", escaped |-> FALSE, comment |-> FALSE]
Adds(st, ch) == [st EXCEPT !.word = Append(@, ch), !.has_word = TRUE, !.escaped = FALSE]
EndsWord(st) ==
  IF st.has_word THEN [st EXCEPT !.words = Append(@, st.word), !.word = None, !.has_word = FALSE] ELSE st

\* A hash starts a comment where a word would start, and only there.
Reads(st, ch) ==
  CASE st.comment                                      -> st
    [] st.escaped                                      -> Adds(st, ch)
    [] ch = "#" /\ st.quote = "" /\ ~st.has_word       -> [st EXCEPT !.comment = TRUE]
    [] ch = "\\"                                       -> [st EXCEPT !.escaped = TRUE]
    [] ch \in {"'", "\""} /\ st.quote = ""             -> [st EXCEPT !.quote = ch, !.has_word = TRUE]
    [] ch = st.quote                                   -> [st EXCEPT !.quote = ""]
    [] ch = " " /\ st.quote = ""                       -> EndsWord(st)
    [] OTHER                                           -> Adds(st, ch)
SplitWords(line) ==
  LET st == Through(Reads, Start, line) IN
  [ok |-> st.quote = "" /\ ~st.escaped, words |-> EndsWord(st).words]

Sources(words) == words[1] \in {<<"source">>, <<"source-file">>}

\* A sourced path is relative to the file that names it.
ResolveRelative(parent, w) ==
  LET names == SelectSeq(w, LAMBDA piece : piece \notin {"/", "~/"}) IN
  CASE w # None /\ w[1] = "~/" -> Home \o names
    [] w # None /\ w[1] = "/"  -> names
    [] OTHER                   -> Front(parent) \o names

(***************************************************************************)
(* weave.conf: reading.  A file that is open has the line it is at and the *)
(* paths of that line still to be sourced.                                 *)
(***************************************************************************)
Opened(path) == [path |-> path, at |-> 0, pending |-> <<>>]
Top == open[Len(open)]
SetTop(file) == [open EXCEPT ![Len(open)] = file]

\* One file that cannot be read ends the load, and whatever was read before goes.
Abort(complaints) ==
  /\ lines' = <<>> /\ open' = <<>> /\ phase' = "apply"
  /\ diagnostics' = diagnostics \o complaints
Quietly == Abort(<<>>)

OpenFile(path, under) ==
  CASE Len(under) > MaxSourceDepth -> Abort(<<<<path, 0>>>>)
    [] Len(under) <= MaxSourceDepth /\ path \notin DOMAIN files -> Quietly
    [] OTHER -> open' = Append(under, Opened(path)) /\ UNCHANGED <<lines, phase, diagnostics>>

LoadInit ==
  /\ \E input \in Inputs : toml = input[1] /\ files = input[2]
  /\ phase = "toml" /\ open = <<>> /\ lines = <<>> /\ applied = 0
  /\ config = DefaultConfig /\ diagnostics = <<>>

LoadToml ==
  /\ phase = "toml"
  /\ config' \in FromRaw(toml, config)
  /\ phase' = "open"
  /\ UNCHANGED <<toml, files, open, lines, applied, diagnostics>>

OpenConf ==
  /\ phase = "open"
  /\ IF ConfPath \in DOMAIN files
     THEN open' = <<Opened(ConfPath)>> /\ phase' = "read" /\ UNCHANGED <<lines, diagnostics>>
     ELSE Quietly
  /\ UNCHANGED <<toml, files, applied, config>>

SourceFile ==
  /\ phase = "read" /\ Top.pending # <<>>
  /\ OpenFile(ResolveRelative(Top.path, Head(Top.pending)), SetTop([Top EXCEPT !.pending = Tail(@)]))
  /\ UNCHANGED <<toml, files, applied, config>>

\* Mutant: a line with nothing on it is not passed.
ReadLineAgain ==
  /\ phase = "read" /\ Top.pending = <<>> /\ Top.at < Len(files[Top.path])
  /\ LET number == Top.at + 1
         split == SplitWords(files[Top.path][number])
         read == [Top EXCEPT !.at = number] IN
     CASE ~split.ok -> Abort(<<<<Top.path, number>>>>)
       [] split.ok /\ split.words = <<>> -> UNCHANGED <<open, lines, phase, diagnostics>>
       [] split.ok /\ split.words # <<>> /\ Sources(split.words) ->
            /\ open' = SetTop([read EXCEPT !.pending = Tail(split.words)])
            /\ UNCHANGED <<lines, phase, diagnostics>>
       [] OTHER ->
            /\ lines' = Append(lines, [file |-> Top.path, number |-> number, words |-> split.words])
            /\ open' = SetTop(read) /\ UNCHANGED <<phase, diagnostics>>
  /\ UNCHANGED <<toml, files, applied, config>>

ReadLine ==
  /\ phase = "read" /\ Top.pending = <<>> /\ Top.at < Len(files[Top.path])
  /\ LET number == Top.at + 1
         split == SplitWords(files[Top.path][number])
         read == [Top EXCEPT !.at = number] IN
     CASE ~split.ok -> Abort(<<<<Top.path, number>>>>)
       [] split.ok /\ split.words = <<>> ->
            open' = SetTop(read) /\ UNCHANGED <<lines, phase, diagnostics>>
       [] split.ok /\ split.words # <<>> /\ Sources(split.words) ->
            /\ open' = SetTop([read EXCEPT !.pending = Tail(split.words)])
            /\ UNCHANGED <<lines, phase, diagnostics>>
       [] OTHER ->
            /\ lines' = Append(lines, [file |-> Top.path, number |-> number, words |-> split.words])
            /\ open' = SetTop(read) /\ UNCHANGED <<phase, diagnostics>>
  /\ UNCHANGED <<toml, files, applied, config>>

CloseFile ==
  /\ phase = "read" /\ Top.pending = <<>> /\ Top.at = Len(files[Top.path])
  /\ open' = Front(open)
  /\ phase' = IF Len(open) = 1 THEN "apply" ELSE "read"
  /\ UNCHANGED <<toml, files, lines, applied, config, diagnostics>>

(***************************************************************************)
(* weave.conf: applying the lines that were read.                          *)
(***************************************************************************)
\* Mutant: a second prefix is stored and not used.
ApplyOptionFirst(cfg, name) ==
  CASE name = "prefix"              -> [cfg EXCEPT !.prefix = PrefixKeys(cfg.options)]
    [] name = "status"              -> [cfg EXCEPT !.ui.status_bar = Flag(cfg.options, name)]
    [] name = "pane-border-status"  -> [cfg EXCEPT !.ui.pane_titles = Flag(cfg.options, name)]
    [] OTHER                        -> cfg

\* What reads an option here and now; the rest is read when the session starts.
ApplyOption(cfg, name) ==
  CASE name \in {"prefix", "prefix2"} -> [cfg EXCEPT !.prefix = PrefixKeys(cfg.options)]
    [] name = "status"               -> [cfg EXCEPT !.ui.status_bar = Flag(cfg.options, name)]
    [] name = "pane-border-status"   -> [cfg EXCEPT !.ui.pane_titles = Flag(cfg.options, name)]
    [] name = "target-fps"           ->
         LET fps == Number(Get(cfg.options, name)) IN
         [cfg EXCEPT !.ui.target_fps = NormalizeFps(IF fps <= MaxU16 THEN fps ELSE DefaultFps)]
    [] OTHER                         -> cfg
SetAndApply(cfg, command) ==
  ApplyOption([cfg EXCEPT !.options = Set(@, command)], OptionName(command)[1])

Line == lines[applied + 1]
Answer(complains) ==
  /\ diagnostics' = IF complains THEN Append(diagnostics, <<Line.file, Line.number>>) ELSE diagnostics
  /\ applied' = applied + 1
  /\ UNCHANGED <<toml, files, phase, open, lines>>

\* An option that does nothing is stored, and complained of.
ApplySetOption(command) ==
  /\ command.name = "set-option"
  /\ config' = IF Settable(command) THEN SetAndApply(config, command) ELSE config
  /\ Answer(~Settable(command) \/ OptionName(command)[1] \in Inert)

BindLine(command) == Tail(command.words)
Bindable(command) == ParseKey(command.words[1]) # K!NoKey /\ Parse(BindLine(command)).error = ""
ApplyBindKey(command) ==
  /\ command.name = "bind-key"
  /\ \E key \in {ParseKey(command.words[1])}, bound \in {Parse(BindLine(command))} :
       LET bindable == key # K!NoKey /\ bound.error = "" IN
       /\ config' = IF bindable
                    THEN Bind(config, TableOf(command), key, Binding(bound, Switched(command, "repeat")))
                    ELSE config
       /\ Answer(~bindable)

ApplyUnbindKey(command) ==
  /\ command.name = "unbind-key"
  /\ LET key == ParseKey(Slot(command, "word", None)) IN
     /\ config' = CASE Switched(command, "all") -> UnbindAll(config, TableOf(command))
                    [] ~Switched(command, "all") /\ key # K!NoKey -> Unbind(config, TableOf(command), key)
                    [] OTHER -> config
     /\ Answer(~Switched(command, "all") /\ key = K!NoKey)

\* Every other command needs a session, and what is no command is refused too.
RefuseLine(command) ==
  /\ command.name \notin {"set-option", "bind-key", "unbind-key"}
  /\ Answer(TRUE) /\ UNCHANGED config

ApplyLine ==
  /\ phase = "apply" /\ applied < Len(lines)
  /\ \E command \in {Parse(Line.words)} :
       \/ ApplySetOption(command) \/ ApplyBindKey(command)
       \/ ApplyUnbindKey(command) \/ RefuseLine(command)

Finish ==
  /\ phase = "apply" /\ applied = Len(lines)
  /\ phase' = "done" /\ UNCHANGED <<toml, files, open, lines, applied, config, diagnostics>>

LoadNext ==
  \/ LoadToml \/ OpenConf \/ SourceFile \/ ReadLine \/ CloseFile
  \/ ApplyLine \/ Finish
LoadSpec == LoadInit /\ [][LoadNext]_loadVars
\* One function call: it goes on as long as it can.
FairLoad == LoadSpec /\ WF_loadVars(LoadNext)

(***************************************************************************)
(* Properties                                                              *)
(***************************************************************************)
\* What a setting that is copied out of the options says is what the option
\* says, from the moment a line sets it (config/mod.rs apply_option): the prefix
\* is both prefix options, in order, and frames come at a rate that is allowed.
SettingsAgree ==
  LET says(option) == option \in DOMAIN config.options IN
  /\ says("status") => config.ui.status_bar = Flag(config.options, "status")
  /\ says("pane-border-status") => config.ui.pane_titles = Flag(config.options, "pane-border-status")
  /\ config.ui.target_fps \in 30 .. 240
  /\ \A i \in DOMAIN config.prefix :
       \E option \in {"prefix", "prefix2"} : ParseKey(Get(config.options, option)) = config.prefix[i]
  /\ Len(config.prefix) = Cardinality({ option \in {"prefix", "prefix2"} :
                                        ParseKey(Get(config.options, option)) # K!NoKey })

\* Reading ends, whatever sources whatever (tmux_conf.rs load_into): a file that
\* sources itself, or two that source each other, must not keep weave from starting.
LoadEnds == <>(phase = "done")
=============================================================================
