------------------------- MODULE ConfigurationLines -------------------------
(***************************************************************************)
(* What a configuration says when it is read as one text, every sourced    *)
(* file in its place, against what loading it line by line has made of it. *)
(***************************************************************************)
EXTENDS Configuration

\* The words of a file and of all it sources, in the order they are written.
RECURSIVE WordsOf(_)
WordsOf(path) ==
  LET of(words) ==
        CASE words = <<>>    -> <<>>
          [] words # <<>> /\ Sources(words) ->
               FlattenSeq([i \in 1 .. Len(words) - 1 |-> WordsOf(ResolveRelative(path, words[i + 1]))])
          [] OTHER           -> <<words>> IN
  FlattenSeq([i \in DOMAIN files[path] |-> of(SplitWords(files[path][i]).words)])

\* Whether all of it can be read: every quote closed, no backslash at the end of
\* a line, every sourced file there, and none sourced too deep.
RECURSIVE Whole(_, _)
Whole(path, depth) ==
  /\ depth <= MaxSourceDepth /\ path \in DOMAIN files
  /\ \A i \in DOMAIN files[path] :
       \A split \in {SplitWords(files[path][i])} :
         /\ split.ok
         /\ split.words # <<>> /\ Sources(split.words) =>
              \A target \in Range(Tail(split.words)) :
                Whole(ResolveRelative(path, target), depth + 1)

LastOf(S) == CHOOSE n \in S : \A m \in S : m <= n

\* The commands of a file, by the option that they set or the key they are about.
SetLines(command, name) ==
  { i \in DOMAIN command : /\ command[i].name = "set-option" /\ OptionName(command[i]) = <<name>>
                           /\ Settable(command[i]) }
BindLines(command, table, key) ==
  { i \in DOMAIN command : /\ command[i].name = "bind-key" /\ TableOf(command[i]) = table
                           /\ ParseKey(command[i].words[1]) = key /\ Bindable(command[i]) }
UnbindLines(command, table, key) ==
  { i \in DOMAIN command : /\ command[i].name = "unbind-key" /\ TableOf(command[i]) = table
                           /\ \/ Switched(command[i], "all")
                              \/ ParseKey(Slot(command[i], "word", None)) = key }
KeysNamed(command) ==
  { <<TableOf(command[i]), ParseKey(command[i].words[1])>> :
      i \in { j \in DOMAIN command : command[j].name = "bind-key" /\ Bindable(command[j]) } }
  \cup
  { <<TableOf(command[i]), ParseKey(Slot(command[i], "word", None))>> :
      i \in { j \in DOMAIN command : command[j].name = "unbind-key" /\ ~Switched(command[j], "all") } }

OptionsAsWritten(command) ==
  \A name \in Known : \A by \in {SetLines(command, name)} :
    by # {} => Get(config.options, name) = Normalize(name, Wanted(command[LastOf(by)]))
KeysAsWritten(command) ==
  \A at \in { named \in KeysNamed(command) : named[2] # K!NoKey } :
    \A binds \in {BindLines(command, at[1], at[2])}, unbinds \in {UnbindLines(command, at[1], at[2])} :
      \A last \in {LastOf(binds \cup unbinds)} :
        IF last \in unbinds THEN at[2] \notin DOMAIN Bindings(config, at[1])
        ELSE Bindings(config, at[1])[at[2]] =
               Binding(Parse(BindLine(command[last])), Switched(command[last], "repeat"))

\* Once everything is read, an option has the value, and a key the command, that
\* the last line that speaks of it gives it, sourced lines counting where they are
\* sourced (config/mod.rs load, tmux_conf.rs load_into): a command that runs later
\* is the one that took effect, and one that is no use takes nothing with it.  But
\* one line that cannot be split, or one file that is not there, takes all the
\* others with it: then the settings are those of config.toml alone.
LastLineWins ==
  phase = "done" =>
    IF Whole(ConfPath, 0)
    THEN \A written \in {WordsOf(ConfPath)} :
           \A command \in {[i \in DOMAIN written |-> Parse(written[i])]} :
             OptionsAsWritten(command) /\ KeysAsWritten(command)
    ELSE config \in FromRaw(toml, DefaultConfig)
=============================================================================
