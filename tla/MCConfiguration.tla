-------------------------- MODULE MCConfiguration --------------------------
(***************************************************************************)
(* Configuration files for TLC.  Every line alone, every pair of the lines *)
(* that matter to each other, and files that source one another.           *)
(***************************************************************************)
EXTENDS ConfigurationLines

MCLetters == {"a", "b", "f", "h", "n", "v", "x"}
MCSymbols == {"#", "-", ";", "1", " "}
MCHome == <<"home">>
MCConfPath == <<"home", "config", "weave.conf">>
Beside(name) == <<"home", "config", name>>
Below(name) == <<"home", "config", "sub", name>>

\* A line of plain words, and a word written so that any piece survives.
Written(words) == FlattenSeq([i \in DOMAIN words |-> <<" ">> \o words[i]])
Quoted(word) ==
  <<"\"">> \o FlattenSeq([i \in DOMAIN word |-> IF word[i] \in {"\"", "\\"} THEN <<"\\", word[i]>> ELSE <<word[i]>>])
  \o <<"\"">>

\* Quoting any words and splitting the line gives them back (split_words).
Pieces == {"x", " ", "#", "'", "\"", "\\"}
SomeWords == UNION { [1 .. n -> Pieces] : n \in 0 .. 2 }
ASSUME QuotingKeepsWords ==
  \A first, second \in SomeWords :
    SplitWords(Quoted(first) \o <<" ">> \o Quoted(second)) = [ok |-> TRUE, words |-> <<first, second>>]

Opt == <<"-", "g">>
Setting1(name, value) == Written(<<<<"set">>, Opt, <<name>>, value>>)
Lines ==
  { Setting1("status", <<"off">>), Setting1("status", <<"yes">>), Setting1("status", <<"maybe">>),
    Setting1("prefix", <<"C-", "a">>), Setting1("prefix2", <<"M-", "x">>), Setting1("prefix", <<"oops">>),
    Setting1("target-fps", <<"8">>), Setting1("target-fps", <<"500">>), Setting1("target-fps", <<"70000">>),
    Setting1("mouse", <<"on">>), Setting1("nested-keys", <<"AUTO">>), Setting1("no-such-option", <<"1">>),
    Written(<<<<"setw">>, <<"-", "u">>, <<"target-fps">>>>),
    Written(<<<<"set">>, <<"pane-border-status">>>>),
    Written(<<<<"bind">>, <<"-", "n">>, <<"M-", "h">>, <<"move-right">>>>),
    Written(<<<<"bind">>, <<"-", "r">>, <<"-">>, <<"resize-pane">>, <<"-", "L">>, <<"2">>>>),
    Written(<<<<"bind-key">>, <<"-", "T">>, <<"root">>, <<"M-", "h">>, <<"kill-pane">>>>),
    Written(<<<<"bind">>, <<"x">>, <<"no-such-command">>>>),
    Written(<<<<"bind">>, <<"oops">>, <<"kill-pane">>>>),
    <<"bind", " ", "'", "#", "'", " ", "choose", " ", "#", "comment">>,
    Written(<<<<"unbind">>, <<"-", "n">>, <<"M-", "h">>>>), Written(<<<<"unbind">>, <<"x">>>>),
    Written(<<<<"unbind">>, <<"-", "a">>>>), Written(<<<<"unbind">>, <<"oops">>>>),
    Written(<<<<"setenv">>, <<"x">>, <<"1">>>>), <<"#", "comment">>, <<>>,
    Written(<<<<"no-such-command">>>>) }

\* One of every other command, as it may stand in a file that was copied: each
\* needs a session, or is refused for a flag, a target or a word too many.
Foreign ==
  { Written(words) : words \in
    { <<<<"split-window">>, <<"-", "h">>, <<"-", "p">>, <<"40">>, <<"top">>>>,
      <<<<"split-window">>, <<"-", "h">>, <<"-", "v">>>>, <<<<"split-window">>, <<"-", "p">>, <<"-5">>>>,
      <<<<"splitw">>, <<"-", "l">>, <<"40", "%">>, <<"-", "-">>, <<"top">>, <<"-", "d">>>>,
      <<<<"split-v">>, <<"-", "t">>, <<"dev", ":", "1", ".", "%", "2">>>>,
      <<<<"selectp">>, <<"-", "t">>, <<"{nowhere}">>>>, <<<<"selectp">>, <<"-", "L">>, <<"-", "R">>>>,
      <<<<"select-pane">>, <<"-", "t">>, <<"{left-of}">>>>, <<<<"selectw">>, <<"-", "t">>, <<"{end}">>>>,
      <<<<"selectw">>, <<"-", "n">>, <<"-", "p">>>>, <<<<"workspace-", "3">>>>, <<<<"workspace-", "0">>>>,
      <<<<"neww">>, <<"-", "n">>, <<"logs">>, <<"top">>, <<"-", "d">>>>, <<<<"neww">>, <<"-", "k">>>>,
      <<<<"killw">>, <<"-", "a">>>>, <<<<"kill-pane">>, <<"-", "a">>, <<"-", "t">>, <<"%", "2">>>>,
      <<<<"renamew">>>>, <<<<"rename">>, <<"-", "t">>, <<"dev", ":">>, <<"work">>>>,
      <<<<"resizep">>, <<"-", "L">>, <<"-", "Z">>>>, <<<<"resizep">>>>,
      <<<<"resizep">>, <<"-", "x">>, <<"70000">>>>, <<<<"swapp">>, <<"-", "U">>, <<"-", "d">>>>,
      <<<<"rotatew">>, <<"-", "D">>>>, <<<<"selectl">>, <<"tiled">>>>, <<<<"selectl">>, <<"round">>>>,
      <<<<"selectl">>, <<"-", "p">>>>, <<<<"capturep">>, <<"-", "S">>, <<"-", "5">>>>,
      <<<<"lsp">>, <<"-", "a">>, <<"-", "F">>, <<"#D">>>>, <<<<"lsw">>, <<"-", "t">>, <<".", "dev">>>>,
      <<<<"ls">>, <<"extra">>>>, <<<<"lsk">>, <<"-", "T">>>>, <<<<"show">>, <<"-", "g">>, <<"status">>>>,
      <<<<"breakp">>, <<"-", "d">>, <<"-", "t">>, <<"@", "2">>>>,
      <<<<"joinp">>, <<"-", "h">>, <<"-", "s">>, <<"+">>>>, <<<<"run">>, <<"-", "b">>, <<"make">>>>,
      <<<<"if">>, <<"true">>>>, <<<<"if">>, <<"-", "b">>, <<"true">>, <<"close">>>>,
      <<<<"wait">>, <<"-", "S">>, <<"done">>>>, <<<<"wait">>, <<"-", "L">>, <<"done">>>>,
      <<<<"detach">>, <<"-", "a">>>>, <<<<"switchc">>>>, <<<<"switchc">>, <<"-", "t">>, <<"!">>>>,
      <<<<"switchc">>, <<"-", "t">>, <<"dev">>>>, <<<<"quit">>, <<"-", "a">>>>,
      <<<<"display">>, <<"-", "p">>, <<"#S">>>>, <<<<"send">>, <<"-", "t">>, <<"%", "2">>>>,
      <<<<"send">>, <<"-", "l">>, <<"make">>, <<"-", "-">>, <<"-", "x">>>>,
      <<<<"respawnp">>, <<"-", "k">>>>, <<<<"respawnp">>, <<"-", "z">>>>, <<<<"refresh">>, <<"x">>>>,
      <<<<"choose">>>>, <<<<"command-prompt">>, <<"-", "I">>, <<"#W">>, <<"x">>>>,
      <<<<"focus-left">>>>, <<<<"next-window">>, <<"extra">>>>, <<<<"-", "x">>>>, <<<<"kill", "pane">>>>,
      <<<<"selectp">>, <<"-", "Z">>>>, <<<<"selectp">>, <<"-", "t">>>>, <<<<"rotatew">>, <<"-", "q">>>> } }
Broken == { <<"bind", " ", "x", " ", "'", "oops">>, <<"set", " ", "status", " ", "\\">> }

Holding(content) == MCConfPath :> content
Sourcing(w) == Written(<<<<"source">>, w>>)
Two(w, v) == Written(<<<<"source-file">>, w, v>>)

\* What is sourced, in place, from below and from home; missing, and in circles.
Nested ==
  { Holding(<<a, Sourcing(<<"sub", "/", "more">>), b>>)
      @@ (Below("more") :> <<c, Sourcing(<<"more">>), Sourcing(<<"~/", "rest">>)>>)
      @@ (<<"home", "rest">> :> <<b>>) :
        a, b, c \in {Setting1("status", <<"off">>), Setting1("status", <<"yes">>)} }
  \cup
  { Holding(<<a, Two(<<"more">>, <<"/", "home", "rest">>), b>>) @@ (Beside("more") :> <<c>>)
      @@ (<<"home", "rest">> :> <<d>>) :
        a, b, c, d \in {Setting1("status", <<"off">>), Setting1("status", <<"yes">>),
                        Written(<<<<"bind">>, <<"x">>, <<"close">>>>), Written(<<<<"unbind">>, <<"-", "a">>>>)} }
  \cup
  { Holding(<<a, Sourcing(<<"weave.conf">>)>>) : a \in {<<>>, Setting1("status", <<"off">>)} }
  \cup
  { Holding(<<a, Sourcing(<<"more">>)>>) @@ (Beside("more") :> <<Sourcing(<<"weave.conf">>), a>>) :
        a \in {Setting1("status", <<"off">>), Written(<<<<"unbind">>, <<"-", "a">>>>)} }
  \cup
  { Holding(<<a, Sourcing(<<"missing">>), a>>) : a \in {<<>>, Setting1("status", <<"off">>)} }
  \cup
  { Holding(<<a, b>>) : a \in Broken, b \in Lines } \cup { Holding(<<b, a>>) : a \in Broken, b \in Lines }

NoToml == [bindings |-> <<>>, colors |-> <<>>, flags |-> <<>>, numbers |-> <<>>]
SomeTomls ==
  {NoToml,
   [NoToml EXCEPT !.bindings = (<<"Alt", "+", "v">> :> <<"kill-pane", " ">>) @@ (<<"alt", "+", "v">> :> <<"split-h">>)],
   [NoToml EXCEPT !.bindings = <<"Ctrl", "+", "f">> :> <<"kill-pane">>],
   [NoToml EXCEPT !.bindings = <<"space">> :> <<"close", " ", "-", "t">>],
   [NoToml EXCEPT !.bindings = <<"Ctrl", "+", "f5">> :> <<"close", " ", "-", "a">>],
   [NoToml EXCEPT !.colors = ("preset" :> <<"tokyonight">>) @@ ("border_color" :> <<"red">>)
                             @@ ("accent" :> <<"#", "ff0000">>) @@ ("border_focused" :> <<"red">>)],
   [NoToml EXCEPT !.flags = [f \in {"status_bar", "pane_titles", "status_powerline"} |-> FALSE],
                  !.numbers = "target_fps" :> 8],
   [NoToml EXCEPT !.flags = "status_powerline" :> TRUE, !.numbers = "target_fps" :> 500,
                  !.colors = "border_color" :> <<"mauve">>]}

MCInputs ==
  { <<t, Holding(<<a>>)>> : t \in SomeTomls, a \in Lines } \cup { <<t, <<>>>> : t \in SomeTomls }
  \cup { <<NoToml, Holding(<<a>>)>> : a \in Foreign }
  \cup { <<NoToml, Holding(<<a, b>>)>> : a, b \in Lines } \cup { <<NoToml, f>> : f \in Nested }
=============================================================================
