---------------------------- MODULE MCCommands ----------------------------
(***************************************************************************)
(* Command lines for TLC: one caller gives any of them, another comes      *)
(* between and a third may signal, in sessions to which various things have *)
(* happened: panes that close, a window called logs, one that was killed,  *)
(* and one whose focus is a pane that is gone.                             *)
(***************************************************************************)
EXTENDS Commands

MCSession == <<"dev">>
MCChild == ("a" :> "x") @@ ("b" :> "y") @@ ("c" :> "z")
T == <<"-", "t">>
Of(number) == <<"%", number>>
L(name) == <<<<name>>>>

MCPasts ==
  { <<<<<<"neww">>, <<"-", "n">>, <<"logs">>>>, L("split-v"), <<<<"selectw">>, T, <<"1">>>>,
      L("split-v"), L("split-v"), <<<<"kill-pane">>, T, Of("1")>>>>,
    <<<<<<"neww">>, <<"-", "d">>, T, <<":", "3">>>>, L("neww"), L("killw"),
      L("split-v"), <<<<"kill-pane">>, T, Of("1")>>, <<<<"selectp">>, T, Of("1")>>, <<<<"selectw">>, T, <<"3">>>>>> }

\* Lines that look at the session or change it.
Acting ==
  { <<<<"kill-pane">>, T, Of("2")>>, <<<<"kill-pane">>, T, <<"logs", ".", "1">>>>,
    <<<<"kill-pane">>, <<"-", "a">>, T, Of("1")>>, L("close"),
    <<<<"split-v">>, <<"-", "d">>, T, <<"dev", ":", "2", ".", "0">>>>, L("split-v"),
    <<<<"neww">>, T, <<":", "2">>>>, <<<<"neww">>, <<"-", "d">>, <<"-", "n">>, <<"logs">>>>,
    L("next-window"), <<<<"workspace-", "3">>>>, <<<<"selectw">>, T, <<"{end}">>>>, L("last-window"),
    <<<<"killw">>, T, <<":", "2">>>>, <<<<"killw">>, T, <<"logs">>>>,
    <<<<"joinp">>, <<"-", "h">>, T, <<":", "1">>>>, <<<<"joinp">>, <<"-", "h">>, <<"-", "s">>, <<":", "1", ".", "0">>, T, <<":", "2", ".", "1">>>>,
    <<<<"breakp">>, <<"-", "n">>, <<"logs">>>>, <<<<"breakp">>, <<"-", "d">>, <<"-", "s">>, <<":", "1", ".", "1">>>>,
    <<<<"renamew">>, T, <<"{end}">>, <<"logs">>>>, <<<<"rotatew">>, T, <<":", "3">>>>,
    <<<<"selectp">>, T, <<"+">>>>, <<<<"selectp">>, <<"-", "l">>>>, L("focus-left"), <<<<"selectp">>, T, <<"%", "3">>>>,
    L("move-right"), <<<<"swapp">>, <<"-", "d">>, <<"-", "s">>, <<"{left}">>, T, <<"{right}">>>>,
    <<<<"resizep">>, <<"-", "L">>, T, <<":", "2", ".">>>>, <<<<"send">>, <<"x">>>>,
    <<<<"capturep">>, <<"-", "S">>, <<"3">>, <<"-", "E">>, <<"1">>>>,
    <<<<"display">>, <<"-", "p">>, <<"#S">>>>, <<<<"display">>, T, Of("2"), <<"#{==:}">>>>,
    <<<<"display">>, <<"#{?window_active,yes,#{}">>>>,
    L("lsp"), <<<<"lsp">>, <<"-", "a">>, T, <<"other", ":">>, <<"-", "F">>, <<"#D">>>>,
    <<<<"lsp">>, T, <<"other", ":">>>>, L("lsw"), <<<<"ls">>, <<"-", "F">>, <<"#{">>>>,
    <<<<"set">>, <<"target-fps">>, <<"0">>>>, <<<<"set">>, <<"status">>, <<"off">>>>, <<<<"set">>, <<"oops">>>>,
    <<<<"show">>, <<"status">>>>, <<<<"show">>, <<"oops">>>>,
    <<<<"if">>, <<"test">>, <<"kill-pane", " ", "-", "t", " ", "%", "2">>, <<"neww">>>>,
    <<<<"if">>, <<"test">>, <<"wait", " ", "done">>>>, L("kill-session"), <<<<"quit">>, T, <<"other", ":">>>>,
    <<<<"kill-pane">>, <<"-", "x">>>> }

\* Lines that wait, and the scripts that do.
Waiting ==
  { <<<<"wait">>, <<"done">>>>, <<<<"wait">>, <<"-", "S">>, <<"done">>>>,
    <<<<"run">>, <<"make">>>>, <<<<"run">>, <<"split">>>>, <<<<"run">>, <<"-", "b">>, <<"signal">>>>,
    <<<<"run">>, <<"wait">>>>, <<<<"run">>, <<"oops">>>> }
MCScriptLine ==
  (<<"split">> :> L("split-v")) @@ (<<"signal">> :> <<<<"wait">>, <<"-", "S">>, <<"done">>>>)
  @@ (<<"wait">> :> <<<<"wait">>, <<"done">>>>) @@ (<<"oops">> :> L("oops"))
Between ==
  { L("next-window"), <<<<"wait">>, <<"done">>>>, <<<<"wait">>, <<"-", "S">>, <<"done">>>>, <<<<"run">>, <<"split">>>> }
Signalling == { <<<<"wait">>, <<"-", "S">>, <<"done">>>> }
MCLines == ("a" :> Acting \cup Waiting) @@ ("b" :> Between) @@ ("c" :> Signalling)

YesText == <<<<"text", <<"yes">>>>>>
MCBranches == {YesText, <<<<"open", "">>>>, <<<<"text", <<" (active)">>>>>>, <<>>}
MCTemplateOf ==
  (<<"#S">> :> <<<<"name", "S">>>>) @@ (<<"#D">> :> <<<<"name", "D">>>>)
  @@ (<<"#{==:}">> :> <<<<"operator", "==:">>>>) @@ (<<"#{">> :> <<<<"open", "">>>>)
  @@ (<<"#{?window_active,yes,#{}">> :> <<<<"if", "window_active", YesText, <<<<"open", "">>>>>>>>)
=============================================================================
