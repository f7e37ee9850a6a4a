--------------------------- MODULE CommandsClaims ---------------------------
(***************************************************************************)
(* What a comment of src/src/app.rs says about commands, stated as a       *)
(* property of module Commands.  The code does otherwise: see the findings *)
(* in the README.                                                          *)
(***************************************************************************)
EXTENDS MCCommands

Mistyped ==
  { <<<<"set">>, <<"target-fps">>, <<"0">>>>, <<<<"set">>, <<"target-fps">>, <<"many">>>>,
    <<<<"capturep">>, <<"-", "S">>, <<"3">>, <<"-", "E">>, <<"1">>>>, <<<<"kill-pane">>, T, Of("9")>>,
    <<<<"display">>, <<"#{">>>>, <<<<"selectw">>, T, <<"nowhere">>>> }
MistypedLines == ("a" :> Mistyped) @@ ("b" :> Between) @@ ("c" :> {})

\* app.rs:2098, of a command that cannot be carried out: "A typo in a script
\* must never kill a user's panes."  The test at app.rs:8492 says it again: "a
\* typo in a script cannot be allowed to take panes down with it".  A session
\* that panics takes them all down.
TypoKeepsPanes == session.exit # "Panicked"
=============================================================================
