----------------------------- MODULE MCKeyboard -----------------------------
(***************************************************************************)
(* Keys, names and sessions for TLC: a window row that a greedy search     *)
(* would rank wrongly, and keys of every way to be encoded.                *)
(***************************************************************************)
EXTENDS Keyboard

MCLetters == {"a", "b", "c", "d", "i", "r", "u", "v", "w", "D"}
MCSymbols == {";", "1", " "}
MCUpper == {"D"}
MCLowerOf == "D" :> "d"

Name(pre, rest) == [pre |-> pre, rest |-> rest]
MCPressKeys ==
  {Key("d", {}), Key("v", {Alt}), Key(";", {Ctrl, Alt}), Key(";", {Alt}), Key("b", {Ctrl}),
   Key("a", {Ctrl}), Key("c", {Ctrl}), Key("1", {Ctrl}), Key("u", {Ctrl}),
   Key("D", {Ctrl, Super}), Key("i", {Ctrl, Alt}),
   Key("Enter", {}), Key("Tab", {}), Key("Down", {}), Key("Left", {Ctrl}), Key("Backspace", {Shift}),
   Key("Delete", {}), Key("w", {}), Key("F13", {})}
MCSentNames == {Name(<<"M-", "^">>, "v"), Name(<<>>, "escape"), Name(<<"S-">>, "f5")}
MCBindNames == {Name(<<"M-">>, "v"), Name(<<"C-", "alt-">>, "v"), Name(<<>>, "c")}
MCPrefixNames == {Name(<<"ctrl-">>, "a"), Name(<<>>, "word"), Name(<<>>, "")}

MCSession == 1
MCLabels == <<<<"a">>, <<"a", "-", "b", "d">>, <<"a", "d", "-", "d">>>>
MCPeerLabels == 0 :> <<<<"D">>, <<"D", ":", "d", "v">>>>
MCInitialName == <<"a">>
=============================================================================
