-------------------------------- MODULE Keys --------------------------------
(***************************************************************************)
(* Keys: how they are named, how they are sent to the program in a pane,   *)
(* and how the chords of the root table move with the leader.              *)
(* src/src/input/keys.rs, mod.rs and keymap.rs.                            *)
(*                                                                         *)
(* A key is a code and a set of modifiers.  A code is a character, as a    *)
(* string of one, or the name of a key.  What is sent is the shape of the  *)
(* escape sequence with what it carries: keys that are sent as the same    *)
(* bytes are sent as the same shape here, and are read back as one key.    *)
(***************************************************************************)
EXTENDS Integers, FiniteSets, Sequences, TLC, LetterCase

CONSTANTS Letters, Symbols     \* the characters there are; Letters are those of ASCII

Characters == Letters \cup Symbols
Arrows == {"Up", "Down", "Left", "Right"}
Editing == {"Enter", "Tab", "Backspace"}
Keypad == {"PageUp", "PageDown", "Insert", "Delete"}
Functions12 == {"F1", "F4", "F5", "F12"}
Unencodable == {"F13", "Media"}      \* what has no sequence: encode_with says None
Codes == Characters \cup Arrows \cup Editing \cup Keypad \cup Functions12 \cup Unencodable
           \cup {"Esc", "BackTab", "Home", "End"}

ASSUME KeysAssumption ==
  /\ " " \in Symbols
  /\ Characters \cap (Arrows \cup Editing \cup Keypad \cup Functions12 \cup Unencodable
                        \cup {"Esc", "BackTab", "Home", "End", "none"}) = {}
  /\ \A ch \in Letters : Fold(ch) \in Letters

Ctrl == "C"  Alt == "M"  Shift == "S"  Super == "D"
Modifiers == {Ctrl, Alt, Shift, Super}
Key(code, mods) == [code |-> code, mods |-> mods]
AllKeys == [code : Codes, mods : SUBSET Modifiers]

-----------------------------------------------------------------------------
(* Names *)

ModifierOf(spelling) ==
  CASE spelling \in {"C-", "^", "ctrl-"} -> Ctrl
    [] spelling \in {"M-", "alt-"} -> Alt
    [] OTHER -> Shift

\* The code that a name stands for, whatever the case it is written in.
Named(rest) ==
  CASE rest \in {"enter", "return"} -> "Enter"      [] rest \in {"escape", "esc"} -> "Esc"
    [] rest = "tab" -> "Tab"                        [] rest \in {"btab", "backtab"} -> "BackTab"
    [] rest \in {"bspace", "backspace"} -> "Backspace"
    [] rest = "up" -> "Up"     [] rest = "down" -> "Down"
    [] rest = "left" -> "Left" [] rest = "right" -> "Right"
    [] rest = "home" -> "Home" [] rest = "end" -> "End"
    [] rest \in {"ppage", "pageup", "pgup"} -> "PageUp"
    [] rest \in {"npage", "pagedown", "pgdn"} -> "PageDown"
    [] rest \in {"ic", "insert"} -> "Insert"        [] rest \in {"dc", "delete", "del"} -> "Delete"
    [] rest = "space" -> " "
    [] rest = "f1" -> "F1" [] rest = "f4" -> "F4" [] rest = "f5" -> "F5" [] rest = "f12" -> "F12"
    [] OTHER -> "none"

NoKey == [code |-> "none", mods |-> {}]

\* parse_key_name: a bare character is text, not a key, unless a modifier asks.
ParseKeyName(name) ==
  LET mods == {ModifierOf(name.pre[i]) : i \in DOMAIN name.pre}
  IN IF name.rest \in Characters
     THEN IF mods = {} THEN NoKey ELSE Key(name.rest, mods)
     ELSE IF Named(name.rest) # "none" THEN Key(Named(name.rest), mods)
     ELSE NoKey

\* parse_binding_key: for bind-key a bare character is a key.
ParseBindingKey(name) ==
  IF ParseKeyName(name) = NoKey /\ name.pre = <<>> /\ name.rest \in Characters
  THEN Key(name.rest, {}) ELSE ParseKeyName(name)

-----------------------------------------------------------------------------
(* What a pane is sent *)

None == <<"none">>
Modified(shape, code, mods) == <<shape, code, mods>>

\* to_ascii_lowercase
Lower(ch) == IF ch \in Letters THEN Fold(ch) ELSE ch

\* encode_ctrl_char: a control byte, which is the same for both cases.
EncodeCtrlChar(ch, mods) ==
  IF ch \in Letters THEN Modified("control", Lower(ch), mods) ELSE Modified("text", ch, {})

\* Mutant: what no control byte stands for goes out bare.
EncodeCharBare(ch, mods, disambiguate) ==
  IF disambiguate /\ mods \cap {Ctrl, Super} # {} THEN Modified("csi-u", Lower(ch), mods)
  ELSE IF Ctrl \in mods THEN EncodeCtrlChar(ch, mods \cap {Alt})
  ELSE Modified("text", ch, mods \cap {Alt})

\* encode_char
EncodeChar(ch, mods, disambiguate) ==
  IF disambiguate /\ mods \cap {Ctrl, Super} # {} THEN Modified("csi-u", Lower(ch), mods)
  ELSE IF {Ctrl, Alt} \subseteq mods /\ ch \notin Letters THEN Modified("csi-u", ch, mods)
  ELSE IF Ctrl \in mods THEN EncodeCtrlChar(ch, mods \cap {Alt})
  ELSE Modified("text", ch, mods \cap {Alt})

\* encode_with.  The bytes of Tab and Enter are control bytes, 9 and 13;
\* Backspace is 127, and Esc 27, which no letter stands for.
Encode(key, disambiguate) ==
  LET code == key.code
      mods == key.mods
  IN CASE code \in Characters -> EncodeChar(code, mods, disambiguate)
       [] code = "Esc" -> IF disambiguate THEN Modified("csi-u", "Esc", mods)
                          ELSE Modified("byte", "Esc", {})
       [] code \in Editing -> IF mods # {} THEN Modified("csi-u", code, mods)
                              ELSE IF code = "Tab" THEN Modified("control", "i", {})
                              ELSE IF code = "Enter" THEN Modified("control", "m", {})
                              ELSE Modified("byte", code, {})
       [] code = "BackTab" -> Modified("byte", "BackTab", {})
       [] code \in Arrows -> Modified("csi", code, mods)
       [] code \in {"Home", "End", "F1", "F4"} ->
            IF mods # {} THEN Modified("csi", code, mods) ELSE Modified("ss3", code, {})
       [] code \in Keypad \cup {"F5", "F12"} -> Modified("tilde", code, mods)
       [] OTHER -> None

\* What a program reads back: the key that the bytes stand for.  It knows the
\* bytes 9 and 13 as Tab and Enter, after ESC as well.
Shared == {"i", "m"}
Namesake(ch) == IF ch = "i" THEN "Tab" ELSE "Enter"

Read(sent) ==
  IF sent[1] # "control" THEN Key(sent[2], sent[3])
  ELSE IF sent[2] \in Shared THEN Key(Namesake(sent[2]), sent[3])
  ELSE Key(sent[2], sent[3] \cup {Ctrl})

\* What a program is told of a key.  With the protocol all of it, but for the
\* Shift that is in a character already, the modifiers of BackTab, and the case
\* of what Ctrl or Super is held with.  Without it the bytes have no room for
\* Super on a character, for any modifier of Esc, nor for a Ctrl on anything
\* that is not a letter, unless Alt is there as well.
Lost(key, disambiguate) ==
  IF key.code \in Characters
  THEN IF disambiguate THEN IF key.mods \cap {Ctrl, Super} = {} THEN {Shift} ELSE {}
       ELSE IF key.code \in Letters THEN {Shift, Super}
       ELSE IF {Ctrl, Alt} \subseteq key.mods THEN {} ELSE {Shift, Super, Ctrl}
  ELSE IF key.code = "BackTab" \/ (key.code = "Esc" /\ ~disambiguate) THEN Modifiers
  ELSE {}

CaseLost(key) == key.mods \cap {Ctrl, Super} # {}

Faithful(key, read, disambiguate) ==
  /\ read.code = key.code \/ (CaseLost(key) /\ read.code = Lower(key.code))
  /\ read.mods = key.mods \ Lost(key, disambiguate)

\* Without the protocol C-i is Tab and C-m is Enter: they share a byte.
Confused(key, read) ==
  /\ Ctrl \in key.mods /\ Lower(key.code) \in Shared
  /\ read = Key(Namesake(Lower(key.code)), key.mods \cap {Alt})

-----------------------------------------------------------------------------
(* The leader *)

Leaders == {"Alt", "CtrlAlt"}
ModifierSet(leader) == IF leader = "Alt" THEN {Alt} ELSE {Ctrl, Alt}

MovedKey(key, from, to) ==
  Key(key.code, (key.mods \ ModifierSet(from)) \cup ModifierSet(to))

\* set_leader: every root chord on the old leader moves, and one that is in the
\* way of a moved one is overwritten.  Two that move onto one key are sorted by
\* the name of that one key, which tells them nothing: either may win.
Movers(root, from) == {key \in DOMAIN root : ModifierSet(from) \subseteq key.mods}
MovedTables(root, from, to) ==
  LET movers == Movers(root, from)
      landed == {MovedKey(key, from, to) : key \in movers}
      sources(key) == {k \in movers : MovedKey(k, from, to) = key}
      winners == {f \in [landed -> movers] : \A key \in landed : f[key] \in sources(key)}
      stay == DOMAIN root \ movers
  IN {[key \in stay \cup landed |-> IF key \in landed THEN root[f[key]] ELSE root[key]] :
        f \in winners}
=============================================================================
