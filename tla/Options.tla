------------------------------ MODULE Options ------------------------------
(***************************************************************************)
(* The option registry behind `set-option`: config/options.rs.             *)
(*                                                                         *)
(* An option is live, inert (a tmux option that is stored and reported but *)
(* never read) or unknown.  A value is a word of CommandLine.  What a      *)
(* session has set is a function from option to value; an option outside   *)
(* its domain has its default.                                             *)
(***************************************************************************)
EXTENDS CommandLine

LiveFlags == {"status", "pane-border-status", "automatic-rename", "status-powerline",
              "agent-status", "agent-bell"}
LiveNumbers == {"repeat-time", "target-fps", "agent-activity-time", "agent-minimum-run"}
LiveStrings == {"default-shell", "agent-commands", "agent-waiting-patterns",
                "agent-working-patterns", "agent-viewer-patterns"}
LiveKeys == {"prefix", "prefix2", "nested-prefix"}
LiveChoices == {"nested-keys"}

InertFlags == {"mouse", "renumber-windows", "aggressive-resize", "set-titles"}
InertNumbers == {"base-index", "pane-base-index", "history-limit", "escape-time", "status-interval"}
InertStrings == {"default-command", "status-left", "status-right", "status-style",
                 "status-position", "mode-keys", "status-keys"}

Inert == InertFlags \cup InertNumbers \cup InertStrings
Live == LiveFlags \cup LiveNumbers \cup LiveStrings \cup LiveKeys \cup LiveChoices
Known == Live \cup Inert

Kind(name) ==
  CASE name \in LiveFlags \cup InertFlags     -> "Flag"
    [] name \in LiveNumbers \cup InertNumbers -> "Number"
    [] name \in LiveKeys                      -> "Key"
    [] name \in LiveChoices                   -> "Choice"
    [] OTHER                                  -> "String"

Default(name) ==
  CASE name = "prefix"                                   -> <<"C-", "b">>
    [] name = "nested-prefix"                            -> <<"C-", "a">>
    [] name = "nested-keys"                              -> <<"auto">>
    [] name \in {"pane-border-status", "mouse", "renumber-windows", "aggressive-resize", "set-titles"}
                                                         -> <<"off">>
    [] name \in LiveFlags                                -> <<"on">>
    [] name \in {"repeat-time", "escape-time"}           -> <<"500">>
    [] name = "target-fps"                               -> <<"160">>
    [] name \in {"base-index", "status-interval"}        -> <<"1">>
    [] name \in {"pane-base-index", "history-limit"}     -> <<"0">>
    [] name = "agent-activity-time"                      -> <<"2000">>
    [] name = "agent-minimum-run"                        -> <<"3000">>
    [] name = "status-position"                          -> <<"bottom">>
    [] name \in {"mode-keys", "status-keys"}             -> <<"emacs">>
    [] name \in LiveStrings \ {"default-shell"}          -> <<"words of an agent">>
    [] OTHER                                             -> None

\* normalize: the value that is stored, or Bad.  A number is any that fits 64 bits.
Bad == <<"bad", "value">>
Yes == {"on", "yes", "1", "true"}
No == {"off", "no", "0", "false"}
NestedKeysValues == ("auto" :> "auto") @@ ("on" :> "on") @@ ("off" :> "off") @@ ("AUTO" :> "auto")
Normalize(name, value) ==
  LET one == Len(value) = 1 IN
  CASE Kind(name) = "Flag" /\ one /\ value[1] \in Yes -> <<"on">>
    [] Kind(name) = "Flag" /\ one /\ value[1] \in No  -> <<"off">>
    [] Kind(name) = "Flag"                            -> Bad
    [] Kind(name) = "Choice" /\ one /\ value[1] \in DOMAIN NestedKeysValues
                                                      -> <<NestedKeysValues[value[1]]>>
    [] Kind(name) = "Choice"                          -> Bad
    [] Kind(name) = "Number" /\ ~IsNumber(value)      -> Bad
    [] OTHER                                          -> value

NoneSet == <<>>
Get(options, name) == IF name \in DOMAIN options THEN options[name] ELSE Default(name)
Flag(options, name) == Get(options, name) = <<"on">>

\* What a set-option asks to store: with -u the default, and nothing for a typo.
OptionName(command) == command.words[1]
IsKnown(word) == Len(word) = 1 /\ word[1] \in Known
Wanted(command) ==
  CASE Switched(command, "unset") /\ IsKnown(OptionName(command)) -> Default(OptionName(command)[1])
    [] Switched(command, "unset")                                 -> None
    [] Len(command.words) = 2                                     -> command.words[2]
    [] OTHER                                                      -> <<"on">>
Settable(command) ==
  IsKnown(OptionName(command)) /\ Normalize(OptionName(command)[1], Wanted(command)) # Bad
\* Options::set.
Set(options, command) ==
  LET name == OptionName(command)[1] IN Put(options, name, Normalize(name, Wanted(command)))
=============================================================================
