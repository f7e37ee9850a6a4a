------------------------------ MODULE Formats ------------------------------
(***************************************************************************)
(* tmux format strings: format.rs.                                         *)
(*                                                                         *)
(* A template is a sequence of parts, as the expander reads it:            *)
(*   <<"text", w>>            literal text                                 *)
(*   <<"name", n>>            #{n}, or its one-letter short form           *)
(*   <<"if", n, yes, no>>     #{?n,yes,no}                                 *)
(*   <<"operator", n>>        #{==:...} and the rest of tmux's arithmetic  *)
(*   <<"alone", n>>           #{?n} with no branch to take                 *)
(*   <<"open", n>>            #{ without its closing brace                 *)
(* Variables and expansions are words.                                     *)
(***************************************************************************)
EXTENDS CommandLine

CONSTANT Branches    \* the templates that stand in a branch of another
Closed(t) == \A i \in DOMAIN t : t[i][1] = "if" => {t[i][3], t[i][4]} \subseteq Branches
ASSUME BranchesAssumption == \A t \in Branches : Closed(t)

ShortAlias ==
  ("S" :> "session_name") @@ ("W" :> "window_name") @@ ("I" :> "window_index")
  @@ ("P" :> "pane_index") @@ ("D" :> "pane_id") @@ ("T" :> "pane_title") @@ ("F" :> "window_flags")

\* An unknown variable is empty.
Value(vars, name) ==
  LET full == IF name \in DOMAIN ShortAlias THEN ShortAlias[name] ELSE name
      held(values) == IF full \in DOMAIN values THEN values[full] ELSE <<>> IN
  With(vars, held)
IsTrue(vars, name) == Value(vars, name) \notin {<<>>, <<"0">>}
FlagOf(b) == IF b THEN <<"1">> ELSE <<"0">>

Unexpandable == <<"#unexpandable">>

\* What a part stands for, where the branches of a conditional expand to these.
ExpandPart(part, vars, expansion) ==
  CASE part[1] = "text" -> part[2]
    [] part[1] = "name" -> Value(vars, part[2])
    [] part[1] = "if"   -> expansion[IF IsTrue(vars, part[2]) THEN part[3] ELSE part[4]]
    [] OTHER            -> Unexpandable

\* The first part that cannot be expanded refuses the whole template; a branch
\* that is not taken is not read.
Expand(template, vars) ==
  LET joined(parts) == IF Unexpandable \in Range(parts) THEN Unexpandable ELSE FlattenSeq(parts)
      expansion[t \in {template} \cup Branches] ==
        With([i \in DOMAIN t |-> ExpandPart(t[i], vars, expansion)], joined) IN
  expansion[template]
=============================================================================
