-------------------------------- MODULE Options --------------------------------
(***************************************************************************)
(* The options of the server (option.cpp, parser.cpp, fileparser.cpp) on   *)
(* their way from the command line, the defaults file, the password file   *)
(* and the map to the variable the game uses, and what an operator may     *)
(* make of it afterwards (tuner.cpp).                                      *)
(*                                                                         *)
(* An assignment is taken or not by the origins of the old and the new     *)
(* value; and a macro defined in one file may be expanded in another or by *)
(* the command line, after the map, its lines still counting as of the     *)
(* file that defined it.  One option is followed here, under any           *)
(* description.  A value is the number of its assignment.                  *)
(***************************************************************************)
EXTENDS Integers, Sequences, FiniteSets, SequencesExt, FiniteSetsExt

CONSTANTS
    MaxLines,       \* bound: assignments to the option
    DefaultValue,
    OPT_INIT, OPT_COMMAND, OPT_PASSWORD, OPT_DEFAULTS, OPT_MAP  \* optOrigin

ASSUME OptAssumption ==
    /\ OPT_INIT \notin {OPT_COMMAND, OPT_PASSWORD, OPT_DEFAULTS, OPT_MAP, "expand", "game"}
    /\ OPT_COMMAND \notin {OPT_PASSWORD, OPT_DEFAULTS, OPT_MAP, "expand", "game"}
    /\ OPT_PASSWORD \notin {OPT_DEFAULTS, OPT_MAP, "expand", "game"}
    /\ OPT_DEFAULTS \notin {OPT_MAP, "expand", "game"}
    /\ OPT_MAP \notin {"expand", "game"}

VARIABLES
    phase,      \* what is being read
    flags,      \* desc->flags: the origins the option may be set from
    node,       \* node->value: value, override, origin
    macro,      \* the origin of a macro that sets the option, or OPT_INIT
    said,       \* all assignments: [origin, override, converts]
    variable    \* *desc->variable

optVars == <<phase, flags, node, macro, said, variable>>

Origins == {OPT_COMMAND, OPT_PASSWORD, OPT_DEFAULTS, OPT_MAP}

\* Mutant: a default that overrides has to come before the map.
MaySet_Late(origin, override) ==
    \/ origin = OPT_COMMAND
    \/ node.origin = OPT_INIT
    \/ origin = OPT_DEFAULTS /\ node.origin = OPT_DEFAULTS /\ ~node.override
    \/ origin = OPT_MAP /\ node.origin \in {OPT_DEFAULTS, OPT_MAP} /\ ~node.override
    \/ origin = OPT_PASSWORD /\ node.origin \in {OPT_DEFAULTS, OPT_MAP}
    \/ origin = OPT_PASSWORD /\ node.origin = OPT_PASSWORD /\ ~node.override

\* The cases of Option_change_node in which the node changes.
MaySet(origin, override) ==
    \/ origin = OPT_COMMAND
    \/ node.origin = OPT_INIT
    \/ origin = OPT_DEFAULTS /\ node.origin = OPT_DEFAULTS /\ ~node.override
    \/ origin = OPT_DEFAULTS /\ node.origin = OPT_MAP /\ override
    \/ origin = OPT_MAP /\ node.origin \in {OPT_DEFAULTS, OPT_MAP} /\ ~node.override
    \/ origin = OPT_PASSWORD /\ node.origin \in {OPT_DEFAULTS, OPT_MAP}
    \/ origin = OPT_PASSWORD /\ node.origin = OPT_PASSWORD /\ ~node.override

\* Option_set_value, of an option that has a description.
Option_set_value(origin, override) ==
    /\ Len(said) < MaxLines
    /\ \E converts \in BOOLEAN :
           said' = Append(said, [origin |-> origin, override |-> override, converts |-> converts])
    /\ node' = IF origin \in flags /\ MaySet(origin, override)
               THEN [value |-> Len(said'), override |-> override, origin |-> origin]
               ELSE node

Init_options ==
    /\ phase = OPT_INIT
    /\ phase' = OPT_COMMAND
    /\ \E F \in {Origins, Origins \ {OPT_MAP}, Origins \ {OPT_MAP, OPT_DEFAULTS}, {OPT_COMMAND, OPT_DEFAULTS}} : flags' = F
    /\ UNCHANGED <<node, macro, said, variable>>

\* Parser: an argument, which counts as one that overrides.
Argument ==
    /\ phase = OPT_COMMAND
    /\ Option_set_value(OPT_COMMAND, TRUE)
    /\ UNCHANGED <<phase, flags, macro, variable>>

\* parseLine in the file that is being read: an assignment, a definition, an expansion.
Line ==
    /\ phase \in {OPT_DEFAULTS, OPT_PASSWORD, OPT_MAP}
    /\ \E override \in BOOLEAN : Option_set_value(phase, override)
    /\ UNCHANGED <<phase, flags, macro, variable>>

Define ==
    /\ phase \in {OPT_DEFAULTS, OPT_PASSWORD, OPT_MAP} /\ macro = OPT_INIT
    /\ macro' = phase
    /\ UNCHANGED <<phase, flags, node, said, variable>>

\* expandKeyword, in a file or, when all are read, for the command line.
Expand ==
    /\ phase \in {OPT_DEFAULTS, OPT_PASSWORD, OPT_MAP, "expand"} /\ macro # OPT_INIT
    /\ \E override \in BOOLEAN : Option_set_value(macro, override)
    /\ UNCHANGED <<phase, flags, macro, variable>>

Next_file ==
    /\ phase \in Origins
    /\ phase' = CASE phase = OPT_COMMAND  -> OPT_DEFAULTS
                  [] phase = OPT_DEFAULTS -> OPT_PASSWORD
                  [] phase = OPT_PASSWORD -> OPT_MAP
                  [] phase = OPT_MAP      -> "expand"
    /\ UNCHANGED <<flags, node, macro, said, variable>>

\* Options_parse: what cannot be converted gives way to the default, not to a value that
\* was set before.
Options_parse ==
    /\ phase = "expand"
    /\ phase' = "game"
    /\ variable' = IF node.origin # OPT_INIT /\ said[node.value].converts THEN node.value
                   ELSE DefaultValue
    /\ UNCHANGED <<flags, node, macro, said>>

OptInit ==
    /\ phase = OPT_INIT
    /\ flags = {}
    /\ node = [value |-> 0, override |-> FALSE, origin |-> OPT_INIT]
    /\ macro = OPT_INIT
    /\ said = <<>>
    /\ variable = DefaultValue

OptNext ==
    Init_options \/ Argument \/ Line \/ Define \/ Expand \/ Next_file \/ Options_parse

OptSpec == OptInit /\ [][OptNext]_optVars

-----------------------------------------------------------------------------

\* The assignments that count, strongest first: the command line, the password file,
\* defaults that override, the map, other defaults; each only if the option may be set
\* from there.
Ranks ==
    LET Of(S) == {k \in DOMAIN said : said[k].origin \in S \cap flags}
        Over(S) == {k \in S : said[k].override}
    IN  <<Of({OPT_COMMAND}), Of({OPT_PASSWORD}), Over(Of({OPT_DEFAULTS})), Of({OPT_MAP}), Of({OPT_DEFAULTS})>>

\* Within a rank the first that overrides wins, or else the last; on the command line
\* the last.
Winner ==
    LET r    == CHOOSE n \in 1 .. 6 : /\ n <= 5 => Ranks[n] # {}
                                      /\ \A m \in 1 .. (n - 1) : Ranks[m] = {}
        over == {k \in Ranks[r] : said[k].override}
    IN  IF r = 6 THEN 0
        ELSE IF r > 1 /\ over # {} THEN Min(over) ELSE Max(Ranks[r])

\* In whatever order the files come to be read, macros included, the game uses the value
\* of the strongest assignment, or the default.
StrongestWins ==
    phase = "game" =>
        variable = IF Winner # 0 /\ said[Winner].converts THEN Winner ELSE DefaultValue

=============================================================================
