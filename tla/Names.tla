-------------------------------- MODULE Names --------------------------------
(***************************************************************************)
(* Names (checknames.cpp, command.cpp): what is a legal user, nick, host   *)
(* and display name, what the server makes of an illegal one, and which    *)
(* player a name in a command or in front of a message is.                 *)
(*                                                                         *)
(* A character of a name that is checked stands for its class; of nicks    *)
(* that are compared, for a letter of either case.                         *)
(***************************************************************************)
EXTENDS Integers, Sequences, SequencesExt, FiniteSets, FiniteSetsExt

CONSTANTS
    MAX_NAME_LEN, MAX_HOST_LEN, \* with the nul byte
    Letters,                    \* of nicks
    MaxNick,                    \* bound: letters in a nick
    NumNicks,                   \* bound: players in the table
    NoName                        \* NULL

VARIABLES
    entered,    \* a name as it was received
    nicks       \* of the players, as the table has them

nameVars == <<entered, nicks>>

Alnum == {"upper", "lower", "digit"}
Graph == Alnum \cup {"dot", "dash"}
Printable == Graph \cup {"space"}
Blank == {"space", "tab"}
Chars == Graph \cup Blank

-----------------------------------------------------------------------------
Cut(name, len) == SubSeq(name, 1, IF Len(name) < len THEN Len(name) ELSE len)

\* Each character that is not good becomes an x.
Replaced(name, Good) == [i \in DOMAIN name |-> IF name[i] \in Good THEN name[i] ELSE "lower"]

Check_real_name(n) == LET name == Cut(n, MAX_NAME_LEN - 1)
                      IN  name # <<>> /\ Range(name) \subseteq Graph
Fix_real_name(n) == LET name == Cut(n, MAX_NAME_LEN - 1)
                    IN  IF name = <<>> THEN <<"upper">> ELSE Replaced(name, Graph)

Check_nick_name(n) ==
    LET name == Cut(n, MAX_NAME_LEN - 1)
    IN  /\ name # <<>> /\ name[1] = "upper"
        /\ Range(name) \subseteq Printable
        /\ Last(name) \notin Blank

\* Without the blanks at its end.
Trimmed(name) == SubSeq(name, 1, Max({i \in DOMAIN name : name[i] \notin Blank}))

Fix_nick_name(n) ==
    LET name == Cut(n, MAX_NAME_LEN - 1)
    IN  IF name = <<>> THEN <<"upper", "digit">>
        ELSE Trimmed(Replaced([name EXCEPT ![1] = "upper"], Printable))

\* Whether a dot or dash may be there.
Between(name, i) == i < Len(name) /\ name[i + 1] \notin {"dot", "dash"}

Check_host_name(n) ==
    LET name == Cut(n, MAX_HOST_LEN - 1)
    IN  /\ name # <<>> /\ name[1] \in Alnum
        /\ \A i \in DOMAIN name : name[i] \in Alnum \/ (name[i] \in {"dot", "dash"} /\ Between(name, i))

\* The constant is "xxx.xxx".
Fix_host_name(n) ==
    LET name == Cut(n, MAX_HOST_LEN - 1)
    IN  IF name = <<>> \/ name[1] \notin Alnum THEN <<"lower", "dot", "lower">>
        ELSE [i \in DOMAIN name |->
                 IF name[i] \in Alnum \/ (name[i] \in {"dot", "dash"} /\ Between(name, i))
                 THEN name[i] ELSE "lower"]

Check_disp_name(n) == Range(Cut(n, MAX_NAME_LEN)) \subseteq Graph
Fix_disp_name(n)   == Replaced(Cut(n, MAX_NAME_LEN), Graph)

-----------------------------------------------------------------------------
(* A name that is said, as the players' indices it matches.                *)

Player_get_by_name_exact(str, table) ==
    LET found == {i \in DOMAIN table : table[i] = str}
    IN  IF found = {} THEN NoName ELSE table[CHOOSE i \in found : \A j \in found : i <= j]

BeginsWith(name, str, j) ==
    j + Len(str) - 1 <= Len(name) /\ SubSeq(name, j, j + Len(str) - 1) = str

Several == <<>>     \* found_pl, at the second match

\* The loop over the players, whose names are in table, for one of fits.
Only(table, fits) ==
    LET Find(found_pl, name) == IF found_pl = Several \/ name \notin fits THEN found_pl
                                ELSE IF found_pl # NoName THEN Several ELSE name
    IN  FoldLeft(Find, NoName, table)

\* Mutant: the first whose name begins with what was said.
Player_get_by_name_First(str, table) ==
    LET exact == Player_get_by_name_exact(str, table)
        first == SelectSeq(table, LAMBDA name : BeginsWith(name, str, 1))
    IN  IF str = <<>> THEN NoName
        ELSE IF exact # NoName THEN exact
        ELSE IF first # <<>> THEN first[1] ELSE NoName

\* A str that is a number is looked up by id.  The nick, NoName or Several.
Player_get_by_name(str, table) ==
    LET exact  == Player_get_by_name_exact(str, table)
        prefix == Only(table, {name \in Range(table) : BeginsWith(name, str, 1)})
        within == Only(table, {name \in Range(table) :
                      \E j \in 1 .. 1 + Len(name) - Len(str) : BeginsWith(name, str, j)})
    IN  IF str = <<>> THEN NoName
        ELSE IF exact # NoName THEN exact
        ELSE IF prefix # NoName THEN prefix
        ELSE within

-----------------------------------------------------------------------------
Strings(S, n) == UNION {[1 .. k -> S] : k \in 0 .. n}

\* What takes the place of a bad name is short enough; a name is not NULL.
ASSUME NamesAssumption ==
    /\ MAX_NAME_LEN \in Nat /\ MAX_NAME_LEN > 2 /\ MAX_HOST_LEN \in Nat /\ MAX_HOST_LEN > 3
    /\ NumNicks \in Nat /\ MaxNick \in Nat /\ NoName \notin Strings(Letters, MaxNick)

\* Handle_login lets nobody in whose nick another has, in whatever case.
NamesInit ==
    \/ entered \in Strings(Chars, MAX_NAME_LEN) /\ nicks = <<>>
    \/ /\ entered = <<>>
       /\ nicks \in [1 .. NumNicks -> Strings(Letters, MaxNick) \ {<<>>}]
       /\ \A i, j \in DOMAIN nicks : nicks[i] = nicks[j] => i = j

NamesSpec == NamesInit /\ [][FALSE]_nameVars

-----------------------------------------------------------------------------
\* Whatever a name was, the fixed one passes the check, and one that passes is left alone.
FixedPass ==
    /\ Check_real_name(Fix_real_name(entered)) /\ Check_nick_name(Fix_nick_name(entered))
    /\ Check_host_name(Fix_host_name(entered)) /\ Check_disp_name(Fix_disp_name(entered))
    /\ Check_real_name(entered) => Fix_real_name(entered) = Cut(entered, MAX_NAME_LEN - 1)
    /\ Check_nick_name(entered) => Fix_nick_name(entered) = Cut(entered, MAX_NAME_LEN - 1)
    /\ Check_host_name(entered) => Fix_host_name(entered) = Cut(entered, MAX_HOST_LEN - 1)

\* A command reaches one player and no other: everybody can be reached by the nick, also
\* one that is part of another's, and what is meant by a shorter name does not depend on
\* who came first to the table.
OneIsMeant ==
    /\ \A i \in DOMAIN nicks : Player_get_by_name(nicks[i], nicks) = nicks[i]
    /\ \A str \in Strings(Letters, MaxNick) :
           Player_get_by_name(str, Reverse(nicks)) = Player_get_by_name(str, nicks)

\* Names are safe to show and enough to tell players by, whatever clients ask for.
NamesSafe == FixedPass /\ OneIsMeant
=============================================================================
