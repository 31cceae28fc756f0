-------------------------------- MODULE Maps --------------------------------
(***************************************************************************)
(* From the text of a map to what a client is told of it: Map_parse,       *)
(* Map_compute_base_direction (map.cpp), Init_setup and Compress_map       *)
(* (netserver.cpp), in that order, when the server starts.  Bases and      *)
(* treasures are numbered as they are found; Init_setup counts again, and  *)
(* relies on meeting them in the same order.                               *)
(*                                                                         *)
(* The codes of the setup are the numbers of setup.h; kinds of blocks that *)
(* take the same way as others (three of the slopes) are left out.         *)
(***************************************************************************)
EXTENDS Integers, Sequences, SequencesExt, FiniteSets, FiniteSetsExt

CONSTANTS
    mapWidth, mapHeight,
    Modes,      \* settings: extraBorder, wrap (WRAP_PLAY), team (TEAM_PLAY), compress_maps
    Chars,      \* of the texts; "NL" is the newline
    MaxText,    \* bound: characters in a text
    MaxRun      \* how often Compress_map says a block is repeated, at most: 255

VARIABLES
    mode,
    mapData,
    done,       \* "start", "parsed", "directed", "setup"
    block,      \* x, y -> a character of the text, the attractors gone when "directed"
    base,       \* a sequence of bases: their block, team and direction
    treasures,  \* a sequence: their block and team
    Setup       \* map_data

mapVars == <<mode, mapData, done, block, base, treasures, Setup>>

X == mapWidth + IF mode.extraBorder THEN 2 ELSE 0
Y == mapHeight + IF mode.extraBorder THEN 2 ELSE 0

\* The order of two nested loops over x and y.
InOrder == [i \in 1 .. X * Y |-> <<(i - 1) \div Y, (i - 1) % Y>>]
NoTeam  == -1
Teams   == {"_", "0", "1", "2"}
TeamNum(c) == CASE c = "1" -> 1 [] c = "2" -> 2 [] OTHER -> 0

-----------------------------------------------------------------------------
(* Map_parse                                                               *)

\* What follows the next newline; there is one, or the code reads past the end of the text.
NextLine(s) == SubSeq(s, 1 + Min({i \in DOMAIN s : s[i] = "NL"} \cup {Len(s)}), Len(s))

\* The character at (x, y), of the border or the next of the text, or a blank where the line
\* or the text has no more; "NL" when the row ends.
CharAt(s, x, y) ==
    IF mode.extraBorder /\ (x \in {0, X - 1} \/ y \in {0, Y - 1}) THEN IF x >= X THEN "NL" ELSE "x"
    ELSE IF s = <<>> \/ Head(s) = "NL" THEN IF x < X THEN " " ELSE "NL"
    ELSE Head(s)

\* Whether that character is taken from the text.
Taken(s, x, y) ==
    /\ s # <<>>
    /\ mode.extraBorder => x \notin {0, X - 1} /\ y \notin {0, Y - 1}
    /\ Head(s) = "NL" => x >= X

\* The loop, from the top row down.
RECURSIVE Parsed(_, _, _, _)
Parsed(s, x, y, b) ==
    IF y < 0 THEN b
    ELSE LET c    == CharAt(s, x, y)
             rest == IF Taken(s, x, y) THEN Tail(s) ELSE s
         IN  IF c = "NL" THEN Parsed(rest, 0, y - 1, b)
             ELSE IF x >= X THEN Parsed(NextLine(rest), 0, y - 1, b)
             ELSE Parsed(rest, x + 1, y,
                         [b EXCEPT ![<<x, y>>] = IF c = "*" /\ ~mode.team THEN " " ELSE c])

BasesOf(b) ==
    LET at == SelectSeq(InOrder, LAMBDA p : b[p] \in Teams)
    IN  [i \in DOMAIN at |-> [pos |-> at[i], dir |-> "UP",
                              team |-> IF mode.team THEN TeamNum(b[at[i]]) ELSE NoTeam]]

\* WRAP_DX, WRAP_DY, in blocks.
Way(d, n) == CASE mode.wrap /\ 2 * d < -n -> d + n
               [] mode.wrap /\ 2 * d > n  -> d - n
               [] OTHER                   -> d

\* The square of Map_get_distance.
Far(p, r) == Way(p[1] - r[1], X) * Way(p[1] - r[1], X) + Way(p[2] - r[2], Y) * Way(p[2] - r[2], Y)

\* The team of the first of the nearest bases of B; each has a team.
Map_get_closest_team(p, B) ==
    IF B = <<>> THEN NoTeam
    ELSE LET least == Min({Far(B[i].pos, p) : i \in DOMAIN B})
         IN  B[Min({i \in DOMAIN B : Far(B[i].pos, p) = least})].team

TreasuresOf(b, B) ==
    LET at == SelectSeq(InOrder, LAMBDA p : b[p] = "*")
    IN  [i \in DOMAIN at |-> [pos |-> at[i], team |-> Map_get_closest_team(at[i], B)]]

Map_parse ==
    /\ done = "start" /\ done' = "parsed"
    /\ block' = Parsed(mapData, 0, Y - 1, [p \in (0 .. X - 1) \X (0 .. Y - 1) |-> " "])
    /\ base' = BasesOf(block')
    /\ treasures' = TreasuresOf(block', base')
    \* Otherwise Init_setup asks for the number of no team.
    /\ treasures' # <<>> => base' # <<>>
    /\ UNCHANGED <<mode, mapData, Setup>>

-----------------------------------------------------------------------------
Step == [UP |-> <<0, 1>>, DOWN |-> <<0, -1>>, RIGHT |-> <<1, 0>>, LEFT |-> <<-1, 0>>]

\* The block beside p in a direction, if the map has one.
Beside(p, dir) ==
    {r \in DOMAIN block :
        IF mode.wrap THEN r = <<(p[1] + Step[dir][1]) % X, (p[2] + Step[dir][2]) % Y>>
        ELSE r = <<p[1] + Step[dir][1], p[2] + Step[dir][2]>>}

Attracted(p, dir) == \E r \in Beside(p, dir) : block[r] = "$"

\* The first attractor counts.
Map_compute_base_direction ==
    /\ done = "parsed" /\ done' = "directed"
    /\ base' = [i \in DOMAIN base |->
                   LET to == SelectSeq(<<"UP", "DOWN", "RIGHT", "LEFT">>,
                                       LAMBDA dir : Attracted(base[i].pos, dir))
                   IN  [base[i] EXCEPT !.dir = IF to = <<>> THEN "UP" ELSE Head(to)]]
    /\ block' = [p \in DOMAIN block |-> IF block[p] = "$" THEN " " ELSE block[p]]
    /\ UNCHANGED <<mode, mapData, treasures, Setup>>

-----------------------------------------------------------------------------
SETUP_COMPRESSED == 128
SETUP_TREASURE   == 20
SETUP_BASE       == [UP |-> 30, RIGHT |-> 40, DOWN |-> 50, LEFT |-> 60]
SETUP_BLOCK      == [c \in {" ", "x", "#"} |-> CASE c = " " -> 0 [] c = "x" -> 1 [] c = "#" -> 3]

\* mapdata: the bases and treasures are counted while the map is gone through.
Coded ==
    LET Add(s, p) ==
            CASE block[p] = "*" ->
                    [s EXCEPT !.data = Append(@, SETUP_TREASURE + treasures[s.treasure].team),
                              !.treasure = @ + 1]
              [] block[p] \in Teams ->
                    LET b == base[s.base]
                    IN  [s EXCEPT !.data = Append(@, SETUP_BASE[b.dir] + IF b.team = NoTeam THEN 0 ELSE b.team),
                                  !.base = @ + 1]
              [] OTHER -> [s EXCEPT !.data = Append(@, SETUP_BLOCK[block[p]])]
    IN  FoldLeft(Add, [data |-> <<>>, base |-> 1, treasure |-> 1], InOrder).data

\* Mutant: the last of a full run is counted twice.
Run_OneMore(m) ==
    LET other == {k \in DOMAIN m : m[k] # m[1]}
    IN  Min({Min(other \cup {Len(m) + 1}) - 1, MaxRun + 1})

\* How many of the first blocks of m are the same, or are said to be.
Run(m) ==
    LET other == {k \in DOMAIN m : m[k] # m[1]}
    IN  Min({Min(other \cup {Len(m) + 1}) - 1, MaxRun})

\* The count is a byte.
RECURSIVE Compress_map(_)
Compress_map(m) ==
    IF m = <<>> THEN <<>>
    ELSE IF Run(m) = 1 THEN <<m[1]>> \o Compress_map(Tail(m))
    ELSE <<m[1] + SETUP_COMPRESSED, Run(m) % (MaxRun + 1)>> \o Compress_map(SubSeq(m, Run(m) + 1, Len(m)))

Init_setup ==
    /\ done = "directed" /\ done' = "setup"
    /\ Setup' = IF mode.compress_maps THEN Compress_map(Coded) ELSE Coded
    /\ UNCHANGED <<mode, mapData, block, base, treasures>>

-----------------------------------------------------------------------------
\* The texts end in a newline.
MapInit ==
    /\ mode \in Modes
    /\ mapData \in {Append(s, "NL") : s \in BoundedSeq(Chars, MaxText)}
    /\ done = "start" /\ block = <<>> /\ base = <<>> /\ treasures = <<>> /\ Setup = <<>>

MapNext == Map_parse \/ Map_compute_base_direction \/ Init_setup

MapSpec == MapInit /\ [][MapNext]_mapVars

-----------------------------------------------------------------------------
(* The client's side, and the text seen as lines.                          *)

RECURSIVE Expanded(_)
Expanded(m) ==
    IF m = <<>> THEN <<>>
    ELSE IF m[1] < SETUP_COMPRESSED THEN <<m[1]>> \o Expanded(Tail(m))
    ELSE [k \in 1 .. m[2] |-> m[1] - SETUP_COMPRESSED] \o Expanded(SubSeq(m, 3, Len(m)))

\* Line n of the text, without its newline.
Line(n) ==
    LET ends == SetToSortSeq({i \in DOMAIN mapData : mapData[i] = "NL"}, <)
    IN  IF n \notin DOMAIN ends THEN <<>>
        ELSE SubSeq(mapData, IF n = 1 THEN 1 ELSE ends[n - 1] + 1, ends[n] - 1)

\* What the text has at a block of the map.
Written(p) ==
    LET b    == IF mode.extraBorder THEN 1 ELSE 0
        line == Line(Y - b - p[2])
    IN  IF mode.extraBorder /\ (p[1] \in {0, X - 1} \/ p[2] \in {0, Y - 1}) THEN "x"
        ELSE IF p[1] + 1 - b \in DOMAIN line THEN line[p[1] + 1 - b] ELSE " "

\* The sides of p on which the text has an attractor.
Sides(p) == {dir \in DOMAIN Step : \E r \in Beside(p, dir) : Written(r) = "$"}

\* A team has the treasure at p if no base of another team is nearer.
Nearest(p, team) ==
    LET bases == {r \in DOMAIN block : Written(r) \in Teams}
    IN  \E r \in bases : /\ TeamNum(Written(r)) = team
                         /\ \A other \in bases : Far(r, p) <= Far(other, p)

\* What a client makes of the setup is the map of the text, block by block: lines that are
\* too short or too long, missing lines and the border do not shift it, each base has its own
\* team and turns to an attractor, each treasure is that of the nearest base.
SetupIsMap ==
    done = "setup" =>
        LET data == Expanded(Setup)
        IN  /\ Len(data) = X * Y
            /\ \A i \in DOMAIN data :
                LET p == InOrder[i]
                    c == Written(p)
                IN  CASE c \in Teams ->
                            \E dir \in DOMAIN Step :
                                /\ data[i] = SETUP_BASE[dir] + IF mode.team THEN TeamNum(c) ELSE 0
                                /\ dir \in IF Sides(p) = {} THEN {"UP"} ELSE Sides(p)
                      [] c = "*" /\ mode.team -> Nearest(p, data[i] - SETUP_TREASURE)
                      [] c = "x" -> data[i] = 1
                      [] c = "#" -> data[i] = 3
                      [] OTHER   -> data[i] = 0
=============================================================================
