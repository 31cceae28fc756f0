---------------------------- MODULE MCAlgorithms ----------------------------
(***************************************************************************)
(* The algorithms, and the accounts that are kept beside the game, that    *)
(* share no state, in one state space: a behaviour is a behaviour of one   *)
(* of them, and the variables of the others are None, or those of the      *)
(* modules that are extended as at their start.                            *)
(***************************************************************************)
EXTENDS
    LinkedList, Operators, Ranking, Winner, MetaServer, Names, ShotView, CollisionCells,
    Integers, TLC

CONSTANTS
    WallX, WallY, Slopes, MaxWalls,                     \* WallDistance
    W, H, R, Speed, Rows,                               \* Collisions
    mapWidth, mapHeight, MapChars, MaxText, MaxRun      \* Maps

VARIABLES
    part,                                               \* whose behaviour this is
    block, wallWrap, walldist, q, qfront, qback,        \* WallDistance
    wrapped, p1, p2, q1, q2,                            \* Collisions
    mode, mapData, done, mapBlock, base, treasures, Setup \* Maps

MCObjs == <<"a", "b", "c">>

\* The smallest that have all the cases: edges that wrap or end, in both directions.
MCWorlds == {[x |-> 4, y |-> 2, wrap |-> TRUE], [x |-> 4, y |-> 2, wrap |-> FALSE],
             [x |-> 3, y |-> 3, wrap |-> TRUE], [x |-> 3, y |-> 1, wrap |-> TRUE]}

MCWorld == CHOOSE w \in MCWorlds : TRUE

MCNumBases == 1 :> 2 @@ 2 :> 2

\* An open map, one with a border, one without teams.
MCModes ==
    {[extraBorder |-> FALSE, wrap |-> TRUE, team |-> TRUE, compress_maps |-> TRUE],
     [extraBorder |-> TRUE, wrap |-> FALSE, team |-> TRUE, compress_maps |-> TRUE],
     [extraBorder |-> FALSE, wrap |-> FALSE, team |-> FALSE, compress_maps |-> FALSE]}

\* Views that are cut into areas of which the last are smaller.
MCMapSize == <<7, 4>>
MCView  == <<5, 3>>
MCShot  == [kind |-> "shot", pos |-> <<0, 0>>, color |-> 1, obj_life |-> 1, mate |-> FALSE]

Wall  == INSTANCE WallDistance WITH X <- WallX, Y <- WallY, wrap <- wallWrap
Hit   == INSTANCE Collisions WITH wrap <- wrapped
Map   == INSTANCE Maps WITH Modes <- MCModes, Chars <- MapChars, block <- mapBlock

wallVars == <<block, wallWrap, walldist, q, qfront, qback>>
stillVars == <<winVars, wrapped, p1, p2, q1, q2, nameVars, viewVars>>
mapVars  == <<mode, mapData, done, mapBlock, base, treasures, Setup>>

MCInit ==
    /\ part \in {"list", "cells", "walls", "hits", "names", "winner", "meta", "rank", "staff",
                "maps", "shots"}
    /\ ListInit
    /\ CellsInit /\ (part = "cells" \/ World = MCWorld)
    /\ IF part = "walls" THEN Wall!WallInit
       ELSE /\ block = None /\ wallWrap = None /\ walldist = None
            /\ q = None /\ qfront = None /\ qback = None
    /\ IF part = "hits" THEN Hit!HitInit
       ELSE wrapped = None /\ p1 = None /\ p2 = None /\ q1 = None /\ q2 = None
    /\ IF part = "names" THEN NamesInit ELSE entered = <<>> /\ nicks = <<>>
    /\ IF part = "winner" THEN WinInit
       ELSE /\ alive = {} /\ destroyed = [t \in TeamNumbers |-> 0]
            /\ left = destroyed /\ score = destroyed
    /\ MetaInit /\ RankInit
    /\ OpInit /\ (part = "staff" \/ ~staff.password)
    /\ IF part = "maps" THEN Map!MapInit
       ELSE /\ mode = None /\ mapData = None /\ done = None /\ mapBlock = None
            /\ base = None /\ treasures = None /\ Setup = None
    /\ IF part = "shots" THEN ViewInit ELSE wrap = FALSE /\ ship = <<0, 0>> /\ shot = MCShot

MCNext ==
    /\ UNCHANGED <<part, stillVars>>
    /\ \/ /\ part = "list" /\ ListNext
          /\ UNCHANGED <<cellVars, wallVars, metaVars, rankVars, opVars, mapVars>>
       \/ /\ part = "cells" /\ CellsNext
          /\ UNCHANGED <<listVars, wallVars, metaVars, rankVars, opVars, mapVars>>
       \/ /\ part = "walls" /\ Wall!Step
          /\ UNCHANGED <<listVars, cellVars, metaVars, rankVars, opVars, mapVars>>
       \/ /\ part = "meta" /\ MetaNext
          /\ UNCHANGED <<listVars, cellVars, wallVars, rankVars, opVars, mapVars>>
       \/ /\ part = "rank" /\ RankNext
          /\ UNCHANGED <<listVars, cellVars, wallVars, metaVars, opVars, mapVars>>
       \/ /\ part = "staff" /\ OpNext
          /\ UNCHANGED <<listVars, cellVars, wallVars, metaVars, rankVars, mapVars>>
       \/ /\ part = "maps" /\ Map!MapNext
          /\ UNCHANGED <<listVars, cellVars, wallVars, metaVars, rankVars, opVars>>

MCSpec ==
    MCInit /\ [][MCNext]_<<part, listVars, cellVars, wallVars, stillVars, metaVars, rankVars, opVars,
                           mapVars>>

Symm == Permutations(Nicks) \cup Permutations(Humans)

\* The properties are those of the modules, each of the behaviours of its part.
\* Two objects that touch within a frame are found to, and the search for the nearest walls
\* finds how far they are.
GeometryIsRight     == /\ part = "hits" => Hit!HitsAreRight
                       /\ part = "walls" => Wall!DistanceIsRight
SetupIsMap          == part = "maps" => Map!SetupIsMap
=============================================================================
