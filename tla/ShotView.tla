------------------------------ MODULE ShotView ------------------------------
(***************************************************************************)
(* How a frame tells a client of a shot or a piece of debris that is in    *)
(* its view (frame.cpp): the view lies around the ship, over the edges of  *)
(* a map that wraps, and is cut into areas; what is in an area goes, with  *)
(* others of the same colour, into a list whose number says the area, the  *)
(* colour and whether it is a shot of the own team, and is there two bytes *)
(* that say where in the area it is.                                       *)
(***************************************************************************)
EXTENDS Integers

CONSTANTS
    MapSize,        \* width and height of the map, in pixels
    View,           \* view_width and view_height; bound: less than the map's
    Area,           \* 256, the values of a byte
    DebrisColors,   \* of the client; at most 8
    Lives           \* bound: some values of obj_life

\* MapSize and View are pairs, for x and y.
ASSUME ViewAssumption ==
    /\ \A i \in {1, 2} : MapSize[i] \in Nat /\ View[i] \in Nat /\ 0 < View[i] /\ View[i] < MapSize[i]
    /\ Area \in Nat /\ Area > 0 /\ DebrisColors \in 0 .. 8 /\ Lives \subseteq Nat

VARIABLES
    wrap,       \* WRAP_PLAY
    ship,       \* the position of the player
    shot        \* kind: "shot" or "debris", pos, color, obj_life, mate: a shot of a team mate

viewVars == <<wrap, ship, shot>>

BLUE  == 2
Colors == 1 .. 3
Axis  == {1, 2}

-----------------------------------------------------------------------------
(* Frame_parameters                                                        *)

Areas(i)     == (View[i] + Area - 1) \div Area
debris_areas == Areas(1) * Areas(2)
DEBRIS_TYPES == 8 * debris_areas

Corner(i) == ship[i] - View[i] \div 2

\* pv.world and pv.realWorld
world(i) ==
    IF wrap /\ Corner(i) < 0 /\ Corner(i) + View[i] < MapSize[i] THEN Corner(i) + MapSize[i] ELSE Corner(i)
realWorld(i) ==
    IF wrap /\ Corner(i) > 0 /\ Corner(i) + View[i] >= MapSize[i] THEN Corner(i) - MapSize[i] ELSE Corner(i)

inview(pos) ==
    \A i \in Axis : \E c \in {world(i), realWorld(i)} : c < pos[i] /\ pos[i] < c + View[i]

-----------------------------------------------------------------------------
(* DEBRIS_STORE                                                            *)

\* Mutant: what is beyond the edge stays there.
Placed_Unwrapped(i) == shot.pos[i] - world(i)

Placed(i) == LET d == shot.pos[i] - world(i) IN IF d < 0 THEN d + MapSize[i] ELSE d

\* The number of the list and the two bytes.
Stored(color, offset) ==
    IF \E i \in Axis : Placed(i) \notin 0 .. View[i] - 1 THEN {}
    ELSE {<<offset + color * debris_areas
            + ((Placed(2) \div Area) % Areas(2)) * Areas(1) + ((Placed(1) \div Area) % Areas(1)),
            Placed(1) % Area, Placed(2) % Area>>}

\* The colour of debris is its temperature, if the client has more than two.
Heat ==
    LET warm == IF DebrisColors > 4 THEN 2 ELSE 4
        n    == shot.obj_life \div (IF shot.color = BLUE THEN warm ELSE 2 * warm)
    IN  IF DebrisColors < 3 THEN shot.color ELSE IF n >= DebrisColors THEN DebrisColors - 1 ELSE n

\* What is sent of the shot, while its list has less than 255; a spark may be left out.
Frame_shots ==
    IF ~inview(shot.pos) THEN {}
    ELSE CASE shot.kind = "debris"              -> Stored(Heat, 0)
           [] shot.kind = "shot" /\ shot.mate    -> Stored(BLUE, DEBRIS_TYPES)
           [] shot.kind = "shot" /\ ~shot.mate   -> Stored(shot.color, 0)

-----------------------------------------------------------------------------
Points == (0 .. MapSize[1] - 1) \X (0 .. MapSize[2] - 1)

ViewInit ==
    /\ wrap \in BOOLEAN
    /\ ship \in Points
    /\ \E pos \in Points, color \in Colors :
           \/ \E mate \in BOOLEAN :
                  shot = [kind |-> "shot", pos |-> pos, color |-> color, obj_life |-> 1, mate |-> mate]
           \/ \E life \in Lives :
                  shot = [kind |-> "debris", pos |-> pos, color |-> color, obj_life |-> life, mate |-> FALSE]

ViewSpec == ViewInit /\ [][FALSE]_viewVars

-----------------------------------------------------------------------------
\* Where in the view a client draws what list n has at the bytes b, from the corner.
Drawn(n, b, i) ==
    LET a == n % debris_areas
    IN  b + Area * IF i = 1 THEN a % Areas(1) ELSE a \div Areas(1)

\* How far the shot is from the corner of the view, on the map or on one beside it, if it is in
\* the view and not on its edge.
Offsets(i) ==
    {d \in 1 .. View[i] - 1 :
        \E k \in IF wrap THEN {-1, 0, 1} ELSE {0} : shot.pos[i] + k * MapSize[i] - Corner(i) = d}

\* Everything in the view of the player, across the edges of the map too, is drawn where it
\* is and nothing else is drawn; the number of the list gives the colour back, and whose shot
\* it is.
ShotsAreDrawn ==
    /\ Frame_shots = {} <=> \E i \in Axis : Offsets(i) = {}
    /\ \A s \in Frame_shots :
           /\ Drawn(s[1], s[2], 1) \in Offsets(1) /\ Drawn(s[1], s[3], 2) \in Offsets(2)
           /\ s[1] >= DEBRIS_TYPES <=> shot.mate
           /\ s[1] < 2 * DEBRIS_TYPES
           /\ LET color == (s[1] % DEBRIS_TYPES) \div debris_areas
              IN  IF shot.kind = "shot" THEN color = IF shot.mate THEN BLUE ELSE shot.color
                  ELSE DebrisColors >= 3 => color < DebrisColors
=============================================================================
