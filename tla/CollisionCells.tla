--------------------------- MODULE CollisionCells ---------------------------
(***************************************************************************)
(* The index of objects by map block with which a frame looks for          *)
(* collisions (collision.cpp).  Each cell holds the last of a chain of     *)
(* objects; the chains are built from the objects that are not expired,    *)
(* asked for what is near a player, and taken apart again, by way of a     *)
(* list of the cells in use.  Cells and links live from frame to frame.    *)
(*                                                                         *)
(* cell_next, which nothing reads, is left out.                            *)
(***************************************************************************)
EXTENDS Integers, Sequences, SequencesExt, FiniteSets, FiniteSetsExt, Functions

CONSTANTS
    Objs,               \* the objects, as Obj holds them: a sequence
    Worlds,             \* sizes of the map: x, y, and whether its edges wrap
    Null,
    MAX_TOTAL_OBJECTS,
    Range_              \* how far a player looks, in blocks: 4

\* Obj has room for all objects.
ASSUME CellsAssumption ==
    /\ Objs \in Seq(Range(Objs)) /\ IsInjective(Objs) /\ Null \notin Range(Objs)
    /\ Range_ \in Nat /\ MAX_TOTAL_OBJECTS \in Nat /\ Len(Objs) <= MAX_TOTAL_OBJECTS
    /\ \A w \in Worlds :
           /\ w.x \in Nat \ {0} /\ w.y \in Nat \ {0} /\ w.wrap \in BOOLEAN
           /\ Null \notin (0 .. w.x - 1) \X (0 .. w.y - 1)

VARIABLES
    World,
    at,         \* object -> the block it is in while collisions are looked for; Null: expired
    Cells,      \* block -> the last object of its chain
    cell_prev,  \* object -> the object before it in the chain
    UsedCells   \* a list of blocks

cellVars == <<World, at, Cells, cell_prev, UsedCells>>

Objects == Range(Objs)
Blocks  == (0 .. World.x - 1) \X (0 .. World.y - 1)

-----------------------------------------------------------------------------
\* Adds obj, which is in the block where[obj], to what is built so far.
Chained(where, obj, s) ==
    LET cell == where[obj]
    IN  IF cell = Null THEN s
        ELSE [Cells     |-> [s.Cells EXCEPT ![cell] = obj],
              cell_prev |-> [s.cell_prev EXCEPT ![obj] = s.Cells[cell]],
              UsedCells |-> IF s.Cells[cell] # Null THEN s.UsedCells
                            ELSE Append(s.UsedCells, cell)]

\* After the objects have moved, been made and expired.
Collision_cells_init ==
    /\ UsedCells = <<>>
    /\ at' \in [Objects -> Blocks \cup {Null}]
    /\ LET Chain_(s, obj) == Chained(at', obj, s)
           built == FoldLeft(Chain_, [Cells |-> Cells, cell_prev |-> cell_prev,
                                      UsedCells |-> UsedCells], Objs)
       IN  /\ Cells' = built.Cells
           /\ cell_prev' = built.cell_prev
           /\ UsedCells' = built.UsedCells
    /\ UNCHANGED World

\* The chain that ends with obj, link by link.
Chain(obj) ==
    LET link[i \in 1 .. Len(Objs) + 1] ==
            IF i = 1 THEN obj ELSE IF link[i - 1] = Null THEN Null ELSE cell_prev[link[i - 1]]
    IN  [i \in {k \in DOMAIN link : link[k] # Null} |-> link[i]]

\* Mutant: a cell with one object is left as it is.
Collision_cells_cleanup_OneLeft ==
    /\ UsedCells # <<>>
    /\ cell_prev' = [obj \in Objects |-> Null]
    /\ Cells' = [b \in Blocks |-> IF b \in Range(UsedCells) /\ Len(Chain(Cells[b])) > 1
                                  THEN Null ELSE Cells[b]]
    /\ UsedCells' = <<>>
    /\ at' = [obj \in Objects |-> Null]
    /\ UNCHANGED World

Collision_cells_cleanup ==
    /\ UsedCells # <<>>
    /\ LET used == UNION {Range(Chain(Cells[b])) : b \in Range(UsedCells)}
       IN  cell_prev' = [obj \in Objects |-> IF obj \in used THEN Null ELSE cell_prev[obj]]
    /\ Cells' = [b \in Blocks |-> IF b \in Range(UsedCells) THEN Null ELSE Cells[b]]
    /\ UsedCells' = <<>>
    /\ at' = [obj \in Objects |-> Null]
    /\ UNCHANGED World

-----------------------------------------------------------------------------
(* Collision_cells_objects_get                                             *)

\* r: less than it was asked for on a map that is narrow, in either direction.
radius == IF World.wrap THEN Min({Range_, World.x \div 2, World.y \div 2})
          ELSE Min({Range_, World.x, World.y})

\* The rows, or columns, of n that it visits around c.
Span(c, n) ==
    IF World.wrap THEN [i \in 1 .. 2 * radius + 1 |-> (c - radius + i - 1) % n]
    ELSE LET low == IF c - radius < 0 THEN 0 ELSE c - radius
             top == IF c + radius >= n THEN n - 1 ELSE c + radius
         IN  [i \in 1 .. top - low + 1 |-> low + i - 1]

\* The blocks that it visits, column by column.
Around(x, y) ==
    LET columns == Span(x, World.x)
        rows    == Span(y, World.y)
    IN  [i \in 1 .. Len(columns) * Len(rows) |->
            <<columns[((i - 1) \div Len(rows)) + 1], rows[((i - 1) % Len(rows)) + 1]>>]

Collision_cells_objects_get(x, y) ==
    LET Visit(met, cell) == met \o Chain(Cells[cell])
        met == FoldLeft(Visit, <<>>, Around(x, y))
    IN  IF Len(met) <= MAX_TOTAL_OBJECTS THEN met ELSE SubSeq(met, 1, MAX_TOTAL_OBJECTS)

-----------------------------------------------------------------------------
CellsInit ==
    /\ World \in Worlds
    /\ at = [obj \in Objects |-> Null]
    /\ Cells = [b \in Blocks |-> Null]
    /\ cell_prev = [obj \in Objects |-> Null]
    /\ UsedCells = <<>>

CellsNext == Collision_cells_init \/ Collision_cells_cleanup

CellsSpec == CellsInit /\ [][CellsNext]_cellVars

-----------------------------------------------------------------------------
\* How far apart two rows, or columns, of n are.
Apart(a, b, n) ==
    LET d == IF a < b THEN b - a ELSE a - b
    IN  IF World.wrap /\ n - d < d THEN n - d ELSE d

InRange(x, y) ==
    {obj \in Objects : /\ at[obj] # Null
                       /\ Apart(x, at[obj][1], World.x) <= Range_
                       /\ Apart(y, at[obj][2], World.y) <= Range_}

Wide == 2 * Range_ < World.x /\ 2 * Range_ < World.y

\* On a map that is just as wide as a player looks it meets objects more than once, for
\* which the list must have room.
WideEnough ==
    /\ 2 * Range_ <= World.x /\ 2 * Range_ <= World.y
    /\ (2 * Range_ + 1) * (2 * Range_ + 1) * Len(Objs) <= MAX_TOTAL_OBJECTS

\* In every frame, whatever the frames before have left behind, a player meets no object that
\* is not near it; every one that is, across the edges of the map too, unless the map is
\* narrow; and meets it once, if the map is wider than the player looks.
NearIsMet ==
    UsedCells # <<>> =>
        \A b \in Blocks :
            LET met == Collision_cells_objects_get(b[1], b[2])
            IN  /\ Range(met) \subseteq InRange(b[1], b[2])
                /\ Wide \/ WideEnough => InRange(b[1], b[2]) \subseteq Range(met)
                /\ Wide => IsInjective(met)
=============================================================================
