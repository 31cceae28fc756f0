---------------------------- MODULE WallDistance ----------------------------
(***************************************************************************)
(* Walldist_init (walls1.cpp): how far each block of the map is from the   *)
(* nearest wall, in half blocks, found breadth first with a queue in an    *)
(* array as large as the map.  What moves through free space trusts it and *)
(* looks at no wall.                                                       *)
(***************************************************************************)
EXTENDS Integers, Sequences, SequencesExt, FiniteSets, FiniteSetsExt

CONSTANTS
    X, Y,       \* the size of the map
    Slopes,     \* the kinds of blocks that are half a wall, of those in the maps
    MaxWalls    \* bound: blocks of a map that are not space

VARIABLES
    block,      \* block -> its kind
    wrap,       \* WRAP_PLAY
    walldist,   \* block -> half blocks
    q, qfront, qback

wallVars == <<block, wrap, walldist, q, qfront, qback>>

Blocks  == (0 .. X - 1) \X (0 .. Y - 1)
Kinds   == {"FILLED"} \cup Slopes
Border  == {b \in Blocks : b[1] \in {0, X - 1} \/ b[2] \in {0, Y - 1}}
Solid(m) == {b \in Blocks : m[b] # "SPACE"}
maxdist == Min({2 * Min({X, Y}), 255})

\* The slope is turned away from the block that is (dx, dy) further.
Faces == [REC_LD |-> <<1, 1>>, REC_RD |-> <<-1, 1>>, REC_LU |-> <<1, -1>>, REC_RU |-> <<-1, -1>>]

-----------------------------------------------------------------------------
\* Mutant: the slope counts for the other diagonal.
newdist_Mirrored(b, d) ==
    walldist[b] + IF walldist[b] = 0 /\ block[b] \in Slopes /\ Faces[block[b]] = <<d[1], -d[2]>>
                  THEN 3 ELSE 2

newdist(b, d) ==
    walldist[b] + IF walldist[b] = 0 /\ block[b] \in Slopes /\ Faces[block[b]] = d
                  THEN 3 ELSE 2

\* The block at that offset, if the map has one.
Beside(b, d) == {c \in Blocks : IF wrap THEN c = <<(b[1] + d[1]) % X, (b[2] + d[2]) % Y>>
                                ELSE c = <<b[1] + d[1], b[2] + d[2]>>}

\* In the order of the loops.
InOrder == [i \in 1 .. X * Y |-> <<(i - 1) \div Y, (i - 1) % Y>>]
Offsets == [i \in 1 .. 9 |-> <<((i - 1) \div 3) - 1, ((i - 1) % 3) - 1>>]

Next_(i) == IF i + 1 = X * Y THEN 0 ELSE i + 1

\* One turn of the loop.
Step ==
    /\ qfront # qback
    /\ qfront' = Next_(qfront)
    /\ LET b == q[qfront]
           Reach(s, d) ==
               IF walldist[b] + 2 >= 255 THEN s
               ELSE FoldSet(LAMBDA c, t :
                        IF newdist(b, d) >= t.walldist[c] THEN t
                        ELSE [walldist |-> [t.walldist EXCEPT ![c] = newdist(b, d)],
                              q        |-> [t.q EXCEPT ![t.qback] = c],
                              qback    |-> Next_(t.qback)], s, Beside(b, d))
           after == FoldLeft(Reach, [walldist |-> walldist, q |-> q, qback |-> qback], Offsets)
       IN  /\ walldist' = after.walldist
           /\ q' = after.q
           /\ qback' = after.qback
    /\ UNCHANGED <<block, wrap>>

\* Before the loop: the walls and, if one cannot leave the map, its border.  A map on which
\* these are all blocks is left out, the loop would not end: qfront is set back before it
\* reaches qback.
WallInit ==
    /\ wrap \in BOOLEAN
    /\ \E W \in {V \in SUBSET Blocks : Cardinality(V) <= MaxWalls} : \E k \in [W -> Kinds] :
           block = [b \in Blocks |-> IF b \in W THEN k[b] ELSE "SPACE"]
    /\ LET edge == IF wrap THEN {} ELSE Border \ Solid(block)
           first == SelectSeq(InOrder, LAMBDA b : b \in Solid(block))
                    \o SelectSeq(InOrder, LAMBDA b : b \in edge)
       IN  /\ Len(first) < X * Y
           /\ walldist = [b \in Blocks |-> IF b \in Solid(block) THEN 0
                                           ELSE IF b \in edge THEN 2 ELSE maxdist]
           /\ q = [i \in 0 .. X * Y - 1 |-> IF i < Len(first) THEN first[i + 1] ELSE <<0, 0>>]
           /\ qfront = 0
           /\ qback = Len(first)

WallSpec == WallInit /\ [][Step]_wallVars

-----------------------------------------------------------------------------
Abs(n) == IF n < 0 THEN -n ELSE n

\* Half blocks from the wall w to b along the offset (dx, dy).
Cost(w, dx, dy) ==
    2 * Max({Abs(dx), Abs(dy)})
    + IF dx # 0 /\ block[w] \in Slopes /\ <<dx, dy>> = <<Abs(dx) * Faces[block[w]][1], Abs(dx) * Faces[block[w]][2]>>
      THEN 1 ELSE 0

Distance(b) ==
    LET images == IF wrap THEN {-1, 0, 1} ELSE {0}
        outside == IF wrap THEN {} ELSE {2 * Min({b[1] + 1, X - b[1], b[2] + 1, Y - b[2]})}
    IN  Min({maxdist} \cup (IF block[b] # "SPACE" THEN {0} ELSE outside)
            \cup {Cost(w, b[1] - w[1] + i * X, b[2] - w[2] + j * Y) :
                     w \in Solid(block), i \in images, j \in images})

\* "for each point the distance to the nearest wall ... Measured in blocks times 2": what
\* the search ends with is the least of the distances to all walls, and to the edges of
\* a map one cannot leave.  False where blocks found twice fill the queue, on a map of 4 by 4.
DistanceIsRight == qfront = qback => \A b \in Blocks : walldist[b] = Distance(b)
=============================================================================
