----------------------------- MODULE Collisions -----------------------------
(***************************************************************************)
(* Collision_occured (collision.cpp): whether two objects that moved       *)
(* during a frame came nearer than r to each other, with the coordinates   *)
(* unwrapped where one of them crossed an edge of the map.                 *)
(*                                                                         *)
(* The division of the code, in double, is left out: its comparison is     *)
(* multiplied by the square of the denominator.                            *)
(***************************************************************************)
EXTENDS Integers

CONSTANTS
    W, H,   \* the size of the map, in pixels
    R,      \* the range
    Speed,  \* bound: how far an object moves in a frame, along each axis
    Rows    \* bound: the ordinates, some on either side of the edge

\* In what follows 2 * (R + 2 * Speed) is at most W and H: the map is large.

VARIABLES wrap, p1, p2, q1, q2      \* points <<x, y>>: index 1 prevpos, index 2 pos

hitVars == <<wrap, p1, p2, q1, q2>>

Size == <<W, H>>

-----------------------------------------------------------------------------
Crossed(a, b, n) == wrap /\ (IF a < b THEN b - a ELSE a - b) > n \div 2

\* Mutant: an object that does not cross the edge itself stays, whatever the other does.
Unwrapped_Alone(a1, a2, b1, b2, n) ==
    IF ~Crossed(a1, a2, n) THEN <<a1, a2>>
    ELSE IF a1 > a2 THEN <<a1 - n, a2>> ELSE <<a1, a2 - n>>

\* Along one axis: where the first of two objects that were at a1, b1 and are at a2, b2 is,
\* with the map unrolled.
Unwrapped(a1, a2, b1, b2, n) ==
    CASE Crossed(a1, a2, n) -> IF a1 > a2 THEN <<a1 - n, a2>> ELSE <<a1, a2 - n>>
      [] ~Crossed(a1, a2, n) /\ Crossed(b1, b2, n) /\ (a2 > n \div 2 \/ a1 > n \div 2)
                            -> <<a1 - n, a2 - n>>
      [] OTHER              -> <<a1, a2>>

\* Where q is from p, at the start and at the end, along axis i.
Between(i, t) ==
    LET p == Unwrapped(p1[i], p2[i], q1[i], q2[i], Size[i])
        q == Unwrapped(q1[i], q2[i], p1[i], p2[i], Size[i])
    IN  q[t] - p[t]

Collision_occured ==
    LET ex == Between(1, 2)
        ey == Between(2, 2)
        fac1 == Between(1, 1) - ex
        fac2 == Between(2, 1) - ey
        top == -(fac1 * ex + fac2 * ey)
        bot == fac1 * fac1 + fac2 * fac2
        fminx == ex * bot + fac1 * top
        fminy == ey * bot + fac2 * top
    IN  \/ ex * ex + ey * ey < R * R
        \/ /\ ~(top < 0 \/ bot < 1 \/ top > bot)
           /\ fminx * fminx + fminy * fminy < R * R * bot * bot

-----------------------------------------------------------------------------
Points == (0 .. W - 1) \X Rows

\* How far it is from a to b along an axis of n, the short way.
Way(a, b, n) ==
    LET d == b - a
    IN  CASE wrap /\ 2 * d > n  -> d - n
          [] wrap /\ 2 * d < -n -> d + n
          [] OTHER              -> d

Moves(a, b) == \A i \in {1, 2} : Way(a[i], b[i], Size[i]) \in -Speed .. Speed

\* Where objects can be, after a frame; bound: the one moves along one axis only.
HitInit ==
    /\ wrap \in BOOLEAN
    /\ p1 \in Points /\ p2 \in Points /\ Moves(p1, p2) /\ p1[2] = p2[2]
    /\ q1 \in Points /\ q2 \in Points /\ Moves(q1, q2)

HitSpec == HitInit /\ [][FALSE]_hitVars

-----------------------------------------------------------------------------
\* Steps in which a frame is looked at: a multiple of what a moment of least distance can
\* have as its denominator.
N == 20

\* The objects are nearer than R at the moment k, on the map or on one beside it.
Near(k) ==
    \E i, j \in IF wrap THEN {-1, 0, 1} ELSE {0} :
        LET Gap(a, b, c, d, n, s) == N * (c + s * n - a) + k * (Way(c, d, n) - Way(a, b, n))
            x == Gap(p1[1], p2[1], q1[1], q2[1], W, i)
            y == Gap(p1[2], p2[2], q1[2], q2[2], H, j)
        IN  x * x + y * y < R * R * N * N

\* At least one of the two crossed the edge that is between them, or there is none.
SameSide == ~wrap \/ \A i \in {1, 2} :
    \/ Crossed(p1[i], p2[i], Size[i]) \/ Crossed(q1[i], q2[i], Size[i])
    \/ LET d == q1[i] - p1[i] IN (IF d < 0 THEN -d ELSE d) + 2 * Speed + R <= Size[i]

\* What is hit was near, at some moment of the frame; and what was not near when the frame
\* began and came near during it is hit, however fast the two pass each other and
\* whichever of them goes over an edge of the map; on the same side of the edge at least.
HitsAreRight ==
    /\ Collision_occured => \E k \in 0 .. N : Near(k)
    /\ SameSide /\ ~Near(0) /\ (\E k \in 1 .. N : Near(k)) => Collision_occured

\* "accurate below half warp-speed" (collision.cpp): false, two objects at the two sides of
\* an edge do not meet unless one of them crosses it in this frame.
HitsAreAccurate == ~Near(0) /\ (\E k \in 1 .. N : Near(k)) => Collision_occured
=============================================================================
