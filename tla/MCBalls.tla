-------------------------------- MODULE MCBalls --------------------------------
(* Instances of Balls small enough for TLC. *)
EXTENDS Balls, TLC

CONSTANTS p1, p2, t1, t2, x1, x2

MCPlayer   == {p1, p2}
MCTeam     == {t1, t2}
MCTeamSize == t1 :> 1 @@ t2 :> 1
TwoInTeam  == t1 :> 2 @@ t2 :> 1
MCTreasure == {x1, x2}
OneTreasure == {x1}
OneTreasureTeam == x1 :> t1
MCTreasureTeam == x1 :> t1 @@ x2 :> t2

Symm == Permutations(MCPlayer)
=============================================================================
