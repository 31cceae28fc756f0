-------------------------------- MODULE MCRounds --------------------------------
(* Instances of Rounds small enough for TLC. *)
EXTENDS Rounds, TLC

CONSTANTS p1, p2, p3, t0, t1, t2, x1, x2

MCPlayer   == {p1, p2, p3}
MCTeam     == {t0, t1, t2}
MCTeamSize == t0 :> 0 @@ t1 :> 2 @@ t2 :> 1
MCTreasure == {x1, x2}
MCTreasureTeam == x1 :> t1 @@ x2 :> t2

Symm == Permutations(MCPlayer)
=============================================================================
