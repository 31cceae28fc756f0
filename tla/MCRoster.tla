-------------------------------- MODULE MCRoster --------------------------------
(* Instances of Roster small enough for TLC. *)
EXTENDS Roster, TLC

CONSTANTS h1, h2, h3, h4, r1, t0, t1, t2, b0, b1, b2, b3

MCHuman == {h1, h2, h3, h4}
MCHuman3 == {h1, h2, h3}
MCRobot == {r1}
MCTeam  == {t0, t1, t2}
MCBase  == {b0, b1, b2, b3}

\* One base of the pausers' team, two of the first team, one of the second.
MCBaseTeam == b0 :> t0 @@ b1 :> t1 @@ b2 :> t1 @@ b3 :> t2

Symm == Permutations(MCHuman)
Symm3 == Permutations(MCHuman3)
=============================================================================
