---------------------------- MODULE MCLoginQueue ----------------------------
(* Instances of LoginQueue small enough for TLC. *)
EXTENDS LoginQueue, TLC

CONSTANTS h1, h2, h3, r1, t0, t1, t2, b1, b2

MCHuman == {h1, h2, h3}
MCRobot == {r1}
MCTeam  == {t0, t1, t2}
MCBase  == {b1, b2}

\* The pausers' team has no base, each of the others has one.
MCBaseTeam == b1 :> t1 @@ b2 :> t2

\* Everybody has a name of its own; or two clients have the same, and the third that of
\* the robot.
MCDistinct == [p \in MCHuman \cup MCRobot |-> p]
MCTwins(a, b, c) == [MCDistinct EXCEPT ![c] = b, ![r1] = a]
MCNamings  ==
    {MCDistinct} \cup {MCTwins(t[1], t[2], t[3]) :
                          t \in {u \in MCHuman \X MCHuman \X MCHuman : Cardinality({u[1], u[2], u[3]}) = 3}}

\* Two of them fill what one host may have in the queue.
MCHostOf == [p \in MCHuman |-> "host"]

\* Names are given away, too, in all the ways.
Symm == Permutations(MCHuman)
=============================================================================
