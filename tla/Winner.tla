------------------------------- MODULE Winner -------------------------------
(***************************************************************************)
(* Which team has won when a round of team play is over because of the     *)
(* treasures (Update_game_status in update.cpp).  That the round goes on   *)
(* or ends otherwise, and what a win means, is the module Rounds.          *)
(***************************************************************************)
EXTENDS Integers, FiniteSets, FiniteSetsExt

CONSTANTS
    TeamNumbers,
    MaxDestroyed, MaxLeft, MaxPoints,   \* bounds
    Draw                                \* NULL

ASSUME WinAssumption ==
    /\ IsFiniteSet(TeamNumbers) /\ Draw \notin TeamNumbers
    /\ MaxDestroyed \in Nat /\ MaxLeft \in Nat /\ MaxPoints \in Nat

VARIABLES
    alive,      \* TeamAlive: teams with somebody alive or appearing
    destroyed,  \* TreasuresDestroyed: team -> treasures of others
    left,       \* TreasuresLeft: team -> own treasures in their boxes
    score       \* team -> the scores of its players who are not waiting

winVars == <<alive, destroyed, left, score>>

-----------------------------------------------------------------------------
\* The most of f among teams, and 0.
Most(f, teams) == Max({0} \cup {f[t] : t \in teams})

max_destroyed == Most(destroyed, alive)

Decided ==
    /\ Cardinality(alive) > 1
    /\ ~(Cardinality({t \in alive : left[t] > 0}) > 1 \/ max_destroyed = 0)

\* Mutant: the treasures of teams that have lost already count.
Remaining_AllLeft ==
    LET first  == {t \in alive : destroyed[t] = max_destroyed}
        second == {t \in first : left[t] = Most(left, alive)}
    IN  <<first, second, {t \in second : score[t] = Most(score, second)}>>

\* Who may still have won after each of the three loops.
Remaining ==
    LET first  == {t \in alive : destroyed[t] = max_destroyed}
        second == {t \in first : left[t] = Most(left, first)}
    IN  <<first, second, {t \in second : score[t] = Most(score, second)}>>

\* The team Team_game_over is called with: the only one after a loop, or a draw.
Winning_team ==
    LET single == {i \in 1 .. 3 : Cardinality(Remaining[i]) = 1}
    IN  IF single = {} THEN Draw ELSE CHOOSE t \in TeamNumbers : Remaining[Min(single)] = {t}

-----------------------------------------------------------------------------
WinInit ==
    /\ alive \in SUBSET TeamNumbers
    /\ destroyed \in [TeamNumbers -> 0 .. MaxDestroyed]
    /\ left \in [TeamNumbers -> 0 .. MaxLeft]
    /\ score \in [TeamNumbers -> -MaxPoints .. MaxPoints]
    /\ Decided

WinSpec == WinInit /\ [][FALSE]_winVars

-----------------------------------------------------------------------------
Better(t, u) ==
    \/ destroyed[t] > destroyed[u]
    \/ destroyed[t] = destroyed[u] /\ left[t] > left[u]
    \/ destroyed[t] = destroyed[u] /\ left[t] = left[u] /\ score[t] > score[u]

Best == {t \in alive : \A u \in alive \ {t} : Better(t, u)}

\* The team that wins is better than every other one that is alive, and if there is such
\* a team, which did not have to win by points below 0, it wins.
BestWins ==
    /\ Winning_team # Draw => Winning_team \in Best
    /\ \A t \in Best : score[t] > 0 => Winning_team = t

\* "Team destroying most number of treasures; If drawn; the one with most saved treasures,
\* If drawn; the team with the most points" (update.cpp): false, the search for the most
\* points begins with 0, and teams that all have fewer draw.
MostPointsWin == \A t \in Best : Winning_team = t
=============================================================================
