----------------------------- MODULE MetaServer -----------------------------
(***************************************************************************)
(* What the server tells the meta servers of its players (metaserver.cpp), *)
(* and when: Main_loop does it where players have come or gone, which it   *)
(* knows from four counters, or after three minutes.                       *)
(***************************************************************************)
EXTENDS Integers, Sequences, SequencesExt, FiniteSets

CONSTANTS
    MaxPlayers,
    NumBases,       \* team -> bases; team 0 is the pausers'
    MaxDelay        \* bound: META_UPDATE_DELAY_TICKS

VARIABLES
    players,        \* as the table has them: a team, and whether it is a human
    counters,       \* which of num_logins, num_logouts, num_pause, num_unpause are > 0
    info,           \* what was sent last: users, and free bases of each team
    meta_update_count,
    exchanged       \* whether since then a human has taken the place of a robot among the
                    \* paused, or a robot that of a human: not in the code

metaVars == <<players, counters, info, meta_update_count, exchanged>>

Teams  == DOMAIN NumBases
Active(pl) == pl.human /\ pl.team # 0
Users  == Cardinality({i \in DOMAIN players : Active(players[i])})

\* Players[i]: the table counts from 0.
At(i) == players[i + 1]

\* Player_remove puts the last player in the place of the one who leaves.
Without(P, i) == IF i = Len(P) THEN Front(P) ELSE Front([P EXCEPT ![i] = P[Len(P)]])

-----------------------------------------------------------------------------
Enter(team) ==
    /\ Len(players) < MaxPlayers
    /\ players' = Append(players, [human |-> TRUE, team |-> team])
    /\ counters' = counters \cup {"num_logins"}
    /\ UNCHANGED <<info, meta_update_count, exchanged>>

Depart(i) ==
    /\ players[i].human
    /\ players' = Without(players, i)
    /\ counters' = counters \cup {"num_logouts"}
    /\ UNCHANGED <<info, meta_update_count, exchanged>>

\* Nothing is told of robots.
Robot_add(team) ==
    /\ Len(players) < MaxPlayers
    /\ players' = Append(players, [human |-> FALSE, team |-> team])
    /\ UNCHANGED <<counters, info, meta_update_count, exchanged>>

Robot_remove(i) ==
    /\ ~players[i].human
    /\ players' = Without(players, i)
    /\ UNCHANGED <<counters, info, meta_update_count, exchanged>>

Pause(i) ==
    /\ Active(players[i])
    /\ players' = [players EXCEPT ![i].team = 0]
    /\ counters' = counters \cup {"num_pause"}
    /\ UNCHANGED <<info, meta_update_count, exchanged>>

\* Mutant: who comes back is not counted.
Unpause_Silent(i, team) ==
    /\ players[i].team = 0
    /\ players' = [players EXCEPT ![i].team = team]
    /\ UNCHANGED <<counters, info, meta_update_count, exchanged>>

\* Of a robot too, by an operator.
Unpause(i, team) ==
    /\ players[i].team = 0
    /\ players' = [players EXCEPT ![i].team = team]
    /\ counters' = counters \cup {"num_unpause"}
    /\ UNCHANGED <<info, meta_update_count, exchanged>>

\* By the command; not counted.
Change_team(i, team) ==
    /\ players[i].team # 0 /\ team # 0
    /\ players' = [players EXCEPT ![i].team = team]
    /\ UNCHANGED <<counters, info, meta_update_count, exchanged>>

\* With j, who is queued for the team that i leaves, and may be paused; an operator may
\* have queued or moved a robot.  Not counted.
Players_swap_teams(i, j) ==
    /\ i # j /\ players[i].team # 0
    /\ players' = [players EXCEPT ![i].team = players[j].team, ![j].team = players[i].team]
    /\ exchanged' = (exchanged \/ (players[j].team = 0 /\ players[i].human # players[j].human))
    /\ UNCHANGED <<counters, info, meta_update_count>>

-----------------------------------------------------------------------------
\* active_per_team[i]++ for the player of index i.
Meta_update ==
    info' = [users |-> Users,
             free  |-> [t \in Teams |->
                 NumBases[t] - IF t < Len(players) /\ Active(At(t)) THEN 1 ELSE 0]]

\* Of a real frame, after Input.
Main_loop ==
    /\ counters' = {}
    /\ IF counters # {} \/ meta_update_count <= 1
       THEN Meta_update /\ meta_update_count' = MaxDelay /\ exchanged' = FALSE
       ELSE meta_update_count' = meta_update_count - 1 /\ UNCHANGED <<info, exchanged>>
    /\ UNCHANGED players

MetaInit ==
    /\ players = <<>> /\ counters = {} /\ meta_update_count = 0 /\ exchanged = FALSE
    /\ info = [users |-> 0, free |-> NumBases]

MetaNext ==
    \/ Main_loop
    \/ \E team \in Teams :
           \/ Enter(team) \/ Robot_add(team)
           \/ \E i \in DOMAIN players : Unpause(i, team) \/ Change_team(i, team)
    \/ \E i, j \in DOMAIN players : Players_swap_teams(i, j)
    \/ \E i \in DOMAIN players :
           Depart(i) \/ Robot_remove(i) \/ Pause(i)

MetaSpec == MetaInit /\ [][MetaNext]_metaVars

-----------------------------------------------------------------------------
\* The meta servers have the right number of users unless something was counted that the
\* next frame tells them, or a human and a robot have changed places.
MetaKnows == counters = {} /\ ~exchanged => info.users = Users

\* "Update ... the information on meta servers if anyone enters or leaves the game. This
\* includes also pausing and unpausing" (server.cpp): false, a paused human who is queued
\* for the team of a robot that an operator moves unpauses in its place, and nothing is told.
PausingIsTold == counters = {} => info.users = Users

\* "calculate number of available homebases per team" (metaserver.cpp): false, players are
\* counted at their index in the table and not at their team.
FreeBasesPerTeam ==
    [][info' # info =>
        \A t \in Teams : info'.free[t] =
            NumBases[t] - Cardinality({i \in DOMAIN players : Active(players[i]) /\ players[i].team = t})]_metaVars
=============================================================================
