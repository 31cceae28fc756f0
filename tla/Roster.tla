-------------------------------- MODULE Roster --------------------------------
(***************************************************************************)
(* The players in the game, their teams and home bases, pausing, swapping  *)
(* teams and robots (player.cpp, team.cpp, robot.cpp, command.cpp), in     *)
(* team play.                                                              *)
(*                                                                         *)
(* A handler calls several functions that change the roster one after the  *)
(* other, so the roster is one record and the functions of the code are    *)
(* operators from rosters to rosters, composed as the code composes them.  *)
(* Which free base or robot a handler picks, and whether the course of the *)
(* round lets a player start at once, is a parameter or a choice.          *)
(***************************************************************************)
EXTENDS Integers, FiniteSets

CONSTANTS
    Human, Robot,       \* players that may be in the game
    Team, PauseTeam,    \* teams; PauseTeam is PAUSE_TEAM_NUM
    Base, BaseTeam,     \* bases and their teams
    RobotTeam,          \* option robotTeam, a valid team
    ReserveRobotTeam, RestrictRobots,   \* options
    MaxRobots,          \* option maxRobots
    MaxPaused,          \* MAX_PAUSED_PLAYERS
    None                \* NULL

Player == Human \cup Robot

ASSUME RosterAssumption ==
    /\ IsFiniteSet(Human) /\ IsFiniteSet(Robot) /\ IsFiniteSet(Base)
    /\ Human \cap Robot = {}
    /\ PauseTeam \in Team
    /\ RobotTeam \in Team \ {PauseTeam}
    /\ BaseTeam \in [Base -> Team]
    /\ None \notin Player \cup Team \cup Base
    /\ {ReserveRobotTeam, RestrictRobots} \subseteq BOOLEAN
    /\ MaxRobots \in Nat
    /\ MaxPaused \in Nat \ {0}

VARIABLE
    roster  \* state:   player -> "gone" (not in the game), "active" (alive,
            \*          appearing or killed), "out" (waiting or dead), "paused"
            \* team, home:  player -> team, home base
            \* NumMembers, Swapper:  team -> number of members, player queued
            \* NumPaused
            \* crash:   "none", or the place where NULL is dereferenced

InGame(r)     == {p \in Player : r.state[p] # "gone"}
Paused(r)     == {p \in Player : r.state[p] = "paused"}
Playing(r)    == InGame(r) \ Paused(r)
RobotsIn(r)   == Robot \cap InGame(r)
Members(r, t) == {p \in Player : r.team[p] = t}
BasesOf(t)    == {b \in Base : BaseTeam[b] = t}

\* The bases Team_pick_free_base chooses from.
FreeBases(r, t) == {b \in BasesOf(t) : \A p \in Player : r.home[p] # b}

\* What NumBases and NumMembers say.
HasRoom(r, t) == r.NumMembers[t] < Cardinality(BasesOf(t))

-----------------------------------------------------------------------------
(* Leaving: Player_remove, for every player of ps.                         *)

Removed(r, ps) ==
    [r EXCEPT
        !.state = [p \in Player |-> IF p \in ps THEN "gone" ELSE @[p]],
        !.team  = [p \in Player |-> IF p \in ps THEN None ELSE @[p]],
        !.home  = [p \in Player |-> IF p \in ps THEN None ELSE @[p]],
        !.NumMembers =
            [t \in Team |-> @[t] - Cardinality(ps \cap Members(r, t))],
        !.NumPaused = @ - Cardinality(ps \cap Paused(r)),
        !.Swapper = [t \in Team |-> IF @[t] \in ps THEN None ELSE @[t]]]

Crash(r, where) == [r EXCEPT !.crash = where]

-----------------------------------------------------------------------------
(* Joining and changing teams.                                             *)

\* Player_compute_entry_state.  Who is out stays out; whether anyone else may
\* play at once depends on the round, which is not modelled here.
EntryStates(r, p, t) ==
    IF t = PauseTeam THEN {"paused"}
    ELSE IF r.state[p] = "out" THEN {"out"} ELSE {"active", "out"}

\* Handle_login and Robot_add, when there is a base b.
Joined(r, p, t, b, s) ==
    [r EXCEPT !.team[p] = t, !.home[p] = b, !.state[p] = s, !.NumMembers[t] = @ + 1]

\* One if x is y.
One(x, y) == IF x = y THEN 1 ELSE 0

Moved(r, p, t, b, s) ==
    [r EXCEPT !.team[p] = t, !.home[p] = b, !.state[p] = s,
              !.NumMembers = [u \in Team |-> @[u] + One(t, u) - One(r.team[p], u)]]

\* The rosters Player_swap_team may leave: a player without a base is removed.
Player_swap_team(r, p, t) ==
    IF t = PauseTeam
    THEN {Moved(r, p, t, None, "paused")}
    ELSE IF FreeBases(r, t) = {}
    THEN {Removed(r, {p})}
    ELSE {Moved(r, p, t, b, s) : b \in FreeBases(r, t), s \in EntryStates(r, p, t)}

\* Mutant: the bases are not exchanged with the teams.
Players_swap_teams_KeepBases(r, p, q) ==
    LET x == [r EXCEPT !.team = [@ EXCEPT ![p] = r.team[q], ![q] = r.team[p]]]
    IN  {[x EXCEPT !.state = [@ EXCEPT ![p] = s1, ![q] = s2]]
            : s1 \in EntryStates(x, p, r.team[q]), s2 \in EntryStates(x, q, r.team[p])}

Exchanged(r, p, q) ==
    [r EXCEPT !.team = [@ EXCEPT ![p] = r.team[q], ![q] = r.team[p]],
              !.home = [@ EXCEPT ![p] = r.home[q], ![q] = r.home[p]]]

\* The rosters Players_swap_teams may leave.
Players_swap_teams(r, p, q) ==
    LET x == Exchanged(r, p, q)
    IN  {[x EXCEPT !.state = [@ EXCEPT ![p] = s1, ![q] = s2]]
            : s1 \in EntryStates(x, p, r.team[q]), s2 \in EntryStates(x, q, r.team[p])}

-----------------------------------------------------------------------------
(* Pausing.                                                                *)

FullOfPaused(r) == r.NumPaused >= MaxPaused

\* Player_pause_forced: when too many are paused, all of them are kicked first.
Player_pause_forced(r, p) ==
    IF r.state[p] = "paused" THEN {r}
    ELSE LET x == IF FullOfPaused(r) THEN Removed(r, Paused(r) \cap Human) ELSE r
         IN  {[y EXCEPT !.NumPaused = @ + 1] : y \in Player_swap_team(x, p, PauseTeam)}

\* Team_find_available for a human: among the teams with room, those that keep
\* the teams balanced; scores, which are not modelled, break ties, but never in
\* favour of RobotTeam.
Team_find_available(r) ==
    LET Barred == IF ReserveRobotTeam /\ RestrictRobots
                  THEN {PauseTeam, RobotTeam} ELSE {PauseTeam}
        Free == {t \in Team \ Barred : HasRoom(r, t)}
        playing == [t \in Team |-> Cardinality(Members(r, t) \cap Playing(r))]
        Populated == {t \in Team : playing[t] > 0}
        Smallest == {t \in Free \cap Populated :
                        \A u \in Free \cap Populated : playing[t] <= playing[u]}
        Balanced ==
            IF Cardinality(Populated) <= 1 THEN Free \ Populated
            ELSE IF \A t \in Smallest : playing[t] >= Cardinality(InGame(r))
                 THEN Free ELSE Smallest
        Available == IF Balanced = {} THEN Free ELSE Balanced
    IN  IF Cardinality(Available) > 1 THEN Available \ {RobotTeam} ELSE Available

\* Player_unpause to team t.  The count goes down whether or not the player
\* finds a base.
Player_unpause(r, p, t) ==
    {[x EXCEPT !.NumPaused = @ - 1] : x \in Player_swap_team(r, p, t)}

\* Player_change_home: a team mate whose base it is gets the player's.
Player_change_home(r, p, b) ==
    [r EXCEPT !.home = [q \in Player |-> IF q = p THEN b
                                         ELSE IF @[q] = b THEN @[p] ELSE @[q]]]

-----------------------------------------------------------------------------
(* /team.  Dequeued: the first thing Cmd_team does.  The rest depends on   *)
(* the first condition that holds.                                         *)

Dequeued(r, p) ==
    [r EXCEPT !.Swapper = [t \in Team |-> IF @[t] = p THEN None ELSE @[t]]]

Refused(r, p, t) ==
    \/ t = r.team[p]
    \/ BasesOf(t) = {}
    \/ ReserveRobotTeam /\ t = RobotTeam

\* Mutant: a full team is not noticed.
CmdTeam_NoFullCheck(r, p, t) ==
    IF Refused(r, p, t) THEN {r}
    ELSE IF r.Swapper[r.team[p]] # None
    THEN Players_swap_teams(r, p, r.Swapper[r.team[p]])
    ELSE IF r.state[p] = "paused" THEN {r} \cup Player_unpause(r, p, t)
    ELSE IF t = PauseTeam THEN {r} \cup Player_pause_forced(r, p)
    ELSE {r} \cup Player_swap_team(r, p, t)

\* A team that is full: exchange with someone who wants to come to our team, or
\* with a paused member of that team, or else queue.
CmdTeamFull(r, p, t) ==
    LET q == r.Swapper[r.team[p]]
        idle == {x \in Human \cap Paused(r) : r.team[x] = t}
    IN  IF q # None /\ r.team[q] = t THEN Players_swap_teams(r, p, q)
        ELSE IF idle # {} THEN UNION {Players_swap_teams(r, p, x) : x \in idle}
        ELSE {[r EXCEPT !.Swapper[t] = p]}

\* Whether the treasures are safe, or the pause delay over, is a choice.
CmdTeam(r, p, t) ==
    IF Refused(r, p, t) THEN {r}
    ELSE IF ~HasRoom(r, t) THEN CmdTeamFull(r, p, t)
    ELSE IF r.Swapper[r.team[p]] # None
    THEN Players_swap_teams(r, p, r.Swapper[r.team[p]])
    ELSE IF r.state[p] = "paused" THEN {r} \cup Player_unpause(r, p, t)
    ELSE IF t = PauseTeam THEN {r} \cup Player_pause_forced(r, p)
    ELSE {r} \cup Player_swap_team(r, p, t)

-----------------------------------------------------------------------------
(* Robots.                                                                 *)

\* Robot_add_remove; logins is login_in_progress.  A robot without a team is
\* removed before it has its data: Robot_destroy dereferences NULL.
MayAddRobot(r, logins) ==
    /\ Cardinality(RobotsIn(r)) < MaxRobots
    /\ Cardinality(InGame(r)) + logins < Cardinality(Base)
    /\ ~(RestrictRobots /\ ~HasRoom(r, RobotTeam))

Robot_added(r, p) ==
    IF ~HasRoom(r, RobotTeam) THEN {Crash(r, "Robot_destroy")}
    ELSE IF FreeBases(r, RobotTeam) = {} THEN {r}
    ELSE {Joined(r, p, RobotTeam, b, s)
            : b \in FreeBases(r, RobotTeam), s \in EntryStates(r, p, RobotTeam)}

\* Kick_robot_players(None): the robot with the lowest score outside the robot
\* team, or "a random robot", NULL, which Robot_kick dereferences.
Kick_any_robot(r) ==
    IF RobotsIn(r) = {} THEN {r}
    ELSE IF ~ReserveRobotTeam THEN {Crash(r, "Robot_kick")}
    ELSE LET low == {p \in RobotsIn(r) : r.team[p] # RobotTeam}
         IN  IF low = {} THEN {r} ELSE {Removed(r, {p}) : p \in low}

\* Kick_robot_players(t).
Kick_team_robot(r, t) ==
    LET low == {p \in RobotsIn(r) : r.team[p] = t}
    IN  IF low = {} THEN {r} ELSE {Removed(r, {p}) : p \in low}

-----------------------------------------------------------------------------
(* The handlers.                                                           *)

Running == roster.crash = "none"

Leave(p) ==
    /\ Running
    /\ p \in InGame(roster)
    /\ roster' = Removed(roster, {p})

\* A login for which there is a base.
Login(p, t) ==
    /\ Running
    /\ p \in Human \ InGame(roster)
    /\ \E b \in FreeBases(roster, t), s \in EntryStates(roster, p, t) :
           roster' = Joined(roster, p, t, b, s)

\* Cmd_team, by the player or by an operator.  Who wants to join the pausers must
\* be close to the home base, which a paused player does not have.
Cmd_team(p, t) ==
    /\ Running
    /\ p \in InGame(roster)
    /\ LET x == Dequeued(roster, p)
       IN  IF t = PauseTeam /\ roster.home[p] = None
           THEN roster' = Crash(x, "Player_is_close_to_base")
           ELSE \/ roster' \in CmdTeam(x, p, t)
                \/ t = PauseTeam /\ roster.state[p] = "active" /\ roster' = x

\* Cmd_pause of an operator, the pause key, idling.
Pause(p) ==
    /\ Running
    /\ p \in Human \cap InGame(roster)
    /\ roster' \in Player_pause_forced(roster, p)

\* The pause key of a paused player whose delay is over.
Unpause(p) ==
    /\ Running
    /\ p \in Human \cap Paused(roster)
    /\ \E t \in Team_find_available(roster) : roster' \in Player_unpause(roster, p, t)

\* The key to change the home base, on a base of the team.
Change_home(p, b) ==
    /\ Running
    /\ p \in Human /\ roster.state[p] = "active"
    /\ b # roster.home[p] /\ BaseTeam[b] = roster.team[p]
    /\ roster' = Player_change_home(roster, p, b)

Robot_add(p, logins) ==
    /\ Running
    /\ p \in Robot \ InGame(roster)
    /\ MayAddRobot(roster, logins)
    /\ roster' \in Robot_added(roster, p)

\* Deaths and new rounds.
Round(p, s) ==
    /\ Running
    /\ p \in Playing(roster)
    /\ s \in {"active", "out"}
    /\ roster' = [roster EXCEPT !.state[p] = s]

RosterInit ==
    roster = [state      |-> [p \in Player |-> "gone"],
              team       |-> [p \in Player |-> None],
              home       |-> [p \in Player |-> None],
              NumMembers |-> [t \in Team |-> 0],
              Swapper    |-> [t \in Team |-> None],
              NumPaused  |-> 0,
              crash      |-> "none"]

RosterNext ==
    \/ \E p \in Player :
           \/ Leave(p)
           \/ \E t \in Team \ {PauseTeam} : Login(p, t)
           \/ \E t \in Team : Cmd_team(p, t)
           \/ Pause(p)
           \/ Unpause(p)
           \/ \E b \in Base : Change_home(p, b)
           \/ Robot_add(p, 0)
           \/ \E s \in {"active", "out"} : Round(p, s)

RosterSpec == RosterInit /\ [][RosterNext]_roster

-----------------------------------------------------------------------------
(* Properties.                                                             *)

\* Types.
RosterTypeOK ==
    roster \in [state      : [Player -> {"gone", "active", "out", "paused"}],
                team       : [Player -> Team \cup {None}],
                home       : [Player -> Base \cup {None}],
                NumMembers : [Team -> Nat],
                Swapper    : [Team -> Player \cup {None}],
                NumPaused  : Nat,
                crash      : {"none", "Robot_destroy", "Robot_kick", "Handle_login",
                              "Player_is_close_to_base"}]

\* Every player in play has a home base of the team, to itself, and nobody else
\* holds a base.  Joining, swapping, exchanging with the queued player and
\* pausing hand the bases on, each in its own way.
BasesAreExclusive ==
    /\ \A p \in Player :
           /\ p \in Playing(roster) =>
                  roster.home[p] # None /\ BaseTeam[roster.home[p]] = roster.team[p]
           /\ p \notin Playing(roster) => roster.home[p] = None
    /\ \A p, q \in Playing(roster) : roster.home[p] = roster.home[q] => p = q

\* The counters agree with the roster: NumMembers, on which admission, swapping
\* and unpausing rely instead of looking at the bases, and NumPaused.  A paused
\* player is in the pausers' team and nobody else is.
CountersAgree ==
    /\ \A t \in Team : roster.NumMembers[t] = Cardinality(Members(roster, t))
    /\ roster.NumPaused = Cardinality(Paused(roster))
    /\ \A p \in Player :
           /\ p \in Paused(roster) <=> roster.team[p] = PauseTeam
           /\ p \in InGame(roster) <=> roster.team[p] # None

\* Nobody is ever removed for want of a base: a player who changes teams or
\* unpauses stays in the game ("Removing from game" in Player_swap_team is
\* never printed).
ChangingTeamsIsSafe ==
    [][\A p \in Player :
           (Unpause(p) \/ \E t \in Team \ {PauseTeam} : Cmd_team(p, t))
               => InGame(roster') = InGame(roster)]_roster

\* At most MAX_PAUSED_PLAYERS humans are paused, for whom there are connections
\* beyond the bases.  Robots that an operator has put among the pausers are never
\* kicked with them; were there MAX_PAUSED_PLAYERS of them, they would be counted
\* instead of humans, who then exchange places with them.
PausedFit == MaxRobots < MaxPaused => Cardinality(Human \cap Paused(roster)) <= MaxPaused

\* Teams, bases and counters fit together after any command, by anybody, in any order.
RosterSafe == RosterTypeOK /\ BasesAreExclusive /\ CountersAgree /\ PausedFit

\* Help of /team: "/team <team number> swaps you to given team".  Cmd_team
\* exchanges the player with whoever is queued for its own team.
TeamCommandObeyed ==
    [][\A p \in Player, t \in Team :
           Cmd_team(p, t) => roster'.team[p] \in {roster.team[p], t}]_roster

\* Cmd_team: the Swapper of a team is a "player, who is waiting to swap to the
\* team we are currently on".  Players_swap_teams leaves it queued.
SwapperWaits ==
    \A t \in Team : roster.Swapper[t] # None => roster.team[roster.Swapper[t]] # t

\* Cmd_team answers "You already are on team" to who asks for the team it is on.
\* A paused player who asks for the pausers' team has no base to be close to.
PausedMayAskForTeam == roster.crash # "Player_is_close_to_base"

\* Kick_robot_players: "kick random robot".
RobotIsKicked == roster.crash # "Robot_kick"

\* Robot_add: "Handle exceptions here".
RobotLeavesCleanly == roster.crash # "Robot_destroy"
=============================================================================
