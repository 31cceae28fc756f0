-------------------------------- MODULE Rounds --------------------------------
(***************************************************************************)
(* Rounds of a team game with limited lives: the states of the players,    *)
(* their lives and deaths, the treasures, and how a round begins and ends  *)
(* (player.cpp, team.cpp, update.cpp, score.cpp, Main_loop of server.cpp). *)
(*                                                                         *)
(* The server has one thread.  Commands, keys, logins and logouts are      *)
(* handled between two frames (at = "input"); a frame is a fixed sequence  *)
(* of steps.  The two loops over the table of players in which players may *)
(* be removed take one step for each turn.                                 *)
(*                                                                         *)
(* Abstracted: positions.  Whether a ship recovers, crashes, is hit, takes *)
(* a ball or brings one home is a choice.  All players are humans: with a  *)
(* robot team the server is in practise mode and has no waiting.  Bases,   *)
(* queued exchanges and the admission of logins are in Roster.             *)
(***************************************************************************)
EXTENDS Integers, FiniteSets, Sequences, SequencesExt

CONSTANTS
    Player,
    Team, PauseTeam,
    TeamSize,               \* team -> number of bases
    Treasure, TreasureTeam, \* boxes and their teams; a ball is named by its box
    Lives,                  \* option worldLives
    MaxPaused,              \* MAX_PAUSED_PLAYERS
    RoundsToPlay,           \* option roundsToPlay, 0 for no limit
    MaxDestroyed,           \* bound: treasures a team destroys in a round
    MaxAway,                \* bound: balls out of their boxes
    MaxDestruct,            \* bound: players about to destroy themselves
    None                    \* NULL

ASSUME RoundsAssumption ==
    /\ IsFiniteSet(Player) /\ IsFiniteSet(Team) /\ IsFiniteSet(Treasure)
    /\ PauseTeam \in Team
    /\ TeamSize \in [Team -> Nat]
    /\ TreasureTeam \in [Treasure -> Team \ {PauseTeam}]
    /\ {Lives, MaxPaused, RoundsToPlay, MaxDestroyed, MaxAway, MaxDestruct} \subseteq Nat
    /\ None \notin Player \cup Team

VARIABLES
    game,   \* pl:     player -> [state, team, life,
            \*           deaths:     deaths less self_deaths,
            \*           recovering: recovery_count > 0,
            \*           destruct:   self_destruct_count > 0]
            \* order:  Players[0 .. NumPlayers - 1]
            \* NumPaused
            \* ball:   treasure -> [have: in its box, owner,
            \*                      expired: obj_life = 0]
            \* left, destroyed:  team -> TreasuresLeft, TreasuresDestroyed
            \* roundsPlayed, over:  over is limitedRoundsGameOver
            \* news:   num_logouts > 0 or num_pause > 0
    loop    \* at:     where the server is
            \* i:      entry of the loop of kills, counted from 1; turns taken in
            \*         that of a reset
            \* by:     who resets the round
            \* kicked: history: paused players were kicked in this frame

vars == <<game, loop>>

States == {"UNDEFINED", "WAITING", "APPEARING", "ALIVE", "KILLED", "DEAD", "PAUSED"}

NewPlayer == [state |-> "UNDEFINED", team |-> None, life |-> Lives, deaths |-> 0,
              recovering |-> FALSE, destruct |-> FALSE]

InGame(g) == {p \in Player : g.pl[p].state # "UNDEFINED"}
InState(g, S) == {p \in Player : g.pl[p].state \in S}

\* Player_is_active.
Active(g) == InGame(g) \ InState(g, {"PAUSED"})
OnTeam(g, t) == {p \in Player : g.pl[p].team = t}
NumTreasures(t) == Cardinality({x \in Treasure : TreasureTeam[x] = t})

Player_set_state(x, s) ==
    [x EXCEPT !.state = s,
              !.recovering = s \in {"APPEARING", "DEAD"} \/ (@ /\ s # "PAUSED")]

-----------------------------------------------------------------------------
(* Coming and going.                                                       *)

\* How far the round has come: a treasure is missing, or somebody was killed by
\* somebody else (Object_count_treasures_missing, Round_count_killed_players).
Advanced(g) ==
    \/ \E x \in Treasure : ~g.ball[x].have
    \/ \E p \in Active(g) : g.pl[p].deaths > 0

\* Mutant: the dead are forgotten.
Player_compute_entry_state_NoDead(g, p) ==
    LET x == g.pl[p] IN
    IF x.team = PauseTeam THEN "PAUSED"
    ELSE IF x.state = "WAITING" THEN "WAITING"
    ELSE IF x.state = "APPEARING" THEN "APPEARING" ELSE "ALIVE"

\* Player_compute_entry_state of p, whose team is the new one already.
Player_compute_entry_state(g, p) ==
    LET x == g.pl[p]
        num_active == Cardinality(Active(g) \cup {p})
        num_active_on_team == Cardinality(Active(g) \cap OnTeam(g, x.team))
        late == num_active > 1 /\ num_active_on_team + 1 # num_active /\ Advanced(g)
    IN  IF x.team = PauseTeam THEN "PAUSED"
        ELSE IF x.state \in {"DEAD", "WAITING"} \/ late THEN "WAITING"
        ELSE IF x.state = "APPEARING" THEN "APPEARING" ELSE "ALIVE"

\* The end of Player_swap_team, Players_swap_teams and Handle_login.
Entered(g, p) ==
    [g EXCEPT !.pl[p] = Player_set_state(@, Player_compute_entry_state(g, p))]

Player_swap_team(g, p, t) == Entered([g EXCEPT !.pl[p].team = t], p)

\* The last entry of the table takes the place of the one that is removed.
Without(order, p) ==
    LET n == Len(order)
    IN  [j \in 1 .. n - 1 |-> IF order[j] = p THEN order[n] ELSE order[j]]

\* Destroy_connection with Player_remove.
Player_remove(g, p) ==
    [g EXCEPT !.pl[p] = NewPlayer,
              !.order = Without(@, p),
              !.NumPaused = IF g.pl[p].state = "PAUSED" THEN @ - 1 ELSE @,
              !.ball = [x \in Treasure |->
                           IF @[x].owner = p THEN [@[x] EXCEPT !.owner = None] ELSE @[x]],
              !.news = TRUE]

\* From the last entry of the table to the first.
Players_kick_paused(g) ==
    FoldLeft(LAMBDA h, p : IF g.pl[p].state = "PAUSED" THEN Player_remove(h, p) ELSE h,
             g, Reverse(g.order))

MustKick(g, p) == g.pl[p].state # "PAUSED" /\ g.NumPaused >= MaxPaused

Player_pause_forced(g, p) ==
    IF g.pl[p].state = "PAUSED" THEN g
    ELSE LET h == IF MustKick(g, p) THEN Players_kick_paused(g) ELSE g
         IN  [Player_swap_team(h, p, PauseTeam) EXCEPT
                 !.pl[p] = [@ EXCEPT !.deaths = 0, !.life = Lives],
                 !.NumPaused = @ + 1,
                 !.news = TRUE]

-----------------------------------------------------------------------------
(* Dying.                                                                  *)

Player_destroy(x) ==
    LET y == [x EXCEPT !.deaths = @ + 1]
    IN  IF x.life = 0 THEN Player_set_state(y, "DEAD")
        ELSE Player_set_state([y EXCEPT !.life = @ - 1], "APPEARING")

\* What Update_players and Collision_players_check do to one player, given who
\* recovers, whose self destruction is due, who dies and who dies by its own fault.
Updated(x, recovers, explodes, dies, suicide) ==
    LET home == IF recovers
                THEN [x EXCEPT !.recovering = FALSE,
                               !.state = IF @ = "APPEARING" THEN "ALIVE" ELSE @]
                ELSE x
        boom == IF explodes
                THEN [Player_destroy([home EXCEPT !.destruct = FALSE]) EXCEPT
                         !.deaths = @ - 1]
                ELSE home
    IN  IF dies
        THEN [Player_set_state(boom, "KILLED") EXCEPT
                 !.deaths = IF suicide THEN @ - 1 ELSE @]
        ELSE boom

-----------------------------------------------------------------------------
(* The end of a round.                                                     *)

TeamsOf(g, P) == {g.pl[p].team : p \in P}

\* Game_compute_team_stats.
AliveTeams(g) == TeamsOf(g, InState(g, {"ALIVE", "APPEARING"}))
DeadTeams(g)  == TeamsOf(g, InState(g, {"DEAD", "WAITING"})) \ AliveTeams(g)

\* More than one team is alive, but a treasure was destroyed and at most one of
\* them has one left.
TreasuresDecide(g) ==
    /\ \E t \in AliveTeams(g) : g.destroyed[t] > 0
    /\ Cardinality({t \in AliveTeams(g) : g.left[t] > 0}) <= 1

\* Mutant: a team that waits for itself waits for ever.
RoundIsOver_KeepWaiting(g) ==
    IF Cardinality(AliveTeams(g)) > 1 THEN TreasuresDecide(g)
    ELSE DeadTeams(g) # {}

\* Update_game_status.
RoundIsOver(g) ==
    IF Cardinality(AliveTeams(g)) > 1 THEN TreasuresDecide(g)
    ELSE \/ DeadTeams(g) # {}
         \/ /\ InState(g, {"DEAD", "WAITING"}) # {}
            /\ \E t \in AliveTeams(g) : Active(g) \subseteq OnTeam(g, t)

\* Players_reset for the player whose turn it is, unless it is idle.
Restarted(x) ==
    Player_set_state([x EXCEPT !.deaths = 0, !.life = Lives], "APPEARING")

\* Objects_time_out and Teams_reset.
WorldReset(g) ==
    [g EXCEPT !.ball = [x \in Treasure |-> [@[x] EXCEPT !.expired = TRUE]],
              !.left = [t \in Team |-> NumTreasures(t)],
              !.destroyed = [t \in Team |-> 0]]

\* Rounds_count and Game_Over, which makes everybody in the table wait.
RoundCounted(g) ==
    IF RoundsToPlay = 0 THEN g
    ELSE LET n == g.roundsPlayed + 1
             h == [g EXCEPT !.roundsPlayed = n]
         IN  IF n < RoundsToPlay THEN h
             ELSE [h EXCEPT
                      !.pl = [p \in Player |-> IF p \in InGame(g)
                                               THEN Player_set_state(@[p], "WAITING") ELSE @[p]],
                      !.over = TRUE]

-----------------------------------------------------------------------------
(* Between the frames.                                                     *)

Rest == [at |-> "input", i |-> 0, by |-> "round", kicked |-> FALSE]

Input == loop.at = "input"
Between == Input /\ UNCHANGED loop

\* Somebody without a home base is sent or measured against it.
Crash == loop' = [loop EXCEPT !.at = "crashed"] /\ UNCHANGED game

Room(t) == t # PauseTeam /\ Cardinality(OnTeam(game, t)) < TeamSize[t]

Login(p, t) ==
    /\ Between
    /\ p \notin InGame(game) /\ Room(t)
    /\ game' = Entered([game EXCEPT !.pl[p].team = t, !.order = Append(@, p)], p)

Leave(p) ==
    /\ Between
    /\ p \in InGame(game)
    /\ game' = Player_remove(game, p)

\* Nobody changes teams or pauses on its own while a treasure of its team is
\* missing, unless it waits or its team is alone.
MayMove(p) ==
    LET t == game.pl[p].team IN
    \/ game.pl[p].state = "WAITING"
    \/ \A x \in Treasure : TreasureTeam[x] = t => game.ball[x].have
    \/ Active(game) \subseteq OnTeam(game, t)

\* /team.
Swap(p, t) ==
    /\ Between
    /\ p \in Active(game)
    /\ t # game.pl[p].team /\ Room(t)
    /\ MayMove(p)
    /\ game' = Player_swap_team(game, p, t)

\* /team, when another player is queued for the team of p.
Exchange(p, q) ==
    /\ Between
    /\ {p, q} \subseteq Active(game)
    /\ game.pl[p].team # game.pl[q].team
    /\ LET g == [game EXCEPT !.pl = [@ EXCEPT ![p].team = game.pl[q].team,
                                              ![q].team = game.pl[p].team]]
       IN  game' = Entered(Entered(g, p), q)

\* The pause key: who is neither dead nor waiting must be close to its base, which
\* is tested first.
Pause_self(p) ==
    /\ Input
    /\ p \in Active(game)
    /\ IF game.pl[p].team = PauseTeam THEN Crash
       ELSE /\ MayMove(p)
            /\ game' = Player_pause_forced(game, p)
            /\ UNCHANGED loop

\* /pause of an operator.
Cmd_pause(p) ==
    /\ Between
    /\ p \in Active(game)
    /\ game' = Player_pause_forced(game, p)

\* The pause delay is over, or the choice is not taken.
Unpause(p, t) ==
    /\ Between
    /\ p \in InState(game, {"PAUSED"}) /\ Room(t)
    /\ game' = [Player_swap_team(game, p, t) EXCEPT !.NumPaused = @ - 1]

\* The key of self destruction, of who is alive; it stops it again.
Self_destruct(p) ==
    /\ Between
    /\ p \in InState(game, {"ALIVE"})
    /\ Cardinality({q \in Player \ {p} : game.pl[q].destruct}) < MaxDestruct
    /\ game' = [game EXCEPT !.pl[p].destruct = ~@]

\* /reset of an operator.
Cmd_reset ==
    /\ Input
    /\ InGame(game) # {}
    /\ loop' = [loop EXCEPT !.at = "reset", !.by = "operator"]
    /\ UNCHANGED game

-----------------------------------------------------------------------------
(* A frame.                                                                *)

\* The balls that can be cashed: brought to a box of the owner's team.
Cashable ==
    {x \in Treasure :
        LET b == game.ball[x] IN
        /\ ~b.have /\ ~b.expired /\ b.owner # None
        /\ \E y \in Treasure \ {x} : TreasureTeam[y] = game.pl[b.owner].team}

\* SCORE_LegacyBallCash counts the treasure only if the losers have players.
Counts(x) ==
    OnTeam(game, TreasureTeam[x]) \cap InState(game, {"ALIVE", "APPEARING", "DEAD"}) # {}

Destroys(t, cashed) ==
    Cardinality({x \in cashed : Counts(x) /\ game.pl[game.ball[x].owner].team = t})
Loses(t, cashed) ==
    Cardinality({x \in cashed : Counts(x) /\ TreasureTeam[x] = t})

\* Mutant: the game is not cleaned up when the last player pauses.
NobodyPlays_NoPausers(g) == g.news /\ Len(g.order) = 0

\* Main_loop: "when the last player leaves the game".
NobodyPlays(g) == g.news /\ Len(g.order) - g.NumPaused = 0

\* The beginning of Main_loop, and Update_mobile_objects: balls are cashed, go
\* back to a box or are lost.
Move_balls ==
    /\ Input
    /\ IF NobodyPlays(game)
       THEN /\ game' = [WorldReset(game) EXCEPT !.news = FALSE]
            /\ loop' = [loop EXCEPT !.at = IF game.order = <<>> THEN "input" ELSE "update"]
       ELSE /\ game.order # <<>>
            /\ \E lost \in SUBSET {x \in Treasure : ~game.ball[x].have} :
               \E cashed \in SUBSET (lost \cap Cashable) :
                   LET done == {t \in Team : game.destroyed[t] + Destroys(t, cashed) > MaxDestroyed}
                   IN  /\ done = {}
                       /\ game' = [game EXCEPT
                              !.ball = [x \in Treasure |->
                                  IF x \in lost THEN [@[x] EXCEPT !.expired = TRUE] ELSE @[x]],
                              !.left = [t \in Team |-> @[t] - Loses(t, cashed)],
                              !.destroyed = [t \in Team |-> @[t] + Destroys(t, cashed)],
                              !.news = FALSE]
            /\ loop' = [loop EXCEPT !.at = "update"]

\* The balls as p takes that of box x.  A player does not begin to take the ball of
\* its own team out of its box; but one that had begun while the ball was loose goes on
\* when it has been put back, so that every ball may be taken.
Taken(g, p, x) ==
    [g EXCEPT !.ball[x] = [@ EXCEPT !.owner = p, !.have = FALSE,
                                    !.expired = g.ball[x].expired /\ ~g.ball[x].have]]
MayTake(g, x) == Cardinality({y \in Treasure \ {x} : ~g.ball[y].have}) < MaxAway

\* The loop of Players_handle_after_kill walks down.  The next turn, at entry i or
\* below, in which there is something to do, and 0 if there is none.
Killed(g, i) == {j \in 1 .. i : j <= Len(g.order) /\ g.pl[g.order[j]].state = "KILLED"}

\* Mutant: the loop forgets the first player.
NextTurn_Early(g, i) == Max({0} \cup (Killed(g, i) \ {1}))

NextTurn(g, i) == Max({0} \cup Killed(g, i))

ToTurn(g, i, kicks) ==
    [loop EXCEPT !.at = IF NextTurn(g, i) = 0 THEN "status" ELSE "kill",
                 !.i = NextTurn(g, i),
                 !.kicked = @ \/ kicks]

\* Who recovers in a frame, in which it may happen.  When it happens to somebody who
\* is neither appearing nor about to destroy itself makes no difference: at once.
Recoveries ==
    LET recovering == {p \in Player : game.pl[p].recovering}
    IN  {recovering \ later : later \in
            SUBSET {p \in recovering : game.pl[p].state = "APPEARING" \/ game.pl[p].destruct}}

\* Update_players, and Collision_players_check, in which at most one ball is taken.
Update ==
    /\ loop.at = "update"
    /\ IF \E p \in InGame(game) : game.pl[p].recovering /\ game.pl[p].team = PauseTeam
       THEN Crash
       ELSE
       \E recovers \in Recoveries :
       \E explodes \in SUBSET {p \in Active(game) :
              game.pl[p].destruct /\ (game.pl[p].recovering => p \in recovers)} :
       LET before == [p \in Player |->
                         Updated(game.pl[p], p \in recovers, p \in explodes, FALSE, FALSE)]
       IN
       \E dies \in SUBSET {p \in Player : before[p].state = "ALIVE"} :
       \E suicides \in SUBSET dies :
       LET after == [p \in Player |-> Updated(game.pl[p], p \in recovers, p \in explodes,
                                              p \in dies, p \in suicides)]
           g == [game EXCEPT !.pl = after]
       IN  /\ \/ game' = g
              \/ \E x \in Treasure, p \in {q \in Player : before[q].state = "ALIVE"} :
                     MayTake(g, x) /\ game' = Taken(g, p, x)
           /\ loop' = ToTurn(game', Len(game.order), FALSE)

\* Player_idle_timed_out: nobody idles alone.
MayIdle(g) == {FALSE, Len(g.order) > 1}

\* Players_handle_after_kill.
After_kill ==
    /\ loop.at = "kill"
    /\ LET p == game.order[loop.i]
           g == [game EXCEPT !.pl[p] = Player_destroy(@)]
       IN  \E idle \in MayIdle(game) :
              /\ game' = IF idle THEN Player_pause_forced(g, p) ELSE g
              /\ loop' = ToTurn(game', loop.i - 1, idle /\ MustKick(g, p))

\* Update_game_status, when the round goes on.
Status ==
    /\ loop.at = "status"
    /\ game.over \/ ~RoundIsOver(game)
    /\ loop' = [loop EXCEPT !.at = "end"]
    /\ UNCHANGED game

\* Team_game_over and Cmd_reset begin with Players_reset.
Resetting ==
    \/ loop.at = "status" /\ ~game.over /\ RoundIsOver(game)
    \/ loop.at = "reset"

\* One turn of Players_reset, from the first player to the last.
Reset_player ==
    /\ Resetting /\ loop.i < Len(game.order)
    /\ LET p == game.order[loop.i + 1]
           plays == game.pl[p].state \in {"ALIVE", "APPEARING"}
       IN  \E idle \in MayIdle(game) :
              /\ idle => plays
              /\ game' = IF game.pl[p].state = "PAUSED" THEN game
                         ELSE IF idle THEN Player_pause_forced(game, p)
                         ELSE [game EXCEPT !.pl[p] = Restarted(@)]
              /\ loop' = [loop EXCEPT !.at = "reset",
                                      !.i = @ + 1,
                                      !.kicked = @ \/ (idle /\ MustKick(game, p))]

\* The rest of Team_game_over or of Cmd_reset.
Reset_done ==
    /\ loop.at = "reset" /\ loop.i >= Len(game.order)
    /\ LET g == WorldReset(game) IN
       IF loop.by = "round"
       THEN /\ game' = RoundCounted(g)
            /\ loop' = [loop EXCEPT !.at = "end"]
       ELSE /\ \/ game' = [g EXCEPT !.over = FALSE]
               \/ game' = [g EXCEPT !.over = FALSE, !.roundsPlayed = 0]
            /\ loop' = Rest

\* Objects_remove_timed_out: a ball that has expired is put back into its box.
End_frame ==
    /\ loop.at = "end"
    /\ game' = [game EXCEPT !.ball = [x \in Treasure |->
                   IF @[x].expired THEN [have |-> TRUE, owner |-> None, expired |-> FALSE]
                   ELSE @[x]]]
    /\ loop' = Rest

Init ==
    /\ game = [pl |-> [p \in Player |-> NewPlayer],
               order |-> <<>>,
               NumPaused |-> 0,
               ball |-> [x \in Treasure |->
                            [have |-> TRUE, owner |-> None, expired |-> FALSE]],
               left |-> [t \in Team |-> NumTreasures(t)],
               destroyed |-> [t \in Team |-> 0],
               roundsPlayed |-> 0,
               over |-> FALSE,
               news |-> FALSE]
    /\ loop = Rest

Next ==
    \/ \E p \in Player :
           \/ Leave(p)
           \/ \E t \in Team : Login(p, t) \/ Swap(p, t) \/ Unpause(p, t)
           \/ \E q \in Player : Exchange(p, q)
           \/ Pause_self(p)
           \/ Cmd_pause(p)
           \/ Self_destruct(p)
    \/ Cmd_reset
    \/ Move_balls
    \/ Update
    \/ After_kill
    \/ Status
    \/ Reset_player
    \/ Reset_done
    \/ End_frame

Spec == Init /\ [][Next]_vars

-----------------------------------------------------------------------------
(* Properties.                                                             *)

\* Types.  Nobody dies more often than it has lives.
TypeOK ==
    /\ game \in [pl : [Player -> [state : States, team : Team \cup {None},
                                  life : 0 .. Lives, deaths : -1 .. Lives + 1,
                                  recovering : BOOLEAN, destruct : BOOLEAN]],
                 order : Seq(Player),
                 NumPaused : Nat,
                 ball : [Treasure -> [have : BOOLEAN, owner : Player \cup {None},
                                      expired : BOOLEAN]],
                 left : [Team -> Int], destroyed : [Team -> 0 .. MaxDestroyed],
                 roundsPlayed : Nat, over : BOOLEAN, news : BOOLEAN]
    /\ loop \in [at : {"input", "update", "kill", "status", "reset", "end", "crashed"},
                 i : Nat, by : {"round", "operator"},
                 kicked : BOOLEAN]

\* Main_loop: "Here no player should be in PL_STATE_KILLED any more."  The loop
\* that sees to it may pause an idle player in the middle, which may remove any number
\* of others and move the entries of the table about under its index.
NobodyStaysKilled ==
    loop.at \notin {"kill", "crashed"} => InState(game, {"KILLED"}) = {}

\* A frame does not end with somebody waiting for a round that nobody plays any
\* more: either two teams are alive or everybody who is not paused plays.  Players
\* leave, pause and change teams and thereby decide rounds without a kill.  When
\* paused players are kicked in the middle of Players_reset, an entry is moved to
\* a place the loop has passed, and its player waits for another frame.
RoundGoesOn ==
    loop.at = "end" /\ ~game.over /\ ~loop.kicked
        => \/ Cardinality(AliveTeams(game)) > 1
           \/ InState(game, {"DEAD", "WAITING"}) = {}

\* The paused are those of the pausers' team, as many as are counted, whether they
\* came there by the key, by a command, by idling at a death or at the end of a round.
PausersAgree ==
    /\ \A p \in Player : game.pl[p].state = "PAUSED" <=> game.pl[p].team = PauseTeam
    /\ game.NumPaused = Cardinality(InState(game, {"PAUSED"}))

\* Who is dead plays again only after a new round has begun, and a ship that was destroyed
\* only after it has recovered: no key, no command, no change of teams, no pause and no
\* reset brings a player straight back.
DeadStayOut ==
    [][\A p \in Player :
           LET Now == game.pl[p].state
               Next_ == game'.pl[p].state
           IN  /\ Now = "DEAD" /\ Next_ \in {"APPEARING", "ALIVE", "KILLED"} => Resetting
               /\ Now = "APPEARING" /\ Next_ = "ALIVE" => loop.at = "update"]_vars

\* A frame that begins with nobody playing leaves no trace of the last round: the
\* next player finds every team with all its treasures.
EmptyGameIsClean ==
    loop.at = "update" /\ Active(game) = {} =>
        \A t \in Team : game.destroyed[t] = 0 /\ game.left[t] = NumTreasures(t)

\* The owner of a ball is a player in the game: the ball of who left is nobody's, so
\* that it cannot be cashed for a player that is not there.
OwnersAreInGame ==
    \A x \in Treasure : game.ball[x].owner # None => game.ball[x].owner \in InGame(game)

\* The accounts of the rounds - who is paused, who owns which ball, what a team has lost -
\* are right in the middle of every frame.
RoundsSafe == TypeOK /\ PausersAgree /\ EmptyGameIsClean /\ OwnersAreInGame

\* Players_reset resets "active players".  Game_Over makes the paused wait as well,
\* who have no home base to return to or to be close to.
OnlyActiveAreReset == loop.at # "crashed"

\* Player_compute_entry_state: who waits "has to wait till the end of round".  A
\* self destruction begun before is not stopped, and Player_destroy brings back.
WaitersWait ==
    [][\A p \in Player :
           game.pl[p].state = "WAITING" /\ game'.pl[p].state \in {"APPEARING", "ALIVE"}
               => Resetting]_vars

\* Players_reset: "Reset all active players at the end of round".  Those whose entry
\* is moved down while paused players are kicked are passed over.
EverybodyIsReset ==
    loop.at = "end" /\ loop.i > 0 => \A p \in Active(game) : game.pl[p].state = "APPEARING"
=============================================================================
