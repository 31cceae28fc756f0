--------------------------------- MODULE Balls ---------------------------------
(***************************************************************************)
(* The pool of objects and what happens to the balls in it: players take   *)
(* balls, carry, drop and lose them, shots are fired, ships explode, and   *)
(* what has expired is removed at the end of a frame, a ball to be created *)
(* again in its box (object.cpp, shot.cpp, collision.cpp, ship.cpp).       *)
(*                                                                         *)
(* Objects are structures that never move in memory.  The pool is that of  *)
(* ObjectPool, as AbstractPool presents it: a stack of free structures.    *)
(* Players refer to the ball they are about to take by its structure.      *)
(*                                                                         *)
(* Only one frame of frameDivisor is real.  The others move the objects    *)
(* and remove what has expired, but look for no collision with a ship.     *)
(*                                                                         *)
(* Abstracted: positions.  What a ship or an object meets is a choice.     *)
(* Sparks, debris and wreckage are one type.  Lives and rounds are those   *)
(* of Rounds: here a player that does not play is idle.                    *)
(***************************************************************************)
EXTENDS Integers, FiniteSets, Sequences, SequencesExt

CONSTANTS
    Player, Team,
    TeamSize,               \* team -> number of bases
    Treasure, TreasureTeam, \* boxes and their teams
    MaxObjects,             \* MAX_TOTAL_OBJECTS
    frameDivisor,           \* option
    keepShots,              \* option
    Destroys,               \* option treasureCollisionDestroys
    ShotsMax,               \* option maxPlayerShots
    MaxDebris,              \* bound: particles of an explosion
    MaxMet,                 \* bound: objects that meet something at a time
    None                    \* NULL

ASSUME BallsAssumption ==
    /\ IsFiniteSet(Player) /\ IsFiniteSet(Treasure)
    /\ TeamSize \in [Team -> Nat]
    /\ TreasureTeam \in [Treasure -> Team]
    /\ MaxObjects \in Nat /\ Cardinality(Treasure) <= MaxObjects
    /\ frameDivisor \in Nat \ {0}
    /\ {ShotsMax, MaxDebris, MaxMet} \subseteq Nat
    /\ {keepShots, Destroys} \subseteq BOOLEAN
    /\ None \notin Player \cup Team \cup Treasure \cup (1 .. MaxObjects)

VARIABLES
    game,   \* pl:      player -> [state, team, shots,
            \*            connector: USES_CONNECTOR, has: HAS_BALL, ball_tmp]
            \* order:   Players[0 .. NumPlayers - 1]
            \* free:    Obj[NumObjs .. MAX_TOTAL_OBJECTS - 1], a stack
            \* ob:      structure -> [type, owner, attached, treasure,
            \*            expired: obj_life <= 0]
            \* have:    treasure -> its ball is in the box
    loop    \* at:      where the server is
            \* i:       the player whose collisions are next
            \* frame_cycle

vars == <<game, loop>>

Struct == 1 .. MaxObjects
Wiped == [type |-> "none", owner |-> None, attached |-> FALSE, treasure |-> None,
          expired |-> TRUE]
NewPlayer == [state |-> "out", team |-> None, shots |-> 0, connector |-> FALSE,
              has |-> FALSE, ball_tmp |-> None]

Objects(g) == Struct \ Range(g.free)
BallsOf(g) == {s \in Objects(g) : g.ob[s].type = "ball"}
CarriedBy(g, p) == {s \in BallsOf(g) : g.ob[s].attached /\ g.ob[s].owner = p}
Alive(g) == {p \in Player : g.pl[p].state = "alive"}
InGame(g) == {p \in Player : g.pl[p].state # "out"}
\* The sets of objects that may meet a wall, a box or a ship.
Few(S) == {s \in SUBSET S : Cardinality(s) <= MaxMet}

Frame_is_real == loop.frame_cycle = 0

-----------------------------------------------------------------------------
(* The pool.                                                               *)

\* Object_add and the fields its caller sets; nothing when the pool is full.
Object_add(g, x) ==
    IF g.free = <<>> THEN g
    ELSE [g EXCEPT !.free = Tail(@), !.ob[Head(g.free)] = x]

Object_of(type, p) ==
    [Wiped EXCEPT !.type = type, !.owner = p, !.expired = FALSE]

Ball_treasure_add(g, t) ==
    IF g.free = <<>> THEN g
    ELSE [Object_add(g, [Object_of("ball", None) EXCEPT !.treasure = t]) EXCEPT
             !.have[t] = TRUE]

\* The balls p carries, or ball b alone, are dropped; they keep their owner.
Ball_detach(g, p, b) ==
    LET h == IF b = None \/ b = g.pl[p].ball_tmp
             THEN [g EXCEPT !.pl[p] = [@ EXCEPT !.ball_tmp = None, !.connector = FALSE]]
             ELSE g
        dropped == IF b = None THEN CarriedBy(g, p) ELSE CarriedBy(g, p) \cap {b}
    IN  IF ~g.pl[p].has THEN h
        ELSE [h EXCEPT !.ob = [s \in Struct |->
                             [h.ob[s] EXCEPT !.attached = @ /\ s \notin dropped]],
                       !.pl[p].has = CarriedBy(g, p) # dropped]

\* Somebody else may still be about to take the ball: forgotten only when nobody
\* carries it.
Forgotten(g, s) ==
    IF g.ob[s].attached THEN Ball_detach(g, g.ob[s].owner, s)
    ELSE [g EXCEPT !.pl = [p \in Player |->
             IF @[p].ball_tmp = s THEN [@[p] EXCEPT !.ball_tmp = None] ELSE @[p]]]

Vacated(g, s) == [g EXCEPT !.free = <<s>> \o @, !.ob[s] = Wiped]

Object_remove(g, s) ==
    LET x == g.ob[s]
        h == CASE x.type = "ball" -> [Forgotten(g, s) EXCEPT !.have[x.treasure] = FALSE]
               [] x.type = "shot" /\ x.owner # None ->
                      [g EXCEPT !.pl[x.owner].shots = IF @ > 1 THEN @ - 1 ELSE 0]
               [] OTHER -> g
    IN  Vacated(h, s)

Object_expire(g, S) ==
    [g EXCEPT !.ob = [s \in Struct |-> [g.ob[s] EXCEPT !.expired = @ \/ s \in S]]]

Objects_time_out(g) == Object_expire(g, Objects(g))

\* Mutant: the ball is created again only if there was room before.
RemoveTurn_NoRoom(g, s) ==
    LET x == g.ob[s]
        h == Object_remove(g, s)
    IN  IF x.type = "ball" /\ g.free # <<>> THEN Ball_treasure_add(h, x.treasure) ELSE h

\* What has reached the end of its life is removed, and a ball created again.
RemoveTurn(g, s) ==
    LET x == g.ob[s]
        h == Object_remove(g, s)
    IN  IF x.type = "ball" THEN Ball_treasure_add(h, x.treasure) ELSE h

\* Objects_remove_timed_out; particles age in real frames only.
Objects_remove_timed_out(g, due) ==
    FoldSet(LAMBDA s, h : RemoveTurn(h, s), g,
            {s \in Objects(g) : /\ (g.ob[s].expired \/ s \in due)
                               /\ (Frame_is_real \/ g.ob[s].type # "debris")})

-----------------------------------------------------------------------------
(* Players.                                                                *)

\* The last entry of the table takes the place of the one that is removed.
Without(order, p) ==
    LET n == Len(order)
    IN  [j \in 1 .. n - 1 |-> IF order[j] = p THEN order[n] ELSE order[j]]

\* Mutant: who leaves keeps what it owns.
Disowned_Owned(g, p) ==
    LET carried == CarriedBy(g, p)
        shots == {s \in Objects(g) : g.ob[s].type = "shot" /\ g.ob[s].owner = p}
        h == FoldSet(LAMBDA s, a : Ball_detach(a, p, s), g, carried)
    IN  Object_expire(h, carried \cup (IF keepShots THEN {} ELSE shots))

\* The objects of p, when it leaves.
Disowned(g, p) ==
    LET carried == CarriedBy(g, p)
        shots == {s \in Objects(g) : g.ob[s].type = "shot" /\ g.ob[s].owner = p}
        h == FoldSet(LAMBDA s, a : Ball_detach(a, p, s), g, carried)
        e == Object_expire(h, carried \cup (IF keepShots THEN {} ELSE shots))
    IN  [e EXCEPT !.ob = [s \in Struct |->
             IF @[s].owner = p THEN [@[s] EXCEPT !.owner = None] ELSE @[s]]]

Player_remove(g, p) ==
    [Disowned(g, p) EXCEPT !.pl[p] = NewPlayer, !.order = Without(@, p)]

\* Player_explode with Make_debris and Make_wreckage: n particles, if there is room.
Player_explode(g, p, n) ==
    FoldLeft(LAMBDA h, i : Object_add(h, Object_of("debris", p)), g, [i \in 1 .. n |-> i])

\* Player_destroy, and Players_reset for one player.
Player_destroy(g, p, n) ==
    [Ball_detach(Player_explode(g, p, n), p, None) EXCEPT !.pl[p].state = "idle"]

\* Players_reset leaves those alone that are paused.
Players_reset(g, n) ==
    FoldLeft(LAMBDA h, p : IF h.pl[p].state = "paused" THEN h ELSE Player_destroy(h, p, n),
             g, g.order)

\* Shot_add; nothing counts pl.shots up.
Shot_add(g, p) ==
    IF g.pl[p].shots >= ShotsMax THEN g ELSE Object_add(g, Object_of("shot", p))

-----------------------------------------------------------------------------
(* Between the frames, real or not: the packets of the clients.            *)

Input == loop.at = "input" /\ UNCHANGED loop

\* There is a base to be had.
Room(t) == Cardinality({p \in Player : game.pl[p].team = t}) < TeamSize[t]

Login(p, t) ==
    /\ Input /\ Room(t) /\ p \notin InGame(game)
    /\ \E s \in {"alive", "idle"} :
           game' = [game EXCEPT !.pl[p] = [@ EXCEPT !.state = s, !.team = t],
                                !.order = Append(@, p)]

Leave(p) ==
    /\ Input /\ p \in InGame(game)
    /\ game' = Player_remove(game, p)

\* Player_swap_team of /team and of an unpause.  Who is dead waits.
Player_swap_team(p, t) ==
    /\ Input /\ Room(t) /\ p \in InGame(game) /\ game.pl[p].team # t
    /\ \E s \in {"idle"} \cup (IF game.pl[p].state = "idle" THEN {} ELSE {"alive"}) :
           game' = [Ball_detach(game, p, None) EXCEPT
                        !.pl[p] = [@ EXCEPT !.team = t, !.state = s]]

\* Players_swap_teams: the teams are exchanged before the balls are dropped.
Players_swap_teams(p, q) ==
    /\ Input /\ {p, q} \subseteq Alive(game) /\ game.pl[p].team # game.pl[q].team
    /\ LET g == [game EXCEPT !.pl = [@ EXCEPT ![p].team = game.pl[q].team,
                                              ![q].team = game.pl[p].team]]
       IN  game' = Ball_detach(Ball_detach(g, p, None), q, None)

Player_pause_forced(p) ==
    /\ Input /\ p \in InGame(game) /\ game.pl[p].state # "paused"
    /\ game' = [Ball_detach(game, p, None) EXCEPT
                   !.pl[p] = [@ EXCEPT !.team = None, !.state = "paused"]]

\* The key of the connector, which works for the dead as well, and that of dropping.
Key(p) ==
    /\ Input /\ p \in InGame(game)
    /\ \/ game' = [game EXCEPT !.pl[p].connector = ~@]
       \/ game' = Ball_detach(game, p, None)

\* /reset of an operator, or a change of worldLives.
Cmd_reset ==
    /\ Input /\ game.order # <<>>
    /\ \E n \in 0 .. MaxDebris : game' = Objects_time_out(Players_reset(game, n))

-----------------------------------------------------------------------------
(* A frame.                                                                *)

\* "Reset teams and time out objects when the last player leaves the game".
Nobody ==
    /\ Input /\ Frame_is_real
    /\ \A p \in InGame(game) : game.pl[p].state = "paused"
    /\ game' = Objects_time_out(game)

\* The next player of the table that is alive, from entry i on.
NextAlive(g, i) ==
    LET J == {j \in i .. Len(g.order) : g.pl[g.order[j]].state = "alive"}
    IN  IF J = {} THEN 0 ELSE Min(J)

ToCollide(g, i) ==
    [loop EXCEPT !.at = IF Frame_is_real /\ NextAlive(g, i) # 0 THEN "collide" ELSE "kill",
                 !.i = IF Frame_is_real THEN NextAlive(g, i) ELSE 0]

\* Players_shoot, those of P.
Players_shoot(g, P) ==
    FoldLeft(LAMBDA h, p : IF p \in P THEN Shot_add(h, p) ELSE h, g, g.order)

\* What Update_mobile_objects may leave: in a real frame a connector may break; then the
\* objects that move may meet a wall or a box, except balls that lie in theirs.
Update_mobile_objects(g) ==
    UNION {LET h == FoldSet(LAMBDA s, a : Ball_detach(a, a.ob[s].owner, s), g, broken)
               still == {s \in BallsOf(g) : ~g.ob[s].attached /\ g.have[g.ob[s].treasure]}
           IN  {Object_expire(h, crashed) : crashed \in Few(Objects(g) \ still)} :
           broken \in SUBSET {s \in BallsOf(g) : g.ob[s].attached /\ Frame_is_real}}

\* Update_players: those of R recover, those of D destroy themselves with n particles,
\* those of K crash.
Update_players(g, R, D, K, n) ==
    LET back == [g EXCEPT !.pl = [p \in Player |->
                    IF p \in R THEN [@[p] EXCEPT !.state = "alive"] ELSE @[p]]]
        gone == FoldSet(LAMBDA p, h : Player_destroy(h, p, n), back, D)
    IN  [gone EXCEPT !.pl = [p \in Player |->
            IF p \in K THEN [@[p] EXCEPT !.state = "killed"] ELSE @[p]]]

\* The first half of a frame.
Update ==
    /\ loop.at = "input"
    /\ game.order # <<>>
    /\ \E P \in SUBSET Alive(game) :
       \E g \in Update_mobile_objects(Players_shoot(game, P)) :
       \E R \in SUBSET {p \in Player : game.pl[p].state = "idle"} :
       \E D \in SUBSET Alive(game), n \in 0 .. MaxDebris :
       \E K \in SUBSET ((Alive(game) \cup R) \ D) :
           /\ ~Frame_is_real => P = {} /\ D = {}
           /\ D = {} => n = 0
           /\ game' = Update_players(g, R, D, K, n)
    /\ loop' = ToCollide(game', 1)

\* Mutant: a ball that somebody carries can be taken away.
Attached_Stolen(g, p) ==
    LET b == g.pl[p].ball_tmp
        t == g.ob[b].treasure
    IN  [g EXCEPT !.pl[p] = [@ EXCEPT !.has = TRUE, !.ball_tmp = None],
                  !.ob[b] = [@ EXCEPT !.attached = TRUE, !.owner = p,
                                      !.expired = @ /\ ~g.have[t]],
                  !.have[t] = FALSE]

\* The connector of p is long enough: the ball is taken.
Attached(g, p) ==
    LET b == g.pl[p].ball_tmp
        t == g.ob[b].treasure
    IN  IF g.ob[b].attached THEN [g EXCEPT !.pl[p].ball_tmp = None]
        ELSE [g EXCEPT !.pl[p] = [@ EXCEPT !.has = TRUE, !.ball_tmp = None],
                       !.ob[b] = [@ EXCEPT !.attached = TRUE, !.owner = p,
                                           !.expired = g.ob[b].expired /\ ~g.have[t]],
                       !.have[t] = FALSE]

\* The balls p may begin to take: not that of its own team out of its box.
MayTake(g, p) ==
    {s \in BallsOf(g) :
        LET x == g.ob[s] IN
        /\ ~x.expired /\ ~x.attached
        /\ ~(TreasureTeam[x.treasure] = g.pl[p].team /\ g.have[x.treasure])}

\* What Collision_player_attach_ball may leave, according to the distances.
Collision_player_attach_ball(g, p) ==
    LET x == g.pl[p] IN
    IF ~x.connector THEN {[g EXCEPT !.pl[p].ball_tmp = None]}
    ELSE IF x.ball_tmp # None
    THEN {Attached(g, p)} \cup (IF g.ob[x.ball_tmp].attached THEN {} ELSE {g})
    ELSE {g} \cup {[g EXCEPT !.pl[p].ball_tmp = s] : s \in MayTake(g, p)}

\* The objects p may be hit by: a ball that a team mate carries does not hurt.
MayHit(g, p) ==
    {s \in Objects(g) :
        LET x == g.ob[s] IN
        /\ ~x.expired
        /\ x.owner \notin {None, p} /\ (x.type = "ball" => x.attached)
               => g.pl[x.owner].team # g.pl[p].team}

\* Those of K are killed when ships run into each other; shields may save some.
Collision_player_player_check(g, K) ==
    [g EXCEPT !.pl = [q \in Player |->
        IF q \in K THEN [@[q] EXCEPT !.state = "killed"] ELSE @[q]]]

\* What p is hit by expires, balls if the option says so, but not the particle that
\* kills.
Collision_player_object_check(g, p, hit, dies) ==
    LET e == Object_expire(g, {s \in hit : Destroys \/ g.ob[s].type # "ball"})
    IN  IF dies THEN [e EXCEPT !.pl[p].state = "killed"] ELSE e

\* One turn of Collision_players_check.
Collide ==
    /\ loop.at = "collide"
    /\ LET p == game.order[loop.i]
           later == {game.order[j] : j \in loop.i .. Len(game.order)} \cap Alive(game)
       IN
       \E K \in {S \in SUBSET later : Cardinality(S) <= 2} :
       LET g == Collision_player_player_check(game, K) IN
       IF p \in K THEN game' = g
       ELSE \E h \in Collision_player_attach_ball(g, p) :
            \E hit \in Few(MayHit(h, p)), dies \in BOOLEAN :
               /\ dies => hit # {} \/ \E s \in MayHit(h, p) : h.ob[s].type = "debris"
               /\ game' = Collision_player_object_check(h, p, hit, dies)
    /\ loop' = ToCollide(game', loop.i + 1)

\* Players_handle_after_kill, the end of a round if there is one, and
\* Objects_remove_timed_out.
End_frame ==
    /\ loop.at = "kill"
    /\ \E n \in 0 .. MaxDebris, over \in BOOLEAN :
       LET killed == {p \in Player : game.pl[p].state = "killed"}
           g == FoldLeft(LAMBDA h, p : IF p \in killed THEN Player_destroy(h, p, n) ELSE h,
                         game, Reverse(game.order))
           r == IF over THEN Objects_time_out(Players_reset(g, n)) ELSE g
       IN  /\ killed = {} /\ ~over => n = 0
           /\ \E due \in SUBSET {s \in Objects(r) : r.ob[s].type # "ball"} :
                  game' = Objects_remove_timed_out(r, due)
    /\ loop' = [at |-> "input", i |-> 0, frame_cycle |-> (loop.frame_cycle + 1) % frameDivisor]

Init ==
    /\ game = FoldSet(LAMBDA t, g : Ball_treasure_add(g, t),
                      [pl |-> [p \in Player |-> NewPlayer],
                       order |-> <<>>,
                       free |-> [i \in Struct |-> i],
                       ob |-> [i \in Struct |-> Wiped],
                       have |-> [t \in Treasure |-> FALSE]],
                      Treasure)
    /\ loop = [at |-> "input", i |-> 0, frame_cycle |-> 0]

Next ==
    \/ \E p \in Player :
           \/ \E t \in Team : Login(p, t) \/ Player_swap_team(p, t)
           \/ \E q \in Player : Players_swap_teams(p, q)
           \/ Leave(p)
           \/ Player_pause_forced(p)
           \/ Key(p)
    \/ Cmd_reset
    \/ Nobody
    \/ Update
    \/ Collide
    \/ End_frame

Spec == Init /\ [][Next]_vars

-----------------------------------------------------------------------------
(* Properties.                                                             *)

\* Types; a structure is free once or in use.
TypeOK ==
    /\ game \in [pl : [Player -> [state : {"out", "idle", "paused", "alive", "killed"},
                                  team : Team \cup {None}, shots : Nat,
                                  connector : BOOLEAN, has : BOOLEAN,
                                  ball_tmp : Struct \cup {None}]],
                 order : Seq(Player),
                 free : Seq(Struct),
                 ob : [Struct -> [type : {"none", "ball", "shot", "debris"},
                                  owner : Player \cup {None}, attached : BOOLEAN,
                                  treasure : Treasure \cup {None}, expired : BOOLEAN]],
                 have : [Treasure -> BOOLEAN]]
    /\ loop \in [at : {"input", "collide", "kill"}, i : Nat,
                 frame_cycle : 0 .. frameDivisor - 1]
    /\ IsInjective(game.free)
    /\ \A s \in Struct : game.ob[s].type = "none" <=> s \in Range(game.free)

\* Every box has exactly one ball at any time, in it or out of it: a ball that was
\* cashed, replaced or destroyed is created again in the same frame, however full the
\* pool is.  A ball in its box is nobody's.
OneBallPerBox ==
    \A t \in Treasure :
        LET B == {s \in BallsOf(game) : game.ob[s].treasure = t} IN
        /\ Cardinality(B) = 1
        /\ game.have[t] => \A s \in B : ~game.ob[s].attached /\ game.ob[s].owner = None

\* Who has a ball carries one, and is alive until the end of the frame: balls are
\* dropped, lost, taken, destroyed and left behind by a dozen ways.
CarriersAgree ==
    /\ \A p \in Player : game.pl[p].has <=> CarriedBy(game, p) # {}
    /\ \A s \in BallsOf(game) : game.ob[s].attached =>
           /\ game.ob[s].owner # None
           /\ game.pl[game.ob[s].owner].state \in {"alive", "killed"}

\* The pointer to the ball a player is about to take leads to a ball, although the
\* structure of a ball may be wiped and used again while the pointer is kept.
PointsToBall ==
    \A p \in Player : game.pl[p].ball_tmp # None => game.pl[p].ball_tmp \in BallsOf(game)

\* The owner of an object is a player in the game: what somebody leaves behind is
\* nobody's, so that no score goes to a structure that is not in use.
OwnersAreInGame ==
    \A s \in Objects(game) : game.ob[s].owner # None => game.ob[s].owner \in InGame(game)

\* Players and objects point to each other truly, although structures are wiped and used
\* again and players leave in any frame.
BallsSafe == TypeOK /\ CarriersAgree /\ PointsToBall /\ OwnersAreInGame

\* A ball that is carried is not taken away: it changes its owner only after it
\* was dropped.
BallIsHeld ==
    [][\A s \in BallsOf(game) :
           game.ob[s].attached /\ game'.ob[s].attached
               => game'.ob[s].owner = game.ob[s].owner]_vars

\* Collision_player_attach_ball: "Do NOT attach a ball in these cases: it belongs to
\* the player's team AND is in treasure box".  Who was about to take the ball when
\* another player took it keeps the pointer if the ball is then created again.
OwnBallStaysInBox ==
    [][\A p \in Player, s \in Struct :
           /\ game.ob[s].type = "ball"
           /\ game.have[game.ob[s].treasure]
           /\ TreasureTeam[game.ob[s].treasure] = game.pl[p].team
           => ~(game'.ob[s].attached /\ game'.ob[s].owner = p)]_vars

\* maxPlayerShots: "Maximum allowed bullets per player."
ShotsAreLimited ==
    \A p \in Player :
        Cardinality({s \in Objects(game) : game.ob[s].type = "shot" /\ game.ob[s].owner = p})
            <= ShotsMax
=============================================================================
