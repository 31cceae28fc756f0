------------------------------ MODULE Operators ------------------------------
(***************************************************************************)
(* Who is in charge (command.cpp, contact.cpp): players who become         *)
(* operators by password, and the owner, who sends requests to the contact *)
(* socket; the lock of the game, and what becomes of it as operators come  *)
(* and go.                                                                 *)
(*                                                                         *)
(* Only humans appear, by their structures, which are reused.  Commands of *)
(* players who may not give them change nothing and are left out.          *)
(***************************************************************************)
EXTENDS Integers, FiniteSets, FiniteSetsExt

CONSTANTS
    Humans,             \* structures of humans
    MaxQueued,          \* MaxQueuedPlayers
    MaxPaused           \* MAX_PAUSED_PLAYERS

VARIABLES
    game,   \* in, paused: structures; queued: how many wait for a place
    staff   \* isoperator: structures with that field set, in the game or not,
            \* NumOperators, game_lock, password: whether there is one,
            \* credentials: whether the owner has got them

opVars == <<game, staff>>

-----------------------------------------------------------------------------
(* Coming and going.                                                       *)

\* What Player_remove does first.
Dismissed(s, p) ==
    IF p \notin s.isoperator THEN s
    ELSE [s EXCEPT !.NumOperators = @ - 1, !.game_lock = @ /\ s.NumOperators # 1]

\* Destroy_connection of each.
Destroy_connections(P) ==
    /\ game' = [game EXCEPT !.in = @ \ P, !.paused = @ \ P]
    /\ staff' = FoldSet(LAMBDA p, s : Dismissed(s, p), staff, P)

\* Contact, ENTER_QUEUE, and Queue_player.
Queue_player ==
    /\ game.queued < MaxQueued /\ ~staff.game_lock
    /\ game' = [game EXCEPT !.queued = @ + 1]
    /\ UNCHANGED staff

\* Who waits gives up, or does not answer for long.
Queue_remove ==
    /\ game.queued > 0
    /\ game' = [game EXCEPT !.queued = @ - 1]
    /\ UNCHANGED staff

\* Mutant: the structure is used as it was left.
Player_add_AsLeft(p) == staff' = staff

\* It is wiped.
Player_add(p) == staff' = [staff EXCEPT !.isoperator = @ \ {p}]

\* From the queue, by Queue_loop and Handle_login.
Login(p) ==
    /\ game.queued > 0 /\ p \notin game.in
    /\ game' = [game EXCEPT !.queued = @ - 1, !.in = @ \cup {p}]
    /\ Player_add(p)

Leave(p) == p \in game.in /\ Destroy_connections({p})

\* With too many paused all of those are thrown out first.
Player_pause_forced(p) ==
    LET kicked == IF Cardinality(game.paused) >= MaxPaused THEN game.paused ELSE {}
    IN  IF p \in game.paused THEN UNCHANGED opVars
        ELSE /\ game' = [game EXCEPT !.in = @ \ kicked, !.paused = (@ \ kicked) \cup {p}]
             /\ staff' = FoldSet(LAMBDA q, s : Dismissed(s, q), staff, kicked)

\* By the key.
Player_pause_self(p) == p \in game.in /\ Player_pause_forced(p)

Player_unpause(p) ==
    /\ p \in game.paused
    /\ game' = [game EXCEPT !.paused = @ \ {p}]
    /\ UNCHANGED staff

-----------------------------------------------------------------------------
(* Commands of p, in the game.                                             *)

Oper(p) == p \in game.in \cap staff.isoperator

Cmd_password(p, right) ==
    /\ p \in game.in
    /\ IF staff.password /\ right
       THEN staff' = [staff EXCEPT !.isoperator = @ \cup {p},
                                   !.NumOperators = IF Oper(p) THEN @ ELSE @ + 1]
       ELSE staff' = [staff EXCEPT !.isoperator = @ \ {p},
                                   !.NumOperators = IF Oper(p) THEN @ - 1 ELSE @]
    /\ UNCHANGED game

Cmd_lock(p, new_lock) ==
    /\ Oper(p)
    /\ staff' = [staff EXCEPT !.game_lock = new_lock]
    /\ UNCHANGED game

\* Perhaps oneself.
Cmd_kick(p, q)  == Oper(p) /\ q \in game.in /\ Destroy_connections({q})
Cmd_pause(p, q) == Oper(p) /\ q \in game.in /\ Player_pause_forced(q)

\* Of all options that matters here which gives a password to a game without.
Tune_option == staff' = [staff EXCEPT !.password = TRUE] /\ UNCHANGED game
Cmd_set(p)  == Oper(p) /\ Tune_option

-----------------------------------------------------------------------------
(* Contact: the requests that have PRIVILEGE_PACK_MASK.  Is_owner knows    *)
(* the owner by name and host, and, except where it asks for them, by its  *)
(* credentials.                                                            *)

CREDENTIALS ==
    /\ staff' = [staff EXCEPT !.credentials = TRUE]
    /\ UNCHANGED game

LOCK_GAME ==
    /\ staff.credentials
    /\ staff' = [staff EXCEPT !.game_lock = ~@]
    /\ UNCHANGED game

KICK_PLAYER(q) == staff.credentials /\ q \in game.in /\ Destroy_connections({q})
OPTION_TUNE    == staff.credentials /\ Tune_option

-----------------------------------------------------------------------------
OpInit ==
    /\ game = [in |-> {}, paused |-> {}, queued |-> 0]
    /\ \E password \in BOOLEAN :
           staff = [isoperator |-> {}, NumOperators |-> 0, game_lock |-> FALSE,
                    password |-> password, credentials |-> FALSE]

OpNext ==
    \/ Queue_player \/ Queue_remove
    \/ CREDENTIALS \/ LOCK_GAME \/ OPTION_TUNE
    \/ \E p \in Humans :
           \/ Login(p) \/ Leave(p)
           \/ Player_pause_self(p) \/ Player_unpause(p)
           \/ \E right \in BOOLEAN : Cmd_password(p, right)
           \/ \E new_lock \in BOOLEAN : Cmd_lock(p, new_lock)
           \/ \E q \in Humans : Cmd_kick(p, q) \/ Cmd_pause(p, q)
           \/ Cmd_set(p) \/ KICK_PLAYER(p)

OpSpec == OpInit /\ [][OpNext]_opVars

-----------------------------------------------------------------------------
\* NumOperators, by which Player_remove knows the last operator, is right whatever
\* passwords were said, whoever was thrown out and whose structure it was before.
OperatorsAreCounted == staff.NumOperators = Cardinality(staff.isoperator \cap game.in)

\* "The game has been unlocked as the last operator left" (player.cpp): false, an operator
\* who says a wrong password leaves the game locked without an operator, although the
\* owner never locked it.
LockHasOperator == staff.game_lock /\ ~staff.credentials => staff.isoperator \cap game.in # {}

\* "Someone wants to lock the game so that no more players can enter" (contact.cpp):
\* false, those who are already in the queue enter.
LockKeepsOut == [][staff.game_lock => game'.in \subseteq game.in]_opVars
=============================================================================
