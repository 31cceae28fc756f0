------------------------------ MODULE LoginQueue ------------------------------
(***************************************************************************)
(* How a client gets into the game: the queue of the contact socket        *)
(* (contact.cpp), the connection that is set up for the client at its head *)
(* and the login on that connection (netserver.cpp), together with the     *)
(* roster.  Bases are promised when a client is admitted from the queue,   *)
(* taken when it logs in, and meanwhile others leave, pause, change teams  *)
(* and robots come.                                                        *)
(*                                                                         *)
(* A client is the human player it becomes.  Timers are abstracted: what   *)
(* may expire or be due is a choice.  How a connection gets from VERIFY to *)
(* PLAY is the subject of Connection; here it is one step.                 *)
(***************************************************************************)
EXTENDS Roster, Sequences, SequencesExt

CONSTANTS
    Namings,        \* the ways all may be named
    HostOf,         \* human -> host
    MaxQueued,      \* MaxQueuedPlayers
    SelectLimit     \* MAX_SELECT_FD - 5

ASSUME LoginAssumption == {MaxQueued, SelectLimit} \subseteq Nat

VARIABLES
    NameOf,         \* player -> the nick it asks for; robots have names too
    queue,          \* qp_list: [who, team, entering]; entering is login_port # -1
    conn            \* Conn: human -> [state, team]; "login" stands for SETUP
                    \* and LOGIN, "playing" for READY and PLAYING

loginVars == <<NameOf, roster, queue, conn>>

FreeConn == [state |-> "free", team |-> None]
InUse    == {p \in Human : conn[p].state # "free"}
MaxConnections == Min({SelectLimit, Cardinality(Base) + MaxPaused})

\* Kept by Conn_set_state: busy connections less those of players.
login_in_progress == Cardinality({p \in Human : conn[p].state \in {"listening", "login"}})

Queued == {queue[i].who : i \in DOMAIN queue}

\* Destroy_connection, for those who have left the game.
Destroyed(c, r) ==
    [p \in Human |-> IF p \in InGame(roster) \ InGame(r) THEN FreeConn ELSE c[p]]

-----------------------------------------------------------------------------
(* Entering the queue: Queue_player.                                       *)

\* Check_names.
NameFree(r, p) == \A q \in InGame(r) : NameOf[q] # NameOf[p]

\* A client that is already queued may name another team.
Requeue(p, t) ==
    /\ Running
    /\ NameFree(roster, p)
    /\ p \in Queued /\ t \in Team
    /\ queue' = [i \in DOMAIN queue |->
                    IF queue[i].who = p THEN [queue[i] EXCEPT !.team = t] ELSE queue[i]]
    /\ UNCHANGED <<roster, conn>>

MayQueue(p) ==
    /\ NameFree(roster, p)
    /\ \A q \in Queued : NameOf[q] # NameOf[p]
    /\ Cardinality({q \in Queued : HostOf[q] = HostOf[p]}) <= 1
    /\ Len(queue) < MaxQueued

Enqueue(p, t) ==
    /\ Running
    /\ MayQueue(p)
    /\ queue' = Append(queue, [who |-> p, team |-> t, entering |-> FALSE])
    /\ UNCHANGED <<roster, conn>>

\* Where Queue_advance_player puts entry i: after the last one before it that is
\* entering.
PlaceAfterEntering(i) ==
    1 + Max({0} \cup {j \in 1..(i - 1) : queue[j].entering})

Queue_advance_player(i) ==
    /\ Running
    /\ i > 1 /\ ~queue[i].entering
    /\ queue' = InsertAt(RemoveAt(queue, i), PlaceAfterEntering(i), queue[i])
    /\ UNCHANGED <<roster, conn>>

-----------------------------------------------------------------------------
(* Admission: Queue_loop, up to the first thing it sends or gives up.      *)

\* The entries the first loop of Queue_loop passes.
Entering == {queue[i].who : i \in {k \in DOMAIN queue : \A j \in 1..k : queue[j].entering}}

Check_connection(p) == conn[p].state = "listening"

\* Entries without a sign of the client for 30 s, and entering ones that were
\* looked at and are no longer listened for, are removed.
Without(q, gone) ==
    LET kept == {i \in DOMAIN q : q[i].who \notin gone}
    IN  [n \in 1 .. Cardinality(kept) |->
            q[CHOOSE i \in kept : Cardinality({j \in kept : j <= i}) = n]]

\* Mutant: the logins in progress are forgotten.
HasPlace_NoLogins(r) == Cardinality(InGame(r)) - r.NumPaused < Cardinality(Base)

HasPlace(r) ==
    Cardinality(InGame(r)) - r.NumPaused + login_in_progress < Cardinality(Base)

\* A full game loses a robot, whether that is enough or not.
PlaceMade(r) == IF HasPlace(r) THEN {r} ELSE Kick_any_robot(r)

\* <<roster, team>> after looking at the team the client suggests.
Suggested(r, t) ==
    IF t = None \/ HasRoom(r, t) THEN {<<r, t>>}
    ELSE IF (t = RobotTeam /\ ReserveRobotTeam) \/ RobotsIn(r) \cap Members(r, t) = {}
    THEN {<<r, None>>}
    ELSE {<<x, t>> : x \in Kick_team_robot(r, t)}

\* <<roster, team>> for a client without a usable suggestion; team None if there
\* is none to be had.
TeamFound(r) ==
    IF Team_find_available(r) # {}
    THEN {<<r, t>> : t \in Team_find_available(r)}
    ELSE IF ReserveRobotTeam THEN {<<r, None>>}
    ELSE UNION {{<<x, t>> : t \in IF Team_find_available(x) = {} THEN {None}
                                  ELSE Team_find_available(x)} : x \in Kick_any_robot(r)}

Placed(r, t) ==
    UNION {IF x[2] = None THEN TeamFound(x[1]) ELSE {x} : x \in Suggested(r, t)}

\* Mutant: the names of the connections are not compared.
SetupFails_AnyName(p, c) == Cardinality({q \in Human : c[q].state # "free"}) >= MaxConnections

\* Setup_connection returns -1: the name is taken, or "Full house".
SetupFails(p, c) ==
    \/ \E q \in Human : c[q].state # "free" /\ NameOf[q] = NameOf[p]
    \/ Cardinality({q \in Human : c[q].state # "free"}) >= MaxConnections

\* The last loop of Queue_loop, over the entries from i on, of which i itself was
\* looked at before: it may remove one.
LastLoop(q, i) == {q} \cup {RemoveAt(q, k) : k \in (i + 1) .. Len(q)}

\* Entry i, the first without a port, is given a team and a port.  A client for
\* which a connection is listening already gets its port again.
Admit(q, i) ==
    \E r \in PlaceMade(roster) :
        IF ~HasPlace(r) \/ r.crash # "none"
        THEN roster' = r /\ queue' \in LastLoop(q, i) /\ UNCHANGED conn
        ELSE \E x \in Placed(r, q[i].team) :
             /\ roster' = x[1]
             /\ IF x[2] = None \/ x[1].crash # "none"
                THEN /\ queue' \in LastLoop([q EXCEPT ![i].team = None], i)
                     /\ UNCHANGED conn
                ELSE IF Check_connection(q[i].who)
                THEN /\ queue' = [q EXCEPT ![i] = [@ EXCEPT !.team = x[2], !.entering = TRUE]]
                     /\ UNCHANGED conn
                ELSE IF SetupFails(q[i].who, conn)
                THEN queue' = Without(q, {q[i].who}) /\ UNCHANGED conn
                ELSE /\ queue' = [q EXCEPT ![i] = [@ EXCEPT !.team = x[2], !.entering = TRUE]]
                     /\ conn' = [conn EXCEPT ![q[i].who] =
                                    [state |-> "listening", team |-> x[2]]]

\* The first loop removes entering entries, of which it may remove several; the
\* rest of the call removes one waiting entry, admits the first, or only sends
\* acknowledgements.
Queue_loop ==
    /\ Running
    /\ \E silent \in SUBSET Entering, checked \in SUBSET Entering :
       LET q == Without(queue, silent \cup {p \in checked : ~Check_connection(p)})
           first == {i \in DOMAIN q : ~q[i].entering /\ \A j \in 1..(i - 1) : q[j].entering}
       IN  \/ queue' = q /\ UNCHANGED <<roster, conn>>
           \/ \E i \in DOMAIN q :
                  /\ ~q[i].entering
                  /\ queue' = RemoveAt(q, i)
                  /\ UNCHANGED <<roster, conn>>
           \/ \E i \in first : Admit(q, i)

-----------------------------------------------------------------------------
(* Connections.                                                            *)

\* Handle_listening.
Handle_listening(p) ==
    /\ Running
    /\ conn[p].state = "listening"
    /\ conn' = [conn EXCEPT ![p].state = "login"]
    /\ UNCHANGED <<roster, queue>>

LoginRefused(p) ==
    \/ Cardinality(InGame(roster)) >= Cardinality(Base) + MaxPaused
    \/ ~NameFree(roster, p)

\* Handle_login and the Destroy_connection of Receive_play.  When there is no
\* base the player has no connection yet to destroy.
Handle_login(p) ==
    /\ Running
    /\ conn[p].state = "login"
    /\ UNCHANGED queue
    /\ IF LoginRefused(p)
       THEN conn' = [conn EXCEPT ![p] = FreeConn] /\ UNCHANGED roster
       ELSE IF FreeBases(roster, conn[p].team) = {}
       THEN roster' = Crash(roster, "Handle_login") /\ UNCHANGED conn
       ELSE /\ conn' = [conn EXCEPT ![p].state = "playing"]
            /\ \E b \in FreeBases(roster, conn[p].team),
                  s \in EntryStates(roster, p, conn[p].team) :
                   roster' = Joined(roster, p, conn[p].team, b, s)

\* Timeouts and errors before the login.
Lose(p) ==
    /\ Running
    /\ conn[p].state \in {"listening", "login"}
    /\ conn' = [conn EXCEPT ![p] = FreeConn]
    /\ UNCHANGED <<roster, queue>>

\* What players and robots do.  Rounds make no difference here.
Play ==
    /\ \E p \in Player :
           \/ Leave(p)
           \/ \E t \in Team : Cmd_team(p, t)
           \/ Pause(p)
           \/ Unpause(p)
           \/ \E b \in Base : Change_home(p, b)
           \/ Robot_add(p, login_in_progress)
    /\ conn' = Destroyed(conn, roster')
    /\ UNCHANGED queue

LoginInit ==
    /\ RosterInit
    /\ NameOf \in Namings
    /\ queue = <<>>
    /\ conn = [p \in Human |-> FreeConn]

LoginNext ==
    \/ \E p \in Human :
           \/ \E t \in Team \cup {None} : Enqueue(p, t) \/ Requeue(p, t)
           \/ Handle_listening(p) \/ Handle_login(p) \/ Lose(p)
    \/ \E i \in DOMAIN queue : Queue_advance_player(i)
    \/ Queue_loop
    \/ Play

LoginSpec == LoginInit /\ [][LoginNext /\ UNCHANGED NameOf]_loginVars

-----------------------------------------------------------------------------
(* Properties.                                                             *)

\* Types.
LoginTypeOK ==
    /\ RosterTypeOK
    /\ queue \in Seq([who : Human, team : Team \cup {None}, entering : BOOLEAN])
    /\ Len(queue) <= MaxQueued
    /\ conn \in [Human -> [state : {"free", "listening", "login", "playing"},
                           team  : Team \cup {None}]]

\* The entries that have a port come before those that wait.  Queue_loop looks
\* for expired and finished logins only up to the first entry that waits, so an
\* entry that had its port behind it would be neither checked nor admitted.
EnteringFirst ==
    \A i, j \in DOMAIN queue : i < j /\ queue[j].entering => queue[i].entering

\* Setup_connection and Handle_login: "Nick already in use", "Name already in
\* use".  No two connections, from listening to playing, have the same name, and
\* no two entries of the queue have: the queue, the connections and the players
\* are each searched by name.
NamesDistinguish ==
    /\ \A p, q \in InUse : NameOf[p] = NameOf[q] => p = q
    /\ \A i, j \in DOMAIN queue : NameOf[queue[i].who] = NameOf[queue[j].who] => i = j

\* A human is in the game exactly when its connection is playing.
PlayersAreConnected ==
    \A p \in Human : p \in InGame(roster) <=> conn[p].state = "playing"

\* However many are admitted while others pause, come back or log in: the logins
\* in progress and the players fit into the bases and the places for the paused,
\* and who is given a place finds a free connection.  So neither "Full house" nor
\* "Not enough bases for players" ever turns an admitted client away, as long as
\* select can watch that many sockets.
LoginsFit ==
    /\ Cardinality(InGame(roster)) + login_in_progress <= Cardinality(Base) + MaxPaused
    /\ HasPlace(roster) /\ SelectLimit >= Cardinality(Base) + MaxPaused
           => Cardinality(InUse) < MaxConnections

\* The counters the admission relies on agree with the roster, whatever the
\* logins do.
CountersHold == CountersAgree

\* Whatever happens between the request of a client and its login: the queue stays in order,
\* nobody admitted is turned away, and connections, players and counters fit together.
LoginSafe == LoginTypeOK /\ EnteringFirst /\ PlayersAreConnected /\ LoginsFit /\ CountersHold

\* Handle_login: "If an error occurs later on, the code should handle it by
\* jumping to the handle_result label".  When there is no free base of the team,
\* what is there dereferences NULL.
LoginErrorHandled == roster.crash # "Handle_login"

\* Check_names: "All names must be unique (so we know who we're talking about)."
NamesUnique == \A p, q \in InGame(roster) : NameOf[p] = NameOf[q] => p = q
=============================================================================
