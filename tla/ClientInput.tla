------------------------------ MODULE ClientInput ------------------------------
(***************************************************************************)
(* What a client sends while it logs in and plays, and what the server     *)
(* makes of it: Handle_input with its three tables of handlers, the keys,  *)
(* the lines of talk and the settings.  Everything comes in datagrams that *)
(* may be lost, repeated and reordered, several packets in one datagram,   *)
(* and it is the server's side that must cope: old keys must not undo new  *)
(* ones, a line repeated is said once, packets of an earlier stage that    *)
(* come late do not end the connection, and no engine keeps burning whose  *)
(* key was let go while its ship was dead.                                 *)
(*                                                                         *)
(* The client is external: it sends a packet at each key event, repeats    *)
(* the last one until a frame tells it that it has arrived, and repeats a  *)
(* line until the line is acknowledged.                                    *)
(***************************************************************************)
EXTENDS Integers, Sequences, FiniteSets, SequencesExt

CONSTANTS
    ClientKeys,     \* the keys this player uses
    MaxChange,      \* bound: key events
    MaxTalk,        \* bound: lines of talk
    MaxInFlight     \* bound: datagrams under way

VARIABLES
    client, \* started: it has the reply to PKT_PLAY
            \* held:    the keys held after each key event, by number of the event
            \* typed:   lines typed
    net,    \* datagrams under way, each a sequence of packets
    conn,   \* state, last_key_change, num_keyboard_updates, talk_sequence_num,
            \* reason: why it was destroyed, said: the lines handled
    pl      \* alive, last_keyv, prev_keyv, and what the keys switch:
            \* used, thrusting, reprogram, turnacc (its sign), fs

inputVars == <<client, net, conn, pl>>

\* keys_t, those that leave something switched on, in the order of the enumeration.
KeyOrder == <<"SHIELD", "FIRE_SHOT", "TURN_LEFT", "TURN_RIGHT", "REFUEL",
              "CONNECTOR", "THRUST", "REPROGRAM">>

Bit(b) == IF b THEN 1 ELSE 0

NewPlayer == [alive |-> TRUE, last_keyv |-> {}, prev_keyv |-> {}, used |-> {},
              thrusting |-> FALSE, reprogram |-> FALSE, turnacc |-> 0, fs |-> FALSE]

-----------------------------------------------------------------------------
(* event.cpp.                                                              *)

\* The keys that work while the player is not alive.
WhileDead == {"TURN_LEFT", "TURN_RIGHT", "THRUST", "FIRE_SHOT", "REFUEL", "CONNECTOR",
              "REPROGRAM"}

Turned(p) == [p EXCEPT !.turnacc = Bit("TURN_LEFT" \in p.last_keyv)
                                   - Bit("TURN_RIGHT" \in p.last_keyv)]

\* near: a fuel station is within reach.
Pressed(p, k, near) ==
    CASE k = "FIRE_SHOT"                 -> [p EXCEPT !.used = (@ \ {"SHIELD"}) \cup {k}]
      [] k = "CONNECTOR"                 -> [p EXCEPT !.used = @ \cup {k}]
      [] k = "REFUEL"                    -> IF near THEN [p EXCEPT !.used = @ \cup {k}, !.fs = TRUE]
                                                    ELSE p
      [] k \in {"TURN_LEFT", "TURN_RIGHT"} -> Turned(p)
      [] k = "THRUST"                    -> [p EXCEPT !.thrusting = TRUE]
      [] k = "REPROGRAM"                 -> [p EXCEPT !.reprogram = TRUE]
      [] k = "SHIELD"                    -> p

Released(p, k) ==
    CASE k = "REFUEL"                    -> [p EXCEPT !.used = @ \ {k}, !.fs = FALSE]
      [] k \in {"TURN_LEFT", "TURN_RIGHT"} -> Turned(p)
      [] k = "THRUST"                    -> [p EXCEPT !.thrusting = FALSE]
      [] k = "REPROGRAM"                 -> [p EXCEPT !.reprogram = FALSE]
      [] OTHER                           -> [p EXCEPT !.used = @ \ {k}]

Handle_keyboard(p, near) ==
    LET Changed(k) == (k \in p.last_keyv) # (k \in p.prev_keyv)
        Handled(q, k) == IF ~Changed(k) \/ (~q.alive /\ k \notin WhileDead) THEN q
                         ELSE IF k \in q.last_keyv THEN Pressed(q, k, near) ELSE Released(q, k)
    IN  [FoldLeft(Handled, p, KeyOrder) EXCEPT !.prev_keyv = p.last_keyv]

-----------------------------------------------------------------------------
(* The handlers.  Each gives the connection and the player afterwards and  *)
(* its result: 1 handled, 0 drop the rest of the datagram, -1 destroyed.   *)

Packet(type)        == [type |-> type]
Keyboard(n, keys)   == [type |-> "KEYBOARD", change |-> n, keys |-> keys]
Talk(n)             == [type |-> "TALK", seq |-> n]

Result(s, r)         == [s EXCEPT !.result = r]
Destroyed(s, reason) == [s EXCEPT !.conn.state = "FREE", !.conn.reason = reason, !.result = -1]

\* The login itself is in LoginQueue; here it succeeds or not.
Receive_play(s, c) ==
    CASE s.conn.state = "LOGIN" /\ c # "noLogin"  -> Result([s EXCEPT !.conn.state = "READY",
                                                                !.pl = NewPlayer], 1)
      [] s.conn.state = "LOGIN" /\ c = "noLogin" -> Destroyed(s, "login failed")
      [] s.conn.state \in {"READY", "PLAYING"} -> Result(s, 0)
      [] OTHER                              -> Destroyed(s, "not login")

\* Mutant: the keys of a packet that is older than the last are taken all the same.
Receive_keyboard_Any(s, p, c) ==
    LET k == [s EXCEPT !.conn.last_key_change = p.change,
                       !.pl = Handle_keyboard([s.pl EXCEPT !.last_keyv = p.keys], c = "near"),
                       !.conn.num_keyboard_updates = @ + 1]
    IN  IF s.conn.num_keyboard_updates > 0 /\ s.conn.state = "PLAYING"
        THEN Destroyed(k, "no macros") ELSE Result(k, 1)

\* Mutant: a packet only counts if it is newer by more than one.
Receive_keyboard_Late(s, p, c) ==
    LET old == p.change <= s.conn.last_key_change + 1
        new == [s EXCEPT !.conn.last_key_change = p.change,
                         !.pl = Handle_keyboard([s.pl EXCEPT !.last_keyv = p.keys], c = "near")]
    IN  Result(IF old THEN s ELSE new, 1)

Receive_keyboard(s, p, c) ==
    LET old == p.change <= s.conn.last_key_change
        new == [s EXCEPT !.conn.last_key_change = p.change,
                         !.pl = Handle_keyboard([s.pl EXCEPT !.last_keyv = p.keys], c = "near")]
        k   == [(IF old THEN s ELSE new) EXCEPT !.conn.num_keyboard_updates = @ + 1]
    IN  IF s.conn.num_keyboard_updates > 0 /\ s.conn.state = "PLAYING"
        THEN Destroyed(k, "no macros") ELSE Result(k, 1)

\* full: the acknowledgement does not fit the reliable buffer.
\* The line is a command, which may end this very connection (kick), or said.
Receive_talk(s, p, c) ==
    CASE p.seq <= s.conn.talk_sequence_num -> Result(s, 1)
      [] p.seq > s.conn.talk_sequence_num /\ c = "full" -> Destroyed(s, "write error")
      [] OTHER ->
           LET t == [s EXCEPT !.conn.talk_sequence_num = p.seq, !.conn.said = Append(@, p.seq)]
           IN  IF c = "kick" THEN Result(Destroyed(t, "kicked out"), 1) ELSE Result(t, 1)

\* What the client sets or asks for does not matter here; an incomplete packet, which
\* would drop the rest of its datagram, is never sent.
Receive_power(s)   == Result(s, 1)
Receive_setting(s) == Result(s, 1)      \* _display, _modifier_bank
Receive_request(s) == Result(s, 1)      \* _motd, _pointer_move, _fps_request, _audio_request

\* The ship is taken in LOGIN only, but the packet may always come.
Receive_shape(s)     == Result(s, 1)
Receive_discard(s)   == Result(s, 0)
Receive_quit(s)      == Destroyed(s, "client quit")
Receive_undefined(s) == Destroyed(s, "undefined packet")

\* Mutant: the table of the drain states has no entry for PKT_SHAPE.
drain_receive_NoShape == [QUIT |-> "quit", VERIFY |-> "discard", PLAY |-> "discard"]

\* The tables; a packet that has no entry is undefined.
drain_receive   == [QUIT |-> "quit", VERIFY |-> "discard", PLAY |-> "discard",
                    SHAPE |-> "discard"]
login_receive   == [QUIT |-> "quit", VERIFY |-> "discard", PLAY |-> "play",
                    SHAPE |-> "shape", POWER |-> "power", SETTING |-> "setting",
                    REQUEST |-> "request"]
playing_receive == [QUIT |-> "quit", VERIFY |-> "discard", PLAY |-> "play",
                    SHAPE |-> "shape", POWER |-> "power", SETTING |-> "setting",
                    REQUEST |-> "request",
                    KEYBOARD |-> "keyboard", TALK |-> "talk"]

Table(state) == CASE state \in {"PLAYING", "READY"} -> playing_receive
                  [] state = "LOGIN"                -> login_receive
                  [] state = "DRAIN"                -> drain_receive

Handler(s, table, p, c) ==
    IF p.type \notin DOMAIN table THEN Receive_undefined(s)
    ELSE CASE table[p.type] = "quit"     -> Receive_quit(s)
           [] table[p.type] = "discard"  -> Receive_discard(s)
           [] table[p.type] = "shape"    -> Receive_shape(s)
           [] table[p.type] = "power"    -> Receive_power(s)
           [] table[p.type] = "setting"  -> Receive_setting(s)
           [] table[p.type] = "request"  -> Receive_request(s)
           [] table[p.type] = "play"     -> Receive_play(s, c)
           [] table[p.type] = "keyboard" -> Receive_keyboard(s, p, c)
           [] table[p.type] = "talk"     -> Receive_talk(s, p, c)

\* The loop over a datagram: the table is chosen once, for the state at its start.
\* A connection destroyed by its own packet has no more input.
Handle_input(d, c) ==
    LET table      == Table(conn.state)
        begin      == [conn |-> [conn EXCEPT !.num_keyboard_updates = 0], pl |-> pl, result |-> 1]
        Next1(s, p) == IF s.result # 1 \/ s.conn.state = "FREE" THEN s
                       ELSE Handler(s, table, p, c)
    IN  FoldLeft(Next1, begin, d)

\* What a handler meets that is not modelled here: the login fails, a fuel station is
\* near, the reliable buffer is full, a line is a command that kicks its sender.
Circumstances == {"none", "noLogin", "near", "full", "kick"}

InputInit ==
    /\ client = [started |-> FALSE, held |-> <<>>, typed |-> 0]
    /\ net = {<<Packet("VERIFY")>>}
    /\ conn = [state |-> "DRAIN", last_key_change |-> 0, num_keyboard_updates |-> 0,
               talk_sequence_num |-> 0, reason |-> "", said |-> <<>>]
    /\ pl = NewPlayer

\* A datagram is received; the network may deliver it again.
Receive(d, keep, c) ==
    /\ conn.state # "FREE"
    /\ net' = IF keep THEN net ELSE net \ {d}
    /\ LET s == Handle_input(d, c) IN conn' = s.conn /\ pl' = s.pl
    /\ UNCHANGED client

Handle == \E d \in net, keep \in BOOLEAN, c \in Circumstances : Receive(d, keep, c)

\* Receive_ack: the data of the stage is acknowledged.
Acked ==
    /\ \/ conn.state = "DRAIN" /\ conn' = [conn EXCEPT !.state = "LOGIN"]
       \/ conn.state = "READY" /\ conn' = [conn EXCEPT !.state = "PLAYING"]
    /\ UNCHANGED <<client, net, pl>>

\* Input: nothing was heard for too long.
Timeout ==
    /\ conn.state # "FREE"
    /\ conn' = [conn EXCEPT !.state = "FREE", !.reason = "timeout"]
    /\ UNCHANGED <<client, net, pl>>

-----------------------------------------------------------------------------
(* The client.                                                             *)

Held == IF client.held = <<>> THEN {} ELSE Last(client.held)

\* Out of a full network something else is lost.
Sent(d) == IF Cardinality(net \cup {d}) <= MaxInFlight THEN net' = net \cup {d}
           ELSE \E e \in net \ {d} : net' = (net \ {e}) \cup {d}

\* The settings follow PKT_PLAY in one datagram.
ClientLogin ==
    /\ ~client.started /\ conn.state # "FREE"
    /\ Sent(<<Packet("SHAPE"), Packet("PLAY"), Packet("POWER"), Packet("SETTING"),
               Packet("REQUEST")>>)
    /\ UNCHANGED <<client, conn, pl>>

\* The reply to PKT_PLAY comes on the reliable stream.
ClientHasReply ==
    /\ ~client.started /\ conn.state \in {"READY", "PLAYING"}
    /\ client' = [client EXCEPT !.started = TRUE]
    /\ UNCHANGED <<net, conn, pl>>

\* A key is pressed or let go: the packet may be lost at once.
ClientKey ==
    /\ client.started /\ Len(client.held) < MaxChange
    /\ \E k \in ClientKeys :
         LET keys == SymDiff(Held, {k})
         IN  /\ client' = [client EXCEPT !.held = Append(@, keys)]
             /\ \/ Sent(<<Keyboard(Len(client.held) + 1, keys)>>)
                \/ UNCHANGED net
    /\ UNCHANGED <<conn, pl>>

ClientRepeatKeys ==
    /\ client.held # <<>>
    /\ Sent(<<Keyboard(Len(client.held), Held)>>)
    /\ UNCHANGED <<client, conn, pl>>

\* The next line is typed when the last was acknowledged.
ClientTalk ==
    /\ client.started /\ client.typed < MaxTalk /\ conn.talk_sequence_num = client.typed
    /\ client' = [client EXCEPT !.typed = @ + 1]
    /\ UNCHANGED <<net, conn, pl>>

ClientRepeatLine ==
    /\ client.typed > 0
    /\ Sent(<<Talk(client.typed)>>)
    /\ UNCHANGED <<client, conn, pl>>

ClientQuit ==
    /\ client.started
    /\ Sent(<<Packet("QUIT")>>)
    /\ UNCHANGED <<client, conn, pl>>

-----------------------------------------------------------------------------
(* What else happens to a ship.                                            *)

InGame == conn.state \in {"READY", "PLAYING"}

\* Killed, paused or waiting; a ball it had is detached, and with it the connector.
Dies ==
    /\ InGame /\ pl.alive
    /\ \E b \in SUBSET {"CONNECTOR"} : pl' = [pl EXCEPT !.alive = FALSE, !.used = @ \ b]
    /\ UNCHANGED <<client, net, conn>>

\* Player_go_home: with or without the shield.
Returns ==
    /\ InGame /\ ~pl.alive
    /\ \E b \in SUBSET {"SHIELD"} :
         pl' = [pl EXCEPT !.alive = TRUE, !.turnacc = 0, !.used = @ \cup b]
    /\ UNCHANGED <<client, net, conn>>

\* Update_players, Players_shoot: out of fuel, away from the station or full, shooting.
Flies ==
    /\ InGame /\ pl.alive
    /\ \/ pl' = [pl EXCEPT !.used = @ \ {"SHIELD"}, !.thrusting = FALSE]
       \/ pl' = [pl EXCEPT !.used = @ \ {"REFUEL"}]
       \/ "FIRE_SHOT" \in pl.used /\ pl' = [pl EXCEPT !.used = @ \ {"SHIELD"}]
    /\ UNCHANGED <<client, net, conn>>

InputNext ==
    \/ Handle \/ Acked \/ Timeout
    \/ ClientLogin \/ ClientHasReply \/ ClientKey \/ ClientRepeatKeys
    \/ ClientTalk \/ ClientRepeatLine \/ ClientQuit
    \/ Dies \/ Returns \/ Flies

InputSpec == InputInit /\ [][InputNext]_inputVars

NewestKeys == <<Keyboard(Len(client.held), Held)>>
NewestLine == <<Talk(client.typed)>>

\* What is sent again and again arrives in the end.
InputFairness ==
    /\ WF_inputVars(ClientRepeatKeys)
    /\ WF_inputVars(ClientRepeatLine)
    /\ SF_inputVars(NewestKeys \in net /\ \E c \in Circumstances : Receive(NewestKeys, FALSE, c))
    /\ SF_inputVars(NewestLine \in net /\ \E c \in Circumstances : Receive(NewestLine, FALSE, c))

FairInputSpec == InputSpec /\ InputFairness

-----------------------------------------------------------------------------

\* What is switched on is on because its key is down, dead or alive, whatever
\* packets were lost: a key let go always lets go, and a turn is as the keys say
\* or not at all.  A ship that refuels knows its station (Update_players, Frame_ships).
NothingSticks ==
    InGame =>
      /\ pl.used \ {"SHIELD"} \subseteq pl.last_keyv
      /\ pl.thrusting => "THRUST" \in pl.last_keyv
      /\ pl.reprogram => "REPROGRAM" \in pl.last_keyv
      /\ pl.turnacc \in {0, Turned(pl).turnacc}
      /\ "REFUEL" \in pl.used => pl.fs

\* The keys in force are those of the newest packet that ever arrived, whole: a
\* packet that comes late or again never brings old keys back.
NewestKeysCount ==
    [][InGame' => /\ conn'.last_key_change >= conn.last_key_change
                  /\ pl'.last_keyv = (IF conn'.last_key_change = 0 THEN {}
                                      ELSE client'.held[conn'.last_key_change])]_inputVars

\* Every line is handled once, and in order.
SaidOnceInOrder == conn.said = [i \in 1..conn.talk_sequence_num |-> i]

\* No repetition, loss or lateness of its own packets ends the connection of a client.
HonestClientStays == conn.reason \notin {"no macros", "undefined packet", "not login"}

\* What the client typed and held takes effect once, as meant, and never ends its connection.
ClientIsServed == NothingSticks /\ SaidOnceInOrder /\ HonestClientStays

\* The keys in the end are the keys the client holds, and all it typed is said,
\* unless the connection ends.
InputArrives ==
    <>[](\/ conn.state = "FREE"
         \/ /\ InGame => pl.last_keyv = Held
            /\ conn.talk_sequence_num = client.typed)

=============================================================================
