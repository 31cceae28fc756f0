---------------------------- MODULE ClientInputProofs ----------------------------
(***************************************************************************)
(* What is proved of ClientInput for every set of keys, whatever the       *)
(* network loses, repeats and reorders: what a client typed and held takes *)
(* effect once and as meant, and old keys never come back.                 *)
(*                                                                         *)
(* The loop over the keys keeps, for each key whose turn it was, what the  *)
(* new keys allow, and for the others what the old keys allowed.  A        *)
(* datagram of one packet is one call of its handler; the datagram of the  *)
(* login is the only one with several.                                     *)
(*                                                                         *)
(* At the end, what is proved of Operators, Winner, MetaServer and         *)
(* LinkedList: the links from a node, in either direction, lead around a   *)
(* ring through the nodes in use and the header.                           *)
(***************************************************************************)
EXTENDS ClientInput, Operators, Winner, MetaServer, LinkedList, FiniteSetTheorems, SequenceTheorems, TLAPS

States == {"DRAIN", "LOGIN", "READY", "PLAYING", "FREE"}

\* Why a connection may end whose client follows the protocol.
HonestReasons == {"", "login failed", "write error", "kicked out", "client quit", "timeout"}

ClientType == [started : BOOLEAN, held : Seq(SUBSET ClientKeys), typed : Nat]
ConnType == [state : States, last_key_change : Nat, num_keyboard_updates : Nat,
             talk_sequence_num : Nat, reason : HonestReasons, said : Seq(Nat)]
PlayerType == [alive : BOOLEAN, last_keyv : SUBSET ClientKeys, prev_keyv : SUBSET ClientKeys,
               used : SUBSET {"SHIELD", "FIRE_SHOT", "REFUEL", "CONNECTOR"},
               thrusting : BOOLEAN, reprogram : BOOLEAN, turnacc : Int, fs : BOOLEAN]

Turning(keys) == Bit("TURN_LEFT" \in keys) - Bit("TURN_RIGHT" \in keys)

\* NothingSticks, of a player in the game.
Unstuck(p) ==
    /\ p.used \ {"SHIELD"} \subseteq p.last_keyv
    /\ p.thrusting => "THRUST" \in p.last_keyv
    /\ p.reprogram => "REPROGRAM" \in p.last_keyv
    /\ p.turnacc \in {0, Turning(p.last_keyv)}
    /\ "REFUEL" \in p.used => p.fs

\* The keys after the last change that arrived.
KeysAt(held, n) == IF n = 0 THEN {} ELSE held[n]

\* All that is said of the three in every state.
Fits(cl, co, p) ==
    /\ cl \in ClientType /\ co \in ConnType /\ p \in PlayerType
    /\ co.said = [i \in 1 .. co.talk_sequence_num |-> i]
    /\ co.talk_sequence_num <= cl.typed /\ cl.typed <= co.talk_sequence_num + 1
    /\ co.last_key_change <= Len(cl.held)
    /\ co.state \in {"DRAIN", "LOGIN"} => ~cl.started /\ co.last_key_change = 0
    /\ ~cl.started => cl.held = <<>> /\ cl.typed = 0
    /\ co.state \in {"READY", "PLAYING"} =>
          /\ p.last_keyv = KeysAt(cl.held, co.last_key_change)
          /\ p.prev_keyv = p.last_keyv
          /\ Unstuck(p)

LoginDatagram == <<Packet("SHAPE"), Packet("PLAY"), Packet("POWER"), Packet("SETTING"),
                   Packet("REQUEST")>>

\* What may be under way from a client that follows the protocol.
Datagrams(cl) ==
    {<<Packet("VERIFY")>>, LoginDatagram, <<Packet("QUIT")>>}
        \cup {<<Keyboard(n, cl.held[n])>> : n \in 1 .. Len(cl.held)}
        \cup {<<Talk(n)>> : n \in 1 .. cl.typed}

InputInv == Fits(client, conn, pl) /\ net \subseteq Datagrams(client)

-----------------------------------------------------------------------------
(* The loop over the keys.                                                 *)

KeyChanged(p, k) == (k \in p.last_keyv) # (k \in p.prev_keyv)

KeyTurn(par, k, q) ==
    IF ~KeyChanged(par.p, k) \/ (~q.alive /\ k \notin WhileDead) THEN q
    ELSE IF k \in q.last_keyv THEN Pressed(q, k, par.near) ELSE Released(q, k)

Keys == INSTANCE FoldTheorems WITH Turn <- KeyTurn

LEMMA HandleKeyboardIs ==
    ASSUME NEW par
    PROVE  Handle_keyboard(par.p, par.near) =
               [Keys!OverSeq(par, par.p, KeyOrder) EXCEPT !.prev_keyv = par.p.last_keyv]
BY DEF Handle_keyboard, FoldLeft, MapThenFoldSet, Keys!OverSeq, KeyTurn, KeyChanged, Max

Places == 1 .. 8
KeyNames == {"SHIELD", "FIRE_SHOT", "TURN_LEFT", "TURN_RIGHT", "REFUEL", "CONNECTOR", "THRUST",
             "REPROGRAM"}

\* What may be on of key i, if the turns s are done.
Allows(p, s, i) == KeyOrder[i] \in IF i \in s THEN p.last_keyv ELSE p.prev_keyv

\* The player during the loop, after the turns s; p is the player before it.
KeysFit(p, s, q) ==
    /\ q \in PlayerType
    /\ q.last_keyv = p.last_keyv /\ q.alive = p.alive
    /\ \A i \in Places : KeyOrder[i] \in q.used \ {"SHIELD"} => Allows(p, s, i)
    /\ q.thrusting => Allows(p, s, 7)
    /\ q.reprogram => Allows(p, s, 8)
    /\ \/ q.turnacc \in {0, Turning(p.last_keyv)}
       \/ \E i \in {3, 4} : i \notin s /\ KeyChanged(p, KeyOrder[i])
    /\ "REFUEL" \in q.used => q.fs

LEMMA KeyOrderIs ==
    /\ KeyOrder \in Seq(KeyNames) /\ DOMAIN KeyOrder = Places
    /\ KeyOrder[1] = "SHIELD" /\ KeyOrder[2] = "FIRE_SHOT" /\ KeyOrder[3] = "TURN_LEFT"
    /\ KeyOrder[4] = "TURN_RIGHT" /\ KeyOrder[5] = "REFUEL" /\ KeyOrder[6] = "CONNECTOR"
    /\ KeyOrder[7] = "THRUST" /\ KeyOrder[8] = "REPROGRAM"
<1>1. KeyOrder \in Seq(KeyNames) /\ Len(KeyOrder) = 8 BY DEF KeyOrder, KeyNames
<1>2. DOMAIN KeyOrder = Places BY <1>1 DEF Places
<1> QED BY <1>1, <1>2 DEF KeyOrder

\* What one key that was pressed or let go leaves.
KeyDone(q, k, r) ==
    /\ r \in PlayerType
    /\ r.last_keyv = q.last_keyv /\ r.alive = q.alive
    /\ r.used \ {"SHIELD", k} \subseteq q.used
    /\ k \in r.used \ {"SHIELD"} => k \in q.last_keyv
    /\ r.thrusting => IF k = "THRUST" THEN k \in q.last_keyv ELSE q.thrusting
    /\ r.reprogram => IF k = "REPROGRAM" THEN k \in q.last_keyv ELSE q.reprogram
    /\ r.turnacc = IF k \in {"TURN_LEFT", "TURN_RIGHT"} THEN Turning(q.last_keyv) ELSE q.turnacc
    /\ ("REFUEL" \in q.used => q.fs) => ("REFUEL" \in r.used => r.fs)

LEMMA PressedIs ==
    ASSUME NEW q \in PlayerType, NEW k \in KeyNames, k \in q.last_keyv, NEW near \in BOOLEAN
    PROVE  KeyDone(q, k, Pressed(q, k, near))
<1> DEFINE r == Pressed(q, k, near)
<1> SUFFICES KeyDone(q, k, r) OBVIOUS
<1>1. CASE k = "FIRE_SHOT"
  <2>1. r = [q EXCEPT !.used = (q.used \ {"SHIELD"}) \cup {k}] BY <1>1 DEF Pressed
  <2> QED BY <1>1, <2>1 DEF KeyDone, PlayerType
<1>2. CASE k = "CONNECTOR"
  <2>1. r = [q EXCEPT !.used = q.used \cup {k}] BY <1>2 DEF Pressed
  <2> QED BY <1>2, <2>1 DEF KeyDone, PlayerType
<1>3. CASE k = "REFUEL"
  <2>1. CASE near
    <3>1. r = [q EXCEPT !.used = q.used \cup {k}, !.fs = TRUE] BY <1>3, <2>1 DEF Pressed
    <3>2. r \in PlayerType BY <1>3, <3>1 DEF PlayerType
    <3> QED BY <1>3, <3>1, <3>2 DEF KeyDone, PlayerType
  <2>2. CASE ~near
    <3>1. r = q BY <1>3, <2>2 DEF Pressed
    <3> QED BY <1>3, <3>1 DEF KeyDone, PlayerType
  <2> QED BY <2>1, <2>2
<1>4. CASE k \in {"TURN_LEFT", "TURN_RIGHT"}
  <2>1. r = [q EXCEPT !.turnacc = Turning(q.last_keyv)] BY <1>4 DEF Pressed, Turned, Turning
  <2>2. Turning(q.last_keyv) \in Int BY DEF Turning, Bit
  <2> QED BY <1>4, <2>1, <2>2 DEF KeyDone, PlayerType
<1>5. CASE k = "THRUST"
  <2>1. r = [q EXCEPT !.thrusting = TRUE] BY <1>5 DEF Pressed
  <2> QED BY <1>5, <2>1 DEF KeyDone, PlayerType
<1>6. CASE k = "REPROGRAM"
  <2>1. r = [q EXCEPT !.reprogram = TRUE] BY <1>6 DEF Pressed
  <2> QED BY <1>6, <2>1 DEF KeyDone, PlayerType
<1>7. CASE k = "SHIELD"
  <2>1. r = q BY <1>7 DEF Pressed
  <2> QED BY <1>7, <2>1 DEF KeyDone, PlayerType
<1> QED BY <1>1, <1>2, <1>3, <1>4, <1>5, <1>6, <1>7 DEF KeyNames

LEMMA ReleasedIs ==
    ASSUME NEW q \in PlayerType, NEW k \in KeyNames, k \notin q.last_keyv
    PROVE  KeyDone(q, k, Released(q, k))
<1> DEFINE r == Released(q, k)
<1> SUFFICES KeyDone(q, k, r) OBVIOUS
<1>1. CASE k = "REFUEL"
  <2>1. r = [q EXCEPT !.used = q.used \ {k}, !.fs = FALSE] BY <1>1 DEF Released
  <2> QED BY <1>1, <2>1 DEF KeyDone, PlayerType
<1>2. CASE k \in {"TURN_LEFT", "TURN_RIGHT"}
  <2>1. r = [q EXCEPT !.turnacc = Turning(q.last_keyv)] BY <1>2 DEF Released, Turned, Turning
  <2>2. Turning(q.last_keyv) \in Int BY DEF Turning, Bit
  <2> QED BY <1>2, <2>1, <2>2 DEF KeyDone, PlayerType
<1>3. CASE k = "THRUST"
  <2>1. r = [q EXCEPT !.thrusting = FALSE] BY <1>3 DEF Released
  <2>2. r \in PlayerType /\ r.thrusting = FALSE BY <2>1 DEF PlayerType
  <2> QED BY <1>3, <2>1, <2>2 DEF KeyDone, PlayerType
<1>4. CASE k = "REPROGRAM"
  <2>1. r = [q EXCEPT !.reprogram = FALSE] BY <1>4 DEF Released
  <2>2. r \in PlayerType /\ r.reprogram = FALSE BY <2>1 DEF PlayerType
  <2> QED BY <1>4, <2>1, <2>2 DEF KeyDone, PlayerType
<1>5. CASE k \in {"SHIELD", "FIRE_SHOT", "CONNECTOR"}
  <2>1. r = [q EXCEPT !.used = q.used \ {k}] BY <1>5 DEF Released
  <2> QED BY <1>5, <2>1 DEF KeyDone, PlayerType
<1> QED BY <1>1, <1>2, <1>3, <1>4, <1>5 DEF KeyNames

LEMMA OneKey ==
    ASSUME NEW p \in PlayerType, NEW near \in BOOLEAN, NEW s \in SUBSET Places, NEW i \in Places \ s,
           NEW q, KeysFit(p, s, q)
    PROVE  KeysFit(p, s \cup {i}, KeyTurn([p |-> p, near |-> near], KeyOrder[i], q))
<1> DEFINE k == KeyOrder[i]
           t == s \cup {i}
           r == KeyTurn([p |-> p, near |-> near], k, q)
<1> SUFFICES KeysFit(p, t, r) OBVIOUS
<1>1. q \in PlayerType /\ q.last_keyv = p.last_keyv /\ q.alive = p.alive BY DEF KeysFit
<1>2. k \in KeyNames BY KeyOrderIs DEF Places, KeyNames
<1>3. \A j \in Places : j # i => (Allows(p, t, j) <=> Allows(p, s, j)) BY DEF Allows
<1>4. Allows(p, t, i) <=> k \in p.last_keyv BY DEF Allows
<1>5. Allows(p, s, i) <=> k \in p.prev_keyv BY DEF Allows
<1>6. \A j \in Places : KeyOrder[j] = k => j = i BY KeyOrderIs DEF Places
<1>7. 7 \in Places /\ 8 \in Places /\ 3 \in Places /\ 4 \in Places BY DEF Places
<1>8. CASE ~KeyChanged(p, k)
  <2>1. r = q BY <1>8 DEF KeyTurn
  <2>2. \A j \in Places : Allows(p, s, j) => Allows(p, t, j) BY <1>3, <1>4, <1>5, <1>8 DEF KeyChanged
  <2>3. \A j \in {3, 4} : j \notin s /\ KeyChanged(p, KeyOrder[j]) => j \notin t BY <1>8
  <2> HIDE DEF k, t, r
  <2> QED BY <1>1, <1>7, <2>1, <2>2, <2>3 DEF KeysFit
<1>9. CASE KeyChanged(p, k) /\ ~q.alive /\ k \notin WhileDead
  <2>1. r = q BY <1>9 DEF KeyTurn
  <2>2. k = "SHIELD" BY <1>2, <1>9 DEF WhileDead, KeyNames
  <2>3. i = 1 BY <1>6, <2>2, KeyOrderIs DEF Places
  <2>4. \A j \in Places : KeyOrder[j] \in q.used \ {"SHIELD"} => j # i BY <2>2
  <2>5. \A j \in {3, 4} : j \notin s => j \notin t BY <2>3
  <2> HIDE DEF k, t, r
  <2> QED BY <1>1, <1>3, <1>7, <2>1, <2>3, <2>4, <2>5 DEF KeysFit
<1>10. CASE KeyChanged(p, k) /\ (q.alive \/ k \in WhileDead)
  <2>1. KeyDone(q, k, r)
    <3>1. CASE k \in q.last_keyv
      <4>1. r = Pressed(q, k, near) BY <1>10, <3>1 DEF KeyTurn
      <4> QED BY <1>1, <1>2, <3>1, <4>1, PressedIs
    <3>2. CASE k \notin q.last_keyv
      <4>1. r = Released(q, k) BY <1>10, <3>2 DEF KeyTurn
      <4> QED BY <1>1, <1>2, <3>2, <4>1, ReleasedIs
    <3> QED BY <3>1, <3>2
  <2> HIDE DEF r
  <2>2. \A j \in Places : KeyOrder[j] \in r.used \ {"SHIELD"} => Allows(p, t, j)
    <3> SUFFICES ASSUME NEW j \in Places, KeyOrder[j] \in r.used \ {"SHIELD"} PROVE Allows(p, t, j)
        OBVIOUS
    <3>1. CASE j = i
      <4>1. k \in q.last_keyv BY <2>1, <3>1 DEF KeyDone
      <4> QED BY <1>1, <1>4, <3>1, <4>1
    <3>2. CASE j # i
      <4>1. KeyOrder[j] \in q.used \ {"SHIELD"} BY <1>6, <2>1, <3>2 DEF KeyDone
      <4> QED BY <1>3, <3>2, <4>1 DEF KeysFit
    <3> QED BY <3>1, <3>2
  <2>3. r.thrusting => Allows(p, t, 7)
    <3>1. k = "THRUST" <=> i = 7 BY <1>6, <1>7, KeyOrderIs
    <3> QED BY <1>1, <1>3, <1>4, <1>7, <2>1, <3>1 DEF KeyDone, KeysFit
  <2>4. r.reprogram => Allows(p, t, 8)
    <3>1. k = "REPROGRAM" <=> i = 8 BY <1>6, <1>7, KeyOrderIs
    <3> QED BY <1>1, <1>3, <1>4, <1>7, <2>1, <3>1 DEF KeyDone, KeysFit
  <2>5. \/ r.turnacc \in {0, Turning(p.last_keyv)}
        \/ \E j \in {3, 4} : j \notin t /\ KeyChanged(p, KeyOrder[j])
    <3>1. CASE i \in {3, 4}
      <4>1. k \in {"TURN_LEFT", "TURN_RIGHT"} BY <3>1, KeyOrderIs
      <4> QED BY <1>1, <2>1, <4>1 DEF KeyDone
    <3>2. CASE i \notin {3, 4}
      <4>1. k \notin {"TURN_LEFT", "TURN_RIGHT"} BY <1>6, <1>7, <3>2, KeyOrderIs
      <4>2. r.turnacc = q.turnacc BY <2>1, <4>1 DEF KeyDone
      <4>3. \A j \in {3, 4} : j \notin s => j \notin t BY <3>2
      <4> QED BY <4>2, <4>3 DEF KeysFit
    <3> QED BY <3>1, <3>2
  <2>6. r \in PlayerType /\ r.last_keyv = p.last_keyv /\ r.alive = p.alive
      BY <1>1, <2>1 DEF KeyDone
  <2>7. "REFUEL" \in r.used => r.fs BY <2>1 DEF KeyDone, KeysFit
  <2> HIDE DEF k, t
  <2> QED BY <2>2, <2>3, <2>4, <2>5, <2>6, <2>7 DEF KeysFit
<1> QED BY <1>8, <1>9, <1>10

\* The keys in force are the new ones, and nothing is on that they do not allow.
LEMMA KeysTakeEffect ==
    ASSUME NEW o \in PlayerType, Unstuck(o), o.prev_keyv = o.last_keyv,
           NEW keys \in SUBSET ClientKeys, NEW near \in BOOLEAN
    PROVE  LET r == Handle_keyboard([o EXCEPT !.last_keyv = keys], near)
           IN  r \in PlayerType /\ r.last_keyv = keys /\ r.prev_keyv = keys /\ Unstuck(r)
<1> DEFINE p == [o EXCEPT !.last_keyv = keys]
           par == [p |-> p, near |-> near]
           A == [s \in SUBSET Places |-> {q \in PlayerType : KeysFit(p, s, q)}]
           q == Keys!OverSeq(par, p, KeyOrder)
           r == Handle_keyboard(p, near)
<1>1. p \in PlayerType /\ p.last_keyv = keys /\ p.prev_keyv = o.last_keyv /\ p.used = o.used
      /\ p.thrusting = o.thrusting /\ p.reprogram = o.reprogram /\ p.turnacc = o.turnacc
      /\ p.fs = o.fs
    BY DEF PlayerType
<1> HIDE DEF p
<1>2. KeysFit(p, {}, p)
  <2>1. \A i \in Places : Allows(p, {}, i) <=> KeyOrder[i] \in o.last_keyv BY <1>1 DEF Allows
  <2>2. 7 \in Places /\ 8 \in Places BY DEF Places
  <2>3. p.turnacc \in {0, Turning(o.last_keyv)} BY <1>1 DEF Unstuck
  <2>4. \/ Turning(o.last_keyv) = Turning(p.last_keyv)
        \/ KeyChanged(p, KeyOrder[3]) \/ KeyChanged(p, KeyOrder[4])
    <3>1. SUFFICES ASSUME ~KeyChanged(p, "TURN_LEFT"), ~KeyChanged(p, "TURN_RIGHT")
                   PROVE  Turning(o.last_keyv) = Turning(p.last_keyv)
        BY KeyOrderIs
    <3>2. ("TURN_LEFT" \in o.last_keyv) = ("TURN_LEFT" \in p.last_keyv) BY <1>1, <3>1 DEF KeyChanged
    <3>3. ("TURN_RIGHT" \in o.last_keyv) = ("TURN_RIGHT" \in p.last_keyv)
        BY <1>1, <3>1 DEF KeyChanged
    <3> QED BY <3>2, <3>3 DEF Turning
  <2> QED BY <1>1, <2>1, <2>2, <2>3, <2>4, KeyOrderIs DEF KeysFit, Unstuck
<1>3. Keys!Carries(par, DOMAIN KeyOrder, KeyOrder, A)
  <2> SUFFICES ASSUME NEW s \in SUBSET Places, NEW i \in Places \ s, NEW h \in A[s]
               PROVE  KeyTurn(par, KeyOrder[i], h) \in A[s \cup {i}]
      BY KeyOrderIs DEF Keys!Carries
  <2>1. KeysFit(p, s, h) OBVIOUS
  <2>2. KeysFit(p, s \cup {i}, KeyTurn(par, KeyOrder[i], h)) BY <1>1, <2>1, OneKey
  <2>3. KeyTurn(par, KeyOrder[i], h) \in PlayerType BY <2>2 DEF KeysFit
  <2>4. s \cup {i} \in SUBSET Places OBVIOUS
  <2> HIDE DEF par
  <2> QED BY <2>2, <2>3, <2>4
<1>4. KeysFit(p, Places, q)
  <2>1. p \in A[{}] BY <1>1, <1>2
  <2>2. A[Places] = {x \in PlayerType : KeysFit(p, Places, x)} OBVIOUS
  <2> HIDE DEF A, par
  <2>3. q \in A[DOMAIN KeyOrder] BY <1>3, <2>1, KeyOrderIs, Keys!SeqIsCarried
  <2> HIDE DEF q
  <2> QED BY <2>2, <2>3, KeyOrderIs
<1>5. r = [q EXCEPT !.prev_keyv = p.last_keyv]
  <2>1. par.p = p /\ par.near = near OBVIOUS
  <2> HIDE DEF par, r
  <2>2. Handle_keyboard(par.p, par.near) = [q EXCEPT !.prev_keyv = par.p.last_keyv]
    <3>1. Handle_keyboard(par.p, par.near) =
              [Keys!OverSeq(par, par.p, KeyOrder) EXCEPT !.prev_keyv = par.p.last_keyv]
        BY HandleKeyboardIs
    <3> QED BY <2>1, <3>1
  <2> QED BY <2>1, <2>2 DEF r
<1> HIDE DEF q, r
<1>6. q \in PlayerType /\ q.last_keyv = keys BY <1>1, <1>4 DEF KeysFit
<1>7. r \in PlayerType /\ r.last_keyv = keys /\ r.prev_keyv = keys /\ r.used = q.used
      /\ r.thrusting = q.thrusting /\ r.reprogram = q.reprogram /\ r.turnacc = q.turnacc
      /\ r.fs = q.fs
    BY <1>1, <1>5, <1>6 DEF PlayerType
<1>8. Unstuck(r)
  <2>1. \A i \in Places : Allows(p, Places, i) => KeyOrder[i] \in keys BY <1>1 DEF Allows
  <2>2. 2 \in Places /\ 5 \in Places /\ 6 \in Places /\ 7 \in Places /\ 8 \in Places
        /\ 3 \in Places /\ 4 \in Places
      BY DEF Places
  <2>3. r.used \ {"SHIELD"} \subseteq keys
    <3>1. \A i \in Places : KeyOrder[i] \in q.used \ {"SHIELD"} => KeyOrder[i] \in keys
        BY <1>4, <2>1 DEF KeysFit
    <3>2. \A k \in {"FIRE_SHOT", "REFUEL", "CONNECTOR"} : k \in q.used => k \in keys
        BY <2>2, <3>1, KeyOrderIs
    <3> QED BY <1>6, <1>7, <3>2 DEF PlayerType
  <2>4. r.turnacc \in {0, Turning(keys)} BY <1>1, <1>4, <1>7, <2>2 DEF KeysFit
  <2>5. r.thrusting => "THRUST" \in keys BY <1>4, <1>7, <2>1, <2>2, KeyOrderIs DEF KeysFit
  <2>6. r.reprogram => "REPROGRAM" \in keys BY <1>4, <1>7, <2>1, <2>2, KeyOrderIs DEF KeysFit
  <2>7. "REFUEL" \in r.used => r.fs BY <1>4, <1>7 DEF KeysFit
  <2> QED BY <1>7, <2>3, <2>4, <2>5, <2>6, <2>7 DEF Unstuck
<1> QED BY <1>7, <1>8 DEF r, p

-----------------------------------------------------------------------------
(* The loop over a datagram.                                               *)

PacketTurn(par, p, s) ==
    IF s.result # 1 \/ s.conn.state = "FREE" THEN s ELSE Handler(s, par.table, p, par.c)

Packets == INSTANCE FoldTheorems WITH Turn <- PacketTurn

Loop(c) == [table |-> Table(conn.state), c |-> c]
Begin == [conn |-> [conn EXCEPT !.num_keyboard_updates = 0], pl |-> pl, result |-> 1]

LEMMA HandleInputIs ==
    ASSUME NEW d, NEW c
    PROVE  Handle_input(d, c) = Packets!OverSeq(Loop(c), Begin, d)
BY DEF Handle_input, FoldLeft, MapThenFoldSet, Packets!OverSeq, PacketTurn, Loop, Begin, Max

LEMMA BeginIs ==
    ASSUME conn \in ConnType
    PROVE  /\ Begin.conn \in ConnType /\ Begin.pl = pl /\ Begin.result = 1
           /\ Begin.conn.state = conn.state /\ Begin.conn.num_keyboard_updates = 0
           /\ Begin.conn.last_key_change = conn.last_key_change
           /\ Begin.conn.talk_sequence_num = conn.talk_sequence_num
           /\ Begin.conn.reason = conn.reason /\ Begin.conn.said = conn.said
           /\ \A x : [Begin EXCEPT !.result = x].conn = Begin.conn
           /\ \A x : [Begin EXCEPT !.result = x].pl = pl
BY DEF Begin, ConnType

LEMMA OnePacket ==
    ASSUME conn \in ConnType, conn.state # "FREE", NEW p, NEW c
    PROVE  Handle_input(<<p>>, c) = Handler(Begin, Table(conn.state), p, c)
<1> DEFINE seq == <<p>>
           out == Handler(Begin, Table(conn.state), p, c)
           A == [s \in SUBSET {1} |-> IF s = {} THEN {Begin} ELSE {out}]
           par == Loop(c)
<1>1. seq \in Seq({p}) /\ DOMAIN seq = {1} /\ seq[1] = p
  <2>1. seq \in Seq({p}) /\ Len(seq) = 1 /\ seq[1] = p OBVIOUS
  <2>2. 1 .. 1 = {1} OBVIOUS
  <2> HIDE DEF seq
  <2> QED BY <2>1, <2>2
<1>2. PacketTurn(par, p, Begin) = out BY BeginIs DEF PacketTurn, Loop
<1> HIDE DEF seq, out, par
<1>3. Packets!Carries(par, {1}, seq, A)
  <2> SUFFICES ASSUME NEW s \in SUBSET {1}, NEW i \in {1} \ s, NEW h \in A[s]
               PROVE  PacketTurn(par, seq[i], h) \in A[s \cup {i}]
      BY DEF Packets!Carries
  <2>1. s = {} /\ i = 1 /\ h = Begin OBVIOUS
  <2> QED BY <1>1, <1>2, <2>1
<1>4. Packets!OverSeq(par, Begin, seq) \in A[DOMAIN seq]
  <2>1. Begin \in A[{}] OBVIOUS
  <2> HIDE DEF A
  <2> QED BY <1>1, <1>3, <2>1, Packets!SeqIsCarried
<1>5. A[{1}] = {out} OBVIOUS
<1> HIDE DEF A
<1>6. Packets!OverSeq(par, Begin, seq) = out BY <1>1, <1>4, <1>5
<1> QED BY <1>6, HandleInputIs DEF par, seq, out

\* What a datagram may make of the connection and the player.
Served(s) ==
    /\ Fits(client, s.conn, s.pl)
    /\ s.conn.last_key_change >= conn.last_key_change

StateType == [conn : ConnType, pl : PlayerType, result : {-1, 0, 1}]

LEMMA BeginServed ==
    ASSUME Fits(client, conn, pl)
    PROVE  Begin \in StateType /\ Served(Begin)
<1>1. conn \in ConnType /\ conn.last_key_change \in Int /\ pl \in PlayerType BY DEF Fits, ConnType
<1>2. Begin \in StateType
  <2>1. Begin.conn \in ConnType BY <1>1, BeginIs
  <2> QED BY <1>1, <2>1 DEF Begin, StateType
<1>3. Fits(client, Begin.conn, pl) BY <1>1, BeginIs DEF Fits
<1> QED BY <1>1, <1>2, <1>3, BeginIs DEF Served

LEMMA Left ==
    ASSUME NEW s \in StateType, Served(s), NEW r \in {-1, 0, 1}
    PROVE  Result(s, r) \in StateType /\ Served(Result(s, r))
<1> DEFINE t == Result(s, r)
<1>1. t \in StateType /\ t.conn = s.conn /\ t.pl = s.pl BY DEF Result, StateType
<1> HIDE DEF t
<1>2. Served(t) BY <1>1 DEF Served
<1> QED BY <1>1, <1>2 DEF t

LEMMA Ended ==
    ASSUME NEW s \in StateType, Served(s), NEW reason \in HonestReasons
    PROVE  /\ Destroyed(s, reason) \in StateType /\ Served(Destroyed(s, reason))
           /\ Destroyed(s, reason).conn.state = "FREE"
<1> DEFINE t == Destroyed(s, reason)
           x == s.conn
           co == [x EXCEPT !.state = "FREE", !.reason = reason]
<1>1. x \in ConnType /\ s.pl \in PlayerType /\ Fits(client, x, s.pl)
      /\ x.last_key_change >= conn.last_key_change
    BY DEF StateType, Served
<1>2. t = [s EXCEPT !.conn = co, !.result = -1] BY DEF Destroyed, StateType
<1> HIDE DEF t, x
<1>3. /\ co \in ConnType /\ co.state = "FREE" /\ co.said = x.said
      /\ co.last_key_change = x.last_key_change
      /\ co.talk_sequence_num = x.talk_sequence_num
    BY <1>1 DEF ConnType, States
<1> HIDE DEF co
<1>4. t \in StateType /\ t.conn = co /\ t.pl = s.pl BY <1>1, <1>2, <1>3 DEF StateType
<1>5. Fits(client, co, s.pl) BY <1>1, <1>3 DEF Fits
<1>6. Served(t) BY <1>1, <1>3, <1>4, <1>5 DEF Served
<1> QED BY <1>3, <1>4, <1>6 DEF t

LEMMA KeyboardServed ==
    ASSUME Fits(client, conn, pl), conn.state \in {"READY", "PLAYING"},
           NEW n \in 1 .. Len(client.held), NEW c
    PROVE  Served(Receive_keyboard(Begin, Keyboard(n, client.held[n]), c))
<1> DEFINE keys == client.held[n]
           p == Keyboard(n, keys)
           q == Handle_keyboard([pl EXCEPT !.last_keyv = keys], c = "near")
           s == Receive_keyboard(Begin, p, c)
<1> SUFFICES Served(s) OBVIOUS
<1>1. /\ client \in ClientType /\ conn \in ConnType /\ pl \in PlayerType
      /\ pl.last_keyv = KeysAt(client.held, conn.last_key_change)
      /\ pl.prev_keyv = pl.last_keyv /\ Unstuck(pl)
    BY DEF Fits
<1>2. keys \in SUBSET ClientKeys /\ n \in Nat /\ n # 0 /\ n <= Len(client.held)
      /\ conn.last_key_change \in Nat /\ Len(client.held) \in Nat
    BY <1>1 DEF ClientType, ConnType
<1>3. p.change = n /\ p.keys = keys BY DEF Keyboard
<1>4. q \in PlayerType /\ q.last_keyv = keys /\ q.prev_keyv = keys /\ Unstuck(q)
  <2>1. (c = "near") \in BOOLEAN OBVIOUS
  <2> QED BY <1>1, <1>2, <2>1, KeysTakeEffect
<1> HIDE DEF q
<1>5. CASE n <= conn.last_key_change
  <2> DEFINE co == [Begin.conn EXCEPT !.num_keyboard_updates = Begin.conn.num_keyboard_updates + 1]
  <2>1. s = Result([Begin EXCEPT !.conn.num_keyboard_updates = Begin.conn.num_keyboard_updates + 1], 1)
    <3>1. p.change <= Begin.conn.last_key_change BY <1>1, <1>3, <1>5, BeginIs
    <3>2. ~(Begin.conn.num_keyboard_updates > 0 /\ Begin.conn.state = "PLAYING") BY <1>1, BeginIs
    <3> HIDE DEF p
    <3> QED BY <3>1, <3>2 DEF Receive_keyboard
  <2>2. s.conn = co /\ s.pl = pl BY <2>1 DEF Result, Begin
  <2>3. /\ co \in ConnType /\ co.state = conn.state /\ co.said = conn.said
        /\ co.last_key_change = conn.last_key_change
        /\ co.talk_sequence_num = conn.talk_sequence_num
      BY <1>1, BeginIs DEF ConnType
  <2> HIDE DEF co, s
  <2>4. Fits(client, co, pl) BY <2>3 DEF Fits
  <2> QED BY <1>2, <2>2, <2>3, <2>4 DEF Served
<1>6. CASE n > conn.last_key_change
  <2> DEFINE new == [Begin EXCEPT !.conn.last_key_change = n, !.pl = q]
             co == [Begin.conn EXCEPT !.last_key_change = n,
                        !.num_keyboard_updates = Begin.conn.num_keyboard_updates + 1]
  <2>1. s = Result([new EXCEPT !.conn.num_keyboard_updates = new.conn.num_keyboard_updates + 1], 1)
    <3>1. ~(p.change <= Begin.conn.last_key_change) BY <1>1, <1>2, <1>3, <1>6, BeginIs
    <3>2. ~(Begin.conn.num_keyboard_updates > 0 /\ Begin.conn.state = "PLAYING") BY <1>1, BeginIs
    <3>3. new = [Begin EXCEPT !.conn.last_key_change = p.change,
                       !.pl = Handle_keyboard([Begin.pl EXCEPT !.last_keyv = p.keys], c = "near")]
        BY <1>1, <1>3, BeginIs DEF q
    <3> HIDE DEF p, new
    <3> QED BY <3>1, <3>2, <3>3 DEF Receive_keyboard
  <2>2. s.conn = co /\ s.pl = q BY <1>1, <2>1 DEF Result, Begin, ConnType
  <2>3. /\ co \in ConnType /\ co.state = conn.state /\ co.said = conn.said
        /\ co.last_key_change = n /\ co.talk_sequence_num = conn.talk_sequence_num
    <3> DEFINE x == Begin.conn
    <3>1. x \in ConnType /\ x.state = conn.state /\ x.said = conn.said
          /\ x.num_keyboard_updates = 0 /\ x.talk_sequence_num = conn.talk_sequence_num
        BY <1>1, BeginIs
    <3>2. co = [x EXCEPT !.last_key_change = n, !.num_keyboard_updates = 1] BY <3>1
    <3> HIDE DEF x, co
    <3> QED BY <1>2, <3>1, <3>2 DEF ConnType
  <2> HIDE DEF co, s
  <2>4. q.last_keyv = KeysAt(client.held, n) BY <1>2, <1>4 DEF KeysAt
  <2>5. Fits(client, co, q) BY <1>2, <1>4, <2>3, <2>4 DEF Fits
  <2> QED BY <1>2, <1>6, <2>2, <2>3, <2>5 DEF Served
<1> QED BY <1>2, <1>5, <1>6

LEMMA OneMoreSaid ==
    ASSUME NEW n \in Nat, NEW said, said = [i \in 1 .. n |-> i]
    PROVE  Append(said, n + 1) = [i \in 1 .. n + 1 |-> i] /\ Append(said, n + 1) \in Seq(Nat)
<1>1. said \in Seq(Nat) /\ Len(said) = n OBVIOUS
<1>2. Append(said, n + 1) \in Seq(Nat) /\ Len(Append(said, n + 1)) = n + 1 BY <1>1
<1>3. DOMAIN Append(said, n + 1) = 1 .. n + 1 BY <1>2
<1>4. \A i \in 1 .. n + 1 : Append(said, n + 1)[i] = i BY <1>1
<1>5. Append(said, n + 1) = [i \in DOMAIN Append(said, n + 1) |-> Append(said, n + 1)[i]] BY <1>2
<1> QED BY <1>2, <1>3, <1>4, <1>5

LEMMA TalkServed ==
    ASSUME Fits(client, conn, pl), conn.state \in {"READY", "PLAYING"},
           NEW n \in 1 .. client.typed, NEW c
    PROVE  Served(Receive_talk(Begin, Talk(n), c))
<1> DEFINE p == Talk(n)
           m == conn.talk_sequence_num
           s == Receive_talk(Begin, p, c)
<1> SUFFICES Served(s) OBVIOUS
<1>1. client \in ClientType /\ conn \in ConnType /\ pl \in PlayerType BY DEF Fits
<1>2. m \in Nat /\ n \in Nat /\ client.typed \in Nat /\ n <= client.typed /\ client.typed <= m + 1
    BY <1>1 DEF ClientType, ConnType, Fits
<1>3. p.seq = n BY DEF Talk
<1> HIDE DEF p
<1>4. CASE n <= m
  <2>1. s = Result(Begin, 1)
    <3>1. p.seq <= Begin.conn.talk_sequence_num /\ ~(p.seq > Begin.conn.talk_sequence_num)
        BY <1>1, <1>2, <1>3, <1>4, BeginIs
    <3> QED BY <3>1 DEF Receive_talk
  <2> QED BY <2>1, BeginServed, Left
<1>5. CASE n > m /\ c = "full"
  <2>1. s = Destroyed(Begin, "write error")
    <3>1. ~(p.seq <= Begin.conn.talk_sequence_num) /\ p.seq > Begin.conn.talk_sequence_num
        BY <1>1, <1>2, <1>3, <1>5, BeginIs
    <3> QED BY <1>5, <3>1 DEF Receive_talk
  <2> QED BY <2>1, BeginServed, Ended DEF HonestReasons
<1>6. CASE n > m /\ c # "full"
  <2> DEFINE t == [Begin EXCEPT !.conn.talk_sequence_num = n, !.conn.said = Append(conn.said, n)]
             co == [Begin.conn EXCEPT !.talk_sequence_num = n, !.said = Append(conn.said, n)]
             cf == [co EXCEPT !.state = "FREE", !.reason = "kicked out"]
  <2>1. s = IF c = "kick" THEN Result(Destroyed(t, "kicked out"), 1) ELSE Result(t, 1)
    <3>1. t = [Begin EXCEPT !.conn.talk_sequence_num = p.seq,
                            !.conn.said = Append(Begin.conn.said, p.seq)]
        BY <1>1, <1>3, BeginIs
    <3>2. ~(p.seq <= Begin.conn.talk_sequence_num) /\ ~(c = "full")
        BY <1>1, <1>2, <1>3, <1>6, BeginIs
    <3> HIDE DEF t
    <3> QED BY <3>1, <3>2 DEF Receive_talk, Begin
  <2>2. n = m + 1 /\ n = client.typed BY <1>2, <1>6
  <2>3. Append(conn.said, n) = [i \in 1 .. n |-> i] /\ Append(conn.said, n) \in Seq(Nat)
    <3>1. conn.said = [i \in 1 .. m |-> i] BY DEF Fits
    <3> QED BY <1>2, <2>2, <3>1, OneMoreSaid
  <2> DEFINE said == Append(conn.said, n)
  <2> HIDE DEF said
  <2>4. s.pl = pl /\ s.conn = IF c = "kick" THEN cf ELSE co
      BY <2>1 DEF Result, Destroyed, Begin
  <2>5. /\ co \in ConnType /\ co.state = conn.state /\ co.said = Append(conn.said, n)
        /\ co.last_key_change = conn.last_key_change /\ co.talk_sequence_num = n
      BY <1>1, <1>2, <2>3, BeginIs DEF ConnType
  <2>6. /\ cf \in ConnType /\ cf.state = "FREE" /\ cf.said = Append(conn.said, n)
        /\ cf.last_key_change = conn.last_key_change /\ cf.talk_sequence_num = n
      BY <2>5 DEF ConnType, States, HonestReasons
  <2> HIDE DEF co, cf, s
  <2>7. Fits(client, co, pl) BY <1>1, <1>2, <2>2, <2>3, <2>5 DEF Fits
  <2>8. Fits(client, cf, pl) BY <1>1, <1>2, <2>2, <2>3, <2>6 DEF Fits
  <2>9. conn.last_key_change \in Nat BY <1>1 DEF ConnType
  <2> QED BY <2>4, <2>5, <2>6, <2>7, <2>8, <2>9 DEF Served
<1> QED BY <1>2, <1>4, <1>5, <1>6

LEMMA PlayServed ==
    ASSUME NEW h \in StateType, Served(h), h.conn.state \in {"LOGIN", "READY", "PLAYING"}, NEW c
    PROVE  Receive_play(h, c) \in StateType /\ Served(Receive_play(h, c))
           /\ Receive_play(h, c).conn.state # "DRAIN"
<1> DEFINE s == Receive_play(h, c)
           x == h.conn
<1> SUFFICES s \in StateType /\ Served(s) /\ s.conn.state # "DRAIN" OBVIOUS
<1>1. x \in ConnType /\ h.pl \in PlayerType /\ Fits(client, x, h.pl)
      /\ x.last_key_change >= conn.last_key_change
    BY DEF StateType, Served
<1>2. CASE x.state = "LOGIN" /\ c # "noLogin"
  <2> DEFINE co == [x EXCEPT !.state = "READY"]
  <2>1. s = Result([h EXCEPT !.conn.state = "READY", !.pl = NewPlayer], 1)
      BY <1>2 DEF Receive_play
  <2>2. s = [h EXCEPT !.conn = co, !.pl = NewPlayer, !.result = 1] BY <2>1 DEF Result, StateType
  <2> HIDE DEF s, x
  <2>3. /\ co \in ConnType /\ co.state = "READY" /\ co.said = x.said
        /\ co.last_key_change = x.last_key_change /\ co.talk_sequence_num = x.talk_sequence_num
      BY <1>1 DEF ConnType, States
  <2> HIDE DEF co
  <2>4. NewPlayer \in PlayerType /\ NewPlayer.last_keyv = {} /\ NewPlayer.prev_keyv = {}
        /\ Unstuck(NewPlayer)
      BY DEF NewPlayer, PlayerType, Unstuck
  <2>5. s \in StateType /\ s.conn = co /\ s.pl = NewPlayer BY <1>1, <2>2, <2>3, <2>4 DEF StateType
  <2>6. x.last_key_change = 0 BY <1>1, <1>2 DEF Fits
  <2>7. Fits(client, co, NewPlayer) BY <1>1, <1>2, <2>3, <2>4, <2>6 DEF Fits, KeysAt
  <2> QED BY <1>1, <2>3, <2>5, <2>7 DEF Served
<1>3. CASE x.state = "LOGIN" /\ c = "noLogin"
  <2>1. s = Destroyed(h, "login failed") BY <1>3 DEF Receive_play
  <2> HIDE DEF s
  <2> QED BY <2>1, Ended DEF HonestReasons
<1>4. CASE x.state \in {"READY", "PLAYING"}
  <2>1. s = Result(h, 0) BY <1>4 DEF Receive_play
  <2>2. s.conn = h.conn BY <2>1 DEF Result, StateType
  <2> HIDE DEF s
  <2> QED BY <1>4, <2>1, <2>2, Left
<1> QED BY <1>2, <1>3, <1>4

LoginTypes == {"SHAPE", "PLAY", "POWER", "SETTING", "REQUEST"}

LEMMA LoginDatagramIs ==
    /\ LoginDatagram \in Seq({Packet(type) : type \in LoginTypes})
    /\ DOMAIN LoginDatagram = 1 .. 5 /\ Len(LoginDatagram) = 5
    /\ LoginDatagram[1] = Packet("SHAPE")
    /\ \A i \in 1 .. 5 : LoginDatagram[i] \in {Packet(type) : type \in LoginTypes}
<1>1. \A type \in LoginTypes : Packet(type) \in {Packet(t) : t \in LoginTypes} OBVIOUS
<1> DEFINE P == {Packet(t) : t \in LoginTypes}
           a == Packet("SHAPE")
           b == Packet("PLAY")
           c == Packet("POWER")
           d == Packet("SETTING")
           e == Packet("REQUEST")
<1>2. a \in P /\ b \in P /\ c \in P /\ d \in P /\ e \in P BY DEF LoginTypes
<1>3. LoginDatagram = <<a, b, c, d, e>> BY DEF LoginDatagram
<1> HIDE DEF P, a, b, c, d, e
<1>4. LoginDatagram \in Seq(P) /\ Len(LoginDatagram) = 5 /\ LoginDatagram[1] = a BY <1>2, <1>3
<1>5. DOMAIN LoginDatagram = 1 .. 5 BY <1>4
<1>6. \A i \in 1 .. 5 : LoginDatagram[i] \in P
  <2> SUFFICES ASSUME NEW i \in 1 .. 5 PROVE LoginDatagram[i] \in P OBVIOUS
  <2> DEFINE seq == LoginDatagram
  <2>1. seq \in Seq(P) /\ Len(seq) = 5 BY <1>4
  <2> HIDE DEF seq
  <2>2. seq[i] \in P BY <2>1, ElementOfSeq
  <2> QED BY <2>2 DEF seq
<1> QED BY <1>4, <1>5, <1>6 DEF P, a

\* In LOGIN it logs in, later it changes nothing.
LEMMA LoginServed ==
    ASSUME Fits(client, conn, pl), conn.state \in {"LOGIN", "READY", "PLAYING"}, NEW c
    PROVE  Served(Handle_input(LoginDatagram, c))
<1> DEFINE B == {s \in StateType : Served(s) /\ s.conn.state # "DRAIN"}
           par == Loop(c)
           P == {Packet(type) : type \in LoginTypes}
<1>1. Begin \in B
  <2>1. Begin.conn.state # "DRAIN"
    <3>1. conn \in ConnType BY DEF Fits
    <3> QED BY <3>1, BeginIs
  <2> QED BY <2>1, BeginServed
<1>2. par.c = c /\ par.table \in {login_receive, playing_receive} BY DEF Loop, Table
<1>3. ASSUME NEW p \in P, NEW h \in B PROVE PacketTurn(par, p, h) \in B
  <2>1. CASE h.result # 1 \/ h.conn.state = "FREE"
    <3>1. PacketTurn(par, p, h) = h BY <2>1 DEF PacketTurn
    <3> QED BY <3>1
  <2>2. CASE h.result = 1 /\ h.conn.state # "FREE"
    <3>1. PacketTurn(par, p, h) = Handler(h, par.table, p, c) BY <1>2, <2>2 DEF PacketTurn
    <3>2. h \in StateType /\ Served(h) /\ h.conn.state \in {"LOGIN", "READY", "PLAYING"}
        BY <2>2 DEF StateType, ConnType, States
    <3>3. PICK type \in LoginTypes : p = Packet(type) OBVIOUS
    <3> HIDE DEF B, P
    <3>4. CASE type = "PLAY"
      <4>1. p.type = "PLAY" BY <3>3, <3>4 DEF Packet
      <4>2. Handler(h, par.table, p, c) = Receive_play(h, c)
          BY <1>2, <4>1 DEF Handler, login_receive, playing_receive
      <4> QED BY <3>1, <3>2, <4>2, PlayServed DEF B
    <3>5. CASE type # "PLAY"
      <4>1. p.type \in {"SHAPE", "POWER", "SETTING", "REQUEST"}
          BY <3>3, <3>5 DEF Packet, LoginTypes
      <4>2. Handler(h, par.table, p, c) = Result(h, 1)
          BY <1>2, <4>1 DEF Handler, login_receive, playing_receive, Receive_shape,
             Receive_power, Receive_setting, Receive_request
      <4>3. Result(h, 1).conn = h.conn BY <3>2 DEF Result, StateType
      <4> QED BY <3>1, <3>2, <4>2, <4>3, Left DEF B
    <3> QED BY <3>4, <3>5
  <2> QED BY <2>1, <2>2 DEF StateType
<1> HIDE DEF B, par, P
<1>4. Packets!Closed(par, {LoginDatagram[i] : i \in DOMAIN LoginDatagram}, B)
  <2>1. \A i \in DOMAIN LoginDatagram : LoginDatagram[i] \in P BY LoginDatagramIs DEF P
  <2> QED BY <1>3, <2>1 DEF Packets!Closed
<1>5. LoginDatagram \in Seq(P) BY LoginDatagramIs DEF P
<1>6. Packets!OverSeq(par, Begin, LoginDatagram) \in B BY <1>1, <1>4, <1>5, Packets!SeqKeeps
<1> QED BY <1>6, HandleInputIs DEF B, par

\* While the connection is drained its first packet drops the rest.
LEMMA LoginTooEarly ==
    ASSUME Fits(client, conn, pl), conn.state = "DRAIN", NEW c
    PROVE  Served(Handle_input(LoginDatagram, c))
<1> DEFINE drop == Result(Begin, 0)
           bad == Destroyed(Begin, "undefined packet")
           B == {Begin, drop, bad}
           par == Loop(c)
           P == {Packet(type) : type \in LoginTypes}
           A == [n \in 0 .. 5 |-> IF n = 0 THEN {Begin} ELSE {drop}]
<1>1. par.c = c /\ par.table = drain_receive BY DEF Loop, Table
<1>2. Begin \in StateType /\ Begin.result = 1 /\ Begin.conn.state = "DRAIN" /\ conn \in ConnType
    BY BeginServed, BeginIs DEF Fits
<1>3. drop.result = 0 /\ bad.result = -1 BY <1>2 DEF Result, Destroyed, StateType
<1>4. ASSUME NEW h \in {drop, bad}, NEW p PROVE PacketTurn(par, p, h) = h
  <2> HIDE DEF drop, bad, par
  <2>1. h.result # 1 BY <1>3, <1>4
  <2> QED BY <2>1 DEF PacketTurn
<1> HIDE DEF drop, bad
<1>5. ASSUME NEW p PROVE PacketTurn(par, p, Begin) = Handler(Begin, drain_receive, p, c)
    BY <1>1, <1>2 DEF PacketTurn
<1>6. ASSUME NEW p \in P PROVE PacketTurn(par, p, Begin) \in B
  <2>1. PICK type \in LoginTypes : p = Packet(type) OBVIOUS
  <2>2. p.type = type BY <2>1 DEF Packet
  <2>3. CASE type \in {"SHAPE", "PLAY"}
    <3>1. Handler(Begin, drain_receive, p, c) = drop
        BY <2>2, <2>3 DEF Handler, drain_receive, Receive_discard, drop
    <3> QED BY <1>5, <3>1
  <2>4. CASE type \in {"POWER", "SETTING", "REQUEST"}
    <3>1. Handler(Begin, drain_receive, p, c) = bad
        BY <2>2, <2>4 DEF Handler, drain_receive, Receive_undefined, bad
    <3> QED BY <1>5, <3>1
  <2> QED BY <2>3, <2>4 DEF LoginTypes
<1>7. PacketTurn(par, Packet("SHAPE"), Begin) = drop
  <2>1. Packet("SHAPE").type = "SHAPE" BY DEF Packet
  <2>2. Handler(Begin, drain_receive, Packet("SHAPE"), c) = drop
      BY <2>1 DEF Handler, drain_receive, Receive_discard, drop
  <2> QED BY <1>5, <2>2
<1> HIDE DEF par, P
<1>8. Packets!Closed(par, {LoginDatagram[i] : i \in DOMAIN LoginDatagram}, B)
  <2>1. \A i \in DOMAIN LoginDatagram : LoginDatagram[i] \in P BY LoginDatagramIs DEF P
  <2> QED BY <1>4, <1>6, <2>1 DEF Packets!Closed
<1>9. \A i \in DOMAIN LoginDatagram :
          \A h \in A[i - 1] \cap B : PacketTurn(par, LoginDatagram[i], h) \in A[i]
  <2> SUFFICES ASSUME NEW i \in 1 .. 5, NEW h \in A[i - 1] \cap B
               PROVE  PacketTurn(par, LoginDatagram[i], h) \in A[i]
      BY LoginDatagramIs
  <2>1. i - 1 \in 0 .. 5 /\ i \in 0 .. 5 /\ A[i] = {drop} OBVIOUS
  <2>2. CASE i = 1
    <3>1. h = Begin BY <2>1, <2>2
    <3> QED BY <1>7, <2>1, <2>2, <3>1, LoginDatagramIs
  <2>3. CASE i # 1
    <3>1. h = drop BY <2>1, <2>3
    <3> QED BY <1>4, <2>1, <3>1
  <2> QED BY <2>2, <2>3
<1>10. Begin \in A[0] \cap B /\ A[5] = {drop} OBVIOUS
<1>11. LoginDatagram \in Seq(P) BY LoginDatagramIs DEF P
<1> HIDE DEF A, B
<1>12. Packets!OverSeq(par, Begin, LoginDatagram) \in A[Len(LoginDatagram)]
    BY <1>8, <1>9, <1>10, <1>11, Packets!SeqInOrder
<1>13. Handle_input(LoginDatagram, c) = drop BY <1>10, <1>12, LoginDatagramIs, HandleInputIs DEF par
<1> QED BY <1>13, BeginServed, Left DEF drop

LEMMA PacketServed ==
    ASSUME Fits(client, conn, pl), conn.state # "FREE", NEW c,
           NEW p, \/ p = Packet("VERIFY") \/ p = Packet("QUIT")
                  \/ \E n \in 1 .. Len(client.held) : p = Keyboard(n, client.held[n])
                  \/ \E n \in 1 .. client.typed : p = Talk(n)
    PROVE  Served(Handle_input(<<p>>, c))
<1> DEFINE table == Table(conn.state)
           s == Handler(Begin, table, p, c)
<1>1. conn \in ConnType /\ conn.state \in {"DRAIN", "LOGIN", "READY", "PLAYING"}
    BY DEF Fits, ConnType, States
<1>2. Handle_input(<<p>>, c) = s BY <1>1, OnePacket
<1>3. /\ table \in {drain_receive, login_receive, playing_receive}
      /\ conn.state \in {"READY", "PLAYING"} => table = playing_receive
    BY <1>1 DEF Table
<1>4. client.held # <<>> \/ client.typed # 0 => conn.state \in {"READY", "PLAYING"}
    BY <1>1 DEF Fits
<1> HIDE DEF table
<1> SUFFICES Served(s) BY <1>2
<1>5. CASE p = Packet("VERIFY")
  <2>1. p.type = "VERIFY" BY <1>5 DEF Packet
  <2>2. s = Result(Begin, 0)
      BY <1>3, <2>1 DEF Handler, drain_receive, login_receive, playing_receive, Receive_discard
  <2> QED BY <2>2, BeginServed, Left
<1>6. CASE p = Packet("QUIT")
  <2>1. p.type = "QUIT" BY <1>6 DEF Packet
  <2>2. "QUIT" \in DOMAIN table /\ table["QUIT"] = "quit"
      BY <1>3 DEF drain_receive, login_receive, playing_receive
  <2>3. s = Destroyed(Begin, "client quit") BY <2>1, <2>2 DEF Handler, Receive_quit
  <2> QED BY <2>3, BeginServed, Ended DEF HonestReasons
<1>7. ASSUME NEW n \in 1 .. Len(client.held), p = Keyboard(n, client.held[n]) PROVE Served(s)
  <2>1. p.type = "KEYBOARD" BY <1>7 DEF Keyboard
  <2>2. client.held # <<>>
    <3>1. client.held \in Seq(SUBSET ClientKeys) BY DEF Fits, ClientType
    <3> QED BY <1>7, <3>1
  <2>3. s = Receive_keyboard(Begin, p, c) BY <1>3, <1>4, <2>1, <2>2 DEF Handler, playing_receive
  <2> QED BY <1>4, <1>7, <2>2, <2>3, KeyboardServed
<1>8. ASSUME NEW n \in 1 .. client.typed, p = Talk(n) PROVE Served(s)
  <2>1. p.type = "TALK" BY <1>8 DEF Talk
  <2>2. client.typed # 0
    <3>1. client.typed \in Nat BY DEF Fits, ClientType
    <3> QED BY <1>8, <3>1
  <2>3. s = Receive_talk(Begin, p, c) BY <1>3, <1>4, <2>1, <2>2 DEF Handler, playing_receive
  <2> QED BY <1>4, <1>8, <2>2, <2>3, TalkServed
<1> QED BY <1>5, <1>6, <1>7, <1>8

LEMMA DatagramServed ==
    ASSUME Fits(client, conn, pl), conn.state # "FREE", NEW d \in Datagrams(client), NEW c
    PROVE  Served(Handle_input(d, c))
<1>1. CASE d = LoginDatagram
  <2>1. conn.state \in {"DRAIN", "LOGIN", "READY", "PLAYING"} BY DEF Fits, ConnType, States
  <2> QED BY <1>1, <2>1, LoginServed, LoginTooEarly
<1>2. CASE d # LoginDatagram
  <2>1. \/ d = <<Packet("VERIFY")>> \/ d = <<Packet("QUIT")>>
        \/ \E n \in 1 .. Len(client.held) : d = <<Keyboard(n, client.held[n])>>
        \/ \E n \in 1 .. client.typed : d = <<Talk(n)>>
      BY <1>2 DEF Datagrams
  <2> QED BY <2>1, PacketServed
<1> QED BY <1>1, <1>2

-----------------------------------------------------------------------------
(* The actions.                                                            *)

\* What a step keeps.
Kept == InputInv' /\ conn'.last_key_change >= conn.last_key_change

LEMMA KeysNeverGoBack ==
    ASSUME InputInv
    PROVE  conn.last_key_change >= conn.last_key_change
<1>1. conn.last_key_change \in Nat BY DEF InputInv, Fits, ConnType
<1> QED BY <1>1

LEMMA HandleKeeps == ASSUME InputInv, Handle PROVE Kept
<1>1. PICK d \in net, keep \in BOOLEAN, c \in Circumstances : Receive(d, keep, c) BY DEF Handle
<1>2. /\ conn.state # "FREE" /\ client' = client /\ net' \subseteq net
      /\ conn' = Handle_input(d, c).conn /\ pl' = Handle_input(d, c).pl
    BY <1>1 DEF Receive
<1>3. Served(Handle_input(d, c)) BY <1>2, DatagramServed DEF InputInv
<1>4. Fits(client', conn', pl') /\ conn'.last_key_change >= conn.last_key_change
    BY <1>2, <1>3 DEF Served
<1>5. net' \subseteq Datagrams(client') BY <1>2 DEF InputInv
<1> QED BY <1>4, <1>5 DEF Kept, InputInv

\* The connection alone changes: its state, and why.
LEMMA StateKeeps ==
    ASSUME InputInv, UNCHANGED <<client, net, pl>>, NEW st \in States, NEW reason \in HonestReasons,
           conn' = [conn EXCEPT !.state = st, !.reason = reason],
           \/ st = "FREE"
           \/ st = "LOGIN" /\ conn.state = "DRAIN"
           \/ st = "PLAYING" /\ conn.state = "READY"
    PROVE  Kept
<1>1. conn \in ConnType /\ Fits(client, conn, pl) BY DEF InputInv, Fits
<1>2. /\ conn' \in ConnType /\ conn'.state = st /\ conn'.said = conn.said
      /\ conn'.last_key_change = conn.last_key_change
      /\ conn'.talk_sequence_num = conn.talk_sequence_num
    BY <1>1 DEF ConnType
<1>3. Fits(client, conn', pl) BY <1>1, <1>2 DEF Fits
<1> QED BY <1>2, <1>3, KeysNeverGoBack DEF Kept, InputInv

LEMMA AckedKeeps == ASSUME InputInv, Acked PROVE Kept
<1>1. conn \in ConnType BY DEF InputInv, Fits
<1>2. \A st \in States : [conn EXCEPT !.state = st] = [conn EXCEPT !.state = st, !.reason = conn.reason]
      /\ conn.reason \in HonestReasons
    BY <1>1 DEF ConnType
<1> QED BY <1>2, StateKeeps DEF Acked, States

LEMMA TimeoutKeeps == ASSUME InputInv, Timeout PROVE Kept
BY StateKeeps DEF Timeout, States, HonestReasons

LEMMA SentIs == ASSUME NEW d, Sent(d) PROVE net' \subseteq net \cup {d}
BY DEF Sent

\* The client sends what it may.
LEMMA SendKeeps ==
    ASSUME InputInv, UNCHANGED <<client, conn, pl>>, NEW d \in Datagrams(client), Sent(d)
    PROVE  Kept
<1>1. net' \subseteq Datagrams(client) BY SentIs DEF InputInv
<1> QED BY <1>1, KeysNeverGoBack DEF Kept, InputInv

LEMMA ClientLoginKeeps == ASSUME InputInv, ClientLogin PROVE Kept
BY SendKeeps DEF ClientLogin, Datagrams, LoginDatagram

LEMMA ClientQuitKeeps == ASSUME InputInv, ClientQuit PROVE Kept
BY SendKeeps DEF ClientQuit, Datagrams

LEMMA HeldIs ==
    ASSUME client \in ClientType
    PROVE  /\ Held \in SUBSET ClientKeys
           /\ client.held # <<>> => /\ Len(client.held) \in 1 .. Len(client.held)
                                    /\ Held = client.held[Len(client.held)]
<1>1. client.held \in Seq(SUBSET ClientKeys) BY DEF ClientType
<1>2. client.held # <<>> => Len(client.held) \in 1 .. Len(client.held) BY <1>1
<1>3. client.held # <<>> => Held = client.held[Len(client.held)] BY DEF Held, Last
<1>4. Held \in SUBSET ClientKeys
  <2>1. CASE client.held = <<>> BY <2>1 DEF Held
  <2>2. CASE client.held # <<>> BY <1>1, <1>2, <1>3, <2>2, ElementOfSeq
  <2> QED BY <2>1, <2>2
<1> QED BY <1>2, <1>3, <1>4

LEMMA ClientRepeatKeysKeeps == ASSUME InputInv, ClientRepeatKeys PROVE Kept
<1>1. client \in ClientType BY DEF InputInv, Fits
<1> DEFINE n == Len(client.held)
<1>2. n \in 1 .. Len(client.held) /\ Held = client.held[n] BY <1>1, HeldIs DEF ClientRepeatKeys
<1>3. <<Keyboard(n, Held)>> \in Datagrams(client) BY <1>2 DEF Datagrams
<1> QED BY <1>3, SendKeeps DEF ClientRepeatKeys

LEMMA ClientRepeatLineKeeps == ASSUME InputInv, ClientRepeatLine PROVE Kept
<1>1. client.typed \in Nat /\ client.typed > 0 BY DEF InputInv, Fits, ClientType, ClientRepeatLine
<1>2. client.typed \in 1 .. client.typed BY <1>1
<1>3. <<Talk(client.typed)>> \in Datagrams(client) BY <1>2 DEF Datagrams
<1> QED BY <1>3, SendKeeps DEF ClientRepeatLine

LEMMA ClientHasReplyKeeps == ASSUME InputInv, ClientHasReply PROVE Kept
<1>1. client \in ClientType /\ Fits(client, conn, pl) BY DEF InputInv, Fits
<1>2. /\ client' \in ClientType /\ client'.started = TRUE
      /\ client'.held = client.held /\ client'.typed = client.typed
    BY <1>1 DEF ClientHasReply, ClientType
<1>3. Fits(client', conn, pl) BY <1>1, <1>2 DEF Fits, ClientHasReply
<1>4. Datagrams(client') = Datagrams(client) BY <1>2 DEF Datagrams
<1> QED BY <1>3, <1>4, KeysNeverGoBack DEF Kept, InputInv, ClientHasReply

LEMMA ClientTalkKeeps == ASSUME InputInv, ClientTalk PROVE Kept
<1>1. client \in ClientType /\ conn \in ConnType /\ Fits(client, conn, pl) BY DEF InputInv, Fits
<1>2. /\ client' \in ClientType /\ client'.started = TRUE
      /\ client'.held = client.held /\ client'.typed = client.typed + 1
    BY <1>1 DEF ClientTalk, ClientType
<1>3. conn.talk_sequence_num = client.typed /\ client.typed \in Nat
    BY <1>1 DEF ClientTalk, ClientType
<1>4. client.started BY DEF ClientTalk
<1>5. Fits(client', conn, pl) BY <1>1, <1>2, <1>3, <1>4 DEF Fits
<1>6. Datagrams(client) \subseteq Datagrams(client')
  <2>1. 1 .. client.typed \subseteq 1 .. client'.typed BY <1>2, <1>3
  <2> QED BY <1>2, <2>1 DEF Datagrams
<1> QED BY <1>5, <1>6, KeysNeverGoBack DEF Kept, InputInv, ClientTalk

LEMMA ClientKeyKeeps == ASSUME InputInv, ClientKey PROVE Kept
<1>1. client \in ClientType /\ conn \in ConnType /\ Fits(client, conn, pl) BY DEF InputInv, Fits
<1> DEFINE held == client.held
           n == Len(held)
<1>2. PICK k \in ClientKeys :
          /\ client' = [client EXCEPT !.held = Append(client.held, SymDiff(Held, {k}))]
          /\ \/ Sent(<<Keyboard(Len(client.held) + 1, SymDiff(Held, {k}))>>)
             \/ UNCHANGED net
    BY DEF ClientKey
<1> DEFINE keys == SymDiff(Held, {k})
<1>3. keys \in SUBSET ClientKeys BY <1>1, HeldIs DEF SymDiff
<1> HIDE DEF keys
<1>4. held \in Seq(SUBSET ClientKeys) /\ n \in Nat BY <1>1 DEF ClientType
<1>5. /\ client' \in ClientType /\ client'.held = Append(held, keys)
      /\ client'.started = client.started /\ client'.typed = client.typed
  <2>1. Append(held, keys) \in Seq(SUBSET ClientKeys) BY <1>3, <1>4
  <2>2. client' = [client EXCEPT !.held = Append(held, keys)] BY <1>2 DEF keys
  <2> QED BY <1>1, <2>1, <2>2 DEF ClientType
<1>6. /\ Len(client'.held) = n + 1 /\ client'.held[n + 1] = keys
      /\ \A m \in 1 .. n : client'.held[m] = held[m]
    BY <1>3, <1>4, <1>5
<1>7. client.started /\ conn' = conn /\ pl' = pl BY DEF ClientKey
<1>8. conn.last_key_change \in Nat /\ conn.last_key_change <= n BY <1>1 DEF Fits, ConnType
<1>9. Fits(client', conn, pl)
  <2>1. KeysAt(client'.held, conn.last_key_change) = KeysAt(held, conn.last_key_change)
      BY <1>4, <1>6, <1>8 DEF KeysAt
  <2>2. conn.last_key_change <= Len(client'.held) BY <1>4, <1>6, <1>8
  <2> HIDE DEF held, n
  <2> QED BY <1>1, <1>5, <1>7, <2>1, <2>2 DEF Fits, held
<1>10. Datagrams(client) \subseteq Datagrams(client')
  <2>1. 1 .. n \subseteq 1 .. Len(client'.held) BY <1>4, <1>6
  <2> QED BY <1>5, <1>6, <2>1 DEF Datagrams
<1>11. <<Keyboard(n + 1, keys)>> \in Datagrams(client')
  <2>1. n + 1 \in 1 .. Len(client'.held) BY <1>4, <1>6
  <2> QED BY <1>6, <2>1 DEF Datagrams
<1>12. net' \subseteq Datagrams(client') BY <1>2, <1>10, <1>11, SentIs DEF InputInv, keys
<1> QED BY <1>7, <1>9, <1>12, KeysNeverGoBack DEF Kept, InputInv

\* What happens to the ship switches nothing on but the shield.
LEMMA ShipKeeps ==
    ASSUME InputInv, UNCHANGED <<client, net, conn>>, pl' \in PlayerType,
           pl'.last_keyv = pl.last_keyv, pl'.prev_keyv = pl.prev_keyv,
           pl'.used \subseteq pl.used \cup {"SHIELD"}, pl'.thrusting => pl.thrusting,
           pl'.reprogram = pl.reprogram, pl'.turnacc \in {0, pl.turnacc}, pl'.fs = pl.fs
    PROVE  Kept
<1>1. Fits(client, conn, pl) BY DEF InputInv
<1>2. Unstuck(pl) => Unstuck(pl') BY DEF Unstuck
<1>3. Fits(client, conn, pl') BY <1>1, <1>2 DEF Fits
<1> QED BY <1>3, KeysNeverGoBack DEF Kept, InputInv

LEMMA DiesKeeps == ASSUME InputInv, Dies PROVE Kept
<1>1. pl \in PlayerType BY DEF InputInv, Fits
<1>2. PICK b \in SUBSET {"CONNECTOR"} : pl' = [pl EXCEPT !.alive = FALSE, !.used = pl.used \ b]
    BY DEF Dies
<1>3. /\ pl' \in PlayerType /\ pl'.used \subseteq pl.used
      /\ pl'.last_keyv = pl.last_keyv /\ pl'.prev_keyv = pl.prev_keyv
      /\ pl'.thrusting = pl.thrusting /\ pl'.reprogram = pl.reprogram
      /\ pl'.turnacc = pl.turnacc /\ pl'.fs = pl.fs
    BY <1>1, <1>2 DEF PlayerType
<1> QED BY <1>3, ShipKeeps DEF Dies

LEMMA ReturnsKeeps == ASSUME InputInv, Returns PROVE Kept
<1>1. pl \in PlayerType BY DEF InputInv, Fits
<1>2. PICK b \in SUBSET {"SHIELD"} :
          pl' = [pl EXCEPT !.alive = TRUE, !.turnacc = 0, !.used = pl.used \cup b]
    BY DEF Returns
<1>3. /\ pl' \in PlayerType /\ pl'.used \subseteq pl.used \cup {"SHIELD"}
      /\ pl'.last_keyv = pl.last_keyv /\ pl'.prev_keyv = pl.prev_keyv
      /\ pl'.thrusting = pl.thrusting /\ pl'.reprogram = pl.reprogram
      /\ pl'.turnacc = 0 /\ pl'.fs = pl.fs
  <2> DEFINE used == pl.used \cup b
  <2>1. used \in SUBSET {"SHIELD", "FIRE_SHOT", "REFUEL", "CONNECTOR"}
      BY <1>1, <1>2 DEF PlayerType
  <2>2. used \subseteq pl.used \cup {"SHIELD"} OBVIOUS
  <2>3. pl' = [pl EXCEPT !.alive = TRUE, !.turnacc = 0, !.used = used] BY <1>2
  <2> HIDE DEF used
  <2>4. /\ pl'.used = used /\ pl'.last_keyv = pl.last_keyv /\ pl'.prev_keyv = pl.prev_keyv
        /\ pl'.thrusting = pl.thrusting /\ pl'.reprogram = pl.reprogram
        /\ pl'.turnacc = 0 /\ pl'.fs = pl.fs
      BY <1>1, <2>3 DEF PlayerType
  <2>5. pl' \in PlayerType
    <3> DEFINE x == [pl EXCEPT !.alive = TRUE]
               y == [x EXCEPT !.turnacc = 0]
    <3>1. x \in PlayerType BY <1>1 DEF PlayerType
    <3>2. pl' = [y EXCEPT !.used = used] BY <2>3
    <3> HIDE DEF x
    <3>3. y \in PlayerType BY <3>1 DEF PlayerType
    <3> HIDE DEF y
    <3> QED BY <2>1, <3>2, <3>3 DEF PlayerType
  <2> QED BY <2>2, <2>4, <2>5
<1> QED BY <1>3, ShipKeeps DEF Returns

LEMMA FliesKeeps == ASSUME InputInv, Flies PROVE Kept
<1>1. pl \in PlayerType BY DEF InputInv, Fits
<1>2. \/ pl' = [pl EXCEPT !.used = pl.used \ {"SHIELD"}, !.thrusting = FALSE]
      \/ pl' = [pl EXCEPT !.used = pl.used \ {"REFUEL"}]
      \/ pl' = [pl EXCEPT !.used = pl.used \ {"SHIELD"}]
    BY DEF Flies
<1>3. /\ pl' \in PlayerType /\ pl'.used \subseteq pl.used
      /\ pl'.last_keyv = pl.last_keyv /\ pl'.prev_keyv = pl.prev_keyv
      /\ pl'.thrusting => pl.thrusting
      /\ pl'.reprogram = pl.reprogram
      /\ pl'.turnacc = pl.turnacc /\ pl'.fs = pl.fs
    BY <1>1, <1>2 DEF PlayerType
<1> QED BY <1>3, ShipKeeps DEF Flies

LEMMA InitServed == ASSUME InputInit PROVE InputInv
<1>1. client \in ClientType /\ ~client.started /\ client.held = <<>> /\ client.typed = 0
      /\ Len(client.held) = 0
  <2>1. <<>> \in Seq(SUBSET ClientKeys) /\ Len(<<>>) = 0 OBVIOUS
  <2>2. [started |-> FALSE, held |-> <<>>, typed |-> 0] \in ClientType BY <2>1 DEF ClientType
  <2> QED BY <2>1, <2>2 DEF InputInit
<1>2. conn \in ConnType /\ conn.state = "DRAIN" /\ conn.last_key_change = 0
      /\ conn.talk_sequence_num = 0 /\ conn.said = <<>>
  <2>1. <<>> \in Seq(Nat) /\ "DRAIN" \in States /\ "" \in HonestReasons
      BY DEF States, HonestReasons
  <2>2. [state |-> "DRAIN", last_key_change |-> 0, num_keyboard_updates |-> 0,
         talk_sequence_num |-> 0, reason |-> "", said |-> <<>>] \in ConnType
      BY <2>1 DEF ConnType
  <2> QED BY <2>2 DEF InputInit
<1>3. pl \in PlayerType
  <2>1. NewPlayer \in PlayerType BY DEF NewPlayer, PlayerType
  <2> QED BY <2>1 DEF InputInit
<1>4. <<>> = [i \in 1 .. 0 |-> i] OBVIOUS
<1>5. Fits(client, conn, pl) BY <1>1, <1>2, <1>3, <1>4 DEF Fits
<1> QED BY <1>5 DEF InputInv, InputInit, Datagrams

LEMMA InputStep == ASSUME InputInv, [InputNext]_inputVars PROVE Kept
<1>1. CASE UNCHANGED inputVars BY <1>1, KeysNeverGoBack DEF inputVars, Kept, InputInv
<1>2. CASE InputNext
    BY <1>2, HandleKeeps, AckedKeeps, TimeoutKeeps, ClientLoginKeeps, ClientHasReplyKeeps,
       ClientKeyKeeps, ClientRepeatKeysKeeps, ClientTalkKeeps, ClientRepeatLineKeeps,
       ClientQuitKeeps, DiesKeeps, ReturnsKeeps, FliesKeeps
    DEF InputNext
<1> QED BY <1>1, <1>2

LEMMA InvServes == ASSUME InputInv PROVE ClientIsServed
<1>1. Fits(client, conn, pl) BY DEF InputInv
<1>2. NothingSticks
  <2>1. Turned(pl).turnacc = Turning(pl.last_keyv)
    <3>1. pl \in PlayerType BY <1>1 DEF Fits
    <3> QED BY <3>1 DEF Turned, Turning, PlayerType
  <2> QED BY <1>1, <2>1 DEF NothingSticks, InGame, Fits, Unstuck
<1>3. SaidOnceInOrder BY <1>1 DEF Fits, SaidOnceInOrder
<1>4. HonestClientStays BY <1>1 DEF Fits, ConnType, HonestReasons, HonestClientStays
<1> QED BY <1>2, <1>3, <1>4 DEF ClientIsServed

\* No key sticks, each line is handled once and in order, and no packet of a client
\* that follows the protocol, lost, repeated or late, ends its connection
\* (netserver.cpp: Handle_input and the handlers; event.cpp: Handle_keyboard).
THEOREM InputIsServed == InputSpec => []ClientIsServed
<1>1. InputSpec => []InputInv
  <2>1. InputInit => InputInv BY InitServed
  <2>2. InputInv /\ [InputNext]_inputVars => InputInv' BY InputStep DEF Kept
  <2> QED BY <2>1, <2>2, PTL DEF InputSpec
<1>2. InputInv => ClientIsServed BY InvServes
<1> QED BY <1>1, <1>2, PTL

\* The keys in force are at each step those of the newest packet that ever arrived
\* (netserver.cpp: Receive_keyboard).
THEOREM NewestKeysAreInForce == InputSpec => NewestKeysCount
<1>1. InputInit => InputInv BY InitServed
<1>2. InputInv /\ [InputNext]_inputVars => InputInv' BY InputStep DEF Kept
<1>3. InputInv /\ [InputNext]_inputVars =>
          [InGame' => /\ conn'.last_key_change >= conn.last_key_change
                      /\ pl'.last_keyv = (IF conn'.last_key_change = 0 THEN {}
                                          ELSE client'.held[conn'.last_key_change])]_inputVars
  <2> SUFFICES ASSUME InputInv, [InputNext]_inputVars, InGame'
               PROVE  /\ conn'.last_key_change >= conn.last_key_change
                      /\ pl'.last_keyv = (IF conn'.last_key_change = 0 THEN {}
                                          ELSE client'.held[conn'.last_key_change])
      OBVIOUS
  <2>1. Kept BY InputStep
  <2>2. Fits(client', conn', pl') /\ conn'.last_key_change >= conn.last_key_change
      BY <2>1 DEF Kept, InputInv
  <2>3. conn'.state \in {"READY", "PLAYING"} BY DEF InGame
  <2>4. pl'.last_keyv = KeysAt(client'.held, conn'.last_key_change) BY <2>2, <2>3 DEF Fits
  <2> QED BY <2>2, <2>4 DEF KeysAt
<1> QED BY <1>1, <1>2, <1>3, PTL DEF InputSpec, NewestKeysCount

-----------------------------------------------------------------------------
(* Operators.                                                              *)

GameType  == [in : SUBSET Humans, paused : SUBSET Humans, queued : Int]
StaffType == [isoperator : SUBSET Humans, NumOperators : Int, game_lock : BOOLEAN,
              password : BOOLEAN, credentials : BOOLEAN]

OpInv ==
    /\ game \in GameType /\ staff \in StaffType
    /\ IsFiniteSet(game.in) /\ game.paused \subseteq game.in
    /\ OperatorsAreCounted

DismissTurn(par, p, s) == Dismissed(s, p)
Dismissals == INSTANCE FoldTheorems WITH Turn <- DismissTurn

\* All of P are thrown out, one after the other.
LEMMA DismissedAreCounted ==
    ASSUME NEW In, IsFiniteSet(In), NEW P \in SUBSET In, NEW s \in StaffType,
           s.NumOperators = Cardinality(s.isoperator \cap In)
    PROVE  LET t == FoldSet(LAMBDA p, r : Dismissed(r, p), s, P)
           IN  /\ t \in StaffType
               /\ t.NumOperators = Cardinality(t.isoperator \cap (In \ P))
<1> DEFINE t == FoldSet(LAMBDA p, r : Dismissed(r, p), s, P)
           A == [D \in SUBSET P |->
                    {r \in StaffType : /\ r.isoperator = s.isoperator
                                       /\ r.NumOperators = Cardinality(s.isoperator \cap (In \ D))}]
<1> SUFFICES t \in StaffType /\ t.NumOperators = Cardinality(t.isoperator \cap (In \ P))
    OBVIOUS
<1>1. t = Dismissals!OverSet(0, s, P)
    BY DEF FoldSet, MapThenFoldSet, Dismissals!OverSet, DismissTurn
<1>2. Dismissals!IsFiniteSet(P)
  <2>1. IsFiniteSet(P) BY FS_Subset
  <2> QED BY <2>1 DEF IsFiniteSet, Dismissals!IsFiniteSet
<1>3. s \in A[{}]
  <2>1. In \ {} = In OBVIOUS
  <2> QED BY <2>1
<1>4. Dismissals!SetCarries(0, P, A)
  <2> SUFFICES ASSUME NEW D \in SUBSET P, NEW p \in P \ D, NEW r \in A[D]
               PROVE  Dismissed(r, p) \in A[D \cup {p}]
      BY DEF Dismissals!SetCarries, DismissTurn
  <2> DEFINE Present == s.isoperator \cap (In \ D)
             Staying == s.isoperator \cap (In \ (D \cup {p}))
  <2>1. r \in StaffType /\ r.isoperator = s.isoperator /\ r.NumOperators = Cardinality(Present)
      OBVIOUS
  <2>2. IsFiniteSet(Present) /\ Staying = Present \ {p} /\ (p \in Present <=> p \in s.isoperator)
    <3>1. Present \in SUBSET In OBVIOUS
    <3>2. IsFiniteSet(Present) BY <3>1, FS_Subset
    <3> QED BY <3>2
  <2>3. Cardinality(Staying) = IF p \in s.isoperator THEN Cardinality(Present) - 1 ELSE Cardinality(Present)
    <3> HIDE DEF Present, Staying
    <3> QED BY <2>2, FS_RemoveElement
  <2>4. /\ Dismissed(r, p) \in StaffType /\ Dismissed(r, p).isoperator = s.isoperator
        /\ Dismissed(r, p).NumOperators = Cardinality(Staying)
    <3> DEFINE lock == r.game_lock /\ r.NumOperators # 1
               n == r.NumOperators - 1
    <3>1. CASE p \in r.isoperator
      <4>1. Dismissed(r, p) = [r EXCEPT !.NumOperators = n, !.game_lock = lock]
          BY <3>1 DEF Dismissed
      <4>2. n \in Int /\ lock \in BOOLEAN /\ n = Cardinality(Staying)
          BY <2>1, <2>3, <3>1 DEF StaffType
      <4> HIDE DEF lock, n, A, Present, Staying
      <4> QED BY <2>1, <4>1, <4>2 DEF StaffType
    <3>2. CASE p \notin r.isoperator
      <4> HIDE DEF A, Present, Staying
      <4> QED BY <2>1, <2>3, <3>2 DEF Dismissed
    <3> QED BY <3>1, <3>2
  <2> QED BY <2>4
<1> HIDE DEF A
<1>5. t \in A[P] BY <1>1, <1>2, <1>3, <1>4, Dismissals!SetIsCarried
<1> HIDE DEF t
<1> QED BY <1>5 DEF A

LEMMA DestroyKeeps ==
    ASSUME OpInv, NEW P \in SUBSET game.in, Destroy_connections(P)
    PROVE  OpInv'
<1> DEFINE t == FoldSet(LAMBDA p, r : Dismissed(r, p), staff, P)
<1>1. t \in StaffType /\ t.NumOperators = Cardinality(t.isoperator \cap (game.in \ P))
    BY DismissedAreCounted DEF OpInv, OperatorsAreCounted
<1>2. staff' = t BY DEF Destroy_connections
<1> HIDE DEF t
<1>3. /\ game' \in GameType /\ game'.in = game.in \ P /\ game'.paused = game.paused \ P
    BY DEF Destroy_connections, OpInv, GameType
<1>4. IsFiniteSet(game'.in) BY <1>3, FS_Subset DEF OpInv
<1> QED BY <1>1, <1>2, <1>3, <1>4 DEF OpInv, OperatorsAreCounted

LEMMA PauseKeeps ==
    ASSUME OpInv, NEW p \in game.in, Player_pause_forced(p)
    PROVE  OpInv'
<1> DEFINE kicked == IF Cardinality(game.paused) >= MaxPaused THEN game.paused ELSE {}
           t == FoldSet(LAMBDA q, s : Dismissed(s, q), staff, kicked)
<1>1. CASE p \in game.paused
    BY <1>1 DEF Player_pause_forced, opVars, OpInv, OperatorsAreCounted
<1>2. CASE p \notin game.paused
  <2>1. kicked \in SUBSET game.in /\ p \notin kicked /\ kicked \subseteq game.paused BY <1>2 DEF OpInv
  <2>2. /\ staff' = t
        /\ game' = [game EXCEPT !.in = @ \ kicked, !.paused = (@ \ kicked) \cup {p}]
      BY <1>2 DEF Player_pause_forced
  <2> HIDE DEF kicked
  <2>3. t \in StaffType /\ t.NumOperators = Cardinality(t.isoperator \cap (game.in \ kicked))
      BY <2>1, DismissedAreCounted DEF OpInv, OperatorsAreCounted
  <2> HIDE DEF t
  <2>4. /\ game' \in GameType /\ game'.in = game.in \ kicked
        /\ game'.paused = (game.paused \ kicked) \cup {p}
      BY <2>2 DEF OpInv, GameType
  <2>5. IsFiniteSet(game'.in) BY <2>4, FS_Subset DEF OpInv
  <2> QED BY <2>1, <2>2, <2>3, <2>4, <2>5 DEF OpInv, OperatorsAreCounted
<1> QED BY <1>1, <1>2

LEMMA LoginCounts ==
    ASSUME OpInv, NEW p \in Humans, Login(p)
    PROVE  OpInv'
<1>1. /\ game' \in GameType /\ game'.in = game.in \cup {p} /\ game'.paused = game.paused
      /\ staff' \in StaffType /\ staff'.isoperator = staff.isoperator \ {p}
      /\ staff'.NumOperators = staff.NumOperators /\ p \notin game.in
  <2> DEFINE n == game.queued - 1
             in == game.in \cup {p}
             ops == staff.isoperator \ {p}
  <2>1. game' = [game EXCEPT !.queued = n, !.in = in] BY DEF Login
  <2>2. staff' = [staff EXCEPT !.isoperator = ops] BY DEF Login, Player_add
  <2>3. n \in Int /\ in \in SUBSET Humans BY DEF OpInv, GameType
  <2>4. ops \in SUBSET Humans BY DEF OpInv, StaffType
  <2> HIDE DEF n, in, ops
  <2>5. game' \in GameType /\ game'.in = in /\ game'.paused = game.paused
      BY <2>1, <2>3 DEF OpInv, GameType
  <2>6. /\ staff' \in StaffType /\ staff'.isoperator = ops
        /\ staff'.NumOperators = staff.NumOperators
      BY <2>2, <2>4 DEF OpInv, StaffType
  <2> QED BY <2>5, <2>6 DEF Login, in, ops
<1>2. IsFiniteSet(game'.in) BY <1>1, FS_AddElement DEF OpInv
<1>3. staff'.isoperator \cap game'.in = staff.isoperator \cap game.in BY <1>1
<1> QED BY <1>1, <1>2, <1>3 DEF OpInv, OperatorsAreCounted

LEMMA PasswordCounts ==
    ASSUME OpInv, NEW p \in Humans, NEW right \in BOOLEAN, Cmd_password(p, right)
    PROVE  OpInv'
<1> DEFINE Ops == staff.isoperator \cap game.in
<1>1. p \in game.in /\ game' = game BY DEF Cmd_password
<1>2. IsFiniteSet(Ops) BY FS_Intersection DEF OpInv
<1>3. /\ Cardinality(Ops) \in Int /\ staff.NumOperators = Cardinality(Ops)
      /\ Oper(p) <=> p \in Ops
    BY <1>1, <1>2, FS_CardinalityType DEF OpInv, OperatorsAreCounted, Oper
<1>4. CASE staff.password /\ right
  <2>1. /\ staff' \in StaffType /\ staff'.isoperator = staff.isoperator \cup {p}
        /\ staff'.NumOperators = IF Oper(p) THEN staff.NumOperators ELSE staff.NumOperators + 1
    <3> DEFINE n == IF Oper(p) THEN staff.NumOperators ELSE staff.NumOperators + 1
               ops == staff.isoperator \cup {p}
    <3>1. staff' = [staff EXCEPT !.isoperator = ops, !.NumOperators = n]
        BY <1>4 DEF Cmd_password
    <3>2. n \in Int /\ ops \in SUBSET Humans BY DEF OpInv, StaffType
    <3> HIDE DEF n, ops
    <3>3. /\ staff' \in StaffType /\ staff'.isoperator = ops /\ staff'.NumOperators = n
        BY <3>1, <3>2 DEF OpInv, StaffType
    <3> QED BY <3>3 DEF n, ops
  <2>2. staff'.isoperator \cap game'.in = Ops \cup {p} BY <1>1, <2>1
  <2>3. Cardinality(Ops \cup {p}) = IF p \in Ops THEN Cardinality(Ops) ELSE Cardinality(Ops) + 1
      BY <1>2, FS_AddElement
  <2> HIDE DEF Ops
  <2> QED BY <1>1, <1>3, <2>1, <2>2, <2>3 DEF OpInv, OperatorsAreCounted
<1>5. CASE ~(staff.password /\ right)
  <2>1. /\ staff' \in StaffType /\ staff'.isoperator = staff.isoperator \ {p}
        /\ staff'.NumOperators = IF Oper(p) THEN staff.NumOperators - 1 ELSE staff.NumOperators
    <3> DEFINE n == IF Oper(p) THEN staff.NumOperators - 1 ELSE staff.NumOperators
               ops == staff.isoperator \ {p}
    <3>1. staff' = [staff EXCEPT !.isoperator = ops, !.NumOperators = n]
        BY <1>5 DEF Cmd_password
    <3>2. n \in Int /\ ops \in SUBSET Humans BY DEF OpInv, StaffType
    <3> HIDE DEF n, ops
    <3>3. /\ staff' \in StaffType /\ staff'.isoperator = ops /\ staff'.NumOperators = n
        BY <3>1, <3>2 DEF OpInv, StaffType
    <3> QED BY <3>3 DEF n, ops
  <2>2. staff'.isoperator \cap game'.in = Ops \ {p} BY <1>1, <2>1
  <2>3. Cardinality(Ops \ {p}) = IF p \in Ops THEN Cardinality(Ops) - 1 ELSE Cardinality(Ops)
      BY <1>2, FS_RemoveElement
  <2> HIDE DEF Ops
  <2> QED BY <1>1, <1>3, <2>1, <2>2, <2>3 DEF OpInv, OperatorsAreCounted
<1> QED BY <1>4, <1>5

\* What changes neither who is in the game nor who is an operator.
LEMMA OthersAreCounted ==
    ASSUME OpInv, game' \in GameType, staff' \in StaffType, game'.in = game.in,
           game'.paused \subseteq game.paused, staff'.isoperator = staff.isoperator,
           staff'.NumOperators = staff.NumOperators
    PROVE  OpInv'
BY DEF OpInv, OperatorsAreCounted

LEMMA CountedStep ==
    ASSUME OpInv, [OpNext]_opVars
    PROVE  OpInv'
<1>1. CASE UNCHANGED opVars BY <1>1, OthersAreCounted DEF opVars, OpInv
<1>2. CASE Queue_player \/ Queue_remove
  <2>1. /\ game' \in GameType /\ game'.in = game.in /\ game'.paused = game.paused /\ staff' = staff
      BY <1>2 DEF Queue_player, Queue_remove, OpInv, GameType
  <2> QED BY <2>1, OthersAreCounted DEF OpInv
<1>3. CASE CREDENTIALS \/ LOCK_GAME \/ OPTION_TUNE
  <2>1. /\ game' = game /\ staff' \in StaffType /\ staff'.isoperator = staff.isoperator
        /\ staff'.NumOperators = staff.NumOperators
      BY <1>3 DEF CREDENTIALS, LOCK_GAME, OPTION_TUNE, Tune_option, OpInv, StaffType
  <2> QED BY <2>1, OthersAreCounted DEF OpInv
<1>4. ASSUME NEW p \in Humans, Login(p) PROVE OpInv' BY <1>4, LoginCounts
<1>5. ASSUME NEW p \in Humans, Leave(p) PROVE OpInv' BY <1>5, DestroyKeeps DEF Leave
<1>6. ASSUME NEW p \in Humans, Player_pause_self(p) PROVE OpInv'
    BY <1>6, PauseKeeps DEF Player_pause_self
<1>7. ASSUME NEW p \in Humans, Player_unpause(p) PROVE OpInv'
  <2>1. /\ game' \in GameType /\ game'.in = game.in /\ game'.paused = game.paused \ {p}
        /\ staff' = staff
      BY <1>7 DEF Player_unpause, OpInv, GameType
  <2> QED BY <2>1, OthersAreCounted DEF OpInv
<1>8. ASSUME NEW p \in Humans, NEW right \in BOOLEAN, Cmd_password(p, right) PROVE OpInv'
    BY <1>8, PasswordCounts
<1>9. ASSUME NEW p \in Humans, NEW new_lock \in BOOLEAN, Cmd_lock(p, new_lock) \/ Cmd_set(p)
      PROVE  OpInv'
  <2>1. /\ game' = game /\ staff' \in StaffType /\ staff'.isoperator = staff.isoperator
        /\ staff'.NumOperators = staff.NumOperators
      BY <1>9 DEF Cmd_lock, Cmd_set, Tune_option, OpInv, StaffType
  <2> QED BY <2>1, OthersAreCounted DEF OpInv
<1>10. ASSUME NEW p \in Humans, NEW q \in Humans, Cmd_kick(p, q) \/ Cmd_pause(p, q) PROVE OpInv'
    BY <1>10, DestroyKeeps, PauseKeeps DEF Cmd_kick, Cmd_pause
<1>11. ASSUME NEW q \in Humans, KICK_PLAYER(q) PROVE OpInv'
    BY <1>11, DestroyKeeps DEF KICK_PLAYER
<1>12. TRUE \in BOOLEAN OBVIOUS
<1> QED BY <1>1, <1>2, <1>3, <1>4, <1>5, <1>6, <1>7, <1>8, <1>9, <1>10, <1>11, <1>12 DEF OpNext

\* NumOperators is the number of operators in the game: by it Player_remove tells the last
\* operator, who takes the lock of the game along.
THEOREM OperatorsStayCounted == OpSpec => []OperatorsAreCounted
<1>1. OpInit => OpInv
  <2> SUFFICES ASSUME OpInit PROVE OpInv OBVIOUS
  <2>1. game \in GameType /\ game.in = {} /\ game.paused = {} BY DEF OpInit, GameType
  <2>2. staff \in StaffType /\ staff.isoperator = {} /\ staff.NumOperators = 0
      BY DEF OpInit, StaffType
  <2>3. staff.isoperator \cap game.in = {} BY <2>1
  <2> QED BY <2>1, <2>2, <2>3, FS_EmptySet DEF OpInv, OperatorsAreCounted
<1>2. OpInv /\ [OpNext]_opVars => OpInv' BY CountedStep
<1>3. OpInv => OperatorsAreCounted BY DEF OpInv
<1> QED BY <1>1, <1>2, <1>3, PTL DEF OpSpec

-----------------------------------------------------------------------------
(* The winner.                                                             *)

LEMMA MostFits ==
    ASSUME NEW m \in Nat, NEW S, NEW f, \A t \in S : f[t] \in -m .. m
    PROVE  /\ Most(f, S) \in Nat
           /\ \A t \in S : f[t] <= Most(f, S)
           /\ Most(f, S) # 0 => \E t \in S : f[t] = Most(f, S)
<1> DEFINE T == {0} \cup {f[t] : t \in S}
           P == T \cap (0 .. m)
<1>1. T \subseteq -m .. m /\ 0 \in P OBVIOUS
<1>2. PICK n \in P : \A k \in P : n >= k
  <2>1. P \in SUBSET (0 .. m) /\ P # {} BY <1>1
  <2> HIDE DEF P
  <2> QED BY <2>1, Dismissals!MaxExists
<1>3. n \in T /\ n \in Nat /\ \A k \in T : n >= k /\ k \in Int
  <2>1. ASSUME NEW k \in T PROVE n >= k /\ k \in Int
    <3>1. k \in -m .. m /\ n \in 0 .. m BY <1>1, <1>2
    <3>2. CASE k >= 0
      <4>1. k \in P BY <3>1, <3>2
      <4> QED BY <1>2, <3>1, <4>1
    <3>3. CASE k < 0 BY <3>1, <3>3
    <3> QED BY <3>1, <3>2, <3>3
  <2> QED BY <1>2, <2>1
<1> HIDE DEF P
<1>4. Max(T) \in T /\ \A k \in T : Max(T) >= k
  <2> HIDE DEF T
  <2> QED BY <1>3 DEF Max
<1>5. Most(f, S) = Max(T) BY DEF Most
<1> DEFINE x == Max(T)
<1>6. x \in T /\ \A k \in T : x >= k /\ k \in Int BY <1>3, <1>4
<1>7. 0 \in T /\ \A t \in S : f[t] \in T OBVIOUS
<1> HIDE DEF x
<1>8. x \in Nat /\ (\A t \in S : f[t] <= x)
  <2> HIDE DEF T
  <2> QED BY <1>6, <1>7
<1>9. x # 0 => \E t \in S : f[t] = x BY <1>6
<1> QED BY <1>5, <1>8, <1>9 DEF x

\* Who is left after each of the three loops of Update_game_status.
Destroyers == {t \in alive : destroyed[t] = max_destroyed}
Keepers    == {t \in Destroyers : left[t] = Most(left, Destroyers)}
Scorers    == {t \in Keepers : score[t] = Most(score, Keepers)}

\* Each loop leaves somebody, but the last may not.
LEMMA LoopsKeep ==
    ASSUME WinInit
    PROVE  /\ Remaining = <<Destroyers, Keepers, Scorers>>
           /\ Destroyers # {} /\ Destroyers \subseteq alive
           /\ Keepers # {} /\ Keepers \subseteq alive /\ Scorers \subseteq alive
           /\ max_destroyed \in Nat /\ Most(left, Destroyers) \in Nat /\ Most(score, Keepers) \in Nat
           /\ \A t \in alive : destroyed[t] <= max_destroyed
           /\ \A t \in Destroyers : left[t] <= Most(left, Destroyers)
           /\ \A t \in Keepers : score[t] <= Most(score, Keepers)
           /\ Most(score, Keepers) # 0 => Scorers # {}
<1>1. /\ alive \subseteq TeamNumbers
      /\ \A t \in alive : /\ destroyed[t] \in 0 .. MaxDestroyed /\ left[t] \in 0 .. MaxLeft
                          /\ score[t] \in -MaxPoints .. MaxPoints
      /\ max_destroyed # 0
    BY DEF WinInit, Decided
<1>2. Remaining = <<Destroyers, Keepers, Scorers>> BY DEF Remaining, Destroyers, Keepers, Scorers
<1>3. /\ max_destroyed \in Nat /\ \A t \in alive : destroyed[t] <= max_destroyed
      /\ \E t \in alive : destroyed[t] = max_destroyed
  <2>1. \A t \in alive : destroyed[t] \in -MaxDestroyed .. MaxDestroyed BY <1>1, WinAssumption
  <2> QED BY <1>1, <2>1, WinAssumption, MostFits DEF max_destroyed
<1>4. Destroyers # {} /\ Destroyers \subseteq alive BY <1>3 DEF Destroyers
<1>5. /\ Most(left, Destroyers) \in Nat /\ \A t \in Destroyers : left[t] <= Most(left, Destroyers)
      /\ Most(left, Destroyers) # 0 => \E t \in Destroyers : left[t] = Most(left, Destroyers)
  <2>1. \A t \in Destroyers : left[t] \in -MaxLeft .. MaxLeft BY <1>1, <1>4, WinAssumption
  <2> QED BY <2>1, WinAssumption, MostFits
<1>6. Keepers # {} /\ Keepers \subseteq alive
  <2>1. CASE Most(left, Destroyers) # 0 BY <1>4, <1>5, <2>1 DEF Keepers
  <2>2. CASE Most(left, Destroyers) = 0
    <3>1. PICK t \in Destroyers : TRUE BY <1>4
    <3>2. left[t] \in 0 .. MaxLeft /\ left[t] <= 0 BY <1>1, <1>4, <1>5, <2>2
    <3>3. left[t] = Most(left, Destroyers) BY <2>2, <3>2, WinAssumption
    <3> QED BY <1>4, <3>3 DEF Keepers
  <2> QED BY <2>1, <2>2
<1>7. /\ Most(score, Keepers) \in Nat /\ \A t \in Keepers : score[t] <= Most(score, Keepers)
      /\ Most(score, Keepers) # 0 => \E t \in Keepers : score[t] = Most(score, Keepers)
  <2>1. \A t \in Keepers : score[t] \in -MaxPoints .. MaxPoints BY <1>1, <1>6
  <2> QED BY <2>1, WinAssumption, MostFits
<1>8. Scorers \subseteq alive /\ (Most(score, Keepers) # 0 => Scorers # {}) BY <1>6, <1>7 DEF Scorers
<1> QED BY <1>2, <1>3, <1>4, <1>5, <1>6, <1>7, <1>8

LEMMA SingleIs ==
    ASSUME NEW S, IsFiniteSet(S)
    PROVE  /\ Cardinality(S) = 1 => \E t : S = {t}
           /\ \A t : S = {t} => Cardinality(S) = 1
BY FS_Singleton

LEMMA WinnerIsBest == WinInit => BestWins
<1> SUFFICES ASSUME WinInit PROVE BestWins OBVIOUS
<1>0. PICK D, L, P : D = max_destroyed /\ L = Most(left, Destroyers) /\ P = Most(score, Keepers)
    OBVIOUS
<1>1. /\ Remaining = <<Destroyers, Keepers, Scorers>> /\ D \in Nat /\ L \in Nat /\ P \in Nat
      /\ Destroyers \subseteq alive /\ Keepers \subseteq alive /\ Scorers \subseteq alive
      /\ Destroyers = {t \in alive : destroyed[t] = D} /\ Destroyers # {}
      /\ Keepers = {t \in Destroyers : left[t] = L} /\ Keepers # {}
      /\ Scorers = {t \in Keepers : score[t] = P}
      /\ \A t \in alive : destroyed[t] <= D
      /\ \A t \in Destroyers : left[t] <= L
      /\ \A t \in Keepers : score[t] <= P
      /\ P # 0 => Scorers # {}
  <2>1. /\ Destroyers = {t \in alive : destroyed[t] = D} /\ Keepers = {t \in Destroyers : left[t] = L}
        /\ Scorers = {t \in Keepers : score[t] = P}
      BY <1>0 DEF Destroyers, Keepers, Scorers
  <2> QED BY <1>0, <2>1, LoopsKeep
<1>2. /\ alive \subseteq TeamNumbers /\ IsFiniteSet(alive)
      /\ \A t \in alive : destroyed[t] \in Int /\ left[t] \in Int /\ score[t] \in Int
  <2>1. alive \subseteq TeamNumbers BY DEF WinInit
  <2>2. \A t \in alive : destroyed[t] \in 0 .. MaxDestroyed /\ left[t] \in 0 .. MaxLeft
                         /\ score[t] \in -MaxPoints .. MaxPoints
      BY <2>1 DEF WinInit
  <2> QED BY <2>1, <2>2, WinAssumption, FS_Subset
<1> DEFINE single == {i \in 1 .. 3 : Cardinality(Remaining[i]) = 1}
           i0 == Min(single)
<1>3. \A i \in 1 .. 3 : Remaining[i] \in SUBSET alive /\ IsFiniteSet(Remaining[i])
  <2>1. Remaining[1] = Destroyers /\ Remaining[2] = Keepers /\ Remaining[3] = Scorers BY <1>1
  <2>2. Remaining[1] \in SUBSET alive /\ Remaining[2] \in SUBSET alive /\ Remaining[3] \in SUBSET alive
      BY <1>1, <2>1
  <2>3. \A i \in 1 .. 3 : i = 1 \/ i = 2 \/ i = 3 OBVIOUS
  <2>4. \A i \in 1 .. 3 : Remaining[i] \in SUBSET alive BY <2>2, <2>3
  <2> QED BY <1>2, <2>4, FS_Subset
<1>4. Remaining[1] = Destroyers /\ Remaining[2] = Keepers /\ Remaining[3] = Scorers BY <1>1
<1>5. Winning_team = IF single = {} THEN Draw ELSE CHOOSE t \in TeamNumbers : Remaining[i0] = {t}
    BY DEF Winning_team
<1>6. ASSUME single # {}
      PROVE  i0 \in 1 .. 3 /\ \E w \in alive : Remaining[i0] = {w} /\ Winning_team = w
  <2>1. \E n \in single : \A k \in single : n <= k
    <3>1. single \in SUBSET Nat OBVIOUS
    <3> HIDE DEF single
    <3> QED BY <1>6, <3>1, Dismissals!SmallestNumber
  <2>2. i0 \in single
    <3> HIDE DEF single
    <3> QED BY <2>1 DEF Min
  <2> HIDE DEF i0
  <2>3. i0 \in 1 .. 3 /\ Cardinality(Remaining[i0]) = 1 BY <2>2
  <2>4. PICK w : Remaining[i0] = {w} BY <1>3, <2>3, SingleIs
  <2>5. w \in alive /\ w \in TeamNumbers BY <1>2, <1>3, <2>3, <2>4
  <2> DEFINE c == CHOOSE t \in TeamNumbers : Remaining[i0] = {t}
  <2>6. Remaining[i0] = {c} BY <2>4, <2>5
  <2>7. Winning_team = c BY <1>5, <1>6
  <2> HIDE DEF c
  <2>8. c = w BY <2>4, <2>6
  <2> QED BY <2>3, <2>4, <2>5, <2>7, <2>8
<1>7. ASSUME single = {} PROVE Winning_team = Draw BY <1>5, <1>7
<1>8. ASSUME NEW i \in 1 .. 3, NEW w \in alive, Remaining[i] = {w} PROVE w \in Best
  <2>1. SUFFICES ASSUME NEW u \in alive \ {w} PROVE Better(w, u) BY DEF Best
  <2>2. i = 1 \/ i = 2 \/ i = 3 OBVIOUS
  <2>3. CASE Destroyers = {w}
    <3>1. destroyed[w] = D /\ destroyed[u] # D /\ destroyed[u] <= D BY <1>1, <2>1, <2>3
    <3> QED BY <1>2, <2>1, <3>1 DEF Better
  <2>4. CASE Keepers = {w}
    <3>1. w \in Destroyers /\ destroyed[w] = D /\ left[w] = L BY <1>1, <2>4
    <3>2. CASE u \in Destroyers
      <4>1. destroyed[u] = D /\ left[u] # L /\ left[u] <= L BY <1>1, <2>1, <2>4, <3>2
      <4> QED BY <1>2, <2>1, <3>1, <4>1 DEF Better
    <3>3. CASE u \notin Destroyers
      <4>1. destroyed[u] # D /\ destroyed[u] <= D BY <1>1, <2>1, <3>3
      <4> QED BY <1>2, <2>1, <3>1, <4>1 DEF Better
    <3> QED BY <3>2, <3>3
  <2>5. CASE Scorers = {w}
    <3>1. w \in Destroyers /\ destroyed[w] = D /\ left[w] = L /\ score[w] = P BY <1>1, <2>5
    <3>2. CASE u \in Keepers
      <4>1. destroyed[u] = D /\ left[u] = L /\ score[u] # P /\ score[u] <= P BY <1>1, <2>1, <2>5, <3>2
      <4> QED BY <1>2, <2>1, <3>1, <4>1 DEF Better
    <3>3. CASE u \in Destroyers \ Keepers
      <4>1. destroyed[u] = D /\ left[u] # L /\ left[u] <= L BY <1>1, <2>1, <3>3
      <4> QED BY <1>2, <2>1, <3>1, <4>1 DEF Better
    <3>4. CASE u \notin Destroyers
      <4>1. destroyed[u] # D /\ destroyed[u] <= D BY <1>1, <2>1, <3>4
      <4> QED BY <1>2, <2>1, <3>1, <4>1 DEF Better
    <3> QED BY <3>2, <3>3, <3>4
  <2> QED BY <1>4, <1>8, <2>2, <2>3, <2>4, <2>5
<1>9. ASSUME NEW t \in Best, score[t] > 0 PROVE Winning_team = t
  <2>1. t \in alive /\ \A u \in alive \ {t} : Better(t, u) BY DEF Best
  <2>2. t \in Destroyers
    <3>1. PICK u \in Destroyers : TRUE BY <1>1
    <3>2. destroyed[u] = D /\ destroyed[t] <= D /\ u \in alive BY <1>1, <2>1
    <3>3. u = t \/ Better(t, u) BY <2>1, <3>2
    <3>4. u = t \/ destroyed[t] >= destroyed[u] BY <1>2, <2>1, <3>2, <3>3 DEF Better
    <3>5. destroyed[t] = D BY <1>2, <2>1, <3>2, <3>4
    <3> QED BY <1>1, <2>1, <3>5
  <2>3. t \in Keepers
    <3>1. PICK u \in Keepers : TRUE BY <1>1
    <3>2. /\ u \in Destroyers /\ u \in alive /\ destroyed[u] = D /\ destroyed[t] = D
          /\ left[u] = L /\ left[t] <= L
        BY <1>1, <2>2
    <3>3. u = t \/ Better(t, u) BY <2>1, <3>2
    <3>4. u = t \/ left[t] >= left[u] BY <1>2, <2>1, <3>2, <3>3 DEF Better
    <3>5. left[t] = L BY <1>2, <2>1, <3>2, <3>4
    <3> QED BY <1>1, <2>2, <3>5
  <2>4. ASSUME NEW u \in Keepers, score[u] = P PROVE u = t
    <3>1. /\ u \in alive /\ destroyed[u] = D /\ destroyed[t] = D /\ left[u] = L /\ left[t] = L
          /\ score[t] <= P
        BY <1>1, <2>2, <2>3
    <3>2. u = t \/ Better(t, u) BY <2>1, <3>1
    <3> QED BY <1>2, <2>1, <2>4, <3>1, <3>2 DEF Better
  <2>5. P # 0
    <3>1. score[t] <= P /\ score[t] \in Int BY <1>1, <1>2, <2>1, <2>3
    <3> QED BY <1>9, <3>1
  <2>6. Scorers = {t} BY <1>1, <2>4, <2>5
  <2>7. 3 \in single
    <3>1. Cardinality(Remaining[3]) = 1 BY <1>3, <1>4, <2>6, SingleIs
    <3> QED BY <3>1
  <2>8. PICK w \in alive : Remaining[i0] = {w} /\ Winning_team = w BY <1>6, <2>7
  <2>9. i0 \in 1 .. 3 BY <1>6, <2>7
  <2> HIDE DEF i0
  <2>10. t \in Remaining[i0]
    <3>1. i0 = 1 \/ i0 = 2 \/ i0 = 3 BY <2>9
    <3> QED BY <1>4, <2>2, <2>3, <2>6, <3>1
  <2> QED BY <2>8, <2>10
<1>10. Winning_team # Draw => Winning_team \in Best
  <2>1. SUFFICES ASSUME Winning_team # Draw PROVE Winning_team \in Best OBVIOUS
  <2>2. single # {} BY <1>7, <2>1
  <2> HIDE DEF single, i0
  <2> QED BY <1>6, <1>8, <2>2
<1> QED BY <1>9, <1>10 DEF BestWins

\* For any teams: who wins is better than all others alive, and who is and has any points wins.
THEOREM TheBestTeamWins == WinSpec => []BestWins
<1>1. BestWins /\ [FALSE]_winVars => BestWins'
  <2> SUFFICES ASSUME BestWins, UNCHANGED winVars PROVE BestWins' OBVIOUS
  <2>1. alive' = alive /\ destroyed' = destroyed /\ left' = left /\ score' = score BY DEF winVars
  <2>2. max_destroyed' = max_destroyed BY <2>1 DEF max_destroyed
  <2>3. Remaining' = Remaining BY <2>1, <2>2 DEF Remaining
  <2>4. Winning_team' = Winning_team BY <2>3 DEF Winning_team
  <2>5. Best' = Best BY <2>1 DEF Best, Better
  <2> QED BY <2>1, <2>4, <2>5 DEF BestWins
<1> QED BY <1>1, WinnerIsBest, PTL DEF WinSpec

-----------------------------------------------------------------------------
(* Meta servers.                                                           *)

PlayerRecord == [human : BOOLEAN, team : Teams \cup {0}]

\* The places of those who count as users.
Playing(P) == {k \in DOMAIN P : Active(P[k])}

MetaInv == players \in Seq(PlayerRecord) /\ exchanged \in BOOLEAN /\ MetaKnows

LEMMA PlacesFinite ==
    ASSUME NEW P \in Seq(PlayerRecord)
    PROVE  IsFiniteSet(Playing(P)) /\ Playing(P) \subseteq 1 .. Len(P) /\ DOMAIN P = 1 .. Len(P)
<1>1. IsFiniteSet(1 .. Len(P)) BY FS_Interval
<1>2. Playing(P) \subseteq 1 .. Len(P) /\ DOMAIN P = 1 .. Len(P) BY DEF Playing
<1> QED BY <1>1, <1>2, FS_Subset

\* One place for another.
LEMMA PlaceMoves ==
    ASSUME NEW S, IsFiniteSet(S), NEW i \in S, NEW j, j \notin S
    PROVE  Cardinality((S \ {i}) \cup {j}) = Cardinality(S)
<1>1. IsFiniteSet(S \ {i}) /\ Cardinality(S \ {i}) = Cardinality(S) - 1 BY FS_RemoveElement
<1>2. Cardinality((S \ {i}) \cup {j}) = Cardinality(S \ {i}) + 1 BY <1>1, FS_AddElement
<1>3. Cardinality(S) \in Nat BY FS_CardinalityType
<1> QED BY <1>1, <1>2, <1>3

\* Who leaves and is no user takes no user along: the last in the table moves.
LEMMA RobotsDoNotCount ==
    ASSUME NEW P \in Seq(PlayerRecord), NEW i \in DOMAIN P, ~Active(P[i])
    PROVE  /\ Without(P, i) \in Seq(PlayerRecord)
           /\ Cardinality(Playing(Without(P, i))) = Cardinality(Playing(P))
<1> DEFINE n == Len(P)
           S == Playing(P)
<1>1. n \in Nat /\ DOMAIN P = 1 .. n /\ i \in 1 .. n /\ P # <<>> /\ n >= 1 BY PlacesFinite
<1>2. CASE i = n
  <2>1. Without(P, i) = Front(P) BY <1>2 DEF Without
  <2>2. /\ Front(P) \in Seq(PlayerRecord) /\ Len(Front(P)) = n - 1 /\ DOMAIN Front(P) = 1 .. (n - 1)
        /\ \A k \in 1 .. (n - 1) : Front(P)[k] = P[k]
      BY <1>1 DEF Front
  <2>3. Playing(Front(P)) = S BY <1>1, <1>2, <2>2 DEF Playing
  <2> QED BY <2>1, <2>2, <2>3
<1>3. CASE i # n
  <2> DEFINE Q == [P EXCEPT ![i] = P[Len(P)]]
             F == Without(P, i)
  <2>1. /\ Q \in Seq(PlayerRecord) /\ Len(Q) = n /\ Q # <<>>
        /\ \A k \in 1 .. n : Q[k] = IF k = i THEN P[n] ELSE P[k]
      BY <1>1
  <2>2. F = Front(Q) BY <1>3 DEF Without
  <2> HIDE DEF Q, F
  <2>3. /\ F \in Seq(PlayerRecord) /\ DOMAIN F = 1 .. (n - 1)
        /\ \A k \in 1 .. (n - 1) : F[k] = IF k = i THEN P[n] ELSE P[k]
      BY <1>1, <2>1, <2>2 DEF Front
  <2>4. S = {k \in 1 .. n : Active(P[k])} /\ Playing(F) = {k \in 1 .. (n - 1) : Active(F[k])}
      BY <1>1, <2>3 DEF Playing
  <2>5. CASE n \notin S
    <3>1. Playing(F) = S BY <1>1, <1>3, <2>3, <2>4, <2>5
    <3> QED BY <2>3, <3>1 DEF F
  <2>6. CASE n \in S
    <3>1. Playing(F) = (S \ {n}) \cup {i}
      <4>1. i \in 1 .. (n - 1) /\ i \notin S BY <1>1, <1>3, <2>4
      <4>2. Active(P[n]) BY <2>4, <2>6
      <4>3. ASSUME NEW k \in 1 .. (n - 1) PROVE Active(F[k]) <=> k = i \/ k \in S
        <5>1. k \in 1 .. n BY <1>1
        <5> QED BY <2>3, <2>4, <4>2, <5>1
      <4>4. S \ {n} \subseteq 1 .. (n - 1) BY <1>1, <2>4
      <4>5. n \notin 1 .. (n - 1) BY <1>1
      <4> HIDE DEF S
      <4> QED BY <2>4, <4>1, <4>3, <4>4, <4>5
    <3>2. IsFiniteSet(S) /\ i \notin S BY <2>4, PlacesFinite
    <3>3. Cardinality(Playing(F)) = Cardinality(S) BY <2>6, <3>1, <3>2, PlaceMoves
    <3> QED BY <2>3, <3>3 DEF F
  <2> QED BY <2>5, <2>6
<1> QED BY <1>2, <1>3

\* Two who change places are as many users as before, unless one of them is a robot and the
\* other is not.
LEMMA ExchangesDoNotCount ==
    ASSUME NEW P \in Seq(PlayerRecord), NEW i \in DOMAIN P, NEW j \in DOMAIN P, i # j,
           P[i].team # 0, P[j].team = 0 => P[i].human = P[j].human
    PROVE  Cardinality(Playing([P EXCEPT ![i].team = P[j].team, ![j].team = P[i].team])) =
           Cardinality(Playing(P))
<1> DEFINE Q == [P EXCEPT ![i].team = P[j].team, ![j].team = P[i].team]
           S == Playing(P)
<1>1. /\ DOMAIN Q = DOMAIN P
      /\ \A k \in DOMAIN P \ {i, j} : Q[k] = P[k]
      /\ Q[i] = [P[i] EXCEPT !.team = P[j].team] /\ Q[j] = [P[j] EXCEPT !.team = P[i].team]
  OBVIOUS
<1>2. P[i] \in PlayerRecord /\ P[j] \in PlayerRecord BY PlacesFinite
<1> HIDE DEF Q
<1>3. /\ Q[i].human = P[i].human /\ Q[i].team = P[j].team
      /\ Q[j].human = P[j].human /\ Q[j].team = P[i].team
    BY <1>1, <1>2 DEF PlayerRecord
<1>4. CASE P[j].team # 0 \/ ~P[i].human
  <2>1. \A k \in DOMAIN P : Active(Q[k]) <=> Active(P[k]) BY <1>1, <1>3, <1>4 DEF Active
  <2>2. Playing(Q) = S BY <1>1, <2>1 DEF Playing
  <2> QED BY <2>2 DEF Q
<1>5. CASE P[j].team = 0 /\ P[i].human
  <2>1. i \in S /\ j \notin S BY <1>5 DEF Playing, Active
  <2>2. Active(Q[j]) /\ ~Active(Q[i]) BY <1>3, <1>5 DEF Active
  <2>3. Playing(Q) = (S \ {i}) \cup {j} BY <1>1, <2>1, <2>2 DEF Playing
  <2>4. Cardinality(Playing(Q)) = Cardinality(S) BY <2>1, <2>3, PlacesFinite, PlaceMoves
  <2> QED BY <2>4 DEF Q
<1> QED BY <1>4, <1>5

LEMMA MetaStep == MetaInv /\ [MetaNext]_metaVars => MetaInv'
<1> SUFFICES ASSUME MetaInv, [MetaNext]_metaVars PROVE MetaInv' OBVIOUS
<1>1. players \in Seq(PlayerRecord) /\ exchanged \in BOOLEAN /\ MetaKnows BY DEF MetaInv
<1>2. Users = Cardinality(Playing(players)) /\ Users' = Cardinality(Playing(players'))
    BY DEF Users, Playing
<1>3. DOMAIN players = 1 .. Len(players) /\ Len(players) \in Nat
      /\ \A k \in DOMAIN players : players[k] \in PlayerRecord
    BY <1>1
<1>4. ASSUME NEW team \in Teams, NEW h \in BOOLEAN,
             players' = Append(players, [human |-> h, team |-> team])
      PROVE  players' \in Seq(PlayerRecord) /\ (~h => Users' = Users)
  <2>1. [human |-> h, team |-> team] \in PlayerRecord BY DEF PlayerRecord
  <2>2. /\ players' \in Seq(PlayerRecord) /\ Len(players') = Len(players) + 1
        /\ \A k \in 1 .. Len(players) : players'[k] = players[k]
        /\ players'[Len(players) + 1] = [human |-> h, team |-> team]
      BY <1>1, <1>4, <2>1
  <2>3. ASSUME ~h PROVE Playing(players') = Playing(players)
    <3>1. DOMAIN players' = 1 .. (Len(players) + 1) BY <2>2
    <3>2. ~Active(players'[Len(players) + 1]) BY <2>2, <2>3 DEF Active
    <3> QED BY <1>3, <2>2, <3>1, <3>2 DEF Playing
  <2> QED BY <1>2, <2>2, <2>3
<1>5. ASSUME NEW i \in DOMAIN players, NEW team \in Teams \cup {0},
             players' = [players EXCEPT ![i].team = team]
      PROVE  /\ players' \in Seq(PlayerRecord)
             /\ players[i].team # 0 /\ team # 0 => Users' = Users
  <2>1. [players[i] EXCEPT !.team = team] \in PlayerRecord BY <1>3 DEF PlayerRecord
  <2>2. /\ players' \in Seq(PlayerRecord) /\ DOMAIN players' = DOMAIN players
        /\ players'[i] = [players[i] EXCEPT !.team = team]
        /\ \A k \in DOMAIN players \ {i} : players'[k] = players[k]
      BY <1>1, <1>5, <2>1
  <2>3. players'[i].human = players[i].human /\ players'[i].team = team
      BY <1>3, <2>2 DEF PlayerRecord
  <2>4. ASSUME players[i].team # 0, team # 0 PROVE Playing(players') = Playing(players)
      BY <2>2, <2>3, <2>4 DEF Playing, Active
  <2> QED BY <1>2, <2>2, <2>4
<1>6. ASSUME NEW i \in DOMAIN players, players' = Without(players, i)
      PROVE  /\ players' \in Seq(PlayerRecord)
             /\ ~players[i].human => Users' = Users
  <2>1. ASSUME ~players[i].human PROVE Users' = Users
      BY <1>1, <1>2, <1>6, <2>1, RobotsDoNotCount DEF Active
  <2>2. players' \in Seq(PlayerRecord)
    <3> DEFINE Q == [players EXCEPT ![i] = players[Len(players)]]
    <3>1. players # <<>> /\ Q \in Seq(PlayerRecord) /\ Q # <<>> BY <1>1, <1>3
    <3> HIDE DEF Q
    <3>2. Front(players) \in Seq(PlayerRecord) /\ Front(Q) \in Seq(PlayerRecord) BY <1>1, <3>1 DEF Front
    <3> QED BY <1>6, <3>2 DEF Without, Q
  <2> QED BY <2>1, <2>2
<1>7. CASE Main_loop
  <2>1. players' = players /\ counters' = {} BY <1>7 DEF Main_loop
  <2>2. Users' = Users BY <1>2, <2>1
  <2>3. CASE counters # {} \/ meta_update_count <= 1
    <3>1. info' = [users |-> Users,
                   free  |-> [t \in Teams |->
                       NumBases[t] - IF t < Len(players) /\ Active(At(t)) THEN 1 ELSE 0]]
          /\ exchanged' = FALSE
        BY <1>7, <2>3 DEF Main_loop, Meta_update
    <3>2. info'.users = Users BY <3>1
    <3> QED BY <1>1, <2>1, <2>2, <3>1, <3>2 DEF MetaInv, MetaKnows
  <2>4. CASE ~(counters # {} \/ meta_update_count <= 1)
    <3>1. info' = info /\ exchanged' = exchanged /\ counters = {} BY <1>7, <2>4 DEF Main_loop
    <3> QED BY <1>1, <2>1, <2>2, <3>1 DEF MetaInv, MetaKnows
  <2> QED BY <2>3, <2>4
<1>8. ASSUME NEW team \in Teams, Enter(team) \/ Robot_add(team) PROVE MetaInv'
  <2>1. CASE Enter(team)
    <3>1. players' \in Seq(PlayerRecord) BY <1>4, <2>1 DEF Enter
    <3>2. counters' # {} /\ exchanged' = exchanged BY <2>1 DEF Enter
    <3> QED BY <1>1, <3>1, <3>2 DEF MetaInv, MetaKnows
  <2>2. CASE Robot_add(team)
    <3>1. players' \in Seq(PlayerRecord) /\ Users' = Users BY <1>4, <2>2 DEF Robot_add
    <3>2. counters' = counters /\ exchanged' = exchanged /\ info' = info BY <2>2 DEF Robot_add
    <3> QED BY <1>1, <3>1, <3>2 DEF MetaInv, MetaKnows
  <2> QED BY <1>8, <2>1, <2>2
<1>9. ASSUME NEW team \in Teams, NEW i \in DOMAIN players, Unpause(i, team) \/ Change_team(i, team)
      PROVE  MetaInv'
  <2>1. CASE Unpause(i, team)
    <3>1. players' \in Seq(PlayerRecord) BY <1>5, <2>1 DEF Unpause
    <3>2. counters' # {} /\ exchanged' = exchanged BY <2>1 DEF Unpause
    <3> QED BY <1>1, <3>1, <3>2 DEF MetaInv, MetaKnows
  <2>2. CASE Change_team(i, team)
    <3>1. players' \in Seq(PlayerRecord) /\ Users' = Users BY <1>5, <2>2 DEF Change_team
    <3>2. counters' = counters /\ exchanged' = exchanged /\ info' = info BY <2>2 DEF Change_team
    <3> QED BY <1>1, <3>1, <3>2 DEF MetaInv, MetaKnows
  <2> QED BY <1>9, <2>1, <2>2
<1>10. ASSUME NEW i \in DOMAIN players, Depart(i) \/ Robot_remove(i) \/ Pause(i) PROVE MetaInv'
  <2>1. CASE Depart(i)
    <3>1. players' \in Seq(PlayerRecord) BY <1>6, <2>1 DEF Depart
    <3>2. counters' # {} /\ exchanged' = exchanged BY <2>1 DEF Depart
    <3> QED BY <1>1, <3>1, <3>2 DEF MetaInv, MetaKnows
  <2>2. CASE Robot_remove(i)
    <3>1. players' \in Seq(PlayerRecord) /\ Users' = Users BY <1>6, <2>2 DEF Robot_remove
    <3>2. counters' = counters /\ exchanged' = exchanged /\ info' = info BY <2>2 DEF Robot_remove
    <3> QED BY <1>1, <3>1, <3>2 DEF MetaInv, MetaKnows
  <2>3. CASE Pause(i)
    <3>1. players' \in Seq(PlayerRecord) BY <1>5, <2>3 DEF Pause
    <3>2. counters' # {} /\ exchanged' = exchanged BY <2>3 DEF Pause
    <3> QED BY <1>1, <3>1, <3>2 DEF MetaInv, MetaKnows
  <2> QED BY <1>10, <2>1, <2>2, <2>3
<1>11. ASSUME NEW i \in DOMAIN players, NEW j \in DOMAIN players, Players_swap_teams(i, j) PROVE MetaInv'
  <2>1. /\ i # j /\ players[i].team # 0
        /\ players' = [players EXCEPT ![i].team = players[j].team, ![j].team = players[i].team]
        /\ exchanged' = (exchanged \/ (players[j].team = 0 /\ players[i].human # players[j].human))
        /\ counters' = counters /\ info' = info
      BY <1>11 DEF Players_swap_teams
  <2>2. players' \in Seq(PlayerRecord)
    <3>1. /\ [players[i] EXCEPT !.team = players[j].team] \in PlayerRecord
          /\ [players[j] EXCEPT !.team = players[i].team] \in PlayerRecord
        BY <1>3 DEF PlayerRecord
    <3> DEFINE a == [players[i] EXCEPT !.team = players[j].team]
               b == [players[j] EXCEPT !.team = players[i].team]
    <3>2. players' = [players EXCEPT ![i] = a, ![j] = b] BY <2>1
    <3> HIDE DEF a, b
    <3> QED BY <1>1, <3>1, <3>2 DEF a, b
  <2>3. ASSUME ~exchanged' PROVE ~exchanged /\ Users' = Users
    <3>1. ~exchanged /\ (players[j].team = 0 => players[i].human = players[j].human)
        BY <1>1, <2>1, <2>3
    <3> QED BY <1>1, <1>2, <2>1, <3>1, ExchangesDoNotCount
  <2>4. exchanged' \in BOOLEAN BY <2>1
  <2> QED BY <1>1, <2>1, <2>2, <2>3, <2>4 DEF MetaInv, MetaKnows
<1>12. CASE UNCHANGED metaVars
  <2>1. players' = players /\ counters' = counters /\ exchanged' = exchanged /\ info' = info
      BY <1>12 DEF metaVars
  <2>2. Users' = Users BY <1>2, <2>1
  <2> QED BY <1>1, <2>1, <2>2 DEF MetaInv, MetaKnows
<1> QED BY <1>7, <1>8, <1>9, <1>10, <1>11, <1>12 DEF MetaNext

\* After each report the meta servers know the number of users until something is counted or
\* a robot changes places, however often the table is permuted.
THEOREM UsersAreKnown == MetaSpec => []MetaKnows
<1>1. MetaInit => MetaInv
  <2> SUFFICES ASSUME MetaInit PROVE MetaInv OBVIOUS
  <2>1. players = <<>> /\ exchanged = FALSE /\ info.users = 0 BY DEF MetaInit
  <2>2. {k \in DOMAIN players : Active(players[k])} = {} BY <2>1
  <2>3. Users = 0 BY <2>2, FS_EmptySet DEF Users
  <2>4. players \in Seq(PlayerRecord) BY <2>1
  <2>5. exchanged \in BOOLEAN BY <2>1
  <2> QED BY <2>1, <2>3, <2>4, <2>5 DEF MetaInv, MetaKnows
<1>2. MetaInv /\ [MetaNext]_metaVars => MetaInv' BY MetaStep
<1>3. MetaInv => MetaKnows BY DEF MetaInv
<1> QED BY <1>1, <1>2, <1>3, PTL DEF MetaSpec

-----------------------------------------------------------------------------
(* The list: as a ring of nodes, which c numbers from the header around to *)
(* the header again.                                                       *)

Position == Nodes \cup {Header}

ListType ==
    [Next : [Position -> Position \cup {None}], Prev : [Position -> Position \cup {None}],
     Data : [Position -> Datas \cup {None}], Size : Nat]

\* The links of l lead around the nodes c[1] to c[n], with the header before and behind them.
Ring(l, c, n) ==
    /\ l \in ListType /\ n \in Nat /\ l.Size = n
    /\ c \in [0 .. n + 1 -> Position]
    /\ c[0] = Header /\ c[n + 1] = Header
    /\ \A i \in 1 .. n : c[i] \in Nodes
    /\ \A i, j \in 1 .. n : c[i] = c[j] => i = j
    /\ \A i \in 0 .. n : l.Next[c[i]] = c[i + 1] /\ l.Prev[c[i + 1]] = c[i]
    /\ \A x \in Nodes : (\A i \in 1 .. n : c[i] # x) => l.Next[x] = None
    /\ l.Data[Header] = None

Element(l, x) == [node |-> x, data |-> l.Data[x]]

Elements(l, c, n) == [i \in 1 .. n |-> Element(l, c[i])]

ElementType == [node : Position, data : Datas \cup {None}]

LEMMA RingTypes ==
    ASSUME NEW l, NEW c, NEW n, Ring(l, c, n)
    PROVE  /\ n \in Nat /\ l.Size = n
           /\ l.Next \in [Position -> Position \cup {None}]
           /\ l.Prev \in [Position -> Position \cup {None}]
           /\ l.Data \in [Position -> Datas \cup {None}]
           /\ \A i \in 0 .. n + 1 : c[i] \in Position
           /\ \A i \in 0 .. n : l.Next[c[i]] = c[i + 1] /\ l.Prev[c[i + 1]] = c[i]
           /\ c \in [0 .. n + 1 -> Position] /\ c[0] = Header /\ c[n + 1] = Header
           /\ l.Data[Header] = None
BY DEF Ring, ListType

LEMMA RingApart ==
    ASSUME NEW l, NEW c, NEW n, Ring(l, c, n)
    PROVE  /\ \A i, j \in 0 .. n : c[i] = c[j] => i = j
           /\ \A i, j \in 1 .. n + 1 : c[i] = c[j] => i = j
<1>1. /\ n \in Nat /\ c[0] = Header /\ c[n + 1] = Header
      /\ \A i \in 1 .. n : c[i] \in Nodes
      /\ \A i, j \in 1 .. n : c[i] = c[j] => i = j
    BY DEF Ring
<1>2. \A i \in 1 .. n : c[i] # Header BY <1>1, ListAssumption
<1>3. ASSUME NEW i \in 0 .. n, NEW j \in 0 .. n, c[i] = c[j] PROVE i = j
  <2>1. CASE i = 0 /\ j # 0
    <3>1. j \in 1 .. n BY <1>1, <2>1
    <3> QED BY <1>1, <1>2, <1>3, <2>1, <3>1
  <2>2. CASE i # 0 /\ j = 0
    <3>1. i \in 1 .. n BY <1>1, <2>2
    <3> QED BY <1>1, <1>2, <1>3, <2>2, <3>1
  <2>3. CASE i # 0 /\ j # 0
    <3>1. i \in 1 .. n /\ j \in 1 .. n BY <1>1, <2>3
    <3> QED BY <1>1, <1>3, <3>1
  <2> QED BY <2>1, <2>2, <2>3
<1>4. ASSUME NEW i \in 1 .. n + 1, NEW j \in 1 .. n + 1, c[i] = c[j] PROVE i = j
  <2>1. CASE i = n + 1 /\ j # n + 1
    <3>1. j \in 1 .. n BY <1>1, <2>1
    <3> QED BY <1>1, <1>2, <1>4, <2>1, <3>1
  <2>2. CASE i # n + 1 /\ j = n + 1
    <3>1. i \in 1 .. n BY <1>1, <2>2
    <3> QED BY <1>1, <1>2, <1>4, <2>2, <3>1
  <2>3. CASE i # n + 1 /\ j # n + 1
    <3>1. i \in 1 .. n /\ j \in 1 .. n BY <1>1, <2>3
    <3> QED BY <1>1, <1>4, <3>1
  <2> QED BY <2>1, <2>2, <2>3
<1> QED BY <1>3, <1>4

\* The nodes in use are those of the ring.
LEMMA RingFree ==
    ASSUME NEW l, NEW c, NEW n, Ring(l, c, n)
    PROVE  /\ \A x \in Nodes : x \in Free(l) <=> \A i \in 1 .. n : c[i] # x
           /\ \A x \in Position : x \notin Free(l) => \E i \in 1 .. n + 1 : c[i] = x
           /\ \A x \in Nodes : x \notin Free(l) => \E i \in 1 .. n : c[i] = x
<1>1. /\ n \in Nat /\ c[n + 1] = Header
      /\ \A i \in 0 .. n : l.Next[c[i]] = c[i + 1]
      /\ \A i \in 0 .. n + 1 : c[i] \in Position
    BY RingTypes
<1>2. \A x \in Nodes : (\A i \in 1 .. n : c[i] # x) => l.Next[x] = None BY DEF Ring
<1>3. ASSUME NEW x \in Nodes, NEW i \in 1 .. n, c[i] = x PROVE l.Next[x] # None
  <2>1. i \in 0 .. n /\ i + 1 \in 0 .. n + 1 BY <1>1
  <2>2. l.Next[x] \in Position BY <1>1, <1>3, <2>1
  <2> QED BY <2>2, ListAssumption DEF Position
<1>4. \A x \in Nodes : x \in Free(l) <=> \A i \in 1 .. n : c[i] # x BY <1>2, <1>3 DEF Free
<1>5. \A x \in Nodes : x \notin Free(l) => \E i \in 1 .. n : c[i] = x BY <1>4
<1>6. ASSUME NEW x \in Position, x \notin Free(l) PROVE \E i \in 1 .. n + 1 : c[i] = x
  <2>1. CASE x = Header
    <3>1. n + 1 \in 1 .. n + 1 BY <1>1
    <3> QED BY <1>1, <2>1, <3>1
  <2>2. CASE x \in Nodes
    <3>1. PICK i \in 1 .. n : c[i] = x BY <1>5, <1>6, <2>2
    <3>2. i \in 1 .. n + 1 BY <1>1
    <3> QED BY <3>1, <3>2
  <2> QED BY <2>1, <2>2 DEF Position
<1> QED BY <1>4, <1>5, <1>6

-----------------------------------------------------------------------------
(* Along the links.                                                        *)

\* Only the lemmas on numbers are used of those on loops, and the loop of LIST_Clear.
FirstTurn(par, i, l) == Removed(l, l.Next[Header])
Clears == INSTANCE FoldTheorems WITH Turn <- FirstTurn

IsAlong(c, link, pos, n) == c = [i \in 0 .. n |-> IF i = 0 THEN pos ELSE link[c[i - 1]]]

LEMMA AlongIs ==
    ASSUME NEW link, NEW pos, NEW n \in Nat, NEW c, IsAlong(c, link, pos, n)
    PROVE  Along(link, pos, n) = c
<1> DEFINE F(f) == [i \in 0 .. n |-> IF i = 0 THEN pos ELSE link[f[i - 1]]]
           at == CHOOSE f : f = F(f)
<1>1. Along(link, pos, n) = at BY DEF Along
<1>2. c = F(c) BY DEF IsAlong
<1>3. at = F(at)
  <2>1. \E f : f = F(f) BY <1>2
  <2> HIDE DEF F
  <2> QED BY <2>1
<1> HIDE DEF at
<1> DEFINE Good == {i \in Nat : i <= n => at[i] = c[i]}
<1>4. 0 \in Good
  <2>1. 0 \in 0 .. n /\ 0 \in Nat OBVIOUS
  <2>2. at[0] = pos BY <1>3, <2>1
  <2>3. c[0] = pos BY <1>2, <2>1
  <2> QED BY <2>1, <2>2, <2>3
<1>5. ASSUME NEW i \in Nat, i \in Good PROVE i + 1 \in Good
  <2> SUFFICES ASSUME i + 1 <= n PROVE at[i + 1] = c[i + 1] OBVIOUS
  <2>1. i + 1 \in 0 .. n /\ i + 1 # 0 /\ i <= n /\ i + 1 - 1 = i OBVIOUS
  <2>2. at[i] = c[i] BY <1>5, <2>1
  <2>3. at[i + 1] = link[at[i]] BY <1>3, <2>1
  <2>4. c[i + 1] = link[c[i]] BY <1>2, <2>1
  <2> QED BY <2>2, <2>3, <2>4
<1> HIDE DEF Good
<1>6. \A i \in Nat : i \in Good BY <1>4, <1>5, Clears!NumberInduction
<1>7. \A i \in 0 .. n : at[i] = c[i]
  <2>1. \A i \in 0 .. n : i \in Nat /\ i <= n OBVIOUS
  <2>2. \A i \in Nat : i <= n => at[i] = c[i] BY <1>6 DEF Good
  <2> QED BY <2>1, <2>2
<1>8. at = [i \in 0 .. n |-> at[i]] /\ c = [i \in 0 .. n |-> c[i]] BY <1>2, <1>3
<1>9. at = c BY <1>7, <1>8
<1> QED BY <1>1, <1>9

AlongAll(l, c, n) ==
    /\ Along(l.Next, Header, n + 1) = c
    /\ Along(l.Prev, Header, n + 1) = [i \in 0 .. n + 1 |-> c[n + 1 - i]]
    /\ Along(l.Next, c[1], n) = [i \in 0 .. n |-> c[i + 1]]

LEMMA AlongRing ==
    ASSUME NEW l, NEW c, NEW n, Ring(l, c, n)
    PROVE  AlongAll(l, c, n)
<1>1. /\ n \in Nat /\ c[0] = Header /\ c[n + 1] = Header
      /\ c \in [0 .. n + 1 -> Position]
      /\ \A i \in 0 .. n : l.Next[c[i]] = c[i + 1] /\ l.Prev[c[i + 1]] = c[i]
    BY DEF Ring
<1>2. n + 1 \in Nat BY <1>1
<1>3. c = [i \in 0 .. n + 1 |-> IF i = 0 THEN Header ELSE l.Next[c[i - 1]]]
  <2>1. ASSUME NEW i \in 0 .. n + 1 PROVE c[i] = IF i = 0 THEN Header ELSE l.Next[c[i - 1]]
    <3>1. CASE i = 0 BY <1>1, <3>1
    <3>2. CASE i # 0
      <4>1. i - 1 \in 0 .. n /\ i - 1 + 1 = i BY <1>1, <3>2
      <4> QED BY <1>1, <3>2, <4>1
    <3> QED BY <3>1, <3>2
  <2>2. c = [i \in 0 .. n + 1 |-> c[i]] BY <1>1
  <2> QED BY <2>1, <2>2
<1>4. Along(l.Next, Header, n + 1) = c
  <2>1. IsAlong(c, l.Next, Header, n + 1) BY <1>3 DEF IsAlong
  <2> QED BY <1>2, <2>1, AlongIs
<1> DEFINE d == [i \in 0 .. n + 1 |-> c[n + 1 - i]]
<1>5. d = [i \in 0 .. n + 1 |-> IF i = 0 THEN Header ELSE l.Prev[d[i - 1]]]
  <2>1. ASSUME NEW i \in 0 .. n + 1 PROVE c[n + 1 - i] = IF i = 0 THEN Header ELSE l.Prev[d[i - 1]]
    <3>1. CASE i = 0
      <4>1. n + 1 - i = n + 1 BY <1>1, <3>1
      <4> QED BY <1>1, <3>1, <4>1
    <3>2. CASE i # 0
      <4>1. i - 1 \in 0 .. n + 1 /\ n + 1 - (i - 1) = n + 1 - i + 1 /\ n + 1 - i \in 0 .. n
          BY <1>1, <3>2
      <4>2. d[i - 1] = c[n + 1 - i + 1] BY <4>1
      <4> HIDE DEF d
      <4> QED BY <1>1, <3>2, <4>1, <4>2
    <3> QED BY <3>1, <3>2
  <2> QED BY <2>1
<1> HIDE DEF d
<1>6. Along(l.Prev, Header, n + 1) = d
  <2>1. IsAlong(d, l.Prev, Header, n + 1) BY <1>5 DEF IsAlong
  <2> QED BY <1>2, <2>1, AlongIs
<1> DEFINE e == [i \in 0 .. n |-> c[i + 1]]
<1>7. e = [i \in 0 .. n |-> IF i = 0 THEN c[1] ELSE l.Next[e[i - 1]]]
  <2>1. ASSUME NEW i \in 0 .. n PROVE c[i + 1] = IF i = 0 THEN c[1] ELSE l.Next[e[i - 1]]
    <3>1. CASE i = 0
      <4>1. i + 1 = 1 BY <3>1
      <4> QED BY <3>1, <4>1
    <3>2. CASE i # 0
      <4>1. i - 1 \in 0 .. n /\ i - 1 + 1 = i BY <1>1, <3>2
      <4>2. e[i - 1] = c[i] BY <4>1
      <4> HIDE DEF e
      <4> QED BY <1>1, <3>2, <4>2
    <3> QED BY <3>1, <3>2
  <2> QED BY <2>1
<1> HIDE DEF e
<1>8. Along(l.Next, c[1], n) = e
  <2>1. IsAlong(e, l.Next, c[1], n) BY <1>7 DEF IsAlong
  <2> QED BY <1>1, <2>1, AlongIs
<1> QED BY <1>4, <1>6, <1>8 DEF AlongAll, d, e

LEMMA AbstractIs ==
    ASSUME NEW l, NEW c, NEW n, Ring(l, c, n)
    PROVE  /\ Abstract(l, l.Next) = Elements(l, c, n)
           /\ Abstract(l, l.Prev) = Reverse(Elements(l, c, n))
           /\ Elements(l, c, n) \in Seq(ElementType) /\ Len(Elements(l, c, n)) = n
<1>1. /\ n \in Nat /\ l.Size = n /\ c[0] = Header /\ c[n + 1] = Header
      /\ l.Data \in [Position -> Datas \cup {None}]
      /\ \A i \in 0 .. n + 1 : c[i] \in Position
    BY RingTypes
<1> DEFINE s == Elements(l, c, n)
<1>2. s \in Seq(ElementType) /\ Len(s) = n /\ \A i \in 1 .. n : s[i] = Element(l, c[i])
  <2>1. \A i \in 1 .. n : Element(l, c[i]) \in ElementType
    <3>1. \A i \in 1 .. n : i \in 0 .. n + 1 BY <1>1
    <3> QED BY <1>1, <3>1 DEF Element, ElementType
  <2>2. s = [i \in 1 .. n |-> Element(l, c[i])] BY DEF Elements
  <2> HIDE DEF s
  <2>3. s \in [1 .. n -> ElementType] BY <2>1, <2>2
  <2> QED BY <1>1, <2>2, <2>3
<1> DEFINE all == AlongAll(l, c, n)
<1>0. all BY AlongRing
<1>3. Abstract(l, l.Next) = s
  <2>1. Along(l.Next, Header, n + 1) = c BY <1>0 DEF AlongAll
  <2> QED BY <1>1, <2>1 DEF Abstract, Elements, Element
<1>4. Abstract(l, l.Prev) = Reverse(s)
  <2> DEFINE d == [i \in 0 .. n + 1 |-> c[n + 1 - i]]
  <2>1. Along(l.Prev, Header, n + 1) = d BY <1>0 DEF AlongAll
  <2>2. d[n + 1] = Header
    <3>1. n + 1 \in 0 .. n + 1 /\ n + 1 - (n + 1) = 0 BY <1>1
    <3> QED BY <1>1, <3>1
  <2>3. \A i \in 1 .. n : d[i] = c[n + 1 - i] BY <1>1
  <2> HIDE DEF d
  <2>4. Abstract(l, l.Prev) = [i \in 1 .. n |-> Element(l, d[i])]
      BY <1>1, <2>1, <2>2 DEF Abstract, Element
  <2>5. Reverse(s) = [i \in 1 .. n |-> s[n - i + 1]] BY <1>2 DEF Reverse
  <2>6. \A i \in 1 .. n : s[n - i + 1] = Element(l, d[i])
    <3> SUFFICES ASSUME NEW i \in 1 .. n PROVE s[n - i + 1] = Element(l, d[i]) OBVIOUS
    <3>1. n - i + 1 \in 1 .. n /\ n + 1 - i = n - i + 1 BY <1>1
    <3> HIDE DEF s
    <3> QED BY <1>2, <2>3, <3>1
  <2> HIDE DEF s
  <2> QED BY <2>4, <2>5, <2>6
<1> QED BY <1>2, <1>3, <1>4

-----------------------------------------------------------------------------
(* Putting nodes in and taking them out.                                   *)

IsInserted(S, s, k, e) ==
    /\ InsertAt(s, k, e) \in Seq(S) /\ Len(InsertAt(s, k, e)) = Len(s) + 1
    /\ \A i \in 1 .. Len(s) + 1 :
           InsertAt(s, k, e)[i] = IF i < k THEN s[i] ELSE IF i = k THEN e ELSE s[i - 1]

LEMMA Inserted ==
    ASSUME NEW S, NEW s \in Seq(S), NEW k \in 1 .. Len(s) + 1, NEW e \in S
    PROVE  IsInserted(S, s, k, e)
<1> DEFINE a == SubSeq(s, 1, k - 1)
           b == <<e>>
           t == SubSeq(s, k, Len(s))
           u == a \o b
           v == u \o t
<1>0. Len(s) \in Nat OBVIOUS
<1>1. a \in Seq(S) /\ Len(a) = k - 1 /\ \A i \in 1 .. k - 1 : a[i] = s[i] BY <1>0
<1>2. t \in Seq(S) /\ Len(t) = Len(s) - k + 1 /\ \A i \in 1 .. Len(s) - k + 1 : t[i] = s[k + i - 1]
    BY <1>0
<1>3. b \in Seq(S) /\ Len(b) = 1 /\ b[1] = e OBVIOUS
<1> HIDE DEF a, b, t
<1>4. u \in Seq(S) /\ Len(u) = k /\ \A i \in 1 .. k : u[i] = IF i <= k - 1 THEN a[i] ELSE b[i - (k - 1)]
  <2>1. Len(u) = Len(a) + Len(b) /\ u \in Seq(S) BY <1>1, <1>3, ConcatProperties
  <2>2. \A i \in 1 .. Len(a) + Len(b) : u[i] = IF i <= Len(a) THEN a[i] ELSE b[i - Len(a)]
      BY <1>1, <1>3, ConcatProperties
  <2>3. Len(a) + Len(b) = k BY <1>0, <1>1, <1>3
  <2> HIDE DEF u
  <2> QED BY <1>1, <2>1, <2>2, <2>3
<1> HIDE DEF u
<1>5. /\ v \in Seq(S) /\ Len(v) = Len(s) + 1
      /\ \A i \in 1 .. Len(s) + 1 : v[i] = IF i <= k THEN u[i] ELSE t[i - k]
  <2>1. Len(v) = Len(u) + Len(t) /\ v \in Seq(S) BY <1>2, <1>4, ConcatProperties
  <2>2. \A i \in 1 .. Len(u) + Len(t) : v[i] = IF i <= Len(u) THEN u[i] ELSE t[i - Len(u)]
      BY <1>2, <1>4, ConcatProperties
  <2>3. Len(u) + Len(t) = Len(s) + 1 BY <1>0, <1>2, <1>4
  <2> HIDE DEF v
  <2> QED BY <1>4, <2>1, <2>2, <2>3
<1> HIDE DEF v
<1>6. ASSUME NEW i \in 1 .. Len(s) + 1
      PROVE  v[i] = IF i < k THEN s[i] ELSE IF i = k THEN e ELSE s[i - 1]
  <2>1. CASE i < k
    <3>1. i <= k /\ i \in 1 .. k /\ i <= k - 1 /\ i \in 1 .. k - 1 BY <1>0, <2>1
    <3> QED BY <1>1, <1>4, <1>5, <2>1, <3>1
  <2>2. CASE i = k
    <3>1. i <= k /\ i \in 1 .. k /\ ~(i <= k - 1) /\ i - (k - 1) = 1 /\ ~(i < k) BY <1>0, <2>2
    <3> QED BY <1>3, <1>4, <1>5, <2>2, <3>1
  <2>3. CASE i > k
    <3>1. ~(i <= k) /\ ~(i < k) /\ i # k /\ i - k \in 1 .. Len(s) - k + 1 /\ k + (i - k) - 1 = i - 1
        BY <1>0, <2>3
    <3> QED BY <1>2, <1>5, <3>1
  <2> QED BY <1>0, <2>1, <2>2, <2>3
<1> QED BY <1>5, <1>6 DEF IsInserted, InsertAt, v, u, a, b, t

LEMMA TakenOut ==
    ASSUME NEW S, NEW s \in Seq(S), NEW k \in 1 .. Len(s)
    PROVE  /\ RemoveAt(s, k) \in Seq(S) /\ Len(RemoveAt(s, k)) = Len(s) - 1
           /\ \A i \in 1 .. Len(s) - 1 : RemoveAt(s, k)[i] = IF i < k THEN s[i] ELSE s[i + 1]
<1> DEFINE a == SubSeq(s, 1, k - 1)
           t == SubSeq(s, k + 1, Len(s))
           v == a \o t
<1>0. Len(s) \in Nat OBVIOUS
<1>1. a \in Seq(S) /\ Len(a) = k - 1 /\ \A i \in 1 .. k - 1 : a[i] = s[i] BY <1>0
<1>2. t \in Seq(S) /\ Len(t) = Len(s) - k /\ \A i \in 1 .. Len(s) - k : t[i] = s[k + i] BY <1>0
<1> HIDE DEF a, t
<1>3. /\ v \in Seq(S) /\ Len(v) = Len(s) - 1
      /\ \A i \in 1 .. Len(s) - 1 : v[i] = IF i <= k - 1 THEN a[i] ELSE t[i - (k - 1)]
  <2>1. Len(v) = Len(a) + Len(t) /\ v \in Seq(S) BY <1>1, <1>2, ConcatProperties
  <2>2. \A i \in 1 .. Len(a) + Len(t) : v[i] = IF i <= Len(a) THEN a[i] ELSE t[i - Len(a)]
      BY <1>1, <1>2, ConcatProperties
  <2>3. Len(a) + Len(t) = Len(s) - 1 BY <1>0, <1>1, <1>2
  <2> HIDE DEF v
  <2> QED BY <1>1, <2>1, <2>2, <2>3
<1> HIDE DEF v
<1>4. ASSUME NEW i \in 1 .. Len(s) - 1 PROVE v[i] = IF i < k THEN s[i] ELSE s[i + 1]
  <2>1. CASE i < k
    <3>1. i <= k - 1 /\ i \in 1 .. k - 1 BY <1>0, <2>1
    <3> QED BY <1>1, <1>3, <2>1, <3>1
  <2>2. CASE ~(i < k)
    <3>1. ~(i <= k - 1) /\ i - (k - 1) \in 1 .. Len(s) - k /\ k + (i - (k - 1)) = i + 1 BY <1>0, <2>2
    <3> QED BY <1>2, <1>3, <2>2, <3>1
  <2> QED BY <2>1, <2>2
<1> QED BY <1>3, <1>4 DEF RemoveAt, v, a, t

\* The ring with x as its k-th.
RingWith(c, n, k, x) == [i \in 0 .. n + 2 |-> IF i < k THEN c[i] ELSE IF i = k THEN x ELSE c[i - 1]]

LEMMA RingAdded ==
    ASSUME NEW l, NEW c, NEW n, Ring(l, c, n), NEW k \in 1 .. n + 1, NEW x \in Nodes,
           \A i \in 1 .. n : c[i] # x, NEW v \in Datas \cup {None}
    PROVE  Ring(Added(l, c[k], x, v), RingWith(c, n, k, x), n + 1)
<1> DEFINE m == Added(l, c[k], x, v)
           d == RingWith(c, n, k, x)
           y == c[k]
           z == c[k - 1]
<1>1. /\ n \in Nat /\ l.Size = n
      /\ l.Next \in [Position -> Position \cup {None}]
      /\ l.Prev \in [Position -> Position \cup {None}]
      /\ l.Data \in [Position -> Datas \cup {None}] /\ l.Data[Header] = None
      /\ \A i \in 0 .. n + 1 : c[i] \in Position
      /\ \A i \in 0 .. n : l.Next[c[i]] = c[i + 1] /\ l.Prev[c[i + 1]] = c[i]
      /\ c[0] = Header /\ c[n + 1] = Header
    BY RingTypes
<1>2. /\ \A i \in 1 .. n : c[i] \in Nodes
      /\ \A i, j \in 1 .. n : c[i] = c[j] => i = j
      /\ \A w \in Nodes : (\A i \in 1 .. n : c[i] # w) => l.Next[w] = None
    BY DEF Ring
<1>3. /\ \A i, j \in 0 .. n : c[i] = c[j] => i = j
      /\ \A i, j \in 1 .. n + 1 : c[i] = c[j] => i = j
    BY RingApart
<1>4. /\ k \in Nat /\ k \in 0 .. n + 1 /\ k - 1 \in 0 .. n /\ k - 1 \in 0 .. n + 1 /\ k - 1 + 1 = k
      /\ k >= 1 /\ k <= n + 1
    BY <1>1
<1>5. l.Prev[y] = z /\ y \in Position /\ z \in Position BY <1>1, <1>4
<1>6. x # Header /\ x \in Position /\ \A i \in 0 .. n + 1 : c[i] # x
  <2>1. x # Header /\ x \in Position BY ListAssumption DEF Position
  <2>2. ASSUME NEW i \in 0 .. n + 1 PROVE c[i] # x
    <3>1. CASE i = 0 \/ i = n + 1 BY <1>1, <2>1, <3>1
    <3>2. CASE i # 0 /\ i # n + 1
      <4>1. i \in 1 .. n BY <1>1, <3>2
      <4> QED BY <4>1
    <3> QED BY <3>1, <3>2
  <2> QED BY <2>1, <2>2
<1>7. x # y /\ x # z BY <1>4, <1>6
<1>8. m = [Next |-> [l.Next EXCEPT ![x] = y, ![z] = x], Prev |-> [l.Prev EXCEPT ![x] = z, ![y] = x],
           Data |-> [l.Data EXCEPT ![x] = v], Size |-> n + 1]
    BY <1>1, <1>5 DEF Added
<1>9. /\ m.Next = [l.Next EXCEPT ![x] = y, ![z] = x] /\ m.Prev = [l.Prev EXCEPT ![x] = z, ![y] = x]
      /\ m.Data = [l.Data EXCEPT ![x] = v] /\ m.Size = n + 1
    BY <1>8
<1>10. /\ m.Next \in [Position -> Position \cup {None}] /\ m.Prev \in [Position -> Position \cup {None}]
       /\ m.Data \in [Position -> Datas \cup {None}] /\ m.Size \in Nat
    BY <1>1, <1>5, <1>6, <1>9
<1>11. m \in ListType
  <2>1. m = [Next |-> m.Next, Prev |-> m.Prev, Data |-> m.Data, Size |-> m.Size] BY <1>8, <1>9
  <2> HIDE DEF m
  <2> QED BY <1>10, <2>1 DEF ListType
<1>12. /\ m.Next[x] = y /\ m.Next[z] = x /\ m.Prev[x] = z /\ m.Prev[y] = x
       /\ \A w \in Position : /\ w # x /\ w # z => m.Next[w] = l.Next[w]
                              /\ w # x /\ w # y => m.Prev[w] = l.Prev[w]
                              /\ w # x => m.Data[w] = l.Data[w]
    BY <1>1, <1>5, <1>6, <1>7, <1>9
<1> HIDE DEF m, y, z
<1>13. /\ \A i \in 0 .. n + 2 : d[i] = IF i < k THEN c[i] ELSE IF i = k THEN x ELSE c[i - 1]
       /\ DOMAIN d = 0 .. n + 2
    BY DEF RingWith
<1>14. d = [i \in 0 .. n + 2 |-> d[i]] BY DEF RingWith
<1> HIDE DEF d
<1>15. /\ \A i \in 0 .. n + 2 : i < k => d[i] = c[i]
       /\ d[k] = x
       /\ \A i \in 0 .. n + 2 : i > k => d[i] = c[i - 1]
  <2>1. k \in 0 .. n + 2 /\ ~(k < k) BY <1>1, <1>4
  <2>2. \A i \in 0 .. n + 2 : i > k => ~(i < k) /\ i # k BY <1>1, <1>4
  <2> QED BY <1>13, <2>1, <2>2
<1>16. ASSUME NEW i \in 0 .. n + 2 PROVE d[i] \in Position /\ (i \in 1 .. n + 1 => d[i] \in Nodes)
  <2>1. CASE i < k
    <3>1. i \in 0 .. n + 1 /\ (i \in 1 .. n + 1 => i \in 1 .. n) BY <1>1, <1>4, <2>1
    <3> QED BY <1>1, <1>2, <1>15, <2>1, <3>1
  <2>2. CASE i = k BY <1>6, <1>15, <2>2
  <2>3. CASE i > k
    <3>1. i - 1 \in 0 .. n + 1 /\ (i \in 1 .. n + 1 => i - 1 \in 1 .. n) BY <1>1, <1>4, <2>3
    <3> QED BY <1>1, <1>2, <1>15, <2>3, <3>1
  <2> QED BY <1>4, <2>1, <2>2, <2>3
<1>17. d \in [0 .. n + 1 + 1 -> Position]
  <2>1. n + 1 + 1 = n + 2 BY <1>1
  <2>2. d \in [0 .. n + 2 -> Position] BY <1>14, <1>16
  <2> QED BY <2>1, <2>2
<1>18. d[0] = Header /\ d[n + 1 + 1] = Header
  <2>1. 0 \in 0 .. n + 2 /\ 0 < k /\ n + 1 + 1 \in 0 .. n + 2 /\ n + 1 + 1 > k /\ n + 1 + 1 - 1 = n + 1
      BY <1>1, <1>4
  <2> QED BY <1>1, <1>15, <2>1
<1>19. ASSUME NEW i \in 1 .. n + 1, NEW j \in 1 .. n + 1, d[i] = d[j] PROVE i = j
  <2> DEFINE p(a) == IF a < k THEN a ELSE a - 1
  <2>1. ASSUME NEW a \in 1 .. n + 1, a # k PROVE d[a] = c[p(a)] /\ p(a) \in 1 .. n /\ d[a] # x
    <3>1. CASE a < k
      <4>1. a \in 0 .. n + 2 /\ p(a) = a /\ a \in 1 .. n /\ a \in 0 .. n + 1 BY <1>1, <1>4, <3>1
      <4>2. d[a] = c[a] BY <1>15, <3>1, <4>1
      <4> QED BY <1>6, <4>1, <4>2
    <3>2. CASE a > k
      <4>1. a \in 0 .. n + 2 /\ p(a) = a - 1 /\ a - 1 \in 1 .. n /\ a - 1 \in 0 .. n + 1
          BY <1>1, <1>4, <3>2
      <4>2. d[a] = c[a - 1] BY <1>15, <3>2, <4>1
      <4> QED BY <1>6, <4>1, <4>2
    <3> QED BY <1>1, <1>4, <2>1, <3>1, <3>2
  <2>2. CASE i = k \/ j = k BY <1>15, <1>19, <2>1, <2>2
  <2>3. CASE i # k /\ j # k
    <3>1. c[p(i)] = c[p(j)] /\ p(i) \in 1 .. n /\ p(j) \in 1 .. n BY <1>19, <2>1, <2>3
    <3>2. p(i) = p(j) BY <1>2, <3>1
    <3> QED BY <1>1, <1>4, <2>3, <3>2
  <2> QED BY <2>2, <2>3
<1>20. ASSUME NEW i \in 0 .. n + 1 PROVE m.Next[d[i]] = d[i + 1] /\ m.Prev[d[i + 1]] = d[i]
  <2>1. CASE i < k - 1
    <3>1. /\ i \in 0 .. n + 2 /\ i + 1 \in 0 .. n + 2 /\ i < k /\ i + 1 < k /\ i \in 0 .. n /\ i # k - 1
          /\ i + 1 \in 1 .. n + 1 /\ i + 1 \in 0 .. n + 1 /\ i + 1 # k /\ i \in 0 .. n + 1
        BY <1>1, <1>4, <2>1
    <3>2. d[i] = c[i] /\ d[i + 1] = c[i + 1] BY <1>15, <3>1
    <3>3. c[i] # x /\ c[i] # z /\ c[i] \in Position BY <1>1, <1>3, <1>4, <1>6, <3>1 DEF z
    <3>4. c[i + 1] # x /\ c[i + 1] # y /\ c[i + 1] \in Position BY <1>1, <1>3, <1>4, <1>6, <3>1 DEF y
    <3>5. l.Next[c[i]] = c[i + 1] /\ l.Prev[c[i + 1]] = c[i] BY <1>1, <3>1
    <3> QED BY <1>12, <3>2, <3>3, <3>4, <3>5
  <2>2. CASE i = k - 1
    <3>1. i \in 0 .. n + 2 /\ i < k /\ i + 1 = k BY <1>1, <1>4, <2>2
    <3>2. d[i] = z BY <1>15, <2>2, <3>1 DEF z
    <3> QED BY <1>12, <1>15, <3>1, <3>2
  <2>3. CASE i = k
    <3>1. i + 1 \in 0 .. n + 2 /\ i + 1 > k /\ i + 1 - 1 = k BY <1>1, <1>4, <2>3
    <3>2. d[i + 1] = y BY <1>15, <3>1 DEF y
    <3> QED BY <1>12, <1>15, <2>3, <3>2
  <2>4. CASE i > k
    <3>1. /\ i \in 0 .. n + 2 /\ i + 1 \in 0 .. n + 2 /\ i + 1 > k /\ i + 1 - 1 = i /\ i - 1 \in 0 .. n
          /\ i - 1 # k - 1 /\ i - 1 + 1 = i /\ i \in 1 .. n + 1 /\ i \in 0 .. n + 1 /\ i # k
          /\ i - 1 \in 0 .. n + 1
        BY <1>1, <1>4, <2>4
    <3>2. d[i] = c[i - 1] /\ d[i + 1] = c[i] BY <1>15, <2>4, <3>1
    <3>3. c[i - 1] # x /\ c[i - 1] # z /\ c[i - 1] \in Position BY <1>1, <1>3, <1>4, <1>6, <3>1 DEF z
    <3>4. c[i] # x /\ c[i] # y /\ c[i] \in Position BY <1>1, <1>3, <1>4, <1>6, <3>1 DEF y
    <3>5. l.Next[c[i - 1]] = c[i] /\ l.Prev[c[i]] = c[i - 1] BY <1>1, <3>1
    <3> QED BY <1>12, <3>2, <3>3, <3>4, <3>5
  <2> QED BY <1>1, <1>4, <2>1, <2>2, <2>3, <2>4
<1>21. ASSUME NEW w \in Nodes, \A i \in 1 .. n + 1 : d[i] # w PROVE m.Next[w] = None
  <2>1. w # x
    <3>1. k \in 1 .. n + 1 OBVIOUS
    <3> QED BY <1>15, <1>21, <3>1
  <2>2. ASSUME NEW i \in 1 .. n PROVE c[i] # w
    <3>1. CASE i < k
      <4>1. i \in 1 .. n + 1 /\ i \in 0 .. n + 2 BY <1>1
      <4> QED BY <1>15, <1>21, <3>1, <4>1
    <3>2. CASE ~(i < k)
      <4>1. i + 1 \in 1 .. n + 1 /\ i + 1 \in 0 .. n + 2 /\ i + 1 > k /\ i + 1 - 1 = i BY <1>1, <1>4, <3>2
      <4> QED BY <1>15, <1>21, <4>1
    <3> QED BY <3>1, <3>2
  <2>3. l.Next[w] = None BY <1>2, <2>2
  <2>4. w # z
    <3>1. CASE k - 1 \in 1 .. n BY <2>2, <3>1 DEF z
    <3>2. CASE k - 1 \notin 1 .. n
      <4>1. k - 1 = 0 BY <1>1, <1>4, <3>2
      <4> QED BY <1>1, <4>1, ListAssumption DEF z
    <3> QED BY <3>1, <3>2
  <2>5. w \in Position BY DEF Position
  <2> QED BY <1>12, <2>1, <2>3, <2>4, <2>5
<1>22. m.Data[Header] = None
  <2>1. Header \in Position BY DEF Position
  <2> QED BY <1>1, <1>6, <1>12, <2>1
<1>23. n + 1 \in Nat BY <1>1
<1>24. Ring(m, d, n + 1)
  <2>1. \A i \in 1 .. n + 1 : d[i] \in Nodes
    <3>1. \A i \in 1 .. n + 1 : i \in 0 .. n + 2 BY <1>1
    <3> QED BY <1>16, <3>1
  <2> QED BY <1>9, <1>11, <1>17, <1>18, <1>19, <1>20, <1>21, <1>22, <1>23, <2>1 DEF Ring, m, y, z
<1> QED BY <1>24 DEF m, d, y

\* The ring without its k-th.
RingWithout(c, n, k) == [i \in 0 .. n |-> IF i < k THEN c[i] ELSE c[i + 1]]

LEMMA RingRemoved ==
    ASSUME NEW l, NEW c, NEW n, Ring(l, c, n), NEW k \in 1 .. n
    PROVE  /\ Ring(Removed(l, c[k]), RingWithout(c, n, k), n - 1)
           /\ \A w \in Position : w # c[k] => Removed(l, c[k]).Data[w] = l.Data[w]
<1> DEFINE x == c[k]
           m == Removed(l, x)
           d == RingWithout(c, n, k)
           y == c[k + 1]
           z == c[k - 1]
<1>1. /\ n \in Nat /\ l.Size = n
      /\ l.Next \in [Position -> Position \cup {None}]
      /\ l.Prev \in [Position -> Position \cup {None}]
      /\ l.Data \in [Position -> Datas \cup {None}] /\ l.Data[Header] = None
      /\ \A i \in 0 .. n + 1 : c[i] \in Position
      /\ \A i \in 0 .. n : l.Next[c[i]] = c[i + 1] /\ l.Prev[c[i + 1]] = c[i]
      /\ c[0] = Header /\ c[n + 1] = Header
    BY RingTypes
<1>2. /\ \A i \in 1 .. n : c[i] \in Nodes
      /\ \A i, j \in 1 .. n : c[i] = c[j] => i = j
      /\ \A w \in Nodes : (\A i \in 1 .. n : c[i] # w) => l.Next[w] = None
    BY DEF Ring
<1>3. /\ \A i, j \in 0 .. n : c[i] = c[j] => i = j
      /\ \A i, j \in 1 .. n + 1 : c[i] = c[j] => i = j
    BY RingApart
<1>4. /\ k \in Nat /\ k \in 0 .. n /\ k \in 1 .. n + 1 /\ k \in 0 .. n + 1 /\ k - 1 \in 0 .. n
      /\ k - 1 \in 0 .. n + 1 /\ k - 1 + 1 = k /\ k + 1 \in 1 .. n + 1 /\ k + 1 \in 0 .. n + 1
      /\ k >= 1 /\ k <= n
    BY <1>1
<1>5. l.Prev[x] = z /\ l.Next[x] = y /\ x \in Position /\ y \in Position /\ z \in Position
    BY <1>1, <1>4
<1>6. x # Header /\ x \in Nodes BY <1>2, ListAssumption
<1>7. x # y /\ x # z
  <2>1. k # k + 1 /\ k # k - 1 BY <1>4
  <2> QED BY <1>3, <1>4, <2>1
<1>8. m = [Next |-> [l.Next EXCEPT ![z] = y, ![x] = None], Prev |-> [l.Prev EXCEPT ![y] = z, ![x] = None],
           Data |-> [l.Data EXCEPT ![x] = None], Size |-> n - 1]
    BY <1>1, <1>5, <1>6 DEF Removed
<1>9. /\ m.Next = [l.Next EXCEPT ![z] = y, ![x] = None] /\ m.Prev = [l.Prev EXCEPT ![y] = z, ![x] = None]
      /\ m.Data = [l.Data EXCEPT ![x] = None] /\ m.Size = n - 1
    BY <1>8
<1>10. /\ m.Next \in [Position -> Position \cup {None}] /\ m.Prev \in [Position -> Position \cup {None}]
       /\ m.Data \in [Position -> Datas \cup {None}] /\ m.Size \in Nat
    BY <1>1, <1>4, <1>5, <1>9
<1>11. m \in ListType
  <2>1. m = [Next |-> m.Next, Prev |-> m.Prev, Data |-> m.Data, Size |-> m.Size] BY <1>8, <1>9
  <2> HIDE DEF m
  <2> QED BY <1>10, <2>1 DEF ListType
<1>12. /\ m.Next[z] = y /\ m.Next[x] = None /\ m.Prev[y] = z
       /\ \A w \in Position : /\ w # x /\ w # z => m.Next[w] = l.Next[w]
                              /\ w # x /\ w # y => m.Prev[w] = l.Prev[w]
                              /\ w # x => m.Data[w] = l.Data[w]
    BY <1>1, <1>5, <1>7, <1>9
<1> HIDE DEF m, x, y, z
<1>13. /\ \A i \in 0 .. n : i < k => d[i] = c[i]
       /\ \A i \in 0 .. n : i >= k => d[i] = c[i + 1]
    BY <1>1, <1>4 DEF RingWithout
<1>14. d = [i \in 0 .. n |-> d[i]] BY DEF RingWithout
<1> HIDE DEF d
<1>16. ASSUME NEW i \in 0 .. n PROVE d[i] \in Position /\ (i \in 1 .. n - 1 => d[i] \in Nodes)
  <2>1. CASE i < k
    <3>1. i \in 0 .. n + 1 /\ (i \in 1 .. n - 1 => i \in 1 .. n) BY <1>1, <1>4, <2>1
    <3> QED BY <1>1, <1>2, <1>13, <2>1, <3>1
  <2>2. CASE i >= k
    <3>1. i + 1 \in 0 .. n + 1 /\ (i \in 1 .. n - 1 => i + 1 \in 1 .. n) BY <1>1, <1>4, <2>2
    <3> QED BY <1>1, <1>2, <1>13, <2>2, <3>1
  <2> QED BY <1>4, <2>1, <2>2
<1>17. d \in [0 .. n - 1 + 1 -> Position]
  <2>1. n - 1 + 1 = n BY <1>1
  <2>2. d \in [0 .. n -> Position] BY <1>14, <1>16
  <2> QED BY <2>1, <2>2
<1>18. d[0] = Header /\ d[n - 1 + 1] = Header
  <2>1. 0 \in 0 .. n /\ 0 < k /\ n - 1 + 1 \in 0 .. n /\ n - 1 + 1 >= k /\ n - 1 + 1 = n
      BY <1>1, <1>4
  <2> QED BY <1>1, <1>13, <2>1
<1>19. ASSUME NEW i \in 1 .. n - 1, NEW j \in 1 .. n - 1, d[i] = d[j] PROVE i = j
  <2> DEFINE p(a) == IF a < k THEN a ELSE a + 1
  <2>1. ASSUME NEW a \in 1 .. n - 1 PROVE d[a] = c[p(a)] /\ p(a) \in 1 .. n
    <3>1. CASE a < k
      <4>1. a \in 0 .. n /\ p(a) = a /\ a \in 1 .. n BY <1>1, <1>4, <3>1
      <4> QED BY <1>13, <3>1, <4>1
    <3>2. CASE a >= k
      <4>1. a \in 0 .. n /\ p(a) = a + 1 /\ a + 1 \in 1 .. n BY <1>1, <1>4, <3>2
      <4> QED BY <1>13, <3>2, <4>1
    <3> QED BY <1>1, <1>4, <3>1, <3>2
  <2>2. p(i) = p(j) BY <1>2, <1>19, <2>1
  <2> QED BY <1>1, <1>4, <2>2
<1>20. ASSUME NEW i \in 0 .. n - 1 PROVE m.Next[d[i]] = d[i + 1] /\ m.Prev[d[i + 1]] = d[i]
  <2>1. CASE i < k - 1
    <3>1. /\ i < k /\ i + 1 < k /\ i \in 0 .. n /\ i # k - 1 /\ i # k /\ i + 1 \in 0 .. n
          /\ i + 1 \in 1 .. n + 1 /\ i + 1 \in 0 .. n + 1 /\ i + 1 # k /\ i \in 0 .. n + 1 /\ i + 1 # k + 1
        BY <1>1, <1>4, <2>1
    <3>2. d[i] = c[i] /\ d[i + 1] = c[i + 1] BY <1>13, <3>1
    <3>3. c[i] # x /\ c[i] # z /\ c[i] \in Position BY <1>1, <1>3, <1>4, <3>1 DEF x, z
    <3>4. c[i + 1] # x /\ c[i + 1] # y /\ c[i + 1] \in Position BY <1>1, <1>3, <1>4, <3>1 DEF x, y
    <3>5. l.Next[c[i]] = c[i + 1] /\ l.Prev[c[i + 1]] = c[i] BY <1>1, <3>1
    <3> QED BY <1>12, <3>2, <3>3, <3>4, <3>5
  <2>2. CASE i = k - 1
    <3>1. i \in 0 .. n /\ i < k /\ i + 1 = k /\ k >= k /\ k \in 0 .. n BY <1>1, <1>4, <2>2
    <3>2. d[i] = z BY <1>13, <2>2, <3>1 DEF z
    <3>3. d[i + 1] = y BY <1>13, <3>1 DEF y
    <3> QED BY <1>12, <3>2, <3>3
  <2>4. CASE i >= k
    <3>1. /\ i \in 0 .. n /\ i + 1 \in 0 .. n /\ i + 1 >= k /\ i + 1 # k - 1 /\ i + 1 # k
          /\ i + 1 + 1 \in 1 .. n + 1 /\ i + 1 + 1 \in 0 .. n + 1 /\ i + 1 + 1 # k /\ i + 1 + 1 # k + 1
          /\ i + 1 \in 0 .. n + 1
        BY <1>1, <1>4, <2>4
    <3>2. d[i] = c[i + 1] /\ d[i + 1] = c[i + 1 + 1] BY <1>13, <2>4, <3>1
    <3>3. c[i + 1] # x /\ c[i + 1] # z /\ c[i + 1] \in Position BY <1>1, <1>3, <1>4, <3>1 DEF x, z
    <3>4. c[i + 1 + 1] # x /\ c[i + 1 + 1] # y /\ c[i + 1 + 1] \in Position
        BY <1>1, <1>3, <1>4, <3>1 DEF x, y
    <3>5. l.Next[c[i + 1]] = c[i + 1 + 1] /\ l.Prev[c[i + 1 + 1]] = c[i + 1] BY <1>1, <3>1
    <3> QED BY <1>12, <3>2, <3>3, <3>4, <3>5
  <2> QED BY <1>1, <1>4, <2>1, <2>2, <2>4
<1>21. ASSUME NEW w \in Nodes, \A i \in 1 .. n - 1 : d[i] # w PROVE m.Next[w] = None
  <2>0. SUFFICES ASSUME w # x PROVE m.Next[w] = None BY <1>12
  <2>2. ASSUME NEW i \in 1 .. n PROVE c[i] # w
    <3>1. CASE i < k
      <4>1. i \in 1 .. n - 1 /\ i \in 0 .. n BY <1>1, <1>4, <3>1
      <4> QED BY <1>13, <1>21, <3>1, <4>1
    <3>2. CASE i = k BY <2>0, <3>2 DEF x
    <3>3. CASE i > k
      <4>1. i - 1 \in 1 .. n - 1 /\ i - 1 \in 0 .. n /\ i - 1 >= k /\ i - 1 + 1 = i BY <1>1, <1>4, <3>3
      <4> QED BY <1>13, <1>21, <4>1
    <3> QED BY <1>1, <1>4, <3>1, <3>2, <3>3
  <2>3. l.Next[w] = None BY <1>2, <2>2
  <2>4. w # z
    <3>1. CASE k - 1 \in 1 .. n BY <2>2, <3>1 DEF z
    <3>2. CASE k - 1 \notin 1 .. n
      <4>1. k - 1 = 0 BY <1>1, <1>4, <3>2
      <4> QED BY <1>1, <4>1, ListAssumption DEF z
    <3> QED BY <3>1, <3>2
  <2>5. w \in Position BY DEF Position
  <2> QED BY <1>12, <2>0, <2>3, <2>4, <2>5
<1>22. m.Data[Header] = None
  <2>1. Header \in Position BY DEF Position
  <2> QED BY <1>1, <1>6, <1>12, <2>1
<1>23. n - 1 \in Nat BY <1>1, <1>4
<1>24. Ring(m, d, n - 1)
  <2>1. \A i \in 1 .. n - 1 : d[i] \in Nodes
    <3>1. \A i \in 1 .. n - 1 : i \in 0 .. n BY <1>1
    <3> QED BY <1>16, <3>1
  <2> QED BY <1>9, <1>11, <1>17, <1>18, <1>19, <1>20, <1>21, <1>22, <1>23, <2>1 DEF Ring
<1> QED BY <1>12, <1>24 DEF m, d, x

-----------------------------------------------------------------------------
(* What one reads of it.                                                   *)

LEMMA ElementsAre ==
    ASSUME NEW l, NEW c, NEW n, Ring(l, c, n)
    PROVE  /\ Elements(l, c, n) \in Seq(ElementType) /\ Len(Elements(l, c, n)) = n /\ n \in Nat
           /\ \A i \in 1 .. n : Elements(l, c, n)[i] = Element(l, c[i])
<1>1. n \in Nat BY RingTypes
<1>2. Elements(l, c, n) \in Seq(ElementType) /\ Len(Elements(l, c, n)) = n BY AbstractIs
<1>3. \A i \in 1 .. n : Elements(l, c, n)[i] = Element(l, c[i]) BY DEF Elements
<1> QED BY <1>1, <1>2, <1>3

LEMMA ElementsAdded ==
    ASSUME NEW l, NEW c, NEW n, Ring(l, c, n), NEW k \in 1 .. n + 1, NEW x \in Nodes,
           \A i \in 1 .. n : c[i] # x, NEW v \in Datas \cup {None}
    PROVE  Elements(Added(l, c[k], x, v), RingWith(c, n, k, x), n + 1)
               = InsertAt(Elements(l, c, n), k, [node |-> x, data |-> v])
<1> DEFINE m == Added(l, c[k], x, v)
           d == RingWith(c, n, k, x)
           e == [node |-> x, data |-> v]
           s == Elements(l, c, n)
           t == Elements(m, d, n + 1)
           u == InsertAt(s, k, e)
<1>1. /\ s \in Seq(ElementType) /\ Len(s) = n /\ n \in Nat
      /\ \A i \in 1 .. n : s[i] = Element(l, c[i])
    BY ElementsAre
<1>2. Ring(m, d, n + 1) BY RingAdded
<1> HIDE DEF m, d
<1>3. /\ t \in Seq(ElementType) /\ Len(t) = n + 1
      /\ \A i \in 1 .. n + 1 : t[i] = Element(m, d[i])
    BY <1>2, ElementsAre
<1>4. e \in ElementType BY DEF ElementType, Position
<1> HIDE DEF e, s, t
<1>5. /\ u \in Seq(ElementType) /\ Len(u) = n + 1
      /\ \A i \in 1 .. n + 1 : u[i] = IF i < k THEN s[i] ELSE IF i = k THEN e ELSE s[i - 1]
  <2>1. k \in 1 .. Len(s) + 1 BY <1>1
  <2>2. /\ u \in Seq(ElementType) /\ Len(u) = Len(s) + 1
        /\ \A i \in 1 .. Len(s) + 1 : u[i] = IF i < k THEN s[i] ELSE IF i = k THEN e ELSE s[i - 1]
    <3>1. IsInserted(ElementType, s, k, e) BY <1>1, <1>4, <2>1, Inserted
    <3> QED BY <3>1 DEF IsInserted
  <2> HIDE DEF u
  <2> QED BY <1>1, <2>2
<1> HIDE DEF u
<1>6. m.Data[x] = v /\ \A w \in Position : w # x => m.Data[w] = l.Data[w]
  <2>1. l.Data \in [Position -> Datas \cup {None}] BY RingTypes
  <2>2. m.Data = [l.Data EXCEPT ![x] = v] BY DEF m, Added
  <2>3. x \in Position BY DEF Position
  <2> QED BY <2>1, <2>2, <2>3
<1>7. \A i \in 1 .. n : Element(m, c[i]) = Element(l, c[i])
  <2>1. \A i \in 1 .. n : c[i] \in Position
    <3>1. \A i \in 1 .. n : i \in 0 .. n + 1 BY <1>1
    <3> QED BY <3>1, RingTypes
  <2> QED BY <1>6, <2>1 DEF Element
<1>8. ASSUME NEW i \in 1 .. n + 1 PROVE t[i] = u[i]
  <2>1. \A j \in 0 .. n + 2 : d[j] = IF j < k THEN c[j] ELSE IF j = k THEN x ELSE c[j - 1]
      BY DEF d, RingWith
  <2>2. CASE i < k
    <3>1. i \in 1 .. n /\ i \in 0 .. n + 2 BY <1>1, <2>2
    <3> QED BY <1>1, <1>3, <1>5, <1>7, <2>1, <2>2, <3>1
  <2>3. CASE i = k
    <3>1. i \in 0 .. n + 2 /\ ~(i < k) BY <1>1, <2>3
    <3>2. d[i] = x BY <2>1, <2>3, <3>1
    <3>3. Element(m, x) = e BY <1>6 DEF Element, e
    <3> QED BY <1>3, <1>5, <2>3, <3>1, <3>2, <3>3
  <2>4. CASE i > k
    <3>1. i - 1 \in 1 .. n /\ i \in 0 .. n + 2 /\ ~(i < k) /\ i # k BY <1>1, <2>4
    <3>2. d[i] = c[i - 1] BY <2>1, <3>1
    <3> QED BY <1>1, <1>3, <1>5, <1>7, <3>1, <3>2
  <2> QED BY <1>1, <2>2, <2>3, <2>4
<1>9. t = u BY <1>1, <1>3, <1>5, <1>8, SeqEqual
<1> QED BY <1>9 DEF t, u, s, e, m, d

LEMMA ElementsRemoved ==
    ASSUME NEW l, NEW c, NEW n, Ring(l, c, n), NEW k \in 1 .. n
    PROVE  Elements(Removed(l, c[k]), RingWithout(c, n, k), n - 1) = RemoveAt(Elements(l, c, n), k)
<1> DEFINE m == Removed(l, c[k])
           d == RingWithout(c, n, k)
           s == Elements(l, c, n)
           t == Elements(m, d, n - 1)
           u == RemoveAt(s, k)
<1>1. /\ s \in Seq(ElementType) /\ Len(s) = n /\ n \in Nat
      /\ \A i \in 1 .. n : s[i] = Element(l, c[i])
    BY ElementsAre
<1>2. Ring(m, d, n - 1) /\ \A w \in Position : w # c[k] => m.Data[w] = l.Data[w] BY RingRemoved
<1> HIDE DEF m, d
<1>3. /\ t \in Seq(ElementType) /\ Len(t) = n - 1
      /\ \A i \in 1 .. n - 1 : t[i] = Element(m, d[i])
    BY <1>2, ElementsAre
<1> HIDE DEF s, t
<1>5. /\ u \in Seq(ElementType) /\ Len(u) = n - 1
      /\ \A i \in 1 .. n - 1 : u[i] = IF i < k THEN s[i] ELSE s[i + 1]
  <2>1. k \in 1 .. Len(s) BY <1>1
  <2>2. /\ u \in Seq(ElementType) /\ Len(u) = Len(s) - 1
        /\ \A i \in 1 .. Len(s) - 1 : u[i] = IF i < k THEN s[i] ELSE s[i + 1]
      BY <1>1, <2>1, TakenOut
  <2> HIDE DEF u
  <2> QED BY <1>1, <2>2
<1> HIDE DEF u
<1>7. \A i \in 1 .. n : i # k => Element(m, c[i]) = Element(l, c[i])
  <2>1. \A i \in 1 .. n : c[i] \in Position
    <3>1. \A i \in 1 .. n : i \in 0 .. n + 1 BY <1>1
    <3> QED BY <3>1, RingTypes
  <2>2. \A i \in 1 .. n : i # k => c[i] # c[k] BY DEF Ring
  <2> QED BY <1>2, <2>1, <2>2 DEF Element
<1>8. ASSUME NEW i \in 1 .. n - 1 PROVE t[i] = u[i]
  <2>1. \A j \in 0 .. n : d[j] = IF j < k THEN c[j] ELSE c[j + 1] BY DEF d, RingWithout
  <2>2. CASE i < k
    <3>1. i \in 1 .. n /\ i \in 0 .. n /\ i # k BY <1>1, <2>2
    <3> QED BY <1>1, <1>3, <1>5, <1>7, <2>1, <2>2, <3>1
  <2>3. CASE ~(i < k)
    <3>1. i + 1 \in 1 .. n /\ i \in 0 .. n /\ i + 1 # k BY <1>1, <2>3
    <3>2. d[i] = c[i + 1] BY <2>1, <2>3, <3>1
    <3> QED BY <1>1, <1>3, <1>5, <1>7, <2>3, <3>1, <3>2
  <2> QED BY <2>2, <2>3
<1>9. t = u
  <2>1. Len(t) = Len(u) /\ \A i \in 1 .. Len(t) : t[i] = u[i] BY <1>3, <1>5, <1>8
  <2> QED BY <1>3, <1>5, <2>1, SeqEqual
<1> QED BY <1>9 DEF t, u, s, m, d

-----------------------------------------------------------------------------
(* The calls.                                                              *)

ListInv == \E c, n : Ring(list, c, n)

ListStep == ListInv' /\ [List!AbstractNext]_<<Abstract(list, list.Next), Abstract(list, list.Prev), list.Size, result>>

\* What the abstract list has for a ring.
Shown(c, n) ==
    /\ Abstract(list, list.Next) = Elements(list, c, n)
    /\ List!Unused = Free(list)
    /\ \A i \in 1 .. n + 1 : List!Node(i) = c[i]
    /\ \A i \in 1 .. n : List!Data(i) = list.Data[c[i]]

LEMMA ShownIs ==
    ASSUME NEW c, NEW n, Ring(list, c, n)
    PROVE  Shown(c, n)
<1> DEFINE s == Elements(list, c, n)
<1>1. /\ s \in Seq(ElementType) /\ Len(s) = n /\ n \in Nat
      /\ \A i \in 1 .. n : s[i] = Element(list, c[i])
    BY ElementsAre
<1>2. Abstract(list, list.Next) = s BY AbstractIs
<1> HIDE DEF s
<1>3. DOMAIN s = 1 .. n BY <1>1
<1>4. \A i \in 1 .. n : s[i].node = c[i] /\ s[i].data = list.Data[c[i]] BY <1>1 DEF Element
<1>5. List!Unused = Free(list)
  <2>1. List!Unused = Nodes \ {s[i].node : i \in 1 .. n} BY <1>2, <1>3 DEF List!Unused
  <2>2. {s[i].node : i \in 1 .. n} = {c[i] : i \in 1 .. n} BY <1>4
  <2>3. \A x \in Nodes : x \in Free(list) <=> \A i \in 1 .. n : c[i] # x BY RingFree
  <2>4. Free(list) \subseteq Nodes BY DEF Free
  <2> QED BY <2>1, <2>2, <2>3, <2>4
<1>6. ASSUME NEW i \in 1 .. n + 1 PROVE List!Node(i) = c[i]
  <2>1. List!Node(i) = IF i \in 1 .. n THEN s[i].node ELSE Header BY <1>2, <1>3 DEF List!Node
  <2>2. i \in 1 .. n \/ (i = n + 1 /\ i \notin 1 .. n) BY <1>1
  <2>3. c[n + 1] = Header BY RingTypes
  <2> QED BY <1>4, <2>1, <2>2, <2>3
<1>7. ASSUME NEW i \in 1 .. n PROVE List!Data(i) = list.Data[c[i]]
  <2>1. List!Data(i) = IF i \in 1 .. n THEN s[i].data ELSE None BY <1>2, <1>3 DEF List!Data
  <2> QED BY <1>4, <2>1
<1> QED BY <1>2, <1>5, <1>6, <1>7 DEF Shown, s

\* The abstract list has its own instance of the operators on sequences.
LEMMA SameOperators ==
    ASSUME NEW s, NEW i, NEW e
    PROVE  /\ List!Reverse(s) = Reverse(s)
           /\ List!InsertAt(s, i, e) = InsertAt(s, i, e)
           /\ List!RemoveAt(s, i) = RemoveAt(s, i)
BY DEF Reverse, List!Reverse, InsertAt, List!InsertAt, RemoveAt, List!RemoveAt

LEMMA ReadsAre ==
    ASSUME NEW d, NEW m, Ring(list', d, m), NEW s, Elements(list', d, m) = s
    PROVE  List!Reads(s) /\ ListInv'
<1>1. Abstract(list', list'.Next) = s /\ Abstract(list', list'.Prev) = Reverse(s) /\ Len(s) = m
    BY AbstractIs
<1>2. list'.Size = m BY RingTypes
<1>3. ListInv' BY DEF ListInv
<1>4. List!Reverse(s) = Reverse(s) BY SameOperators
<1> QED BY <1>1, <1>2, <1>3, <1>4 DEF List!Reads

LEMMA StaysStep ==
    ASSUME ListInv, list' = list
    PROVE  /\ ListInv' /\ Abstract(list, list.Next)' = Abstract(list, list.Next)
           /\ Abstract(list, list.Prev)' = Abstract(list, list.Prev) /\ list'.Size = list.Size
BY DEF ListInv

LEMMA AddStep ==
    ASSUME NEW c, NEW n, Ring(list, c, n), NEW k \in 1 .. n + 1, NEW v \in Datas,
           LIST_AddItem(c[k], v)
    PROVE  ListStep
<1>1. Shown(c, n) BY ShownIs
<1>2. ListInv BY DEF ListInv
<1>3. CASE Free(list) = {}
  <2>1. list' = list /\ result' = None BY <1>3 DEF LIST_AddItem
  <2>2. List!Unused = {} BY <1>1, <1>3 DEF Shown
  <2>3. List!Refuse BY <1>2, <2>1, <2>2, StaysStep DEF List!Refuse
  <2> QED BY <1>2, <2>1, <2>3, StaysStep DEF ListStep, List!AbstractNext
<1>4. CASE Free(list) # {}
  <2>1. PICK x \in Free(list) : list' = Added(list, c[k], x, v) /\ result' = x
      BY <1>4 DEF LIST_AddItem
  <2>2. x \in Nodes /\ \A i \in 1 .. n : c[i] # x BY RingFree DEF Free
  <2> DEFINE d == RingWith(c, n, k, x)
             s == InsertAt(Elements(list, c, n), k, [node |-> x, data |-> v])
  <2>3. Ring(list', d, n + 1) BY <2>1, <2>2, RingAdded
  <2>4. Elements(list', d, n + 1) = s BY <2>1, <2>2, ElementsAdded
  <2> HIDE DEF d
  <2>5. List!Reads(s) /\ ListInv' BY <2>3, <2>4, ReadsAre
  <2>6. x \in List!Unused BY <1>1, <2>1 DEF Shown
  <2>7. List!Insert(k)
    <3>1. Abstract(list, list.Next) = Elements(list, c, n) BY <1>1 DEF Shown
    <3>2. List!InsertAt(Elements(list, c, n), k, [node |-> x, data |-> v]) = s BY SameOperators
    <3> HIDE DEF s
    <3> QED BY <2>1, <2>5, <2>6, <3>1, <3>2 DEF List!Insert
  <2>8. k \in 1 .. list.Size + 1 BY RingTypes
  <2> QED BY <2>5, <2>7, <2>8 DEF ListStep, List!AbstractNext
<1> QED BY <1>3, <1>4

LEMMA RemoveStep ==
    ASSUME NEW c, NEW n, Ring(list, c, n), NEW k \in 1 .. n, list' = Removed(list, c[k]),
           result' \in {list.Next[c[k]], list.Data[c[k]]}
    PROVE  ListStep
<1>1. Shown(c, n) BY ShownIs
<1>2. n \in Nat /\ list.Size = n /\ \A i \in 0 .. n : list.Next[c[i]] = c[i + 1] BY RingTypes
<1> DEFINE d == RingWithout(c, n, k)
           s == RemoveAt(Elements(list, c, n), k)
<1>3. Ring(list', d, n - 1) BY RingRemoved
<1>4. Elements(list', d, n - 1) = s BY ElementsRemoved
<1> HIDE DEF d
<1>5. List!Reads(s) /\ ListInv' BY <1>3, <1>4, ReadsAre
<1>6. List!Node(k + 1) = list.Next[c[k]] /\ List!Data(k) = list.Data[c[k]]
  <2>1. k \in 0 .. n /\ k + 1 \in 1 .. n + 1 BY <1>2
  <2> QED BY <1>1, <1>2, <2>1 DEF Shown
<1>7. List!Delete(k)
  <2>1. Abstract(list, list.Next) = Elements(list, c, n) BY <1>1 DEF Shown
  <2>2. List!RemoveAt(Elements(list, c, n), k) = s BY SameOperators
  <2> QED BY <1>5, <1>6, <2>1, <2>2 DEF List!Delete
<1> QED BY <1>2, <1>5, <1>7 DEF ListStep, List!AbstractNext

LEMMA NothingStep ==
    ASSUME NEW c, NEW n, Ring(list, c, n), list' = list,
           result' = Header \/ (n = 0 /\ result' = None)
    PROVE  ListStep
<1>1. Shown(c, n) BY ShownIs
<1>2. ListInv BY DEF ListInv
<1>3. n = 0 => Abstract(list, list.Next) = <<>>
  <2>1. Elements(list, c, n) \in Seq(ElementType) /\ Len(Elements(list, c, n)) = n BY ElementsAre
  <2>2. Abstract(list, list.Next) = Elements(list, c, n) BY <1>1 DEF Shown
  <2> QED BY <2>1, <2>2, EmptySeq
<1>4. List!Nothing BY <1>2, <1>3, StaysStep DEF List!Nothing
<1> QED BY <1>2, <1>4, StaysStep DEF ListStep, List!AbstractNext

\* The node x, between z and y, put between u and w.
Between(l, x, y, z, u, w) ==
    [l EXCEPT !.Next = [@ EXCEPT ![z] = y, ![x] = w, ![u] = x],
              !.Prev = [@ EXCEPT ![y] = z, ![w] = x, ![x] = u]]

LEMMA Linked ==
    ASSUME NEW l \in ListType, NEW next, NEW prev
    PROVE  [l EXCEPT !.Next = next, !.Prev = prev]
               = [Next |-> next, Prev |-> prev, Data |-> l.Data, Size |-> l.Size]
<1> DEFINE a == l.Next
           b == l.Prev
           d == l.Data
           e == l.Size
<1>1. l = [Next |-> a, Prev |-> b, Data |-> d, Size |-> e] BY DEF ListType
<1> HIDE DEF a, b, d, e
<1>2. [[Next |-> a, Prev |-> b, Data |-> d, Size |-> e] EXCEPT !.Next = next, !.Prev = prev]
          = [Next |-> next, Prev |-> prev, Data |-> d, Size |-> e]
  <2>1. [[Next |-> a, Prev |-> b, Data |-> d, Size |-> e] EXCEPT !.Next = next]
            = [Next |-> next, Prev |-> b, Data |-> d, Size |-> e]
      OBVIOUS
  <2>2. [[Next |-> next, Prev |-> b, Data |-> d, Size |-> e] EXCEPT !.Prev = prev]
            = [Next |-> next, Prev |-> prev, Data |-> d, Size |-> e]
      OBVIOUS
  <2> QED BY <2>1, <2>2, Zenon
<1>3. [l EXCEPT !.Next = next, !.Prev = prev] = [Next |-> next, Prev |-> prev, Data |-> d, Size |-> e]
    BY <1>1, <1>2, Zenon
<1> QED BY <1>3 DEF d, e

\* It is taken out and put in again.
LEMMA Moved ==
    ASSUME NEW l \in ListType, NEW x \in Position, NEW y \in Position, NEW z \in Position,
           NEW u \in Position, NEW w \in Position,
           x # Header, l.Next[x] = y, l.Prev[x] = z, l.Prev[w] = u,
           x # y, x # z, x # u, x # w, w # y, l.Size > 0
    PROVE  Between(l, x, y, z, u, w) = Added(Removed(l, x), w, x, l.Data[x])
<1> DEFINE next == [l.Next EXCEPT ![z] = y, ![x] = w, ![u] = x]
           prev == [l.Prev EXCEPT ![y] = z, ![w] = x, ![x] = u]
<1>1. /\ l.Next \in [Position -> Position \cup {None}] /\ l.Prev \in [Position -> Position \cup {None}]
      /\ l.Data \in [Position -> Datas \cup {None}] /\ l.Size \in Nat
    BY DEF ListType
<1> DEFINE r == Removed(l, x)
<1>2. r = [Next |-> [l.Next EXCEPT ![z] = y, ![x] = None], Prev |-> [l.Prev EXCEPT ![y] = z, ![x] = None],
           Data |-> [l.Data EXCEPT ![x] = None], Size |-> l.Size - 1]
    BY DEF Removed
<1>3. /\ r.Next = [l.Next EXCEPT ![z] = y, ![x] = None] /\ r.Prev = [l.Prev EXCEPT ![y] = z, ![x] = None]
      /\ r.Data = [l.Data EXCEPT ![x] = None] /\ r.Size = l.Size - 1
    BY <1>2
<1> HIDE DEF r
<1>4. r.Prev[w] = u BY <1>1, <1>3
<1>5. Added(r, w, x, l.Data[x]) =
          [Next |-> [r.Next EXCEPT ![x] = w, ![u] = x], Prev |-> [r.Prev EXCEPT ![x] = u, ![w] = x],
           Data |-> [r.Data EXCEPT ![x] = l.Data[x]], Size |-> r.Size + 1]
    BY <1>4 DEF Added
<1>6. [r.Next EXCEPT ![x] = w, ![u] = x] = next
  <2> DEFINE f == [r.Next EXCEPT ![x] = w, ![u] = x]
  <2>1. DOMAIN f = Position /\ DOMAIN next = Position BY <1>1, <1>3
  <2>2. \A i \in Position : f[i] = next[i] BY <1>1, <1>3
  <2>3. f = [i \in Position |-> f[i]] /\ next = [i \in Position |-> next[i]] BY <1>1, <1>3
  <2> HIDE DEF f
  <2>4. f = next BY <2>2, <2>3
  <2> QED BY <2>4 DEF f
<1>7. [r.Prev EXCEPT ![x] = u, ![w] = x] = prev
  <2> DEFINE f == [r.Prev EXCEPT ![x] = u, ![w] = x]
  <2>2. \A i \in Position : f[i] = prev[i] BY <1>1, <1>3
  <2>3. f = [i \in Position |-> f[i]] /\ prev = [i \in Position |-> prev[i]] BY <1>1, <1>3
  <2> HIDE DEF f
  <2>4. f = prev BY <2>2, <2>3
  <2> QED BY <2>4 DEF f
<1>8. [r.Data EXCEPT ![x] = l.Data[x]] = l.Data
  <2> DEFINE f == [r.Data EXCEPT ![x] = l.Data[x]]
  <2>2. \A i \in Position : f[i] = l.Data[i] BY <1>1, <1>3
  <2>3. f = [i \in Position |-> f[i]] /\ l.Data = [i \in Position |-> l.Data[i]] BY <1>1, <1>3
  <2> HIDE DEF f
  <2>4. f = l.Data BY <2>2, <2>3
  <2> QED BY <2>4 DEF f
<1>9. r.Size + 1 = l.Size BY <1>1, <1>3
<1>10. Added(r, w, x, l.Data[x]) = [Next |-> next, Prev |-> prev, Data |-> l.Data, Size |-> l.Size]
    BY <1>5, <1>6, <1>7, <1>8, <1>9
<1>11. Between(l, x, y, z, u, w) = [Next |-> next, Prev |-> prev, Data |-> l.Data, Size |-> l.Size]
  <2>1. Between(l, x, y, z, u, w) = [l EXCEPT !.Next = next, !.Prev = prev] BY DEF Between
  <2> HIDE DEF next, prev
  <2>2. [l EXCEPT !.Next = next, !.Prev = prev] = [Next |-> next, Prev |-> prev, Data |-> l.Data, Size |-> l.Size]
      BY Linked
  <2> QED BY <2>1, <2>2
<1> QED BY <1>10, <1>11 DEF r

\* It is taken out as the k-th and put in as the j-th.
LEMMA MovedStep ==
    ASSUME NEW c, NEW n, Ring(list, c, n), NEW k \in 1 .. n, NEW j \in {1, n}, NEW d, NEW w,
           d = RingWithout(c, n, k), w = d[j],
           list' = Added(Removed(list, c[k]), w, c[k], list.Data[c[k]]), result' = c[k]
    PROVE  ListStep
<1> DEFINE l == Removed(list, c[k])
           s == Elements(list, c, n)
           x == c[k]
           v == list.Data[x]
           e == RingWith(d, n - 1, j, x)
           t == InsertAt(RemoveAt(s, k), j, s[k])
<1>1. n \in Nat /\ list.Size = n /\ \A i \in 0 .. n + 1 : c[i] \in Position BY RingTypes
<1>2. Ring(l, d, n - 1) BY RingRemoved
<1>3. Elements(l, d, n - 1) = RemoveAt(s, k) BY ElementsRemoved
<1>4. x \in Nodes BY DEF Ring
<1>5. v \in Datas \cup {None}
  <2>1. list.Data \in [Position -> Datas \cup {None}] BY RingTypes
  <2> QED BY <1>4, <2>1 DEF Position
<1>6. s[k] = [node |-> x, data |-> v] BY ElementsAre DEF Element
<1>7. \A i \in 1 .. n - 1 : d[i] # x
  <2> SUFFICES ASSUME NEW i \in 1 .. n - 1 PROVE d[i] # x OBVIOUS
  <2>1. d[i] = IF i < k THEN c[i] ELSE c[i + 1] BY <1>1 DEF RingWithout
  <2>2. \A p, q \in 1 .. n : c[p] = c[q] => p = q BY DEF Ring
  <2>3. i \in 1 .. n /\ i + 1 \in 1 .. n /\ k \in 1 .. n /\ (i < k => i # k) /\ (~(i < k) => i + 1 # k)
      BY <1>1
  <2> QED BY <2>1, <2>2, <2>3
<1>8. j \in 1 .. n - 1 + 1 /\ n - 1 + 1 = n BY <1>1
<1> HIDE DEF l, s, x, v
<1>9. Ring(Added(l, d[j], x, v), RingWith(d, n - 1, j, x), n - 1 + 1)
    BY <1>2, <1>4, <1>5, <1>7, <1>8, RingAdded
<1>10. Elements(Added(l, d[j], x, v), RingWith(d, n - 1, j, x), n - 1 + 1)
           = InsertAt(Elements(l, d, n - 1), j, [node |-> x, data |-> v])
    BY <1>2, <1>4, <1>5, <1>7, <1>8, ElementsAdded
<1>11. list' = Added(l, d[j], x, v) BY DEF l, x, v
<1> HIDE DEF e
<1>12. Ring(list', e, n) /\ Elements(list', e, n) = t
    BY <1>3, <1>6, <1>8, <1>9, <1>10, <1>11 DEF e
<1>13. List!Reads(t) /\ ListInv' BY <1>12, ReadsAre
<1>14. Shown(c, n) BY ShownIs
<1>15. List!Move(k, j)
  <2>1. Abstract(list, list.Next) = s BY <1>14 DEF Shown, s
  <2>2. List!Node(k) = x
    <3>1. k \in 1 .. n + 1 BY <1>1
    <3> QED BY <1>14, <3>1 DEF Shown, x
  <2>3. List!RemoveAt(s, k) = RemoveAt(s, k) BY SameOperators
  <2>4. List!InsertAt(RemoveAt(s, k), j, s[k]) = InsertAt(RemoveAt(s, k), j, s[k]) BY SameOperators
  <2>5. result' = x BY DEF x
  <2> QED BY <1>13, <2>1, <2>2, <2>3, <2>4, <2>5 DEF List!Move
<1>16. List!Move(k, 1) \/ List!Move(k, list.Size) BY <1>1, <1>15
<1> QED BY <1>1, <1>13, <1>16 DEF ListStep, List!AbstractNext

\* Where it is already it stays.
LEMMA MoveNothing ==
    ASSUME NEW S, NEW s \in Seq(S), NEW k \in 1 .. Len(s)
    PROVE  InsertAt(RemoveAt(s, k), k, s[k]) = s
<1> DEFINE t == RemoveAt(s, k)
           u == InsertAt(t, k, s[k])
<1>0. Len(s) \in Nat /\ s[k] \in S OBVIOUS
<1>1. /\ t \in Seq(S) /\ Len(t) = Len(s) - 1
      /\ \A i \in 1 .. Len(s) - 1 : t[i] = IF i < k THEN s[i] ELSE s[i + 1]
    BY TakenOut
<1> HIDE DEF t
<1>2. k \in 1 .. Len(t) + 1 BY <1>0, <1>1
<1>3. IsInserted(S, t, k, s[k]) BY <1>0, <1>1, <1>2, Inserted
<1>4. /\ u \in Seq(S) /\ Len(u) = Len(s)
      /\ \A i \in 1 .. Len(s) : u[i] = IF i < k THEN t[i] ELSE IF i = k THEN s[k] ELSE t[i - 1]
  <2>1. Len(t) + 1 = Len(s) BY <1>0, <1>1
  <2> QED BY <1>3, <2>1 DEF IsInserted
<1> HIDE DEF u
<1>5. ASSUME NEW i \in 1 .. Len(s) PROVE u[i] = s[i]
  <2>1. CASE i < k
    <3>1. i \in 1 .. Len(s) - 1 BY <1>0, <2>1
    <3> QED BY <1>1, <1>4, <2>1, <3>1
  <2>2. CASE i = k BY <1>0, <1>4, <2>2
  <2>3. CASE i > k
    <3>1. i - 1 \in 1 .. Len(s) - 1 /\ ~(i - 1 < k) /\ i - 1 + 1 = i /\ ~(i < k) /\ i # k BY <1>0, <2>3
    <3> QED BY <1>1, <1>4, <3>1
  <2> QED BY <1>0, <2>1, <2>2, <2>3
<1>6. u = s BY <1>4, <1>5, SeqEqual
<1> QED BY <1>6 DEF u, t

LEMMA StayStep ==
    ASSUME NEW c, NEW n, Ring(list, c, n), NEW k \in 1 .. n, k = 1 \/ k = n,
           list' = list, result' = c[k]
    PROVE  ListStep
<1> DEFINE s == Elements(list, c, n)
<1>1. n \in Nat /\ list.Size = n BY RingTypes
<1>2. s \in Seq(ElementType) /\ Len(s) = n BY ElementsAre
<1>3. Shown(c, n) BY ShownIs
<1>4. Abstract(list, list.Next) = s BY <1>3 DEF Shown
<1>5. Ring(list', c, n) /\ Elements(list', c, n) = s OBVIOUS
<1> HIDE DEF s
<1>6. List!Reads(s) /\ ListInv' BY <1>5, ReadsAre
<1>7. InsertAt(RemoveAt(s, k), k, s[k]) = s
  <2>1. k \in 1 .. Len(s) BY <1>2
  <2> QED BY <1>2, <2>1, MoveNothing
<1>8. List!Move(k, k)
  <2>1. List!RemoveAt(s, k) = RemoveAt(s, k) BY SameOperators
  <2>2. List!InsertAt(RemoveAt(s, k), k, s[k]) = InsertAt(RemoveAt(s, k), k, s[k]) BY SameOperators
  <2>3. List!Node(k) = c[k]
    <3>1. k \in 1 .. n + 1 BY <1>1
    <3> QED BY <1>3, <3>1 DEF Shown
  <2> QED BY <1>4, <1>6, <1>7, <2>1, <2>2, <2>3 DEF List!Move
<1>9. List!Move(k, 1) \/ List!Move(k, list.Size) BY <1>1, <1>8
<1> QED BY <1>1, <1>6, <1>9 DEF ListStep, List!AbstractNext

LEMMA MoveStep ==
    ASSUME NEW c, NEW n, Ring(list, c, n), NEW k \in 1 .. n,
           LIST_MoveItemTop(c[k]) \/ LIST_MoveItemBottom(c[k])
    PROVE  ListStep
<1> DEFINE x == c[k]
           y == c[k + 1]
           z == c[k - 1]
           d == RingWithout(c, n, k)
<1>1. /\ n \in Nat /\ list.Size = n
      /\ \A i \in 0 .. n + 1 : c[i] \in Position
      /\ \A i \in 0 .. n : list.Next[c[i]] = c[i + 1] /\ list.Prev[c[i + 1]] = c[i]
      /\ c[0] = Header /\ c[n + 1] = Header
    BY RingTypes
<1>2. /\ \A i, j \in 0 .. n : c[i] = c[j] => i = j
      /\ \A i, j \in 1 .. n + 1 : c[i] = c[j] => i = j
    BY RingApart
<1>3. /\ k \in Nat /\ k \in 0 .. n /\ k \in 1 .. n + 1 /\ k \in 0 .. n + 1 /\ k - 1 \in 0 .. n
      /\ k - 1 \in 0 .. n + 1 /\ k - 1 + 1 = k /\ k + 1 \in 1 .. n + 1 /\ k + 1 \in 0 .. n + 1
      /\ k >= 1 /\ k <= n
    BY <1>1
<1>4. /\ x \in Position /\ y \in Position /\ z \in Position /\ x # Header
      /\ list.Next[x] = y /\ list.Prev[x] = z /\ x # y /\ x # z /\ list \in ListType
  <2>1. x \in Nodes /\ list \in ListType BY DEF Ring
  <2>2. k # k + 1 /\ k # k - 1 BY <1>3
  <2> QED BY <1>1, <1>2, <1>3, <2>1, <2>2, ListAssumption
<1>5. z = Header <=> k = 1
  <2>1. 0 \in 0 .. n BY <1>1
  <2>2. k = 1 => k - 1 = 0 OBVIOUS
  <2> QED BY <1>1, <1>2, <1>3, <2>1, <2>2
<1>6. y = Header <=> k = n
  <2>1. n + 1 \in 1 .. n + 1 BY <1>1
  <2>2. k + 1 = n + 1 => k = n BY <1>1, <1>3
  <2> QED BY <1>1, <1>2, <1>3, <2>1, <2>2
<1>7. list.Size > 0 BY <1>1, <1>3
<1>8. /\ \A i \in 0 .. n : i < k => d[i] = c[i]
      /\ \A i \in 0 .. n : i >= k => d[i] = c[i + 1]
    BY <1>1, <1>3 DEF RingWithout
<1> HIDE DEF x, y, z, d
<1>9. CASE LIST_MoveItemTop(x)
  <2>1. result' = x BY <1>9 DEF LIST_MoveItemTop
  <2>2. CASE k = 1
    <3>1. list' = list BY <1>4, <1>5, <1>9, <2>2 DEF LIST_MoveItemTop
    <3> QED BY <2>1, <2>2, <3>1, StayStep DEF x
  <2>3. CASE k # 1
    <3> DEFINE w == c[1]
    <3>1. 1 \in 1 .. n + 1 /\ 1 \in 0 .. n + 1 /\ 0 \in 0 .. n /\ 1 # k + 1 /\ 0 + 1 = 1 /\ 1 \in 0 .. n /\ 1 < k
        BY <1>1, <1>3, <2>3
    <3>2. w \in Position /\ w # x /\ w # y /\ list.Prev[w] = Header /\ list.Next[Header] = w
        BY <1>1, <1>2, <1>3, <2>3, <3>1 DEF x, y
    <3>3. Header \in Position BY DEF Position
    <3> HIDE DEF w
    <3>4. list' = Between(list, x, y, z, Header, w)
      <4>1. list.Prev \in [Position -> Position \cup {None}] BY RingTypes
      <4> QED BY <1>4, <1>5, <1>9, <2>3, <3>2, <3>3, <4>1 DEF LIST_MoveItemTop, Between
    <3>5. list' = Added(Removed(list, x), w, x, list.Data[x])
      <4>1. Between(list, x, y, z, Header, w) = Added(Removed(list, x), w, x, list.Data[x])
          BY <1>4, <1>7, <3>2, <3>3, Moved
      <4> QED BY <3>4, <4>1
    <3>6. w = d[1] BY <1>8, <3>1 DEF w
    <3>7. 1 \in {1, n} OBVIOUS
    <3> QED BY <2>1, <3>5, <3>6, <3>7, MovedStep DEF x, d
  <2> QED BY <2>2, <2>3
<1>10. CASE LIST_MoveItemBottom(x)
  <2>1. result' = x BY <1>10 DEF LIST_MoveItemBottom
  <2>2. CASE k = n
    <3>1. list' = list BY <1>4, <1>6, <1>10, <2>2 DEF LIST_MoveItemBottom
    <3> QED BY <2>1, <2>2, <3>1, StayStep DEF x
  <2>3. CASE k # n
    <3> DEFINE u == c[n]
    <3>1. n \in 0 .. n /\ n \in 0 .. n + 1 /\ n >= k /\ n + 1 \in 1 .. n + 1 /\ n + 1 # k + 1
        BY <1>1, <1>3, <2>3
    <3>2. u \in Position /\ u # x /\ list.Prev[Header] = u
        BY <1>1, <1>2, <1>3, <2>3, <3>1 DEF x
    <3>3. Header \in Position /\ y # Header BY <1>6, <2>3 DEF Position
    <3> HIDE DEF u
    <3>4. list' = Between(list, x, y, z, u, Header)
      <4>1. list.Prev \in [Position -> Position \cup {None}] BY RingTypes
      <4>2. [list.Prev EXCEPT ![y] = z, ![x] = u, ![Header] = x]
                = [list.Prev EXCEPT ![y] = z, ![Header] = x, ![x] = u]
          BY <1>4, <3>3, <4>1
      <4> QED BY <1>4, <1>6, <1>10, <2>3, <3>2, <4>2 DEF LIST_MoveItemBottom, Between
    <3>6. list' = Added(Removed(list, x), Header, x, list.Data[x])
      <4>1. Between(list, x, y, z, u, Header) = Added(Removed(list, x), Header, x, list.Data[x])
          BY <1>4, <1>7, <3>2, <3>3, Moved
      <4> QED BY <3>4, <4>1
    <3>7. Header = d[n] BY <1>1, <1>8, <3>1
    <3>8. n \in {1, n} OBVIOUS
    <3> QED BY <2>1, <3>6, <3>7, <3>8, MovedStep DEF x, d
  <2> QED BY <2>2, <2>3
<1> QED BY <1>9, <1>10 DEF x

-----------------------------------------------------------------------------
(* Emptying it.                                                            *)

\* The lists whose links are a ring, of n nodes.
RingsOf(n) == {l \in ListType : l.Size = n /\ \E c : Ring(l, c, n)}

LEMMA FirstGoes ==
    ASSUME NEW n \in Nat, NEW l \in RingsOf(n), NEW par, NEW i
    PROVE  FirstTurn(par, i, l) \in RingsOf(IF n = 0 THEN 0 ELSE n - 1)
<1>1. PICK c : Ring(l, c, n) BY DEF RingsOf
<1>2. l.Next[Header] = c[1]
  <2>1. 0 \in 0 .. n /\ 0 + 1 = 1 OBVIOUS
  <2> QED BY <1>1, <2>1, RingTypes
<1>3. CASE n = 0
  <2>1. c[1] = Header BY <1>1, <1>3, RingTypes
  <2> QED BY <1>2, <1>3, <2>1 DEF FirstTurn, Removed
<1>4. CASE n # 0
  <2>1. 1 \in 1 .. n BY <1>4
  <2> DEFINE m == Removed(l, c[1])
             d == RingWithout(c, n, 1)
  <2>2. Ring(m, d, n - 1) BY <1>1, <2>1, RingRemoved
  <2>3. FirstTurn(par, i, l) = m BY <1>2 DEF FirstTurn
  <2> HIDE DEF m, d
  <2>4. m \in ListType /\ m.Size = n - 1 BY <2>2 DEF Ring
  <2> QED BY <1>4, <2>2, <2>3, <2>4 DEF RingsOf
<1> QED BY <1>3, <1>4

LEMMA EmptiedIs ==
    ASSUME NEW l
    PROVE  Emptied(l) = Clears!OverSeq(0, l, [i \in 1 .. l.Size |-> i])
BY DEF Emptied, FoldLeft, MapThenFoldSet, Clears!OverSeq, FirstTurn, Max

LEMMA EmptiedRing ==
    ASSUME NEW n \in Nat, NEW l \in RingsOf(n)
    PROVE  Emptied(l) \in RingsOf(0)
<1> DEFINE seq == [i \in 1 .. n |-> i]
           B == UNION {RingsOf(m) : m \in Nat}
           A == [i \in 0 .. n |-> RingsOf(n - i)]
<1>1. l.Size = n BY DEF RingsOf
<1>2. seq \in Seq(Nat) /\ Len(seq) = n /\ DOMAIN seq = 1 .. n
  <2>1. \A i \in 1 .. n : i \in Nat OBVIOUS
  <2>2. seq \in [1 .. n -> Nat] BY <2>1
  <2> QED BY <2>2
<1>3. Clears!Closed(0, {seq[i] : i \in DOMAIN seq}, B)
  <2> SUFFICES ASSUME NEW i, NEW h \in B PROVE FirstTurn(0, i, h) \in B BY DEF Clears!Closed
  <2>1. PICK m \in Nat : h \in RingsOf(m) OBVIOUS
  <2>2. FirstTurn(0, i, h) \in RingsOf(IF m = 0 THEN 0 ELSE m - 1) BY <2>1, FirstGoes
  <2>3. (IF m = 0 THEN 0 ELSE m - 1) \in Nat OBVIOUS
  <2> QED BY <2>2, <2>3
<1>4. l \in A[0] \cap B
  <2>1. n - 0 = n /\ 0 \in 0 .. n OBVIOUS
  <2> QED BY <2>1
<1>5. \A i \in DOMAIN seq : \A h \in A[i - 1] \cap B : FirstTurn(0, seq[i], h) \in A[i]
  <2> SUFFICES ASSUME NEW i \in 1 .. n, NEW h \in A[i - 1] PROVE FirstTurn(0, seq[i], h) \in A[i]
      BY <1>2
  <2>1. i - 1 \in 0 .. n /\ i \in 0 .. n /\ n - (i - 1) \in Nat /\ n - (i - 1) # 0
        /\ n - (i - 1) - 1 = n - i
      OBVIOUS
  <2>2. h \in RingsOf(n - (i - 1)) BY <2>1
  <2>3. FirstTurn(0, seq[i], h) \in RingsOf(n - (i - 1) - 1) BY <2>1, <2>2, FirstGoes
  <2> QED BY <2>1, <2>3
<1>6. A[n] = RingsOf(0)
  <2>1. n - n = 0 /\ n \in 0 .. n OBVIOUS
  <2> QED BY <2>1
<1>7. Emptied(l) = Clears!OverSeq(0, l, seq) BY <1>1, EmptiedIs
<1> HIDE DEF A, B, seq
<1>8. Clears!OverSeq(0, l, seq) \in A[Len(seq)] BY <1>2, <1>3, <1>4, <1>5, Clears!SeqInOrder
<1> QED BY <1>2, <1>6, <1>7, <1>8

LEMMA ClearStep ==
    ASSUME ListInv, LIST_Clear
    PROVE  ListStep
<1>1. PICK c, n : Ring(list, c, n) BY DEF ListInv
<1>2. n \in Nat /\ list \in RingsOf(n) BY <1>1 DEF RingsOf, Ring
<1>3. list' \in RingsOf(0) /\ result' = None BY <1>2, EmptiedRing DEF LIST_Clear
<1>4. PICK d : Ring(list', d, 0) BY <1>3 DEF RingsOf
<1>5. Elements(list', d, 0) = <<>> BY <1>4, ElementsAre, EmptySeq
<1>6. List!Reads(<<>>) /\ ListInv' BY <1>4, <1>5, ReadsAre
<1>7. List!Clear BY <1>3, <1>6 DEF List!Clear
<1> QED BY <1>6, <1>7 DEF ListStep, List!AbstractNext

-----------------------------------------------------------------------------
(* Looking for data.                                                       *)

LEMMA FindStep ==
    ASSUME ListInv, NEW v \in Datas, LIST_FindItem(v)
    PROVE  ListStep
<1>1. PICK c, n : Ring(list, c, n) BY DEF ListInv
<1>2. /\ n \in Nat /\ list.Size = n
      /\ \A i \in 0 .. n + 1 : c[i] \in Position
      /\ \A i \in 0 .. n : list.Next[c[i]] = c[i + 1] /\ list.Prev[c[i + 1]] = c[i]
      /\ c[0] = Header /\ c[n + 1] = Header /\ list.Data[Header] = None
    BY <1>1, RingTypes
<1>3. \A i, j \in 1 .. n + 1 : c[i] = c[j] => i = j BY <1>1, RingApart
<1>4. list.Next[Header] = c[1]
  <2>1. 0 \in 0 .. n /\ 0 + 1 = 1 BY <1>2
  <2> QED BY <1>2, <2>1
<1> DEFINE at == Along(list.Next, c[1], list.Size)
           Ends(i) == at[i] = Header \/ list.Data[at[i]] = v
           k == CHOOSE i \in 0 .. list.Size : Ends(i) /\ \A j \in 0 .. i - 1 : ~Ends(j)
<1>5. /\ list' = list
      /\ result' = IF at[k] = Header THEN None ELSE list.Prev[list.Next[at[k]]]
  <2>1. list' = list /\ result' = LIST_FindItemRange(c[1], Header, v) BY <1>4 DEF LIST_FindItem
  <2>2. LIST_FindItemRange(c[1], Header, v) = IF at[k] = Header THEN None ELSE list.Prev[list.Next[at[k]]]
      BY DEF LIST_FindItemRange
  <2> HIDE DEF at, k
  <2> QED BY <2>1, <2>2
<1>6. \A i \in 0 .. n : at[i] = c[i + 1]
  <2>1. at = [i \in 0 .. n |-> c[i + 1]]
    <3>1. AlongAll(list, c, n) BY <1>1, AlongRing
    <3> QED BY <1>2, <3>1 DEF AlongAll
  <2> HIDE DEF at
  <2> QED BY <2>1
<1> HIDE DEF at
<1>7. k \in 0 .. n /\ Ends(k) /\ \A j \in 0 .. k - 1 : ~Ends(j)
  <2> DEFINE S == {i \in 0 .. n : Ends(i)}
  <2>1. n \in S
    <3>1. n \in 0 .. n BY <1>2
    <3> QED BY <1>2, <1>6, <3>1
  <2>2. \A i \in S : i \in 0 .. n /\ Ends(i) OBVIOUS
  <2>3. \A i \in 0 .. n : Ends(i) => i \in S OBVIOUS
  <2>4. S \in SUBSET Nat /\ S # {} BY <1>2, <2>1
  <2> HIDE DEF S, Ends
  <2>5. PICK i \in S : \A j \in S : i <= j BY <2>4, Clears!SmallestNumber
  <2>6. \A j \in 0 .. i - 1 : ~Ends(j)
    <3> SUFFICES ASSUME NEW j \in 0 .. i - 1, Ends(j) PROVE FALSE OBVIOUS
    <3>1. j \in 0 .. n /\ j < i BY <1>2, <2>2
    <3>2. j \in S BY <2>3, <3>1
    <3> QED BY <1>2, <2>2, <2>5, <3>1, <3>2
  <2>7. \E p \in 0 .. list.Size : Ends(p) /\ \A j \in 0 .. p - 1 : ~Ends(j) BY <1>2, <2>2, <2>6
  <2>8. k \in 0 .. list.Size /\ Ends(k) /\ \A j \in 0 .. k - 1 : ~Ends(j) BY <2>7
  <2> QED BY <1>2, <2>8
<1> HIDE DEF k
<1>8. Shown(c, n) BY <1>1, ShownIs
<1> DEFINE found == {i \in 1 .. n : list.Data[c[i]] = v}
           first == CHOOSE i \in found : \A j \in found : i <= j
<1>9. /\ \A i \in 1 .. n : List!Data(i) = list.Data[c[i]]
      /\ \A i \in 1 .. n : List!Node(i) = c[i]
  <2>1. \A i \in 1 .. n : i \in 1 .. n + 1 BY <1>2
  <2> QED BY <1>8, <2>1 DEF Shown
<1>10. DOMAIN Abstract(list, list.Next) = 1 .. n
  <2>1. Abstract(list, list.Next) = Elements(list, c, n) BY <1>8 DEF Shown
  <2> QED BY <2>1 DEF Elements
<1>11. {i \in DOMAIN Abstract(list, list.Next) : List!Data(i) = v} = found BY <1>9, <1>10
<1>12. \A i \in 1 .. n : i < k + 1 => list.Data[c[i]] # v
  <2> SUFFICES ASSUME NEW i \in 1 .. n, i < k + 1 PROVE list.Data[c[i]] # v OBVIOUS
  <2>1. i - 1 \in 0 .. k - 1 /\ i - 1 \in 0 .. n /\ i - 1 + 1 = i BY <1>2, <1>7
  <2> QED BY <1>6, <1>7, <2>1
<1>13. result' = IF found = {} THEN None ELSE List!Node(first)
  <2>1. CASE at[k] = Header
    <3>1. k = n
      <4>1. k + 1 \in 1 .. n + 1 /\ n + 1 \in 1 .. n + 1 /\ c[k + 1] = c[n + 1] BY <1>2, <1>6, <1>7, <2>1
      <4>2. k + 1 = n + 1 BY <1>3, <4>1
      <4> QED BY <1>2, <1>7, <4>2
    <3>2. \A i \in 1 .. n : i < k + 1 BY <1>2, <3>1
    <3>3. found = {} BY <1>12, <3>2
    <3> HIDE DEF found
    <3> QED BY <1>5, <2>1, <3>3
  <2>2. CASE at[k] # Header
    <3>1. list.Data[c[k + 1]] = v BY <1>6, <1>7, <2>2
    <3>2. k # n BY <1>2, <1>6, <1>7, <2>2
    <3>3. k + 1 \in 1 .. n /\ k + 1 \in 0 .. n BY <1>2, <1>7, <3>2
    <3>4. k + 1 \in found BY <3>1, <3>3
    <3>5. \A j \in found : k + 1 <= j
      <4> SUFFICES ASSUME NEW j \in found PROVE k + 1 <= j OBVIOUS
      <4>1. j \in 1 .. n /\ ~(j < k + 1) BY <1>12
      <4> QED BY <1>2, <1>7, <4>1
    <3>6. found \subseteq Nat OBVIOUS
    <3> HIDE DEF found
    <3>7. first \in found /\ \A j \in found : first <= j BY <3>4, <3>5
    <3> HIDE DEF first
    <3>8. first = k + 1
      <4>1. first <= k + 1 /\ k + 1 <= first BY <3>4, <3>5, <3>7
      <4>2. first \in Nat /\ k + 1 \in Nat BY <1>2, <3>3, <3>6, <3>7
      <4> QED BY <4>1, <4>2
    <3>9. list.Prev[list.Next[c[k + 1]]] = c[k + 1] BY <1>2, <3>3
    <3>10. List!Node(first) = c[k + 1] BY <1>9, <3>3, <3>8
    <3>11. result' = list.Prev[list.Next[c[k + 1]]] BY <1>5, <1>6, <1>7, <2>2
    <3> QED BY <3>4, <3>9, <3>10, <3>11
  <2> QED BY <2>1, <2>2
<1>14. List!Find(v)
  <2> HIDE DEF found
  <2> QED BY <1>5, <1>11, <1>13, StaysStep DEF List!Find, first
<1> QED BY <1>5, <1>14, StaysStep DEF ListStep, List!AbstractNext

-----------------------------------------------------------------------------
(* The links are a sequence.                                               *)

LEMMA ListStarts == ListInit => ListInv /\ List!AbstractInit
<1> SUFFICES ASSUME ListInit PROVE ListInv /\ List!AbstractInit OBVIOUS
<1> DEFINE c == [i \in 0 .. 1 |-> Header]
<1>1. list = LIST_New /\ result = None BY DEF ListInit
<1>2. Ring(LIST_New, c, 0)
  <2>1. LIST_New \in ListType /\ LIST_New.Size = 0 /\ LIST_New.Data[Header] = None
      BY DEF LIST_New, ListType, Position
  <2>2. \A i \in 0 .. 0 : LIST_New.Next[c[i]] = c[i + 1] /\ LIST_New.Prev[c[i + 1]] = c[i]
      BY DEF LIST_New
  <2>3. \A x \in Nodes : LIST_New.Next[x] = None BY ListAssumption DEF LIST_New
  <2>4. 0 + 1 = 1 /\ c \in [0 .. 0 + 1 -> Position] /\ c[0] = Header /\ c[0 + 1] = Header BY DEF Position
  <2> HIDE DEF c
  <2> QED BY <2>1, <2>2, <2>3, <2>4 DEF Ring
<1> HIDE DEF c
<1>3. Ring(list, c, 0) BY <1>1, <1>2
<1>4. Elements(list, c, 0) = <<>> BY <1>3, ElementsAre, EmptySeq
<1>5. Abstract(list, list.Next) = <<>> /\ Abstract(list, list.Prev) = Reverse(<<>>) /\ list.Size = 0
    BY <1>3, <1>4, AbstractIs, RingTypes
<1>6. Reverse(<<>>) = <<>> BY DEF Reverse
<1> QED BY <1>1, <1>3, <1>5, <1>6 DEF ListInv, List!AbstractInit

LEMMA ListSteps == ListInv /\ [ListNext]_listVars => ListStep
<1> SUFFICES ASSUME ListInv, [ListNext]_listVars PROVE ListStep OBVIOUS
<1>1. PICK c, n : Ring(list, c, n) BY DEF ListInv
<1>2. /\ n \in Nat /\ list.Size = n
      /\ \A i \in 0 .. n : list.Next[c[i]] = c[i + 1] /\ list.Prev[c[i + 1]] = c[i]
      /\ c[0] = Header /\ c[n + 1] = Header /\ list.Data[Header] = None
    BY <1>1, RingTypes
<1>3. 0 \in 0 .. n /\ 0 + 1 = 1 /\ n \in 0 .. n /\ 1 \in 1 .. n + 1 /\ n + 1 \in 1 .. n + 1
      /\ (n # 0 => 1 \in 1 .. n /\ n \in 1 .. n)
    BY <1>2
<1>4. list.Next[Header] = c[1] /\ list.Prev[Header] = c[n] BY <1>2, <1>3
<1>5. n = 0 => c[1] = Header /\ c[n] = Header BY <1>2, <1>3
<1>6. Removed(list, Header) = list BY DEF Removed
<1>7. CASE UNCHANGED listVars BY <1>7, StaysStep DEF listVars, ListStep
<1>8. CASE LIST_RemoveFirstItem
  <2>1. result' = list.Data[c[1]] /\ list' = Removed(list, c[1]) BY <1>4, <1>8 DEF LIST_RemoveFirstItem
  <2>2. CASE n = 0 BY <1>1, <1>2, <1>5, <1>6, <2>1, <2>2, NothingStep
  <2>3. CASE n # 0 BY <1>1, <1>3, <2>1, <2>3, RemoveStep
  <2> QED BY <2>2, <2>3
<1>9. CASE LIST_RemoveLastItem
  <2>1. result' = list.Data[c[n]] /\ list' = Removed(list, c[n]) BY <1>4, <1>9 DEF LIST_RemoveLastItem
  <2>2. CASE n = 0 BY <1>1, <1>2, <1>5, <1>6, <2>1, <2>2, NothingStep
  <2>3. CASE n # 0 BY <1>1, <1>3, <2>1, <2>3, RemoveStep
  <2> QED BY <2>2, <2>3
<1>10. CASE LIST_Clear BY <1>10, ClearStep
<1>11. ASSUME NEW v \in Datas, LIST_AddItemTop(v) \/ LIST_AddItemBottom(v) \/ LIST_FindItem(v)
       PROVE  ListStep
  <2>1. CASE LIST_AddItemTop(v)
    <3>1. LIST_AddItem(c[1], v) BY <1>4, <2>1 DEF LIST_AddItemTop
    <3> QED BY <1>1, <1>3, <3>1, AddStep
  <2>2. CASE LIST_AddItemBottom(v)
    <3>1. LIST_AddItem(c[n + 1], v) BY <1>2, <2>2 DEF LIST_AddItemBottom
    <3> QED BY <1>1, <1>3, <3>1, AddStep
  <2>3. CASE LIST_FindItem(v) BY <2>3, FindStep
  <2> QED BY <1>11, <2>1, <2>2, <2>3
<1>12. ASSUME NEW pos \in (Nodes \cup {Header}) \ Free(list),
              LIST_RemoveItem(pos) \/ \E v \in Datas : LIST_AddItem(pos, v)
       PROVE  ListStep
  <2>1. PICK k \in 1 .. n + 1 : c[k] = pos
    <3>1. pos \in Position /\ pos \notin Free(list) BY DEF Position
    <3> QED BY <1>1, <3>1, RingFree
  <2>2. CASE LIST_RemoveItem(pos)
    <3>1. CASE pos = Header
      <4>1. list' = list /\ result' = Header BY <1>6, <2>2, <3>1 DEF LIST_RemoveItem
      <4> QED BY <1>1, <4>1, NothingStep
    <3>2. CASE pos # Header
      <4>1. k \in 1 .. n BY <1>2, <2>1, <3>2
      <4>2. list' = Removed(list, c[k]) /\ result' = list.Next[c[k]]
          BY <2>1, <2>2, <3>2 DEF LIST_RemoveItem
      <4> QED BY <1>1, <4>1, <4>2, RemoveStep
    <3> QED BY <3>1, <3>2
  <2>3. CASE \E v \in Datas : LIST_AddItem(pos, v)
    <3>1. PICK v \in Datas : LIST_AddItem(c[k], v) BY <2>1, <2>3
    <3> QED BY <1>1, <3>1, AddStep
  <2> QED BY <1>12, <2>2, <2>3
<1>13. ASSUME NEW iter \in Nodes \ Free(list), LIST_MoveItemTop(iter) \/ LIST_MoveItemBottom(iter)
       PROVE  ListStep
  <2>1. PICK k \in 1 .. n : c[k] = iter BY <1>1, RingFree
  <2>2. LIST_MoveItemTop(c[k]) \/ LIST_MoveItemBottom(c[k]) BY <1>13, <2>1
  <2> QED BY <1>1, <2>2, MoveStep
<1> QED BY <1>7, <1>8, <1>9, <1>10, <1>11, <1>12, <1>13 DEF ListNext

\* Whatever is called, in whatever order, the links from the front and the links from the
\* back are the same sequence, in opposite orders, as long as Size says and with no node
\* twice, and each call of list.cpp changes it and answers as the abstract list does.
THEOREM LinksAreASequence == ListSpec => ImplementsList
<1>1. ListInit => ListInv /\ List!AbstractInit BY ListStarts
<1>2. ListInv /\ [ListNext]_listVars
          => ListInv' /\ [List!AbstractNext]_<<Abstract(list, list.Next), Abstract(list, list.Prev),
                                               list.Size, result>>
    BY ListSteps DEF ListStep
<1> QED BY <1>1, <1>2, PTL DEF ListSpec, ImplementsList, List!AbstractSpec
=============================================================================
