------------------------------- MODULE Connection -------------------------------
(***************************************************************************)
(* The life of one client connection of netserver.cpp, from the listening  *)
(* socket to active play, on top of its reliable stream:                   *)
(*                                                                         *)
(*   LISTENING -> DRAIN -> SETUP -> DRAIN -> LOGIN -> READY -> PLAYING     *)
(*                                                                         *)
(* The server is one thread.  phase says where inside Input it is, so that *)
(* no packet is handled in the middle of it except where Handle_setup      *)
(* polls the socket itself; the client and the network move at any time.   *)
(* When a timeout strikes is left open: a connection may end at any        *)
(* moment.                                                                 *)
(***************************************************************************)
EXTENDS ReliableStream

CONSTANTS
    VerifyLen,      \* length of the PKT_VERIFY reply and the magic
    HeaderLen,      \* length of the setup header
    MapLen,         \* length of the map data
    SetupWindow,    \* the 4096 bytes Handle_setup keeps in c
    ReplyLen,       \* length of the reply to PKT_PLAY
    InfoLen,        \* length of the player information sent after it
    InfoSizes       \* lengths of the messages to a client that is playing

ASSUME ConnectionAssumption ==
    /\ {VerifyLen, HeaderLen, MapLen, ReplyLen, SetupWindow} \subseteq Nat \ {0}
    /\ InfoLen \in Nat
    /\ VerifyLen + HeaderLen <= SetupWindow    \* a few bytes and two short names
    /\ SetupWindow + ReplyLen <= BufSize
    /\ 0 \in FrameSizes
    /\ {VerifyLen, ReplyLen, ReplyLen + InfoLen} \cup InfoSizes \cup (1 .. SetupWindow)
          \subseteq WriteSizes

VARIABLES
    state,          \* connection state
    drain_state,    \* the state that follows DRAIN or READY
    setup,          \* how much of the setup has been written into c
    phase,          \* "idle", or where Main_loop is in handling this connection
    reply_start,    \* history: stream position of the PKT_PLAY reply, or NoReply
    ctl             \* PKT_VERIFY and PKT_PLAY datagrams in flight

lifeVars == <<state, drain_state, setup, phase, reply_start>>
connVars == <<vars, lifeVars, ctl>>

NoReply == -1

\* setup is an offset into the Setup structure: 0 before the header is
\* written, MapStart after it, SetupSize when all the map data is written.
MapStart  == 1
SetupSize == MapStart + MapLen

\* Stream position at which the client has everything it needs to play.
SetupEnd == VerifyLen + HeaderLen + MapLen

-----------------------------------------------------------------------------
(* Conn_set_state and Destroy_connection. *)

Conn_set_state(s, d) == state' = s /\ drain_state' = d

Destroyed == Conn_set_state("FREE", "FREE") /\ phase' = "idle"

\* A stream step either leaves the connection open, and then the life cycle
\* does as given, or has destroyed it.
Unless_destroyed(A) ==
    IF reason' # reason THEN Destroyed /\ UNCHANGED <<setup, reply_start>> ELSE A

-----------------------------------------------------------------------------
(* Handle_listening: a correct PKT_VERIFY is answered at once, and if the  *)
(* answer cannot be sent the connection is given up.                       *)

Handle_listening(keep) ==
    /\ phase = "idle"
    /\ state = "LISTENING"
    /\ "VERIFY" \in ctl
    /\ ctl' = IF keep THEN ctl ELSE ctl \ {"VERIFY"}
    /\ Write(VerifyLen)
    /\ phase' = "confirm"
    /\ UNCHANGED <<state, drain_state, setup, reply_start>>

Confirm ==
    /\ phase = "confirm"
    /\ \/ /\ SendCall(0)
          /\ reason' = reason => reliable_unsent' > reliable_unsent
          /\ Unless_destroyed(/\ Conn_set_state("DRAIN", "SETUP")
                              /\ phase' = "idle"
                              /\ UNCHANGED <<setup, reply_start>>)
       \/ /\ ConnectionEnds
          /\ Destroyed
          /\ UNCHANGED <<setup, reply_start>>
    /\ UNCHANGED ctl

-----------------------------------------------------------------------------
(* One round of Main_loop for this connection: main_loops advances, Input  *)
(* runs Handle_setup if it is its turn and then Send_reliable; a playing   *)
(* connection gets a frame instead.  With a frameDivisor over 1 Input is   *)
(* left out of some loops (real = FALSE).                                  *)

Main_loop(real) ==
    /\ phase = "idle"
    /\ Tick
    /\ phase' = CASE real /\ state = "SETUP" -> "setup"
                  [] real /\ state \in {"DRAIN", "LOGIN", "READY"} -> "send"
                  [] state = "PLAYING" -> "send"
                  [] OTHER -> "idle"
    /\ UNCHANGED <<state, drain_state, setup, reply_start, ctl>>

\* Handle_setup polls the socket when there is unacknowledged data.
CanPoll == phase = "setup" /\ setup # 0 /\ Len(c_buf) > 0

\* What Handle_setup writes when c holds len bytes.
HeaderToWrite == IF setup = 0 THEN HeaderLen ELSE 0
\* Mutant: the window counts what is written, not what c holds.
MapToWrite_NoFlowControl ==
    Lesser(SetupWindow - HeaderToWrite, SetupSize - Greater(setup, MapStart))

MapToWrite ==
    Greater(0, Lesser(SetupWindow - (Len(c_buf) + HeaderToWrite),
                      SetupSize - Greater(setup, MapStart)))

Handle_setup ==
    LET n == HeaderToWrite + MapToWrite
    IN  /\ phase \in {"setup", "polled"}
        /\ IF n > 0 THEN Write(n) ELSE UNCHANGED vars
        /\ Unless_destroyed(
              /\ setup' = Greater(setup, MapStart) + MapToWrite
              /\ phase' = "send"
              /\ IF setup' >= SetupSize
                 THEN Conn_set_state("DRAIN", "LOGIN")
                 ELSE UNCHANGED <<state, drain_state>>
              /\ UNCHANGED reply_start)
        /\ UNCHANGED ctl

\* Send_reliable of Input, or of Send_end_of_frame with a frame of some size.
FrameOf(w) == IF state = "PLAYING" THEN w > 0 ELSE w = 0

InputSend ==
    /\ phase = "send"
    /\ \/ /\ Len(c_buf) > 0
          /\ \E w \in FrameSizes : FrameOf(w) /\ SendCall(w)
          /\ Unless_destroyed(phase' = "idle" /\
                              UNCHANGED <<state, drain_state, setup, reply_start>>)
       \/ /\ Len(c_buf) = 0 \/ state = "PLAYING"
          /\ phase' = "idle"
          /\ UNCHANGED <<vars, state, drain_state, setup, reply_start>>
    /\ UNCHANGED ctl

-----------------------------------------------------------------------------
(* Receive_ack with its effects on the state.                              *)

\* The first byte of c belongs to the reply to PKT_PLAY.
HeadIsReply == reply_start # NoReply
                 /\ reliable_offset' \in reply_start .. reply_start + ReplyLen - 1

\* c.buf[0] is one of the four values that make up that reply.  Map or player
\* data may hold the same values.
LooksLikeReply == IF HeadIsReply THEN {TRUE} ELSE BOOLEAN

\* Mutants: DRAIN always leads to LOGIN; DRAIN waits for another event.
AckedState_OneDrain(advanced, looks) ==
    CASE state = "DRAIN" /\ advanced /\ AllSentAcked(reliable_offset') -> "LOGIN"
      [] state = "READY" /\ advanced /\ (Len(c_buf') = 0 \/ ~looks) ->
             drain_state
      [] OTHER -> state
AckedState_DrainNever(advanced, looks) ==
    IF state = "READY" /\ advanced /\ (Len(c_buf') = 0 \/ ~looks)
    THEN drain_state ELSE state

AckedState(advanced, looks) ==
    CASE state = "DRAIN" /\ advanced /\ AllSentAcked(reliable_offset') ->
             drain_state
      [] state = "READY" /\ advanced /\ (Len(c_buf') = 0 \/ ~looks) ->
             drain_state
      [] OTHER -> state

HandleAck(rel, keep) ==
    /\ phase = "idle" \/ CanPoll
    /\ state \notin {"FREE", "LISTENING"}
    /\ ReceiveAck(rel, keep)
    /\ Unless_destroyed(
          /\ \E looks \in LooksLikeReply :
                 state' = AckedState(rel > reliable_offset, looks)
          /\ drain_state' = IF state' = state THEN drain_state ELSE state'
          /\ phase' = IF phase = "setup" THEN "polled" ELSE phase
          /\ UNCHANGED <<setup, reply_start>>)
    /\ UNCHANGED ctl

-----------------------------------------------------------------------------
(* The other packets.  In each state a table says what is done with them.  *)

\* PKT_VERIFY is discarded once verified, and so is PKT_PLAY while draining,
\* during the setup and in READY.
Discard(type, keep) ==
    /\ type \in ctl
    /\ \/ /\ phase = "idle"
          /\ \/ type = "VERIFY" /\ state \notin {"FREE", "LISTENING"}
             \/ type = "PLAY" /\ state \in {"DRAIN", "SETUP", "READY"}
          /\ UNCHANGED phase
       \/ /\ CanPoll
          /\ phase' = "polled"
    /\ ctl' = IF keep THEN ctl ELSE ctl \ {type}
    /\ UNCHANGED <<vars, state, drain_state, setup, reply_start>>

\* Receive_play in LOGIN: Handle_login takes the player on, queues the reply
\* and the information about the players (dropped where c is full), and the
\* connection is READY.
LoginLen ==
    IF Len(c_buf) + ReplyLen + InfoLen <= BufSize THEN ReplyLen + InfoLen
                                                  ELSE ReplyLen

Handle_login(keep) ==
    /\ phase = "idle"
    /\ state = "LOGIN"
    /\ "PLAY" \in ctl
    /\ ctl' = IF keep THEN ctl ELSE ctl \ {"PLAY"}
    /\ Write(LoginLen)
    /\ Unless_destroyed(/\ Conn_set_state("READY", "PLAYING")
                        /\ reply_start' = written
                        /\ UNCHANGED <<setup, phase>>)

\* Receive_play in PLAYING sends the reliable data again.
Receive_play_again(keep) ==
    /\ phase = "idle"
    /\ state = "PLAYING"
    /\ "PLAY" \in ctl
    /\ ctl' = IF keep THEN ctl ELSE ctl \ {"PLAY"}
    /\ SendCall(0)
    /\ Unless_destroyed(UNCHANGED lifeVars)

\* Scores, messages and the answers to PKT_TALK for a client that is READY or
\* PLAYING.  Only the answers insist on being written (see Write).
SendInfo(n) ==
    /\ phase = "idle"
    /\ state \in {"READY", "PLAYING"}
    /\ Write(n)
    /\ Unless_destroyed(UNCHANGED lifeVars)
    /\ UNCHANGED ctl

\* A timeout in Input, PKT_QUIT, a failed login, an error of the socket.
End ==
    /\ phase = "idle"
    /\ ConnectionEnds
    /\ Destroyed
    /\ UNCHANGED <<setup, reply_start, ctl>>

-----------------------------------------------------------------------------
(* The client (external) repeats PKT_VERIFY until it is answered, PKT_PLAY *)
(* once it has the whole setup until that is answered, and acknowledges.   *)

WantsVerify == Len(rcvd) < VerifyLen
WantsPlay   == Len(rcvd) >= SetupEnd /\ Len(rcvd) < SetupEnd + ReplyLen

ClientSends(type) ==
    /\ \/ type = "VERIFY" /\ WantsVerify
       \/ type = "PLAY" /\ WantsPlay
    /\ ctl' = ctl \cup {type}
    /\ UNCHANGED <<vars, lifeVars>>

ClientReceives(p, keep, answered) ==
    /\ ClientReceive(p, keep, answered)
    /\ UNCHANGED <<lifeVars, ctl>>

-----------------------------------------------------------------------------
\* Setup_connection has just made the connection.
ConnInit ==
    /\ Init
    /\ state = "LISTENING"
    /\ drain_state = "FREE"
    /\ setup = 0
    /\ phase = "idle"
    /\ reply_start = NoReply
    /\ ctl = {}

ConnNext ==
    \/ \E keep \in BOOLEAN :
           \/ Handle_listening(keep)
           \/ Handle_login(keep)
           \/ Receive_play_again(keep)
           \/ \E type \in ctl : Discard(type, keep)
           \/ \E rel \in ack_msgs : HandleAck(rel, keep)
           \/ \E p \in packets, answered \in BOOLEAN :
                  ClientReceives(p, keep, answered)
    \/ Confirm
    \/ \E real \in BOOLEAN : Main_loop(real)
    \/ Handle_setup
    \/ InputSend
    \/ \E n \in InfoSizes : SendInfo(n)
    \/ \E type \in {"VERIFY", "PLAY"} : ClientSends(type)
    \/ End

ConnSpec == ConnInit /\ [][ConnNext]_connVars

\* The signal keeps Main_loop coming, and a step begun is finished.  The client
\* repeats what is not answered; the network and the kernel let through in the
\* end what is repeated again and again.
ConnFairness ==
    /\ WF_connVars(Main_loop(TRUE))
    /\ WF_connVars(Handle_setup)
    /\ WF_connVars(Confirm)
    /\ WF_connVars(InputSend)
    /\ WF_connVars(\E type \in {"VERIFY", "PLAY"} : ClientSends(type))
    /\ SF_connVars(phase = "send" /\ CleanSend /\ InputSend)
    /\ SF_connVars(\E p \in packets :
                       ClientReceives(p, FALSE, TRUE) /\ rcvd' # rcvd)
    /\ SF_connVars(\E p \in packets : ClientReceives(p, FALSE, TRUE))
    /\ SF_connVars(\E rel \in ack_msgs : HandleAck(rel, FALSE))
    /\ SF_connVars(Handle_listening(FALSE))
    /\ SF_connVars(Handle_login(FALSE))

FairConnSpec == ConnSpec /\ ConnFairness

-----------------------------------------------------------------------------
(* Properties.                                                             *)

\* Types of the life-cycle variables.
ConnTypeOK ==
    /\ state \in {"LISTENING", "DRAIN", "SETUP", "LOGIN", "READY", "PLAYING",
                  "FREE"}
    /\ drain_state \in {"FREE", "SETUP", "LOGIN", "READY", "PLAYING"}
    /\ setup \in 0 .. SetupSize
    /\ phase \in {"idle", "confirm", "setup", "polled", "send"}
    /\ reply_start \in Nat \cup {NoReply}
    /\ ctl \subseteq {"VERIFY", "PLAY"}
    /\ Open <=> state # "FREE"
    /\ ~Open => phase = "idle"

\* Handle_setup never fills c beyond what it holds, however late the client
\* acknowledges: a connection can only be lost for a full buffer once the
\* player has been taken on.
NoOverflowBeforePlay == reason = "write_error" => reply_start # NoReply

\* The whole setup is in the stream, ahead of anything that concerns the game,
\* when the connection reaches LOGIN, although DRAIN may be left with part of
\* it unsent.
SetupThenReply ==
    /\ state \in {"LOGIN", "READY", "PLAYING"} => written >= SetupEnd
    /\ reply_start # NoReply => reply_start >= SetupEnd

\* A login, with whatever timing of its packets: the setup fits, is whole and comes first.
ConnSafe == ConnTypeOK /\ NoOverflowBeforePlay /\ SetupThenReply

\* The state of a connection in the order of the protocol.
Stage ==
    CASE state = "LISTENING" -> 0
      [] state = "DRAIN"     -> IF drain_state = "SETUP" THEN 1 ELSE 3
      [] state = "SETUP"     -> 2
      [] state = "LOGIN"     -> 4
      [] state = "READY"     -> 5
      [] state = "PLAYING"   -> 6
      [] state = "FREE"      -> 7

\* Late, repeated and reordered packets neither skip a stage nor take the
\* connection back to an earlier one: the map is sent once, and Handle_login
\* takes on one player for any number of PKT_PLAY.
StagesInOrder == [][Stage' \in {Stage, Stage + 1, 7}]_connVars

\* A client that asks for it gets to play, or the connection ends: no state
\* waits for an acknowledgement that cannot come.
ReachesPlaying == state = "LISTENING" ~> state \in {"PLAYING", "FREE"}

\* Head of netserver.cpp: the drain states do nothing "other then waiting
\* until the buffer is empty".  Receive_ack leaves DRAIN when all that was SENT
\* is acknowledged.
DrainedIsEmpty ==
    [][state = "DRAIN" /\ state' \in {"SETUP", "LOGIN"} => c_buf' = <<>>]_connVars

\* Head of netserver.cpp: a client in READY "should not get frame updates yet
\* until it has acknowledged its last reliable data".  Receive_ack looks at
\* the first byte of c only, which may still be map data.
ReplyAckedBeforePlaying ==
    state = "PLAYING" => reliable_offset >= reply_start + ReplyLen
=============================================================================
