---------------------------- MODULE ReliableStream ----------------------------
(***************************************************************************)
(* The reliable data stream the server lays over UDP (Send_reliable and    *)
(* Receive_ack of netserver.cpp, the locked socket buffer c of net.cpp),   *)
(* for one connection, its client and the datagrams between them.          *)
(*                                                                         *)
(* The stream is position-addressed: a PKT_RELIABLE packet carries an      *)
(* offset and some bytes, a PKT_ACK carries the client's position.  The    *)
(* code never looks into the bytes, so a byte is tagged with its position  *)
(* in the stream: the n-th byte written is the number n, and any byte that *)
(* is misplaced, repeated or skipped shows.                                *)
(*                                                                         *)
(* main_loops, the server's clock, only ever appears in differences, so    *)
(* the two stamps compared with it are kept relative to it:                *)
(*   timer           loops until retransmit_at_loop; 0 when that loop has  *)
(*                   come, NoTimer when retransmit_at_loop = 0             *)
(*   sent_this_loop  last_send_loops = main_loops                          *)
(***************************************************************************)
EXTENDS Integers, Sequences, FiniteSets

CONSTANTS
    Fps,            \* frames per second (option fps)
    MaxPacket,      \* MAX_RELIABLE_DATA_PACKET_SIZE
    AckUnit,        \* the 512 bytes that open the send window by one packet
    BufSize,        \* usable size of the buffer c
    FrameSizes,     \* values of w.len when reliable data is sent; 0: no frame
    WriteSizes,     \* lengths of one write into c
    MaxStream,      \* bound: bytes ever written
    NetCap          \* bound: datagrams in flight in each direction

NoTimer == -1

ASSUME StreamAssumption ==
    /\ Fps \in Nat \ {0}
    /\ MaxPacket \in Nat \ {0}
    /\ AckUnit \in Nat \ {0}
    /\ BufSize \in Nat
    /\ FrameSizes \subseteq Nat
    /\ WriteSizes \subseteq Nat \ {0}
    /\ MaxStream \in Nat
    /\ NetCap \in Nat

\* netserver.h: the bounds of the retransmission timeout, in loops.
MinRetransmit     == Fps \div 8 + 1
MaxRetransmit     == Fps + 1
DefaultRetransmit == Fps \div 2

VARIABLES
    c_buf,              \* c.buf[0 .. c.len-1]
    reliable_offset,    \* stream position of c.buf[0]
    reliable_unsent,    \* stream position after the last byte ever sent
    timer,
    sent_this_loop,
    rtt_retransmit,     \* current retransmission timeout
    acks,               \* send window: acks + 1 packets
    reason,             \* "none" while open, then the reason of Destroy_connection
    written,            \* history: bytes ever written into c
    packets,            \* PKT_RELIABLE datagrams in flight
    ack_msgs,           \* PKT_ACK datagrams in flight
    rcvd                \* the client: stream received so far

serverVars == <<c_buf, reliable_offset, reliable_unsent, timer,
                sent_this_loop, rtt_retransmit, acks, reason>>
vars == <<serverVars, written, packets, ack_msgs, rcvd>>

-----------------------------------------------------------------------------
Lesser(a, b)  == IF a <= b THEN a ELSE b
Greater(a, b) == IF a >= b THEN a ELSE b
\* Integer division rounded up, for b > 0.
CeilDiv(a, b) == (a + b - 1) \div b

Tags(from, to) == [i \in 1 .. (to - from) |-> from + i]

Packet == [off : Nat, data : Seq(Nat)]

Open == reason = "none"

\* Destroy_connection memsets the structure; the datagrams in flight stay.
Destroy(why) ==
    /\ reason' = why
    /\ c_buf' = <<>>
    /\ reliable_offset' = 0
    /\ reliable_unsent' = 0
    /\ timer' = NoTimer
    /\ sent_this_loop' = FALSE
    /\ rtt_retransmit' = 0
    /\ acks' = 0

-----------------------------------------------------------------------------
(* Writing into c.  Packet_printf and Sockbuf_write refuse a write that    *)
(* does not fit a locked buffer.  The callers that set up a connection or  *)
(* answer a request then destroy it; the others (Send_score, Send_war and  *)
(* the like) drop their message, which changes nothing here.               *)

Write(n) ==
    /\ Open
    /\ written + n <= MaxStream
    /\ IF Len(c_buf) + n <= BufSize
       THEN /\ c_buf' = c_buf \o Tags(written, written + n)
            /\ written' = written + n
            /\ UNCHANGED <<reliable_offset, reliable_unsent, timer,
                           sent_this_loop, rtt_retransmit, acks, reason>>
       ELSE /\ Destroy("write_error")
            /\ UNCHANGED written
    /\ UNCHANGED <<packets, ack_msgs, rcvd>>

-----------------------------------------------------------------------------
(* Send_reliable.  w is w.len, the length of the frame the data is          *)
(* piggybacked on, 0 if there is none.                                     *)

MaxTodo(w) ==
    IF w > 0 THEN Lesser(Len(c_buf), MaxPacket - w) ELSE Len(c_buf)

FrameTooBig(w) == w > 0 /\ w >= MaxPacket - 1

\* Not yet time to retransmit and nothing new, or no frame to carry it.
Premature(w) ==
    /\ timer > 0
    /\ \/ MaxTodo(w) <= reliable_unsent - reliable_offset + 1
       \/ w = 0

\* An expired timer halves the window.
Window == IF timer = 0 THEN acks \div 2 ELSE acks

\* How many packets the loop of Send_reliable tries to send.
Burst(w) == Lesser(Window + 1, CeilDiv(MaxTodo(w), MaxPacket))

\* Mutant: rel_off advances by one instead of len.
PacketsOf_WrongOffset(w, k) ==
    {[off  |-> reliable_offset + i,
      data |-> SubSeq(c_buf, i * MaxPacket + 1,
                      Lesser((i + 1) * MaxPacket, MaxTodo(w)))]
        : i \in 0 .. k - 1}

\* The first k packets of the burst.
PacketsOf(w, k) ==
    {[off  |-> reliable_offset + i * MaxPacket,
      data |-> SubSeq(c_buf, i * MaxPacket + 1,
                      Lesser((i + 1) * MaxPacket, MaxTodo(w)))]
        : i \in 0 .. k - 1}

\* Mutant: only data never sent before is worth a packet.
CanSend_NewOnly(w) ==
    /\ reliable_offset + Len(c_buf) > reliable_unsent
    /\ ~sent_this_loop
    /\ ~FrameTooBig(w)
    /\ ~Premature(w)

CanSend(w) ==
    /\ Len(c_buf) > 0
    /\ ~sent_this_loop
    /\ ~FrameTooBig(w)
    /\ ~Premature(w)

\* Send_reliable returns 0 early.  Only an empty buffer records the loop.
SendNothing(w) ==
    /\ ~CanSend(w)
    /\ sent_this_loop' = (sent_this_loop \/ Len(c_buf) = 0)
    /\ UNCHANGED <<c_buf, reliable_offset, reliable_unsent, timer,
                   rtt_retransmit, acks, reason, packets>>

HighWater(sent) == Greater(reliable_unsent, reliable_offset + sent)

\* The kernel takes k packets of the burst (EWOULDBLOCK on the next one
\* closes the window); the network keeps those that are not in lost.
SendPackets(w, k, lost) ==
    LET sent == Lesser(k * MaxPacket, MaxTodo(w))
        rtx  == Lesser(rtt_retransmit, MaxRetransmit)
    IN  /\ CanSend(w)
        /\ acks' = IF k < Burst(w) THEN 0 ELSE Window
        /\ sent_this_loop' = TRUE
        /\ lost \subseteq PacketsOf(w, k)
        /\ packets' = packets \cup (PacketsOf(w, k) \ lost)
        /\ Cardinality(packets') <= NetCap
        /\ IF k = 0
           THEN UNCHANGED <<timer, rtt_retransmit, reliable_unsent>>
           ELSE /\ timer' = rtx
                /\ rtt_retransmit' = IF timer > 0 THEN rtx ELSE 2 * rtx
                /\ reliable_unsent' = HighWater(sent)
        /\ UNCHANGED <<c_buf, reliable_offset, reason>>

\* A socket error on the packet after the first k.
SendError(w, k, lost) ==
    /\ CanSend(w)
    /\ k < Burst(w)
    /\ lost \subseteq PacketsOf(w, k)
    /\ packets' = packets \cup (PacketsOf(w, k) \ lost)
    /\ Cardinality(packets') <= NetCap
    /\ Destroy("flush_error")

\* A call of Send_reliable that may end any way it can.
Send_reliable(w) ==
    \/ SendNothing(w)
    \/ \E k \in 0 .. Burst(w) : \E lost \in SUBSET PacketsOf(w, k) :
           \/ SendPackets(w, k, lost)
           \/ SendError(w, k, lost)

-----------------------------------------------------------------------------
(* The server's loop.  Main_loop advances main_loops.  Send_reliable is      *)
(* called later in the loop by Input (not playing, w = 0) or               *)
(* Send_end_of_frame (playing, w > 0), and between loops by Receive_play   *)
(* and Handle_listening (w = 0); last_send_loops tells them apart.         *)

Ticked == IF timer > 0 THEN timer - 1 ELSE timer

Tick ==
    /\ Open
    /\ timer' = Ticked
    /\ sent_this_loop' = FALSE
    /\ UNCHANGED <<c_buf, reliable_offset, reliable_unsent, rtt_retransmit,
                   acks, reason, written, packets, ack_msgs, rcvd>>

SendCall(w) ==
    /\ Open
    /\ Send_reliable(w)
    /\ UNCHANGED <<written, ack_msgs, rcvd>>

-----------------------------------------------------------------------------
(* Receive_ack.  The round-trip estimator is abstracted: a measurement in  *)
(* range leaves some timeout of at least MIN_RETRANSMIT (values over       *)
(* MAX_RETRANSMIT act as MAX_RETRANSMIT at their only use), and a stamp    *)
(* out of range leaves it alone.                                           *)

RttEstimate == MinRetransmit .. MaxRetransmit

\* Mutants: the memmove starts one byte early; the last byte counts as taken.
Advanced_OneEarly(buf, n) == SubSeq(buf, n, Len(buf))
Advanced_DropsLast(buf, n) ==
    IF n + 1 >= Len(buf) THEN <<>> ELSE SubSeq(buf, n + 1, Len(buf))

\* Sockbuf_advance by n bytes.
Advanced(buf, n) == SubSeq(buf, n + 1, Len(buf))

\* Mutant: an acknowledgement of the whole buffer is refused.
ImpossibleAck_Boundary(diff) == diff >= Len(c_buf)

ImpossibleAck(diff) == diff > Len(c_buf)

AllSentAcked(offset) == offset >= reliable_unsent

Receive_ack(rel) ==
    LET diff == rel - reliable_offset
    IN  /\ Open
        /\ IF ImpossibleAck(diff)
           THEN Destroy("bad_ack")
           ELSE /\ rtt_retransmit' \in RttEstimate \cup {rtt_retransmit}
                /\ UNCHANGED <<reliable_unsent, sent_this_loop, reason>>
                /\ IF diff <= 0
                   THEN UNCHANGED <<c_buf, reliable_offset, timer, acks>>
                   ELSE /\ c_buf' = Advanced(c_buf, diff)
                        /\ reliable_offset' = reliable_offset + diff
                        /\ acks' = IF CeilDiv(diff, AckUnit) > acks
                                   THEN CeilDiv(diff, AckUnit)
                                   ELSE acks + 1
                        /\ timer' = IF AllSentAcked(rel)
                                    THEN NoTimer ELSE timer

ReceiveAck(rel, keep) ==
    /\ rel \in ack_msgs
    /\ Receive_ack(rel)
    /\ ack_msgs' = IF keep THEN ack_msgs ELSE ack_msgs \ {rel}
    /\ UNCHANGED <<written, packets, rcvd>>

-----------------------------------------------------------------------------
(* The client, external to this repository, as the comment at the head of  *)
(* netserver.cpp describes it: new data without a gap advances its         *)
(* position; every reliable packet is answered with the position reached.  *)
(* The answer may be lost (kept = FALSE).                                  *)

NewData(p) ==
    IF p.off <= Len(rcvd) /\ p.off + Len(p.data) > Len(rcvd)
    THEN SubSeq(p.data, Len(rcvd) - p.off + 1, Len(p.data))
    ELSE <<>>

ClientReceive(p, keep, answered) ==
    /\ p \in packets
    /\ rcvd' = rcvd \o NewData(p)
    /\ packets' = IF keep THEN packets ELSE packets \ {p}
    /\ ack_msgs' = IF answered THEN ack_msgs \cup {Len(rcvd')} ELSE ack_msgs
    /\ Cardinality(ack_msgs') <= NetCap
    /\ UNCHANGED <<serverVars, written>>

\* Any other cause of Destroy_connection: a timeout, PKT_QUIT, a bad packet.
ConnectionEnds ==
    /\ Open
    /\ Destroy("ended")
    /\ UNCHANGED <<written, packets, ack_msgs, rcvd>>

-----------------------------------------------------------------------------
Init ==
    /\ c_buf = <<>>
    /\ reliable_offset = 0
    /\ reliable_unsent = 0
    /\ timer = NoTimer
    /\ sent_this_loop = FALSE
    /\ rtt_retransmit = DefaultRetransmit
    /\ acks = 0
    /\ reason = "none"
    /\ written = 0
    /\ packets = {}
    /\ ack_msgs = {}
    /\ rcvd = <<>>

Next ==
    \/ \E n \in WriteSizes : Write(n)
    \/ Tick
    \/ \E w \in FrameSizes : SendCall(w)
    \/ \E rel \in ack_msgs, keep \in BOOLEAN : ReceiveAck(rel, keep)
    \/ \E p \in packets, keep, answered \in BOOLEAN :
           ClientReceive(p, keep, answered)
    \/ ConnectionEnds

Spec == Init /\ [][Next]_vars

-----------------------------------------------------------------------------
(* Fairness.  The timer signal keeps coming; the kernel and the network    *)
(* (outside this repository) do not refuse or lose for ever what is sent   *)
(* again and again, and a frame that leaves room comes again and again.    *)

\* A call of Send_reliable that sends its whole burst, none of which is lost.
CleanSend ==
    \E w \in FrameSizes :
        /\ Open
        /\ SendPackets(w, Burst(w), {})
        /\ UNCHANGED <<written, ack_msgs, rcvd>>

CleanReceive == \E p \in packets : ClientReceive(p, FALSE, TRUE)

UsefulReceive == CleanReceive /\ rcvd' # rcvd

CleanAck == \E rel \in ack_msgs : ReceiveAck(rel, FALSE)

UsefulAck == CleanAck /\ reliable_offset' > reliable_offset

Fairness ==
    /\ WF_vars(Tick)
    /\ SF_vars(CleanSend)
    /\ SF_vars(CleanReceive)
    /\ SF_vars(UsefulReceive)
    /\ SF_vars(CleanAck)
    /\ SF_vars(UsefulAck)

FairSpec == Spec /\ Fairness

-----------------------------------------------------------------------------
(* Properties.                                                             *)

\* Types of the variables, and the bounds of the positions.
TypeOK ==
    /\ c_buf \in Seq(Nat)
    /\ reliable_offset \in Nat
    /\ reliable_unsent \in Nat
    /\ timer \in Nat \cup {NoTimer}
    /\ sent_this_loop \in BOOLEAN
    /\ rtt_retransmit \in Nat
    /\ acks \in Nat
    /\ reason \in {"none", "write_error", "flush_error", "bad_ack", "ended"}
    /\ written \in Nat
    /\ packets \subseteq Packet
    /\ ack_msgs \subseteq Nat
    /\ rcvd \in Seq(Nat)

\* What the client has is the stream as it was written, from its beginning,
\* without a gap, a repetition or a byte out of place: Send_reliable and
\* Receive_ack turn the lossy, reordering, duplicating datagrams into a stream.
ReceivedIsPrefix ==
    /\ Len(rcvd) <= written
    /\ \A i \in 1 .. Len(rcvd) : rcvd[i] = i

\* Receive_ack never discards from c a byte the client does not have yet, and
\* c holds all the bytes after reliable_offset: every byte is in c or received.
NothingLost ==
    Open => /\ reliable_offset <= Len(rcvd)
            /\ c_buf = Tags(reliable_offset, written)

\* A client that follows the protocol is never thrown out for a "bad_ack",
\* however late, repeated or reordered its acknowledgements arrive.
HonestClientKept == reason # "bad_ack"

\* The position after the last byte sent lies between the client's position and
\* the end of what was written, so "offset >= unsent" in Receive_ack says that
\* all that was sent has been received.
UnsentBounds ==
    Open => /\ Len(rcvd) <= reliable_unsent
            /\ reliable_unsent <= written

\* While sent data is unacknowledged the retransmission timer runs, and it
\* expires within MAX_RETRANSMIT loops: a loss is always noticed.
LossIsNoticed ==
    Open /\ reliable_offset < reliable_unsent
        => timer \in 0 .. MaxRetransmit

\* What is in flight is true: a datagram holds the bytes its offset says, none
\* beyond the last byte sent, and no acknowledgement exceeds the client's
\* position.  Late and repeated datagrams are harmless because of this.
InFlightIsTrue ==
    /\ \A p \in packets :
           /\ p.data = Tags(p.off, p.off + Len(p.data))
           /\ p.off + Len(p.data) <= written
           /\ Open => p.off + Len(p.data) <= reliable_unsent
    /\ \A rel \in ack_msgs : rel <= Len(rcvd)

\* Send_reliable and Receive_ack over any datagrams: the stream in order, no byte gone
\* before it arrived, every loss noticed.
StreamSafe ==
    TypeOK /\ ReceivedIsPrefix /\ NothingLost /\ UnsentBounds /\ LossIsNoticed /\ InFlightIsTrue

\* Every byte written is in the end acknowledged, or the connection ends.
EventuallyAcked ==
    \A n \in 1 .. MaxStream :
        (Open /\ written >= n) ~> (~Open \/ reliable_offset >= n)

\* The stream implements the abstract channel.
Channel == INSTANCE ReliableChannel WITH
    sent <- Tags(0, written), delivered <- rcvd, open <- Open

\* Every step of server, network and client is a step of the channel or
\* invisible in it: nothing but Write puts bytes, only reception delivers.
ImplementsChannel == Channel!SafeSpec

\* Under the fairness above the stream also keeps the channel's promise to
\* deliver: retransmission makes up for every loss.
ImplementsFairChannel == Channel!FairSpec

\* What is written arrives, and its arrival is acknowledged, unless the connection ends.
StreamIsLive == EventuallyAcked /\ ImplementsFairChannel
=============================================================================
