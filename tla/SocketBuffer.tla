----------------------------- MODULE SocketBuffer ------------------------------
(***************************************************************************)
(* net.cpp and the Send functions of netserver.cpp: packets are formatted  *)
(* into buffers of fixed size that may be full.  A frame is built in       *)
(* conn->w and must end with PKT_END however much did not fit; reliable    *)
(* data is written to conn->c, leaves it as the client acknowledges, and   *)
(* the client reads it as one stream, so that every packet must be there   *)
(* as a whole.                                                             *)
(*                                                                         *)
(* A byte is a number: the code of a packet, a part of a number, or a      *)
(* character, 0 ending a string.  ReliableStream shows that the client     *)
(* gets the bytes of conn->c once and in order; here they just get there.  *)
(***************************************************************************)
EXTENDS Integers, Sequences, SequencesExt

CONSTANTS
    SizeW,          \* SERVER_SEND_SIZE
    SizeC,          \* MAX_SOCKBUF_SIZE
    MaxStr,         \* MSG_LEN, for both kinds of strings
    MaxPackets,     \* bound: packets written to conn->c
    MaxMessage, MaxName, \* bounds: characters in a message, and in either string of a player
    MaxDebris       \* bound: particles in one packet

\* The start of a frame fits.
ASSUME BufferAssumption ==
    /\ SizeW \in Nat /\ SizeW > 17
    /\ SizeC \in Nat
    /\ MaxStr \in Nat \ {0}
    /\ MaxMessage \in Nat /\ MaxName \in Nat

VARIABLES
    connW,  \* conn->w. buf: its bytes, open: between start and end of a frame,
            \* frame: the packets written to it
    connC,  \* conn->c. buf: bytes not yet acknowledged, written: packets written,
            \* cut: a string was cut
    reader  \* the client. buf: bytes not yet read, read: packets read, lost: no sense

bufferVars == <<connW, connC, reader>>

SOCKBUF_WRITE_SPARE == 8

-----------------------------------------------------------------------------
(* Formats.  A field is a number of some width or a string.                *)

Num(k)  == [kind |-> "number", width |-> k]
Str(n)  == [kind |-> "string", length |-> n]
AnyStr  == Str(0)

\* The codes in packet.h, and what follows each: c is 1, h is 2 and l is 4 bytes.
Code == [END |-> 4, LEAVE |-> 5, MESSAGE |-> 6, PLAYER |-> 7, SHIP |-> 8, START |-> 9,
         DEBRIS |-> 10, FASTSHOT |-> 11, FASTRADAR |-> 12, SELF |-> 13,
         MODIFIERS |-> 14]

Fields(p) ==
    CASE p.type = "START"   -> <<Num(4), Num(4)>>
      [] p.type = "END"     -> <<Num(4)>>
      [] p.type = "SHIP"    -> <<Num(2), Num(1)>>
      [] p.type = "SELF"    -> <<Num(2)>>
      [] p.type = "MODIFIERS" -> <<Str(0)>>
      [] p.type = "LEAVE"   -> <<Num(2)>>
      [] p.type = "MESSAGE" -> <<Str(p.str)>>
      [] p.type = "PLAYER"  -> <<Num(2), Str(p.str)>>

\* A number has a zero in it: all but the last byte of small ones.
NumBytes(k) == [i \in 1..k |-> IF i = k THEN 1 ELSE 0]
StrBytes(n) == [i \in 1..(n + 1) |-> IF i = n + 1 THEN 0 ELSE 120]

-----------------------------------------------------------------------------
(* Packet_printf.                                                          *)

Smaller(a, b) == IF a <= b THEN a ELSE b

\* One field after the bytes b, none beyond end.  A string that meets the end is cut;
\* only one that begins beyond it is a failure.
Printed(b, f, end) ==
    LET stop == IF Len(b) + MaxStr >= end THEN end ELSE Len(b) + MaxStr
        room == stop - Len(b)
    IN  IF f.kind = "number"
        THEN [buf |-> b \o NumBytes(f.width), fails |-> Len(b) + f.width >= end, cut |-> FALSE]
        ELSE [buf |-> b \o SubSeq(StrBytes(f.length), 1, Smaller(f.length + 1, room)),
              fails |-> Len(b) > stop, cut |-> f.length + 1 > room]

\* Nothing counts unless all fields went well.  The failure is 0 for conn->w, -1 for conn->c.
Packet_printf(b, size, last, fields) ==
    LET end == IF last THEN size ELSE size - SOCKBUF_WRITE_SPARE
        Add(r, f) == IF r.fails THEN r
                     ELSE LET q == Printed(r.buf, f, end)
                          IN  [q EXCEPT !.cut = r.cut \/ q.cut]
        all == FoldLeft(Add, [buf |-> b, fails |-> FALSE, cut |-> FALSE], fields)
    IN  IF all.fails THEN [buf |-> b, count |-> 0, cut |-> FALSE]
        ELSE [buf |-> all.buf, count |-> Len(all.buf) - Len(b), cut |-> all.cut]

\* The code is the first field, a number of one byte.
Put(b, size, last, p) ==
    LET r == Packet_printf(b, size, last, <<Num(1)>> \o Fields(p))
    IN  IF r.count = 0 THEN r ELSE [r EXCEPT !.buf[Len(b) + 1] = Code[p.type]]

-----------------------------------------------------------------------------
(* Packet_scanf and the packets a reader gets out of bytes.                *)

\* Whole: the field is there.  If not, more bytes may come, unless it fails: a string as
\* long as the room for it.
Scanned(b, f) ==
    IF f.kind = "number" THEN [whole |-> Len(b) >= f.width, fails |-> FALSE, used |-> f.width, length |-> 0]
    ELSE LET ends == {i \in 1..Smaller(Len(b), MaxStr) : b[i] = 0}
             n    == CHOOSE i \in ends : \A j \in ends : i <= j
         IN  IF ends = {} THEN [whole |-> FALSE, fails |-> Len(b) >= MaxStr, used |-> 0, length |-> 0]
             ELSE [whole |-> TRUE, fails |-> FALSE, used |-> n, length |-> n - 1]

Packet_scanf(b, fields) ==
    LET Get(r, f) == IF ~r.whole THEN r
                     ELSE LET q == Scanned(SubSeq(b, r.used + 1, Len(b)), f)
                          IN  [whole |-> q.whole, fails |-> q.fails, used |-> r.used + q.used,
                               lengths |-> IF f.kind = "string" THEN Append(r.lengths, q.length)
                                           ELSE r.lengths]
    IN  FoldLeft(Get, [whole |-> TRUE, fails |-> FALSE, used |-> 0, lengths |-> <<>>], fields)

Known(t) == {p \in DOMAIN Code : Code[p] = t}

\* The shape of a packet by its code; the lengths of its strings come with them.
ShapeOf(t) == CASE t = "MESSAGE" -> <<Num(1), AnyStr>>
                [] t = "PLAYER"  -> <<Num(1), Num(2), AnyStr, AnyStr>>
                [] OTHER         -> <<Num(1)>> \o Fields([type |-> t])

\* Packets with a count carry so many items of two bytes, or three on the radar.
Width(t)   == IF t = "FASTRADAR" THEN 3 ELSE 2
Header(t)  == IF t = "FASTSHOT" THEN 3 ELSE 2
Counted    == {"DEBRIS", "FASTSHOT", "FASTRADAR"}

\* First packet of b: [whole, fails, used, packet].
FirstOf(b) ==
    LET t == CHOOSE p \in Known(b[1]) : TRUE
        s == Packet_scanf(b, ShapeOf(t))
        n == IF Len(b) >= Header(t) THEN b[Header(t)] ELSE 0
    IN  IF t \in Counted
        THEN [whole |-> Len(b) >= Header(t) /\ Len(b) >= Header(t) + n * Width(t), fails |-> FALSE,
              used |-> Header(t) + n * Width(t), packet |-> [type |-> t, num |-> n]]
        ELSE [whole |-> s.whole, fails |-> s.fails, used |-> s.used,
              packet |-> CASE t = "MESSAGE" /\ s.whole -> [type |-> t, str |-> s.lengths[1]]
                           [] t = "PLAYER" /\ s.whole  -> [type |-> t, str |-> s.lengths[1],
                                                           ext |-> s.lengths[2]]
                           [] OTHER -> [type |-> t]]

-----------------------------------------------------------------------------
(* A frame.                                                                *)

\* Mutant: items are packed up to the end of the buffer.
Fitting_NoSpare(b, t, n) ==
    LET avail == SizeW - Len(b) - Header(t)
    IN  IF n * Width(t) < avail THEN n
        ELSE IF avail > Width(t) THEN (avail - (Width(t) - 1)) \div Width(t) ELSE -1

\* How many of n items fit, -1 if the packet is left out.
Fitting(b, t, n) ==
    LET avail == SizeW - Len(b) - SOCKBUF_WRITE_SPARE - (IF t = "DEBRIS" THEN 2 ELSE 3)
    IN  IF n * Width(t) < avail THEN n
        ELSE IF avail > Width(t) THEN (avail - (Width(t) - 1)) \div Width(t) ELSE -1

Send_start_of_frame ==
    /\ ~connW.open
    /\ LET p == [type |-> "START"]
       IN  connW' = [buf |-> Put(<<>>, SizeW, FALSE, p).buf, open |-> TRUE, frame |-> <<p>>]
    /\ UNCHANGED <<connC, reader>>

\* Send_self and, if it fits, Send_modifiers; Frame_status sends it first.
Send_self ==
    /\ connW.open /\ Len(connW.frame) = 1
    /\ LET r == Put(connW.buf, SizeW, FALSE, [type |-> "SELF"])
           m == Put(r.buf, SizeW, FALSE, [type |-> "MODIFIERS"])
       IN  connW' = IF r.count = 0 THEN connW
                ELSE [connW EXCEPT !.buf = m.buf,
                               !.frame = @ \o <<[type |-> "SELF"]>>
                                           \o (IF m.count = 0 THEN <<>> ELSE <<[type |-> "MODIFIERS"]>>)]
    /\ UNCHANGED <<connC, reader>>

\* Send_ship and all others of a few numbers: what does not fit is left out.
Send_ship ==
    /\ connW.open /\ Len(connW.frame) > 1
    /\ LET p == [type |-> "SHIP"]
           r == Put(connW.buf, SizeW, FALSE, p)
       IN  connW' = [connW EXCEPT !.buf = r.buf, !.frame = IF r.count = 0 THEN @ ELSE Append(@, p)]
    /\ UNCHANGED <<connC, reader>>

\* Send_debris, Send_fastshot and Send_fastradar write to the buffer themselves.
Send_counted(t, n) ==
    /\ connW.open /\ Len(connW.frame) > 1
    /\ LET m    == Fitting(connW.buf, t, n)
           head == IF Header(t) = 3 THEN <<Code[t], 1, m>> ELSE <<Code[t], m>>
       IN  connW' = IF m < 0 THEN connW
                ELSE [connW EXCEPT !.buf = @ \o head \o [i \in 1..(m * Width(t)) |-> 1],
                                   !.frame = Append(@, [type |-> t, num |-> m])]
    /\ UNCHANGED <<connC, reader>>

\* If PKT_END did not fit the frame would be dropped.
Send_end_of_frame ==
    /\ connW.open /\ Len(connW.frame) > 1
    /\ LET p == [type |-> "END"]
           r == Put(connW.buf, SizeW, TRUE, p)
       IN  connW' = [buf |-> IF r.count = 0 THEN <<>> ELSE r.buf, open |-> FALSE,
                     frame |-> Append(connW.frame, p)]
    /\ UNCHANGED <<connC, reader>>

FrameNext ==
    \/ Send_start_of_frame \/ Send_self \/ Send_ship \/ Send_end_of_frame
    \/ \E t \in Counted, n \in 1..MaxDebris : Send_counted(t, n)

-----------------------------------------------------------------------------
(* The reliable stream.                                                    *)

Kept(r, p) ==
    connC' = [buf |-> r.buf, cut |-> connC.cut \/ r.cut,
              written |-> IF r.count = 0 THEN connC.written ELSE Append(connC.written, p)]

\* Send_leave, Send_message and the like: the callers ignore what does not fit.
Send(p) ==
    /\ Len(connC.written) < MaxPackets
    /\ Kept(Put(connC.buf, SizeC, FALSE, p), p)
    /\ UNCHANGED <<connW, reader>>

\* In two parts, of which the first is taken back if the second does not fit.
Send_player(p) ==
    /\ Len(connC.written) < MaxPackets
    /\ LET r == Put(connC.buf, SizeC, FALSE, p)
           x == Packet_printf(r.buf, SizeC, FALSE, <<Str(p.ext)>>)
       IN  IF r.count = 0 THEN Kept(r, p)
           ELSE Kept([buf |-> IF x.count = 0 THEN connC.buf ELSE x.buf, count |-> x.count,
                      cut |-> x.count > 0 /\ (r.cut \/ x.cut)], p)
    /\ UNCHANGED <<connW, reader>>

\* Bytes arrive and are acknowledged.
Deliver(k) ==
    /\ reader' = [reader EXCEPT !.buf = @ \o SubSeq(connC.buf, 1, k)]
    /\ connC' = [connC EXCEPT !.buf = SubSeq(@, k + 1, Len(@))]
    /\ UNCHANGED connW

\* The client takes the next packet when it is whole.
Read ==
    /\ reader.buf # <<>> /\ ~reader.lost
    /\ IF Known(reader.buf[1]) = {} THEN reader' = [reader EXCEPT !.lost = TRUE]
       ELSE LET f == FirstOf(reader.buf)
            IN  \/ /\ f.fails
                   /\ reader' = [reader EXCEPT !.lost = TRUE]
                \/ /\ f.whole
                   /\ reader' = [reader EXCEPT !.buf = SubSeq(@, f.used + 1, Len(@)),
                                               !.read = Append(@, f.packet)]
    /\ UNCHANGED <<connW, connC>>

StreamNext ==
    \/ Send([type |-> "LEAVE"])
    \/ \E n \in 0..MaxMessage : Send([type |-> "MESSAGE", str |-> n])
    \/ \E n, x \in 0..MaxName : Send_player([type |-> "PLAYER", str |-> n, ext |-> x])
    \/ \E k \in 1..Len(connC.buf) : Deliver(k)
    \/ Read

BufferInit ==
    /\ connW = [buf |-> <<>>, open |-> FALSE, frame |-> <<>>]
    /\ connC = [buf |-> <<>>, written |-> <<>>, cut |-> FALSE]
    /\ reader = [buf |-> <<>>, read |-> <<>>, lost |-> FALSE]

BufferNext == FrameNext \/ StreamNext

BufferSpec == BufferInit /\ [][BufferNext]_bufferVars

-----------------------------------------------------------------------------

\* All packets in bytes that hold nothing else.
Parsed(b) ==
    LET Take(r, i) == IF r.rest = <<>> \/ ~r.sense THEN r
                      ELSE IF Known(r.rest[1]) = {} THEN [r EXCEPT !.sense = FALSE]
                      ELSE LET f == FirstOf(r.rest)
                           IN  [rest |-> SubSeq(r.rest, f.used + 1, Len(r.rest)),
                                packets |-> Append(r.packets, f.packet), sense |-> f.whole]
    IN  FoldLeft(Take, [rest |-> b, packets |-> <<>>, sense |-> TRUE], [i \in 1..Len(b) |-> i])

\* However much is to be seen, a frame has its end, within the buffer, and whole packets
\* only: what did not fit is not there in part.
FrameIsWhole ==
    /\ Len(connW.buf) <= SizeW
    /\ connW.frame # <<>> => Parsed(connW.buf).sense /\ Parsed(connW.buf).packets = connW.frame

\* The client reads the packets that were written, as written, whatever did not fit.
ReadIsWritten == ~reader.lost /\ IsPrefix(reader.read, connC.written)

\* It does unless a string met the end of the buffer.
ReadUnlessCut == ~connC.cut => ReadIsWritten

\* Whole packets in the buffers of a frame and of the reliable stream.
BufferSafe == FrameIsWhole /\ ReadUnlessCut
=============================================================================
