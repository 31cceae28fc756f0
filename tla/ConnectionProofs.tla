----------------------------- MODULE ConnectionProofs -----------------------------
(***************************************************************************)
(* Proofs about ReliableStream and about Connection, for every value of    *)
(* their constants.                                                        *)
(*                                                                         *)
(* The stream comes first.  Its inductive invariant StreamInv adds to the  *)
(* properties what the datagrams in flight carry: a PKT_RELIABLE datagram  *)
(* always holds the bytes of the stream its offset says, and a PKT_ACK     *)
(* datagram never a position the client has not reached.                   *)
(*                                                                         *)
(* Then the life cycle.  Every handler works on the stream through the     *)
(* operations of module ReliableStream and no other way, so a step of the  *)
(* life cycle is a step of the stream or leaves it alone, and the theorems *)
(* about the stream hold of every connection.                              *)
(***************************************************************************)
EXTENDS Connection, SocketBuffer, SequenceTheorems, TLAPS

-----------------------------------------------------------------------------
(* Tags(a, b), the bytes a+1 .. b of the stream, under the operations on   *)
(* sequences the code amounts to.                                          *)

LEMMA TagsSeq ==
    ASSUME NEW a \in Nat, NEW b \in Nat, a <= b
    PROVE  /\ Tags(a, b) \in Seq(Nat)
           /\ Len(Tags(a, b)) = b - a
           /\ \A i \in 1 .. b - a : Tags(a, b)[i] = a + i
<1>1. /\ b - a \in Nat
      /\ \A i \in 1 .. b - a : a + i \in Nat
  OBVIOUS
<1> QED BY <1>1 DEF Tags

\* A name for the slice, under which the provers see no sequences.
Slice(a, b, i, j) == SubSeq(Tags(a, b), i, j)

LEMMA TagsSubSeq ==
    ASSUME NEW a \in Nat, NEW b \in Nat, a <= b,
           NEW i \in Nat \ {0}, NEW j \in Nat, i <= j + 1, j <= b - a,
           NEW c, NEW d, c = a + i - 1, d = a + j
    PROVE  Slice(a, b, i, j) = Tags(c, d)
<1>1. /\ a + i - 1 \in Nat
      /\ a + j \in Nat
      /\ a + i - 1 <= a + j
  OBVIOUS
<1>2. SubSeq(Tags(a, b), i, j) = [k \in 1 .. j - i + 1 |-> Tags(a, b)[i + k - 1]]
  BY TagsSeq
<1>3. \A k \in 1 .. j - i + 1 : Tags(a, b)[i + k - 1] = (a + i - 1) + k
  <2> SUFFICES ASSUME NEW k \in 1 .. j - i + 1
               PROVE  Tags(a, b)[i + k - 1] = (a + i - 1) + k
    OBVIOUS
  <2>1. i + k - 1 \in 1 .. b - a
    OBVIOUS
  <2> QED BY <2>1, TagsSeq
<1>4. (a + j) - (a + i - 1) = j - i + 1
  OBVIOUS
<1>5. SubSeq(Tags(a, b), i, j) = Tags(a + i - 1, a + j)
  BY <1>2, <1>3, <1>4 DEF Tags
<1> QED BY ONLY <1>5, c = a + i - 1, d = a + j DEF Slice

LEMMA TagsConcat ==
    ASSUME NEW a \in Nat, NEW b \in Nat, NEW c \in Nat, a <= b, b <= c
    PROVE  Tags(a, b) \o Tags(b, c) = Tags(a, c)
<1> DEFINE s == Tags(a, b)
           t == Tags(b, c)
           u == Tags(a, c)
<1>1. s \in Seq(Nat) /\ Len(s) = b - a /\ \A i \in 1 .. b - a : s[i] = a + i
  BY TagsSeq
<1>2. t \in Seq(Nat) /\ Len(t) = c - b /\ \A i \in 1 .. c - b : t[i] = b + i
  BY TagsSeq
<1>3. u \in Seq(Nat) /\ Len(u) = c - a /\ \A i \in 1 .. c - a : u[i] = a + i
  <2>1. a <= c
    OBVIOUS
  <2> QED BY <2>1, TagsSeq
<1> HIDE DEF s, t, u
<1>4. s \o t \in Seq(Nat) /\ Len(s \o t) = c - a
  <2>1. s \in Seq(Nat) /\ t \in Seq(Nat)
    BY <1>1, <1>2
  <2>2. s \o t \in Seq(Nat) /\ Len(s \o t) = Len(s) + Len(t)
    BY <2>1
  <2> QED BY <2>2, <1>1, <1>2
<1>5. ASSUME NEW i \in 1 .. c - a
      PROVE  (s \o t)[i] = u[i]
  <2>1. s \in Seq(Nat) /\ t \in Seq(Nat)
    BY <1>1, <1>2
  <2>2. Len(s) = b - a /\ Len(t) = c - b /\ i \in 1 .. Len(s) + Len(t)
    BY <1>1, <1>2
  <2>3. (s \o t)[i] = IF i <= Len(s) THEN s[i] ELSE t[i - Len(s)]
    BY ONLY <2>1, <2>2, ConcatProperties, SMTT(30)
  <2>4. CASE i <= b - a
    <3>1. (s \o t)[i] = s[i]
      BY ONLY <2>2, <2>3, <2>4
    <3> QED BY <2>4, <3>1, <1>1, <1>3
  <2>5. CASE i > b - a
    <3>1. (s \o t)[i] = t[i - (b - a)]
      <4>1. ~(i <= Len(s)) /\ i - Len(s) = i - (b - a)
        BY <2>2, <2>5
      <4> QED BY ONLY <2>3, <4>1
    <3>2. i - (b - a) \in 1 .. c - b
      BY <2>5
    <3>3. t[i - (b - a)] = b + (i - (b - a))
      BY <3>2, <1>2
    <3> QED BY <3>1, <3>3, <1>3
  <2>6. i <= b - a \/ i > b - a
    OBVIOUS
  <2> QED BY ONLY <2>4, <2>5, <2>6
<1>6. s \o t = u
  BY <1>3, <1>4, <1>5, SeqEqual
<1> QED BY <1>6 DEF s, t, u

-----------------------------------------------------------------------------
(* Arithmetic of the packets of a burst. *)

LEMMA CeilDivNat ==
    ASSUME NEW a \in Nat, NEW b \in Nat \ {0}
    PROVE  CeilDiv(a, b) \in Nat
<1>1. a + b - 1 \in Nat
  OBVIOUS
<1> QED BY <1>1 DEF CeilDiv

LEMMA DivBound ==
    ASSUME NEW a \in Nat, NEW b \in Nat \ {0}, NEW n \in Nat, n <= a \div b
    PROVE  n * b <= a
OBVIOUS

\* Packet i of a burst of k starts before the end of the data to send.
LEMMA BurstBound ==
    ASSUME NEW todo \in Nat, NEW k \in Nat, k <= CeilDiv(todo, MaxPacket),
           NEW i \in 0 .. k - 1
    PROVE  /\ i * MaxPacket \in Nat
           /\ i * MaxPacket < todo
           /\ (i + 1) * MaxPacket = i * MaxPacket + MaxPacket
<1>1. MaxPacket \in Nat \ {0}
  BY StreamAssumption
<1>2. /\ i + 1 \in Nat
      /\ todo + MaxPacket - 1 \in Nat
      /\ i + 1 <= (todo + MaxPacket - 1) \div MaxPacket
  BY <1>1, CeilDivNat DEF CeilDiv
<1>3. (i + 1) * MaxPacket <= todo + MaxPacket - 1
  BY <1>1, <1>2, DivBound
<1>4. /\ (i + 1) * MaxPacket = i * MaxPacket + MaxPacket
      /\ i * MaxPacket \in Nat
  BY <1>1
<1> QED BY <1>1, <1>3, <1>4

-----------------------------------------------------------------------------
StreamInv ==
    /\ TypeOK
    /\ rcvd = Tags(0, Len(rcvd))
    /\ Len(rcvd) <= written
    /\ NothingLost
    /\ UnsentBounds
    /\ InFlightIsTrue
    /\ LossIsNoticed
    /\ HonestClientKept

LEMMA BufferSpan ==
    ASSUME StreamInv, Open
    PROVE  /\ reliable_offset \in Nat /\ written \in Nat
           /\ reliable_offset <= written
           /\ c_buf = Tags(reliable_offset, written)
           /\ Len(c_buf) = written - reliable_offset
<1>1. TypeOK /\ NothingLost /\ UnsentBounds
  BY DEF StreamInv
<1>2. Len(rcvd) \in Nat /\ reliable_offset \in Nat
      /\ reliable_unsent \in Nat /\ written \in Nat
  BY <1>1 DEF TypeOK
<1>3. /\ reliable_offset <= Len(rcvd)
      /\ Len(rcvd) <= reliable_unsent
      /\ reliable_unsent <= written
  BY <1>1 DEF NothingLost, UnsentBounds
<1>4. reliable_offset <= written
  BY <1>2, <1>3
<1>5. c_buf = Tags(reliable_offset, written)
  BY <1>1 DEF NothingLost
<1> QED BY <1>2, <1>4, <1>5, TagsSeq

\* The datagrams of a burst hold the bytes their offsets say.
LEMMA BurstIsTrue ==
    ASSUME StreamInv, Open, NEW w \in Nat,
           CanSend(w), NEW k \in 0 .. Burst(w)
    PROVE  /\ MaxTodo(w) \in Nat \ {0}
           /\ MaxTodo(w) <= Len(c_buf)
           /\ \A p \in PacketsOf(w, k) :
                 /\ p \in Packet
                 /\ p.data = Tags(p.off, p.off + Len(p.data))
                 /\ p.off + Len(p.data)
                        <= reliable_offset + Lesser(k * MaxPacket, MaxTodo(w))
<1> DEFINE todo == MaxTodo(w)
           off  == reliable_offset
<1>1. /\ off \in Nat /\ written \in Nat /\ off <= written
      /\ c_buf = Tags(off, written)
      /\ acks \in Nat
      /\ MaxPacket \in Nat \ {0}
  <2>1. acks \in Nat
    BY DEF StreamInv, TypeOK
  <2> QED BY <2>1, BufferSpan, StreamAssumption
<1>2. Len(c_buf) = written - off
  BY BufferSpan
<1>3. todo \in Nat \ {0} /\ todo <= written - off
  <2>1. CASE w = 0
    BY <1>1, <1>2, <2>1 DEF CanSend, MaxTodo
  <2>2. CASE w > 0
    BY <1>1, <1>2, <2>2 DEF CanSend, FrameTooBig, MaxTodo, Lesser
  <2> QED BY <2>1, <2>2
<1>4. k \in Nat /\ k <= CeilDiv(todo, MaxPacket)
  <2>1. Window \in Nat
    BY <1>1 DEF Window
  <2>2. CeilDiv(todo, MaxPacket) \in Nat
    BY <1>1, <1>3, CeilDivNat
  <2> HIDE DEF todo
  <2>3. Burst(w) = Lesser(Window + 1, CeilDiv(todo, MaxPacket))
    BY DEF Burst, todo
  <2> QED BY <2>1, <2>2, <2>3 DEF Lesser
<1>5. ASSUME NEW p \in PacketsOf(w, k)
      PROVE  /\ p \in Packet
             /\ p.data = Tags(p.off, p.off + Len(p.data))
             /\ p.off + Len(p.data) <= off + Lesser(k * MaxPacket, todo)
  <2>1. PICK i \in 0 .. k - 1 :
            p = [off  |-> off + i * MaxPacket,
                 data |-> SubSeq(c_buf, i * MaxPacket + 1,
                                 Lesser((i + 1) * MaxPacket, todo))]
    BY DEF PacketsOf
  <2> DEFINE m == i * MaxPacket
             n == Lesser((i + 1) * MaxPacket, todo)
  <2> HIDE DEF todo
  <2>2. /\ m \in Nat
        /\ m < todo
        /\ (i + 1) * MaxPacket = m + MaxPacket
    BY <1>3, <1>4, BurstBound
  <2>3. n \in Nat /\ m < n /\ n <= todo /\ n <= m + MaxPacket
    BY <1>1, <1>3, <2>2 DEF Lesser
  <2>4. m + MaxPacket <= k * MaxPacket
    <3>1. i \in Nat /\ k \in Nat /\ i + 1 <= k
      BY <1>4
    <3>2. (i + 1) * MaxPacket <= k * MaxPacket
      BY <1>1, <3>1
    <3> QED BY <2>2, <3>2
  <2>5. /\ p.off = off + m
        /\ p.data = SubSeq(Tags(off, written), m + 1, n)
    BY <1>1, <2>1
  <2> HIDE DEF m, n, off
  <2>6. SubSeq(Tags(off, written), m + 1, n) = Tags(off + m, off + n)
    <3> DEFINE i_ == m + 1
               c == off + m
               d == off + n
    <3>1. /\ i_ \in Nat \ {0} /\ n \in Nat
          /\ i_ <= n + 1 /\ n <= written - off
      BY <1>1, <1>3, <2>2, <2>3
    <3>2. off \in Nat /\ written \in Nat /\ off <= written
      BY <1>1
    <3>3. c = off + i_ - 1 /\ d = off + n
      BY <1>1, <2>2, <2>3
    <3> HIDE DEF i_, c, d
    <3>4. Slice(off, written, i_, n) = Tags(c, d)
      BY ONLY <3>1, <3>2, <3>3, TagsSubSeq
    <3> QED BY ONLY <3>4 DEF i_, c, d, Slice
  <2>7. p.data = Tags(off + m, off + n)
    BY ONLY <2>5, <2>6
  <2>8. p.data \in Seq(Nat) /\ Len(p.data) = n - m
    <3>1. /\ off + m \in Nat /\ off + n \in Nat /\ off + m <= off + n
          /\ (off + n) - (off + m) = n - m
      BY <1>1, <2>2, <2>3
    <3> QED BY ONLY <3>1, <2>7, TagsSeq
  <2>9. p \in Packet
    <3>1. p.off \in Nat
      BY <1>1, <2>2, <2>5
    <3>2. p = [off |-> p.off, data |-> p.data]
      BY <2>1
    <3> HIDE <2>1
    <3> QED BY <2>8, <3>1, <3>2 DEF Packet
  <2>10. p.off + Len(p.data) = off + n
    <3>1. Len(p.data) = n - m /\ p.off = off + m
      BY <2>5, <2>8
    <3> HIDE <2>1
    <3> QED BY <1>1, <2>2, <2>3, <3>1
  <2>11. off + n <= off + Lesser(k * MaxPacket, todo)
    <3>1. k * MaxPacket \in Nat
      BY <1>1, <1>4
    <3> QED BY <1>1, <1>3, <2>2, <2>3, <2>4, <3>1 DEF Lesser
  <2> QED BY <2>5, <2>7, <2>9, <2>10, <2>11
<1> QED BY <1>2, <1>3, <1>5

-----------------------------------------------------------------------------
(* Init and the steps. *)

THEOREM StreamInit == Init => StreamInv
<1> SUFFICES ASSUME Init PROVE StreamInv
  OBVIOUS
<1>1. Len(<<>>) = 0 /\ Tags(0, 0) = <<>>
  BY DEF Tags
<1>2. TypeOK
  <2>1. DefaultRetransmit \in Nat
    BY StreamAssumption DEF DefaultRetransmit
  <2>2. /\ c_buf \in Seq(Nat) /\ reliable_offset \in Nat
        /\ reliable_unsent \in Nat
        /\ rtt_retransmit \in Nat /\ acks \in Nat /\ written \in Nat
    BY <2>1 DEF Init
  <2>3. timer \in Nat \cup {NoTimer}
    BY DEF Init
  <2>4. /\ packets \subseteq Packet /\ ack_msgs \subseteq Nat
        /\ rcvd \in Seq(Nat)
    BY DEF Init
  <2>5. reason \in {"none", "write_error", "flush_error", "bad_ack", "ended"}
    BY DEF Init
  <2>6. sent_this_loop \in BOOLEAN
    BY DEF Init
  <2> QED BY <2>2, <2>3, <2>4, <2>5, <2>6 DEF TypeOK
<1>3. NothingLost /\ UnsentBounds /\ InFlightIsTrue
  BY <1>1 DEF Init, NothingLost, UnsentBounds, InFlightIsTrue
<1>4. rcvd = Tags(0, Len(rcvd)) /\ Len(rcvd) <= written
  BY <1>1 DEF Init
<1>5. LossIsNoticed /\ HonestClientKept
  BY DEF Init, LossIsNoticed, HonestClientKept
<1> QED BY <1>2, <1>3, <1>4, <1>5 DEF StreamInv

\* What a destroyed connection leaves behind satisfies the invariant.
LEMMA DestroyStep ==
    ASSUME StreamInv, NEW why, Destroy(why),
           why \in {"write_error", "flush_error", "ended"},
           UNCHANGED <<written, ack_msgs, rcvd>>,
           \A p \in packets' :
              /\ p \in Packet
              /\ p.data = Tags(p.off, p.off + Len(p.data))
              /\ p.off + Len(p.data) <= written
    PROVE  StreamInv'
<1>1. TypeOK /\ ~Open'
  BY DEF StreamInv, Destroy, Open
<1>2. TypeOK'
  <2>1. packets' \subseteq Packet
    OBVIOUS
  <2>2. /\ written' \in Nat /\ ack_msgs' \subseteq Nat /\ rcvd' \in Seq(Nat)
    BY <1>1 DEF TypeOK
  <2>3. /\ c_buf' \in Seq(Nat) /\ reliable_offset' \in Nat
        /\ reliable_unsent' \in Nat
        /\ rtt_retransmit' \in Nat /\ acks' \in Nat
    BY DEF Destroy
  <2>4. timer' \in Nat \cup {NoTimer}
    BY DEF Destroy
  <2>5. reason' \in {"none", "write_error", "flush_error", "bad_ack", "ended"}
    BY DEF Destroy
  <2>6. sent_this_loop' \in BOOLEAN
    BY DEF Destroy
  <2> QED BY <2>1, <2>2, <2>3, <2>4, <2>5, <2>6 DEF TypeOK
<1>3. NothingLost' /\ UnsentBounds' /\ LossIsNoticed'
  BY <1>1 DEF NothingLost, UnsentBounds, LossIsNoticed
<1>4. HonestClientKept'
  BY DEF HonestClientKept, Destroy
<1>5. InFlightIsTrue'
  BY <1>1 DEF StreamInv, InFlightIsTrue
<1>6. (rcvd = Tags(0, Len(rcvd)) /\ Len(rcvd) <= written)'
  BY DEF StreamInv
<1> QED BY <1>2, <1>3, <1>4, <1>5, <1>6 DEF StreamInv

LEMMA WriteStep ==
    ASSUME StreamInv, NEW n \in WriteSizes, Write(n)
    PROVE  StreamInv'
<1>1. /\ TypeOK /\ Open /\ n \in Nat
      /\ packets' = packets /\ ack_msgs' = ack_msgs /\ rcvd' = rcvd
  BY StreamAssumption DEF StreamInv, Write
<1>2. CASE Len(c_buf) + n <= BufSize
  <2>1. /\ c_buf' = c_buf \o Tags(written, written + n)
        /\ written' = written + n
        /\ UNCHANGED <<reliable_offset, reliable_unsent, timer,
                       sent_this_loop, rtt_retransmit, acks, reason>>
    BY <1>2 DEF Write
  <2>2. /\ reliable_offset \in Nat /\ reliable_unsent \in Nat /\ written \in Nat
        /\ Len(rcvd) \in Nat
    BY <1>1 DEF TypeOK
  <2>3. /\ reliable_offset <= Len(rcvd) /\ Len(rcvd) <= reliable_unsent
        /\ reliable_unsent <= written
        /\ c_buf = Tags(reliable_offset, written)
    BY <1>1 DEF StreamInv, NothingLost, UnsentBounds
  <2>4. c_buf' = Tags(reliable_offset, written + n)
    <3>1. /\ reliable_offset <= written /\ written <= written + n
          /\ written + n \in Nat
      BY <1>1, <2>2, <2>3
    <3> QED BY <2>1, <2>2, <2>3, <3>1, TagsConcat
  <2>5. c_buf' \in Seq(Nat)
    <3>1. reliable_offset <= written + n /\ written + n \in Nat
      BY <1>1, <2>2, <2>3
    <3> QED BY <2>2, <2>4, <3>1, TagsSeq
  <2>6. TypeOK'
    BY <1>1, <2>1, <2>2, <2>5 DEF TypeOK
  <2>7. NothingLost' /\ UnsentBounds'
    BY <1>1, <2>1, <2>2, <2>3, <2>4 DEF NothingLost, UnsentBounds
  <2>8. InFlightIsTrue'
    <3>1. ASSUME NEW p \in packets
          PROVE  /\ p.data = Tags(p.off, p.off + Len(p.data))
                 /\ p.off + Len(p.data) <= written + n
                 /\ p.off + Len(p.data) <= reliable_unsent
      <4>1. /\ p.data = Tags(p.off, p.off + Len(p.data))
            /\ p.off + Len(p.data) <= written
            /\ p.off + Len(p.data) <= reliable_unsent
        BY <1>1 DEF StreamInv, InFlightIsTrue
      <4>2. p.off + Len(p.data) \in Nat
        BY <1>1 DEF TypeOK, Packet
      <4> QED BY <1>1, <2>2, <4>1, <4>2
    <3>2. \A rel \in ack_msgs : rel <= Len(rcvd)
      BY DEF StreamInv, InFlightIsTrue
    <3> QED BY <1>1, <2>1, <3>1, <3>2 DEF InFlightIsTrue
  <2>9. (rcvd = Tags(0, Len(rcvd)) /\ Len(rcvd) <= written)'
    BY <1>1, <2>1, <2>2 DEF StreamInv
  <2>10. LossIsNoticed' /\ HonestClientKept'
    BY <2>1 DEF StreamInv, LossIsNoticed, HonestClientKept, Open
  <2> QED BY <2>6, <2>7, <2>8, <2>9, <2>10 DEF StreamInv
<1>3. CASE ~(Len(c_buf) + n <= BufSize)
  <2>1. Destroy("write_error") /\ written' = written
    BY <1>3 DEF Write
  <2>2. \A p \in packets' :
              /\ p \in Packet
              /\ p.data = Tags(p.off, p.off + Len(p.data))
              /\ p.off + Len(p.data) <= written
    BY <1>1 DEF StreamInv, TypeOK, InFlightIsTrue
  <2> QED BY <1>1, <2>1, <2>2, DestroyStep
<1> QED BY <1>2, <1>3

\* The datagrams already in flight stay true while written does not change and
\* the high-water mark does not fall.
LEMMA OldDatagrams ==
    ASSUME StreamInv, NEW p \in packets
    PROVE  /\ p \in Packet
           /\ p.data = Tags(p.off, p.off + Len(p.data))
           /\ p.off + Len(p.data) <= written
           /\ Open => p.off + Len(p.data) <= reliable_unsent
BY DEF StreamInv, TypeOK, InFlightIsTrue

LEMMA SendNothingStep ==
    ASSUME StreamInv, Open, NEW w,
           SendNothing(w),
           UNCHANGED <<written, ack_msgs, rcvd>>
    PROVE  StreamInv'
<1>1. UNCHANGED <<c_buf, reliable_offset, reliable_unsent, timer,
                  rtt_retransmit, acks, reason, packets, written, ack_msgs,
                  rcvd>>
  BY DEF SendNothing
<1>2. sent_this_loop' \in BOOLEAN
  BY DEF SendNothing
<1>3. TypeOK'
  BY <1>1, <1>2 DEF StreamInv, TypeOK
<1>4. NothingLost' /\ UnsentBounds' /\ HonestClientKept'
  BY <1>1 DEF StreamInv, NothingLost, UnsentBounds, HonestClientKept, Open
<1>5. InFlightIsTrue'
  BY <1>1 DEF StreamInv, InFlightIsTrue, Open
<1>6. LossIsNoticed'
  BY <1>1 DEF StreamInv, LossIsNoticed, Open
<1>7. (rcvd = Tags(0, Len(rcvd)) /\ Len(rcvd) <= written)'
  BY <1>1 DEF StreamInv
<1> QED BY <1>3, <1>4, <1>5, <1>6, <1>7 DEF StreamInv

LEMMA SendPacketsStep ==
    ASSUME StreamInv, Open, NEW w \in Nat,
           NEW k \in 0 .. Burst(w), NEW lost,
           SendPackets(w, k, lost),
           UNCHANGED <<written, ack_msgs, rcvd>>
    PROVE  StreamInv'
<1> DEFINE sent == Lesser(k * MaxPacket, MaxTodo(w))
           rtx  == Lesser(rtt_retransmit, MaxRetransmit)
<1>1. /\ CanSend(w)
      /\ acks' = IF k < Burst(w) THEN 0 ELSE Window
      /\ sent_this_loop' = TRUE
      /\ packets' = packets \cup (PacketsOf(w, k) \ lost)
      /\ IF k = 0
         THEN UNCHANGED <<timer, rtt_retransmit, reliable_unsent>>
         ELSE /\ timer' = rtx
              /\ rtt_retransmit' = IF timer > 0 THEN rtx ELSE 2 * rtx
              /\ reliable_unsent' = HighWater(sent)
      /\ UNCHANGED <<c_buf, reliable_offset, reason>>
  BY DEF SendPackets
<1>2. /\ MaxTodo(w) \in Nat \ {0}
      /\ MaxTodo(w) <= Len(c_buf)
      /\ \A p \in PacketsOf(w, k) :
            /\ p \in Packet
            /\ p.data = Tags(p.off, p.off + Len(p.data))
            /\ p.off + Len(p.data) <= reliable_offset + sent
  BY <1>1, BurstIsTrue
<1>3. /\ TypeOK /\ NothingLost /\ UnsentBounds /\ HonestClientKept
      /\ rcvd = Tags(0, Len(rcvd)) /\ Len(rcvd) <= written
  BY DEF StreamInv
<1>4. /\ reliable_offset \in Nat /\ reliable_unsent \in Nat /\ written \in Nat
      /\ Len(rcvd) \in Nat /\ acks \in Nat /\ rtt_retransmit \in Nat
  BY <1>3 DEF TypeOK
<1>5. /\ reliable_offset <= Len(rcvd) /\ Len(rcvd) <= reliable_unsent
      /\ reliable_unsent <= written
      /\ c_buf = Tags(reliable_offset, written)
  BY <1>3 DEF NothingLost, UnsentBounds
<1>6. Len(c_buf) = written - reliable_offset
  BY BufferSpan
<1>7. MaxRetransmit \in Nat
  BY StreamAssumption DEF MaxRetransmit
<1>8. rtx \in 0 .. MaxRetransmit
  BY <1>4, <1>7 DEF Lesser
<1>9. sent \in Nat /\ reliable_offset + sent <= written
  <2>1. k * MaxPacket \in Nat
    <3>1. k \in Nat /\ MaxPacket \in Nat
      BY StreamAssumption
    <3> QED BY <3>1
  <2> QED BY <1>2, <1>4, <1>6, <2>1 DEF Lesser
<1> HIDE DEF sent, rtx
<1>10. /\ reliable_unsent' \in Nat
       /\ reliable_unsent <= reliable_unsent'
       /\ reliable_unsent' <= written
       /\ k # 0 => reliable_offset + sent <= reliable_unsent'
  BY <1>1, <1>4, <1>5, <1>9 DEF HighWater, Greater
<1>11. /\ timer' \in Nat \cup {NoTimer}
       /\ reliable_offset < reliable_unsent' => timer' \in 0 .. MaxRetransmit
       /\ rtt_retransmit' \in Nat
  <2>1. CASE k = 0
    <3>1. UNCHANGED <<timer, rtt_retransmit, reliable_unsent>>
      BY <1>1, <2>1
    <3> QED BY <1>4, <3>1 DEF StreamInv, TypeOK, LossIsNoticed
  <2>2. CASE k # 0
    BY <1>1, <1>7, <1>8, <2>2
  <2> QED BY <2>1, <2>2
<1>12. \A p \in packets' :
          /\ p \in Packet
          /\ p.data = Tags(p.off, p.off + Len(p.data))
          /\ p.off + Len(p.data) <= written
          /\ p.off + Len(p.data) <= reliable_unsent'
  <2> SUFFICES ASSUME NEW p \in packets'
               PROVE  /\ p \in Packet
                      /\ p.data = Tags(p.off, p.off + Len(p.data))
                      /\ p.off + Len(p.data) <= written
                      /\ p.off + Len(p.data) <= reliable_unsent'
    OBVIOUS
  <2>1. CASE p \in packets
    <3>1. /\ p \in Packet
          /\ p.data = Tags(p.off, p.off + Len(p.data))
          /\ p.off + Len(p.data) <= written
          /\ p.off + Len(p.data) <= reliable_unsent
      BY <2>1, OldDatagrams
    <3>2. p.off + Len(p.data) \in Nat
      BY <3>1 DEF Packet
    <3> QED BY <1>4, <1>10, <3>1, <3>2
  <2>2. CASE p \in PacketsOf(w, k)
    <3>1. k # 0
      BY <2>2 DEF PacketsOf
    <3>2. /\ p \in Packet
          /\ p.data = Tags(p.off, p.off + Len(p.data))
          /\ p.off + Len(p.data) <= reliable_offset + sent
      BY <1>2, <2>2
    <3>3. p.off + Len(p.data) \in Nat
      BY <3>2 DEF Packet
    <3> QED BY <1>4, <1>9, <1>10, <3>1, <3>2, <3>3
  <2> QED BY <1>1, <2>1, <2>2
<1>13. acks' \in Nat
  <2>1. Window \in Nat
    BY <1>4 DEF Window
  <2> QED BY <1>1, <2>1
<1>14. TypeOK'
  <2>1. packets' \subseteq Packet
    BY <1>12
  <2>2. sent_this_loop' \in BOOLEAN
    BY <1>1
  <2>3. /\ c_buf' \in Seq(Nat) /\ reliable_offset' \in Nat /\ written' \in Nat
        /\ ack_msgs' \subseteq Nat /\ rcvd' \in Seq(Nat)
        /\ reason' \in {"none", "write_error", "flush_error", "bad_ack", "ended"}
    BY <1>1, <1>3 DEF TypeOK
  <2> QED BY <1>10, <1>11, <1>13, <2>1, <2>2, <2>3 DEF TypeOK
<1>15. Open' /\ UNCHANGED <<c_buf, reliable_offset, written, rcvd>>
  BY <1>1 DEF Open
<1>16. NothingLost'
  BY <1>5, <1>15 DEF NothingLost
<1>17. UnsentBounds'
  BY <1>4, <1>5, <1>10, <1>15 DEF UnsentBounds
<1>18. InFlightIsTrue'
  <2>1. \A rel \in ack_msgs : rel <= Len(rcvd)
    BY DEF StreamInv, InFlightIsTrue
  <2> QED BY <1>12, <1>15, <2>1 DEF InFlightIsTrue
<1>19. LossIsNoticed' /\ HonestClientKept'
  BY <1>1, <1>3, <1>11 DEF LossIsNoticed, HonestClientKept
<1>20. (rcvd = Tags(0, Len(rcvd)) /\ Len(rcvd) <= written)'
  BY <1>3, <1>15
<1> QED BY <1>14, <1>16, <1>17, <1>18, <1>19, <1>20 DEF StreamInv

LEMMA SendErrorStep ==
    ASSUME StreamInv, Open, NEW w \in Nat,
           NEW k \in 0 .. Burst(w), NEW lost,
           SendError(w, k, lost),
           UNCHANGED <<written, ack_msgs, rcvd>>
    PROVE  StreamInv'
<1>1. /\ CanSend(w)
      /\ packets' = packets \cup (PacketsOf(w, k) \ lost)
      /\ Destroy("flush_error")
  BY DEF SendError
<1>2. ASSUME NEW p \in packets'
      PROVE  /\ p \in Packet
             /\ p.data = Tags(p.off, p.off + Len(p.data))
             /\ p.off + Len(p.data) <= written
  <2>1. CASE p \in packets
    BY <2>1, OldDatagrams
  <2>2. CASE p \in PacketsOf(w, k)
    <3> DEFINE sent == Lesser(k * MaxPacket, MaxTodo(w))
    <3>1. /\ MaxTodo(w) \in Nat
          /\ MaxTodo(w) <= Len(c_buf)
          /\ p \in Packet
          /\ p.data = Tags(p.off, p.off + Len(p.data))
          /\ p.off + Len(p.data) <= reliable_offset + sent
      BY <1>1, <2>2, BurstIsTrue
    <3>2. /\ reliable_offset \in Nat /\ written \in Nat
          /\ reliable_offset <= written
          /\ Len(c_buf) = written - reliable_offset
      BY BufferSpan
    <3>3. sent \in Nat /\ sent <= MaxTodo(w)
      <4>1. k \in Nat /\ MaxPacket \in Nat
        BY StreamAssumption
      <4>2. k * MaxPacket \in Nat
        BY <4>1
      <4> QED BY <3>1, <4>2 DEF Lesser
    <3>4. p.off + Len(p.data) \in Nat
      BY <3>1 DEF Packet
    <3> HIDE DEF sent
    <3> QED BY <3>1, <3>2, <3>3, <3>4
  <2> QED BY <1>1, <2>1, <2>2
<1> QED BY <1>1, <1>2, DestroyStep

LEMMA SendReliableStep ==
    ASSUME StreamInv, Open, NEW w \in Nat,
           Send_reliable(w),
           UNCHANGED <<written, ack_msgs, rcvd>>
    PROVE  StreamInv'
<1>1. CASE SendNothing(w)
  BY <1>1, SendNothingStep
<1>2. ASSUME NEW k \in 0 .. Burst(w), NEW lost,
             SendPackets(w, k, lost)
      PROVE  StreamInv'
  BY <1>2, SendPacketsStep
<1>3. ASSUME NEW k \in 0 .. Burst(w), NEW lost,
             SendError(w, k, lost)
      PROVE  StreamInv'
  BY <1>3, SendErrorStep
<1> QED BY <1>1, <1>2, <1>3 DEF Send_reliable

\* The timer after main_loops advanced by one.
LEMMA TickedTimer ==
    ASSUME StreamInv, Open
    PROVE  /\ Ticked \in Nat \cup {NoTimer}
           /\ reliable_offset < reliable_unsent => Ticked \in 0 .. MaxRetransmit
<1>1. MaxRetransmit \in Nat
  BY StreamAssumption DEF MaxRetransmit
<1>2. timer \in Nat \cup {NoTimer}
  BY DEF StreamInv, TypeOK
<1>3. reliable_offset < reliable_unsent => timer \in 0 .. MaxRetransmit
  BY DEF StreamInv, LossIsNoticed
<1>4. CASE timer > 0
  BY <1>1, <1>2, <1>3, <1>4 DEF Ticked, NoTimer
<1>5. CASE ~(timer > 0)
  BY <1>2, <1>3, <1>5 DEF Ticked
<1> QED BY <1>4, <1>5

LEMMA TickStep ==
    ASSUME StreamInv, Tick
    PROVE  StreamInv'
<1>1. /\ Open /\ timer' = Ticked /\ sent_this_loop' = FALSE
      /\ UNCHANGED <<c_buf, reliable_offset, reliable_unsent, rtt_retransmit,
                     acks, reason, written, packets, ack_msgs, rcvd>>
  BY DEF Tick
<1>2. sent_this_loop' \in BOOLEAN
  BY <1>1
<1>3. TypeOK'
  BY <1>1, <1>2, TickedTimer DEF StreamInv, TypeOK
<1>4. NothingLost' /\ UnsentBounds' /\ HonestClientKept'
  BY <1>1 DEF StreamInv, NothingLost, UnsentBounds, HonestClientKept, Open
<1>5. InFlightIsTrue'
  BY <1>1 DEF StreamInv, InFlightIsTrue, Open
<1>6. LossIsNoticed'
  BY <1>1, TickedTimer DEF LossIsNoticed
<1>7. (rcvd = Tags(0, Len(rcvd)) /\ Len(rcvd) <= written)'
  BY <1>1 DEF StreamInv
<1> QED BY <1>3, <1>4, <1>5, <1>6, <1>7 DEF StreamInv

LEMMA SendCallStep ==
    ASSUME StreamInv, NEW w \in FrameSizes, SendCall(w)
    PROVE  StreamInv'
<1>1. /\ Open /\ w \in Nat
      /\ Send_reliable(w)
      /\ UNCHANGED <<written, ack_msgs, rcvd>>
  BY StreamAssumption DEF SendCall
<1> QED BY <1>1, SendReliableStep

LEMMA ReceiveAckStep ==
    ASSUME StreamInv, NEW rel \in ack_msgs, NEW keep \in BOOLEAN,
           ReceiveAck(rel, keep)
    PROVE  StreamInv'
<1> DEFINE diff == rel - reliable_offset
<1>1. /\ Open /\ Receive_ack(rel)
      /\ ack_msgs' \subseteq ack_msgs
      /\ written' = written /\ packets' = packets /\ rcvd' = rcvd
  BY DEF ReceiveAck, Receive_ack
<1>2. /\ reliable_offset \in Nat /\ reliable_unsent \in Nat /\ written \in Nat
      /\ Len(rcvd) \in Nat /\ rel \in Nat /\ acks \in Nat /\ rtt_retransmit \in Nat
  BY DEF StreamInv, TypeOK
<1>3. /\ reliable_offset <= Len(rcvd) /\ Len(rcvd) <= reliable_unsent
      /\ reliable_unsent <= written
      /\ c_buf = Tags(reliable_offset, written)
      /\ rel <= Len(rcvd)
  BY <1>1 DEF StreamInv, NothingLost, UnsentBounds, InFlightIsTrue
<1>4. Len(c_buf) = written - reliable_offset
  BY <1>1, BufferSpan
<1>5. ~ImpossibleAck(diff)
  BY <1>2, <1>3, <1>4 DEF ImpossibleAck
<1>6. /\ rtt_retransmit' \in RttEstimate \cup {rtt_retransmit}
      /\ UNCHANGED <<reliable_unsent, sent_this_loop, reason>>
      /\ IF diff <= 0
         THEN UNCHANGED <<c_buf, reliable_offset, timer, acks>>
         ELSE /\ c_buf' = Advanced(c_buf, diff)
              /\ reliable_offset' = reliable_offset + diff
              /\ acks' = IF CeilDiv(diff, AckUnit) > acks
                         THEN CeilDiv(diff, AckUnit) ELSE acks + 1
              /\ timer' = IF AllSentAcked(rel) THEN NoTimer ELSE timer
  BY <1>1, <1>5 DEF Receive_ack
<1>7. rtt_retransmit' \in Nat
  <2>1. RttEstimate \subseteq Nat
    BY StreamAssumption DEF RttEstimate, MinRetransmit, MaxRetransmit
  <2> QED BY <1>2, <1>6, <2>1
<1>8. /\ timer \in Nat \cup {NoTimer}
      /\ reliable_offset < reliable_unsent => timer \in 0 .. MaxRetransmit
  BY <1>1 DEF StreamInv, TypeOK, LossIsNoticed
<1>9. /\ reliable_offset' \in Nat
      /\ reliable_offset <= reliable_offset'
      /\ reliable_offset' <= Len(rcvd)
      /\ c_buf' = Tags(reliable_offset', written)
      /\ acks' \in Nat
      /\ timer' \in Nat \cup {NoTimer}
      /\ reliable_offset' < reliable_unsent => timer' \in 0 .. MaxRetransmit
  <2>1. CASE diff <= 0
    <3>1. UNCHANGED <<c_buf, reliable_offset, timer, acks>>
      BY <1>6, <2>1
    <3> QED BY <1>2, <1>3, <1>8, <3>1
  <2>2. CASE ~(diff <= 0)
    <3>1. diff \in Nat \ {0} /\ reliable_offset + diff = rel
      BY <1>2, <2>2
    <3>2. /\ c_buf' = Advanced(c_buf, diff)
          /\ reliable_offset' = reliable_offset + diff
          /\ acks' = IF CeilDiv(diff, AckUnit) > acks
                     THEN CeilDiv(diff, AckUnit) ELSE acks + 1
          /\ timer' = IF AllSentAcked(rel) THEN NoTimer ELSE timer
      BY <1>6, <2>2
    <3> HIDE DEF diff
    <3>3. acks' \in Nat
      <4>1. CeilDiv(diff, AckUnit) \in Nat
        BY <3>1, CeilDivNat, StreamAssumption
      <4> QED BY <1>2, <3>2, <4>1
    <3>4. reliable_offset' = rel
      BY <3>1, <3>2
    <3>5. c_buf' = Tags(rel, written)
      <4>1. c_buf' = SubSeq(Tags(reliable_offset, written), diff + 1,
                            written - reliable_offset)
        BY <1>3, <1>4, <3>2 DEF Advanced
      <4>2. /\ diff + 1 \in Nat \ {0}
            /\ written - reliable_offset \in Nat
            /\ diff + 1 <= (written - reliable_offset) + 1
            /\ written - reliable_offset <= written - reliable_offset
            /\ reliable_offset <= written
            /\ reliable_offset + (diff + 1) - 1 = rel
            /\ reliable_offset + (written - reliable_offset) = written
        BY <1>2, <1>3, <3>1
      <4>3. SubSeq(Tags(reliable_offset, written), diff + 1,
                   written - reliable_offset)
              = Tags(reliable_offset + (diff + 1) - 1,
                     reliable_offset + (written - reliable_offset))
        <5> DEFINE i == diff + 1
                   j == written - reliable_offset
        <5>1. /\ i \in Nat \ {0} /\ j \in Nat /\ i <= j + 1
              /\ j <= written - reliable_offset
              /\ reliable_offset \in Nat /\ written \in Nat
              /\ reliable_offset <= written
          BY <1>2, <4>2
        <5> HIDE DEF i, j
        <5>2. Slice(reliable_offset, written, i, j)
                = Tags(reliable_offset + i - 1, reliable_offset + j)
          BY ONLY <5>1, TagsSubSeq
        <5> QED BY ONLY <5>2 DEF i, j, Slice
      <4> QED BY <4>1, <4>2, <4>3
    <3>6. /\ timer' \in Nat \cup {NoTimer}
          /\ rel < reliable_unsent => timer' \in 0 .. MaxRetransmit
      <4>1. CASE rel >= reliable_unsent
        BY <1>2, <3>2, <4>1 DEF AllSentAcked
      <4>2. CASE rel < reliable_unsent
        <5>1. reliable_offset < reliable_unsent
          BY <1>2, <3>1, <4>2
        <5>2. timer' = timer
          BY <1>2, <3>2, <4>2 DEF AllSentAcked
        <5> QED BY <1>8, <5>1, <5>2
      <4> QED BY <1>2, <4>1, <4>2
    <3> QED BY <1>2, <1>3, <3>1, <3>3, <3>4, <3>5, <3>6
  <2> QED BY <2>1, <2>2
<1> HIDE DEF diff
<1>10. TypeOK'
  <2>1. c_buf' \in Seq(Nat)
    <3>1. reliable_offset' <= written
      BY <1>2, <1>3, <1>9
    <3> QED BY <1>2, <1>9, <3>1, TagsSeq
  <2>2. /\ reliable_unsent' \in Nat /\ written' \in Nat
        /\ packets' \subseteq Packet /\ ack_msgs' \subseteq Nat
        /\ rcvd' \in Seq(Nat)
    BY <1>1, <1>6 DEF StreamInv, TypeOK
  <2>3. sent_this_loop' \in BOOLEAN
    BY <1>6 DEF StreamInv, TypeOK
  <2>4. reason' \in {"none", "write_error", "flush_error", "bad_ack", "ended"}
    BY <1>6 DEF StreamInv, TypeOK
  <2> QED BY <1>7, <1>9, <2>1, <2>2, <2>3, <2>4 DEF TypeOK
<1>11. Open' /\ UNCHANGED <<reliable_unsent, written, rcvd, packets>>
  BY <1>1, <1>6 DEF Open
<1>12. NothingLost' /\ UnsentBounds'
  BY <1>3, <1>9, <1>11 DEF NothingLost, UnsentBounds
<1>13. InFlightIsTrue'
  BY <1>1, <1>11 DEF StreamInv, InFlightIsTrue
<1>14. LossIsNoticed'
  BY <1>9, <1>11 DEF LossIsNoticed
<1>15. HonestClientKept'
  BY <1>6 DEF StreamInv, HonestClientKept
<1>16. (rcvd = Tags(0, Len(rcvd)) /\ Len(rcvd) <= written)'
  BY <1>11 DEF StreamInv
<1> QED BY <1>10, <1>12, <1>13, <1>14, <1>15, <1>16 DEF StreamInv

\* The client's new bytes continue the stream it has.
LEMMA NewDataIsNext ==
    ASSUME StreamInv, NEW p \in packets
    PROVE  \E n \in Nat :
              /\ Len(rcvd) <= n /\ n <= written
              /\ Open => n <= reliable_unsent
              /\ rcvd \o NewData(p) = Tags(0, n)
              /\ Len(rcvd \o NewData(p)) = n
<1> DEFINE r == Len(rcvd)
           q == p.off + Len(p.data)
<1>1. /\ p \in Packet
      /\ p.data = Tags(p.off, q)
      /\ q <= written
      /\ Open => q <= reliable_unsent
  BY OldDatagrams
<1>2. /\ p.off \in Nat /\ Len(p.data) \in Nat /\ q \in Nat /\ p.off <= q
      /\ Len(p.data) = q - p.off
  <2>1. p.off \in Nat /\ p.data \in Seq(Nat)
    BY <1>1 DEF Packet
  <2>2. Len(p.data) \in Nat
    BY <2>1
  <2> QED BY <2>1, <2>2
<1>3. /\ r \in Nat /\ rcvd = Tags(0, r) /\ r <= written
      /\ Open => r <= reliable_unsent
  BY DEF StreamInv, TypeOK, UnsentBounds
<1> HIDE DEF r, q
<1>4. CASE p.off <= r /\ q > r
  <2>1. NewData(p) = SubSeq(p.data, r - p.off + 1, Len(p.data))
    BY <1>4 DEF NewData, r, q
  <2>2. NewData(p) = Tags(r, q)
    <3>1. /\ r - p.off + 1 \in Nat \ {0}
          /\ q - p.off \in Nat
          /\ r - p.off + 1 <= (q - p.off) + 1
          /\ p.off + (r - p.off + 1) - 1 = r
          /\ p.off + (q - p.off) = q
      BY <1>2, <1>3, <1>4
    <3> DEFINE i == r - p.off + 1
               j == q - p.off
    <3>2. /\ i \in Nat \ {0} /\ j \in Nat /\ i <= j + 1 /\ j <= q - p.off
          /\ p.off \in Nat /\ q \in Nat /\ p.off <= q
      BY <1>2, <3>1
    <3>3. NewData(p) = SubSeq(Tags(p.off, q), i, j)
      BY <1>1, <1>2, <2>1
    <3>4. p.off + i - 1 = r /\ p.off + j = q
      BY <3>1
    <3> HIDE DEF i, j
    <3>5. Slice(p.off, q, i, j) = Tags(r, q)
      BY ONLY <3>2, <3>4, TagsSubSeq
    <3> QED BY ONLY <3>3, <3>5 DEF Slice
  <2>3. r <= q
    BY <1>2, <1>3, <1>4
  <2>4. rcvd \o NewData(p) = Tags(0, q)
    <3>1. 0 \in Nat /\ r \in Nat /\ q \in Nat /\ 0 <= r /\ r <= q
      BY <1>2, <1>3, <2>3
    <3>2. Tags(0, r) \o Tags(r, q) = Tags(0, q)
      BY ONLY <3>1, TagsConcat
    <3> QED BY <1>3, <2>2, <3>2
  <2>5. Len(Tags(0, q)) = q
    BY <1>2, TagsSeq
  <2> QED BY <1>1, <1>2, <2>3, <2>4, <2>5 DEF r
<1>5. CASE ~(p.off <= r /\ q > r)
  <2>1. NewData(p) = <<>>
    BY <1>5 DEF NewData, r, q
  <2>2. rcvd \in Seq(Nat)
    BY DEF StreamInv, TypeOK
  <2>3. rcvd \o NewData(p) = rcvd
    BY <2>1, <2>2
  <2> QED BY <1>3, <2>3 DEF r
<1> QED BY <1>4, <1>5

LEMMA ClientReceiveStep ==
    ASSUME StreamInv, NEW p \in packets, NEW keep \in BOOLEAN,
           NEW answered \in BOOLEAN, ClientReceive(p, keep, answered)
    PROVE  StreamInv'
<1>1. /\ rcvd' = rcvd \o NewData(p)
      /\ packets' \subseteq packets
      /\ ack_msgs' \subseteq ack_msgs \cup {Len(rcvd')}
      /\ UNCHANGED <<c_buf, reliable_offset, reliable_unsent, timer,
                     sent_this_loop, rtt_retransmit, acks, reason, written>>
  BY DEF ClientReceive, serverVars
<1>2. PICK n \in Nat : /\ Len(rcvd) <= n /\ n <= written
                       /\ Open => n <= reliable_unsent
                       /\ rcvd' = Tags(0, n)
                       /\ Len(rcvd') = n
  BY <1>1, NewDataIsNext
<1>3. rcvd' \in Seq(Nat)
  BY <1>2, TagsSeq
<1>4. /\ Len(rcvd) \in Nat /\ reliable_offset \in Nat
      /\ reliable_unsent \in Nat /\ written \in Nat
      /\ packets \subseteq Packet /\ ack_msgs \subseteq Nat
  BY DEF StreamInv, TypeOK
<1>5. TypeOK'
  <2>1. /\ packets' \subseteq Packet /\ ack_msgs' \subseteq Nat
        /\ rcvd' \in Seq(Nat)
    BY <1>1, <1>2, <1>3, <1>4
  <2> QED BY <1>1, <2>1 DEF StreamInv, TypeOK
<1>6. Open' = Open
  BY <1>1 DEF Open
<1>7. NothingLost'
  <2> SUFFICES ASSUME Open
               PROVE  /\ reliable_offset <= n
                      /\ c_buf = Tags(reliable_offset, written)
    BY <1>1, <1>2, <1>6 DEF NothingLost
  <2>1. reliable_offset <= Len(rcvd) /\ c_buf = Tags(reliable_offset, written)
    BY DEF StreamInv, NothingLost
  <2> QED BY <1>2, <1>4, <2>1
<1>8. UnsentBounds'
  BY <1>1, <1>2, <1>6 DEF StreamInv, UnsentBounds
<1>9. InFlightIsTrue'
  <2>1. ASSUME NEW rel \in ack_msgs'
        PROVE  rel <= n
    <3>1. CASE rel \in ack_msgs
      <4>1. rel <= Len(rcvd) /\ rel \in Nat
        BY <1>4, <3>1 DEF StreamInv, InFlightIsTrue
      <4> QED BY <1>2, <1>4, <4>1
    <3>2. CASE rel = Len(rcvd')
      BY <1>2, <3>2
    <3> QED BY <1>1, <3>1, <3>2
  <2>2. \A x \in packets' :
           /\ x.data = Tags(x.off, x.off + Len(x.data))
           /\ x.off + Len(x.data) <= written
           /\ Open => x.off + Len(x.data) <= reliable_unsent
    BY <1>1, OldDatagrams
  <2> QED BY <1>1, <1>2, <1>6, <2>1, <2>2 DEF InFlightIsTrue
<1>10. LossIsNoticed' /\ HonestClientKept'
  BY <1>1, <1>6 DEF StreamInv, LossIsNoticed, HonestClientKept
<1>11. (rcvd = Tags(0, Len(rcvd)) /\ Len(rcvd) <= written)'
  BY <1>1, <1>2
<1> QED BY <1>5, <1>7, <1>8, <1>9, <1>10, <1>11 DEF StreamInv

LEMMA ConnectionEndsStep ==
    ASSUME StreamInv, ConnectionEnds
    PROVE  StreamInv'
<1>1. /\ Destroy("ended")
      /\ UNCHANGED <<written, packets, ack_msgs, rcvd>>
  BY DEF ConnectionEnds
<1> QED BY <1>1, OldDatagrams, DestroyStep

THEOREM StreamStep == StreamInv /\ [Next]_vars => StreamInv'
<1> SUFFICES ASSUME StreamInv, [Next]_vars
             PROVE  StreamInv'
  OBVIOUS
<1>1. ASSUME NEW n \in WriteSizes, Write(n)
      PROVE  StreamInv'
  BY <1>1, WriteStep
<1>2. CASE Tick
  BY <1>2, TickStep
<1>3. ASSUME NEW w \in FrameSizes, SendCall(w)
      PROVE  StreamInv'
  BY <1>3, SendCallStep
<1>5. ASSUME NEW rel \in ack_msgs, NEW keep \in BOOLEAN, ReceiveAck(rel, keep)
      PROVE  StreamInv'
  BY <1>5, ReceiveAckStep
<1>6. ASSUME NEW p \in packets, NEW keep \in BOOLEAN, NEW answered \in BOOLEAN,
             ClientReceive(p, keep, answered)
      PROVE  StreamInv'
  BY <1>6, ClientReceiveStep
<1>7. CASE ConnectionEnds
  BY <1>7, ConnectionEndsStep
<1>8. CASE UNCHANGED vars
  BY <1>8 DEF vars, serverVars, StreamInv, TypeOK, NothingLost, UnsentBounds,
              InFlightIsTrue, LossIsNoticed, HonestClientKept, Open
<1> QED BY <1>1, <1>2, <1>3, <1>5, <1>6, <1>7, <1>8 DEF Next

\* The inductive invariant holds in every reachable state.
THEOREM StreamInvariance == Spec => []StreamInv
BY StreamInit, StreamStep, PTL DEF Spec

-----------------------------------------------------------------------------
(* The theorems of the component. *)

\* Types: every variable keeps its type.
THEOREM TypeCorrect == Spec => []TypeOK
<1>1. StreamInv => TypeOK
  BY DEF StreamInv
<1> QED BY <1>1, StreamInvariance, PTL

\* The client's stream is a prefix of what the server wrote, whatever the
\* network loses, repeats or reorders.
THEOREM StreamInOrder == Spec => []ReceivedIsPrefix
<1>1. StreamInv => ReceivedIsPrefix
  <2> SUFFICES ASSUME StreamInv PROVE ReceivedIsPrefix
    OBVIOUS
  <2> DEFINE n == Len(rcvd)
  <2>1. n \in Nat /\ rcvd = Tags(0, n) /\ n <= written
    BY DEF StreamInv, TypeOK
  <2> HIDE DEF n
  <2>2. \A i \in 1 .. n : Tags(0, n)[i] = i
    <3>1. \A i \in 1 .. n - 0 : Tags(0, n)[i] = 0 + i
      <4>1. 0 \in Nat /\ n \in Nat /\ 0 <= n
        BY <2>1
      <4> QED BY ONLY <4>1, TagsSeq
    <3>2. ASSUME NEW i \in 1 .. n
          PROVE  Tags(0, n)[i] = i
      <4>1. i \in 1 .. n - 0 /\ 0 + i = i
        BY <2>1
      <4>2. Tags(0, n)[i] = 0 + i
        BY ONLY <3>1, <4>1
      <4> QED BY ONLY <4>1, <4>2
    <3> QED BY <3>2
  <2>3. \A i \in 1 .. n : rcvd[i] = i
    BY <2>1, <2>2
  <2> QED BY <2>1, <2>3 DEF ReceivedIsPrefix, n
<1> QED BY <1>1, StreamInvariance, PTL

\* No byte leaves the server's buffer before the client has it.
THEOREM NoByteLost == Spec => []NothingLost
<1>1. StreamInv => NothingLost
  BY DEF StreamInv
<1> QED BY <1>1, StreamInvariance, PTL

\* A correct client is never destroyed for a bad acknowledgement.
THEOREM HonestClientIsKept == Spec => []HonestClientKept
<1>1. StreamInv => HonestClientKept
  BY DEF StreamInv
<1> QED BY <1>1, StreamInvariance, PTL

\* Unacknowledged data always has a running retransmission timer.
THEOREM LossAlwaysNoticed == Spec => []LossIsNoticed
<1>1. StreamInv => LossIsNoticed
  BY DEF StreamInv
<1> QED BY <1>1, StreamInvariance, PTL

\* The high-water mark of what was ever sent lies between what the client has and
\* what was written, through bursts cut short and retransmissions.
THEOREM UnsentIsBounded == Spec => []UnsentBounds
<1>1. StreamInv => UnsentBounds
  BY DEF StreamInv
<1> QED BY <1>1, StreamInvariance, PTL

\* Whatever is still in flight, however old, holds the bytes its offset says, and
\* no acknowledgement is ahead of the client.
THEOREM OldDatagramsAreTrue == Spec => []InFlightIsTrue
<1>1. StreamInv => InFlightIsTrue
  BY DEF StreamInv
<1> QED BY <1>1, StreamInvariance, PTL

\* All of these at once, as the run checks them.
THEOREM StreamIsSafe == Spec => []StreamSafe
<1>1. StreamSafe <=>
        TypeOK /\ ReceivedIsPrefix /\ NothingLost /\ UnsentBounds /\ LossIsNoticed /\ InFlightIsTrue
  BY DEF StreamSafe
<1> QED BY <1>1, TypeCorrect, StreamInOrder, NoByteLost, LossAlwaysNoticed, UnsentIsBounded,
           OldDatagramsAreTrue, PTL

-----------------------------------------------------------------------------
(* The stream implements the channel. *)

\* A step that moves neither the stream nor the client nor breaks the
\* connection is invisible, and one that only breaks it is Break.
LEMMA QuietStep ==
    ASSUME UNCHANGED <<written, rcvd>>, Open, Open' \/ ~Open'
    PROVE  [Channel!Next]_(Channel!vars)
<1>1. Tags(0, written)' = Tags(0, written)
  BY DEF Tags
<1>2. CASE Open'
  BY <1>1, <1>2 DEF Channel!vars
<1>3. CASE ~Open'
  <2>1. Open' = FALSE
    BY <1>3 DEF Open
  <2> QED BY <1>1, <2>1 DEF Channel!Next, Channel!Break
<1> QED BY <1>2, <1>3

LEMMA WriteIsPut ==
    ASSUME StreamInv, NEW n \in WriteSizes, Write(n)
    PROVE  [Channel!Next]_(Channel!vars)
<1>1. /\ Open /\ rcvd' = rcvd /\ written \in Nat /\ n \in Nat
      /\ written + n \in Nat /\ 0 <= written + n /\ 0 <= written
      /\ written <= written + n
  BY StreamAssumption DEF Write, StreamInv, TypeOK
<1>2. CASE Len(c_buf) + n <= BufSize
  <2>1. written' = written + n /\ Open' = Open
    BY <1>2 DEF Write, Open
  <2>2. Tags(0, written)' = Tags(0, written + n)
    BY <2>1 DEF Tags
  <2> DEFINE t == Tags(0, written + n)
             s == Tags(0, written)
  <2>3. t \in Seq(Nat) /\ Len(t) = written + n
    <3>1. 0 \in Nat /\ (written + n) - 0 = written + n
      BY <1>1
    <3> QED BY ONLY <1>1, <3>1, TagsSeq
  <2>4. Len(s) = written
    <3>1. 0 \in Nat /\ written - 0 = written
      BY <1>1
    <3> QED BY ONLY <1>1, <3>1, TagsSeq
  <2>5. SubSeq(t, 1, written) = s
    <3>1. /\ 0 \in Nat /\ written \in Nat /\ 1 \in Nat \ {0}
          /\ 1 <= written + 1 /\ 0 + 1 - 1 = 0 /\ 0 + written = written
      BY <1>1
    <3> DEFINE m == written + n
    <3>2. m \in Nat /\ 0 <= m /\ written <= m - 0
      BY <1>1
    <3> HIDE DEF m
    <3>3. Slice(0, m, 1, written) = Tags(0, written)
      BY ONLY <3>1, <3>2, TagsSubSeq
    <3> QED BY ONLY <3>3 DEF m, Slice, t
  <2> HIDE DEF t
  <2>6. /\ Tags(0, written)' = t /\ t \in Seq(Nat) /\ Len(s) <= Len(t)
        /\ s = SubSeq(t, 1, Len(s))
    BY <1>1, <2>2, <2>3, <2>4, <2>5 DEF t
  <2> HIDE DEF s
  <2>7. Channel!Put
    BY <1>1, <2>1, <2>6 DEF Channel!Put, s
  <2> QED BY <2>7 DEF Channel!Next
<1>3. CASE ~(Len(c_buf) + n <= BufSize)
  <2>1. written' = written
    BY <1>3 DEF Write
  <2> QED BY <1>1, <2>1, QuietStep
<1> QED BY <1>2, <1>3

LEMMA ReceiveIsDeliver ==
    ASSUME StreamInv, NEW p \in packets, NEW keep \in BOOLEAN,
           NEW answered \in BOOLEAN, ClientReceive(p, keep, answered)
    PROVE  [Channel!Next]_(Channel!vars)
<1>1. /\ rcvd' = rcvd \o NewData(p) /\ written' = written /\ reason' = reason
  BY DEF ClientReceive, serverVars
<1>2. PICK n \in Nat : /\ Len(rcvd) <= n /\ n <= written
                       /\ rcvd' = Tags(0, n)
  BY <1>1, NewDataIsNext
<1>3. written \in Nat /\ Len(rcvd) \in Nat
  BY DEF StreamInv, TypeOK
<1>4. Len(Tags(0, written)) = written
  <2>1. 0 \in Nat /\ 0 <= written
    BY <1>3
  <2> QED BY <1>3, <2>1, TagsSeq
<1>5. SubSeq(Tags(0, written), 1, n) = Tags(0, n)
  <2> DEFINE z == 0
             one == 1
  <2>1. /\ z \in Nat /\ z <= written /\ one \in Nat \ {0} /\ one <= n + 1
        /\ n \in Nat /\ written \in Nat /\ n <= written - z
        /\ z = z + one - 1 /\ n = z + n
    BY <1>2, <1>3
  <2> HIDE DEF z, one
  <2>2. Slice(z, written, one, n) = Tags(z, n)
    BY ONLY <2>1, TagsSubSeq
  <2> QED BY ONLY <2>2 DEF z, one, Slice
<1>6. /\ n \in Len(rcvd) .. Len(Tags(0, written))
      /\ rcvd' = SubSeq(Tags(0, written), 1, n)
  BY <1>2, <1>3, <1>4, <1>5
<1>7. Tags(0, written)' = Tags(0, written) /\ Open' = Open
  BY <1>1 DEF Tags, Open
<1>8. Channel!Deliver
  BY <1>6, <1>7 DEF Channel!Deliver
<1> QED BY <1>8 DEF Channel!Next

\* Every step of the stream is a step of the channel or changes none of it.
LEMMA StreamStepIsChannelStep ==
    StreamInv /\ [Next]_vars => [Channel!Next]_(Channel!vars)
<1> SUFFICES ASSUME StreamInv, [Next]_vars
             PROVE  [Channel!Next]_(Channel!vars)
  OBVIOUS
<1>1. ASSUME NEW n \in WriteSizes, Write(n)
      PROVE  [Channel!Next]_(Channel!vars)
  BY <1>1, WriteIsPut
<1>2. CASE Tick
  BY <1>2, QuietStep DEF Tick
<1>3. ASSUME NEW w \in FrameSizes, SendCall(w)
      PROVE  [Channel!Next]_(Channel!vars)
  BY <1>3, QuietStep DEF SendCall
<1>5. ASSUME NEW rel \in ack_msgs, NEW keep \in BOOLEAN, ReceiveAck(rel, keep)
      PROVE  [Channel!Next]_(Channel!vars)
  BY <1>5, QuietStep DEF ReceiveAck, Receive_ack
<1>6. ASSUME NEW p \in packets, NEW keep \in BOOLEAN, NEW answered \in BOOLEAN,
             ClientReceive(p, keep, answered)
      PROVE  [Channel!Next]_(Channel!vars)
  BY <1>6, ReceiveIsDeliver
<1>7. CASE ConnectionEnds
  BY <1>7, QuietStep DEF ConnectionEnds
<1>8. CASE UNCHANGED vars
  <2>1. UNCHANGED <<written, rcvd, reason>>
    BY <1>8 DEF vars, serverVars
  <2>2. UNCHANGED <<Tags(0, written), rcvd, Open>>
    BY <2>1 DEF Tags, Open
  <2> QED BY <2>2 DEF Channel!vars
<1> QED BY <1>1, <1>2, <1>3, <1>5, <1>6, <1>7, <1>8 DEF Next

\* The reliable stream implements the abstract channel (its safety part): only
\* the server's writes put bytes in, and the client gets them in order.
THEOREM StreamImplementsChannel == Spec => ImplementsChannel
<1>1. Init => Channel!Init
  BY DEF Init, Channel!Init, Tags, Open
<1>2. StreamInv /\ [Next]_vars => [Channel!Next]_(Channel!vars)
  BY StreamStepIsChannelStep
<1> QED BY <1>1, <1>2, StreamInvariance, PTL
        DEF Spec, ImplementsChannel, Channel!SafeSpec

-----------------------------------------------------------------------------
(* The life cycle of a connection.                                         *)

\* What the step needs besides the stream's own invariant: how much Handle_setup
\* may write depends on setup and c.
ConnInv == StreamInv /\ setup \in Nat

-----------------------------------------------------------------------------
(* Handle_setup never writes more than the window at once. *)

LEMMA SetupWriteBound ==
    ASSUME ConnInv
    PROVE  /\ HeaderToWrite + MapToWrite \in 0 .. SetupWindow
           /\ Greater(setup, MapStart) + MapToWrite \in Nat
<1>1. /\ HeaderLen \in Nat
      /\ MapLen \in Nat
      /\ SetupWindow \in Nat
      /\ HeaderLen <= SetupWindow
  <2>1. /\ {VerifyLen, HeaderLen, MapLen, SetupWindow} \subseteq Nat
        /\ VerifyLen + HeaderLen <= SetupWindow
    BY ConnectionAssumption DEF ConnectionAssumption
  <2> QED BY <2>1
<1>2. setup \in Nat
  BY DEF ConnInv
<1>3. Len(c_buf) \in Nat
  BY DEF ConnInv, StreamInv, TypeOK
<1> DEFINE len  == Len(c_buf)
           h    == HeaderToWrite
           room == SetupWindow - (len + h)
           todo == SetupSize - Greater(setup, MapStart)
<1>4. h \in Nat /\ h <= SetupWindow
  BY <1>1 DEF HeaderToWrite
<1>5. todo \in Int /\ Greater(setup, MapStart) \in Nat
  BY <1>1, <1>2 DEF SetupSize, MapStart, Greater
<1>6. MapToWrite = Greater(0, Lesser(room, todo))
  BY DEF MapToWrite
<1> HIDE DEF h, todo
<1>7. MapToWrite \in Nat /\ h + MapToWrite <= SetupWindow
  BY <1>1, <1>3, <1>4, <1>5, <1>6 DEF Greater, Lesser
<1> QED BY <1>1, <1>4, <1>5, <1>7 DEF h

-----------------------------------------------------------------------------
(* Every step is a step of the stream, or none. *)

LEMMA ConnStepIsStreamStep ==
    ASSUME ConnInv, ConnNext
    PROVE  [Next]_vars
<1>0. /\ {VerifyLen, ReplyLen, ReplyLen + InfoLen} \subseteq WriteSizes
      /\ InfoSizes \subseteq WriteSizes
      /\ 1 .. SetupWindow \subseteq WriteSizes
      /\ 0 \in FrameSizes
  BY ConnectionAssumption DEF ConnectionAssumption
<1>1. ASSUME NEW keep \in BOOLEAN, Handle_listening(keep)
      PROVE  Next
  BY <1>0, <1>1 DEF Handle_listening, Next
<1>2. ASSUME NEW keep \in BOOLEAN, Handle_login(keep)
      PROVE  Next
  <2>1. LoginLen \in WriteSizes
    BY <1>0 DEF LoginLen
  <2>2. Write(LoginLen)
    BY <1>2 DEF Handle_login
  <2> QED BY <2>1, <2>2 DEF Next
<1>3. ASSUME NEW keep \in BOOLEAN, Receive_play_again(keep)
      PROVE  Next
  BY <1>0, <1>3 DEF Receive_play_again, Next
<1>4. ASSUME NEW type \in ctl, NEW keep \in BOOLEAN, Discard(type, keep)
      PROVE  UNCHANGED vars
  BY <1>4 DEF Discard
<1>5. ASSUME NEW rel \in ack_msgs, NEW keep \in BOOLEAN, HandleAck(rel, keep)
      PROVE  Next
  <2>1. ReceiveAck(rel, keep)
    BY <1>5 DEF HandleAck
  <2> QED BY <2>1 DEF Next
<1>6. ASSUME NEW p \in packets, NEW keep \in BOOLEAN, NEW answered \in BOOLEAN,
             ClientReceives(p, keep, answered)
      PROVE  Next
  <2>1. ClientReceive(p, keep, answered)
    BY <1>6 DEF ClientReceives
  <2> QED BY <2>1 DEF Next
<1>7. ASSUME Confirm PROVE Next
  <2>1. SendCall(0) \/ ConnectionEnds
    BY <1>7 DEF Confirm
  <2> QED BY <2>1, <1>0 DEF Next
<1>8. ASSUME NEW real \in BOOLEAN, Main_loop(real) PROVE Next
  BY <1>8 DEF Main_loop, Next
<1>9. ASSUME Handle_setup PROVE [Next]_vars
  <2> DEFINE n == HeaderToWrite + MapToWrite
  <2>1. IF n > 0 THEN Write(n) ELSE UNCHANGED vars
    BY <1>9 DEF Handle_setup
  <2>2. n \in 0 .. SetupWindow
    BY SetupWriteBound
  <2> HIDE DEF n
  <2>3. SetupWindow \in Nat
    BY ConnectionAssumption DEF ConnectionAssumption
  <2>4. CASE n > 0
    <3>1. n \in WriteSizes
      BY <1>0, <2>2, <2>3, <2>4
    <3> QED BY <3>1, <2>1, <2>4 DEF Next
  <2>5. CASE ~(n > 0)
    BY <2>1, <2>5
  <2> QED BY <2>4, <2>5
<1>10. ASSUME InputSend PROVE [Next]_vars
  <2>1. (\E w \in FrameSizes : SendCall(w)) \/ UNCHANGED vars
    BY <1>10 DEF InputSend
  <2> QED BY <2>1 DEF Next
<1>11. ASSUME NEW n \in InfoSizes, SendInfo(n)
       PROVE  Next
  <2>1. Write(n) /\ n \in WriteSizes
    BY <1>0, <1>11 DEF SendInfo
  <2> QED BY <2>1 DEF Next
<1>12. ASSUME NEW type \in {"VERIFY", "PLAY"}, ClientSends(type)
       PROVE  UNCHANGED vars
  BY <1>12 DEF ClientSends
<1>13. ASSUME End PROVE Next
  BY <1>13 DEF End, Next
<1> QED
  BY <1>1, <1>2, <1>3, <1>4, <1>5, <1>6, <1>7, <1>8, <1>9, <1>10, <1>11,
     <1>12, <1>13 DEF ConnNext

-----------------------------------------------------------------------------
(* ... and keeps the invariant, for which only setup is left to show. *)

LEMMA SetupStep ==
    ASSUME ConnInv, ConnNext
    PROVE  setup' \in Nat
<1>0. setup \in Nat
  BY DEF ConnInv
<1>1. CASE Handle_setup
  <2>1. setup' = setup \/ setup' = Greater(setup, MapStart) + MapToWrite
    BY <1>1 DEF Handle_setup, Unless_destroyed
  <2> QED BY <2>1, <1>0, SetupWriteBound
<1>2. CASE ~Handle_setup
  <2>1. setup' = setup
    BY <1>2 DEF ConnNext, Handle_listening, Handle_login, Receive_play_again,
       Discard, HandleAck, ClientReceives, Confirm, Main_loop, InputSend,
       SendInfo, ClientSends, End, Unless_destroyed, lifeVars
  <2> QED BY <2>1, <1>0
<1> QED BY <1>1, <1>2

THEOREM ConnStep == ConnInv /\ [ConnNext]_connVars => ConnInv' /\ [Next]_vars
<1> SUFFICES ASSUME ConnInv, [ConnNext]_connVars
             PROVE  ConnInv' /\ [Next]_vars
  OBVIOUS
<1>1. [Next]_vars
  BY ConnStepIsStreamStep DEF connVars
<1>2. StreamInv'
  BY <1>1, StreamStep DEF ConnInv
<1>3. setup' \in Nat
  BY SetupStep DEF ConnInv, connVars, lifeVars
<1> QED BY <1>1, <1>2, <1>3 DEF ConnInv

\* Every connection is served by the reliable stream: the handlers of
\* netserver.cpp reach it only through its own operations.
THEOREM ConnectionUsesStream == ConnSpec => Spec
<1>1. ConnInit => ConnInv /\ Init
  BY StreamInit DEF ConnInit, ConnInv
<1> QED BY <1>1, ConnStep, PTL DEF ConnSpec, Spec

\* Hence a client that follows the protocol is never thrown out for a "bad_ack"
\* in any state of its connection, and what it receives is what was written.
THEOREM ConnectionKeepsStream ==
    ConnSpec => [](HonestClientKept /\ ReceivedIsPrefix /\ NothingLost)
BY ConnectionUsesStream, HonestClientIsKept, StreamInOrder, NoByteLost, PTL

-----------------------------------------------------------------------------
(* The stages of a login.  While the connection is verified and set up all *)
(* that was written is known to the byte, and c has room for what comes    *)
(* next; from the login on it matters only that the setup came before.     *)

\* The stream once setup says how much of the setup was written.
SetupWritten == VerifyLen + (IF setup = 0 THEN 0 ELSE HeaderLen + setup - MapStart)

\* Where Main_loop is depends on the state.
PhaseInv ==
    /\ phase = "confirm" => state = "LISTENING"
    /\ phase \in {"setup", "polled"} => state = "SETUP"
    /\ phase = "send" => state # "LISTENING"

\* What follows a state, and how far the setup has come in it.
StageInv ==
    /\ state = "LISTENING" => setup = 0
    /\ state = "DRAIN" => \/ drain_state = "SETUP" /\ setup = 0
                          \/ drain_state = "LOGIN" /\ setup = SetupSize
    /\ state = "SETUP" => setup < SetupSize
    /\ state = "LOGIN" => setup = SetupSize
    /\ state = "READY" => drain_state = "PLAYING"

\* What is in the stream.
WrittenInv ==
    /\ state = "LISTENING" =>
           /\ written = (IF phase = "confirm" THEN VerifyLen ELSE 0)
           /\ Len(c_buf) = written
    /\ state \in {"DRAIN", "SETUP", "LOGIN"} =>
           /\ written = SetupWritten
           /\ Len(c_buf) <= SetupWindow
           /\ setup = 0 => Len(c_buf) <= VerifyLen
    /\ state \in {"LISTENING", "DRAIN", "SETUP", "LOGIN"} => reply_start = NoReply
    /\ state \in {"READY", "PLAYING"} => reply_start # NoReply /\ written >= reply_start

LifeInv ==
    /\ ConnTypeOK
    /\ PhaseInv
    /\ StageInv
    /\ WrittenInv
    /\ NoOverflowBeforePlay
    /\ reply_start # NoReply => reply_start >= SetupEnd

-----------------------------------------------------------------------------
(* What the operations of the stream do to the little that matters here.   *)

LEMMA Lengths ==
    /\ VerifyLen \in Nat \ {0} /\ HeaderLen \in Nat \ {0} /\ MapLen \in Nat \ {0}
    /\ SetupWindow \in Nat \ {0} /\ ReplyLen \in Nat \ {0} /\ InfoLen \in Nat
    /\ BufSize \in Nat
    /\ VerifyLen + HeaderLen <= SetupWindow
    /\ SetupWindow + ReplyLen <= BufSize
    /\ \A n \in InfoSizes : n \in Nat
<1>1. /\ {VerifyLen, HeaderLen, MapLen, ReplyLen, SetupWindow} \subseteq Nat \ {0}
      /\ InfoLen \in Nat
      /\ VerifyLen + HeaderLen <= SetupWindow
      /\ SetupWindow + ReplyLen <= BufSize
      /\ InfoSizes \subseteq WriteSizes
  BY ConnectionAssumption DEF ConnectionAssumption
<1>2. WriteSizes \subseteq Nat /\ BufSize \in Nat
  BY StreamAssumption DEF StreamAssumption
<1> QED BY <1>1, <1>2

LEMMA WriteEffect ==
    ASSUME StreamInv, NEW n \in Nat, Write(n)
    PROVE  IF Len(c_buf) + n <= BufSize
           THEN reason' = reason /\ written' = written + n /\ Len(c_buf') = Len(c_buf) + n
           ELSE reason' = "write_error" /\ reason' # reason /\ written' = written
<1>1. written \in Nat /\ c_buf \in Seq(Nat) /\ reason = "none"
  BY DEF Write, Open, StreamInv, TypeOK
<1>2. CASE Len(c_buf) + n <= BufSize
  <2>1. c_buf' = c_buf \o Tags(written, written + n)
        /\ written' = written + n /\ reason' = reason
    BY <1>2 DEF Write
  <2>2. Tags(written, written + n) \in Seq(Nat) /\ Len(Tags(written, written + n)) = n
    <3>1. written + n \in Nat /\ written <= written + n /\ (written + n) - written = n
      BY <1>1
    <3> QED BY <1>1, <3>1, TagsSeq
  <2>3. Len(c_buf') = Len(c_buf) + n
    BY <1>1, <2>1, <2>2, ConcatProperties
  <2> QED BY <1>2, <2>1, <2>3
<1>3. CASE ~(Len(c_buf) + n <= BufSize)
  BY <1>1, <1>3 DEF Write, Destroy
<1> QED BY <1>2, <1>3

LEMMA SendEffect ==
    ASSUME StreamInv, NEW w, SendCall(w)
    PROVE  /\ written' = written
           /\ \/ reason' = reason /\ c_buf' = c_buf
              \/ reason' = "flush_error" /\ reason' # reason
BY DEF SendCall, Send_reliable, SendNothing, SendPackets, SendError, Destroy, Open

LEMMA AckEffect ==
    ASSUME StreamInv, NEW rel, NEW keep, ReceiveAck(rel, keep)
    PROVE  /\ written' = written
           /\ \/ reason' = reason /\ Len(c_buf') <= Len(c_buf)
              \/ reason' = "bad_ack" /\ reason' # reason
<1>1. /\ rel \in Nat /\ reliable_offset \in Nat /\ c_buf \in Seq(Nat)
      /\ reason = "none" /\ written' = written /\ Receive_ack(rel)
  BY DEF ReceiveAck, Receive_ack, Open, StreamInv, TypeOK
<1> DEFINE diff == rel - reliable_offset
<1>2. CASE ImpossibleAck(diff)
  BY <1>1, <1>2 DEF Receive_ack, Destroy
<1>3. CASE ~ImpossibleAck(diff) /\ diff <= 0
  BY <1>1, <1>3 DEF Receive_ack
<1>4. CASE ~ImpossibleAck(diff) /\ diff > 0
  <2>1. c_buf' = Advanced(c_buf, diff) /\ reason' = reason
    BY <1>1, <1>4 DEF Receive_ack
  <2>2. Len(c_buf) \in Nat /\ diff \in Nat
    BY <1>1, <1>4
  <2>3. Len(Advanced(c_buf, diff)) <= Len(c_buf)
    BY <1>1, <2>2, SubSeqProperties DEF Advanced
  <2> QED BY <1>1, <2>1, <2>3
<1> QED BY <1>1, <1>2, <1>3, <1>4

-----------------------------------------------------------------------------
(* Each handler keeps the invariant and goes at most one stage on.          *)

StageStep == Stage' \in {Stage, Stage + 1, 7}

\* The end of a connection.
LEMMA DestroyedLife ==
    ASSUME LifeInv, Destroyed, UNCHANGED <<setup, reply_start>>, reason' # "none",
           reason' = "write_error" => reply_start # NoReply,
           ctl' \subseteq {"VERIFY", "PLAY"}
    PROVE  LifeInv' /\ StageStep
<1>1. state' = "FREE" /\ drain_state' = "FREE" /\ phase' = "idle"
  BY DEF Destroyed, Conn_set_state
<1>2. ConnTypeOK'
  BY <1>1 DEF LifeInv, ConnTypeOK, Open, SetupSize, MapStart
<1>3. PhaseInv' /\ StageInv' /\ WrittenInv'
  BY <1>1 DEF PhaseInv, StageInv, WrittenInv
<1>4. Stage' = 7
  BY <1>1 DEF Stage
<1> QED BY <1>2, <1>3, <1>4 DEF LifeInv, NoOverflowBeforePlay, StageStep, SetupEnd

\* A step that leaves the state where it is and takes nothing but what is acknowledged
\* out of c.
LEMMA SameStageLife ==
    ASSUME LifeInv, UNCHANGED <<state, drain_state, setup, reply_start, reason, written>>,
           c_buf \in Seq(Nat), c_buf' \in Seq(Nat), Len(c_buf') <= Len(c_buf),
           state = "LISTENING" => UNCHANGED <<c_buf, phase>>,
           phase' \in {"idle", "confirm", "setup", "polled", "send"},
           PhaseInv', phase' # "idle" => Open,
           ctl' \subseteq {"VERIFY", "PLAY"}
    PROVE  LifeInv' /\ StageStep
<1>1. ConnTypeOK'
  BY DEF LifeInv, ConnTypeOK, Open, SetupSize, MapStart
<1>2. StageInv'
  BY DEF LifeInv, StageInv, SetupSize, MapStart
<1>3. WrittenInv'
  <2>1. SetupWritten' = SetupWritten
    BY DEF SetupWritten, MapStart
  <2>2. Len(c_buf) \in Nat /\ Len(c_buf') \in Nat
    OBVIOUS
  <2> QED BY <2>1, <2>2, Lengths DEF LifeInv, WrittenInv
<1>4. Stage' = Stage
  BY DEF Stage
<1> QED BY <1>1, <1>2, <1>3, <1>4 DEF LifeInv, NoOverflowBeforePlay, StageStep, SetupEnd

LEMMA ListeningLife ==
    ASSUME ConnInv, LifeInv, NEW keep \in BOOLEAN, Handle_listening(keep)
    PROVE  LifeInv' /\ StageStep
<1>1. /\ state = "LISTENING" /\ phase = "idle" /\ phase' = "confirm"
      /\ UNCHANGED <<state, drain_state, setup, reply_start>>
      /\ Write(VerifyLen)
      /\ ctl' \subseteq {"VERIFY", "PLAY"}
  BY DEF Handle_listening, LifeInv, ConnTypeOK
<1>2. setup = 0 /\ written = 0 /\ Len(c_buf) = 0 /\ reply_start = NoReply
  BY <1>1 DEF LifeInv, StageInv, WrittenInv
<1>3. reason' = reason /\ written' = VerifyLen /\ Len(c_buf') = VerifyLen
  BY <1>1, <1>2, Lengths, WriteEffect DEF ConnInv
<1>4. ConnTypeOK' /\ Stage' = Stage
  BY <1>1, <1>3 DEF LifeInv, ConnTypeOK, Open, Stage, SetupSize, MapStart
<1>5. PhaseInv' /\ StageInv' /\ WrittenInv'
  BY <1>1, <1>2, <1>3 DEF PhaseInv, StageInv, WrittenInv
<1> QED
  BY <1>1, <1>2, <1>3, <1>4, <1>5
  DEF LifeInv, NoOverflowBeforePlay, StageStep, Write, Open

LEMMA ConfirmLife ==
    ASSUME ConnInv, LifeInv, Confirm
    PROVE  LifeInv' /\ StageStep
<1>1. /\ phase = "confirm" /\ state = "LISTENING"
      /\ setup = 0 /\ reply_start = NoReply
      /\ written = VerifyLen /\ Len(c_buf) = VerifyLen
      /\ ctl' \subseteq {"VERIFY", "PLAY"}
  BY DEF Confirm, LifeInv, PhaseInv, StageInv, WrittenInv, ConnTypeOK
<1>2. CASE SendCall(0) /\ reason' = reason
  <2>1. /\ Conn_set_state("DRAIN", "SETUP") /\ phase' = "idle"
        /\ UNCHANGED <<setup, reply_start>>
    BY <1>2 DEF Confirm, ConnectionEnds, Destroy, Unless_destroyed, Open, SendCall
  <2>2. written' = written /\ c_buf' = c_buf
    BY <1>2, SendEffect DEF ConnInv
  <2>3. Open /\ Open' /\ state' = "DRAIN" /\ drain_state' = "SETUP"
    BY <1>2, <2>1 DEF SendCall, Open, Conn_set_state
  <2>4. ConnTypeOK' /\ Stage = 0 /\ Stage' = 1
    BY <1>1, <2>1, <2>3 DEF LifeInv, ConnTypeOK, Stage, SetupSize, MapStart
  <2>5. PhaseInv' /\ StageInv'
    BY <1>1, <2>1, <2>3 DEF PhaseInv, StageInv
  <2>6. SetupWritten' = VerifyLen
    BY <1>1, <2>1, Lengths DEF SetupWritten
  <2>7. WrittenInv'
    BY <1>1, <2>1, <2>2, <2>3, <2>6, Lengths DEF WrittenInv
  <2> QED
    BY <1>1, <1>2, <2>1, <2>4, <2>5, <2>7 DEF LifeInv, NoOverflowBeforePlay, StageStep
<1>3. CASE SendCall(0) /\ reason' # reason
  <2>1. Destroyed /\ UNCHANGED <<setup, reply_start>> /\ reason' = "flush_error"
    BY <1>3, SendEffect DEF Confirm, ConnectionEnds, Destroy, Unless_destroyed, ConnInv
  <2> QED BY <1>1, <2>1, DestroyedLife
<1>4. CASE ConnectionEnds /\ Destroyed /\ UNCHANGED <<setup, reply_start>>
  <2>1. reason' = "ended"
    BY <1>4 DEF ConnectionEnds, Destroy
  <2> QED BY <1>1, <1>4, <2>1, DestroyedLife
<1> QED BY <1>2, <1>3, <1>4 DEF Confirm

LEMMA MainLoopLife ==
    ASSUME ConnInv, LifeInv, NEW real \in BOOLEAN, Main_loop(real)
    PROVE  LifeInv' /\ StageStep
<1>1. /\ UNCHANGED <<state, drain_state, setup, reply_start, reason, written, c_buf, ctl>>
      /\ Open /\ phase = "idle"
      /\ phase' = CASE real /\ state = "SETUP" -> "setup"
                    [] real /\ state \in {"DRAIN", "LOGIN", "READY"} -> "send"
                    [] state = "PLAYING" -> "send"
                    [] OTHER -> "idle"
  BY DEF Main_loop, Tick
<1>2. \/ state = "SETUP" /\ phase' = "setup"
      \/ state \in {"DRAIN", "LOGIN", "READY", "PLAYING"} /\ phase' = "send"
      \/ phase' = "idle"
  BY <1>1
<1>3. c_buf \in Seq(Nat) /\ Len(c_buf') <= Len(c_buf)
  BY <1>1 DEF ConnInv, StreamInv, TypeOK
<1>4. PhaseInv' /\ (state = "LISTENING" => phase' = phase)
  BY <1>1, <1>2 DEF PhaseInv
<1>5. phase' \in {"idle", "setup", "send"} /\ ctl' \subseteq {"VERIFY", "PLAY"}
  BY <1>1, <1>2 DEF LifeInv, ConnTypeOK
<1> QED BY <1>1, <1>3, <1>4, <1>5, SameStageLife

LEMMA InputSendLife ==
    ASSUME ConnInv, LifeInv, InputSend
    PROVE  LifeInv' /\ StageStep
<1>1. phase = "send" /\ state # "LISTENING" /\ ctl' \subseteq {"VERIFY", "PLAY"}
  BY DEF InputSend, LifeInv, PhaseInv, ConnTypeOK
<1>2. c_buf \in Seq(Nat) /\ Len(c_buf) <= Len(c_buf)
  BY DEF ConnInv, StreamInv, TypeOK
<1>3. ASSUME NEW w \in FrameSizes, SendCall(w),
             Unless_destroyed(phase' = "idle" /\
                              UNCHANGED <<state, drain_state, setup, reply_start>>)
      PROVE  LifeInv' /\ StageStep
  <2>1. CASE reason' = reason
    <3>1. phase' = "idle" /\ UNCHANGED <<state, drain_state, setup, reply_start>>
      BY <1>3, <2>1 DEF Unless_destroyed
    <3>2. written' = written /\ c_buf' = c_buf
      BY <1>3, <2>1, SendEffect DEF ConnInv
    <3> QED BY <1>1, <1>2, <2>1, <3>1, <3>2, SameStageLife DEF PhaseInv
  <2>2. CASE reason' # reason
    <3>1. Destroyed /\ UNCHANGED <<setup, reply_start>> /\ reason' = "flush_error"
      BY <1>3, <2>2, SendEffect DEF Unless_destroyed, ConnInv
    <3> QED BY <1>1, <3>1, DestroyedLife
  <2> QED BY <2>1, <2>2
<1>4. CASE phase' = "idle" /\ UNCHANGED <<vars, state, drain_state, setup, reply_start>>
  <2>1. UNCHANGED <<reason, written, c_buf>>
    BY <1>4 DEF vars, serverVars
  <2> QED BY <1>1, <1>2, <1>4, <2>1, SameStageLife DEF PhaseInv
<1> QED BY <1>3, <1>4 DEF InputSend

LEMMA DiscardLife ==
    ASSUME ConnInv, LifeInv, NEW type \in ctl, NEW keep \in BOOLEAN, Discard(type, keep)
    PROVE  LifeInv' /\ StageStep
<1>1. /\ UNCHANGED <<state, drain_state, setup, reply_start>> /\ UNCHANGED vars
      /\ ctl' \subseteq {"VERIFY", "PLAY"}
  BY DEF Discard, LifeInv, ConnTypeOK
<1>2. UNCHANGED <<reason, written, c_buf>>
  BY <1>1 DEF vars, serverVars
<1>3. c_buf \in Seq(Nat) /\ Len(c_buf') <= Len(c_buf)
  BY <1>2 DEF ConnInv, StreamInv, TypeOK
<1>4. CASE phase' = phase
  <2>1. PhaseInv' /\ phase' \in {"idle", "confirm", "setup", "polled", "send"}
        /\ (phase' # "idle" => Open)
    BY <1>1, <1>4 DEF LifeInv, ConnTypeOK, PhaseInv
  <2> QED BY <1>1, <1>2, <1>3, <1>4, <2>1, SameStageLife
<1>5. CASE CanPoll /\ phase' = "polled"
  <2>1. state = "SETUP" /\ Open
    BY <1>5 DEF CanPoll, LifeInv, PhaseInv, ConnTypeOK
  <2> QED BY <1>1, <1>2, <1>3, <1>5, <2>1, SameStageLife DEF PhaseInv
<1> QED BY <1>4, <1>5 DEF Discard

\* A step that changes nothing but what is acknowledged, or the stream goes down.
LEMMA StreamOnlyLife ==
    ASSUME ConnInv, LifeInv, state # "LISTENING", StreamInv', UNCHANGED written,
           \/ reason' = reason /\ Len(c_buf') <= Len(c_buf)
           \/ reason' \notin {"none", "write_error"} /\ reason' # reason,
           Unless_destroyed(UNCHANGED lifeVars),
           ctl' \subseteq {"VERIFY", "PLAY"}
    PROVE  LifeInv' /\ StageStep
<1>1. c_buf \in Seq(Nat) /\ c_buf' \in Seq(Nat)
  BY DEF ConnInv, StreamInv, TypeOK
<1>2. CASE reason' = reason
  <2>1. UNCHANGED <<state, drain_state, setup, reply_start, phase>>
    BY <1>2 DEF Unless_destroyed, lifeVars
  <2>2. PhaseInv' /\ phase' \in {"idle", "confirm", "setup", "polled", "send"}
        /\ (phase' # "idle" => Open)
    BY <2>1 DEF LifeInv, ConnTypeOK, PhaseInv
  <2> QED BY <1>1, <1>2, <2>1, <2>2, SameStageLife
<1>3. CASE reason' # reason
  <2>1. Destroyed /\ UNCHANGED <<setup, reply_start>>
    BY <1>3 DEF Unless_destroyed
  <2> QED BY <1>3, <2>1, DestroyedLife
<1> QED BY <1>2, <1>3

LEMMA PlayAgainLife ==
    ASSUME ConnInv, LifeInv, StreamInv', NEW keep \in BOOLEAN, Receive_play_again(keep)
    PROVE  LifeInv' /\ StageStep
<1>1. SendCall(0) /\ state = "PLAYING" /\ Unless_destroyed(UNCHANGED lifeVars)
      /\ ctl' \subseteq {"VERIFY", "PLAY"}
  BY DEF Receive_play_again, LifeInv, ConnTypeOK
<1>2. /\ written' = written
      /\ \/ reason' = reason /\ c_buf' = c_buf
         \/ reason' = "flush_error" /\ reason' # reason
  BY <1>1, SendEffect DEF ConnInv
<1>3. c_buf' = c_buf => Len(c_buf') <= Len(c_buf)
  BY DEF ConnInv, StreamInv, TypeOK
<1> QED BY <1>1, <1>2, <1>3, StreamOnlyLife

LEMMA AckLife ==
    ASSUME ConnInv, LifeInv, StreamInv', NEW rel \in ack_msgs, NEW keep \in BOOLEAN,
           HandleAck(rel, keep)
    PROVE  LifeInv' /\ StageStep
<1>1. /\ phase = "idle" \/ (phase = "setup" /\ state = "SETUP")
      /\ state \notin {"FREE", "LISTENING"}
      /\ ctl' \subseteq {"VERIFY", "PLAY"}
      /\ ReceiveAck(rel, keep)
  BY DEF HandleAck, CanPoll, LifeInv, ConnTypeOK, PhaseInv
<1>2. /\ written' = written
      /\ \/ reason' = reason /\ Len(c_buf') <= Len(c_buf)
         \/ reason' = "bad_ack" /\ reason' # reason
  BY <1>1, AckEffect DEF ConnInv
<1>3. c_buf \in Seq(Nat) /\ c_buf' \in Seq(Nat)
  BY DEF ConnInv, StreamInv, TypeOK
<1>4. CASE reason' # reason
  <2>1. Destroyed /\ UNCHANGED <<setup, reply_start>>
    BY <1>4 DEF HandleAck, Unless_destroyed
  <2> QED BY <1>1, <1>2, <1>4, <2>1, DestroyedLife
<1>5. CASE reason' = reason
  <2>1. /\ \E looks \in LooksLikeReply :
               state' = AckedState(rel > reliable_offset, looks)
        /\ drain_state' = IF state' = state THEN drain_state ELSE state'
        /\ phase' = IF phase = "setup" THEN "polled" ELSE phase
        /\ UNCHANGED <<setup, reply_start>>
    BY <1>5 DEF HandleAck, Unless_destroyed
  <2>2. state' = state \/ (state \in {"DRAIN", "READY"} /\ state' = drain_state)
    BY <2>1 DEF AckedState
  <2>3. phase' = phase \/ (phase' = "polled" /\ state = "SETUP")
    BY <1>1, <2>1
  <2>4. Open /\ Open'
    BY <1>1, <1>5 DEF LifeInv, ConnTypeOK, Open
  <2>5. CASE state' = state
    <3>1. drain_state' = drain_state
      BY <2>1, <2>5
    <3>2. PhaseInv' /\ phase' \in {"idle", "confirm", "setup", "polled", "send"}
      BY <2>3, <2>5 DEF LifeInv, ConnTypeOK, PhaseInv
    <3> QED
      BY <1>1, <1>2, <1>3, <1>5, <2>1, <2>4, <2>5, <3>1, <3>2, SameStageLife
  <2>6. CASE state = "DRAIN" /\ drain_state = "SETUP" /\ state' = "SETUP"
    <3>1. setup = 0 /\ 0 < SetupSize /\ phase' = "idle" /\ drain_state' = "SETUP"
      BY <1>1, <2>1, <2>6, Lengths
      DEF LifeInv, StageInv, SetupSize, MapStart
    <3>2. Stage = 1 /\ Stage' = 2 /\ PhaseInv' /\ StageInv'
      BY <2>1, <2>6, <3>1 DEF Stage, PhaseInv, StageInv, SetupSize, MapStart
    <3>3. WrittenInv'
      <4>1. SetupWritten' = SetupWritten
        BY <2>1 DEF SetupWritten, MapStart
      <4>2. Len(c_buf) \in Nat /\ Len(c_buf') \in Nat
        BY <1>3
      <4> QED
        BY <1>2, <1>5, <2>1, <2>6, <4>1, <4>2, Lengths DEF LifeInv, WrittenInv
    <3>4. ConnTypeOK'
      BY <1>1, <2>1, <2>4, <2>6, <3>1 DEF LifeInv, ConnTypeOK, Open, SetupSize, MapStart
    <3> QED
      BY <1>2, <1>5, <2>1, <3>2, <3>3, <3>4
      DEF LifeInv, NoOverflowBeforePlay, StageStep, SetupEnd
  <2>7. CASE state = "DRAIN" /\ drain_state = "LOGIN" /\ state' = "LOGIN"
    <3>1. setup = SetupSize /\ phase' = "idle" /\ drain_state' = "LOGIN"
      BY <1>1, <2>1, <2>7, Lengths
      DEF LifeInv, StageInv, SetupSize, MapStart
    <3>2. Stage = 3 /\ Stage' = 4 /\ PhaseInv' /\ StageInv'
      BY <2>1, <2>7, <3>1 DEF Stage, PhaseInv, StageInv, SetupSize, MapStart
    <3>3. WrittenInv'
      <4>1. SetupWritten' = SetupWritten
        BY <2>1 DEF SetupWritten, MapStart
      <4>2. Len(c_buf) \in Nat /\ Len(c_buf') \in Nat
        BY <1>3
      <4> QED
        BY <1>2, <1>5, <2>1, <2>7, <4>1, <4>2, Lengths DEF LifeInv, WrittenInv
    <3>4. ConnTypeOK'
      BY <1>1, <2>1, <2>4, <2>7, <3>1 DEF LifeInv, ConnTypeOK, Open, SetupSize, MapStart
    <3> QED
      BY <1>2, <1>5, <2>1, <3>2, <3>3, <3>4
      DEF LifeInv, NoOverflowBeforePlay, StageStep, SetupEnd
  <2>8. CASE state = "READY" /\ state' = "PLAYING"
    <3>1. phase' = "idle" /\ drain_state' = "PLAYING"
      BY <1>1, <2>1, <2>8
    <3>2. Stage = 5 /\ Stage' = 6 /\ PhaseInv' /\ StageInv' /\ WrittenInv'
      BY <1>2, <1>5, <2>1, <2>8, <3>1
      DEF LifeInv, Stage, PhaseInv, StageInv, WrittenInv, SetupSize, MapStart
    <3>3. ConnTypeOK'
      BY <1>1, <2>1, <2>4, <2>8, <3>1 DEF LifeInv, ConnTypeOK, Open, SetupSize, MapStart
    <3> QED
      BY <1>2, <1>5, <2>1, <3>2, <3>3
      DEF LifeInv, NoOverflowBeforePlay, StageStep, SetupEnd
  <2>9. /\ state = "DRAIN" => drain_state \in {"SETUP", "LOGIN"}
        /\ state = "READY" => drain_state = "PLAYING"
    BY DEF LifeInv, StageInv
  <2> QED BY <2>2, <2>5, <2>6, <2>7, <2>8, <2>9
<1> QED BY <1>4, <1>5

LEMMA SendInfoLife ==
    ASSUME ConnInv, LifeInv, StreamInv', NEW n \in InfoSizes, SendInfo(n)
    PROVE  LifeInv' /\ StageStep
<1>1. /\ Write(n) /\ state \in {"READY", "PLAYING"} /\ n \in Nat
      /\ Unless_destroyed(UNCHANGED lifeVars)
      /\ ctl' \subseteq {"VERIFY", "PLAY"}
  BY Lengths DEF SendInfo, LifeInv, ConnTypeOK
<1>2. written \in Nat /\ reply_start # NoReply
      /\ reply_start \in Nat /\ written >= reply_start
  BY <1>1 DEF LifeInv, WrittenInv, ConnTypeOK, ConnInv, StreamInv, TypeOK
<1>3. CASE reason' = reason
  <2>1. written' = written + n
    BY <1>1, <1>3, WriteEffect DEF ConnInv
  <2>2. UNCHANGED <<state, drain_state, setup, phase, reply_start>>
    BY <1>1, <1>3 DEF Unless_destroyed, lifeVars
  <2>3. ConnTypeOK' /\ Stage' = Stage
    BY <1>1, <1>3, <2>2 DEF LifeInv, ConnTypeOK, Stage, Open, SetupSize, MapStart
  <2>4. PhaseInv' /\ StageInv' /\ WrittenInv'
    BY <1>1, <1>2, <2>1, <2>2
    DEF LifeInv, PhaseInv, StageInv, WrittenInv, SetupSize, MapStart
  <2> QED
    BY <1>2, <1>3, <2>2, <2>3, <2>4
    DEF LifeInv, NoOverflowBeforePlay, StageStep, SetupEnd
<1>4. CASE reason' # reason
  <2>1. Destroyed /\ UNCHANGED <<setup, reply_start>>
    BY <1>1, <1>4 DEF Unless_destroyed
  <2>2. reason' = "write_error"
    BY <1>1, <1>4, WriteEffect DEF ConnInv
  <2> QED BY <1>1, <1>2, <2>1, <2>2, DestroyedLife
<1> QED BY <1>3, <1>4

LEMMA EndLife ==
    ASSUME ConnInv, LifeInv, End
    PROVE  LifeInv' /\ StageStep
<1>1. /\ Destroyed /\ UNCHANGED <<setup, reply_start>> /\ reason' = "ended"
      /\ ctl' \subseteq {"VERIFY", "PLAY"}
  BY DEF End, ConnectionEnds, Destroy, LifeInv, ConnTypeOK
<1> QED BY <1>1, DestroyedLife

\* The client.
LEMMA ClientLife ==
    ASSUME ConnInv, LifeInv, UNCHANGED lifeVars, UNCHANGED <<reason, written, c_buf>>,
           ctl' \subseteq {"VERIFY", "PLAY"}
    PROVE  LifeInv' /\ StageStep
<1>1. UNCHANGED <<state, drain_state, setup, reply_start, phase>>
  BY DEF lifeVars
<1>2. c_buf \in Seq(Nat) /\ Len(c_buf') <= Len(c_buf)
  BY DEF ConnInv, StreamInv, TypeOK
<1>3. PhaseInv' /\ phase' \in {"idle", "confirm", "setup", "polled", "send"}
      /\ (phase' # "idle" => Open)
  BY <1>1 DEF LifeInv, ConnTypeOK, PhaseInv
<1> QED BY <1>1, <1>2, <1>3, SameStageLife

\* A login: the setup is in the stream, and there is room for the reply.
LEMMA LoginLife ==
    ASSUME ConnInv, LifeInv, StreamInv', NEW keep \in BOOLEAN, Handle_login(keep)
    PROVE  LifeInv' /\ StageStep
<1>1. /\ phase = "idle" /\ state = "LOGIN" /\ Write(LoginLen)
      /\ ctl' \subseteq {"VERIFY", "PLAY"}
  BY DEF Handle_login, LifeInv, ConnTypeOK
<1>2. /\ setup = SetupSize /\ reply_start = NoReply
      /\ written = SetupWritten /\ Len(c_buf) <= SetupWindow
  BY <1>1 DEF LifeInv, StageInv, WrittenInv
<1>3. Len(c_buf) \in Nat /\ written \in Nat
  BY DEF ConnInv, StreamInv, TypeOK
<1>4. written = SetupEnd
  BY <1>2, Lengths DEF SetupWritten, SetupEnd, SetupSize, MapStart
<1>5. LoginLen \in Nat /\ Len(c_buf) + LoginLen <= BufSize
  BY <1>2, <1>3, Lengths DEF LoginLen
<1>6. reason' = reason /\ written' = written + LoginLen
  BY <1>1, <1>5, WriteEffect DEF ConnInv
<1>7. /\ state' = "READY" /\ drain_state' = "PLAYING" /\ reply_start' = written
      /\ UNCHANGED <<setup, phase>>
  BY <1>6 DEF Handle_login, Unless_destroyed, Conn_set_state
<1>8. reply_start' # NoReply
  BY <1>3, <1>7 DEF NoReply
<1>9. ConnTypeOK' /\ Stage = 4 /\ Stage' = 5
  BY <1>1, <1>3, <1>6, <1>7 DEF LifeInv, ConnTypeOK, Stage, Open, SetupSize, MapStart
<1>10. PhaseInv' /\ StageInv' /\ WrittenInv'
  BY <1>1, <1>3, <1>5, <1>6, <1>7, <1>8
  DEF LifeInv, PhaseInv, StageInv, WrittenInv, SetupSize, MapStart
<1>11. reply_start' >= SetupEnd'
  BY <1>3, <1>4, <1>7 DEF SetupEnd
<1>12. NoOverflowBeforePlay'
  BY <1>8 DEF NoOverflowBeforePlay
<1>13. StageStep
  BY <1>9 DEF StageStep
<1> QED BY <1>9, <1>10, <1>11, <1>12, <1>13 DEF LifeInv

\* What Handle_setup writes fits, counts, and ends with the last of the map.
LEMMA SetupLife ==
    ASSUME ConnInv, LifeInv, Handle_setup
    PROVE  LifeInv' /\ StageStep
<1> DEFINE len == Len(c_buf)
           h   == HeaderToWrite
           m   == MapToWrite
<1>1. /\ phase \in {"setup", "polled"} /\ state = "SETUP" /\ Open
      /\ reply_start = NoReply /\ ctl' \subseteq {"VERIFY", "PLAY"}
  BY DEF Handle_setup, LifeInv, PhaseInv, ConnTypeOK, WrittenInv
<1>2. /\ setup \in 0 .. SetupSize /\ setup < SetupSize /\ SetupSize = 1 + MapLen
      /\ written = SetupWritten /\ len <= SetupWindow /\ (setup = 0 => len <= VerifyLen)
  BY <1>1 DEF LifeInv, StageInv, WrittenInv, ConnTypeOK, SetupSize, MapStart
<1>3. len \in Nat /\ written \in Nat
  BY DEF ConnInv, StreamInv, TypeOK
<1>4. h = IF setup = 0 THEN HeaderLen ELSE 0
  BY DEF HeaderToWrite
<1>5. m = Greater(0, Lesser(SetupWindow - (len + h), SetupSize - Greater(setup, 1)))
  BY DEF MapToWrite, MapStart
<1> HIDE DEF h, m
<1>6. /\ Greater(setup, 1) = IF setup = 0 THEN 1 ELSE setup
      /\ Greater(setup, 1) \in 1 .. SetupSize
  BY <1>2, Lengths DEF Greater
<1>7. /\ m \in Nat
      /\ m <= SetupSize - Greater(setup, 1)
      /\ len + h + m <= SetupWindow
      /\ h \in Nat
  <2>1. len + h <= SetupWindow /\ h \in Nat
    BY <1>2, <1>3, <1>4, Lengths
  <2> DEFINE room == SetupWindow - (len + h)
             todo == SetupSize - Greater(setup, 1)
  <2>2. room \in Nat /\ todo \in Nat /\ SetupWindow = room + (len + h)
    BY <1>2, <1>3, <1>6, <2>1, Lengths
  <2>3. m = Greater(0, Lesser(room, todo))
    BY <1>5
  <2> HIDE DEF room, todo
  <2>4. m \in Nat /\ m <= todo /\ m <= room
    BY <2>2, <2>3 DEF Greater, Lesser
  <2>5. m <= SetupSize - Greater(setup, 1)
    BY <2>4 DEF todo
  <2> QED BY <1>3, <2>1, <2>2, <2>4, <2>5
<1>8. /\ reason' = reason /\ written' = written + (h + m)
      /\ Len(c_buf') = len + (h + m)
  <2>1. CASE h + m > 0
    <3>1. Write(h + m)
      BY <2>1 DEF Handle_setup, h, m
    <3>2. h + m \in Nat /\ len + (h + m) <= BufSize
      BY <1>3, <1>7, Lengths
    <3> QED BY <3>1, <3>2, WriteEffect DEF ConnInv
  <2>2. CASE ~(h + m > 0)
    <3>1. UNCHANGED <<reason, written, c_buf>>
      BY <2>2 DEF Handle_setup, h, m, vars, serverVars
    <3> QED BY <1>3, <1>7, <2>2, <3>1
  <2> QED BY <2>1, <2>2
<1>9. /\ setup' = Greater(setup, 1) + m
      /\ phase' = "send"
      /\ IF setup' >= SetupSize
         THEN state' = "DRAIN" /\ drain_state' = "LOGIN"
         ELSE UNCHANGED <<state, drain_state>>
      /\ reply_start' = reply_start
  BY <1>8 DEF Handle_setup, Unless_destroyed, Conn_set_state, m, MapStart
<1>10. setup' \in 1 .. SetupSize
  BY <1>2, <1>6, <1>7, <1>9, Lengths
<1>11. written' = SetupWritten'
  <2>1. SetupWritten' = VerifyLen + HeaderLen + setup' - 1
    <3>1. SetupWritten' = VerifyLen + (IF setup' = 0 THEN 0 ELSE HeaderLen + setup' - 1)
      BY DEF SetupWritten, MapStart
    <3>2. setup' # 0 /\ setup' \in Int
      BY <1>2, <1>10, Lengths
    <3>3. SetupWritten' = VerifyLen + (HeaderLen + setup' - 1)
      BY <3>1, <3>2
    <3> QED BY <3>2, <3>3, Lengths
  <2>2. written + h = VerifyLen + HeaderLen + Greater(setup, 1) - 1
    BY <1>2, <1>4, <1>6, Lengths DEF SetupWritten, MapStart
  <2>3. /\ written \in Int /\ h \in Int /\ m \in Int /\ Greater(setup, 1) \in Int
        /\ VerifyLen \in Int /\ HeaderLen \in Int
    BY <1>2, <1>3, <1>6, <1>7, Lengths
  <2> QED BY ONLY <1>8, <1>9, <2>1, <2>2, <2>3
<1>12. \/ state' = "DRAIN" /\ drain_state' = "LOGIN" /\ setup' = SetupSize
       \/ state' = "SETUP" /\ drain_state' = drain_state /\ setup' < SetupSize
  BY <1>1, <1>2, <1>9, <1>10, Lengths
<1>13. PhaseInv' /\ StageInv'
  BY <1>9, <1>12 DEF PhaseInv, StageInv, SetupSize, MapStart
<1>14. WrittenInv'
  <2>1. setup' # 0 /\ Len(c_buf') <= SetupWindow
    BY <1>3, <1>7, <1>8, <1>10, Lengths
  <2> QED BY <1>1, <1>9, <1>11, <1>12, <2>1 DEF WrittenInv
<1>15. Stage = 2 /\ Stage' \in {2, 3}
  BY <1>1, <1>12 DEF Stage
<1>16. ConnTypeOK'
  <2>1. setup' \in (0 .. SetupSize)'
    BY <1>2, <1>10, Lengths DEF SetupSize, MapStart
  <2> QED BY <1>1, <1>8, <1>9, <1>12, <2>1 DEF LifeInv, ConnTypeOK, Open
<1>17. StageStep
  BY <1>15 DEF StageStep
<1>18. reason = "none"
  BY <1>1 DEF Open
<1> QED
  BY <1>1, <1>8, <1>9, <1>13, <1>14, <1>16, <1>17, <1>18
  DEF LifeInv, NoOverflowBeforePlay

-----------------------------------------------------------------------------
(* The theorems about the stages.                                          *)

LEMMA LifeStart == ConnInit => LifeInv
<1> SUFFICES ASSUME ConnInit PROVE LifeInv
  OBVIOUS
<1>1. ConnTypeOK
  BY Lengths DEF ConnInit, Init, ConnTypeOK, Open, SetupSize, MapStart
<1>2. PhaseInv /\ StageInv /\ WrittenInv
  BY DEF ConnInit, Init, PhaseInv, StageInv, WrittenInv
<1> QED BY <1>1, <1>2 DEF LifeInv, NoOverflowBeforePlay, ConnInit, Init

LEMMA LifeStep ==
    ASSUME ConnInv, LifeInv, StreamInv', ConnNext
    PROVE  LifeInv' /\ StageStep
<1>1. ASSUME NEW p \in packets, NEW keep \in BOOLEAN, NEW answered \in BOOLEAN,
             ClientReceives(p, keep, answered)
      PROVE  LifeInv' /\ StageStep
  <2>1. UNCHANGED lifeVars /\ UNCHANGED <<reason, written, c_buf>>
        /\ ctl' \subseteq {"VERIFY", "PLAY"}
    BY <1>1 DEF ClientReceives, ClientReceive, serverVars, LifeInv, ConnTypeOK
  <2> QED BY <2>1, ClientLife
<1>2. ASSUME NEW type \in {"VERIFY", "PLAY"}, ClientSends(type)
      PROVE  LifeInv' /\ StageStep
  <2>1. UNCHANGED lifeVars /\ UNCHANGED <<reason, written, c_buf>>
        /\ ctl' \subseteq {"VERIFY", "PLAY"}
    BY <1>2 DEF ClientSends, vars, serverVars, LifeInv, ConnTypeOK
  <2> QED BY <2>1, ClientLife
<1> QED
  BY <1>1, <1>2, ListeningLife, LoginLife, PlayAgainLife, DiscardLife, AckLife,
     ConfirmLife, MainLoopLife, SetupLife, InputSendLife, SendInfoLife, EndLife
  DEF ConnNext

LEMMA QuietLife ==
    ASSUME LifeInv, UNCHANGED connVars
    PROVE  LifeInv'
<1>1. UNCHANGED <<state, drain_state, setup, phase, reply_start, ctl, reason, written, c_buf>>
  BY DEF connVars, lifeVars, vars, serverVars
<1> QED
  BY <1>1
  DEF LifeInv, ConnTypeOK, PhaseInv, StageInv, WrittenInv, SetupWritten,
      NoOverflowBeforePlay, SetupEnd, SetupSize, MapStart, Open

\* The inductive invariant of a connection: which phases and continuations a state has,
\* and exactly how much of the setup is in the stream.
THEOREM ConnectionInvariant == ConnSpec => [](ConnInv /\ LifeInv)
<1>1. ConnInit => ConnInv /\ LifeInv
  BY StreamInit, LifeStart DEF ConnInit, ConnInv
<1>2. ConnInv /\ LifeInv /\ [ConnNext]_connVars => (ConnInv /\ LifeInv)'
  <2> SUFFICES ASSUME ConnInv, LifeInv, [ConnNext]_connVars
               PROVE  ConnInv' /\ LifeInv'
    OBVIOUS
  <2>1. ConnInv' /\ StreamInv'
    BY ConnStep DEF ConnInv
  <2> QED BY <2>1, LifeStep, QuietLife
<1> QED BY <1>1, <1>2, PTL DEF ConnSpec

\* A login, with whatever timing of its packets: the setup fits in c however late the client
\* acknowledges, is whole, and comes before everything of the game (Handle_setup,
\* Receive_ack, Handle_login).
THEOREM ConnectionIsSafe == ConnSpec => []ConnSafe
<1>1. ConnInv /\ LifeInv => ConnSafe
  <2> SUFFICES ASSUME ConnInv, LifeInv PROVE ConnSafe
    OBVIOUS
  <2>1. written \in Nat
    BY DEF ConnInv, StreamInv, TypeOK
  <2>2. reply_start # NoReply => reply_start \in Nat /\ reply_start >= SetupEnd
    BY DEF LifeInv, ConnTypeOK
  <2>3. state = "LOGIN" => written = SetupEnd
    BY Lengths DEF LifeInv, StageInv, WrittenInv, SetupWritten, SetupEnd, SetupSize, MapStart
  <2>4. state \in {"READY", "PLAYING"} => reply_start # NoReply /\ written >= reply_start
    BY DEF LifeInv, WrittenInv
  <2>5. SetupEnd \in Nat
    BY Lengths DEF SetupEnd
  <2>6. SetupThenReply
    BY <2>1, <2>2, <2>3, <2>4, <2>5 DEF SetupThenReply
  <2> QED BY <2>6 DEF ConnSafe, LifeInv
<1> QED BY <1>1, ConnectionInvariant, PTL

\* Late, repeated and reordered packets neither skip a stage of the login nor lead back to
\* an earlier one (the handlers of Handle_input by state, Conn_set_state).
THEOREM StagesAreInOrder == ConnSpec => StagesInOrder
<1>1. ConnInv /\ LifeInv /\ [ConnNext]_connVars
        => [Stage' \in {Stage, Stage + 1, 7}]_connVars
  <2> SUFFICES ASSUME ConnInv, LifeInv, ConnNext
               PROVE  Stage' \in {Stage, Stage + 1, 7}
    OBVIOUS
  <2>1. StreamInv'
    BY ConnStep DEF ConnInv
  <2> QED BY <2>1, LifeStep DEF StageStep
<1> QED BY <1>1, ConnectionInvariant, PTL DEF ConnSpec, StagesInOrder

-----------------------------------------------------------------------------
(* Packets and their bytes.                                                *)

Field == [kind : {"number"}, width : Nat \ {0}] \cup [kind : {"string"}, length : Nat]

FieldLength(f) == IF f.kind = "number" THEN f.width ELSE f.length + 1

PacketRecord == [type : {"START", "END", "SHIP", "SELF", "MODIFIERS", "LEAVE"}]
          \cup [type : Counted, num : Nat]
          \cup [type : {"MESSAGE"}, str : Nat] \cup [type : {"PLAYER"}, str : Nat, ext : Nat]

Length(p) ==
    CASE p.type = "START"     -> 9
      [] p.type = "END"       -> 5
      [] p.type = "SHIP"      -> 4
      [] p.type = "SELF"      -> 3
      [] p.type = "LEAVE"     -> 3
      [] p.type = "MODIFIERS" -> 2
      [] p.type = "MESSAGE"   -> p.str + 2
      [] p.type = "PLAYER"    -> p.str + p.ext + 5
      [] p.type \in Counted   -> Header(p.type) + p.num * Width(p.type)

\* What there is of the string of n characters behind the first k bytes of b.
StringIn(b, k, n) ==
    /\ n < MaxStr
    /\ \A i \in k + 1 .. k + n : i <= Len(b) => b[i] # 0
    /\ k + n + 1 <= Len(b) => b[k + n + 1] = 0

\* What there is behind the first k bytes of b is the packet p, or a part of it.
PacketIn(b, k, p) ==
    /\ k + 1 <= Len(b) => b[k + 1] = Code[p.type]
    /\ p.type = "MODIFIERS" => StringIn(b, k + 1, 0)
    /\ p.type = "MESSAGE"   => StringIn(b, k + 1, p.str)
    /\ p.type = "PLAYER"    => StringIn(b, k + 3, p.str) /\ StringIn(b, k + 4 + p.str, p.ext)
    /\ p.type \in Counted   => (k + Header(p.type) <= Len(b) => b[k + Header(p.type)] = p.num)

\* The bytes b are the packets ps.
Spells(b, ps) ==
    \E cuts \in [0 .. Len(ps) -> 0 .. Len(b)] :
        /\ cuts[0] = 0 /\ cuts[Len(ps)] = Len(b)
        /\ \A i \in 1 .. Len(ps) : /\ cuts[i] = cuts[i - 1] + Length(ps[i])
                                   /\ PacketIn(b, cuts[i - 1], ps[i])

LEMMA PacketTypes ==
    ASSUME NEW p \in PacketRecord
    PROVE  /\ p.type \in {"START", "END", "SHIP", "SELF", "MODIFIERS", "LEAVE", "MESSAGE", "PLAYER",
                          "DEBRIS", "FASTSHOT", "FASTRADAR"}
           /\ Code[p.type] \in Nat
           /\ p.type \in Counted => p = [type |-> p.type, num |-> p.num] /\ p.num \in Nat
           /\ p.type = "MESSAGE" => p = [type |-> p.type, str |-> p.str] /\ p.str \in Nat
           /\ p.type = "PLAYER" => /\ p = [type |-> p.type, str |-> p.str, ext |-> p.ext]
                                   /\ p.str \in Nat /\ p.ext \in Nat
           /\ p.type \notin Counted \cup {"MESSAGE", "PLAYER"} => p = [type |-> p.type]
BY DEF PacketRecord, Counted, Code

LEMMA PacketLengths ==
    ASSUME NEW p \in PacketRecord
    PROVE  /\ p.type = "START" => Length(p) = 9
           /\ p.type = "END" => Length(p) = 5
           /\ p.type = "SHIP" => Length(p) = 4
           /\ p.type \in {"SELF", "LEAVE"} => Length(p) = 3
           /\ p.type = "MODIFIERS" => Length(p) = 2
           /\ p.type = "MESSAGE" => Length(p) = p.str + 2
           /\ p.type = "PLAYER" => Length(p) = p.str + p.ext + 5
           /\ p.type \in Counted => Length(p) = Header(p.type) + p.num * Width(p.type)
BY DEF Length, Counted

LEMMA LengthIs ==
    ASSUME NEW p \in PacketRecord
    PROVE  Length(p) \in Nat /\ Length(p) > 0
<1>1. CASE p.type \in Counted
  <2>1. p.num \in Nat BY <1>1, PacketTypes
  <2> QED BY <1>1, <2>1, PacketLengths DEF Header, Width
<1>2. CASE p.type = "MESSAGE" BY <1>2, PacketTypes, PacketLengths
<1>3. CASE p.type = "PLAYER" BY <1>3, PacketTypes, PacketLengths
<1>4. CASE p.type \in {"START", "END", "SHIP", "SELF", "MODIFIERS", "LEAVE"} BY <1>4, PacketLengths
<1> QED BY <1>1, <1>2, <1>3, <1>4, PacketTypes DEF Counted

\* What b has of a packet is there in a longer one that begins like it.
LEMMA StringStays ==
    ASSUME NEW a \in Seq(Nat), NEW b \in Seq(Nat), \A i \in 1 .. Len(a) : b[i] = a[i],
           Len(a) <= Len(b), NEW k \in Nat, NEW n \in Nat, k + n + 1 <= Len(a), StringIn(a, k, n)
    PROVE  StringIn(b, k, n)
<1>1. Len(a) \in Nat /\ Len(b) \in Nat OBVIOUS
<1>2. \A i \in k + 1 .. k + n + 1 : i \in 1 .. Len(a) /\ i <= Len(b) /\ b[i] = a[i] BY <1>1
<1>3. k + n + 1 \in k + 1 .. k + n + 1 /\ \A i \in k + 1 .. k + n : i \in k + 1 .. k + n + 1 /\ i <= Len(a)
    BY <1>1
<1> QED BY <1>2, <1>3 DEF StringIn

LEMMA Sums ==
    ASSUME NEW k \in Nat, NEW m \in Nat, NEW n \in Nat, NEW l \in Nat
    PROVE  /\ k + (m + 2) <= l => k + 1 + m + 1 <= l
           /\ k + (m + n + 5) <= l => k + 3 + m + 1 <= l /\ k + 4 + m + n + 1 <= l
           /\ k + 4 + m \in Nat
OBVIOUS

LEMMA PacketStays ==
    ASSUME NEW a \in Seq(Nat), NEW b \in Seq(Nat), \A i \in 1 .. Len(a) : b[i] = a[i],
           Len(a) <= Len(b), NEW k \in Nat, NEW q \in PacketRecord, k + Length(q) <= Len(a), PacketIn(a, k, q)
    PROVE  PacketIn(b, k, q)
<1>1. Length(q) \in Nat /\ Length(q) > 0 /\ Len(a) \in Nat /\ Len(b) \in Nat BY LengthIs
<1>2. k + 1 <= Len(b) => b[k + 1] = Code[q.type] BY <1>1 DEF PacketIn
<1>3. ASSUME q.type = "MODIFIERS" PROVE StringIn(b, k + 1, 0)
  <2>1. Length(q) = 2 /\ StringIn(a, k + 1, 0) BY <1>3, PacketLengths DEF PacketIn
  <2>2. k + 1 \in Nat /\ k + 1 + 0 + 1 <= Len(a) BY <1>1, <2>1
  <2> QED BY <2>1, <2>2, StringStays
<1>4. ASSUME q.type = "MESSAGE" PROVE StringIn(b, k + 1, q.str)
  <2>1. q.str \in Nat /\ Length(q) = q.str + 2 BY <1>4, PacketTypes, PacketLengths
  <2>2. k + 1 \in Nat /\ k + 1 + q.str + 1 <= Len(a) BY <1>1, <2>1, Sums
  <2>3. StringIn(a, k + 1, q.str) BY <1>4 DEF PacketIn
  <2> QED BY <2>1, <2>2, <2>3, StringStays
<1>5. ASSUME q.type = "PLAYER" PROVE StringIn(b, k + 3, q.str) /\ StringIn(b, k + 4 + q.str, q.ext)
  <2>1. q.str \in Nat /\ q.ext \in Nat /\ Length(q) = q.str + q.ext + 5
      BY <1>5, PacketTypes, PacketLengths
  <2>2. StringIn(a, k + 3, q.str) /\ StringIn(a, k + 4 + q.str, q.ext) BY <1>5 DEF PacketIn
  <2>3. k + 3 + q.str + 1 <= Len(a) /\ k + 4 + q.str + q.ext + 1 <= Len(a)
        /\ k + 3 \in Nat /\ k + 4 + q.str \in Nat
    <3> DEFINE m == q.str
               n == q.ext
               l == Len(a)
    <3>1. m \in Nat /\ n \in Nat /\ l \in Nat /\ k + (m + n + 5) <= l BY <1>1, <2>1
    <3> HIDE DEF m, n, l
    <3>2. k + 3 + m + 1 <= l /\ k + 4 + m + n + 1 <= l /\ k + 3 \in Nat /\ k + 4 + m \in Nat BY <3>1
    <3> QED BY <3>2 DEF m, n, l
  <2> QED BY <2>1, <2>2, <2>3, StringStays
<1>6. ASSUME q.type \in Counted PROVE k + Header(q.type) <= Len(b) => b[k + Header(q.type)] = q.num
  <2>1. q.num \in Nat /\ Length(q) = Header(q.type) + q.num * Width(q.type)
      BY <1>6, PacketTypes, PacketLengths
  <2>2. Header(q.type) \in Nat /\ Header(q.type) > 0 /\ Header(q.type) <= Length(q)
      BY <2>1 DEF Header, Width
  <2>3. k + Header(q.type) \in 1 .. Len(a) BY <2>2, <1>1
  <2> QED BY <1>6, <2>3 DEF PacketIn
<1> QED BY <1>2, <1>3, <1>4, <1>5, <1>6 DEF PacketIn

LEMMA SpellsNothing == Spells(<<>>, <<>>)
<1> DEFINE cuts == [i \in 0 .. 0 |-> 0]
<1>1. cuts \in [0 .. 0 -> 0 .. 0] /\ cuts[0] = 0 /\ Len(<<>>) = 0 /\ 1 .. 0 = {} OBVIOUS
<1> HIDE DEF cuts
<1>2. cuts \in [0 .. Len(<<>>) -> 0 .. Len(<<>>)] /\ 1 .. Len(<<>>) = {} BY <1>1
<1> QED BY <1>1, <1>2 DEF Spells

\* b has the bytes of a and then p.
LEMMA SpellsMore ==
    ASSUME NEW a \in Seq(Nat), NEW b \in Seq(Nat), NEW ps \in Seq(PacketRecord), NEW p \in PacketRecord,
           Spells(a, ps), Len(b) = Len(a) + Length(p),
           \A i \in 1 .. Len(a) : b[i] = a[i], PacketIn(b, Len(a), p)
    PROVE  Spells(b, Append(ps, p))
<1>1. PICK cuts \in [0 .. Len(ps) -> 0 .. Len(a)] :
          /\ cuts[0] = 0 /\ cuts[Len(ps)] = Len(a)
          /\ \A i \in 1 .. Len(ps) : /\ cuts[i] = cuts[i - 1] + Length(ps[i])
                                     /\ PacketIn(a, cuts[i - 1], ps[i])
    BY DEF Spells
<1> DEFINE n == Len(ps)
           qs == Append(ps, p)
           more == [i \in 0 .. n + 1 |-> IF i = n + 1 THEN Len(b) ELSE cuts[i]]
<1>2. n \in Nat /\ Len(qs) = n + 1 /\ qs[n + 1] = p /\ \A i \in 1 .. n : qs[i] = ps[i] OBVIOUS
<1>3. Length(p) \in Nat BY LengthIs
<1>4. more \in [0 .. Len(qs) -> 0 .. Len(b)] BY <1>1, <1>2, <1>3
<1>5. ASSUME NEW i \in 1 .. n + 1
      PROVE  more[i] = more[i - 1] + Length(qs[i]) /\ PacketIn(b, more[i - 1], qs[i])
  <2>1. CASE i = n + 1 BY <1>1, <1>2, <2>1
  <2>2. CASE i # n + 1
    <3>1. i \in 1 .. n /\ more[i] = cuts[i] /\ more[i - 1] = cuts[i - 1] /\ qs[i] = ps[i]
        BY <1>2, <2>2
    <3>2. cuts[i] = cuts[i - 1] + Length(ps[i]) /\ PacketIn(a, cuts[i - 1], ps[i]) BY <1>1, <3>1
    <3> DEFINE k == cuts[i - 1]
               q == ps[i]
    <3>3. k \in Nat /\ k + Length(q) <= Len(a) /\ q \in PacketRecord
      <4>1. i \in 0 .. Len(ps) /\ i - 1 \in 0 .. Len(ps) /\ q \in PacketRecord BY <3>1
      <4>2. cuts[i] \in 0 .. Len(a) /\ k \in 0 .. Len(a) BY <1>1, <4>1
      <4> QED BY <3>2, <4>1, <4>2
    <3>4. PacketIn(b, k, q)
      <4>1. Len(a) <= Len(b) BY <1>3
      <4>2. PacketIn(a, k, q) BY <3>2
      <4> HIDE DEF k, q
      <4> QED BY <3>3, <4>1, <4>2, PacketStays
    <3> QED BY <3>1, <3>2, <3>4
  <2> QED BY <2>1, <2>2
<1>6. more[0] = 0 /\ more[Len(qs)] = Len(b) BY <1>1, <1>2
<1> HIDE DEF more, qs
<1>7. Spells(b, qs) BY <1>2, <1>4, <1>5, <1>6 DEF Spells
<1> QED BY <1>7 DEF qs

LEMMA StringMoves ==
    ASSUME NEW a \in Seq(Nat), NEW k \in 0 .. Len(a), NEW j \in Nat, NEW n \in Nat, StringIn(a, k + j, n)
    PROVE  StringIn(SubSeq(a, k + 1, Len(a)), j, n)
<1> DEFINE b == SubSeq(a, k + 1, Len(a))
<1>1. b \in Seq(Nat) /\ Len(b) = Len(a) - k /\ \A i \in 1 .. Len(b) : b[i] = a[k + i]
    OBVIOUS
<1> HIDE DEF b
<1>2. \A i \in j + 1 .. j + n : i <= Len(b) => b[i] # 0
  <2> SUFFICES ASSUME NEW i \in j + 1 .. j + n, i <= Len(b) PROVE b[i] # 0 OBVIOUS
  <2>1. k + i \in k + j + 1 .. k + j + n /\ k + i <= Len(a) /\ i \in 1 .. Len(b) BY <1>1
  <2> QED BY <1>1, <2>1 DEF StringIn
<1>3. j + n + 1 <= Len(b) => b[j + n + 1] = 0
  <2> SUFFICES ASSUME j + n + 1 <= Len(b) PROVE b[j + n + 1] = 0 OBVIOUS
  <2>1. k + (j + n + 1) = k + j + n + 1 /\ k + j + n + 1 <= Len(a) /\ j + n + 1 \in 1 .. Len(b) BY <1>1
  <2> QED BY <1>1, <2>1 DEF StringIn
<1>4. StringIn(b, j, n) BY <1>2, <1>3 DEF StringIn
<1> QED BY <1>4 DEF b

\* Without the first packet, or what there is of it.
LEMMA PacketMoves ==
    ASSUME NEW a \in Seq(Nat), NEW k \in 0 .. Len(a), NEW j \in Nat, NEW p \in PacketRecord,
           PacketIn(a, k + j, p)
    PROVE  PacketIn(SubSeq(a, k + 1, Len(a)), j, p)
<1> DEFINE b == SubSeq(a, k + 1, Len(a))
<1>1. b \in Seq(Nat) /\ Len(b) = Len(a) - k /\ \A i \in 1 .. Len(b) : b[i] = a[k + i]
    OBVIOUS
<1> HIDE DEF b
<1>2. \A i \in Nat : i > 0 /\ j + i <= Len(b) => b[j + i] = a[k + j + i]
    BY <1>1
<1>3. ASSUME NEW d \in Nat, NEW m \in Nat, StringIn(a, k + j + d, m) PROVE StringIn(b, j + d, m)
    BY <1>3, StringMoves DEF b
<1>4. p.type = "MODIFIERS" => StringIn(b, j + 1, 0) BY <1>3 DEF PacketIn
<1>5. p.type = "MESSAGE" => StringIn(b, j + 1, p.str) BY <1>3, PacketTypes DEF PacketIn
<1>6. ASSUME p.type = "PLAYER" PROVE StringIn(b, j + 3, p.str) /\ StringIn(b, j + 4 + p.str, p.ext)
  <2>1. p.str \in Nat /\ p.ext \in Nat BY <1>6, PacketTypes
  <2>2. k + j + 4 + p.str = k + j + (4 + p.str) /\ j + 4 + p.str = j + (4 + p.str) BY <2>1
  <2>3. StringIn(a, k + j + 3, p.str) /\ StringIn(a, k + j + 4 + p.str, p.ext) BY <1>6 DEF PacketIn
  <2>4. StringIn(b, j + 3, p.str)
    <3>1. 3 \in Nat OBVIOUS
    <3> QED BY <1>3, <2>1, <2>3, <3>1
  <2>5. StringIn(b, j + (4 + p.str), p.ext)
    <3>1. 4 + p.str \in Nat BY <2>1
    <3> QED BY <1>3, <2>1, <2>2, <2>3, <3>1
  <2> QED BY <2>2, <2>4, <2>5
<1>7. j + 1 <= Len(b) => b[j + 1] = Code[p.type] BY <1>1, <1>2 DEF PacketIn
<1>8. p.type \in Counted => (j + Header(p.type) <= Len(b) => b[j + Header(p.type)] = p.num)
  <2>1. Header(p.type) \in Nat /\ Header(p.type) > 0 BY DEF Header
  <2>2. SUFFICES ASSUME p.type \in Counted, j + Header(p.type) <= Len(b)
                 PROVE  b[j + Header(p.type)] = p.num
      OBVIOUS
  <2> DEFINE h == Header(p.type)
  <2>3. b[j + h] = a[k + j + h] /\ k + j + h <= Len(a)
    <3> HIDE DEF h
    <3>1. h \in Nat /\ h > 0 /\ j + h <= Len(b) BY <2>1, <2>2 DEF h
    <3> QED BY <1>1, <1>2, <3>1
  <2> QED BY <2>2, <2>3 DEF PacketIn
<1>9. PacketIn(b, j, p) BY <1>4, <1>5, <1>6, <1>7, <1>8 DEF PacketIn
<1> QED BY <1>9 DEF b

-----------------------------------------------------------------------------
(* What a reader makes of them.                                            *)

ScanResult == [whole : BOOLEAN, fails : BOOLEAN, used : Nat, lengths : Seq(Nat)]

GetTurn(b, f, r) ==
    IF ~r.whole THEN r
    ELSE LET q == Scanned(SubSeq(b, r.used + 1, Len(b)), f)
         IN  [whole |-> q.whole, fails |-> q.fails, used |-> r.used + q.used,
              lengths |-> IF f.kind = "string" THEN Append(r.lengths, q.length) ELSE r.lengths]

Scans == INSTANCE FoldTheorems WITH Turn <- GetTurn

LEMMA Packet_scanfIs ==
    ASSUME NEW b, NEW fields
    PROVE  Packet_scanf(b, fields) =
               Scans!OverSeq(b, [whole |-> TRUE, fails |-> FALSE, used |-> 0, lengths |-> <<>>], fields)
BY DEF Packet_scanf, FoldLeft, MapThenFoldSet, Scans!OverSeq, GetTurn, Max

LEMMA ScannedType ==
    ASSUME NEW b \in Seq(Nat), NEW f \in Field
    PROVE  Scanned(b, f) \in [whole : BOOLEAN, fails : BOOLEAN, used : Nat, length : Nat]
<1>0. Len(b) \in Nat /\ MaxStr \in Nat BY BufferAssumption
<1>1. CASE f.kind = "number" BY <1>0, <1>1 DEF Scanned, Field
<1>2. CASE f.kind = "string"
  <2> DEFINE ends == {i \in 1 .. Smaller(Len(b), MaxStr) : b[i] = 0}
             n == CHOOSE i \in ends : \A j \in ends : i <= j
  <2>1. CASE ends = {} BY <1>0, <1>2, <2>1 DEF Scanned
  <2>2. CASE ends # {}
    <3>1. ends \in SUBSET Nat /\ \A i \in ends : i > 0 BY <1>0 DEF Smaller
    <3>2. \E i \in ends : \A j \in ends : i <= j BY <2>2, <3>1, Scans!SmallestNumber
    <3>3. n \in ends BY <3>2
    <3>4. n \in Nat /\ n - 1 \in Nat BY <3>1, <3>3
    <3>5. Scanned(b, f) = [whole |-> TRUE, fails |-> FALSE, used |-> n, length |-> n - 1]
        BY <1>2, <2>2 DEF Scanned
    <3> HIDE DEF n, ends
    <3> QED BY <3>4, <3>5
  <2> QED BY <2>1, <2>2
<1> QED BY <1>1, <1>2 DEF Field

LEMMA RecordFields ==
    ASSUME NEW a, NEW b, NEW cc, NEW d
    PROVE  /\ LET r == [whole |-> a, fails |-> b, used |-> cc, packet |-> d]
              IN  r.whole = a /\ r.fails = b /\ r.used = cc /\ r.packet = d
           /\ LET r == [whole |-> a, fails |-> b, used |-> cc, length |-> d]
              IN  r.whole = a /\ r.fails = b /\ r.used = cc /\ r.length = d
           /\ LET r == [whole |-> a, fails |-> b, used |-> cc, lengths |-> d]
              IN  r.whole = a /\ r.fails = b /\ r.used = cc /\ r.lengths = d
OBVIOUS

LEMMA ScannedString ==
    ASSUME NEW b \in Seq(Nat), NEW f \in Field, f.kind = "string", NEW n \in Nat, StringIn(b, 0, n)
    PROVE  /\ ~Scanned(b, f).fails
           /\ Scanned(b, f).whole <=> n + 1 <= Len(b)
           /\ Scanned(b, f).whole => Scanned(b, f).used = n + 1 /\ Scanned(b, f).length = n
<1>0. Len(b) \in Nat /\ MaxStr \in Nat /\ n < MaxStr BY BufferAssumption DEF StringIn
<1> DEFINE ends == {i \in 1 .. Smaller(Len(b), MaxStr) : b[i] = 0}
           m == CHOOSE i \in ends : \A j \in ends : i <= j
<1>1. \A i \in ends : i \in Nat /\ i > n /\ i <= Len(b)
  <2>1. \A i \in 1 .. n : i <= Len(b) => b[i] # 0 BY DEF StringIn
  <2> QED BY <1>0, <2>1 DEF Smaller
<1>2. CASE n + 1 <= Len(b)
  <2>1. b[n + 1] = 0 BY <1>2 DEF StringIn
  <2>2. n + 1 \in ends BY <1>0, <1>2, <2>1 DEF Smaller
  <2>3. \A j \in ends : n + 1 <= j BY <1>1
  <2>4. \A i \in ends : (\A j \in ends : i <= j) => i = n + 1 BY <1>1, <2>2, <2>3
  <2> HIDE DEF ends
  <2>5. m = n + 1 BY <2>2, <2>3, <2>4
  <2>6. ends # {} BY <2>2
  <2>7. Scanned(b, f) = [whole |-> TRUE, fails |-> FALSE, used |-> m, length |-> m - 1]
      BY <2>6 DEF Scanned, ends
  <2> HIDE DEF m
  <2> QED BY <1>2, <2>5, <2>7
<1>3. CASE ~(n + 1 <= Len(b))
  <2>1. ends = {} BY <1>0, <1>1, <1>3
  <2>2. Len(b) < MaxStr BY <1>0, <1>3
  <2>3. Scanned(b, f) = [whole |-> FALSE, fails |-> Len(b) >= MaxStr, used |-> 0, length |-> 0]
      BY <2>1 DEF Scanned
  <2>4. ~(Len(b) >= MaxStr) BY <1>0, <2>2
  <2> DEFINE long == Len(b) >= MaxStr
  <2>5. Scanned(b, f).whole = FALSE /\ Scanned(b, f).fails = long
    <3> HIDE DEF long
    <3>1. Scanned(b, f) = [whole |-> FALSE, fails |-> long, used |-> 0, length |-> 0] BY <2>3 DEF long
    <3> QED BY <3>1, RecordFields
  <2> QED BY <1>3, <2>4, <2>5
<1> QED BY <1>2, <1>3

\* Where each of the fields fs ends and the lengths of the strings that have been read.
Layout(b, fs, ln, off, read) ==
    /\ ln \in [1 .. Len(fs) -> Nat] /\ off \in [0 .. Len(fs) -> Nat] /\ read \in [0 .. Len(fs) -> Seq(Nat)]
    /\ off[0] = 0 /\ read[0] = <<>>
    /\ \A j \in 1 .. Len(fs) :
           IF fs[j].kind = "number" THEN off[j] = off[j - 1] + fs[j].width /\ read[j] = read[j - 1]
           ELSE /\ off[j] = off[j - 1] + (ln[j] + 1) /\ read[j] = Append(read[j - 1], ln[j])
                /\ StringIn(b, off[j - 1], ln[j])

LEMMA ScanTurnType ==
    ASSUME NEW b \in Seq(Nat), NEW f \in Field, NEW h \in ScanResult
    PROVE  GetTurn(b, f, h) \in ScanResult
<1> DEFINE rest == SubSeq(b, h.used + 1, Len(b))
           q == Scanned(rest, f)
<1>1. h.used \in Nat /\ h.lengths \in Seq(Nat) BY DEF ScanResult
<1>2. rest \in Seq(Nat) BY <1>1
<1> HIDE DEF rest
<1>3. q \in [whole : BOOLEAN, fails : BOOLEAN, used : Nat, length : Nat] BY <1>2, ScannedType
<1> HIDE DEF q
<1>4. GetTurn(b, f, h) = IF ~h.whole THEN h
          ELSE [whole |-> q.whole, fails |-> q.fails, used |-> h.used + q.used,
                lengths |-> IF f.kind = "string" THEN Append(h.lengths, q.length) ELSE h.lengths]
    BY DEF GetTurn, q, rest
<1>5. h.used + q.used \in Nat /\ Append(h.lengths, q.length) \in Seq(Nat) BY <1>1, <1>3
<1> QED BY <1>1, <1>3, <1>4, <1>5 DEF ScanResult

\* What r says of the first k bytes of b, in which these strings have been read.
ScanIs(r, b, k, read) ==
    /\ r \in ScanResult /\ ~r.fails
    /\ r.whole <=> k <= Len(b)
    /\ r.whole => r.used = k /\ r.lengths = read

LEMMA ScanTurn ==
    ASSUME NEW b \in Seq(Nat), NEW f \in Field, NEW h,
           NEW k \in Nat, NEW m \in Nat, NEW n \in Nat, NEW read \in Seq(Nat),
           ScanIs(h, b, k, read),
           f.kind = "number" => m = k + f.width,
           f.kind = "string" => m = k + (n + 1) /\ StringIn(b, k, n)
    PROVE  ScanIs(GetTurn(b, f, h), b, m, IF f.kind = "number" THEN read ELSE Append(read, n))
<1> SUFFICES LET g == GetTurn(b, f, h)
             IN  /\ g \in ScanResult /\ ~g.fails
                 /\ g.whole <=> m <= Len(b)
                 /\ g.whole => /\ g.used = m
                               /\ g.lengths = IF f.kind = "number" THEN read ELSE Append(read, n)
    BY DEF ScanIs
<1>0. /\ h \in ScanResult /\ ~h.fails
      /\ h.whole <=> k <= Len(b)
      /\ h.whole => h.used = k /\ h.lengths = read
    BY DEF ScanIs
<1>1. Len(b) \in Nat /\ k < m
  <2>1. f.kind = "number" => f.width \in Nat /\ f.width > 0 BY DEF Field
  <2> QED BY <2>1 DEF Field
<1>2. GetTurn(b, f, h) \in ScanResult BY <1>0, ScanTurnType
<1>3. CASE ~h.whole
  <2>1. GetTurn(b, f, h) = h BY <1>3 DEF GetTurn
  <2>2. ~(m <= Len(b)) BY <1>0, <1>1, <1>3
  <2> QED BY <1>0, <1>2, <1>3, <2>1, <2>2
<1>4. CASE h.whole
  <2> DEFINE rest == SubSeq(b, k + 1, Len(b))
             q == Scanned(rest, f)
  <2>1. k \in 0 .. Len(b) BY <1>0, <1>1, <1>4
  <2>2. rest \in Seq(Nat) /\ Len(rest) = Len(b) - k BY <2>1
  <2>3. GetTurn(b, f, h) = [whole |-> q.whole, fails |-> q.fails, used |-> k + q.used,
            lengths |-> IF f.kind = "string" THEN Append(read, q.length) ELSE read]
      BY <1>0, <1>4 DEF GetTurn
  <2> HIDE DEF rest
  <2>4. CASE f.kind = "number"
    <3>1. q = [whole |-> Len(rest) >= f.width, fails |-> FALSE, used |-> f.width, length |-> 0]
        BY <2>4 DEF Scanned
    <3>2. f.width \in Nat /\ m = k + f.width BY <2>4 DEF Field
    <3>3. Len(rest) >= f.width <=> m <= Len(b) BY <1>1, <2>1, <2>2, <3>2
    <3> HIDE DEF q
    <3>4. GetTurn(b, f, h) = [whole |-> Len(rest) >= f.width, fails |-> FALSE, used |-> m,
                              lengths |-> read]
        BY <2>3, <2>4, <3>1, <3>2
    <3>5. /\ GetTurn(b, f, h).whole = (Len(rest) >= f.width) /\ GetTurn(b, f, h).fails = FALSE
          /\ GetTurn(b, f, h).used = m /\ GetTurn(b, f, h).lengths = read
      <4> DEFINE there == Len(rest) >= f.width
      <4>1. GetTurn(b, f, h) = [whole |-> there, fails |-> FALSE, used |-> m, lengths |-> read]
          BY <3>4
      <4> HIDE DEF there
      <4>2. /\ GetTurn(b, f, h).whole = there /\ GetTurn(b, f, h).fails = FALSE
            /\ GetTurn(b, f, h).used = m /\ GetTurn(b, f, h).lengths = read
          BY <4>1, RecordFields
      <4> QED BY <4>2 DEF there
    <3> QED BY <1>2, <2>4, <3>3, <3>5
  <2>5. CASE f.kind = "string"
    <3>1. m = k + (n + 1) /\ StringIn(b, k + 0, n) BY <2>5
    <3>2. StringIn(rest, 0, n) BY <2>1, <3>1, StringMoves DEF rest
    <3>3. /\ ~q.fails /\ (q.whole <=> n + 1 <= Len(rest))
          /\ q.whole => q.used = n + 1 /\ q.length = n
        BY <2>2, <2>5, <3>2, ScannedString
    <3> HIDE DEF q
    <3>4. n + 1 <= Len(rest) <=> m <= Len(b) BY <1>1, <2>1, <2>2, <3>1
    <3> DEFINE x == q.whole
               y == q.fails
               z == k + q.used
               l == IF f.kind = "string" THEN Append(read, q.length) ELSE read
    <3>5. GetTurn(b, f, h) = [whole |-> x, fails |-> y, used |-> z, lengths |-> l] BY <2>3
    <3>6. x => z = m /\ l = Append(read, n) BY <2>5, <3>1, <3>3
    <3>7. ~y /\ (x <=> m <= Len(b)) BY <3>3, <3>4
    <3> HIDE DEF x, y, z, l
    <3>8. /\ GetTurn(b, f, h).whole = x /\ GetTurn(b, f, h).fails = y
          /\ GetTurn(b, f, h).used = z /\ GetTurn(b, f, h).lengths = l
        BY <3>5, RecordFields
    <3> QED BY <1>2, <2>5, <3>6, <3>7, <3>8
  <2> QED BY <2>4, <2>5 DEF Field
<1> QED BY <1>3, <1>4

LEMMA ScansAll ==
    ASSUME NEW b \in Seq(Nat), NEW fs \in Seq(Field), NEW ln, NEW off, NEW read,
           Layout(b, fs, ln, off, read)
    PROVE  ScanIs(Packet_scanf(b, fs), b, off[Len(fs)], read[Len(fs)])
<1> DEFINE base == [whole |-> TRUE, fails |-> FALSE, used |-> 0, lengths |-> <<>>]
           Good(n) == {h \in ScanResult : ScanIs(h, b, off[n], read[n])}
           A == [n \in 0 .. Len(fs) |-> Good(n)]
<1>0. Len(b) \in Nat /\ Len(fs) \in Nat OBVIOUS
<1>1. base \in ScanResult BY DEF ScanResult
<1>2. Scans!Closed(b, {fs[i] : i \in DOMAIN fs}, ScanResult) BY ScanTurnType DEF Scans!Closed
<1>3. base \in Good(0)
  <2>1. off[0] = 0 /\ read[0] = <<>> BY DEF Layout
  <2> QED BY <1>0, <1>1, <2>1 DEF ScanIs
<1>4. ASSUME NEW i \in 1 .. Len(fs), NEW h, h \in Good(i - 1) PROVE GetTurn(b, fs[i], h) \in Good(i)
  <2> DEFINE f == fs[i]
             k == off[i - 1]
             m == off[i]
             n == ln[i]
             rd == read[i - 1]
             re == read[i]
  <2>1. ScanIs(h, b, k, rd) BY <1>4
  <2>2. m \in Nat /\ k \in Nat /\ n \in Nat /\ rd \in Seq(Nat) /\ f \in Field
    <3>1. i \in 0 .. Len(fs) /\ i - 1 \in 0 .. Len(fs) OBVIOUS
    <3> QED BY <3>1 DEF Layout
  <2>3. IF f.kind = "number" THEN m = k + f.width /\ re = rd
        ELSE /\ m = k + (n + 1) /\ re = Append(rd, n)
             /\ StringIn(b, k, n)
      BY DEF Layout
  <2> HIDE DEF f, k, m, n, rd, re
  <2>4. f.kind \in {"number", "string"} BY <2>2 DEF Field
  <2>5. ScanIs(GetTurn(b, f, h), b, m, IF f.kind = "number" THEN rd ELSE Append(rd, n))
      BY <2>1, <2>2, <2>3, <2>4, ScanTurn
  <2>6. (IF f.kind = "number" THEN rd ELSE Append(rd, n)) = re BY <2>3, <2>4
  <2>7. ScanIs(GetTurn(b, f, h), b, m, re) BY <2>5, <2>6
  <2> QED BY <2>7 DEF f, m, re, ScanIs
<1>5. base \in A[0] /\ \A i \in DOMAIN fs : \A h \in A[i - 1] : GetTurn(b, fs[i], h) \in A[i]
  <2>1. A[0] = Good(0) BY <1>0
  <2>2. \A i \in DOMAIN fs : i \in 1 .. Len(fs) /\ A[i] = Good(i) /\ A[i - 1] = Good(i - 1) BY <1>0
  <2> HIDE DEF A, Good
  <2> QED BY <1>3, <1>4, <2>1, <2>2
<1>6. A[Len(fs)] = Good(Len(fs)) BY <1>0
<1> HIDE DEF A
<1>7. Scans!OverSeq(b, base, fs) \in A[Len(fs)] BY <1>1, <1>2, <1>5, Scans!SeqInOrder
<1> QED BY <1>6, <1>7, Packet_scanfIs

LEMMA KnownIs ==
    ASSUME NEW p \in PacketRecord
    PROVE  Known(Code[p.type]) = {p.type}
BY PacketTypes DEF Known, Code

\* The lengths of the strings of p.
Strings(p) == CASE p.type = "MODIFIERS" -> <<0>>
                [] p.type = "MESSAGE"   -> <<p.str>>
                [] p.type = "PLAYER"    -> <<p.str, p.ext>>
                [] OTHER                -> <<>>

\* The fields that are read of p, and where its bytes put them.
LaidOut(b, fs, p) ==
    /\ fs \in Seq(Field)
    /\ \E ln, off, read : /\ Layout(b, fs, ln, off, read)
                          /\ off[Len(fs)] = Length(p) /\ read[Len(fs)] = Strings(p)

LEMMA Joined ==
    ASSUME NEW a, NEW x, NEW y
    PROVE  /\ <<a>> \o <<x>> = <<a, x>> /\ <<a>> \o <<x, y>> = <<a, x, y>>
           /\ Append(<<>>, a) = <<a>> /\ Append(<<a>>, x) = <<a, x>>
<1> DEFINE S == {a, x, y}
<1>1. <<>> \in Seq(S) /\ <<a>> \in Seq(S) /\ <<x>> \in Seq(S) /\ <<x, y>> \in Seq(S) OBVIOUS
<1>2. <<a, x>> \in Seq(S) /\ <<a, x, y>> \in Seq(S) OBVIOUS
<1>3. Append(<<>>, a) = <<a>>
  <2>1. Append(<<>>, a) \in Seq(S) /\ Len(Append(<<>>, a)) = 1 BY <1>1
  <2>2. \A i \in 1 .. 1 : Append(<<>>, a)[i] = <<a>>[i] BY <1>1
  <2> QED BY <1>1, <2>1, <2>2, SeqEqual
<1>4. Append(<<a>>, x) = <<a, x>>
  <2>1. Append(<<a>>, x) \in Seq(S) /\ Len(Append(<<a>>, x)) = 2 BY <1>1
  <2>2. \A i \in 1 .. 2 : Append(<<a>>, x)[i] = <<a, x>>[i] BY <1>1
  <2> QED BY <1>2, <2>1, <2>2, SeqEqual
<1>5. <<a>> \o <<x>> = <<a, x>>
  <2>1. <<a>> \o <<x>> \in Seq(S) /\ Len(<<a>> \o <<x>>) = 2 BY <1>1
  <2>2. \A i \in 1 .. 2 : (<<a>> \o <<x>>)[i] = <<a, x>>[i] BY <1>1
  <2> QED BY <1>2, <2>1, <2>2, SeqEqual
<1>6. <<a>> \o <<x, y>> = <<a, x, y>>
  <2>1. <<a>> \o <<x, y>> \in Seq(S) /\ Len(<<a>> \o <<x, y>>) = 3 BY <1>1
  <2>2. \A i \in 1 .. 3 : (<<a>> \o <<x, y>>)[i] = <<a, x, y>>[i] BY <1>1
  <2> QED BY <1>2, <2>1, <2>2, SeqEqual
<1> QED BY <1>3, <1>4, <1>5, <1>6

LEMMA TwoNumbers ==
    ASSUME NEW b \in Seq(Nat), NEW p \in PacketRecord, NEW k \in Nat \ {0},
           Length(p) = 1 + k, Strings(p) = <<>>
    PROVE  LaidOut(b, <<Num(1), Num(k)>>, p)
<1> DEFINE fs == <<Num(1), Num(k)>>
           ln == [j \in 1 .. 2 |-> 0]
           off == [j \in 0 .. 2 |-> IF j = 0 THEN 0 ELSE IF j = 1 THEN 1 ELSE 1 + k]
           read == [j \in 0 .. 2 |-> <<>>]
<1>1. fs \in Seq(Field) /\ Len(fs) = 2 BY DEF Num, Field
<1>2. ln \in [1 .. 2 -> Nat] /\ off \in [0 .. 2 -> Nat] OBVIOUS
<1>3. read \in [0 .. 2 -> Seq(Nat)] OBVIOUS
<1>4. /\ off[0] = 0 /\ off[1] = 1 /\ off[2] = 1 + k
      /\ read[0] = <<>> /\ read[1] = <<>> /\ read[2] = <<>>
    OBVIOUS
<1>5. /\ fs[1].kind = "number" /\ fs[1].width = 1 /\ fs[2].kind = "number" /\ fs[2].width = k
    BY DEF Num
<1> HIDE DEF fs, ln, off, read
<1>6. \A j \in 1 .. 2 : off[j] = off[j - 1] + fs[j].width /\ read[j] = read[j - 1]
                        /\ fs[j].kind = "number"
  <2>1. \A j \in 1 .. 2 : j = 1 \/ j = 2 OBVIOUS
  <2>2. 1 - 1 = 0 /\ 2 - 1 = 1 OBVIOUS
  <2> QED BY <1>4, <1>5, <2>1, <2>2
<1>7. Layout(b, fs, ln, off, read) BY <1>1, <1>2, <1>3, <1>4, <1>6 DEF Layout
<1>8. off[Len(fs)] = Length(p) /\ read[Len(fs)] = Strings(p) BY <1>1, <1>4
<1>9. LaidOut(b, fs, p) BY <1>1, <1>7, <1>8 DEF LaidOut
<1> QED BY <1>9 DEF fs

LEMMA ThreeNumbers ==
    ASSUME NEW b \in Seq(Nat), NEW p \in PacketRecord, NEW k \in Nat \ {0}, NEW l \in Nat \ {0},
           Length(p) = 1 + k + l, Strings(p) = <<>>
    PROVE  LaidOut(b, <<Num(1), Num(k), Num(l)>>, p)
<1> DEFINE fs == <<Num(1), Num(k), Num(l)>>
           ln == [j \in 1 .. 3 |-> 0]
           off == [j \in 0 .. 3 |-> IF j = 0 THEN 0 ELSE IF j = 1 THEN 1
                                    ELSE IF j = 2 THEN 1 + k ELSE 1 + k + l]
           read == [j \in 0 .. 3 |-> <<>>]
<1>1. fs \in Seq(Field) /\ Len(fs) = 3 BY DEF Num, Field
<1>2. ln \in [1 .. 3 -> Nat] /\ off \in [0 .. 3 -> Nat] OBVIOUS
<1>3. read \in [0 .. 3 -> Seq(Nat)] OBVIOUS
<1>4. /\ off[0] = 0 /\ off[1] = 1 /\ off[2] = 1 + k /\ off[3] = 1 + k + l
      /\ read[0] = <<>> /\ read[1] = <<>> /\ read[2] = <<>> /\ read[3] = <<>>
    OBVIOUS
<1>5. /\ fs[1].kind = "number" /\ fs[1].width = 1 /\ fs[2].kind = "number" /\ fs[2].width = k
      /\ fs[3].kind = "number" /\ fs[3].width = l
    BY DEF Num
<1> HIDE DEF fs, ln, off, read
<1>6. \A j \in 1 .. 3 : off[j] = off[j - 1] + fs[j].width /\ read[j] = read[j - 1]
                        /\ fs[j].kind = "number"
  <2>1. \A j \in 1 .. 3 : j = 1 \/ j = 2 \/ j = 3 OBVIOUS
  <2>2. 1 - 1 = 0 /\ 2 - 1 = 1 /\ 3 - 1 = 2 OBVIOUS
  <2> QED BY <1>4, <1>5, <2>1, <2>2
<1>7. Layout(b, fs, ln, off, read) BY <1>1, <1>2, <1>3, <1>4, <1>6 DEF Layout
<1>8. off[Len(fs)] = Length(p) /\ read[Len(fs)] = Strings(p) BY <1>1, <1>4
<1>9. LaidOut(b, fs, p) BY <1>1, <1>7, <1>8 DEF LaidOut
<1> QED BY <1>9 DEF fs

LEMMA OneString ==
    ASSUME NEW b \in Seq(Nat), NEW p \in PacketRecord, NEW n \in Nat,
           Length(p) = n + 2, Strings(p) = <<n>>, StringIn(b, 1, n)
    PROVE  LaidOut(b, <<Num(1), AnyStr>>, p)
<1> DEFINE fs == <<Num(1), AnyStr>>
           ln == [j \in 1 .. 2 |-> n]
           off == [j \in 0 .. 2 |-> IF j = 0 THEN 0 ELSE IF j = 1 THEN 1 ELSE n + 2]
           read == [j \in 0 .. 2 |-> IF j = 2 THEN <<n>> ELSE <<>>]
<1>1. fs \in Seq(Field) /\ Len(fs) = 2 BY DEF Num, AnyStr, Str, Field
<1>2. ln \in [1 .. 2 -> Nat] /\ off \in [0 .. 2 -> Nat] OBVIOUS
<1>3. read \in [0 .. 2 -> Seq(Nat)] OBVIOUS
<1>4. /\ off[0] = 0 /\ off[1] = 1 /\ off[2] = 1 + (n + 1) /\ off[2] = n + 2
      /\ read[0] = <<>> /\ read[1] = <<>> /\ read[2] = <<n>> /\ ln[2] = n
    OBVIOUS
<1>5. /\ fs[1].kind = "number" /\ fs[1].width = 1 /\ fs[2].kind = "string" /\ Append(<<>>, n) = <<n>>
    BY DEF Num, AnyStr, Str
<1> HIDE DEF fs, ln, off, read
<1>6. /\ off[1] = off[0] + fs[1].width /\ read[1] = read[0] /\ fs[1].kind = "number"
      /\ off[2] = off[1] + (ln[2] + 1) /\ read[2] = Append(read[1], ln[2]) /\ fs[2].kind = "string"
      /\ StringIn(b, off[1], ln[2])
    BY <1>4, <1>5
<1>7. Layout(b, fs, ln, off, read)
  <2>1. \A j \in 1 .. 2 : j = 1 \/ j = 2 OBVIOUS
  <2>2. 1 - 1 = 0 /\ 2 - 1 = 1 OBVIOUS
  <2>3. \A j \in 1 .. 2 :
            IF fs[j].kind = "number" THEN off[j] = off[j - 1] + fs[j].width /\ read[j] = read[j - 1]
            ELSE /\ off[j] = off[j - 1] + (ln[j] + 1) /\ read[j] = Append(read[j - 1], ln[j])
                 /\ StringIn(b, off[j - 1], ln[j])
      BY <1>6, <2>1, <2>2
  <2> QED BY <1>1, <1>2, <1>3, <1>4, <2>3 DEF Layout
<1>8. off[Len(fs)] = Length(p) /\ read[Len(fs)] = Strings(p) BY <1>1, <1>4
<1>9. LaidOut(b, fs, p) BY <1>1, <1>7, <1>8 DEF LaidOut
<1> QED BY <1>9 DEF fs

LEMMA TwoStrings ==
    ASSUME NEW b \in Seq(Nat), NEW p \in PacketRecord, NEW n \in Nat, NEW x \in Nat,
           Length(p) = n + x + 5, Strings(p) = <<n, x>>, StringIn(b, 3, n), StringIn(b, 4 + n, x)
    PROVE  LaidOut(b, <<Num(1), Num(2), AnyStr, AnyStr>>, p)
<1> DEFINE fs == <<Num(1), Num(2), AnyStr, AnyStr>>
           ln == [j \in 1 .. 4 |-> IF j = 3 THEN n ELSE x]
           off == [j \in 0 .. 4 |-> IF j = 0 THEN 0 ELSE IF j = 1 THEN 1 ELSE IF j = 2 THEN 3
                                    ELSE IF j = 3 THEN 4 + n ELSE n + x + 5]
           read == [j \in 0 .. 4 |-> IF j = 4 THEN <<n, x>> ELSE IF j = 3 THEN <<n>> ELSE <<>>]
<1>1. fs \in Seq(Field) /\ Len(fs) = 4 BY DEF Num, AnyStr, Str, Field
<1>2. ln \in [1 .. 4 -> Nat] /\ off \in [0 .. 4 -> Nat] OBVIOUS
<1>3. read \in [0 .. 4 -> Seq(Nat)]
  <2>1. <<n, x>> \in Seq(Nat) /\ <<n>> \in Seq(Nat) OBVIOUS
  <2> QED BY <2>1
<1>4. /\ off[0] = 0 /\ off[1] = 1 /\ off[2] = 3 /\ off[3] = 3 + (n + 1) /\ off[3] = 4 + n
      /\ off[4] = 4 + n + (x + 1) /\ off[4] = n + x + 5
      /\ read[0] = <<>> /\ read[1] = <<>> /\ read[2] = <<>> /\ read[3] = <<n>> /\ read[4] = <<n, x>>
      /\ ln[3] = n /\ ln[4] = x
    OBVIOUS
<1>5. /\ fs[1].kind = "number" /\ fs[1].width = 1 /\ fs[2].kind = "number" /\ fs[2].width = 2
      /\ fs[3].kind = "string" /\ fs[4].kind = "string" /\ Append(<<>>, n) = <<n>>
      /\ Append(<<n>>, x) = <<n, x>>
  <2>1. Append(<<>>, n) = <<n>> /\ Append(<<n>>, x) = <<n, x>> BY Joined
  <2>2. /\ fs[1].kind = "number" /\ fs[1].width = 1 /\ fs[2].kind = "number" /\ fs[2].width = 2
        /\ fs[3].kind = "string" /\ fs[4].kind = "string"
      BY DEF Num, AnyStr, Str
  <2> QED BY <2>1, <2>2
<1> HIDE DEF fs, ln, off, read
<1>6. /\ off[1] = off[0] + fs[1].width /\ read[1] = read[0] /\ fs[1].kind = "number"
      /\ off[2] = off[1] + fs[2].width /\ read[2] = read[1] /\ fs[2].kind = "number"
      /\ off[3] = off[2] + (ln[3] + 1) /\ read[3] = Append(read[2], ln[3]) /\ fs[3].kind = "string"
      /\ StringIn(b, off[2], ln[3])
      /\ off[4] = off[3] + (ln[4] + 1) /\ read[4] = Append(read[3], ln[4]) /\ fs[4].kind = "string"
      /\ StringIn(b, off[3], ln[4])
  <2>1. 1 = 0 + 1 /\ 3 = 1 + 2 OBVIOUS
  <2> QED BY <1>4, <1>5, <2>1
<1>7. Layout(b, fs, ln, off, read)
  <2>1. \A j \in 1 .. 4 : j = 1 \/ j = 2 \/ j = 3 \/ j = 4 OBVIOUS
  <2>2. 1 - 1 = 0 /\ 2 - 1 = 1 /\ 3 - 1 = 2 /\ 4 - 1 = 3 OBVIOUS
  <2>3. \A j \in 1 .. 4 :
            IF fs[j].kind = "number" THEN off[j] = off[j - 1] + fs[j].width /\ read[j] = read[j - 1]
            ELSE /\ off[j] = off[j - 1] + (ln[j] + 1) /\ read[j] = Append(read[j - 1], ln[j])
                 /\ StringIn(b, off[j - 1], ln[j])
      BY <1>6, <2>1, <2>2
  <2> QED BY <1>1, <1>2, <1>3, <1>4, <2>3 DEF Layout
<1>8. off[Len(fs)] = Length(p) /\ read[Len(fs)] = Strings(p) BY <1>1, <1>4
<1>9. LaidOut(b, fs, p) BY <1>1, <1>7, <1>8 DEF LaidOut
<1> QED BY <1>9 DEF fs

LEMMA ShapeIs ==
    ASSUME NEW b \in Seq(Nat), NEW p \in PacketRecord, p.type \notin Counted, PacketIn(b, 0, p)
    PROVE  LaidOut(b, ShapeOf(p.type), p)
<1>0. [type |-> p.type].type = p.type OBVIOUS
<1>1. CASE p.type = "MESSAGE"
  <2>1. ShapeOf(p.type) = <<Num(1), AnyStr>> /\ Strings(p) = <<p.str>> BY <1>1 DEF ShapeOf, Strings
  <2>2. StringIn(b, 1, p.str) BY <1>1 DEF PacketIn
  <2> QED BY <1>1, <2>1, <2>2, PacketTypes, PacketLengths, OneString
<1>2. CASE p.type = "PLAYER"
  <2>1. ShapeOf(p.type) = <<Num(1), Num(2), AnyStr, AnyStr>> /\ Strings(p) = <<p.str, p.ext>>
      BY <1>2 DEF ShapeOf, Strings
  <2>2. StringIn(b, 3, p.str) /\ StringIn(b, 4 + p.str, p.ext) BY <1>2 DEF PacketIn
  <2> QED BY <1>2, <2>1, <2>2, PacketTypes, PacketLengths, TwoStrings
<1>3. CASE p.type \notin {"MESSAGE", "PLAYER"}
  <2>0. /\ ShapeOf(p.type) = <<Num(1)>> \o Fields([type |-> p.type])
        /\ p.type # "MODIFIERS" => Strings(p) = <<>>
      BY <1>3 DEF ShapeOf, Strings
  <2>1. CASE p.type = "START"
    <3>1. Fields([type |-> p.type]) = <<Num(4), Num(4)>> BY <2>1, <1>0 DEF Fields
    <3>2. ShapeOf(p.type) = <<Num(1), Num(4), Num(4)>> BY <2>0, <3>1, Joined
    <3>3. Length(p) = 1 + 4 + 4 BY <2>1, PacketLengths
    <3>4. LaidOut(b, <<Num(1), Num(4), Num(4)>>, p) BY <2>0, <2>1, <3>3, ThreeNumbers
    <3> QED BY <3>2, <3>4
  <2>2. CASE p.type = "END"
    <3>1. Fields([type |-> p.type]) = <<Num(4)>> BY <2>2, <1>0 DEF Fields
    <3>2. ShapeOf(p.type) = <<Num(1), Num(4)>> BY <2>0, <3>1, Joined
    <3>3. Length(p) = 1 + 4 BY <2>2, PacketLengths
    <3>4. LaidOut(b, <<Num(1), Num(4)>>, p) BY <2>0, <2>2, <3>3, TwoNumbers
    <3> QED BY <3>2, <3>4
  <2>3. CASE p.type = "SHIP"
    <3>1. Fields([type |-> p.type]) = <<Num(2), Num(1)>> BY <2>3, <1>0 DEF Fields
    <3>2. ShapeOf(p.type) = <<Num(1), Num(2), Num(1)>> BY <2>0, <3>1, Joined
    <3>3. Length(p) = 1 + 2 + 1 BY <2>3, PacketLengths
    <3>4. LaidOut(b, <<Num(1), Num(2), Num(1)>>, p) BY <2>0, <2>3, <3>3, ThreeNumbers
    <3> QED BY <3>2, <3>4
  <2>4. CASE p.type \in {"SELF", "LEAVE"}
    <3>1. Fields([type |-> p.type]) = <<Num(2)>> BY <2>4, <1>0 DEF Fields
    <3>2. ShapeOf(p.type) = <<Num(1), Num(2)>> BY <2>0, <3>1, Joined
    <3>3. Length(p) = 1 + 2 BY <2>4, PacketLengths
    <3>4. LaidOut(b, <<Num(1), Num(2)>>, p) BY <2>0, <2>4, <3>3, TwoNumbers
    <3> QED BY <3>2, <3>4
  <2>5. CASE p.type = "MODIFIERS"
    <3>1. Fields([type |-> p.type]) = <<AnyStr>> BY <2>5, <1>0 DEF Fields, AnyStr
    <3>2. ShapeOf(p.type) = <<Num(1), AnyStr>> BY <2>0, <3>1, Joined
    <3>3. Length(p) = 0 + 2 /\ Strings(p) = <<0>> BY <2>5, PacketLengths DEF Strings
    <3>4. StringIn(b, 1, 0) BY <2>5 DEF PacketIn
    <3>5. LaidOut(b, <<Num(1), AnyStr>>, p) BY <3>3, <3>4, OneString
    <3> QED BY <3>2, <3>5
  <2> QED BY <1>3, <2>1, <2>2, <2>3, <2>4, <2>5, PacketTypes DEF Counted
<1> QED BY <1>1, <1>2, <1>3

\* The first packet of b is p, if it is there.
LEMMA FirstOfIs ==
    ASSUME NEW b \in Seq(Nat), b # <<>>, NEW p \in PacketRecord, PacketIn(b, 0, p)
    PROVE  /\ Known(b[1]) = {p.type} /\ ~FirstOf(b).fails
           /\ FirstOf(b).whole = (Length(p) <= Len(b))
           /\ FirstOf(b).whole => FirstOf(b).used = Length(p) /\ FirstOf(b).packet = p
<1> DEFINE t == CHOOSE k \in Known(b[1]) : TRUE
<1>0. Len(b) \in Nat /\ Len(b) > 0 OBVIOUS
<1>1. Known(b[1]) = {p.type}
  <2>1. 0 + 1 = 1 /\ 1 <= Len(b) BY <1>0
  <2>2. b[1] = Code[p.type] BY <2>1 DEF PacketIn
  <2> QED BY <2>2, KnownIs
<1>2. t = p.type BY <1>1
<1>3. CASE p.type \in Counted
  <2> DEFINE n == IF Len(b) >= Header(t) THEN b[Header(t)] ELSE 0
  <2>1. p = [type |-> t, num |-> p.num] /\ p.num \in Nat /\ Length(p) = Header(t) + p.num * Width(t)
      BY <1>2, <1>3, PacketTypes, PacketLengths
  <2>2. Header(t) \in Nat /\ Width(t) \in Nat BY DEF Header, Width
  <2>3. Len(b) >= Header(t) => n = p.num
    <3>1. 0 + Header(t) <= Len(b) => b[0 + Header(t)] = p.num BY <1>2, <1>3 DEF PacketIn
    <3> DEFINE h == Header(t)
    <3>2. h \in Nat /\ (0 + h <= Len(b) => b[0 + h] = p.num) BY <2>2, <3>1
    <3> HIDE DEF h
    <3>3. Len(b) >= h => b[h] = p.num
      <4>1. 0 + h = h BY <3>2
      <4> QED BY <1>0, <3>2, <4>1
    <3> QED BY <3>3 DEF h
  <2>4. FirstOf(b) = [whole |-> Len(b) >= Header(t) /\ Len(b) >= Header(t) + n * Width(t), fails |-> FALSE,
                      used |-> Header(t) + n * Width(t), packet |-> [type |-> t, num |-> n]]
      BY <1>2, <1>3 DEF FirstOf
  <2> HIDE DEF n
  <2> DEFINE x == Len(b) >= Header(t) /\ Len(b) >= Header(t) + n * Width(t)
             y == Header(t) + n * Width(t)
             z == [type |-> t, num |-> n]
  <2>5. FirstOf(b).whole = x /\ FirstOf(b).fails = FALSE /\ FirstOf(b).used = y /\ FirstOf(b).packet = z
    <3>1. FirstOf(b) = [whole |-> x, fails |-> FALSE, used |-> y, packet |-> z] BY <2>4
    <3> HIDE DEF x, y, z
    <3> QED BY <3>1, RecordFields
  <2>6. x => y = Length(p) /\ z = p BY <2>1, <2>3
  <2>7. x <=> Length(p) <= Len(b)
    <3> DEFINE h == Header(t)
               d == p.num * Width(t)
    <3>1. h \in Nat /\ d \in Nat /\ Length(p) = h + d BY <2>1, <2>2
    <3>2. Len(b) >= h => n * Width(t) = d BY <2>3
    <3>3. x <=> Len(b) >= h /\ Len(b) >= h + d BY <3>2
    <3> HIDE DEF x, h, d
    <3> QED BY <1>0, <3>1, <3>3
  <2>8. x = (Length(p) <= Len(b)) BY <2>7
  <2> HIDE DEF x, y, z
  <2> QED BY <1>1, <2>5, <2>6, <2>8
<1>4. CASE p.type \notin Counted
  <2> DEFINE s == Packet_scanf(b, ShapeOf(t))
             q == CASE t = "MESSAGE" /\ s.whole -> [type |-> t, str |-> s.lengths[1]]
                    [] t = "PLAYER" /\ s.whole  -> [type |-> t, str |-> s.lengths[1],
                                                    ext |-> s.lengths[2]]
                    [] OTHER -> [type |-> t]
  <2>1. FirstOf(b) = [whole |-> s.whole, fails |-> s.fails, used |-> s.used, packet |-> q]
      BY <1>2, <1>4 DEF FirstOf
  <2>2. LaidOut(b, ShapeOf(t), p) BY <1>2, <1>4, ShapeIs
  <2>3. ScanIs(s, b, Length(p), Strings(p)) BY <2>2, ScansAll DEF LaidOut
  <2>4. /\ ~s.fails /\ s.whole = (Length(p) <= Len(b))
        /\ s.whole => s.used = Length(p) /\ s.lengths = Strings(p)
      BY <2>3 DEF ScanIs, ScanResult
  <2> HIDE DEF s
  <2>5. s.whole => q = p
    <3> SUFFICES ASSUME s.whole PROVE q = p OBVIOUS
    <3>1. CASE t = "MESSAGE"
      <4>1. s.lengths = <<p.str>> BY <1>2, <2>4, <3>1 DEF Strings
      <4>2. q = [type |-> t, str |-> s.lengths[1]] BY <3>1
      <4>3. p = [type |-> p.type, str |-> p.str] BY <1>2, <3>1, PacketTypes
      <4>4. s.lengths[1] = p.str BY <4>1
      <4> HIDE DEF q, t
      <4> QED BY <1>2, <4>2, <4>3, <4>4
    <3>2. CASE t = "PLAYER"
      <4>1. s.lengths = <<p.str, p.ext>> BY <1>2, <2>4, <3>2 DEF Strings
      <4>2. q = [type |-> t, str |-> s.lengths[1], ext |-> s.lengths[2]] BY <3>2
      <4>3. p = [type |-> p.type, str |-> p.str, ext |-> p.ext] BY <1>2, <3>2, PacketTypes
      <4>4. s.lengths[1] = p.str /\ s.lengths[2] = p.ext BY <4>1
      <4> HIDE DEF q, t
      <4> QED BY <1>2, <4>2, <4>3, <4>4
    <3>3. CASE t \notin {"MESSAGE", "PLAYER"}
      <4>1. q = [type |-> t] BY <3>3
      <4> QED BY <1>2, <1>4, <3>3, <4>1, PacketTypes
    <3> QED BY <3>1, <3>2, <3>3
  <2> DEFINE x == s.whole
             y == s.fails
  <2>6. FirstOf(b).whole = x /\ FirstOf(b).fails = y /\ FirstOf(b).used = s.used /\ FirstOf(b).packet = q
    <3>1. FirstOf(b) = [whole |-> x, fails |-> y, used |-> s.used, packet |-> q] BY <2>1
    <3> HIDE DEF x, y, q
    <3> QED BY <3>1, RecordFields
  <2> HIDE DEF q
  <2> QED BY <1>1, <2>4, <2>5, <2>6
<1> QED BY <1>3, <1>4

LEMMA RestIs ==
    ASSUME NEW b \in Seq(Nat), NEW k \in 0 .. Len(b)
    PROVE  LET rest == SubSeq(b, k + 1, Len(b))
           IN  rest \in Seq(Nat) /\ Len(rest) = Len(b) - k /\ \A i \in 1 .. Len(rest) : rest[i] = b[k + i]
OBVIOUS

\* The packets behind the first.
LEMMA SpellsLess ==
    ASSUME NEW b \in Seq(Nat), NEW ps \in Seq(PacketRecord), ps # <<>>, Spells(b, ps)
    PROVE  LET k == Length(ps[1])
           IN  /\ k <= Len(b) /\ PacketIn(b, 0, ps[1])
               /\ Spells(SubSeq(b, k + 1, Len(b)), Tail(ps))
<1>1. PICK cuts \in [0 .. Len(ps) -> 0 .. Len(b)] :
          /\ cuts[0] = 0 /\ cuts[Len(ps)] = Len(b)
          /\ \A i \in 1 .. Len(ps) : /\ cuts[i] = cuts[i - 1] + Length(ps[i])
                                     /\ PacketIn(b, cuts[i - 1], ps[i])
    BY DEF Spells
<1> DEFINE k == Length(ps[1])
           n == Len(ps)
           rest == SubSeq(b, k + 1, Len(b))
           qs == Tail(ps)
           less == [i \in 0 .. n - 1 |-> cuts[i + 1] - k]
<1>2. n \in Nat /\ n > 0 /\ Len(b) \in Nat /\ ps[1] \in PacketRecord OBVIOUS
<1>3. k \in Nat BY <1>2, LengthIs
<1>4. cuts[1] = k /\ PacketIn(b, 0, ps[1])
  <2>1. 1 \in 1 .. Len(ps) /\ 1 - 1 = 0 BY <1>2
  <2>2. cuts[1] = cuts[1 - 1] + k /\ PacketIn(b, cuts[1 - 1], ps[1]) BY <1>1, <2>1
  <2> QED BY <1>1, <1>3, <2>1, <2>2
<1>5. k \in 0 .. Len(b) BY <1>1, <1>2, <1>4
<1>6. rest \in Seq(Nat) /\ Len(rest) = Len(b) - k BY <1>5, RestIs
<1>7. qs \in Seq(PacketRecord) /\ Len(qs) = n - 1 /\ \A i \in 1 .. n - 1 : qs[i] = ps[i + 1] BY <1>2
<1>8. \A i \in 0 .. n : cuts[i] \in Nat /\ cuts[i] <= Len(b) BY <1>1, <1>2
<1>9. \A i \in 1 .. n : cuts[i] >= k
  <2> DEFINE P(j) == j + 1 <= n => cuts[j + 1] >= k
             Good == {j \in Nat : P(j)}
  <2>1. P(0) BY <1>4, <1>3
  <2>2. ASSUME NEW j \in Nat, P(j) PROVE P(j + 1)
    <3> SUFFICES ASSUME j + 1 + 1 <= n PROVE cuts[j + 1 + 1] >= k OBVIOUS
    <3>1. j + 1 + 1 \in 1 .. Len(ps) /\ j + 1 + 1 - 1 = j + 1 /\ j + 1 <= n BY <1>2
    <3>2. cuts[j + 1 + 1] = cuts[j + 1] + Length(ps[j + 1 + 1]) BY <1>1, <3>1
    <3>3. Length(ps[j + 1 + 1]) \in Nat BY <3>1, LengthIs
    <3>4. cuts[j + 1] \in Nat /\ cuts[j + 1] >= k BY <1>2, <1>8, <2>2, <3>1
    <3> QED BY <1>3, <3>2, <3>3, <3>4
  <2> HIDE DEF P
  <2>3. \A j \in Nat : P(j)
    <3>1. 0 \in Good /\ \A j \in Nat : j \in Good => j + 1 \in Good BY <2>1, <2>2
    <3> HIDE DEF Good
    <3>2. \A j \in Nat : j \in Good BY <3>1, Scans!NumberInduction
    <3> QED BY <3>2 DEF Good
  <2>4. ASSUME NEW i \in 1 .. n PROVE cuts[i] >= k
    <3>1. i - 1 \in Nat /\ i - 1 + 1 = i /\ i <= n BY <1>2
    <3>2. P(i - 1) BY <2>3, <3>1
    <3> QED BY <3>1, <3>2 DEF P
  <2> QED BY <2>4
<1>10. less \in [0 .. Len(qs) -> 0 .. Len(rest)]
  <2>1. \A i \in 0 .. n - 1 : i + 1 \in 1 .. n /\ i + 1 \in 0 .. n BY <1>2
  <2>2. \A i \in 0 .. n - 1 : cuts[i + 1] - k \in 0 .. Len(rest) BY <1>3, <1>5, <1>6, <1>8, <1>9, <2>1
  <2> QED BY <1>7, <2>2
<1>11. less[0] = 0 /\ less[Len(qs)] = Len(rest)
  <2>1. 0 \in 0 .. n - 1 /\ n - 1 \in 0 .. n - 1 /\ 0 + 1 = 1 /\ n - 1 + 1 = n BY <1>2
  <2> QED BY <1>1, <1>3, <1>4, <1>6, <1>7, <2>1
<1>12. ASSUME NEW i \in 1 .. Len(qs)
       PROVE  less[i] = less[i - 1] + Length(qs[i]) /\ PacketIn(rest, less[i - 1], qs[i])
  <2>1. /\ i \in 0 .. n - 1 /\ i - 1 \in 0 .. n - 1 /\ i - 1 + 1 = i /\ i + 1 \in 1 .. Len(ps)
        /\ i + 1 - 1 = i /\ i \in 0 .. n /\ i \in 1 .. n
      BY <1>2, <1>7
  <2>2. less[i] = cuts[i + 1] - k /\ less[i - 1] = cuts[i] - k /\ qs[i] = ps[i + 1]
      BY <1>7, <2>1
  <2>3. cuts[i + 1] = cuts[i] + Length(ps[i + 1]) /\ PacketIn(b, cuts[i], ps[i + 1])
      BY <1>1, <2>1
  <2> DEFINE j == cuts[i] - k
             p == ps[i + 1]
             cc == cuts[i]
  <2>4. j \in Nat /\ k + j = cuts[i] /\ p \in PacketRecord BY <1>3, <1>8, <1>9, <2>1
  <2>5. Length(p) \in Nat BY <2>4, LengthIs
  <2>6. PacketIn(rest, j, p)
    <3>1. PacketIn(b, k + j, p) BY <2>3, <2>4
    <3> HIDE DEF j, p, k
    <3> QED BY <1>5, <2>4, <3>1, PacketMoves DEF rest
  <2>7. cc + Length(p) - k = cc - k + Length(p)
    <3>1. cc \in Nat BY <1>8, <2>1
    <3> HIDE DEF cc, p, k
    <3> QED BY <1>3, <2>5, <3>1
  <2> DEFINE e == cuts[i + 1]
             z == Length(p)
  <2>8. less[i] = e - k /\ less[i - 1] = j /\ qs[i] = p /\ e = cc + z /\ cc + z - k = j + z
      BY <2>2, <2>3, <2>7
  <2>12. cc \in Nat /\ z \in Nat /\ k \in Nat /\ j \in Nat BY <1>3, <1>8, <2>1, <2>4, <2>5
  <2> HIDE DEF e, z, j, p, cc, k, less, rest, qs
  <2>9. Length(qs[i]) = z
    <3>1. qs[i] = p /\ z = Length(p) BY <2>8 DEF z
    <3> HIDE DEF z
    <3> QED BY <3>1
  <2>10. less[i] = less[i - 1] + Length(qs[i])
    <3> DEFINE u == less[i]
               v == less[i - 1]
    <3>1. u = e - k /\ v = j /\ e = cc + z /\ cc + z - k = j + z BY <2>8
    <3> HIDE DEF u, v
    <3>2. u = v + z BY <2>12, <3>1
    <3> QED BY <2>9, <3>2 DEF u, v
  <2>11. PacketIn(rest, less[i - 1], qs[i])
    <3> DEFINE v == less[i - 1]
    <3>1. v = j /\ qs[i] = p BY <2>8
    <3> HIDE DEF v
    <3>2. PacketIn(rest, v, qs[i]) BY <2>6, <3>1
    <3> QED BY <3>2 DEF v
  <2> QED BY <2>10, <2>11
<1> HIDE DEF less, rest, qs, k
<1>13. Spells(rest, qs) BY <1>10, <1>11, <1>12 DEF Spells
<1> QED BY <1>4, <1>5, <1>13 DEF rest, qs, k

-----------------------------------------------------------------------------
(* What is written.                                                        *)

PrintResult == [buf : Seq(Nat), fails : BOOLEAN, cut : BOOLEAN]

AddTurn(end, f, r) == IF r.fails THEN r
                      ELSE LET q == Printed(r.buf, f, end)
                           IN  [q EXCEPT !.cut = r.cut \/ q.cut]

Prints == INSTANCE FoldTheorems WITH Turn <- AddTurn

EndOf(size, last) == IF last THEN size ELSE size - SOCKBUF_WRITE_SPARE

Before(b) == [buf |-> b, fails |-> FALSE, cut |-> FALSE]

LEMMA Packet_printfIs ==
    ASSUME NEW b, NEW size, NEW last, NEW fields
    PROVE  Packet_printf(b, size, last, fields) =
               LET all == Prints!OverSeq(EndOf(size, last), Before(b), fields)
               IN  IF all.fails THEN [buf |-> b, count |-> 0, cut |-> FALSE]
                   ELSE [buf |-> all.buf, count |-> Len(all.buf) - Len(b), cut |-> all.cut]
BY DEF Packet_printf, FoldLeft, MapThenFoldSet, Prints!OverSeq, AddTurn, EndOf, Before, Max

\* a is b with k bytes more.
Grown(b, a, k) == a \in Seq(Nat) /\ Len(a) = Len(b) + k /\ \A i \in 1 .. Len(b) : a[i] = b[i]

\* d is what a has behind x bytes.
HasAt(a, x, d) == \A i \in 1 .. Len(d) : a[x + i] = d[i]

LEMMA GrownMore ==
    ASSUME NEW b \in Seq(Nat), NEW a, NEW k \in Nat, Grown(b, a, k), NEW d \in Seq(Nat)
    PROVE  Grown(b, a \o d, k + Len(d)) /\ HasAt(a \o d, Len(b) + k, d)
<1>1. a \in Seq(Nat) /\ Len(a) = Len(b) + k /\ Len(b) \in Nat /\ Len(d) \in Nat BY DEF Grown
<1>2. /\ a \o d \in Seq(Nat) /\ Len(a \o d) = Len(a) + Len(d)
      /\ \A i \in 1 .. Len(a) : (a \o d)[i] = a[i]
      /\ \A i \in 1 .. Len(d) : (a \o d)[Len(a) + i] = d[i]
  <2> DEFINE e == a \o d
  <2>1. e \in Seq(Nat) /\ Len(e) = Len(a) + Len(d) BY <1>1, ConcatProperties
  <2>2. \A i \in 1 .. Len(e) : e[i] = IF i <= Len(a) THEN a[i] ELSE d[i - Len(a)]
      BY <1>1, ConcatProperties
  <2>3. \A i \in 1 .. Len(a) : i \in 1 .. Len(e) /\ i <= Len(a) BY <1>1, <2>1
  <2>4. \A i \in 1 .. Len(d) : /\ Len(a) + i \in 1 .. Len(e) /\ ~(Len(a) + i <= Len(a))
                               /\ Len(a) + i - Len(a) = i
      BY <1>1, <2>1
  <2> HIDE DEF e
  <2>5. /\ \A i \in 1 .. Len(a) : e[i] = a[i]
        /\ \A i \in 1 .. Len(d) : e[Len(a) + i] = d[i]
      BY <2>2, <2>3, <2>4
  <2> QED BY <2>1, <2>5 DEF e
<1> DEFINE e == a \o d
<1>3. /\ e \in Seq(Nat) /\ Len(e) = Len(a) + Len(d)
      /\ \A i \in 1 .. Len(a) : e[i] = a[i]
      /\ \A i \in 1 .. Len(d) : e[Len(a) + i] = d[i]
    BY <1>2
<1> HIDE DEF e
<1>4. \A i \in 1 .. Len(b) : i \in 1 .. Len(a) /\ a[i] = b[i] BY <1>1 DEF Grown
<1>5. Len(e) = Len(b) + (k + Len(d)) BY <1>1, <1>3
<1>6. Grown(b, e, k + Len(d)) BY <1>3, <1>4, <1>5 DEF Grown
<1>7. \A i \in 1 .. Len(d) : e[Len(b) + k + i] = d[i] BY <1>1, <1>3
<1> QED BY <1>6, <1>7 DEF e, HasAt

LEMMA Bytes ==
    ASSUME NEW k \in Nat
    PROVE  /\ NumBytes(k) \in Seq(Nat) /\ Len(NumBytes(k)) = k
           /\ StrBytes(k) \in Seq(Nat) /\ Len(StrBytes(k)) = k + 1
           /\ \A i \in 1 .. k : StrBytes(k)[i] = 120
           /\ StrBytes(k)[k + 1] = 0
<1>1. NumBytes(k) \in [1 .. k -> Nat] BY DEF NumBytes
<1>2. NumBytes(k) \in Seq(Nat) /\ Len(NumBytes(k)) = k BY <1>1
<1>3. StrBytes(k) \in [1 .. k + 1 -> Nat] BY DEF StrBytes
<1>4. k + 1 \in Nat OBVIOUS
<1>5. StrBytes(k) \in Seq(Nat) /\ Len(StrBytes(k)) = k + 1 BY <1>3, <1>4
<1>6. (\A i \in 1 .. k : StrBytes(k)[i] = 120) /\ StrBytes(k)[k + 1] = 0 BY DEF StrBytes
<1> QED BY <1>2, <1>5, <1>6

\* The part of a string that is written where there is room for so many bytes.
LEMMA StringPart ==
    ASSUME NEW n \in Nat, NEW room \in Int
    PROVE  LET d == SubSeq(StrBytes(n), 1, Smaller(n + 1, room))
           IN  /\ d \in Seq(Nat)
               /\ room >= 0 => Len(d) <= room
               /\ n + 1 <= room => d = StrBytes(n)
<1> DEFINE l == Smaller(n + 1, room)
           t == StrBytes(n)
           d == SubSeq(t, 1, l)
<1>1. t \in Seq(Nat) /\ Len(t) = n + 1 BY Bytes
<1>2. l \in Int /\ l <= n + 1 /\ l <= room /\ (n + 1 <= room => l = n + 1) /\ (room >= 0 => l >= 0)
    BY DEF Smaller
<1> HIDE DEF l, t
<1>3. CASE l < 1
  <2>1. d = <<>> BY <1>1, <1>2, <1>3, SubSeqEmpty
  <2> QED BY <1>2, <1>3, <2>1 DEF l, t
<1>4. CASE l >= 1
  <2>1. d \in Seq(Nat) /\ Len(d) = l BY <1>1, <1>2, <1>4
  <2>2. n + 1 <= room => d = t BY <1>1, <1>2, SubSeqFull
  <2> QED BY <1>2, <2>1, <2>2 DEF l, t
<1> QED BY <1>2, <1>3, <1>4

LEMMA ResultFields ==
    ASSUME NEW a, NEW b, NEW cc, NEW x
    PROVE  LET r == [buf |-> a, fails |-> b, cut |-> cc]
           IN  /\ r.buf = a /\ r.fails = b /\ r.cut = cc
               /\ [r EXCEPT !.cut = x] = [buf |-> a, fails |-> b, cut |-> x]
OBVIOUS

\* Numbers of k bytes have been written.
PrintedTo(r, b, end, k) ==
    /\ r \in PrintResult /\ ~r.cut
    /\ r.fails => Len(b) + k >= end
    /\ ~r.fails => Grown(b, r.buf, k) /\ (k > 0 => Len(b) + k < end)

\* The string of n characters has been written behind them.
AlsoPrinted(r, b, end, k, n) ==
    /\ r \in PrintResult
    /\ ~r.fails => /\ Len(r.buf) <= end
                   /\ \E m \in Nat : Grown(b, r.buf, k + m)
                   /\ ~r.cut => Grown(b, r.buf, k + (n + 1)) /\ StringIn(r.buf, Len(b) + k, n)
                   /\ k > 0 /\ n = 0 => ~r.cut

LEMMA NumberPrinted ==
    ASSUME NEW b \in Seq(Nat), NEW end \in Int, NEW k \in Nat, NEW r, PrintedTo(r, b, end, k),
           NEW x \in Nat \ {0}
    PROVE  PrintedTo(AddTurn(end, Num(x), r), b, end, k + x)
<1>0. Len(b) \in Nat OBVIOUS
<1>1. CASE r.fails
  <2>1. AddTurn(end, Num(x), r) = r BY <1>1 DEF AddTurn
  <2>2. Len(b) + (k + x) >= end BY <1>0, <1>1 DEF PrintedTo
  <2> QED BY <1>1, <2>1, <2>2 DEF PrintedTo
<1>2. CASE ~r.fails
  <2> DEFINE a == r.buf
             d == NumBytes(x)
             full == Len(a) + x >= end
  <2>1. Grown(b, a, k) /\ r.cut = FALSE BY <1>2 DEF PrintedTo, PrintResult
  <2>2. Printed(a, Num(x), end) = [buf |-> a \o d, fails |-> full, cut |-> FALSE] BY DEF Printed, Num
  <2>3. d \in Seq(Nat) /\ Len(d) = x BY Bytes
  <2>4. Grown(b, a \o d, k + x)
    <3> HIDE DEF a, d
    <3>1. Grown(b, a \o d, k + Len(d)) BY <2>1, <2>3, GrownMore
    <3> QED BY <2>3, <3>1
  <2>5. full <=> Len(b) + (k + x) >= end BY <1>0, <2>1 DEF Grown
  <2> DEFINE y == a \o d
  <2>6. AddTurn(end, Num(x), r) = [buf |-> y, fails |-> full, cut |-> FALSE]
    <3> DEFINE q == Printed(a, Num(x), end)
    <3>1. AddTurn(end, Num(x), r) = [q EXCEPT !.cut = r.cut \/ q.cut] BY <1>2 DEF AddTurn
    <3>2. q = [buf |-> y, fails |-> full, cut |-> FALSE] BY <2>2
    <3> HIDE DEF q, y, full
    <3>3. q.cut = FALSE BY <3>2
    <3>4. (r.cut \/ q.cut) = FALSE BY <2>1, <3>3
    <3>5. AddTurn(end, Num(x), r) = [q EXCEPT !.cut = FALSE] BY <3>1, <3>4
    <3> QED BY <3>2, <3>5
  <2>7. y \in Seq(Nat) /\ full \in BOOLEAN BY <2>4 DEF Grown
  <2> HIDE DEF y, full
  <2>8. AddTurn(end, Num(x), r) \in PrintResult BY <2>6, <2>7 DEF PrintResult
  <2>9. /\ AddTurn(end, Num(x), r).buf = y /\ AddTurn(end, Num(x), r).fails = full
        /\ AddTurn(end, Num(x), r).cut = FALSE
      BY <2>6, ResultFields
  <2>10. full \/ Len(b) + (k + x) < end BY <1>0, <2>5
  <2> QED BY <2>4, <2>5, <2>8, <2>9, <2>10 DEF PrintedTo, y
<1> QED BY <1>1, <1>2

LEMMA StringPrinted ==
    ASSUME NEW b \in Seq(Nat), NEW end \in Int, NEW k \in Nat, NEW r, PrintedTo(r, b, end, k),
           NEW n \in Nat
    PROVE  AlsoPrinted(AddTurn(end, Str(n), r), b, end, k, n)
<1>0. Len(b) \in Nat /\ MaxStr \in Nat /\ MaxStr > 0 BY BufferAssumption
<1>1. CASE r.fails
  <2>1. AddTurn(end, Str(n), r) = r BY <1>1 DEF AddTurn
  <2> QED BY <1>1, <2>1 DEF PrintedTo, AlsoPrinted
<1>2. CASE ~r.fails
  <2> DEFINE a == r.buf
             stop == IF Len(a) + MaxStr >= end THEN end ELSE Len(a) + MaxStr
             room == stop - Len(a)
             d == SubSeq(StrBytes(n), 1, Smaller(n + 1, room))
             full == Len(a) > stop
             some == n + 1 > room
             y == a \o d
             g == AddTurn(end, Str(n), r)
  <2>1. Grown(b, a, k) /\ r.cut = FALSE /\ (k > 0 => Len(b) + k < end)
      BY <1>2 DEF PrintedTo, PrintResult
  <2>2. a \in Seq(Nat) /\ Len(a) = Len(b) + k /\ Len(a) \in Nat BY <2>1 DEF Grown
  <2>3. Printed(a, Str(n), end) = [buf |-> y, fails |-> full, cut |-> some] BY DEF Printed, Str
  <2> HIDE DEF a
  <2>4. stop \in Int /\ room \in Int /\ stop <= end /\ room <= MaxStr /\ (full <=> room < 0)
        /\ (k > 0 => room >= 1) /\ (some <=> n + 1 > room)
      BY <1>0, <2>1, <2>2
  <2>5. /\ d \in Seq(Nat) /\ (room >= 0 => Len(d) <= room)
        /\ n + 1 <= room => d = StrBytes(n)
      BY <2>4, StringPart
  <2>6. Len(d) \in Nat BY <2>5
  <2> HIDE DEF d
  <2>7. Grown(b, y, k + Len(d)) /\ \A i \in 1 .. Len(d) : y[Len(b) + k + i] = d[i]
    <3>1. d \in Seq(Nat) /\ Grown(b, a, k) BY <2>1, <2>5
    <3>2. Grown(b, a \o d, k + Len(d)) BY <3>1, GrownMore
    <3>3. HasAt(a \o d, Len(b) + k, d) BY <3>1, GrownMore
    <3> QED BY <3>2, <3>3 DEF HasAt
  <2>8. g = [buf |-> y, fails |-> full, cut |-> some]
    <3> DEFINE q == Printed(a, Str(n), end)
    <3>1. g = [q EXCEPT !.cut = r.cut \/ q.cut] BY <1>2 DEF AddTurn, a
    <3>2. q = [buf |-> y, fails |-> full, cut |-> some] BY <2>3
    <3> HIDE DEF q, y, full, some, g
    <3>3. q.cut = some BY <3>2
    <3>4. (r.cut \/ q.cut) = some
      <4>1. some \in BOOLEAN BY DEF some
      <4> QED BY <2>1, <3>3, <4>1
    <3>5. g = [q EXCEPT !.cut = some] BY <3>1, <3>4
    <3> QED BY <3>2, <3>5
  <2>9. y \in Seq(Nat) /\ full \in BOOLEAN /\ some \in BOOLEAN BY <2>7 DEF Grown
  <2>10. ~full => Len(y) <= end
    <3>1. Len(y) = Len(b) + (k + Len(d)) BY <2>7 DEF Grown
    <3>2. room >= 0 => Len(a) + Len(d) <= stop
      <4>1. room >= 0 => Len(d) <= stop - Len(a) BY <2>5
      <4> HIDE DEF stop
      <4> QED BY <2>2, <2>4, <2>6, <4>1
    <3> QED BY <1>0, <2>2, <2>4, <2>6, <3>1, <3>2
  <2>11. ~full /\ ~some => Grown(b, y, k + (n + 1)) /\ StringIn(y, Len(b) + k, n)
    <3> SUFFICES ASSUME n + 1 <= room PROVE Grown(b, y, k + (n + 1)) /\ StringIn(y, Len(b) + k, n)
        BY <2>4
    <3>1. d = StrBytes(n) BY <2>5
    <3>2. Len(d) = n + 1 /\ (\A i \in 1 .. n : d[i] = 120) /\ d[n + 1] = 0
      <4> DEFINE t == StrBytes(n)
      <4>1. Len(t) = n + 1 /\ (\A i \in 1 .. n : t[i] = 120) /\ t[n + 1] = 0 BY Bytes
      <4>2. d = t BY <3>1
      <4> HIDE DEF t
      <4> QED BY <4>1, <4>2
    <3>3. n < MaxStr BY <1>0, <2>4
    <3> HIDE DEF y, room
    <3> DEFINE x == Len(b) + k
    <3>4. x \in Nat BY <1>0
    <3>5. \A i \in 1 .. n + 1 : y[x + i] = d[i] BY <2>7, <3>2
    <3> HIDE DEF x
    <3>6. \A i \in x + 1 .. x + n : y[i] # 0
      <4> SUFFICES ASSUME NEW i \in x + 1 .. x + n PROVE y[i] # 0 OBVIOUS
      <4>1. i - x \in 1 .. n /\ i - x \in 1 .. n + 1 /\ x + (i - x) = i BY <3>4
      <4>2. y[x + (i - x)] = d[i - x] BY <3>5, <4>1
      <4> QED BY <3>2, <4>1, <4>2
    <3>7. y[x + n + 1] = 0
      <4>1. n + 1 \in 1 .. n + 1 /\ x + (n + 1) = x + n + 1 BY <3>4
      <4> QED BY <3>2, <3>5, <4>1
    <3>8. StringIn(y, x, n) BY <3>3, <3>6, <3>7 DEF StringIn
    <3> QED BY <2>7, <3>2, <3>8 DEF x
  <2>12. k > 0 /\ n = 0 => ~some BY <2>4
  <2>13. \E m \in Nat : Grown(b, y, k + m) BY <2>6, <2>7
  <2> HIDE DEF y, full, some, g
  <2>14. g \in PrintResult BY <2>8, <2>9 DEF PrintResult
  <2>15. g.buf = y /\ g.fails = full /\ g.cut = some BY <2>8, ResultFields
  <2>16. AlsoPrinted(g, b, end, k, n) BY <2>10, <2>11, <2>12, <2>13, <2>14, <2>15 DEF AlsoPrinted
  <2> QED BY <2>16 DEF g
<1> QED BY <1>1, <1>2

LEMMA AddTurnType ==
    ASSUME NEW end \in Int, NEW f \in Field, NEW h \in PrintResult
    PROVE  AddTurn(end, f, h) \in PrintResult
<1>1. CASE h.fails BY <1>1 DEF AddTurn
<1>2. CASE ~h.fails
  <2> DEFINE q == Printed(h.buf, f, end)
  <2>0. h.buf \in Seq(Nat) /\ Len(h.buf) \in Nat /\ h.cut \in BOOLEAN BY DEF PrintResult
  <2>1. q \in PrintResult
    <3>1. CASE f.kind = "number"
      <4>1. f.width \in Nat BY <3>1 DEF Field
      <4>2. h.buf \o NumBytes(f.width) \in Seq(Nat) BY <2>0, <4>1, Bytes, ConcatProperties
      <4> QED BY <3>1, <4>2 DEF Printed, PrintResult
    <3>2. CASE f.kind = "string"
      <4> DEFINE stop == IF Len(h.buf) + MaxStr >= end THEN end ELSE Len(h.buf) + MaxStr
                 room == stop - Len(h.buf)
                 d == SubSeq(StrBytes(f.length), 1, Smaller(f.length + 1, room))
      <4>1. f.length \in Nat BY <3>2 DEF Field
      <4>2. room \in Int BY <2>0, BufferAssumption
      <4>3. q = [buf |-> h.buf \o d, fails |-> Len(h.buf) > stop, cut |-> f.length + 1 > room]
          BY <3>2 DEF Printed
      <4> HIDE DEF room
      <4>4. d \in Seq(Nat) BY <4>1, <4>2, StringPart
      <4> HIDE DEF d
      <4>5. h.buf \o d \in Seq(Nat) BY <2>0, <4>4, ConcatProperties
      <4> QED BY <4>3, <4>5 DEF PrintResult
    <3> QED BY <3>1, <3>2 DEF Field
  <2>2. AddTurn(end, f, h) = [q EXCEPT !.cut = h.cut \/ q.cut] BY <1>2 DEF AddTurn
  <2> HIDE DEF q
  <2>3. (h.cut \/ q.cut) \in BOOLEAN OBVIOUS
  <2> QED BY <2>1, <2>2, <2>3 DEF PrintResult
<1> QED BY <1>1, <1>2

LEMMA ClosedTurns ==
    ASSUME NEW end \in Int, NEW seq \in Seq(Field)
    PROVE  Prints!Closed(end, {seq[i] : i \in DOMAIN seq}, PrintResult)
BY AddTurnType DEF Prints!Closed

LEMMA OneTurn ==
    ASSUME NEW end \in Int, NEW base \in PrintResult, NEW f \in Field
    PROVE  Prints!OverSeq(end, base, <<f>>) = AddTurn(end, f, base)
<1> DEFINE r1 == AddTurn(end, f, base)
           A == [i \in 0 .. 1 |-> IF i = 0 THEN {base} ELSE {r1}]
           s == <<f>>
<1>1. A[0] = {base} /\ A[1] = {r1} OBVIOUS
<1> HIDE DEF A
<1>2. base \in A[0] \cap PrintResult BY <1>1
<1>3. s \in Seq(Field) /\ Len(s) = 1 /\ DOMAIN s = {1} /\ s[1] = f /\ 1 - 1 = 0 OBVIOUS
<1>4. \A i \in DOMAIN s : \A x \in A[i - 1] \cap PrintResult : AddTurn(end, s[i], x) \in A[i]
    BY <1>1, <1>3
<1> HIDE DEF s
<1>5. Prints!Closed(end, {s[i] : i \in DOMAIN s}, PrintResult) BY <1>3, ClosedTurns
<1>6. s \in Seq(Field) BY <1>3
<1>7. Prints!OverSeq(end, base, s) \in A[Len(s)] BY <1>2, <1>4, <1>5, <1>6, Prints!SeqInOrder
<1> QED BY <1>1, <1>3, <1>7 DEF s

LEMMA TwoTurns ==
    ASSUME NEW end \in Int, NEW base \in PrintResult, NEW f \in Field, NEW g \in Field
    PROVE  Prints!OverSeq(end, base, <<f, g>>) = AddTurn(end, g, AddTurn(end, f, base))
<1> DEFINE r1 == AddTurn(end, f, base)
           r2 == AddTurn(end, g, r1)
           A == [i \in 0 .. 2 |-> IF i = 0 THEN {base} ELSE IF i = 1 THEN {r1} ELSE {r2}]
           s == <<f, g>>
<1>1. A[0] = {base} /\ A[1] = {r1} /\ A[2] = {r2} OBVIOUS
<1> HIDE DEF A
<1>2. base \in A[0] \cap PrintResult BY <1>1
<1>3. s \in Seq(Field) /\ Len(s) = 2 /\ DOMAIN s = {1, 2} /\ s[1] = f /\ s[2] = g
      /\ 1 - 1 = 0 /\ 2 - 1 = 1
    OBVIOUS
<1>4. \A i \in DOMAIN s : \A x \in A[i - 1] \cap PrintResult : AddTurn(end, s[i], x) \in A[i]
    BY <1>1, <1>3
<1> HIDE DEF s
<1>5. Prints!Closed(end, {s[i] : i \in DOMAIN s}, PrintResult) BY <1>3, ClosedTurns
<1>6. s \in Seq(Field) BY <1>3
<1>7. Prints!OverSeq(end, base, s) \in A[Len(s)] BY <1>2, <1>4, <1>5, <1>6, Prints!SeqInOrder
<1> QED BY <1>1, <1>3, <1>7 DEF s

LEMMA ThreeTurns ==
    ASSUME NEW end \in Int, NEW base \in PrintResult, NEW f \in Field, NEW g \in Field, NEW h \in Field
    PROVE  Prints!OverSeq(end, base, <<f, g, h>>) =
               AddTurn(end, h, AddTurn(end, g, AddTurn(end, f, base)))
<1> DEFINE r1 == AddTurn(end, f, base)
           r2 == AddTurn(end, g, r1)
           r3 == AddTurn(end, h, r2)
           A == [i \in 0 .. 3 |-> IF i = 0 THEN {base} ELSE IF i = 1 THEN {r1}
                                  ELSE IF i = 2 THEN {r2} ELSE {r3}]
           s == <<f, g, h>>
<1>1. A[0] = {base} /\ A[1] = {r1} /\ A[2] = {r2} /\ A[3] = {r3} OBVIOUS
<1> HIDE DEF A
<1>2. base \in A[0] \cap PrintResult BY <1>1
<1>3. s \in Seq(Field) /\ Len(s) = 3 /\ DOMAIN s = {1, 2, 3} /\ s[1] = f /\ s[2] = g /\ s[3] = h
      /\ 1 - 1 = 0 /\ 2 - 1 = 1 /\ 3 - 1 = 2
    OBVIOUS
<1>4. \A i \in DOMAIN s : \A x \in A[i - 1] \cap PrintResult : AddTurn(end, s[i], x) \in A[i]
    BY <1>1, <1>3
<1> HIDE DEF s
<1>5. Prints!Closed(end, {s[i] : i \in DOMAIN s}, PrintResult) BY <1>3, ClosedTurns
<1>6. s \in Seq(Field) BY <1>3
<1>7. Prints!OverSeq(end, base, s) \in A[Len(s)] BY <1>2, <1>4, <1>5, <1>6, Prints!SeqInOrder
<1> QED BY <1>1, <1>3, <1>7 DEF s

LEMMA CountFields ==
    ASSUME NEW a, NEW b, NEW cc, NEW x
    PROVE  LET r == [buf |-> a, count |-> b, cut |-> cc]
           IN  /\ r.buf = a /\ r.count = b /\ r.cut = cc
               /\ [r EXCEPT !.buf = x] = [buf |-> x, count |-> b, cut |-> cc]
OBVIOUS

\* The code is put in front.
LEMMA Coded ==
    ASSUME NEW b \in Seq(Nat), NEW a, NEW m \in Nat, m > 0, Grown(b, a, m), NEW code \in Nat
    PROVE  LET cc == [a EXCEPT ![Len(b) + 1] = code]
           IN  /\ \A k \in Nat : Grown(b, a, k) => Grown(b, cc, k)
               /\ cc[Len(b) + 1] = code
               /\ \A x \in Nat, n \in Nat : x > Len(b) /\ StringIn(a, x, n) => StringIn(cc, x, n)
<1> DEFINE cc == [a EXCEPT ![Len(b) + 1] = code]
<1>1. a \in Seq(Nat) /\ Len(a) = Len(b) + m /\ Len(b) \in Nat BY DEF Grown
<1>2. Len(b) + 1 \in 1 .. Len(a) BY <1>1
<1>3. /\ cc \in Seq(Nat) /\ Len(cc) = Len(a) /\ cc[Len(b) + 1] = code
      /\ \A i \in 1 .. Len(a) : i # Len(b) + 1 => cc[i] = a[i]
  <2>1. cc \in Seq(Nat) /\ Len(cc) = Len(a) BY <1>1, <1>2, ExceptSeq
  <2>2. DOMAIN a = 1 .. Len(a) BY <1>1
  <2> QED BY <1>1, <1>2, <2>1, <2>2
<1> HIDE DEF cc
<1>4. \A k \in Nat : Grown(b, a, k) => Grown(b, cc, k)
  <2>1. \A i \in 1 .. Len(b) : i \in 1 .. Len(a) /\ i # Len(b) + 1 BY <1>1
  <2> QED BY <1>3, <2>1 DEF Grown
<1>5. ASSUME NEW x \in Nat, NEW n \in Nat, x > Len(b), StringIn(a, x, n) PROVE StringIn(cc, x, n)
  <2>1. \A i \in x + 1 .. x + n : i <= Len(cc) => cc[i] = a[i] BY <1>1, <1>3, <1>5
  <2>2. x + n + 1 <= Len(cc) => cc[x + n + 1] = a[x + n + 1] BY <1>1, <1>3, <1>5
  <2> QED BY <1>3, <1>5, <2>1, <2>2 DEF StringIn
<1>6. /\ \A k \in Nat : Grown(b, a, k) => Grown(b, cc, k)
      /\ cc[Len(b) + 1] = code
      /\ \A x \in Nat, n \in Nat : x > Len(b) /\ StringIn(a, x, n) => StringIn(cc, x, n)
    BY <1>3, <1>4, <1>5
<1> QED BY <1>6 DEF cc

\* What Packet_printf writes of p: all but the second string of a player.
PartLength(p) == IF p.type = "PLAYER" THEN p.str + 4 ELSE Length(p)

PartIn(b, k, p) ==
    /\ b[k + 1] = Code[p.type]
    /\ p.type = "MODIFIERS" => StringIn(b, k + 1, 0)
    /\ p.type = "MESSAGE"   => StringIn(b, k + 1, p.str)
    /\ p.type = "PLAYER"    => StringIn(b, k + 3, p.str)

PutIs(r, b, end, p) ==
    /\ r.count \in Nat /\ r.cut \in BOOLEAN /\ r.buf \in Seq(Nat)
    /\ r.count = 0 => r.buf = b /\ ~r.cut
    /\ r.count # 0 => /\ \E m \in Nat : Grown(b, r.buf, m)
                      /\ Len(r.buf) <= end
                      /\ ~r.cut => Grown(b, r.buf, PartLength(p)) /\ PartIn(r.buf, Len(b), p)
    /\ p.type \notin {"MESSAGE", "PLAYER"} => ~r.cut
    /\ p.type \in {"START", "END", "SHIP", "SELF", "LEAVE"} /\ Len(b) + Length(p) < end => r.count # 0

LEMMA PutNothing ==
    ASSUME NEW b \in Seq(Nat), NEW end \in Int, NEW p \in PacketRecord,
           NEW r, r.buf = b, r.count = 0, r.cut = FALSE,
           p.type \in {"START", "END", "SHIP", "SELF", "LEAVE"} => ~(Len(b) + Length(p) < end)
    PROVE  PutIs(r, b, end, p)
<1> DEFINE x == r.count
           y == r.buf
<1>1. x = 0 /\ y = b OBVIOUS
<1> HIDE DEF x, y
<1>2. x \in Nat /\ ~(x # 0) /\ y \in Seq(Nat) BY <1>1
<1> QED BY <1>1, <1>2 DEF PutIs, x, y

LEMMA PutSomething ==
    ASSUME NEW b \in Seq(Nat), NEW end \in Int, NEW p \in PacketRecord,
           NEW r, r.count \in Nat, r.count > 0, r.buf \in Seq(Nat), r.cut \in BOOLEAN,
           NEW m \in Nat, Grown(b, r.buf, m), Len(r.buf) <= end,
           ~r.cut => Grown(b, r.buf, PartLength(p)) /\ PartIn(r.buf, Len(b), p),
           p.type \notin {"MESSAGE", "PLAYER"} => ~r.cut
    PROVE  PutIs(r, b, end, p)
<1> DEFINE x == r.count
           y == r.buf
           z == r.cut
<1>1. x \in Nat /\ x > 0 /\ y \in Seq(Nat) /\ z \in BOOLEAN OBVIOUS
<1>2. Len(y) <= end /\ (~z => Grown(b, y, PartLength(p)) /\ PartIn(y, Len(b), p)) OBVIOUS
<1>3. p.type \notin {"MESSAGE", "PLAYER"} => ~z OBVIOUS
<1>4. \E j \in Nat : Grown(b, y, j) OBVIOUS
<1> HIDE DEF x, y, z
<1>5. x # 0 BY <1>1
<1> QED BY <1>1, <1>2, <1>3, <1>4, <1>5 DEF PutIs, x, y, z

PutResult(b, p, all) ==
    IF all.fails THEN [buf |-> b, count |-> 0, cut |-> FALSE]
    ELSE [buf |-> [all.buf EXCEPT ![Len(b) + 1] = Code[p.type]],
          count |-> Len(all.buf) - Len(b), cut |-> all.cut]

LEMMA PutOf ==
    ASSUME NEW b \in Seq(Nat), NEW size \in Nat, NEW last \in BOOLEAN, NEW p \in PacketRecord,
           NEW all \in PrintResult, ~all.fails => \E m \in Nat : m > 0 /\ Grown(b, all.buf, m),
           all = Prints!OverSeq(EndOf(size, last), Before(b), <<Num(1)>> \o Fields(p))
    PROVE  Put(b, size, last, p) = PutResult(b, p, all)
<1> DEFINE r == Packet_printf(b, size, last, <<Num(1)>> \o Fields(p))
<1>1. r = IF all.fails THEN [buf |-> b, count |-> 0, cut |-> FALSE]
          ELSE [buf |-> all.buf, count |-> Len(all.buf) - Len(b), cut |-> all.cut]
  <2> DEFINE end == EndOf(size, last)
             fs == <<Num(1)>> \o Fields(p)
  <2>1. all = Prints!OverSeq(end, Before(b), fs) OBVIOUS
  <2>2. Packet_printf(b, size, last, fs) =
            LET a == Prints!OverSeq(EndOf(size, last), Before(b), fs)
            IN  IF a.fails THEN [buf |-> b, count |-> 0, cut |-> FALSE]
                ELSE [buf |-> a.buf, count |-> Len(a.buf) - Len(b), cut |-> a.cut]
      BY Packet_printfIs
  <2> QED BY <2>1, <2>2
<1>2. Put(b, size, last, p) = IF r.count = 0 THEN r ELSE [r EXCEPT !.buf[Len(b) + 1] = Code[p.type]]
    BY DEF Put
<1> HIDE DEF r
<1>3. CASE all.fails
  <2>1. r.count = 0 BY <1>1, <1>3
  <2> QED BY <1>1, <1>2, <1>3, <2>1 DEF PutResult
<1>4. CASE ~all.fails
  <2> DEFINE a == all.buf
             n == Len(a) - Len(b)
             k == all.cut
             cc == [a EXCEPT ![Len(b) + 1] = Code[p.type]]
  <2>1. n > 0
    <3>1. PICK m \in Nat : m > 0 /\ Grown(b, a, m) BY <1>4
    <3>2. Len(a) = Len(b) + m /\ Len(b) \in Nat BY <3>1 DEF Grown
    <3> QED BY <3>1, <3>2
  <2>2. r = [buf |-> a, count |-> n, cut |-> k] BY <1>1, <1>4
  <2>3. r.count = n /\ r.buf = a
    <3> HIDE DEF a, n, k
    <3> QED BY <2>2, CountFields
  <2>4. r.count # 0
    <3> HIDE DEF n
    <3> QED BY <2>1, <2>3
  <2>5. Put(b, size, last, p) = [r EXCEPT !.buf = [r.buf EXCEPT ![Len(b) + 1] = Code[p.type]]]
      BY <1>2, <2>4
  <2>6. Put(b, size, last, p) = [r EXCEPT !.buf = cc]
    <3>1. [r.buf EXCEPT ![Len(b) + 1] = Code[p.type]] = cc BY <2>3
    <3> HIDE DEF cc
    <3> QED BY <2>5, <3>1
  <2>7. Put(b, size, last, p) = [buf |-> cc, count |-> n, cut |-> k]
    <3> HIDE DEF a, n, k, cc
    <3> QED BY <2>2, <2>6, CountFields
  <2> QED BY <1>4, <2>7 DEF PutResult
<1> QED BY <1>3, <1>4

LEMMA PutNumbers ==
    ASSUME NEW b \in Seq(Nat), NEW size \in Nat, NEW last \in BOOLEAN, NEW p \in PacketRecord,
           p.type \in {"START", "END", "SHIP", "SELF", "LEAVE"},
           NEW all, all = Prints!OverSeq(EndOf(size, last), Before(b), <<Num(1)>> \o Fields(p)),
           PrintedTo(all, b, EndOf(size, last), Length(p))
    PROVE  PutIs(Put(b, size, last, p), b, EndOf(size, last), p)
<1> DEFINE end == EndOf(size, last)
           k == Length(p)
           r == Put(b, size, last, p)
           a == all.buf
           n == Len(a) - Len(b)
           cut == all.cut
           cc == [a EXCEPT ![Len(b) + 1] = Code[p.type]]
<1>1. k \in Nat /\ k > 0 /\ Len(b) \in Nat /\ end \in Int BY LengthIs DEF EndOf, SOCKBUF_WRITE_SPARE
<1> HIDE DEF k, end
<1>2. /\ all \in PrintResult /\ ~all.cut
      /\ all.fails => Len(b) + k >= end
      /\ ~all.fails => Grown(b, a, k) /\ (k > 0 => Len(b) + k < end)
    BY DEF PrintedTo, k, end
<1>3. ~all.fails => \E m \in Nat : m > 0 /\ Grown(b, all.buf, m) BY <1>1, <1>2
<1>4. r = IF all.fails THEN [buf |-> b, count |-> 0, cut |-> FALSE]
          ELSE [buf |-> cc, count |-> n, cut |-> cut]
  <2>1. all \in PrintResult BY <1>2
  <2>2. r = PutResult(b, p, all) BY <2>1, <1>3, PutOf
  <2> QED BY <2>2 DEF PutResult
<1> HIDE DEF r, cc
<1>5. CASE all.fails
  <2>1. r = [buf |-> b, count |-> 0, cut |-> FALSE] BY <1>4, <1>5
  <2>2. r.buf = b /\ r.count = 0 /\ r.cut = FALSE BY <2>1
  <2>3. ~(Len(b) + k < end) BY <1>1, <1>2, <1>5
  <2>4. PutIs(r, b, end, p) BY <1>1, <2>2, <2>3, PutNothing DEF k
  <2> QED BY <2>4 DEF r, end
<1>6. CASE ~all.fails
  <2>1. r = [buf |-> cc, count |-> n, cut |-> cut] BY <1>4, <1>6
  <2>2. Grown(b, a, k) /\ Len(b) + k < end /\ cut = FALSE BY <1>1, <1>2, <1>6 DEF PrintResult
  <2>3. n \in Nat /\ n > 0 BY <1>1, <2>2 DEF Grown
  <2> HIDE DEF a, n, cut
  <2>4. r.buf = cc /\ r.count = n /\ r.cut = cut BY <2>1, CountFields
  <2>5. Code[p.type] \in Nat BY PacketTypes
  <2>6. Grown(b, cc, k) /\ cc[Len(b) + 1] = Code[p.type] BY <1>1, <2>2, <2>5, Coded DEF cc
  <2>7. PartLength(p) = k /\ PartIn(cc, Len(b), p) BY <2>6 DEF PartLength, PartIn, k
  <2>8. cc \in Seq(Nat) /\ Len(cc) <= end BY <1>1, <2>2, <2>6 DEF Grown
  <2>9. PutIs(r, b, end, p) BY <1>1, <2>2, <2>3, <2>4, <2>6, <2>7, <2>8, PutSomething
  <2> QED BY <2>9 DEF r, end
<1> QED BY <1>5, <1>6

\* The string of n characters is behind k bytes of numbers.
StringAt(p, k, n) == /\ k = IF p.type = "PLAYER" THEN 3 ELSE 1
                     /\ n = IF p.type = "MODIFIERS" THEN 0 ELSE p.str

LEMMA PutString ==
    ASSUME NEW b \in Seq(Nat), NEW size \in Nat, NEW last \in BOOLEAN, NEW p \in PacketRecord,
           p.type \in {"MODIFIERS", "MESSAGE", "PLAYER"},
           NEW all, all = Prints!OverSeq(EndOf(size, last), Before(b), <<Num(1)>> \o Fields(p)),
           NEW k \in Nat, NEW n \in Nat, AlsoPrinted(all, b, EndOf(size, last), k, n),
           StringAt(p, k, n)
    PROVE  PutIs(Put(b, size, last, p), b, EndOf(size, last), p)
<1> DEFINE end == EndOf(size, last)
           r == Put(b, size, last, p)
           a == all.buf
           l == Len(a) - Len(b)
           cut == all.cut
           cc == [a EXCEPT ![Len(b) + 1] = Code[p.type]]
<1>1. k > 0 /\ Len(b) \in Nat /\ end \in Int BY DEF StringAt, EndOf, SOCKBUF_WRITE_SPARE
<1> HIDE DEF end
<1>2. /\ all \in PrintResult
      /\ ~all.fails => /\ Len(a) <= end
                       /\ \E m \in Nat : Grown(b, a, k + m)
                       /\ ~cut => Grown(b, a, k + (n + 1)) /\ StringIn(a, Len(b) + k, n)
                       /\ k > 0 /\ n = 0 => ~cut
    BY DEF AlsoPrinted, end
<1>3. ~all.fails => \E m \in Nat : m > 0 /\ Grown(b, all.buf, m)
  <2> SUFFICES ASSUME ~all.fails PROVE \E m \in Nat : m > 0 /\ Grown(b, all.buf, m) OBVIOUS
  <2>1. PICK m \in Nat : Grown(b, a, k + m) BY <1>2
  <2>2. k + m \in Nat /\ k + m > 0 BY <1>1
  <2> QED BY <2>1, <2>2
<1>4. r = IF all.fails THEN [buf |-> b, count |-> 0, cut |-> FALSE]
          ELSE [buf |-> cc, count |-> l, cut |-> cut]
  <2>1. all \in PrintResult BY <1>2
  <2>2. r = PutResult(b, p, all) BY <2>1, <1>3, PutOf
  <2> QED BY <2>2 DEF PutResult
<1> HIDE DEF r, cc
<1>5. CASE all.fails
  <2>1. r = [buf |-> b, count |-> 0, cut |-> FALSE] BY <1>4, <1>5
  <2>2. r.buf = b /\ r.count = 0 /\ r.cut = FALSE BY <2>1
  <2>3. PutIs(r, b, end, p) BY <1>1, <2>2, PutNothing
  <2> QED BY <2>3 DEF r, end
<1>6. CASE ~all.fails
  <2>1. r = [buf |-> cc, count |-> l, cut |-> cut] BY <1>4, <1>6
  <2>2. PICK m \in Nat : m > 0 /\ Grown(b, a, m) BY <1>3, <1>6
  <2>3. l \in Nat /\ l > 0 /\ l = m BY <1>1, <2>2 DEF Grown
  <2>4. cut \in BOOLEAN BY <1>2 DEF PrintResult
  <2>5. Code[p.type] \in Nat BY PacketTypes
  <2>6. /\ \A j \in Nat : Grown(b, a, j) => Grown(b, cc, j)
        /\ cc[Len(b) + 1] = Code[p.type]
        /\ \A x \in Nat, i \in Nat : x > Len(b) /\ StringIn(a, x, i) => StringIn(cc, x, i)
    <3> HIDE DEF a
    <3> QED BY <2>2, <2>5, Coded DEF cc
  <2>7. Len(cc) = Len(a) /\ cc \in Seq(Nat)
    <3>1. Grown(b, cc, m) BY <2>2, <2>6
    <3> QED BY <2>2, <3>1 DEF Grown
  <2>8. k + (n + 1) \in Nat /\ Len(b) + k \in Nat /\ Len(b) + k > Len(b) BY <1>1
  <2>9. ~cut => Grown(b, cc, k + (n + 1)) /\ StringIn(cc, Len(b) + k, n)
      BY <1>2, <1>6, <2>6, <2>8
  <2>10. PartLength(p) = k + (n + 1)
    <3>1. CASE p.type = "PLAYER"
      <4>1. p.str \in Nat BY <3>1, PacketTypes
      <4> QED BY <3>1, <4>1 DEF PartLength, StringAt
    <3>2. CASE p.type = "MESSAGE"
      <4>1. p.str \in Nat /\ Length(p) = p.str + 2 BY <3>2, PacketTypes, PacketLengths
      <4> QED BY <3>2, <4>1 DEF PartLength, StringAt
    <3>3. CASE p.type = "MODIFIERS"
      <4>1. Length(p) = 2 BY <3>3, PacketLengths
      <4> QED BY <3>3, <4>1 DEF PartLength, StringAt
    <3> QED BY <3>1, <3>2, <3>3
  <2>11. ~cut => PartIn(cc, Len(b), p) BY <2>6, <2>9 DEF PartIn, StringAt
  <2>12. p.type = "MODIFIERS" => ~cut BY <1>1, <1>2, <1>6 DEF StringAt
  <2>13. Len(cc) <= end /\ Grown(b, cc, m) BY <1>2, <1>6, <2>2, <2>6, <2>7
  <2> HIDE DEF a, l, cut
  <2>14. r.buf = cc /\ r.count = l /\ r.cut = cut BY <2>1, CountFields
  <2>15. PutIs(r, b, end, p)
      BY <1>1, <2>2, <2>3, <2>4, <2>7, <2>9, <2>10, <2>11, <2>12, <2>13, <2>14, PutSomething
  <2> QED BY <2>15 DEF r, end
<1> QED BY <1>5, <1>6

LEMMA FieldsOf ==
    ASSUME NEW k \in Nat \ {0}, NEW n \in Nat
    PROVE  Num(k) \in Field /\ Str(n) \in Field
BY DEF Num, Str, Field

LEMMA NothingPrinted ==
    ASSUME NEW b \in Seq(Nat), NEW end \in Int
    PROVE  Before(b) \in PrintResult /\ PrintedTo(Before(b), b, end, 0)
<1>1. Before(b) \in PrintResult /\ Before(b).buf = b /\ Before(b).fails = FALSE /\ Before(b).cut = FALSE
    BY DEF Before, PrintResult
<1>2. Grown(b, b, 0) BY DEF Grown
<1> QED BY <1>1, <1>2 DEF PrintedTo

\* The shapes of all that is written.
LEMMA FirstNumber ==
    ASSUME NEW b \in Seq(Nat), NEW end \in Int
    PROVE  PrintedTo(AddTurn(end, Num(1), Before(b)), b, end, 1)
<1> DEFINE r == Before(b)
           z == 0
           x == 1
           r1 == AddTurn(end, Num(x), r)
<1>1. PrintedTo(r, b, end, z) /\ z \in Nat /\ x \in Nat \ {0} /\ z + x = x BY NothingPrinted
<1> HIDE DEF r, z, x
<1>2. PrintedTo(r1, b, end, z + x) BY <1>1, NumberPrinted
<1> QED BY <1>1, <1>2 DEF x, r

LEMMA TwoPrinted ==
    ASSUME NEW b \in Seq(Nat), NEW end \in Int, NEW k \in Nat \ {0}
    PROVE  PrintedTo(Prints!OverSeq(end, Before(b), <<Num(1), Num(k)>>), b, end, 1 + k)
<1> DEFINE r == Before(b)
           f == Num(1)
           g == Num(k)
           x == 1
           r1 == AddTurn(end, f, r)
<1>1. PrintedTo(r1, b, end, x) /\ x \in Nat BY FirstNumber
<1>2. r \in PrintResult /\ f \in Field /\ g \in Field BY NothingPrinted, FieldsOf
<1> HIDE DEF r, f, x
<1>3. Prints!OverSeq(end, r, <<f, g>>) = AddTurn(end, g, r1)
  <2> HIDE DEF g
  <2> QED BY <1>2, TwoTurns
<1> HIDE DEF r1
<1>4. PrintedTo(AddTurn(end, g, r1), b, end, x + k) BY <1>1, NumberPrinted
<1> HIDE DEF g
<1>5. PrintedTo(Prints!OverSeq(end, r, <<f, g>>), b, end, x + k) BY <1>3, <1>4
<1> QED BY <1>5 DEF r, f, g, x

LEMMA ThreePrinted ==
    ASSUME NEW b \in Seq(Nat), NEW end \in Int, NEW k \in Nat \ {0}, NEW l \in Nat \ {0}
    PROVE  PrintedTo(Prints!OverSeq(end, Before(b), <<Num(1), Num(k), Num(l)>>), b, end, 1 + k + l)
<1> DEFINE r == Before(b)
           f == Num(1)
           g == Num(k)
           h == Num(l)
           x == 1
           y == x + k
           r1 == AddTurn(end, f, r)
           r2 == AddTurn(end, g, r1)
<1>1. PrintedTo(r1, b, end, x) /\ x \in Nat /\ y \in Nat BY FirstNumber
<1>2. r \in PrintResult /\ f \in Field /\ g \in Field /\ h \in Field BY NothingPrinted, FieldsOf
<1> HIDE DEF r, f, x
<1>3. Prints!OverSeq(end, r, <<f, g, h>>) = AddTurn(end, h, r2)
  <2> HIDE DEF g, h
  <2> QED BY <1>2, ThreeTurns
<1> HIDE DEF r1
<1>4. PrintedTo(r2, b, end, y) BY <1>1, NumberPrinted
<1> HIDE DEF r2, y
<1>5. PrintedTo(AddTurn(end, h, r2), b, end, y + l) BY <1>1, <1>4, NumberPrinted
<1> HIDE DEF h
<1>6. PrintedTo(Prints!OverSeq(end, r, <<f, g, h>>), b, end, y + l) BY <1>3, <1>5
<1> QED BY <1>6 DEF r, f, g, h, x, y

LEMMA StringsPrinted ==
    ASSUME NEW b \in Seq(Nat), NEW end \in Int, NEW n \in Nat
    PROVE  /\ AlsoPrinted(Prints!OverSeq(end, Before(b), <<Str(n)>>), b, end, 0, n)
           /\ AlsoPrinted(Prints!OverSeq(end, Before(b), <<Num(1), Str(n)>>), b, end, 1, n)
           /\ AlsoPrinted(Prints!OverSeq(end, Before(b), <<Num(1), Num(2), Str(n)>>), b, end, 3, n)
<1> DEFINE r == Before(b)
           f == Num(1)
           g == Num(2)
           s == Str(n)
           w1 == 1
           w2 == 2
           w3 == 3
           z == 0
           r1 == AddTurn(end, f, r)
           r2 == AddTurn(end, g, r1)
<1>1. /\ PrintedTo(r, b, end, z) /\ PrintedTo(r1, b, end, w1)
      /\ z \in Nat /\ w1 \in Nat /\ w2 \in Nat \ {0} /\ w3 \in Nat /\ w1 + w2 = w3
    BY NothingPrinted, FirstNumber
<1>2. r \in PrintResult /\ f \in Field /\ g \in Field /\ s \in Field BY NothingPrinted, FieldsOf
<1>3. g = Num(w2) OBVIOUS
<1> HIDE DEF r, f, g, z, w1, w2, w3
<1>4. /\ Prints!OverSeq(end, r, <<s>>) = AddTurn(end, s, r)
      /\ Prints!OverSeq(end, r, <<f, s>>) = AddTurn(end, s, r1)
      /\ Prints!OverSeq(end, r, <<f, g, s>>) = AddTurn(end, s, r2)
  <2> HIDE DEF s
  <2>1. Prints!OverSeq(end, r, <<s>>) = AddTurn(end, s, r) BY <1>2, OneTurn
  <2>2. Prints!OverSeq(end, r, <<f, s>>) = AddTurn(end, s, r1) BY <1>2, TwoTurns
  <2>3. Prints!OverSeq(end, r, <<f, g, s>>) = AddTurn(end, s, r2) BY <1>2, ThreeTurns
  <2> QED BY <2>1, <2>2, <2>3
<1> HIDE DEF r1
<1>5. PrintedTo(r2, b, end, w3)
  <2>1. PrintedTo(AddTurn(end, Num(w2), r1), b, end, w1 + w2) BY <1>1, NumberPrinted
  <2> QED BY <1>1, <1>3, <2>1
<1> HIDE DEF r2
<1>6. AlsoPrinted(AddTurn(end, s, r), b, end, z, n) BY <1>1, StringPrinted
<1>7. AlsoPrinted(AddTurn(end, s, r1), b, end, w1, n) BY <1>1, StringPrinted
<1>8. AlsoPrinted(AddTurn(end, s, r2), b, end, w3, n) BY <1>1, <1>5, StringPrinted
<1> HIDE DEF s
<1>9. /\ AlsoPrinted(Prints!OverSeq(end, r, <<s>>), b, end, z, n)
      /\ AlsoPrinted(Prints!OverSeq(end, r, <<f, s>>), b, end, w1, n)
      /\ AlsoPrinted(Prints!OverSeq(end, r, <<f, g, s>>), b, end, w3, n)
    BY <1>4, <1>6, <1>7, <1>8
<1> QED BY <1>9 DEF r, f, g, s, z, w1, w3

LEMMA PutPacket ==
    ASSUME NEW b \in Seq(Nat), NEW size \in Nat, NEW last \in BOOLEAN, NEW p \in PacketRecord,
           p.type \notin Counted
    PROVE  PutIs(Put(b, size, last, p), b, EndOf(size, last), p)
<1> DEFINE end == EndOf(size, last)
           fs == <<Num(1)>> \o Fields(p)
           all == Prints!OverSeq(end, Before(b), fs)
<1>1. end \in Int BY DEF EndOf, SOCKBUF_WRITE_SPARE
<1>2. ASSUME p.type \in {"START", "END", "SHIP", "SELF", "LEAVE"}, PrintedTo(all, b, end, Length(p))
      PROVE  PutIs(Put(b, size, last, p), b, end, p)
    BY <1>2, PutNumbers
<1>3. ASSUME NEW k \in Nat, NEW n \in Nat, p.type \in {"MODIFIERS", "MESSAGE", "PLAYER"},
             AlsoPrinted(all, b, end, k, n), StringAt(p, k, n)
      PROVE  PutIs(Put(b, size, last, p), b, end, p)
    BY <1>3, PutString
<1> SUFFICES PutIs(Put(b, size, last, p), b, end, p) OBVIOUS
<1> HIDE DEF end, all
<1>4. all = Prints!OverSeq(end, Before(b), fs) BY DEF all
<1>5. CASE p.type = "START"
  <2>1. Fields(p) = <<Num(4), Num(4)>> BY <1>5 DEF Fields
  <2>2. fs = <<Num(1), Num(4), Num(4)>> BY <2>1, Joined
  <2>3. PrintedTo(Prints!OverSeq(end, Before(b), <<Num(1), Num(4), Num(4)>>), b, end, 1 + 4 + 4)
      BY <1>1, ThreePrinted
  <2>4. Length(p) = 1 + 4 + 4 BY <1>5, PacketLengths
  <2>5. PrintedTo(all, b, end, Length(p)) BY <1>4, <2>2, <2>3, <2>4
  <2> QED BY <1>2, <1>5, <2>5
<1>6. CASE p.type = "END"
  <2>1. Fields(p) = <<Num(4)>> BY <1>6 DEF Fields
  <2>2. fs = <<Num(1), Num(4)>> BY <2>1, Joined
  <2>3. PrintedTo(Prints!OverSeq(end, Before(b), <<Num(1), Num(4)>>), b, end, 1 + 4)
      BY <1>1, TwoPrinted
  <2>4. Length(p) = 1 + 4 BY <1>6, PacketLengths
  <2>5. PrintedTo(all, b, end, Length(p)) BY <1>4, <2>2, <2>3, <2>4
  <2> QED BY <1>2, <1>6, <2>5
<1>7. CASE p.type = "SHIP"
  <2>1. Fields(p) = <<Num(2), Num(1)>> BY <1>7 DEF Fields
  <2>2. fs = <<Num(1), Num(2), Num(1)>> BY <2>1, Joined
  <2>3. PrintedTo(Prints!OverSeq(end, Before(b), <<Num(1), Num(2), Num(1)>>), b, end, 1 + 2 + 1)
      BY <1>1, ThreePrinted
  <2>4. Length(p) = 1 + 2 + 1 BY <1>7, PacketLengths
  <2>5. PrintedTo(all, b, end, Length(p)) BY <1>4, <2>2, <2>3, <2>4
  <2> QED BY <1>2, <1>7, <2>5
<1>8. CASE p.type \in {"SELF", "LEAVE"}
  <2>1. Fields(p) = <<Num(2)>> BY <1>8 DEF Fields
  <2>2. fs = <<Num(1), Num(2)>> BY <2>1, Joined
  <2>3. PrintedTo(Prints!OverSeq(end, Before(b), <<Num(1), Num(2)>>), b, end, 1 + 2)
      BY <1>1, TwoPrinted
  <2>4. Length(p) = 1 + 2 BY <1>8, PacketLengths
  <2>5. PrintedTo(all, b, end, Length(p)) BY <1>4, <2>2, <2>3, <2>4
  <2> QED BY <1>2, <1>8, <2>5
<1>9. CASE p.type = "MODIFIERS"
  <2>1. Fields(p) = <<Str(0)>> BY <1>9 DEF Fields
  <2>2. fs = <<Num(1), Str(0)>> BY <2>1, Joined
  <2>3. AlsoPrinted(Prints!OverSeq(end, Before(b), <<Num(1), Str(0)>>), b, end, 1, 0)
      BY <1>1, StringsPrinted
  <2>4. StringAt(p, 1, 0) BY <1>9 DEF StringAt
  <2>5. AlsoPrinted(all, b, end, 1, 0) BY <1>4, <2>2, <2>3
  <2> QED BY <1>3, <1>9, <2>4, <2>5
<1>10. CASE p.type = "MESSAGE"
  <2>0. p.str \in Nat BY <1>10, PacketTypes
  <2>1. Fields(p) = <<Str(p.str)>> BY <1>10 DEF Fields
  <2>2. fs = <<Num(1), Str(p.str)>> BY <2>1, Joined
  <2>3. AlsoPrinted(Prints!OverSeq(end, Before(b), <<Num(1), Str(p.str)>>), b, end, 1, p.str)
      BY <1>1, <2>0, StringsPrinted
  <2>4. StringAt(p, 1, p.str) BY <1>10 DEF StringAt
  <2>5. AlsoPrinted(all, b, end, 1, p.str) BY <1>4, <2>2, <2>3
  <2> QED BY <1>3, <1>10, <2>0, <2>4, <2>5
<1>11. CASE p.type = "PLAYER"
  <2>0. p.str \in Nat BY <1>11, PacketTypes
  <2>1. Fields(p) = <<Num(2), Str(p.str)>> BY <1>11 DEF Fields
  <2>2. fs = <<Num(1), Num(2), Str(p.str)>> BY <2>1, Joined
  <2>3. AlsoPrinted(Prints!OverSeq(end, Before(b), <<Num(1), Num(2), Str(p.str)>>), b, end, 3, p.str)
      BY <1>1, <2>0, StringsPrinted
  <2>4. StringAt(p, 3, p.str) BY <1>11 DEF StringAt
  <2>5. AlsoPrinted(all, b, end, 3, p.str) BY <1>4, <2>2, <2>3
  <2> QED BY <1>3, <1>11, <2>0, <2>4, <2>5
<1>12. p.type \in {"START", "END", "SHIP", "SELF", "LEAVE", "MODIFIERS", "MESSAGE", "PLAYER"}
    BY PacketTypes DEF Counted
<1> QED BY <1>5, <1>6, <1>7, <1>8, <1>9, <1>10, <1>11, <1>12

\* As Put, but a whole packet.
WroteIs(r, b, end, p) ==
    /\ r.count \in Nat /\ r.cut \in BOOLEAN /\ r.buf \in Seq(Nat)
    /\ r.count = 0 => r.buf = b /\ ~r.cut
    /\ r.count # 0 /\ ~r.cut => Grown(b, r.buf, Length(p)) /\ PacketIn(r.buf, Len(b), p)

LEMMA WroteNothing ==
    ASSUME NEW b \in Seq(Nat), NEW end, NEW p, NEW r, r.buf = b, r.count = 0, r.cut = FALSE
    PROVE  WroteIs(r, b, end, p)
<1> DEFINE x == r.count
           y == r.buf
<1>1. x = 0 /\ y = b OBVIOUS
<1> HIDE DEF x, y
<1>2. x \in Nat /\ ~(x # 0) /\ y \in Seq(Nat) BY <1>1
<1> QED BY <1>1, <1>2 DEF WroteIs, x, y

LEMMA PutWhole ==
    ASSUME NEW b \in Seq(Nat), NEW end \in Int, NEW p \in PacketRecord, p.type \notin Counted \cup {"PLAYER"},
           NEW r, PutIs(r, b, end, p)
    PROVE  WroteIs(r, b, end, p)
<1>1. /\ r.count \in Nat /\ r.cut \in BOOLEAN /\ r.buf \in Seq(Nat)
      /\ r.count = 0 => r.buf = b /\ ~r.cut
    BY DEF PutIs
<1>2. r.count # 0 /\ ~r.cut => Grown(b, r.buf, PartLength(p)) /\ PartIn(r.buf, Len(b), p)
    BY DEF PutIs
<1>3. PartLength(p) = Length(p) BY DEF PartLength
<1>4. PartIn(r.buf, Len(b), p) => PacketIn(r.buf, Len(b), p) BY DEF PartIn, PacketIn
<1> QED BY <1>1, <1>2, <1>3, <1>4 DEF WroteIs

\* What Send_player makes of its second part.
ExtraOf(b, r, x) ==
    [buf |-> IF x.count = 0 THEN b ELSE x.buf, count |-> x.count, cut |-> x.count > 0 /\ (r.cut \/ x.cut)]

LEMMA PutPlayer ==
    ASSUME NEW b \in Seq(Nat), NEW size \in Nat, NEW p \in PacketRecord, p.type = "PLAYER",
           NEW r, PutIs(r, b, EndOf(size, FALSE), p), r.count # 0
    PROVE  WroteIs(ExtraOf(b, r, Packet_printf(r.buf, size, FALSE, <<Str(p.ext)>>)), b, EndOf(size, FALSE), p)
<1> DEFINE end == EndOf(size, FALSE)
           a == r.buf
           all == Prints!OverSeq(end, Before(a), <<Str(p.ext)>>)
           x == Packet_printf(a, size, FALSE, <<Str(p.ext)>>)
           e == ExtraOf(b, r, x)
<1>0. p.ext \in Nat /\ p.str \in Nat /\ Length(p) = p.str + p.ext + 5 BY PacketTypes, PacketLengths
<1>1. end \in Int BY DEF EndOf, SOCKBUF_WRITE_SPARE
<1>2. /\ a \in Seq(Nat) /\ r.cut \in BOOLEAN
      /\ ~r.cut => Grown(b, a, p.str + 4) /\ PartIn(a, Len(b), p)
      /\ \E m \in Nat : Grown(b, a, m)
    BY DEF PutIs, PartLength
<1>3. x = IF all.fails THEN [buf |-> a, count |-> 0, cut |-> FALSE]
          ELSE [buf |-> all.buf, count |-> Len(all.buf) - Len(a), cut |-> all.cut]
    BY Packet_printfIs
<1> HIDE DEF a, end, x
<1>4. AlsoPrinted(all, a, end, 0, p.ext) BY <1>0, <1>1, <1>2, StringsPrinted
<1> HIDE DEF all
<1>5. /\ all.buf \in Seq(Nat) /\ all.cut \in BOOLEAN
      /\ ~all.fails /\ ~all.cut => Grown(a, all.buf, p.ext + 1) /\ StringIn(all.buf, Len(a), p.ext)
      /\ ~all.fails => \E m \in Nat : Grown(a, all.buf, m)
  <2> DEFINE n == p.ext
             l == Len(a)
  <2>1. n \in Nat /\ l \in Nat BY <1>0, <1>2
  <2>2. /\ all \in PrintResult
        /\ ~all.fails => \E m \in Nat : Grown(a, all.buf, 0 + m)
        /\ ~all.fails /\ ~all.cut => Grown(a, all.buf, 0 + (n + 1)) /\ StringIn(all.buf, l + 0, n)
      BY <1>4 DEF AlsoPrinted
  <2> HIDE DEF n, l
  <2>3. 0 + (n + 1) = n + 1 /\ l + 0 = l /\ \A m \in Nat : 0 + m = m BY <2>1
  <2> QED BY <2>2, <2>3 DEF n, l, PrintResult
<1>6. CASE x.count = 0
  <2>1. e = [buf |-> b, count |-> x.count, cut |-> FALSE]
    <3>1. ~(x.count > 0) BY <1>6
    <3>2. (x.count > 0 /\ (r.cut \/ x.cut)) = FALSE BY <3>1
    <3> QED BY <1>6, <3>2 DEF ExtraOf
  <2>2. e.buf = b /\ e.count = 0 /\ e.cut = FALSE BY <1>6, <2>1
  <2> HIDE DEF e
  <2>3. WroteIs(e, b, end, p) BY <2>2, WroteNothing
  <2> QED BY <2>3 DEF e, x, a, end
<1>7. CASE x.count # 0
  <2>1. ~all.fails BY <1>3, <1>7
  <2> DEFINE y == all.buf
             n == Len(y) - Len(a)
             k == all.cut
  <2>2. x = [buf |-> y, count |-> n, cut |-> k] BY <1>3, <2>1
  <2>3. n \in Nat
    <3>1. PICK m \in Nat : Grown(a, y, m) BY <1>5, <2>1
    <3> QED BY <1>2, <3>1 DEF Grown
  <2>4. y \in Seq(Nat) /\ k \in BOOLEAN BY <1>5
  <2>5. ~k => Grown(a, y, p.ext + 1) /\ StringIn(y, Len(a), p.ext) BY <1>5, <2>1
  <2> HIDE DEF y, n, k
  <2>6. x.buf = y /\ x.count = n /\ x.cut = k BY <2>2, CountFields
  <2>7. n > 0 /\ n # 0 BY <1>7, <2>3, <2>6
  <2> DEFINE cc == r.cut \/ k
  <2>8. e = [buf |-> y, count |-> n, cut |-> cc]
    <3>1. (x.count > 0 /\ (r.cut \/ x.cut)) = cc BY <2>6, <2>7
    <3> HIDE DEF cc
    <3> QED BY <1>7, <2>6, <3>1 DEF ExtraOf
  <2>9. ~cc => Grown(b, y, Length(p)) /\ PacketIn(y, Len(b), p)
    <3> SUFFICES ASSUME ~r.cut, ~k PROVE Grown(b, y, Length(p)) /\ PacketIn(y, Len(b), p) BY <1>2, <2>4
    <3>1. Grown(b, a, p.str + 4) /\ PartIn(a, Len(b), p) BY <1>2
    <3>2. Grown(a, y, p.ext + 1) /\ StringIn(y, Len(a), p.ext) BY <2>5
    <3> DEFINE i == p.str
               j == p.ext
               l == Len(b)
    <3>3. i \in Nat /\ j \in Nat /\ l \in Nat /\ Length(p) = i + j + 5 BY <1>0
    <3>4. /\ Len(a) = l + (i + 4) /\ a \in Seq(Nat) /\ (\A q \in 1 .. l : a[q] = b[q])
          /\ Len(y) = Len(a) + (j + 1) /\ (\A q \in 1 .. Len(a) : y[q] = a[q])
        BY <3>1, <3>2 DEF Grown
    <3>5. a[l + 1] = Code[p.type] /\ StringIn(a, l + 3, i) BY <3>1 DEF PartIn
    <3>6. StringIn(y, Len(a), j) BY <3>2
    <3> HIDE DEF i, j, l
    <3>7. Len(y) = l + (i + j + 5) BY <3>3, <3>4
    <3>8. \A q \in 1 .. l : y[q] = b[q]
      <4>1. \A q \in 1 .. l : q \in 1 .. Len(a) BY <3>3, <3>4
      <4> QED BY <3>4, <4>1
    <3>9. y[l + 1] = Code[p.type]
      <4>1. l + 1 \in 1 .. Len(a) BY <3>3, <3>4
      <4> QED BY <3>4, <3>5, <4>1
    <3>10. StringIn(y, l + 3, i)
      <4>1. l + 3 \in Nat /\ l + 3 + i + 1 <= Len(a) /\ Len(a) <= Len(y) BY <3>3, <3>4
      <4> QED BY <2>4, <3>3, <3>4, <3>5, <4>1, StringStays
    <3>11. StringIn(y, l + 4 + i, j)
      <4>1. l + 4 + i = Len(a) BY <3>3, <3>4
      <4> QED BY <3>6, <4>1
    <3>12. Grown(b, y, Length(p)) BY <2>4, <3>3, <3>7, <3>8 DEF Grown, l
    <3>13. PacketIn(y, l, p) BY <3>9, <3>10, <3>11 DEF PacketIn, i, j, Counted
    <3> QED BY <3>12, <3>13 DEF l
  <2>10. cc \in BOOLEAN BY <1>2, <2>4
  <2> HIDE DEF cc
  <2>11. e.buf = y /\ e.count = n /\ e.cut = cc BY <2>8, CountFields
  <2> HIDE DEF e
  <2>12. WroteIs(e, b, end, p) BY <2>3, <2>4, <2>7, <2>9, <2>10, <2>11 DEF WroteIs
  <2> QED BY <2>12 DEF e, x, a, end
<1> QED BY <1>6, <1>7

-----------------------------------------------------------------------------
(* All packets in bytes.                                                   *)

Joins(e, a, d, S) ==
    /\ e \in Seq(S) /\ Len(e) = Len(a) + Len(d)
    /\ \A i \in 1 .. Len(a) : e[i] = a[i]
    /\ \A i \in 1 .. Len(d) : e[Len(a) + i] = d[i]

LEMMA ConcatIs ==
    ASSUME NEW S, NEW a \in Seq(S), NEW d \in Seq(S)
    PROVE  Joins(a \o d, a, d, S)
<1> DEFINE e == a \o d
<1>0. Len(a) \in Nat /\ Len(d) \in Nat OBVIOUS
<1>1. e \in Seq(S) /\ Len(e) = Len(a) + Len(d) BY ConcatProperties
<1>2. \A i \in 1 .. Len(a) + Len(d) : e[i] = IF i <= Len(a) THEN a[i] ELSE d[i - Len(a)]
    BY ConcatProperties
<1> HIDE DEF e
<1>3. \A i \in 1 .. Len(a) : e[i] = a[i] BY <1>0, <1>2
<1>4. \A i \in 1 .. Len(d) : e[Len(a) + i] = d[i]
  <2>1. \A i \in 1 .. Len(d) : /\ Len(a) + i \in 1 .. Len(a) + Len(d) /\ ~(Len(a) + i <= Len(a))
                               /\ Len(a) + i - Len(a) = i
      BY <1>0
  <2> QED BY <1>2, <2>1
<1>5. Joins(e, a, d, S) BY <1>1, <1>3, <1>4 DEF Joins
<1> QED BY <1>5 DEF e

LEMMA HeadMoves ==
    ASSUME NEW S, NEW ps \in Seq(S), NEW qs \in Seq(S), qs # <<>>
    PROVE  Append(ps, qs[1]) \o Tail(qs) = ps \o qs
<1> DEFINE q == qs[1]
           t == Tail(qs)
<1>1. q \in S /\ t \in Seq(S) /\ Len(t) = Len(qs) - 1 /\ Len(qs) \in Nat /\ Len(qs) > 0
      /\ \A i \in 1 .. Len(t) : t[i] = qs[i + 1]
    OBVIOUS
<1> HIDE DEF q, t
<1>2. <<q>> \in Seq(S) /\ Len(<<q>>) = 1 /\ <<q>>[1] = q BY <1>1
<1>3. <<q>> \o t = qs
  <2> DEFINE u == <<q>>
             e == u \o t
  <2>1. u \in Seq(S) /\ Len(u) = 1 /\ u[1] = q BY <1>2
  <2> HIDE DEF u
  <2>2. /\ e \in Seq(S) /\ Len(e) = 1 + Len(t) /\ (\A i \in 1 .. 1 : e[i] = u[i])
        /\ \A i \in 1 .. Len(t) : e[1 + i] = t[i]
    <3>1. t \in Seq(S) BY <1>1
    <3>2. Joins(e, u, t, S) BY <2>1, <3>1, ConcatIs
    <3> HIDE DEF e
    <3> QED BY <2>1, <3>2 DEF Joins
  <2> HIDE DEF e
  <2>3. ASSUME NEW i \in 1 .. Len(e) PROVE e[i] = qs[i]
    <3>1. CASE i = 1 BY <2>1, <2>2, <3>1 DEF q
    <3>2. CASE i # 1
      <4>1. i - 1 \in 1 .. Len(t) /\ 1 + (i - 1) = i /\ i - 1 + 1 = i BY <1>1, <2>2, <3>2
      <4> QED BY <1>1, <2>2, <4>1
    <3> QED BY <3>1, <3>2
  <2>4. e = qs BY <1>1, <2>2, <2>3, SeqEqual
  <2> QED BY <2>4 DEF e, u
<1>4. Append(ps, q) = ps \o <<q>> BY <1>1, AppendIsConcat
<1>5. (ps \o <<q>>) \o t = ps \o (<<q>> \o t) BY <1>1, <1>2, ConcatAssociative
<1> QED BY <1>3, <1>4, <1>5 DEF q, t

LEMMA RestOfConcat ==
    ASSUME NEW S, NEW a \in Seq(S), NEW d \in Seq(S), NEW k \in 0 .. Len(a)
    PROVE  SubSeq(a \o d, k + 1, Len(a \o d)) = SubSeq(a, k + 1, Len(a)) \o d
<1> DEFINE e == a \o d
           f == SubSeq(e, k + 1, Len(e))
           g == SubSeq(a, k + 1, Len(a))
           h == g \o d
<1>0. Len(a) \in Nat /\ Len(d) \in Nat OBVIOUS
<1>1. /\ e \in Seq(S) /\ Len(e) = Len(a) + Len(d)
      /\ \A i \in 1 .. Len(a) : e[i] = a[i]
      /\ \A i \in 1 .. Len(d) : e[Len(a) + i] = d[i]
  <2>1. Joins(e, a, d, S) BY ConcatIs
  <2> QED BY <2>1 DEF Joins
<1> HIDE DEF e
<1>2. f \in Seq(S) /\ Len(f) = Len(e) - k /\ \A i \in 1 .. Len(f) : f[i] = e[k + i] BY <1>0, <1>1
<1>3. g \in Seq(S) /\ Len(g) = Len(a) - k /\ \A i \in 1 .. Len(g) : g[i] = a[k + i] BY <1>0
<1> HIDE DEF f, g
<1>4. /\ h \in Seq(S) /\ Len(h) = Len(g) + Len(d)
      /\ \A i \in 1 .. Len(g) : h[i] = g[i]
      /\ \A i \in 1 .. Len(d) : h[Len(g) + i] = d[i]
  <2>1. g \in Seq(S) BY <1>3
  <2>2. Joins(h, g, d, S) BY <2>1, ConcatIs
  <2> QED BY <2>2 DEF Joins
<1> HIDE DEF h
<1>5. ASSUME NEW i \in 1 .. Len(f) PROVE f[i] = h[i]
  <2>1. CASE i <= Len(g)
    <3>1. i \in 1 .. Len(g) /\ k + i \in 1 .. Len(a) BY <1>0, <1>3, <2>1
    <3> QED BY <1>1, <1>2, <1>3, <1>4, <3>1
  <2>2. CASE ~(i <= Len(g))
    <3> DEFINE j == i - Len(g)
    <3>1. j \in 1 .. Len(d) /\ Len(g) + j = i /\ Len(a) + j = k + i BY <1>0, <1>1, <1>2, <1>3, <2>2
    <3> HIDE DEF j
    <3>2. h[Len(g) + j] = d[j] /\ e[Len(a) + j] = d[j] BY <1>1, <1>4, <3>1
    <3> QED BY <1>2, <3>1, <3>2
  <2> QED BY <2>1, <2>2
<1>6. Len(f) = Len(h) BY <1>0, <1>1, <1>2, <1>3, <1>4
<1>7. f = h BY <1>2, <1>4, <1>5, <1>6, SeqEqual
<1> QED BY <1>7 DEF f, g, h, e

LEMMA SpellsNone ==
    ASSUME NEW b \in Seq(Nat), NEW ps \in Seq(PacketRecord), Spells(b, ps)
    PROVE  b = <<>> <=> ps = <<>>
<1>1. ASSUME ps = <<>> PROVE b = <<>>
  <2>1. Len(ps) = 0 BY <1>1
  <2>2. Len(b) = 0
    <3>1. PICK cuts \in [0 .. Len(ps) -> 0 .. Len(b)] : cuts[0] = 0 /\ cuts[Len(ps)] = Len(b)
        BY DEF Spells
    <3> QED BY <2>1, <3>1
  <2> QED BY <2>2
<1>2. ASSUME ps # <<>> PROVE b # <<>>
  <2>1. Length(ps[1]) <= Len(b) BY <1>2, SpellsLess
  <2>2. ps[1] \in PacketRecord BY <1>2
  <2>3. Length(ps[1]) \in Nat /\ Length(ps[1]) > 0 BY <2>2, LengthIs
  <2>4. Len(b) \in Nat OBVIOUS
  <2> DEFINE l == Length(ps[1])
  <2> HIDE DEF l
  <2>5. Len(b) > 0
    <3>1. l <= Len(b) /\ l \in Nat /\ l > 0 BY <2>1, <2>3 DEF l
    <3> QED BY <2>4, <3>1
  <2> QED BY <2>5
<1> QED BY <1>1, <1>2

ParseResult == [rest : Seq(Nat), packets : Seq(PacketRecord), sense : BOOLEAN]

TakeTurn(d, i, r) ==
    IF r.rest = <<>> \/ ~r.sense THEN r
    ELSE IF Known(r.rest[1]) = {} THEN [r EXCEPT !.sense = FALSE]
    ELSE LET f == FirstOf(r.rest)
         IN  [rest |-> SubSeq(r.rest, f.used + 1, Len(r.rest)),
              packets |-> Append(r.packets, f.packet), sense |-> f.whole]

Takes == INSTANCE FoldTheorems WITH Turn <- TakeTurn

LEMMA ParsedIs ==
    ASSUME NEW b
    PROVE  Parsed(b) = Takes!OverSeq(0, [rest |-> b, packets |-> <<>>, sense |-> TRUE], [i \in 1 .. Len(b) |-> i])
BY DEF Parsed, FoldLeft, MapThenFoldSet, Takes!OverSeq, TakeTurn, Max

\* Some of ps have been taken, and the others are what rest spells.
Taken(r, ps) == /\ r \in ParseResult /\ r.sense = TRUE
                /\ \E qs \in Seq(PacketRecord) : Spells(r.rest, qs) /\ r.packets \o qs = ps

LEMMA TurnTakes ==
    ASSUME NEW ps \in Seq(PacketRecord), NEW i, NEW d, NEW r, Taken(r, ps)
    PROVE  LET t == TakeTurn(d, i, r)
           IN  Taken(t, ps) /\ (r.rest = <<>> => t = r) /\ (r.rest # <<>> => Len(t.rest) < Len(r.rest))
<1>0. r \in ParseResult /\ r.sense = TRUE BY DEF Taken
<1>1. PICK qs \in Seq(PacketRecord) : Spells(r.rest, qs) /\ r.packets \o qs = ps BY DEF Taken
<1>2. CASE r.rest = <<>>
  <2>1. TakeTurn(d, i, r) = r BY <1>2 DEF TakeTurn
  <2> QED BY <1>2, <2>1
<1>3. CASE r.rest # <<>>
  <2> DEFINE a == r.rest
             done == r.packets
             p == qs[1]
             f == FirstOf(a)
             k == Length(p)
             e == SubSeq(a, k + 1, Len(a))
             t == TakeTurn(d, i, r)
  <2>0. a \in Seq(Nat) /\ done \in Seq(PacketRecord) /\ a # <<>> BY <1>0, <1>3 DEF ParseResult
  <2>1. qs # <<>> BY <1>1, <1>3, <2>0, SpellsNone
  <2>2. p \in PacketRecord /\ Tail(qs) \in Seq(PacketRecord) BY <2>1
  <2>3. k <= Len(a) /\ PacketIn(a, 0, p) /\ Spells(e, Tail(qs)) BY <1>1, <2>0, <2>1, SpellsLess
  <2>4. k \in Nat /\ k > 0 BY <2>2, LengthIs
  <2>5. Known(a[1]) = {p.type} /\ f.whole = TRUE /\ f.used = k /\ f.packet = p
    <3>1. f.whole = (k <= Len(a)) BY <2>0, <2>2, <2>3, FirstOfIs
    <3>2. f.whole => f.used = k /\ f.packet = p BY <2>0, <2>2, <2>3, FirstOfIs
    <3>3. Known(a[1]) = {p.type} BY <2>0, <2>2, <2>3, FirstOfIs
    <3>4. f.whole = TRUE BY <2>3, <3>1
    <3> QED BY <3>2, <3>3, <3>4
  <2>6. t = [rest |-> SubSeq(a, f.used + 1, Len(a)), packets |-> Append(done, f.packet), sense |-> f.whole]
    <3>1. Known(a[1]) # {} BY <2>5
    <3> QED BY <1>0, <1>3, <3>1 DEF TakeTurn
  <2> HIDE DEF f
  <2>7. t = [rest |-> e, packets |-> Append(done, p), sense |-> TRUE] BY <2>5, <2>6
  <2>8. e \in Seq(Nat) /\ Len(e) = Len(a) - k
    <3>1. k \in 0 .. Len(a) BY <2>0, <2>3, <2>4
    <3> HIDE DEF k, a
    <3> QED BY <2>0, <3>1, RestIs
  <2>9. Append(done, p) \in Seq(PacketRecord) BY <2>0, <2>2
  <2>10. Append(done, p) \o Tail(qs) = ps
    <3> HIDE DEF done
    <3> QED BY <1>1, <2>0, <2>1, HeadMoves DEF done
  <2> DEFINE g == Append(done, p)
  <2>11. t = [rest |-> e, packets |-> g, sense |-> TRUE] BY <2>7
  <2>12. Len(e) < Len(a) BY <2>0, <2>4, <2>8
  <2> HIDE DEF e, g, t
  <2>13. t \in ParseResult /\ t.rest = e /\ t.packets = g /\ t.sense = TRUE
      BY <2>8, <2>9, <2>11 DEF ParseResult, g
  <2>14. Taken(t, ps) BY <2>2, <2>3, <2>10, <2>13 DEF Taken, g
  <2> QED BY <1>3, <2>12, <2>13, <2>14 DEF t
<1> QED BY <1>2, <1>3

\* Bytes that spell packets are read as these.
LEMMA ParsesAll ==
    ASSUME NEW b \in Seq(Nat), NEW ps \in Seq(PacketRecord), Spells(b, ps)
    PROVE  Parsed(b).sense /\ Parsed(b).packets = ps
<1> DEFINE base == [rest |-> b, packets |-> <<>>, sense |-> TRUE]
           seq == [i \in 1 .. Len(b) |-> i]
           B == {r \in ParseResult : Taken(r, ps)}
           Good(n) == {r \in B : r.rest = <<>> \/ Len(r.rest) + n <= Len(b)}
           A == [n \in 0 .. Len(b) |-> Good(n)]
<1>0. Len(b) \in Nat OBVIOUS
<1>1. seq \in Seq(Nat) /\ Len(seq) = Len(b) /\ DOMAIN seq = 1 .. Len(b) BY <1>0
<1>2. base \in ParseResult /\ base.rest = b /\ base.packets = <<>> /\ base.sense = TRUE
    BY DEF ParseResult
<1>3. base \in B
  <2>1. <<>> \o ps = ps BY ConcatEmptySeq
  <2> HIDE DEF base
  <2> QED BY <1>2, <2>1 DEF Taken
<1> HIDE DEF base, seq
<1>4. Takes!Closed(0, {seq[i] : i \in DOMAIN seq}, B)
  <2> SUFFICES ASSUME NEW i \in {seq[j] : j \in DOMAIN seq}, NEW r \in B PROVE TakeTurn(0, i, r) \in B
      BY DEF Takes!Closed
  <2>1. Taken(TakeTurn(0, i, r), ps) BY TurnTakes
  <2> QED BY <2>1 DEF Taken
<1>5. base \in A[0]
  <2>1. A[0] = Good(0) BY <1>0
  <2>2. Len(base.rest) + 0 <= Len(b) BY <1>0, <1>2
  <2> QED BY <1>3, <2>1, <2>2
<1>6. ASSUME NEW i \in DOMAIN seq, NEW r \in A[i - 1] \cap B PROVE TakeTurn(0, seq[i], r) \in A[i]
  <2> DEFINE t == TakeTurn(0, seq[i], r)
  <2>1. i \in 1 .. Len(b) /\ i \in 0 .. Len(b) /\ i - 1 \in 0 .. Len(b) BY <1>0, <1>1
  <2>2. A[i] = Good(i) /\ A[i - 1] = Good(i - 1) BY <2>1
  <2>3. Taken(r, ps) OBVIOUS
  <2>4. Taken(t, ps) /\ (r.rest = <<>> => t = r) /\ (r.rest # <<>> => Len(t.rest) < Len(r.rest))
      BY <2>3, TurnTakes
  <2> HIDE DEF t
  <2>5. t \in B BY <2>4 DEF Taken
  <2>6. t.rest = <<>> \/ Len(t.rest) + i <= Len(b)
    <3>1. CASE r.rest = <<>> BY <2>4, <3>1
    <3>2. CASE r.rest # <<>>
      <4>1. Len(r.rest) + (i - 1) <= Len(b) BY <2>2, <3>2
      <4>2. r.rest \in Seq(Nat) /\ t.rest \in Seq(Nat) BY <2>5 DEF ParseResult
      <4>3. Len(r.rest) \in Nat /\ Len(t.rest) \in Nat BY <4>2
      <4> QED BY <1>0, <2>1, <2>4, <3>2, <4>1, <4>3
    <3> QED BY <3>1, <3>2
  <2>7. t \in Good(i) BY <2>5, <2>6
  <2> QED BY <2>2, <2>7 DEF t
<1>7. A[Len(b)] = Good(Len(b)) BY <1>0
<1> HIDE DEF A, B
<1>8. base \in A[0] \cap B BY <1>3, <1>5
<1>9. Takes!OverSeq(0, base, seq) \in A[Len(seq)] BY <1>1, <1>4, <1>6, <1>8, Takes!SeqInOrder
<1> DEFINE r == Parsed(b)
<1>10. r \in Good(Len(b)) BY <1>1, <1>7, <1>9, ParsedIs DEF base, seq
<1> HIDE DEF r
<1>11. Taken(r, ps) BY <1>10 DEF B
<1>12. r.rest = <<>>
  <2>1. r.rest \in Seq(Nat) BY <1>11 DEF Taken, ParseResult
  <2>2. r.rest = <<>> \/ Len(r.rest) + Len(b) <= Len(b) BY <1>10
  <2>3. Len(r.rest) \in Nat BY <2>1
  <2> QED BY <1>0, <2>1, <2>2, <2>3
<1>13. PICK qs \in Seq(PacketRecord) : Spells(r.rest, qs) /\ r.packets \o qs = ps BY <1>11 DEF Taken
<1>14. qs = <<>>
  <2>1. <<>> \in Seq(Nat) /\ Spells(<<>>, qs) BY <1>12, <1>13
  <2> QED BY <2>1, SpellsNone
<1>15. r.packets \in Seq(PacketRecord) /\ r.sense = TRUE BY <1>11 DEF Taken, ParseResult
<1>16. r.packets = ps BY <1>13, <1>14, <1>15, ConcatEmptySeq
<1> QED BY <1>15, <1>16 DEF r

-----------------------------------------------------------------------------
(* Bytes before and behind a packet.                                       *)

LEMMA StringShifts ==
    ASSUME NEW d \in Seq(Nat), NEW b \in Seq(Nat), NEW e, Joins(e, d, b, Nat),
           NEW k \in Nat, NEW n \in Nat, StringIn(b, k, n)
    PROVE  StringIn(e, Len(d) + k, n)
<1> DEFINE l == Len(d)
<1>1. /\ l \in Nat /\ Len(b) \in Nat /\ Len(e) = l + Len(b)
      /\ \A i \in 1 .. Len(b) : e[l + i] = b[i]
  <2>1. Len(d) \in Nat /\ Len(b) \in Nat OBVIOUS
  <2>2. Len(e) = Len(d) + Len(b) BY DEF Joins
  <2>3. \A i \in 1 .. Len(b) : e[Len(d) + i] = b[i] BY DEF Joins
  <2> QED BY <2>1, <2>2, <2>3
<1>2. n < MaxStr /\ (\A i \in k + 1 .. k + n : i <= Len(b) => b[i] # 0)
      /\ (k + n + 1 <= Len(b) => b[k + n + 1] = 0)
    BY DEF StringIn
<1> HIDE DEF l
<1>3. \A i \in l + k + 1 .. l + k + n : i <= Len(e) => e[i] # 0
  <2> SUFFICES ASSUME NEW i \in l + k + 1 .. l + k + n, i <= Len(e) PROVE e[i] # 0 OBVIOUS
  <2>1. i - l \in k + 1 .. k + n /\ i - l <= Len(b) /\ i - l \in 1 .. Len(b) /\ l + (i - l) = i BY <1>1
  <2>2. e[l + (i - l)] = b[i - l] BY <1>1, <2>1
  <2> QED BY <1>2, <2>1, <2>2
<1>4. l + k + n + 1 <= Len(e) => e[l + k + n + 1] = 0
  <2> SUFFICES ASSUME l + k + n + 1 <= Len(e) PROVE e[l + k + n + 1] = 0 OBVIOUS
  <2>1. k + n + 1 \in 1 .. Len(b) /\ k + n + 1 <= Len(b) /\ l + (k + n + 1) = l + k + n + 1 BY <1>1
  <2>2. e[l + (k + n + 1)] = b[k + n + 1] BY <1>1, <2>1
  <2> QED BY <1>2, <2>1, <2>2
<1>5. StringIn(e, l + k, n) BY <1>2, <1>3, <1>4 DEF StringIn
<1> QED BY <1>5 DEF l

LEMMA PacketShifts ==
    ASSUME NEW d \in Seq(Nat), NEW b \in Seq(Nat), NEW e, Joins(e, d, b, Nat),
           NEW k \in Nat, NEW p \in PacketRecord, PacketIn(b, k, p)
    PROVE  PacketIn(e, Len(d) + k, p)
<1> DEFINE l == Len(d)
           x == l + k
<1>1. /\ l \in Nat /\ Len(b) \in Nat /\ Len(e) = l + Len(b)
      /\ \A i \in 1 .. Len(b) : e[l + i] = b[i]
  <2>1. Len(d) \in Nat /\ Len(b) \in Nat OBVIOUS
  <2>2. Len(e) = Len(d) + Len(b) BY DEF Joins
  <2>3. \A i \in 1 .. Len(b) : e[Len(d) + i] = b[i] BY DEF Joins
  <2> QED BY <2>1, <2>2, <2>3
<1>2. ASSUME NEW m \in Nat, NEW n \in Nat, StringIn(b, m, n) PROVE StringIn(e, l + m, n)
    BY <1>2, StringShifts
<1> HIDE DEF l
<1>3. \A i \in Nat : i > 0 /\ x + i <= Len(e) => e[x + i] = b[k + i] /\ k + i <= Len(b)
  <2> SUFFICES ASSUME NEW i \in Nat, i > 0, x + i <= Len(e) PROVE e[x + i] = b[k + i] /\ k + i <= Len(b)
      OBVIOUS
  <2>1. k + i \in 1 .. Len(b) /\ l + (k + i) = x + i BY <1>1
  <2> QED BY <1>1, <2>1
<1>4. x + 1 <= Len(e) => e[x + 1] = Code[p.type] BY <1>3 DEF PacketIn
<1>5. p.type = "MODIFIERS" => StringIn(e, x + 1, 0)
  <2>1. l + (k + 1) = x + 1 BY <1>1
  <2>2. p.type = "MODIFIERS" => StringIn(e, l + (k + 1), 0) BY <1>2 DEF PacketIn
  <2> QED BY <2>1, <2>2
<1>6. p.type = "MESSAGE" => StringIn(e, x + 1, p.str)
  <2>1. l + (k + 1) = x + 1 BY <1>1
  <2>2. ASSUME p.type = "MESSAGE" PROVE StringIn(e, l + (k + 1), p.str)
    <3>1. p.str \in Nat /\ k + 1 \in Nat BY <2>2, PacketTypes
    <3>2. StringIn(b, k + 1, p.str) BY <2>2 DEF PacketIn
    <3> QED BY <1>2, <3>1, <3>2
  <2> QED BY <2>1, <2>2
<1>7. ASSUME p.type = "PLAYER" PROVE StringIn(e, x + 3, p.str) /\ StringIn(e, x + 4 + p.str, p.ext)
  <2>1. p.str \in Nat /\ p.ext \in Nat BY <1>7, PacketTypes
  <2>2. l + (k + 3) = x + 3 /\ l + (k + 4 + p.str) = x + 4 + p.str /\ k + 4 + p.str \in Nat BY <1>1, <2>1
  <2>3. StringIn(e, l + (k + 3), p.str) /\ StringIn(e, l + (k + 4 + p.str), p.ext)
      BY <1>2, <1>7, <2>1, <2>2 DEF PacketIn
  <2> QED BY <2>2, <2>3
<1>8. p.type \in Counted => (x + Header(p.type) <= Len(e) => e[x + Header(p.type)] = p.num)
  <2>1. Header(p.type) \in Nat /\ Header(p.type) > 0 BY DEF Header
  <2> DEFINE h == Header(p.type)
  <2>2. p.type \in Counted => (k + h <= Len(b) => b[k + h] = p.num) BY DEF PacketIn
  <2>3. h \in Nat /\ h > 0 BY <2>1
  <2> HIDE DEF h
  <2>4. p.type \in Counted => (x + h <= Len(e) => e[x + h] = p.num) BY <1>3, <2>2, <2>3
  <2> QED BY <2>4 DEF h
<1> HIDE DEF x
<1>9. PacketIn(e, x, p) BY <1>4, <1>5, <1>6, <1>7, <1>8 DEF PacketIn
<1> QED BY <1>9 DEF x, l

\* What a part of the bytes has of it.
LEMMA PacketBegins ==
    ASSUME NEW d \in Seq(Nat), NEW b \in Seq(Nat), NEW e, Joins(e, d, b, Nat),
           NEW p \in PacketRecord, PacketIn(e, 0, p)
    PROVE  PacketIn(d, 0, p)
<1>1. /\ Len(d) \in Nat /\ Len(b) \in Nat /\ Len(e) = Len(d) + Len(b)
      /\ \A i \in 1 .. Len(d) : e[i] = d[i]
  <2>1. Len(d) \in Nat /\ Len(b) \in Nat OBVIOUS
  <2>2. Len(e) = Len(d) + Len(b) BY DEF Joins
  <2>3. \A i \in 1 .. Len(d) : e[i] = d[i] BY DEF Joins
  <2> QED BY <2>1, <2>2, <2>3
<1>2. ASSUME NEW m \in Nat, NEW n \in Nat, StringIn(e, m, n) PROVE StringIn(d, m, n)
  <2>1. \A i \in m + 1 .. m + n : i <= Len(d) => d[i] # 0 BY <1>1, <1>2 DEF StringIn
  <2>2. m + n + 1 <= Len(d) => d[m + n + 1] = 0 BY <1>1, <1>2 DEF StringIn
  <2> QED BY <1>2, <2>1, <2>2 DEF StringIn
<1>3. 0 + 1 <= Len(d) => d[0 + 1] = Code[p.type]
  <2>1. 0 + 1 <= Len(e) => e[0 + 1] = Code[p.type] BY DEF PacketIn
  <2> QED BY <1>1, <2>1
<1>4. p.type = "MODIFIERS" => StringIn(d, 0 + 1, 0)
  <2>1. 0 + 1 \in Nat /\ 0 \in Nat OBVIOUS
  <2> QED BY <1>2, <2>1 DEF PacketIn
<1>5. p.type = "MESSAGE" => StringIn(d, 0 + 1, p.str)
  <2>1. 0 + 1 \in Nat OBVIOUS
  <2> QED BY <1>2, <2>1, PacketTypes DEF PacketIn
<1>6. ASSUME p.type = "PLAYER" PROVE StringIn(d, 0 + 3, p.str) /\ StringIn(d, 0 + 4 + p.str, p.ext)
  <2>1. p.str \in Nat /\ p.ext \in Nat BY <1>6, PacketTypes
  <2>2. 0 + 3 \in Nat /\ 0 + 4 + p.str \in Nat BY <2>1
  <2> QED BY <1>2, <1>6, <2>1, <2>2 DEF PacketIn
<1>7. p.type \in Counted => (0 + Header(p.type) <= Len(d) => d[0 + Header(p.type)] = p.num)
  <2>1. Header(p.type) \in Nat /\ Header(p.type) > 0 BY DEF Header
  <2> DEFINE h == Header(p.type)
  <2>2. p.type \in Counted => (0 + h <= Len(e) => e[0 + h] = p.num) BY DEF PacketIn
  <2>3. h \in Nat /\ h > 0 BY <2>1
  <2> HIDE DEF h
  <2>4. p.type \in Counted => (0 + h <= Len(d) => d[0 + h] = p.num) BY <1>1, <2>2, <2>3
  <2> QED BY <2>4 DEF h
<1> QED BY <1>3, <1>4, <1>5, <1>6, <1>7 DEF PacketIn

-----------------------------------------------------------------------------
(* A frame.                                                                *)

FrameInv ==
    /\ connW \in [buf : Seq(Nat), open : BOOLEAN, frame : Seq(PacketRecord)]
    /\ Spells(connW.buf, connW.frame)
    /\ Len(connW.buf) <= SizeW
    /\ connW.open => Len(connW.buf) <= SizeW - SOCKBUF_WRITE_SPARE

LEMMA GrownSpells ==
    ASSUME NEW a \in Seq(Nat), NEW b, NEW ps \in Seq(PacketRecord), NEW p \in PacketRecord,
           Spells(a, ps), Grown(a, b, Length(p)), PacketIn(b, Len(a), p)
    PROVE  Spells(b, Append(ps, p)) /\ Append(ps, p) \in Seq(PacketRecord)
<1>1. b \in Seq(Nat) /\ Len(b) = Len(a) + Length(p) /\ \A i \in 1 .. Len(a) : b[i] = a[i] BY DEF Grown
<1>2. Spells(b, Append(ps, p)) BY <1>1, SpellsMore
<1> QED BY <1>2

\* A packet in a frame, if it fits.
LEMMA FramePut ==
    ASSUME NEW b \in Seq(Nat), NEW ps \in Seq(PacketRecord), Spells(b, ps), NEW last \in BOOLEAN,
           NEW p \in PacketRecord, p.type \in {"START", "END", "SHIP", "SELF", "MODIFIERS"}
    PROVE  LET r == Put(b, SizeW, last, p)
           IN  /\ r.buf \in Seq(Nat)
               /\ r.count = 0 => r.buf = b
               /\ r.count # 0 => /\ Len(r.buf) <= EndOf(SizeW, last)
                                 /\ Spells(r.buf, Append(ps, p)) /\ Append(ps, p) \in Seq(PacketRecord)
               /\ p.type # "MODIFIERS" /\ Len(b) + Length(p) < EndOf(SizeW, last) => r.count # 0
<1> DEFINE r == Put(b, SizeW, last, p)
           end == EndOf(SizeW, last)
<1>1. SizeW \in Nat BY BufferAssumption
<1>2. end \in Int BY <1>1 DEF EndOf, SOCKBUF_WRITE_SPARE
<1>3. PutIs(r, b, end, p) BY <1>1, PutPacket DEF Counted
<1> HIDE DEF r, end
<1>4. WroteIs(r, b, end, p) BY <1>2, <1>3, PutWhole DEF Counted
<1>5. ~r.cut BY <1>3 DEF PutIs
<1>6. r.buf \in Seq(Nat) /\ (r.count = 0 => r.buf = b) BY <1>4 DEF WroteIs
<1>7. r.count # 0 => Spells(r.buf, Append(ps, p)) /\ Append(ps, p) \in Seq(PacketRecord)
  <2>1. r.count # 0 => Grown(b, r.buf, Length(p)) /\ PacketIn(r.buf, Len(b), p) BY <1>4, <1>5 DEF WroteIs
  <2> QED BY <2>1, GrownSpells
<1>8. r.count # 0 => Len(r.buf) <= end BY <1>3 DEF PutIs
<1>9. p.type # "MODIFIERS" /\ Len(b) + Length(p) < end => r.count # 0 BY <1>3 DEF PutIs
<1> QED BY <1>6, <1>7, <1>8, <1>9 DEF r, end

LEMMA PlainPackets ==
    ASSUME NEW t \in {"START", "END", "SHIP", "SELF", "MODIFIERS", "LEAVE"}
    PROVE  [type |-> t] \in PacketRecord /\ [type |-> t].type = t
BY DEF PacketRecord

LEMMA Ends ==
    /\ EndOf(SizeW, FALSE) = SizeW - SOCKBUF_WRITE_SPARE /\ EndOf(SizeW, TRUE) = SizeW
    /\ SizeW \in Nat /\ SizeW - SOCKBUF_WRITE_SPARE \in Int
    /\ SizeW - SOCKBUF_WRITE_SPARE <= SizeW /\ SizeW - SOCKBUF_WRITE_SPARE > 9
    /\ \A n \in Nat : n <= SizeW - SOCKBUF_WRITE_SPARE => n + 5 < SizeW
BY BufferAssumption DEF EndOf, SOCKBUF_WRITE_SPARE

LEMMA FrameStarts ==
    ASSUME Send_start_of_frame
    PROVE  FrameInv'
<1> DEFINE p == [type |-> "START"]
           r == Put(<<>>, SizeW, FALSE, p)
<1>1. connW' = [buf |-> r.buf, open |-> TRUE, frame |-> <<p>>] BY DEF Send_start_of_frame
<1>2. p \in PacketRecord /\ p.type = "START" BY PlainPackets
<1>3. Length(p) = 9 BY <1>2, PacketLengths
<1> HIDE DEF p
<1>4. Append(<<>>, p) = <<p>> BY Joined
<1>5. Len(<<>>) + Length(p) < EndOf(SizeW, FALSE)
  <2> DEFINE end == EndOf(SizeW, FALSE)
             l == Length(p)
  <2>1. end \in Int /\ end > 9 BY Ends
  <2>2. l = 9 BY <1>3
  <2> HIDE DEF end, l
  <2>3. Len(<<>>) + l < end BY <2>1, <2>2
  <2> QED BY <2>3 DEF end, l
<1>6. r.count # 0
  <2>1. <<>> \in Seq(Nat) /\ <<>> \in Seq(PacketRecord) OBVIOUS
  <2> QED BY <1>2, <1>5, <2>1, SpellsNothing, FramePut
<1>7. /\ r.buf \in Seq(Nat) /\ Len(r.buf) <= EndOf(SizeW, FALSE)
      /\ Spells(r.buf, Append(<<>>, p)) /\ Append(<<>>, p) \in Seq(PacketRecord)
  <2>1. <<>> \in Seq(Nat) /\ <<>> \in Seq(PacketRecord) OBVIOUS
  <2> QED BY <1>2, <1>6, <2>1, SpellsNothing, FramePut
<1> DEFINE b == r.buf
           f == <<p>>
<1>8. b \in Seq(Nat) /\ f \in Seq(PacketRecord) /\ Spells(b, f) /\ Len(b) <= SizeW - SOCKBUF_WRITE_SPARE
    BY <1>4, <1>7, Ends
<1>9. connW' = [buf |-> b, open |-> TRUE, frame |-> f] BY <1>1
<1> HIDE DEF b, f
<1>10. connW' \in [buf : Seq(Nat), open : BOOLEAN, frame : Seq(PacketRecord)] /\ connW'.buf = b /\ connW'.frame = f
    BY <1>8, <1>9
<1>11. Len(b) <= SizeW
  <2>1. Len(b) \in Nat BY <1>8
  <2> QED BY <1>8, <2>1, Ends
<1> QED BY <1>8, <1>10, <1>11 DEF FrameInv

\* Packets behind those of an open frame, within its end.
LEMMA FrameGoesOn ==
    ASSUME FrameInv, connW.open, NEW b \in Seq(Nat), NEW f \in Seq(PacketRecord),
           Spells(b, f), Len(b) <= SizeW - SOCKBUF_WRITE_SPARE,
           connW' = [connW EXCEPT !.buf = b, !.frame = f]
    PROVE  FrameInv'
<1>1. connW \in [buf : Seq(Nat), open : BOOLEAN, frame : Seq(PacketRecord)] BY DEF FrameInv
<1>2. connW' \in [buf : Seq(Nat), open : BOOLEAN, frame : Seq(PacketRecord)] /\ connW'.buf = b /\ connW'.frame = f
    BY <1>1
<1>3. Len(b) <= SizeW
  <2>1. Len(b) \in Nat OBVIOUS
  <2> QED BY <2>1, Ends
<1> QED BY <1>2, <1>3 DEF FrameInv

LEMMA FrameHasSelf ==
    ASSUME FrameInv, Send_self
    PROVE  FrameInv'
<1> DEFINE p == [type |-> "SELF"]
           q == [type |-> "MODIFIERS"]
           r == Put(connW.buf, SizeW, FALSE, p)
           m == Put(r.buf, SizeW, FALSE, q)
           f == Append(connW.frame, p)
<1>1. connW.open /\ connW' = IF r.count = 0 THEN connW
                     ELSE [connW EXCEPT !.buf = m.buf,
                                    !.frame = connW.frame \o <<p>> \o (IF m.count = 0 THEN <<>> ELSE <<q>>)]
    BY DEF Send_self
<1>2. p \in PacketRecord /\ p.type = "SELF" /\ q \in PacketRecord /\ q.type = "MODIFIERS" BY PlainPackets
<1> HIDE DEF p, q
<1>3. connW.buf \in Seq(Nat) /\ connW.frame \in Seq(PacketRecord) /\ Spells(connW.buf, connW.frame) BY DEF FrameInv
<1>4. CASE r.count = 0
  <2>1. connW' = connW BY <1>1, <1>4
  <2> QED BY <2>1 DEF FrameInv
<1>5. CASE r.count # 0
  <2>1. /\ r.buf \in Seq(Nat) /\ Len(r.buf) <= EndOf(SizeW, FALSE)
        /\ Spells(r.buf, f) /\ f \in Seq(PacketRecord)
      BY <1>2, <1>3, <1>5, FramePut
  <2>2. connW.frame \o <<p>> = f BY <1>2, <1>3, AppendIsConcat
  <2> HIDE DEF r, f
  <2>3. /\ m.buf \in Seq(Nat)
        /\ m.count = 0 => m.buf = r.buf
        /\ m.count # 0 => /\ Len(m.buf) <= EndOf(SizeW, FALSE)
                          /\ Spells(m.buf, Append(f, q)) /\ Append(f, q) \in Seq(PacketRecord)
      BY <1>2, <2>1, FramePut
  <2> HIDE DEF m
  <2>4. CASE m.count = 0
    <3>1. f \o <<>> = f BY <2>1, ConcatEmptySeq
    <3>2. connW' = [connW EXCEPT !.buf = m.buf, !.frame = f] BY <1>1, <1>5, <2>2, <2>4, <3>1
    <3>3. Len(m.buf) <= SizeW - SOCKBUF_WRITE_SPARE /\ Spells(m.buf, f) BY <2>1, <2>3, <2>4, Ends
    <3> QED BY <1>1, <2>1, <2>3, <3>2, <3>3, FrameGoesOn
  <2>5. CASE m.count # 0
    <3> DEFINE g == Append(f, q)
    <3>1. f \o <<q>> = g BY <1>2, <2>1, AppendIsConcat
    <3>2. connW' = [connW EXCEPT !.buf = m.buf, !.frame = g] BY <1>1, <1>5, <2>2, <2>5, <3>1
    <3>3. Len(m.buf) <= SizeW - SOCKBUF_WRITE_SPARE /\ Spells(m.buf, g) /\ g \in Seq(PacketRecord)
        BY <2>3, <2>5, Ends
    <3> HIDE DEF g
    <3> QED BY <1>1, <2>3, <3>2, <3>3, FrameGoesOn
  <2> QED BY <2>4, <2>5
<1> QED BY <1>4, <1>5

LEMMA FrameHasShip ==
    ASSUME FrameInv, Send_ship
    PROVE  FrameInv'
<1> DEFINE p == [type |-> "SHIP"]
           r == Put(connW.buf, SizeW, FALSE, p)
           f == Append(connW.frame, p)
<1>1. connW.open /\ connW' = [connW EXCEPT !.buf = r.buf, !.frame = IF r.count = 0 THEN connW.frame ELSE f]
    BY DEF Send_ship
<1>2. p \in PacketRecord /\ p.type = "SHIP" BY PlainPackets
<1> HIDE DEF p
<1>3. connW.buf \in Seq(Nat) /\ connW.frame \in Seq(PacketRecord) /\ Spells(connW.buf, connW.frame)
      /\ Len(connW.buf) <= SizeW - SOCKBUF_WRITE_SPARE
    BY <1>1 DEF FrameInv
<1>4. /\ r.buf \in Seq(Nat)
      /\ r.count = 0 => r.buf = connW.buf
      /\ r.count # 0 => Len(r.buf) <= EndOf(SizeW, FALSE) /\ Spells(r.buf, f) /\ f \in Seq(PacketRecord)
    BY <1>2, <1>3, FramePut
<1> HIDE DEF r, f
<1>5. CASE r.count = 0
  <2>1. connW' = [connW EXCEPT !.buf = connW.buf, !.frame = connW.frame] BY <1>1, <1>4, <1>5
  <2> QED BY <1>1, <1>3, <2>1, FrameGoesOn
<1>6. CASE r.count # 0
  <2>1. connW' = [connW EXCEPT !.buf = r.buf, !.frame = f] BY <1>1, <1>6
  <2>2. Len(r.buf) <= SizeW - SOCKBUF_WRITE_SPARE BY <1>4, <1>6, Ends
  <2> QED BY <1>1, <1>4, <1>6, <2>1, <2>2, FrameGoesOn
<1> QED BY <1>5, <1>6

LEMMA FrameEnds ==
    ASSUME FrameInv, Send_end_of_frame
    PROVE  FrameInv'
<1> DEFINE p == [type |-> "END"]
           r == Put(connW.buf, SizeW, TRUE, p)
           f == Append(connW.frame, p)
<1>1. connW.open /\ connW' = [buf |-> IF r.count = 0 THEN <<>> ELSE r.buf, open |-> FALSE, frame |-> f]
    BY DEF Send_end_of_frame
<1>2. p \in PacketRecord /\ p.type = "END" BY PlainPackets
<1> HIDE DEF p
<1>3. connW.buf \in Seq(Nat) /\ connW.frame \in Seq(PacketRecord) /\ Spells(connW.buf, connW.frame)
      /\ Len(connW.buf) <= SizeW - SOCKBUF_WRITE_SPARE
    BY <1>1 DEF FrameInv
<1>4. Len(connW.buf) + Length(p) < EndOf(SizeW, TRUE)
  <2>1. Length(p) = 5 /\ Len(connW.buf) \in Nat BY <1>2, <1>3, PacketLengths
  <2> QED BY <1>3, <2>1, Ends
<1>5. r.count # 0 BY <1>2, <1>3, <1>4, FramePut
<1>6. r.buf \in Seq(Nat) /\ Len(r.buf) <= EndOf(SizeW, TRUE) /\ Spells(r.buf, f) /\ f \in Seq(PacketRecord)
    BY <1>2, <1>3, <1>5, FramePut
<1> DEFINE b == r.buf
<1>7. connW' = [buf |-> b, open |-> FALSE, frame |-> f] BY <1>1, <1>5
<1>8. b \in Seq(Nat) /\ Len(b) <= SizeW /\ Spells(b, f) /\ f \in Seq(PacketRecord) BY <1>6, Ends
<1> HIDE DEF b, f
<1>9. connW' \in [buf : Seq(Nat), open : BOOLEAN, frame : Seq(PacketRecord)] /\ connW'.buf = b /\ connW'.frame = f
      /\ connW'.open = FALSE
    BY <1>7, <1>8
<1> QED BY <1>8, <1>9 DEF FrameInv

\* How many items fit: they end before the spare bytes of the buffer.
LEMMA FittingFits ==
    ASSUME NEW b \in Seq(Nat), NEW t \in Counted, NEW n \in Nat, Fitting(b, t, n) >= 0
    PROVE  /\ Fitting(b, t, n) \in Nat
           /\ Len(b) + Header(t) + Fitting(b, t, n) * Width(t) <= SizeW - SOCKBUF_WRITE_SPARE
<1> DEFINE W == Width(t)
           h == IF t = "DEBRIS" THEN 2 ELSE 3
           avail == SizeW - Len(b) - SOCKBUF_WRITE_SPARE - h
           m == Fitting(b, t, n)
           full == SizeW - SOCKBUF_WRITE_SPARE
           l == Len(b)
<1>1. /\ (W = 2 \/ W = 3) /\ h \in {2, 3} /\ Header(t) \in Nat /\ Header(t) <= h
    BY DEF Width, Header, Counted
<1>2. l \in Nat /\ full \in Int /\ avail = full - l - h
  <2>1. SizeW \in Nat /\ l \in Nat BY Ends
  <2> HIDE DEF l, h
  <2>2. h \in Int BY <1>1
  <2> QED BY <2>1, <2>2 DEF SOCKBUF_WRITE_SPARE, l
<1>3. m = IF n * W < avail THEN n ELSE IF avail > W THEN (avail - (W - 1)) \div W ELSE -1
    BY DEF Fitting
<1> DEFINE x == Header(t)
<1>4. x \in Nat /\ x <= h /\ m >= 0 BY <1>1
<1> HIDE DEF W, avail, m, h, full, l, x
<1>5. avail \in Int
  <2>1. h \in Int BY <1>1
  <2> QED BY <1>2, <2>1
<1>6. m \in Nat /\ m * W <= avail
  <2>1. CASE n * W < avail BY <1>1, <1>3, <1>5, <2>1
  <2>2. CASE ~(n * W < avail) /\ avail > W
    <3>1. m = (avail - (W - 1)) \div W BY <1>3, <2>2
    <3>2. CASE W = 2 BY <1>5, <2>2, <3>1, <3>2
    <3>3. CASE W = 3 BY <1>5, <2>2, <3>1, <3>3
    <3> QED BY <1>1, <3>2, <3>3
  <2>3. CASE ~(n * W < avail) /\ ~(avail > W)
    <3>1. m = -1 BY <1>3, <2>3
    <3> QED BY <1>4, <3>1
  <2> QED BY <2>1, <2>2, <2>3
<1> DEFINE y == m * W
<1>7. y \in Int /\ y <= avail BY <1>1, <1>6
<1> HIDE DEF y
<1>8. l + x + y <= full
  <2>1. h \in Int BY <1>1
  <2> QED BY <1>2, <1>4, <1>7, <2>1
<1> QED BY <1>6, <1>8 DEF y, m, W, l, x, full

LEMMA FrameHasCounted ==
    ASSUME FrameInv, NEW t \in Counted, NEW n \in Nat, Send_counted(t, n)
    PROVE  FrameInv'
<1> DEFINE b == connW.buf
           m == Fitting(b, t, n)
           k == m * Width(t)
           head == IF Header(t) = 3 THEN <<Code[t], 1, m>> ELSE <<Code[t], m>>
           fill == [i \in 1 .. k |-> 1]
           p == [type |-> t, num |-> m]
           f == Append(connW.frame, p)
           a == b \o head
           e == a \o fill
<1>1. connW.open /\ connW' = IF m < 0 THEN connW ELSE [connW EXCEPT !.buf = e, !.frame = f] BY DEF Send_counted
<1>2. b \in Seq(Nat) /\ connW.frame \in Seq(PacketRecord) /\ Spells(b, connW.frame) BY DEF FrameInv
<1>3. CASE m < 0
  <2>1. connW' = connW BY <1>1, <1>3
  <2> QED BY <2>1 DEF FrameInv
<1>4. CASE ~(m < 0)
  <2>1. m \in Int
    <3>1. Width(t) \in {2, 3} BY DEF Width
    <3>2. SizeW \in Int /\ Len(b) \in Int BY <1>2, Ends
    <3> DEFINE avail == SizeW - Len(b) - SOCKBUF_WRITE_SPARE - (IF t = "DEBRIS" THEN 2 ELSE 3)
               W == Width(t)
    <3>3. avail \in Int BY <3>2 DEF SOCKBUF_WRITE_SPARE
    <3>4. m = IF n * W < avail THEN n ELSE IF avail > W THEN (avail - (W - 1)) \div W ELSE -1
        BY DEF Fitting
    <3> HIDE DEF avail, W, m
    <3>5. W = 2 \/ W = 3 BY <3>1 DEF W
    <3> QED BY <3>3, <3>4, <3>5
  <2>2. m >= 0 BY <1>4, <2>1
  <2> HIDE DEF b
  <2>3. m \in Nat /\ Len(b) + Header(t) + k <= SizeW - SOCKBUF_WRITE_SPARE BY <1>2, <2>2, FittingFits
  <2> HIDE DEF m
  <2>4. p \in PacketRecord /\ p.type = t /\ p.num = m BY <2>3 DEF PacketRecord
  <2>5. Code[t] \in Nat BY DEF Code, Counted
  <2> DEFINE x == Header(t)
  <2>6. head \in Seq(Nat) /\ Len(head) = x /\ head[1] = Code[t] /\ head[x] = m /\ x \in {2, 3}
    <3> DEFINE y == Code[t]
    <3>1. y \in Nat BY <2>5
    <3> HIDE DEF y
    <3>2. <<y, 1, m>> \in Seq(Nat) /\ Len(<<y, 1, m>>) = 3 /\ <<y, 1, m>>[1] = y /\ <<y, 1, m>>[3] = m
        BY <2>3, <3>1
    <3>3. <<y, m>> \in Seq(Nat) /\ Len(<<y, m>>) = 2 /\ <<y, m>>[1] = y /\ <<y, m>>[2] = m
        BY <2>3, <3>1
    <3>4. x = 2 \/ x = 3 BY DEF Header
    <3>5. CASE x = 3
      <4>1. head = <<y, 1, m>> BY <3>5 DEF y
      <4> HIDE DEF head, x
      <4> QED BY <3>2, <3>5, <4>1 DEF y
    <3>6. CASE x = 2
      <4>1. head = <<y, m>> BY <3>6 DEF y
      <4> HIDE DEF head, x
      <4> QED BY <3>3, <3>6, <4>1 DEF y
    <3> QED BY <3>4, <3>5, <3>6
  <2>7. k \in Nat
    <3>1. Width(t) \in {2, 3} BY DEF Width
    <3> QED BY <2>3, <3>1
  <2> HIDE DEF head, k, x
  <2>8. fill \in Seq(Nat) /\ Len(fill) = k
    <3>1. fill \in [1 .. k -> Nat] OBVIOUS
    <3> QED BY <2>7, <3>1
  <2> HIDE DEF fill
  <2>9. Joins(a, b, head, Nat) BY <1>2, <2>6, ConcatIs
  <2>10. a \in Seq(Nat) BY <2>9 DEF Joins
  <2> HIDE DEF a
  <2>11. Joins(e, a, fill, Nat) BY <2>8, <2>10, ConcatIs
  <2> HIDE DEF e
  <2> DEFINE l == Len(b)
  <2>12. /\ l \in Nat /\ Len(a) = l + x /\ e \in Seq(Nat) /\ Len(e) = l + x + k
         /\ \A i \in 1 .. l + x : e[i] = a[i]
         /\ \A i \in 1 .. l : a[i] = b[i]
         /\ \A i \in 1 .. x : a[l + i] = head[i]
    <3>1. l \in Nat /\ Len(a) \in Nat BY <1>2, <2>10
    <3> QED BY <2>6, <2>8, <2>9, <2>11, <3>1 DEF Joins
  <2>13. Length(p) = x + k
    <3>1. Length(p) = Header(p.type) + p.num * Width(p.type) BY <2>4, PacketLengths
    <3> QED BY <2>4, <3>1 DEF x, k
  <2>14. l + x + k <= SizeW - SOCKBUF_WRITE_SPARE BY <2>3 DEF x
  <2> HIDE DEF l, p
  <2>15. Grown(b, e, Length(p))
    <3>1. Len(e) = l + (x + k) BY <2>6, <2>7, <2>12
    <3>2. \A i \in 1 .. l : e[i] = b[i]
      <4>1. \A i \in 1 .. l : i \in 1 .. l + x BY <2>6, <2>12
      <4> QED BY <2>12, <4>1
    <3> QED BY <2>12, <2>13, <3>1, <3>2 DEF Grown, l
  <2>16. e[l + 1] = Code[t] /\ e[l + x] = m
    <3>1. 1 \in 1 .. x /\ x \in 1 .. x /\ l + 1 \in 1 .. l + x /\ l + x \in 1 .. l + x BY <2>6, <2>12
    <3> QED BY <2>6, <2>12, <3>1
  <2>17. PacketIn(e, l, p)
    <3>1. t \notin {"MODIFIERS", "MESSAGE", "PLAYER"} BY DEF Counted
    <3> QED BY <2>4, <2>16, <3>1 DEF PacketIn, x
  <2>18. Spells(e, f) /\ f \in Seq(PacketRecord)
    <3>1. PacketIn(e, Len(b), p) BY <2>17 DEF l
    <3> QED BY <1>2, <2>4, <2>15, <3>1, GrownSpells
  <2>19. Len(e) <= SizeW - SOCKBUF_WRITE_SPARE BY <2>12, <2>14
  <2>20. connW' = [connW EXCEPT !.buf = e, !.frame = f] BY <1>1, <1>4
  <2> HIDE DEF f
  <2> QED BY <1>1, <2>12, <2>18, <2>19, <2>20, FrameGoesOn
<1> QED BY <1>3, <1>4

-----------------------------------------------------------------------------
(* The reliable stream.                                                    *)

ReaderType == [buf : Seq(Nat), read : Seq(PacketRecord), lost : BOOLEAN]

\* The client has read the first of the packets ws; the others are what it and connC hold.
Streams(d, b, ws) ==
    /\ d \in ReaderType /\ ~d.lost
    /\ \E qs \in Seq(PacketRecord) : d.read \o qs = ws /\ Spells(d.buf \o b, qs)

BytesInv ==
    /\ connC \in [buf : Seq(Nat), written : Seq(PacketRecord), cut : BOOLEAN]
    /\ ~connC.cut => Streams(reader, connC.buf, connC.written)

LEMMA AppendMoves ==
    ASSUME NEW S, NEW ps \in Seq(S), NEW qs \in Seq(S), NEW q \in S
    PROVE  ps \o Append(qs, q) = Append(ps \o qs, q)
<1>1. <<q>> \in Seq(S) OBVIOUS
<1>2. Append(qs, q) = qs \o <<q>> BY AppendIsConcat
<1>3. ps \o (qs \o <<q>>) = (ps \o qs) \o <<q>> BY <1>1, ConcatAssociative
<1>4. ps \o qs \in Seq(S) BY ConcatProperties
<1>5. Append(ps \o qs, q) = (ps \o qs) \o <<q>> BY <1>4, AppendIsConcat
<1> QED BY <1>2, <1>3, <1>5

\* A packet behind the bytes the client has yet to get.
LEMMA PacketFollows ==
    ASSUME NEW d \in Seq(Nat), NEW b \in Seq(Nat), NEW a, NEW p \in PacketRecord,
           Grown(b, a, Length(p)), PacketIn(a, Len(b), p)
    PROVE  Grown(d \o b, d \o a, Length(p)) /\ PacketIn(d \o a, Len(d \o b), p)
<1> DEFINE x == d \o b
           y == d \o a
           k == Length(p)
<1>1. a \in Seq(Nat) /\ Len(a) = Len(b) + k /\ \A i \in 1 .. Len(b) : a[i] = b[i] BY DEF Grown
<1>2. Joins(x, d, b, Nat) /\ Joins(y, d, a, Nat) BY <1>1, ConcatIs
<1>3. k \in Nat BY LengthIs
<1> HIDE DEF x, y, k
<1>4. Len(d) \in Nat /\ Len(b) \in Nat /\ Len(x) = Len(d) + Len(b) /\ Len(y) = Len(x) + k /\ y \in Seq(Nat)
  <2>1. Len(d) \in Nat /\ Len(b) \in Nat OBVIOUS
  <2> QED BY <1>1, <1>2, <1>3, <2>1 DEF Joins
<1>5. ASSUME NEW i \in 1 .. Len(x) PROVE y[i] = x[i]
  <2>1. CASE i <= Len(d)
    <3>1. i \in 1 .. Len(d) BY <1>4, <2>1
    <3> QED BY <1>2, <3>1 DEF Joins
  <2>2. CASE ~(i <= Len(d))
    <3> DEFINE j == i - Len(d)
    <3>1. j \in 1 .. Len(b) /\ j \in 1 .. Len(a) /\ Len(d) + j = i BY <1>1, <1>3, <1>4, <2>2
    <3> HIDE DEF j
    <3>2. y[Len(d) + j] = a[j] /\ x[Len(d) + j] = b[j] BY <1>2, <3>1 DEF Joins
    <3> QED BY <1>1, <3>1, <3>2
  <2> QED BY <2>1, <2>2
<1>6. PacketIn(y, Len(d) + Len(b), p) BY <1>1, <1>2, <1>4, PacketShifts
<1>7. Grown(x, y, k) BY <1>4, <1>5 DEF Grown
<1> QED BY <1>4, <1>6, <1>7 DEF x, y, k

LEMMA StreamGrows ==
    ASSUME BytesInv, NEW end, NEW p \in PacketRecord, NEW r, WroteIs(r, connC.buf, end, p), Kept(r, p),
           reader' = reader
    PROVE  BytesInv'
<1> DEFINE b == connC.buf
           ws == connC.written
           a == r.buf
           n == r.count
           x == r.cut
           vs == IF n = 0 THEN ws ELSE Append(ws, p)
           z == connC.cut \/ x
<1>1. b \in Seq(Nat) /\ ws \in Seq(PacketRecord) /\ connC.cut \in BOOLEAN BY DEF BytesInv
<1>2. /\ n \in Nat /\ x \in BOOLEAN /\ a \in Seq(Nat)
      /\ n = 0 => a = b
      /\ n # 0 /\ ~x => Grown(b, a, Length(p)) /\ PacketIn(a, Len(b), p)
    BY DEF WroteIs
<1>3. connC' = [buf |-> a, written |-> vs, cut |-> z] BY DEF Kept
<1>4. vs \in Seq(PacketRecord) /\ z \in BOOLEAN BY <1>1, <1>2
<1>5. ASSUME ~z PROVE Streams(reader, a, vs)
  <2>1. ~connC.cut /\ ~x BY <1>5
  <2>2. Streams(reader, b, ws) BY <2>1 DEF BytesInv
  <2>3. CASE n = 0
    <3>1. a = b /\ vs = ws BY <1>2, <2>3
    <3> QED BY <2>2, <3>1
  <2>4. CASE n # 0
    <3> DEFINE d == reader.buf
               ps == reader.read
    <3>1. PICK qs \in Seq(PacketRecord) : ps \o qs = ws /\ Spells(d \o b, qs) BY <2>2 DEF Streams
    <3>2. d \in Seq(Nat) /\ ps \in Seq(PacketRecord) /\ reader \in ReaderType /\ ~reader.lost
        BY <2>2 DEF Streams, ReaderType
    <3>3. Grown(b, a, Length(p)) /\ PacketIn(a, Len(b), p) BY <1>2, <2>1, <2>4
    <3>4. vs = Append(ws, p) BY <2>4
    <3> HIDE DEF a, b, ws, vs, d, ps
    <3>5. d \o b \in Seq(Nat) BY <1>1, <3>2, ConcatProperties
    <3>6. Grown(d \o b, d \o a, Length(p)) /\ PacketIn(d \o a, Len(d \o b), p)
        BY <1>1, <3>2, <3>3, PacketFollows
    <3>7. Spells(d \o a, Append(qs, p)) /\ Append(qs, p) \in Seq(PacketRecord)
        BY <3>1, <3>5, <3>6, GrownSpells
    <3>8. ps \o Append(qs, p) = vs BY <3>1, <3>2, <3>4, AppendMoves
    <3> QED BY <3>2, <3>7, <3>8 DEF Streams, d, ps
  <2> QED BY <2>3, <2>4
<1> HIDE DEF a, vs, z, n, x
<1>6. connC' \in [buf : Seq(Nat), written : Seq(PacketRecord), cut : BOOLEAN]
      /\ connC'.buf = a /\ connC'.written = vs /\ connC'.cut = z
  <2> HIDE DEF b, ws
  <2> QED BY <1>2, <1>3, <1>4
<1> QED BY <1>5, <1>6 DEF BytesInv

LEMMA StreamSends ==
    ASSUME BytesInv, NEW p \in PacketRecord, p.type \notin Counted \cup {"PLAYER"}, Send(p)
    PROVE  BytesInv'
<1> DEFINE r == Put(connC.buf, SizeC, FALSE, p)
           end == EndOf(SizeC, FALSE)
<1>1. connC.buf \in Seq(Nat) /\ SizeC \in Nat /\ end \in Int
    BY BufferAssumption DEF BytesInv, EndOf, SOCKBUF_WRITE_SPARE
<1>2. Kept(r, p) /\ reader' = reader BY DEF Send
<1>3. PutIs(r, connC.buf, end, p) BY <1>1, PutPacket
<1> HIDE DEF r, end
<1>4. WroteIs(r, connC.buf, end, p) BY <1>1, <1>3, PutWhole
<1> QED BY <1>2, <1>4, StreamGrows

LEMMA StreamSendsPlayer ==
    ASSUME BytesInv, NEW p \in PacketRecord, p.type = "PLAYER", Send_player(p)
    PROVE  BytesInv'
<1> DEFINE b == connC.buf
           r == Put(b, SizeC, FALSE, p)
           x == Packet_printf(r.buf, SizeC, FALSE, <<Str(p.ext)>>)
           end == EndOf(SizeC, FALSE)
           e == ExtraOf(b, r, x)
<1>1. b \in Seq(Nat) /\ SizeC \in Nat BY BufferAssumption DEF BytesInv
<1>2. p.type \notin Counted BY DEF Counted
<1>3. PutIs(r, b, end, p) BY <1>1, <1>2, PutPacket
<1>4. (IF r.count = 0 THEN Kept(r, p) ELSE Kept(e, p)) /\ reader' = reader BY DEF Send_player, ExtraOf
<1>5. CASE r.count = 0
  <2> HIDE DEF r, end
  <2>1. r.buf = b /\ r.cut = FALSE BY <1>3, <1>5 DEF PutIs
  <2>2. WroteIs(r, b, end, p) BY <1>1, <1>5, <2>1, WroteNothing
  <2>3. Kept(r, p) BY <1>4, <1>5
  <2> QED BY <1>4, <2>2, <2>3, StreamGrows
<1>6. CASE r.count # 0
  <2> HIDE DEF r
  <2>1. WroteIs(e, b, end, p) BY <1>1, <1>3, <1>6, PutPlayer
  <2>2. Kept(e, p) BY <1>4, <1>6
  <2> HIDE DEF e, end
  <2> QED BY <1>4, <2>1, <2>2, StreamGrows
<1> QED BY <1>5, <1>6

\* Bytes that move from one buffer to the other.
LEMMA BytesMove ==
    ASSUME NEW d \in Seq(Nat), NEW b \in Seq(Nat), NEW k \in 1 .. Len(b)
    PROVE  LET x == SubSeq(b, 1, k)
               y == SubSeq(b, k + 1, Len(b))
           IN  x \in Seq(Nat) /\ y \in Seq(Nat) /\ d \o x \in Seq(Nat) /\ (d \o x) \o y = d \o b
<1> DEFINE x == SubSeq(b, 1, k)
           y == SubSeq(b, k + 1, Len(b))
<1>1. Len(b) \in Nat /\ k \in 0 .. Len(b) /\ k \in Nat OBVIOUS
<1>2. y \in Seq(Nat) BY <1>1, RestIs
<1>3. x \in Seq(Nat) BY <1>1
<1>4. x \o y = SubSeq(b, 1, Len(b))
  <2>1. 1 \in 1 .. Len(b) + 1 /\ k \in 1 - 1 .. Len(b) /\ Len(b) \in k .. Len(b) BY <1>1
  <2> QED BY <2>1, ConcatAdjacentSubSeq
<1>5. x \o y = b BY <1>4, SubSeqFull
<1> HIDE DEF x, y
<1> DEFINE S == Nat
<1>6. (d \o x) \o y = d \o (x \o y)
  <2>1. d \in Seq(S) /\ x \in Seq(S) /\ y \in Seq(S) BY <1>2, <1>3
  <2> HIDE DEF S
  <2> QED BY <2>1, ConcatAssociative
<1>7. d \o x \in Seq(Nat) BY <1>3, ConcatProperties
<1> QED BY <1>2, <1>3, <1>5, <1>6, <1>7 DEF x, y

LEMMA StreamDelivers ==
    ASSUME BytesInv, NEW k \in 1 .. Len(connC.buf), Deliver(k)
    PROVE  BytesInv'
<1> DEFINE b == connC.buf
           x == SubSeq(b, 1, k)
           y == SubSeq(b, k + 1, Len(b))
<1>1. b \in Seq(Nat) /\ connC \in [buf : Seq(Nat), written : Seq(PacketRecord), cut : BOOLEAN] BY DEF BytesInv
<1>2. connC' = [connC EXCEPT !.buf = y] /\ reader' = [reader EXCEPT !.buf = reader.buf \o x] BY DEF Deliver
<1>3. y \in Seq(Nat)
  <2>1. <<>> \in Seq(Nat) OBVIOUS
  <2> QED BY <1>1, <2>1, BytesMove
<1> HIDE DEF y
<1>4. connC' \in [buf : Seq(Nat), written : Seq(PacketRecord), cut : BOOLEAN]
      /\ connC'.buf = y /\ connC'.written = connC.written /\ connC'.cut = connC.cut
    BY <1>1, <1>2, <1>3
<1>5. ASSUME ~connC.cut PROVE Streams(reader', y, connC.written)
  <2> DEFINE d == reader.buf
             ps == reader.read
             e == d \o x
  <2>1. Streams(reader, b, connC.written) BY <1>5 DEF BytesInv
  <2>2. PICK qs \in Seq(PacketRecord) : ps \o qs = connC.written /\ Spells(d \o b, qs) BY <2>1 DEF Streams
  <2>3. d \in Seq(Nat) /\ ps \in Seq(PacketRecord) /\ reader \in ReaderType /\ ~reader.lost
      BY <2>1 DEF Streams, ReaderType
  <2>5. e \o y = d \o b BY <1>1, <2>3, BytesMove DEF y
  <2>6. e \in Seq(Nat) BY <1>1, <2>3, BytesMove
  <2> HIDE DEF e
  <2>7. reader' = [reader EXCEPT !.buf = e] BY <1>2 DEF e
  <2>8. reader' \in ReaderType /\ reader'.buf = e /\ reader'.read = ps /\ reader'.lost = reader.lost
      BY <2>3, <2>6, <2>7 DEF ReaderType
  <2> QED BY <2>2, <2>3, <2>5, <2>8 DEF Streams
<1> QED BY <1>4, <1>5 DEF BytesInv

LEMMA StreamReads ==
    ASSUME BytesInv, Read
    PROVE  BytesInv'
<1>1. connC' = connC BY DEF Read
<1>2. ASSUME ~connC.cut PROVE Streams(reader', connC.buf, connC.written)
  <2> DEFINE d == reader.buf
             b == connC.buf
             ps == reader.read
             e == d \o b
  <2>1. Streams(reader, b, connC.written) BY <1>2 DEF BytesInv
  <2>2. PICK qs \in Seq(PacketRecord) : ps \o qs = connC.written /\ Spells(e, qs) BY <2>1 DEF Streams
  <2>3. d \in Seq(Nat) /\ ps \in Seq(PacketRecord) /\ reader \in ReaderType /\ ~reader.lost
      BY <2>1 DEF Streams, ReaderType
  <2>4. b \in Seq(Nat) /\ d # <<>> BY DEF BytesInv, Read
  <2> DEFINE p == qs[1]
             k == Length(p)
             f == FirstOf(d)
             t == Tail(qs)
             g == SubSeq(d, k + 1, Len(d))
             h == Append(ps, p)
  <2>5. IF Known(d[1]) = {} THEN reader' = [reader EXCEPT !.lost = TRUE]
        ELSE \/ f.fails /\ reader' = [reader EXCEPT !.lost = TRUE]
             \/ f.whole /\ reader' = [reader EXCEPT !.buf = SubSeq(d, f.used + 1, Len(d)),
                                                    !.read = Append(ps, f.packet)]
      BY DEF Read
  <2> HIDE DEF d, b, ps
  <2>6. Joins(e, d, b, Nat) BY <2>3, <2>4, ConcatIs
  <2> HIDE DEF e
  <2>7. e \in Seq(Nat) /\ e # <<>>
    <3>1. e \in Seq(Nat) /\ Len(e) = Len(d) + Len(b) BY <2>6 DEF Joins
    <3>2. Len(d) \in Nat /\ Len(d) > 0 /\ Len(b) \in Nat BY <2>3, <2>4
    <3> QED BY <3>1, <3>2
  <2>8. qs # <<>> BY <2>2, <2>7, SpellsNone
  <2>9. p \in PacketRecord /\ t \in Seq(PacketRecord) BY <2>8
  <2>10. PacketIn(e, 0, p) /\ Spells(SubSeq(e, k + 1, Len(e)), t) BY <2>2, <2>7, <2>8, SpellsLess
  <2> HIDE DEF t
  <2>11. ps \o qs = h \o t BY <2>3, <2>8, HeadMoves DEF t
  <2> HIDE DEF p
  <2>12. PacketIn(d, 0, p) BY <2>3, <2>4, <2>6, <2>9, <2>10, PacketBegins
  <2>13. Known(d[1]) = {p.type} BY <2>3, <2>4, <2>9, <2>12, FirstOfIs
  <2>14. ~f.fails BY <2>3, <2>4, <2>9, <2>12, FirstOfIs
  <2>15. f.whole = (k <= Len(d)) BY <2>3, <2>4, <2>9, <2>12, FirstOfIs
  <2>16. f.whole => f.used = k /\ f.packet = p BY <2>3, <2>4, <2>9, <2>12, FirstOfIs
  <2> HIDE DEF f, k
  <2>17. f.whole /\ reader' = [reader EXCEPT !.buf = SubSeq(d, f.used + 1, Len(d)),
                                             !.read = Append(ps, f.packet)]
      BY <2>5, <2>13, <2>14
  <2>18. reader' = [reader EXCEPT !.buf = g, !.read = h] BY <2>16, <2>17
  <2>19. k \in 0 .. Len(d)
    <3>1. k \in Nat /\ Len(d) \in Nat BY <2>3, <2>9, LengthIs DEF k
    <3>2. k <= Len(d) BY <2>15, <2>17, Zenon
    <3> QED BY <3>1, <3>2
  <2>20. g \in Seq(Nat)
    <3>1. LET rest == SubSeq(d, k + 1, Len(d)) IN rest \in Seq(Nat) BY <2>3, <2>19, RestIs
    <3> QED BY <3>1
  <2>21. SubSeq(d \o b, k + 1, Len(d \o b)) = g \o b BY <2>3, <2>4, <2>19, RestOfConcat
  <2>22. SubSeq(e, k + 1, Len(e)) = g \o b BY <2>21 DEF e
  <2>23. Spells(g \o b, t) BY <2>10, <2>22
  <2>24. h \in Seq(PacketRecord) BY <2>3, <2>9
  <2> HIDE DEF g, h
  <2>25. reader' \in ReaderType /\ reader'.buf = g /\ reader'.read = h /\ reader'.lost = reader.lost
      BY <2>3, <2>18, <2>20, <2>24 DEF ReaderType
  <2>26. h \o t = connC.written BY <2>2, <2>11
  <2>27. t \in Seq(PacketRecord) BY <2>9
  <2> QED BY <2>3, <2>23, <2>25, <2>26, <2>27 DEF Streams, b
<1> QED BY <1>1, <1>2 DEF BytesInv

-----------------------------------------------------------------------------

BufferInv == FrameInv /\ BytesInv

LEMMA BufferInvInit == BufferInit => BufferInv
<1> SUFFICES ASSUME BufferInit PROVE BufferInv OBVIOUS
<1>1. /\ connW = [buf |-> <<>>, open |-> FALSE, frame |-> <<>>]
      /\ connC = [buf |-> <<>>, written |-> <<>>, cut |-> FALSE]
      /\ reader = [buf |-> <<>>, read |-> <<>>, lost |-> FALSE]
    BY DEF BufferInit
<1>2. <<>> \in Seq(Nat) /\ <<>> \in Seq(PacketRecord) /\ <<>> \o <<>> = <<>> /\ Len(<<>>) = 0 OBVIOUS
<1>3. FrameInv
  <2>1. connW \in [buf : Seq(Nat), open : BOOLEAN, frame : Seq(PacketRecord)]
        /\ connW.buf = <<>> /\ connW.frame = <<>> /\ connW.open = FALSE
      BY <1>1, <1>2
  <2>2. 0 <= SizeW
    <3>1. SizeW \in Nat BY Ends
    <3> QED BY <3>1
  <2> QED BY <1>2, <2>1, <2>2, SpellsNothing DEF FrameInv
<1>4. BytesInv
  <2>1. connC \in [buf : Seq(Nat), written : Seq(PacketRecord), cut : BOOLEAN] /\ connC.buf = <<>> /\ connC.written = <<>>
      BY <1>1, <1>2
  <2>2. reader \in ReaderType /\ reader.buf = <<>> /\ reader.read = <<>> /\ reader.lost = FALSE
      BY <1>1, <1>2 DEF ReaderType
  <2>3. Streams(reader, <<>>, <<>>) BY <1>2, <2>2, SpellsNothing DEF Streams
  <2> QED BY <2>1, <2>3 DEF BytesInv
<1> QED BY <1>3, <1>4 DEF BufferInv

LEMMA BufferInvNext == BufferInv /\ [BufferNext]_bufferVars => BufferInv'
<1> SUFFICES ASSUME BufferInv, [BufferNext]_bufferVars PROVE BufferInv' OBVIOUS
<1>1. FrameInv /\ BytesInv BY DEF BufferInv
<1>2. CASE UNCHANGED bufferVars BY <1>1, <1>2 DEF bufferVars, BufferInv, FrameInv, BytesInv
<1>3. CASE FrameNext
  <2>1. connC' = connC /\ reader' = reader
      BY <1>3 DEF FrameNext, Send_start_of_frame, Send_self, Send_ship, Send_end_of_frame, Send_counted
  <2>2. BytesInv' BY <1>1, <2>1 DEF BytesInv
  <2>3. CASE Send_start_of_frame BY <2>2, <2>3, FrameStarts DEF BufferInv
  <2>4. CASE Send_self BY <1>1, <2>2, <2>4, FrameHasSelf DEF BufferInv
  <2>5. CASE Send_ship BY <1>1, <2>2, <2>5, FrameHasShip DEF BufferInv
  <2>6. CASE Send_end_of_frame BY <1>1, <2>2, <2>6, FrameEnds DEF BufferInv
  <2>7. ASSUME NEW t \in Counted, NEW n \in 1 .. MaxDebris, Send_counted(t, n) PROVE BufferInv'
      BY <1>1, <2>2, <2>7, FrameHasCounted DEF BufferInv
  <2> QED BY <1>3, <2>3, <2>4, <2>5, <2>6, <2>7 DEF FrameNext
<1>4. CASE StreamNext
  <2>1. connW' = connW BY <1>4 DEF StreamNext, Send, Send_player, Deliver, Read
  <2>2. FrameInv' BY <1>1, <2>1 DEF FrameInv
  <2>3. CASE Send([type |-> "LEAVE"])
    <3> DEFINE p == [type |-> "LEAVE"]
    <3>1. p \in PacketRecord /\ p.type = "LEAVE" BY PlainPackets
    <3> HIDE DEF p
    <3>2. Send(p) BY <2>3 DEF p
    <3>3. p.type \notin Counted \cup {"PLAYER"} BY <3>1 DEF Counted
    <3> QED BY <1>1, <2>2, <3>1, <3>2, <3>3, StreamSends DEF BufferInv
  <2>4. ASSUME NEW n \in 0 .. MaxMessage, Send([type |-> "MESSAGE", str |-> n]) PROVE BufferInv'
    <3> DEFINE p == [type |-> "MESSAGE", str |-> n]
    <3>1. p \in PacketRecord /\ p.type = "MESSAGE" BY DEF PacketRecord
    <3> HIDE DEF p
    <3>2. Send(p) BY <2>4 DEF p
    <3>3. p.type \notin Counted \cup {"PLAYER"} BY <3>1 DEF Counted
    <3> QED BY <1>1, <2>2, <3>1, <3>2, <3>3, StreamSends DEF BufferInv
  <2>5. ASSUME NEW n \in 0 .. MaxName, NEW x \in 0 .. MaxName,
               Send_player([type |-> "PLAYER", str |-> n, ext |-> x])
        PROVE  BufferInv'
    <3> DEFINE p == [type |-> "PLAYER", str |-> n, ext |-> x]
    <3>1. p \in PacketRecord /\ p.type = "PLAYER" BY DEF PacketRecord
    <3> HIDE DEF p
    <3>2. Send_player(p) BY <2>5 DEF p
    <3> QED BY <1>1, <2>2, <3>1, <3>2, StreamSendsPlayer DEF BufferInv
  <2>6. ASSUME NEW k \in 1 .. Len(connC.buf), Deliver(k) PROVE BufferInv'
      BY <1>1, <2>2, <2>6, StreamDelivers DEF BufferInv
  <2>7. CASE Read BY <1>1, <2>2, <2>7, StreamReads DEF BufferInv
  <2> QED BY <1>4, <2>3, <2>4, <2>5, <2>6, <2>7 DEF StreamNext
<1> QED BY <1>2, <1>3, <1>4 DEF BufferNext

LEMMA BufferInvSafe == BufferInv => BufferSafe
<1> SUFFICES ASSUME BufferInv PROVE BufferSafe OBVIOUS
<1>1. FrameInv /\ BytesInv BY DEF BufferInv
<1>2. FrameIsWhole
  <2>1. connW.buf \in Seq(Nat) /\ connW.frame \in Seq(PacketRecord) /\ Spells(connW.buf, connW.frame) /\ Len(connW.buf) <= SizeW
      BY <1>1 DEF FrameInv
  <2>2. Parsed(connW.buf).sense /\ Parsed(connW.buf).packets = connW.frame BY <2>1, ParsesAll
  <2> QED BY <2>1, <2>2 DEF FrameIsWhole
<1>3. ASSUME ~connC.cut PROVE ReadIsWritten
  <2> DEFINE ps == reader.read
             ws == connC.written
  <2>1. Streams(reader, connC.buf, ws) BY <1>1, <1>3 DEF BytesInv
  <2>2. ~reader.lost /\ ps \in Seq(PacketRecord) BY <2>1 DEF Streams, ReaderType
  <2>3. PICK qs \in Seq(PacketRecord) : ps \o qs = ws BY <2>1 DEF Streams
  <2> HIDE DEF ps, ws
  <2>4. Joins(ws, ps, qs, PacketRecord) BY <2>2, <2>3, ConcatIs
  <2>5. /\ ws \in Seq(PacketRecord) /\ Len(ps) \in Nat /\ Len(qs) \in Nat /\ Len(ws) = Len(ps) + Len(qs)
        /\ \A i \in 1 .. Len(ps) : ws[i] = ps[i]
      BY <2>2, <2>4 DEF Joins
  <2>6. Len(ps) <= Len(ws) BY <2>5
  <2>7. SubSeq(ps, 1, Len(ps)) = ps BY <2>2, SubSeqFull
  <2>8. SubSeq(ws, 1, Len(ps)) = ps
    <3> DEFINE u == SubSeq(ws, 1, Len(ps))
    <3>1. u \in Seq(PacketRecord) /\ Len(u) = Len(ps) /\ \A i \in 1 .. Len(ps) : u[i] = ws[i] BY <2>5, <2>6
    <3> HIDE DEF u
    <3>2. \A i \in 1 .. Len(u) : u[i] = ps[i] BY <2>5, <3>1
    <3>3. u = ps BY <2>2, <3>1, <3>2, SeqEqual
    <3> QED BY <3>3 DEF u
  <2>9. IsPrefix(ps, ws) BY <2>6, <2>7, <2>8 DEF IsPrefix
  <2> QED BY <2>2, <2>9 DEF ReadIsWritten, ps, ws
<1> QED BY <1>2, <1>3 DEF BufferSafe, ReadUnlessCut

\* net.cpp, netserver.cpp: of every size of the buffers and the strings, and however much is
\* written: a frame ends within its buffer with PKT_END and consists of the packets that were
\* counted as sent, and the client reads from the reliable stream the packets that were
\* written, in order and none in part, unless a string met the end of the buffer.
THEOREM BuffersStayWhole == BufferSpec => []BufferSafe
<1>1. BufferInit => BufferInv BY BufferInvInit
<1>2. BufferInv /\ [BufferNext]_bufferVars => BufferInv' BY BufferInvNext
<1>3. BufferInv => BufferSafe BY BufferInvSafe
<1> QED BY <1>1, <1>2, <1>3, PTL DEF BufferSpec
=============================================================================
