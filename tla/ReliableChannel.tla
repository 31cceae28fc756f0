---------------------------- MODULE ReliableChannel ----------------------------
(***************************************************************************)
(* What the reliable stream of netserver.cpp promises: the client gets the *)
(* bytes the server wrote, in order and without gaps, and as long as the   *)
(* connection is open it gets all of them.  No packets, no timers.         *)
(***************************************************************************)
EXTENDS Integers, Sequences

VARIABLES
    sent,       \* bytes written by the server
    delivered,  \* bytes the client has
    open        \* the connection has not been destroyed

vars == <<sent, delivered, open>>

Init == sent = <<>> /\ delivered = <<>> /\ open = TRUE

\* The server appends some bytes.
Put ==
    /\ open
    /\ sent' \in Seq(Nat)
    /\ Len(sent) <= Len(sent')
    /\ sent = SubSeq(sent', 1, Len(sent))
    /\ UNCHANGED <<delivered, open>>

\* The client gets more of what was sent.  Datagrams outlive the connection.
Deliver ==
    /\ \E n \in Len(delivered) .. Len(sent) : delivered' = SubSeq(sent, 1, n)
    /\ UNCHANGED <<sent, open>>

Break ==
    /\ open
    /\ open' = FALSE
    /\ UNCHANGED <<sent, delivered>>

Next == Put \/ Deliver \/ Break

SafeSpec == Init /\ [][Next]_vars

\* An open channel does not sit on undelivered bytes for ever.
FairSpec == SafeSpec /\ WF_vars(open /\ Deliver)
=============================================================================
