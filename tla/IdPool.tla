-------------------------------- MODULE IdPool --------------------------------
(***************************************************************************)
(* The identifiers of players (id.cpp): a circular queue of free ids that  *)
(* two unsigned counters, which wrap, index modulo its size.               *)
(***************************************************************************)
EXTENDS Integers, Sequences, FiniteSets

CONSTANTS
    NumIds,     \* NUM_IDS, 256
    Wrap        \* 2^32, where the counters wrap

ASSUME IdAssumption ==
    /\ NumIds \in Nat \ {0}
    /\ Wrap \in Nat
    /\ Wrap > NumIds
    /\ Wrap % NumIds = 0

VARIABLES
    ID_queue,   \* 0 .. NumIds-1 -> ids
    ID_inuse,   \* id -> whether it is taken
    get_ID, put_ID,
    exited      \* exit(1): "ID queue corruption" or "Illegal ID"

idVars == <<ID_queue, ID_inuse, get_ID, put_ID, exited>>

\* put_ID - get_ID, unsigned.
Available == (put_ID - get_ID) % Wrap

\* 0 when there is none.
peek_ID == IF get_ID = put_ID THEN 0 ELSE ID_queue[get_ID % NumIds]

\* One more, unsigned.
Next_ID(n) == (n + 1) % Wrap

\* ID_inuse once n is handed out.
Marked(n) == [ID_inuse EXCEPT ![n] = TRUE]

\* request_ID; the id it returns is peek_ID.  A corrupt queue ends the server.
request_ID ==
    IF Available > NumIds
    THEN exited' = TRUE /\ UNCHANGED <<ID_queue, ID_inuse, get_ID, put_ID>>
    ELSE IF peek_ID = 0 THEN UNCHANGED idVars
    ELSE /\ get_ID' = Next_ID(get_ID)
         /\ ID_inuse' = Marked(peek_ID)
         /\ UNCHANGED <<ID_queue, put_ID, exited>>

\* Mutant: the freed id is the next to be handed out.
PlaceFor_Next == ((get_ID - 1) % Wrap) % NumIds

\* Where release_ID puts the id.
PlaceFor == put_ID % NumIds

IsId(n) == n \in 1 .. NumIds

release_ID(id) ==
    IF \/ Available = NumIds
       \/ ~IsId(id)
       \/ ~ID_inuse[id]
    THEN exited' = TRUE /\ UNCHANGED <<ID_queue, ID_inuse, get_ID, put_ID>>
    ELSE /\ ID_queue' = [ID_queue EXCEPT ![PlaceFor] = id]
         /\ put_ID' = Next_ID(put_ID)
         /\ ID_inuse' = [ID_inuse EXCEPT ![id] = FALSE]
         /\ UNCHANGED <<get_ID, exited>>

\* init_ID.
IdInit ==
    /\ ID_queue = [i \in 0 .. NumIds - 1 |-> i + 1]
    /\ ID_inuse = [id \in 1 .. NumIds |-> FALSE]
    /\ get_ID = 0
    /\ put_ID = NumIds
    /\ exited = FALSE

-----------------------------------------------------------------------------
(* What the queue stands for.                                              *)

FreeIds == [k \in 1 .. Available |-> ID_queue[((get_ID + k - 1) % Wrap) % NumIds]]
TakenIds == {id \in 1 .. NumIds : ID_inuse[id]}

Fifo == INSTANCE IdFifo WITH free <- FreeIds, inuse <- TakenIds
=============================================================================
