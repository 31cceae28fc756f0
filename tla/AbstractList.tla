---------------------------- MODULE AbstractList ----------------------------
(***************************************************************************)
(* What the functions of list.cpp promise: a sequence, the same whether it *)
(* is read from its front or from its back, and the answer of each call.   *)
(***************************************************************************)
EXTENDS Naturals, SequencesExt

CONSTANTS Nodes, Datas, Header, None

VARIABLES
    front, back,    \* what one reads from either end
    size, result

Reads(s) == front' = s /\ back' = Reverse(s) /\ size' = Len(s)

Node(i) == IF i \in DOMAIN front THEN front[i].node ELSE Header
Data(i) == IF i \in DOMAIN front THEN front[i].data ELSE None
Unused  == Nodes \ {front[i].node : i \in DOMAIN front}

Insert(i) == \E n \in Unused, d \in Datas :
                Reads(InsertAt(front, i, [node |-> n, data |-> d])) /\ result' = n
Refuse == Unused = {} /\ UNCHANGED <<front, back, size>> /\ result' = None

\* The next node, or the data.
Delete(i) == Reads(RemoveAt(front, i)) /\ result' \in {Node(i + 1), Data(i)}

\* The end was to be deleted, or an element of an empty list.
Nothing ==
    /\ UNCHANGED <<front, back, size>>
    /\ result' = Header \/ (front = <<>> /\ result' = None)

Move(i, j) == Reads(InsertAt(RemoveAt(front, i), j, front[i])) /\ result' = Node(i)

Clear == Reads(<<>>) /\ result' = None

\* The first of the nodes with this data.
Find(d) ==
    LET at == {i \in DOMAIN front : Data(i) = d}
    IN  /\ UNCHANGED <<front, back, size>>
        /\ result' = IF at = {} THEN None ELSE Node(CHOOSE i \in at : \A j \in at : i <= j)

AbstractInit == front = <<>> /\ back = <<>> /\ size = 0 /\ result = None

AbstractNext ==
    \/ \E i \in 1 .. size + 1 : Insert(i)
    \/ \E i \in 1 .. size : Delete(i) \/ Move(i, 1) \/ Move(i, size)
    \/ Refuse \/ Nothing \/ Clear
    \/ \E d \in Datas : Find(d)

AbstractSpec == AbstractInit /\ [][AbstractNext]_<<front, back, size, result>>
=============================================================================
