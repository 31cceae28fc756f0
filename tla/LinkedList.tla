------------------------------ MODULE LinkedList ------------------------------
(***************************************************************************)
(* The doubly linked list of list.cpp, which holds the cells in use while  *)
(* collisions are looked for and the names of options to expand.  Header   *)
(* is its Tail, the node in the header, which comes before the first and   *)
(* after the last; malloc gives any node that is not in use, or none.      *)
(***************************************************************************)
EXTENDS Integers, Sequences, SequencesExt

CONSTANTS Nodes, Datas, Header, None

\* A pointer to a node or to data is not NULL.
ASSUME ListAssumption ==
    Header \notin Nodes /\ None \notin Nodes \cup {Header} \cup Datas

VARIABLES
    list,       \* Next, Prev, Data of each node, and Size
    result      \* of the last call

listVars == <<list, result>>

Free(l) == {n \in Nodes : l.Next[n] = None}

-----------------------------------------------------------------------------
LIST_New ==
    LET alone == [n \in Nodes \cup {Header} |-> IF n = Header THEN Header ELSE None]
    IN  [Next |-> alone, Prev |-> alone, Data |-> [n \in DOMAIN alone |-> None], Size |-> 0]

\* d in the node n, before pos.
Added(l, pos, n, d) ==
    LET prev == l.Prev[pos]
    IN  [Next |-> [l.Next EXCEPT ![n] = pos, ![prev] = n],
         Prev |-> [l.Prev EXCEPT ![n] = prev, ![pos] = n],
         Data |-> [l.Data EXCEPT ![n] = d],
         Size |-> l.Size + 1]

\* Mutant: the next node keeps its link to the one that goes.
Removed_OneLink(l, pos) ==
    [Next |-> [l.Next EXCEPT ![l.Prev[pos]] = l.Next[pos], ![pos] = None],
     Prev |-> [l.Prev EXCEPT ![pos] = None],
     Data |-> [l.Data EXCEPT ![pos] = None],
     Size |-> l.Size - 1]

\* Without pos, whose node is freed.
Removed(l, pos) ==
    IF pos = Header THEN l
    ELSE LET next == l.Next[pos]
             prev == l.Prev[pos]
         IN  [Next |-> [l.Next EXCEPT ![prev] = next, ![pos] = None],
              Prev |-> [l.Prev EXCEPT ![next] = prev, ![pos] = None],
              Data |-> [l.Data EXCEPT ![pos] = None],
              Size |-> l.Size - 1]

LIST_AddItem(pos, d) ==
    IF Free(list) = {} THEN result' = None /\ UNCHANGED list
    ELSE \E n \in Free(list) : list' = Added(list, pos, n, d) /\ result' = n

LIST_RemoveItem(pos) ==
    /\ list' = Removed(list, pos)
    /\ result' = IF pos = Header THEN Header ELSE list.Next[pos]

LIST_AddItemTop(d)    == LIST_AddItem(list.Next[Header], d)
LIST_AddItemBottom(d) == LIST_AddItem(Header, d)

\* The data, NULL where there is none.
LIST_RemoveFirstItem ==
    /\ result' = list.Data[list.Next[Header]]
    /\ list' = Removed(list, list.Next[Header])

LIST_RemoveLastItem ==
    /\ result' = list.Data[list.Prev[Header]]
    /\ list' = Removed(list, list.Prev[Header])

LIST_MoveItemTop(iter) ==
    /\ result' = iter
    /\ LET old_top == list.Next[Header]
           next == list.Next[iter]
           prev == list.Prev[iter]
       IN  list' = IF prev = Header THEN list
                   ELSE [list EXCEPT
                            !.Next = [@ EXCEPT ![prev] = next, ![iter] = old_top, ![Header] = iter],
                            !.Prev = [@ EXCEPT ![next] = prev, ![old_top] = iter, ![iter] = Header]]

LIST_MoveItemBottom(iter) ==
    /\ result' = iter
    /\ LET old_last == list.Prev[Header]
           next == list.Next[iter]
           prev == list.Prev[iter]
       IN  list' = IF next = Header THEN list
                   ELSE [list EXCEPT
                            !.Next = [@ EXCEPT ![prev] = next, ![iter] = Header, ![old_last] = iter],
                            !.Prev = [@ EXCEPT ![next] = prev, ![iter] = old_last, ![Header] = iter]]

\* The loop, which frees the data too; LIST_Delete and LIST_New have the same effect.
Emptied(l) ==
    LET WithoutFirst(m, i) == Removed(m, m.Next[Header])
    IN  FoldLeft(WithoutFirst, l, [i \in 1 .. l.Size |-> i])
LIST_Clear == list' = Emptied(list) /\ result' = None

\* The nodes along the links from pos, in n steps.
Along(link, pos, n) ==
    LET at[i \in 0 .. n] == IF i = 0 THEN pos ELSE link[at[i - 1]]
    IN  at

\* From pos up to, and without, last; the loop has gone one further when it ends.
LIST_FindItemRange(pos, last, d) ==
    LET at == Along(list.Next, pos, list.Size)
        Ends(i) == at[i] = last \/ list.Data[at[i]] = d
        k == CHOOSE i \in 0 .. list.Size : Ends(i) /\ \A j \in 0 .. i - 1 : ~Ends(j)
    IN  IF at[k] = last THEN None ELSE list.Prev[list.Next[at[k]]]

LIST_FindItem(d) ==
    /\ result' = LIST_FindItemRange(list.Next[Header], Header, d)
    /\ UNCHANGED list

-----------------------------------------------------------------------------
ListInit == list = LIST_New /\ result = None

ListNext ==
    \/ LIST_RemoveFirstItem \/ LIST_RemoveLastItem \/ LIST_Clear
    \/ \E d \in Datas : LIST_AddItemTop(d) \/ LIST_AddItemBottom(d) \/ LIST_FindItem(d)
    \/ \E pos \in (Nodes \cup {Header}) \ Free(list) :
           \/ LIST_RemoveItem(pos)
           \/ \E d \in Datas : LIST_AddItem(pos, d)
    \/ \E iter \in Nodes \ Free(list) : LIST_MoveItemTop(iter) \/ LIST_MoveItemBottom(iter)

ListSpec == ListInit /\ [][ListNext]_listVars

-----------------------------------------------------------------------------
\* What one reads along the links: Size elements, and more if the header is not behind them.
Abstract(l, link) ==
    LET at == Along(link, Header, l.Size + 1)
        n  == IF at[l.Size + 1] = Header THEN l.Size ELSE l.Size + 1
    IN  [i \in 1 .. n |-> [node |-> at[i], data |-> l.Data[at[i]]]]

List == INSTANCE AbstractList WITH
    front <- Abstract(list, list.Next), back <- Abstract(list, list.Prev), size <- list.Size

\* The links are a sequence: read from its back it is the reverse of what is read from
\* its front, it has Size elements, no node twice, and each call changes it, and answers,
\* as its comment says.
ImplementsList == List!AbstractSpec
=============================================================================
