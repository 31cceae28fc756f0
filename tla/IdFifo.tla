-------------------------------- MODULE IdFifo --------------------------------
(***************************************************************************)
(* What id.cpp promises: ids are handed out in the order in which they     *)
(* were given back, so that an id a client still sees in late packets is   *)
(* taken again as late as possible, and no id is handed out twice.         *)
(***************************************************************************)
EXTENDS Integers, Sequences

CONSTANT NumIds

VARIABLES
    free,   \* the ids that can be had, in the order in which they will be
    inuse   \* the ids that are taken

fifoVars == <<free, inuse>>

Init == free = [i \in 1 .. NumIds |-> i] /\ inuse = {}

Take ==
    /\ free # <<>>
    /\ free' = Tail(free)
    /\ inuse' = inuse \cup {Head(free)}

GiveBack ==
    \E id \in inuse :
        /\ free' = Append(free, id)
        /\ inuse' = inuse \ {id}

Spec == Init /\ [][Take \/ GiveBack]_fifoVars
=============================================================================
