------------------------------ MODULE AbstractPool ------------------------------
(***************************************************************************)
(* What the pool of objects promises to who uses it: a stack of free       *)
(* structures.  One is taken from the top and goes back to the top, so the *)
(* structure removed last is the next to be used.                          *)
(***************************************************************************)
EXTENDS Naturals, Sequences

CONSTANT MaxObjects         \* MAX_TOTAL_OBJECTS

VARIABLE free               \* the free structures, the next one first

Struct == 1 .. MaxObjects

\* Shots_allocate.
Init == free = [n \in Struct |-> n]

\* Object_add; NULL, and no step, when none is free.
Take == /\ free # <<>>
        /\ free' = Tail(free)

\* Object_remove, of any structure in use.
Give == \E s \in Struct \ {free[n] : n \in DOMAIN free} : free' = <<s>> \o free

Next == Take \/ Give

Spec == Init /\ [][Next]_free
=============================================================================
