------------------------------- MODULE ObjectPool -------------------------------
(***************************************************************************)
(* The array of pointers behind the pool of objects (object.cpp, shot.cpp) *)
(* and the loop that goes through it while entries are exchanged.          *)
(*                                                                         *)
(* Obj[0 .. NumObjs - 1] are in use; a structure knows its own index, by   *)
(* which Object_remove exchanges it with the last one in use.              *)
(* Objects_remove_timed_out goes down through the indices, removes some    *)
(* of the objects it meets and adds a ball for each ball it has removed.   *)
(***************************************************************************)
EXTENDS Integers, FiniteSets, Sequences

CONSTANT MaxObjects         \* MAX_TOTAL_OBJECTS

ASSUME PoolAssumption == MaxObjects \in Nat

VARIABLES
    Obj,        \* index -> structure
    NumObjs,
    objId,         \* structure -> its field id
    sweep       \* Objects_remove_timed_out: whether it goes on, its index i, and
                \* what the model keeps of it: who was there at its begin and who
                \* was looked at

poolVars == <<Obj, NumObjs, objId, sweep>>

Struct == 1 .. MaxObjects
Index  == 0 .. MaxObjects - 1

InUse == {Obj[i] : i \in 0 .. NumObjs - 1}

-----------------------------------------------------------------------------
\* Shots_allocate.
PoolInit ==
    /\ Obj = [i \in Index |-> i + 1]
    /\ NumObjs = 0
    /\ objId = [s \in Struct |-> s - 1]
    /\ sweep = [on |-> FALSE, i |-> 0, begin |-> {}, seen |-> {}, twice |-> {}]

Object_add ==
    /\ ~sweep.on
    /\ NumObjs < MaxObjects
    /\ NumObjs' = NumObjs + 1
    /\ UNCHANGED <<Obj, objId, sweep>>

\* Mutant: the last object is moved, but does not learn where it is.
ObjAfter_NoFix(s) ==
    [obj |-> [Obj EXCEPT ![objId[s]] = Obj[NumObjs - 1], ![NumObjs - 1] = s],
     objId  |-> [objId EXCEPT ![s] = NumObjs - 1]]

\* Object_remove: the pointers, then the indices; the one that is wiped is set last.
ObjAfter(s) ==
    [obj |-> [Obj EXCEPT ![objId[s]] = Obj[NumObjs - 1], ![NumObjs - 1] = s],
     objId  |-> [objId EXCEPT ![Obj[NumObjs - 1]] = objId[s], ![s] = NumObjs - 1]]

Removed(s) ==
    /\ Obj' = ObjAfter(s).obj
    /\ objId' = ObjAfter(s).objId

Object_remove(s) ==
    /\ ~sweep.on
    /\ s \in InUse
    /\ Removed(s)
    /\ NumObjs' = NumObjs - 1
    /\ UNCHANGED sweep

Begin ==
    /\ ~sweep.on
    /\ sweep' = [on |-> TRUE, i |-> NumObjs - 1, begin |-> InUse, seen |-> {}, twice |-> {}]
    /\ UNCHANGED <<Obj, NumObjs, objId>>

Met(s) == [sweep EXCEPT !.i = @ - 1, !.seen = @ \cup {s},
                        !.twice = @ \cup ({s} \cap sweep.seen)]

\* The object at i lives on.
SweepKeeps ==
    /\ sweep.on /\ sweep.i >= 0
    /\ sweep' = Met(Obj[sweep.i])
    /\ UNCHANGED <<Obj, NumObjs, objId>>

\* Mutant: the index is looked at again, as in a loop that goes upwards.
SweepRemoves_Again ==
    /\ sweep.on /\ sweep.i >= 0
    /\ Removed(Obj[sweep.i])
    /\ NumObjs' = NumObjs - 1
    /\ sweep' = [Met(Obj[sweep.i]) EXCEPT !.i = IF sweep.i < NumObjs - 1 THEN sweep.i ELSE @]

\* The object at i has expired.
SweepRemoves ==
    /\ sweep.on /\ sweep.i >= 0
    /\ Removed(Obj[sweep.i])
    /\ NumObjs' = NumObjs - 1
    /\ sweep' = Met(Obj[sweep.i])

\* The object at i is a ball that has expired: one is created in its box.
SweepReplaces ==
    /\ sweep.on /\ sweep.i >= 0
    /\ Removed(Obj[sweep.i])
    /\ sweep' = Met(Obj[sweep.i])
    /\ UNCHANGED NumObjs

End ==
    /\ sweep.on /\ sweep.i < 0
    /\ sweep' = [sweep EXCEPT !.on = FALSE]
    /\ UNCHANGED <<Obj, NumObjs, objId>>

PoolNext ==
    \/ Object_add
    \/ \E s \in Struct : Object_remove(s)
    \/ Begin
    \/ SweepKeeps
    \/ SweepRemoves
    \/ SweepReplaces
    \/ End

PoolSpec == PoolInit /\ [][PoolNext]_poolVars

-----------------------------------------------------------------------------
PoolTypeOK ==
    /\ Obj \in [Index -> Struct]
    /\ NumObjs \in 0 .. MaxObjects
    /\ objId \in [Struct -> Index]

\* Every structure knows its index, in use or not: no structure is lost or is in the
\* array twice, however often entries were exchanged.
IdsAreIndices ==
    /\ PoolTypeOK
    /\ \A i \in Index : objId[Obj[i]] = i
    /\ \A s \in Struct : Obj[objId[s]] = s

\* The loop looks once at every object that was there when it began, and at none of the
\* balls it adds, although removing an object puts another in its place.
SweepIsComplete ==
    sweep.on /\ sweep.i < 0 => /\ sweep.begin \subseteq sweep.seen
                               /\ sweep.twice = {}

\* The array and its index agree at every step of a loop that removes and adds objects, and
\* the loop misses none.
PoolSafe == IdsAreIndices /\ SweepIsComplete

\* The pool as others see it: the entries of array o from m on.
FreeOf(o, m) == [n \in 1 .. MaxObjects - m |-> o[m + n - 1]]

free == FreeOf(Obj, NumObjs)

Pool == INSTANCE AbstractPool

\* To others the array is a stack of free structures.  A ball that is replaced takes the
\* structure that was removed last, which shows as no step at all.
ImplementsPool == Pool!Spec
=============================================================================
