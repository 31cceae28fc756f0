---------------------------- MODULE ObjectPoolProofs ----------------------------
(***************************************************************************)
(* Proofs about ObjectPool, for pools of every size; about                 *)
(* FuelStations, for any number of clients, players who refuel and frames; *)
(* about Options, for any number of assignments; about Names, for any      *)
(* limits of their lengths and any number of players; about ShotView, for  *)
(* a map and a view of any size; and about CollisionCells, for any number  *)
(* of objects and a map of any size.                                       *)
(***************************************************************************)
EXTENDS
    ObjectPool, FuelStations, Options, Names, ShotView, CollisionCells,
    FiniteSetTheorems, SequenceTheorems, TLAPS

\* What SweepIsComplete needs: who was there and has not been looked at lies below
\* the index, and whoever was looked at does not.
SweepInv ==
    /\ sweep \in [on : BOOLEAN, i : Int, begin : SUBSET Struct, seen : SUBSET Struct,
                  twice : SUBSET Struct]
    /\ sweep.on =>
           /\ sweep.i \in -1 .. NumObjs - 1
           /\ \A s \in sweep.begin \ sweep.seen : \E j \in 0 .. sweep.i : Obj[j] = s
           /\ \A j \in 0 .. sweep.i : Obj[j] \notin sweep.seen
           /\ sweep.twice = {}

PoolInv == IdsAreIndices /\ SweepInv

\* A step of the loop, as a record.
LEMMA MetFields ==
    ASSUME SweepInv, sweep.on, sweep.i >= 0, NEW s \in Struct, s = Obj[sweep.i],
           sweep' = Met(s)
    PROVE  /\ sweep'.on = sweep.on /\ sweep'.i = sweep.i - 1
           /\ sweep'.begin = sweep.begin
           /\ sweep'.seen = sweep.seen \cup {s}
           /\ sweep'.twice = {}
           /\ sweep' \in [on : BOOLEAN, i : Int, begin : SUBSET Struct,
                          seen : SUBSET Struct, twice : SUBSET Struct]
<1>1. sweep \in [on : BOOLEAN, i : Int, begin : SUBSET Struct, seen : SUBSET Struct,
                 twice : SUBSET Struct]
  BY DEF SweepInv
<1>2. sweep.i \in 0 .. sweep.i /\ s \notin sweep.seen /\ sweep.twice = {}
  BY <1>1 DEF SweepInv
<1>3. sweep.twice \cup ({s} \cap sweep.seen) = {}
  BY <1>2
<1>4. sweep' = [sweep EXCEPT !.i = sweep.i - 1, !.seen = sweep.seen \cup {s},
                            !.twice = sweep.twice \cup ({s} \cap sweep.seen)]
  BY DEF Met
<1>5. sweep.seen \cup {s} \in SUBSET Struct /\ sweep.i - 1 \in Int
  BY <1>1
<1> QED
  BY ONLY <1>1, <1>3, <1>4, <1>5

-----------------------------------------------------------------------------
(* Exchanging an object in use with the last one.                          *)

\* The two are exchanged, every other entry stays, and the indices follow.
LEMMA RemovedExchanges ==
    ASSUME IdsAreIndices, NEW s \in Struct, objId[s] < NumObjs, Removed(s)
    PROVE  /\ objId[s] \in 0 .. NumObjs - 1 /\ NumObjs - 1 \in Index
           /\ Obj'[NumObjs - 1] = s
           /\ objId[s] # NumObjs - 1 => Obj'[objId[s]] = Obj[NumObjs - 1]
           /\ \A j \in Index \ {objId[s], NumObjs - 1} : Obj'[j] = Obj[j]
           /\ Obj' \in [Index -> Struct] /\ objId' \in [Struct -> Index]
           /\ \A j \in Index : objId'[Obj'[j]] = j
           /\ \A x \in Struct : Obj'[objId'[x]] = x
<1> DEFINE k == objId[s]
           n == NumObjs - 1
           t == Obj[n]
<1> USE PoolAssumption
<1>1. /\ Obj \in [Index -> Struct] /\ objId \in [Struct -> Index] /\ NumObjs \in 0 .. MaxObjects
      /\ \A i \in Index : objId[Obj[i]] = i
      /\ \A x \in Struct : Obj[objId[x]] = x
  BY DEF IdsAreIndices, PoolTypeOK
<1>2. k \in 0 .. n /\ n \in Index /\ k \in Index
  BY <1>1 DEF Index
<1>3. t \in Struct /\ objId[t] = n /\ Obj[k] = s
  BY <1>1, <1>2
<1>4. /\ Obj' = [[Obj EXCEPT ![k] = t] EXCEPT ![n] = s]
      /\ objId' = [[objId EXCEPT ![t] = k] EXCEPT ![s] = n]
  BY DEF Removed, ObjAfter
<1> HIDE DEF k, n, t
<1>5. /\ Obj' \in [Index -> Struct] /\ objId' \in [Struct -> Index]
      /\ Obj'[n] = s
      /\ k # n => Obj'[k] = t
      /\ \A j \in Index \ {k, n} : Obj'[j] = Obj[j]
  BY <1>1, <1>2, <1>3, <1>4
<1>6. /\ objId'[s] = n
      /\ t # s => objId'[t] = k
      /\ \A x \in Struct \ {s, t} : objId'[x] = objId[x]
  BY <1>1, <1>2, <1>3, <1>4
<1>7. k # n <=> t # s
  BY <1>1, <1>2, <1>3 DEF k
<1>8. \A j \in Index : objId'[Obj'[j]] = j
  <2> TAKE j \in Index
  <2>1. CASE j = n
    BY <2>1, <1>5, <1>6
  <2>2. CASE j = k /\ k # n
    BY <2>2, <1>5, <1>6, <1>7
  <2>3. CASE j \notin {k, n}
    <3>1. Obj'[j] = Obj[j] /\ Obj[j] \in Struct /\ objId[Obj[j]] = j
      BY <2>3, <1>1, <1>5
    <3>2. Obj[j] # s /\ Obj[j] # t
      BY <2>3, <3>1, <1>3 DEF k
    <3> QED
      BY <3>1, <3>2, <1>6
  <2> QED
    BY <2>1, <2>2, <2>3
<1>9. \A x \in Struct : Obj'[objId'[x]] = x
  <2> TAKE x \in Struct
  <2>1. CASE x = s
    BY <2>1, <1>5, <1>6
  <2>2. CASE x = t /\ t # s
    BY <2>2, <1>5, <1>6, <1>7
  <2>3. CASE x \notin {s, t}
    <3>1. objId'[x] = objId[x] /\ objId[x] \in Index /\ Obj[objId[x]] = x
      BY <2>3, <1>1, <1>6
    <3>2. objId[x] # k /\ objId[x] # n
      BY <2>3, <3>1, <1>3 DEF t
    <3> QED
      BY <3>1, <3>2, <1>5
  <2> QED
    BY <2>1, <2>2, <2>3
<1> QED
  BY <1>2, <1>5, <1>8, <1>9 DEF k, n, t

\* Objects in use are those whose index is below NumObjs.
LEMMA InUseByIndex ==
    ASSUME IdsAreIndices
    PROVE  /\ InUse \subseteq Struct
           /\ \A s \in Struct : s \in InUse <=> objId[s] < NumObjs
BY PoolAssumption DEF IdsAreIndices, PoolTypeOK, InUse, Index

-----------------------------------------------------------------------------
(* The invariant.                                                          *)

\* What an exchange does to objects below the one removed: nothing.
LEMMA RemovedIndices ==
    ASSUME IdsAreIndices, NEW s \in Struct, objId[s] < NumObjs, Removed(s),
           NumObjs' \in {NumObjs, NumObjs - 1}
    PROVE  IdsAreIndices'
<1> USE PoolAssumption
<1>1. NumObjs' \in 0 .. MaxObjects
  BY RemovedExchanges DEF IdsAreIndices, PoolTypeOK
<1> QED
  BY <1>1, RemovedExchanges DEF IdsAreIndices, PoolTypeOK, Index, Struct

LEMMA IdsInit == PoolInit => IdsAreIndices
BY PoolAssumption DEF PoolInit, IdsAreIndices, PoolTypeOK, Index, Struct

\* A step of the loop over an object that is removed, with or without a ball in exchange.
LEMMA SweepRemoval ==
    ASSUME PoolInv, sweep.on, sweep.i >= 0, Removed(Obj[sweep.i]),
           NumObjs' \in {NumObjs, NumObjs - 1}, sweep' = Met(Obj[sweep.i])
    PROVE  PoolInv'
<1> DEFINE k == sweep.i
           s == Obj[k]
<1> USE PoolAssumption
<1>1. /\ Obj \in [Index -> Struct] /\ NumObjs \in 0 .. MaxObjects
      /\ \A i \in Index : objId[Obj[i]] = i
  BY DEF PoolInv, IdsAreIndices, PoolTypeOK
<1>2. /\ sweep \in [on : BOOLEAN, i : Int, begin : SUBSET Struct, seen : SUBSET Struct,
                    twice : SUBSET Struct]
      /\ k \in 0 .. NumObjs - 1
      /\ \A x \in sweep.begin \ sweep.seen : \E j \in 0 .. k : Obj[j] = x
      /\ \A j \in 0 .. k : Obj[j] \notin sweep.seen
      /\ sweep.twice = {}
  BY DEF PoolInv, SweepInv
<1>3. k \in Index /\ s \in Struct /\ objId[s] = k
  BY <1>1, <1>2 DEF Index
<1>a. IdsAreIndices /\ objId[s] < NumObjs
  BY <1>1, <1>2, <1>3 DEF PoolInv
<1>4. IdsAreIndices'
  BY <1>a, <1>3, RemovedIndices
<1>5. \A j \in 0 .. k - 1 : Obj'[j] = Obj[j]
  <2>1. \A j \in Index \ {objId[s], NumObjs - 1} : Obj'[j] = Obj[j]
    BY <1>a, <1>3, RemovedExchanges
  <2> QED
    BY <2>1, <1>1, <1>2, <1>3 DEF Index
<1>6. /\ sweep'.on = sweep.on /\ sweep'.i = k - 1 /\ sweep'.begin = sweep.begin
      /\ sweep'.seen = sweep.seen \cup {s}
      /\ sweep'.twice = {}
      /\ sweep' \in [on : BOOLEAN, i : Int, begin : SUBSET Struct, seen : SUBSET Struct,
                     twice : SUBSET Struct]
  BY <1>2, <1>3, MetFields DEF PoolInv, SweepKeeps
<1>7. \A x \in sweep'.begin \ sweep'.seen : \E j \in 0 .. sweep'.i : Obj'[j] = x
  <2> TAKE x \in sweep'.begin \ sweep'.seen
  <2>1. PICK j \in 0 .. k : Obj[j] = x
    BY <1>2, <1>6
  <2>2. j # k
    BY <2>1, <1>6
  <2> QED
    BY <2>1, <2>2, <1>2, <1>5, <1>6
<1>8. \A j \in 0 .. sweep'.i : Obj'[j] \notin sweep'.seen
  <2> TAKE j \in 0 .. sweep'.i
  <2>1. j \in 0 .. k - 1 /\ Obj'[j] = Obj[j] /\ Obj[j] \notin sweep.seen
    BY <1>2, <1>5, <1>6
  <2>2. Obj[j] # s
    BY <2>1, <1>1, <1>2, <1>3 DEF Index
  <2> QED
    BY <2>1, <2>2, <1>6
<1>9. sweep'.i \in -1 .. NumObjs' - 1
  BY <1>1, <1>2, <1>6
<1> QED
  BY <1>4, <1>6, <1>7, <1>8, <1>9 DEF PoolInv, SweepInv

\* A step of the loop over an object that lives on.
LEMMA SweepKeeping ==
    ASSUME PoolInv, SweepKeeps
    PROVE  PoolInv'
<1> DEFINE k == sweep.i
           s == Obj[k]
<1> USE PoolAssumption
<1>1. /\ Obj \in [Index -> Struct] /\ NumObjs \in 0 .. MaxObjects
      /\ \A i \in Index : objId[Obj[i]] = i
  BY DEF PoolInv, IdsAreIndices, PoolTypeOK
<1>2. /\ sweep \in [on : BOOLEAN, i : Int, begin : SUBSET Struct, seen : SUBSET Struct,
                    twice : SUBSET Struct]
      /\ k \in 0 .. NumObjs - 1
      /\ \A x \in sweep.begin \ sweep.seen : \E j \in 0 .. k : Obj[j] = x
      /\ \A j \in 0 .. k : Obj[j] \notin sweep.seen
      /\ sweep.twice = {}
      /\ sweep' = Met(s) /\ Obj' = Obj /\ NumObjs' = NumObjs /\ objId' = objId
  BY DEF PoolInv, SweepInv, SweepKeeps
<1>3. k \in Index /\ s \in Struct
  BY <1>1, <1>2 DEF Index
<1>4. IdsAreIndices'
  BY <1>2 DEF PoolInv, IdsAreIndices, PoolTypeOK, Index, Struct
<1>5. /\ sweep'.on = sweep.on /\ sweep'.i = k - 1 /\ sweep'.begin = sweep.begin
      /\ sweep'.seen = sweep.seen \cup {s}
      /\ sweep'.twice = {}
      /\ sweep' \in [on : BOOLEAN, i : Int, begin : SUBSET Struct, seen : SUBSET Struct,
                     twice : SUBSET Struct]
  BY <1>2, <1>3, MetFields DEF PoolInv, SweepKeeps
<1>6. \A x \in sweep'.begin \ sweep'.seen : \E j \in 0 .. sweep'.i : Obj'[j] = x
  <2> TAKE x \in sweep'.begin \ sweep'.seen
  <2>1. PICK j \in 0 .. k : Obj[j] = x
    BY <1>2, <1>5
  <2> QED
    BY <2>1, <1>2, <1>5
<1>7. \A j \in 0 .. sweep'.i : Obj'[j] \notin sweep'.seen
  <2> TAKE j \in 0 .. sweep'.i
  <2>1. j \in 0 .. k - 1 /\ Obj'[j] = Obj[j] /\ Obj[j] \notin sweep.seen
    BY <1>2, <1>5
  <2>2. Obj[j] # s
    BY <2>1, <1>1, <1>2, <1>3 DEF Index
  <2> QED
    BY <2>1, <2>2, <1>5
<1>8. sweep'.i \in -1 .. NumObjs' - 1
  BY <1>1, <1>2, <1>5
<1> QED
  BY <1>4, <1>5, <1>6, <1>7, <1>8 DEF PoolInv, SweepInv

\* Everything but the loop leaves the loop's facts alone: it is not running.
LEMMA PoolStep == PoolInv /\ [PoolNext]_poolVars => PoolInv'
<1> SUFFICES ASSUME PoolInv, [PoolNext]_poolVars PROVE PoolInv'
  OBVIOUS
<1> USE PoolAssumption
<1>1. CASE Object_add
  <2>1. IdsAreIndices'
    BY <1>1 DEF PoolInv, IdsAreIndices, PoolTypeOK, Object_add, Index, Struct
  <2> QED
    BY <1>1, <2>1 DEF PoolInv, SweepInv, Object_add, Struct
<1>2. ASSUME NEW s \in Struct, Object_remove(s) PROVE PoolInv'
  <2>1. objId[s] < NumObjs
    BY <1>2, InUseByIndex DEF PoolInv, Object_remove
  <2>2. IdsAreIndices'
    BY <1>2, <2>1, RemovedIndices DEF PoolInv, Object_remove
  <2> QED
    BY <1>2, <2>2 DEF PoolInv, SweepInv, Object_remove, Struct
<1>3. CASE Begin
  <2>1. IdsAreIndices'
    BY <1>3 DEF PoolInv, IdsAreIndices, PoolTypeOK, Begin, Index, Struct
  <2>2. InUse \subseteq Struct /\ NumObjs \in 0 .. MaxObjects
    BY InUseByIndex DEF PoolInv, IdsAreIndices, PoolTypeOK
  <2> QED
    BY <1>3, <2>1, <2>2 DEF PoolInv, SweepInv, Begin, InUse, Struct
<1>4. CASE SweepKeeps
  BY <1>4, SweepKeeping
<1>5. CASE SweepRemoves
  BY <1>5, SweepRemoval DEF SweepRemoves
<1>6. CASE SweepReplaces
  BY <1>6, SweepRemoval DEF SweepReplaces
<1>7. CASE End
  <2>1. IdsAreIndices'
    BY <1>7 DEF PoolInv, IdsAreIndices, PoolTypeOK, End, Index, Struct
  <2> QED
    BY <1>7, <2>1 DEF PoolInv, SweepInv, End, Struct
<1>8. CASE UNCHANGED poolVars
  <2>1. IdsAreIndices'
    BY <1>8 DEF PoolInv, IdsAreIndices, PoolTypeOK, poolVars, Index, Struct
  <2> QED
    BY <1>8, <2>1 DEF PoolInv, SweepInv, poolVars, Struct
<1> QED
  BY <1>1, <1>2, <1>3, <1>4, <1>5, <1>6, <1>7, <1>8 DEF PoolNext

\* The inductive invariant: what the loop still has to look at are the entries up to its
\* index, which it has not seen.
THEOREM PoolInvariant == PoolSpec => []PoolInv
<1>1. PoolInit => PoolInv
  BY IdsInit DEF PoolInit, PoolInv, SweepInv
<1> QED
  BY <1>1, PoolStep, PTL DEF PoolSpec

\* Object_remove and the loop keep every structure and its index right, for pools of
\* every size.
THEOREM IdsAreAlwaysIndices == PoolSpec => []IdsAreIndices
<1>1. PoolInv => IdsAreIndices
  BY DEF PoolInv
<1> QED
  BY <1>1, PoolInvariant, PTL

\* Objects_remove_timed_out misses no object and looks at none twice.
THEOREM SweepIsAlwaysComplete == PoolSpec => []SweepIsComplete
<1>1. PoolInv => SweepIsComplete
  BY PoolAssumption DEF PoolInv, SweepInv, SweepIsComplete, IdsAreIndices, PoolTypeOK
<1> QED
  BY <1>1, PoolInvariant, PTL

\* Both at once, as the run checks them.
THEOREM PoolIsSafe == PoolSpec => []PoolSafe
<1>1. IdsAreIndices /\ SweepIsComplete => PoolSafe
  BY DEF PoolSafe
<1> QED
  BY <1>1, IdsAreAlwaysIndices, SweepIsAlwaysComplete, PTL

-----------------------------------------------------------------------------
(* The array implements the stack.                                         *)

\* The stack has the entries of the array from NumObjs on.
LEMMA FreeIsStack ==
    ASSUME NEW o \in [Index -> Struct], NEW m \in 0 .. MaxObjects
    PROVE  /\ FreeOf(o, m) \in Seq(Struct)
           /\ Len(FreeOf(o, m)) = MaxObjects - m
           /\ \A n \in 1 .. MaxObjects - m : FreeOf(o, m)[n] = o[m + n - 1]
<1> USE PoolAssumption
<1>1. MaxObjects - m \in Nat /\ \A n \in 1 .. MaxObjects - m : o[m + n - 1] \in Struct
  BY DEF Index
<1>2. FreeOf(o, m) \in [1 .. MaxObjects - m -> Struct]
  BY <1>1 DEF FreeOf
<1> QED
  BY <1>1, <1>2 DEF FreeOf

\* Taking one.
LEMMA AddTakes ==
    ASSUME IdsAreIndices, Object_add
    PROVE  Pool!Take
<1> USE PoolAssumption
<1>1. /\ NumObjs \in 0 .. MaxObjects - 1 /\ NumObjs' = NumObjs + 1
      /\ Obj' = Obj /\ Obj \in [Index -> Struct]
  BY DEF Object_add, IdsAreIndices, PoolTypeOK
<1>2. /\ free \in Seq(Struct) /\ Len(free) = MaxObjects - NumObjs
      /\ \A n \in 1 .. MaxObjects - NumObjs : free[n] = Obj[NumObjs + n - 1]
  <2>1. NumObjs \in 0 .. MaxObjects /\ free = FreeOf(Obj, NumObjs)
    BY <1>1 DEF free
  <2> QED
    BY ONLY <1>1, <2>1, FreeIsStack
<1>3. /\ free' \in Seq(Struct) /\ Len(free') = MaxObjects - NumObjs - 1
      /\ \A n \in 1 .. MaxObjects - NumObjs - 1 : free'[n] = Obj[NumObjs + n]
  <2> DEFINE m == NumObjs + 1
  <2>1. m \in 0 .. MaxObjects /\ free' = FreeOf(Obj, m)
    BY <1>1 DEF free
  <2> HIDE DEF m
  <2>2. /\ free' \in Seq(Struct) /\ Len(free') = MaxObjects - m
        /\ \A n \in 1 .. MaxObjects - m : free'[n] = Obj[m + n - 1]
    BY ONLY <1>1, <2>1, FreeIsStack
  <2> QED
    BY <1>1, <2>2 DEF m
<1>4. free # <<>>
  BY <1>1, <1>2
<1>5. /\ Tail(free) \in Seq(Struct) /\ Len(Tail(free)) = MaxObjects - NumObjs - 1
      /\ \A n \in 1 .. MaxObjects - NumObjs - 1 : Tail(free)[n] = Obj[NumObjs + n]
  BY <1>1, <1>2, <1>4, HeadTailProperties
<1>6. free' = Tail(free)
  BY <1>1, <1>3, <1>5, SeqEqual
<1> QED
  BY <1>4, <1>6 DEF Pool!Take

\* Giving one back.
LEMMA RemoveGives ==
    ASSUME IdsAreIndices, NEW s \in Struct, objId[s] < NumObjs, Removed(s),
           NumObjs' = NumObjs - 1
    PROVE  Pool!Give
<1> USE PoolAssumption
<1>1. /\ NumObjs \in 1 .. MaxObjects
      /\ Obj \in [Index -> Struct] /\ Obj' \in [Index -> Struct]
      /\ Obj'[NumObjs - 1] = s
      /\ \A j \in NumObjs .. MaxObjects - 1 : Obj'[j] = Obj[j]
      /\ \A i \in Index : objId[Obj[i]] = i
  <2>1. /\ objId[s] \in 0 .. NumObjs - 1 /\ Obj'[NumObjs - 1] = s /\ Obj' \in [Index -> Struct]
        /\ \A j \in Index \ {objId[s], NumObjs - 1} : Obj'[j] = Obj[j]
    BY RemovedExchanges
  <2>2. /\ NumObjs \in 0 .. MaxObjects /\ Obj \in [Index -> Struct]
        /\ \A i \in Index : objId[Obj[i]] = i
    BY DEF IdsAreIndices, PoolTypeOK
  <2> QED
    BY <2>1, <2>2 DEF Index
<1>2. /\ free \in Seq(Struct) /\ Len(free) = MaxObjects - NumObjs
      /\ \A n \in 1 .. MaxObjects - NumObjs : free[n] = Obj[NumObjs + n - 1]
  <2>1. NumObjs \in 0 .. MaxObjects /\ free = FreeOf(Obj, NumObjs)
    BY <1>1 DEF free
  <2> QED
    BY ONLY <1>1, <2>1, FreeIsStack
<1>3. /\ free' \in Seq(Struct) /\ Len(free') = MaxObjects - NumObjs + 1
      /\ \A n \in 1 .. MaxObjects - NumObjs + 1 : free'[n] = Obj'[NumObjs + n - 2]
  <2> DEFINE m == NumObjs - 1
  <2>1. m \in 0 .. MaxObjects /\ free' = FreeOf(Obj', m)
    BY <1>1 DEF free
  <2> HIDE DEF m
  <2>2. /\ free' \in Seq(Struct) /\ Len(free') = MaxObjects - m
        /\ \A n \in 1 .. MaxObjects - m : free'[n] = Obj'[m + n - 1]
    BY ONLY <1>1, <2>1, FreeIsStack
  <2>3. /\ MaxObjects - m = MaxObjects - NumObjs + 1
        /\ \A n \in 1 .. MaxObjects - NumObjs + 1 : m + n - 1 = NumObjs + n - 2
    BY <1>1 DEF m
  <2>4. ASSUME NEW n \in 1 .. MaxObjects - NumObjs + 1 PROVE free'[n] = Obj'[NumObjs + n - 2]
    BY <2>2, <2>3, Zenon
  <2> QED
    BY <2>2, <2>3, <2>4, Zenon
<1>4. s \notin {free[n] : n \in DOMAIN free}
  <2> SUFFICES ASSUME NEW n \in 1 .. MaxObjects - NumObjs, free[n] = s PROVE FALSE
    BY <1>2, LenProperties
  <2>1. NumObjs + n - 1 \in Index /\ objId[s] = NumObjs + n - 1
    BY <1>1, <1>2 DEF Index
  <2> QED
    BY <1>1, <2>1
<1>5. /\ <<s>> \o free \in Seq(Struct) /\ Len(<<s>> \o free) = MaxObjects - NumObjs + 1
      /\ \A n \in 1 .. MaxObjects - NumObjs + 1 :
             (<<s>> \o free)[n] = IF n = 1 THEN s ELSE free[n - 1]
  <2>1. <<s>> \in Seq(Struct) /\ Len(<<s>>) = 1 /\ <<s>>[1] = s
    OBVIOUS
  <2> QED
    BY <1>1, <1>2, <2>1, ConcatProperties
<1>6. \A n \in 1 .. MaxObjects - NumObjs + 1 : free'[n] = (<<s>> \o free)[n]
  <2> TAKE n \in 1 .. MaxObjects - NumObjs + 1
  <2>1. CASE n = 1
    BY <2>1, <1>1, <1>3, <1>5
  <2>2. CASE n # 1
    <3>1. /\ n - 1 \in 1 .. MaxObjects - NumObjs
          /\ NumObjs + n - 2 \in NumObjs .. MaxObjects - 1
          /\ NumObjs + (n - 1) - 1 = NumObjs + n - 2
      BY <2>2, <1>1
    <3>2. free'[n] = Obj[NumObjs + n - 2]
      BY ONLY <1>1, <1>3, <3>1
    <3>3. free[n - 1] = Obj[NumObjs + n - 2]
      BY <1>2, <3>1
    <3>4. (<<s>> \o free)[n] = free[n - 1]
      BY <1>5, <2>2
    <3> QED
      BY <3>2, <3>3, <3>4
  <2> QED
    BY <2>1, <2>2
<1>7. free' = <<s>> \o free
  <2> DEFINE new == <<s>> \o free
  <2>1. /\ new \in Seq(Struct) /\ Len(free') = Len(new)
        /\ \A n \in 1 .. Len(free') : free'[n] = new[n]
    BY <1>3, <1>5, <1>6
  <2> HIDE DEF new
  <2>2. free' = new
    BY ONLY <1>3, <2>1, SeqEqual
  <2> QED
    BY <2>2 DEF new
<1>8. s \in Pool!Struct
  BY DEF Pool!Struct, Struct
<1> QED
  BY <1>4, <1>7, <1>8 DEF Pool!Give

\* A ball in exchange for another: the stack is as before.
LEMMA ReplaceStutters ==
    ASSUME IdsAreIndices, NEW s \in Struct, objId[s] < NumObjs, Removed(s), NumObjs' = NumObjs
    PROVE  free' = free
<1> USE PoolAssumption
<1>1. /\ NumObjs \in 1 .. MaxObjects
      /\ Obj \in [Index -> Struct] /\ Obj' \in [Index -> Struct]
      /\ \A j \in NumObjs .. MaxObjects - 1 : Obj'[j] = Obj[j]
  <2>1. /\ objId[s] \in 0 .. NumObjs - 1 /\ Obj' \in [Index -> Struct]
        /\ \A j \in Index \ {objId[s], NumObjs - 1} : Obj'[j] = Obj[j]
    BY RemovedExchanges
  <2>2. NumObjs \in 0 .. MaxObjects /\ Obj \in [Index -> Struct]
    BY DEF IdsAreIndices, PoolTypeOK
  <2> QED
    BY <2>1, <2>2 DEF Index
<1> QED
  BY <1>1 DEF free, FreeOf

LEMMA PoolStepMaps == PoolInv /\ [PoolNext]_poolVars => [Pool!Next]_free
<1> SUFFICES ASSUME PoolInv, [PoolNext]_poolVars PROVE [Pool!Next]_free
  OBVIOUS
<1> USE PoolAssumption
<1>1. CASE Object_add
  BY <1>1, AddTakes DEF PoolInv, Pool!Next
<1>2. ASSUME NEW s \in Struct, Object_remove(s) PROVE Pool!Next
  BY <1>2, InUseByIndex, RemoveGives DEF PoolInv, Object_remove, Pool!Next
<1>3. sweep.on /\ sweep.i >= 0 => Obj[sweep.i] \in Struct /\ objId[Obj[sweep.i]] < NumObjs
  <2> SUFFICES ASSUME sweep.on, sweep.i >= 0
               PROVE  Obj[sweep.i] \in Struct /\ objId[Obj[sweep.i]] < NumObjs
    OBVIOUS
  <2>1. sweep.i \in 0 .. NumObjs - 1 /\ NumObjs \in 0 .. MaxObjects
    BY DEF PoolInv, SweepInv, IdsAreIndices, PoolTypeOK
  <2> QED
    BY <2>1 DEF PoolInv, IdsAreIndices, PoolTypeOK, Index
<1>4. CASE SweepRemoves
  BY <1>3, <1>4, RemoveGives DEF PoolInv, SweepRemoves, Pool!Next
<1>5. CASE SweepReplaces
  BY <1>3, <1>5, ReplaceStutters DEF PoolInv, SweepReplaces
<1>6. CASE Begin \/ SweepKeeps \/ End \/ UNCHANGED poolVars
  BY <1>6 DEF Begin, SweepKeeps, End, poolVars, free
<1> QED
  BY <1>1, <1>2, <1>4, <1>5, <1>6 DEF PoolNext

\* To the code that adds and removes objects the array is a stack of free structures:
\* the one that was removed last is the next to be used, as Balls takes it to be.
THEOREM ArrayImplementsPool == PoolSpec => ImplementsPool
<1>1. PoolInit => Pool!Init
  BY PoolAssumption DEF PoolInit, Pool!Init, Pool!Struct, free, FreeOf, Index
<1> QED
  BY <1>1, PoolInvariant, PoolStepMaps, PTL DEF PoolSpec, ImplementsPool, Pool!Spec

-----------------------------------------------------------------------------
(* The fuel stations.                                                      *)

\* Only the induction over numbers is used.
AnyTurn(par, c, a) == a
Loops == INSTANCE FoldTheorems WITH Turn <- AnyTurn

FuelAssumption ==
    {MAX_STATION_FUEL, Regeneration, FramesPerUpdate, REFUEL_RATE, MaxRefuels} \subseteq Nat

StationType == [fuel : 0 .. MAX_STATION_FUEL, conn_mask : SUBSET Cids, last_change : Nat]

ClientType == [in : BOOLEAN, known : 0 .. MAX_STATION_FUEL, acks : SUBSET Nat]

\* c is not told the level, or will not be when one of its acknowledgements arrives.
Counted(s, x, c) == c \in s.conn_mask \/ \E l \in x.acks : l > s.last_change

\* What a client that knows the level may have missed: what has regenerated in each loop
\* since the last change, while that is a secret.
Told(s, loops, known) ==
    /\ known <= s.fuel
    /\ s.fuel - known <= (loops - s.last_change) * Regeneration
    /\ s.fuel - known <= FramesPerUpdate * Regeneration
    /\ s.fuel = MAX_STATION_FUEL => known = s.fuel

FuelInv ==
    /\ station \in StationType
    /\ frame_loops \in Nat
    /\ station.last_change <= frame_loops
    /\ client \in [Cids -> ClientType]
    /\ \A c \in Cids : \A l \in client[c].acks : l <= frame_loops
    /\ \A c \in Playing : Counted(station, client[c], c)
                              => Told(station, frame_loops, client[c].known)

LEMMA Constants ==
    ASSUME FuelAssumption
    PROVE  /\ MAX_STATION_FUEL \in Nat /\ Regeneration \in Nat /\ FramesPerUpdate \in Nat
           /\ REFUEL_RATE \in Nat /\ MaxRefuels \in Nat
BY DEF FuelAssumption

LEMMA MinOfTwo ==
    ASSUME NEW a \in Int, NEW b \in Int
    PROVE  Min({a, b}) = IF a <= b THEN a ELSE b
<1> DEFINE m == IF a <= b THEN a ELSE b
<1>1. m \in {a, b} /\ \A y \in {a, b} : m <= y OBVIOUS
<1>2. \A x \in {a, b} : (\A y \in {a, b} : x <= y) => x = m OBVIOUS
<1> HIDE DEF m
<1>3. Min({a, b}) = m BY <1>1, <1>2 DEF Min
<1> QED BY <1>3 DEF m

\* What n loops regenerate.
LEMMA Regenerated ==
    ASSUME NEW r \in Nat, NEW n \in Nat
    PROVE  /\ n * r \in Nat
           /\ (n + 1) * r = n * r + r
           /\ \A m \in Nat : n <= m => n * r <= m * r
<1>1. n * r \in Nat /\ (n + 1) * r = n * r + r OBVIOUS
<1>2. ASSUME NEW m \in Nat, n <= m PROVE n * r <= m * r
  <2> DEFINE k == m - n
  <2>1. k \in Nat /\ m = n + k BY <1>2
  <2>2. k * r \in Nat BY <2>1
  <2>3. m * r = n * r + k * r BY <2>1
  <2> QED BY <1>1, <2>2, <2>3
<1> QED BY <1>1, <1>2

-----------------------------------------------------------------------------
(* What becomes of a station in a frame.                                   *)

Visibly(s, t) == t.conn_mask = {} /\ t.last_change = frame_loops
Silently(s, t) ==
    /\ t.conn_mask = s.conn_mask /\ t.last_change = s.last_change
    /\ s.fuel <= t.fuel /\ t.fuel <= s.fuel + Regeneration
    /\ t.fuel < MAX_STATION_FUEL
    /\ s.last_change + FramesPerUpdate > frame_loops

Later(s, t) ==
    /\ t \in StationType
    /\ t = s \/ Visibly(s, t) \/ Silently(s, t)

LEMMA UpdateLater ==
    ASSUME FuelAssumption, frame_loops \in Nat, NEW s \in StationType
    PROVE  Later(s, Update_fuel_station(s))
<1> DEFINE x == s.fuel
           y == IF x + Regeneration <= MAX_STATION_FUEL THEN x + Regeneration
                ELSE MAX_STATION_FUEL
           a == [s EXCEPT !.fuel = y]
           b == [fuel |-> y, conn_mask |-> {}, last_change |-> frame_loops]
           t == Update_fuel_station(s)
<1>1. x \in 0 .. MAX_STATION_FUEL /\ x \in Nat /\ x <= MAX_STATION_FUEL
  BY Constants DEF StationType
<1>2. Min({x + Regeneration, MAX_STATION_FUEL}) = y BY <1>1, Constants, MinOfTwo
<1>3. y \in 0 .. MAX_STATION_FUEL /\ x <= y /\ y <= x + Regeneration BY <1>1, Constants
<1>4. \/ t = s
      \/ t = a /\ y < MAX_STATION_FUEL /\ s.last_change + FramesPerUpdate > frame_loops
      \/ t = b
  BY <1>2 DEF Update_fuel_station
<1> HIDE DEF y, t
<1>5. b \in StationType /\ b.conn_mask = {} /\ b.last_change = frame_loops
  BY <1>3 DEF StationType
<1>6. /\ a \in StationType /\ a.fuel = y
      /\ a.conn_mask = s.conn_mask /\ a.last_change = s.last_change
  BY <1>3 DEF StationType
<1> HIDE DEF a, b
<1>7. Later(s, t) BY <1>1, <1>3, <1>4, <1>5, <1>6 DEF Later, Visibly, Silently
<1> QED BY <1>7 DEF t

LEMMA RefuelLater ==
    ASSUME FuelAssumption, frame_loops \in Nat, NEW s, NEW t, Later(s, t)
    PROVE  Later(s, Player_refuel_advance(t).station)
<1> DEFINE u == Player_refuel_advance(t).station
           x == t.fuel
           y == IF x > REFUEL_RATE THEN x - REFUEL_RATE ELSE 0
           b == [fuel |-> y, conn_mask |-> {}, last_change |-> frame_loops]
<1>1. t \in StationType /\ x \in 0 .. MAX_STATION_FUEL /\ x \in Nat /\ x <= MAX_STATION_FUEL
  BY Constants DEF StationType, Later
<1>2. y \in 0 .. MAX_STATION_FUEL BY <1>1, Constants
<1>3. x + (-REFUEL_RATE) = x - REFUEL_RATE /\ x + (-x) = 0 BY <1>1, Constants
<1>4. u = t \/ u = b
  <2>1. CASE x > REFUEL_RATE
    <3>1. u = Fuelstation_add_fuel(t, -REFUEL_RATE) BY <2>1 DEF Player_refuel_advance
    <3> QED BY <1>3, <2>1, <3>1 DEF Fuelstation_add_fuel
  <2>2. CASE ~(x > REFUEL_RATE)
    <3>1. u = Fuelstation_add_fuel(t, -x) BY <2>2 DEF Player_refuel_advance
    <3> QED BY <1>3, <2>2, <3>1 DEF Fuelstation_add_fuel
  <2> QED BY <2>1, <2>2
<1> HIDE DEF u, y
<1>5. b \in StationType /\ Visibly(s, b) BY <1>2 DEF StationType, Visibly
<1> HIDE DEF b
<1>6. Later(s, u) BY <1>1, <1>4, <1>5 DEF Later
<1> QED BY <1>6 DEF u

\* The loop over those who refuel: the n-th value exists and is later.
LEMMA RefuelledLater ==
    ASSUME FuelAssumption, frame_loops \in Nat, NEW s, NEW t, Later(s, t), NEW n \in Nat
    PROVE  Later(s, Refuelled(t, n))
<1> DEFINE X == {u \in StationType : Later(s, u)}
           Adv(u) == Player_refuel_advance(u).station
           Step(f, m) == [k \in 0 .. m |-> IF k = 0 THEN t ELSE Adv(f[k - 1])]
           Good == {m \in Nat : \E f \in [0 .. m -> X] : f = Step(f, m)}
           g == CHOOSE f : f = Step(f, n)
<1>1. t \in X /\ \A u \in X : Adv(u) \in X BY RefuelLater DEF Later
<1>2. Refuelled(t, n) = g[n] BY DEF Refuelled
<1> HIDE DEF X, Adv
<1>3. 0 \in Good
  <2> DEFINE f == [k \in 0 .. 0 |-> t]
  <2>1. f \in [0 .. 0 -> X] BY <1>1
  <2>2. f = Step(f, 0) OBVIOUS
  <2> QED BY <2>1, <2>2
<1>4. ASSUME NEW m \in Nat, m \in Good PROVE m + 1 \in Good
  <2>1. PICK f \in [0 .. m -> X] : f = Step(f, m) BY <1>4
  <2> DEFINE h == [k \in 0 .. m + 1 |-> IF k = m + 1 THEN Adv(f[m]) ELSE f[k]]
  <2>2. f[m] \in X BY <2>1
  <2>3. h \in [0 .. m + 1 -> X] BY <1>1, <2>1, <2>2
  <2>4. \A k \in 0 .. m : f[k] = IF k = 0 THEN t ELSE Adv(f[k - 1]) BY <2>1
  <2>5. ASSUME NEW k \in 0 .. m + 1 PROVE h[k] = IF k = 0 THEN t ELSE Adv(h[k - 1])
    <3>1. CASE k = m + 1 BY <3>1
    <3>2. CASE k \in 1 .. m
      <4>1. k - 1 \in 0 .. m /\ k \in 0 .. m /\ k # 0 /\ k # m + 1 /\ k - 1 # m + 1 BY <3>2
      <4>2. h[k - 1] = f[k - 1] /\ h[k] = f[k] BY <4>1
      <4> QED BY <2>4, <4>1, <4>2
    <3>3. CASE k = 0 BY <2>4, <3>3
    <3> QED BY <3>1, <3>2, <3>3
  <2>6. h = Step(h, m + 1) BY <2>5
  <2>7. m + 1 \in Nat OBVIOUS
  <2> HIDE DEF h, Step
  <2>8. \E e \in [0 .. m + 1 -> X] : e = Step(e, m + 1) BY <2>3, <2>6
  <2> QED BY <2>7, <2>8
<1>5. n \in Good
  <2> HIDE DEF Good
  <2> QED BY <1>3, <1>4, Loops!NumberInduction
<1>6. PICK f \in [0 .. n -> X] : f = Step(f, n) BY <1>5
<1>7. g = Step(g, n) BY <1>6
<1> HIDE DEF g
<1>8. \A k \in 0 .. n : g[k] = IF k = 0 THEN t ELSE Adv(g[k - 1]) BY <1>7
<1> DEFINE Fine == {m \in Nat : m <= n => g[m] \in X}
<1>9. 0 \in Fine BY <1>1, <1>8
<1>10. ASSUME NEW m \in Nat, m \in Fine PROVE m + 1 \in Fine
  <2>1. CASE m + 1 <= n
    <3>1. g[m] \in X /\ m + 1 \in 0 .. n /\ m + 1 - 1 = m /\ m + 1 # 0 BY <1>10, <2>1
    <3>2. g[m + 1] = Adv(g[m]) BY <1>8, <3>1
    <3> QED BY <1>1, <3>1, <3>2
  <2> QED BY <2>1
<1>11. n \in Fine
  <2> HIDE DEF Fine
  <2> QED BY <1>9, <1>10, Loops!NumberInduction
<1>12. g[n] \in X BY <1>11
<1> QED BY <1>2, <1>12 DEF X

\* Who knew the level knows it still, if it is counted among those who do.
LEMMA StillTold ==
    ASSUME FuelAssumption, FuelInv, NEW t, Later(station, t), NEW c \in Playing,
           Counted(t, client[c], c)
    PROVE  Told(t, frame_loops + 1, client[c].known)
<1> DEFINE s == station
           x == client[c].known
           n == frame_loops - s.last_change
           r == Regeneration
<1> SUFFICES Told(t, frame_loops + 1, x) OBVIOUS
<1>1. /\ s \in StationType /\ t \in StationType /\ frame_loops \in Nat
      /\ s.last_change \in Nat /\ s.fuel \in Nat /\ t.fuel \in Nat /\ n \in Nat
      /\ c \in Cids /\ client[c] \in ClientType /\ x \in Nat
      /\ \A l \in client[c].acks : l \in Nat /\ l <= frame_loops
  <2>1. /\ s \in StationType /\ t \in StationType /\ frame_loops \in Nat
        /\ s.last_change <= frame_loops /\ c \in Cids /\ client[c] \in ClientType
        /\ \A l \in client[c].acks : l <= frame_loops
    BY DEF FuelInv, Later, Playing
  <2>2. /\ s.last_change \in Nat /\ s.fuel \in 0 .. MAX_STATION_FUEL
        /\ t.fuel \in 0 .. MAX_STATION_FUEL
    BY <2>1 DEF StationType
  <2>3. x \in 0 .. MAX_STATION_FUEL /\ client[c].acks \subseteq Nat BY <2>1 DEF ClientType
  <2> HIDE DEF s, x
  <2>4. n \in Nat BY <2>1, <2>2
  <2> QED BY <2>1, <2>2, <2>3, <2>4
<1>2. /\ n * r \in Nat /\ (n + 1) * r = n * r + r
      /\ \A m \in Nat : n + 1 <= m => (n + 1) * r <= m * r
  BY <1>1, Regenerated, Constants
<1>3. ~Visibly(s, t)
  <2> SUFFICES ASSUME Visibly(s, t) PROVE FALSE OBVIOUS
  <2>1. PICK l \in client[c].acks : l > frame_loops BY DEF Counted, Visibly
  <2> QED BY <1>1, <2>1
<1>4. t.last_change = s.last_change /\ t.conn_mask = s.conn_mask
  BY <1>3 DEF Later, Silently
<1>5. Counted(s, client[c], c) BY <1>4 DEF Counted
<1>6. Told(s, frame_loops, x) BY <1>5 DEF FuelInv
<1>7. (frame_loops + 1) - t.last_change = n + 1 BY <1>1, <1>4
<1> DEFINE p0 == n * r
           p1 == (n + 1) * r
           pF == FramesPerUpdate * r
<1>8. /\ p0 \in Nat /\ p1 = p0 + r /\ r \in Nat /\ pF \in Nat
      /\ n + 1 <= FramesPerUpdate => p1 <= pF
  BY <1>1, <1>2, Regenerated, Constants
<1>9. /\ x <= s.fuel /\ s.fuel - x <= p0 /\ s.fuel - x <= pF
      /\ s.fuel = MAX_STATION_FUEL => x = s.fuel
  BY <1>6 DEF Told
<1>10. ((frame_loops + 1) - t.last_change) * Regeneration = p1 BY <1>7
<1> HIDE DEF p0, p1
<1>11. ASSUME x <= t.fuel, t.fuel - x <= p1, t.fuel - x <= pF,
              t.fuel = MAX_STATION_FUEL => x = t.fuel
       PROVE  Told(t, frame_loops + 1, x)
  <2>1. t.fuel - x <= ((frame_loops + 1) - t.last_change) * Regeneration BY <1>10, <1>11
  <2> HIDE DEF x
  <2> QED BY <1>11, <2>1 DEF Told
<1> HIDE DEF pF, s, x, n, r
<1>12. CASE t = s
  <2>1. s.fuel - x <= p1 BY <1>1, <1>8, <1>9
  <2> QED BY <1>9, <1>11, <1>12, <2>1
<1>13. CASE Silently(s, t)
  <2>1. /\ s.fuel <= t.fuel /\ t.fuel <= s.fuel + r /\ t.fuel < MAX_STATION_FUEL
        /\ s.last_change + FramesPerUpdate > frame_loops
    BY <1>13 DEF Silently, r, s
  <2>2. n + 1 <= FramesPerUpdate BY <1>1, <2>1, Constants DEF n
  <2>3. x <= t.fuel /\ t.fuel - x <= p1 BY <1>1, <1>8, <1>9, <2>1
  <2>4. t.fuel - x <= pF BY <1>1, <1>8, <2>2, <2>3
  <2>5. t.fuel # MAX_STATION_FUEL BY <1>1, <2>1, Constants
  <2> QED BY <1>11, <2>3, <2>4, <2>5
<1>14. t = s \/ Silently(s, t) BY <1>3 DEF Later, s
<1> QED BY <1>12, <1>13, <1>14

\* Who is told the level knows it.
LEMMA NowTold ==
    ASSUME FuelAssumption, NEW t \in StationType, NEW loops \in Nat, t.last_change <= loops
    PROVE  Told(t, loops, t.fuel)
<1> DEFINE n == loops - t.last_change
           x == t.fuel
<1>1. n \in Nat /\ x \in Nat BY DEF StationType
<1>2. n * Regeneration \in Nat /\ FramesPerUpdate * Regeneration \in Nat
  BY <1>1, Constants, Regenerated
<1>3. x - x = 0 /\ x <= x BY <1>1
<1> QED BY <1>2, <1>3 DEF Told

-----------------------------------------------------------------------------
(* Each step.                                                              *)

LEMMA MainLoopStep ==
    ASSUME FuelAssumption, FuelInv, NEW real \in BOOLEAN, NEW n \in 0 .. MaxRefuels,
           Main_loop_fuel(real, n)
    PROVE  FuelInv'
<1>1. /\ station \in StationType /\ frame_loops \in Nat /\ client \in [Cids -> ClientType]
      /\ station.last_change <= frame_loops /\ station.last_change \in Nat
      /\ \A c \in Cids : client[c].acks \subseteq Nat
      /\ \A c \in Cids : \A l \in client[c].acks : l <= frame_loops
  BY DEF FuelInv, StationType, ClientType
<1>2. n \in Nat BY Constants
<1>3. Later(station, station')
  <2>1. Later(station, station) BY <1>1 DEF Later
  <2>2. Later(station, Refuelled(Update_fuel_station(station), n))
    BY <1>1, <1>2, UpdateLater, RefuelledLater
  <2>3. station' = IF real THEN Refuelled(Update_fuel_station(station), n) ELSE station
    BY DEF Main_loop_fuel
  <2> QED BY <2>1, <2>2, <2>3
<1> DEFINE t == station'
           L == frame_loops'
<1>4. L = frame_loops + 1 /\ L \in Nat BY <1>1 DEF Main_loop_fuel
<1>5. t \in StationType /\ t.last_change \in {station.last_change, frame_loops}
  BY <1>3 DEF Later, Visibly, Silently
<1>6. t.last_change <= frame_loops /\ t.last_change <= L /\ t.fuel \in 0 .. MAX_STATION_FUEL
  BY <1>1, <1>4, <1>5 DEF StationType
<1>7. PICK got \in SUBSET Playing : Frame_map(t, L, got)
  <2>1. \E got \in SUBSET {c \in Playing : Cardinality(client[c].acks) < MaxAcks} :
            Frame_map(t, L, got)
    BY DEF Main_loop_fuel
  <2> QED BY <2>1
<1> HIDE DEF t, L
<1>8. ASSUME NEW c \in Cids
      PROVE  /\ client'[c] \in ClientType /\ client'[c].in = client[c].in
             /\ \A l \in client'[c].acks : l <= L
             /\ \/ client'[c] = client[c]
                \/ client'[c].known = t.fuel
  <2> DEFINE x == client[c]
             f == t.fuel
             y == [x EXCEPT !.known = f, !.acks = @ \cup {L}]
  <2>1. client'[c] = IF c \in got \ t.conn_mask THEN y ELSE x BY <1>7 DEF Frame_map
  <2>2. x \in ClientType /\ f \in 0 .. MAX_STATION_FUEL BY <1>1, <1>6
  <2>3. \A l \in x.acks : l \in Nat /\ l <= frame_loops BY <1>1
  <2> HIDE DEF x, f
  <2>4. /\ y \in ClientType /\ y.in = x.in /\ y.acks = x.acks \cup {L} /\ y.known = f
    BY <1>4, <2>2 DEF ClientType
  <2> HIDE DEF y
  <2>5. \A l \in x.acks : l <= L BY <1>1, <1>4, <2>3
  <2>6. \A l \in y.acks : l <= L BY <1>4, <2>4, <2>5
  <2> QED BY <2>1, <2>2, <2>4, <2>5, <2>6 DEF x, f
<1>9. client' \in [Cids -> ClientType]
  <2>1. client' = [c \in Cids |-> client'[c]] BY <1>7 DEF Frame_map
  <2> QED BY <1>8, <2>1
<1>10. ASSUME NEW c \in Cids, client'[c].in, Counted(t, client'[c], c)
       PROVE  Told(t, L, client'[c].known)
  <2>1. c \in Playing BY <1>8, <1>10 DEF Playing
  <2>2. CASE client'[c] = client[c]
    <3>1. Told(t, frame_loops + 1, client[c].known) BY <1>3, <1>10, <2>1, <2>2, StillTold DEF t
    <3> QED BY <1>4, <2>2, <3>1
  <2>3. CASE client'[c].known = t.fuel BY <1>4, <1>5, <1>6, <2>3, NowTold
  <2> QED BY <1>8, <2>2, <2>3
<1> QED BY <1>4, <1>5, <1>6, <1>8, <1>9, <1>10 DEF FuelInv, Playing, t, L

\* A step that changes the bits and what is on its way of one client.
LEMMA ClientStep ==
    ASSUME FuelAssumption, FuelInv, NEW c \in Cids, NEW x \in ClientType, NEW m \in SUBSET Cids,
           client' = [client EXCEPT ![c] = x],
           station' = [station EXCEPT !.conn_mask = m],
           UNCHANGED frame_loops,
           \A d \in Cids : d # c => (d \in m <=> d \in station.conn_mask),
           \A l \in x.acks : l <= frame_loops,
           x.in /\ Counted(station', x, c) => Told(station, frame_loops, x.known)
    PROVE  FuelInv'
<1>1. /\ station \in StationType /\ frame_loops \in Nat /\ client \in [Cids -> ClientType]
      /\ station.last_change <= frame_loops
      /\ \A d \in Cids : \A l \in client[d].acks : l <= frame_loops
  BY DEF FuelInv
<1> DEFINE t == station'
<1>2. /\ t \in StationType /\ t.conn_mask = m /\ t.fuel = station.fuel
      /\ t.last_change = station.last_change
  BY <1>1 DEF StationType
<1>3. client' \in [Cids -> ClientType] /\ client'[c] = x /\ \A d \in Cids : d # c => client'[d] = client[d]
  BY <1>1
<1> HIDE DEF t
<1>4. \A k : Told(station, frame_loops, k) => Told(t, frame_loops, k) BY <1>2 DEF Told
<1>5. ASSUME NEW d \in Cids, client'[d].in, Counted(t, client'[d], d)
      PROVE  Told(t, frame_loops, client'[d].known)
  <2>1. CASE d = c BY <1>3, <1>4, <1>5, <2>1 DEF t
  <2>2. CASE d # c
    <3>1. client'[d] = client[d] /\ d \in Playing BY <1>3, <1>5, <2>2 DEF Playing
    <3>2. Counted(station, client[d], d) BY <1>2, <1>5, <2>2, <3>1 DEF Counted
    <3>3. Told(station, frame_loops, client[d].known) BY <3>1, <3>2 DEF FuelInv
    <3> QED BY <1>4, <3>1, <3>3
  <2> QED BY <2>1, <2>2
<1>6. \A d \in Cids : \A l \in client'[d].acks : l <= frame_loops BY <1>1, <1>3
<1> QED BY <1>1, <1>2, <1>3, <1>5, <1>6 DEF FuelInv, Playing, t

LEMMA FuelStep ==
    ASSUME FuelAssumption, FuelInv, FuelNext
    PROVE  FuelInv'
<1>1. /\ station \in StationType /\ frame_loops \in Nat /\ client \in [Cids -> ClientType]
      /\ station.last_change <= frame_loops
      /\ \A c \in Cids : \A l \in client[c].acks : l <= frame_loops
  BY DEF FuelInv
<1>2. /\ station.conn_mask \in SUBSET Cids
      /\ station = [station EXCEPT !.conn_mask = station.conn_mask]
  BY <1>1 DEF StationType
<1>3. ASSUME NEW real \in BOOLEAN, NEW n \in 0 .. MaxRefuels, Main_loop_fuel(real, n)
      PROVE  FuelInv'
  BY <1>3, MainLoopStep
<1>4. ASSUME NEW c \in Cids, Handle_login(c) PROVE FuelInv'
  <2> DEFINE x == [in |-> TRUE, known |-> MAX_STATION_FUEL, acks |-> {}]
             m == MaskOfNew(c)
  <2>1. x \in ClientType BY Constants DEF ClientType
  <2>2. m \in SUBSET Cids /\ \A d \in Cids : d # c => (d \in m <=> d \in station.conn_mask)
    BY <1>2 DEF MaskOfNew
  <2>3. c \in m => station.fuel = MAX_STATION_FUEL BY DEF MaskOfNew
  <2>4. client' = [client EXCEPT ![c] = x] /\ station' = [station EXCEPT !.conn_mask = m]
        /\ UNCHANGED frame_loops
    BY <1>4 DEF Handle_login
  <2>5. station'.conn_mask = m BY <1>1, <2>4 DEF StationType
  <2>6. x.acks = {} /\ x.known = MAX_STATION_FUEL OBVIOUS
  <2> HIDE DEF x, m
  <2>7. Counted(station', x, c) => Told(station, frame_loops, x.known)
    <3> SUFFICES ASSUME c \in m PROVE Told(station, frame_loops, x.known)
        BY <2>5, <2>6 DEF Counted
    <3> QED BY <1>1, <2>3, <2>6, NowTold
  <2>8. \A l \in x.acks : l <= frame_loops BY <2>6
  <2> QED BY <2>1, <2>2, <2>4, <2>7, <2>8, ClientStep
<1>5. ASSUME NEW c \in Cids, Destroy_connection_fuel(c) PROVE FuelInv'
  <2> DEFINE x == [in |-> FALSE, known |-> 0, acks |-> {}]
  <2>1. x \in ClientType BY Constants DEF ClientType
  <2>2. client' = [client EXCEPT ![c] = x] /\ station' = station /\ UNCHANGED frame_loops
    BY <1>5 DEF Destroy_connection_fuel
  <2>3. ~x.in /\ \A l \in x.acks : l <= frame_loops OBVIOUS
  <2> HIDE DEF x
  <2> QED BY <1>2, <2>1, <2>2, <2>3, ClientStep
<1>6. ASSUME NEW c \in Cids, NEW l \in client[c].acks, NEW a \in SUBSET client[c].acks,
             client' = [client EXCEPT ![c].acks = a], UNCHANGED frame_loops,
             \/ station' = station
             \/ AckCounts(l) /\ station' = [station EXCEPT !.conn_mask = @ \cup {c}]
      PROVE  FuelInv'
  <2> DEFINE y == client[c]
             x == [y EXCEPT !.acks = a]
  <2>1. y \in ClientType BY <1>1
  <2>2. client' = [client EXCEPT ![c] = x] BY <1>1, <1>6
  <2>3. \A k \in y.acks : k <= frame_loops BY <1>1
  <2>4. a \subseteq y.acks /\ l \in y.acks BY <1>6
  <2> HIDE DEF y
  <2>5. x \in ClientType /\ x.acks = a /\ x.in = y.in /\ x.known = y.known
    BY <2>1, <2>4 DEF ClientType
  <2> HIDE DEF x
  <2>6. PICK m \in SUBSET Cids :
            /\ station' = [station EXCEPT !.conn_mask = m]
            /\ \/ m = station.conn_mask
               \/ AckCounts(l) /\ m = station.conn_mask \cup {c}
    <3>1. CASE station' = station BY <1>2, <3>1
    <3>2. CASE /\ AckCounts(l)
               /\ station' = [station EXCEPT !.conn_mask = @ \cup {c}]
      <4>1. station.conn_mask \cup {c} \in SUBSET Cids BY <1>2
      <4> QED BY <3>2, <4>1
    <3> QED BY <1>6, <3>1, <3>2
  <2>7. station'.conn_mask = m /\ station'.last_change = station.last_change
    BY <1>1, <2>6 DEF StationType
  <2>8. x.in /\ Counted(station', x, c) => Told(station, frame_loops, x.known)
    <3> SUFFICES ASSUME x.in, Counted(station', x, c)
                 PROVE  Told(station, frame_loops, x.known)
        OBVIOUS
    <3>1. Counted(station, y, c) BY <2>4, <2>5, <2>6, <2>7 DEF Counted, AckCounts
    <3>2. c \in Playing BY <2>5 DEF Playing, y
    <3> QED BY <2>5, <3>1, <3>2 DEF FuelInv, y
  <2>9. \A k \in x.acks : k <= frame_loops BY <2>3, <2>4, <2>5
  <2>10. \A d \in Cids : d # c => (d \in m <=> d \in station.conn_mask) BY <2>6
  <2> QED BY <1>6, <2>2, <2>5, <2>6, <2>8, <2>9, <2>10, ClientStep
<1>7. ASSUME NEW c \in Cids, NEW l \in client[c].acks, Receive_ack_fuel(c, l) PROVE FuelInv'
  <2>1. PICK a \in SUBSET client[c].acks : client' = [client EXCEPT ![c].acks = a]
    <3>1. PICK again \in BOOLEAN :
              client' = [client EXCEPT ![c].acks = IF again THEN @ ELSE @ \ {l}]
      BY <1>7 DEF Receive_ack_fuel
    <3> DEFINE a == IF again THEN client[c].acks ELSE client[c].acks \ {l}
    <3>2. client' = [client EXCEPT ![c].acks = a] BY <3>1
    <3>3. a \in SUBSET client[c].acks OBVIOUS
    <3> QED BY <3>2, <3>3
  <2> QED BY <1>6, <1>7, <2>1 DEF Receive_ack_fuel
<1>8. ASSUME NEW c \in Cids, NEW l \in client[c].acks, LoseAck(c, l) PROVE FuelInv'
  <2> DEFINE a == client[c].acks \ {l}
  <2>1. client' = [client EXCEPT ![c].acks = a] /\ station' = station /\ UNCHANGED frame_loops
    BY <1>8 DEF LoseAck
  <2>2. a \in SUBSET client[c].acks OBVIOUS
  <2> QED BY <1>6, <2>1, <2>2
<1> QED BY <1>3, <1>4, <1>5, <1>7, <1>8 DEF FuelNext

-----------------------------------------------------------------------------

\* A client whose bit of conn_mask is set knows the level, or what it was at most so many
\* frames of silent regeneration ago, whichever of its acknowledgements come when, or for
\* the client that had the connection before; and it always knows that a station is full.
THEOREM TheLevelIsKnown ==
    ASSUME FuelAssumption
    PROVE  FuelSpec => []LevelIsKnown
<1>1. FuelInit => FuelInv
  <2> SUFFICES ASSUME FuelInit PROVE FuelInv OBVIOUS
  <2>1. station \in StationType /\ station.last_change = 0 /\ frame_loops = 1
    BY Constants DEF FuelInit, StationType
  <2>2. client \in [Cids -> ClientType] BY Constants DEF FuelInit, ClientType
  <2>3. \A c \in Cids : client[c].acks = {} /\ ~client[c].in BY DEF FuelInit
  <2> QED BY <2>1, <2>2, <2>3 DEF FuelInv, Playing
<1>2. FuelInv /\ [FuelNext]_fuelVars => FuelInv'
  <2>1. CASE UNCHANGED fuelVars
    BY <2>1 DEF fuelVars, FuelInv, Playing, Counted, Told
  <2> QED BY <2>1, FuelStep
<1>3. FuelInv => LevelIsKnown
  <2> SUFFICES ASSUME FuelInv, NEW c \in Playing \cap station.conn_mask
               PROVE  /\ station.fuel - client[c].known \in 0 .. FramesPerUpdate * Regeneration
                      /\ station.fuel = MAX_STATION_FUEL => client[c].known = station.fuel
      BY DEF LevelIsKnown
  <2>1. Told(station, frame_loops, client[c].known) BY DEF FuelInv, Counted
  <2>2. station.fuel \in 0 .. MAX_STATION_FUEL /\ client[c].known \in 0 .. MAX_STATION_FUEL
    BY DEF FuelInv, Playing, StationType, ClientType
  <2>3. FramesPerUpdate * Regeneration \in Nat BY Constants, Regenerated
  <2> DEFINE b == FramesPerUpdate * Regeneration
             x == station.fuel
             y == client[c].known
  <2>4. x - y <= b /\ y <= x /\ x \in Nat /\ y \in Nat /\ b \in Nat
    BY <2>1, <2>2, <2>3, Constants DEF Told
  <2> HIDE DEF b, x, y
  <2>5. x - y \in 0 .. b BY <2>4
  <2> QED BY <2>1, <2>5 DEF Told, b, x, y
<1> QED BY <1>1, <1>2, <1>3, PTL DEF FuelSpec

-----------------------------------------------------------------------------
(* Options.                                                                *)

Assignment == [origin : Origins, override : BOOLEAN, converts : BOOLEAN]

OptType ==
    /\ phase \in Origins \cup {OPT_INIT, "expand", "game"}
    /\ macro \in Origins \cup {OPT_INIT} /\ said \in Seq(Assignment)

\* The assignments that count, and how strong one is: 1 is the strongest.
Counting == {k \in DOMAIN said : said[k].origin \in flags}

Level(a) ==
    IF a.origin = OPT_COMMAND THEN 1
    ELSE IF a.origin = OPT_PASSWORD THEN 2
    ELSE IF a.origin = OPT_DEFAULTS /\ a.override THEN 3
    ELSE IF a.origin = OPT_MAP THEN 4
    ELSE 5

\* Assignment a, the k-th, prevails over b, the j-th.
Beats(a, k, b, j) ==
    \/ Level(a) < Level(b)
    \/ /\ Level(a) = Level(b)
       /\ IF Level(a) = 1 THEN k > j
          ELSE IF a.override THEN b.override => k < j
          ELSE ~b.override /\ k > j

Prevails(k) == k \in Counting /\ \A j \in Counting \ {k} : Beats(said[k], k, said[j], j)

\* The node has the assignment that prevails over all others so far.
NodeFits ==
    \/ /\ Counting = {}
       /\ node = [value |-> 0, override |-> FALSE, origin |-> OPT_INIT]
    \/ \E k \in Counting :
           /\ Prevails(k)
           /\ node = [value |-> k, override |-> said[k].override, origin |-> said[k].origin]

OptInv ==
    /\ OptType /\ NodeFits /\ StrongestWins
    /\ phase = OPT_INIT => said = <<>>

\* A later assignment is taken if it prevails over the one that is there, and otherwise
\* that one prevails over it.
LEMMA TakenIfStronger ==
    ASSUME NEW a \in Assignment, NEW b \in Assignment, NEW k \in Nat, NEW n \in Nat, k < n,
           node = [value |-> k, override |-> b.override, origin |-> b.origin]
    PROVE  IF MaySet(a.origin, a.override) THEN Beats(a, n, b, k) ELSE Beats(b, k, a, n)
<1>1. node.origin = b.origin /\ node.override = b.override OBVIOUS
<1>2. a.origin \in Origins /\ b.origin \in Origins /\ a.override \in BOOLEAN /\ b.override \in BOOLEAN
    BY DEF Assignment
<1>3. ~(n < k) OBVIOUS
<1>4. ASSUME NEW e \in Assignment
      PROVE  /\ e.origin = OPT_COMMAND => Level(e) = 1
             /\ e.origin = OPT_PASSWORD => Level(e) = 2
             /\ e.origin = OPT_DEFAULTS => Level(e) = IF e.override THEN 3 ELSE 5
             /\ e.origin = OPT_MAP => Level(e) = 4
    BY OptAssumption DEF Level
<1>5. MaySet(a.origin, a.override) <=>
        \/ a.origin = OPT_COMMAND
        \/ a.origin = OPT_DEFAULTS /\ b.origin = OPT_DEFAULTS /\ ~b.override
        \/ a.origin = OPT_DEFAULTS /\ b.origin = OPT_MAP /\ a.override
        \/ a.origin = OPT_MAP /\ b.origin \in {OPT_DEFAULTS, OPT_MAP} /\ ~b.override
        \/ a.origin = OPT_PASSWORD /\ b.origin \in {OPT_DEFAULTS, OPT_MAP}
        \/ a.origin = OPT_PASSWORD /\ b.origin = OPT_PASSWORD /\ ~b.override
    BY <1>1, <1>2, OptAssumption DEF MaySet, Origins
<1> DEFINE la == Level(a)
           lb == Level(b)
<1>6. /\ Beats(a, n, b, k) <=> la < lb \/ (la = lb /\ (IF la = 1 THEN n > k
                                   ELSE IF a.override THEN b.override => n < k ELSE ~b.override /\ n > k))
      /\ Beats(b, k, a, n) <=> lb < la \/ (lb = la /\ (IF lb = 1 THEN k > n
                                   ELSE IF b.override THEN a.override => k < n ELSE ~a.override /\ k > n))
    BY DEF Beats
<1>7. a.origin \in {OPT_COMMAND, OPT_PASSWORD, OPT_DEFAULTS, OPT_MAP}
      /\ b.origin \in {OPT_COMMAND, OPT_PASSWORD, OPT_DEFAULTS, OPT_MAP}
    BY <1>2 DEF Origins
<1>8. /\ a.origin = OPT_COMMAND => la = 1
      /\ a.origin = OPT_PASSWORD => la = 2
      /\ a.origin = OPT_DEFAULTS => la = IF a.override THEN 3 ELSE 5
      /\ a.origin = OPT_MAP => la = 4
      /\ b.origin = OPT_COMMAND => lb = 1
      /\ b.origin = OPT_PASSWORD => lb = 2
      /\ b.origin = OPT_DEFAULTS => lb = IF b.override THEN 3 ELSE 5
      /\ b.origin = OPT_MAP => lb = 4
    BY <1>4
<1> HIDE DEF la, lb
<1>9. CASE a.origin = OPT_COMMAND BY <1>5, <1>6, <1>7, <1>8, <1>9, OptAssumption
<1>10. CASE a.origin = OPT_PASSWORD BY <1>3, <1>5, <1>6, <1>7, <1>8, <1>10, OptAssumption
<1>11. CASE a.origin = OPT_DEFAULTS BY <1>3, <1>5, <1>6, <1>7, <1>8, <1>11, OptAssumption
<1>12. CASE a.origin = OPT_MAP BY <1>3, <1>5, <1>6, <1>7, <1>8, <1>12, OptAssumption
<1> QED BY <1>7, <1>9, <1>10, <1>11, <1>12

\* What prevails over the strongest prevails over all.
LEMMA BeatsOn ==
    ASSUME NEW a \in Assignment, NEW b \in Assignment, NEW e \in Assignment,
           NEW n \in Nat, NEW k \in Nat, NEW j \in Nat, k < n,
           Beats(a, n, b, k), Beats(b, k, e, j)
    PROVE  Beats(a, n, e, j)
<1> DEFINE la == Level(a)
           lb == Level(b)
           le == Level(e)
<1>1. la \in Int /\ lb \in Int /\ le \in Int BY DEF Level
<1>2. /\ la < lb \/ (la = lb /\ (IF la = 1 THEN n > k
                                 ELSE IF a.override THEN b.override => n < k ELSE ~b.override /\ n > k))
      /\ lb < le \/ (lb = le /\ (IF lb = 1 THEN k > j
                                 ELSE IF b.override THEN e.override => k < j ELSE ~e.override /\ k > j))
    BY DEF Beats
<1>3. Beats(a, n, e, j) <=> la < le \/ (la = le /\ (IF la = 1 THEN n > j
                                 ELSE IF a.override THEN e.override => n < j ELSE ~e.override /\ n > j))
    BY DEF Beats
<1> HIDE DEF la, lb, le
<1> QED BY <1>1, <1>2, <1>3

LEMMA AssignmentKeeps ==
    ASSUME OptType, NodeFits, NEW origin \in Origins, NEW override \in BOOLEAN,
           Option_set_value(origin, override), flags' = flags
    PROVE  said' \in Seq(Assignment) /\ NodeFits'
<1> DEFINE n == Len(said) + 1
<1>1. PICK converts \in BOOLEAN :
          said' = Append(said, [origin |-> origin, override |-> override, converts |-> converts])
    BY DEF Option_set_value
<1> DEFINE a == [origin |-> origin, override |-> override, converts |-> converts]
<1>2. /\ a \in Assignment /\ a.origin = origin /\ a.override = override BY DEF Assignment
<1>3. said' = Append(said, a) BY <1>1
<1> HIDE DEF a
<1>4. /\ said' \in Seq(Assignment) /\ Len(said') = n /\ said'[n] = a /\ n \in Nat
      /\ DOMAIN said' = DOMAIN said \cup {n} /\ n \notin DOMAIN said
      /\ \A k \in DOMAIN said : said'[k] = said[k] /\ k \in Nat /\ k < n /\ said[k] \in Assignment
    BY <1>2, <1>3 DEF OptType
<1> DEFINE set == [value |-> n, override |-> override, origin |-> origin]
<1>5. node' = IF origin \in flags /\ MaySet(origin, override) THEN set ELSE node
  <2>1. Len(said') = n BY <1>4
  <2> QED BY <2>1 DEF Option_set_value
<1> HIDE DEF n
<1>6. Counting' = IF origin \in flags THEN Counting \cup {n} ELSE Counting
    BY <1>2, <1>4 DEF Counting
<1>7. Counting \subseteq DOMAIN said BY DEF Counting
<1>8. CASE origin \notin flags
  <2>1. Counting' = Counting /\ node' = node BY <1>5, <1>6, <1>8
  <2>2. ASSUME NEW k \in Counting, Prevails(k) PROVE Prevails(k)' /\ said'[k] = said[k]
      BY <1>4, <1>7, <2>1, <2>2 DEF Prevails
  <2> QED BY <1>4, <2>1, <2>2 DEF NodeFits
<1>9. CASE origin \in flags /\ Counting = {}
  <2>1. node.origin = OPT_INIT BY <1>9 DEF NodeFits
  <2>2. node' = set BY <1>5, <1>9, <2>1 DEF MaySet
  <2>3. Counting' = {n} BY <1>6, <1>9
  <2> QED BY <1>2, <1>4, <2>2, <2>3 DEF NodeFits, Prevails
<1>10. CASE origin \in flags /\ Counting # {}
  <2>1. PICK k \in Counting :
            /\ Prevails(k)
            /\ node = [value |-> k, override |-> said[k].override, origin |-> said[k].origin]
      BY <1>10 DEF NodeFits
  <2>2. /\ k \in DOMAIN said /\ k \in Nat /\ k < n /\ said[k] \in Assignment /\ said'[k] = said[k]
      BY <1>4, <1>7, <2>1
  <2>3. IF MaySet(origin, override) THEN Beats(a, n, said[k], k) ELSE Beats(said[k], k, a, n)
      BY <1>2, <1>4, <2>1, <2>2, TakenIfStronger
  <2>4. CASE MaySet(origin, override)
    <3>1. node' = set BY <1>5, <1>10, <2>4
    <3>2. ASSUME NEW j \in Counting PROVE Beats(a, n, said[j], j)
      <4>1. j = k \/ Beats(said[k], k, said[j], j) BY <2>1 DEF Prevails
      <4> QED BY <1>2, <1>4, <1>7, <2>2, <2>3, <2>4, <4>1, BeatsOn
    <3>3. PICK i : i = n OBVIOUS
    <3>4. /\ Counting' = Counting \cup {i} /\ said'[i] = a /\ i \notin Counting
          /\ \A j \in Counting : said'[j] = said[j]
      BY <1>2, <1>4, <1>6, <1>7, <1>10, <3>3
    <3>5. Prevails(i)'
      <4>1. Prevails(i)' <=> i \in Counting' /\ \A j \in Counting' \ {i} : Beats(said'[i], i, said'[j], j)
          BY DEF Prevails, Beats
      <4>2. \A j \in Counting' \ {i} : j \in Counting /\ said'[j] = said[j] BY <3>4
      <4>3. \A j \in Counting' \ {i} : Beats(said'[i], i, said'[j], j) BY <3>2, <3>3, <3>4, <4>2
      <4> QED BY <3>4, <4>1, <4>3
    <3>6. node' = [value |-> i, override |-> said'[i].override, origin |-> said'[i].origin]
      BY <1>2, <3>1, <3>3, <3>4
    <3>7. i \in Counting' BY <3>4
    <3>8. \E j \in Counting' :
              /\ Prevails(j)'
              /\ node' = [value |-> j, override |-> said'[j].override, origin |-> said'[j].origin]
      <4> WITNESS i \in Counting'
      <4> QED BY <3>5, <3>6
    <3> QED BY <1>4, <3>8 DEF NodeFits
  <2>5. CASE ~MaySet(origin, override)
    <3>1. node' = node BY <1>5, <2>5
    <3>2. Prevails(k)' BY <1>4, <1>6, <1>7, <1>10, <2>1, <2>2, <2>3, <2>5 DEF Prevails
    <3> QED BY <1>4, <1>6, <1>10, <2>1, <2>2, <3>1, <3>2 DEF NodeFits
  <2> QED BY <2>4, <2>5
<1> QED BY <1>4, <1>8, <1>9, <1>10

\* Winner, which is defined by sets of assignments, is the one that prevails.
LEMMA WinnerPrevails ==
    ASSUME OptType, NEW k, Prevails(k)
    PROVE  Winner = k
<1> DEFINE of == Ranks
           level == Level(said[k])
           Fit(n) == /\ n <= 5 => Ranks[n] # {}
                     /\ \A m \in 1 .. (n - 1) : Ranks[m] = {}
<1>1. /\ k \in Counting /\ Counting \subseteq DOMAIN said /\ DOMAIN said \subseteq Nat
      /\ \A j \in Counting : said[j] \in Assignment /\ j \in Nat
  <2>1. Counting \subseteq DOMAIN said BY DEF Counting
  <2>2. \A j \in DOMAIN said : said[j] \in Assignment /\ j \in Nat BY DEF OptType
  <2> QED BY <2>1, <2>2 DEF Prevails
<1>2. ASSUME NEW j \in Counting
      PROVE  /\ Level(said[j]) \in 1 .. 5
             /\ said[j].origin = OPT_COMMAND <=> Level(said[j]) = 1
             /\ said[j].origin = OPT_PASSWORD <=> Level(said[j]) = 2
             /\ (said[j].origin = OPT_DEFAULTS /\ said[j].override) <=> Level(said[j]) = 3
             /\ said[j].origin = OPT_MAP <=> Level(said[j]) = 4
             /\ (said[j].origin = OPT_DEFAULTS /\ ~said[j].override) <=> Level(said[j]) = 5
  <2>1. said[j].origin \in {OPT_COMMAND, OPT_PASSWORD, OPT_DEFAULTS, OPT_MAP}
      BY <1>1 DEF Assignment, Origins
  <2> QED BY <2>1, OptAssumption DEF Level
<1>3. /\ Ranks[1] = {j \in Counting : Level(said[j]) = 1}
      /\ Ranks[2] = {j \in Counting : Level(said[j]) = 2}
      /\ Ranks[3] = {j \in Counting : Level(said[j]) = 3}
      /\ Ranks[4] = {j \in Counting : Level(said[j]) = 4}
      /\ Ranks[5] = {j \in Counting : Level(said[j]) \in {3, 5}}
  <2>1. Ranks[1] = {j \in Counting : said[j].origin = OPT_COMMAND} BY DEF Ranks, Counting
  <2>2. Ranks[2] = {j \in Counting : said[j].origin = OPT_PASSWORD} BY DEF Ranks, Counting
  <2>3. Ranks[3] = {j \in Counting : said[j].origin = OPT_DEFAULTS /\ said[j].override}
      BY DEF Ranks, Counting
  <2>4. Ranks[4] = {j \in Counting : said[j].origin = OPT_MAP} BY DEF Ranks, Counting
  <2>5. Ranks[5] = {j \in Counting : said[j].origin = OPT_DEFAULTS} BY DEF Ranks, Counting
  <2>6. \A j \in Counting : said[j].override \in BOOLEAN BY <1>1 DEF Assignment
  <2> QED BY <1>2, <2>1, <2>2, <2>3, <2>4, <2>5, <2>6
<1>4. level \in 1 .. 5 BY <1>1, <1>2
<1>5. ASSUME NEW j \in Counting, j # k
      PROVE  /\ level <= Level(said[j])
             /\ level = Level(said[j]) =>
                    IF level = 1 THEN k > j
                    ELSE IF said[k].override THEN said[j].override => k < j
                    ELSE ~said[j].override /\ k > j
  <2>1. Beats(said[k], k, said[j], j) BY <1>5 DEF Prevails
  <2>2. Level(said[j]) \in Int /\ level \in Int BY <1>2, <1>4
  <2> QED BY <2>1, <2>2 DEF Beats
<1>6. \A j \in Counting : level <= Level(said[j]) BY <1>4, <1>5
<1>7. k \in Ranks[level] /\ \A m \in 1 .. (level - 1) : Ranks[m] = {}
  <2>1. level = 1 \/ level = 2 \/ level = 3 \/ level = 4 \/ level = 5 BY <1>4
  <2> HIDE DEF level
  <2>2. k \in Counting /\ Level(said[k]) = level BY <1>1 DEF level
  <2>3. k \in Ranks[level] BY <1>3, <2>1, <2>2
  <2>4. ASSUME NEW m \in 1 .. (level - 1) PROVE Ranks[m] = {}
    <3>1. m = 1 \/ m = 2 \/ m = 3 \/ m = 4 BY <2>1
    <3>2. Ranks[m] = {j \in Counting : Level(said[j]) = m} BY <1>3, <3>1
    <3>3. \A j \in Counting : Level(said[j]) # m BY <1>2, <1>6, <2>1
    <3> QED BY <3>2, <3>3
  <2> QED BY <2>3, <2>4
<1>8. (CHOOSE n \in 1 .. 6 : Fit(n)) = level
  <2>1. level \in 1 .. 6 /\ Fit(level) BY <1>4, <1>7
  <2>2. ASSUME NEW n \in 1 .. 6, Fit(n) PROVE n = level
    <3> HIDE DEF level
    <3>1. ~(n < level)
      <4> SUFFICES ASSUME n < level PROVE FALSE OBVIOUS
      <4>1. n \in 1 .. (level - 1) /\ n <= 5 BY <1>4
      <4> QED BY <1>7, <2>2, <4>1
    <3>2. ~(level < n)
      <4> SUFFICES ASSUME level < n PROVE FALSE OBVIOUS
      <4>1. level \in 1 .. (n - 1) BY <1>4
      <4> QED BY <1>7, <2>2, <4>1
    <3> QED BY <1>4, <3>1, <3>2
  <2>3. \E n \in 1 .. 6 : Fit(n) BY <2>1
  <2> HIDE DEF Fit, level
  <2>4. (CHOOSE n \in 1 .. 6 : Fit(n)) \in 1 .. 6 /\ Fit(CHOOSE n \in 1 .. 6 : Fit(n))
      BY <2>3
  <2> QED BY <2>2, <2>4
<1> DEFINE over == {j \in Ranks[level] : said[j].override}
<1>9. Winner = IF level = 6 THEN 0 ELSE IF level > 1 /\ over # {} THEN Min(over) ELSE Max(Ranks[level])
  <2> DEFINE r == CHOOSE n \in 1 .. 6 : Fit(n)
  <2>1. r = level BY <1>8
  <2>2. Winner = IF r = 6 THEN 0
                 ELSE IF r > 1 /\ {j \in Ranks[r] : said[j].override} # {}
                      THEN Min({j \in Ranks[r] : said[j].override}) ELSE Max(Ranks[r])
      BY Zenon DEF Winner
  <2> HIDE DEF Fit, level, r
  <2> QED BY <2>1, <2>2
<1>10. \A j \in Ranks[level] :
           /\ j \in Counting
           /\ level # 5 => Level(said[j]) = level
           /\ level = 5 => ~said[j].override /\ Level(said[j]) = 5
  <2>1. level = 1 \/ level = 2 \/ level = 3 \/ level = 4 \/ level = 5 BY <1>4
  <2> HIDE DEF level
  <2>2. ASSUME level # 5 PROVE Ranks[level] = {j \in Counting : Level(said[j]) = level}
      BY <1>3, <2>1, <2>2
  <2>3. ASSUME level = 5, NEW j \in Ranks[5]
        PROVE  j \in Counting /\ ~said[j].override /\ Level(said[j]) = 5
    <3>1. j \in Counting /\ Level(said[j]) \in {3, 5} BY <1>3
    <3>2. Level(said[j]) = 5 BY <1>6, <2>3, <3>1
    <3> QED BY <1>2, <3>1, <3>2
  <2> QED BY <2>2, <2>3
<1>11. \A j \in Ranks[level] : j \in Counting /\ Level(said[j]) = level /\ j \in Nat
    BY <1>1, <1>10
<1> HIDE DEF level
<1>12. CASE level > 1 /\ over # {}
  <2>1. said[k].override
    <3>1. PICK j \in over : TRUE BY <1>12
    <3> QED BY <1>4, <1>5, <1>11, <1>12, <3>1
  <2>2. k \in over /\ \A j \in over : j \in Nat /\ k <= j
    <3>1. ASSUME NEW j \in over, j # k PROVE j \in Nat /\ k <= j
      <4>1. j \in Counting /\ level = Level(said[j]) /\ said[j].override /\ j \in Nat
          BY <1>11
      <4>2. k < j BY <1>4, <1>5, <1>12, <2>1, <3>1, <4>1
      <4> QED BY <1>1, <4>1, <4>2
    <3> QED BY <1>1, <1>7, <2>1, <3>1
  <2>3. Winner = Min(over) BY <1>4, <1>9, <1>12
  <2> HIDE DEF over
  <2> QED BY <2>2, <2>3 DEF Min
<1>13. CASE ~(level > 1 /\ over # {})
  <2>1. ASSUME NEW j \in Ranks[level], j # k PROVE k >= j
    <3>1. j \in Counting /\ Level(said[j]) = level /\ j \in Nat /\ k \in Ranks[level] /\ k \in Nat
        BY <1>1, <1>7, <1>11
    <3>2. level # 1 => ~said[k].override /\ ~said[j].override BY <1>4, <1>13, <3>1
    <3> QED BY <1>5, <2>1, <3>1, <3>2
  <2>2. Winner = Max(Ranks[level]) BY <1>4, <1>9, <1>13
  <2>3. k \in Ranks[level] /\ \A j \in Ranks[level] : j \in Nat /\ k >= j
      BY <1>1, <1>7, <1>11, <2>1
  <2> DEFINE S == Ranks[level]
  <2> HIDE DEF S
  <2>4. k \in S /\ \A j \in S : j \in Nat /\ k >= j BY <2>3 DEF S
  <2>5. Max(S) = k BY <2>4 DEF Max
  <2> QED BY <2>2, <2>5 DEF S
<1> QED BY <1>12, <1>13

LEMMA NobodyWins ==
    ASSUME Counting = {}
    PROVE  Winner = 0
<1>1. \A n \in 1 .. 5 : Ranks[n] = {}
  <2>1. Ranks[1] = {} /\ Ranks[2] = {} /\ Ranks[3] = {} /\ Ranks[4] = {} /\ Ranks[5] = {}
      BY DEF Ranks, Counting
  <2>2. \A n \in 1 .. 5 : n = 1 \/ n = 2 \/ n = 3 \/ n = 4 \/ n = 5 OBVIOUS
  <2> QED BY <2>1, <2>2
<1> DEFINE Fit(n) == /\ n <= 5 => Ranks[n] # {}
                     /\ \A m \in 1 .. (n - 1) : Ranks[m] = {}
<1>2. \A n \in 1 .. 6 : Fit(n) <=> n = 6 BY <1>1
<1>3. (CHOOSE n \in 1 .. 6 : Fit(n)) = 6
  <2> HIDE DEF Fit
  <2> QED BY <1>2
<1> QED BY <1>3 DEF Winner

LEMMA ParseFits ==
    ASSUME OptType, NodeFits, Options_parse
    PROVE  StrongestWins'
<1>1. said' = said /\ flags' = flags /\ Winner' = Winner BY DEF Options_parse, Winner, Ranks
<1>2. CASE Counting = {}
  <2>1. Winner = 0 BY <1>2, NobodyWins
  <2>2. node.origin = OPT_INIT BY <1>2 DEF NodeFits
  <2> QED BY <1>1, <2>1, <2>2 DEF Options_parse, StrongestWins
<1>3. CASE Counting # {}
  <2>1. PICK k \in Counting :
            /\ Prevails(k)
            /\ node = [value |-> k, override |-> said[k].override, origin |-> said[k].origin]
      BY <1>3 DEF NodeFits
  <2>2. Winner = k BY <2>1, WinnerPrevails
  <2>3. k \in Nat \ {0} /\ said[k] \in Assignment BY <2>1 DEF Counting, OptType
  <2>4. node.origin # OPT_INIT /\ node.value = k
      BY <2>1, <2>3, OptAssumption DEF Assignment, Origins
  <2> QED BY <1>1, <2>2, <2>3, <2>4 DEF Options_parse, StrongestWins
<1> QED BY <1>2, <1>3

LEMMA OptionStep ==
    ASSUME OptInv, [OptNext]_optVars
    PROVE  OptInv'
<1> USE DEF OptInv
<1>1. CASE Init_options
  <2>1. said = <<>> /\ said' = said /\ node' = node /\ phase' = OPT_COMMAND /\ macro' = macro
      BY <1>1 DEF Init_options
  <2>2. Counting = {} /\ Counting' = {} BY <2>1 DEF Counting
  <2>3. NodeFits' BY <2>1, <2>2 DEF NodeFits
  <2> QED BY <2>1, <2>3, OptAssumption DEF OptType, Origins, StrongestWins
<1>2. ASSUME NEW origin \in Origins, NEW override \in BOOLEAN, Option_set_value(origin, override),
             UNCHANGED <<phase, flags, macro>>, phase \notin {OPT_INIT, "game"}
      PROVE  OptInv'
  <2>1. said' \in Seq(Assignment) /\ NodeFits' BY <1>2, AssignmentKeeps
  <2> QED BY <1>2, <2>1 DEF OptType, StrongestWins
<1>3. CASE Argument
  <2>1. OPT_COMMAND \in Origins /\ TRUE \in BOOLEAN BY DEF Origins
  <2> QED BY <1>2, <1>3, <2>1, OptAssumption DEF Argument
<1>4. CASE Line BY <1>2, <1>4, OptAssumption DEF Line, Origins
<1>5. CASE Expand
  <2>1. macro \in Origins BY <1>5 DEF Expand, OptType
  <2> QED BY <1>2, <1>5, <2>1, OptAssumption DEF Expand
<1>6. CASE Define
  <2>1. /\ UNCHANGED <<phase, flags, node, said, variable>> /\ macro' \in Origins
        /\ phase \notin {OPT_INIT, "game"}
      BY <1>6, OptAssumption DEF Define, Origins
  <2>2. NodeFits' BY <2>1 DEF NodeFits, Prevails, Counting
  <2> QED BY <2>1, <2>2 DEF OptType, StrongestWins
<1>7. CASE Next_file
  <2>1. /\ UNCHANGED <<flags, node, macro, said, variable>>
        /\ phase' \in {OPT_DEFAULTS, OPT_PASSWORD, OPT_MAP, "expand"}
      BY <1>7, OptAssumption DEF Next_file, Origins
  <2>2. NodeFits' BY <2>1 DEF NodeFits, Prevails, Counting
  <2> QED BY <2>1, <2>2, OptAssumption DEF OptType, StrongestWins, Origins
<1>8. CASE Options_parse
  <2>1. UNCHANGED <<flags, node, macro, said>> /\ phase' = "game" BY <1>8 DEF Options_parse
  <2>2. NodeFits' BY <2>1 DEF NodeFits, Prevails, Counting
  <2>3. StrongestWins' BY <1>8, ParseFits
  <2> QED BY <2>1, <2>2, <2>3, OptAssumption DEF OptType
<1>9. CASE UNCHANGED optVars
  <2>1. UNCHANGED <<phase, flags, node, macro, said, variable>> BY <1>9 DEF optVars
  <2>2. NodeFits' BY <2>1 DEF NodeFits, Prevails, Counting
  <2>3. Winner' = Winner BY <2>1 DEF Winner, Ranks
  <2>4. StrongestWins' BY <2>1, <2>3 DEF StrongestWins
  <2> QED BY <2>1, <2>2, <2>4 DEF OptType
<1> QED BY <1>1, <1>3, <1>4, <1>5, <1>6, <1>7, <1>8, <1>9 DEF OptNext

\* Whatever is assigned where, and in whatever order the files and the macros come to be
\* read, the game uses the strongest assignment, or the default.
THEOREM StrongestIsUsed == OptSpec => []StrongestWins
<1>1. OptInit => OptInv
  <2> SUFFICES ASSUME OptInit PROVE OptInv OBVIOUS
  <2>1. said = <<>> /\ phase = OPT_INIT /\ macro = OPT_INIT BY DEF OptInit
  <2>2. OptType BY <2>1 DEF OptType
  <2>3. NodeFits BY <2>1 DEF OptInit, NodeFits, Counting
  <2> QED BY <2>1, <2>2, <2>3, OptAssumption DEF OptInv, StrongestWins
<1>2. OptInv /\ [OptNext]_optVars => OptInv' BY OptionStep
<1>3. OptInv => StrongestWins BY DEF OptInv
<1> QED BY <1>1, <1>2, <1>3, PTL DEF OptSpec

-----------------------------------------------------------------------------
(* Names: the fixed ones pass.                                             *)

LEMMA StringIs ==
    ASSUME NEW S, NEW n \in Nat, NEW s \in Strings(S, n)
    PROVE  s \in Seq(S)
<1>1. PICK k \in 0 .. n : s \in [1 .. k -> S] BY DEF Strings
<1>2. k \in Nat OBVIOUS
<1> QED BY <1>1, <1>2

LEMMA CutIs ==
    ASSUME NEW S, NEW name \in Seq(S), NEW len \in Nat
    PROVE  /\ Cut(name, len) \in Seq(S) /\ Len(Cut(name, len)) <= len /\ Len(Cut(name, len)) <= Len(name)
           /\ \A i \in 1 .. Len(Cut(name, len)) : Cut(name, len)[i] = name[i]
           /\ Len(name) <= len => Cut(name, len) = name
<1> DEFINE m == IF Len(name) < len THEN Len(name) ELSE len
           c == SubSeq(name, 1, m)
<1>1. Len(name) \in Nat /\ m \in 0 .. Len(name) /\ m <= len OBVIOUS
<1> HIDE DEF m
<1>2. c \in Seq(S) /\ Len(c) = m /\ \A i \in 1 .. m : c[i] = name[i] BY <1>1
<1>3. Len(name) <= len => m = Len(name) BY DEF m
<1> HIDE DEF c
<1>4. Len(name) <= len => c = name BY <1>2, <1>3, SeqEqual
<1>5. Cut(name, len) = c BY DEF Cut, c, m
<1> QED BY <1>1, <1>2, <1>4, <1>5

\* A name that is short enough is what is checked.
LEMMA CutTwice ==
    ASSUME NEW S, NEW name \in Seq(S), NEW len \in Nat
    PROVE  Cut(Cut(name, len), len) = Cut(name, len)
<1> DEFINE c == Cut(name, len)
<1>1. c \in Seq(S) /\ Len(c) <= len BY CutIs
<1> HIDE DEF c
<1>2. Cut(c, len) = c BY <1>1, CutIs
<1> QED BY <1>2 DEF c

LEMMA ReplacedIs ==
    ASSUME NEW S, NEW name \in Seq(S), NEW Good, "lower" \in Good, "lower" \in S
    PROVE  /\ Replaced(name, Good) \in Seq(S) /\ Len(Replaced(name, Good)) = Len(name)
           /\ Range(Replaced(name, Good)) \subseteq Good
           /\ \A i \in 1 .. Len(name) : name[i] \in Good => Replaced(name, Good)[i] = name[i]
           /\ Range(name) \subseteq Good => Replaced(name, Good) = name
<1> DEFINE r == Replaced(name, Good)
<1>1. /\ r = [i \in 1 .. Len(name) |-> IF name[i] \in Good THEN name[i] ELSE "lower"]
      /\ Len(name) \in Nat /\ \A i \in 1 .. Len(name) : name[i] \in S
    BY DEF Replaced
<1> HIDE DEF r
<1>2. r \in [1 .. Len(name) -> S] BY <1>1
<1>3. r \in Seq(S) /\ Len(r) = Len(name) BY <1>1, <1>2
<1>4. \A i \in 1 .. Len(name) : r[i] \in Good /\ (name[i] \in Good => r[i] = name[i]) BY <1>1
<1>5. Range(r) \subseteq Good BY <1>3, <1>4 DEF Range
<1>6. Range(name) \subseteq Good => r = name
  <2> SUFFICES ASSUME Range(name) \subseteq Good PROVE r = name OBVIOUS
  <2>1. \A i \in 1 .. Len(name) : name[i] \in Good BY DEF Range
  <2>2. \A i \in 1 .. Len(name) : r[i] = name[i] BY <1>4, <2>1
  <2> QED BY <1>3, <2>2, SeqEqual
<1> QED BY <1>3, <1>4, <1>5, <1>6 DEF r

LEMMA Classes ==
    /\ "lower" \in Graph /\ "lower" \in Chars /\ "lower" \in Printable /\ "upper" \in Chars
    /\ "upper" \in Graph /\ "upper" \notin Blank /\ "dot" \in Chars
BY DEF Graph, Chars, Printable, Alnum, Blank

LEMMA RealNameFixed ==
    ASSUME NEW n \in Seq(Chars)
    PROVE  /\ Check_real_name(Fix_real_name(n))
           /\ Check_real_name(n) => Fix_real_name(n) = Cut(n, MAX_NAME_LEN - 1)
<1> DEFINE len == MAX_NAME_LEN - 1
           name == Cut(n, len)
           fixed == Fix_real_name(n)
<1>1. len \in Nat /\ len >= 2 BY NamesAssumption
<1>2. name \in Seq(Chars) /\ Len(name) <= len BY <1>1, CutIs
<1>3. fixed = IF name = <<>> THEN <<"upper">> ELSE Replaced(name, Graph) BY DEF Fix_real_name
<1> HIDE DEF len, name, fixed
<1>4. fixed \in Seq(Chars) /\ Len(fixed) <= len /\ fixed # <<>> /\ Range(fixed) \subseteq Graph
  <2>1. CASE name = <<>>
    <3>1. fixed = <<"upper">> BY <1>3, <2>1
    <3>2. DOMAIN fixed = {1} BY <3>1
    <3> QED BY <1>1, <3>1, <3>2, Classes DEF Range
  <2>2. CASE name # <<>>
    <3>1. fixed = Replaced(name, Graph) BY <1>3, <2>2
    <3>2. /\ fixed \in Seq(Chars) /\ Len(fixed) = Len(name) /\ Range(fixed) \subseteq Graph
        BY <1>2, <3>1, Classes, ReplacedIs
    <3>3. Len(name) # 0 BY <1>2, <2>2, EmptySeq
    <3> QED BY <1>2, <3>2, <3>3
  <2> QED BY <2>1, <2>2
<1>5. Cut(fixed, len) = fixed BY <1>1, <1>4, CutIs
<1>6. Check_real_name(fixed) BY <1>4, <1>5 DEF Check_real_name, len
<1>7. Check_real_name(n) => fixed = name
  <2> SUFFICES ASSUME Check_real_name(n) PROVE fixed = name OBVIOUS
  <2>1. name # <<>> /\ Range(name) \subseteq Graph BY DEF Check_real_name, name, len
  <2>2. Replaced(name, Graph) = name BY <1>2, <2>1, Classes, ReplacedIs
  <2> QED BY <1>3, <2>1, <2>2
<1> QED BY <1>6, <1>7 DEF fixed, name, len

LEMMA DisplayNameFixed ==
    ASSUME NEW n \in Seq(Chars)
    PROVE  Check_disp_name(Fix_disp_name(n))
<1> DEFINE name == Cut(n, MAX_NAME_LEN)
           fixed == Replaced(name, Graph)
<1>1. MAX_NAME_LEN \in Nat BY NamesAssumption
<1>2. name \in Seq(Chars) /\ Len(name) <= MAX_NAME_LEN BY <1>1, CutIs
<1> HIDE DEF name
<1>3. fixed \in Seq(Chars) /\ Len(fixed) = Len(name) /\ Range(fixed) \subseteq Graph
    BY <1>2, Classes, ReplacedIs
<1> HIDE DEF fixed
<1>4. Cut(fixed, MAX_NAME_LEN) = fixed BY <1>1, <1>2, <1>3, CutIs
<1>5. Check_disp_name(fixed) BY <1>3, <1>4 DEF Check_disp_name
<1> QED BY <1>5 DEF Fix_disp_name, fixed, name

\* A turn of the loop over the players.
NameTurn(fits, name, found_pl) ==
    IF found_pl = Several \/ name \notin fits THEN found_pl
    ELSE IF found_pl # NoName THEN Several ELSE name

Calls == INSTANCE FoldTheorems WITH Turn <- NameTurn

LEMMA GreatestNumber ==
    ASSUME NEW n \in Nat, NEW T \in SUBSET (1 .. n), T # {}
    PROVE  Max(T) \in T /\ \A k \in T : Max(T) >= k
<1> DEFINE U == {k \in Nat : \A j \in T : j <= k}
<1>1. n \in U OBVIOUS
<1>2. PICK m \in U : \A k \in U : m <= k
  <2>1. U \in SUBSET Nat /\ U # {} BY <1>1
  <2> HIDE DEF U
  <2> QED BY <2>1, Calls!SmallestNumber
<1>3. \A j \in T : j <= m BY <1>2
<1>4. m \in T
  <2> SUFFICES ASSUME m \notin T PROVE FALSE OBVIOUS
  <2>1. PICK j \in T : TRUE OBVIOUS
  <2>2. m \in Nat /\ m > 0 BY <1>2, <1>3, <2>1
  <2>3. \A k \in T : k <= m - 1
    <3> SUFFICES ASSUME NEW k \in T PROVE k <= m - 1 OBVIOUS
    <3>1. k <= m /\ k # m /\ k \in Nat BY <1>3
    <3> QED BY <2>2, <3>1
  <2>4. m - 1 \in U BY <2>2, <2>3
  <2> QED BY <1>2, <2>2, <2>4
<1>5. \E k \in T : \A j \in T : k >= j
  <2>1. \A j \in T : m >= j BY <1>2, <1>3
  <2> QED BY <1>4, <2>1
<1> QED BY <1>5 DEF Max

LEMMA NickNameFixed ==
    ASSUME NEW n \in Seq(Chars)
    PROVE  /\ Check_nick_name(Fix_nick_name(n))
           /\ Check_nick_name(n) => Fix_nick_name(n) = Cut(n, MAX_NAME_LEN - 1)
<1> DEFINE len == MAX_NAME_LEN - 1
           name == Cut(n, len)
           fixed == Fix_nick_name(n)
           capital == [name EXCEPT ![1] = "upper"]
           good == Replaced(capital, Printable)
           ends == {i \in DOMAIN good : good[i] \notin Blank}
           m == Max(ends)
<1>1. len \in Nat /\ len >= 2 BY NamesAssumption
<1>2. name \in Seq(Chars) /\ Len(name) <= len /\ Len(name) \in Nat BY <1>1, CutIs
<1>3. fixed = IF name = <<>> THEN <<"upper", "digit">> ELSE SubSeq(good, 1, m)
    BY DEF Fix_nick_name, Trimmed
<1> HIDE DEF len, name, fixed
<1>4. CASE name = <<>>
  <2>1. fixed = <<"upper", "digit">> BY <1>3, <1>4
  <2>2. fixed \in Seq(Chars) /\ Len(fixed) <= len BY <1>1, <2>1 DEF Chars, Graph, Alnum
  <2>3. Cut(fixed, len) = fixed BY <1>1, <2>2, CutIs
  <2>4. DOMAIN fixed = {1, 2} /\ fixed[1] = "upper" /\ fixed[2] = "digit" /\ fixed # <<>> /\ Len(fixed) = 2
      BY <2>1
  <2>5. Range(fixed) \subseteq Printable BY <2>4 DEF Range, Printable, Graph, Alnum
  <2>6. Check_nick_name(fixed) BY <2>3, <2>4, <2>5 DEF Check_nick_name, len, Last, Blank
  <2>7. ~Check_nick_name(n) BY <1>4 DEF Check_nick_name, name, len
  <2> QED BY <2>6, <2>7 DEF fixed
<1>5. CASE name # <<>>
  <2>1. Len(name) > 0 /\ 1 \in 1 .. Len(name)
    <3>1. Len(name) # 0 BY <1>2, <1>5, EmptySeq
    <3> QED BY <1>2, <3>1
  <2>2. capital \in Seq(Chars) /\ Len(capital) = Len(name) /\ capital[1] = "upper"
    <3>1. name \in [1 .. Len(name) -> Chars] BY <1>2
    <3>2. capital \in [1 .. Len(name) -> Chars] /\ capital[1] = "upper" BY <2>1, <3>1, Classes
    <3> HIDE DEF capital
    <3> QED BY <1>2, <3>2
  <2>3. name[1] = "upper" => capital = name BY <1>2, <2>1
  <2> HIDE DEF capital
  <2>4. /\ good \in Seq(Chars) /\ Len(good) = Len(name) /\ Range(good) \subseteq Printable
        /\ \A i \in 1 .. Len(capital) : capital[i] \in Printable => good[i] = capital[i]
        /\ Range(capital) \subseteq Printable => good = capital
    <3>1. /\ good \in Seq(Chars) /\ Len(good) = Len(capital) /\ Range(good) \subseteq Printable
          /\ \A i \in 1 .. Len(capital) : capital[i] \in Printable => good[i] = capital[i]
          /\ Range(capital) \subseteq Printable => good = capital
      <4>1. capital \in Seq(Chars) /\ "lower" \in Printable /\ "lower" \in Chars BY <2>2, Classes
      <4> QED BY <4>1, ReplacedIs
    <3> HIDE DEF good
    <3> QED BY <2>2, <3>1
  <2>5. good[1] = "upper"
    <3>1. capital[1] \in Printable BY <2>2 DEF Printable, Graph, Alnum
    <3> QED BY <2>1, <2>2, <2>4, <3>1
  <2> HIDE DEF good
  <2>6. DOMAIN good = 1 .. Len(name) BY <2>4
  <2>7. m \in ends /\ \A i \in ends : m >= i
    <3>1. 1 \in ends BY <2>1, <2>5, <2>6, Classes
    <3>2. ends \in SUBSET (1 .. Len(name)) /\ ends # {} BY <2>6, <3>1
    <3> HIDE DEF ends
    <3> QED BY <1>2, <3>2, GreatestNumber
  <2> HIDE DEF m
  <2>8. m \in 1 .. Len(name) /\ good[m] \notin Blank BY <2>6, <2>7
  <2>9. fixed \in Seq(Chars) /\ Len(fixed) = m /\ \A i \in 1 .. m : fixed[i] = good[i]
    <3>1. fixed = SubSeq(good, 1, m) BY <1>3, <1>5
    <3>2. m \in 1 .. Len(good) /\ Len(good) \in Nat BY <1>2, <2>4, <2>8
    <3>3. /\ SubSeq(good, 1, m) \in Seq(Chars) /\ Len(SubSeq(good, 1, m)) = m
          /\ \A i \in 1 .. m : SubSeq(good, 1, m)[i] = good[i]
        BY <2>4, <3>2
    <3> QED BY <3>1, <3>3
  <2>10. fixed # <<>> /\ fixed[1] = "upper" /\ Len(fixed) <= len /\ Last(fixed) \notin Blank
    <3>1. 1 \in 1 .. m /\ m \in 1 .. m /\ m # 0 /\ m <= len BY <1>1, <1>2, <2>8
    <3>2. Last(fixed) = good[m] BY <2>9, <3>1 DEF Last
    <3>3. fixed # <<>> BY <2>9, <3>1
    <3> QED BY <2>5, <2>8, <2>9, <3>1, <3>2, <3>3
  <2>11. Range(fixed) \subseteq Printable
    <3>1. \A i \in 1 .. m : good[i] \in Printable
      <4>1. \A i \in 1 .. m : i \in DOMAIN good BY <1>2, <2>6, <2>8
      <4> QED BY <2>4, <4>1 DEF Range
    <3>2. DOMAIN fixed = 1 .. m BY <2>9
    <3> QED BY <2>9, <3>1, <3>2 DEF Range
  <2>12. Cut(fixed, len) = fixed BY <1>1, <2>9, <2>10, CutIs
  <2>13. Check_nick_name(fixed) BY <2>10, <2>11, <2>12 DEF Check_nick_name, len
  <2>14. Check_nick_name(n) => fixed = name
    <3> SUFFICES ASSUME Check_nick_name(n) PROVE fixed = name OBVIOUS
    <3>1. name[1] = "upper" /\ Range(name) \subseteq Printable /\ Last(name) \notin Blank
        BY DEF Check_nick_name, name, len
    <3>2. good = name BY <2>3, <2>4, <3>1
    <3>3. Len(name) \in ends
      <4>1. Len(name) \in 1 .. Len(name) BY <1>2, <2>1
      <4> QED BY <2>6, <3>1, <3>2, <4>1 DEF Last
    <3>4. m = Len(name) BY <1>2, <2>7, <2>8, <3>3
    <3> QED BY <1>2, <2>9, <3>2, <3>4, SeqEqual
  <2> QED BY <2>13, <2>14 DEF fixed, name, len
<1> QED BY <1>4, <1>5

LEMMA HostNameFixed ==
    ASSUME NEW n \in Seq(Chars)
    PROVE  /\ Check_host_name(Fix_host_name(n))
           /\ Check_host_name(n) => Fix_host_name(n) = Cut(n, MAX_HOST_LEN - 1)
<1> DEFINE len == MAX_HOST_LEN - 1
           name == Cut(n, len)
           fixed == Fix_host_name(n)
           Keeps(i) == name[i] \in Alnum \/ (name[i] \in {"dot", "dash"} /\ Between(name, i))
           kept == [i \in DOMAIN name |-> IF Keeps(i) THEN name[i] ELSE "lower"]
<1>1. len \in Nat /\ len >= 3 BY NamesAssumption
<1>2. name \in Seq(Chars) /\ Len(name) <= len /\ Len(name) \in Nat BY <1>1, CutIs
<1>3. fixed = IF name = <<>> \/ name[1] \notin Alnum THEN <<"lower", "dot", "lower">> ELSE kept
    BY DEF Fix_host_name
<1>0. Check_host_name(n) <=> name # <<>> /\ name[1] \in Alnum /\ \A i \in DOMAIN name : Keeps(i)
    BY DEF Check_host_name
<1> HIDE DEF len, name, fixed
<1>4. CASE name = <<>> \/ name[1] \notin Alnum
  <2>1. fixed = <<"lower", "dot", "lower">> BY <1>3, <1>4
  <2>2. fixed \in Seq(Chars) /\ Len(fixed) = 3 BY <2>1 DEF Chars, Graph, Alnum
  <2>3. Cut(fixed, len) = fixed BY <1>1, <2>2, CutIs
  <2>4. /\ DOMAIN fixed = {1, 2, 3} /\ fixed[1] = "lower" /\ fixed[2] = "dot" /\ fixed[3] = "lower"
        /\ fixed # <<>>
      BY <2>1
  <2>5. Between(fixed, 2)
    <3>1. 2 + 1 = 3 OBVIOUS
    <3> QED BY <2>2, <2>4, <3>1 DEF Between
  <2>6. "lower" \in Alnum BY DEF Alnum
  <2>7. Check_host_name(fixed) BY <2>3, <2>4, <2>5, <2>6 DEF Check_host_name, len
  <2> QED BY <1>0, <1>4, <2>7 DEF fixed
<1>5. CASE ~(name = <<>> \/ name[1] \notin Alnum)
  <2>1. Len(name) > 0 /\ 1 \in 1 .. Len(name) /\ name[1] \in Alnum
    <3>1. Len(name) # 0 BY <1>2, <1>5, EmptySeq
    <3> QED BY <1>2, <1>5, <3>1
  <2>2. fixed = kept BY <1>3, <1>5
  <2>3. DOMAIN name = 1 .. Len(name) /\ \A i \in 1 .. Len(name) : name[i] \in Chars BY <1>2
  <2>4. kept \in [1 .. Len(name) -> Chars]
    <3> HIDE DEF Keeps
    <3> QED BY <2>3, Classes
  <2>5. fixed \in Seq(Chars) /\ Len(fixed) = Len(name) BY <1>2, <2>2, <2>4
  <2>6. \A i \in 1 .. Len(name) : fixed[i] = IF Keeps(i) THEN name[i] ELSE "lower"
    <3> HIDE DEF Keeps
    <3> QED BY <2>2, <2>3
  <2>7. Cut(fixed, len) = fixed BY <1>1, <1>2, <2>5, CutIs
  <2>8. fixed # <<>> /\ fixed[1] \in Alnum
    <3>1. fixed # <<>> BY <2>1, <2>5
    <3> QED BY <2>1, <2>6, <3>1
  <2>9. ASSUME NEW i \in 1 .. Len(name)
        PROVE  fixed[i] \in Alnum \/ (fixed[i] \in {"dot", "dash"} /\ Between(fixed, i))
    <3>1. CASE ~Keeps(i)
      <4>1. fixed[i] = "lower" BY <2>6, <3>1
      <4> QED BY <4>1 DEF Alnum
    <3>2. CASE name[i] \in Alnum BY <2>6, <3>2
    <3>3. CASE name[i] \notin Alnum /\ Keeps(i)
      <4>1. fixed[i] = name[i] /\ name[i] \in {"dot", "dash"} /\ Between(name, i) BY <2>6, <3>3
      <4>2. i < Len(name) /\ name[i + 1] \notin {"dot", "dash"} /\ i + 1 \in 1 .. Len(name)
          BY <1>2, <4>1 DEF Between
      <4>3. fixed[i + 1] \in {name[i + 1], "lower"} BY <2>6, <4>2
      <4>4. Between(fixed, i) BY <2>5, <4>2, <4>3 DEF Between
      <4> QED BY <4>1, <4>4
    <3> QED BY <3>1, <3>2, <3>3
  <2>10. Check_host_name(fixed)
    <3>1. DOMAIN fixed = 1 .. Len(name) BY <2>5
    <3> HIDE DEF kept
    <3> QED BY <2>7, <2>8, <2>9, <3>1 DEF Check_host_name, len
  <2>11. Check_host_name(n) => fixed = name
    <3> SUFFICES ASSUME \A i \in DOMAIN name : Keeps(i) PROVE fixed = name BY <1>0
    <3> HIDE DEF Keeps, kept
    <3>1. \A i \in 1 .. Len(name) : fixed[i] = name[i] BY <2>3, <2>6
    <3> QED BY <1>2, <2>5, <3>1, SeqEqual
  <2> QED BY <2>10, <2>11 DEF fixed, name, len
<1> QED BY <1>4, <1>5

LEMMA EnteredFixed ==
    ASSUME entered \in Seq(Chars)
    PROVE  FixedPass
BY RealNameFixed, NickNameFixed, HostNameFixed, DisplayNameFixed DEF FixedPass

-----------------------------------------------------------------------------
(* Names: one is meant.                                                    *)

\* What h is after n turns: none, the one, or several.
Meant(table, fits, n, h) ==
    \/ h = NoName /\ \A i \in 1 .. n : table[i] \notin fits
    \/ \E i \in 1 .. n : /\ h = table[i] /\ table[i] \in fits
                         /\ \A j \in 1 .. n : table[j] \in fits => j = i
    \/ h = Several /\ \E i, j \in 1 .. n : i # j /\ table[i] \in fits /\ table[j] \in fits

\* Different names, none of them empty.
Table(table) ==
    /\ table \in Seq(Strings(Letters, MaxNick) \ {<<>>})
    /\ \A i, j \in 1 .. Len(table) : table[i] = table[j] => i = j

LEMMA NoNames == NoName # Several /\ \A s \in Strings(Letters, MaxNick) : s # NoName
<1>1. <<>> \in Strings(Letters, MaxNick)
  <2>1. <<>> \in [1 .. 0 -> Letters] /\ 0 \in 0 .. MaxNick BY NamesAssumption
  <2> QED BY <2>1 DEF Strings
<1> QED BY <1>1, NamesAssumption DEF Several

LEMMA OnlyIs ==
    ASSUME NEW table, NEW fits
    PROVE  Only(table, fits) = Calls!OverSeq(fits, NoName, table)
BY DEF Only, FoldLeft, MapThenFoldSet, Calls!OverSeq, NameTurn, Max

\* The loop of Player_get_by_name finds none, the one or several of those that fit.
LEMMA OnlyMeant ==
    ASSUME NEW table, Table(table), NEW fits
    PROVE  Meant(table, fits, Len(table), Only(table, fits))
<1> DEFINE S == Strings(Letters, MaxNick) \ {<<>>}
           B == S \cup {NoName, Several}
           A == [n \in 0 .. Len(table) |-> {h \in B : Meant(table, fits, n, h)}]
<1>1. table \in Seq(S) /\ Len(table) \in Nat /\ DOMAIN table = 1 .. Len(table)
      /\ \A i \in 1 .. Len(table) : table[i] \in S
    BY DEF Table
<1>2. NoName # Several /\ NoName \notin S /\ Several \notin S BY NoNames DEF Several
<1> HIDE DEF S
<1>3. Calls!Closed(fits, {table[i] : i \in DOMAIN table}, B)
  <2> SUFFICES ASSUME NEW name \in {table[i] : i \in DOMAIN table}, NEW h \in B
               PROVE  NameTurn(fits, name, h) \in B
      BY DEF Calls!Closed
  <2>1. name \in S BY <1>1
  <2> QED BY <2>1 DEF NameTurn
<1>4. NoName \in A[0] \cap B
  <2>1. 0 \in 0 .. Len(table) BY <1>1
  <2>2. Meant(table, fits, 0, NoName) BY DEF Meant
  <2> QED BY <2>1, <2>2
<1>5. ASSUME NEW n \in DOMAIN table, NEW h \in A[n - 1] \cap B PROVE NameTurn(fits, table[n], h) \in A[n]
  <2>1. n \in 1 .. Len(table) /\ n - 1 \in 0 .. Len(table) /\ n \in 0 .. Len(table) BY <1>1
  <2>2. Meant(table, fits, n - 1, h) BY <2>1
  <2>3. NameTurn(fits, table[n], h) \in B BY <1>1, <2>1 DEF NameTurn
  <2> DEFINE g == NameTurn(fits, table[n], h)
  <2>4. Meant(table, fits, n, g)
    <3>0. n \in Nat /\ n \in 1 .. n /\ (\A i \in 1 .. n - 1 : i \in 1 .. n /\ i # n /\ i \in 1 .. Len(table))
          /\ \A i \in 1 .. n : i # n => i \in 1 .. n - 1
        BY <1>1, <2>1
    <3>1. CASE table[n] \notin fits
      <4>1. g = h BY <3>1 DEF NameTurn
      <4>2. CASE h = NoName /\ \A i \in 1 .. n - 1 : table[i] \notin fits
          BY <3>0, <3>1, <4>1, <4>2 DEF Meant
      <4>3. CASE \E i \in 1 .. n - 1 : /\ h = table[i] /\ table[i] \in fits
                                       /\ \A j \in 1 .. n - 1 : table[j] \in fits => j = i
        <5>1. PICK i \in 1 .. n - 1 : /\ h = table[i] /\ table[i] \in fits
                                      /\ \A j \in 1 .. n - 1 : table[j] \in fits => j = i
            BY <4>3
        <5>2. i \in 1 .. n BY <3>0
        <5>3. \A j \in 1 .. n : table[j] \in fits => j = i BY <3>0, <3>1, <5>1
        <5> HIDE DEF g
        <5> QED BY <4>1, <5>1, <5>2, <5>3 DEF Meant
      <4>4. CASE h = Several /\ \E i, j \in 1 .. n - 1 : i # j /\ table[i] \in fits /\ table[j] \in fits
        <5>1. \E i, j \in 1 .. n : i # j /\ table[i] \in fits /\ table[j] \in fits BY <3>0, <4>4
        <5> HIDE DEF g
        <5> QED BY <4>1, <4>4, <5>1 DEF Meant
      <4> QED BY <2>2, <4>2, <4>3, <4>4 DEF Meant
    <3>2. CASE table[n] \in fits
      <4>2. CASE h = NoName /\ \A i \in 1 .. n - 1 : table[i] \notin fits
        <5>1. g = table[n] BY <1>2, <3>2, <4>2 DEF NameTurn
        <5>2. \A j \in 1 .. n : table[j] \in fits => j = n BY <3>0, <4>2
        <5> HIDE DEF g
        <5> QED BY <3>0, <3>2, <5>1, <5>2 DEF Meant
      <4>3. CASE \E i \in 1 .. n - 1 : /\ h = table[i] /\ table[i] \in fits
                                       /\ \A j \in 1 .. n - 1 : table[j] \in fits => j = i
        <5>1. PICK i \in 1 .. n - 1 : h = table[i] /\ table[i] \in fits BY <4>3
        <5>2. h # NoName /\ h # Several BY <1>1, <1>2, <3>0, <5>1
        <5>3. g = Several BY <3>2, <5>2 DEF NameTurn
        <5>4. \E k, j \in 1 .. n : k # j /\ table[k] \in fits /\ table[j] \in fits
            BY <3>0, <3>2, <5>1
        <5> HIDE DEF g
        <5> QED BY <5>3, <5>4 DEF Meant
      <4>4. CASE h = Several /\ \E i, j \in 1 .. n - 1 : i # j /\ table[i] \in fits /\ table[j] \in fits
        <5>1. \E i, j \in 1 .. n : i # j /\ table[i] \in fits /\ table[j] \in fits BY <3>0, <4>4
        <5>2. g = Several BY <4>4 DEF NameTurn
        <5> HIDE DEF g
        <5> QED BY <5>1, <5>2 DEF Meant
      <4> QED BY <2>2, <4>2, <4>3, <4>4 DEF Meant
    <3> QED BY <3>1, <3>2
  <2> QED BY <2>1, <2>3, <2>4
<1>6. Len(table) \in 0 .. Len(table) BY <1>1
<1>7. A[Len(table)] = {h \in B : Meant(table, fits, Len(table), h)} BY <1>6
<1> HIDE DEF A, B
<1>8. Calls!OverSeq(fits, NoName, table) \in A[Len(table)]
    BY <1>1, <1>3, <1>4, <1>5, Calls!SeqInOrder
<1>9. Only(table, fits) \in A[Len(table)] BY <1>8, OnlyIs
<1> QED BY <1>7, <1>9

\* The same are in the table of the other order, and it is as good a table.
LEMMA ReversedTable ==
    ASSUME NEW table, Table(table)
    PROVE  /\ Table(Reverse(table)) /\ Len(Reverse(table)) = Len(table) /\ Len(table) \in Nat
           /\ \A i \in 1 .. Len(table) : Reverse(table)[i] = table[Len(table) + 1 - i]
           /\ Range(Reverse(table)) = Range(table)
<1> DEFINE S == Strings(Letters, MaxNick) \ {<<>>}
           n == Len(table)
           r == Reverse(table)
<1>1. table \in Seq(S) /\ n \in Nat /\ \A i \in 1 .. n : table[i] \in S BY DEF Table
<1>2. \A i, j \in 1 .. n : table[i] = table[j] => i = j BY DEF Table
<1>3. DOMAIN table = 1 .. n BY <1>1
<1> HIDE DEF S, n
<1>4. r = [i \in 1 .. n |-> table[n - i + 1]] BY DEF Reverse, n
<1>5. \A i \in 1 .. n : n - i + 1 = n + 1 - i /\ n + 1 - i \in 1 .. n BY <1>1
<1> HIDE DEF r
<1>6. r \in [1 .. n -> S] /\ \A i \in 1 .. n : r[i] = table[n + 1 - i] BY <1>1, <1>4, <1>5
<1>7. r \in Seq(S) /\ Len(r) = n /\ DOMAIN r = 1 .. n BY <1>1, <1>6
<1>8. \A i, j \in 1 .. n : r[i] = r[j] => i = j
  <2> SUFFICES ASSUME NEW i \in 1 .. n, NEW j \in 1 .. n, r[i] = r[j] PROVE i = j OBVIOUS
  <2>1. n + 1 - i = n + 1 - j BY <1>2, <1>5, <1>6
  <2> QED BY <1>1, <2>1
<1>9. Range(r) = Range(table)
  <2>1. \A i \in 1 .. n : r[n + 1 - i] = table[i]
    <3> SUFFICES ASSUME NEW i \in 1 .. n PROVE r[n + 1 - i] = table[i] OBVIOUS
    <3>1. n + 1 - (n + 1 - i) = i BY <1>1
    <3> QED BY <1>5, <1>6, <3>1
  <2>2. \A i \in 1 .. n : r[i] \in Range(table) BY <1>3, <1>5, <1>6 DEF Range
  <2>3. \A i \in 1 .. n : table[i] \in Range(r) BY <1>5, <1>7, <2>1 DEF Range
  <2>4. \A x \in Range(r) : \E i \in 1 .. n : x = r[i] BY <1>7 DEF Range
  <2>5. \A x \in Range(table) : \E i \in 1 .. n : x = table[i] BY <1>3 DEF Range
  <2>6. Range(r) \subseteq Range(table) BY <2>2, <2>4
  <2>7. Range(table) \subseteq Range(r) BY <2>3, <2>5
  <2> QED BY <2>6, <2>7
<1>10. Table(r) BY <1>7, <1>8 DEF Table, S
<1> QED BY <1>1, <1>6, <1>7, <1>9, <1>10 DEF n, r

LEMMA OnlyReversed ==
    ASSUME NEW table, Table(table), NEW fits
    PROVE  Only(Reverse(table), fits) = Only(table, fits)
<1> DEFINE n == Len(table)
           r == Reverse(table)
           h == Only(table, fits)
           g == Only(r, fits)
<1>1. /\ Table(r) /\ Len(r) = n /\ n \in Nat /\ \A i \in 1 .. n : r[i] = table[n + 1 - i]
    BY ReversedTable
<1> HIDE DEF r
<1>2. Meant(table, fits, n, h) BY OnlyMeant
<1>3. Meant(r, fits, n, g)
  <2>1. Meant(r, fits, Len(r), g) BY <1>1, OnlyMeant
  <2> QED BY <1>1, <2>1
<1> HIDE DEF n, h, g
<1>4. \A i \in 1 .. n : n + 1 - i \in 1 .. n /\ n + 1 - (n + 1 - i) = i BY <1>1
<1>5. \A i \in 1 .. n : table[i] = r[n + 1 - i] BY <1>1, <1>4
<1>6. CASE h = NoName /\ \A i \in 1 .. n : table[i] \notin fits
  <2>1. \A i \in 1 .. n : r[i] \notin fits BY <1>1, <1>4, <1>6
  <2> QED BY <1>3, <1>6, <2>1 DEF Meant, r, h, g
<1>7. CASE \E i \in 1 .. n : /\ h = table[i] /\ table[i] \in fits
                             /\ \A j \in 1 .. n : table[j] \in fits => j = i
  <2>1. PICK i \in 1 .. n : /\ h = table[i] /\ table[i] \in fits
                            /\ \A j \in 1 .. n : table[j] \in fits => j = i
      BY <1>7
  <2>2. \A j \in 1 .. n : r[j] \in fits => j = n + 1 - i
    <3> SUFFICES ASSUME NEW j \in 1 .. n, r[j] \in fits PROVE j = n + 1 - i OBVIOUS
    <3>1. n + 1 - j = i BY <1>1, <1>4, <2>1
    <3> QED BY <1>4, <3>1
  <2>3. r[n + 1 - i] \in fits /\ n + 1 - i \in 1 .. n BY <1>4, <1>5, <2>1
  <2>4. g = r[n + 1 - i] BY <1>3, <2>2, <2>3 DEF Meant
  <2>5. g = h BY <1>5, <2>1, <2>4
  <2> QED BY <2>5 DEF r, h, g
<1>8. CASE h = Several /\ \E i, j \in 1 .. n : i # j /\ table[i] \in fits /\ table[j] \in fits
  <2>1. PICK i \in 1 .. n, j \in 1 .. n : i # j /\ table[i] \in fits /\ table[j] \in fits BY <1>8
  <2>2. /\ n + 1 - i \in 1 .. n /\ n + 1 - j \in 1 .. n /\ n + 1 - i # n + 1 - j
        /\ r[n + 1 - i] \in fits /\ r[n + 1 - j] \in fits
    <3>1. n + 1 - i # n + 1 - j BY <1>1, <2>1
    <3> QED BY <1>4, <1>5, <2>1, <3>1
  <2>3. g = Several BY <1>3, <2>2 DEF Meant
  <2> QED BY <1>8, <2>3 DEF r, h, g
<1> QED BY <1>2, <1>6, <1>7, <1>8 DEF Meant

LEMMA ExactIs ==
    ASSUME NEW table, Table(table), NEW str
    PROVE  Player_get_by_name_exact(str, table) = IF str \in Range(table) THEN str ELSE NoName
<1> DEFINE found == {i \in DOMAIN table : table[i] = str}
           first == CHOOSE i \in found : \A j \in found : i <= j
<1>1. Player_get_by_name_exact(str, table) = IF found = {} THEN NoName ELSE table[first]
    BY DEF Player_get_by_name_exact
<1>2. found = {} <=> str \notin Range(table) BY DEF Range
<1>3. CASE found # {}
  <2>1. found \in SUBSET Nat
    <3>1. DOMAIN table = 1 .. Len(table) BY DEF Table
    <3> QED BY <3>1
  <2>2. \A i \in found : table[i] = str OBVIOUS
  <2> HIDE DEF found
  <2>3. \E i \in found : \A j \in found : i <= j BY <1>3, <2>1, Calls!SmallestNumber
  <2>4. first \in found BY <2>3
  <2> HIDE DEF first
  <2> QED BY <1>1, <1>2, <1>3, <2>2, <2>4
<1> QED BY <1>1, <1>2, <1>3

\* Who is meant by a name does not depend on who came first.
LEMMA OrderIsNoMatter ==
    ASSUME NEW table, Table(table), NEW str
    PROVE  Player_get_by_name(str, Reverse(table)) = Player_get_by_name(str, table)
<1> DEFINE r == Reverse(table)
           Starts(t) == {name \in Range(t) : BeginsWith(name, str, 1)}
           Has(t) == {name \in Range(t) : \E j \in 1 .. 1 + Len(name) - Len(str) : BeginsWith(name, str, j)}
<1>1. Table(r) /\ Range(r) = Range(table) BY ReversedTable
<1>2. Player_get_by_name_exact(str, r) = Player_get_by_name_exact(str, table)
  <2> HIDE DEF r
  <2> QED BY <1>1, ExactIs
<1>3. Starts(r) = Starts(table) /\ Has(r) = Has(table) BY <1>1
<1> DEFINE Said(exact, prefix, within) ==
               IF str = <<>> THEN NoName
               ELSE IF exact # NoName THEN exact
               ELSE IF prefix # NoName THEN prefix
               ELSE within
<1>4. \A t : Player_get_by_name(str, t) =
              Said(Player_get_by_name_exact(str, t), Only(t, Starts(t)), Only(t, Has(t)))
    BY DEF Player_get_by_name
<1>5. Only(r, Starts(table)) = Only(table, Starts(table)) /\ Only(r, Has(table)) = Only(table, Has(table))
    BY OnlyReversed
<1> HIDE DEF r, Starts, Has, Said
<1>6. Player_get_by_name(str, r) = Player_get_by_name(str, table) BY <1>2, <1>3, <1>4, <1>5
<1> QED BY <1>6 DEF r

LEMMA NicksAreMeant ==
    ASSUME Table(nicks)
    PROVE  OneIsMeant
<1>1. ASSUME NEW i \in DOMAIN nicks PROVE Player_get_by_name(nicks[i], nicks) = nicks[i]
  <2>1. nicks[i] \in Strings(Letters, MaxNick) \ {<<>>} BY DEF Table
  <2>2. nicks[i] # <<>> /\ nicks[i] # NoName BY <2>1, NoNames
  <2>3. Player_get_by_name_exact(nicks[i], nicks) = nicks[i]
    <3>1. nicks[i] \in Range(nicks) BY DEF Range
    <3> QED BY <3>1, ExactIs
  <2> QED BY <2>2, <2>3 DEF Player_get_by_name
<1> QED BY <1>1, OrderIsNoMatter DEF OneIsMeant

\* Whatever name is entered, what is made of it passes the check, and a name that passes is kept;
\* whoever is in the table, each can be addressed by the nick, and who is meant by a part of
\* one does not depend on the order of the table.
THEOREM NamesAreSafe == NamesSpec => []NamesSafe
<1> DEFINE Inv == entered \in Seq(Chars) /\ Table(nicks)
<1>1. NamesInit => Inv
  <2> SUFFICES ASSUME NamesInit PROVE Inv OBVIOUS
  <2>1. <<>> \in Seq(Chars) /\ Table(<<>>)
    <3>1. <<>> \in Seq(Chars) /\ <<>> \in Seq(Strings(Letters, MaxNick) \ {<<>>}) /\ Len(<<>>) = 0 OBVIOUS
    <3>2. 1 .. 0 = {} OBVIOUS
    <3> QED BY <3>1, <3>2 DEF Table
  <2>2. CASE entered \in Strings(Chars, MAX_NAME_LEN) /\ nicks = <<>>
    <3>1. entered \in Seq(Chars) BY <2>2, StringIs, NamesAssumption
    <3> QED BY <2>1, <2>2, <3>1
  <2>3. CASE /\ entered = <<>>
             /\ nicks \in [1 .. NumNicks -> Strings(Letters, MaxNick) \ {<<>>}]
             /\ \A i, j \in DOMAIN nicks : nicks[i] = nicks[j] => i = j
    <3> DEFINE S == Strings(Letters, MaxNick) \ {<<>>}
    <3>1. nicks \in [1 .. NumNicks -> S] BY <2>3
    <3> HIDE DEF S
    <3>2. nicks \in Seq(S) /\ DOMAIN nicks = 1 .. Len(nicks) BY <3>1, NamesAssumption
    <3>3. Table(nicks) BY <2>3, <3>2 DEF Table, S
    <3> QED BY <2>1, <2>3, <3>3
  <2> QED BY <2>2, <2>3 DEF NamesInit
<1>2. Inv /\ [FALSE]_nameVars => Inv'
  <2> SUFFICES ASSUME Inv, UNCHANGED nameVars PROVE Inv' OBVIOUS
  <2> QED BY DEF nameVars, Table
<1>3. Inv => NamesSafe BY EnteredFixed, NicksAreMeant DEF NamesSafe
<1> HIDE DEF Inv
<1> QED BY <1>1, <1>2, <1>3, PTL DEF NamesSpec

LEMMA Divided ==
    ASSUME NEW a \in Int, NEW b \in Nat, b > 0
    PROVE  /\ a \div b \in Int /\ a % b \in 0 .. b - 1
           /\ a = b * (a \div b) + (a % b)
OBVIOUS

LEMMA ProductBelow ==
    ASSUME NEW a \in Int, NEW c \in Int, NEW b \in Nat, b > 0, a * b < c * b
    PROVE  a < c
OBVIOUS

LEMMA ProductGrows ==
    ASSUME NEW a \in Int, NEW c \in Int, NEW b \in Nat, a <= c
    PROVE  a * b <= c * b
OBVIOUS

\* There is one quotient and one remainder.
LEMMA DividesAs ==
    ASSUME NEW q \in Int, NEW b \in Nat, NEW r \in 0 .. b - 1, NEW a \in Int, a = q * b + r
    PROVE  a \div b = q /\ a % b = r
<1>1. b > 0 OBVIOUS
<1>2. /\ a \div b \in Int /\ a % b \in 0 .. b - 1
      /\ a = b * (a \div b) + (a % b)
  BY <1>1, Divided
<1> DEFINE p == a \div b
           s == a % b
<1> HIDE DEF p, s
<1>3. p * b + s = q * b + r /\ p \in Int /\ s \in 0 .. b - 1 BY <1>2 DEF p, s
<1>4. p = q
  <2>1. CASE p < q
    <3>1. (p + 1) * b <= q * b BY <2>1, <1>3, ProductGrows
    <3>2. (p + 1) * b = p * b + b BY <1>3
    <3> QED BY <3>1, <3>2, <1>3
  <2>2. CASE q < p
    <3>1. (q + 1) * b <= p * b BY <2>2, <1>3, ProductGrows
    <3>2. (q + 1) * b = q * b + b BY <1>3
    <3> QED BY <3>1, <3>2, <1>3
  <2> QED BY <1>3, <2>1, <2>2
<1>5. s = r BY <1>3, <1>4
<1> QED BY <1>4, <1>5 DEF p, s

-----------------------------------------------------------------------------
\* The states of the view.
Seen ==
    /\ wrap \in BOOLEAN
    /\ \A i \in Axis : ship[i] \in 0 .. MapSize[i] - 1 /\ shot.pos[i] \in 0 .. MapSize[i] - 1
    /\ shot.kind \in {"shot", "debris"} /\ shot.color \in Colors
    /\ shot.obj_life \in Nat /\ shot.mate \in BOOLEAN
    /\ shot.kind = "debris" => ~shot.mate

LEMMA InitIsSeen == ViewInit => Seen
<1> SUFFICES ASSUME ViewInit PROVE Seen OBVIOUS
<1>1. /\ MapSize[1] \in Nat /\ MapSize[2] \in Nat /\ Lives \subseteq Nat
  BY ViewAssumption
<1>2. PICK pos \in Points, color \in Colors :
           \/ \E mate \in BOOLEAN :
                  shot = [kind |-> "shot", pos |-> pos, color |-> color, obj_life |-> 1, mate |-> mate]
           \/ \E life \in Lives :
                  shot = [kind |-> "debris", pos |-> pos, color |-> color, obj_life |-> life, mate |-> FALSE]
  BY DEF ViewInit
<1>3. shot.pos = pos /\ shot.color = color /\ shot.kind \in {"shot", "debris"}
      /\ shot.obj_life \in Nat /\ shot.mate \in BOOLEAN /\ (shot.kind = "debris" => ~shot.mate)
  <2>1. ASSUME NEW mate \in BOOLEAN,
               shot = [kind |-> "shot", pos |-> pos, color |-> color, obj_life |-> 1, mate |-> mate]
        PROVE  shot.pos = pos /\ shot.color = color /\ shot.kind \in {"shot", "debris"}
               /\ shot.obj_life \in Nat /\ shot.mate \in BOOLEAN /\ (shot.kind = "debris" => ~shot.mate)
    BY <2>1
  <2>2. ASSUME NEW life \in Lives,
               shot = [kind |-> "debris", pos |-> pos, color |-> color, obj_life |-> life,
                      mate |-> FALSE]
        PROVE  shot.pos = pos /\ shot.color = color /\ shot.kind \in {"shot", "debris"}
               /\ shot.obj_life \in Nat /\ shot.mate \in BOOLEAN /\ (shot.kind = "debris" => ~shot.mate)
    BY <1>1, <2>2
  <2> QED BY <1>2, <2>1, <2>2
<1>4. \A p \in Points : p[1] \in 0 .. MapSize[1] - 1 /\ p[2] \in 0 .. MapSize[2] - 1
  BY DEF Points
<1>5. ship \in Points /\ wrap \in BOOLEAN BY DEF ViewInit
<1> QED BY <1>2, <1>3, <1>4, <1>5 DEF Seen, Axis

\* Along one axis: what lies between the edges of one of the two views lies at the
\* distance Placed from the corner, and what lies at a distance is between them.
LEMMA AlongAxis ==
    ASSUME Seen, NEW i \in Axis
    PROVE  /\ (\E c \in {world(i), realWorld(i)} : c < shot.pos[i] /\ shot.pos[i] < c + View[i])
                  => Placed(i) \in Offsets(i)
           /\ Offsets(i) # {}
                  => \E c \in {world(i), realWorld(i)} : c < shot.pos[i] /\ shot.pos[i] < c + View[i]
<1> DEFINE M == MapSize[i]
           V == View[i]
           C == Corner(i)
           p == shot.pos[i]
           w == world(i)
           r == realWorld(i)
           P == Placed(i)
<1>1. /\ M \in Nat /\ V \in Nat /\ 0 < V /\ V < M /\ p \in 0 .. M - 1
      /\ C \in Int /\ - (V \div 2) <= C /\ C < M
  BY ViewAssumption DEF Seen, Axis, Corner
<1>2. V \div 2 \in Nat /\ V \div 2 < V BY <1>1
<1>3. /\ w = IF wrap /\ C < 0 /\ C + V < M THEN C + M ELSE C
      /\ r = IF wrap /\ C > 0 /\ C + V >= M THEN C - M ELSE C
      /\ P = IF p - w < 0 THEN p - w + M ELSE p - w
  BY DEF world, realWorld, Placed
<1>4. \A d : d \in Offsets(i) <=>
                 /\ d \in 1 .. V - 1
                 /\ \E k \in IF wrap THEN {-1, 0, 1} ELSE {0} : p + k * M - C = d
  BY DEF Offsets
<1>5. wrap \in BOOLEAN BY DEF Seen
<1> HIDE DEF M, V, C, p, w, r, P
<1>6. ASSUME NEW c \in {w, r}, c < p /\ p < c + V
      PROVE  P \in 1 .. V - 1 /\ \E k \in IF wrap THEN {-1, 0, 1} ELSE {0} : p + k * M - C = P
  <2>1. CASE ~wrap
    <3>1. P = p - C /\ P \in 1 .. V - 1 BY <1>1, <1>3, <1>6, <2>1
    <3>2. p + 0 * M - C = P BY <3>1, <1>1
    <3> QED BY <3>1, <3>2, <2>1
  <2>2. CASE wrap /\ C < 0
    <3>1. w = C + M /\ r = C BY <2>2, <1>1, <1>2, <1>3
    <3>2. CASE c = w
      <4>1. P = p - C - M /\ P \in 1 .. V - 1 BY <3>1, <3>2, <1>1, <1>3, <1>6
      <4>2. p + (-1) * M - C = P BY <4>1, <1>1
      <4> QED BY <4>1, <4>2, <2>2
    <3>3. CASE c = r
      <4>1. P = p - C /\ P \in 1 .. V - 1 BY <3>1, <3>3, <1>1, <1>2, <1>3, <1>6, <2>2
      <4>2. p + 0 * M - C = P BY <4>1, <1>1
      <4> QED BY <4>1, <4>2, <2>2
    <3> QED BY <3>2, <3>3
  <2>3. CASE wrap /\ C >= 0
    <3>1. w = C BY <2>3, <1>1, <1>3
    <3>2. CASE c = C
      <4>1. P = p - C /\ P \in 1 .. V - 1 BY <3>1, <3>2, <1>1, <1>3, <1>6
      <4>2. p + 0 * M - C = P BY <4>1, <1>1
      <4> QED BY <4>1, <4>2, <2>3
    <3>3. CASE c # C
      <4>1. c = C - M BY <3>1, <3>3, <1>3
      <4>2. P = p - C + M /\ P \in 1 .. V - 1 BY <3>1, <4>1, <1>1, <1>3, <1>6, <2>3
      <4>3. p + 1 * M - C = P BY <4>2, <1>1
      <4> QED BY <4>2, <4>3, <2>3
    <3> QED BY <3>2, <3>3
  <2> QED BY <2>1, <2>2, <2>3, <1>1
<1>7. ASSUME NEW d \in 1 .. V - 1,
             NEW k \in IF wrap THEN {-1, 0, 1} ELSE {0}, p + k * M - C = d
      PROVE  \E c \in {w, r} : c < p /\ p < c + V
  <2>1. CASE k = 0
    <3>1. p - C = d BY <2>1, <1>1, <1>7
    <3>2. C < p /\ p < C + V BY <3>1, <1>1
    <3>3. C \in {w, r} BY <1>1, <1>3
    <3> QED BY <3>2, <3>3
  <2>2. CASE k = 1
    <3>0. wrap BY <2>2
    <3>1. p + M - C = d BY <2>2, <1>1, <1>7
    <3>2. C - M < p /\ p < C - M + V /\ C > 0 /\ C + V >= M BY <3>1, <1>1
    <3>3. r = C - M BY <1>3, <3>0, <3>2
    <3> QED BY <3>2, <3>3
  <2>3. CASE k = -1
    <3>0. wrap BY <2>3
    <3>1. p - M - C = d BY <2>3, <1>1, <1>7
    <3>2. C + M < p /\ p < C + M + V /\ C < 0 BY <3>1, <1>1
    <3>3. w = C + M BY <1>1, <1>2, <1>3, <3>0, <3>2
    <3> QED BY <3>2, <3>3
  <2> QED BY <2>1, <2>2, <2>3
<1>8. (\E c \in {w, r} : c < p /\ p < c + V) => P \in Offsets(i)
  BY <1>4, <1>6
<1>9. Offsets(i) # {} => \E c \in {w, r} : c < p /\ p < c + V
  BY <1>4, <1>7
<1> QED BY <1>8, <1>9 DEF w, r, p, P, V

\* A distance within the view is in one of its areas.
LEMMA InArea ==
    ASSUME NEW i \in Axis, NEW d \in 0 .. View[i] - 1
    PROVE  /\ Areas(i) \in Nat /\ Areas(i) > 0
           /\ d \div Area \in 0 .. Areas(i) - 1 /\ (d \div Area) % Areas(i) = d \div Area
           /\ d % Area \in 0 .. Area - 1
           /\ d = (d % Area) + Area * (d \div Area)
<1> DEFINE V == View[i]
           A == Areas(i)
           q == d \div Area
           m == d % Area
           t == (V + Area - 1) % Area
<1>1. V \in Nat /\ V > 0 /\ Area \in Nat /\ Area > 0 /\ d \in 0 .. V - 1
  BY ViewAssumption DEF Axis
<1>2. q \in Int /\ m \in 0 .. Area - 1 /\ d = Area * q + m
  BY <1>1, Divided
<1>3. A \in Int /\ t \in 0 .. Area - 1 /\ V + Area - 1 = Area * A + t
  <2>1. V + Area - 1 \in Int BY <1>1
  <2> QED BY <1>1, <2>1, Divided DEF Areas
<1> HIDE DEF V, A, q, m, t
<1>4. q * Area < A * Area
  <2>1. Area * q = q * Area /\ Area * A = A * Area BY <1>1, <1>2, <1>3
  <2> QED BY <2>1, <1>1, <1>2, <1>3
<1>5. q < A BY <1>1, <1>2, <1>3, <1>4, ProductBelow
<1>6. q >= 0
  <2>1. (q + 1) * Area = Area * q + Area BY <1>1, <1>2
  <2>2. 0 * Area < (q + 1) * Area BY <2>1, <1>1, <1>2
  <2>3. 0 < q + 1 BY <1>1, <1>2, <2>2, ProductBelow
  <2> QED BY <2>3, <1>2
<1>7. q % A = q
  <2>1. q = 0 * A + q BY <1>2, <1>3
  <2>2. A \in Nat /\ q \in 0 .. A - 1 BY <1>2, <1>3, <1>5, <1>6
  <2> QED BY <2>1, <2>2, DividesAs
<1>8. d = m + Area * q BY <1>1, <1>2
<1> QED BY <1>2, <1>3, <1>5, <1>6, <1>7, <1>8 DEF A, q, m, V

\* The number of a list, of D lists of a colour in rows of A1, and what it says.
Numbered(n, D, E, A1, A2, mate, color, row, col) ==
    /\ A1 \in Nat /\ A2 \in Nat /\ row \in 0 .. A2 - 1 /\ col \in 0 .. A1 - 1
    /\ D = A1 * A2 /\ E = 8 * D
    /\ n = mate * E + color * D + row * A1 + col
Says(n, D, E, A1, mate, color, row, col) ==
    /\ (n % D) % A1 = col /\ (n % D) \div A1 = row
    /\ n >= E <=> mate = 1
    /\ n < 2 * E
    /\ (n % E) \div D = color

\* The number of a list can be taken apart again.
LEMMA ListNumber ==
    ASSUME NEW A1, NEW A2, NEW row, NEW col, NEW mate \in {0, 1}, NEW color \in 0 .. 7,
           NEW n, NEW D, NEW E, Numbered(n, D, E, A1, A2, mate, color, row, col)
    PROVE  Says(n, D, E, A1, mate, color, row, col)
<1> USE DEF Numbered
<1> DEFINE cell == row * A1 + col
           low == color * D + cell
<1>1. D \in Nat /\ E \in Nat /\ row * A1 \in Int /\ cell \in Int OBVIOUS
<1>2. cell \in 0 .. D - 1
  <2>1. (row + 1) * A1 <= A2 * A1 BY ProductGrows
  <2>2. (row + 1) * A1 = row * A1 + A1 /\ A2 * A1 = D OBVIOUS
  <2>3. row * A1 >= 0 * A1 BY ProductGrows
  <2> QED BY <1>1, <2>1, <2>2, <2>3
<1>3. cell \div A1 = row /\ cell % A1 = col BY <1>1, DividesAs
<1>4. n = mate * E + low BY <1>1
<1> HIDE DEF cell
<1>5. low \in 0 .. E - 1
  <2>1. (color + 1) * D <= 8 * D BY <1>1, ProductGrows
  <2>2. (color + 1) * D = color * D + D BY <1>1
  <2>3. color * D >= 0 * D BY <1>1, ProductGrows
  <2>4. color * D \in Int /\ 0 * D = 0 BY <1>1
  <2> QED BY <1>1, <1>2, <2>1, <2>2, <2>3, <2>4
<1>6. low \div D = color BY <1>1, <1>2, <1>5, DividesAs
<1>7. n = (8 * mate + color) * D + cell
  <2>1. (8 * mate + color) * D = mate * E + color * D BY <1>1
  <2> QED BY <1>1, <1>2, <1>4, <2>1
<1>8. n \in Int BY <1>1, <1>4, <1>5
<1>9. n % D = cell
  <2>1. 8 * mate + color \in Int OBVIOUS
  <2> QED BY <1>1, <1>2, <1>7, <1>8, <2>1, DividesAs
<1> HIDE DEF low
<1>10. n % E = low BY <1>1, <1>4, <1>5, <1>8, DividesAs
<1>11. (n >= E <=> mate = 1) /\ n < 2 * E
  <2>1. CASE mate = 0 BY <2>1, <1>1, <1>4, <1>5
  <2>2. CASE mate = 1 BY <2>2, <1>1, <1>4, <1>5
  <2> QED BY <2>1, <2>2
<1> QED BY <1>3, <1>6, <1>9, <1>10, <1>11 DEF Says

\* What is stored is drawn where it is placed.
LEMMA StoredIsDrawn ==
    ASSUME NEW mate \in {0, 1}, NEW color \in 0 .. 7,
           \A i \in Axis : Placed(i) \in 0 .. View[i] - 1,
           NEW s \in Stored(color, mate * DEBRIS_TYPES)
    PROVE  /\ Drawn(s[1], s[2], 1) = Placed(1) /\ Drawn(s[1], s[3], 2) = Placed(2)
           /\ s[1] >= DEBRIS_TYPES <=> mate = 1
           /\ s[1] < 2 * DEBRIS_TYPES
           /\ (s[1] % DEBRIS_TYPES) \div debris_areas = color
<1> DEFINE A1 == Areas(1)
           A2 == Areas(2)
           p1 == Placed(1)
           p2 == Placed(2)
           row == p2 \div Area
           col == p1 \div Area
           D == debris_areas
           E == DEBRIS_TYPES
           n == mate * E + color * D + row * A1 + col
<1>1. 1 \in Axis /\ 2 \in Axis BY DEF Axis
<1>2. /\ A1 \in Nat /\ A1 > 0 /\ col \in 0 .. A1 - 1 /\ col % A1 = col
      /\ p1 % Area \in 0 .. Area - 1 /\ p1 = (p1 % Area) + Area * col
  BY <1>1, InArea
<1>3. /\ A2 \in Nat /\ A2 > 0 /\ row \in 0 .. A2 - 1 /\ row % A2 = row
      /\ p2 % Area \in 0 .. Area - 1 /\ p2 = (p2 % Area) + Area * row
  BY <1>1, InArea
<1>4. D = A1 * A2 /\ E = 8 * D BY DEF debris_areas, DEBRIS_TYPES
<1>5. s = <<mate * E + color * D + (row % A2) * A1 + (col % A1),
            p1 % Area, p2 % Area>>
  BY DEF Stored
<1>6. s[1] = n /\ s[2] = p1 % Area /\ s[3] = p2 % Area BY <1>2, <1>3, <1>4, <1>5
<1>7. /\ (n % D) % A1 = col /\ (n % D) \div A1 = row
      /\ n >= E <=> mate = 1
      /\ n < 2 * E
      /\ (n % E) \div D = color
  <2>1. n = mate * E + color * D + row * A1 + col OBVIOUS
  <2> HIDE DEF A1, A2, D, E, row, col, n
  <2>2. A1 \in Nat /\ A2 \in Nat /\ row \in 0 .. A2 - 1 /\ col \in 0 .. A1 - 1 BY <1>2, <1>3
  <2>3. D = A1 * A2 BY <1>4
  <2>4. E = 8 * D BY <1>4
  <2>5. Numbered(n, D, E, A1, A2, mate, color, row, col)
    BY <2>1, <2>2, <2>3, <2>4 DEF Numbered
  <2>6. Says(n, D, E, A1, mate, color, row, col) BY <2>5, ListNumber
  <2> QED BY <2>6 DEF Says
<1>8. Drawn(s[1], s[2], 1) = p1
  <2>1. Drawn(s[1], s[2], 1) = s[2] + Area * ((s[1] % D) % A1) BY DEF Drawn
  <2> QED BY <2>1, <1>2, <1>4, <1>6, <1>7
<1>9. Drawn(s[1], s[3], 2) = p2
  <2>1. Drawn(s[1], s[3], 2) = s[3] + Area * ((s[1] % D) \div A1) BY DEF Drawn
  <2> QED BY <2>1, <1>3, <1>4, <1>6, <1>7
<1> QED BY <1>4, <1>6, <1>7, <1>8, <1>9

\* A temperature is one of the client's colours.
LEMMA HeatIsAColor ==
    ASSUME Seen
    PROVE  Heat \in 0 .. 7 /\ (DebrisColors >= 3 => Heat < DebrisColors)
<1>1. DebrisColors \in 0 .. 8 /\ shot.color \in 1 .. 3 /\ shot.obj_life \in Nat
  BY ViewAssumption DEF Seen, Colors
<1> DEFINE warm == IF DebrisColors > 4 THEN 2 ELSE 4
           b == IF shot.color = BLUE THEN warm ELSE 2 * warm
           m == shot.obj_life \div b
<1>2. b \in {2, 4, 8} OBVIOUS
<1>3. m \in Nat
  <2>1. shot.obj_life \div 2 \in Nat /\ shot.obj_life \div 4 \in Nat /\ shot.obj_life \div 8 \in Nat
    BY <1>1
  <2> QED BY <1>2, <2>1
<1>4. Heat = IF DebrisColors < 3 THEN shot.color
             ELSE IF m >= DebrisColors THEN DebrisColors - 1 ELSE m
  BY DEF Heat
<1> HIDE DEF m
<1>5. CASE DebrisColors < 3 BY <1>4, <1>5, <1>1
<1>6. CASE DebrisColors >= 3 /\ m >= DebrisColors BY <1>4, <1>6, <1>1, <1>3
<1>7. CASE DebrisColors >= 3 /\ m < DebrisColors BY <1>4, <1>7, <1>1, <1>3
<1> QED BY <1>1, <1>3, <1>5, <1>6, <1>7

-----------------------------------------------------------------------------
\* In each of these states what is in view is drawn where it is.
LEMMA SeenIsDrawn == Seen => ShotsAreDrawn
<1> SUFFICES ASSUME Seen PROVE ShotsAreDrawn OBVIOUS
<1>1. CASE ~inview(shot.pos)
  <2>1. Frame_shots = {} BY <1>1 DEF Frame_shots
  <2>2. PICK i \in Axis : ~\E c \in {world(i), realWorld(i)} :
                               c < shot.pos[i] /\ shot.pos[i] < c + View[i]
    BY <1>1 DEF inview
  <2>3. Offsets(i) = {} BY <2>2, AlongAxis
  <2> QED BY <2>1, <2>3 DEF ShotsAreDrawn
<1>2. CASE inview(shot.pos)
  <2>1. \A i \in Axis : Placed(i) \in Offsets(i)
    BY <1>2, AlongAxis DEF inview
  <2>2. \A i \in Axis : Placed(i) \in 0 .. View[i] - 1
    <3>1. \A i \in Axis : Offsets(i) \subseteq 1 .. View[i] - 1 BY DEF Offsets
    <3>2. \A i \in Axis : View[i] \in Nat BY ViewAssumption DEF Axis
    <3> QED BY <2>1, <3>1, <3>2
  <2>3. PICK mate \in {0, 1}, color \in 0 .. 7 :
            /\ Frame_shots = Stored(color, mate * DEBRIS_TYPES)
            /\ mate = 1 <=> shot.mate
            /\ IF shot.kind = "shot" THEN color = IF shot.mate THEN BLUE ELSE shot.color
               ELSE DebrisColors >= 3 => color < DebrisColors
    <3>1. /\ shot.kind = "debris" => Frame_shots = Stored(Heat, 0)
          /\ shot.kind = "shot" /\ shot.mate => Frame_shots = Stored(BLUE, DEBRIS_TYPES)
          /\ shot.kind = "shot" /\ ~shot.mate => Frame_shots = Stored(shot.color, 0)
      BY <1>2 DEF Frame_shots
    <3>2. DEBRIS_TYPES \in Int
      <4>1. \A i \in Axis : 0 \in 0 .. View[i] - 1 BY ViewAssumption DEF Axis
      <4>2. Areas(1) \in Nat /\ Areas(2) \in Nat BY <4>1, InArea DEF Axis
      <4> QED BY <4>2 DEF DEBRIS_TYPES, debris_areas
    <3>3. 0 * DEBRIS_TYPES = 0 /\ 1 * DEBRIS_TYPES = DEBRIS_TYPES BY <3>2
    <3>4. shot.color \in 0 .. 7 /\ BLUE \in 0 .. 7 BY DEF Seen, Colors, BLUE
    <3>5. shot.kind \in {"shot", "debris"} /\ shot.mate \in BOOLEAN
          /\ (shot.kind = "debris" => ~shot.mate)
      BY DEF Seen
    <3>6. CASE shot.kind = "debris"
      <4>1. Heat \in 0 .. 7 /\ (DebrisColors >= 3 => Heat < DebrisColors) BY HeatIsAColor
      <4> QED BY <3>1, <3>3, <3>5, <3>6, <4>1
    <3>7. CASE shot.kind = "shot" /\ shot.mate BY <3>1, <3>3, <3>4, <3>7
    <3>8. CASE shot.kind = "shot" /\ ~shot.mate BY <3>1, <3>3, <3>4, <3>8
    <3> QED BY <3>5, <3>6, <3>7, <3>8
  <2>4. Frame_shots # {} BY <2>2, <2>3 DEF Stored
  <2>5. ASSUME NEW s \in Frame_shots
        PROVE  /\ Drawn(s[1], s[2], 1) \in Offsets(1) /\ Drawn(s[1], s[3], 2) \in Offsets(2)
               /\ s[1] >= DEBRIS_TYPES <=> shot.mate
               /\ s[1] < 2 * DEBRIS_TYPES
               /\ LET c == (s[1] % DEBRIS_TYPES) \div debris_areas
                  IN  IF shot.kind = "shot" THEN c = IF shot.mate THEN BLUE ELSE shot.color
                      ELSE DebrisColors >= 3 => c < DebrisColors
    <3>1. /\ Drawn(s[1], s[2], 1) = Placed(1) /\ Drawn(s[1], s[3], 2) = Placed(2)
          /\ s[1] >= DEBRIS_TYPES <=> mate = 1
          /\ s[1] < 2 * DEBRIS_TYPES
          /\ (s[1] % DEBRIS_TYPES) \div debris_areas = color
      BY <2>2, <2>3, StoredIsDrawn
    <3>2. 1 \in Axis /\ 2 \in Axis BY DEF Axis
    <3> QED BY <3>1, <3>2, <2>1, <2>3
  <2> QED BY <2>1, <2>4, <2>5 DEF ShotsAreDrawn
<1> QED BY <1>1, <1>2

\* Whatever the sizes of the map and of the view: what frame.cpp sends of a shot or a spark is
\* nothing if it is not in the view, and otherwise says where in the view it is, in which colour,
\* and whose.
THEOREM ShotsAreSeen == ViewSpec => []ShotsAreDrawn
<1>1. ViewInit => Seen BY InitIsSeen
<1>2. Seen /\ [FALSE]_viewVars => Seen' BY DEF Seen, viewVars
<1>3. Seen => ShotsAreDrawn BY SeenIsDrawn
<1> QED BY <1>1, <1>2, <1>3, PTL DEF ViewSpec

-----------------------------------------------------------------------------
(* The cells: what the chains are after n objects.                         *)

NumObjects == Len(Objs)

LEMMA ObjectFacts ==
    /\ NumObjects \in Nat /\ DOMAIN Objs = 1 .. NumObjects
    /\ \A i \in 1 .. NumObjects : Objs[i] \in Objects
    /\ \A o \in Objects : \E i \in 1 .. NumObjects : o = Objs[i]
    /\ \A i, j \in 1 .. NumObjects : Objs[i] = Objs[j] => i = j
    /\ Null \notin Objects
BY CellsAssumption DEF NumObjects, Objects, Range, IsInjective

\* o is the last of the first n objects that are in the block b, or there is none.
LastIn(o, where, b, n) ==
    \/ o = Null /\ \A k \in 1 .. n : where[Objs[k]] # b
    \/ \E i \in 1 .. n : /\ o = Objs[i] /\ where[Objs[i]] = b
                         /\ \A k \in 1 .. n : where[Objs[k]] = b => k <= i

\* The chains when n objects have been looked at.
Built(s, where, n) ==
    /\ DOMAIN s.Cells = Blocks /\ DOMAIN s.cell_prev = Objects
    /\ s.UsedCells \in Seq(Blocks)
    /\ \A b \in Blocks : LastIn(s.Cells[b], where, b, n)
    /\ \A b \in Blocks : s.Cells[b] # Null => b \in Range(s.UsedCells)
    /\ \A i \in 1 .. NumObjects :
           IF i <= n /\ where[Objs[i]] # Null
           THEN LastIn(s.cell_prev[Objs[i]], where, where[Objs[i]], i - 1)
           ELSE s.cell_prev[Objs[i]] = Null

Places == [Objects -> Blocks \cup {Null}]

NullIsNoBlock == Null \notin Blocks

LEMMA OneMoreLast ==
    ASSUME NEW where, NEW n \in 1 .. NumObjects, NEW b,
           NEW o, LastIn(o, where, b, n - 1), where[Objs[n]] # b
    PROVE  LastIn(o, where, b, n)
<1>1. n \in Nat /\ \A k \in 1 .. n : k \in 1 .. n - 1 \/ k = n BY ObjectFacts
<1>2. \A k \in 1 .. n - 1 : k \in 1 .. n BY ObjectFacts
<1>3. CASE o = Null /\ \A k \in 1 .. n - 1 : where[Objs[k]] # b BY <1>1, <1>3 DEF LastIn
<1>4. CASE \E i \in 1 .. n - 1 : /\ o = Objs[i] /\ where[Objs[i]] = b
                                 /\ \A k \in 1 .. n - 1 : where[Objs[k]] = b => k <= i
  <2>1. PICK i \in 1 .. n - 1 : /\ o = Objs[i] /\ where[Objs[i]] = b
                                /\ \A k \in 1 .. n - 1 : where[Objs[k]] = b => k <= i
    BY <1>4
  <2>2. \A k \in 1 .. n : where[Objs[k]] = b => k <= i BY <1>1, <2>1
  <2> QED BY <1>2, <2>1, <2>2 DEF LastIn
<1> QED BY <1>3, <1>4 DEF LastIn

\* Collision_cells_init, one object.
LEMMA OneMoreBuilt ==
    ASSUME NEW where \in Places, NEW n \in 1 .. NumObjects, NEW s, Built(s, where, n - 1),
           NullIsNoBlock
    PROVE  Built(Chained(where, Objs[n], s), where, n)
<1> DEFINE obj == Objs[n]
           cell == where[obj]
           t == Chained(where, obj, s)
<1>1. obj \in Objects /\ cell \in Blocks \cup {Null} /\ n \in Nat /\ obj # Null
  BY ObjectFacts DEF Places
<1>2. \A i \in 1 .. NumObjects : i <= n <=> i <= n - 1 \/ i = n BY ObjectFacts
<1>3. CASE cell = Null
  <2>1. t = s BY <1>3 DEF Chained
  <2>2. \A b \in Blocks : LastIn(s.Cells[b], where, b, n)
    BY <1>3, OneMoreLast DEF NullIsNoBlock, Built
  <2>3. ASSUME NEW i \in 1 .. NumObjects
        PROVE  IF i <= n /\ where[Objs[i]] # Null
               THEN LastIn(s.cell_prev[Objs[i]], where, where[Objs[i]], i - 1)
               ELSE s.cell_prev[Objs[i]] = Null
    <3>1. IF i <= n - 1 /\ where[Objs[i]] # Null
          THEN LastIn(s.cell_prev[Objs[i]], where, where[Objs[i]], i - 1)
          ELSE s.cell_prev[Objs[i]] = Null
      BY DEF Built
    <3> QED BY <3>1, <1>2, <1>3
  <2>4. DOMAIN s.Cells = Blocks /\ DOMAIN s.cell_prev = Objects
        /\ s.UsedCells \in Seq(Blocks)
        /\ \A b \in Blocks : s.Cells[b] # Null => b \in Range(s.UsedCells)
    BY DEF Built
  <2>5. Built(s, where, n) BY <2>2, <2>3, <2>4 DEF Built
  <2> QED BY <2>1, <2>5
<1>4. CASE cell # Null
  <2> DEFINE used == IF s.Cells[cell] # Null THEN s.UsedCells ELSE Append(s.UsedCells, cell)
  <2>1. cell \in Blocks BY <1>1, <1>4
  <2>2. t = [Cells |-> [s.Cells EXCEPT ![cell] = obj],
             cell_prev |-> [s.cell_prev EXCEPT ![obj] = s.Cells[cell]],
             UsedCells |-> used]
    BY <1>4 DEF Chained
  <2>3. DOMAIN s.Cells = Blocks /\ DOMAIN s.cell_prev = Objects /\ s.UsedCells \in Seq(Blocks)
    BY DEF Built
  <2>4. /\ DOMAIN t.Cells = Blocks /\ DOMAIN t.cell_prev = Objects
        /\ t.Cells[cell] = obj /\ \A b \in Blocks : b # cell => t.Cells[b] = s.Cells[b]
        /\ t.cell_prev[obj] = s.Cells[cell]
        /\ \A o \in Objects : o # obj => t.cell_prev[o] = s.cell_prev[o]
        /\ t.UsedCells = used
    <3> HIDE DEF used, cell, obj
    <3> QED BY <1>1, <2>1, <2>2, <2>3
  <2>5. used \in Seq(Blocks) /\ \A b \in Blocks : b \in Range(s.UsedCells) \/ (s.Cells[cell] = Null /\ b = cell) => b \in Range(used)
    <3>1. CASE s.Cells[cell] # Null BY <3>1, <2>3
    <3>2. CASE s.Cells[cell] = Null
      <4>1. used = Append(s.UsedCells, cell) BY <3>2
      <4>2. used \in Seq(Blocks) BY <4>1, <2>1, <2>3
      <4>3. Len(s.UsedCells) \in Nat /\ DOMAIN s.UsedCells = 1 .. Len(s.UsedCells) BY <2>3
      <4>4. DOMAIN used = 1 .. Len(s.UsedCells) + 1 /\ used[Len(s.UsedCells) + 1] = cell
            /\ \A i \in 1 .. Len(s.UsedCells) : used[i] = s.UsedCells[i]
        BY <4>1, <2>1, <2>3, <4>3
      <4>5. (\A i \in 1 .. Len(s.UsedCells) : i \in DOMAIN used) /\ Len(s.UsedCells) + 1 \in DOMAIN used
        BY <4>3, <4>4
      <4> HIDE DEF used
      <4> QED BY <4>2, <4>3, <4>4, <4>5 DEF Range
    <3> QED BY <3>1, <3>2
  <2>6. ASSUME NEW b \in Blocks PROVE LastIn(t.Cells[b], where, b, n)
    <3>1. CASE b = cell
      <4>1. \A k \in 1 .. n : k <= n BY <1>1
      <4>2. n \in 1 .. n BY <1>1
      <4> HIDE DEF t
      <4> QED BY <2>4, <3>1, <4>1, <4>2 DEF LastIn
    <3>2. CASE b # cell
      <4>1. LastIn(s.Cells[b], where, b, n - 1) BY DEF Built
      <4>2. LastIn(s.Cells[b], where, b, n) BY <3>2, <4>1, OneMoreLast
      <4> QED BY <2>4, <3>2, <4>2
    <3> QED BY <3>1, <3>2
  <2>7. \A b \in Blocks : t.Cells[b] # Null => b \in Range(t.UsedCells)
    <3>1. \A b \in Blocks : s.Cells[b] # Null => b \in Range(s.UsedCells) BY DEF Built
    <3> HIDE DEF t, used
    <3> QED BY <2>1, <2>4, <2>5, <3>1
  <2>8. ASSUME NEW i \in 1 .. NumObjects
        PROVE  IF i <= n /\ where[Objs[i]] # Null
               THEN LastIn(t.cell_prev[Objs[i]], where, where[Objs[i]], i - 1)
               ELSE t.cell_prev[Objs[i]] = Null
    <3>1. CASE i = n
      <4>1. LastIn(s.Cells[cell], where, cell, n - 1) BY <2>1 DEF Built
      <4>2. i <= n BY <3>1, <1>1
      <4> HIDE DEF t
      <4> QED BY <1>4, <2>4, <3>1, <4>1, <4>2
    <3>2. CASE i # n
      <4>1. Objs[i] # obj /\ Objs[i] \in Objects BY <3>2, ObjectFacts
      <4>2. t.cell_prev[Objs[i]] = s.cell_prev[Objs[i]] BY <2>4, <4>1
      <4>3. IF i <= n - 1 /\ where[Objs[i]] # Null
            THEN LastIn(s.cell_prev[Objs[i]], where, where[Objs[i]], i - 1)
            ELSE s.cell_prev[Objs[i]] = Null
        BY DEF Built
      <4> HIDE DEF t
      <4> QED BY <1>2, <3>2, <4>2, <4>3
    <3> QED BY <3>1, <3>2
  <2>9. Built(t, where, n)
    <3> HIDE DEF t, used
    <3> QED BY <2>4, <2>5, <2>6, <2>7, <2>8 DEF Built
  <2> QED BY <2>9
<1> QED BY <1>3, <1>4

Chains == INSTANCE FoldTheorems WITH Turn <- Chained

CellsStates ==
    [Cells : [Blocks -> Objects \cup {Null}], cell_prev : [Objects -> Objects \cup {Null}],
     UsedCells : Seq(Blocks)]

LEMMA ChainedFits ==
    ASSUME NEW where \in Places, NEW obj \in Objects, NEW s \in CellsStates
    PROVE  Chained(where, obj, s) \in CellsStates
<1>1. where[obj] \in Blocks \cup {Null} BY DEF Places
<1>2. CASE where[obj] = Null BY <1>2 DEF Chained
<1>3. CASE where[obj] # Null
  <2> DEFINE cell == where[obj]
             C == [s.Cells EXCEPT ![cell] = obj]
             p == [s.cell_prev EXCEPT ![obj] = s.Cells[cell]]
             u == IF s.Cells[cell] # Null THEN s.UsedCells ELSE Append(s.UsedCells, cell)
  <2>1. cell \in Blocks BY <1>1, <1>3
  <2>2. s.Cells \in [Blocks -> Objects \cup {Null}] /\ s.cell_prev \in [Objects -> Objects \cup {Null}]
        /\ s.UsedCells \in Seq(Blocks)
    BY DEF CellsStates
  <2>3. C \in [Blocks -> Objects \cup {Null}] /\ p \in [Objects -> Objects \cup {Null}]
    BY <2>1, <2>2
  <2>4. u \in Seq(Blocks) BY <2>1, <2>2
  <2>5. Chained(where, obj, s) = [Cells |-> C, cell_prev |-> p, UsedCells |-> u]
    BY <1>3 DEF Chained
  <2> HIDE DEF C, p, u
  <2> QED BY <2>3, <2>4, <2>5 DEF CellsStates
<1> QED BY <1>2, <1>3

\* Collision_cells_init, all objects.
LEMMA AllBuilt ==
    ASSUME NEW where \in Places, NEW s \in CellsStates, Built(s, where, 0), NullIsNoBlock
    PROVE  /\ Chains!OverSeq(where, s, Objs) \in CellsStates
           /\ Built(Chains!OverSeq(where, s, Objs), where, NumObjects)
<1> DEFINE A == [n \in 0 .. NumObjects |-> {t \in CellsStates : Built(t, where, n)}]
<1>1. Objs \in Seq(Objects) /\ DOMAIN Objs = 1 .. NumObjects /\ Len(Objs) = NumObjects
      /\ NumObjects \in Nat /\ \A i \in 1 .. NumObjects : Objs[i] \in Objects
  BY CellsAssumption, ObjectFacts DEF Objects, NumObjects
<1>2. Chains!Closed(where, {Objs[i] : i \in DOMAIN Objs}, CellsStates)
  <2> SUFFICES ASSUME NEW obj \in {Objs[i] : i \in DOMAIN Objs}, NEW t \in CellsStates
               PROVE  Chained(where, obj, t) \in CellsStates
      BY DEF Chains!Closed
  <2>1. obj \in Objects BY <1>1
  <2> QED BY <2>1, ChainedFits
<1>3. s \in A[0] \cap CellsStates
  <2>1. 0 \in 0 .. NumObjects BY <1>1
  <2> QED BY <2>1
<1>4. ASSUME NEW n \in DOMAIN Objs, NEW t \in A[n - 1] \cap CellsStates
      PROVE  Chained(where, Objs[n], t) \in A[n]
  <2>1. n \in 1 .. NumObjects /\ n - 1 \in 0 .. NumObjects /\ n \in 0 .. NumObjects BY <1>1
  <2>2. Built(t, where, n - 1) BY <2>1
  <2>3. Built(Chained(where, Objs[n], t), where, n) BY <2>1, <2>2, OneMoreBuilt
  <2>4. Chained(where, Objs[n], t) \in CellsStates BY <1>1, <2>1, ChainedFits
  <2> QED BY <2>1, <2>3, <2>4
<1>5. A[Len(Objs)] = {t \in CellsStates : Built(t, where, NumObjects)}
  <2>1. Len(Objs) \in 0 .. NumObjects BY <1>1
  <2> QED BY <2>1, <1>1
<1> HIDE DEF A
<1>6. Chains!OverSeq(where, s, Objs) \in A[Len(Objs)]
  BY <1>1, <1>2, <1>3, <1>4, Chains!SeqInOrder
<1> QED BY <1>5, <1>6

-----------------------------------------------------------------------------
(* The links of a chain.                                                   *)

\* What the recursive function of Chain is.
IsLinks(L, n, obj) ==
    L = [i \in 1 .. n |-> IF i = 1 THEN obj ELSE IF L[i - 1] = Null THEN Null ELSE cell_prev[L[i - 1]]]

LEMMA LinksExist ==
    ASSUME NEW obj, NEW m \in Nat
    PROVE  \E L : IsLinks(L, m, obj)
<1> DEFINE Good == {n \in Nat : \E L : IsLinks(L, n, obj)}
<1>1. 0 \in Good
  <2> DEFINE L == [i \in 1 .. 0 |-> obj]
  <2>1. \A i : i \notin 1 .. 0 OBVIOUS
  <2>2. L = [i \in 1 .. 0 |-> IF i = 1 THEN obj ELSE IF L[i - 1] = Null THEN Null ELSE cell_prev[L[i - 1]]]
    BY <2>1
  <2>3. IsLinks(L, 0, obj)
    <3> HIDE DEF L
    <3> QED BY <2>2 DEF IsLinks
  <2> QED BY <2>3
<1>2. ASSUME NEW n \in Nat, n \in Good PROVE n + 1 \in Good
  <2>1. PICK L : IsLinks(L, n, obj) BY <1>2
  <2> DEFINE K == [i \in 1 .. n + 1 |-> IF i <= n THEN L[i] ELSE IF i = 1 THEN obj
                                        ELSE IF L[n] = Null THEN Null ELSE cell_prev[L[n]]]
             Step(f, i) == IF i = 1 THEN obj ELSE IF f[i - 1] = Null THEN Null ELSE cell_prev[f[i - 1]]
  <2>2. \A i \in 1 .. n : L[i] = Step(L, i) BY <2>1 DEF IsLinks
  <2>3. \A i \in 1 .. n + 1 : K[i] = Step(K, i)
    <3> SUFFICES ASSUME NEW i \in 1 .. n + 1 PROVE K[i] = Step(K, i) OBVIOUS
    <3>1. CASE i = 1
      <4>1. CASE n = 0 BY <3>1, <4>1
      <4>2. CASE n > 0
        <5>1. 1 \in 1 .. n /\ 1 \in 1 .. n + 1 BY <4>2
        <5>2. K[1] = L[1] /\ L[1] = obj BY <5>1, <2>2
        <5> QED BY <5>2, <3>1
      <4> QED BY <4>1, <4>2
    <3>2. CASE i # 1 /\ i <= n
      <4>1. i \in 1 .. n /\ i - 1 \in 1 .. n /\ i - 1 \in 1 .. n + 1 /\ i - 1 <= n BY <3>2
      <4>2. K[i] = L[i] /\ K[i - 1] = L[i - 1] BY <4>1, <3>2
      <4>3. L[i] = Step(L, i) BY <2>2, <4>1
      <4> HIDE DEF K
      <4> QED BY <4>2, <4>3
    <3>3. CASE i # 1 /\ i = n + 1
      <4>1. n \in 1 .. n + 1 /\ i - 1 = n /\ n <= n /\ ~(i <= n) BY <3>3
      <4>2. K[n] = L[n] BY <4>1
      <4>3. K[i] = IF L[n] = Null THEN Null ELSE cell_prev[L[n]] BY <3>3, <4>1
      <4> HIDE DEF K
      <4> QED BY <4>1, <4>2, <4>3, <3>3
    <3> QED BY <3>1, <3>2, <3>3
  <2>4. K = [i \in 1 .. n + 1 |-> Step(K, i)]
    <3>1. K = [i \in 1 .. n + 1 |-> K[i]] OBVIOUS
    <3> HIDE DEF K, Step
    <3> QED BY <2>3, <3>1
  <2>5. IsLinks(K, n + 1, obj)
    <3> HIDE DEF K
    <3> QED BY <2>4 DEF IsLinks
  <2> QED BY <2>5
<1> HIDE DEF Good
<1>3. m \in Good BY <1>1, <1>2, Chains!NumberInduction
<1> QED BY <1>3 DEF Good

LEMMA ChainLinks ==
    ASSUME NEW obj
    PROVE  \E L : /\ IsLinks(L, NumObjects + 1, obj)
                  /\ Chain(obj) = [i \in {k \in 1 .. NumObjects + 1 : L[k] # Null} |-> L[i]]
<1> DEFINE link == CHOOSE L : L = [i \in 1 .. Len(Objs) + 1 |->
                       IF i = 1 THEN obj ELSE IF L[i - 1] = Null THEN Null ELSE cell_prev[L[i - 1]]]
<1>1. NumObjects + 1 \in Nat /\ NumObjects = Len(Objs) BY ObjectFacts DEF NumObjects
<1>2. IsLinks(link, NumObjects + 1, obj)
  <2>1. \E L : IsLinks(L, NumObjects + 1, obj) BY <1>1, LinksExist
  <2>2. link = CHOOSE L : IsLinks(L, NumObjects + 1, obj) BY <1>1 DEF IsLinks
  <2> HIDE DEF link
  <2> QED BY <2>1, <2>2
<1>3. Chain(obj) = [i \in {k \in DOMAIN link : link[k] # Null} |-> link[i]] BY DEF Chain
<1> HIDE DEF link
<1>4. DOMAIN link = 1 .. NumObjects + 1 BY <1>2 DEF IsLinks
<1> QED BY <1>2, <1>3, <1>4

CellsNow == [Cells |-> Cells, cell_prev |-> cell_prev, UsedCells |-> UsedCells]

\* The links as far as i: len objects of the block, and what is left of them.
Linked(L, b, i, len) ==
    /\ \A j \in 1 .. i : j <= len <=> L[j] # Null
    /\ \A j \in 1 .. len : L[j] \in Objects /\ at[L[j]] = b
    /\ \A j, k \in 1 .. len : L[j] = L[k] => j = k
    /\ \/ /\ L[i + 1] = Null
          /\ \A k \in 1 .. NumObjects : at[Objs[k]] = b => \E j \in 1 .. len : L[j] = Objs[k]
       \/ /\ len = i
          /\ \E m \in 1 .. NumObjects - i :
                 /\ L[i + 1] = Objs[m] /\ at[Objs[m]] = b
                 /\ \A k \in 1 .. NumObjects :
                        at[Objs[k]] = b => k <= m \/ \E j \in 1 .. len : L[j] = Objs[k]
                 /\ \A j \in 1 .. len : \A k \in 1 .. m : L[j] # Objs[k]

LEMMA LinkAt ==
    ASSUME NEW L, NEW n, NEW obj, IsLinks(L, n, obj), NEW k \in 1 .. n, k # 1
    PROVE  L[k] = IF L[k - 1] = Null THEN Null ELSE cell_prev[L[k - 1]]
<1> DEFINE F == [i \in 1 .. n |-> IF i = 1 THEN obj
                                  ELSE IF L[i - 1] = Null THEN Null ELSE cell_prev[L[i - 1]]]
<1>1. L = F BY DEF IsLinks
<1>2. F[k] = IF L[k - 1] = Null THEN Null ELSE cell_prev[L[k - 1]] OBVIOUS
<1> HIDE DEF F
<1> QED BY <1>1, <1>2

\* One link.
LEMMA OneMoreLink ==
    ASSUME Built(CellsNow, at, NumObjects), NEW b \in Blocks, b # Null,
           NEW L, IsLinks(L, NumObjects + 1, Cells[b]),
           NEW i \in 0 .. NumObjects - 1, NEW len \in 0 .. i, Linked(L, b, i, len)
    PROVE  \E l \in 0 .. i + 1 : Linked(L, b, i + 1, l)
<1>1. /\ NumObjects \in Nat /\ i \in Nat /\ len \in Nat /\ i + 1 \in 1 .. NumObjects
      /\ i + 2 \in 1 .. NumObjects + 1 /\ i + 2 # 1 /\ (i + 1) + 1 = i + 2 /\ i + 2 - 1 = i + 1
  BY ObjectFacts
<1>2. L[i + 2] = IF L[i + 1] = Null THEN Null ELSE cell_prev[L[i + 1]]
  <2> DEFINE k == i + 2
  <2>1. k \in 1 .. NumObjects + 1 /\ k # 1 /\ k - 1 = i + 1 BY <1>1
  <2> HIDE DEF k
  <2>2. L[k] = IF L[k - 1] = Null THEN Null ELSE cell_prev[L[k - 1]] BY <2>1, LinkAt
  <2> QED BY <2>1, <2>2 DEF k
<1>3. \A j \in 1 .. i + 1 : j \in 1 .. i \/ j = i + 1 BY <1>1
<1>4. CASE /\ L[i + 1] = Null
           /\ \A k \in 1 .. NumObjects : at[Objs[k]] = b => \E j \in 1 .. len : L[j] = Objs[k]
  <2>1. L[i + 2] = Null BY <1>2, <1>4
  <2>2. \A j \in 1 .. i + 1 : j <= len <=> L[j] # Null
    <3>1. ~(i + 1 <= len) BY <1>1
    <3> QED BY <3>1, <1>3, <1>4 DEF Linked
  <2>3. Linked(L, b, i + 1, len) BY <1>1, <1>4, <2>1, <2>2 DEF Linked
  <2>4. len \in 0 .. i + 1 BY <1>1
  <2> QED BY <2>3, <2>4
<1>5. ASSUME len = i, NEW m \in 1 .. NumObjects - i,
             L[i + 1] = Objs[m], at[Objs[m]] = b,
             \A k \in 1 .. NumObjects :
                 at[Objs[k]] = b => k <= m \/ \E j \in 1 .. len : L[j] = Objs[k],
             \A j \in 1 .. len : \A k \in 1 .. m : L[j] # Objs[k]
      PROVE  Linked(L, b, i + 1, i + 1)
  <2>1. m \in Nat /\ m \in 1 .. NumObjects /\ m \in 1 .. m BY <1>1
  <2>2. Objs[m] \in Objects /\ Objs[m] # Null BY <2>1, ObjectFacts
  <2>3. LastIn(L[i + 2], at, b, m - 1)
    <3>1. L[i + 2] = cell_prev[Objs[m]] BY <1>2, <1>5, <2>2
    <3>2. IF m <= NumObjects /\ at[Objs[m]] # Null
          THEN LastIn(CellsNow.cell_prev[Objs[m]], at, at[Objs[m]], m - 1)
          ELSE CellsNow.cell_prev[Objs[m]] = Null
      BY <2>1 DEF Built
    <3>3. CellsNow.cell_prev = cell_prev BY DEF CellsNow
    <3>4. m <= NumObjects BY <2>1, <1>1
    <3> QED BY <1>5, <3>1, <3>2, <3>3, <3>4
  <2>4. \A j \in 1 .. i + 1 : j <= i + 1 <=> L[j] # Null
    <3>1. \A j \in 1 .. i : j <= len BY <1>5, <1>1
    <3>2. \A j \in 1 .. i : L[j] # Null BY <3>1 DEF Linked
    <3>3. \A j \in 1 .. i + 1 : j <= i + 1 BY <1>1
    <3> QED BY <1>3, <1>5, <2>2, <3>2, <3>3
  <2>5. \A j \in 1 .. i + 1 : L[j] \in Objects /\ at[L[j]] = b
    BY <1>3, <1>5, <2>2 DEF Linked
  <2>6. \A j, k \in 1 .. i + 1 : L[j] = L[k] => j = k
    <3>1. \A j \in 1 .. i : L[j] # L[i + 1] BY <1>5, <2>1
    <3>2. \A j, k \in 1 .. i : L[j] = L[k] => j = k BY <1>5 DEF Linked
    <3> QED BY <1>3, <3>1, <3>2
  <2>7. \A j \in 1 .. i : j \in 1 .. i + 1 BY <1>1
  <2>8. i + 1 \in 1 .. i + 1 BY <1>1
  <2>9. CASE L[i + 2] = Null /\ \A k \in 1 .. m - 1 : at[Objs[k]] # b
    <3>1. ASSUME NEW k \in 1 .. NumObjects, at[Objs[k]] = b
          PROVE  \E j \in 1 .. i + 1 : L[j] = Objs[k]
      <4>1. CASE k <= m
        <5>1. k \in 1 .. m - 1 \/ k = m BY <4>1, <2>1
        <5>2. k = m BY <5>1, <2>9, <3>1
        <5> QED BY <5>2, <1>5, <2>8
      <4>2. CASE \E j \in 1 .. len : L[j] = Objs[k] BY <4>2, <1>5, <2>7
      <4> QED BY <1>5, <3>1, <4>1, <4>2
    <3> QED BY <1>1, <2>4, <2>5, <2>6, <2>9, <3>1 DEF Linked
  <2>10. CASE \E q \in 1 .. m - 1 : /\ L[i + 2] = Objs[q] /\ at[Objs[q]] = b
                                    /\ \A k \in 1 .. m - 1 : at[Objs[k]] = b => k <= q
    <3>1. PICK q \in 1 .. m - 1 : /\ L[i + 2] = Objs[q] /\ at[Objs[q]] = b
                                  /\ \A k \in 1 .. m - 1 : at[Objs[k]] = b => k <= q
      BY <2>10
    <3>2. q \in 1 .. NumObjects - (i + 1) /\ q \in Nat /\ q < m BY <1>1, <2>1
    <3>3. ASSUME NEW k \in 1 .. NumObjects, at[Objs[k]] = b
          PROVE  k <= q \/ \E j \in 1 .. i + 1 : L[j] = Objs[k]
      <4>1. CASE k <= m
        <5>1. k \in 1 .. m - 1 \/ k = m BY <4>1, <2>1
        <5>2. CASE k = m BY <5>2, <1>5, <2>8
        <5>3. CASE k \in 1 .. m - 1 BY <5>3, <3>1, <3>3
        <5> QED BY <5>1, <5>2, <5>3
      <4>2. CASE \E j \in 1 .. len : L[j] = Objs[k] BY <4>2, <1>5, <2>7
      <4> QED BY <1>5, <3>3, <4>1, <4>2
    <3>4. ASSUME NEW j \in 1 .. i + 1, NEW k \in 1 .. q PROVE L[j] # Objs[k]
      <4>1. k \in 1 .. m /\ k \in 1 .. NumObjects /\ k # m BY <3>2, <2>1, <1>1
      <4>2. CASE j \in 1 .. i BY <4>1, <4>2, <1>5
      <4>3. CASE j = i + 1 BY <4>1, <4>3, <1>5, <2>1, ObjectFacts
      <4> QED BY <1>3, <4>2, <4>3
    <3> QED BY <1>1, <2>4, <2>5, <2>6, <3>1, <3>2, <3>3, <3>4 DEF Linked
  <2> QED BY <2>3, <2>9, <2>10 DEF LastIn
<1>6. i + 1 \in 0 .. i + 1 BY <1>1
<1> QED BY <1>4, <1>5, <1>6 DEF Linked

\* A chain has each object of its block, once.
LEMMA ChainIs ==
    ASSUME Built(CellsNow, at, NumObjects), NEW b \in Blocks, b # Null
    PROVE  /\ Chain(Cells[b]) \in Seq(Objects) /\ Len(Chain(Cells[b])) <= NumObjects
           /\ \A o : o \in Range(Chain(Cells[b])) <=> o \in Objects /\ at[o] = b
           /\ IsInjective(Chain(Cells[b]))
<1> DEFINE obj == Cells[b]
           ch == Chain(obj)
<1>1. PICK L : /\ IsLinks(L, NumObjects + 1, obj)
               /\ ch = [i \in {k \in 1 .. NumObjects + 1 : L[k] # Null} |-> L[i]]
  BY ChainLinks
<1>2. NumObjects \in Nat BY ObjectFacts
<1> DEFINE Good == {i \in Nat : i <= NumObjects => \E len \in 0 .. i : Linked(L, b, i, len)}
<1>3. 0 \in Good
  <2>1. 1 \in 1 .. NumObjects + 1 /\ 0 + 1 = 1 /\ 0 \in 0 .. 0 BY <1>2
  <2>2. L[1] = obj BY <1>1, <2>1 DEF IsLinks
  <2>3. LastIn(obj, at, b, NumObjects)
    <3>1. CellsNow.Cells = Cells BY DEF CellsNow
    <3> QED BY <3>1 DEF Built
  <2>4. \A j : j \notin 1 .. 0 OBVIOUS
  <2>5. CASE obj = Null /\ \A k \in 1 .. NumObjects : at[Objs[k]] # b
    <3>1. Linked(L, b, 0, 0) BY <2>1, <2>2, <2>4, <2>5 DEF Linked
    <3> QED BY <2>1, <3>1
  <2>6. CASE \E q \in 1 .. NumObjects : /\ obj = Objs[q] /\ at[Objs[q]] = b
                                        /\ \A k \in 1 .. NumObjects : at[Objs[k]] = b => k <= q
    <3>0. NumObjects - 0 = NumObjects BY <1>2
    <3>1. Linked(L, b, 0, 0) BY <2>1, <2>2, <2>4, <2>6, <3>0 DEF Linked
    <3> QED BY <2>1, <3>1
  <2> QED BY <2>3, <2>5, <2>6 DEF LastIn
<1>4. ASSUME NEW i \in Nat, i \in Good PROVE i + 1 \in Good
  <2> SUFFICES ASSUME i + 1 <= NumObjects PROVE \E len \in 0 .. i + 1 : Linked(L, b, i + 1, len) OBVIOUS
  <2>1. i \in 0 .. NumObjects - 1 /\ i <= NumObjects BY <1>2
  <2>2. PICK len \in 0 .. i : Linked(L, b, i, len) BY <1>4, <2>1
  <2> HIDE DEF Good, ch
  <2> QED BY <1>1, <2>1, <2>2, OneMoreLink
<1> HIDE DEF Good
<1>5. NumObjects \in Good BY <1>2, <1>3, <1>4, Chains!NumberInduction
<1>6. PICK len \in 0 .. NumObjects : Linked(L, b, NumObjects, len)
  BY <1>2, <1>5 DEF Good
<1>7. /\ L[NumObjects + 1] = Null
      /\ \A k \in 1 .. NumObjects : at[Objs[k]] = b => \E j \in 1 .. len : L[j] = Objs[k]
  <2>1. \A m : m \notin 1 .. NumObjects - NumObjects BY <1>2
  <2> QED BY <1>6, <2>1 DEF Linked
<1>8. {k \in 1 .. NumObjects + 1 : L[k] # Null} = 1 .. len
  <2>1. ASSUME NEW k \in 1 .. NumObjects + 1, L[k] # Null PROVE k \in 1 .. len
    <3>1. k # NumObjects + 1 BY <1>7, <2>1
    <3>2. k \in 1 .. NumObjects BY <3>1, <1>2
    <3> QED BY <1>6, <2>1, <3>2 DEF Linked
  <2>2. ASSUME NEW k \in 1 .. len PROVE k \in 1 .. NumObjects + 1 /\ L[k] # Null
    <3>1. k \in 1 .. NumObjects /\ k \in 1 .. NumObjects + 1 /\ k <= len BY <1>2
    <3> QED BY <1>6, <3>1 DEF Linked
  <2> QED BY <2>1, <2>2
<1>9. ch = [i \in 1 .. len |-> L[i]] BY <1>1, <1>8
<1>10. \A i \in 1 .. len : L[i] \in Objects /\ at[L[i]] = b BY <1>6 DEF Linked
<1> HIDE DEF ch
<1>11. ch \in Seq(Objects) /\ Len(ch) = len /\ DOMAIN ch = 1 .. len BY <1>9, <1>10
<1>12. IsInjective(ch)
  <2>1. \A j, k \in 1 .. len : L[j] = L[k] => j = k BY <1>6 DEF Linked
  <2> QED BY <1>9, <1>11, <2>1 DEF IsInjective
<1>13. ASSUME NEW o PROVE o \in Range(ch) <=> o \in Objects /\ at[o] = b
  <2>1. o \in Range(ch) <=> \E j \in 1 .. len : o = L[j] BY <1>9, <1>11 DEF Range
  <2>2. ASSUME o \in Objects, at[o] = b PROVE \E j \in 1 .. len : o = L[j]
    <3>1. PICK k \in 1 .. NumObjects : o = Objs[k] BY <2>2, ObjectFacts
    <3> QED BY <1>7, <2>2, <3>1
  <2> QED BY <1>10, <2>1, <2>2
<1>14. Len(ch) <= NumObjects BY <1>2, <1>11
<1> QED BY <1>11, <1>12, <1>13, <1>14 DEF ch

-----------------------------------------------------------------------------
(* The blocks that are visited.                                            *)

IsList(f, n, S) == f = [i \in 1 .. n |-> f[i]] /\ \A i \in 1 .. n : f[i] \in S

LEMMA Listed ==
    ASSUME NEW S, NEW n \in Nat, NEW f, IsList(f, n, S)
    PROVE  f \in Seq(S) /\ Len(f) = n
<1>1. f \in [1 .. n -> S] BY DEF IsList
<1>2. f \in Seq(S) BY <1>1
<1>3. DOMAIN f = 1 .. n BY <1>1
<1>4. Len(f) \in Nat /\ DOMAIN f = 1 .. Len(f) BY <1>2
<1>5. Len(f) = n BY <1>3, <1>4
<1> QED BY <1>2, <1>5

LEMMA ListFacts ==
    ASSUME NEW S, NEW f \in Seq(S)
    PROVE  Len(f) \in Nat /\ DOMAIN f = 1 .. Len(f) /\ \A i \in 1 .. Len(f) : f[i] \in S
OBVIOUS

\* What is after (p - 1) whole rows of k, and q.
PlaceOf(p, k, q) == (p - 1) * k + q

LEMMA PlaceInRows ==
    ASSUME NEW m \in Nat, NEW k \in Nat, NEW p \in 1 .. m, NEW q \in 1 .. k
    PROVE  PlaceOf(p, k, q) \in 1 .. m * k
<1> DEFINE a == (p - 1) * k
           b == m * k
<1>1. a \in Int /\ b \in Int OBVIOUS
<1>2. 0 * k <= a /\ 0 * k = 0 BY ProductGrows
<1>3. p * k <= b /\ p * k = a + k BY ProductGrows
<1> HIDE DEF a, b
<1>4. a + q \in 1 .. b BY <1>1, <1>2, <1>3
<1> QED BY <1>4 DEF a, b, PlaceOf

LEMMA PlaceDivides ==
    ASSUME NEW k \in Nat, NEW p \in Int, NEW q \in 1 .. k
    PROVE  /\ (PlaceOf(p, k, q) - 1) \div k = p - 1
           /\ (PlaceOf(p, k, q) - 1) % k = q - 1
<1> DEFINE b == p - 1
           r == q - 1
           a == PlaceOf(p, k, q) - 1
<1>1. a = b * k + r /\ b \in Int /\ r \in 0 .. k - 1 /\ a \in Int BY DEF PlaceOf
<1> HIDE DEF a, b, r
<1>2. a \div k = b /\ a % k = r BY <1>1, DividesAs
<1> QED BY <1>2 DEF a, b, r

LEMMA RowIsBelow ==
    ASSUME NEW m \in Nat, NEW k \in Nat, NEW a \in Int, NEW q \in Int, NEW r \in 0 .. k - 1,
           a = k * q + r, 0 <= a, a < m * k
    PROVE  0 <= q /\ q < m
<1> DEFINE u == k * q
           v == m * k
<1>1. u \in Int /\ v \in Int /\ a = u + r /\ a < v OBVIOUS
<1>2. q * k = u OBVIOUS
<1>3. ASSUME q + 1 <= 0 PROVE FALSE
  <2>1. (q + 1) * k <= 0 * k BY <1>3, ProductGrows
  <2>2. (q + 1) * k = u + k /\ 0 * k = 0 BY <1>2
  <2> HIDE DEF u, v
  <2> QED BY <1>1, <2>1, <2>2
<1>4. ASSUME m <= q PROVE FALSE
  <2>1. v <= q * k BY <1>4, ProductGrows
  <2> HIDE DEF u, v
  <2> QED BY <1>1, <1>2, <2>1
<1> QED BY <1>3, <1>4

LEMMA ProductOfBoth ==
    ASSUME NEW m \in Nat, NEW k \in Nat, NEW e \in Nat, m <= e, k <= e
    PROVE  m * k <= e * e
<1> DEFINE a == m * k
           b == e * k
           c == e * e
<1>1. a <= b /\ k * e <= c BY ProductGrows
<1>2. k * e = b OBVIOUS
<1>3. a \in Int /\ b \in Int /\ c \in Int OBVIOUS
<1> HIDE DEF a, b, c
<1>4. a <= c BY <1>1, <1>2, <1>3
<1> QED BY <1>4 DEF a, b, c

\* n is the width or the height of the map.
Sides == {World.x, World.y}

LEMMA SideFacts ==
    ASSUME World \in Worlds
    PROVE  /\ World.wrap \in BOOLEAN
           /\ World.x \in Nat /\ World.x > 0 /\ World.y \in Nat /\ World.y > 0
           /\ Null \notin Blocks
BY CellsAssumption DEF Blocks

LEMMA RadiusFacts ==
    ASSUME World \in Worlds
    PROVE  /\ radius \in Nat /\ radius <= Range_
           /\ \A n \in Sides : World.wrap => 2 * radius <= n
           /\ 2 * Range_ <= World.x /\ 2 * Range_ <= World.y => radius = Range_
<1>1. /\ World.wrap \in BOOLEAN
      /\ World.x \in Nat /\ World.x > 0 /\ World.y \in Nat /\ World.y > 0 /\ Range_ \in Nat
  BY SideFacts, CellsAssumption
<1> DEFINE a == IF World.wrap THEN World.x \div 2 ELSE World.x
           c == IF World.wrap THEN World.y \div 2 ELSE World.y
           S == {Range_, a, c}
<1>2. a \in Nat /\ c \in Nat
      /\ (World.wrap => 2 * a <= World.x /\ 2 * c <= World.y)
      /\ (2 * Range_ <= World.x => Range_ <= a) /\ (2 * Range_ <= World.y => Range_ <= c)
  BY <1>1
<1>3. radius = Min(S) BY DEF radius
<1> HIDE DEF a, c
<1>4. \E x \in S : \A y \in S : x <= y
  <2>1. CASE Range_ <= a /\ Range_ <= c BY <1>1, <1>2, <2>1
  <2>2. CASE a <= Range_ /\ a <= c BY <1>1, <1>2, <2>2
  <2>3. CASE c <= Range_ /\ c <= a BY <1>1, <1>2, <2>3
  <2> QED BY <1>1, <1>2, <2>1, <2>2, <2>3
<1>5. radius \in S /\ \A y \in S : radius <= y
  <2> HIDE DEF S
  <2> QED BY <1>3, <1>4 DEF Min
<1>6. radius \in Nat /\ radius <= Range_ /\ radius <= a /\ radius <= c BY <1>1, <1>2, <1>5
<1>7. \A n \in Sides : World.wrap => 2 * radius <= n BY <1>1, <1>2, <1>6 DEF Sides
<1>8. 2 * Range_ <= World.x /\ 2 * Range_ <= World.y => radius = Range_ BY <1>1, <1>2, <1>5
<1> QED BY <1>6, <1>7, <1>8

\* Span visits what is at most radius away, and no row twice if the map is wider.
SpanIsRight(span, c, n) ==
    /\ span \in Seq(0 .. n - 1) /\ Len(span) <= 2 * radius + 1
    /\ \A a \in 0 .. n - 1 : a \in Range(span) <=> Apart(c, a, n) <= radius
    /\ 2 * radius < n => IsInjective(span)

LEMMA SpanWraps ==
    ASSUME World \in Worlds, NEW n \in Sides, NEW c \in 0 .. n - 1, World.wrap
    PROVE  SpanIsRight(Span(c, n), c, n)
<1> DEFINE r == radius
           span == Span(c, n)
<1>1. n \in Nat /\ n > 0 /\ r \in Nat /\ 2 * r <= n BY SideFacts, RadiusFacts DEF Sides
<1> HIDE DEF r
<1>2. span = [i \in 1 .. 2 * r + 1 |-> (c - r + i - 1) % n] BY DEF Span, r
<1>3. \A i \in 1 .. 2 * r + 1 : /\ span[i] \in 0 .. n - 1
                                /\ \E q \in {-1, 0, 1} : c - r + i - 1 = q * n + span[i]
  <2> SUFFICES ASSUME NEW i \in 1 .. 2 * r + 1
               PROVE  /\ span[i] \in 0 .. n - 1
                      /\ \E q \in {-1, 0, 1} : c - r + i - 1 = q * n + span[i]
      OBVIOUS
  <2>1. span[i] = (c - r + i - 1) % n BY <1>2
  <2> DEFINE z == c - r + i - 1
  <2>2. z \in Int /\ z >= -n /\ z < 2 * n BY <1>1
  <2>3. CASE z < 0
    <3>1. z + n \in 0 .. n - 1 /\ z = (-1) * n + (z + n) BY <2>2, <2>3, <1>1
    <3> HIDE DEF z
    <3>2. z % n = z + n BY <3>1, <1>1, <2>2, DividesAs
    <3> QED BY <3>1, <3>2, <2>1 DEF z
  <2>4. CASE z >= 0 /\ z < n
    <3>1. z \in 0 .. n - 1 /\ z = 0 * n + z BY <2>2, <2>4, <1>1
    <3> HIDE DEF z
    <3>2. z % n = z BY <3>1, <1>1, <2>2, DividesAs
    <3> QED BY <3>1, <3>2, <2>1 DEF z
  <2>5. CASE z >= n
    <3>1. z - n \in 0 .. n - 1 /\ z = 1 * n + (z - n) BY <2>2, <2>5, <1>1
    <3> HIDE DEF z
    <3>2. z % n = z - n BY <3>1, <1>1, <2>2, DividesAs
    <3> QED BY <3>1, <3>2, <2>1 DEF z
  <2> QED BY <1>1, <2>2, <2>3, <2>4, <2>5
<1>4. DOMAIN span = 1 .. 2 * r + 1 /\ 2 * r + 1 \in Nat BY <1>1, <1>2
<1> HIDE DEF span
<1>5. span \in Seq(0 .. n - 1) /\ Len(span) = 2 * r + 1
  <2>1. span = [i \in 1 .. 2 * r + 1 |-> span[i]] BY <1>2
  <2>2. \A i \in 1 .. 2 * r + 1 : span[i] \in 0 .. n - 1 BY <1>3
  <2>3. IsList(span, 2 * r + 1, 0 .. n - 1) BY <2>1, <2>2 DEF IsList
  <2> QED BY <1>4, <2>3, Listed
<1>6. ASSUME NEW a \in 0 .. n - 1
      PROVE  a \in Range(span) <=> Apart(c, a, n) <= r
  <2>1. a \in Range(span) <=> \E i \in 1 .. 2 * r + 1 : span[i] = a BY <1>4 DEF Range
  <2>2. Apart(c, a, n) <= r <=> \E q \in {-1, 0, 1} : q * n + a - c >= -r /\ q * n + a - c <= r
    <3> DEFINE d == IF c < a THEN a - c ELSE c - a
    <3>1. Apart(c, a, n) = IF n - d < d THEN n - d ELSE d BY DEF Apart
    <3> QED BY <1>1, <3>1
  <2>3. ASSUME NEW i \in 1 .. 2 * r + 1, span[i] = a
        PROVE  \E q \in {-1, 0, 1} : q * n + a - c >= -r /\ q * n + a - c <= r
    <3>1. PICK q \in {-1, 0, 1} : c - r + i - 1 = q * n + span[i] BY <1>3
    <3>2. q * n \in Int BY <1>1
    <3>3. q * n + a - c = i - 1 - r BY <1>1, <2>3, <3>1, <3>2
    <3>4. q * n + a - c >= -r /\ q * n + a - c <= r BY <1>1, <3>3
    <3> QED BY <3>4
  <2>4. ASSUME NEW q \in {-1, 0, 1}, q * n + a - c >= -r, q * n + a - c <= r
        PROVE  \E i \in 1 .. 2 * r + 1 : span[i] = a
    <3> DEFINE i == q * n + a - c + r + 1
    <3>1. q * n \in Int BY <1>1
    <3>2. i \in 1 .. 2 * r + 1 /\ c - r + i - 1 = q * n + a BY <1>1, <2>4, <3>1
    <3> HIDE DEF i
    <3>3. span[i] = (c - r + i - 1) % n BY <1>2, <3>2 DEF span
    <3>4. c - r + i - 1 \in Int BY <1>1, <3>2
    <3>5. (c - r + i - 1) % n = a BY <1>1, <3>2, <3>4, DividesAs
    <3> QED BY <3>2, <3>3, <3>5
  <2> QED BY <2>1, <2>2, <2>3, <2>4
<1>7. ASSUME 2 * r < n PROVE IsInjective(span)
  <2> SUFFICES ASSUME NEW i \in 1 .. 2 * r + 1, NEW j \in 1 .. 2 * r + 1, span[i] = span[j]
               PROVE  i = j
      BY <1>4 DEF IsInjective
  <2>1. PICK p \in {-1, 0, 1} : c - r + i - 1 = p * n + span[i] BY <1>3
  <2>2. PICK q \in {-1, 0, 1} : c - r + j - 1 = q * n + span[j] BY <1>3
  <2>3. span[i] \in Int BY <1>1, <1>3
  <2> QED BY <1>1, <1>7, <2>1, <2>2, <2>3
<1> QED BY <1>1, <1>5, <1>6, <1>7 DEF SpanIsRight, span, r

LEMMA SpanEnds ==
    ASSUME World \in Worlds, NEW n \in Sides, NEW c \in 0 .. n - 1, ~World.wrap
    PROVE  SpanIsRight(Span(c, n), c, n)
<1> DEFINE r == radius
           span == Span(c, n)
           low == IF c - r < 0 THEN 0 ELSE c - r
           top == IF c + r >= n THEN n - 1 ELSE c + r
           len == top - low + 1
<1>1. n \in Nat /\ n > 0 /\ r \in Nat BY SideFacts, RadiusFacts DEF Sides
<1>2. span = [i \in 1 .. len |-> low + i - 1] BY DEF Span
<1> HIDE DEF r, span
<1>3. low \in Nat /\ top \in 0 .. n - 1 /\ low <= c /\ c <= top /\ len \in Nat /\ len <= 2 * r + 1
  BY <1>1
<1>4. \A i \in 1 .. len : span[i] = low + i - 1 /\ span[i] \in 0 .. n - 1
  BY <1>1, <1>2, <1>3
<1>5. DOMAIN span = 1 .. len BY <1>2
<1>6. span \in Seq(0 .. n - 1) /\ Len(span) = len
  <2>1. span = [i \in 1 .. len |-> span[i]] BY <1>2
  <2> HIDE DEF len
  <2>2. \A i \in 1 .. len : span[i] \in 0 .. n - 1 BY <1>4
  <2>3. IsList(span, len, 0 .. n - 1) BY <2>1, <2>2 DEF IsList
  <2> QED BY <1>3, <2>3, Listed
<1>7. ASSUME NEW a \in 0 .. n - 1
      PROVE  a \in Range(span) <=> Apart(c, a, n) <= r
  <2>1. a \in Range(span) <=> \E i \in 1 .. len : span[i] = a BY <1>5 DEF Range
  <2>2. Apart(c, a, n) = IF c < a THEN a - c ELSE c - a BY DEF Apart
  <2>3. Apart(c, a, n) <= r <=> low <= a /\ a <= top BY <1>1, <2>2
  <2>4. (\E i \in 1 .. len : span[i] = a) <=> low <= a /\ a <= top
    <3>1. ASSUME NEW i \in 1 .. len, span[i] = a PROVE low <= a /\ a <= top
      <4>1. a = low + i - 1 BY <1>4, <3>1
      <4> QED BY <1>3, <4>1
    <3>2. ASSUME low <= a, a <= top PROVE \E i \in 1 .. len : span[i] = a
      <4>1. a - low + 1 \in 1 .. len /\ low + (a - low + 1) - 1 = a BY <1>1, <1>3, <3>2
      <4> QED BY <1>4, <4>1
    <3> QED BY <3>1, <3>2
  <2> QED BY <2>1, <2>3, <2>4
<1>8. IsInjective(span)
  <2> SUFFICES ASSUME NEW i \in 1 .. len, NEW j \in 1 .. len, span[i] = span[j] PROVE i = j
      BY <1>5 DEF IsInjective
  <2> QED BY <1>3, <1>4
<1>9. Len(span) <= 2 * r + 1 BY <1>3, <1>6
<1> QED BY <1>6, <1>7, <1>8, <1>9 DEF SpanIsRight, span, r

LEMMA SpanIs ==
    ASSUME World \in Worlds, NEW n \in Sides, NEW c \in 0 .. n - 1
    PROVE  SpanIsRight(Span(c, n), c, n)
BY SideFacts, SpanWraps, SpanEnds

\* Within radius of (x, y).
Close(x, y, cell) == Apart(x, cell[1], World.x) <= radius /\ Apart(y, cell[2], World.y) <= radius

\* The blocks around are those that are close, and none is visited twice if the map is wider.
LEMMA AroundIs ==
    ASSUME World \in Worlds, NEW x \in 0 .. World.x - 1, NEW y \in 0 .. World.y - 1
    PROVE  /\ Around(x, y) \in Seq(Blocks)
           /\ Len(Around(x, y)) <= (2 * Range_ + 1) * (2 * Range_ + 1)
           /\ \A cell \in Blocks : cell \in Range(Around(x, y)) <=> Close(x, y, cell)
           /\ 2 * Range_ < World.x /\ 2 * Range_ < World.y => IsInjective(Around(x, y))
<1> DEFINE cols == Span(x, World.x)
           rows == Span(y, World.y)
           m == Len(cols)
           k == Len(rows)
           A == Around(x, y)
<1>1. SpanIsRight(cols, x, World.x) /\ SpanIsRight(rows, y, World.y)
  BY SpanIs DEF Sides
<1>2. World.x \in Nat /\ World.y \in Nat /\ Range_ \in Nat /\ radius \in Nat /\ radius <= Range_
  BY SideFacts, RadiusFacts, CellsAssumption
<1>3. A = [i \in 1 .. m * k |-> <<cols[((i - 1) \div k) + 1], rows[((i - 1) % k) + 1]>>]
  BY DEF Around
<1> HIDE DEF cols, rows
<1>4. /\ cols \in Seq(0 .. World.x - 1) /\ m \in Nat /\ DOMAIN cols = 1 .. m
      /\ rows \in Seq(0 .. World.y - 1) /\ k \in Nat /\ DOMAIN rows = 1 .. k
      /\ \A i \in 1 .. m : cols[i] \in 0 .. World.x - 1
      /\ \A i \in 1 .. k : rows[i] \in 0 .. World.y - 1
  <2>1. cols \in Seq(0 .. World.x - 1) /\ rows \in Seq(0 .. World.y - 1) BY <1>1 DEF SpanIsRight
  <2> QED BY <2>1, ListFacts
<1> HIDE DEF A, m, k
<1>5. m * k \in Nat BY <1>4
<1>6. ASSUME NEW i \in 1 .. m * k
      PROVE  /\ ((i - 1) \div k) + 1 \in 1 .. m /\ ((i - 1) % k) + 1 \in 1 .. k
             /\ i - 1 = ((i - 1) \div k) * k + ((i - 1) % k)
  <2> DEFINE q == (i - 1) \div k
             r == (i - 1) % k
  <2>1. k > 0
    <3> SUFFICES ASSUME k = 0 PROVE FALSE BY <1>4
    <3>1. m * k = 0 BY <1>4
    <3> QED BY <3>1
  <2>2. i - 1 \in Nat /\ i - 1 < m * k BY <1>5
  <2>3. q \in Int /\ r \in 0 .. k - 1 /\ i - 1 = k * q + r BY <1>4, <2>1, <2>2, Divided
  <2> HIDE DEF q, r
  <2>4. i - 1 = k * q + r /\ 0 <= i - 1 /\ i - 1 \in Int BY <2>2, <2>3
  <2>5. 0 <= q /\ q < m BY <1>4, <2>2, <2>3, <2>4, RowIsBelow
  <2>6. k * q = q * k BY <1>4, <2>3
  <2>7. q + 1 \in 1 .. m /\ r + 1 \in 1 .. k BY <1>4, <2>3, <2>5
  <2> QED BY <2>3, <2>6, <2>7 DEF q, r
<1>7. ASSUME NEW p \in 1 .. m, NEW q \in 1 .. k
      PROVE  \E i \in 1 .. m * k : (i - 1) \div k = p - 1 /\ (i - 1) % k = q - 1
  <2>1. PlaceOf(p, k, q) \in 1 .. m * k BY <1>4, PlaceInRows
  <2>2. p \in Int BY <1>4
  <2>3. (PlaceOf(p, k, q) - 1) \div k = p - 1 /\ (PlaceOf(p, k, q) - 1) % k = q - 1
    BY <1>4, <2>2, PlaceDivides
  <2> QED BY <2>1, <2>3
<1>8. \A i \in 1 .. m * k : A[i] = <<cols[((i - 1) \div k) + 1], rows[((i - 1) % k) + 1]>>
  BY <1>3
<1>9. \A i \in 1 .. m * k : A[i] \in Blocks
  <2> SUFFICES ASSUME NEW i \in 1 .. m * k PROVE A[i] \in Blocks OBVIOUS
  <2>1. cols[((i - 1) \div k) + 1] \in 0 .. World.x - 1 /\ rows[((i - 1) % k) + 1] \in 0 .. World.y - 1
    BY <1>4, <1>6
  <2>2. <<cols[((i - 1) \div k) + 1], rows[((i - 1) % k) + 1]>> \in Blocks BY <2>1 DEF Blocks
  <2> QED BY <1>8, <2>2
<1>10. A \in Seq(Blocks) /\ Len(A) = m * k /\ DOMAIN A = 1 .. m * k
  <2>1. DOMAIN A = 1 .. m * k BY <1>3
  <2>2. A = [i \in 1 .. m * k |-> A[i]] BY <1>3
  <2> QED BY <1>5, <1>9, <2>1, <2>2
<1>11. ASSUME NEW cell \in Blocks
       PROVE  cell \in Range(A) <=> Close(x, y, cell)
  <2>1. cell[1] \in 0 .. World.x - 1 /\ cell[2] \in 0 .. World.y - 1 /\ cell = <<cell[1], cell[2]>>
    BY DEF Blocks
  <2>2. Close(x, y, cell) <=> cell[1] \in Range(cols) /\ cell[2] \in Range(rows)
    BY <1>1, <2>1 DEF SpanIsRight, Close
  <2>3. ASSUME cell \in Range(A) PROVE cell[1] \in Range(cols) /\ cell[2] \in Range(rows)
    <3>1. PICK i \in 1 .. m * k : cell = A[i] BY <1>10, <2>3 DEF Range
    <3>2. cell[1] = cols[((i - 1) \div k) + 1] /\ cell[2] = rows[((i - 1) % k) + 1]
      BY <1>8, <3>1
    <3> QED BY <1>4, <1>6, <3>2 DEF Range
  <2>4. ASSUME cell[1] \in Range(cols), cell[2] \in Range(rows) PROVE cell \in Range(A)
    <3>1. PICK p \in 1 .. m : cell[1] = cols[p] BY <1>4, <2>4 DEF Range
    <3>2. PICK q \in 1 .. k : cell[2] = rows[q] BY <1>4, <2>4 DEF Range
    <3>3. PICK i \in 1 .. m * k : (i - 1) \div k = p - 1 /\ (i - 1) % k = q - 1 BY <1>7
    <3>4. (p - 1) + 1 = p /\ (q - 1) + 1 = q BY <1>4
    <3>5. A[i] = <<cols[p], rows[q]>> BY <1>8, <3>3, <3>4
    <3>6. A[i] = cell BY <2>1, <3>1, <3>2, <3>5
    <3> QED BY <1>10, <3>6 DEF Range
  <2> QED BY <2>2, <2>3, <2>4
<1>12. ASSUME 2 * Range_ < World.x, 2 * Range_ < World.y PROVE IsInjective(A)
  <2>1. IsInjective(cols) /\ IsInjective(rows)
    <3>1. 2 * radius < World.x /\ 2 * radius < World.y BY <1>2, <1>12
    <3> QED BY <1>1, <3>1 DEF SpanIsRight
  <2> SUFFICES ASSUME NEW i \in 1 .. m * k, NEW j \in 1 .. m * k, A[i] = A[j] PROVE i = j
      BY <1>10 DEF IsInjective
  <2> DEFINE a == (i - 1) \div k
             b == (i - 1) % k
             c == (j - 1) \div k
             d == (j - 1) % k
  <2>2. /\ a + 1 \in 1 .. m /\ b + 1 \in 1 .. k /\ i - 1 = a * k + b
        /\ c + 1 \in 1 .. m /\ d + 1 \in 1 .. k /\ j - 1 = c * k + d
    BY <1>6
  <2>3. cols[a + 1] = cols[c + 1] /\ rows[b + 1] = rows[d + 1] BY <1>8
  <2>4. a \in Int /\ b \in Int /\ c \in Int /\ d \in Int BY <1>4, Divided, <2>2
  <2> HIDE DEF a, b, c, d
  <2>5. a + 1 = c + 1 /\ b + 1 = d + 1 BY <1>4, <2>1, <2>2, <2>3 DEF IsInjective
  <2>6. a = c /\ b = d BY <2>4, <2>5
  <2>7. i - 1 = j - 1 BY <2>2, <2>6
  <2> QED BY <1>5, <2>7
<1>13. Len(A) <= (2 * Range_ + 1) * (2 * Range_ + 1)
  <2> DEFINE e == 2 * Range_ + 1
  <2>1. m <= e /\ k <= e /\ e \in Nat BY <1>1, <1>2, <1>4 DEF SpanIsRight, m, k
  <2> HIDE DEF e
  <2>5. m * k <= e * e BY <1>4, <2>1, ProductOfBoth
  <2> QED BY <1>10, <2>5 DEF e
<1> QED BY <1>10, <1>11, <1>12, <1>13 DEF A

-----------------------------------------------------------------------------
(* What is met in the blocks that are visited.                             *)

VisitTurn(par, cell, met) == met \o Chain(par[cell])

Visits == INSTANCE FoldTheorems WITH Turn <- VisitTurn

\* What there is in the blocks, however much that is.
AllMet(x, y) == Visits!OverSeq(Cells, <<>>, Around(x, y))

LEMMA MetIs ==
    ASSUME NEW x, NEW y
    PROVE  Collision_cells_objects_get(x, y) =
               IF Len(AllMet(x, y)) <= MAX_TOTAL_OBJECTS THEN AllMet(x, y)
               ELSE SubSeq(AllMet(x, y), 1, MAX_TOTAL_OBJECTS)
BY DEF Collision_cells_objects_get, AllMet, FoldLeft, MapThenFoldSet, Visits!OverSeq, VisitTurn, Max

LEMMA JoinFacts ==
    ASSUME NEW S, NEW a \in Seq(S), NEW b \in Seq(S)
    PROVE  /\ a \o b \in Seq(S) /\ Len(a \o b) = Len(a) + Len(b)
           /\ Range(a \o b) = Range(a) \cup Range(b)
           /\ IsInjective(a) /\ IsInjective(b) /\ Range(a) \cap Range(b) = {} => IsInjective(a \o b)
<1> DEFINE m == Len(a)
           k == Len(b)
           c == a \o b
<1>1. /\ m \in Nat /\ DOMAIN a = 1 .. m /\ k \in Nat /\ DOMAIN b = 1 .. k
      /\ c \in Seq(S) /\ Len(c) = m + k /\ DOMAIN c = 1 .. m + k
      /\ \A i \in 1 .. m + k : c[i] = IF i <= m THEN a[i] ELSE b[i - m]
  OBVIOUS
<1> HIDE DEF c, m, k
<1>2. Range(c) = Range(a) \cup Range(b)
  <2>1. ASSUME NEW i \in 1 .. m + k PROVE c[i] \in Range(a) \cup Range(b)
    <3>1. i <= m => i \in 1 .. m BY <1>1
    <3>2. i > m => i - m \in 1 .. k BY <1>1
    <3>3. i <= m \/ i > m BY <1>1
    <3> QED BY <1>1, <3>1, <3>2, <3>3 DEF Range
  <2>2. ASSUME NEW i \in 1 .. m PROVE a[i] \in Range(c)
    <3>1. i \in 1 .. m + k /\ i <= m BY <1>1
    <3> QED BY <1>1, <3>1 DEF Range
  <2>3. ASSUME NEW i \in 1 .. k PROVE b[i] \in Range(c)
    <3>1. i + m \in 1 .. m + k /\ ~(i + m <= m) /\ (i + m) - m = i BY <1>1
    <3>2. c[i + m] = b[i] BY <1>1, <3>1
    <3> QED BY <1>1, <3>1, <3>2 DEF Range
  <2> QED BY <1>1, <2>1, <2>2, <2>3 DEF Range
<1>3. ASSUME IsInjective(a), IsInjective(b), Range(a) \cap Range(b) = {}
      PROVE  IsInjective(c)
  <2> SUFFICES ASSUME NEW i \in 1 .. m + k, NEW j \in 1 .. m + k, c[i] = c[j] PROVE i = j
      BY <1>1 DEF IsInjective
  <2>1. \A l \in 1 .. m + k : \/ l \in 1 .. m /\ c[l] = a[l] /\ a[l] \in Range(a)
                              \/ l - m \in 1 .. k /\ c[l] = b[l - m] /\ b[l - m] \in Range(b)
    <3> SUFFICES ASSUME NEW l \in 1 .. m + k
                 PROVE  \/ l \in 1 .. m /\ c[l] = a[l] /\ a[l] \in Range(a)
                        \/ l - m \in 1 .. k /\ c[l] = b[l - m] /\ b[l - m] \in Range(b)
        OBVIOUS
    <3>1. CASE l <= m
      <4>1. l \in 1 .. m BY <1>1, <3>1
      <4> QED BY <1>1, <3>1, <4>1 DEF Range
    <3>2. CASE l > m
      <4>1. l - m \in 1 .. k /\ ~(l <= m) BY <1>1, <3>2
      <4> QED BY <1>1, <4>1 DEF Range
    <3> QED BY <1>1, <3>1, <3>2
  <2>2. CASE i \in 1 .. m /\ j \in 1 .. m /\ c[i] = a[i] /\ c[j] = a[j]
    BY <1>1, <1>3, <2>2 DEF IsInjective
  <2>3. CASE /\ i - m \in 1 .. k /\ j - m \in 1 .. k
             /\ c[i] = b[i - m] /\ c[j] = b[j - m]
    <3>1. i - m = j - m BY <1>1, <1>3, <2>3 DEF IsInjective
    <3> QED BY <1>1, <3>1
  <2> QED BY <1>3, <2>1, <2>2, <2>3
<1> QED BY <1>1, <1>2, <1>3 DEF c, m, k

\* What has been met in the first n blocks.
Sofar(met, around, n) ==
    /\ met \in Seq(Objects) /\ Len(met) <= n * NumObjects
    /\ \A o : o \in Range(met) <=> o \in Objects /\ \E k \in 1 .. n : at[o] = around[k]
    /\ IsInjective(around) => IsInjective(met)

LEMMA OneMoreTimes ==
    ASSUME NEW a \in Nat, NEW b \in Nat, NEW n \in Nat, NEW k \in Nat, n > 0,
           a <= (n - 1) * k, b <= k
    PROVE  a + b <= n * k
<1> DEFINE u == (n - 1) * k
           v == n * k
<1>1. v = u + k /\ u \in Int /\ v \in Int OBVIOUS
<1>2. a <= u OBVIOUS
<1> HIDE DEF u, v
<1>3. a + b <= v BY <1>1, <1>2
<1> QED BY <1>3 DEF v

\* One block more.
LEMMA OneMoreVisit ==
    ASSUME Built(CellsNow, at, NumObjects), NullIsNoBlock, NEW around \in Seq(Blocks),
           NEW n \in DOMAIN around, NEW met, Sofar(met, around, n - 1)
    PROVE  Sofar(met \o Chain(Cells[around[n]]), around, n)
<1> DEFINE cell == around[n]
           ch == Chain(Cells[cell])
<1>1. cell \in Blocks /\ cell # Null /\ DOMAIN around = 1 .. Len(around) /\ Len(around) \in Nat
      /\ n \in 1 .. Len(around) /\ n \in Nat /\ n > 0
  BY DEF NullIsNoBlock
<1>2. /\ ch \in Seq(Objects) /\ Len(ch) <= NumObjects
      /\ \A o : o \in Range(ch) <=> o \in Objects /\ at[o] = cell
      /\ IsInjective(ch)
  BY <1>1, ChainIs
<1>3. /\ met \in Seq(Objects) /\ Len(met) <= (n - 1) * NumObjects
      /\ \A o : o \in Range(met) <=> o \in Objects /\ \E k \in 1 .. n - 1 : at[o] = around[k]
      /\ IsInjective(around) => IsInjective(met)
  BY DEF Sofar
<1> HIDE DEF ch, cell
<1>4. /\ met \o ch \in Seq(Objects) /\ Len(met \o ch) = Len(met) + Len(ch)
      /\ Range(met \o ch) = Range(met) \cup Range(ch)
      /\ IsInjective(met) /\ IsInjective(ch) /\ Range(met) \cap Range(ch) = {} => IsInjective(met \o ch)
  BY <1>2, <1>3, JoinFacts
<1>5. Len(met \o ch) <= n * NumObjects
  <2>1. Len(met) \in Nat /\ Len(ch) \in Nat /\ NumObjects \in Nat BY <1>2, <1>3, ObjectFacts
  <2>2. Len(met) + Len(ch) <= n * NumObjects BY <1>1, <1>2, <1>3, <2>1, OneMoreTimes
  <2> QED BY <1>4, <2>2
<1>6. \A k : k \in 1 .. n <=> k \in 1 .. n - 1 \/ k = n BY <1>1
<1>7. \A o : o \in Range(met \o ch) <=> o \in Objects /\ \E k \in 1 .. n : at[o] = around[k]
  BY <1>2, <1>3, <1>4, <1>6 DEF cell
<1>8. ASSUME IsInjective(around) PROVE IsInjective(met \o ch)
  <2>1. ASSUME NEW o \in Range(met), o \in Range(ch) PROVE FALSE
    <3>1. PICK k \in 1 .. n - 1 : at[o] = around[k] BY <1>3, <2>1
    <3>2. at[o] = around[n] BY <1>2, <2>1 DEF cell
    <3>3. k \in DOMAIN around /\ k # n BY <1>1
    <3> QED BY <1>8, <3>1, <3>2, <3>3 DEF IsInjective
  <2> QED BY <1>2, <1>3, <1>4, <1>8, <2>1
<1>9. Sofar(met \o ch, around, n) BY <1>4, <1>5, <1>7, <1>8 DEF Sofar
<1> QED BY <1>9 DEF ch, cell

LEMMA AllVisited ==
    ASSUME Built(CellsNow, at, NumObjects), NullIsNoBlock, NEW around \in Seq(Blocks)
    PROVE  Sofar(Visits!OverSeq(Cells, <<>>, around), around, Len(around))
<1> DEFINE A == [n \in 0 .. Len(around) |-> {met \in Seq(Objects) : Sofar(met, around, n)}]
<1>1. DOMAIN around = 1 .. Len(around) /\ Len(around) \in Nat
      /\ \A i \in DOMAIN around : around[i] \in Blocks
  OBVIOUS
<1>2. Visits!Closed(Cells, {around[i] : i \in DOMAIN around}, Seq(Objects))
  <2> SUFFICES ASSUME NEW cell \in {around[i] : i \in DOMAIN around}, NEW met \in Seq(Objects)
               PROVE  met \o Chain(Cells[cell]) \in Seq(Objects)
      BY DEF Visits!Closed, VisitTurn
  <2>1. cell \in Blocks /\ cell # Null BY <1>1 DEF NullIsNoBlock
  <2>2. Chain(Cells[cell]) \in Seq(Objects) BY <2>1, ChainIs
  <2> QED BY <2>2, JoinFacts
<1>3. <<>> \in A[0] \cap Seq(Objects)
  <2>1. 0 \in 0 .. Len(around) BY <1>1
  <2>2. <<>> \in Seq(Objects) /\ Len(<<>>) <= 0 * NumObjects /\ Range(<<>>) = {} /\ IsInjective(<<>>)
    BY ObjectFacts DEF Range, IsInjective
  <2>3. \A k : k \notin 1 .. 0 OBVIOUS
  <2>4. Sofar(<<>>, around, 0) BY <2>2, <2>3 DEF Sofar
  <2> QED BY <2>1, <2>2, <2>4
<1>4. ASSUME NEW n \in DOMAIN around, NEW met \in A[n - 1] \cap Seq(Objects)
      PROVE  VisitTurn(Cells, around[n], met) \in A[n]
  <2>1. n \in 0 .. Len(around) /\ n - 1 \in 0 .. Len(around) BY <1>1
  <2>2. Sofar(met, around, n - 1) BY <2>1
  <2>3. Sofar(met \o Chain(Cells[around[n]]), around, n) BY <2>2, OneMoreVisit
  <2>4. met \o Chain(Cells[around[n]]) \in Seq(Objects) BY <2>3 DEF Sofar
  <2> QED BY <2>1, <2>3, <2>4 DEF VisitTurn
<1>5. A[Len(around)] = {met \in Seq(Objects) : Sofar(met, around, Len(around))}
  <2>1. Len(around) \in 0 .. Len(around) BY <1>1
  <2> QED BY <2>1
<1> HIDE DEF A
<1>6. Visits!OverSeq(Cells, <<>>, around) \in A[Len(around)]
  BY <1>2, <1>3, <1>4, Visits!SeqInOrder
<1> QED BY <1>5, <1>6

\* A sequence in which no object is twice has no more than there are.
LEMMA NoMoreThanAll ==
    ASSUME NEW met \in Seq(Objects), IsInjective(met)
    PROVE  Len(met) <= NumObjects
<1> DEFINE m == Len(met)
           f == [i \in 1 .. m |-> CHOOSE k \in 1 .. NumObjects : met[i] = Objs[k]]
<1>1. m \in Nat /\ DOMAIN met = 1 .. m /\ \A i \in 1 .. m : met[i] \in Objects OBVIOUS
<1> HIDE DEF m
<1>2. \A i \in 1 .. m : f[i] \in 1 .. NumObjects /\ met[i] = Objs[f[i]] BY <1>1, ObjectFacts
<1>3. f \in [1 .. m -> 1 .. NumObjects] BY <1>2
<1> HIDE DEF f
<1>4. \A i, j \in 1 .. m : f[i] = f[j] => i = j BY <1>1, <1>2 DEF IsInjective
<1>5. f \in Injection(1 .. m, 1 .. NumObjects)
  <2>1. IsInjective(f) BY <1>3, <1>4 DEF IsInjective
  <2> QED BY <1>3, <2>1 DEF Injection
<1>6. IsFiniteSet(1 .. NumObjects) /\ Cardinality(1 .. NumObjects) = NumObjects
  <2>1. 1 \in Int /\ NumObjects \in Int /\ NumObjects \in Nat BY ObjectFacts
  <2> QED BY <2>1, FS_Interval
<1>7. Cardinality(1 .. m) = m
  <2>1. 1 \in Int /\ m \in Int /\ m \in Nat BY <1>1
  <2> QED BY <2>1, FS_Interval
<1>8. Cardinality(1 .. m) <= Cardinality(1 .. NumObjects) BY <1>5, <1>6, FS_Injection
<1> QED BY <1>6, <1>7, <1>8 DEF m

LEMMA ApartIsNumber ==
    ASSUME NEW n \in Nat, NEW a \in 0 .. n - 1, NEW b \in 0 .. n - 1
    PROVE  Apart(a, b, n) \in Int
BY DEF Apart

LEMMA CutFacts ==
    ASSUME NEW S, NEW met \in Seq(S), NEW n \in Nat, Len(met) > n
    PROVE  Range(SubSeq(met, 1, n)) \subseteq Range(met)
<1>1. Len(met) \in Nat /\ DOMAIN met = 1 .. Len(met) OBVIOUS
<1>2. DOMAIN SubSeq(met, 1, n) = 1 .. n /\ \A i \in 1 .. n : SubSeq(met, 1, n)[i] = met[i] BY <1>1
<1>3. \A i \in 1 .. n : i \in DOMAIN met BY <1>1
<1> QED BY <1>2, <1>3 DEF Range

\* What is in the blocks that are visited is what is near, as far as the radius goes.
LEMMA AllMetIs ==
    ASSUME World \in Worlds, at \in Places, Built(CellsNow, at, NumObjects), NEW b \in Blocks
    PROVE  LET all == AllMet(b[1], b[2])
           IN  /\ all \in Seq(Objects)
               /\ Range(all) \subseteq InRange(b[1], b[2])
               /\ Wide \/ WideEnough => InRange(b[1], b[2]) \subseteq Range(all)
               /\ Wide => IsInjective(all)
               /\ Wide \/ WideEnough => Len(all) <= MAX_TOTAL_OBJECTS
<1> DEFINE x == b[1]
           y == b[2]
           around == Around(x, y)
           all == AllMet(x, y)
<1>1. x \in 0 .. World.x - 1 /\ y \in 0 .. World.y - 1 BY DEF Blocks
<1>2. NullIsNoBlock BY SideFacts DEF NullIsNoBlock
<1>3. /\ around \in Seq(Blocks)
      /\ Len(around) <= (2 * Range_ + 1) * (2 * Range_ + 1)
      /\ \A cell \in Blocks : cell \in Range(around) <=> Close(x, y, cell)
      /\ 2 * Range_ < World.x /\ 2 * Range_ < World.y => IsInjective(around)
  BY <1>1, AroundIs
<1> HIDE DEF x, y
<1>4. Sofar(all, around, Len(around))
  <2> HIDE DEF around
  <2> SUFFICES Sofar(Visits!OverSeq(Cells, <<>>, around), around, Len(around)) BY DEF AllMet, around
  <2> QED BY <1>2, <1>3, AllVisited
<1> HIDE DEF around, all
<1>5. World.x \in Nat /\ World.y \in Nat /\ Range_ \in Nat /\ MAX_TOTAL_OBJECTS \in Nat
      /\ NumObjects \in Nat /\ NumObjects <= MAX_TOTAL_OBJECTS
      /\ radius \in Nat /\ radius <= Range_
      /\ (2 * Range_ <= World.x /\ 2 * Range_ <= World.y => radius = Range_)
  BY SideFacts, RadiusFacts, CellsAssumption DEF NumObjects
<1>6. DOMAIN around = 1 .. Len(around) /\ Len(around) \in Nat BY <1>3
<1>7. all \in Seq(Objects) /\ Len(all) \in Nat
  <2>1. all \in Seq(Objects) BY <1>4 DEF Sofar
  <2> QED BY <2>1
<1>8. \A o : o \in Range(all) <=> o \in Objects /\ at[o] \in Range(around)
  <2>1. \A o : o \in Range(all) <=> o \in Objects /\ \E k \in 1 .. Len(around) : at[o] = around[k]
    BY <1>4 DEF Sofar
  <2> QED BY <1>6, <2>1 DEF Range
<1>9. \A cell \in Range(around) : cell \in Blocks BY <1>3, <1>6 DEF Range
<1>10. \A cell \in Blocks : /\ Apart(x, cell[1], World.x) \in Int
                            /\ Apart(y, cell[2], World.y) \in Int
  <2> SUFFICES ASSUME NEW cell \in Blocks
               PROVE  Apart(x, cell[1], World.x) \in Int /\ Apart(y, cell[2], World.y) \in Int
      OBVIOUS
  <2>1. cell[1] \in 0 .. World.x - 1 /\ cell[2] \in 0 .. World.y - 1 BY DEF Blocks
  <2> QED BY <1>1, <1>5, <2>1, ApartIsNumber
<1>11. Range(all) \subseteq InRange(x, y)
  <2> SUFFICES ASSUME NEW o \in Range(all) PROVE o \in InRange(x, y) OBVIOUS
  <2>1. o \in Objects /\ at[o] \in Blocks /\ Close(x, y, at[o]) BY <1>3, <1>8, <1>9
  <2>2. at[o] # Null BY <1>2, <2>1 DEF NullIsNoBlock
  <2> DEFINE c == at[o]
  <2>3. /\ Apart(x, c[1], World.x) \in Int /\ Apart(x, c[1], World.x) <= radius
        /\ Apart(y, c[2], World.y) \in Int /\ Apart(y, c[2], World.y) <= radius
    BY <1>10, <2>1 DEF Close
  <2>4. Apart(x, c[1], World.x) <= Range_ /\ Apart(y, c[2], World.y) <= Range_ BY <1>5, <2>3
  <2> QED BY <2>1, <2>2, <2>4 DEF InRange
<1>12. ASSUME Wide \/ WideEnough PROVE radius = Range_
  <2>1. 2 * Range_ <= World.x /\ 2 * Range_ <= World.y BY <1>5, <1>12 DEF Wide, WideEnough
  <2> QED BY <1>5, <2>1
<1>13. ASSUME Wide \/ WideEnough PROVE InRange(x, y) \subseteq Range(all)
  <2> SUFFICES ASSUME NEW o \in InRange(x, y) PROVE o \in Range(all) OBVIOUS
  <2>1. /\ o \in Objects /\ at[o] # Null
        /\ Apart(x, at[o][1], World.x) <= radius /\ Apart(y, at[o][2], World.y) <= radius
    BY <1>12, <1>13 DEF InRange
  <2>2. at[o] \in Blocks BY <2>1 DEF Places
  <2>3. Close(x, y, at[o]) BY <2>1 DEF Close
  <2> QED BY <1>3, <1>8, <2>1, <2>2, <2>3
<1>14. ASSUME Wide PROVE IsInjective(all) BY <1>3, <1>4, <1>14 DEF Wide, Sofar
<1>15. ASSUME Wide \/ WideEnough PROVE Len(all) <= MAX_TOTAL_OBJECTS
  <2>1. CASE Wide
    <3>1. Len(all) <= NumObjects BY <1>7, <1>14, <2>1, NoMoreThanAll
    <3> QED BY <1>5, <1>7, <3>1
  <2>2. CASE WideEnough
    <3> DEFINE e == (2 * Range_ + 1) * (2 * Range_ + 1)
    <3>1. e \in Nat /\ e * NumObjects <= MAX_TOTAL_OBJECTS
      BY <1>5, <2>2 DEF WideEnough, NumObjects
    <3>2. Len(around) <= e BY <1>3
    <3> HIDE DEF e
    <3>3. Len(around) * NumObjects <= e * NumObjects BY <1>5, <1>6, <3>1, <3>2, ProductGrows
    <3>4. Len(all) <= Len(around) * NumObjects BY <1>4 DEF Sofar
    <3>5. Len(around) * NumObjects \in Int /\ e * NumObjects \in Int BY <1>5, <1>6, <3>1
    <3> DEFINE u == Len(around) * NumObjects
               v == e * NumObjects
    <3>6. u <= v /\ Len(all) <= u /\ v <= MAX_TOTAL_OBJECTS /\ u \in Int /\ v \in Int
      BY <3>1, <3>3, <3>4, <3>5
    <3> HIDE DEF u, v
    <3> QED BY <1>5, <1>7, <3>6
  <2> QED BY <1>15, <2>1, <2>2
<1>16. /\ all \in Seq(Objects)
       /\ Range(all) \subseteq InRange(x, y)
       /\ Wide \/ WideEnough => InRange(x, y) \subseteq Range(all)
       /\ Wide => IsInjective(all)
       /\ Wide \/ WideEnough => Len(all) <= MAX_TOTAL_OBJECTS
  BY <1>7, <1>11, <1>13, <1>14, <1>15
<1> QED BY <1>16 DEF all, x, y

-----------------------------------------------------------------------------
(* The chains are right whenever a frame asks for them, and there are none *)
(* when it is done.                                                        *)

CellsIInv ==
    /\ World \in Worlds
    /\ at \in Places
    /\ CellsNow \in CellsStates
    /\ Built(CellsNow, at, NumObjects)

LEMMA CellsInvMeansNear == CellsIInv => NearIsMet
<1> SUFFICES ASSUME CellsIInv, NEW b \in Blocks
             PROVE  LET met == Collision_cells_objects_get(b[1], b[2])
                    IN  /\ Range(met) \subseteq InRange(b[1], b[2])
                        /\ Wide \/ WideEnough => InRange(b[1], b[2]) \subseteq Range(met)
                        /\ Wide => IsInjective(met)
    BY DEF NearIsMet
<1> DEFINE all == AllMet(b[1], b[2])
           met == Collision_cells_objects_get(b[1], b[2])
<1>1. /\ all \in Seq(Objects)
      /\ Range(all) \subseteq InRange(b[1], b[2])
      /\ Wide \/ WideEnough => InRange(b[1], b[2]) \subseteq Range(all)
      /\ Wide => IsInjective(all)
      /\ Wide \/ WideEnough => Len(all) <= MAX_TOTAL_OBJECTS
  BY AllMetIs DEF CellsIInv
<1>2. met = IF Len(all) <= MAX_TOTAL_OBJECTS THEN all ELSE SubSeq(all, 1, MAX_TOTAL_OBJECTS)
  BY MetIs
<1> HIDE DEF all, met
<1>3. CASE Len(all) <= MAX_TOTAL_OBJECTS
  <2>1. met = all BY <1>2, <1>3
  <2>2. /\ Range(met) \subseteq InRange(b[1], b[2])
        /\ Wide \/ WideEnough => InRange(b[1], b[2]) \subseteq Range(met)
        /\ Wide => IsInjective(met)
    BY <1>1, <2>1
  <2> QED BY <2>2 DEF met
<1>4. CASE ~(Len(all) <= MAX_TOTAL_OBJECTS)
  <2>1. Len(all) > MAX_TOTAL_OBJECTS /\ MAX_TOTAL_OBJECTS \in Nat
    <3>1. Len(all) \in Nat BY <1>1
    <3> QED BY <1>4, <3>1, CellsAssumption
  <2>2. Range(met) \subseteq Range(all) BY <1>1, <1>2, <1>4, <2>1, CutFacts
  <2>3. ~Wide /\ ~WideEnough BY <1>1, <1>4
  <2>4. /\ Range(met) \subseteq InRange(b[1], b[2])
        /\ Wide \/ WideEnough => InRange(b[1], b[2]) \subseteq Range(met)
        /\ Wide => IsInjective(met)
    BY <1>1, <2>2, <2>3
  <2> QED BY <2>4 DEF met
<1> QED BY <1>3, <1>4

LEMMA CellsInvInit == CellsInit => CellsIInv
<1> SUFFICES ASSUME CellsInit PROVE CellsIInv OBVIOUS
<1>1. /\ World \in Worlds
      /\ at = [obj \in Objects |-> Null] /\ Cells = [b \in Blocks |-> Null]
      /\ cell_prev = [obj \in Objects |-> Null] /\ UsedCells = <<>>
  BY DEF CellsInit
<1>2. at \in Places BY <1>1 DEF Places
<1>3. CellsNow \in CellsStates BY <1>1 DEF CellsNow, CellsStates
<1>4. Null \notin Blocks BY <1>1, SideFacts
<1>5. \A i \in 1 .. NumObjects : Objs[i] \in Objects BY ObjectFacts
<1>6. \A b \in Blocks : LastIn(Null, at, b, NumObjects)
  <2> SUFFICES ASSUME NEW b \in Blocks, NEW k \in 1 .. NumObjects PROVE at[Objs[k]] # b
      BY DEF LastIn
  <2> QED BY <1>1, <1>4, <1>5
<1>7. Built(CellsNow, at, NumObjects) BY <1>1, <1>5, <1>6 DEF Built, CellsNow
<1> QED BY <1>1, <1>2, <1>3, <1>7 DEF CellsIInv

\* When no cell is in use no object is in a chain, and chains can be built anew.
LEMMA NothingBuilt ==
    ASSUME CellsIInv, UsedCells = <<>>, NEW where
    PROVE  Built(CellsNow, where, 0)
<1>1. /\ DOMAIN Cells = Blocks /\ DOMAIN cell_prev = Objects /\ UsedCells \in Seq(Blocks)
      /\ \A b \in Blocks : LastIn(Cells[b], at, b, NumObjects)
      /\ \A b \in Blocks : Cells[b] # Null => b \in Range(UsedCells)
      /\ \A i \in 1 .. NumObjects :
             IF i <= NumObjects /\ at[Objs[i]] # Null
             THEN LastIn(cell_prev[Objs[i]], at, at[Objs[i]], i - 1)
             ELSE cell_prev[Objs[i]] = Null
  BY DEF CellsIInv, Built, CellsNow
<1>2. \A b \in Blocks : Cells[b] = Null BY <1>1 DEF Range
<1>3. ASSUME NEW i \in 1 .. NumObjects PROVE at[Objs[i]] = Null
  <2> SUFFICES ASSUME at[Objs[i]] # Null PROVE FALSE OBVIOUS
  <2>1. at[Objs[i]] \in Blocks BY ObjectFacts DEF CellsIInv, Places
  <2>2. LastIn(Null, at, at[Objs[i]], NumObjects) BY <1>1, <1>2, <2>1
  <2> QED BY <2>2, ObjectFacts DEF LastIn
<1>4. \A i \in 1 .. NumObjects : cell_prev[Objs[i]] = Null BY <1>1, <1>3
<1>5. \A b : LastIn(Null, where, b, 0) BY DEF LastIn
<1>6. \A i \in 1 .. NumObjects : ~(i <= 0) OBVIOUS
<1> QED BY <1>1, <1>2, <1>4, <1>5, <1>6 DEF Built, CellsNow

LEMMA CellsInvBuilding == CellsIInv /\ Collision_cells_init => CellsIInv'
<1> SUFFICES ASSUME CellsIInv, Collision_cells_init PROVE CellsIInv' OBVIOUS
<1> DEFINE built == Chains!OverSeq(at', CellsNow, Objs)
<1>1. UsedCells = <<>> /\ at' \in Places /\ World' = World BY DEF Collision_cells_init, Places
<1>2. /\ Cells' = built.Cells /\ cell_prev' = built.cell_prev /\ UsedCells' = built.UsedCells
  BY DEF Collision_cells_init, CellsNow, Chains!OverSeq, FoldLeft, MapThenFoldSet, Max
<1> HIDE DEF built
<1>3. Built(CellsNow, at', 0) BY <1>1, NothingBuilt
<1>4. NullIsNoBlock BY SideFacts DEF CellsIInv, NullIsNoBlock
<1>5. CellsNow \in CellsStates BY DEF CellsIInv
<1>6. built \in CellsStates /\ Built(built, at', NumObjects)
  BY <1>1, <1>3, <1>4, <1>5, AllBuilt DEF built
<1>7. CellsNow' = built BY <1>2, <1>6 DEF CellsNow, CellsStates
<1>8. Blocks' = Blocks BY <1>1 DEF Blocks
<1>9. World' \in Worlds BY <1>1 DEF CellsIInv
<1>10. (at \in Places)' BY <1>1, <1>8 DEF Places
<1>11. (CellsNow \in CellsStates)' BY <1>6, <1>7, <1>8 DEF CellsStates
<1>12. Built(CellsNow, at, NumObjects)' BY <1>6, <1>7, <1>8 DEF Built
<1> QED BY <1>9, <1>10, <1>11, <1>12 DEF CellsIInv

LEMMA CellsInvCleanup == CellsIInv /\ Collision_cells_cleanup => CellsIInv'
<1> SUFFICES ASSUME CellsIInv, Collision_cells_cleanup PROVE CellsIInv' OBVIOUS
<1> DEFINE used == UNION {Range(Chain(Cells[b])) : b \in Range(UsedCells)}
<1>1. /\ cell_prev' = [obj \in Objects |-> IF obj \in used THEN Null ELSE cell_prev[obj]]
      /\ Cells' = [b \in Blocks |-> IF b \in Range(UsedCells) THEN Null ELSE Cells[b]]
      /\ UsedCells' = <<>> /\ at' = [obj \in Objects |-> Null] /\ World' = World
  BY DEF Collision_cells_cleanup
<1>2. /\ \A b \in Blocks : LastIn(Cells[b], at, b, NumObjects)
      /\ \A b \in Blocks : Cells[b] # Null => b \in Range(UsedCells)
      /\ \A i \in 1 .. NumObjects :
             IF i <= NumObjects /\ at[Objs[i]] # Null
             THEN LastIn(cell_prev[Objs[i]], at, at[Objs[i]], i - 1)
             ELSE cell_prev[Objs[i]] = Null
      /\ Built(CellsNow, at, NumObjects)
  BY DEF CellsIInv, Built, CellsNow
<1>3. Null \notin Blocks BY SideFacts DEF CellsIInv
<1>4. ASSUME NEW i \in 1 .. NumObjects, at[Objs[i]] # Null PROVE Objs[i] \in used
  <2> DEFINE b == at[Objs[i]]
             o == Objs[i]
  <2>1. b \in Blocks /\ o \in Objects /\ b # Null BY <1>3, <1>4, ObjectFacts DEF CellsIInv, Places
  <2>2. Cells[b] # Null
    <3>1. LastIn(Cells[b], at, b, NumObjects) BY <1>2, <2>1
    <3>2. \A k \in 1 .. NumObjects : Objs[k] # Null BY ObjectFacts
    <3> QED BY <3>1, <3>2 DEF LastIn
  <2>3. b \in Range(UsedCells) BY <1>2, <2>1, <2>2
  <2> HIDE DEF b, o
  <2>4. o \in Range(Chain(Cells[b]))
    <3>1. \A p : p \in Range(Chain(Cells[b])) <=> p \in Objects /\ at[p] = b
      BY <1>2, <2>1, ChainIs
    <3>2. at[o] = b BY DEF b, o
    <3> QED BY <2>1, <3>1, <3>2
  <2>5. o \in used BY <2>3, <2>4
  <2> QED BY <2>5 DEF o
<1> HIDE DEF used
<1>5. cell_prev' = [obj \in Objects |-> Null]
  <2>1. ASSUME NEW obj \in Objects PROVE (IF obj \in used THEN Null ELSE cell_prev[obj]) = Null
    <3>1. PICK i \in 1 .. NumObjects : obj = Objs[i] BY ObjectFacts
    <3>2. i <= NumObjects BY ObjectFacts
    <3>3. CASE at[Objs[i]] # Null BY <1>4, <3>1, <3>3
    <3>4. CASE at[Objs[i]] = Null BY <1>2, <3>1, <3>2, <3>4
    <3> QED BY <3>3, <3>4
  <2> QED BY <1>1, <2>1
<1>6. Cells' = [b \in Blocks |-> Null] BY <1>1, <1>2
<1>7. Blocks' = Blocks BY <1>1 DEF Blocks
<1>8. CellsInit' BY <1>1, <1>5, <1>6, <1>7 DEF CellsInit, CellsIInv
<1>9. (CellsInit => CellsIInv)' BY CellsInvInit, PTL
<1> QED BY <1>8, <1>9

LEMMA CellsInvNext == CellsIInv /\ [CellsNext]_cellVars => CellsIInv'
<1>1. CellsIInv /\ UNCHANGED cellVars => CellsIInv'
  BY DEF CellsIInv, cellVars, Places, CellsNow, CellsStates, Built, Blocks
<1> QED BY <1>1, CellsInvBuilding, CellsInvCleanup DEF CellsNext

\* A player meets what is near it in every frame, whatever the frames before have left.
THEOREM NearObjectsAreMet == CellsSpec => []NearIsMet
<1>1. CellsInit => CellsIInv BY CellsInvInit
<1>2. CellsIInv /\ [CellsNext]_cellVars => CellsIInv' BY CellsInvNext
<1>3. CellsIInv => NearIsMet BY CellsInvMeansNear
<1> QED BY <1>1, <1>2, <1>3, PTL DEF CellsSpec
====
