------------------------------ MODULE PlayerTable ------------------------------
(***************************************************************************)
(* The table of players (player.cpp): a fixed set of structures, an array  *)
(* of pointers to them whose first NumPlayers are in the game, the id of   *)
(* each player and the index GetInd by id; and the pointers that players   *)
(* keep to each other, their locks.                                        *)
(*                                                                         *)
(* A structure is reused, after a memset, by the next player.  A pointer   *)
(* to it that survived would silently mean somebody else, or nobody.       *)
(***************************************************************************)
EXTENDS IdPool, Functions

CONSTANTS
    Structs,        \* the structures, NumBases + MAX_PSEUDO_PLAYERS of them
    MaxInGame,      \* NumBases + MAX_PAUSED_PLAYERS
    Banks,          \* the slots of the lockbank
    MaxStored,      \* bound: players who have one stored in it
    None            \* NULL, or no lock

NumStructs == Cardinality(Structs)

ASSUME TableAssumption ==
    /\ IsFiniteSet(Structs)
    /\ MaxInGame \in 1 .. NumStructs
    /\ None \notin Structs

VARIABLES
    Players,        \* 0 .. NumStructs-1 -> structures
    NumPlayers,
    id,             \* structure -> id of its player; 0 after a memset
    GetInd,         \* id -> index into Players
    lock,           \* structure -> the player it has locked, with LOCK_PLAYER
    lockbank        \* structure -> slot -> player

tableVars == <<Players, NumPlayers, id, GetInd, lock, lockbank>>
allVars == <<tableVars, idVars>>

Going  == ~exited
InGame == {Players[i] : i \in 0 .. NumPlayers - 1}

-----------------------------------------------------------------------------
\* Player_add, as its callers use it: Handle_login for a human and Robot_add for
\* a robot, which looks for an id first.
Player_add(robot) ==
    /\ Going
    /\ NumPlayers < MaxInGame
    /\ robot => peek_ID # 0
    /\ LET pl == Players[NumPlayers]
       IN  /\ request_ID
           /\ id' = [id EXCEPT ![pl] = peek_ID]
           /\ GetInd' = [GetInd EXCEPT ![peek_ID] = NumPlayers]
           /\ lock' = [lock EXCEPT ![pl] = None]
           /\ lockbank' = [lockbank EXCEPT ![pl] = [b \in Banks |-> None]]
    /\ NumPlayers' = NumPlayers + 1
    /\ UNCHANGED Players

\* GetInd after pl, which leaves, has changed places with the last player.
Reindexed(pl, last) ==
    [GetInd EXCEPT ![id[last]] = GetInd[id[pl]], ![id[pl]] = NumPlayers - 1]

\* Mutant: the locks are looked through before the places are changed, without
\* the last player.
Remaining_NotTheLast(pl) == {Players[i] : i \in 0 .. NumPlayers - 2} \ {pl}

\* The players Player_remove looks at for pointers to pl.
Remaining(pl) == InGame \ {pl}

\* Players after pl, which leaves, has changed places with the last player.
Exchanged(pl) == [Players EXCEPT ![GetInd[id[pl]]] = Players[NumPlayers - 1], ![NumPlayers - 1] = pl]

\* The locks then.
Unlocked(pl) ==
    [q \in Structs |-> IF q = pl \/ (q \in Remaining(pl) /\ (lock[q] = pl \/ NumPlayers <= 2))
                       THEN None ELSE lock[q]]

\* Player_remove.  The first NumPlayers - 1 entries stay in the game.
Player_remove(pl) ==
    /\ Going
    /\ pl \in InGame
    /\ Players' = Exchanged(pl)
    /\ GetInd' = Reindexed(pl, Players[NumPlayers - 1])
    /\ NumPlayers' = NumPlayers - 1
    /\ lock' = Unlocked(pl)
    /\ lockbank' = [q \in Structs |-> [b \in Banks |->
                       IF q = pl \/ (q \in Remaining(pl) /\ lockbank[q][b] = pl)
                       THEN None ELSE lockbank[q][b]]]
    /\ release_ID(id[pl])
    /\ id' = [id EXCEPT ![pl] = 0]

-----------------------------------------------------------------------------
(* Locks.  Whom a player may lock on depends on teams and on who is alive, *)
(* which is not modelled: a choice.                                        *)

\* Player_lock_closest, and the robots' choice of an enemy.
Player_lock_closest(pl) ==
    /\ Going
    /\ pl \in InGame
    /\ \E q \in (InGame \ {pl}) \cup {None} : lock' = [lock EXCEPT ![pl] = q]
    /\ UNCHANGED <<Players, NumPlayers, id, GetInd, lockbank, idVars>>

\* Player_lock_next: around the table from the locked player to the first one
\* that will do, step +1 or -1.
Player_lock_next(pl, step) ==
    /\ Going
    /\ pl \in InGame
    /\ lock[pl] # None
    /\ \E suitable \in SUBSET (InGame \ {pl}) :
       LET from == GetInd[id[lock[pl]]]
           At(n) == Players[(from + step * n) % NumPlayers]
           steps == {n \in 1 .. NumPlayers : At(n) \in suitable \/ At(n) = lock[pl]}
           q == At(CHOOSE n \in steps : \A m \in steps : n <= m)
       IN  lock' = [lock EXCEPT ![pl] = IF q = pl THEN None ELSE q]
    /\ UNCHANGED <<Players, NumPlayers, id, GetInd, lockbank, idVars>>

\* The keys that store the lock in the bank and take it from there.
Store_lock(pl, b) ==
    /\ Going
    /\ pl \in InGame
    /\ lock[pl] # None
    /\ Cardinality({q \in Structs : \E k \in Banks : lockbank[q][k] # None} \cup {pl}) <= MaxStored
    /\ lockbank' = [lockbank EXCEPT ![pl][b] = lock[pl]]
    /\ UNCHANGED <<Players, NumPlayers, id, GetInd, lock, idVars>>

Load_lock(pl, b) ==
    /\ Going
    /\ pl \in InGame
    /\ lockbank[pl][b] \notin {None, pl}
    /\ lock' = [lock EXCEPT ![pl] = lockbank[pl][b]]
    /\ UNCHANGED <<Players, NumPlayers, id, GetInd, lockbank, idVars>>

-----------------------------------------------------------------------------
\* Players_allocate, in the order of the structures in memory, which has no name.
TableInit ==
    /\ IdInit
    /\ Players \in Bijection(0 .. NumStructs - 1, Structs)
    /\ NumPlayers = 0
    /\ id = [s \in Structs |-> 0]
    /\ GetInd = [n \in 0 .. NumIds |-> 0]
    /\ lock = [s \in Structs |-> None]
    /\ lockbank = [s \in Structs |-> [b \in Banks |-> None]]

TableNext ==
    \/ \E robot \in BOOLEAN : Player_add(robot)
    \/ \E pl \in Structs :
           \/ Player_remove(pl)
           \/ Player_lock_closest(pl)
           \/ \E step \in {1, -1} : Player_lock_next(pl, step)
           \/ \E b \in Banks : Store_lock(pl, b) \/ Load_lock(pl, b)

TableSpec == TableInit /\ [][TableNext]_allVars

-----------------------------------------------------------------------------
(* Properties.                                                             *)

\* No structure is lost from the array or twice in it, however players come and
\* go, GetInd leads from the id of a player to its place, which Player_remove and
\* ids from the net rely on, and the ids in use are those of the players, each of one.
TableIsIndexed ==
    /\ \A s \in Structs : \E i \in 0 .. NumStructs - 1 : Players[i] = s
    /\ \A i \in 0 .. NumPlayers - 1 : GetInd[id[Players[i]]] = i
    /\ TakenIds = {id[s] : s \in InGame} /\ Cardinality(TakenIds) = NumPlayers

\* Nobody has a lock on, or in the bank a pointer to, a player who has left, nor
\* on itself: frames are drawn from, and homing is done by, what it points to.
LocksAreLive ==
    \A s \in Structs :
        /\ lock[s] # None => s \in InGame /\ lock[s] \in InGame \ {s}
        /\ \A b \in Banks : lockbank[s][b] # None => lockbank[s][b] \in InGame \ {s}

\* With as many ids as players, release_ID finds no "Illegal ID" and init_ID no
\* "ID queue corruption", also where the counters wrap.
NeverExits == MaxInGame <= NumIds => ~exited

\* The table, its index, the ids and the locks agree after any coming and going, and the
\* server goes on.
TableSafe == TableIsIndexed /\ LocksAreLive /\ NeverExits

\* The pool hands ids out in the order of their release.
IdsAreFifo == Fifo!Spec
=============================================================================
