--------------------------- MODULE PlayerTableProofs ---------------------------
(***************************************************************************)
(* Proofs about PlayerTable and Frames: the circular queue of ids is a     *)
(* FIFO, for every number of ids and wherever the two counters wrap; and   *)
(* the table, its index, the ids and the locks agree however players come, *)
(* go and lose their connections in the middle of a frame, and the frame   *)
(* reaches those it should.                                                *)
(*                                                                         *)
(* And about Scheduler: the table of input handlers is right whatever the  *)
(* alarm interrupts, for any number of connections that it has room for,   *)
(* and whatever numbers the kernel reuses; and real frames go on coming.   *)
(***************************************************************************)
EXTENDS Frames, Scheduler, FiniteSetTheorems, SequenceTheorems, TLAPS

-----------------------------------------------------------------------------
(* The inductive invariants.                                               *)

\* Where the k-th free id is in the queue.
Pos(k) == ((get_ID + k - 1) % Wrap) % NumIds

\* The queue holds each id that is not taken, once, between its two counters.
IdInv ==
    /\ ID_queue \in [0 .. NumIds - 1 -> 1 .. NumIds]
    /\ ID_inuse \in [1 .. NumIds -> BOOLEAN]
    /\ get_ID \in 0 .. Wrap - 1
    /\ put_ID \in 0 .. Wrap - 1
    /\ Available <= NumIds
    /\ \A j, k \in 1 .. Available : FreeIds[j] = FreeIds[k] => j = k
    /\ \A n \in 1 .. NumIds : ID_inuse[n] <=> \A k \in 1 .. Available : FreeIds[k] # n
    /\ Available + Cardinality(TakenIds) = NumIds

\* Players is a permutation of the structures, and those in the game have ids that
\* lead back to their places.
IndexInv ==
    /\ Players \in [0 .. NumStructs - 1 -> Structs]
    /\ \A i, j \in 0 .. NumStructs - 1 : Players[i] = Players[j] => i = j
    /\ \A s \in Structs : \E i \in 0 .. NumStructs - 1 : Players[i] = s
    /\ NumPlayers \in 0 .. MaxInGame
    /\ id \in [Structs -> 0 .. NumIds]
    /\ GetInd \in [0 .. NumIds -> 0 .. NumStructs - 1]
    /\ \A i \in 0 .. NumPlayers - 1 :
           id[Players[i]] \in 1 .. NumIds /\ GetInd[id[Players[i]]] = i
    /\ \A n \in 1 .. NumIds :
           ID_inuse[n] <=> \E i \in 0 .. NumPlayers - 1 : id[Players[i]] = n
    /\ Cardinality(TakenIds) = NumPlayers

LockInv ==
    /\ lock \in [Structs -> Structs \cup {None}]
    /\ lockbank \in [Structs -> [Banks -> Structs \cup {None}]]
    /\ LocksAreLive
    /\ \A s \in Structs : \A b \in Banks : lockbank[s][b] # None => s \in InGame

TableInv == ~exited /\ IdInv /\ IndexInv /\ LockInv

-----------------------------------------------------------------------------
(* Counters that wrap.                                                     *)

\* A remainder is in range.
LEMMA ModRange ==
    ASSUME NEW n \in Nat \ {0}, NEW x \in Int
    PROVE  x % n \in 0 .. n - 1
OBVIOUS

\* A number is its quotient's multiple and its remainder.
LEMMA ModDiv ==
    ASSUME NEW n \in Nat \ {0}, NEW x \in Int
    PROVE  \E q \in Int : x = n * q + (x % n)
<1>1. \A m, y \in Int : m > 0 => y = m * (y \div m) + (y % m)
    BY SMTT(30)
<1>2. x = n * (x \div n) + (x % n)
  <2>1. n \in Int /\ x \in Int /\ n > 0 OBVIOUS
  <2> QED BY ONLY <1>1, <2>1, Zenon
<1>3. x \div n \in Int
    OBVIOUS
<1> QED BY ONLY <1>2, <1>3, Zenon

\* The remainder is the only number in range that differs by a multiple.
LEMMA ModUnique ==
    ASSUME NEW n \in Nat \ {0}, NEW x \in Int, NEW q \in Int, NEW r \in 0 .. n - 1,
           x = n * q + r
    PROVE  x % n = r
OBVIOUS

\* Numbers less than n apart have different remainders.
LEMMA ModDistinct ==
    ASSUME NEW n \in Nat \ {0}, NEW x \in Int, NEW y \in Int, x % n = y % n, x - y \in 0 .. n - 1
    PROVE  x = y
<1>1. PICK p \in Int : x = n * p + (x % n) BY ModDiv
<1>2. PICK q \in Int : y = n * q + (y % n) BY ModDiv
<1> DEFINE d == p - q
<1>3. d \in Int OBVIOUS
<1>4. x % n \in Int /\ y % n \in Int BY ModRange
<1>5. x - y = n * d BY <1>1, <1>2, <1>4
<1>6. d > 0 => n * d >= n BY <1>3
<1>7. d < 0 => n * d < 0 BY <1>3
<1>8. d = 0 => n * d = 0 BY <1>3
<1> HIDE DEF d
<1> QED BY <1>3, <1>5, <1>6, <1>7, <1>8

\* A multiple of n more changes no remainder.
LEMMA ModAdd ==
    ASSUME NEW n \in Nat \ {0}, NEW x \in Int, NEW q \in Int
    PROVE  (n * q + x) % n = x % n
<1>1. PICK p \in Int : x = n * p + (x % n) BY ModDiv
<1>2. x % n \in 0 .. n - 1 BY ModRange
<1> DEFINE y == n * q + x
           r == x % n
<1>3. y \in Int /\ r \in Int /\ p + q \in Int BY <1>2
<1>4. n * (p + q) = n * p + n * q OBVIOUS
<1>5. y = n * (p + q) + r
  <2>1. n * p \in Int /\ n * q \in Int /\ n * (p + q) \in Int OBVIOUS
  <2>2. x = n * p + r BY <1>1
  <2> HIDE DEF r
  <2> QED BY ONLY <1>3, <1>4, <2>1, <2>2, x \in Int
<1> HIDE DEF y, r
<1>6. y % n = r BY <1>2, <1>3, <1>5, ModUnique DEF r
<1> QED BY <1>6 DEF y, r

\* The counters wrap at a multiple of the size of the queue: its places do not notice.
LEMMA WrapMod ==
    ASSUME NEW x \in Int
    PROVE  (x % Wrap) % NumIds = x % NumIds
<1> USE IdAssumption
<1>1. Wrap \in Nat \ {0} /\ Wrap \in Int OBVIOUS
<1>2. PICK p \in Int : x = Wrap * p + (x % Wrap) BY <1>1, ModDiv
<1>3. PICK q \in Int : Wrap = NumIds * q + (Wrap % NumIds) BY <1>1, ModDiv
<1>4. Wrap = NumIds * q BY <1>3
<1> DEFINE r == x % Wrap
<1>5. r \in Int BY <1>1, ModRange
<1>6. x = NumIds * (q * p) + r
  <2>1. Wrap * p = NumIds * (q * p) BY <1>4
  <2> HIDE DEF r
  <2> QED BY <1>2, <2>1 DEF r
<1>7. q * p \in Int OBVIOUS
<1> HIDE DEF r
<1>8. (NumIds * (q * p) + r) % NumIds = r % NumIds BY <1>5, <1>7, ModAdd
<1> QED BY <1>6, <1>8 DEF r

\* Remainders may be taken early,
LEMMA ModShift ==
    ASSUME NEW n \in Nat \ {0}, NEW x \in Int, NEW y \in Int
    PROVE  ((x % n) + y) % n = (x + y) % n
<1>1. PICK p \in Int : x = n * p + (x % n) BY ModDiv
<1> DEFINE r == x % n
           z == r + y
<1>2. r \in Int BY ModRange
<1>3. z \in Int BY <1>2
<1>4. x + y = n * p + z
  <2>1. x = n * p + r /\ n * p \in Int BY <1>1
  <2> HIDE DEF r
  <2> QED BY ONLY <1>2, <2>1, x \in Int, y \in Int DEF z
<1> HIDE DEF z
<1>5. (n * p + z) % n = z % n BY <1>3, ModAdd
<1> QED BY <1>4, <1>5 DEF z

\* also of what is subtracted.
LEMMA ModSub ==
    ASSUME NEW n \in Nat \ {0}, NEW x \in Int, NEW y \in Int
    PROVE  (y - (x % n)) % n = (y - x) % n
<1>1. PICK p \in Int : x = n * p + (x % n) BY ModDiv
<1> DEFINE r == x % n
           z == y - x
<1>2. r \in Int /\ z \in Int BY ModRange
<1>4. y - r = n * p + z
  <2>1. x = n * p + r /\ n * p \in Int BY <1>1
  <2> HIDE DEF r
  <2> QED BY ONLY <1>2, <2>1, x \in Int, y \in Int DEF z
<1> HIDE DEF z
<1>5. (n * p + z) % n = z % n BY <1>2, ModAdd
<1> QED BY <1>4, <1>5 DEF z, r

-----------------------------------------------------------------------------
(* The queue of ids.                                                       *)

\* The two counters are equal when, and only when, there is no free id.
LEMMA AvailableType ==
    ASSUME IdInv
    PROVE  /\ Available \in 0 .. NumIds
           /\ Available = 0 <=> get_ID = put_ID
<1> USE IdAssumption
<1>0. Wrap \in Nat \ {0} OBVIOUS
<1>1. get_ID \in 0 .. Wrap - 1 /\ put_ID \in 0 .. Wrap - 1 /\ Available <= NumIds BY DEF IdInv
<1>2. Available \in 0 .. Wrap - 1 BY <1>0, <1>1, ModRange DEF Available
<1>3. 0 % Wrap = 0 BY <1>0
<1>4. ASSUME get_ID = put_ID PROVE Available = 0
    BY <1>1, <1>3, <1>4 DEF Available
<1>5. ASSUME Available = 0 PROVE get_ID = put_ID
  <2> DEFINE d == put_ID - get_ID
  <2>1. d \in Int /\ d % Wrap = 0 BY <1>1, <1>5 DEF Available
  <2>2. CASE d >= 0
    <3>1. d - 0 \in 0 .. Wrap - 1 BY <1>1, <2>2
    <3> HIDE DEF d
    <3>2. d = 0 BY <1>0, <1>3, <2>1, <3>1, ModDistinct
    <3> QED BY <1>1, <3>2 DEF d
  <2>3. CASE d < 0
    <3>1. 0 - d \in 0 .. Wrap - 1 BY <1>1, <2>3
    <3> HIDE DEF d
    <3>2. d = 0 BY <1>0, <1>3, <2>1, <3>1, ModDistinct
    <3> QED BY <1>1, <3>2 DEF d
  <2> QED BY <2>1, <2>2, <2>3
<1> QED BY <1>1, <1>2, <1>4, <1>5

\* Free ids have places in the queue, different ones,
LEMMA PosDistinct ==
    ASSUME IdInv
    PROVE  /\ \A k \in Int : Pos(k) \in 0 .. NumIds - 1
           /\ \A j, k \in 1 .. NumIds : Pos(j) = Pos(k) => j = k
<1> USE IdAssumption
<1>1. get_ID \in Int BY DEF IdInv
<1>2. ASSUME NEW k \in Int PROVE Pos(k) = (get_ID + k - 1) % NumIds
  <2>1. get_ID + k - 1 \in Int BY <1>1
  <2> QED BY <2>1, WrapMod DEF Pos
<1>3. \A k \in Int : Pos(k) \in 0 .. NumIds - 1 BY <1>1, <1>2, ModRange
<1>4. ASSUME NEW j \in 1 .. NumIds, NEW k \in 1 .. NumIds, Pos(j) = Pos(k), j >= k PROVE j = k
  <2> DEFINE x == get_ID + j - 1
             y == get_ID + k - 1
  <2>1. x \in Int /\ y \in Int /\ x - y \in 0 .. NumIds - 1 BY <1>1, <1>4
  <2>2. x % NumIds = y % NumIds BY <1>2, <1>4
  <2> HIDE DEF x, y
  <2>3. x = y BY <2>1, <2>2, ModDistinct
  <2> QED BY <1>1, <2>3 DEF x, y
<1> QED BY <1>3, <1>4

\* and the one after them is where release_ID writes.
LEMMA PosEnd ==
    ASSUME IdInv
    PROVE  Pos(Available + 1) = PlaceFor
<1> USE IdAssumption
<1>0. Wrap \in Nat \ {0} OBVIOUS
<1>1. get_ID \in Int /\ put_ID \in 0 .. Wrap - 1 BY DEF IdInv
<1>2. Available \in Int BY AvailableType
<1> DEFINE d == put_ID - get_ID
<1>3. d \in Int BY <1>1
<1>4. ((d % Wrap) + get_ID) % Wrap = (d + get_ID) % Wrap
  <2> HIDE DEF d
  <2> QED BY <1>0, <1>1, <1>3, ModShift
<1>5. d + get_ID = put_ID BY <1>1
<1>6. put_ID % Wrap = put_ID BY <1>0, <1>1
<1>7. get_ID + (Available + 1) - 1 = Available + get_ID BY <1>1, <1>2
<1> QED BY <1>4, <1>5, <1>6, <1>7 DEF Pos, PlaceFor, Available

\* FreeIds is a sequence of ids.
LEMMA FreeType ==
    ASSUME IdInv
    PROVE  /\ FreeIds \in Seq(1 .. NumIds)
           /\ Len(FreeIds) = Available
           /\ \A k \in 1 .. Available : FreeIds[k] = ID_queue[Pos(k)]
<1>1. Available \in Nat /\ 1 .. Available \subseteq Int BY AvailableType, IdAssumption
<1>2. \A k \in 1 .. Available : ID_queue[Pos(k)] \in 1 .. NumIds
    BY <1>1, PosDistinct DEF IdInv
<1>3. FreeIds = [k \in 1 .. Available |-> ID_queue[Pos(k)]] BY DEF FreeIds, Pos
<1>4. FreeIds \in [1 .. Available -> 1 .. NumIds] BY <1>2, <1>3
<1> QED BY <1>1, <1>3, <1>4

\* request_ID when there is a free id: the first one is taken, the others move up.
TakeOne ==
    /\ get_ID' = Next_ID(get_ID)
    /\ ID_inuse' = Marked(peek_ID)
    /\ UNCHANGED <<ID_queue, put_ID>>

LEMMA TakeEffect ==
    ASSUME IdInv, Available > 0, TakeOne
    PROVE  /\ peek_ID = Head(FreeIds)
           /\ FreeIds' = Tail(FreeIds)
           /\ Available' = Available - 1
           /\ get_ID' \in 0 .. Wrap - 1
<1> USE IdAssumption
<1>0. Wrap \in Nat \ {0} OBVIOUS
<1>1. get_ID \in 0 .. Wrap - 1 /\ put_ID \in Int BY DEF IdInv
<1>2. Available \in 1 .. NumIds BY AvailableType
<1>3. get_ID' = (get_ID + 1) % Wrap /\ put_ID' = put_ID /\ ID_queue' = ID_queue
    BY DEF TakeOne, Next_ID
<1>4. get_ID' \in 0 .. Wrap - 1
  <2>1. get_ID + 1 \in Int BY <1>1
  <2> QED BY <1>0, <1>3, <2>1, ModRange
<1>5. Available' = Available - 1
  <2> DEFINE d == put_ID - get_ID
             e == get_ID + 1
  <2>1. d \in Int /\ e \in Int /\ put_ID - e = d + (-1) BY <1>1
  <2>2. (put_ID - (e % Wrap)) % Wrap = (put_ID - e) % Wrap
    <3> HIDE DEF e
    <3> QED BY <1>0, <1>1, <2>1, ModSub
  <2>3. ((d % Wrap) + (-1)) % Wrap = (d + (-1)) % Wrap
    <3>1. -1 \in Int OBVIOUS
    <3> HIDE DEF d
    <3> QED BY <1>0, <2>1, <3>1, ModShift, Zenon
  <2>4. Available' = (Available + (-1)) % Wrap
    BY <1>3, <2>1, <2>2, <2>3 DEF Available
  <2>5. Available + (-1) \in 0 .. Wrap - 1 BY <1>2
  <2> HIDE DEF d, e
  <2>6. (Available + (-1)) % Wrap = Available + (-1)
    <3> DEFINE a == Available + (-1)
    <3>1. a \in 0 .. Wrap - 1 BY <2>5
    <3> HIDE DEF a
    <3>2. a % Wrap = a BY <1>0, <3>1
    <3> QED BY <3>2 DEF a
  <2> QED BY <1>2, <2>4, <2>6
<1>6. ASSUME NEW k \in Int PROVE Pos(k)' = Pos(k + 1)
  <2> DEFINE e == get_ID + 1
             f == k - 1
  <2>1. e \in Int /\ f \in Int BY <1>1
  <2>2. ((e % Wrap) + f) % Wrap = (e + f) % Wrap
    <3> HIDE DEF e, f
    <3> QED BY <1>0, <2>1, ModShift
  <2>3. (e % Wrap) + f = get_ID' + k - 1 BY <1>3, <1>4
  <2>4. e + f = get_ID + (k + 1) - 1 BY <1>1
  <2>5. Pos(k)' = ((get_ID' + k - 1) % Wrap) % NumIds BY DEF Pos
  <2> QED BY <2>2, <2>3, <2>4, <2>5 DEF Pos
<1>7. peek_ID = Head(FreeIds)
  <2>1. Pos(1) = get_ID % NumIds
    <3>1. get_ID + 1 - 1 = get_ID /\ get_ID \in Int BY <1>1
    <3> QED BY <3>1, WrapMod DEF Pos
  <2>2. 1 \in 1 .. Available BY <1>2
  <2>3. FreeIds[1] = ID_queue[get_ID % NumIds] BY <2>1, <2>2, FreeType
  <2>4. get_ID # put_ID BY <1>2, AvailableType
  <2> QED BY <1>2, <2>3, <2>4, FreeType DEF peek_ID
<1>8. FreeIds' = [k \in 1 .. Available' |-> ID_queue[Pos(k)']]
    BY <1>3 DEF FreeIds, Pos
<1>9. /\ Tail(FreeIds) \in Seq(1 .. NumIds)
      /\ Len(Tail(FreeIds)) = Available - 1
      /\ \A k \in 1 .. Available - 1 : Tail(FreeIds)[k] = FreeIds[k + 1]
  <2>1. FreeIds # <<>> BY <1>2, FreeType
  <2> HIDE DEF FreeIds
  <2> QED BY <1>2, <2>1, FreeType, HeadTailProperties
<1>10. ASSUME NEW k \in 1 .. Available - 1 PROVE FreeIds[k + 1] = ID_queue[Pos(k)']
  <2>1. k \in Int /\ k + 1 \in 1 .. Available BY <1>2
  <2>2. Pos(k)' = Pos(k + 1) BY <1>6, <2>1
  <2>3. FreeIds[k + 1] = ID_queue[Pos(k + 1)] BY <2>1, FreeType
  <2> QED BY <2>2, <2>3
<1>11. FreeIds' = Tail(FreeIds)
  <2>1. \A k \in 1 .. Available - 1 : ID_queue[Pos(k)'] = Tail(FreeIds)[k] BY <1>9, <1>10
  <2>2. \A k \in 1 .. Available - 1 : ID_queue[Pos(k)'] \in 1 .. NumIds
    <3>1. \A k \in 1 .. Available - 1 : Tail(FreeIds)[k] \in 1 .. NumIds BY <1>9
    <3> QED BY <2>1, <3>1
  <2>3. Available - 1 \in Nat BY <1>2
  <2>4. FreeIds' \in [1 .. Available - 1 -> 1 .. NumIds] BY <1>5, <1>8, <2>2
  <2>5. FreeIds' \in Seq(1 .. NumIds) /\ Len(FreeIds') = Available - 1
    <3> DEFINE q == FreeIds'
    <3>1. q \in [1 .. Available - 1 -> 1 .. NumIds] BY <2>4
    <3> HIDE DEF q
    <3>2. q \in Seq(1 .. NumIds) /\ Len(q) = Available - 1 BY <2>3, <3>1
    <3> QED BY <3>2 DEF q
  <2>6. \A k \in 1 .. Available - 1 : FreeIds'[k] = Tail(FreeIds)[k] BY <1>5, <1>8, <2>1
  <2> QED BY <1>9, <2>5, <2>6, SeqEqual
<1> QED BY <1>4, <1>5, <1>7, <1>11

\* release_ID: the id goes to the end.
GiveOne(n) ==
    /\ ID_queue' = [ID_queue EXCEPT ![PlaceFor] = n]
    /\ put_ID' = Next_ID(put_ID)
    /\ ID_inuse' = [ID_inuse EXCEPT ![n] = FALSE]
    /\ UNCHANGED get_ID

LEMMA GiveEffect ==
    ASSUME IdInv, NEW n \in 1 .. NumIds, Available < NumIds, GiveOne(n)
    PROVE  /\ FreeIds' = Append(FreeIds, n)
           /\ Available' = Available + 1
           /\ put_ID' \in 0 .. Wrap - 1
           /\ ID_queue' \in [0 .. NumIds - 1 -> 1 .. NumIds]
<1> USE IdAssumption
<1>0. Wrap \in Nat \ {0} OBVIOUS
<1>1. get_ID \in Int /\ put_ID \in 0 .. Wrap - 1 BY DEF IdInv
<1>2. Available \in 0 .. NumIds - 1 BY AvailableType
<1>3. put_ID' = (put_ID + 1) % Wrap /\ get_ID' = get_ID
    BY DEF GiveOne, Next_ID
<1>4. put_ID' \in 0 .. Wrap - 1
  <2>1. put_ID + 1 \in Int BY <1>1
  <2> QED BY <1>0, <1>3, <2>1, ModRange
<1>5. Available' = Available + 1
  <2> DEFINE d == put_ID - get_ID
             e == put_ID + 1
             g == -get_ID
  <2>1. d \in Int /\ e \in Int /\ g \in Int /\ e + g = d + 1 BY <1>1
  <2>2. ((e % Wrap) + g) % Wrap = (e + g) % Wrap
    <3> HIDE DEF e, g
    <3> QED BY <1>0, <2>1, ModShift
  <2>3. ((d % Wrap) + 1) % Wrap = (d + 1) % Wrap
    <3>1. 1 \in Int OBVIOUS
    <3> HIDE DEF d
    <3> QED BY <1>0, <2>1, <3>1, ModShift, Zenon
  <2>4. put_ID' - get_ID' = (e % Wrap) + g BY <1>1, <1>3, <1>4
  <2>5. Available' = (Available + 1) % Wrap
    BY <2>1, <2>2, <2>3, <2>4 DEF Available
  <2>6. (Available + 1) % Wrap = Available + 1
    <3> DEFINE a == Available + 1
    <3>1. a \in 0 .. Wrap - 1 BY <1>2
    <3> HIDE DEF a
    <3>2. a % Wrap = a BY <1>0, <3>1
    <3> QED BY <3>2 DEF a
  <2> QED BY <2>5, <2>6
<1>6. Available + 1 \in Int /\ Available + 1 \in 1 .. NumIds BY <1>2
<1>7. PlaceFor \in 0 .. NumIds - 1 BY <1>6, PosEnd, PosDistinct
<1>8. ID_queue \in [0 .. NumIds - 1 -> 1 .. NumIds] BY DEF IdInv
<1>9. ID_queue' = [ID_queue EXCEPT ![PlaceFor] = n] BY DEF GiveOne
<1>10. ID_queue' \in [0 .. NumIds - 1 -> 1 .. NumIds] BY <1>8, <1>9
<1>11. FreeIds' = [k \in 1 .. Available + 1 |-> ID_queue'[Pos(k)]]
    BY <1>3, <1>5 DEF FreeIds, Pos
<1>12. ASSUME NEW k \in 1 .. Available PROVE ID_queue'[Pos(k)] = FreeIds[k]
  <2>1. k \in 1 .. NumIds /\ k # Available + 1 /\ k \in Int BY <1>2
  <2>2. Pos(k) # Pos(Available + 1) BY <1>6, <2>1, PosDistinct
  <2>3. Pos(k) # PlaceFor BY <2>2, PosEnd
  <2>4. Pos(k) \in 0 .. NumIds - 1 BY <2>1, PosDistinct
  <2>5. ID_queue'[Pos(k)] = ID_queue[Pos(k)] BY <1>8, <1>9, <2>3, <2>4
  <2> QED BY <2>5, FreeType
<1>13. ID_queue'[Pos(Available + 1)] = n BY <1>7, <1>8, <1>9, PosEnd
<1>14. /\ Append(FreeIds, n) \in Seq(1 .. NumIds)
       /\ Len(Append(FreeIds, n)) = Available + 1
       /\ \A k \in 1 .. Available : Append(FreeIds, n)[k] = FreeIds[k]
       /\ Append(FreeIds, n)[Available + 1] = n
  <2> HIDE DEF FreeIds
  <2> QED BY FreeType, AppendProperties
<1>15. FreeIds' = Append(FreeIds, n)
  <2>1. Available + 1 \in Nat /\ \A k \in 1 .. Available + 1 : k \in 1 .. Available \/ k = Available + 1
      BY <1>2
  <2>2. \A k \in 1 .. Available + 1 : ID_queue'[Pos(k)] = Append(FreeIds, n)[k]
      BY <1>12, <1>13, <1>14, <2>1
  <2>3. \A k \in 1 .. Available + 1 : ID_queue'[Pos(k)] \in 1 .. NumIds
    <3>1. \A k \in 1 .. Available + 1 : Append(FreeIds, n)[k] \in 1 .. NumIds BY <1>14
    <3> QED BY <2>2, <3>1
  <2>4. FreeIds' \in [1 .. Available + 1 -> 1 .. NumIds] BY <1>11, <2>3
  <2>5. FreeIds' \in Seq(1 .. NumIds) /\ Len(FreeIds') = Available + 1
    <3> DEFINE q == FreeIds'
    <3>1. q \in [1 .. Available + 1 -> 1 .. NumIds] BY <2>4
    <3> HIDE DEF q
    <3>2. q \in Seq(1 .. NumIds) /\ Len(q) = Available + 1 BY <2>1, <3>1
    <3> QED BY <3>2 DEF q
  <2>6. \A k \in 1 .. Available + 1 : FreeIds'[k] = Append(FreeIds, n)[k] BY <1>11, <2>2
  <2> QED BY <1>14, <2>5, <2>6, SeqEqual
<1> QED BY <1>4, <1>5, <1>10, <1>15

\* The ids in use are finitely many.
LEMMA TakenFinite ==
    IsFiniteSet(TakenIds) /\ Cardinality(TakenIds) \in Nat
<1>1. IsFiniteSet(1 .. NumIds) BY IdAssumption, FS_Interval
<1>2. TakenIds \in SUBSET (1 .. NumIds) BY DEF TakenIds
<1>3. IsFiniteSet(TakenIds) BY <1>1, <1>2, FS_Subset
<1> QED BY <1>3, FS_CardinalityType

\* Nothing happens to the ids.
LEMMA QueueStays ==
    ASSUME UNCHANGED <<ID_queue, ID_inuse, get_ID, put_ID>>
    PROVE  /\ IdInv => IdInv'
           /\ UNCHANGED <<Available, FreeIds, TakenIds>>
<1>1. Available' = Available BY DEF Available
<1>2. TakenIds' = TakenIds BY DEF TakenIds
<1>3. FreeIds' = FreeIds BY <1>1 DEF FreeIds
<1> QED
  <2> HIDE DEF FreeIds
  <2> QED BY <1>1, <1>2, <1>3 DEF IdInv

\* request_ID keeps the queue in order, never finds it corrupt, and takes the first
\* free id if there is one.
LEMMA RequestEffect ==
    ASSUME IdInv, request_ID
    PROVE  /\ IdInv'
           /\ exited' = exited
           /\ \/ /\ Available = 0
                 /\ peek_ID = 0
                 /\ UNCHANGED idVars
              \/ /\ Available > 0
                 /\ peek_ID \in 1 .. NumIds
                 /\ ~ID_inuse[peek_ID]
                 /\ ID_inuse' = Marked(peek_ID)
                 /\ TakenIds' = TakenIds \cup {peek_ID}
                 /\ Cardinality(TakenIds') = Cardinality(TakenIds) + 1
                 /\ FreeIds # <<>>
                 /\ peek_ID = Head(FreeIds)
                 /\ FreeIds' = Tail(FreeIds)
<1> USE IdAssumption
<1>1. Available \in 0 .. NumIds /\ (Available = 0 <=> get_ID = put_ID) BY AvailableType
<1>2. ~(Available > NumIds) BY <1>1
<1>3. CASE Available = 0
  <2>1. peek_ID = 0 BY <1>1, <1>3 DEF peek_ID
  <2>2. UNCHANGED idVars BY <1>2, <2>1 DEF request_ID
  <2>3. IdInv' BY <2>2, QueueStays DEF idVars
  <2> QED BY <1>3, <2>1, <2>2, <2>3 DEF idVars
<1>4. CASE Available > 0
  <2> DEFINE n == FreeIds[1]
  <2>1. 1 \in 1 .. Available BY <1>1, <1>4
  <2>2. /\ get_ID % NumIds = Pos(1) /\ get_ID # put_ID
    <3>1. get_ID + 1 - 1 = get_ID /\ get_ID \in Int BY DEF IdInv
    <3> QED BY <1>1, <1>4, <3>1, WrapMod DEF Pos
  <2>3. peek_ID = n BY <2>1, <2>2, FreeType DEF peek_ID
  <2>4. n \in 1 .. NumIds BY <2>1, FreeType
  <2>5. ~ID_inuse[n] BY <2>1, <2>4 DEF IdInv
  <2>6. peek_ID # 0 BY <2>3, <2>4
  <2>7. TakeOne /\ exited' = exited BY <1>2, <2>6 DEF request_ID, TakeOne
  <2>8. /\ peek_ID = Head(FreeIds)
        /\ FreeIds' = Tail(FreeIds)
        /\ Available' = Available - 1
        /\ get_ID' \in 0 .. Wrap - 1
      BY <1>4, <2>7, TakeEffect
  <2>9. ID_inuse \in [1 .. NumIds -> BOOLEAN] /\ ID_inuse' = [ID_inuse EXCEPT ![n] = TRUE]
      BY <2>3, <2>7 DEF IdInv, TakeOne, Marked
  <2>10. TakenIds' = TakenIds \cup {n} /\ n \notin TakenIds
      BY <2>4, <2>5, <2>9 DEF TakenIds
  <2>11. Cardinality(TakenIds') = Cardinality(TakenIds) + 1
      BY <2>10, TakenFinite, FS_AddElement
  <2>12. FreeIds # <<>> BY <1>4, FreeType
  <2>13. ASSUME NEW k \in 1 .. Available' PROVE FreeIds'[k] = FreeIds[k + 1] /\ k + 1 \in 1 .. Available
    <3>1. Len(Tail(FreeIds)) = Available - 1 /\ Tail(FreeIds)[k] = FreeIds[k + 1]
      <4> HIDE DEF FreeIds
      <4> QED BY <1>1, <2>8, <2>12, FreeType, HeadTailProperties
    <3> QED BY <1>1, <2>8, <3>1
  <2>14. IdInv'
    <3>1. /\ ID_queue' \in [0 .. NumIds - 1 -> 1 .. NumIds]
          /\ ID_inuse' \in [1 .. NumIds -> BOOLEAN]
          /\ get_ID' \in 0 .. Wrap - 1
          /\ put_ID' \in 0 .. Wrap - 1
      <4>1. /\ ID_queue \in [0 .. NumIds - 1 -> 1 .. NumIds]
            /\ put_ID \in 0 .. Wrap - 1
          BY DEF IdInv
      <4>2. ID_queue' = ID_queue /\ put_ID' = put_ID BY <2>7 DEF TakeOne
      <4>3. ID_inuse' \in [1 .. NumIds -> BOOLEAN] BY ONLY <2>9
      <4> QED BY ONLY <2>8, <4>1, <4>2, <4>3
    <3>2. Available' <= NumIds BY <1>1, <2>8
    <3>3. \A j, k \in 1 .. Available : FreeIds[j] = FreeIds[k] => j = k BY DEF IdInv
    <3>4. ASSUME NEW j \in 1 .. Available', NEW k \in 1 .. Available', FreeIds'[j] = FreeIds'[k]
          PROVE  j = k
      <4>1. j + 1 = k + 1
        <5> HIDE DEF FreeIds
        <5> QED BY <2>13, <3>3, <3>4
      <4>2. j \in Int /\ k \in Int BY <1>1, <2>8
      <4> QED BY <4>1, <4>2
    <3>5. \A m \in 1 .. NumIds : ID_inuse[m] <=> \A k \in 1 .. Available : FreeIds[k] # m BY DEF IdInv
    <3>6. ASSUME NEW m \in 1 .. NumIds
          PROVE  ID_inuse'[m] <=> \A k \in 1 .. Available' : FreeIds'[k] # m
      <4>1. CASE m = n
        <5>1. ID_inuse'[m] BY <2>4, <2>9, <4>1
        <5>2. ASSUME NEW k \in 1 .. Available' PROVE FreeIds'[k] # m
          <6>1. k + 1 # 1 BY <1>1, <2>8
          <6> HIDE DEF FreeIds
          <6> QED BY <2>1, <2>13, <3>3, <4>1, <6>1
        <5> QED BY <5>1, <5>2
      <4>2. CASE m # n
        <5>1. ID_inuse'[m] = ID_inuse[m] BY <2>9, <4>2
        <5>2. ASSUME NEW k \in 1 .. Available, FreeIds[k] = m PROVE \E l \in 1 .. Available' : FreeIds'[l] = m
          <6>1. k # 1 BY <4>2, <5>2
          <6>2. k - 1 \in 1 .. Available' /\ (k - 1) + 1 = k BY <1>1, <2>8, <6>1
          <6> HIDE DEF FreeIds
          <6> QED BY <2>13, <5>2, <6>2
        <5>3. ASSUME NEW k \in 1 .. Available', FreeIds'[k] = m PROVE \E l \in 1 .. Available : FreeIds[l] = m
          <6> HIDE DEF FreeIds
          <6> QED BY <2>13, <5>3
        <5> QED
          <6> HIDE DEF FreeIds
          <6> QED BY <3>5, <5>1, <5>2, <5>3
      <4> QED BY <4>1, <4>2
    <3>7. Available' + Cardinality(TakenIds') = NumIds
      <4>1. Available + Cardinality(TakenIds) = NumIds BY DEF IdInv
      <4> QED BY <1>1, <2>8, <2>11, <4>1, TakenFinite
    <3> QED
      <4> HIDE DEF FreeIds
      <4> QED BY <3>1, <3>2, <3>4, <3>6, <3>7 DEF IdInv
  <2> QED BY <1>4, <2>3, <2>4, <2>5, <2>7, <2>8, <2>10, <2>11, <2>12, <2>14 DEF TakeOne
<1> QED BY <1>1, <1>3, <1>4

\* release_ID ends the server, or makes an id that was taken the last free one.
LEMMA ReleaseEffect ==
    ASSUME IdInv, NEW n, release_ID(n)
    PROVE  /\ IdInv'
           /\ \/ /\ exited' = TRUE
                 /\ UNCHANGED <<ID_queue, ID_inuse, get_ID, put_ID>>
                 /\ Available = NumIds \/ n \notin 1 .. NumIds \/ ~ID_inuse[n]
              \/ /\ exited' = exited
                 /\ n \in 1 .. NumIds
                 /\ ID_inuse[n]
                 /\ ID_inuse' = [ID_inuse EXCEPT ![n] = FALSE]
                 /\ TakenIds' = TakenIds \ {n}
                 /\ Cardinality(TakenIds') = Cardinality(TakenIds) - 1
                 /\ FreeIds' = Append(FreeIds, n)
<1> USE IdAssumption
<1>1. Available \in 0 .. NumIds BY AvailableType
<1>2. CASE Available = NumIds \/ ~IsId(n) \/ ~ID_inuse[n]
  <2>1. exited' = TRUE /\ UNCHANGED <<ID_queue, ID_inuse, get_ID, put_ID>>
      BY <1>2 DEF release_ID
  <2>2. IdInv' BY <2>1, QueueStays
  <2> QED BY <1>2, <2>1, <2>2 DEF IsId
<1>3. CASE ~(Available = NumIds \/ ~IsId(n) \/ ~ID_inuse[n])
  <2>1. n \in 1 .. NumIds /\ ID_inuse[n] /\ Available < NumIds BY <1>1, <1>3 DEF IsId
  <2>2. GiveOne(n) /\ exited' = exited BY <1>3 DEF release_ID, GiveOne
  <2>3. /\ FreeIds' = Append(FreeIds, n)
        /\ Available' = Available + 1
        /\ put_ID' \in 0 .. Wrap - 1
        /\ ID_queue' \in [0 .. NumIds - 1 -> 1 .. NumIds]
      BY <2>1, <2>2, GiveEffect
  <2>4. ID_inuse \in [1 .. NumIds -> BOOLEAN] /\ ID_inuse' = [ID_inuse EXCEPT ![n] = FALSE]
      BY <2>2 DEF IdInv, GiveOne
  <2>5. TakenIds' = TakenIds \ {n} /\ n \in TakenIds
      BY <2>1, <2>4 DEF TakenIds
  <2>6. Cardinality(TakenIds') = Cardinality(TakenIds) - 1
      BY <2>5, TakenFinite, FS_RemoveElement
  <2>7. /\ \A k \in 1 .. Available : FreeIds'[k] = FreeIds[k]
        /\ FreeIds'[Available + 1] = n
    <3>1. /\ \A k \in 1 .. Available : Append(FreeIds, n)[k] = FreeIds[k]
          /\ Append(FreeIds, n)[Available + 1] = n
      <4> HIDE DEF FreeIds
      <4> QED BY <2>1, FreeType, AppendProperties
    <3> QED BY <2>3, <3>1
  <2>8. \A k \in 1 .. Available' : k \in 1 .. Available \/ k = Available + 1
      BY <1>1, <2>3
  <2>9. \A k \in 1 .. Available : k \in 1 .. Available' BY <1>1, <2>3
  <2>10. Available + 1 \in 1 .. Available' BY <1>1, <2>3
  <2>11. \A j, k \in 1 .. Available : FreeIds[j] = FreeIds[k] => j = k BY DEF IdInv
  <2>12. \A m \in 1 .. NumIds : ID_inuse[m] <=> \A k \in 1 .. Available : FreeIds[k] # m BY DEF IdInv
  <2>13. IdInv'
    <3>1. /\ ID_inuse' \in [1 .. NumIds -> BOOLEAN]
          /\ get_ID' \in 0 .. Wrap - 1
      <4>1. get_ID \in 0 .. Wrap - 1 BY DEF IdInv
      <4>2. get_ID' = get_ID BY <2>2 DEF GiveOne
      <4>3. ID_inuse' \in [1 .. NumIds -> BOOLEAN] BY ONLY <2>4
      <4> QED BY ONLY <4>1, <4>2, <4>3
    <3>2. Available' <= NumIds BY <1>1, <2>1, <2>3
    <3>3. \A j, k \in 1 .. Available' : FreeIds'[j] = FreeIds'[k] => j = k
      <4>1. \A k \in 1 .. Available : FreeIds[k] # n BY <2>1, <2>12
      <4> HIDE DEF FreeIds
      <4> QED BY <2>7, <2>8, <2>11, <4>1
    <3>4. ASSUME NEW m \in 1 .. NumIds
          PROVE  ID_inuse'[m] <=> \A k \in 1 .. Available' : FreeIds'[k] # m
      <4>1. CASE m = n
        <5>1. ~ID_inuse'[m] BY <2>1, <2>4, <4>1
        <5> QED BY <2>7, <2>10, <4>1, <5>1
      <4>2. CASE m # n
        <5>1. ID_inuse'[m] = ID_inuse[m] BY <2>4, <4>2
        <5> HIDE DEF FreeIds
        <5> QED BY <2>7, <2>8, <2>9, <2>12, <4>2, <5>1
      <4> QED BY <4>1, <4>2
    <3>5. Available' + Cardinality(TakenIds') = NumIds
      <4>1. Available + Cardinality(TakenIds) = NumIds BY DEF IdInv
      <4> QED BY <1>1, <2>3, <2>6, <4>1, TakenFinite
    <3> QED
      <4> HIDE DEF FreeIds
      <4> QED BY <2>3, <3>1, <3>2, <3>3, <3>4, <3>5 DEF IdInv
  <2> QED BY <2>1, <2>2, <2>3, <2>4, <2>5, <2>6, <2>13
<1> QED BY <1>2, <1>3

\* init_ID.
LEMMA IdStart ==
    ASSUME IdInit
    PROVE  /\ IdInv
           /\ Fifo!Init
<1> USE IdAssumption
<1>1. get_ID = 0 /\ put_ID = NumIds /\ ID_queue = [i \in 0 .. NumIds - 1 |-> i + 1]
      /\ ID_inuse = [n \in 1 .. NumIds |-> FALSE]
    BY DEF IdInit
<1>2. Available = NumIds
  <2>1. NumIds \in 0 .. Wrap - 1 /\ Wrap \in Nat \ {0} OBVIOUS
  <2>2. NumIds % Wrap = NumIds BY <2>1
  <2> QED BY <1>1, <2>2 DEF Available
<1>3. ASSUME NEW k \in 1 .. NumIds PROVE ID_queue[Pos(k)] = k
  <2>1. k - 1 \in 0 .. NumIds - 1 /\ k - 1 \in 0 .. Wrap - 1 /\ Wrap \in Nat \ {0} OBVIOUS
  <2> DEFINE e == k - 1
  <2>2. e % Wrap = e /\ e % NumIds = e
    <3>1. e \in 0 .. NumIds - 1 /\ e \in 0 .. Wrap - 1 /\ Wrap \in Nat \ {0} BY <2>1
    <3> HIDE DEF e
    <3> QED BY <3>1
  <2>3. Pos(k) = (e % Wrap) % NumIds BY <1>1 DEF Pos
  <2>4. Pos(k) = k - 1 BY <2>2, <2>3
  <2> QED BY <1>1, <2>1, <2>4
<1>4. FreeIds = [k \in 1 .. NumIds |-> k]
    BY <1>2, <1>3 DEF FreeIds, Pos
<1>5. TakenIds = {} BY <1>1 DEF TakenIds
<1>6. Cardinality(TakenIds) = 0 BY <1>5, FS_EmptySet
<1>7. IdInv
  <2>1. \A n \in 1 .. NumIds : ID_inuse[n] <=> \A k \in 1 .. Available : FreeIds[k] # n
      BY <1>1, <1>2, <1>4
  <2>2. \A j, k \in 1 .. Available : FreeIds[j] = FreeIds[k] => j = k BY <1>2, <1>4
  <2>3. ID_queue \in [0 .. NumIds - 1 -> 1 .. NumIds] /\ ID_inuse \in [1 .. NumIds -> BOOLEAN]
      BY <1>1
  <2> HIDE DEF FreeIds
  <2> QED BY <1>1, <1>2, <1>6, <2>1, <2>2, <2>3 DEF IdInv
<1> QED BY <1>4, <1>5, <1>7 DEF Fifo!Init

-----------------------------------------------------------------------------
(* The ids are handed out in the order of their release.                   *)

FifoNext == Fifo!Take \/ Fifo!GiveBack
FifoVars == <<FreeIds, TakenIds>>

LEMMA RequestIsTake ==
    ASSUME IdInv, request_ID
    PROVE  IdInv' /\ [FifoNext]_FifoVars
<1>1. CASE UNCHANGED idVars
    BY <1>1, QueueStays DEF idVars, FifoVars
<1>2. CASE /\ FreeIds # <<>>
           /\ peek_ID = Head(FreeIds)
           /\ FreeIds' = Tail(FreeIds)
           /\ TakenIds' = TakenIds \cup {peek_ID}
  <2>1. Fifo!Take
    <3> HIDE DEF FreeIds
    <3> QED BY <1>2 DEF Fifo!Take
  <2> QED BY <2>1, RequestEffect DEF FifoNext
<1> QED BY <1>1, <1>2, RequestEffect

LEMMA ReleaseIsGiveBack ==
    ASSUME IdInv, NEW n, release_ID(n)
    PROVE  IdInv' /\ [FifoNext]_FifoVars
<1>1. CASE UNCHANGED <<ID_queue, ID_inuse, get_ID, put_ID>>
    BY <1>1, QueueStays DEF FifoVars
<1>2. CASE /\ n \in 1 .. NumIds /\ ID_inuse[n]
           /\ FreeIds' = Append(FreeIds, n)
           /\ TakenIds' = TakenIds \ {n}
  <2>1. n \in TakenIds BY <1>2 DEF TakenIds
  <2>2. Fifo!GiveBack
    <3> HIDE DEF FreeIds
    <3> QED BY <1>2, <2>1 DEF Fifo!GiveBack
  <2> QED BY <2>2, ReleaseEffect DEF FifoNext
<1> QED BY <1>1, <1>2, ReleaseEffect

\* Nothing but Player_add and Player_remove touches the ids.
LEMMA FifoStep ==
    ASSUME IdInv, [FramesNext]_allVars
    PROVE  IdInv' /\ [FifoNext]_FifoVars
<1>0. CASE UNCHANGED <<ID_queue, ID_inuse, get_ID, put_ID>>
    BY <1>0, QueueStays DEF FifoVars
<1>1. ASSUME NEW robot \in BOOLEAN, Player_add(robot)
      PROVE  IdInv' /\ [FifoNext]_FifoVars
  <2>1. request_ID BY <1>1 DEF Player_add
  <2> QED BY <2>1, RequestIsTake
<1>2. ASSUME NEW pl, Player_remove(pl)
      PROVE  IdInv' /\ [FifoNext]_FifoVars
  <2>1. release_ID(id[pl]) BY <1>2 DEF Player_remove
  <2> QED BY <2>1, ReleaseIsGiveBack
<1>3. CASE TableNext
  <2>1. ASSUME NEW pl \in Structs, Player_lock_closest(pl)
        PROVE  UNCHANGED <<ID_queue, ID_inuse, get_ID, put_ID>>
      BY <2>1 DEF Player_lock_closest, idVars
  <2>2. ASSUME NEW pl \in Structs, NEW step \in {1, -1}, Player_lock_next(pl, step)
        PROVE  UNCHANGED <<ID_queue, ID_inuse, get_ID, put_ID>>
      BY <2>2 DEF Player_lock_next, idVars
  <2>3. ASSUME NEW pl \in Structs, NEW b \in Banks, Store_lock(pl, b) \/ Load_lock(pl, b)
        PROVE  UNCHANGED <<ID_queue, ID_inuse, get_ID, put_ID>>
      BY <2>3 DEF Store_lock, Load_lock, idVars
  <2> QED BY <1>0, <1>1, <1>2, <1>3, <2>1, <2>2, <2>3 DEF TableNext
<1>4. CASE Frame_update
  <2>1. PICK fails \in Fails : IF fails = None THEN UNCHANGED allVars ELSE Player_remove(fails)
      BY <1>4 DEF Frame_update
  <2> QED BY <1>0, <1>2, <2>1 DEF allVars, idVars
<1>5. CASE UNCHANGED allVars
    BY <1>0, <1>5 DEF allVars, idVars
<1> QED BY <1>3, <1>4, <1>5 DEF FramesNext

\* The circular queue of id.cpp, wherever its counters wrap and whatever the number of
\* ids, is a queue: ids come in the order of their release, none twice.
THEOREM IdsComeInOrder == FramesSpec => IdsAreFifo
<1>1. FramesSpec => []IdInv
  <2>1. TableInit => IdInv BY IdStart DEF TableInit
  <2>2. IdInv /\ [FramesNext]_allVars => IdInv' BY FifoStep
  <2> QED BY <2>1, <2>2, PTL DEF FramesSpec
<1>2. TableInit => Fifo!Init BY IdStart DEF TableInit
<1>3. IdInv /\ [FramesNext]_allVars => [Fifo!Take \/ Fifo!GiveBack]_(Fifo!fifoVars)
    BY FifoStep DEF FifoNext, FifoVars, Fifo!fifoVars
<1> QED BY <1>1, <1>2, <1>3, PTL DEF FramesSpec, IdsAreFifo, Fifo!Spec

-----------------------------------------------------------------------------
(* The table.                                                              *)

\* The structures are finitely many, as many as there can be players or more.
LEMMA StructsFinite ==
    NumStructs \in Nat /\ MaxInGame \in 1 .. NumStructs
BY TableAssumption, FS_CardinalityType DEF NumStructs

\* A player in the game has an id of its own, which leads to its place.
LEMMA PlayerFacts ==
    ASSUME IndexInv
    PROVE  /\ \A i \in 0 .. NumPlayers - 1 : i \in 0 .. NumStructs - 1
           /\ InGame \subseteq Structs
           /\ \A s \in InGame :
                  /\ id[s] \in 1 .. NumIds
                  /\ ID_inuse[id[s]]
                  /\ GetInd[id[s]] \in 0 .. NumPlayers - 1
                  /\ Players[GetInd[id[s]]] = s
           /\ \A s, t \in InGame : id[s] = id[t] => s = t
<1>1. NumPlayers \in 0 .. MaxInGame BY DEF IndexInv
<1>2. \A i \in 0 .. NumPlayers - 1 : i \in 0 .. NumStructs - 1 BY <1>1, StructsFinite
<1>3. \A i \in 0 .. NumPlayers - 1 : Players[i] \in Structs BY <1>2 DEF IndexInv
<1>4. ASSUME NEW s \in InGame
      PROVE  /\ id[s] \in 1 .. NumIds
             /\ ID_inuse[id[s]]
             /\ GetInd[id[s]] \in 0 .. NumPlayers - 1
             /\ Players[GetInd[id[s]]] = s
  <2>1. PICK i \in 0 .. NumPlayers - 1 : Players[i] = s BY DEF InGame
  <2>2. id[s] \in 1 .. NumIds /\ GetInd[id[s]] = i BY <2>1 DEF IndexInv
  <2>3. ID_inuse[id[s]] BY <2>1, <2>2 DEF IndexInv
  <2> QED BY <2>1, <2>2, <2>3
<1>5. ASSUME NEW s \in InGame, NEW t \in InGame, id[s] = id[t] PROVE s = t
    BY <1>4, <1>5
<1> QED BY <1>2, <1>3, <1>4, <1>5 DEF InGame

\* The invariant is what the properties say, and more.
LEMMA TableIsSafe ==
    ASSUME TableInv
    PROVE  TableSafe
<1>1. ASSUME NEW n PROVE n \in TakenIds <=> n \in {id[s] : s \in InGame}
  <2>1. n \in TakenIds => n \in 1 .. NumIds /\ \E i \in 0 .. NumPlayers - 1 : id[Players[i]] = n
      BY DEF TableInv, IndexInv, TakenIds
  <2>2. ASSUME NEW s \in InGame, id[s] = n PROVE n \in TakenIds
      BY <2>2, PlayerFacts DEF TableInv, TakenIds
  <2> QED BY <2>1, <2>2 DEF InGame
<1>2. TakenIds = {id[s] : s \in InGame} BY <1>1
<1>3. TableIsIndexed BY <1>2 DEF TableIsIndexed, TableInv, IndexInv
<1> QED BY <1>3 DEF TableSafe, TableInv, LockInv, NeverExits

\* The tables that are not in use when the server starts.
LEMMA TableStart ==
    ASSUME TableInit
    PROVE  TableInv
<1> USE IdAssumption
<1>1. IdInv /\ ~exited /\ ID_inuse = [n \in 1 .. NumIds |-> FALSE]
    BY IdStart DEF TableInit, IdInit
<1>2. InGame = {} BY DEF TableInit, InGame
<1>3. Players \in Bijection(0 .. NumStructs - 1, Structs) BY DEF TableInit
<1>4. /\ Players \in [0 .. NumStructs - 1 -> Structs]
      /\ \A i, j \in 0 .. NumStructs - 1 : Players[i] = Players[j] => i = j
      /\ \A s \in Structs : \E i \in 0 .. NumStructs - 1 : Players[i] = s
    BY <1>3 DEF Bijection, Injection, Surjection, IsInjective
<1>5. TakenIds = {} BY <1>1 DEF TakenIds
<1>6. Cardinality(TakenIds) = 0 BY <1>5, FS_EmptySet
<1>7. IndexInv
  <2>1. /\ NumPlayers = 0
        /\ id \in [Structs -> 0 .. NumIds]
        /\ GetInd \in [0 .. NumIds -> 0 .. NumStructs - 1]
      BY StructsFinite DEF TableInit
  <2>2. NumPlayers \in 0 .. MaxInGame /\ 0 .. NumPlayers - 1 = {} BY <2>1, StructsFinite
  <2> QED BY <1>1, <1>4, <1>6, <2>1, <2>2 DEF IndexInv
<1>8. LockInv
    BY <1>2 DEF TableInit, LockInv, LocksAreLive
<1> QED BY <1>1, <1>7, <1>8 DEF TableInv

\* Player_add finds an id, and a structure that nobody uses.
LEMMA AddTable ==
    ASSUME MaxInGame <= NumIds, TableInv, NEW robot \in BOOLEAN, Player_add(robot)
    PROVE  TableInv'
<1> USE IdAssumption
<1> DEFINE pl == Players[NumPlayers]
           n  == peek_ID
<1>1. NumPlayers \in 0 .. MaxInGame - 1 /\ NumPlayers \in 0 .. NumStructs - 1 /\ request_ID
    BY StructsFinite DEF TableInv, IndexInv, Player_add
<1>2. /\ NumPlayers' = NumPlayers + 1
      /\ Players' = Players
      /\ id' = [id EXCEPT ![pl] = n]
      /\ GetInd' = [GetInd EXCEPT ![n] = NumPlayers]
      /\ lock' = [lock EXCEPT ![pl] = None]
      /\ lockbank' = [lockbank EXCEPT ![pl] = [b \in Banks |-> None]]
    BY DEF Player_add
<1>3. Available > 0
  <2>1. Available + Cardinality(TakenIds) = NumIds /\ Cardinality(TakenIds) = NumPlayers
      BY DEF TableInv, IdInv, IndexInv
  <2>2. Available \in Int BY AvailableType DEF TableInv
  <2> QED BY <1>1, <2>1, <2>2, StructsFinite
<1>4. /\ IdInv' /\ exited' = exited
      /\ n \in 1 .. NumIds
      /\ ~ID_inuse[n]
      /\ ID_inuse' = [ID_inuse EXCEPT ![n] = TRUE]
      /\ Cardinality(TakenIds') = Cardinality(TakenIds) + 1
  <2>1. Available # 0 BY <1>3, AvailableType DEF TableInv
  <2> QED BY <1>1, <2>1, RequestEffect DEF TableInv, Marked
<1>5. pl \in Structs BY <1>1 DEF TableInv, IndexInv
<1>6. \A i \in 0 .. NumPlayers - 1 : Players[i] # pl /\ Players[i] \in Structs
  <2>1. \A i \in 0 .. NumPlayers - 1 : i \in 0 .. NumStructs - 1 /\ i # NumPlayers
      BY <1>1, StructsFinite
  <2> QED BY <1>1, <2>1 DEF TableInv, IndexInv
<1>7. \A i \in 0 .. NumPlayers - 1 :
          /\ id[Players[i]] \in 1 .. NumIds /\ id[Players[i]] # n
          /\ GetInd[id[Players[i]]] = i
  <2>1. \A i \in 0 .. NumPlayers - 1 : ID_inuse[id[Players[i]]] BY DEF TableInv, IndexInv
  <2> QED BY <1>4, <2>1 DEF TableInv, IndexInv
<1>8. \A i \in 0 .. NumPlayers' - 1 : i \in 0 .. NumPlayers - 1 \/ i = NumPlayers BY <1>1, <1>2
<1>9. \A i \in 0 .. NumPlayers - 1 : i \in 0 .. NumPlayers' - 1 BY <1>1, <1>2
<1>10. NumPlayers \in 0 .. NumPlayers' - 1 BY <1>1, <1>2
<1>11. id \in [Structs -> 0 .. NumIds] /\ GetInd \in [0 .. NumIds -> 0 .. NumStructs - 1]
    BY DEF TableInv, IndexInv
<1> HIDE DEF pl, n
<1>12. id' \in [Structs -> 0 .. NumIds] /\ GetInd' \in [0 .. NumIds -> 0 .. NumStructs - 1]
  <2>1. id' \in [Structs -> 0 .. NumIds]
    <3>1. n \in 0 .. NumIds BY <1>4
    <3> QED BY ONLY <1>2, <1>11, <3>1
  <2>2. GetInd' \in [0 .. NumIds -> 0 .. NumStructs - 1] BY ONLY <1>1, <1>2, <1>11
  <2> QED BY <2>1, <2>2
<1>13. \A i \in 0 .. NumPlayers - 1 : id'[Players[i]] = id[Players[i]]
    BY <1>2, <1>6, <1>11
<1>14. id'[pl] = n BY <1>2, <1>5, <1>11
<1>15. GetInd'[n] = NumPlayers /\ \A m \in 0 .. NumIds : m # n => GetInd'[m] = GetInd[m]
    BY <1>1, <1>2, <1>4, <1>11
<1>16. \A i \in 0 .. NumPlayers' - 1 : id'[Players'[i]] \in 1 .. NumIds /\ GetInd'[id'[Players'[i]]] = i
  <2>1. ASSUME NEW i \in 0 .. NumPlayers - 1
        PROVE  id'[Players'[i]] \in 1 .. NumIds /\ GetInd'[id'[Players'[i]]] = i
      BY <1>2, <1>7, <1>13, <1>15
  <2>2. id'[Players'[NumPlayers]] \in 1 .. NumIds /\ GetInd'[id'[Players'[NumPlayers]]] = NumPlayers
      BY <1>2, <1>4, <1>14, <1>15 DEF pl
  <2> QED BY <1>8, <2>1, <2>2
<1>17. \A m \in 1 .. NumIds : ID_inuse'[m] <=> \E i \in 0 .. NumPlayers' - 1 : id'[Players'[i]] = m
  <2>1. ID_inuse \in [1 .. NumIds -> BOOLEAN] BY DEF TableInv, IdInv
  <2>2. \A m \in 1 .. NumIds : ID_inuse[m] <=> \E i \in 0 .. NumPlayers - 1 : id[Players[i]] = m
      BY DEF TableInv, IndexInv
  <2>3. ID_inuse'[n] /\ id'[Players'[NumPlayers]] = n BY <1>2, <1>4, <1>14, <2>1 DEF pl
  <2>4. ASSUME NEW m \in 1 .. NumIds, m # n
        PROVE  ID_inuse'[m] <=> \E i \in 0 .. NumPlayers' - 1 : id'[Players'[i]] = m
    <3>1. ID_inuse'[m] = ID_inuse[m] BY <1>4, <2>1, <2>4
    <3>2. ASSUME NEW i \in 0 .. NumPlayers' - 1, id'[Players'[i]] = m
          PROVE  \E j \in 0 .. NumPlayers - 1 : id[Players[j]] = m
        BY <1>2, <1>8, <1>13, <2>3, <2>4, <3>2
    <3>3. ASSUME NEW i \in 0 .. NumPlayers - 1, id[Players[i]] = m
          PROVE  \E j \in 0 .. NumPlayers' - 1 : id'[Players'[j]] = m
        BY <1>2, <1>9, <1>13, <3>3
    <3> QED BY <2>2, <3>1, <3>2, <3>3
  <2> QED BY <1>10, <2>3, <2>4
<1>18. IndexInv'
  <2>1. NumPlayers' \in 0 .. MaxInGame BY <1>1, <1>2, StructsFinite
  <2>2. Cardinality(TakenIds)' = NumPlayers' BY <1>1, <1>2, <1>4 DEF TableInv, IndexInv
  <2>3. /\ Players' \in [0 .. NumStructs - 1 -> Structs]
        /\ \A i, j \in 0 .. NumStructs - 1 : Players'[i] = Players'[j] => i = j
        /\ \A s \in Structs : \E i \in 0 .. NumStructs - 1 : Players'[i] = s
      BY <1>2 DEF TableInv, IndexInv
  <2> QED BY <1>12, <1>16, <1>17, <2>1, <2>2, <2>3 DEF IndexInv
<1>19. InGame' = InGame \cup {pl}
    BY <1>2, <1>8, <1>9, <1>10 DEF InGame, pl
<1>20. LockInv'
  <2>1. /\ lock \in [Structs -> Structs \cup {None}]
        /\ lockbank \in [Structs -> [Banks -> Structs \cup {None}]]
      BY DEF TableInv, LockInv
  <2>2. /\ \A s \in Structs : lock'[s] = IF s = pl THEN None ELSE lock[s]
        /\ \A s \in Structs, b \in Banks : lockbank'[s][b] = IF s = pl THEN None ELSE lockbank[s][b]
      BY <1>2, <1>5, <2>1
  <2>3. /\ lock' \in [Structs -> Structs \cup {None}]
        /\ lockbank' \in [Structs -> [Banks -> Structs \cup {None}]]
      BY <1>2, <1>5, <2>1
  <2> QED BY <1>19, <2>2, <2>3 DEF TableInv, LockInv, LocksAreLive
<1> QED BY <1>4, <1>18, <1>20 DEF TableInv

\* Player_remove exchanges the player with the last one, gives its id back without
\* ending the server, and clears every pointer to it.
LEMMA RemoveTable ==
    ASSUME TableInv, NEW pl, Player_remove(pl)
    PROVE  TableInv'
<1> DEFINE m    == NumPlayers - 1
           last == Players[m]
           n    == id[pl]
           g    == GetInd[n]
<1>1. pl \in InGame /\ IndexInv BY DEF Player_remove, TableInv
<1>2. /\ n \in 1 .. NumIds /\ ID_inuse[n]
      /\ g \in 0 .. m /\ Players[g] = pl
      /\ pl \in Structs
    BY <1>1, PlayerFacts
<1>3. /\ NumPlayers \in 1 .. MaxInGame /\ m \in 0 .. NumStructs - 1 /\ m \in 0 .. m /\ m + 1 = NumPlayers
      /\ g \in 0 .. NumStructs - 1
      /\ \A i \in 0 .. m : i \in 0 .. NumStructs - 1
  <2>1. NumPlayers \in 0 .. MaxInGame BY <1>1 DEF IndexInv
  <2> HIDE DEF g
  <2> QED BY <1>2, <2>1, StructsFinite
<1>4. last \in InGame /\ last \in Structs /\ id[last] \in 1 .. NumIds /\ GetInd[id[last]] = m
    BY <1>1, <1>3 DEF InGame, IndexInv
<1>5. /\ NumPlayers' = m
      /\ Players' = [Players EXCEPT ![g] = last, ![m] = pl]
      /\ GetInd' = [GetInd EXCEPT ![id[last]] = g, ![n] = m]
      /\ id' = [id EXCEPT ![pl] = 0]
      /\ release_ID(n)
    BY DEF Player_remove, Exchanged, Reindexed
<1>6. /\ IdInv' /\ exited' = exited
      /\ ID_inuse' = [ID_inuse EXCEPT ![n] = FALSE]
      /\ Cardinality(TakenIds') = Cardinality(TakenIds) - 1
  <2>1. IdInv BY DEF TableInv
  <2>2. Available + Cardinality(TakenIds) = NumIds /\ Cardinality(TakenIds) = NumPlayers
      BY DEF TableInv, IdInv, IndexInv
  <2>3. Available # NumIds BY <1>3, <2>1, <2>2, AvailableType, StructsFinite
  <2> HIDE DEF n
  <2> QED BY <1>2, <1>5, <2>1, <2>3, ReleaseEffect
<1>7. /\ Players \in [0 .. NumStructs - 1 -> Structs]
      /\ \A i, j \in 0 .. NumStructs - 1 : Players[i] = Players[j] => i = j
      /\ \A s \in Structs : \E i \in 0 .. NumStructs - 1 : Players[i] = s
    BY <1>1 DEF IndexInv
<1>8. /\ id \in [Structs -> 0 .. NumIds] /\ GetInd \in [0 .. NumIds -> 0 .. NumStructs - 1]
      /\ ID_inuse \in [1 .. NumIds -> BOOLEAN]
      /\ \A i \in 0 .. m : id[Players[i]] \in 1 .. NumIds /\ GetInd[id[Players[i]]] = i
      /\ \A k \in 1 .. NumIds : ID_inuse[k] <=> \E i \in 0 .. m : id[Players[i]] = k
    BY DEF TableInv, IdInv, IndexInv
<1> HIDE DEF last, n, g
<1>9. \A i \in 0 .. NumStructs - 1 :
          Players'[i] = IF i = m THEN pl ELSE IF i = g THEN last ELSE Players[i]
    BY <1>3, <1>5, <1>7
<1>10. /\ Players' \in [0 .. NumStructs - 1 -> Structs]
       /\ \A i, j \in 0 .. NumStructs - 1 : Players'[i] = Players'[j] => i = j
       /\ \A s \in Structs : \E i \in 0 .. NumStructs - 1 : Players'[i] = s
  <2>1. Players' \in [0 .. NumStructs - 1 -> Structs]
      BY <1>2, <1>4, <1>5, <1>7
  <2>2. Players[m] = last BY DEF last
  <2>3. \A i, j \in 0 .. NumStructs - 1 : Players'[i] = Players'[j] => i = j
      BY <1>2, <1>3, <1>7, <1>9, <2>2
  <2>4. ASSUME NEW s \in Structs PROVE \E i \in 0 .. NumStructs - 1 : Players'[i] = s
    <3>1. PICK i \in 0 .. NumStructs - 1 : Players[i] = s BY <1>7
    <3>2. CASE i = m
        BY <1>3, <1>9, <2>2, <3>1, <3>2, <1>2
    <3>3. CASE i # m /\ i = g
        BY <1>2, <1>3, <1>9, <3>1, <3>3
    <3>4. CASE i # m /\ i # g
        BY <1>9, <3>1, <3>4
    <3> QED BY <3>2, <3>3, <3>4
  <2> QED BY <2>1, <2>3, <2>4
<1>11. /\ id' \in [Structs -> 0 .. NumIds]
       /\ \A s \in Structs : id'[s] = IF s = pl THEN 0 ELSE id[s]
  <2>1. 0 \in 0 .. NumIds BY IdAssumption
  <2> QED BY ONLY <1>2, <1>5, <1>8, <2>1
<1>12. /\ GetInd' \in [0 .. NumIds -> 0 .. NumStructs - 1]
       /\ \A k \in 0 .. NumIds : GetInd'[k] = IF k = n THEN m ELSE IF k = id[last] THEN g ELSE GetInd[k]
  <2>1. n \in 0 .. NumIds /\ id[last] \in 0 .. NumIds BY <1>2, <1>4
  <2> HIDE DEF m
  <2> QED BY ONLY <1>3, <1>5, <1>8, <2>1
\* The entries that stay in the game.
<1>13. ASSUME NEW i \in 0 .. m - 1
       PROVE  LET j == IF i = g THEN m ELSE i
              IN  /\ j \in 0 .. m /\ j # g /\ i \in 0 .. NumStructs - 1
                  /\ Players'[i] = Players[j]
                  /\ Players[j] # pl /\ Players[j] \in Structs
                  /\ id'[Players'[i]] = id[Players[j]]
  <2> DEFINE j == IF i = g THEN m ELSE i
  <2>1. j \in 0 .. m /\ j # g /\ i # m /\ i \in 0 .. NumStructs - 1 BY <1>2, <1>3
  <2>2. Players'[i] = Players[j] BY <1>9, <2>1 DEF last
  <2>3. Players[j] # pl /\ Players[j] \in Structs BY <1>2, <1>3, <1>7, <2>1
  <2>4. id'[Players'[i]] = id[Players[j]] BY <1>11, <2>2, <2>3
  <2> QED BY <2>1, <2>2, <2>3, <2>4
<1>14. \A i \in 0 .. m - 1 : id'[Players'[i]] \in 1 .. NumIds /\ GetInd'[id'[Players'[i]]] = i
  <2> TAKE i \in 0 .. m - 1
  <2> DEFINE j == IF i = g THEN m ELSE i
             k == id[Players[j]]
  <2>1. j \in 0 .. m /\ j # g /\ id'[Players'[i]] = k BY <1>13
  <2>2. k \in 1 .. NumIds /\ GetInd[k] = j BY <1>8, <2>1
  <2>3. k # n BY <2>1, <2>2 DEF g
  <2>4. GetInd'[k] = i
    <3>1. CASE i = g
      <4>1. k = id[last] BY <3>1 DEF last
      <4> QED BY <1>12, <2>2, <2>3, <3>1, <4>1
    <3>2. CASE i # g
      <4>1. k # id[last] BY <1>4, <2>2, <3>2
      <4> QED BY <1>12, <2>2, <2>3, <3>2, <4>1
    <3> QED BY <3>1, <3>2
  <2> QED BY <2>1, <2>2, <2>4
<1>15. \A k \in 1 .. NumIds : ID_inuse'[k] <=> \E i \in 0 .. m - 1 : id'[Players'[i]] = k
  <2>1. ~ID_inuse'[n] BY <1>2, <1>6, <1>8
  <2>2. \A i \in 0 .. m - 1 : id'[Players'[i]] # n
    <3> TAKE i \in 0 .. m - 1
    <3> DEFINE j == IF i = g THEN m ELSE i
    <3>1. j \in 0 .. m /\ j # g /\ id'[Players'[i]] = id[Players[j]] BY <1>13
    <3>2. GetInd[id[Players[j]]] = j BY <1>8, <3>1
    <3> QED BY <3>1, <3>2 DEF g
  <2>3. ASSUME NEW k \in 1 .. NumIds, k # n
        PROVE  ID_inuse'[k] <=> \E i \in 0 .. m - 1 : id'[Players'[i]] = k
    <3>1. ID_inuse'[k] = ID_inuse[k] BY <1>6, <1>8, <2>3
    <3>2. ASSUME NEW i \in 0 .. m - 1, id'[Players'[i]] = k
          PROVE  \E j \in 0 .. m : id[Players[j]] = k
        BY <1>13, <3>2
    <3>3. ASSUME NEW j \in 0 .. m, id[Players[j]] = k
          PROVE  \E i \in 0 .. m - 1 : id'[Players'[i]] = k
      <4>1. j # g BY <1>2, <2>3, <3>3 DEF n
      <4>2. CASE j = m
        <5>1. g \in 0 .. m - 1 BY <1>2, <1>3, <4>1, <4>2
        <5>2. id'[Players'[g]] = id[Players[m]] BY <1>13, <5>1
        <5> QED BY <3>3, <4>2, <5>1, <5>2
      <4>3. CASE j # m
        <5>1. j \in 0 .. m - 1 BY <1>3, <4>3
        <5>2. id'[Players'[j]] = id[Players[j]] BY <1>13, <4>1, <5>1
        <5> QED BY <3>3, <5>1, <5>2
      <4> QED BY <4>2, <4>3
    <3> QED BY <1>8, <3>1, <3>2, <3>3
  <2> QED BY <2>1, <2>2, <2>3
<1>16. IndexInv'
  <2>1. NumPlayers' \in 0 .. MaxInGame BY <1>3, <1>5, StructsFinite
  <2>2. Cardinality(TakenIds)' = NumPlayers' BY <1>3, <1>5, <1>6 DEF TableInv, IndexInv
  <2> QED BY <1>5, <1>10, <1>11, <1>12, <1>14, <1>15, <2>1, <2>2 DEF IndexInv
<1>17. InGame' = InGame \ {pl}
  <2>1. ASSUME NEW i \in 0 .. m - 1 PROVE Players'[i] \in InGame \ {pl}
      BY <1>13 DEF InGame
  <2>2. ASSUME NEW s \in InGame, s # pl PROVE \E i \in 0 .. m - 1 : Players'[i] = s
    <3>1. PICK j \in 0 .. m : Players[j] = s BY DEF InGame
    <3>2. j # g BY <1>2, <2>2, <3>1
    <3>3. CASE j = m
      <4>1. g \in 0 .. m - 1 BY <1>2, <1>3, <3>2, <3>3
      <4> QED BY <1>13, <3>1, <3>3, <4>1
    <3>4. CASE j # m
      <4>1. j \in 0 .. m - 1 BY <1>3, <3>4
      <4> QED BY <1>13, <3>1, <3>2, <4>1
    <3> QED BY <3>3, <3>4
  <2>3. InGame' = {Players'[i] : i \in 0 .. m - 1} BY <1>5 DEF InGame
  <2> QED BY <2>1, <2>2, <2>3
<1>18. LockInv'
  <2>1. /\ lock \in [Structs -> Structs \cup {None}]
        /\ lockbank \in [Structs -> [Banks -> Structs \cup {None}]]
      BY DEF TableInv, LockInv
  <2>2. /\ lock' \in [Structs -> Structs \cup {None}]
        /\ \A s \in Structs : lock'[s] # None =>
               lock'[s] = lock[s] /\ s # pl /\ (s \in InGame => lock[s] # pl)
      BY <2>1 DEF Player_remove, Unlocked, Remaining
  <2>3. /\ lockbank' \in [Structs -> [Banks -> Structs \cup {None}]]
        /\ \A s \in Structs, b \in Banks : lockbank'[s][b] # None =>
               lockbank'[s][b] = lockbank[s][b] /\ s # pl /\ (s \in InGame => lockbank[s][b] # pl)
    <3>1. lockbank' = [q \in Structs |-> [b \in Banks |->
                           IF q = pl \/ (q \in Remaining(pl) /\ lockbank[q][b] = pl)
                           THEN None ELSE lockbank[q][b]]]
        BY DEF Player_remove
    <3> QED BY <2>1, <3>1 DEF Remaining
  <2>4. /\ \A s \in Structs : lock[s] # None => s \in InGame /\ lock[s] \in InGame \ {s}
        /\ \A s \in Structs, b \in Banks : lockbank[s][b] # None =>
               s \in InGame /\ lockbank[s][b] \in InGame \ {s}
      BY DEF TableInv, LockInv, LocksAreLive
  <2> QED BY <1>17, <2>2, <2>3, <2>4 DEF LockInv, LocksAreLive
<1> QED BY <1>6, <1>16, <1>18 DEF TableInv

\* A set of naturals that is not empty has a least element.
LEMMA LeastElement ==
    ASSUME NEW T \in SUBSET Nat, T # {}
    PROVE  \E n \in T : \A k \in T : n <= k
<1>1. PICK n \in T : \A k \in T : ~(<<k, n>> \in OpToRel(<, Nat))
    BY NatLessThanWellFounded, WFMin
<1>2. ASSUME NEW k \in T PROVE n <= k
  <2>1. ~(<<k, n>> \in {ss \in Nat \X Nat : ss[1] < ss[2]}) BY <1>1 DEF OpToRel
  <2> QED BY <2>1
<1> QED BY <1>2

\* A lock is only ever put on somebody else who is in the game.
LEMMA LockTable ==
    ASSUME TableInv, NEW pl \in InGame, NEW q \in (InGame \ {pl}) \cup {None},
           lock' = [lock EXCEPT ![pl] = q],
           UNCHANGED <<Players, NumPlayers, id, GetInd, lockbank, idVars>>
    PROVE  TableInv'
<1>1. IdInv' /\ UNCHANGED TakenIds BY QueueStays DEF TableInv, idVars
<1>2. InGame' = InGame BY DEF InGame
<1>3. ~exited' BY DEF TableInv, idVars
<1>4. IndexInv'
  <2>1. IndexInv /\ ID_inuse' = ID_inuse BY DEF TableInv, idVars
  <2> QED BY <1>1, <2>1 DEF IndexInv
<1>5. LockInv'
  <2>1. pl \in Structs /\ q \in Structs \cup {None} BY PlayerFacts DEF TableInv
  <2>2. lock \in [Structs -> Structs \cup {None}] BY DEF TableInv, LockInv
  <2>3. /\ lock' \in [Structs -> Structs \cup {None}]
        /\ \A s \in Structs : lock'[s] = IF s = pl THEN q ELSE lock[s]
      BY <2>1, <2>2
  <2> QED BY <1>2, <2>3 DEF TableInv, LockInv, LocksAreLive
<1> QED BY <1>1, <1>3, <1>4, <1>5 DEF TableInv

\* Player_lock_next stops, at the player it started from if nowhere else.
LEMMA LockNextTable ==
    ASSUME TableInv, NEW pl \in Structs, NEW step \in {1, -1}, Player_lock_next(pl, step)
    PROVE  TableInv'
<1>1. /\ pl \in InGame /\ lock[pl] # None
      /\ UNCHANGED <<Players, NumPlayers, id, GetInd, lockbank, idVars>>
    BY DEF Player_lock_next
<1>2. lock[pl] \in InGame BY <1>1 DEF TableInv, LockInv, LocksAreLive
<1>3. PICK suitable \in SUBSET (InGame \ {pl}) :
       LET from == GetInd[id[lock[pl]]]
           At(n) == Players[(from + step * n) % NumPlayers]
           steps == {n \in 1 .. NumPlayers : At(n) \in suitable \/ At(n) = lock[pl]}
           q == At(CHOOSE n \in steps : \A m \in steps : n <= m)
       IN  lock' = [lock EXCEPT ![pl] = IF q = pl THEN None ELSE q]
    BY DEF Player_lock_next
<1> DEFINE from == GetInd[id[lock[pl]]]
           At(n) == Players[(from + step * n) % NumPlayers]
           steps == {n \in 1 .. NumPlayers : At(n) \in suitable \/ At(n) = lock[pl]}
           first == CHOOSE n \in steps : \A m \in steps : n <= m
<1>4. /\ from \in 0 .. NumPlayers - 1
      /\ Players[from] = lock[pl]
      /\ NumPlayers \in Nat \ {0}
  <2>1. NumPlayers \in 0 .. MaxInGame BY DEF TableInv, IndexInv
  <2>2. from \in 0 .. NumPlayers - 1 /\ Players[from] = lock[pl] BY <1>2, PlayerFacts DEF TableInv
  <2> QED BY <2>1, <2>2, StructsFinite
<1>5. ASSUME NEW n \in 1 .. NumPlayers
      PROVE  (from + step * n) % NumPlayers \in 0 .. NumPlayers - 1
  <2> DEFINE x == from + step * n
  <2>1. x \in Int BY <1>4
  <2> HIDE DEF x
  <2>2. x % NumPlayers \in 0 .. NumPlayers - 1 BY <1>4, <2>1, ModRange
  <2> QED BY <2>2 DEF x
<1>6. NumPlayers \in steps
  <2> HIDE DEF from
  <2>1. from % NumPlayers = from BY <1>4
  <2>2. (NumPlayers * step + from) % NumPlayers = from % NumPlayers
    <3>1. from \in Int /\ step \in Int BY <1>4
    <3> QED BY <1>4, <3>1, ModAdd, Zenon
  <2>3. NumPlayers * step + from = from + step * NumPlayers BY <1>4
  <2>4. At(NumPlayers) = lock[pl] BY <1>4, <2>1, <2>2, <2>3
  <2>5. NumPlayers \in 1 .. NumPlayers BY <1>4
  <2> QED BY <2>4, <2>5
<1>7. first \in steps
  <2>1. steps \in SUBSET Nat BY <1>4
  <2> HIDE DEF steps
  <2>2. \E n \in steps : \A m \in steps : n <= m BY <1>6, <2>1, LeastElement
  <2> QED BY <2>2
<1>8. At(first) \in InGame
  <2>1. first \in 1 .. NumPlayers BY <1>7
  <2> HIDE DEF first
  <2> QED BY <1>5, <2>1 DEF InGame
<1>9. lock' = [lock EXCEPT ![pl] = IF At(first) = pl THEN None ELSE At(first)]
    BY <1>3
<1> HIDE DEF At, first
<1>10. (IF At(first) = pl THEN None ELSE At(first)) \in (InGame \ {pl}) \cup {None} BY <1>8
<1> QED BY <1>1, <1>9, <1>10, LockTable

\* Every step, with as many ids as there can be players.
LEMMA TableStep ==
    ASSUME MaxInGame <= NumIds, TableInv, [FramesNext]_allVars
    PROVE  TableInv'
<1>1. CASE UNCHANGED allVars
  <2>1. UNCHANGED <<Players, NumPlayers, id, GetInd, lock, lockbank, idVars>>
      BY <1>1 DEF allVars, tableVars
  <2>2. IdInv' /\ UNCHANGED TakenIds BY <2>1, QueueStays DEF TableInv, idVars
  <2>3. InGame' = InGame /\ ~exited' BY <2>1 DEF InGame, TableInv, idVars
  <2>4. IndexInv /\ LockInv /\ ID_inuse' = ID_inuse BY <2>1 DEF TableInv, idVars
  <2>5. IndexInv' BY <2>1, <2>2, <2>4 DEF IndexInv
  <2>6. LockInv' BY <2>1, <2>3, <2>4 DEF LockInv, LocksAreLive
  <2> QED BY <2>2, <2>3, <2>5, <2>6 DEF TableInv
<1>2. CASE TableNext
  <2>1. ASSUME NEW robot \in BOOLEAN, Player_add(robot) PROVE TableInv'
      BY <2>1, AddTable
  <2>2. ASSUME NEW pl \in Structs, Player_remove(pl) PROVE TableInv'
      BY <2>2, RemoveTable
  <2>3. ASSUME NEW pl \in Structs, Player_lock_closest(pl) PROVE TableInv'
      BY <2>3, LockTable DEF Player_lock_closest
  <2>4. ASSUME NEW pl \in Structs, NEW step \in {1, -1}, Player_lock_next(pl, step) PROVE TableInv'
      BY <2>4, LockNextTable
  <2>5. ASSUME NEW pl \in Structs, NEW b \in Banks, Store_lock(pl, b) PROVE TableInv'
    <3>1. /\ pl \in InGame /\ lock[pl] # None
          /\ lockbank' = [lockbank EXCEPT ![pl][b] = lock[pl]]
          /\ UNCHANGED <<Players, NumPlayers, id, GetInd, lock, idVars>>
        BY <2>5 DEF Store_lock
    <3>2. IdInv' /\ UNCHANGED TakenIds BY <3>1, QueueStays DEF TableInv, idVars
    <3>3. InGame' = InGame /\ ~exited' BY <3>1 DEF InGame, TableInv, idVars
    <3>4. IndexInv /\ LockInv /\ ID_inuse' = ID_inuse BY <3>1 DEF TableInv, idVars
    <3>5. IndexInv' BY <3>1, <3>2, <3>4 DEF IndexInv
    <3>6. LockInv'
      <4>1. lock[pl] \in InGame \ {pl} /\ lock[pl] \in Structs
          BY <3>1, <3>4 DEF LockInv, LocksAreLive
      <4>2. lockbank \in [Structs -> [Banks -> Structs \cup {None}]] BY <3>4 DEF LockInv
      <4>3. /\ lockbank' \in [Structs -> [Banks -> Structs \cup {None}]]
            /\ \A s \in Structs, c \in Banks :
                   lockbank'[s][c] = IF s = pl /\ c = b THEN lock[pl] ELSE lockbank[s][c]
          BY <3>1, <4>1, <4>2
      <4> QED BY <3>1, <3>3, <3>4, <4>1, <4>3 DEF LockInv, LocksAreLive
    <3> QED BY <3>2, <3>3, <3>5, <3>6 DEF TableInv
  <2>6. ASSUME NEW pl \in Structs, NEW b \in Banks, Load_lock(pl, b) PROVE TableInv'
    <3>1. /\ pl \in InGame /\ lockbank[pl][b] # None
          /\ lock' = [lock EXCEPT ![pl] = lockbank[pl][b]]
          /\ UNCHANGED <<Players, NumPlayers, id, GetInd, lockbank, idVars>>
        BY <2>6 DEF Load_lock
    <3>2. lockbank[pl][b] \in InGame \ {pl}
        BY <3>1 DEF TableInv, LockInv, LocksAreLive
    <3> QED BY <3>1, <3>2, LockTable
  <2> QED BY <1>2, <2>1, <2>2, <2>3, <2>4, <2>5, <2>6 DEF TableNext
<1>3. CASE Frame_update
  <2>1. PICK fails \in Fails : IF fails = None THEN UNCHANGED allVars ELSE Player_remove(fails)
      BY <1>3 DEF Frame_update
  <2> QED BY <1>1, <2>1, RemoveTable
<1> QED BY <1>1, <1>2, <1>3 DEF FramesNext

\* The table, its index, the ids and the locks agree after any coming and going of
\* players, also in the middle of a frame, and id.cpp never ends the server; with at
\* least as many ids as there can be players, which the code leaves to the maps.
THEOREM TableStaysSafe ==
    ASSUME MaxInGame <= NumIds
    PROVE  FramesSpec => []TableSafe
<1>1. TableInit => TableInv BY TableStart
<1>2. TableInv /\ [FramesNext]_allVars => TableInv' BY TableStep
<1>3. TableInv => TableSafe BY TableIsSafe
<1> QED BY <1>1, <1>2, <1>3, PTL DEF FramesSpec

-----------------------------------------------------------------------------
(* The walk that sends the frames.                                         *)

\* A turn of the walk, for the k-th entry.
WalkTurn(par, k, w) ==
    LET pl == w.table[k - 1]
    IN  IF k > w.num \/ pl \notin par.due THEN w
        ELSE IF pl = par.fails
        THEN [w EXCEPT !.table = par.table, !.num = @ - 1, !.lock = par.lock]
        ELSE [w EXCEPT !.shown = Append(@, <<pl, Views(pl, w.lock)>>)]

Walks == INSTANCE FoldTheorems WITH Turn <- WalkTurn

Shown == Seq(Structs \X SUBSET Structs)
WalkerType == [table : [0 .. NumStructs - 1 -> Structs], num : Int,
               lock : [Structs -> Structs \cup {None}], shown : Shown]

To(shown) == {shown[k][1] : k \in DOMAIN shown}

\* Who has a frame after n turns.
Reached(n, due, fails) ==
    ({Players[i] : i \in 0 .. n - 1} \cap due)
        \ IF fails = None THEN {} ELSE {fails, Players[NumPlayers - 1]}

\* A frame shows who is in the game, and who leaves only to those before it.
ShowsWell(pair, fails) ==
    /\ pair[2] \subseteq InGame
    /\ fails \in pair[2] => GetInd[id[pair[1]]] < GetInd[id[fails]]

Met(n, fails) == fails # None /\ GetInd[id[fails]] < n

\* The walk after n turns.
WalkFits(w, n, due, fails) ==
    /\ w.table = IF Met(n, fails) THEN Exchanged(fails) ELSE Players
    /\ w.num = IF Met(n, fails) THEN NumPlayers - 1 ELSE NumPlayers
    /\ w.lock = IF Met(n, fails) THEN Unlocked(fails) ELSE lock
    /\ To(w.shown) = Reached(n, due, fails)
    /\ Len(w.shown) = Cardinality(To(w.shown))
    /\ \A k \in DOMAIN w.shown : ShowsWell(w.shown[k], fails)

\* One more frame.
LEMMA OneMore ==
    ASSUME NEW shown \in Shown, NEW q \in Structs, NEW v \in SUBSET Structs,
           q \notin To(shown), Len(shown) = Cardinality(To(shown))
    PROVE  LET s == Append(shown, <<q, v>>)
           IN  /\ s \in Shown
               /\ To(s) = To(shown) \cup {q}
               /\ Len(s) = Cardinality(To(s))
               /\ \A k \in DOMAIN s : s[k] = <<q, v>> \/ \E j \in DOMAIN shown : s[k] = shown[j]
<1> DEFINE x == <<q, v>>
           s == Append(shown, x)
<1>1. x \in Structs \X SUBSET Structs /\ x[1] = q OBVIOUS
<1> HIDE DEF x
<1>2. /\ s \in Shown /\ Len(s) = Len(shown) + 1 /\ DOMAIN s = 1 .. Len(shown) + 1
      /\ DOMAIN shown = 1 .. Len(shown) /\ Len(shown) \in Nat
      /\ \A k \in 1 .. Len(shown) : s[k] = shown[k]
      /\ s[Len(shown) + 1] = x
  BY <1>1 DEF Shown
<1> HIDE DEF s
<1>3. To(s) = To(shown) \cup {q}
  <2>1. ASSUME NEW y PROVE y \in To(s) <=> y \in To(shown) \cup {q}
    <3>1. ASSUME y \in To(s) PROVE y \in To(shown) \cup {q}
      <4>1. PICK k \in DOMAIN s : y = s[k][1] BY <3>1 DEF To
      <4>2. CASE k = Len(shown) + 1 BY <1>1, <1>2, <4>1, <4>2
      <4>3. CASE k \in 1 .. Len(shown)
        <5>1. k \in DOMAIN shown /\ y = shown[k][1] BY <1>2, <4>1, <4>3
        <5> QED BY <5>1 DEF To
      <4> QED BY <1>2, <4>2, <4>3
    <3>2. ASSUME y \in To(shown) PROVE y \in To(s)
      <4>1. PICK k \in DOMAIN shown : y = shown[k][1] BY <3>2 DEF To
      <4>2. k \in DOMAIN s /\ s[k] = shown[k] BY <1>2, <4>1
      <4> QED BY <4>1, <4>2 DEF To
    <3>3. q \in To(s)
      <4>1. Len(shown) + 1 \in DOMAIN s BY <1>2
      <4> QED BY <1>1, <1>2, <4>1 DEF To
    <3> QED BY <3>1, <3>2, <3>3
  <2> QED BY <2>1
<1>4. IsFiniteSet(To(shown))
  <2>1. IsFiniteSet(1 .. Len(shown)) BY <1>2, FS_Interval
  <2> DEFINE D == 1 .. Len(shown)
             f == [k \in D |-> shown[k][1]]
  <2>2. f \in Surjection(D, To(shown)) BY <1>2 DEF To, Surjection
  <2> QED BY <2>1, <2>2, FS_Surjection
<1>5. Cardinality(To(s)) = Cardinality(To(shown)) + 1 BY <1>3, <1>4, FS_AddElement
<1>6. \A k \in DOMAIN s : s[k] = x \/ \E j \in DOMAIN shown : s[k] = shown[j] BY <1>2
<1> QED BY <1>2, <1>3, <1>5, <1>6 DEF s, x

\* Whom a player sees before somebody leaves, and then.
LEMMA ViewsFit ==
    ASSUME TableInv, NEW q \in InGame
    PROVE  /\ Views(q, lock) \subseteq InGame
           /\ \A f \in InGame \ {q} : Views(q, Unlocked(f)) \subseteq InGame \ {f}
<1>1. /\ InGame \subseteq Structs /\ None \notin Structs
      /\ lock[q] # None => lock[q] \in InGame
  BY PlayerFacts, TableAssumption DEF TableInv, LockInv, LocksAreLive
<1>2. Views(q, lock) \subseteq InGame BY <1>1 DEF Views
<1>3. ASSUME NEW f \in InGame \ {q}
      PROVE  Views(q, Unlocked(f)) \subseteq InGame \ {f}
  <2>1. q \in Remaining(f) /\ q \in Structs BY <1>1, <1>3 DEF Remaining
  <2>2. Unlocked(f)[q] \in {None, lock[q]} /\ Unlocked(f)[q] # f
    BY <1>1, <1>3, <2>1 DEF Unlocked
  <2> QED BY <1>1, <1>3, <2>2 DEF Views
<1> QED BY <1>2, <1>3

\* The table after fails has left, as far as the walk still looks at it.
LEMMA ExchangedFits ==
    ASSUME TableInv, NEW f \in InGame
    PROVE  /\ Exchanged(f) \in [0 .. NumStructs - 1 -> Structs]
           /\ Unlocked(f) \in [Structs -> Structs \cup {None}]
           /\ \A i \in 0 .. NumPlayers - 2 : i # GetInd[id[f]] => Exchanged(f)[i] = Players[i]
<1> DEFINE g == GetInd[id[f]]
           m == NumPlayers - 1
<1>1. /\ Players \in [0 .. NumStructs - 1 -> Structs] /\ g \in 0 .. m /\ f \in Structs
      /\ lock \in [Structs -> Structs \cup {None}]
  BY PlayerFacts DEF TableInv, IndexInv, LockInv
<1>2. NumPlayers \in 0 .. NumStructs BY StructsFinite DEF TableInv, IndexInv
<1> HIDE DEF g
<1>3. /\ g \in 0 .. NumStructs - 1 /\ m \in 0 .. NumStructs - 1
      /\ \A i \in 0 .. NumPlayers - 2 : i \in 0 .. NumStructs - 1 /\ i # m
  BY <1>1, <1>2, StructsFinite
<1>4. Exchanged(f) = [Players EXCEPT ![g] = Players[m], ![m] = f] BY DEF Exchanged, g
<1>5. Players[m] \in Structs BY <1>1, <1>3
<1> HIDE DEF m
<1>6. Exchanged(f) \in [0 .. NumStructs - 1 -> Structs] BY <1>1, <1>4, <1>5
<1>7. \A i \in 0 .. NumPlayers - 2 : i # g => Exchanged(f)[i] = Players[i]
  BY <1>1, <1>3, <1>4
<1>8. Unlocked(f) \in [Structs -> Structs \cup {None}] BY <1>1 DEF Unlocked
<1> QED BY <1>6, <1>7, <1>8 DEF g

Par(due, fails) == [due |-> due, fails |-> fails,
                    table |-> Exchanged(fails), lock |-> Unlocked(fails)]

LEMMA TurnFits ==
    ASSUME TableInv, NEW due \in SUBSET InGame, NEW fails \in due \cup {None},
           NEW k \in 1 .. NumPlayers, NEW w \in WalkerType, WalkFits(w, k - 1, due, fails)
    PROVE  WalkFits(WalkTurn(Par(due, fails), k, w), k, due, fails)
<1> DEFINE N == NumPlayers
           q == w.table[k - 1]
           g == GetInd[id[fails]]
           t == WalkTurn(Par(due, fails), k, w)
<1> SUFFICES WalkFits(t, k, due, fails) OBVIOUS
<1>1. /\ NumPlayers \in 0 .. NumStructs /\ NumStructs \in Nat /\ k \in Nat
      /\ k - 1 \in 0 .. N - 1 /\ k - 1 \in 0 .. NumStructs - 1 /\ N - 1 \in 0 .. N - 1
      /\ N - 1 \in 0 .. NumStructs - 1
  BY StructsFinite DEF TableInv, IndexInv
<1>2. InGame \subseteq Structs /\ None \notin Structs
  BY PlayerFacts, TableAssumption DEF TableInv
<1>3. ASSUME fails # None
      PROVE  /\ fails \in InGame /\ fails \in due /\ g \in 0 .. N - 1 /\ g \in Nat
             /\ Players[g] = fails
  <2>1. fails \in InGame /\ fails \in due BY <1>3
  <2> QED BY <2>1, PlayerFacts DEF TableInv
<1>4. /\ \A i, j \in 0 .. N - 1 : Players[i] = Players[j] => i = j
      /\ \A i \in 0 .. N - 1 : Players[i] \in InGame /\ GetInd[id[Players[i]]] = i
  BY <1>1, PlayerFacts DEF TableInv, IndexInv, InGame
<1> DEFINE p == Players[k - 1]
\* The entry is whom it was before the walk, unless the walk is past the end.
<1>5. \/ q = p
      \/ Met(k - 1, fails) /\ k > w.num
  <2>1. CASE ~Met(k - 1, fails) BY <2>1 DEF WalkFits
  <2>2. CASE Met(k - 1, fails)
    <3>1. fails # None /\ g < k - 1 BY <2>2 DEF Met
    <3>2. w.table = Exchanged(fails) /\ w.num = N - 1 BY <2>2 DEF WalkFits
    <3>3. CASE k > N - 1 BY <2>2, <3>2, <3>3
    <3>4. CASE k <= N - 1
      <4>1. k - 1 \in 0 .. NumPlayers - 2 /\ k - 1 # g BY <1>1, <1>3, <3>1, <3>4
      <4>2. fails \in InGame BY <1>3, <3>1
      <4> QED BY <3>2, <4>1, <4>2, ExchangedFits
    <3> QED BY <1>1, <3>3, <3>4
  <2> QED BY <2>1, <2>2
<1>6. {Players[i] : i \in 0 .. k - 1} = {Players[i] : i \in 0 .. (k - 1) - 1} \cup {p}
  <2>1. 0 .. k - 1 = 0 .. (k - 1) - 1 \cup {k - 1} BY <1>1
  <2> QED BY <2>1
<1>7. w.num \in {N - 1, N} /\ (w.num = N - 1 <=> Met(k - 1, fails)) BY <1>1 DEF WalkFits
<1>8. p \notin {Players[i] : i \in 0 .. (k - 1) - 1}
  <2>1. \A i \in 0 .. (k - 1) - 1 : i \in 0 .. N - 1 /\ i # k - 1 BY <1>1
  <2> QED BY <1>1, <1>4, <2>1
<1>9. Met(k, fails) <=> Met(k - 1, fails) \/ (fails # None /\ fails = p)
  <2>1. CASE fails = None BY <2>1 DEF Met
  <2>2. CASE fails # None
    <3>1. g < k <=> g < k - 1 \/ g = k - 1 BY <1>1, <1>3, <2>2
    <3>2. g = k - 1 <=> fails = p BY <1>1, <1>3, <1>4, <2>2
    <3> QED BY <2>2, <3>1, <3>2 DEF Met
  <2> QED BY <2>1, <2>2
<1> DEFINE par == Par(due, fails)
<1>10. par.due = due /\ par.fails = fails /\ par.table = Exchanged(fails) /\ par.lock = Unlocked(fails)
  BY DEF Par
<1>11. CASE k > w.num
  <2>1. t = w BY <1>10, <1>11 DEF WalkTurn
  <2>2. Met(k - 1, fails) /\ k = N /\ Met(k, fails) BY <1>1, <1>7, <1>9, <1>11
  <2>3. fails # None /\ p = Players[N - 1] BY <2>2 DEF Met
  <2>4. Reached(k, due, fails) = Reached(k - 1, due, fails) BY <1>6, <2>3 DEF Reached
  <2> QED BY <2>1, <2>2, <2>4 DEF WalkFits
<1>12. CASE ~(k > w.num) /\ q \notin due
  <2>1. t = w BY <1>10, <1>12 DEF WalkTurn
  <2>2. q = p /\ p \notin due BY <1>5, <1>12
  <2>3. Met(k, fails) <=> Met(k - 1, fails) BY <1>3, <1>9, <2>2
  <2>4. Reached(k, due, fails) = Reached(k - 1, due, fails) BY <1>6, <2>2 DEF Reached
  <2> QED BY <2>1, <2>3, <2>4 DEF WalkFits
<1>13. CASE ~(k > w.num) /\ q \in due /\ q = fails
  <2>1. q = p /\ fails = p /\ fails # None BY <1>2, <1>5, <1>13
  <2>2. ~Met(k - 1, fails) /\ Met(k, fails)
    <3>1. g = k - 1 BY <1>1, <1>3, <1>4, <2>1
    <3> QED BY <1>1, <1>9, <2>1, <3>1 DEF Met
  <2>3. t = [w EXCEPT !.table = par.table, !.num = @ - 1, !.lock = par.lock]
    BY <1>10, <1>13 DEF WalkTurn
  <2>4. /\ t.table = Exchanged(fails) /\ t.num = w.num - 1 /\ t.lock = Unlocked(fails)
        /\ t.shown = w.shown
    BY <1>10, <2>3 DEF WalkerType
  <2>5. w.num = N BY <1>7, <2>2
  <2>7. /\ To(w.shown) = Reached(k - 1, due, fails) /\ Len(w.shown) = Cardinality(To(w.shown))
        /\ \A j \in DOMAIN w.shown : ShowsWell(w.shown[j], fails)
    BY DEF WalkFits
  <2>6. Reached(k, due, fails) = Reached(k - 1, due, fails) BY <1>6, <2>1 DEF Reached
  <2> HIDE DEF t
  <2> QED BY <2>2, <2>4, <2>5, <2>6, <2>7 DEF WalkFits
<1>14. CASE ~(k > w.num) /\ q \in due /\ q # fails
  <2>1. q = p /\ p # fails /\ p \in InGame /\ p \in Structs /\ p \in due
    BY <1>1, <1>2, <1>4, <1>5, <1>14
  <2>2. Met(k, fails) <=> Met(k - 1, fails) BY <1>9, <2>1
  <2> DEFINE v == Views(p, w.lock)
  <2>3. t = [w EXCEPT !.shown = Append(@, <<p, v>>)]
    BY <1>10, <1>14, <2>1 DEF WalkTurn
  <2>4. v \subseteq InGame /\ (fails \in v => GetInd[id[p]] < g)
    <3>1. CASE Met(k - 1, fails)
      <4>1. fails \in InGame /\ fails # p /\ w.lock = Unlocked(fails)
        BY <1>3, <2>1, <3>1 DEF Met, WalkFits
      <4>2. v \subseteq InGame \ {fails} BY <2>1, <4>1, ViewsFit
      <4> QED BY <4>2
    <3>2. CASE ~Met(k - 1, fails)
      <4>1. w.lock = lock BY <3>2 DEF WalkFits
      <4>2. v \subseteq InGame BY <2>1, <4>1, ViewsFit
      <4>3. fails = None => fails \notin v BY <1>2, <4>2
      <4>4. fails # None => k - 1 < g
        <5> SUFFICES ASSUME fails # None PROVE k - 1 < g OBVIOUS
        <5>1. g # k - 1 BY <1>3, <2>1
        <5>2. ~(g < k - 1) BY <3>2 DEF Met
        <5> QED BY <1>1, <1>3, <5>1, <5>2
      <4>5. GetInd[id[p]] = k - 1 BY <1>1, <1>4
      <4> QED BY <4>2, <4>3, <4>4, <4>5
    <3> QED BY <3>1, <3>2
  <2>5. fails # None => p # Players[N - 1]
    <3> SUFFICES ASSUME fails # None, p = Players[N - 1] PROVE FALSE OBVIOUS
    <3>1. k - 1 = N - 1 BY <1>1, <1>4
    <3>2. k = N BY <1>1, <3>1
    <3>3. g < k - 1 BY <1>1, <1>3, <2>1, <3>1
    <3>4. Met(k - 1, fails) BY <3>3 DEF Met
    <3> QED BY <1>1, <1>7, <1>14, <3>2, <3>4
  <2>6. To(w.shown) = Reached(k - 1, due, fails) /\ p \notin To(w.shown)
    BY <1>8 DEF WalkFits, Reached
  <2>7. Reached(k, due, fails) = Reached(k - 1, due, fails) \cup {p}
    BY <1>6, <2>1, <2>5 DEF Reached
  <2>8. w.shown \in Shown /\ v \in SUBSET Structs BY <1>2, <2>4 DEF WalkerType
  <2>9. Len(w.shown) = Cardinality(To(w.shown)) /\ \A j \in DOMAIN w.shown : ShowsWell(w.shown[j], fails)
    BY DEF WalkFits
  <2>10. t.table = w.table /\ t.num = w.num /\ t.lock = w.lock /\ t.shown = Append(w.shown, <<p, v>>)
    BY <2>3 DEF WalkerType
  <2>11. ShowsWell(<<p, v>>, fails) BY <2>4 DEF ShowsWell
  <2> DEFINE s == Append(w.shown, <<p, v>>)
  <2>12. /\ To(s) = To(w.shown) \cup {p} /\ Len(s) = Cardinality(To(s))
         /\ \A j \in DOMAIN s : s[j] = <<p, v>> \/ \E i \in DOMAIN w.shown : s[j] = w.shown[i]
    BY <2>1, <2>6, <2>8, <2>9, OneMore
  <2> HIDE DEF s, t, v
  <2>13. t.shown = s BY <2>10 DEF s
  <2>14. \A j \in DOMAIN s : ShowsWell(s[j], fails) BY <2>9, <2>11, <2>12
  <2>15. /\ w.table = IF Met(k - 1, fails) THEN Exchanged(fails) ELSE Players
         /\ w.num = IF Met(k - 1, fails) THEN N - 1 ELSE N
         /\ w.lock = IF Met(k - 1, fails) THEN Unlocked(fails) ELSE lock
    BY DEF WalkFits
  <2>16. To(s) = Reached(k, due, fails) BY <2>6, <2>7, <2>12
  <2> QED BY ONLY <2>2, <2>10, <2>12, <2>13, <2>14, <2>15, <2>16 DEF WalkFits
<1> QED BY <1>11, <1>12, <1>13, <1>14

\* No frame misses anybody who does not lose its connection or its place, and none goes to,
\* or shows, a player who has left.
LEMMA WalkReaches ==
    ASSUME TableInv
    PROVE  FramesReachAll
<1> SUFFICES ASSUME NEW due \in Dues, NEW fails \in due \cup {None}
             PROVE  LET shown == Walked(due, fails).shown
                        moved == Players[NumPlayers - 1]
                    IN  /\ Len(shown) = Cardinality(To(shown))
                        /\ To(shown) \subseteq due \ {fails}
                        /\ due \ To(shown) \subseteq IF fails = None THEN {} ELSE {fails, moved}
                        /\ \A k \in DOMAIN shown :
                               LET Place(pl) == GetInd[id[pl]]
                               IN  /\ shown[k][2] \subseteq InGame
                                   /\ fails \in shown[k][2] => Place(shown[k][1]) < Place(fails)
    BY DEF FramesReachAll, To
<1> DEFINE N == NumPlayers
           seq == [k \in 1 .. N |-> k]
           par == Par(due, fails)
           w == Walks!OverSeq(par, Walker, seq)
           A == [n \in 0 .. N |-> {x \in WalkerType : WalkFits(x, n, due, fails)}]
<1>1. due \in SUBSET InGame BY DEF Dues
<1>2. /\ N \in 0 .. NumStructs /\ NumStructs \in Nat
      /\ Players \in [0 .. NumStructs - 1 -> Structs]
      /\ lock \in [Structs -> Structs \cup {None}]
      /\ InGame \subseteq Structs /\ None \notin Structs
  BY StructsFinite, PlayerFacts, TableAssumption DEF TableInv, IndexInv, LockInv
<1>3. Walked(due, fails) = w
  BY DEF Walked, FoldLeft, MapThenFoldSet, Walks!OverSeq, Max, WalkTurn, Par
<1>4. seq \in Seq(Nat) /\ DOMAIN seq = 1 .. N /\ Len(seq) = N BY <1>2
<1>5. Walker \in WalkerType BY <1>2 DEF Walker, WalkerType, Shown
<1>6. WalkFits(Walker, 0, due, fails)
  <2>1. ~Met(0, fails)
    <3> SUFFICES ASSUME fails # None PROVE ~(GetInd[id[fails]] < 0) BY DEF Met
    <3>1. GetInd[id[fails]] \in 0 .. N - 1 BY <1>1, PlayerFacts DEF TableInv
    <3> QED BY <1>2, <3>1
  <2>2. Walker.shown = <<>> /\ DOMAIN Walker.shown = {} BY DEF Walker
  <2>3. To(Walker.shown) = {} /\ Len(Walker.shown) = 0 BY <2>2 DEF To
  <2>4. Reached(0, due, fails) = {} BY DEF Reached
  <2>5. Walker.table = Players /\ Walker.num = NumPlayers /\ Walker.lock = lock BY DEF Walker
  <2> QED BY <2>1, <2>2, <2>3, <2>4, <2>5, FS_EmptySet DEF WalkFits
<1>7. ASSUME NEW k \in 1 .. N, NEW x \in WalkerType PROVE WalkTurn(par, k, x) \in WalkerType
  <2> DEFINE q == x.table[k - 1]
             t == WalkTurn(par, k, x)
  <2> SUFFICES t \in WalkerType OBVIOUS
  <2>1. k - 1 \in 0 .. NumStructs - 1 BY <1>2
  <2>2. q \in Structs BY <2>1 DEF WalkerType
  <2>3. par.due = due /\ par.fails = fails /\ par.table = Exchanged(fails) /\ par.lock = Unlocked(fails)
    BY DEF Par
  <2>4. \/ t = x
        \/ /\ q = fails /\ q \in due
           /\ t = [x EXCEPT !.table = Exchanged(fails), !.num = @ - 1, !.lock = Unlocked(fails)]
        \/ t = [x EXCEPT !.shown = Append(@, <<q, Views(q, x.lock)>>)]
    BY <2>3 DEF WalkTurn
  <2> HIDE DEF t, par
  <2>5. ASSUME q = fails, q \in due,
               t = [x EXCEPT !.table = Exchanged(fails), !.num = @ - 1, !.lock = Unlocked(fails)]
        PROVE  t \in WalkerType
    <3>1. fails \in InGame BY <1>1, <2>5
    <3> DEFINE a == Exchanged(fails)
               b == Unlocked(fails)
    <3>2. a \in [0 .. NumStructs - 1 -> Structs] /\ b \in [Structs -> Structs \cup {None}]
      BY <3>1, ExchangedFits
    <3> DEFINE c == x.num - 1
               Tables == [0 .. NumStructs - 1 -> Structs]
               Locks == [Structs -> Structs \cup {None}]
    <3>3. t = [x EXCEPT !.table = a, !.num = c, !.lock = b] BY <2>5
    <3>4. c \in Int /\ x \in [table : Tables, num : Int, lock : Locks, shown : Shown]
      BY DEF WalkerType
    <3> HIDE DEF a, b, c, Tables, Locks
    <3>5. t \in [table : Tables, num : Int, lock : Locks, shown : Shown]
      BY <3>2, <3>3, <3>4 DEF Tables, Locks
    <3> QED BY <3>5 DEF WalkerType, Tables, Locks
  <2>6. ASSUME t = [x EXCEPT !.shown = Append(@, <<q, Views(q, x.lock)>>)]
        PROVE  t \in WalkerType
    <3>1. Views(q, x.lock) \in SUBSET Structs BY <2>2 DEF Views, WalkerType
    <3>2. x.shown \in Shown BY DEF WalkerType
    <3> DEFINE s == Append(x.shown, <<q, Views(q, x.lock)>>)
    <3>3. s \in Shown BY <2>2, <3>1, <3>2 DEF Shown
    <3>4. t = [x EXCEPT !.shown = s] BY <2>6
    <3> HIDE DEF s, q
    <3> QED BY <3>3, <3>4 DEF WalkerType
  <2> QED BY <2>4, <2>5, <2>6
<1>8. Walks!Closed(par, {seq[i] : i \in DOMAIN seq}, WalkerType)
  BY <1>4, <1>7 DEF Walks!Closed
<1>9. ASSUME NEW k \in DOMAIN seq, NEW x \in A[k - 1] \cap WalkerType
      PROVE  WalkTurn(par, seq[k], x) \in A[k]
  <2>1. k \in 1 .. N /\ seq[k] = k /\ k - 1 \in 0 .. N /\ k \in 0 .. N BY <1>2, <1>4
  <2>2. x \in WalkerType /\ WalkFits(x, k - 1, due, fails) BY <2>1
  <2>3. WalkFits(WalkTurn(par, k, x), k, due, fails) BY <1>1, <2>1, <2>2, TurnFits
  <2> QED BY <1>7, <2>1, <2>2, <2>3
<1>10. Walker \in A[0] \cap WalkerType BY <1>2, <1>5, <1>6
<1> HIDE DEF A, par, seq
<1>11. w \in A[N]
  <2>1. Walks!OverSeq(par, Walker, seq) \in A[Len(seq)]
    BY <1>4, <1>8, <1>9, <1>10, Walks!SeqInOrder
  <2> QED BY <1>4, <2>1
<1> HIDE DEF w
<1>12. w \in WalkerType /\ WalkFits(w, N, due, fails) BY <1>2, <1>11 DEF A
<1>13. {Players[i] : i \in 0 .. N - 1} \cap due = due BY <1>1 DEF InGame
<1>14. /\ Len(w.shown) = Cardinality(To(w.shown))
       /\ To(w.shown) = due \ IF fails = None THEN {} ELSE {fails, Players[NumPlayers - 1]}
       /\ \A k \in DOMAIN w.shown : ShowsWell(w.shown[k], fails)
  BY <1>12, <1>13 DEF WalkFits, Reached
<1>15. fails = None => fails \notin due BY <1>1, <1>2
<1> QED BY <1>3, <1>14, <1>15 DEF ShowsWell

\* In the middle of the walk a connection may fail: no frame goes to, or shows, the player who has
\* left, nobody gets two, and nobody misses one but the player who took its place.
THEOREM FramesAreSent ==
    ASSUME MaxInGame <= NumIds
    PROVE  FramesSpec => []FramesReachAll
<1>1. TableInit => TableInv BY TableStart
<1>2. TableInv /\ [FramesNext]_allVars => TableInv' BY TableStep
<1>3. TableInv => FramesReachAll BY WalkReaches
<1> QED BY <1>1, <1>2, <1>3, PTL DEF FramesSpec

-----------------------------------------------------------------------------
(* The table of input handlers.                                            *)

\* Setup_net_server allows fewer connections than there are places in the table, and the
\* contact socket has one.
TableHasRoom ==
    /\ IsFiniteSet(Connections)
    /\ NumSelectFd \in Nat
    /\ Cardinality(Connections) < NumSelectFd
    /\ contactSocket \notin Connections
    /\ Dummy \notin Connections \cup {contactSocket}

-----------------------------------------------------------------------------
(* The invariant.                                                          *)

Handler == Connections \cup {contactSocket, Dummy}

FdsType == [open : [Fd -> Handler], mask : SUBSET Window, func : [Window -> Handler],
            max_fd : Int, exit : BOOLEAN]

\* Each connection has one descriptor, within the table, and the table says whose it is.
Sound(f) ==
    /\ f \in FdsType
    /\ f.open[min_fd] = contactSocket
    /\ f.open[min_fd + NumSelectFd] = Dummy
    /\ \A d, e \in Fd : f.open[d] = f.open[e] /\ f.open[d] # Dummy => d = e
    /\ \A d \in Window : f.func[d] = f.open[d] /\ (d \in f.mask <=> f.open[d] # Dummy)
    /\ f.max_fd \in f.mask
    /\ \A d \in f.mask : d <= f.max_fd
    /\ f.exit = FALSE

AlarmFits(a) ==
    /\ a \in [blocked : BOOLEAN, frame_cycle : Nat, frameDivisor : Nat \ {0}]
    /\ a.frame_cycle <= a.frameDivisor

SchedInv == Sound(fds) /\ AlarmFits(alarm)

-----------------------------------------------------------------------------
(* The largest and the smallest of a set of descriptors.                   *)

EndTurn(par, c, a) == Destroy_connection(a, c)
Ends == INSTANCE FoldTheorems WITH Turn <- EndTurn

LEMMA MaxIs ==
    ASSUME NEW S \in SUBSET Int, NEW m \in S, \A d \in S : d <= m
    PROVE  Max(S) = m
<1>1. \E x \in S : \A y \in S : x >= y OBVIOUS
<1>2. Max(S) \in S /\ \A y \in S : Max(S) >= y BY <1>1 DEF Max
<1> DEFINE n == Max(S)
<1>3. n \in Int /\ n >= m /\ n <= m /\ m \in Int BY <1>2
<1> HIDE DEF n
<1>4. n = m BY <1>3
<1> QED BY <1>4 DEF n

LEMMA MaxOf ==
    ASSUME NumSelectFd \in Nat, NEW S \in SUBSET Window, S # {}
    PROVE  Max(S) \in S /\ \A d \in S : d <= Max(S)
<1>1. S \in SUBSET (0 .. 3 + NumSelectFd) /\ 3 + NumSelectFd \in Nat BY DEF Window, min_fd
<1>2. \E n \in S : \A k \in S : n >= k BY <1>1, Ends!MaxExists
<1>3. Max(S) \in S /\ \A y \in S : Max(S) >= y BY <1>2 DEF Max
<1> QED BY <1>1, <1>3

LEMMA MinOf ==
    ASSUME NEW S \in SUBSET Nat, S # {}
    PROVE  Min(S) \in S /\ \A d \in S : Min(S) <= d
<1>1. \E n \in S : \A k \in S : n <= k BY Ends!SmallestNumber
<1> QED BY <1>1 DEF Min

LEMMA Numbers ==
    ASSUME TableHasRoom
    PROVE  /\ min_fd = 3 /\ min_fd \in Window /\ min_fd + NumSelectFd \in Fd
           /\ Window \subseteq Fd /\ Fd \subseteq Nat
           /\ Fd = Window \cup {min_fd + NumSelectFd}
           /\ Cardinality(Connections) \in Nat
<1>1. Cardinality(Connections) \in Nat BY FS_CardinalityType DEF TableHasRoom
<1> QED BY <1>1 DEF TableHasRoom, min_fd, Window, Fd

-----------------------------------------------------------------------------
(* A connection gets a descriptor.                                         *)

\* There are more places than connections.
LEMMA OneIsFree ==
    ASSUME TableHasRoom, NEW f, Sound(f), NEW c \in Connections \ Live(f)
    PROVE  \E d \in Window : f.open[d] = Dummy
<1> SUFFICES ASSUME \A d \in Window : f.open[d] # Dummy PROVE FALSE OBVIOUS
<1> DEFINE T == (Connections \ {c}) \cup {contactSocket}
           F == [d \in Window |-> f.open[d]]
<1>1. f.open \in [Fd -> Handler] BY DEF Sound, FdsType
<1>2. \A d \in Fd : f.open[d] # c BY DEF Live
<1>3. F \in [Window -> T] BY <1>1, <1>2, Numbers DEF Handler
<1>4. IsFiniteSet(T) /\ Cardinality(T) = Cardinality(Connections)
  <2>1. IsFiniteSet(Connections) /\ contactSocket \notin Connections BY DEF TableHasRoom
  <2>2. /\ IsFiniteSet(Connections \ {c})
        /\ Cardinality(Connections \ {c}) = Cardinality(Connections) - 1
    BY <2>1, FS_RemoveElement
  <2>3. /\ IsFiniteSet(T)
        /\ Cardinality(T) = Cardinality(Connections \ {c}) + 1
    BY <2>1, <2>2, FS_AddElement
  <2> QED BY <2>2, <2>3, Numbers
<1>5. IsFiniteSet(Window) /\ Cardinality(Window) = NumSelectFd
  <2>1. /\ NumSelectFd \in Nat /\ 3 \in Int /\ 3 + NumSelectFd - 1 \in Int
        /\ Window = 3 .. 3 + NumSelectFd - 1
    BY DEF TableHasRoom, Window, min_fd
  <2>2. /\ IsFiniteSet(3 .. 3 + NumSelectFd - 1)
        /\ Cardinality(3 .. 3 + NumSelectFd - 1)
               = IF 3 > 3 + NumSelectFd - 1 THEN 0 ELSE 3 + NumSelectFd - 1 - 3 + 1
    BY <2>1, FS_Interval
  <2> QED BY <2>1, <2>2
<1>6. Cardinality(T) < Cardinality(Window) BY <1>4, <1>5 DEF TableHasRoom
<1> HIDE DEF T
<1>7. PICK d, e \in Window : d # e /\ F[d] = F[e]
  <2> HIDE DEF F
  <2> QED BY <1>3, <1>4, <1>5, <1>6, FS_PigeonHole
<1> QED BY <1>7, Numbers DEF Sound

LEMMA LowestIsFree ==
    ASSUME TableHasRoom, NEW f, Sound(f), NEW c \in Connections \ Live(f)
    PROVE  CreateDgramSocket(f) \in Window /\ f.open[CreateDgramSocket(f)] = Dummy
<1> DEFINE U == {d \in Fd : f.open[d] = Dummy}
           d == Min(U)
<1>1. PICK e \in Window : f.open[e] = Dummy BY OneIsFree
<1>2. U \in SUBSET Nat /\ e \in U BY <1>1, Numbers
<1>3. d \in U /\ d <= e
  <2> HIDE DEF U
  <2> QED BY <1>2, MinOf
<1>4. d \in Fd /\ f.open[d] = Dummy BY <1>3
<1> HIDE DEF d
<1>5. d \in Window BY <1>1, <1>3, <1>4 DEF TableHasRoom, Fd, Window, min_fd
<1> QED BY <1>4, <1>5 DEF CreateDgramSocket, d

LEMMA SetupIsSound ==
    ASSUME TableHasRoom, NEW f, Sound(f), NEW c \in Connections \ Live(f)
    PROVE  Sound(Setup_connection(f, c))
<1> DEFINE d == CreateDgramSocket(f)
           g == [f EXCEPT !.open[d] = c]
           h == [g EXCEPT !.func[d] = c, !.mask = @ \cup {d},
                          !.max_fd = IF d > @ THEN d ELSE @]
<1>1. d \in Window /\ f.open[d] = Dummy BY LowestIsFree
<1>2. /\ f \in FdsType /\ f.open \in [Fd -> Handler] /\ f.func \in [Window -> Handler]
      /\ f.mask \subseteq Window /\ f.max_fd \in f.mask /\ f.max_fd \in Int
  BY DEF Sound, FdsType
<1>3. /\ Window \subseteq Fd /\ c \in Handler /\ c # Dummy /\ Fd \subseteq Nat
  BY Numbers DEF Handler, TableHasRoom
<1>31. d \in Int /\ f.max_fd \in Int /\ \A e \in f.mask : e \in Int /\ e <= f.max_fd
  <2>1. Window \subseteq Int BY <1>3
  <2>2. d \in Int BY <1>1, <2>1
  <2>3. \A e \in f.mask : e \in Int BY <1>2, <2>1
  <2>4. \A e \in f.mask : e <= f.max_fd BY DEF Sound
  <2> QED BY <1>2, <2>2, <2>3, <2>4
<1>4. Setup_connection(f, c) = install_input(g, c, d) BY DEF Setup_connection
<1> HIDE DEF d
<1>5. /\ g.open = [f.open EXCEPT ![d] = c]
      /\ g.mask = f.mask /\ g.func = f.func /\ g.max_fd = f.max_fd /\ g.exit = f.exit
      /\ g \in FdsType
  BY <1>1, <1>2, <1>3 DEF FdsType
<1>6. d \notin g.mask BY <1>1, <1>5 DEF Sound
<1> HIDE DEF g
<1>7. install_input(g, c, d) = h BY <1>1, <1>6 DEF install_input
<1>8. /\ h.open = g.open /\ h.exit = g.exit
      /\ h.mask = g.mask \cup {d}
      /\ h.func = [g.func EXCEPT ![d] = c]
      /\ h.max_fd = (IF d > g.max_fd THEN d ELSE g.max_fd)
      /\ h \in FdsType
  <2> DEFINE m == IF d > g.max_fd THEN d ELSE g.max_fd
             F == [g.func EXCEPT ![d] = c]
             M == g.mask \cup {d}
  <2>1. m \in Int
    <3>1. g.max_fd \in Int /\ d \in Int BY <1>5, <1>31
    <3> QED BY ONLY <3>1
  <2>2. F \in [Window -> Handler] BY <1>2, <1>3, <1>5
  <2>3. M \in SUBSET Window BY <1>1, <1>2, <1>5
  <2>4. h = [g EXCEPT !.func = F, !.mask = M, !.max_fd = m] OBVIOUS
  <2> HIDE DEF m, F, M, h
  <2>5. /\ h.open = g.open /\ h.exit = g.exit /\ h.mask = M /\ h.func = F /\ h.max_fd = m
        /\ h \in FdsType
    BY <1>5, <2>1, <2>2, <2>3, <2>4 DEF FdsType
  <2> QED BY <2>5 DEF m, F, M
<1> HIDE DEF h
<1>9. /\ h.open[d] = c /\ h.func[d] = c
      /\ \A e \in Fd : e # d => h.open[e] = f.open[e]
      /\ \A e \in Window : e # d => h.func[e] = f.func[e]
  BY <1>1, <1>2, <1>3, <1>5, <1>8
<1>10. min_fd # d /\ min_fd + NumSelectFd # d
  <2>1. contactSocket # Dummy BY DEF TableHasRoom
  <2> QED BY <1>1, <2>1 DEF Sound, Window, TableHasRoom, min_fd
<1>11. \A e \in Fd : f.open[e] # c BY DEF Live
<1>12. h.max_fd \in h.mask /\ \A e \in h.mask : e <= h.max_fd
  <2> DEFINE m == f.max_fd
             n == h.max_fd
             M == f.mask
             N == h.mask
  <2>1. d \in Int /\ m \in Int /\ m \in M /\ \A e \in M : e \in Int /\ e <= m
    BY <1>2, <1>31
  <2>2. N = M \cup {d} /\ n = IF d > m THEN d ELSE m BY <1>5, <1>8
  <2> HIDE DEF m, n, M, N
  <2>3. n \in N /\ \A e \in N : e <= n BY ONLY <2>1, <2>2
  <2> QED BY <2>3 DEF n, N
<1>13. \A e \in Window : h.func[e] = h.open[e] /\ (e \in h.mask <=> h.open[e] # Dummy)
  BY <1>1, <1>3, <1>5, <1>8, <1>9 DEF Sound
<1>14. \A i, e \in Fd : h.open[i] = h.open[e] /\ h.open[i] # Dummy => i = e
  BY <1>9, <1>11 DEF Sound
<1>15. /\ h.open[min_fd] = contactSocket /\ h.open[min_fd + NumSelectFd] = Dummy
       /\ h.exit = FALSE /\ h.mask # {}
  BY <1>5, <1>8, <1>9, <1>10, Numbers DEF Sound
<1>16. Sound(h) BY <1>8, <1>12, <1>13, <1>14, <1>15 DEF Sound
<1> QED BY <1>4, <1>7, <1>16

-----------------------------------------------------------------------------
(* Connections end.                                                        *)

LEMMA DestroyIsSound ==
    ASSUME TableHasRoom, NEW f, Sound(f), NEW c \in Live(f)
    PROVE  /\ Sound(Destroy_connection(f, c))
           /\ Live(Destroy_connection(f, c)) = Live(f) \ {c}
<1> DEFINE d == FdOf(f, c)
           g == [f EXCEPT !.func[d] = Dummy, !.mask = @ \ {d},
                          !.max_fd = IF d = @ THEN MaxBelow(f, d) ELSE @]
           h == [g EXCEPT !.open[d] = Dummy]
           B == {e \in f.mask : min_fd <= e /\ e < d}
<1>1. c \in Connections /\ d \in Fd /\ f.open[d] = c BY DEF Live, FdOf
<1>2. /\ f \in FdsType /\ f.open \in [Fd -> Handler] /\ f.func \in [Window -> Handler]
      /\ f.mask \subseteq Window /\ f.max_fd \in f.mask /\ f.max_fd \in Int
  BY DEF Sound, FdsType
<1>3. /\ c # Dummy /\ c # contactSocket /\ contactSocket # Dummy /\ NumSelectFd \in Nat
      /\ Dummy \in Handler
  BY <1>1 DEF TableHasRoom, Handler
<1>4. d \in Window /\ d \in f.mask /\ d # min_fd /\ d # min_fd + NumSelectFd
  BY <1>1, <1>3, Numbers DEF Sound
<1>5. Destroy_connection(f, c) = [remove_input(f, d) EXCEPT !.open[d] = Dummy]
  BY DEF Destroy_connection
<1> HIDE DEF d
<1>6. remove_input(f, d) = g BY <1>4 DEF remove_input
<1>7. /\ MaxBelow(f, d) \in f.mask \ {d}
      /\ \A e \in f.mask : e < d => e <= MaxBelow(f, d)
  <2>1. min_fd \in f.mask BY <1>3, Numbers DEF Sound
  <2>2. min_fd \in B /\ B \in SUBSET Window
    BY <1>2, <1>4, <2>1, Numbers DEF Window, min_fd
  <2>3. MaxBelow(f, d) = Max(B) BY <2>2 DEF MaxBelow
  <2>4. \A e \in f.mask : e < d => e \in B BY <1>2 DEF Window, min_fd
  <2>5. B \subseteq f.mask \ {d} BY <1>4, Numbers
  <2> HIDE DEF B
  <2>6. Max(B) \in B /\ \A e \in B : e <= Max(B) BY <1>3, <2>2, MaxOf
  <2> QED BY <2>3, <2>4, <2>5, <2>6
<1>8. MaxBelow(f, d) \in Int BY <1>2, <1>7, Numbers
<1>9. /\ g.open = f.open /\ g.exit = f.exit /\ g.mask = f.mask \ {d}
      /\ g.func = [f.func EXCEPT ![d] = Dummy]
      /\ g.max_fd = (IF d = f.max_fd THEN MaxBelow(f, d) ELSE f.max_fd)
      /\ g \in FdsType
  <2> DEFINE m == MaxBelow(f, d)
  <2>1. m \in Int BY <1>8
  <2> HIDE DEF m
  <2>2. g = [f EXCEPT !.func[d] = Dummy, !.mask = @ \ {d},
                      !.max_fd = IF d = @ THEN m ELSE @]
    BY DEF m
  <2> HIDE DEF g
  <2> QED BY <1>2, <1>3, <1>4, <2>1, <2>2 DEF FdsType, m
<1> HIDE DEF g
<1>10. /\ h.open = [f.open EXCEPT ![d] = Dummy]
       /\ h.exit = g.exit /\ h.mask = g.mask /\ h.func = g.func /\ h.max_fd = g.max_fd
       /\ h \in FdsType
  BY <1>1, <1>2, <1>3, <1>9 DEF FdsType
<1> HIDE DEF h
<1>11. /\ h.open[d] = Dummy /\ h.func[d] = Dummy
       /\ \A e \in Fd : e # d => h.open[e] = f.open[e]
       /\ \A e \in Window : e # d => h.func[e] = f.func[e]
  BY <1>1, <1>2, <1>4, <1>9, <1>10
<1>12. h.max_fd \in h.mask BY <1>2, <1>7, <1>9, <1>10
<1>13. \A e \in h.mask : e <= h.max_fd
  <2> SUFFICES ASSUME NEW e \in h.mask PROVE e <= h.max_fd OBVIOUS
  <2>1. /\ e \in f.mask /\ e # d /\ e <= f.max_fd /\ e \in Int /\ d \in Int
    BY <1>2, <1>4, <1>9, <1>10, Numbers DEF Sound
  <2>2. d = f.max_fd => e < d BY <1>2, <2>1
  <2> QED BY <1>7, <1>9, <1>10, <2>1, <2>2
<1>14. \A e \in Window : h.func[e] = h.open[e] /\ (e \in h.mask <=> h.open[e] # Dummy)
  BY <1>9, <1>10, <1>11, Numbers DEF Sound
<1>15. \A i, e \in Fd : h.open[i] = h.open[e] /\ h.open[i] # Dummy => i = e
  BY <1>11 DEF Sound
<1>16. /\ h.open[min_fd] = contactSocket /\ h.open[min_fd + NumSelectFd] = Dummy
       /\ h.exit = FALSE
  BY <1>4, <1>9, <1>10, <1>11, Numbers DEF Sound
<1>17. Sound(h) BY <1>10, <1>12, <1>13, <1>14, <1>15, <1>16 DEF Sound
<1>18. Live(h) = Live(f) \ {c}
  <2>1. \A x \in Connections : (\E e \in Fd : h.open[e] = x)
                                  <=> x # c /\ \E e \in Fd : f.open[e] = x
    <3> SUFFICES ASSUME NEW x \in Connections
                 PROVE  (\E e \in Fd : h.open[e] = x) <=> x # c /\ \E e \in Fd : f.open[e] = x
        OBVIOUS
    <3>1. x # Dummy BY DEF TableHasRoom
    <3>2. \A e \in Fd : f.open[e] = c => e = d BY <1>1, <1>3 DEF Sound
    <3> QED BY <1>1, <1>11, <3>1, <3>2
  <2> QED BY <2>1 DEF Live
<1>19. Destroy_connection(f, c) = h BY <1>5, <1>6 DEF h
<1> QED BY <1>17, <1>18, <1>19

\* Main_loop and a handler may end any number of connections.
LEMMA DestroyedIsSound ==
    ASSUME TableHasRoom, NEW f, Sound(f), NEW D \in SUBSET Live(f)
    PROVE  Sound(Destroyed(f, D))
<1> DEFINE A == [T \in SUBSET D |-> {h \in FdsType : Sound(h) /\ Live(h) = Live(f) \ T}]
           end == Ends!OverSet(0, f, D)
<1>1. Destroyed(f, D) = end
  BY DEF Destroyed, FoldSet, MapThenFoldSet, Ends!OverSet, EndTurn
<1>2. f \in A[{}] BY DEF Sound
<1>3. Ends!SetCarries(0, D, A)
  <2>1. ASSUME NEW T \in SUBSET D, NEW c \in D \ T, NEW h \in A[T]
        PROVE  EndTurn(0, c, h) \in A[T \cup {c}]
    <3> DEFINE k == Destroy_connection(h, c)
    <3>1. Sound(h) /\ Live(h) = Live(f) \ T BY <2>1
    <3>2. c \in Live(h) BY <3>1
    <3>3. Sound(k) /\ Live(k) = Live(h) \ {c} BY <3>1, <3>2, DestroyIsSound
    <3>4. EndTurn(0, c, h) = k BY DEF EndTurn
    <3> HIDE DEF k
    <3>5. k \in FdsType /\ Live(k) = Live(f) \ (T \cup {c}) BY <3>1, <3>3 DEF Sound
    <3> QED BY <3>3, <3>4, <3>5
  <2> QED BY <2>1 DEF Ends!SetCarries
<1>4. Ends!IsFiniteSet(D)
  <2>1. D \subseteq Connections /\ IsFiniteSet(Connections) BY DEF Live, TableHasRoom
  <2>2. IsFiniteSet(D) BY <2>1, FS_Subset
  <2> QED BY <2>2 DEF IsFiniteSet, Ends!IsFiniteSet
<1>5. \A h \in A[D] : Sound(h) OBVIOUS
<1> HIDE DEF A, end
<1>6. end \in A[D] BY <1>2, <1>3, <1>4, Ends!SetIsCarried DEF end
<1> QED BY <1>1, <1>5, <1>6

-----------------------------------------------------------------------------
(* Each step.                                                              *)

LEMMA AlarmStep ==
    ASSUME TableHasRoom, SchedInv, SIGALRM
    PROVE  SchedInv'
<1>1. Sound(fds')
  <2>1. PICK D \in SUBSET Live(fds) :
            LET f == Destroyed(fds, D) IN
            \/ fds' = f
            \/ \E c \in Connections \ Live(f) : fds' = Setup_connection(f, c)
    BY DEF SIGALRM, Main_loop
  <2>2. Sound(Destroyed(fds, D)) BY DestroyedIsSound DEF SchedInv
  <2> QED BY <2>1, <2>2, SetupIsSound
<1>2. AlarmFits(alarm')
  <2> DEFINE n == CycleNow + 1
  <2>1. /\ alarm \in [blocked : BOOLEAN, frame_cycle : Nat, frameDivisor : Nat \ {0}]
        /\ alarm.frame_cycle <= alarm.frameDivisor
    BY DEF SchedInv, AlarmFits
  <2>2. n \in Nat /\ n <= alarm.frameDivisor BY <2>1 DEF CycleNow
  <2>3. alarm' = [alarm EXCEPT !.frame_cycle = n] BY DEF SIGALRM, Main_loop
  <2> HIDE DEF n
  <2> QED BY <2>1, <2>2, <2>3 DEF AlarmFits
<1> QED BY <1>1, <1>2 DEF SchedInv

LEMMA TunedFits ==
    ASSUME NEW a, AlarmFits(a), NEW d \in Nat \ {0}
    PROVE  AlarmFits(Tuned(a, d))
<1> DEFINE no == FALSE
           zero == 0
           Divisors == Nat \ {0}
           T == [blocked : BOOLEAN, frame_cycle : Nat, frameDivisor : Divisors]
           k == [a EXCEPT !.frameDivisor = d, !.frame_cycle = zero, !.blocked = no]
<1>1. no \in BOOLEAN /\ zero \in Nat /\ d \in Divisors /\ zero <= d /\ Tuned(a, d) = k
  BY DEF Tuned
<1>2. a \in T BY DEF AlarmFits
<1> HIDE DEF no, zero, Divisors
<1>3. k \in T /\ k.frame_cycle = zero /\ k.frameDivisor = d BY ONLY <1>1, <1>2
<1> HIDE DEF k
<1> QED BY <1>1, <1>3 DEF AlarmFits, Divisors

LEMMA DispatchStep ==
    ASSUME TableHasRoom, SchedInv, Dispatch
    PROVE  SchedInv'
<1>1. Sound(fds')
  <2>1. fds' = fds \/ \E D \in SUBSET Live(fds) : fds' = Destroyed(fds, D) BY DEF Dispatch
  <2> QED BY <2>1, DestroyedIsSound DEF SchedInv
<1>2. alarm' = alarm \/ \E d \in 1 .. MaxDivisor : alarm' = Tuned(alarm, d) BY DEF Dispatch
<1>3. \A d \in 1 .. MaxDivisor : AlarmFits(Tuned(alarm, d)) BY TunedFits DEF SchedInv
<1> QED BY <1>1, <1>2, <1>3 DEF SchedInv

LEMMA NextStep ==
    ASSUME TableHasRoom, SchedInv, [SchedNext]_schedVars
    PROVE  SchedInv'
<1>1. CASE SIGALRM BY <1>1, AlarmStep
<1>2. CASE Copy BY <1>2 DEF Copy, SchedInv
<1>3. CASE SelectFails BY <1>3 DEF SelectFails, SchedInv
<1>4. CASE Select BY <1>4 DEF Select, SchedInv
<1>5. CASE Block BY <1>5 DEF Block, SchedInv, AlarmFits
<1>6. CASE Dispatch BY <1>6, DispatchStep
<1>7. CASE Unblock BY <1>7 DEF Unblock, SchedInv, AlarmFits
<1>8. CASE UNCHANGED schedVars BY <1>8 DEF schedVars, SchedInv
<1> QED BY <1>1, <1>2, <1>3, <1>4, <1>5, <1>6, <1>7, <1>8 DEF SchedNext

LEMMA StartIsSound ==
    ASSUME TableHasRoom, MaxDivisor \in Nat \ {0}, SchedInit
    PROVE  SchedInv
<1>1. /\ fds \in FdsType /\ fds.mask = {min_fd} /\ fds.max_fd = min_fd /\ fds.exit = FALSE
      /\ \A d \in Fd : fds.open[d] = IF d = min_fd THEN contactSocket ELSE Dummy
      /\ \A d \in Window : fds.func[d] = IF d = min_fd THEN contactSocket ELSE Dummy
  BY Numbers DEF SchedInit, FdsType, Handler
<1>2. min_fd + NumSelectFd # min_fd /\ contactSocket # Dummy
  BY Numbers DEF TableHasRoom
<1>3. Sound(fds) BY <1>1, <1>2, Numbers DEF Sound
<1>4. AlarmFits(alarm) BY DEF SchedInit, AlarmFits
<1> QED BY <1>3, <1>4 DEF SchedInv

-----------------------------------------------------------------------------
(* The theorem.                                                            *)

\* Whatever connections come and go while sched() works with an old copy of the mask: the
\* handlers of sched.cpp are those of the descriptors' owners, max_fd is the largest, no
\* descriptor is out of range or busy, and the count of frames never runs past a real one.
THEOREM SchedulerIsSafe ==
    ASSUME TableHasRoom, MaxDivisor \in Nat \ {0}
    PROVE  SchedSpec => []SchedulerSafe
<1>1. SchedInit => SchedInv BY StartIsSound
<1>2. SchedInv /\ [SchedNext]_schedVars => SchedInv' BY NextStep
<1>3. SchedInv => SchedulerSafe
  <2> SUFFICES ASSUME SchedInv PROVE SchedulerSafe OBVIOUS
  <2>1. HandlersAgree
    <3>1. /\ fds.mask \in SUBSET Int /\ fds.max_fd \in fds.mask
          /\ \A d \in fds.mask : d <= fds.max_fd
      BY Numbers DEF SchedInv, Sound, FdsType
    <3>2. Max(fds.mask) = fds.max_fd BY <3>1, MaxIs
    <3> QED BY <3>2 DEF SchedInv, Sound, HandlersAgree
  <2>2. ServerGoesOn BY DEF SchedInv, Sound, ServerGoesOn
  <2>3. RealFramesCome BY DEF SchedInv, AlarmFits, RealFramesCome
  <2> QED BY <2>1, <2>2, <2>3 DEF SchedulerSafe
<1> QED BY <1>1, <1>2, <1>3, PTL DEF SchedSpec
================================================================================
