---------------------------- MODULE BallsProofs ----------------------------
(***************************************************************************)
(* The balls are safe, for any number of players, boxes and structures.    *)
(*                                                                         *)
(* The invariant Sound is about the game alone: what is free, what lies in *)
(* the boxes, who carries what and who points to what.  It holds after     *)
(* each function of the code, most of which work off the table or the pool *)
(* in a loop, with what the loop has done so far (FoldTheorems).           *)
(***************************************************************************)
EXTENDS Balls, FiniteSetTheorems, TLAPS

PlayerType == [state : {"out", "idle", "paused", "alive", "killed"},
               team : Team \cup {None}, shots : Nat,
               connector : BOOLEAN, has : BOOLEAN,
               ball_tmp : Struct \cup {None}]
ObjectType == [type : {"none", "ball", "shot", "debris"},
               owner : Player \cup {None}, attached : BOOLEAN,
               treasure : Treasure \cup {None}, expired : BOOLEAN]
GameType == [pl : [Player -> PlayerType], order : Seq(Player), free : Seq(Struct),
             ob : [Struct -> ObjectType], have : [Treasure -> BOOLEAN]]

\* What is free is free once.
FreeFits(g) ==
    /\ IsInjective(g.free)
    /\ \A s \in Struct : g.ob[s].type = "none" <=> s \in Range(g.free)

\* Each box has a ball and no other, which is nobody's while it lies there.
BoxFits(g) ==
    /\ \A t \in Treasure : \E s \in Struct : g.ob[s].type = "ball" /\ g.ob[s].treasure = t
    /\ \A s, r \in Struct : /\ g.ob[s].type = "ball" /\ g.ob[r].type = "ball"
                            /\ g.ob[s].treasure = g.ob[r].treasure
                            => s = r
    /\ \A s \in Struct : g.ob[s].type = "ball" =>
           /\ g.ob[s].treasure \in Treasure
           /\ g.have[g.ob[s].treasure] => ~g.ob[s].attached /\ g.ob[s].owner = None

\* Balls are attached to those who play, and who has a ball carries one.
CarryFits(g) ==
    /\ \A s \in Struct : g.ob[s].attached =>
           /\ g.ob[s].type = "ball"
           /\ g.ob[s].owner \in Player
           /\ g.pl[g.ob[s].owner].state \in {"alive", "killed"}
    /\ \A p \in Player : g.pl[p].has <=> \E s \in Struct : g.ob[s].attached /\ g.ob[s].owner = p

PointersFit(g) ==
    \A p \in Player : g.pl[p].ball_tmp # None => g.ob[g.pl[p].ball_tmp].type = "ball"

OwnersFit(g) ==
    \A s \in Struct : g.ob[s].owner # None => g.pl[g.ob[s].owner].state # "out"

TableFits(g) ==
    /\ \A i, j \in DOMAIN g.order : g.order[i] = g.order[j] => i = j
    /\ \A i \in DOMAIN g.order : g.pl[g.order[i]].state # "out"

Sound(g) ==
    /\ g \in GameType
    /\ FreeFits(g) /\ BoxFits(g) /\ CarryFits(g)
    /\ PointersFit(g) /\ OwnersFit(g) /\ TableFits(g)

\* What is carried in h was carried in g already, by the same player.
Held(g, h) ==
    \A s \in Struct : h.ob[s].attached => g.ob[s].attached /\ h.ob[s].owner = g.ob[s].owner

\* Nobody has left.
Stay(g, h) == \A p \in Player : g.pl[p].state # "out" => h.pl[p].state # "out"

Follows(g, h) == Sound(h) /\ Held(g, h) /\ Stay(g, h)

\* Some balls were dropped, and nothing else but pointers has changed.
Dropped(g, h) ==
    /\ h.order = g.order /\ h.free = g.free /\ h.have = g.have
    /\ \A s \in Struct : /\ h.ob[s].type = g.ob[s].type
                         /\ h.ob[s].owner = g.ob[s].owner
                         /\ h.ob[s].treasure = g.ob[s].treasure
                         /\ h.ob[s].expired = g.ob[s].expired
                         /\ h.ob[s].attached => g.ob[s].attached
    /\ \A q \in Player : h.pl[q].state = g.pl[q].state /\ h.pl[q].team = g.pl[q].team

LEMMA FollowsOn ==
    ASSUME NEW g \in GameType, NEW h, NEW k, Follows(g, h), Follows(h, k)
    PROVE  Follows(g, k)
BY DEF Follows, Held, Stay

LEMMA FollowsItself ==
    ASSUME NEW g, Sound(g)
    PROVE  Follows(g, g)
BY DEF Follows, Held, Stay

-----------------------------------------------------------------------------
(* The pool as a stack.                                                    *)

LEMMA Popped ==
    ASSUME NEW q \in Seq(Struct), IsInjective(q), q # <<>>
    PROVE  /\ Head(q) \in Struct /\ Head(q) \in Range(q)
           /\ Tail(q) \in Seq(Struct) /\ IsInjective(Tail(q))
           /\ \A s \in Struct : s \in Range(Tail(q)) <=> s \in Range(q) /\ s # Head(q)
<1> DEFINE n == Len(q)
<1>1. n \in Nat \ {0} /\ DOMAIN q = 1 .. n /\ \A i \in 1 .. n : q[i] \in Struct
    OBVIOUS
<1>2. Head(q) = q[1]
    OBVIOUS
<1>3. /\ Tail(q) \in Seq(Struct)
      /\ DOMAIN Tail(q) = 1 .. n - 1
      /\ \A i \in 1 .. n - 1 : Tail(q)[i] = q[i + 1]
    OBVIOUS
<1> HIDE DEF n
<1>4. IsInjective(Tail(q))
    BY <1>1, <1>3 DEF IsInjective
<1>5. ASSUME NEW s \in Struct
      PROVE  s \in Range(Tail(q)) <=> s \in Range(q) /\ s # Head(q)
    <2>1. ASSUME s \in Range(Tail(q)) PROVE s \in Range(q) /\ s # Head(q)
        <3>1. PICK i \in 1 .. n - 1 : s = q[i + 1]
            BY <2>1, <1>3 DEF Range
        <3>2. i + 1 \in 1 .. n /\ i + 1 # 1
            BY <1>1
        <3> QED BY <3>1, <3>2, <1>1, <1>2 DEF Range, IsInjective
    <2>2. ASSUME s \in Range(q), s # Head(q) PROVE s \in Range(Tail(q))
        <3>1. PICK i \in 1 .. n : s = q[i]
            BY <2>2, <1>1 DEF Range
        <3>2. i - 1 \in 1 .. n - 1 /\ (i - 1) + 1 = i
            BY <3>1, <2>2, <1>1, <1>2
        <3> QED BY <3>1, <3>2, <1>3 DEF Range
    <2> QED BY <2>1, <2>2
<1> QED BY <1>1, <1>2, <1>3, <1>4, <1>5 DEF Range

LEMMA Pushed ==
    ASSUME NEW q \in Seq(Struct), IsInjective(q), NEW x \in Struct, x \notin Range(q)
    PROVE  /\ <<x>> \o q \in Seq(Struct) /\ IsInjective(<<x>> \o q)
           /\ \A s \in Struct : s \in Range(<<x>> \o q) <=> s \in Range(q) \/ s = x
           /\ <<x>> \o q # <<>> /\ Head(<<x>> \o q) = x /\ Tail(<<x>> \o q) = q
<1> DEFINE n == Len(q)
           r == <<x>> \o q
<1>1. n \in Nat /\ DOMAIN q = 1 .. n /\ q \in [1 .. n -> Struct]
    OBVIOUS
<1>2. /\ r \in Seq(Struct) /\ Len(r) = n + 1 /\ DOMAIN r = 1 .. n + 1
      /\ \A i \in 1 .. n + 1 : r[i] = IF i = 1 THEN x ELSE q[i - 1]
    OBVIOUS
<1>3. r # <<>> /\ Head(r) = x
    BY <1>2, <1>1
<1>4. Tail(r) = q
    <2>1. Tail(r) \in Seq(Struct) /\ Len(Tail(r)) = n /\ \A i \in 1 .. n : Tail(r)[i] = r[i + 1]
        BY <1>1, <1>2, <1>3
    <2>2. \A i \in 1 .. n : r[i + 1] = q[i]
        BY <1>1, <1>2
    <2> QED BY <2>1, <2>2, <1>1
<1> HIDE DEF n, r
<1>5. IsInjective(r)
    BY <1>1, <1>2 DEF IsInjective, Range
<1>6. ASSUME NEW s \in Struct
      PROVE  s \in Range(r) <=> s \in Range(q) \/ s = x
    <2>1. ASSUME s \in Range(q) PROVE s \in Range(r)
        <3>1. PICK i \in 1 .. n : s = q[i]
            BY <2>1, <1>1 DEF Range
        <3>2. i + 1 \in 1 .. n + 1 /\ r[i + 1] = q[i]
            BY <1>1, <1>2
        <3> QED BY <3>1, <3>2, <1>2 DEF Range
    <2>2. x \in Range(r)
        BY <1>1, <1>2 DEF Range
    <2>3. ASSUME s \in Range(r) PROVE s \in Range(q) \/ s = x
        BY <2>3, <1>1, <1>2 DEF Range
    <2> QED BY <2>1, <2>2, <2>3
<1> QED BY <1>2, <1>3, <1>4, <1>5, <1>6 DEF r

LEMMA StructsAreFinite ==
    IsFiniteSet(Struct) /\ Cardinality(Struct) = MaxObjects
BY BallsAssumption, FS_Interval DEF Struct

-----------------------------------------------------------------------------
(* Functions that change single players and objects.                       *)

\* The sets of the model say what the fields of the objects say.
LEMMA SetsSay ==
    ASSUME NEW g, Sound(g)
    PROVE  /\ \A s \in Struct : s \in Objects(g) <=> g.ob[s].type # "none"
           /\ \A s \in Struct : s \in BallsOf(g) <=> g.ob[s].type = "ball"
           /\ \A p \in Player : \A s \in Struct :
                  s \in CarriedBy(g, p) <=> g.ob[s].attached /\ g.ob[s].owner = p
           /\ Objects(g) \subseteq Struct /\ BallsOf(g) \subseteq Struct
           /\ \A p \in Player : CarriedBy(g, p) \subseteq Struct
BY DEF Sound, FreeFits, CarryFits, Objects, BallsOf, CarriedBy

\* What Ball_detach makes of the record: the balls of d are dropped.
DetachesTo(g, p, d, h) ==
    /\ h = [pl |-> h.pl, order |-> g.order, free |-> g.free, ob |-> h.ob, have |-> g.have]
    /\ h.ob = IF g.pl[p].has
              THEN [s \in Struct |-> [g.ob[s] EXCEPT !.attached = @ /\ s \notin d]]
              ELSE g.ob
    /\ h.pl \in [Player -> PlayerType]
    /\ \A q \in Player \ {p} : h.pl[q] = g.pl[q]
    /\ h.pl[p].state = g.pl[p].state /\ h.pl[p].team = g.pl[p].team
    /\ h.pl[p].ball_tmp \in {g.pl[p].ball_tmp, None}
    /\ h.pl[p].has <=> g.pl[p].has /\ CarriedBy(g, p) # d

LEMMA DetachFields ==
    ASSUME NEW g \in GameType, NEW p \in Player, NEW b \in Struct \cup {None}, NEW d \in SUBSET Struct,
           d = IF b = None THEN CarriedBy(g, p) ELSE CarriedBy(g, p) \cap {b}
    PROVE  DetachesTo(g, p, d, Ball_detach(g, p, b))
<1> DEFINE k == IF b = None \/ b = g.pl[p].ball_tmp
                THEN [g EXCEPT !.pl[p] = [@ EXCEPT !.ball_tmp = None, !.connector = FALSE]]
                ELSE g
           h == Ball_detach(g, p, b)
<1>1. /\ k.order = g.order /\ k.free = g.free /\ k.have = g.have /\ k.ob = g.ob
      /\ k = [pl |-> k.pl, order |-> k.order, free |-> k.free, ob |-> k.ob, have |-> k.have]
    BY DEF GameType
<1>2. /\ k.pl \in [Player -> PlayerType]
      /\ \A q \in Player \ {p} : k.pl[q] = g.pl[q]
      /\ k.pl[p].state = g.pl[p].state /\ k.pl[p].team = g.pl[p].team
      /\ k.pl[p].has = g.pl[p].has
      /\ k.pl[p].ball_tmp \in {g.pl[p].ball_tmp, None}
    <2> DEFINE x == g.pl[p]
               y == [x EXCEPT !.ball_tmp = None, !.connector = FALSE]
    <2>0. x \in PlayerType
        BY DEF GameType
    <2>1. /\ y \in PlayerType /\ y.has = x.has /\ y.ball_tmp = None
          /\ y.state = x.state /\ y.team = x.team
        <3> HIDE DEF x
        <3> QED BY <2>0 DEF PlayerType
    <2>2. k.pl = IF b = None \/ b = g.pl[p].ball_tmp THEN [g.pl EXCEPT ![p] = y] ELSE g.pl
        BY DEF GameType
    <2> HIDE DEF k, y
    <2> QED BY <2>1, <2>2 DEF GameType
<1>3. h = IF ~g.pl[p].has THEN k
          ELSE [k EXCEPT !.ob = [s \in Struct |-> [k.ob[s] EXCEPT !.attached = @ /\ s \notin d]],
                         !.pl[p].has = CarriedBy(g, p) # d]
    BY DEF Ball_detach
<1> HIDE DEF k, h
<1>4. CASE ~g.pl[p].has
    <2>1. h = k
        BY <1>3, <1>4
    <2> QED BY <2>1, <1>1, <1>2, <1>4 DEF DetachesTo, h
<1>5. CASE g.pl[p].has
    <2> DEFINE n == [s \in Struct |-> [k.ob[s] EXCEPT !.attached = @ /\ s \notin d]]
               u == CarriedBy(g, p) # d
               x == k.pl[p]
               y == [x EXCEPT !.has = u]
    <2>1. h = [k EXCEPT !.ob = n, !.pl[p].has = u]
        BY <1>3, <1>5
    <2>2. n = [s \in Struct |-> [g.ob[s] EXCEPT !.attached = @ /\ s \notin d]]
        BY <1>1
    <2>3. x \in PlayerType /\ u \in BOOLEAN
        BY <1>2
    <2> HIDE DEF n, u
    <2>4. /\ y \in PlayerType /\ y.has = u
          /\ y.state = x.state /\ y.team = x.team /\ y.ball_tmp = x.ball_tmp
        <3> HIDE DEF x
        <3> QED BY <2>3 DEF PlayerType
    <2>5. h = [pl |-> [k.pl EXCEPT ![p] = y],
               order |-> g.order, free |-> g.free, ob |-> n, have |-> g.have]
        BY <2>1, <1>1
    <2> HIDE DEF y
    <2>6. /\ h.pl \in [Player -> PlayerType] /\ h.pl[p] = y
          /\ \A q \in Player \ {p} : h.pl[q] = g.pl[q]
          /\ h = [pl |-> h.pl, order |-> g.order, free |-> g.free, ob |-> h.ob, have |-> g.have]
          /\ h.ob = n
        BY <2>4, <2>5, <1>2
    <2>7. y.has <=> CarriedBy(g, p) # d
        BY <2>4 DEF u
    <2>8. /\ h.pl[p].state = g.pl[p].state /\ h.pl[p].team = g.pl[p].team
          /\ h.pl[p].ball_tmp \in {g.pl[p].ball_tmp, None}
          /\ h.pl[p].has <=> CarriedBy(g, p) # d
        BY <2>4, <2>6, <2>7, <1>2
    <2> QED BY <2>2, <2>6, <2>8, <1>5 DEF DetachesTo, h
<1> QED BY <1>4, <1>5 DEF h

LEMMA AttachedFields ==
    ASSUME NEW x \in ObjectType, NEW e \in BOOLEAN, NEW y, y = [x EXCEPT !.attached = e]
    PROVE  /\ y \in ObjectType /\ y.attached = e
           /\ y.type = x.type /\ y.owner = x.owner /\ y.treasure = x.treasure
           /\ y.expired = x.expired
BY DEF ObjectType

LEMMA ExpiredFields ==
    ASSUME NEW x \in ObjectType, NEW e \in BOOLEAN, NEW y, y = [x EXCEPT !.expired = e]
    PROVE  /\ y \in ObjectType /\ y.attached = x.attached
           /\ y.type = x.type /\ y.owner = x.owner /\ y.treasure = x.treasure
BY DEF ObjectType

\* Ball_detach drops what it should and nothing else.
LEMMA DetachDrops ==
    ASSUME NEW g, Sound(g), NEW p \in Player, NEW b \in Struct \cup {None}
    PROVE  LET h == Ball_detach(g, p, b) IN
           /\ Follows(g, h) /\ Dropped(g, h)
           /\ \A s \in Struct : h.ob[s].attached /\ h.ob[s].owner = p => b # None /\ s # b
           /\ \A s \in Struct : g.ob[s].owner # p \/ (b # None /\ s # b)
                                    => h.ob[s].attached = g.ob[s].attached
<1> DEFINE h == Ball_detach(g, p, b)
           d == IF b = None THEN CarriedBy(g, p) ELSE CarriedBy(g, p) \cap {b}
<1>1. /\ g \in GameType
      /\ \A q \in Player : g.pl[q] \in PlayerType
      /\ \A s \in Struct : g.ob[s] \in ObjectType /\ g.ob[s].attached \in BOOLEAN
    BY DEF Sound, GameType, PlayerType, ObjectType
<1>2. /\ \A s \in Struct : s \in d <=> /\ g.ob[s].attached /\ g.ob[s].owner = p
                                       /\ b = None \/ s = b
      /\ d \in SUBSET Struct /\ d \subseteq CarriedBy(g, p) /\ CarriedBy(g, p) \subseteq Struct
    BY SetsSay
<1>3. d = IF b = None THEN CarriedBy(g, p) ELSE CarriedBy(g, p) \cap {b}
    OBVIOUS
<1> HIDE DEF d
<1>4. CarriedBy(g, p) # d <=> \E s \in Struct : g.ob[s].attached /\ g.ob[s].owner = p /\ s \notin d
    <2>1. CarriedBy(g, p) # d <=> \E s \in CarriedBy(g, p) : s \notin d
        BY <1>2
    <2> QED BY <2>1, <1>2, SetsSay
<1>5. DetachesTo(g, p, d, h)
    BY <1>1, <1>2, <1>3, DetachFields
<1> HIDE DEF h
<1>6. ~g.pl[p].has => \A s \in Struct : ~(g.ob[s].attached /\ g.ob[s].owner = p)
    BY DEF Sound, CarryFits
<1>7. /\ h.order = g.order /\ h.free = g.free /\ h.have = g.have
      /\ \A q \in Player \ {p} : h.pl[q] = g.pl[q]
      /\ h.pl[p].state = g.pl[p].state /\ h.pl[p].team = g.pl[p].team
      /\ h.pl[p].ball_tmp \in {g.pl[p].ball_tmp, None}
      /\ h.pl[p].has <=> g.pl[p].has /\ CarriedBy(g, p) # d
      /\ h.pl \in [Player -> PlayerType]
    BY <1>5 DEF DetachesTo
<1>8. /\ h.ob \in [Struct -> ObjectType]
      /\ \A s \in Struct : /\ h.ob[s].type = g.ob[s].type
                           /\ h.ob[s].owner = g.ob[s].owner
                           /\ h.ob[s].treasure = g.ob[s].treasure
                           /\ h.ob[s].expired = g.ob[s].expired
                           /\ h.ob[s].attached <=> g.ob[s].attached /\ s \notin d
                           /\ s \notin d => h.ob[s].attached = g.ob[s].attached
    <2>1. g.ob \in [Struct -> ObjectType]
        BY <1>1 DEF GameType
    <2>2. CASE g.pl[p].has
        <3> DEFINE e == [s \in Struct |-> g.ob[s].attached /\ s \notin d]
        <3>1. h.ob = [s \in Struct |-> [g.ob[s] EXCEPT !.attached = e[s]]]
            BY <2>2, <1>5 DEF DetachesTo
        <3>2. \A s \in Struct : /\ e[s] \in BOOLEAN
                                /\ e[s] <=> g.ob[s].attached /\ s \notin d
                                /\ s \notin d => e[s] = g.ob[s].attached
            BY <1>1
        <3> HIDE DEF e
        <3>3. ASSUME NEW s \in Struct
              PROVE  /\ h.ob[s] \in ObjectType
                     /\ h.ob[s].type = g.ob[s].type
                     /\ h.ob[s].owner = g.ob[s].owner
                     /\ h.ob[s].treasure = g.ob[s].treasure
                     /\ h.ob[s].expired = g.ob[s].expired
                     /\ h.ob[s].attached = e[s]
            <4> DEFINE x == g.ob[s]
                       y == h.ob[s]
                       b1 == e[s]
            <4>1. x \in ObjectType /\ b1 \in BOOLEAN
                BY <1>1, <3>2, Zenon
            <4>2. y = [x EXCEPT !.attached = b1]
                BY <3>1
            <4> HIDE DEF x, y, b1
            <4>3. /\ y \in ObjectType /\ y.attached = b1
                  /\ y.type = x.type /\ y.owner = x.owner /\ y.treasure = x.treasure
                  /\ y.expired = x.expired
                BY ONLY <4>1, <4>2, AttachedFields, Zenon
            <4> QED BY <4>3, Zenon DEF x, y, b1
        <3>4. h.ob \in [Struct -> ObjectType]
            BY <3>1, <3>3
        <3>5. \A s \in Struct : h.ob[s].attached <=> g.ob[s].attached /\ s \notin d
            BY <3>2, <3>3
        <3>6. \A s \in Struct : s \notin d => h.ob[s].attached = g.ob[s].attached
            BY <3>2, <3>3
        <3> QED BY <3>3, <3>4, <3>5, <3>6
    <2>3. CASE ~g.pl[p].has
        <3>1. h.ob = g.ob
            BY <2>3, <1>5 DEF DetachesTo
        <3>2. \A s \in Struct : s \notin d
            BY <1>2, <1>6, <2>3
        <3>3. \A s \in Struct : h.ob[s].attached <=> g.ob[s].attached /\ s \notin d
            BY <3>1, <3>2
        <3> QED BY <2>1, <3>1, <3>3
    <2> QED BY <2>2, <2>3, <1>1
<1>9. h \in GameType
    BY <1>1, <1>5, <1>7, <1>8 DEF GameType, DetachesTo
<1>10. \A q \in Player : h.pl[q].state = g.pl[q].state /\ h.pl[q].team = g.pl[q].team
    BY <1>7
<1>11. FreeFits(h) /\ BoxFits(h)
    BY <1>7, <1>8 DEF Sound, FreeFits, BoxFits
<1>12. CarryFits(h)
    <2>1. \A s \in Struct : h.ob[s].attached =>
             /\ h.ob[s].type = "ball" /\ h.ob[s].owner \in Player
             /\ h.pl[h.ob[s].owner].state \in {"alive", "killed"}
        BY <1>8, <1>10 DEF Sound, CarryFits
    <2>2. h.pl[p].has <=> \E s \in Struct : h.ob[s].attached /\ h.ob[s].owner = p
        <3>1. (\E s \in Struct : h.ob[s].attached /\ h.ob[s].owner = p) <=> CarriedBy(g, p) # d
            BY <1>4, <1>8
        <3>2. CarriedBy(g, p) # d => g.pl[p].has
            BY <1>4, <1>6
        <3> QED BY <3>1, <3>2, <1>7
    <2>3. ASSUME NEW q \in Player, q # p
          PROVE  h.pl[q].has <=> \E s \in Struct : h.ob[s].attached /\ h.ob[s].owner = q
        BY <2>3, <1>2, <1>7, <1>8 DEF Sound, CarryFits
    <2> QED BY <2>1, <2>2, <2>3 DEF CarryFits
<1>13. PointersFit(h)
    <2>1. \A q \in Player : g.pl[q].ball_tmp \in Struct \cup {None}
        BY <1>1 DEF PlayerType
    <2>2. \A q \in Player : h.pl[q].ball_tmp \in {g.pl[q].ball_tmp, None}
        BY <1>7
    <2> QED BY <2>1, <2>2, <1>8 DEF Sound, PointersFit
<1>14. OwnersFit(h)
    <2>1. \A s \in Struct : g.ob[s].owner \in Player \cup {None}
        BY <1>1 DEF ObjectType
    <2> QED BY <1>8, <1>10, <2>1 DEF Sound, OwnersFit
<1>15. TableFits(h)
    <2>1. \A i \in DOMAIN g.order : g.order[i] \in Player
        BY <1>1 DEF GameType
    <2> QED BY <1>7, <1>10, <2>1 DEF Sound, TableFits
<1>16. Dropped(g, h) /\ Held(g, h) /\ Stay(g, h)
    BY <1>7, <1>8, <1>10 DEF Dropped, Held, Stay
<1>17. Follows(g, h)
    BY <1>9, <1>11, <1>12, <1>13, <1>14, <1>15, <1>16 DEF Follows, Sound
<1>18. \A s \in Struct : h.ob[s].attached /\ h.ob[s].owner = p => b # None /\ s # b
    BY <1>2, <1>8
<1>19. \A s \in Struct : g.ob[s].owner # p \/ (b # None /\ s # b)
                             => h.ob[s].attached = g.ob[s].attached
    BY <1>2, <1>8
<1> QED BY <1>16, <1>17, <1>18, <1>19 DEF h

\* Nothing but what players do has changed: who carries a ball goes on playing.
Acted(g, h) ==
    /\ h.free = g.free /\ h.have = g.have /\ h.ob = g.ob
    /\ \A q \in Player :
           /\ h.pl[q].has = g.pl[q].has
           /\ \/ h.pl[q].ball_tmp \in {None, g.pl[q].ball_tmp}
              \/ g.ob[h.pl[q].ball_tmp].type = "ball"
           /\ g.pl[q].state # "out" => h.pl[q].state # "out"
           /\ \/ h.pl[q].state \in {g.pl[q].state, "alive", "killed"}
              \/ \A s \in Struct : ~(g.ob[s].attached /\ g.ob[s].owner = q)

LEMMA ActedFollows ==
    ASSUME NEW g, Sound(g), NEW h \in GameType, Acted(g, h), TableFits(h)
    PROVE  Follows(g, h)
<1>1. g \in GameType
    BY DEF Sound
<1>2. h.free = g.free /\ h.have = g.have /\ h.ob = g.ob
    BY DEF Acted
<1>3. FreeFits(h) /\ BoxFits(h) /\ Held(g, h) /\ Stay(g, h)
    BY <1>2 DEF Sound, FreeFits, BoxFits, Held, Stay, Acted
<1>4. CarryFits(h)
    <2>1. \A s \in Struct : h.ob[s].attached =>
             /\ h.ob[s].type = "ball" /\ h.ob[s].owner \in Player
             /\ h.pl[h.ob[s].owner].state \in {"alive", "killed"}
        BY <1>2 DEF Sound, CarryFits, Acted
    <2> QED BY <2>1, <1>2 DEF Sound, CarryFits, Acted
<1>5. PointersFit(h)
    BY <1>2 DEF Sound, PointersFit, Acted
<1>6. OwnersFit(h)
    BY <1>1, <1>2 DEF Sound, OwnersFit, Acted, GameType, ObjectType
<1> QED BY <1>3, <1>4, <1>5, <1>6 DEF Follows, Sound

\* Objects expire.
LEMMA ExpireFollows ==
    ASSUME NEW g, Sound(g), NEW S
    PROVE  LET h == Object_expire(g, S) IN
           /\ Follows(g, h)
           /\ h.order = g.order /\ h.pl = g.pl /\ h.have = g.have /\ h.free = g.free
           /\ \A s \in Struct : /\ h.ob[s].type = g.ob[s].type
                                /\ h.ob[s].owner = g.ob[s].owner
                                /\ h.ob[s].treasure = g.ob[s].treasure
                                /\ h.ob[s].attached = g.ob[s].attached
<1> DEFINE h == Object_expire(g, S)
           e == [s \in Struct |-> g.ob[s].expired \/ s \in S]
<1>1. /\ g \in GameType /\ g.pl \in [Player -> PlayerType]
      /\ \A s \in Struct : g.ob[s] \in ObjectType
    BY DEF Sound, GameType
<1>2. /\ h.pl = g.pl /\ h.order = g.order /\ h.free = g.free /\ h.have = g.have
      /\ h = [pl |-> h.pl, order |-> h.order, free |-> h.free, ob |-> h.ob, have |-> h.have]
      /\ h.ob = [s \in Struct |-> [g.ob[s] EXCEPT !.expired = e[s]]]
    BY <1>1 DEF Object_expire, GameType
<1>3. \A s \in Struct : e[s] \in BOOLEAN
    BY <1>1 DEF ObjectType
<1> HIDE DEF h, e
<1>4. ASSUME NEW s \in Struct
      PROVE  /\ h.ob[s] \in ObjectType
             /\ h.ob[s].type = g.ob[s].type
             /\ h.ob[s].owner = g.ob[s].owner
             /\ h.ob[s].treasure = g.ob[s].treasure
             /\ h.ob[s].attached = g.ob[s].attached
    <2> DEFINE x == g.ob[s]
               y == h.ob[s]
               b == e[s]
    <2>1. x \in ObjectType /\ b \in BOOLEAN
        BY <1>1, <1>3, Zenon
    <2>2. y = [x EXCEPT !.expired = b]
        BY <1>2
    <2> HIDE DEF x, y, b
    <2>3. /\ y \in ObjectType /\ y.attached = x.attached
          /\ y.type = x.type /\ y.owner = x.owner /\ y.treasure = x.treasure
        BY ONLY <2>1, <2>2, ExpiredFields, Zenon
    <2> QED BY <2>3, Zenon DEF x, y
<1>5. h.ob \in [Struct -> ObjectType] /\ h \in GameType
    BY <1>1, <1>2, <1>4 DEF GameType
<1>6. FreeFits(h) /\ BoxFits(h)
    BY <1>2, <1>4 DEF Sound, FreeFits, BoxFits
<1>7. CarryFits(h)
    <2>1. \A s \in Struct : h.ob[s].attached =>
             /\ h.ob[s].type = "ball" /\ h.ob[s].owner \in Player
             /\ h.pl[h.ob[s].owner].state \in {"alive", "killed"}
        BY <1>2, <1>4 DEF Sound, CarryFits
    <2>2. \A p \in Player : (\E s \in Struct : h.ob[s].attached /\ h.ob[s].owner = p)
                             <=> (\E s \in Struct : g.ob[s].attached /\ g.ob[s].owner = p)
        BY <1>4
    <2> QED BY <2>1, <2>2, <1>2 DEF Sound, CarryFits
<1>8. PointersFit(h)
    BY <1>1, <1>2, <1>4 DEF Sound, PointersFit, PlayerType
<1>9. OwnersFit(h)
    BY <1>2, <1>4 DEF Sound, OwnersFit
<1>10. TableFits(h) /\ Held(g, h) /\ Stay(g, h)
    BY <1>2, <1>4 DEF Sound, TableFits, Held, Stay
<1> QED BY <1>2, <1>4, <1>5, <1>6, <1>7, <1>8, <1>9, <1>10 DEF Follows, Sound, h

\* Who carries nothing may stop playing.
LEMMA IdleFollows ==
    ASSUME NEW g, Sound(g), NEW p \in Player, NEW state \in {"idle", "paused", "alive", "killed"},
           NEW team \in Team \cup {None},
           \A s \in Struct : ~(g.ob[s].attached /\ g.ob[s].owner = p)
    PROVE  /\ Follows(g, [g EXCEPT !.pl[p].state = state])
           /\ Follows(g, [g EXCEPT !.pl[p] = [@ EXCEPT !.team = team, !.state = state]])
<1>1. g \in GameType /\ g.pl[p] \in PlayerType /\ g.pl \in [Player -> PlayerType]
      /\ \A i \in DOMAIN g.order : g.order[i] \in Player
    BY DEF Sound, GameType
<1>2. ASSUME NEW y \in PlayerType, y.has = g.pl[p].has, y.ball_tmp = g.pl[p].ball_tmp,
             y.state \in {"idle", "paused", "alive", "killed"}
      PROVE  Follows(g, [g EXCEPT !.pl[p] = y])
    <2> DEFINE h == [g EXCEPT !.pl[p] = y]
    <2>1. /\ h.order = g.order /\ h.free = g.free /\ h.ob = g.ob /\ h.have = g.have
          /\ h.pl \in [Player -> PlayerType] /\ h \in GameType
          /\ h.pl[p] = y /\ \A q \in Player \ {p} : h.pl[q] = g.pl[q]
        BY <1>1 DEF GameType
    <2> HIDE DEF h
    <2>2. Acted(g, h)
        BY <1>2, <2>1 DEF Acted
    <2>3. TableFits(h)
        BY <1>1, <1>2, <2>1 DEF Sound, TableFits
    <2> QED BY <2>1, <2>2, <2>3, ActedFollows DEF h
<1> DEFINE x == g.pl[p]
           y == [x EXCEPT !.state = state]
           z == [x EXCEPT !.team = team, !.state = state]
<1>3. x \in PlayerType
    BY <1>1
<1>4. /\ y \in PlayerType /\ y.has = x.has /\ y.ball_tmp = x.ball_tmp
      /\ y.state = state
      /\ z \in PlayerType /\ z.has = x.has /\ z.ball_tmp = x.ball_tmp
      /\ z.state = state
    <2> HIDE DEF x
    <2> QED BY <1>3 DEF PlayerType
<1>5. /\ [g EXCEPT !.pl[p].state = state] = [g EXCEPT !.pl[p] = y]
      /\ [g EXCEPT !.pl[p] = [@ EXCEPT !.team = team, !.state = state]] = [g EXCEPT !.pl[p] = z]
    OBVIOUS
<1> HIDE DEF y, z
<1>6. Follows(g, [g EXCEPT !.pl[p] = y]) /\ Follows(g, [g EXCEPT !.pl[p] = z])
    BY <1>2, <1>4 DEF x
<1> QED BY <1>5, <1>6

LEMMA WipedObject ==
    Wiped \in ObjectType /\ ~Wiped.attached /\ Wiped.type = "none" /\ Wiped.owner = None
BY DEF Wiped, ObjectType

\* A shot is fired or a particle flies, if there is room.
LEMMA AddFollows ==
    ASSUME NEW g, Sound(g), NEW type \in {"shot", "debris"},
           NEW p \in Player, g.pl[p].state # "out"
    PROVE  LET h == Object_add(g, Object_of(type, p)) IN
           Follows(g, h) /\ h.pl = g.pl /\ h.order = g.order
<1> DEFINE x == Object_of(type, p)
           h == Object_add(g, x)
<1>1. /\ g \in GameType /\ g.free \in Seq(Struct) /\ IsInjective(g.free)
      /\ g.ob \in [Struct -> ObjectType]
    BY DEF Sound, FreeFits, GameType
<1>2. x \in ObjectType /\ ~x.attached /\ x.type = type /\ x.owner = p
    BY DEF Object_of, Wiped, ObjectType
<1> HIDE DEF x
<1>3. CASE g.free = <<>>
    BY <1>3, FollowsItself DEF Object_add, h
<1>4. CASE g.free # <<>>
    <2> DEFINE s == Head(g.free)
    <2>1. /\ s \in Struct /\ s \in Range(g.free)
          /\ Tail(g.free) \in Seq(Struct) /\ IsInjective(Tail(g.free))
          /\ \A r \in Struct : r \in Range(Tail(g.free)) <=> r \in Range(g.free) /\ r # s
        BY <1>1, <1>4, Popped
    <2>2. /\ h.pl = g.pl /\ h.order = g.order /\ h.have = g.have /\ h.free = Tail(g.free)
          /\ h = [pl |-> h.pl, order |-> h.order, free |-> h.free, ob |-> h.ob, have |-> h.have]
          /\ h.ob = [g.ob EXCEPT ![s] = x]
        BY <1>1, <1>4 DEF Object_add, GameType
    <2> HIDE DEF s
    <2> HIDE DEF h
    <2>3. /\ h.ob \in [Struct -> ObjectType] /\ h.ob[s] = x
          /\ \A r \in Struct : r # s => h.ob[r] = g.ob[r]
        BY <1>1, <1>2, <2>1, <2>2
    <2>4. h \in GameType
        BY <1>1, <2>1, <2>2, <2>3 DEF GameType
    <2>5. g.ob[s].type = "none" /\ ~g.ob[s].attached
        BY <2>1 DEF Sound, FreeFits, CarryFits
    <2>6. FreeFits(h)
        BY <1>2, <2>1, <2>2, <2>3 DEF Sound, FreeFits
    <2>7. \A r \in Struct : h.ob[r].type = "ball" \/ g.ob[r].type = "ball" => h.ob[r] = g.ob[r]
        BY <1>2, <2>3, <2>5
    <2>8. BoxFits(h)
        BY <2>2, <2>7 DEF Sound, BoxFits
    <2>9. \A r \in Struct : h.ob[r].attached \/ g.ob[r].attached => h.ob[r] = g.ob[r]
        BY <1>2, <2>3, <2>5
    <2>10. CarryFits(h)
        BY <2>2, <2>9 DEF Sound, CarryFits
    <2>11. PointersFit(h)
        <3>1. \A q \in Player : g.pl[q].ball_tmp \in Struct \cup {None}
            BY <1>1 DEF GameType, PlayerType
        <3> QED BY <2>2, <2>7, <3>1 DEF Sound, PointersFit
    <2>12. OwnersFit(h) /\ TableFits(h)
        BY <1>2, <2>2, <2>3 DEF Sound, OwnersFit, TableFits
    <2>13. Held(g, h) /\ Stay(g, h)
        BY <2>2, <2>9 DEF Held, Stay
    <2> QED BY <2>2, <2>4, <2>6, <2>8, <2>10, <2>11, <2>12, <2>13 DEF Follows, Sound, h, x
<1> QED BY <1>3, <1>4 DEF x, h

\* A ball that nobody is about to take, or that is dropped by who carries it.
LEMMA ForgottenFollows ==
    ASSUME NEW g, Sound(g), NEW s \in Struct
    PROVE  LET h == Forgotten(g, s) IN
           Follows(g, h) /\ Dropped(g, h) /\ ~h.ob[s].attached
<1> DEFINE h == Forgotten(g, s)
<1>1. /\ g \in GameType /\ g.pl \in [Player -> PlayerType]
    BY DEF Sound, GameType
<1>2. CASE g.ob[s].attached
    <2> DEFINE p == g.ob[s].owner
    <2>1. p \in Player /\ h = Ball_detach(g, p, s) /\ s # None
        BY <1>2, BallsAssumption DEF Sound, CarryFits, Forgotten, Struct
    <2>2. /\ Follows(g, h) /\ Dropped(g, h)
          /\ h.ob[s].attached /\ h.ob[s].owner = p => s # None /\ s # s
        BY <2>1, DetachDrops
    <2> QED BY <2>2 DEF Dropped
<1>3. CASE ~g.ob[s].attached
    <2> DEFINE f(p) == IF g.pl[p].ball_tmp = s THEN [g.pl[p] EXCEPT !.ball_tmp = None] ELSE g.pl[p]
    <2>1. /\ h.order = g.order /\ h.free = g.free /\ h.have = g.have /\ h.ob = g.ob
          /\ h = [pl |-> h.pl, order |-> h.order, free |-> h.free, ob |-> h.ob, have |-> h.have]
          /\ h.pl = [p \in Player |-> f(p)]
        BY <1>1, <1>3 DEF Forgotten, GameType
    <2>2. ASSUME NEW p \in Player
          PROVE  /\ f(p) \in PlayerType /\ f(p).has = g.pl[p].has
                 /\ f(p).state = g.pl[p].state /\ f(p).team = g.pl[p].team
                 /\ f(p).ball_tmp \in {None, g.pl[p].ball_tmp}
        <3> DEFINE x == g.pl[p]
        <3>1. x \in PlayerType
            BY <1>1
        <3>2. f(p) = IF x.ball_tmp = s THEN [x EXCEPT !.ball_tmp = None] ELSE x
            OBVIOUS
        <3> HIDE DEF x, f
        <3> QED BY <3>1, <3>2 DEF PlayerType, x
    <2> HIDE DEF f, h
    <2>3. h \in GameType
        BY <1>1, <2>1, <2>2 DEF GameType
    <2>4. Acted(g, h)
        BY <2>1, <2>2 DEF Acted
    <2>5. TableFits(h)
        <3>1. \A i \in DOMAIN g.order : g.order[i] \in Player
            BY <1>1 DEF GameType
        <3> QED BY <2>1, <2>2, <3>1 DEF Sound, TableFits
    <2>6. Follows(g, h)
        BY <2>3, <2>4, <2>5, ActedFollows
    <2>7. Dropped(g, h) /\ ~h.ob[s].attached
        BY <1>3, <2>1, <2>2 DEF Dropped
    <2> QED BY <2>6, <2>7 DEF h
<1> QED BY <1>2, <1>3

\* A ball of Objects_remove_timed_out is created again at once.
LEMMA BallTurn ==
    ASSUME NEW g, Sound(g), NEW s \in Struct, g.ob[s].type = "ball"
    PROVE  LET k == RemoveTurn(g, s) IN
           /\ Follows(g, k)
           /\ \A r \in Struct : k.ob[r].type = g.ob[r].type
<1> DEFINE h == Forgotten(g, s)
           t == g.ob[s].treasure
           x == [Object_of("ball", None) EXCEPT !.treasure = t]
           k == RemoveTurn(g, s)
<1>1. /\ g \in GameType /\ t \in Treasure
    BY DEF Sound, BoxFits
<1>2. /\ Follows(g, h) /\ Dropped(g, h) /\ ~h.ob[s].attached
    BY ForgottenFollows
<1>3. /\ x \in ObjectType /\ ~x.attached /\ x.type = "ball" /\ x.owner = None /\ x.treasure = t
    BY <1>1 DEF Object_of, Wiped, ObjectType
<1> HIDE DEF h, x
<1>4. /\ h \in GameType /\ h.free \in Seq(Struct) /\ IsInjective(h.free) /\ s \notin Range(h.free)
    BY <1>2 DEF Follows, Sound, FreeFits, GameType, Dropped
<1>5. /\ <<s>> \o h.free \in Seq(Struct) /\ <<s>> \o h.free # <<>>
      /\ Head(<<s>> \o h.free) = s /\ Tail(<<s>> \o h.free) = h.free
    BY <1>4, Pushed
<1>6. /\ k.pl = h.pl /\ k.order = h.order /\ k.free = h.free
      /\ k.ob = [h.ob EXCEPT ![s] = x] /\ k.have = [h.have EXCEPT ![t] = TRUE]
      /\ k = [pl |-> k.pl, order |-> k.order, free |-> k.free, ob |-> k.ob, have |-> k.have]
    <2> DEFINE v == Object_remove(g, s)
    <2>1. v = [[h EXCEPT !.have[t] = FALSE] EXCEPT !.free = <<s>> \o @, !.ob[s] = Wiped]
        BY DEF Object_remove, Vacated, h
    <2>2. /\ v.pl = h.pl /\ v.order = h.order /\ v.free = <<s>> \o h.free
          /\ v.ob = [h.ob EXCEPT ![s] = Wiped] /\ v.have = [h.have EXCEPT ![t] = FALSE]
          /\ v = [pl |-> v.pl, order |-> v.order, free |-> v.free, ob |-> v.ob, have |-> v.have]
        BY <1>4, <2>1 DEF GameType
    <2>3. k = Ball_treasure_add(v, t)
        BY DEF RemoveTurn
    <2> HIDE DEF v, k
    <2>4. k = [Object_add(v, x) EXCEPT !.have[t] = TRUE]
        BY <2>2, <2>3, <1>5 DEF Ball_treasure_add, x
    <2>5. Object_add(v, x) = [v EXCEPT !.free = h.free, !.ob[s] = x]
        BY <2>2, <1>5 DEF Object_add
    <2>6. /\ k.pl = h.pl /\ k.order = h.order /\ k.free = h.free
          /\ k.ob = [v.ob EXCEPT ![s] = x] /\ k.have = [v.have EXCEPT ![t] = TRUE]
          /\ k = [pl |-> k.pl, order |-> k.order, free |-> k.free, ob |-> k.ob, have |-> k.have]
        BY <2>2, <2>4, <2>5
    <2>7. h.ob \in [Struct -> ObjectType] /\ h.have \in [Treasure -> BOOLEAN]
        BY <1>4 DEF GameType
    <2>8. v.ob = [h.ob EXCEPT ![s] = Wiped] /\ v.have = [h.have EXCEPT ![t] = FALSE]
        BY <2>2
    <2>9. [v.ob EXCEPT ![s] = x] = [h.ob EXCEPT ![s] = x]
        BY ONLY <2>7, <2>8, s \in Struct
    <2>10. [v.have EXCEPT ![t] = TRUE] = [h.have EXCEPT ![t] = TRUE]
        BY ONLY <2>7, <2>8, <1>1
    <2> QED BY <2>6, <2>9, <2>10
<1> HIDE DEF k
<1>7. /\ k.ob \in [Struct -> ObjectType] /\ k.ob[s] = x
      /\ \A r \in Struct : r # s => k.ob[r] = h.ob[r]
      /\ k.have \in [Treasure -> BOOLEAN]
      /\ \A u \in Treasure : u # t => k.have[u] = h.have[u]
    BY <1>1, <1>3, <1>4, <1>6 DEF GameType
<1>8. h.ob[s].type = "ball" /\ h.ob[s].treasure = t
    BY <1>2 DEF Dropped
<1>9. \A r \in Struct : k.ob[r].type = h.ob[r].type /\ h.ob[r].type = g.ob[r].type
    BY <1>2, <1>3, <1>7, <1>8 DEF Dropped
<1>10. k \in GameType
    BY <1>4, <1>6, <1>7 DEF GameType
<1>11. Sound(h)
    BY <1>2 DEF Follows
<1>12. FreeFits(k)
    BY <1>6, <1>9, <1>11 DEF Sound, FreeFits
<1>13. BoxFits(k)
    <2>1. \A r \in Struct : k.ob[r].type = "ball" => k.ob[r].treasure = h.ob[r].treasure
        BY <1>3, <1>7, <1>8
    <2>2. \A u \in Treasure : \E r \in Struct : k.ob[r].type = "ball" /\ k.ob[r].treasure = u
        BY <1>9, <1>11, <2>1 DEF Sound, BoxFits
    <2>3. \A r, q \in Struct : /\ k.ob[r].type = "ball" /\ k.ob[q].type = "ball"
                               /\ k.ob[r].treasure = k.ob[q].treasure
                               => r = q
        BY <1>9, <1>11, <2>1 DEF Sound, BoxFits
    <2>4. ASSUME NEW r \in Struct, k.ob[r].type = "ball"
          PROVE  /\ k.ob[r].treasure \in Treasure
                 /\ k.have[k.ob[r].treasure] => ~k.ob[r].attached /\ k.ob[r].owner = None
        <3>1. CASE r = s
            BY <3>1, <1>1, <1>3, <1>7
        <3>2. CASE r # s
            <4>1. h.ob[r].type = "ball" /\ h.ob[r].treasure # t /\ k.ob[r] = h.ob[r]
                BY <2>4, <3>2, <1>7, <1>8, <1>9, <1>11 DEF Sound, BoxFits
            <4> QED BY <4>1, <1>7, <1>11 DEF Sound, BoxFits
        <3> QED BY <3>1, <3>2
    <2> QED BY <2>2, <2>3, <2>4 DEF BoxFits
<1>14. \A r \in Struct : k.ob[r].attached \/ h.ob[r].attached => k.ob[r] = h.ob[r]
    BY <1>2, <1>3, <1>7
<1>15. CarryFits(k)
    BY <1>6, <1>11, <1>14 DEF Sound, CarryFits
<1>16. PointersFit(k)
    <2>1. \A q \in Player : h.pl[q].ball_tmp \in Struct \cup {None}
        BY <1>4 DEF GameType, PlayerType
    <2> QED BY <1>6, <1>9, <1>11, <2>1 DEF Sound, PointersFit
<1>17. OwnersFit(k) /\ TableFits(k)
    BY <1>3, <1>6, <1>7, <1>11 DEF Sound, OwnersFit, TableFits
<1>18. Held(h, k) /\ Stay(h, k)
    BY <1>6, <1>14 DEF Held, Stay
<1>19. Follows(h, k)
    BY <1>10, <1>12, <1>13, <1>15, <1>16, <1>17, <1>18 DEF Follows, Sound
<1>20. Follows(g, k)
    BY <1>1, <1>2, <1>19, FollowsOn
<1> QED BY <1>9, <1>20 DEF k

\* A shot or a particle is gone.
LEMMA OtherTurn ==
    ASSUME NEW g, Sound(g), NEW s \in Struct, g.ob[s].type \in {"shot", "debris"}
    PROVE  LET k == RemoveTurn(g, s) IN
           /\ Follows(g, k)
           /\ \A r \in Struct : r # s => k.ob[r].type = g.ob[r].type
<1> DEFINE x == g.ob[s]
           h == IF x.type = "shot" /\ x.owner # None
                THEN [g EXCEPT !.pl[x.owner].shots = IF @ > 1 THEN @ - 1 ELSE 0]
                ELSE g
           k == RemoveTurn(g, s)
<1>1. /\ g \in GameType /\ g.free \in Seq(Struct) /\ IsInjective(g.free)
      /\ s \notin Range(g.free) /\ g.ob \in [Struct -> ObjectType]
      /\ x.owner \in Player \cup {None} /\ g.pl \in [Player -> PlayerType]
    BY DEF Sound, FreeFits, GameType, ObjectType
<1>2. k = Vacated(h, s)
    BY DEF RemoveTurn, Object_remove
<1>3. /\ h.ob = g.ob /\ h.free = g.free /\ h.have = g.have /\ h.order = g.order
      /\ h = [pl |-> h.pl, order |-> h.order, free |-> h.free, ob |-> h.ob, have |-> h.have]
    BY <1>1 DEF GameType
<1>4. ASSUME NEW q \in Player
      PROVE  /\ h.pl[q] \in PlayerType /\ h.pl[q].has = g.pl[q].has
             /\ h.pl[q].state = g.pl[q].state /\ h.pl[q].ball_tmp = g.pl[q].ball_tmp
    <2> DEFINE n == IF g.pl[q].shots > 1 THEN g.pl[q].shots - 1 ELSE 0
               y == g.pl[q]
    <2>1. n \in Nat /\ y \in PlayerType
        BY <1>1 DEF PlayerType
    <2>2. h.pl[q] \in {y, [y EXCEPT !.shots = n]}
        BY <1>1 DEF GameType
    <2> HIDE DEF n, y, h
    <2>3. /\ h.pl[q] \in PlayerType /\ h.pl[q].has = y.has
          /\ h.pl[q].state = y.state /\ h.pl[q].ball_tmp = y.ball_tmp
        BY <2>1, <2>2 DEF PlayerType
    <2> QED BY <2>3 DEF y
<1>5. h.pl = [q \in Player |-> h.pl[q]]
    BY <1>1 DEF GameType
<1> HIDE DEF h, k
<1>6. h \in GameType
    BY <1>1, <1>3, <1>4, <1>5 DEF GameType
<1>7. /\ k.pl = h.pl /\ k.order = g.order /\ k.have = g.have
      /\ k.free = <<s>> \o g.free /\ k.ob = [g.ob EXCEPT ![s] = Wiped]
      /\ k = [pl |-> k.pl, order |-> k.order, free |-> k.free, ob |-> k.ob, have |-> k.have]
    BY <1>2, <1>3 DEF Vacated
<1>8. /\ k.free \in Seq(Struct) /\ IsInjective(k.free)
      /\ \A r \in Struct : r \in Range(k.free) <=> r \in Range(g.free) \/ r = s
    BY <1>1, <1>7, Pushed
<1>9. /\ k.ob \in [Struct -> ObjectType] /\ k.ob[s] = Wiped
      /\ \A r \in Struct : r # s => k.ob[r] = g.ob[r]
    BY <1>1, <1>7, WipedObject
<1>10. k \in GameType
    BY <1>1, <1>6, <1>7, <1>8, <1>9 DEF GameType
<1>11. FreeFits(k)
    BY <1>8, <1>9, WipedObject DEF Sound, FreeFits
<1>12. \A r \in Struct : k.ob[r].type = "ball" \/ g.ob[r].type = "ball" => k.ob[r] = g.ob[r]
    BY <1>9, WipedObject
<1>13. BoxFits(k)
    <2>1. \A t \in Treasure : \E r \in Struct : k.ob[r].type = "ball" /\ k.ob[r].treasure = t
        BY <1>12 DEF Sound, BoxFits
    <2>2. \A r, q \in Struct : /\ k.ob[r].type = "ball" /\ k.ob[q].type = "ball"
                               /\ k.ob[r].treasure = k.ob[q].treasure
                               => r = q
        BY <1>12 DEF Sound, BoxFits
    <2>3. \A r \in Struct : k.ob[r].type = "ball" =>
             /\ k.ob[r].treasure \in Treasure
             /\ k.have[k.ob[r].treasure] => ~k.ob[r].attached /\ k.ob[r].owner = None
        BY <1>7, <1>12 DEF Sound, BoxFits
    <2> QED BY <2>1, <2>2, <2>3 DEF BoxFits
<1>14. \A r \in Struct : k.ob[r].attached \/ g.ob[r].attached => k.ob[r] = g.ob[r]
    BY <1>9, WipedObject DEF Sound, CarryFits
<1>15. CarryFits(k)
    <2>1. \A r \in Struct : k.ob[r].attached =>
             /\ k.ob[r].type = "ball" /\ k.ob[r].owner \in Player
             /\ k.pl[k.ob[r].owner].state \in {"alive", "killed"}
        BY <1>4, <1>7, <1>14 DEF Sound, CarryFits
    <2>2. \A p \in Player : (\E r \in Struct : k.ob[r].attached /\ k.ob[r].owner = p)
                             <=> (\E r \in Struct : g.ob[r].attached /\ g.ob[r].owner = p)
        BY <1>14
    <2>3. \A p \in Player : g.pl[p].has
                             <=> (\E r \in Struct : g.ob[r].attached /\ g.ob[r].owner = p)
        BY DEF Sound, CarryFits
    <2>4. \A p \in Player : k.pl[p].has = g.pl[p].has
        BY <1>4, <1>7
    <2>5. ASSUME NEW p \in Player
          PROVE  k.pl[p].has
                     <=> (\E r \in Struct : k.ob[r].attached /\ k.ob[r].owner = p)
        BY <2>2, <2>3, <2>4, Zenon
    <2> QED BY ONLY <2>1, <2>5 DEF CarryFits
<1>16. PointersFit(k)
    <2>1. \A q \in Player : g.pl[q].ball_tmp \in Struct \cup {None}
        BY <1>1 DEF PlayerType
    <2> QED BY <1>4, <1>7, <1>12, <2>1 DEF Sound, PointersFit
<1>17. OwnersFit(k)
    <2>1. \A r \in Struct : g.ob[r].owner \in Player \cup {None}
        BY <1>1 DEF ObjectType
    <2> QED BY <1>4, <1>7, <1>9, <2>1, WipedObject DEF Sound, OwnersFit
<1>18. TableFits(k)
    <2>1. \A i \in DOMAIN g.order : g.order[i] \in Player
        BY <1>1 DEF GameType
    <2> QED BY <1>4, <1>7, <2>1 DEF Sound, TableFits
<1>19. Held(g, k) /\ Stay(g, k)
    BY <1>4, <1>7, <1>14 DEF Held, Stay
<1> QED BY <1>9, <1>10, <1>11, <1>13, <1>15, <1>16, <1>17, <1>18, <1>19 DEF Follows, Sound, k

-----------------------------------------------------------------------------
(* Loops.                                                                  *)

\* What may have become of g.
After(g) == {h \in GameType : Follows(g, h)}

LEMMA AfterFollows ==
    ASSUME NEW g
    PROVE  \A h : h \in After(g) <=> Follows(g, h)
BY DEF After, Follows, Sound

ParticleTurn(p, i, h) == Object_add(h, Object_of("debris", p))
Particles == INSTANCE FoldTheorems WITH Turn <- ParticleTurn

LEMMA ExplodeFollows ==
    ASSUME NEW g, Sound(g), NEW p \in Player, g.pl[p].state # "out", NEW n \in Nat
    PROVE  LET h == Player_explode(g, p, n) IN
           Follows(g, h) /\ h.pl = g.pl /\ h.order = g.order
<1> DEFINE B == {h \in After(g) : h.pl = g.pl /\ h.order = g.order}
           seq == [i \in 1 .. n |-> i]
           end == Particles!OverSeq(p, g, seq)
<1>1. g \in GameType /\ g \in B
    BY FollowsItself, AfterFollows DEF Sound
<1>2. Player_explode(g, p, n) = end
    BY DEF Player_explode, FoldLeft, MapThenFoldSet, Particles!OverSeq, Max, ParticleTurn
<1>3. seq \in Seq(Nat)
    OBVIOUS
<1>4. Particles!Closed(p, {seq[i] : i \in DOMAIN seq}, B)
    <2>1. ASSUME NEW h \in B
          PROVE  ParticleTurn(p, 0, h) \in B
        <3> DEFINE k == ParticleTurn(p, 0, h)
        <3>1. Follows(g, h) /\ Sound(h) /\ h.pl = g.pl /\ h.order = g.order
            BY AfterFollows DEF Follows
        <3>2. Follows(h, k) /\ k.pl = h.pl /\ k.order = h.order
            BY <3>1, AddFollows DEF ParticleTurn
        <3>3. Follows(g, k)
            BY <1>1, <3>1, <3>2, FollowsOn
        <3> QED BY <3>1, <3>2, <3>3, AfterFollows
    <2> QED BY <2>1 DEF Particles!Closed, ParticleTurn
<1> HIDE DEF B, seq
<1>5. end \in B
    BY <1>1, <1>3, <1>4, Particles!SeqKeeps
<1> QED BY <1>2, <1>5, AfterFollows DEF B

\* A player explodes, drops its balls and waits.
LEMMA DestroyFollows ==
    ASSUME NEW g, Sound(g), NEW p \in Player, g.pl[p].state # "out", NEW n \in Nat
    PROVE  Follows(g, Player_destroy(g, p, n))
<1> DEFINE e == Player_explode(g, p, n)
           d == Ball_detach(e, p, None)
           h == Player_destroy(g, p, n)
<1>1. Follows(g, e) /\ Sound(e) /\ e.pl = g.pl /\ g \in GameType
    BY ExplodeFollows DEF Follows, Sound
<1>2. /\ Follows(e, d) /\ Dropped(e, d) /\ Sound(d) /\ d \in GameType
      /\ \A s \in Struct : ~(d.ob[s].attached /\ d.ob[s].owner = p)
    BY <1>1, DetachDrops DEF Follows, Sound
<1>3. h = [d EXCEPT !.pl[p].state = "idle"]
    BY DEF Player_destroy
<1>4. Follows(d, h)
    <2>1. "idle" \in {"idle", "paused", "alive", "killed"} /\ None \in Team \cup {None}
        OBVIOUS
    <2> HIDE DEF d, h
    <2>2. Follows(d, [d EXCEPT !.pl[p].state = "idle"])
        BY <1>2, <2>1, IdleFollows, Zenon
    <2> QED BY <2>2, <1>3
<1> QED
    <2> HIDE DEF e, d, h
    <2>1. Follows(e, h)
        BY <1>1, <1>2, <1>4, FollowsOn DEF Sound
    <2> QED BY <1>1, <2>1, FollowsOn DEF h

ResetTurn(n, p, h) == IF h.pl[p].state = "paused" THEN h ELSE Player_destroy(h, p, n)
Resets == INSTANCE FoldTheorems WITH Turn <- ResetTurn

LEMMA ResetFollows ==
    ASSUME NEW g, Sound(g), NEW n \in Nat
    PROVE  Follows(g, Players_reset(g, n))
<1> DEFINE B == After(g)
           seq == g.order
           end == Resets!OverSeq(n, g, seq)
<1>1. g \in GameType /\ g \in B /\ seq \in Seq(Player)
    BY FollowsItself, AfterFollows DEF Sound, GameType
<1>2. Players_reset(g, n) = end
    BY DEF Players_reset, FoldLeft, MapThenFoldSet, Resets!OverSeq, Max, ResetTurn
<1>3. Resets!Closed(n, {seq[i] : i \in DOMAIN seq}, B)
    <2>1. ASSUME NEW i \in DOMAIN seq, NEW h \in B
          PROVE  ResetTurn(n, seq[i], h) \in B
        <3> DEFINE p == seq[i]
                   k == ResetTurn(n, p, h)
        <3>1. Follows(g, h) /\ Sound(h)
            BY AfterFollows DEF Follows
        <3>2. p \in Player /\ h.pl[p].state # "out"
            BY <1>1, <3>1 DEF Sound, TableFits, Follows, Stay
        <3>3. Follows(h, k)
            BY <3>1, <3>2, DestroyFollows, FollowsItself DEF ResetTurn
        <3>4. Follows(g, k)
            BY <1>1, <3>1, <3>3, FollowsOn
        <3> QED BY <3>4, AfterFollows
    <2> QED BY <2>1 DEF Resets!Closed
<1> HIDE DEF B
<1>4. end \in B
    BY <1>1, <1>3, Resets!SeqKeeps
<1> QED BY <1>2, <1>4, AfterFollows DEF B

DestroyTurn(n, p, h) == Player_destroy(h, p, n)
Deaths == INSTANCE FoldTheorems WITH Turn <- DestroyTurn

\* Those of D destroy themselves.
LEMMA DestroyAll ==
    ASSUME NEW g, Sound(g), NEW D \in SUBSET Player, NEW n \in Nat,
           \A p \in D : g.pl[p].state # "out"
    PROVE  Follows(g, FoldSet(LAMBDA p, h : Player_destroy(h, p, n), g, D))
<1> DEFINE B == After(g)
           end == Deaths!OverSet(n, g, D)
<1>1. g \in GameType /\ g \in B
    BY FollowsItself, AfterFollows DEF Sound
<1>2. FoldSet(LAMBDA p, h : Player_destroy(h, p, n), g, D) = end
    BY DEF FoldSet, MapThenFoldSet, Deaths!OverSet, DestroyTurn
<1>3. Deaths!Closed(n, D, B)
    <2>1. ASSUME NEW p \in D, NEW h \in B
          PROVE  DestroyTurn(n, p, h) \in B
        <3> DEFINE k == DestroyTurn(n, p, h)
        <3>1. Follows(g, h) /\ Sound(h)
            BY AfterFollows DEF Follows
        <3>2. p \in Player /\ h.pl[p].state # "out"
            BY <3>1 DEF Follows, Stay
        <3>3. Follows(h, k)
            BY <3>1, <3>2, DestroyFollows DEF DestroyTurn
        <3>4. Follows(g, k)
            BY <1>1, <3>1, <3>3, FollowsOn
        <3> QED BY <3>4, AfterFollows
    <2> QED BY <2>1 DEF Deaths!Closed
<1>4. Deaths!IsFiniteSet(D)
    <2>1. IsFiniteSet(D)
        BY BallsAssumption, FS_Subset
    <2> QED BY <2>1 DEF IsFiniteSet, Deaths!IsFiniteSet
<1> HIDE DEF B
<1>5. end \in B
    BY <1>1, <1>3, <1>4, Deaths!SetKeeps
<1> QED BY <1>2, <1>5, AfterFollows DEF B

KillTurn(killed, p, h) == IF p \in killed.who THEN Player_destroy(h, p, killed.n) ELSE h
Kills == INSTANCE FoldTheorems WITH Turn <- KillTurn

\* Players_handle_after_kill.
LEMMA KillAll ==
    ASSUME NEW g, Sound(g), NEW D \in SUBSET Player, NEW n \in Nat,
           \A p \in D : g.pl[p].state # "out"
    PROVE  Follows(g, FoldLeft(LAMBDA h, p : IF p \in D THEN Player_destroy(h, p, n) ELSE h,
                               g, Reverse(g.order)))
<1> DEFINE B == After(g)
           seq == Reverse(g.order)
           par == [who |-> D, n |-> n]
           end == Kills!OverSeq(par, g, seq)
<1>1. g \in GameType /\ g \in B /\ g.order \in Seq(Player)
    BY FollowsItself, AfterFollows DEF Sound, GameType
<1>2. FoldLeft(LAMBDA h, p : IF p \in D THEN Player_destroy(h, p, n) ELSE h, g, seq) = end
    BY DEF FoldLeft, MapThenFoldSet, Kills!OverSeq, Max, KillTurn
<1>3. seq \in Seq(Player)
    BY <1>1 DEF Reverse
<1>4. Kills!Closed(par, {seq[i] : i \in DOMAIN seq}, B)
    <2>1. ASSUME NEW i \in DOMAIN seq, NEW h \in B
          PROVE  KillTurn(par, seq[i], h) \in B
        <3> DEFINE p == seq[i]
                   k == KillTurn(par, p, h)
        <3>1. Follows(g, h) /\ Sound(h)
            BY AfterFollows DEF Follows
        <3>2. k = IF p \in D THEN Player_destroy(h, p, n) ELSE h
            BY DEF KillTurn
        <3>3. p \in D => h.pl[p].state # "out"
            BY <3>1 DEF Follows, Stay
        <3>4. Follows(h, k)
            BY <3>1, <3>2, <3>3, DestroyFollows, FollowsItself
        <3>5. Follows(g, k)
            BY <1>1, <3>1, <3>4, FollowsOn
        <3> QED BY <3>5, AfterFollows
    <2> QED BY <2>1 DEF Kills!Closed
<1> HIDE DEF B, par, seq
<1>5. end \in B
    BY <1>1, <1>3, <1>4, Kills!SeqKeeps
<1> QED BY <1>2, <1>5, AfterFollows DEF B, seq

ShootTurn(P, p, h) == IF p \in P THEN Shot_add(h, p) ELSE h
Shots == INSTANCE FoldTheorems WITH Turn <- ShootTurn

LEMMA ShootFollows ==
    ASSUME NEW g, Sound(g), NEW P \in SUBSET Player, \A p \in P : g.pl[p].state # "out"
    PROVE  LET h == Players_shoot(g, P) IN Follows(g, h) /\ h.pl = g.pl
<1> DEFINE B == {h \in After(g) : h.pl = g.pl}
           seq == g.order
           end == Shots!OverSeq(P, g, seq)
<1>1. g \in GameType /\ g \in B /\ seq \in Seq(Player)
    BY FollowsItself, AfterFollows DEF Sound, GameType
<1>2. Players_shoot(g, P) = end
    BY DEF Players_shoot, FoldLeft, MapThenFoldSet, Shots!OverSeq, Max, ShootTurn
<1>3. Shots!Closed(P, {seq[i] : i \in DOMAIN seq}, B)
    <2>1. ASSUME NEW i \in DOMAIN seq, NEW h \in B
          PROVE  ShootTurn(P, seq[i], h) \in B
        <3> DEFINE p == seq[i]
                   k == ShootTurn(P, p, h)
        <3>1. Follows(g, h) /\ Sound(h) /\ h.pl = g.pl
            BY AfterFollows DEF Follows
        <3>2. CASE p \in P
            <4>1. Follows(h, Object_add(h, Object_of("shot", p)))
                  /\ Object_add(h, Object_of("shot", p)).pl = h.pl
                BY <3>1, <3>2, AddFollows
            <4>2. k \in {h, Object_add(h, Object_of("shot", p))}
                BY DEF ShootTurn, Shot_add
            <4>3. Follows(h, k) /\ k.pl = g.pl
                BY <3>1, <4>1, <4>2, FollowsItself
            <4> QED BY <1>1, <3>1, <4>3, FollowsOn, AfterFollows
        <3>3. CASE p \notin P
            BY <3>3 DEF ShootTurn
        <3> QED BY <3>2, <3>3
    <2> QED BY <2>1 DEF Shots!Closed
<1> HIDE DEF B
<1>4. end \in B
    BY <1>1, <1>3, Shots!SeqKeeps
<1> QED BY <1>2, <1>4, AfterFollows DEF B

BreakTurn(par, s, a) == Ball_detach(a, a.ob[s].owner, s)
Breaks == INSTANCE FoldTheorems WITH Turn <- BreakTurn

\* Connectors break.
LEMMA BreakFollows ==
    ASSUME NEW g, Sound(g), NEW S \in SUBSET Struct, \A s \in S : g.ob[s].attached
    PROVE  LET h == FoldSet(LAMBDA s, a : Ball_detach(a, a.ob[s].owner, s), g, S) IN
           /\ Follows(g, h)
           /\ \A p \in Player : h.pl[p].state = g.pl[p].state
<1> DEFINE B == {h \in After(g) : /\ \A s \in S : h.ob[s].owner \in Player
                                  /\ \A p \in Player : h.pl[p].state = g.pl[p].state}
           end == Breaks!OverSet(0, g, S)
<1>1. g \in GameType /\ g \in B
    BY FollowsItself, AfterFollows DEF Sound, CarryFits
<1>2. FoldSet(LAMBDA s, a : Ball_detach(a, a.ob[s].owner, s), g, S) = end
    BY DEF FoldSet, MapThenFoldSet, Breaks!OverSet, BreakTurn
<1>3. Breaks!Closed(0, S, B)
    <2>1. ASSUME NEW s \in S, NEW h \in B
          PROVE  BreakTurn(0, s, h) \in B
        <3> DEFINE k == BreakTurn(0, s, h)
                   p == h.ob[s].owner
        <3>1. /\ Follows(g, h) /\ Sound(h) /\ p \in Player
              /\ \A r \in S : h.ob[r].owner \in Player
              /\ \A q \in Player : h.pl[q].state = g.pl[q].state
            BY AfterFollows DEF Follows
        <3>2. k = Ball_detach(h, p, s)
            BY DEF BreakTurn
        <3> HIDE DEF k
        <3>3. Follows(h, k) /\ Dropped(h, k)
            BY <3>1, <3>2, DetachDrops
        <3>4. Follows(g, k)
            BY <1>1, <3>1, <3>3, FollowsOn
        <3>5. /\ \A r \in S : k.ob[r].owner \in Player
              /\ \A q \in Player : k.pl[q].state = g.pl[q].state
            BY <3>1, <3>3 DEF Dropped
        <3> QED BY <3>4, <3>5, AfterFollows DEF k
    <2> QED BY <2>1 DEF Breaks!Closed
<1>4. Breaks!IsFiniteSet(S)
    <2>1. IsFiniteSet(S)
        BY StructsAreFinite, FS_Subset
    <2> QED BY <2>1 DEF IsFiniteSet, Breaks!IsFiniteSet
<1> HIDE DEF B
<1>5. end \in B
    BY <1>1, <1>3, <1>4, Breaks!SetKeeps
<1> QED BY <1>2, <1>5, AfterFollows DEF B

\* Update_mobile_objects.
LEMMA MobileFollows ==
    ASSUME NEW g, Sound(g), NEW h \in Update_mobile_objects(g)
    PROVE  Follows(g, h) /\ \A p \in Player : h.pl[p].state = g.pl[p].state
<1>1. PICK broken \in SUBSET {s \in BallsOf(g) : g.ob[s].attached /\ Frame_is_real} :
          \E S : h = Object_expire(FoldSet(LAMBDA s, a : Ball_detach(a, a.ob[s].owner, s),
                                           g, broken), S)
    BY DEF Update_mobile_objects
<1> DEFINE e == FoldSet(LAMBDA s, a : Ball_detach(a, a.ob[s].owner, s), g, broken)
<1>2. broken \in SUBSET Struct /\ \A s \in broken : g.ob[s].attached
    BY SetsSay
<1>3. Follows(g, e) /\ \A p \in Player : e.pl[p].state = g.pl[p].state
    BY <1>2, BreakFollows
<1>4. PICK S : h = Object_expire(e, S)
    BY <1>1
<1> HIDE DEF e
<1>5. Sound(e) /\ g \in GameType
    BY <1>3 DEF Follows, Sound
<1>6. Follows(e, h) /\ h.pl = e.pl
    BY <1>4, <1>5, ExpireFollows
<1> QED BY <1>3, <1>5, <1>6, FollowsOn

DropTurn(p, s, a) == Ball_detach(a, p, s)
Drops == INSTANCE FoldTheorems WITH Turn <- DropTurn

\* Who leaves drops each of its balls.
LEMMA DropFollows ==
    ASSUME NEW g, Sound(g), NEW p \in Player
    PROVE  LET h == FoldSet(LAMBDA s, a : Ball_detach(a, p, s), g, CarriedBy(g, p)) IN
           /\ Follows(g, h)
           /\ \A s \in Struct : ~(h.ob[s].attached /\ h.ob[s].owner = p)
<1> DEFINE S == CarriedBy(g, p)
           A == [T \in SUBSET S |->
                    {h \in After(g) :
                        \A s \in Struct : h.ob[s].attached /\ h.ob[s].owner = p => s \in S \ T}]
           end == Drops!OverSet(p, g, S)
<1>1. g \in GameType /\ g \in A[{}] /\ S \subseteq Struct
    BY FollowsItself, AfterFollows, SetsSay DEF Sound
<1>2. FoldSet(LAMBDA s, a : Ball_detach(a, p, s), g, S) = end
    BY DEF FoldSet, MapThenFoldSet, Drops!OverSet, DropTurn
<1>3. Drops!SetCarries(p, S, A)
    <2>1. ASSUME NEW T \in SUBSET S, NEW s \in S \ T, NEW h \in A[T]
          PROVE  DropTurn(p, s, h) \in A[T \cup {s}]
        <3> DEFINE k == DropTurn(p, s, h)
        <3>1. /\ Follows(g, h) /\ Sound(h) /\ s \in Struct /\ s \in S
              /\ \A r \in Struct : h.ob[r].attached /\ h.ob[r].owner = p => r \in S \ T
            BY <1>1, AfterFollows DEF Follows
        <3>2. k = Ball_detach(h, p, s)
            BY DEF DropTurn
        <3> HIDE DEF k, S
        <3>3. /\ Follows(h, k) /\ Dropped(h, k)
              /\ \A r \in Struct : k.ob[r].attached /\ k.ob[r].owner = p => r # s
            BY <3>1, <3>2, DetachDrops
        <3>4. Follows(g, k)
            BY <1>1, <3>1, <3>3, FollowsOn
        <3>5. \A r \in Struct : k.ob[r].attached /\ k.ob[r].owner = p => r \in S \ (T \cup {s})
            BY <3>1, <3>3 DEF Dropped
        <3> QED BY <3>1, <3>4, <3>5, AfterFollows DEF k
    <2> QED BY <2>1 DEF Drops!SetCarries
<1>4. Drops!IsFiniteSet(S)
    <2>1. IsFiniteSet(S)
        BY <1>1, StructsAreFinite, FS_Subset
    <2> QED BY <2>1 DEF IsFiniteSet, Drops!IsFiniteSet
<1>5. end \in A[S]
    <2> HIDE DEF A, S
    <2> QED BY <1>1, <1>3, <1>4, Drops!SetIsCarried
<1>6. \A h \in A[S] : Follows(g, h) /\ \A s \in Struct : ~(h.ob[s].attached /\ h.ob[s].owner = p)
    BY AfterFollows
<1> HIDE DEF A, S, end
<1>7. Follows(g, end) /\ \A s \in Struct : ~(end.ob[s].attached /\ end.ob[s].owner = p)
    BY <1>5, <1>6
<1> QED BY <1>2, <1>7 DEF S

OutTurn(par, s, h) == RemoveTurn(h, s)
Outs == INSTANCE FoldTheorems WITH Turn <- OutTurn

\* Objects_remove_timed_out: what is to be removed is in use until its turn.
LEMMA TimedOutFollows ==
    ASSUME NEW g, Sound(g), NEW due
    PROVE  Follows(g, Objects_remove_timed_out(g, due))
<1> DEFINE S == {s \in Objects(g) : /\ (g.ob[s].expired \/ s \in due)
                                    /\ (Frame_is_real \/ g.ob[s].type # "debris")}
           A == [T \in SUBSET S |-> {h \in After(g) : \A s \in S \ T : h.ob[s].type # "none"}]
           end == Outs!OverSet(0, g, S)
<1>1. /\ g \in GameType /\ S \subseteq Struct /\ g \in A[{}]
    BY FollowsItself, AfterFollows, SetsSay DEF Sound
<1>2. Objects_remove_timed_out(g, due) = end
    BY DEF Objects_remove_timed_out, FoldSet, MapThenFoldSet, Outs!OverSet, OutTurn
<1>3. Outs!SetCarries(0, S, A)
    <2>1. ASSUME NEW T \in SUBSET S, NEW s \in S \ T, NEW h \in A[T]
          PROVE  OutTurn(0, s, h) \in A[T \cup {s}]
        <3> DEFINE k == RemoveTurn(h, s)
        <3>1. /\ Follows(g, h) /\ Sound(h) /\ s \in Struct /\ s \in S
              /\ \A r \in S \ T : h.ob[r].type # "none"
            BY <1>1, AfterFollows DEF Follows
        <3> HIDE DEF k, S
        <3>2. h.ob[s].type \in {"ball", "shot", "debris"}
            BY <3>1 DEF Sound, GameType, ObjectType
        <3>3. Follows(h, k) /\ \A r \in Struct : r # s => k.ob[r].type = h.ob[r].type
            <4>1. CASE h.ob[s].type = "ball"
                BY <3>1, <4>1, BallTurn DEF k
            <4>2. CASE h.ob[s].type \in {"shot", "debris"}
                BY <3>1, <4>2, OtherTurn DEF k
            <4> QED BY <3>2, <4>1, <4>2
        <3>4. Follows(g, k)
            BY <1>1, <3>1, <3>3, FollowsOn
        <3>5. \A r \in S \ (T \cup {s}) : k.ob[r].type # "none"
            BY <1>1, <3>1, <3>3
        <3> QED BY <3>1, <3>4, <3>5, AfterFollows DEF k, OutTurn
    <2> QED BY <2>1 DEF Outs!SetCarries
<1>4. Outs!IsFiniteSet(S)
    <2>1. IsFiniteSet(S)
        BY <1>1, StructsAreFinite, FS_Subset
    <2> QED BY <2>1 DEF IsFiniteSet, Outs!IsFiniteSet
<1>5. end \in A[S]
    <2> HIDE DEF A, S
    <2> QED BY <1>1, <1>3, <1>4, Outs!SetIsCarried
<1>6. \A h \in A[S] : Follows(g, h)
    BY AfterFollows
<1> QED BY <1>2, <1>5, <1>6

-----------------------------------------------------------------------------
(* Those who leave, play on, and take a ball.                              *)

\* What somebody leaves behind is nobody's.
LEMMA LeaveIsSound ==
    ASSUME NEW g, Sound(g), NEW p \in Player
    PROVE  Sound(Player_remove(g, p)) /\ Held(g, Player_remove(g, p))
<1> DEFINE d == FoldSet(LAMBDA s, a : Ball_detach(a, p, s), g, CarriedBy(g, p))
           S == CarriedBy(g, p) \cup
                    (IF keepShots THEN {}
                     ELSE {s \in Objects(g) : g.ob[s].type = "shot" /\ g.ob[s].owner = p})
           e == Object_expire(d, S)
           h == Player_remove(g, p)
           f == [s \in Struct |->
                    IF e.ob[s].owner = p THEN [e.ob[s] EXCEPT !.owner = None] ELSE e.ob[s]]
<1>1. Follows(g, d) /\ \A s \in Struct : ~(d.ob[s].attached /\ d.ob[s].owner = p)
    BY DropFollows
<1>2. /\ Follows(d, e)
      /\ \A s \in Struct : e.ob[s].owner = d.ob[s].owner /\ e.ob[s].attached = d.ob[s].attached
    <2> HIDE DEF d, S
    <2> QED BY <1>1, ExpireFollows DEF Follows
<1>3. h = [e EXCEPT !.ob = f, !.pl[p] = NewPlayer, !.order = Without(@, p)]
    BY DEF Player_remove, Disowned
<1> HIDE DEF d, e
<1>4. /\ Sound(e) /\ e \in GameType /\ g \in GameType
      /\ e.pl \in [Player -> PlayerType] /\ e.order \in Seq(Player)
      /\ \A s \in Struct : e.ob[s] \in ObjectType
      /\ \A s \in Struct : ~(e.ob[s].attached /\ e.ob[s].owner = p)
    BY <1>1, <1>2 DEF Follows, Sound, GameType
<1>5. ASSUME NEW s \in Struct
      PROVE  /\ f[s] \in ObjectType
             /\ f[s].type = e.ob[s].type /\ f[s].treasure = e.ob[s].treasure
             /\ f[s].attached = e.ob[s].attached
             /\ f[s].owner = IF e.ob[s].owner = p THEN None ELSE e.ob[s].owner
    <2> DEFINE x == e.ob[s]
    <2>1. x \in ObjectType /\ f[s] = IF x.owner = p THEN [x EXCEPT !.owner = None] ELSE x
        BY <1>4
    <2> HIDE DEF x, f
    <2> QED BY <2>1 DEF ObjectType, x
<1>6. NewPlayer \in PlayerType /\ NewPlayer.has = FALSE /\ NewPlayer.ball_tmp = None
    BY DEF NewPlayer, PlayerType
<1>7. f \in [Struct -> ObjectType]
    BY <1>5
<1> HIDE DEF f, h
<1>8. /\ h.free = e.free /\ h.have = e.have /\ h.ob = f /\ h.order = Without(e.order, p)
      /\ h.pl \in [Player -> PlayerType] /\ h.pl[p] = NewPlayer
      /\ \A q \in Player \ {p} : h.pl[q] = e.pl[q]
      /\ h = [pl |-> h.pl, order |-> h.order, free |-> h.free, ob |-> h.ob, have |-> h.have]
    BY <1>3, <1>4, <1>6 DEF GameType
<1>9. /\ h.order \in Seq(Player) /\ TableFits(h)
    <2> DEFINE n == Len(e.order)
    <2>1. /\ n \in Nat /\ DOMAIN e.order = 1 .. n
          /\ \A i \in 1 .. n : e.order[i] \in Player /\ e.pl[e.order[i]].state # "out"
          /\ \A i, j \in 1 .. n : e.order[i] = e.order[j] => i = j
        BY <1>4 DEF Sound, TableFits
    <2>2. h.order = [j \in 1 .. n - 1 |-> IF e.order[j] = p THEN e.order[n] ELSE e.order[j]]
        BY <1>8 DEF Without
    <2> HIDE DEF n
    <2>3. \A j \in 1 .. n - 1 : j \in 1 .. n /\ n \in 1 .. n /\ j # n
        BY <2>1
    <2>4. \A j \in 1 .. n - 1 : h.order[j] \in Player \ {p} /\ e.pl[h.order[j]].state # "out"
        BY <2>1, <2>2, <2>3
    <2>5. \A i, j \in 1 .. n - 1 : h.order[i] = h.order[j] => i = j
        BY <2>1, <2>2, <2>3
    <2>6. h.order \in Seq(Player) /\ DOMAIN h.order = 1 .. n - 1
        <3>1. CASE n = 0
            <4>1. 1 .. n - 1 = {}
                BY <3>1
            <4>2. h.order = << >>
                BY <4>1, <2>2
            <4> QED BY <4>1, <4>2
        <3>2. CASE n # 0
            <4>1. n - 1 \in Nat
                BY <2>1, <3>2
            <4>2. h.order \in [1 .. n - 1 -> Player]
                BY <2>2, <2>4
            <4> QED BY <4>1, <4>2
        <3> QED BY <3>1, <3>2
    <2>7. TableFits(h)
        BY <2>4, <2>5, <2>6, <1>8 DEF TableFits
    <2> QED BY <2>6, <2>7
<1>10. h \in GameType
    BY <1>4, <1>7, <1>8, <1>9 DEF GameType
<1>11. FreeFits(h)
    BY <1>4, <1>5, <1>8 DEF Sound, FreeFits
<1>12. BoxFits(h)
    <2>1. \A t \in Treasure : \E s \in Struct : h.ob[s].type = "ball" /\ h.ob[s].treasure = t
        BY <1>4, <1>5, <1>8 DEF Sound, BoxFits
    <2>2. \A s, r \in Struct : /\ h.ob[s].type = "ball" /\ h.ob[r].type = "ball"
                               /\ h.ob[s].treasure = h.ob[r].treasure
                               => s = r
        BY <1>4, <1>5, <1>8 DEF Sound, BoxFits
    <2>3. \A s \in Struct : h.ob[s].type = "ball" =>
             /\ h.ob[s].treasure \in Treasure
             /\ h.have[h.ob[s].treasure] => ~h.ob[s].attached /\ h.ob[s].owner = None
        BY <1>4, <1>5, <1>8 DEF Sound, BoxFits
    <2> QED BY <2>1, <2>2, <2>3 DEF BoxFits
<1>13. \A s \in Struct : h.ob[s].attached =>
           e.ob[s].attached /\ h.ob[s].owner = e.ob[s].owner /\ e.ob[s].owner # p
    BY <1>4, <1>5, <1>8
<1>14. \A s \in Struct : e.ob[s].attached =>
           h.ob[s].attached /\ h.ob[s].owner = e.ob[s].owner
    BY <1>4, <1>5, <1>8
<1>15. CarryFits(h)
    <2>1. \A s \in Struct : h.ob[s].attached =>
             /\ h.ob[s].type = "ball" /\ h.ob[s].owner \in Player
             /\ h.pl[h.ob[s].owner].state \in {"alive", "killed"}
        BY <1>4, <1>5, <1>8, <1>13 DEF Sound, CarryFits
    <2>2. \A q \in Player : (\E s \in Struct : h.ob[s].attached /\ h.ob[s].owner = q)
                             <=> (\E s \in Struct : e.ob[s].attached /\ e.ob[s].owner = q)
        BY <1>13, <1>14
    <2>3. ASSUME NEW q \in Player
          PROVE  h.pl[q].has <=> \E s \in Struct : h.ob[s].attached /\ h.ob[s].owner = q
        <3>1. CASE q = p
            BY <3>1, <1>6, <1>8, <1>13
        <3>2. CASE q # p
            BY <3>2, <2>2, <1>4, <1>8 DEF Sound, CarryFits
        <3> QED BY <3>1, <3>2
    <2> QED BY <2>1, <2>3 DEF CarryFits
<1>16. PointersFit(h)
    <2>1. \A q \in Player : e.pl[q].ball_tmp \in Struct \cup {None}
        BY <1>4 DEF PlayerType
    <2> QED BY <2>1, <1>4, <1>5, <1>6, <1>8 DEF Sound, PointersFit
<1>17. OwnersFit(h)
    <2>1. \A s \in Struct : e.ob[s].owner \in Player \cup {None}
        BY <1>4 DEF ObjectType
    <2> QED BY <2>1, <1>4, <1>5, <1>8 DEF Sound, OwnersFit
<1>18. Held(g, h)
    BY <1>1, <1>2, <1>13 DEF Follows, Held
<1> QED BY <1>9, <1>10, <1>11, <1>12, <1>15, <1>16, <1>17, <1>18 DEF Sound, h

\* Who recovers, crashes or is hit goes on carrying what it carries.
LEMMA StatesFollow ==
    ASSUME NEW g, Sound(g), NEW S, NEW state \in {"alive", "killed"}
    PROVE  LET h == [g EXCEPT !.pl = [q \in Player |->
                        IF q \in S THEN [@[q] EXCEPT !.state = state] ELSE @[q]]]
           IN  /\ Follows(g, h) /\ h.ob = g.ob /\ h.order = g.order
               /\ \A q \in Player : q \notin S => h.pl[q] = g.pl[q]
<1> DEFINE f == [q \in Player |->
                    IF q \in S THEN [g.pl[q] EXCEPT !.state = state] ELSE g.pl[q]]
           h == [g EXCEPT !.pl = f]
<1>1. /\ g \in GameType
      /\ \A q \in Player : g.pl[q] \in PlayerType
      /\ \A i \in DOMAIN g.order : g.order[i] \in Player
    BY DEF Sound, GameType
<1>2. ASSUME NEW q \in Player
      PROVE  /\ f[q] \in PlayerType /\ f[q].has = g.pl[q].has /\ f[q].ball_tmp = g.pl[q].ball_tmp
             /\ f[q].state \in {g.pl[q].state, "alive", "killed"}
             /\ g.pl[q].state # "out" => f[q].state # "out"
             /\ q \notin S => f[q] = g.pl[q]
    <2> DEFINE x == g.pl[q]
    <2>1. x \in PlayerType /\ f[q] = IF q \in S THEN [x EXCEPT !.state = state] ELSE x
        BY <1>1
    <2> HIDE DEF x, f
    <2>2. CASE q \in S
        BY <2>1, <2>2 DEF PlayerType, x
    <2>3. CASE q \notin S
        BY <2>1, <2>3 DEF x
    <2> QED BY <2>2, <2>3
<1>3. f \in [Player -> PlayerType]
    BY <1>2
<1>4. h = [g EXCEPT !.pl = [q \in Player |->
              IF q \in S THEN [@[q] EXCEPT !.state = state] ELSE @[q]]]
    OBVIOUS
<1> HIDE DEF f
<1>5. /\ h.pl = f /\ h.order = g.order /\ h.free = g.free /\ h.ob = g.ob /\ h.have = g.have
      /\ h \in GameType
    BY <1>1, <1>3 DEF GameType
<1> HIDE DEF h
<1>6. Acted(g, h) /\ TableFits(h)
    BY <1>1, <1>2, <1>5 DEF Acted, Sound, TableFits
<1>7. Follows(g, h)
    BY <1>5, <1>6, ActedFollows
<1>8. \A q \in Player : q \notin S => h.pl[q] = g.pl[q]
    BY <1>2, <1>5
<1> QED BY <1>4, <1>5, <1>7, <1>8

\* The second half of Update.
LEMMA UpdateFollows ==
    ASSUME NEW g, Sound(g), NEW R \in SUBSET Player, NEW D \in SUBSET Player,
           NEW K \in SUBSET Player, NEW n \in Nat, \A p \in D : g.pl[p].state # "out"
    PROVE  Follows(g, Update_players(g, R, D, K, n))
<1> DEFINE back == [g EXCEPT !.pl = [p \in Player |->
                       IF p \in R THEN [@[p] EXCEPT !.state = "alive"] ELSE @[p]]]
           gone == FoldSet(LAMBDA p, h : Player_destroy(h, p, n), back, D)
           last == [gone EXCEPT !.pl = [p \in Player |->
                       IF p \in K THEN [@[p] EXCEPT !.state = "killed"] ELSE @[p]]]
<1>1. Update_players(g, R, D, K, n) = last
    BY DEF Update_players
<1>2. Follows(g, back)
    BY StatesFollow
<1>3. Sound(back) /\ \A p \in D : back.pl[p].state # "out"
    BY <1>2 DEF Follows, Stay
<1> HIDE DEF back
<1>4. Follows(back, gone)
    BY <1>3, DestroyAll
<1> HIDE DEF gone
<1>5. Follows(gone, last)
    BY <1>4, StatesFollow DEF Follows
<1> HIDE DEF last
<1>6. Follows(g, gone) /\ g \in GameType
    BY <1>2, <1>4, FollowsOn DEF Sound
<1> QED BY <1>1, <1>5, <1>6, FollowsOn

\* A ball is taken, which nobody carries then.
Takes(g, h) ==
    /\ Sound(h)
    /\ h.order = g.order
    /\ \A q \in Player : h.pl[q].state = g.pl[q].state
    /\ \A s \in Struct : g.ob[s].attached /\ h.ob[s].attached => h.ob[s].owner = g.ob[s].owner

\* A pointer of p is set or forgotten.
LEMMA PointTakes ==
    ASSUME NEW g, Sound(g), NEW p \in Player, g.pl[p].state # "out",
           NEW b \in Struct \cup {None}, b # None => g.ob[b].type = "ball"
    PROVE  Takes(g, [g EXCEPT !.pl[p].ball_tmp = b])
<1> DEFINE h == [g EXCEPT !.pl[p].ball_tmp = b]
           x == g.pl[p]
           y == [x EXCEPT !.ball_tmp = b]
<1>1. /\ g \in GameType /\ g.pl \in [Player -> PlayerType] /\ x \in PlayerType
      /\ \A i \in DOMAIN g.order : g.order[i] \in Player
    BY DEF Sound, GameType
<1>2. h = [g EXCEPT !.pl[p] = y]
    OBVIOUS
<1>3. /\ y \in PlayerType /\ y.has = x.has /\ y.state = x.state /\ y.ball_tmp = b
    <2> HIDE DEF x
    <2> QED BY <1>1 DEF PlayerType
<1> HIDE DEF y
<1>4. /\ h.order = g.order /\ h.free = g.free /\ h.ob = g.ob /\ h.have = g.have
      /\ h.pl \in [Player -> PlayerType] /\ h \in GameType
      /\ h.pl[p] = y /\ \A q \in Player \ {p} : h.pl[q] = g.pl[q]
    BY <1>1, <1>2, <1>3 DEF GameType
<1> HIDE DEF h
<1>5. Acted(g, h)
    BY <1>3, <1>4 DEF Acted
<1>6. TableFits(h)
    BY <1>1, <1>3, <1>4 DEF Sound, TableFits
<1>7. Sound(h)
    BY <1>4, <1>5, <1>6, ActedFollows DEF Follows
<1> QED BY <1>3, <1>4, <1>7 DEF Takes, h

LEMMA AttachTakes ==
    ASSUME NEW g, Sound(g), NEW p \in Player, g.pl[p].state = "alive", g.pl[p].ball_tmp # None
    PROVE  Takes(g, Attached(g, p))
<1> DEFINE b == g.pl[p].ball_tmp
           t == g.ob[b].treasure
           h == Attached(g, p)
<1>1. /\ g \in GameType /\ g.pl \in [Player -> PlayerType] /\ g.ob \in [Struct -> ObjectType]
      /\ g.have \in [Treasure -> BOOLEAN] /\ g.pl[p] \in PlayerType /\ g.ob[b] \in ObjectType
      /\ b \in Struct /\ g.ob[b].type = "ball" /\ t \in Treasure
      /\ \A i \in DOMAIN g.order : g.order[i] \in Player
    BY DEF Sound, GameType, PlayerType, PointersFit, BoxFits
<1>2. CASE g.ob[b].attached
    BY <1>2, PointTakes DEF Attached
<1>3. CASE ~g.ob[b].attached
    <2> DEFINE x == g.pl[p]
               y == [x EXCEPT !.has = TRUE, !.ball_tmp = None]
               o == g.ob[b]
               e == g.ob[b].expired /\ ~g.have[t]
               z == [o EXCEPT !.attached = TRUE, !.owner = p, !.expired = e]
    <2>1. /\ x \in PlayerType /\ o \in ObjectType /\ e \in BOOLEAN
        BY <1>1
    <2>2. h = [g EXCEPT !.pl[p] = y, !.ob[b] = z, !.have[t] = FALSE]
        BY <1>3 DEF Attached
    <2>3. /\ y \in PlayerType /\ y.has = TRUE /\ y.state = x.state /\ y.ball_tmp = None
        <3> HIDE DEF x
        <3> QED BY <2>1 DEF PlayerType
    <2>4. /\ z \in ObjectType /\ z.attached = TRUE /\ z.owner = p
          /\ z.type = o.type /\ z.treasure = o.treasure
        <3> HIDE DEF o, e
        <3> QED BY <2>1 DEF ObjectType
    <2> HIDE DEF y, z
    <2>5. /\ h.order = g.order /\ h.free = g.free
          /\ h.pl \in [Player -> PlayerType]
          /\ h.pl[p] = y /\ \A q \in Player \ {p} : h.pl[q] = g.pl[q]
          /\ h.ob \in [Struct -> ObjectType]
          /\ h.ob[b] = z /\ \A s \in Struct \ {b} : h.ob[s] = g.ob[s]
          /\ h.have \in [Treasure -> BOOLEAN]
          /\ h.have[t] = FALSE /\ \A u \in Treasure \ {t} : h.have[u] = g.have[u]
          /\ h \in GameType
        <3>1. /\ b \in Struct /\ t \in Treasure /\ g \in GameType
              /\ g.pl \in [Player -> PlayerType] /\ g.ob \in [Struct -> ObjectType]
              /\ g.have \in [Treasure -> BOOLEAN]
            BY <1>1
        <3> HIDE DEF b, t, h
        <3>2. h = [pl |-> [g.pl EXCEPT ![p] = y], order |-> g.order, free |-> g.free,
                   ob |-> [g.ob EXCEPT ![b] = z], have |-> [g.have EXCEPT ![t] = FALSE]]
            BY <2>2, <3>1 DEF GameType
        <3>3. /\ h.pl = [g.pl EXCEPT ![p] = y] /\ h.ob = [g.ob EXCEPT ![b] = z]
              /\ h.have = [g.have EXCEPT ![t] = FALSE]
              /\ h.order = g.order /\ h.free = g.free
            BY <3>2
        <3>4. /\ h.pl \in [Player -> PlayerType] /\ h.ob \in [Struct -> ObjectType]
              /\ h.have \in [Treasure -> BOOLEAN]
            BY <3>1, <3>3, <2>3, <2>4
        <3>5. h \in GameType
            BY <3>1, <3>2, <3>3, <3>4 DEF GameType
        <3> QED BY <3>1, <3>3, <3>4, <3>5
    <2> HIDE DEF h, b
    <2>6. \A s \in Struct : h.ob[s].type = g.ob[s].type /\ h.ob[s].treasure = g.ob[s].treasure
        BY <2>4, <2>5
    <2>7. FreeFits(h)
        BY <2>5, <2>6 DEF Sound, FreeFits
    <2>8. BoxFits(h)
        <3>1. \A u \in Treasure : \E s \in Struct : h.ob[s].type = "ball" /\ h.ob[s].treasure = u
            BY <2>6 DEF Sound, BoxFits
        <3>2. \A s, r \in Struct : /\ h.ob[s].type = "ball" /\ h.ob[r].type = "ball"
                                   /\ h.ob[s].treasure = h.ob[r].treasure
                                   => s = r
            BY <2>6 DEF Sound, BoxFits
        <3>3. ASSUME NEW s \in Struct, h.ob[s].type = "ball"
              PROVE  /\ h.ob[s].treasure \in Treasure
                     /\ h.have[h.ob[s].treasure] => ~h.ob[s].attached /\ h.ob[s].owner = None
            <4>1. CASE s = b
                BY <4>1, <1>1, <2>4, <2>5
            <4>2. CASE s # b
                <5>1. g.ob[s].type = "ball" /\ g.ob[s].treasure # t /\ h.ob[s] = g.ob[s]
                    BY <3>3, <4>2, <1>1, <2>5, <2>6 DEF Sound, BoxFits
                <5> QED BY <5>1, <2>5 DEF Sound, BoxFits
            <4> QED BY <4>1, <4>2
        <3> QED BY <3>1, <3>2, <3>3 DEF BoxFits
    <2>9. \A q \in Player : h.pl[q].state = g.pl[q].state
        BY <2>3, <2>5
    <2>10. CarryFits(h)
        <3>1. ASSUME NEW s \in Struct, h.ob[s].attached
              PROVE  /\ h.ob[s].type = "ball" /\ h.ob[s].owner \in Player
                     /\ h.pl[h.ob[s].owner].state \in {"alive", "killed"}
            <4>1. CASE s = b
                BY <4>1, <1>1, <2>4, <2>5, <2>9
            <4>2. CASE s # b
                BY <3>1, <4>2, <2>5, <2>9 DEF Sound, CarryFits
            <4> QED BY <4>1, <4>2
        <3>2. ASSUME NEW q \in Player
              PROVE  h.pl[q].has <=> \E s \in Struct : h.ob[s].attached /\ h.ob[s].owner = q
            <4>1. CASE q = p
                BY <4>1, <1>1, <2>3, <2>4, <2>5
            <4>2. CASE q # p
                <5>1. \A s \in Struct : h.ob[s].attached /\ h.ob[s].owner = q
                                        <=> g.ob[s].attached /\ g.ob[s].owner = q
                    BY <4>2, <1>3, <2>4, <2>5 DEF b
                <5> QED BY <4>2, <5>1, <2>5 DEF Sound, CarryFits
            <4> QED BY <4>1, <4>2
        <3> QED BY <3>1, <3>2 DEF CarryFits
    <2>11. PointersFit(h)
        <3>1. \A q \in Player : g.pl[q].ball_tmp \in Struct \cup {None}
            BY <1>1 DEF PlayerType
        <3> QED BY <3>1, <2>3, <2>5, <2>6 DEF Sound, PointersFit
    <2>12. OwnersFit(h)
        <3>1. \A s \in Struct : g.ob[s].owner \in Player \cup {None}
            BY <1>1 DEF ObjectType
        <3> QED BY <3>1, <2>4, <2>5, <2>9 DEF Sound, OwnersFit
    <2>13. TableFits(h)
        BY <1>1, <2>5, <2>9 DEF Sound, TableFits
    <2>14. \A s \in Struct : g.ob[s].attached /\ h.ob[s].attached => h.ob[s].owner = g.ob[s].owner
        BY <1>3, <2>5 DEF b
    <2>15. Sound(h)
        BY <2>5, <2>7, <2>8, <2>10, <2>11, <2>12, <2>13 DEF Sound
    <2> QED BY <2>5, <2>9, <2>14, <2>15 DEF Takes, h
<1> QED BY <1>2, <1>3

LEMMA CollisionTakes ==
    ASSUME NEW g, Sound(g), NEW p \in Player, g.pl[p].state = "alive",
           NEW h \in Collision_player_attach_ball(g, p)
    PROVE  Takes(g, h)
<1>1. Takes(g, g)
    BY DEF Takes
<1>2. Takes(g, [g EXCEPT !.pl[p].ball_tmp = None])
    BY PointTakes
<1>3. ASSUME NEW s \in MayTake(g, p) PROVE Takes(g, [g EXCEPT !.pl[p].ball_tmp = s])
    <2>1. s \in Struct /\ g.ob[s].type = "ball"
        BY SetsSay DEF MayTake
    <2> QED BY <2>1, PointTakes
<1>4. g.pl[p].ball_tmp # None => Takes(g, Attached(g, p))
    BY AttachTakes
<1> QED BY <1>1, <1>2, <1>3, <1>4 DEF Collision_player_attach_ball

-----------------------------------------------------------------------------
(* The start, and the place in the loop.                                   *)

BoxTurn(par, t, g) == Ball_treasure_add(g, t)
Boxes == INSTANCE FoldTheorems WITH Turn <- BoxTurn

\* The balls of the boxes of T are there, and nobody.
Bare(T, h) ==
    /\ h \in GameType /\ FreeFits(h) /\ h.order = << >>
    /\ Len(h.free) = MaxObjects - Cardinality(T)
    /\ \A p \in Player : h.pl[p] = NewPlayer
    /\ \A s \in Struct : ~h.ob[s].attached /\ h.ob[s].owner = None
    /\ \A s \in Struct : h.ob[s].type = "ball" => h.ob[s].treasure \in T
    /\ \A t \in T : \E s \in Struct : h.ob[s].type = "ball" /\ h.ob[s].treasure = t
    /\ \A s, r \in Struct : /\ h.ob[s].type = "ball" /\ h.ob[r].type = "ball"
                            /\ h.ob[s].treasure = h.ob[r].treasure
                            => s = r

LEMMA BoxIsFilled ==
    ASSUME NEW T \in SUBSET Treasure, NEW t \in Treasure \ T, NEW g, Bare(T, g)
    PROVE  Bare(T \cup {t}, Ball_treasure_add(g, t))
<1> DEFINE x == [Object_of("ball", None) EXCEPT !.treasure = t]
           s == Head(g.free)
           h == Ball_treasure_add(g, t)
<1>1. /\ IsFiniteSet(T) /\ IsFiniteSet(T \cup {t}) /\ Cardinality(T) \in Nat
      /\ Cardinality(T \cup {t}) = Cardinality(T) + 1
      /\ Cardinality(T \cup {t}) <= MaxObjects
    <2>1. /\ IsFiniteSet(Treasure) /\ Cardinality(Treasure) <= MaxObjects /\ MaxObjects \in Nat
        BY BallsAssumption
    <2>2. T \cup {t} \subseteq Treasure /\ T \subseteq Treasure
        OBVIOUS
    <2>3. IsFiniteSet(T) /\ IsFiniteSet(T \cup {t}) /\ Cardinality(T \cup {t}) <= Cardinality(Treasure)
        BY <2>1, <2>2, FS_Subset
    <2>4. Cardinality(T) \in Nat /\ Cardinality(T \cup {t}) = Cardinality(T) + 1
        BY <2>3, FS_AddElement, FS_CardinalityType
    <2>5. Cardinality(Treasure) \in Nat
        BY <2>1, FS_CardinalityType
    <2> QED BY <2>1, <2>3, <2>4, <2>5
<1>2. /\ g \in GameType /\ g.free \in Seq(Struct) /\ IsInjective(g.free)
      /\ g.ob \in [Struct -> ObjectType] /\ g.have \in [Treasure -> BOOLEAN]
      /\ MaxObjects \in Nat
    BY BallsAssumption DEF Bare, FreeFits, GameType
<1>3. g.free # << >> /\ Len(Tail(g.free)) = MaxObjects - Cardinality(T \cup {t})
    <2>1. Len(g.free) = MaxObjects - Cardinality(T) /\ Len(g.free) > 0
        BY <1>1, <1>2 DEF Bare
    <2>2. g.free # << >> /\ Len(Tail(g.free)) = Len(g.free) - 1
        BY <2>1, <1>2
    <2> QED BY <2>1, <2>2, <1>1, <1>2
<1>4. /\ s \in Struct /\ s \in Range(g.free)
      /\ Tail(g.free) \in Seq(Struct) /\ IsInjective(Tail(g.free))
      /\ \A r \in Struct : r \in Range(Tail(g.free)) <=> r \in Range(g.free) /\ r # s
    BY <1>2, <1>3, Popped
<1>5. x \in ObjectType /\ ~x.attached /\ x.type = "ball" /\ x.owner = None /\ x.treasure = t
    BY DEF Object_of, Wiped, ObjectType
<1> HIDE DEF x
<1>6. h = [[g EXCEPT !.free = Tail(@), !.ob[s] = x] EXCEPT !.have[t] = TRUE]
    BY <1>3 DEF Ball_treasure_add, Object_add, x
<1> HIDE DEF s, h
<1>7. /\ h.pl = g.pl /\ h.order = g.order /\ h.free = Tail(g.free)
      /\ h.ob = [g.ob EXCEPT ![s] = x] /\ h.have = [g.have EXCEPT ![t] = TRUE]
      /\ h = [pl |-> h.pl, order |-> h.order, free |-> h.free, ob |-> h.ob, have |-> h.have]
    BY <1>2, <1>6 DEF GameType
<1>8. /\ h.ob \in [Struct -> ObjectType] /\ h.have \in [Treasure -> BOOLEAN]
      /\ h.ob[s] = x /\ \A r \in Struct : r # s => h.ob[r] = g.ob[r]
    BY <1>2, <1>4, <1>5, <1>7
<1>9. h \in GameType
    BY <1>2, <1>4, <1>7, <1>8 DEF GameType
<1>10. FreeFits(h)
    BY <1>4, <1>5, <1>7, <1>8 DEF Bare, FreeFits
<1>11. g.ob[s].type = "none"
    BY <1>4 DEF Bare, FreeFits
<1>12. \A r \in Struct : ~h.ob[r].attached /\ h.ob[r].owner = None
    BY <1>5, <1>8 DEF Bare
<1>13. \A r \in Struct : h.ob[r].type = "ball" => h.ob[r].treasure \in T \cup {t}
    BY <1>5, <1>8 DEF Bare
<1>14. ASSUME NEW u \in T \cup {t}
       PROVE  \E r \in Struct : h.ob[r].type = "ball" /\ h.ob[r].treasure = u
    <2>1. CASE u = t
        BY <2>1, <1>4, <1>5, <1>8
    <2>2. CASE u \in T
        BY <2>2, <1>8, <1>11 DEF Bare
    <2> QED BY <2>1, <2>2
<1>15. ASSUME NEW r \in Struct, NEW q \in Struct, h.ob[r].type = "ball", h.ob[q].type = "ball",
              h.ob[r].treasure = h.ob[q].treasure
       PROVE  r = q
    <2>1. \A v \in Struct : v # s /\ h.ob[v].type = "ball" => h.ob[v].treasure # t
        BY <1>8 DEF Bare
    <2>2. CASE r = s \/ q = s
        BY <2>1, <2>2, <1>5, <1>8, <1>15
    <2>3. CASE r # s /\ q # s
        BY <2>3, <1>8, <1>15 DEF Bare
    <2> QED BY <2>2, <2>3
<1>16. h.order = << >> /\ \A p \in Player : h.pl[p] = NewPlayer
    BY <1>7 DEF Bare
<1>17. Len(h.free) = MaxObjects - Cardinality(T \cup {t})
    BY <1>3, <1>7
<1> QED BY <1>9, <1>10, <1>12, <1>13, <1>14, <1>15, <1>16, <1>17 DEF Bare, h

LEMMA InitIsSound ==
    Init => Sound(game)
<1> SUFFICES ASSUME Init PROVE Sound(game)
    OBVIOUS
<1> DEFINE g == [pl |-> [p \in Player |-> NewPlayer],
                 order |-> << >>,
                 free |-> [i \in Struct |-> i],
                 ob |-> [i \in Struct |-> Wiped],
                 have |-> [t \in Treasure |-> FALSE]]
           A == [T \in SUBSET Treasure |-> {h \in GameType : Bare(T, h)}]
           end == Boxes!OverSet(0, g, Treasure)
<1>1. game = end
    BY DEF Init, FoldSet, MapThenFoldSet, Boxes!OverSet, BoxTurn
<1>2. Bare({}, g)
    <2>1. /\ g.free \in Seq(Struct) /\ DOMAIN g.free = Struct /\ Len(g.free) = MaxObjects
          /\ \A i \in Struct : g.free[i] = i
        BY BallsAssumption DEF Struct
    <2>2. NewPlayer \in PlayerType
        BY DEF NewPlayer, PlayerType
    <2>3. g \in GameType
        BY <2>1, <2>2, WipedObject DEF GameType
    <2>4. IsInjective(g.free) /\ Range(g.free) = Struct
        BY <2>1 DEF IsInjective, Range
    <2>5. Cardinality({}) = 0 /\ MaxObjects \in Nat
        BY FS_EmptySet, BallsAssumption
    <2>6. \A s \in Struct : g.ob[s] = Wiped
        OBVIOUS
    <2>7. g.order = << >> /\ \A p \in Player : g.pl[p] = NewPlayer
        OBVIOUS
    <2> HIDE DEF g
    <2>8. FreeFits(g)
        BY <2>4, <2>6, WipedObject DEF FreeFits
    <2>9. Len(g.free) = MaxObjects - Cardinality({})
        BY <2>1, <2>5
    <2> QED BY <2>3, <2>6, <2>7, <2>8, <2>9, WipedObject DEF Bare
<1>3. g \in A[{}]
    BY <1>2 DEF Bare
<1>4. Boxes!SetCarries(0, Treasure, A)
    <2>1. ASSUME NEW T \in SUBSET Treasure, NEW t \in Treasure \ T, NEW h \in A[T]
          PROVE  BoxTurn(0, t, h) \in A[T \cup {t}]
        <3>1. Bare(T \cup {t}, BoxTurn(0, t, h))
            BY BoxIsFilled DEF BoxTurn
        <3> QED BY <3>1 DEF Bare
    <2> QED BY <2>1 DEF Boxes!SetCarries
<1>5. Boxes!IsFiniteSet(Treasure)
    BY BallsAssumption DEF IsFiniteSet, Boxes!IsFiniteSet
<1>6. \A h \in A[Treasure] : Bare(Treasure, h)
    OBVIOUS
<1> HIDE DEF A, g, end
<1>7. end \in A[Treasure]
    BY <1>3, <1>4, <1>5, Boxes!SetIsCarried DEF end
<1>8. Bare(Treasure, game)
    BY <1>1, <1>6, <1>7
<1>9. game \in GameType /\ FreeFits(game)
    BY <1>8 DEF Bare
<1>10. BoxFits(game)
    BY <1>8 DEF Bare, BoxFits
<1>11. CarryFits(game) /\ PointersFit(game) /\ OwnersFit(game) /\ TableFits(game)
    BY <1>8 DEF Bare, CarryFits, PointersFit, OwnersFit, TableFits, NewPlayer
<1> QED BY <1>9, <1>10, <1>11 DEF Sound

\* While collisions are looked for, the next player is one of the table that lives.
LoopFits(g, l) ==
    /\ l \in [at : {"input", "collide", "kill"}, i : Nat, frame_cycle : 0 .. frameDivisor - 1]
    /\ l.at = "collide" => l.i \in DOMAIN g.order /\ g.pl[g.order[l.i]].state = "alive"

LEMMA ToCollideFits ==
    ASSUME NEW g, Sound(g), NEW h, LoopFits(h, loop), NEW i \in Nat \ {0}
    PROVE  LoopFits(g, ToCollide(g, i)) /\ ToCollide(g, i).i \in Nat
<1> DEFINE J == {j \in i .. Len(g.order) : g.pl[g.order[j]].state = "alive"}
           m == NextAlive(g, i)
           l == ToCollide(g, i)
<1>1. g.order \in Seq(Player) /\ Len(g.order) \in Nat /\ DOMAIN g.order = 1 .. Len(g.order)
    BY DEF Sound, GameType
<1>2. m = 0 \/ m \in J
    <2>1. CASE J = {}
        BY <2>1 DEF NextAlive
    <2>2. CASE J # {}
        <3>1. J \in SUBSET Nat
            BY <1>1
        <3> HIDE DEF J
        <3>2. \E n \in J : \A k \in J : n <= k
            BY <2>2, <3>1, Boxes!SmallestNumber
        <3>3. Min(J) \in J
            BY <3>2 DEF Min
        <3> QED BY <2>2, <3>3 DEF NextAlive, J
    <2> QED BY <2>1, <2>2
<1>3. \A j \in J : j \in DOMAIN g.order /\ j # 0 /\ j \in Nat /\ g.pl[g.order[j]].state = "alive"
    BY <1>1
<1>4. loop \in [at : {"input", "collide", "kill"}, i : Nat, frame_cycle : 0 .. frameDivisor - 1]
    BY DEF LoopFits
<1> HIDE DEF m
<1>5. /\ l.at = IF Frame_is_real /\ m # 0 THEN "collide" ELSE "kill"
      /\ l.i = IF Frame_is_real THEN m ELSE 0
      /\ l.frame_cycle = loop.frame_cycle
      /\ l \in [at : {"input", "collide", "kill"}, i : Nat, frame_cycle : 0 .. frameDivisor - 1]
    <2> DEFINE a == IF Frame_is_real /\ m # 0 THEN "collide" ELSE "kill"
               j == IF Frame_is_real THEN m ELSE 0
    <2>1. l = [loop EXCEPT !.at = a, !.i = j]
        BY DEF ToCollide, m
    <2>2. a \in {"input", "collide", "kill"} /\ j \in Nat
        BY <1>2, <1>3
    <2> HIDE DEF a, j, l
    <2>3. /\ l.at = a /\ l.i = j /\ l.frame_cycle = loop.frame_cycle
          /\ l \in [at : {"input", "collide", "kill"}, i : Nat, frame_cycle : 0 .. frameDivisor - 1]
        BY <1>4, <2>1, <2>2
    <2> QED BY <2>3 DEF a, j
<1> HIDE DEF l, J
<1>6. l.at = "collide" => l.i = m /\ m \in J
    BY <1>2, <1>5
<1> QED BY <1>3, <1>5, <1>6 DEF LoopFits, l

-----------------------------------------------------------------------------
(* Each action.                                                            *)

BallsInv == Sound(game) /\ LoopFits(game, loop)

\* What each step shows: the game is sound after it, and nobody's ball is taken away.
Kept ==
    /\ Sound(game') /\ LoopFits(game', loop')
    /\ \A s \in Struct : game.ob[s].attached /\ game'.ob[s].attached
                             => game'.ob[s].owner = game.ob[s].owner

\* Between the frames the place in the loop does not matter.
LEMMA InputKept ==
    ASSUME BallsInv, Input, Sound(game'), Held(game, game')
    PROVE  Kept
BY DEF BallsInv, Input, LoopFits, Held, Kept

LEMMA FollowsKept ==
    ASSUME NEW g, NEW h, Follows(g, h)
    PROVE  Sound(h) /\ Held(g, h)
BY DEF Follows

LEMMA LoginKept ==
    ASSUME BallsInv, NEW p \in Player, NEW t \in Team, Login(p, t)
    PROVE  Kept
<1> PICK state \in {"alive", "idle"} :
        game' = [game EXCEPT !.pl[p] = [@ EXCEPT !.state = state, !.team = t],
                             !.order = Append(@, p)]
    BY DEF Login
<1> DEFINE x == game.pl[p]
           y == [x EXCEPT !.state = state, !.team = t]
<1>1. /\ Sound(game) /\ game \in GameType /\ x \in PlayerType /\ x.state = "out"
      /\ game.pl \in [Player -> PlayerType] /\ game.order \in Seq(Player)
    BY DEF BallsInv, Sound, GameType, Login, InGame
<1>2. /\ y \in PlayerType /\ y.has = x.has /\ y.ball_tmp = x.ball_tmp /\ y.state = state
    <2> HIDE DEF x
    <2> QED BY <1>1 DEF PlayerType
<1>3. game' = [game EXCEPT !.pl[p] = y, !.order = Append(game.order, p)]
    OBVIOUS
<1> HIDE DEF y
<1>4. /\ game'.pl = [game.pl EXCEPT ![p] = y] /\ game'.order = Append(game.order, p)
      /\ game'.free = game.free /\ game'.ob = game.ob /\ game'.have = game.have
      /\ game' = [pl |-> game'.pl, order |-> game'.order, free |-> game'.free,
                  ob |-> game'.ob, have |-> game'.have]
    BY <1>1, <1>3 DEF GameType
<1>5. /\ game'.pl \in [Player -> PlayerType] /\ game'.order \in Seq(Player)
      /\ game'.pl[p] = y /\ \A q \in Player \ {p} : game'.pl[q] = game.pl[q]
    BY <1>1, <1>2, <1>4
<1>6. game' \in GameType
    BY <1>1, <1>4, <1>5 DEF GameType
<1>7. \A s \in Struct : ~(game.ob[s].attached /\ game.ob[s].owner = p)
    BY <1>1 DEF Sound, CarryFits
<1>8. Acted(game, game')
    BY <1>1, <1>2, <1>4, <1>5, <1>7 DEF Acted
<1>9. TableFits(game')
    <2> DEFINE n == Len(game.order)
    <2>1. /\ n \in Nat /\ DOMAIN game.order = 1 .. n
          /\ \A i \in 1 .. n : /\ game.order[i] \in Player
                               /\ game.pl[game.order[i]].state # "out"
          /\ \A i, j \in 1 .. n : game.order[i] = game.order[j] => i = j
        BY <1>1 DEF Sound, TableFits
    <2>2. /\ DOMAIN game'.order = 1 .. n + 1
          /\ \A i \in 1 .. n + 1 : game'.order[i] = IF i = n + 1 THEN p ELSE game.order[i]
        BY <1>1, <1>4
    <2> HIDE DEF n
    <2>3. \A i \in 1 .. n : game.order[i] # p
        BY <1>1, <2>1
    <2>4. \A i \in 1 .. n + 1 : i # n + 1 => i \in 1 .. n
        BY <2>1
    <2>5. \A i \in 1 .. n + 1 : game'.pl[game'.order[i]].state # "out"
        BY <1>2, <1>5, <2>1, <2>2, <2>3, <2>4
    <2>6. \A i, j \in 1 .. n + 1 : game'.order[i] = game'.order[j] => i = j
        BY <2>1, <2>2, <2>3, <2>4
    <2> QED BY <2>2, <2>5, <2>6 DEF TableFits
<1>10. Follows(game, game')
    BY <1>1, <1>6, <1>8, <1>9, ActedFollows
<1> QED BY <1>10, FollowsKept, InputKept DEF Login

LEMMA LeaveKept ==
    ASSUME BallsInv, NEW p \in Player, Leave(p)
    PROVE  Kept
BY LeaveIsSound, InputKept DEF Leave, BallsInv

\* A player drops what it carries and goes elsewhere.
LEMMA MoveFollows ==
    ASSUME NEW g, Sound(g), NEW p \in Player, NEW state \in {"idle", "paused", "alive", "killed"},
           NEW team \in Team \cup {None}
    PROVE  Follows(g, [Ball_detach(g, p, None) EXCEPT
                          !.pl[p] = [@ EXCEPT !.team = team, !.state = state]])
<1> DEFINE d == Ball_detach(g, p, None)
           h == [d EXCEPT !.pl[p] = [@ EXCEPT !.team = team, !.state = state]]
<1>1. /\ Follows(g, d) /\ \A s \in Struct : ~(d.ob[s].attached /\ d.ob[s].owner = p)
    BY DetachDrops
<1> HIDE DEF d
<1>2. Follows(d, h)
    BY <1>1, IdleFollows DEF Follows
<1> HIDE DEF h
<1>3. Follows(g, h)
    BY <1>1, <1>2, FollowsOn DEF Sound
<1> QED BY <1>3 DEF d, h

LEMMA SwapKept ==
    ASSUME BallsInv, NEW p \in Player, NEW t \in Team, Player_swap_team(p, t)
    PROVE  Kept
<1>1. PICK state \in {"idle", "alive"} :
          game' = [Ball_detach(game, p, None) EXCEPT
                      !.pl[p] = [@ EXCEPT !.team = t, !.state = state]]
    BY DEF Player_swap_team
<1>2. Follows(game, [Ball_detach(game, p, None) EXCEPT
                        !.pl[p] = [@ EXCEPT !.team = t, !.state = state]])
    BY MoveFollows DEF BallsInv
<1>3. Follows(game, game')
    BY <1>1, <1>2
<1> QED BY <1>3, FollowsKept, InputKept DEF Player_swap_team

LEMMA PauseKept ==
    ASSUME BallsInv, NEW p \in Player, Player_pause_forced(p)
    PROVE  Kept
<1>1. game' = [Ball_detach(game, p, None) EXCEPT
                  !.pl[p] = [@ EXCEPT !.team = None, !.state = "paused"]]
    BY DEF Player_pause_forced
<1>2. Follows(game, [Ball_detach(game, p, None) EXCEPT
                        !.pl[p] = [@ EXCEPT !.team = None, !.state = "paused"]])
    BY MoveFollows DEF BallsInv
<1>3. Follows(game, game')
    BY <1>1, <1>2
<1> QED BY <1>3, FollowsKept, InputKept DEF Player_pause_forced

LEMMA SwapTeamsKept ==
    ASSUME BallsInv, NEW p \in Player, NEW q \in Player, Players_swap_teams(p, q)
    PROVE  Kept
<1> DEFINE y == [game.pl[p] EXCEPT !.team = game.pl[q].team]
           z == [game.pl[q] EXCEPT !.team = game.pl[p].team]
           g == [game EXCEPT !.pl = [@ EXCEPT ![p].team = game.pl[q].team,
                                              ![q].team = game.pl[p].team]]
           d == Ball_detach(g, p, None)
<1>1. /\ Sound(game) /\ game \in GameType /\ p # q
      /\ game.pl \in [Player -> PlayerType]
      /\ \A i \in DOMAIN game.order : game.order[i] \in Player
    BY DEF BallsInv, Sound, GameType, Players_swap_teams
<1>2. /\ y \in PlayerType /\ y.has = game.pl[p].has /\ y.state = game.pl[p].state
      /\ y.ball_tmp = game.pl[p].ball_tmp
      /\ z \in PlayerType /\ z.has = game.pl[q].has /\ z.state = game.pl[q].state
      /\ z.ball_tmp = game.pl[q].ball_tmp
    <2> DEFINE a == game.pl[p]
               b == game.pl[q]
    <2>1. a \in PlayerType /\ b \in PlayerType
        BY <1>1
    <2> HIDE DEF a, b
    <2>2. /\ [a EXCEPT !.team = b.team] \in PlayerType
          /\ [a EXCEPT !.team = b.team].has = a.has
          /\ [a EXCEPT !.team = b.team].state = a.state
          /\ [a EXCEPT !.team = b.team].ball_tmp = a.ball_tmp
        BY <2>1 DEF PlayerType
    <2>3. /\ [b EXCEPT !.team = a.team] \in PlayerType
          /\ [b EXCEPT !.team = a.team].has = b.has
          /\ [b EXCEPT !.team = a.team].state = b.state
          /\ [b EXCEPT !.team = a.team].ball_tmp = b.ball_tmp
        BY <2>1 DEF PlayerType
    <2> QED BY <2>2, <2>3 DEF a, b
<1>3. g = [game EXCEPT !.pl = [game.pl EXCEPT ![p] = y, ![q] = z]]
    BY <1>1
<1> HIDE DEF y, z, g
<1>4. /\ g.order = game.order /\ g.free = game.free /\ g.ob = game.ob /\ g.have = game.have
      /\ g.pl \in [Player -> PlayerType] /\ g \in GameType
      /\ g.pl[p] = y /\ g.pl[q] = z
      /\ \A r \in Player \ {p, q} : g.pl[r] = game.pl[r]
    BY <1>1, <1>2, <1>3 DEF GameType
<1>5. \A r \in Player : /\ g.pl[r].has = game.pl[r].has /\ g.pl[r].state = game.pl[r].state
                        /\ g.pl[r].ball_tmp = game.pl[r].ball_tmp
    BY <1>2, <1>4
<1>6. Acted(game, g) /\ TableFits(g)
    BY <1>1, <1>4, <1>5 DEF Acted, Sound, TableFits
<1>7. Follows(game, g)
    BY <1>1, <1>4, <1>6, ActedFollows
<1>8. Follows(g, d)
    BY <1>7, DetachDrops DEF Follows
<1> HIDE DEF d
<1>9. Follows(d, Ball_detach(d, q, None))
    BY <1>8, DetachDrops DEF Follows
<1>10. game' = Ball_detach(d, q, None)
    BY DEF Players_swap_teams, d, g
<1>11. Follows(game, d)
    BY <1>1, <1>7, <1>8, FollowsOn
<1>12. Follows(game, game')
    BY <1>1, <1>9, <1>10, <1>11, FollowsOn
<1> QED BY <1>12, FollowsKept, InputKept DEF Players_swap_teams

LEMMA KeyKept ==
    ASSUME BallsInv, NEW p \in Player, Key(p)
    PROVE  Kept
<1>1. CASE game' = Ball_detach(game, p, None)
    <2>1. Follows(game, game')
        BY <1>1, DetachDrops DEF BallsInv
    <2> QED BY <2>1, FollowsKept, InputKept DEF Key
<1>2. CASE game' = [game EXCEPT !.pl[p].connector = ~@]
    <2> DEFINE x == game.pl[p]
               b == ~game.pl[p].connector
               y == [x EXCEPT !.connector = b]
    <2>1. /\ Sound(game) /\ game \in GameType /\ x \in PlayerType /\ b \in BOOLEAN
          /\ game.pl \in [Player -> PlayerType]
          /\ \A i \in DOMAIN game.order : game.order[i] \in Player
        BY DEF BallsInv, Sound, GameType
    <2>2. game' = [game EXCEPT !.pl[p] = y]
        BY <1>2
    <2>3. y \in PlayerType /\ y.has = x.has /\ y.state = x.state /\ y.ball_tmp = x.ball_tmp
        <3> HIDE DEF x, b
        <3> QED BY <2>1 DEF PlayerType
    <2> HIDE DEF y
    <2>4. /\ game'.order = game.order /\ game'.free = game.free
          /\ game'.ob = game.ob /\ game'.have = game.have
          /\ game'.pl \in [Player -> PlayerType] /\ game' \in GameType
          /\ game'.pl[p] = y /\ \A q \in Player \ {p} : game'.pl[q] = game.pl[q]
        BY <2>1, <2>2, <2>3 DEF GameType
    <2>5. Acted(game, game') /\ TableFits(game')
        BY <2>1, <2>3, <2>4 DEF Acted, Sound, TableFits
    <2>6. Follows(game, game')
        BY <2>1, <2>4, <2>5, ActedFollows
    <2> QED BY <2>6, FollowsKept, InputKept DEF Key
<1> QED BY <1>1, <1>2 DEF Key

\* What is left in the pool times out.
LEMMA TimeOutFollows ==
    ASSUME NEW g, NEW h, Follows(g, h), g \in GameType
    PROVE  Follows(g, Objects_time_out(h))
<1>1. Follows(h, Objects_time_out(h))
    BY ExpireFollows DEF Follows, Objects_time_out
<1> QED BY <1>1, FollowsOn

LEMMA ResetKept ==
    ASSUME BallsInv, Cmd_reset
    PROVE  Kept
<1> PICK n \in 0 .. MaxDebris : game' = Objects_time_out(Players_reset(game, n))
    BY DEF Cmd_reset
<1>1. n \in Nat /\ Sound(game) /\ game \in GameType
    BY BallsAssumption DEF BallsInv, Sound
<1>2. Follows(game, Players_reset(game, n))
    BY <1>1, ResetFollows
<1>3. Follows(game, game')
    BY <1>1, <1>2, TimeOutFollows
<1> QED BY <1>3, FollowsKept, InputKept DEF Cmd_reset

LEMMA NobodyKept ==
    ASSUME BallsInv, Nobody
    PROVE  Kept
<1>1. Sound(game) /\ game \in GameType
    BY DEF BallsInv, Sound
<1>2. Follows(game, game')
    BY <1>1, FollowsItself, TimeOutFollows DEF Nobody
<1> QED BY <1>2, FollowsKept, InputKept DEF Nobody

LEMMA UpdateKept ==
    ASSUME BallsInv, Update
    PROVE  Kept
<1>1. PICK P \in SUBSET Alive(game) :
      \E g \in Update_mobile_objects(Players_shoot(game, P)) :
      \E R \in SUBSET {p \in Player : game.pl[p].state = "idle"} :
      \E D \in SUBSET Alive(game), n \in 0 .. MaxDebris :
      \E K \in SUBSET ((Alive(game) \cup R) \ D) :
          game' = Update_players(g, R, D, K, n)
    BY DEF Update
<1>2. PICK g \in Update_mobile_objects(Players_shoot(game, P)) :
      \E R \in SUBSET {p \in Player : game.pl[p].state = "idle"} :
      \E D \in SUBSET Alive(game), n \in 0 .. MaxDebris :
      \E K \in SUBSET ((Alive(game) \cup R) \ D) :
          game' = Update_players(g, R, D, K, n)
    BY <1>1
<1>3. PICK R \in SUBSET {p \in Player : game.pl[p].state = "idle"},
           D \in SUBSET Alive(game), n \in 0 .. MaxDebris :
      \E K \in SUBSET ((Alive(game) \cup R) \ D) :
          game' = Update_players(g, R, D, K, n)
    BY <1>2
<1>4. PICK K \in SUBSET ((Alive(game) \cup R) \ D) : game' = Update_players(g, R, D, K, n)
    BY <1>3
<1>5. /\ R \in SUBSET Player /\ D \in SUBSET Player /\ K \in SUBSET Player /\ P \in SUBSET Player
      /\ n \in Nat
      /\ \A p \in D \cup P : p \in Player /\ game.pl[p].state # "out"
    BY BallsAssumption DEF Alive
<1> DEFINE s == Players_shoot(game, P)
<1>6. Follows(game, s) /\ s.pl = game.pl /\ Sound(game) /\ game \in GameType
    BY <1>5, ShootFollows DEF BallsInv, Sound
<1> HIDE DEF s
<1>7. Follows(s, g) /\ \A p \in Player : g.pl[p].state = s.pl[p].state
    BY <1>6, MobileFollows DEF Follows, s
<1>8. Sound(g) /\ \A p \in D : g.pl[p].state # "out"
    BY <1>5, <1>6, <1>7 DEF Follows
<1>9. Follows(g, game')
    BY <1>4, <1>5, <1>8, UpdateFollows
<1>10. Follows(game, g)
    BY <1>6, <1>7, FollowsOn
<1>11. Follows(game, game')
    BY <1>6, <1>9, <1>10, FollowsOn
<1>12. loop' = ToCollide(game', 1) /\ 1 \in Nat \ {0} /\ Sound(game')
    BY <1>11 DEF Update, Follows
<1>13. LoopFits(game', ToCollide(game', 1))
    BY <1>12, ToCollideFits DEF BallsInv
<1> QED BY <1>11, <1>12, <1>13 DEF Kept, Follows, Held

LEMMA KillFollows ==
    ASSUME NEW g, Sound(g), NEW K
    PROVE  /\ Follows(g, Collision_player_player_check(g, K))
           /\ Collision_player_player_check(g, K).ob = g.ob
           /\ \A q \in Player : q \notin K =>
                  Collision_player_player_check(g, K).pl[q] = g.pl[q]
<1> DEFINE h == [g EXCEPT !.pl = [q \in Player |->
                   IF q \in K THEN [@[q] EXCEPT !.state = "killed"] ELSE @[q]]]
<1>1. Follows(g, h)
    BY StatesFollow
<1>2. h.ob = g.ob /\ \A q \in Player : q \notin K => h.pl[q] = g.pl[q]
    <2>1. g \in GameType
        BY DEF Sound
    <2> QED BY <2>1 DEF GameType
<1>3. Collision_player_player_check(g, K) = h
    BY DEF Collision_player_player_check
<1> HIDE DEF h
<1> QED BY <1>1, <1>2, <1>3

LEMMA CollideKept ==
    ASSUME BallsInv, Collide
    PROVE  Kept
<1> DEFINE p == game.order[loop.i]
<1>1. /\ Sound(game) /\ game \in GameType /\ p \in Player /\ game.pl[p].state = "alive"
      /\ loop.i \in Nat \ {0}
    BY DEF BallsInv, Sound, GameType, LoopFits, Collide
<1> DEFINE later == {game.order[j] : j \in loop.i .. Len(game.order)} \cap Alive(game)
           g(K) == Collision_player_player_check(game, K)
           Hit(K, h) == \E hit \in Few(MayHit(h, p)), dies \in BOOLEAN :
               /\ dies => hit # {} \/ \E s \in MayHit(h, p) : h.ob[s].type = "debris"
               /\ game' = Collision_player_object_check(h, p, hit, dies)
           Turn(K) == IF p \in K THEN game' = g(K)
                      ELSE \E h \in Collision_player_attach_ball(g(K), p) : Hit(K, h)
<1>15. \E K \in {S \in SUBSET later : Cardinality(S) <= 2} : Turn(K)
    BY DEF Collide
<1>16. later \subseteq Player
    BY DEF Alive
<1>17. ASSUME NEW K, NEW h, Hit(K, h)
       PROVE  \E hit, dies : game' = Collision_player_object_check(h, p, hit, dies)
    <2> HIDE DEF p
    <2> QED BY <1>17
<1> HIDE DEF later, Turn
<1>2. PICK K \in SUBSET Player : Turn(K)
    BY <1>15, <1>16
<1>3. /\ Follows(game, g(K)) /\ g(K).ob = game.ob
      /\ \A q \in Player : q \notin K => g(K).pl[q] = game.pl[q]
    BY <1>1, KillFollows
<1>4. loop' = ToCollide(game', loop.i + 1) /\ loop.i + 1 \in Nat \ {0}
    BY <1>1 DEF Collide
<1>5. Sound(game') /\ \A s \in Struct : game.ob[s].attached /\ game'.ob[s].attached
                             => game'.ob[s].owner = game.ob[s].owner
    <2>1. CASE p \in K
        BY <1>2, <1>3, <2>1 DEF Turn, Follows, Held
    <2>2. CASE p \notin K
        <3>1. PICK h \in Collision_player_attach_ball(g(K), p) : Hit(K, h)
            BY <1>2, <2>2 DEF Turn
        <3>2. PICK hit, dies : game' = Collision_player_object_check(h, p, hit, dies)
            BY <1>17, <3>1
        <3> HIDE DEF g, p, Hit
        <3>3. Sound(g(K)) /\ g(K).pl[p].state = "alive"
            BY <1>1, <1>3, <2>2 DEF Follows
        <3>4. Takes(g(K), h)
            BY <1>1, <3>3, CollisionTakes
        <3> DEFINE e == Object_expire(h, {s \in hit : Destroys \/ h.ob[s].type # "ball"})
                   k == [e EXCEPT !.pl = [q \in Player |->
                            IF q \in {p} THEN [@[q] EXCEPT !.state = "killed"] ELSE @[q]]]
        <3>5. /\ Follows(h, e) /\ Sound(e)
              /\ \A s \in Struct : /\ e.ob[s].owner = h.ob[s].owner
                                   /\ e.ob[s].attached = h.ob[s].attached
            <4>1. Sound(h)
                BY <3>4 DEF Takes
            <4> QED BY <4>1, ExpireFollows DEF Follows
        <3>6. game' = IF dies THEN [e EXCEPT !.pl[p].state = "killed"] ELSE e
            BY <3>2 DEF Collision_player_object_check
        <3> HIDE DEF e
        <3>7. Follows(e, k) /\ k.ob = e.ob
            BY <3>5, StatesFollow
        <3>8. [e EXCEPT !.pl[p].state = "killed"] = k
            <4>1. e.pl \in [Player -> PlayerType]
                BY <3>5 DEF Sound, GameType
            <4>2. [e.pl EXCEPT ![p].state = "killed"]
                      = [q \in Player |-> IF q \in {p} THEN [e.pl[q] EXCEPT !.state = "killed"]
                                          ELSE e.pl[q]]
                BY <1>1, <4>1
            <4> QED BY <4>2
        <3> HIDE DEF k
        <3>9. Sound(game') /\ game'.ob = e.ob
            BY <3>5, <3>6, <3>7, <3>8 DEF Follows
        <3> QED BY <1>3, <3>4, <3>5, <3>9 DEF Takes
    <2> QED BY <2>1, <2>2
<1>6. LoopFits(game', ToCollide(game', loop.i + 1))
    BY <1>4, <1>5, ToCollideFits DEF BallsInv
<1> QED BY <1>4, <1>5, <1>6 DEF Kept

LEMMA EndFrameKept ==
    ASSUME BallsInv, End_frame
    PROVE  Kept
<1> DEFINE killed == {p \in Player : game.pl[p].state = "killed"}
           G(n) == FoldLeft(LAMBDA h, p : IF p \in killed THEN Player_destroy(h, p, n) ELSE h,
                            game, Reverse(game.order))
           Q(n, over) == IF over THEN Objects_time_out(Players_reset(G(n), n)) ELSE G(n)
<1>1. PICK n \in 0 .. MaxDebris, over \in BOOLEAN :
          \E due : game' = Objects_remove_timed_out(Q(n, over), due)
    BY DEF End_frame
<1>2. PICK due : game' = Objects_remove_timed_out(Q(n, over), due)
    BY <1>1
<1>3. /\ n \in Nat /\ Sound(game) /\ game \in GameType
      /\ killed \in SUBSET Player /\ \A p \in killed : game.pl[p].state # "out"
    BY BallsAssumption DEF BallsInv, Sound
<1> DEFINE g == G(n)
           r == Q(n, over)
<1>4. Follows(game, g)
    BY <1>3, KillAll
<1>5. r = IF over THEN Objects_time_out(Players_reset(g, n)) ELSE g
    OBVIOUS
<1>51. game' = Objects_remove_timed_out(r, due)
    BY <1>2
<1> HIDE DEF g, r, G, Q
<1>6. Follows(g, Players_reset(g, n)) /\ g \in GameType
    BY <1>3, <1>4, ResetFollows DEF Follows, Sound
<1>7. Follows(game, r)
    <2>1. Follows(g, r)
        BY <1>4, <1>5, <1>6, TimeOutFollows, FollowsItself DEF Follows
    <2> QED BY <1>3, <1>4, <2>1, FollowsOn
<1>8. Follows(r, game')
    BY <1>51, <1>7, TimedOutFollows DEF Follows
<1>9. Follows(game, game')
    BY <1>3, <1>7, <1>8, FollowsOn
<1>10. LoopFits(game', loop')
    <2>1. loop' = [at |-> "input", i |-> 0, frame_cycle |-> (loop.frame_cycle + 1) % frameDivisor]
        BY DEF End_frame
    <2>2. frameDivisor \in Nat \ {0} /\ loop.frame_cycle \in Nat
        BY BallsAssumption DEF BallsInv, LoopFits
    <2>3. (loop.frame_cycle + 1) % frameDivisor \in 0 .. frameDivisor - 1
        BY <2>2
    <2> QED BY <2>1, <2>3 DEF LoopFits
<1> QED BY <1>9, <1>10 DEF Kept, Follows, Held

LEMMA StepKept ==
    ASSUME BallsInv, Next
    PROVE  Kept
<1> USE DEF Next
<1>1. ASSUME NEW p \in Player, NEW t \in Team, Login(p, t) PROVE Kept
    BY <1>1, LoginKept
<1>2. ASSUME NEW p \in Player, NEW t \in Team, Player_swap_team(p, t) PROVE Kept
    BY <1>2, SwapKept
<1>3. ASSUME NEW p \in Player, NEW q \in Player, Players_swap_teams(p, q) PROVE Kept
    BY <1>3, SwapTeamsKept
<1>4. ASSUME NEW p \in Player, Leave(p) PROVE Kept
    BY <1>4, LeaveKept
<1>5. ASSUME NEW p \in Player, Player_pause_forced(p) PROVE Kept
    BY <1>5, PauseKept
<1>6. ASSUME NEW p \in Player, Key(p) PROVE Kept
    BY <1>6, KeyKept
<1>7. CASE Cmd_reset
    BY <1>7, ResetKept
<1>8. CASE Nobody
    BY <1>8, NobodyKept
<1>9. CASE Update
    BY <1>9, UpdateKept
<1>10. CASE Collide
    BY <1>10, CollideKept
<1>11. CASE End_frame
    BY <1>11, EndFrameKept
<1> QED BY <1>1, <1>2, <1>3, <1>4, <1>5, <1>6, <1>7, <1>8, <1>9, <1>10, <1>11

-----------------------------------------------------------------------------
(* Theorems.                                                               *)

\* The game is sound after every step, whoever is in it.
THEOREM BallsStaySound == Spec => []BallsInv
<1>1. Init => BallsInv
    <2>1. Init => LoopFits(game, loop)
        <3>1. 0 \in 0 .. frameDivisor - 1
            <4>1. frameDivisor \in Nat \ {0}
                BY BallsAssumption
            <4> QED BY <4>1
        <3>2. Init => loop = [at |-> "input", i |-> 0, frame_cycle |-> 0]
            BY DEF Init
        <3> QED BY <3>1, <3>2 DEF LoopFits
    <2> QED BY <2>1, InitIsSound DEF BallsInv
<1>2. BallsInv /\ [Next]_vars => BallsInv'
    <2>1. CASE Next
        BY <2>1, StepKept DEF Kept, BallsInv
    <2>2. CASE UNCHANGED vars
        BY <2>2 DEF vars, BallsInv, Sound, LoopFits
    <2> QED BY <2>1, <2>2
<1> QED BY <1>1, <1>2, PTL DEF Spec

\* Players and objects point to each other truly (collision.cpp, ship.cpp, object.cpp): who
\* has a ball carries one and plays, a pointer leads to a ball, owners are in the game.
THEOREM BallsAreSafe == Spec => []BallsSafe
<1>1. BallsInv => BallsSafe
    <2> SUFFICES ASSUME BallsInv PROVE BallsSafe
        OBVIOUS
    <2>1. Sound(game) /\ LoopFits(game, loop)
        BY DEF BallsInv
    <2>2. TypeOK
        BY <2>1 DEF Sound, LoopFits, FreeFits, TypeOK, GameType, PlayerType, ObjectType
    <2>3. CarriersAgree
        <3>1. \A p \in Player : game.pl[p].has <=> CarriedBy(game, p) # {}
            <4> TAKE p \in Player
            <4>1. CarriedBy(game, p) # {} <=> \E s \in Struct : s \in CarriedBy(game, p)
                BY <2>1, SetsSay
            <4>2. CarriedBy(game, p) # {} <=>
                      \E s \in Struct : game.ob[s].attached /\ game.ob[s].owner = p
                BY <2>1, <4>1, SetsSay
            <4> QED BY <2>1, <4>2 DEF Sound, CarryFits
        <3>2. \A s \in Struct : game.ob[s].attached =>
                 game.ob[s].owner # None /\ game.pl[game.ob[s].owner].state \in {"alive", "killed"}
            BY <2>1, BallsAssumption DEF Sound, CarryFits
        <3>3. BallsOf(game) \subseteq Struct
            BY <2>1, SetsSay
        <3> QED BY <3>1, <3>2, <3>3 DEF CarriersAgree
    <2>4. PointsToBall
        <3>1. \A p \in Player : game.pl[p].ball_tmp \in Struct \cup {None}
            BY <2>1 DEF Sound, GameType, PlayerType
        <3> QED BY <2>1, <3>1, SetsSay DEF Sound, PointersFit, PointsToBall
    <2>5. OwnersAreInGame
        <3>1. \A s \in Struct : game.ob[s].owner \in Player \cup {None}
            BY <2>1 DEF Sound, GameType, ObjectType
        <3>2. Objects(game) \subseteq Struct
            BY <2>1, SetsSay
        <3> QED BY <2>1, <3>1, <3>2 DEF Sound, OwnersFit, OwnersAreInGame, InGame
    <2> QED BY <2>2, <2>3, <2>4, <2>5 DEF BallsSafe
<1> QED BY <1>1, BallsStaySound, PTL

\* Every box has exactly one ball, in it or out of it (object.cpp): a ball that is removed
\* is created again in the structure that it leaves, so that the pool has room for it.
THEOREM EachBoxHasItsBall == Spec => []OneBallPerBox
<1>1. BallsInv => OneBallPerBox
    <2> SUFFICES ASSUME BallsInv, NEW t \in Treasure
                 PROVE  LET B == {s \in BallsOf(game) : game.ob[s].treasure = t} IN
                        /\ Cardinality(B) = 1
                        /\ game.have[t] => \A s \in B : ~game.ob[s].attached /\ game.ob[s].owner = None
        BY DEF OneBallPerBox
    <2> DEFINE B == {s \in BallsOf(game) : game.ob[s].treasure = t}
    <2>1. Sound(game)
        BY DEF BallsInv
    <2>2. \A s : s \in B <=> s \in Struct /\ game.ob[s].type = "ball" /\ game.ob[s].treasure = t
        BY <2>1, SetsSay
    <2>3. PICK s \in Struct : game.ob[s].type = "ball" /\ game.ob[s].treasure = t
        BY <2>1 DEF Sound, BoxFits
    <2>4. B = {s}
        BY <2>1, <2>2, <2>3 DEF Sound, BoxFits
    <2>5. Cardinality(B) = 1
        BY <2>4, FS_Singleton
    <2>6. game.have[t] => \A r \in B : ~game.ob[r].attached /\ game.ob[r].owner = None
        BY <2>1, <2>2 DEF Sound, BoxFits
    <2> QED BY <2>5, <2>6
<1> QED BY <1>1, BallsStaySound, PTL

\* A ball that is carried is not taken away (collision.cpp): it changes its owner only
\* after it was dropped.
THEOREM BallsAreHeld == Spec => BallIsHeld
<1>1. BallsInv /\ [Next]_vars =>
          [\A s \in BallsOf(game) : game.ob[s].attached /\ game'.ob[s].attached
               => game'.ob[s].owner = game.ob[s].owner]_vars
    <2> SUFFICES ASSUME BallsInv, Next
                 PROVE  \A s \in BallsOf(game) : game.ob[s].attached /\ game'.ob[s].attached
                            => game'.ob[s].owner = game.ob[s].owner
        OBVIOUS
    <2>1. Kept
        BY StepKept
    <2>2. BallsOf(game) \subseteq Struct
        BY SetsSay DEF BallsInv
    <2> QED BY <2>1, <2>2 DEF Kept
<1> QED BY <1>1, BallsStaySound, PTL DEF Spec, BallIsHeld

====
