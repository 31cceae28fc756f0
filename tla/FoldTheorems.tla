------------------------------ MODULE FoldTheorems ------------------------------
(***************************************************************************)
(* Loops.  The code's loops over the table of players and over the pool of *)
(* objects are folds in the models.  What each turn keeps, and what it     *)
(* adds, holds of the whole loop; the body is the parameter of the module. *)
(***************************************************************************)
EXTENDS Integers, Sequences, FiniteSets, FiniteSetTheorems, NaturalsInduction, TLAPS

CONSTANT Turn(_, _, _)  \* parameters, what the turn is for, what there was before

-----------------------------------------------------------------------------
(* Folds.  Induction is on the size of the part of the sequence that is    *)
(* folded.                                                                 *)

LEMMA SmallestNumber ==
    ASSUME NEW T \in SUBSET Nat, T # {}
    PROVE  \E n \in T : \A k \in T : n <= k
<1>1. PICK n \in T : \A k \in T : ~(<<k, n>> \in OpToRel(<, Nat))
    BY NatLessThanWellFounded, WFMin
<1>2. ASSUME NEW k \in T PROVE n <= k
  <2>1. ~(<<k, n>> \in {ss \in Nat \X Nat : ss[1] < ss[2]}) BY <1>1 DEF OpToRel
  <2> QED BY <2>1
<1> QED BY <1>2

\* A set of numbers with 0 in which each number is followed by the next has all of them.
LEMMA NumberInduction ==
    ASSUME NEW Good, 0 \in Good, \A n \in Nat : n \in Good => n + 1 \in Good, NEW m \in Nat
    PROVE  m \in Good
<1> SUFFICES ASSUME m \notin Good PROVE FALSE OBVIOUS
<1> DEFINE T == Nat \ Good
<1>1. PICK n \in T : \A k \in T : n <= k
  <2>1. T \in SUBSET Nat /\ T # {} OBVIOUS
  <2> HIDE DEF T
  <2> QED BY <2>1, SmallestNumber
<1>2. n # 0 /\ n \in Nat BY <1>1
<1>3. n - 1 \in Nat BY <1>2
<1>4. n - 1 \in Good BY <1>1, <1>2, <1>3
<1>5. (n - 1) + 1 \in Good BY <1>3, <1>4
<1> QED BY <1>1, <1>2, <1>5

SmallParts(D, n) == {s \in SUBSET D : Cardinality(s) <= n}

LEMMA PartFacts ==
    ASSUME NEW D, IsFiniteSet(D)
    PROVE  /\ \A s \in SUBSET D : IsFiniteSet(s) /\ Cardinality(s) \in Nat
           /\ \A s \in SUBSET D : \A x \in s : Cardinality(s \ {x}) = Cardinality(s) - 1
           /\ SmallParts(D, 0) = {{}}
           /\ SmallParts(D, Cardinality(D)) = SUBSET D
<1>1. ASSUME NEW s \in SUBSET D PROVE IsFiniteSet(s) /\ Cardinality(s) <= Cardinality(D)
    BY <1>1, FS_Subset
<1>2. ASSUME NEW s \in SUBSET D PROVE Cardinality(s) \in Nat
    BY <1>1, FS_CardinalityType
<1>3. ASSUME NEW s \in SUBSET D, NEW x \in s PROVE Cardinality(s \ {x}) = Cardinality(s) - 1
    BY <1>1, FS_RemoveElement
<1>4. \A s \in SUBSET D : Cardinality(s) = 0 <=> s = {} BY <1>1, FS_EmptySet
<1>5. SmallParts(D, 0) = {{}}
  <2>1. \A s \in SUBSET D : Cardinality(s) <= 0 <=> s = {} BY <1>2, <1>4
  <2> QED BY <2>1 DEF SmallParts
<1>6. SmallParts(D, Cardinality(D)) = SUBSET D BY <1>1 DEF SmallParts
<1> QED BY <1>1, <1>2, <1>3, <1>5, <1>6

\* it folds F over the part s, of which c[s] is the last.
FoldsAt(it, s, b, c, F) == it[s] = IF s = {} THEN b ELSE F[c[s], it[s \ {c[s]}]]

LEMMA FoldGrows ==
    ASSUME NEW D, IsFiniteSet(D), NEW A, NEW b \in A,
           NEW c, \A s \in SUBSET D : s # {} => c[s] \in s,
           NEW F \in [D \X A -> A], NEW n \in Nat,
           NEW it \in [SmallParts(D, n) -> A],
           \A s \in SmallParts(D, n) : FoldsAt(it, s, b, c, F)
    PROVE  \E next \in [SmallParts(D, n + 1) -> A] :
               \A s \in SmallParts(D, n + 1) : FoldsAt(next, s, b, c, F)
<1> DEFINE Old == SmallParts(D, n)
           New == SmallParts(D, n + 1)
           next == [s \in New |-> IF s \in Old THEN it[s] ELSE F[c[s], it[s \ {c[s]}]]]
<1>1. ASSUME NEW s \in New, s # {}
      PROVE  c[s] \in D /\ s \ {c[s]} \in Old /\ s \ {c[s]} \in New
  <2>1. s \in SUBSET D /\ Cardinality(s) <= n + 1 /\ c[s] \in s BY <1>1 DEF SmallParts
  <2>2. Cardinality(s \ {c[s]}) = Cardinality(s) - 1 /\ Cardinality(s) \in Nat BY <2>1, PartFacts
  <2>3. s \ {c[s]} \in SUBSET D BY <2>1
  <2> QED BY <2>1, <2>2, <2>3 DEF SmallParts
<1>2. ASSUME NEW s \in New, s \notin Old PROVE s # {}
  <2>1. {} \in Old
    <3>1. Cardinality({}) = 0 BY FS_EmptySet
    <3> QED BY <3>1 DEF SmallParts
  <2> QED BY <1>2, <2>1
<1>3. next \in [New -> A]
  <2>1. ASSUME NEW s \in New, s \notin Old PROVE F[c[s], it[s \ {c[s]}]] \in A
      BY <1>1, <1>2, <2>1
  <2>2. ASSUME NEW s \in New, s \in Old PROVE it[s] \in A BY <2>2
  <2> HIDE DEF Old, New
  <2> QED BY <2>1, <2>2
<1>4. ASSUME NEW s \in New PROVE FoldsAt(next, s, b, c, F)
  <2>1. CASE s = {}
    <3>1. s \in Old BY <1>2, <2>1
    <3> QED BY <2>1, <3>1 DEF FoldsAt
  <2>2. CASE s # {} /\ s \in Old
    <3>1. it[s] = F[c[s], it[s \ {c[s]}]] BY <2>2 DEF FoldsAt
    <3>2. next[s] = it[s] /\ next[s \ {c[s]}] = it[s \ {c[s]}] BY <1>1, <2>2
    <3> QED BY <2>2, <3>1, <3>2 DEF FoldsAt
  <2>3. CASE s \notin Old
    <3>1. next[s] = F[c[s], it[s \ {c[s]}]] BY <2>3
    <3>2. next[s \ {c[s]}] = it[s \ {c[s]}] BY <1>1, <1>2, <2>3
    <3> QED BY <1>2, <2>3, <3>1, <3>2 DEF FoldsAt
  <2> QED BY <2>1, <2>2, <2>3
<1> HIDE DEF New, next
<1> QED BY <1>3, <1>4 DEF New

LEMMA FoldExists ==
    ASSUME NEW D, IsFiniteSet(D), NEW A, NEW b \in A,
           NEW c, \A s \in SUBSET D : s # {} => c[s] \in s,
           NEW F \in [D \X A -> A]
    PROVE  \E it \in [SUBSET D -> A] : \A s \in SUBSET D : FoldsAt(it, s, b, c, F)
<1> DEFINE Can(n) == \E it \in [SmallParts(D, n) -> A] :
                         \A s \in SmallParts(D, n) : FoldsAt(it, s, b, c, F)
           Good == {n \in Nat : Can(n)}
<1>1. Can(0)
  <2> DEFINE it == [s \in {{}} |-> b]
  <2>1. SmallParts(D, 0) = {{}} BY PartFacts
  <2>2. it \in [{{}} -> A] /\ \A s \in {{}} : FoldsAt(it, s, b, c, F) BY DEF FoldsAt
  <2> QED BY <2>1, <2>2
<1>2. ASSUME NEW n \in Nat, Can(n) PROVE Can(n + 1) BY <1>2, FoldGrows
<1>3. Cardinality(D) \in Nat BY FS_CardinalityType
<1>4. Can(Cardinality(D))
  <2> HIDE DEF Can
  <2>1. 0 \in Good BY <1>1
  <2>2. \A n \in Nat : n \in Good => n + 1 \in Good BY <1>2
  <2> HIDE DEF Good
  <2>3. Cardinality(D) \in Good BY <1>3, <2>1, <2>2, NumberInduction
  <2> QED BY <2>3 DEF Good
<1> QED BY <1>4, PartFacts

\* What holds of the empty part, and of each part that lacks only one entry of the next.
LEMMA PartInduction ==
    ASSUME NEW D, IsFiniteSet(D), NEW Good, {} \in Good,
           \A s \in SUBSET D : s # {} => \E x \in s : s \ {x} \in Good => s \in Good
    PROVE  D \in Good
<1> DEFINE N == {n \in Nat : \A s \in SUBSET D : Cardinality(s) = n => s \in Good}
<1>1. 0 \in N
  <2>1. \A s \in SUBSET D : Cardinality(s) = 0 => s = {} BY PartFacts, FS_EmptySet
  <2> QED BY <2>1
<1>2. ASSUME NEW n \in Nat, n \in N PROVE n + 1 \in N
  <2>1. ASSUME NEW s \in SUBSET D, Cardinality(s) = n + 1 PROVE s \in Good
    <3>1. s # {} BY <2>1, FS_EmptySet
    <3>2. PICK x \in s : s \ {x} \in Good => s \in Good BY <3>1
    <3>3. Cardinality(s \ {x}) = n BY <2>1, PartFacts
    <3>4. s \ {x} \in SUBSET D OBVIOUS
    <3> QED BY <1>2, <3>2, <3>3, <3>4
  <2> QED BY <2>1
<1>3. Cardinality(D) \in Nat BY FS_CardinalityType
<1>4. Cardinality(D) \in N
  <2> HIDE DEF N
  <2> QED BY <1>1, <1>2, <1>3, NumberInduction
<1> QED BY <1>4

\* A set of numbers with a bound has a largest one.
LEMMA MaxExists ==
    ASSUME NEW m \in Nat, NEW S \in SUBSET (0 .. m), S # {}
    PROVE  \E n \in S : \A k \in S : n >= k
<1> DEFINE T == {n \in Nat : \A k \in S : k <= n}
<1>1. m \in T OBVIOUS
<1>2. PICK n \in T : \A k \in T : n <= k
  <2>1. T \in SUBSET Nat OBVIOUS
  <2> HIDE DEF T
  <2> QED BY <1>1, <2>1, SmallestNumber
<1>3. n \in Nat /\ \A k \in S : k <= n /\ k \in Nat BY <1>2
<1>4. n \in S
  <2>1. SUFFICES ASSUME n \notin S PROVE FALSE OBVIOUS
  <2>2. PICK k \in S : TRUE OBVIOUS
  <2>3. n # 0 BY <1>3, <2>1, <2>2
  <2>4. n - 1 \in Nat BY <1>3, <2>3
  <2>5. \A j \in S : j <= n - 1 BY <1>3, <2>1
  <2>6. n - 1 \in T BY <2>4, <2>5
  <2> HIDE DEF T
  <2>7. n <= n - 1 BY <1>2, <2>6
  <2> QED BY <1>3, <2>7
<1> QED BY <1>3, <1>4

-----------------------------------------------------------------------------
(* The loops.                                                              *)

\* FoldSet over S.
OverSet(par, base, S) ==
    LET iter[s \in SUBSET S] ==
            IF s = {} THEN base
            ELSE LET x == CHOOSE x \in s : TRUE IN Turn(par, x, iter[s \ {x}])
    IN  iter[S]

\* FoldLeft over seq.
OverSeq(par, base, seq) ==
    LET iter[s \in SUBSET DOMAIN seq] ==
            IF s = {} THEN base
            ELSE LET i == CHOOSE i \in s : \A j \in s : i >= j
                 IN  Turn(par, seq[i], iter[s \ {i}])
    IN  iter[DOMAIN seq]

\* A[s] has what there may be after the turns s, of which f says what they are for.
Carries(par, D, f, A) ==
    \A s \in SUBSET D : \A i \in D \ s : \A h \in A[s] : Turn(par, f[i], h) \in A[s \cup {i}]

\* The same, if the last turn of those in s is c[s].
CarriesBy(par, D, f, A, c) ==
    \A s \in SUBSET D : s # {} => \A h \in A[s \ {c[s]}] : Turn(par, f[c[s]], h) \in A[s]

\* The same, if they come in order.
CarriesUp(par, seq, A) ==
    \A s \in SUBSET DOMAIN seq : \A i \in DOMAIN seq :
        (\A j \in s : j < i) => \A h \in A[s] : Turn(par, seq[i], h) \in A[s \cup {i}]

SetCarries(par, S, A) ==
    \A s \in SUBSET S : \A x \in S \ s : \A h \in A[s] : Turn(par, x, h) \in A[s \cup {x}]

Loops(it, par, base, D, f, c) ==
    /\ it[{}] = base
    /\ \A s \in SUBSET D : s # {} => it[s] = Turn(par, f[c[s]], it[s \ {c[s]}])

LEMMA LoopExists ==
    ASSUME NEW par, NEW D, IsFiniteSet(D), NEW f, NEW A, NEW base \in A[{}],
           NEW c, \A s \in SUBSET D : s # {} => c[s] \in s, CarriesBy(par, D, f, A, c)
    PROVE  \E it : Loops(it, par, base, D, f, c)
<1> DEFINE U == UNION {A[s] : s \in SUBSET D}
           F == [x \in D \X U |-> IF Turn(par, f[x[1]], x[2]) \in U THEN Turn(par, f[x[1]], x[2])
                                  ELSE base]
<1>1. base \in U OBVIOUS
<1>2. F \in [D \X U -> U] BY <1>1
<1>3. \A s \in SUBSET D : \A h \in A[s] : h \in U OBVIOUS
<1> HIDE DEF U
<1>4. \A i \in D, h \in U : Turn(par, f[i], h) \in U => F[i, h] = Turn(par, f[i], h) OBVIOUS
<1> HIDE DEF F
<1>5. PICK it \in [SUBSET D -> U] : \A s \in SUBSET D : FoldsAt(it, s, base, c, F)
    BY <1>1, <1>2, FoldExists
<1> DEFINE Done == {s \in SUBSET D : it[s] \in A[s]}
<1>6. ASSUME NEW s \in SUBSET D, s # {}, it[s \ {c[s]}] \in A[s \ {c[s]}]
      PROVE  it[s] = Turn(par, f[c[s]], it[s \ {c[s]}]) /\ it[s] \in A[s]
  <2> DEFINE r == s \ {c[s]}
  <2>1. c[s] \in s /\ c[s] \in D /\ r \in SUBSET D /\ c[s] \in D \ r /\ r \cup {c[s]} = s
      BY <1>6
  <2>2. it[s] = F[c[s], it[r]] BY <1>5, <1>6 DEF FoldsAt
  <2>3. it[r] \in A[r] BY <1>6
  <2> HIDE DEF r
  <2>4. Turn(par, f[c[s]], it[r]) \in A[s]
    <3>1. \A h \in A[s \ {c[s]}] : Turn(par, f[c[s]], h) \in A[s] BY <1>6 DEF CarriesBy
    <3> QED BY <2>3, <3>1 DEF r
  <2>5. it[r] \in U /\ Turn(par, f[c[s]], it[r]) \in U BY <1>3, <2>1, <2>3, <2>4
  <2>6. it[s] = Turn(par, f[c[s]], it[r]) BY <1>4, <2>1, <2>2, <2>5
  <2>7. it[s] \in A[s] BY <2>1, <2>4, <2>6
  <2> QED BY <2>6, <2>7 DEF r
<1>7. it[{}] = base BY <1>5 DEF FoldsAt
<1>8. ASSUME NEW t \in SUBSET D PROVE t \in Done
  <2> DEFINE Fine == {s \in SUBSET t : s \in Done}
  <2>1. IsFiniteSet(t) BY FS_Subset
  <2>2. {} \in Fine BY <1>7
  <2>3. \A s \in SUBSET t : s # {} => \E x \in s : s \ {x} \in Fine => s \in Fine
    <3>1. ASSUME NEW s \in SUBSET t, s # {}, s \ {c[s]} \in Fine PROVE s \in Fine
      <4>1. it[s] \in A[s] BY <1>6, <3>1
      <4> QED BY <4>1
    <3>2. \A s \in SUBSET t : s # {} => c[s] \in s OBVIOUS
    <3> QED BY <3>1, <3>2
  <2> HIDE DEF Fine
  <2>4. t \in Fine BY <2>1, <2>2, <2>3, PartInduction
  <2> QED BY <2>4 DEF Fine
<1>9. \A s \in SUBSET D : s # {} => it[s] = Turn(par, f[c[s]], it[s \ {c[s]}])
  <2>1. ASSUME NEW s \in SUBSET D, s # {} PROVE it[s] = Turn(par, f[c[s]], it[s \ {c[s]}])
    <3>1. s \ {c[s]} \in Done BY <1>8
    <3> QED BY <1>6, <2>1, <3>1
  <2> QED BY <2>1
<1> QED BY <1>7, <1>9 DEF Loops

LEMMA LoopCarries ==
    ASSUME NEW par, NEW D, IsFiniteSet(D), NEW f, NEW A, NEW base \in A[{}],
           NEW c, \A s \in SUBSET D : s # {} => c[s] \in s, CarriesBy(par, D, f, A, c),
           NEW it, Loops(it, par, base, D, f, c)
    PROVE  it[D] \in A[D]
<1> DEFINE Fine == {s \in SUBSET D : it[s] \in A[s]}
<1>1. {} \in Fine BY DEF Loops
<1>2. \A s \in SUBSET D : s # {} => \E x \in s : s \ {x} \in Fine => s \in Fine
  <2>1. ASSUME NEW s \in SUBSET D, s # {}, s \ {c[s]} \in Fine PROVE s \in Fine
    <3> DEFINE r == s \ {c[s]}
    <3>1. it[r] \in A[r] /\ it[s] = Turn(par, f[c[s]], it[r]) BY <2>1 DEF Loops
    <3>2. \A h \in A[r] : Turn(par, f[c[s]], h) \in A[s] BY <2>1 DEF CarriesBy
    <3> HIDE DEF r
    <3>3. it[s] \in A[s] BY <3>1, <3>2
    <3> QED BY <3>3
  <2>2. \A s \in SUBSET D : s # {} => c[s] \in s OBVIOUS
  <2> QED BY <2>1, <2>2
<1> HIDE DEF Fine
<1>3. D \in Fine BY <1>1, <1>2, PartInduction
<1> QED BY <1>3 DEF Fine

LEMMA AnyOrder ==
    ASSUME NEW par, NEW D, NEW f, NEW A, Carries(par, D, f, A),
           NEW c, \A s \in SUBSET D : s # {} => c[s] \in s
    PROVE  CarriesBy(par, D, f, A, c)
<1> SUFFICES ASSUME NEW s \in SUBSET D, s # {}, NEW h \in A[s \ {c[s]}]
             PROVE  Turn(par, f[c[s]], h) \in A[s]
    BY DEF CarriesBy
<1> DEFINE r == s \ {c[s]}
<1>1. c[s] \in D \ r /\ r \in SUBSET D /\ r \cup {c[s]} = s OBVIOUS
<1>2. h \in A[r] OBVIOUS
<1> HIDE DEF r
<1> QED BY <1>1, <1>2 DEF Carries

\* What may be before the first turn and is carried by each turn may be after the last.
THEOREM SetIsCarried ==
    ASSUME NEW par, NEW S, IsFiniteSet(S), NEW A, NEW base \in A[{}], SetCarries(par, S, A)
    PROVE  OverSet(par, base, S) \in A[S]
<1> DEFINE f == [x \in S |-> x]
           c == [s \in SUBSET S |-> CHOOSE x \in s : TRUE]
           Step(it) == [s \in SUBSET S |->
                           IF s = {} THEN base
                           ELSE LET x == CHOOSE x \in s : TRUE IN Turn(par, x, it[s \ {x}])]
           jt == CHOOSE it : it = Step(it)
<1>1. OverSet(par, base, S) = jt[S] BY DEF OverSet
<1>2. \A s \in SUBSET S : s # {} => c[s] \in s /\ c[s] \in S /\ c[s] = (CHOOSE x \in s : TRUE) OBVIOUS
<1>3. \A x \in S : f[x] = x OBVIOUS
<1> HIDE DEF c, f
<1>4. PICK kt : Loops(kt, par, base, S, f, c)
  <2>1. \A s \in SUBSET S : s # {} => c[s] \in s BY <1>2
  <2>2. Carries(par, S, f, A) BY <1>3 DEF Carries, SetCarries
  <2>3. CarriesBy(par, S, f, A, c) BY <2>1, <2>2, AnyOrder
  <2> QED BY <2>1, <2>3, LoopExists
<1> DEFINE it == [s \in SUBSET S |-> kt[s]]
<1>5. it = Step(it)
  <2>1. ASSUME NEW s \in SUBSET S PROVE it[s] = Step(it)[s]
    <3>1. CASE s = {} BY <1>4, <3>1 DEF Loops
    <3>2. CASE s # {}
      <4>1. kt[s] = Turn(par, c[s], kt[s \ {c[s]}]) BY <1>2, <1>3, <1>4, <3>2 DEF Loops
      <4>2. it[s \ {c[s]}] = kt[s \ {c[s]}] OBVIOUS
      <4> QED BY <1>2, <3>2, <4>1, <4>2
    <3> QED BY <3>1, <3>2
  <2> QED BY <2>1
<1>6. jt = Step(jt) BY <1>5
<1> HIDE DEF jt
<1>7. jt[{}] = base BY <1>6
<1>8. Loops(jt, par, base, S, f, c)
  <2>1. ASSUME NEW s \in SUBSET S, s # {} PROVE jt[s] = Turn(par, c[s], jt[s \ {c[s]}])
      BY <1>2, <1>6, <2>1
  <2> QED BY <1>2, <1>3, <1>7, <2>1 DEF Loops
<1>9. jt[S] \in A[S]
  <2>1. \A s \in SUBSET S : s # {} => c[s] \in s BY <1>2
  <2>2. Carries(par, S, f, A) BY <1>3 DEF Carries, SetCarries
  <2>3. CarriesBy(par, S, f, A, c) BY <2>1, <2>2, AnyOrder
  <2> QED BY <1>8, <2>1, <2>3, LoopCarries
<1> QED BY <1>1, <1>9

LEMMA SeqIsCarriedUp ==
    ASSUME NEW par, NEW X, NEW seq \in Seq(X), NEW A, NEW base \in A[{}],
           CarriesUp(par, seq, A)
    PROVE  OverSeq(par, base, seq) \in A[DOMAIN seq]
<1> DEFINE D == DOMAIN seq
           c == [s \in SUBSET D |-> CHOOSE i \in s : \A j \in s : i >= j]
           Step(it) == [s \in SUBSET D |->
                           IF s = {} THEN base
                           ELSE LET i == CHOOSE i \in s : \A j \in s : i >= j
                                IN  Turn(par, seq[i], it[s \ {i}])]
           jt == CHOOSE it : it = Step(it)
<1>1. OverSeq(par, base, seq) = jt[D] BY DEF OverSeq
<1>0. D \in SUBSET (0 .. Len(seq)) /\ D = 1 .. Len(seq) /\ Len(seq) \in Nat OBVIOUS
<1>2. ASSUME NEW s \in SUBSET D, s # {}
      PROVE  c[s] \in s /\ c[s] \in D /\ c[s] = (CHOOSE i \in s : \A j \in s : i >= j)
  <2>1. \E i \in s : \A j \in s : i >= j BY <1>0, <1>2, MaxExists
  <2> QED BY <2>1
<1>3. IsFiniteSet(D)
  <2>1. \A m \in Nat : IsFiniteSet(1 .. m) BY FS_Interval
  <2> QED BY <1>0, <2>1
<1>10. CarriesBy(par, D, seq, A, c)
  <2> SUFFICES ASSUME NEW s \in SUBSET D, s # {}, NEW h \in A[s \ {c[s]}]
               PROVE  Turn(par, seq[c[s]], h) \in A[s]
      BY DEF CarriesBy
  <2>1. c[s] \in s /\ c[s] \in D /\ \A j \in s : c[s] >= j
    <3>1. \E i \in s : \A j \in s : i >= j BY <1>0, MaxExists
    <3> QED BY <1>2, <3>1
  <2> DEFINE r == s \ {c[s]}
  <2>2. r \in SUBSET D /\ r \cup {c[s]} = s /\ h \in A[r] BY <2>1
  <2>3. \A j \in r : j < c[s] BY <1>0, <2>1
  <2> HIDE DEF r
  <2> QED BY <2>1, <2>2, <2>3 DEF CarriesUp, D
<1> HIDE DEF c, D
<1>4. PICK kt : Loops(kt, par, base, D, seq, c)
  <2>1. \A s \in SUBSET D : s # {} => c[s] \in s BY <1>2
  <2> QED BY <1>3, <1>10, <2>1, LoopExists
<1> DEFINE it == [s \in SUBSET D |-> kt[s]]
<1>5. it = Step(it)
  <2>1. ASSUME NEW s \in SUBSET D PROVE it[s] = Step(it)[s]
    <3>1. CASE s = {} BY <1>4, <3>1 DEF Loops
    <3>2. CASE s # {}
      <4>1. kt[s] = Turn(par, seq[c[s]], kt[s \ {c[s]}]) BY <1>2, <1>4, <3>2 DEF Loops
      <4>2. it[s \ {c[s]}] = kt[s \ {c[s]}] OBVIOUS
      <4> QED BY <1>2, <3>2, <4>1, <4>2
    <3> QED BY <3>1, <3>2
  <2> QED BY <2>1
<1>6. jt = Step(jt) BY <1>5
<1> HIDE DEF jt
<1>7. jt[{}] = base BY <1>6
<1>8. Loops(jt, par, base, D, seq, c)
  <2>1. ASSUME NEW s \in SUBSET D, s # {} PROVE jt[s] = Turn(par, seq[c[s]], jt[s \ {c[s]}])
      BY <1>2, <1>6, <2>1
  <2> QED BY <1>7, <2>1 DEF Loops
<1>9. jt[D] \in A[D]
  <2>1. \A s \in SUBSET D : s # {} => c[s] \in s BY <1>2
  <2> QED BY <1>3, <1>8, <1>10, <2>1, LoopCarries
<1> QED BY <1>1, <1>9 DEF D

THEOREM SeqIsCarried ==
    ASSUME NEW par, NEW X, NEW seq \in Seq(X), NEW A, NEW base \in A[{}],
           Carries(par, DOMAIN seq, seq, A)
    PROVE  OverSeq(par, base, seq) \in A[DOMAIN seq]
<1>1. CarriesUp(par, seq, A)
  <2> SUFFICES ASSUME NEW s \in SUBSET DOMAIN seq, NEW i \in DOMAIN seq, \A j \in s : j < i,
                      NEW h \in A[s]
               PROVE  Turn(par, seq[i], h) \in A[s \cup {i}]
      BY DEF CarriesUp
  <2>1. i \notin s
    <3> SUFFICES ASSUME i \in s PROVE FALSE OBVIOUS
    <3>1. i < i /\ i \in Int OBVIOUS
    <3> QED BY <3>1
  <2> QED BY <2>1 DEF Carries
<1> QED BY <1>1, SeqIsCarriedUp

Closed(par, S, B) == \A x \in S : \A h \in B : Turn(par, x, h) \in B

\* What there may be before each turn and after it may be after all of them.
THEOREM SetKeeps ==
    ASSUME NEW par, NEW S, IsFiniteSet(S), NEW B, NEW base \in B,
           Closed(par, S, B)
    PROVE  OverSet(par, base, S) \in B
<1> DEFINE A == [s \in SUBSET S |-> B]
<1>1. base \in A[{}] /\ A[S] = B OBVIOUS
<1>2. SetCarries(par, S, A) BY DEF SetCarries, Closed
<1> HIDE DEF A
<1> QED BY <1>1, <1>2, SetIsCarried

THEOREM SeqKeeps ==
    ASSUME NEW par, NEW X, NEW seq \in Seq(X), NEW B, NEW base \in B,
           Closed(par, {seq[i] : i \in DOMAIN seq}, B)
    PROVE  OverSeq(par, base, seq) \in B
<1> DEFINE A == [s \in SUBSET DOMAIN seq |-> B]
<1>1. base \in A[{}] /\ A[DOMAIN seq] = B OBVIOUS
<1>2. Carries(par, DOMAIN seq, seq, A) BY DEF Carries, Closed
<1> HIDE DEF A
<1> QED BY <1>1, <1>2, SeqIsCarried

\* A[n] has what there may be after n turns, all of it within B.
THEOREM SeqInOrder ==
    ASSUME NEW par, NEW X, NEW seq \in Seq(X), NEW B, Closed(par, {seq[i] : i \in DOMAIN seq}, B),
           NEW A, NEW base \in A[0] \cap B,
           \A i \in DOMAIN seq : \A h \in A[i - 1] \cap B : Turn(par, seq[i], h) \in A[i]
    PROVE  OverSeq(par, base, seq) \in A[Len(seq)]
<1> DEFINE D == DOMAIN seq
           E == [s \in SUBSET D |-> {h \in B : \A n \in 0 .. Len(seq) : s = 1 .. n => h \in A[n]}]
<1>1. D = 1 .. Len(seq) /\ Len(seq) \in Nat OBVIOUS
<1>2. base \in E[{}]
  <2>1. \A n \in 0 .. Len(seq) : {} = 1 .. n => n = 0 BY <1>1
  <2> QED BY <2>1
<1>3. CarriesUp(par, seq, E)
  <2> SUFFICES ASSUME NEW s \in SUBSET D, NEW i \in D, \A j \in s : j < i, NEW h \in E[s]
               PROVE  Turn(par, seq[i], h) \in E[s \cup {i}]
      BY DEF CarriesUp
  <2>1. Turn(par, seq[i], h) \in B BY DEF Closed
  <2>2. ASSUME NEW n \in 0 .. Len(seq), s \cup {i} = 1 .. n PROVE Turn(par, seq[i], h) \in A[n]
    <3>1. i \in 1 .. n /\ i \in Nat /\ n \in Nat BY <1>1, <2>2
    <3>2. n \in s \cup {i} BY <2>2, <3>1
    <3>3. i = n BY <3>1, <3>2
    <3>4. s = 1 .. n - 1
      <4>1. i \notin s
        <5> SUFFICES ASSUME i \in s PROVE FALSE OBVIOUS
        <5> QED BY <3>1
      <4>2. s = (1 .. n) \ {n} BY <2>2, <3>3, <4>1
      <4> QED BY <3>1, <3>3, <4>2
    <3>5. n - 1 \in 0 .. Len(seq) BY <1>1, <3>1
    <3>6. h \in B /\ h \in A[n - 1] BY <3>4, <3>5
    <3> QED BY <3>3, <3>6
  <2> QED BY <2>1, <2>2
<1> HIDE DEF E
<1>4. OverSeq(par, base, seq) \in E[D] BY <1>2, <1>3, SeqIsCarriedUp
<1>5. Len(seq) \in 0 .. Len(seq) /\ D \in SUBSET D BY <1>1
<1>6. \A h \in E[D] : \A n \in 0 .. Len(seq) : D = 1 .. n => h \in A[n] BY <1>5 DEF E
<1> HIDE DEF D
<1> QED BY <1>1, <1>4, <1>5, <1>6
=============================================================================
