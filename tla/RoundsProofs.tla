----------------------------- MODULE RoundsProofs -----------------------------
(***************************************************************************)
(* Proofs about Rounds: nobody stays killed, no round goes on that nobody  *)
(* plays, the dead stay out of it, and the accounts of who is paused, who  *)
(* owns which ball and what a team has lost are right, for every number of *)
(* players, teams, treasures and lives.                                    *)
(*                                                                         *)
(* The functions of the code are operators from games to games, and so     *)
(* most of the invariant is one of games; the rest says what the loops     *)
(* over the table of players have done so far.  At the end, proofs about   *)
(* Ranking.                                                                *)
(***************************************************************************)
EXTENDS Rounds, Ranking, FiniteSetTheorems, SequenceTheorems, NaturalsInduction, TLAPS

-----------------------------------------------------------------------------
(* The invariant.                                                          *)

PlayerType ==
    [state : States, team : Team \cup {None}, life : 0 .. Lives, deaths : Int,
     recovering : BOOLEAN, destruct : BOOLEAN]

BallType == [have : BOOLEAN, owner : Player \cup {None}, expired : BOOLEAN]

\* Each death but a suicide costs a life, as long as there is one.  Who is killed by its own
\* fault has one death too few until its turn in the loop of kills.
LivesFit(x) ==
    /\ x.deaths \in -1 .. Lives + 1
    /\ x.state # "KILLED" => x.deaths >= 0
    /\ x.life > 0 \/ x.state \notin {"DEAD", "WAITING"} => x.deaths + x.life <= Lives

\* When the game is over the paused are made to wait with the rest, and those who died
\* may play on without a new life.
PlayerFits(x) ==
    /\ x \in PlayerType
    /\ x.state = "DEAD" => x.life = 0
    /\ x.state = "PAUSED" => x.team = PauseTeam
    /\ RoundsToPlay = 0 => LivesFit(x) /\ (x.team = PauseTeam => x.state = "PAUSED")

\* Every player in the game has one entry of the table.
TableFits(order, P) ==
    /\ order \in Seq(P)
    /\ \A i, j \in DOMAIN order : order[i] = order[j] => i = j
    /\ \A p \in P : \E i \in DOMAIN order : order[i] = p

\* After the game is over some of those in the pausers' team leave it uncounted.
PausedFit(g) ==
    /\ g.NumPaused >= Cardinality(OnTeam(g, PauseTeam))
    /\ RoundsToPlay = 0 => g.NumPaused = Cardinality(OnTeam(g, PauseTeam))

OwnersPlay(g) ==
    \A x \in Treasure : g.ball[x].owner # None => g.ball[x].owner \in InGame(g)

GameType ==
    [pl : [Player -> PlayerType], order : Seq(Player), NumPaused : Int,
     ball : [Treasure -> BallType], left : [Team -> Int], destroyed : [Team -> 0 .. MaxDestroyed],
     roundsPlayed : Nat, over : BOOLEAN, news : BOOLEAN]

Sound(g) ==
    /\ g \in GameType
    /\ \A p \in Player : PlayerFits(g.pl[p])
    /\ TableFits(g.order, InGame(g))
    /\ PausedFit(g)
    /\ OwnersPlay(g)

LoopType ==
    [at : {"input", "update", "kill", "status", "reset", "end", "crashed"},
     i : Nat, by : {"round", "operator"}, kicked : BOOLEAN]

\* The loop of kills looks at a killed player, and what it has passed is not killed.
KillsFit(g, at, i) ==
    IF at = "kill"
    THEN /\ i \in DOMAIN g.order
         /\ g.pl[g.order[i]].state = "KILLED"
         /\ \A j \in DOMAIN g.order : g.pl[g.order[j]].state = "KILLED" => j <= i
    ELSE InState(g, {"KILLED"}) = {}

\* The first i entries of the table have had their turn of Players_reset.
ResetFits(g, at, i, kicked) ==
    /\ at \in {"input", "update", "status"} => i = 0
    /\ at = "reset" /\ ~kicked =>
           \A j \in DOMAIN g.order : j <= i => g.pl[g.order[j]].state \in {"APPEARING", "PAUSED"}

Clean(g) == \A t \in Team : g.destroyed[t] = 0 /\ g.left[t] = NumTreasures(t)

\* Nobody plays and Main_loop knows it already.
CleanFits(g) == RoundsToPlay = 0 /\ Active(g) = {} /\ ~g.news => Clean(g)

\* A frame begins without news.
NewsFit(g, at) == at = "update" => ~g.news

RoundsInv ==
    /\ Sound(game)
    /\ CleanFits(game)
    /\ NewsFit(game, loop.at)
    /\ loop \in LoopType
    /\ KillsFit(game, loop.at, loop.i)
    /\ ResetFits(game, loop.at, loop.i, loop.kicked)
    /\ RoundGoesOn

-----------------------------------------------------------------------------
(* Folds.  Induction is on the size of the part of the sequence that is    *)
(* folded.                                                                 *)

LEMMA SmallestNumber ==
    ASSUME NEW T \in SUBSET Nat, T # {}
    PROVE  \E n \in T : \A k \in T : n <= k
<1>1. PICK n \in T : \A k \in T : ~(<<k, n>> \in OpToRel(<, Nat))
    BY NatLessThanWellFounded, WFMin
<1>2. ASSUME NEW k \in T PROVE n <= k
  <2>1. ~(<<k, n>> \in {ss \in Nat \X Nat : ss[1] < ss[2]}) BY <1>1 DEF OpToRel
  <2> QED BY <2>1
<1> QED BY <1>2

\* A set of numbers with 0 in which each number is followed by the next has all of them.
LEMMA NumberInduction ==
    ASSUME NEW Good, 0 \in Good, \A n \in Nat : n \in Good => n + 1 \in Good, NEW m \in Nat
    PROVE  m \in Good
<1> SUFFICES ASSUME m \notin Good PROVE FALSE OBVIOUS
<1> DEFINE T == Nat \ Good
<1>1. PICK n \in T : \A k \in T : n <= k
  <2>1. T \in SUBSET Nat /\ T # {} OBVIOUS
  <2> HIDE DEF T
  <2> QED BY <2>1, SmallestNumber
<1>2. n # 0 /\ n \in Nat BY <1>1
<1>3. n - 1 \in Nat BY <1>2
<1>4. n - 1 \in Good BY <1>1, <1>2, <1>3
<1>5. (n - 1) + 1 \in Good BY <1>3, <1>4
<1> QED BY <1>1, <1>2, <1>5

SmallParts(D, n) == {s \in SUBSET D : Cardinality(s) <= n}

LEMMA PartFacts ==
    ASSUME NEW D, IsFiniteSet(D)
    PROVE  /\ \A s \in SUBSET D : IsFiniteSet(s) /\ Cardinality(s) \in Nat
           /\ \A s \in SUBSET D : \A x \in s : Cardinality(s \ {x}) = Cardinality(s) - 1
           /\ SmallParts(D, 0) = {{}}
           /\ SmallParts(D, Cardinality(D)) = SUBSET D
<1>1. ASSUME NEW s \in SUBSET D PROVE IsFiniteSet(s) /\ Cardinality(s) <= Cardinality(D)
    BY <1>1, FS_Subset
<1>2. ASSUME NEW s \in SUBSET D PROVE Cardinality(s) \in Nat
    BY <1>1, FS_CardinalityType
<1>3. ASSUME NEW s \in SUBSET D, NEW x \in s PROVE Cardinality(s \ {x}) = Cardinality(s) - 1
    BY <1>1, FS_RemoveElement
<1>4. \A s \in SUBSET D : Cardinality(s) = 0 <=> s = {} BY <1>1, FS_EmptySet
<1>5. SmallParts(D, 0) = {{}}
  <2>1. \A s \in SUBSET D : Cardinality(s) <= 0 <=> s = {} BY <1>2, <1>4
  <2> QED BY <2>1 DEF SmallParts
<1>6. SmallParts(D, Cardinality(D)) = SUBSET D BY <1>1 DEF SmallParts
<1> QED BY <1>1, <1>2, <1>3, <1>5, <1>6

\* it folds F over the part s, of which c[s] is the last.
FoldsAt(it, s, b, c, F) == it[s] = IF s = {} THEN b ELSE F[c[s], it[s \ {c[s]}]]

LEMMA FoldGrows ==
    ASSUME NEW D, IsFiniteSet(D), NEW A, NEW b \in A,
           NEW c, \A s \in SUBSET D : s # {} => c[s] \in s,
           NEW F \in [D \X A -> A], NEW n \in Nat,
           NEW it \in [SmallParts(D, n) -> A],
           \A s \in SmallParts(D, n) : FoldsAt(it, s, b, c, F)
    PROVE  \E next \in [SmallParts(D, n + 1) -> A] :
               \A s \in SmallParts(D, n + 1) : FoldsAt(next, s, b, c, F)
<1> DEFINE Old == SmallParts(D, n)
           New == SmallParts(D, n + 1)
           next == [s \in New |-> IF s \in Old THEN it[s] ELSE F[c[s], it[s \ {c[s]}]]]
<1>1. ASSUME NEW s \in New, s # {}
      PROVE  c[s] \in D /\ s \ {c[s]} \in Old /\ s \ {c[s]} \in New
  <2>1. s \in SUBSET D /\ Cardinality(s) <= n + 1 /\ c[s] \in s BY <1>1 DEF SmallParts
  <2>2. Cardinality(s \ {c[s]}) = Cardinality(s) - 1 /\ Cardinality(s) \in Nat BY <2>1, PartFacts
  <2>3. s \ {c[s]} \in SUBSET D BY <2>1
  <2> QED BY <2>1, <2>2, <2>3 DEF SmallParts
<1>2. ASSUME NEW s \in New, s \notin Old PROVE s # {}
  <2>1. {} \in Old
    <3>1. Cardinality({}) = 0 BY FS_EmptySet
    <3> QED BY <3>1 DEF SmallParts
  <2> QED BY <1>2, <2>1
<1>3. next \in [New -> A]
  <2>1. ASSUME NEW s \in New, s \notin Old PROVE F[c[s], it[s \ {c[s]}]] \in A
      BY <1>1, <1>2, <2>1
  <2>2. ASSUME NEW s \in New, s \in Old PROVE it[s] \in A BY <2>2
  <2> HIDE DEF Old, New
  <2> QED BY <2>1, <2>2
<1>4. ASSUME NEW s \in New PROVE FoldsAt(next, s, b, c, F)
  <2>1. CASE s = {}
    <3>1. s \in Old BY <1>2, <2>1
    <3> QED BY <2>1, <3>1 DEF FoldsAt
  <2>2. CASE s # {} /\ s \in Old
    <3>1. it[s] = F[c[s], it[s \ {c[s]}]] BY <2>2 DEF FoldsAt
    <3>2. next[s] = it[s] /\ next[s \ {c[s]}] = it[s \ {c[s]}] BY <1>1, <2>2
    <3> QED BY <2>2, <3>1, <3>2 DEF FoldsAt
  <2>3. CASE s \notin Old
    <3>1. next[s] = F[c[s], it[s \ {c[s]}]] BY <2>3
    <3>2. next[s \ {c[s]}] = it[s \ {c[s]}] BY <1>1, <1>2, <2>3
    <3> QED BY <1>2, <2>3, <3>1, <3>2 DEF FoldsAt
  <2> QED BY <2>1, <2>2, <2>3
<1> HIDE DEF New, next
<1> QED BY <1>3, <1>4 DEF New

LEMMA FoldExists ==
    ASSUME NEW D, IsFiniteSet(D), NEW A, NEW b \in A,
           NEW c, \A s \in SUBSET D : s # {} => c[s] \in s,
           NEW F \in [D \X A -> A]
    PROVE  \E it \in [SUBSET D -> A] : \A s \in SUBSET D : FoldsAt(it, s, b, c, F)
<1> DEFINE Can(n) == \E it \in [SmallParts(D, n) -> A] :
                         \A s \in SmallParts(D, n) : FoldsAt(it, s, b, c, F)
           Good == {n \in Nat : Can(n)}
<1>1. Can(0)
  <2> DEFINE it == [s \in {{}} |-> b]
  <2>1. SmallParts(D, 0) = {{}} BY PartFacts
  <2>2. it \in [{{}} -> A] /\ \A s \in {{}} : FoldsAt(it, s, b, c, F) BY DEF FoldsAt
  <2> QED BY <2>1, <2>2
<1>2. ASSUME NEW n \in Nat, Can(n) PROVE Can(n + 1) BY <1>2, FoldGrows
<1>3. Cardinality(D) \in Nat BY FS_CardinalityType
<1>4. Can(Cardinality(D))
  <2> HIDE DEF Can
  <2>1. 0 \in Good BY <1>1
  <2>2. \A n \in Nat : n \in Good => n + 1 \in Good BY <1>2
  <2> HIDE DEF Good
  <2>3. Cardinality(D) \in Good BY <1>3, <2>1, <2>2, NumberInduction
  <2> QED BY <2>3 DEF Good
<1> QED BY <1>4, PartFacts

\* What holds of the empty part, and of each part that lacks only one entry of the next.
LEMMA PartInduction ==
    ASSUME NEW D, IsFiniteSet(D), NEW Good, {} \in Good,
           \A s \in SUBSET D : s # {} => \E x \in s : s \ {x} \in Good => s \in Good
    PROVE  D \in Good
<1> DEFINE N == {n \in Nat : \A s \in SUBSET D : Cardinality(s) = n => s \in Good}
<1>1. 0 \in N
  <2>1. \A s \in SUBSET D : Cardinality(s) = 0 => s = {} BY PartFacts, FS_EmptySet
  <2> QED BY <2>1
<1>2. ASSUME NEW n \in Nat, n \in N PROVE n + 1 \in N
  <2>1. ASSUME NEW s \in SUBSET D, Cardinality(s) = n + 1 PROVE s \in Good
    <3>1. s # {} BY <2>1, FS_EmptySet
    <3>2. PICK x \in s : s \ {x} \in Good => s \in Good BY <3>1
    <3>3. Cardinality(s \ {x}) = n BY <2>1, PartFacts
    <3>4. s \ {x} \in SUBSET D OBVIOUS
    <3> QED BY <1>2, <3>2, <3>3, <3>4
  <2> QED BY <2>1
<1>3. Cardinality(D) \in Nat BY FS_CardinalityType
<1>4. Cardinality(D) \in N
  <2> HIDE DEF N
  <2> QED BY <1>1, <1>2, <1>3, NumberInduction
<1> QED BY <1>4

\* A set of numbers with a bound has a largest one.
LEMMA MaxExists ==
    ASSUME NEW m \in Nat, NEW S \in SUBSET (0 .. m), S # {}
    PROVE  \E n \in S : \A k \in S : n >= k
<1> DEFINE T == {n \in Nat : \A k \in S : k <= n}
<1>1. m \in T OBVIOUS
<1>2. PICK n \in T : \A k \in T : n <= k
  <2>1. T \in SUBSET Nat OBVIOUS
  <2> HIDE DEF T
  <2> QED BY <1>1, <2>1, SmallestNumber
<1>3. n \in Nat /\ \A k \in S : k <= n /\ k \in Nat BY <1>2
<1>4. n \in S
  <2>1. SUFFICES ASSUME n \notin S PROVE FALSE OBVIOUS
  <2>2. PICK k \in S : TRUE OBVIOUS
  <2>3. n # 0 BY <1>3, <2>1, <2>2
  <2>4. n - 1 \in Nat BY <1>3, <2>3
  <2>5. \A j \in S : j <= n - 1 BY <1>3, <2>1
  <2>6. n - 1 \in T BY <2>4, <2>5
  <2> HIDE DEF T
  <2>7. n <= n - 1 BY <1>2, <2>6
  <2> QED BY <1>3, <2>7
<1> QED BY <1>3, <1>4

-----------------------------------------------------------------------------
(* One player.                                                             *)

LEMMA Constants ==
    /\ IsFiniteSet(Player) /\ IsFiniteSet(Team) /\ IsFiniteSet(Treasure)
    /\ PauseTeam \in Team /\ None \notin Team /\ None \notin Player
    /\ Lives \in Nat /\ MaxPaused \in Nat /\ RoundsToPlay \in Nat /\ MaxDestroyed \in Nat
BY RoundsAssumption

LEMMA NewPlayerFits == PlayerFits(NewPlayer)
BY Constants DEF NewPlayer, PlayerFits, PlayerType, LivesFit, States

\* What Player_set_state does to a record.
LEMMA StateSet ==
    ASSUME NEW x \in PlayerType, NEW s \in States
    PROVE  LET y == Player_set_state(x, s) IN
           /\ y \in PlayerType
           /\ y.state = s /\ y.team = x.team /\ y.life = x.life /\ y.deaths = x.deaths
BY DEF Player_set_state, PlayerType, States

LEMMA DeathsSet ==
    ASSUME NEW x \in PlayerType, NEW d \in Int
    PROVE  LET y == [x EXCEPT !.deaths = d] IN
           /\ y \in PlayerType
           /\ y.state = x.state /\ y.team = x.team /\ y.life = x.life /\ y.deaths = d
BY DEF PlayerType

LEMMA LifeSet ==
    ASSUME NEW x \in PlayerType, NEW n \in 0 .. Lives
    PROVE  LET y == [x EXCEPT !.life = n] IN
           /\ y \in PlayerType
           /\ y.state = x.state /\ y.team = x.team /\ y.life = n /\ y.deaths = x.deaths
BY DEF PlayerType

\* A death, whoever it befalls.
LEMMA DestroyedIs ==
    ASSUME NEW x \in PlayerType
    PROVE  LET y == Player_destroy(x) IN
           /\ y \in PlayerType
           /\ y.state = IF x.life = 0 THEN "DEAD" ELSE "APPEARING"
           /\ y.life = IF x.life = 0 THEN 0 ELSE x.life - 1
           /\ y.deaths = x.deaths + 1
           /\ y.team = x.team
<1> DEFINE y == [x EXCEPT !.deaths = x.deaths + 1]
           z == [y EXCEPT !.life = y.life - 1]
<1>1. x.life \in 0 .. Lives /\ x.deaths + 1 \in Int /\ Lives \in Nat BY Constants DEF PlayerType
<1>2. y \in PlayerType /\ y.deaths = x.deaths + 1 /\ y.life = x.life /\ y.team = x.team
    BY <1>1, DeathsSet
<1>3. Player_destroy(x) = IF x.life = 0 THEN Player_set_state(y, "DEAD")
                          ELSE Player_set_state(z, "APPEARING")
    BY DEF Player_destroy
<1> HIDE DEF y
<1>4. CASE x.life = 0 BY <1>2, <1>3, <1>4, StateSet DEF States
<1>5. CASE x.life # 0
  <2>1. y.life - 1 \in 0 .. Lives BY <1>1, <1>2, <1>5
  <2>2. z \in PlayerType /\ z.deaths = y.deaths /\ z.life = x.life - 1 /\ z.team = y.team
      BY <1>2, <2>1, LifeSet
  <2> HIDE DEF z
  <2> QED BY <1>2, <1>3, <1>5, <2>2, StateSet DEF States
<1> QED BY <1>4, <1>5

LEMMA DestroyedFits ==
    ASSUME NEW x \in PlayerType,
           RoundsToPlay = 0 =>
               /\ x.deaths \in -1 .. Lives
               /\ x.life > 0 => x.deaths + x.life <= Lives
               /\ x.team # PauseTeam
    PROVE  LET y == Player_destroy(x) IN
           /\ PlayerFits(y)
           /\ y.deaths = x.deaths + 1
           /\ y.state = IF x.life = 0 THEN "DEAD" ELSE "APPEARING"
           /\ y.team = x.team
           /\ y.life = IF x.life = 0 THEN 0 ELSE x.life - 1
<1> DEFINE y == Player_destroy(x)
<1>1. x.life \in 0 .. Lives /\ x.deaths \in Int /\ Lives \in Nat BY Constants DEF PlayerType
<1>2. /\ y \in PlayerType
      /\ y.state = IF x.life = 0 THEN "DEAD" ELSE "APPEARING"
      /\ y.life = IF x.life = 0 THEN 0 ELSE x.life - 1
      /\ y.deaths = x.deaths + 1
      /\ y.team = x.team
    BY DestroyedIs
<1> HIDE DEF y
<1>3. RoundsToPlay = 0 => LivesFit(y) BY <1>1, <1>2 DEF LivesFit
<1>4. PlayerFits(y) BY <1>2, <1>3 DEF PlayerFits
<1> QED BY <1>2, <1>4 DEF y

\* A killed player has its turn.
LEMMA KilledFits ==
    ASSUME NEW x, PlayerFits(x), x.state = "KILLED"
    PROVE  LET y == Player_destroy(x) IN
           /\ PlayerFits(y)
           /\ y.state \in {"DEAD", "APPEARING"}
           /\ y.team = x.team
<1>1. x \in PlayerType /\ x.life \in 0 .. Lives /\ Lives \in Nat BY Constants DEF PlayerFits, PlayerType
<1>2. RoundsToPlay = 0 =>
          /\ x.deaths \in -1 .. Lives
          /\ x.life > 0 => x.deaths + x.life <= Lives
          /\ x.team # PauseTeam
    BY <1>1 DEF PlayerFits, LivesFit
<1> QED BY <1>1, <1>2, DestroyedFits

\* A player that is in the game after a new round has begun.
LEMMA RestartedFits ==
    ASSUME NEW x, PlayerFits(x), x.state # "PAUSED"
    PROVE  LET y == Restarted(x) IN
           PlayerFits(y) /\ y.state = "APPEARING" /\ y.team = x.team
<1> DEFINE y == [x EXCEPT !.deaths = 0, !.life = Lives]
<1>1. y \in PlayerType /\ y.team = x.team /\ y.life = Lives /\ y.deaths = 0 /\ Lives \in Nat
  <2> DEFINE w == [x EXCEPT !.deaths = 0]
  <2>1. x \in PlayerType /\ Lives \in 0 .. Lives /\ Lives \in Nat BY Constants DEF PlayerFits
  <2>2. w \in PlayerType /\ w.team = x.team /\ w.deaths = 0 BY <2>1, DeathsSet
  <2>3. y = [w EXCEPT !.life = Lives] OBVIOUS
  <2> HIDE DEF w
  <2> QED BY <2>1, <2>2, <2>3, LifeSet
<1>2. Restarted(x) = Player_set_state(y, "APPEARING") BY DEF Restarted
<1> HIDE DEF y
<1>3. LET z == Restarted(x) IN
      /\ z \in PlayerType
      /\ z.state = "APPEARING" /\ z.team = x.team /\ z.life = Lives /\ z.deaths = 0
    BY <1>1, <1>2, StateSet DEF States
<1> DEFINE z == Restarted(x)
<1> HIDE DEF z
<1>4. /\ z \in PlayerType
      /\ z.state = "APPEARING" /\ z.team = x.team /\ z.life = Lives /\ z.deaths = 0
    BY <1>3 DEF z
<1>5. LivesFit(z) BY <1>1, <1>4 DEF LivesFit
<1>6. PlayerFits(z) BY <1>4, <1>5 DEF PlayerFits
<1> QED BY <1>4, <1>6 DEF z

\* What a frame does to a player's ship, and the states that it may lead to.
\* What Update may do to a player, and what comes of it.
MayUpdate(x, explodes, dies, calm) ==
    /\ PlayerFits(x) /\ x.state # "KILLED"
    /\ explodes = TRUE => x.state \notin {"UNDEFINED", "PAUSED"}
    /\ dies = TRUE => calm.state = "ALIVE"

UpdatesTo(x, y) ==
    /\ PlayerFits(y)
    /\ y.team = x.team
    /\ y.state = "UNDEFINED" <=> x.state = "UNDEFINED"
    /\ y.state = "PAUSED" <=> x.state = "PAUSED"
    /\ x.state = "DEAD" => y.state = "DEAD"

LEMMA UpdatedFits ==
    ASSUME NEW x, NEW recovers \in BOOLEAN, NEW explodes \in BOOLEAN,
           NEW dies \in BOOLEAN, NEW suicide \in BOOLEAN,
           MayUpdate(x, explodes, dies, Updated(x, recovers, explodes, FALSE, FALSE))
    PROVE  UpdatesTo(x, Updated(x, recovers, explodes, dies, suicide))
<1>a. /\ PlayerFits(x) /\ x.state # "KILLED"
      /\ explodes => x.state \notin {"UNDEFINED", "PAUSED"}
      /\ dies => Updated(x, recovers, explodes, FALSE, FALSE).state = "ALIVE"
    BY DEF MayUpdate
<1> DEFINE home == IF recovers
                   THEN [x EXCEPT !.recovering = FALSE,
                                  !.state = IF @ = "APPEARING" THEN "ALIVE" ELSE @]
                   ELSE x
           lit == [home EXCEPT !.destruct = FALSE]
           boom == IF explodes
                   THEN [Player_destroy(lit) EXCEPT !.deaths = @ - 1]
                   ELSE home
           dead == Player_set_state(boom, "KILLED")
<1>1. Updated(x, recovers, explodes, dies, suicide) =
          IF dies THEN [dead EXCEPT !.deaths = IF suicide THEN @ - 1 ELSE @] ELSE boom
    BY DEF Updated
<1>2. Updated(x, recovers, explodes, FALSE, FALSE) = boom BY DEF Updated
<1>3. x \in PlayerType /\ Lives \in Nat BY <1>a, Constants DEF PlayerFits
<1>4. /\ home \in PlayerType
      /\ home.life = x.life /\ home.deaths = x.deaths /\ home.team = x.team
      /\ home.state = IF recovers /\ x.state = "APPEARING" THEN "ALIVE" ELSE x.state
    BY <1>3 DEF PlayerType, States
<1>5. PlayerFits(home)
  <2> HIDE DEF home
  <2> QED BY <1>a, <1>4 DEF PlayerFits, LivesFit
<1>6. /\ lit \in PlayerType
      /\ lit.life = x.life /\ lit.deaths = x.deaths /\ lit.team = x.team
  <2> HIDE DEF home
  <2> QED BY <1>4 DEF PlayerType
<1> HIDE DEF lit
<1>7. ASSUME explodes
      PROVE  /\ boom \in PlayerType
             /\ boom.state = IF x.life = 0 THEN "DEAD" ELSE "APPEARING"
             /\ boom.life = IF x.life = 0 THEN 0 ELSE x.life - 1
             /\ boom.deaths = x.deaths
             /\ boom.team = x.team
             /\ PlayerFits(boom)
  <2>1. RoundsToPlay = 0 => x.team # PauseTeam /\ x.deaths >= 0 /\ LivesFit(x)
      BY <1>a, <1>7 DEF PlayerFits, LivesFit
  <2>2. x.life \in 0 .. Lives /\ x.deaths \in Int BY <1>3 DEF PlayerType
  <2> DEFINE ruin == Player_destroy(lit)
  <2>3. ruin.deaths = lit.deaths + 1 /\ ruin.team = lit.team /\ ruin \in PlayerType
        /\ ruin.state = (IF x.life = 0 THEN "DEAD" ELSE "APPEARING")
        /\ ruin.life = (IF x.life = 0 THEN 0 ELSE x.life - 1)
    BY <1>6, DestroyedIs
  <2> HIDE DEF ruin
  <2>4. boom = [ruin EXCEPT !.deaths = @ - 1] BY <1>7 DEF ruin
  <2>5. /\ boom \in PlayerType
        /\ boom.state = ruin.state /\ boom.life = ruin.life
        /\ boom.deaths = ruin.deaths - 1 /\ boom.team = ruin.team
    <3>1. boom = [ruin EXCEPT !.deaths = ruin.deaths - 1] BY <2>4
    <3>2. ruin.deaths - 1 \in Int BY <2>3 DEF PlayerType
    <3> HIDE DEF boom
    <3> QED BY <2>3, <3>1, <3>2, DeathsSet
  <2>6. boom.deaths = x.deaths BY <2>2, <2>3, <2>5, <1>6
  <2> HIDE DEF boom
  <2> QED BY <1>3, <1>6, <2>1, <2>2, <2>3, <2>5, <2>6 DEF PlayerFits, LivesFit
<1>8. PlayerFits(boom) /\ boom.team = x.team /\ boom.state # "KILLED"
  <2>1. CASE explodes BY <1>7, <2>1
  <2>2. CASE ~explodes
    <3>1. boom = home BY <2>2
    <3> HIDE DEF boom, home
    <3> QED BY <1>a, <1>4, <1>5, <3>1
  <2> QED BY <2>1, <2>2
<1>9. /\ boom.state = "UNDEFINED" <=> x.state = "UNDEFINED"
      /\ boom.state = "PAUSED" <=> x.state = "PAUSED"
      /\ x.state = "DEAD" => boom.state = "DEAD"
  <2>1. CASE explodes
    <3>1. x.state = "DEAD" => x.life = 0 BY <1>a DEF PlayerFits
    <3> HIDE DEF boom
    <3> QED BY <1>a, <1>7, <2>1, <3>1
  <2>2. CASE ~explodes
    <3>1. boom = home BY <2>2
    <3> HIDE DEF boom, home
    <3> QED BY <1>4, <3>1
  <2> QED BY <2>1, <2>2
<1> HIDE DEF boom, home
<1>10. CASE ~dies
  <2>1. Updated(x, recovers, explodes, dies, suicide) = boom BY <1>1, <1>10
  <2> QED BY <1>8, <1>9, <1>10, <2>1 DEF UpdatesTo
<1>11. CASE dies
  <2>1. boom.state = "ALIVE" BY <1>a, <1>2, <1>11
  <2>2. boom \in PlayerType BY <1>8 DEF PlayerFits
  <2>3. /\ dead \in PlayerType /\ dead.state = "KILLED" /\ dead.team = boom.team
        /\ dead.life = boom.life /\ dead.deaths = boom.deaths
      BY <2>2, StateSet DEF States
  <2> HIDE DEF dead
  <2> DEFINE y == [dead EXCEPT !.deaths = IF suicide THEN @ - 1 ELSE @]
  <2>4. /\ y \in PlayerType /\ y.state = "KILLED" /\ y.team = dead.team /\ y.life = dead.life
        /\ y.deaths = dead.deaths \/ y.deaths = dead.deaths - 1
      BY <2>3 DEF PlayerType
  <2>5. Updated(x, recovers, explodes, dies, suicide) = y BY <1>1, <1>11
  <2> HIDE DEF y
  <2>6. boom.deaths \in Int /\ boom.life \in 0 .. Lives BY <2>2 DEF PlayerType
  <2>7. RoundsToPlay = 0 => LivesFit(y)
      BY <1>3, <1>8, <2>1, <2>3, <2>4, <2>6 DEF PlayerFits, LivesFit
  <2>8. RoundsToPlay = 0 => y.team # PauseTeam
      BY <1>8, <2>1, <2>3, <2>4 DEF PlayerFits
  <2>9. PlayerFits(y) BY <2>4, <2>7, <2>8 DEF PlayerFits
  <2> QED BY <1>8, <1>9, <1>11, <2>1, <2>3, <2>4, <2>5, <2>9 DEF UpdatesTo
<1> QED BY <1>10, <1>11

-----------------------------------------------------------------------------
(* The table of players, and counting the pausers' team.                   *)

\* No entry of the table h is one that was before it.
Lowered(h, g) == \A j \in DOMAIN h : \E i \in DOMAIN g : j <= i /\ g[i] = h[j]

LEMMA WithoutFits ==
    ASSUME NEW P, NEW order, TableFits(order, P), NEW p \in P
    PROVE  TableFits(Without(order, p), P \ {p}) /\ Lowered(Without(order, p), order)
<1> DEFINE n == Len(order)
           w == Without(order, p)
<1>1. /\ order \in Seq(P) /\ n \in Nat /\ DOMAIN order = 1 .. n
      /\ \A i \in 1 .. n : order[i] \in P
    BY DEF TableFits
<1>w. w = [j \in 1 .. n - 1 |-> IF order[j] = p THEN order[n] ELSE order[j]] BY DEF Without
<1> HIDE DEF n, w
<1>2. PICK k \in 1 .. n : order[k] = p BY <1>1 DEF TableFits
<1>3. \A i, j \in 1 .. n : order[i] = order[j] => i = j BY <1>1 DEF TableFits
<1>4. w = [j \in 1 .. n - 1 |-> IF j = k THEN order[n] ELSE order[j]]
  <2>1. \A j \in 1 .. n - 1 : order[j] = p <=> j = k BY <1>1, <1>2, <1>3
  <2> QED BY <2>1, <1>w
<1>5. n >= 1 /\ n - 1 \in Nat /\ k \in Nat BY <1>1, <1>2
<1>6. ASSUME NEW j \in 1 .. n - 1
      PROVE  /\ j \in 1 .. n
             /\ j = k => w[j] = order[n] /\ n # k
             /\ j # k => w[j] = order[j]
    BY <1>1, <1>4, <1>6
<1>7. \A j \in 1 .. n - 1 : w[j] \in P \ {p}
  <2>1. n \in 1 .. n BY <1>1, <1>5
  <2> QED BY <1>1, <1>2, <1>3, <1>6, <2>1
<1>8. w \in Seq(P \ {p}) /\ DOMAIN w = 1 .. n - 1
  <2>1. DOMAIN w = 1 .. n - 1 BY <1>4
  <2>2. w = [j \in 1 .. n - 1 |-> w[j]] BY <1>4
  <2>3. w \in [1 .. n - 1 -> P \ {p}] BY <1>7, <2>2
  <2> QED BY <1>5, <2>1, <2>3, SeqDef
<1>9. ASSUME NEW i \in 1 .. n - 1, NEW j \in 1 .. n - 1, w[i] = w[j] PROVE i = j
  <2>1. n \in 1 .. n /\ i # n /\ j # n BY <1>1, <1>5
  <2> QED BY <1>3, <1>6, <1>9, <2>1
<1>10. ASSUME NEW q \in P \ {p} PROVE \E j \in 1 .. n - 1 : w[j] = q
  <2>1. PICK i \in 1 .. n : order[i] = q BY <1>1 DEF TableFits
  <2>2. i # k BY <1>2, <2>1
  <2>3. CASE i = n
    <3>1. k \in 1 .. n - 1 BY <1>1, <1>5, <2>2, <2>3
    <3>2. w[k] = q BY <1>6, <2>1, <2>3, <3>1
    <3> QED BY <3>1, <3>2
  <2>4. CASE i # n
    <3>1. i \in 1 .. n - 1 BY <1>1, <2>4
    <3>2. w[i] = q BY <1>6, <2>1, <2>2, <3>1
    <3> QED BY <3>1, <3>2
  <2> QED BY <2>3, <2>4
<1>11. ASSUME NEW j \in 1 .. n - 1 PROVE \E i \in 1 .. n : j <= i /\ order[i] = w[j]
  <2>1. n \in 1 .. n /\ j <= n /\ j <= j BY <1>1, <1>5
  <2> QED BY <1>6, <2>1
<1>12. TableFits(w, P \ {p}) BY <1>8, <1>9, <1>10 DEF TableFits
<1>13. Lowered(w, order) BY <1>1, <1>8, <1>11 DEF Lowered
<1> QED BY <1>12, <1>13 DEF w

LEMMA AppendedFits ==
    ASSUME NEW P, NEW order, TableFits(order, P), NEW p, p \notin P
    PROVE  TableFits(Append(order, p), P \cup {p})
<1> DEFINE n == Len(order)
           a == Append(order, p)
<1>1. order \in Seq(P) /\ n \in Nat /\ DOMAIN order = 1 .. n /\ \A i \in 1 .. n : order[i] \in P
    BY DEF TableFits
<1>2. order \in Seq(P \cup {p}) BY <1>1, SeqDef
<1>3. /\ a \in Seq(P \cup {p}) /\ Len(a) = n + 1
      /\ \A i \in 1 .. n : a[i] = order[i]
      /\ a[n + 1] = p
    BY <1>2, AppendProperties
<1>4. DOMAIN a = 1 .. n + 1 BY <1>3, LenProperties
<1> HIDE DEF a
<1>5. \A i \in 1 .. n + 1 : i = n + 1 \/ i \in 1 .. n BY <1>1
<1>6. ASSUME NEW i \in 1 .. n + 1, NEW j \in 1 .. n + 1, a[i] = a[j] PROVE i = j
  <2>1. \A k, m \in 1 .. n : order[k] = order[m] => k = m BY <1>1 DEF TableFits
  <2> QED BY <1>1, <1>3, <1>5, <1>6, <2>1
<1>7. ASSUME NEW q \in P \cup {p} PROVE \E i \in 1 .. n + 1 : a[i] = q
  <2>1. CASE q = p BY <1>1, <1>3, <2>1
  <2>2. CASE q # p
    <3>1. PICK i \in 1 .. n : order[i] = q BY <1>1, <2>2 DEF TableFits
    <3>2. i \in 1 .. n + 1 BY <1>1
    <3> QED BY <1>3, <3>1, <3>2
  <2> QED BY <2>1, <2>2
<1>8. TableFits(a, P \cup {p}) BY <1>3, <1>4, <1>6, <1>7 DEF TableFits
<1> QED BY <1>8 DEF a

LEMMA LoweredTwice ==
    ASSUME NEW f, NEW g, NEW h, Lowered(h, g), Lowered(g, f),
           DOMAIN f \subseteq Nat, DOMAIN g \subseteq Nat, DOMAIN h \subseteq Nat
    PROVE  Lowered(h, f)
<1>1. ASSUME NEW j \in DOMAIN h PROVE \E k \in DOMAIN f : j <= k /\ f[k] = h[j]
  <2>1. PICK i \in DOMAIN g : j <= i /\ g[i] = h[j] BY DEF Lowered
  <2>2. PICK k \in DOMAIN f : i <= k /\ f[k] = g[i] BY DEF Lowered
  <2>3. j <= k BY <2>1, <2>2
  <2> QED BY <2>1, <2>2, <2>3
<1> QED BY <1>1 DEF Lowered

LEMMA PlayersFinite ==
    \A S \in SUBSET Player : IsFiniteSet(S) /\ Cardinality(S) \in Nat
BY Constants, FS_Subset, FS_CardinalityType

One(u, t) == IF u = t THEN 1 ELSE 0

\* Only p's team changes.
OneChanges(g, h, p) == \A q \in Player : q # p => h.pl[q].team = g.pl[q].team

LEMMA TeamCount ==
    ASSUME NEW g, NEW h, NEW p \in Player, NEW t, OneChanges(g, h, p)
    PROVE  /\ Cardinality(OnTeam(h, t)) =
                  Cardinality(OnTeam(g, t)) + One(h.pl[p].team, t) - One(g.pl[p].team, t)
           /\ Cardinality(OnTeam(g, t)) \in Nat
<1> DEFINE A == OnTeam(g, t)
           B == OnTeam(h, t)
<1>1. IsFiniteSet(A) /\ Cardinality(A) \in Nat
  <2>1. A \in SUBSET Player BY DEF OnTeam
  <2> QED BY <2>1, PlayersFinite
<1>0. \A q \in Player : q # p => h.pl[q].team = g.pl[q].team BY DEF OneChanges
<1>2. CASE h.pl[p].team = t <=> g.pl[p].team = t
  <2>1. B = A BY <1>0, <1>2 DEF OnTeam
  <2>2. One(h.pl[p].team, t) = One(g.pl[p].team, t) BY <1>2 DEF One
  <2>3. One(g.pl[p].team, t) \in Int BY DEF One
  <2> QED BY <1>1, <2>1, <2>2, <2>3
<1>3. CASE h.pl[p].team = t /\ g.pl[p].team # t
  <2>1. B = A \cup {p} /\ p \notin A BY <1>0, <1>3 DEF OnTeam
  <2>2. Cardinality(B) = Cardinality(A) + 1
    <3> HIDE DEF A, B
    <3> QED BY <1>1, <2>1, FS_AddElement
  <2> QED BY <1>1, <1>3, <2>2 DEF One
<1>4. CASE h.pl[p].team # t /\ g.pl[p].team = t
  <2>1. B = A \ {p} /\ p \in A BY <1>0, <1>4 DEF OnTeam
  <2>2. Cardinality(B) = Cardinality(A) - 1
    <3> HIDE DEF A, B
    <3> QED BY <1>1, <2>1, FS_RemoveElement
  <2> QED BY <1>1, <1>4, <2>2 DEF One
<1>5. \/ h.pl[p].team = t <=> g.pl[p].team = t
      \/ h.pl[p].team = t /\ g.pl[p].team # t
      \/ h.pl[p].team # t /\ g.pl[p].team = t
    OBVIOUS
<1> QED BY <1>2, <1>3, <1>4, <1>5

\* Two exchange their teams.
LEMMA ExchangeCount ==
    ASSUME NEW g, NEW h, NEW p \in Player, NEW q \in Player, NEW t,
           h.pl[p].team = g.pl[q].team, h.pl[q].team = g.pl[p].team,
           \A x \in Player : x # p /\ x # q => h.pl[x].team = g.pl[x].team
    PROVE  Cardinality(OnTeam(h, t)) = Cardinality(OnTeam(g, t))
<1> DEFINE f == [pl |-> [x \in Player |-> [team |-> IF x = p THEN g.pl[q].team
                                                   ELSE g.pl[x].team]]]
<1>1. OneChanges(g, f, p) BY DEF OneChanges
<1>2. OneChanges(f, h, q) BY DEF OneChanges
<1>3. f.pl[p].team = g.pl[q].team /\ f.pl[q].team = g.pl[q].team OBVIOUS
<1> HIDE DEF f
<1>4. /\ Cardinality(OnTeam(f, t)) =
             Cardinality(OnTeam(g, t)) + One(f.pl[p].team, t) - One(g.pl[p].team, t)
      /\ Cardinality(OnTeam(g, t)) \in Nat
    BY <1>1, TeamCount
<1>5. Cardinality(OnTeam(h, t)) =
          Cardinality(OnTeam(f, t)) + One(h.pl[q].team, t) - One(f.pl[q].team, t)
    BY <1>2, TeamCount
<1>6. /\ One(f.pl[p].team, t) = One(g.pl[q].team, t)
      /\ One(f.pl[q].team, t) = One(g.pl[q].team, t)
      /\ One(h.pl[q].team, t) = One(g.pl[p].team, t)
    BY <1>3
<1>7. One(g.pl[p].team, t) \in Int /\ One(g.pl[q].team, t) \in Int BY DEF One
<1> QED BY ONLY <1>4, <1>5, <1>6, <1>7

-----------------------------------------------------------------------------
(* The ways in which games change.                                         *)

LEMMA SoundFacts ==
    ASSUME NEW g, Sound(g)
    PROVE  /\ g \in GameType
           /\ \A p \in Player : PlayerFits(g.pl[p]) /\ g.pl[p] \in PlayerType
           /\ TableFits(g.order, InGame(g))
           /\ DOMAIN g.order \subseteq Nat
           /\ \A i \in DOMAIN g.order : g.order[i] \in InGame(g)
           /\ \A p \in InGame(g) : \E i \in DOMAIN g.order : g.order[i] = p
<1>1. \A p \in Player : g.pl[p] \in PlayerType BY DEF Sound, PlayerFits
<1>2. g.order \in Seq(InGame(g)) BY DEF Sound, TableFits
<1>3. DOMAIN g.order = 1 .. Len(g.order) /\ \A i \in 1 .. Len(g.order) : g.order[i] \in InGame(g)
    BY <1>2
<1> QED BY <1>1, <1>3 DEF Sound, TableFits

\* One player's record is replaced.
LEMMA PlayerSet ==
    ASSUME NEW g \in GameType, NEW p \in Player, NEW x \in PlayerType
    PROVE  LET h == [g EXCEPT !.pl[p] = x] IN
           /\ h \in GameType
           /\ h.pl[p] = x
           /\ \A q \in Player : q # p => h.pl[q] = g.pl[q]
           /\ h.order = g.order /\ h.NumPaused = g.NumPaused /\ h.ball = g.ball
           /\ h.left = g.left /\ h.destroyed = g.destroyed
           /\ h.over = g.over /\ h.news = g.news /\ h.roundsPlayed = g.roundsPlayed
BY DEF GameType

\* The table and the balls stay, and the records fit.
LEMMA SameTable ==
    ASSUME NEW g, Sound(g), NEW h \in GameType,
           h.order = g.order,
           h.ball = g.ball,
           \A p \in Player : /\ PlayerFits(h.pl[p])
                             /\ h.pl[p].state = "UNDEFINED" <=> g.pl[p].state = "UNDEFINED",
           PausedFit(h)
    PROVE  Sound(h) /\ InGame(h) = InGame(g)
<1>1. InGame(h) = InGame(g) BY DEF InGame
<1> QED BY <1>1 DEF Sound, OwnersPlay

\* Nobody changes teams, and nobody is paused or ceases to be.
LEMMA SameTeams ==
    ASSUME NEW g, Sound(g), NEW h,
           h.NumPaused = g.NumPaused,
           \A p \in Player : h.pl[p].team = g.pl[p].team
    PROVE  PausedFit(h)
<1>1. OnTeam(h, PauseTeam) = OnTeam(g, PauseTeam) BY DEF OnTeam
<1> QED BY <1>1 DEF Sound, PausedFit

LEMMA EntryState ==
    ASSUME NEW g, NEW p
    PROVE  LET s == Player_compute_entry_state(g, p)
               x == g.pl[p]
           IN  /\ s \in {"PAUSED", "WAITING", "APPEARING", "ALIVE"}
               /\ s = "PAUSED" <=> x.team = PauseTeam
               /\ x.state \in {"DEAD", "WAITING"} => s \in {"PAUSED", "WAITING"}
               /\ x.state = "APPEARING" => s # "ALIVE"
BY DEF Player_compute_entry_state

\* y is x as it enters with the team t, somewhere.
Enters(x, t, y) ==
    /\ y \in PlayerType
    /\ y.team = t /\ y.life = x.life /\ y.deaths = x.deaths
    /\ y.state \in {"PAUSED", "WAITING", "APPEARING", "ALIVE"}
    /\ y.state = "PAUSED" <=> t = PauseTeam
    /\ x.state \in {"DEAD", "WAITING"} => y.state \in {"PAUSED", "WAITING"}
    /\ x.state = "APPEARING" => y.state # "ALIVE"

LEMMA EnteredIs ==
    ASSUME NEW g \in GameType, NEW p \in Player
    PROVE  \E y : Enters(g.pl[p], g.pl[p].team, y) /\ Entered(g, p) = [g EXCEPT !.pl[p] = y]
<1> DEFINE s == Player_compute_entry_state(g, p)
           y == Player_set_state(g.pl[p], s)
<1>1. /\ s \in {"PAUSED", "WAITING", "APPEARING", "ALIVE"}
      /\ s = "PAUSED" <=> g.pl[p].team = PauseTeam
      /\ g.pl[p].state \in {"DEAD", "WAITING"} => s \in {"PAUSED", "WAITING"}
      /\ g.pl[p].state = "APPEARING" => s # "ALIVE"
    BY EntryState
<1>2. Entered(g, p) = [g EXCEPT !.pl[p] = y] BY DEF Entered
<1>3. g.pl[p] \in PlayerType BY DEF GameType
<1> HIDE DEF s
<1>4. s \in States BY <1>1 DEF States
<1>5. /\ y \in PlayerType
      /\ y.state = s /\ y.team = g.pl[p].team /\ y.life = g.pl[p].life
      /\ y.deaths = g.pl[p].deaths
    BY <1>3, <1>4, StateSet
<1> HIDE DEF y
<1>6. Enters(g.pl[p], g.pl[p].team, y) BY <1>1, <1>5 DEF Enters
<1> QED BY <1>2, <1>6

LEMMA TeamSet ==
    ASSUME NEW x \in PlayerType, NEW t \in Team \cup {None}
    PROVE  LET y == [x EXCEPT !.team = t] IN
           /\ y \in PlayerType
           /\ y.team = t /\ y.state = x.state /\ y.life = x.life /\ y.deaths = x.deaths
BY DEF PlayerType

LEMMA SwapIs ==
    ASSUME NEW g \in GameType, NEW p \in Player, NEW t \in Team
    PROVE  \E y : Enters(g.pl[p], t, y) /\ Player_swap_team(g, p, t) = [g EXCEPT !.pl[p] = y]
<1> DEFINE x == [g.pl[p] EXCEPT !.team = t]
           h == [g EXCEPT !.pl[p] = x]
<1>1. g.pl[p] \in PlayerType BY DEF GameType
<1>2. /\ x \in PlayerType
      /\ x.team = t /\ x.state = g.pl[p].state /\ x.life = g.pl[p].life
      /\ x.deaths = g.pl[p].deaths
    BY <1>1, TeamSet
<1>3. Player_swap_team(g, p, t) = Entered(h, p) BY DEF Player_swap_team
<1> HIDE DEF x
<1>4. h \in GameType /\ h.pl[p] = x BY <1>2, PlayerSet
<1>5. \A y : [h EXCEPT !.pl[p] = y] = [g EXCEPT !.pl[p] = y] BY DEF GameType
<1> HIDE DEF h
<1>6. PICK y : Enters(h.pl[p], h.pl[p].team, y) /\ Entered(h, p) = [h EXCEPT !.pl[p] = y]
    BY <1>4, EnteredIs
<1>7. Enters(g.pl[p], t, y) BY <1>2, <1>4, <1>6 DEF Enters
<1> QED BY <1>3, <1>5, <1>6, <1>7

\* Who enters fits, whether it is reset then or not.
LEMMA EntersFits ==
    ASSUME NEW x, PlayerFits(x), x.state # "KILLED", NEW t, NEW y, Enters(x, t, y),
           RoundsToPlay = 0 => t # PauseTeam
    PROVE  PlayerFits(y)
<1>1. x \in PlayerType /\ y \in PlayerType BY DEF PlayerFits, Enters
<1>2. ASSUME RoundsToPlay = 0 PROVE LivesFit(y)
  <2>1. LivesFit(x) BY <1>2 DEF PlayerFits
  <2>2. x.deaths \in Int /\ x.life \in 0 .. Lives /\ Lives \in Nat
      BY <1>1, Constants DEF PlayerType
  <2> QED BY <1>2, <2>1, <2>2 DEF Enters, LivesFit
<1> QED BY <1>1, <1>2 DEF PlayerFits, Enters

\* A team is entered that is not that of the pausers.
LEMMA TeamEntered ==
    ASSUME NEW g, Sound(g), NEW p \in InGame(g), g.pl[p].state # "KILLED",
           NEW t \in Team, t # PauseTeam, NEW n \in Int,
           n >= g.NumPaused - One(g.pl[p].team, PauseTeam),
           RoundsToPlay = 0 => n = g.NumPaused - One(g.pl[p].team, PauseTeam)
    PROVE  LET h == [Player_swap_team(g, p, t) EXCEPT !.NumPaused = n] IN
           /\ Sound(h)
           /\ Enters(g.pl[p], t, h.pl[p])
           /\ \A q \in Player : q # p => h.pl[q] = g.pl[q]
           /\ h.order = g.order /\ h.left = g.left /\ h.destroyed = g.destroyed
           /\ h.news = g.news
<1>1. p \in Player /\ g.pl[p].state # "UNDEFINED" BY DEF InGame
<1>2. g \in GameType /\ PlayerFits(g.pl[p]) /\ g.NumPaused \in Int
    BY <1>1, SoundFacts DEF GameType
<1>3. PICK y : Enters(g.pl[p], t, y) /\ Player_swap_team(g, p, t) = [g EXCEPT !.pl[p] = y]
    BY <1>1, <1>2, SwapIs
<1> DEFINE k == [g EXCEPT !.pl[p] = y]
           h == [k EXCEPT !.NumPaused = n]
<1>4. y \in PlayerType BY <1>3 DEF Enters
<1>5. /\ k \in GameType
      /\ k.pl[p] = y
      /\ \A q \in Player : q # p => k.pl[q] = g.pl[q]
      /\ k.order = g.order /\ k.NumPaused = g.NumPaused /\ k.ball = g.ball
      /\ k.left = g.left /\ k.destroyed = g.destroyed /\ k.news = g.news
    BY <1>1, <1>2, <1>4, PlayerSet
<1> HIDE DEF k
<1>6. /\ h \in GameType
      /\ h.pl = k.pl /\ h.order = k.order /\ h.NumPaused = n /\ h.ball = k.ball
      /\ h.left = k.left /\ h.destroyed = k.destroyed /\ h.news = k.news
    BY <1>5 DEF GameType
<1> DEFINE r == [Player_swap_team(g, p, t) EXCEPT !.NumPaused = n]
<1>7. h = r BY <1>3 DEF k
<1> HIDE DEF h, r
<1>8. PlayerFits(y) BY <1>2, <1>3, EntersFits
<1>9. ASSUME NEW q \in Player
      PROVE  /\ PlayerFits(h.pl[q])
             /\ h.pl[q].state = "UNDEFINED" <=> g.pl[q].state = "UNDEFINED"
  <2>1. CASE q = p BY <1>1, <1>3, <1>5, <1>6, <1>8, <2>1 DEF Enters
  <2>2. CASE q # p BY <1>5, <1>6, <2>2, SoundFacts
  <2> QED BY <2>1, <2>2
<1>10. PausedFit(h)
  <2>1. OneChanges(g, h, p) BY <1>5, <1>6 DEF OneChanges
  <2>2. h.pl[p].team # PauseTeam BY <1>3, <1>5, <1>6 DEF Enters
  <2>3. /\ Cardinality(OnTeam(h, PauseTeam)) =
               Cardinality(OnTeam(g, PauseTeam)) + One(h.pl[p].team, PauseTeam)
                   - One(g.pl[p].team, PauseTeam)
        /\ Cardinality(OnTeam(g, PauseTeam)) \in Nat
      BY <1>1, <2>1, TeamCount
  <2>4. One(h.pl[p].team, PauseTeam) = 0 /\ One(g.pl[p].team, PauseTeam) \in Int
      BY <2>2 DEF One
  <2>5. PausedFit(g) BY DEF Sound
  <2> QED BY <1>2, <1>6, <2>3, <2>4, <2>5 DEF PausedFit
<1>11. Sound(h) BY <1>5, <1>6, <1>9, <1>10, SameTable
<1>12. /\ Sound(r)
       /\ Enters(g.pl[p], t, r.pl[p])
       /\ \A q \in Player : q # p => r.pl[q] = g.pl[q]
       /\ r.order = g.order /\ r.left = g.left /\ r.destroyed = g.destroyed
       /\ r.news = g.news
    BY <1>3, <1>5, <1>6, <1>7, <1>11
<1> QED BY <1>12 DEF r

-----------------------------------------------------------------------------
(* Who leaves, and the kicking of the paused.                              *)

LEMMA RemovedType ==
    ASSUME NEW g \in GameType, NEW p \in Player
    PROVE  LET h == Player_remove(g, p) IN
           /\ h \in GameType
           /\ h.pl = [g.pl EXCEPT ![p] = NewPlayer]
           /\ h.order = Without(g.order, p)
           /\ h.NumPaused = IF g.pl[p].state = "PAUSED" THEN g.NumPaused - 1 ELSE g.NumPaused
           /\ \A x \in Treasure : h.ball[x].owner =
                  IF g.ball[x].owner = p THEN None ELSE g.ball[x].owner
           /\ h.left = g.left /\ h.destroyed = g.destroyed /\ h.news = TRUE
<1> DEFINE f == [g.pl EXCEPT ![p] = NewPlayer]
           o == Without(g.order, p)
           n == IF g.pl[p].state = "PAUSED" THEN g.NumPaused - 1 ELSE g.NumPaused
           b == [x \in Treasure |-> IF g.ball[x].owner = p
                                    THEN [g.ball[x] EXCEPT !.owner = None] ELSE g.ball[x]]
           h == [g EXCEPT !.pl = f, !.order = o, !.NumPaused = n, !.ball = b, !.news = TRUE]
<1>1. Player_remove(g, p) = h BY DEF Player_remove, GameType
<1>2. f \in [Player -> PlayerType] BY NewPlayerFits DEF GameType, PlayerFits
<1>3. o \in Seq(Player)
  <2> DEFINE m == Len(g.order)
  <2>1. m \in Nat /\ \A j \in 1 .. m : g.order[j] \in Player BY DEF GameType
  <2>2. o = [j \in 1 .. m - 1 |-> IF g.order[j] = p THEN g.order[m] ELSE g.order[j]]
      BY DEF Without
  <2> HIDE DEF m, o
  <2>3. CASE m = 0
    <3>1. 1 .. m - 1 = {} BY <2>3
    <3>2. o = << >> BY <2>2, <3>1
    <3> QED BY <3>2
  <2>4. CASE m # 0
    <3>1. m - 1 \in Nat /\ m \in 1 .. m BY <2>1, <2>4
    <3>2. \A j \in 1 .. m - 1 : j \in 1 .. m BY <2>1
    <3>3. o \in [1 .. m - 1 -> Player] BY <2>1, <2>2, <3>1, <3>2
    <3> QED BY <3>1, <3>3, SeqDef
  <2> QED BY <2>3, <2>4
<1>4. n \in Int BY DEF GameType
<1>5. /\ b \in [Treasure -> BallType]
      /\ \A x \in Treasure : b[x].owner = IF g.ball[x].owner = p THEN None ELSE g.ball[x].owner
  <2>1. ASSUME NEW x \in Treasure
        PROVE  /\ b[x] \in BallType
               /\ b[x].owner = IF g.ball[x].owner = p THEN None ELSE g.ball[x].owner
    <3>1. g.ball[x] \in BallType BY DEF GameType
    <3>2. [g.ball[x] EXCEPT !.owner = None] \in BallType
          /\ [g.ball[x] EXCEPT !.owner = None].owner = None
        BY <3>1 DEF BallType
    <3> QED BY <3>1, <3>2
  <2>2. b = [x \in Treasure |-> b[x]] OBVIOUS
  <2> HIDE DEF b
  <2> QED BY <2>1, <2>2
<1> HIDE DEF f, o, n, b
<1>6. /\ h \in GameType
      /\ h.pl = f /\ h.order = o /\ h.NumPaused = n /\ h.ball = b
      /\ h.left = g.left /\ h.destroyed = g.destroyed /\ h.news = TRUE
    BY <1>2, <1>3, <1>4, <1>5 DEF GameType
<1> HIDE DEF h
<1> QED BY <1>1, <1>5, <1>6 DEF f, o, n

LEMMA RemovedSound ==
    ASSUME NEW g, Sound(g), NEW p \in InGame(g)
    PROVE  LET h == Player_remove(g, p) IN
           /\ Sound(h)
           /\ h.pl = [g.pl EXCEPT ![p] = NewPlayer]
           /\ Lowered(h.order, g.order)
           /\ h.news = TRUE
<1> DEFINE h == Player_remove(g, p)
<1>1. g \in GameType /\ p \in Player /\ g.pl \in [Player -> PlayerType] /\ g.NumPaused \in Int
    BY DEF Sound, GameType, InGame
<1>2. /\ h \in GameType
      /\ h.pl = [g.pl EXCEPT ![p] = NewPlayer]
      /\ h.order = Without(g.order, p)
      /\ h.NumPaused = IF g.pl[p].state = "PAUSED" THEN g.NumPaused - 1 ELSE g.NumPaused
      /\ \A x \in Treasure : h.ball[x].owner =
             IF g.ball[x].owner = p THEN None ELSE g.ball[x].owner
      /\ h.left = g.left /\ h.destroyed = g.destroyed /\ h.news = TRUE
    BY <1>1, RemovedType, Zenon
<1> HIDE DEF h
<1>3. h.pl[p] = NewPlayer /\ \A q \in Player : q # p => h.pl[q] = g.pl[q] BY <1>1, <1>2
<1>4. InGame(h) = InGame(g) \ {p}
  <2>1. NewPlayer.state = "UNDEFINED" BY DEF NewPlayer
  <2> QED BY <1>1, <1>3, <2>1 DEF InGame
<1>5. TableFits(h.order, InGame(h)) /\ Lowered(h.order, g.order)
  <2>1. TableFits(g.order, InGame(g)) BY SoundFacts
  <2> QED BY <1>2, <1>4, <2>1, WithoutFits
<1>6. \A q \in Player : PlayerFits(h.pl[q])
    BY <1>3, NewPlayerFits, SoundFacts
<1>7. PausedFit(h)
  <2>1. OneChanges(g, h, p) BY <1>3 DEF OneChanges
  <2>2. /\ Cardinality(OnTeam(h, PauseTeam)) =
               Cardinality(OnTeam(g, PauseTeam)) + One(h.pl[p].team, PauseTeam)
                   - One(g.pl[p].team, PauseTeam)
        /\ Cardinality(OnTeam(g, PauseTeam)) \in Nat
      BY <1>1, <2>1, TeamCount
  <2>3. h.pl[p].team # PauseTeam BY <1>3, Constants DEF NewPlayer
  <2>4. PlayerFits(g.pl[p]) BY <1>1, SoundFacts
  <2>5. PausedFit(g) BY DEF Sound
  <2> QED BY <1>1, <1>2, <2>2, <2>3, <2>4, <2>5 DEF PausedFit, One, PlayerFits
<1>8. OwnersPlay(h) BY <1>2, <1>4 DEF OwnersPlay, Sound
<1>9. Sound(h) BY <1>2, <1>5, <1>6, <1>7, <1>8 DEF Sound
<1> QED BY <1>2, <1>5, <1>9 DEF h

\* The fold of Players_kick_paused, over the places of the table from the last to the first.
Kicked(g, h, p) == IF g.pl[p].state = "PAUSED" THEN Player_remove(h, p) ELSE h

LEMMA KickFolds ==
    ASSUME NEW g \in GameType
    PROVE  LET r == Reverse(g.order) IN
           \E it : /\ Players_kick_paused(g) = it[DOMAIN r]
                   /\ it[{}] = g
                   /\ \A s \in SUBSET (DOMAIN r) : s # {} =>
                          \E i \in s : it[s] = Kicked(g, it[s \ {i}], r[i])
<1> DEFINE r == Reverse(g.order)
           D == DOMAIN r
           n == Len(g.order)
<1>1. n \in Nat /\ D = 1 .. n /\ \A i \in D : r[i] \in Player
  <2>1. n \in Nat /\ \A i \in 1 .. n : g.order[i] \in Player BY DEF GameType
  <2>2. r = [i \in 1 .. n |-> g.order[(n - i) + 1]] BY DEF Reverse
  <2> HIDE DEF n, r
  <2>3. \A i \in 1 .. n : (n - i) + 1 \in 1 .. n BY <2>1
  <2> QED BY <2>1, <2>2, <2>3
<1>2. IsFiniteSet(D)
  <2>1. \A m \in Nat : IsFiniteSet(1 .. m) BY FS_Interval
  <2> QED BY <1>1, <2>1
<1> DEFINE Step(it) == [s \in SUBSET D |-> IF s = {} THEN g
                            ELSE Kicked(g, it[s \ {Max(s)}], r[Max(s)])]
<1>3. Players_kick_paused(g) = (CHOOSE it : it = Step(it))[D]
    BY DEF Players_kick_paused, FoldLeft, MapThenFoldSet, Kicked
<1>4. ASSUME NEW s \in SUBSET D, s # {} PROVE Max(s) \in s
  <2>1. s \in SUBSET (0 .. n) BY <1>1
  <2>2. \E m \in s : \A k \in s : m >= k BY <1>1, <1>4, <2>1, MaxExists
  <2> QED BY <2>2 DEF Max
<1> DEFINE c == [s \in SUBSET D |-> Max(s)]
           F == [x \in D \X GameType |-> Kicked(g, x[2], r[x[1]])]
<1> HIDE DEF r, D
<1>5. F \in [D \X GameType -> GameType]
  <2>1. \A i \in D, h \in GameType : Kicked(g, h, r[i]) \in GameType
      BY <1>1, RemovedType DEF Kicked
  <2> QED BY <2>1
<1>6. \A s \in SUBSET D : s # {} => c[s] \in s BY <1>4
<1> HIDE DEF c, F
<1>7. PICK it \in [SUBSET D -> GameType] : \A s \in SUBSET D : FoldsAt(it, s, g, c, F)
    BY <1>2, <1>5, <1>6, FoldExists
<1>8. ASSUME NEW s \in SUBSET D, s # {}
      PROVE  it[s] = Kicked(g, it[s \ {Max(s)}], r[Max(s)])
  <2>1. it[s] = F[c[s], it[s \ {c[s]}]] BY <1>7, <1>8 DEF FoldsAt
  <2>2. c[s] = Max(s) /\ Max(s) \in D BY <1>4, <1>8 DEF c
  <2>3. it[s \ {Max(s)}] \in GameType BY <1>7
  <2> QED BY <2>1, <2>2, <2>3 DEF F
<1>9. it[{}] = g BY <1>7 DEF FoldsAt
<1>10. it = Step(it)
  <2>1. \A s \in SUBSET D : it[s] = IF s = {} THEN g ELSE Kicked(g, it[s \ {Max(s)}], r[Max(s)])
      BY <1>8, <1>9
  <2>2. it = [s \in SUBSET D |-> it[s]] BY <1>7
  <2> QED BY <2>1, <2>2
<1> DEFINE jt == CHOOSE jt : jt = Step(jt)
<1>11. jt = Step(jt) BY <1>10
<1> HIDE DEF jt
<1>12. jt[{}] = g BY <1>11
<1>13. ASSUME NEW s \in SUBSET D, s # {}
       PROVE  \E i \in s : jt[s] = Kicked(g, jt[s \ {i}], r[i])
  <2>1. jt[s] = Kicked(g, jt[s \ {Max(s)}], r[Max(s)]) BY <1>11, <1>13
  <2> QED BY <2>1, <1>4, <1>13
<1>14. Players_kick_paused(g) = jt[D] BY <1>3 DEF jt
<1> HIDE DEF Step
<1>15. \E f : /\ Players_kick_paused(g) = f[D]
              /\ f[{}] = g
              /\ \A s \in SUBSET D : s # {} => \E i \in s : f[s] = Kicked(g, f[s \ {i}], r[i])
  <2>1. \A s \in SUBSET D : s # {} => \E i \in s : jt[s] = Kicked(g, jt[s \ {i}], r[i])
      BY <1>13
  <2> QED BY <1>12, <2>1, <1>14
<1> QED BY <1>15 DEF r, D

\* The paused are gone, each removed once, and the rest of the table is moved down.
WithoutPaused(g, h, P) ==
    /\ Sound(h)
    /\ Lowered(h.order, g.order)
    /\ \A p \in Player :
           h.pl[p] = IF p \in P /\ g.pl[p].state = "PAUSED" THEN NewPlayer ELSE g.pl[p]

LEMMA KickStep ==
    ASSUME NEW g, Sound(g), NEW h, NEW P \in SUBSET Player, WithoutPaused(g, h, P),
           NEW p \in Player \ P
    PROVE  WithoutPaused(g, Kicked(g, h, p), P \cup {p})
<1>1. CASE g.pl[p].state # "PAUSED" BY <1>1 DEF Kicked, WithoutPaused
<1>2. CASE g.pl[p].state = "PAUSED"
  <2> DEFINE k == Player_remove(h, p)
  <2>1. Sound(h) /\ h.pl[p] = g.pl[p] BY DEF WithoutPaused
  <2>2. p \in InGame(h) BY <1>2, <2>1 DEF InGame
  <2>3. /\ Sound(k)
        /\ k.pl = [h.pl EXCEPT ![p] = NewPlayer]
        /\ Lowered(k.order, h.order)
      BY <2>1, <2>2, RemovedSound
  <2> HIDE DEF k
  <2>4. Lowered(k.order, g.order)
    <3>1. DOMAIN k.order \subseteq Nat /\ DOMAIN h.order \subseteq Nat /\ DOMAIN g.order \subseteq Nat
        BY <2>1, <2>3, SoundFacts
    <3> QED BY <2>3, <3>1, LoweredTwice DEF WithoutPaused
  <2>5. h.pl \in [Player -> PlayerType] BY <2>1, SoundFacts DEF GameType
  <2>6. ASSUME NEW q \in Player
        PROVE  k.pl[q] = IF q \in P \cup {p} /\ g.pl[q].state = "PAUSED" THEN NewPlayer
                         ELSE g.pl[q]
    <3>1. k.pl[q] = IF q = p THEN NewPlayer ELSE h.pl[q] BY <2>3, <2>5
    <3> QED BY <1>2, <3>1 DEF WithoutPaused
  <2>7. WithoutPaused(g, k, P \cup {p}) BY <2>3, <2>4, <2>6 DEF WithoutPaused
  <2> QED BY <1>2, <2>7 DEF Kicked, k
<1> QED BY <1>1, <1>2

LEMMA KickSound ==
    ASSUME NEW g, Sound(g)
    PROVE  WithoutPaused(g, Players_kick_paused(g), Player)
<1> DEFINE r == Reverse(g.order)
           D == DOMAIN r
           n == Len(g.order)
           Seen(s) == {r[i] : i \in s}
<1>1. g \in GameType BY SoundFacts
<1>2. PICK it : /\ Players_kick_paused(g) = it[D]
                /\ it[{}] = g
                /\ \A s \in SUBSET D : s # {} => \E i \in s : it[s] = Kicked(g, it[s \ {i}], r[i])
    BY <1>1, KickFolds
<1>3. n \in Nat /\ D = 1 .. n
  <2>1. n \in Nat BY <1>1 DEF GameType
  <2> QED BY <2>1 DEF Reverse
<1>4. /\ \A i \in D : r[i] \in Player
      /\ \A i, j \in D : r[i] = r[j] => i = j
      /\ \A p \in InGame(g) : \E i \in D : r[i] = p
  <2>1. /\ DOMAIN g.order = 1 .. n
        /\ \A i \in 1 .. n : g.order[i] \in InGame(g)
        /\ \A i, j \in 1 .. n : g.order[i] = g.order[j] => i = j
        /\ \A p \in InGame(g) : \E i \in 1 .. n : g.order[i] = p
    <3>1. TableFits(g.order, InGame(g)) BY SoundFacts
    <3> QED BY <3>1 DEF TableFits
  <2>2. \A i \in 1 .. n : r[i] = g.order[(n - i) + 1] BY DEF Reverse
  <2> HIDE DEF r, D, n
  <2>3. \A i \in 1 .. n : (n - i) + 1 \in 1 .. n /\ (n - ((n - i) + 1)) + 1 = i BY <1>3
  <2>4. InGame(g) \subseteq Player BY DEF InGame
  <2>5. \A i \in D : r[i] \in Player BY <1>3, <2>1, <2>2, <2>3, <2>4
  <2>6. ASSUME NEW i \in D, NEW j \in D, r[i] = r[j] PROVE i = j
    <3>1. (n - i) + 1 = (n - j) + 1 BY <1>3, <2>1, <2>2, <2>3, <2>6
    <3> QED BY <1>3, <3>1
  <2>7. ASSUME NEW p \in InGame(g) PROVE \E i \in D : r[i] = p
    <3>1. PICK i \in 1 .. n : g.order[i] = p BY <2>1
    <3>2. r[(n - i) + 1] = g.order[(n - ((n - i) + 1)) + 1] BY <2>2, <2>3
    <3> QED BY <1>3, <2>3, <3>1, <3>2
  <2> QED BY <2>5, <2>6, <2>7
<1>5. IsFiniteSet(D)
  <2>1. \A m \in Nat : IsFiniteSet(1 .. m) BY FS_Interval
  <2> QED BY <1>3, <2>1
<1> HIDE DEF r, D, n
<1> DEFINE Good == {s \in SUBSET D : WithoutPaused(g, it[s], Seen(s))}
<1>6. {} \in Good
  <2>1. \A j \in DOMAIN g.order : j <= j BY SoundFacts
  <2>2. Lowered(g.order, g.order) BY <2>1 DEF Lowered
  <2>3. WithoutPaused(g, g, {}) BY <2>2 DEF WithoutPaused
  <2>4. Seen({}) = {} OBVIOUS
  <2> QED BY <1>2, <2>3, <2>4
<1>7. ASSUME NEW s \in SUBSET D, s # {}
      PROVE  \E i \in s : s \ {i} \in Good => s \in Good
  <2>1. PICK i \in s : it[s] = Kicked(g, it[s \ {i}], r[i]) BY <1>2, <1>7
  <2>2. ASSUME s \ {i} \in Good PROVE s \in Good
    <3> DEFINE P == Seen(s \ {i})
    <3>1. WithoutPaused(g, it[s \ {i}], P) BY <2>2
    <3>2. r[i] \in Player /\ r[i] \notin P BY <1>4
    <3>3. P \in SUBSET Player BY <1>4
    <3>4. P \cup {r[i]} = Seen(s) OBVIOUS
    <3> HIDE DEF P, Seen
    <3>5. WithoutPaused(g, Kicked(g, it[s \ {i}], r[i]), P \cup {r[i]})
        BY <3>1, <3>2, <3>3, KickStep
    <3> QED BY <2>1, <3>4, <3>5
  <2> QED BY <2>2
<1>8. D \in Good
  <2> HIDE DEF Good
  <2> QED BY <1>5, <1>6, <1>7, PartInduction
<1>9. WithoutPaused(g, it[D], Seen(D)) BY <1>8
<1>10. \A p \in Player : g.pl[p].state = "PAUSED" => p \in Seen(D)
    BY <1>4 DEF InGame
<1> HIDE DEF Seen
<1>11. WithoutPaused(g, it[D], Player) BY <1>9, <1>10 DEF WithoutPaused
<1> QED BY <1>2, <1>11

-----------------------------------------------------------------------------
(* Pausing.                                                                *)

\* What comes of g when p is paused: others that were paused may be gone.
Pauses(g, h, p) ==
    /\ Sound(h)
    /\ h.news = TRUE
    /\ h.pl[p].state = "PAUSED"
    /\ \A q \in Player : q # p =>
           \/ h.pl[q] = g.pl[q]
           \/ g.pl[q].state = "PAUSED" /\ h.pl[q] = NewPlayer
    /\ Lowered(h.order, g.order)
    /\ ~MustKick(g, p) => /\ h.order = g.order
                          /\ \A q \in Player : q # p => h.pl[q] = g.pl[q]

LEMMA PauseSound ==
    ASSUME NEW g, Sound(g), NEW p \in Active(g)
    PROVE  Pauses(g, Player_pause_forced(g, p), p)
<1> DEFINE h == IF MustKick(g, p) THEN Players_kick_paused(g) ELSE g
<1>1. p \in Player /\ g.pl[p].state \notin {"PAUSED", "UNDEFINED"} BY DEF Active, InGame, InState
<1>2. /\ Sound(h)
      /\ Lowered(h.order, g.order)
      /\ h.pl[p] = g.pl[p]
      /\ \A q \in Player : \/ h.pl[q] = g.pl[q]
                           \/ g.pl[q].state = "PAUSED" /\ h.pl[q] = NewPlayer
      /\ ~MustKick(g, p) => h = g
  <2>1. CASE MustKick(g, p)
    <3>1. WithoutPaused(g, h, Player) BY <2>1, KickSound
    <3> HIDE DEF h
    <3> QED BY <1>1, <2>1, <3>1 DEF WithoutPaused
  <2>2. CASE ~MustKick(g, p)
    <3>1. h = g BY <2>2
    <3>2. \A j \in DOMAIN g.order : j <= j BY SoundFacts
    <3>3. Lowered(g.order, g.order) BY <3>2 DEF Lowered
    <3> HIDE DEF h
    <3> QED BY <2>2, <3>1, <3>3
  <2> QED BY <2>1, <2>2
<1>3. Player_pause_forced(g, p) =
          [Player_swap_team(h, p, PauseTeam) EXCEPT
              !.pl[p] = [@ EXCEPT !.deaths = 0, !.life = Lives],
              !.NumPaused = @ + 1,
              !.news = TRUE]
    BY <1>1 DEF Player_pause_forced
<1> HIDE DEF h
<1>4. h \in GameType /\ h.NumPaused \in Int BY <1>2, SoundFacts DEF GameType
<1>5. PICK y : /\ Enters(h.pl[p], PauseTeam, y)
               /\ Player_swap_team(h, p, PauseTeam) = [h EXCEPT !.pl[p] = y]
    BY <1>1, <1>4, Constants, SwapIs
<1> DEFINE z == [y EXCEPT !.deaths = 0, !.life = Lives]
           k == [h EXCEPT !.pl[p] = z]
           n == h.NumPaused + 1
           l == [k EXCEPT !.NumPaused = n, !.news = TRUE]
<1>6. /\ y \in PlayerType /\ y.state = "PAUSED" /\ y.team = PauseTeam
    BY <1>5 DEF Enters
<1>7. /\ z \in PlayerType /\ z.state = "PAUSED" /\ z.team = PauseTeam
      /\ z.deaths = 0 /\ z.life = Lives
  <2> DEFINE w == [y EXCEPT !.deaths = 0]
  <2>1. w \in PlayerType /\ w.state = y.state /\ w.team = y.team /\ w.deaths = 0 
      BY <1>6, DeathsSet
  <2>2. z = [w EXCEPT !.life = Lives] OBVIOUS
  <2>3. Lives \in 0 .. Lives BY Constants
  <2> HIDE DEF w
  <2> QED BY <1>6, <2>1, <2>2, <2>3, LifeSet
<1>8. PlayerFits(z) BY <1>7, Constants DEF PlayerFits, LivesFit
<1>9. Player_pause_forced(g, p) = l
  <2>1. y = [h EXCEPT !.pl[p] = y].pl[p] BY <1>1, <1>4 DEF GameType
  <2> QED BY <1>1, <1>3, <1>4, <1>5, <2>1 DEF GameType
<1> HIDE DEF z
<1>10. /\ k \in GameType
       /\ k.pl[p] = z
       /\ \A q \in Player : q # p => k.pl[q] = h.pl[q]
       /\ k.order = h.order /\ k.ball = h.ball
    BY <1>1, <1>4, <1>7, PlayerSet
<1> HIDE DEF k
<1>11. /\ l \in GameType
       /\ l.pl = k.pl /\ l.order = k.order /\ l.NumPaused = n /\ l.ball = k.ball /\ l.news = TRUE
  <2> DEFINE m == [k EXCEPT !.NumPaused = n]
  <2>1. m \in GameType /\ m.pl = k.pl /\ m.order = k.order /\ m.NumPaused = n /\ m.ball = k.ball
    <3>1. n \in Int BY <1>4
    <3> HIDE DEF n
    <3> QED BY <1>10, <3>1 DEF GameType
  <2>2. l = [m EXCEPT !.news = TRUE] OBVIOUS
  <2> HIDE DEF m
  <2> QED BY <2>1, <2>2 DEF GameType
<1> HIDE DEF l
<1>12. ASSUME NEW q \in Player
       PROVE  /\ PlayerFits(l.pl[q])
              /\ l.pl[q].state = "UNDEFINED" <=> h.pl[q].state = "UNDEFINED"
  <2>1. CASE q = p BY <1>1, <1>2, <1>7, <1>8, <1>10, <1>11, <2>1
  <2>2. CASE q # p BY <1>2, <1>10, <1>11, <2>2, SoundFacts
  <2> QED BY <2>1, <2>2
<1>13. PausedFit(l)
  <2>1. OneChanges(h, l, p) BY <1>10, <1>11 DEF OneChanges
  <2>2. l.pl[p].team = PauseTeam BY <1>7, <1>10, <1>11
  <2>3. /\ Cardinality(OnTeam(l, PauseTeam)) =
               Cardinality(OnTeam(h, PauseTeam)) + One(l.pl[p].team, PauseTeam)
                   - One(h.pl[p].team, PauseTeam)
        /\ Cardinality(OnTeam(h, PauseTeam)) \in Nat
      BY <1>1, <2>1, TeamCount
  <2>4. One(l.pl[p].team, PauseTeam) = 1 /\ One(h.pl[p].team, PauseTeam) \in {0, 1}
      BY <2>2 DEF One
  <2>5. RoundsToPlay = 0 => One(h.pl[p].team, PauseTeam) = 0
      BY <1>1, <1>2, SoundFacts DEF One, PlayerFits
  <2>6. PausedFit(h) BY <1>2 DEF Sound
  <2> QED BY <1>4, <1>11, <2>3, <2>4, <2>5, <2>6 DEF PausedFit
<1>14. Sound(l) BY <1>2, <1>10, <1>11, <1>12, <1>13, SameTable
<1>15. Pauses(g, l, p) BY <1>2, <1>7, <1>10, <1>11, <1>14 DEF Pauses
<1> QED BY <1>9, <1>15

-----------------------------------------------------------------------------
(* Between the frames.                                                     *)

\* A step of DeadStayOut.
StaysOut ==
    \A p \in Player :
        /\ game.pl[p].state = "DEAD" /\ game'.pl[p].state \in {"APPEARING", "ALIVE", "KILLED"}
               => Resetting
        /\ game.pl[p].state = "APPEARING" /\ game'.pl[p].state = "ALIVE" => loop.at = "update"

LEMMA InputFacts ==
    ASSUME RoundsInv, Input
    PROVE  /\ Sound(game) /\ CleanFits(game) /\ loop \in LoopType /\ loop.i = 0
           /\ \A p \in Player : game.pl[p].state # "KILLED"
BY DEF RoundsInv, Input, KillsFit, ResetFits, InState

LEMMA BetweenKeeps ==
    ASSUME RoundsInv, Between, Sound(game'), CleanFits(game'),
           \A p \in Player : game'.pl[p].state # "KILLED"
    PROVE  RoundsInv'
<1>1. loop' = loop /\ loop.at = "input" /\ loop \in LoopType /\ loop.i = 0
    BY InputFacts DEF Between, Input
<1>2. KillsFit(game', loop'.at, loop'.i) BY <1>1 DEF KillsFit, InState
<1>3. ResetFits(game', loop'.at, loop'.i, loop'.kicked) BY <1>1 DEF ResetFits
<1>4. RoundGoesOn' BY <1>1 DEF RoundGoesOn
<1> QED BY <1>1, <1>2, <1>3, <1>4 DEF RoundsInv, NewsFit

LEMMA CrashKeeps ==
    ASSUME RoundsInv, Crash, loop.at \in {"input", "update"}
    PROVE  RoundsInv' /\ StaysOut
<1>1. game' = game /\ loop' = [loop EXCEPT !.at = "crashed"] /\ loop \in LoopType
    BY DEF Crash, RoundsInv
<1>2. loop' \in LoopType /\ loop'.at = "crashed" BY <1>1 DEF LoopType
<1>3. KillsFit(game', loop'.at, loop'.i)
    BY <1>1, <1>2 DEF RoundsInv, KillsFit, InState
<1>4. ResetFits(game', loop'.at, loop'.i, loop'.kicked) BY <1>2 DEF ResetFits
<1>5. RoundGoesOn' BY <1>2 DEF RoundGoesOn
<1>6. RoundsInv' BY <1>1, <1>2, <1>3, <1>4, <1>5 DEF RoundsInv, NewsFit
<1>7. StaysOut BY <1>1 DEF StaysOut
<1> QED BY <1>6, <1>7

\* Somebody who plays after the step is enough for CleanFits, and so is news.
LEMMA SomebodyPlays ==
    ASSUME NEW g, NEW p \in Player, g.pl[p].state \notin {"UNDEFINED", "PAUSED"}
    PROVE  CleanFits(g)
BY DEF CleanFits, Active, InGame, InState

LEMMA NewsIsEnough == ASSUME NEW g, g.news = TRUE PROVE CleanFits(g)
BY DEF CleanFits

LEMMA LeaveKeeps ==
    ASSUME RoundsInv, NEW p \in Player, Leave(p)
    PROVE  RoundsInv' /\ StaysOut
<1>1. /\ Between /\ p \in InGame(game) /\ game' = Player_remove(game, p)
    BY DEF Leave
<1>2. /\ Sound(game) /\ \A q \in Player : game.pl[q].state # "KILLED"
    BY <1>1, InputFacts DEF Between
<1>3. Sound(game') /\ game'.pl = [game.pl EXCEPT ![p] = NewPlayer] /\ game'.news = TRUE
    BY <1>1, <1>2, RemovedSound
<1>4. game.pl \in [Player -> PlayerType] BY <1>2, SoundFacts DEF GameType
<1>5. \A q \in Player : game'.pl[q] = IF q = p THEN NewPlayer ELSE game.pl[q] BY <1>3, <1>4
<1>6. NewPlayer.state = "UNDEFINED" BY DEF NewPlayer
<1>7. \A q \in Player : game'.pl[q].state # "KILLED" BY <1>2, <1>5, <1>6
<1>8. RoundsInv' BY <1>1, <1>3, <1>7, NewsIsEnough, BetweenKeeps
<1>9. StaysOut BY <1>5, <1>6 DEF StaysOut
<1> QED BY <1>8, <1>9

\* One player enters a team between the frames, and the rest of the players stay.
LEMMA EntryKeeps ==
    ASSUME RoundsInv, Between, NEW p \in Player, NEW t \in Team, t # PauseTeam,
           Sound(game'), Enters(game.pl[p], t, game'.pl[p]),
           \A q \in Player : q # p => game'.pl[q] = game.pl[q]
    PROVE  RoundsInv' /\ StaysOut
<1>1. \A q \in Player : game.pl[q].state # "KILLED" BY InputFacts DEF Between
<1>2. /\ game'.pl[p].state \in {"WAITING", "APPEARING", "ALIVE"}
      /\ game.pl[p].state = "DEAD" => game'.pl[p].state = "WAITING"
      /\ game.pl[p].state = "APPEARING" => game'.pl[p].state # "ALIVE"
    BY DEF Enters
<1>3. CleanFits(game') BY <1>2, SomebodyPlays
<1>4. \A q \in Player : game'.pl[q].state # "KILLED" BY <1>1, <1>2
<1>5. RoundsInv' BY <1>3, <1>4, BetweenKeeps
<1>6. ASSUME NEW q \in Player
      PROVE  /\ game.pl[q].state = "DEAD" /\ game'.pl[q].state \in {"APPEARING", "ALIVE", "KILLED"}
                    => Resetting
             /\ game.pl[q].state = "APPEARING" /\ game'.pl[q].state = "ALIVE" => loop.at = "update"
  <2>1. CASE q = p BY <1>2, <2>1
  <2>2. CASE q # p BY <2>2
  <2> QED BY <2>1, <2>2
<1> QED BY <1>5, <1>6 DEF StaysOut

LEMMA SwapKeeps ==
    ASSUME RoundsInv, NEW p \in Player, NEW t \in Team, Swap(p, t)
    PROVE  RoundsInv' /\ StaysOut
<1>1. /\ Between /\ p \in InGame(game) /\ game.pl[p].state # "PAUSED" /\ t # PauseTeam
      /\ game' = Player_swap_team(game, p, t)
    BY DEF Swap, Active, Room, InState
<1>2. Sound(game) /\ game.pl[p].state # "KILLED" BY <1>1, InputFacts DEF Between
<1>3. game \in GameType /\ game.NumPaused \in Int /\ PlayerFits(game.pl[p])
    BY <1>2, SoundFacts DEF GameType
<1>4. PICK y : Enters(game.pl[p], t, y) /\ game' = [game EXCEPT !.pl[p] = y]
    BY <1>1, <1>3, SwapIs
<1> DEFINE n == game.NumPaused
<1>5. game' = [game' EXCEPT !.NumPaused = n]
  <2>1. game' \in GameType /\ game'.NumPaused = n BY <1>3, <1>4, PlayerSet DEF Enters
  <2> QED BY <2>1 DEF GameType
<1>6. n >= game.NumPaused - One(game.pl[p].team, PauseTeam) BY <1>3 DEF One
<1>7. RoundsToPlay = 0 => n = game.NumPaused - One(game.pl[p].team, PauseTeam)
    BY <1>1, <1>3 DEF One, PlayerFits
<1>8. n \in Int BY <1>3
<1>9. game' = [Player_swap_team(game, p, t) EXCEPT !.NumPaused = n] BY <1>1, <1>5
<1> HIDE DEF n
<1>10. /\ Sound(game')
       /\ Enters(game.pl[p], t, game'.pl[p])
       /\ \A q \in Player : q # p => game'.pl[q] = game.pl[q]
    BY <1>1, <1>2, <1>6, <1>7, <1>8, <1>9, TeamEntered
<1> QED BY <1>1, <1>10, EntryKeeps

LEMMA UnpauseKeeps ==
    ASSUME RoundsInv, NEW p \in Player, NEW t \in Team, Unpause(p, t)
    PROVE  RoundsInv' /\ StaysOut
<1> DEFINE n == game.NumPaused - 1
<1>1. /\ Between /\ p \in InGame(game) /\ game.pl[p].state = "PAUSED" /\ t # PauseTeam
    BY DEF Unpause, Room, InState, InGame
<1>2. Sound(game) BY <1>1, InputFacts DEF Between
<1>3. game \in GameType /\ game.NumPaused \in Int /\ PlayerFits(game.pl[p])
    BY <1>2, SoundFacts DEF GameType
<1>4. PICK y : Enters(game.pl[p], t, y)
               /\ Player_swap_team(game, p, t) = [game EXCEPT !.pl[p] = y]
    BY <1>3, SwapIs
<1>5. Player_swap_team(game, p, t).NumPaused = game.NumPaused
    BY <1>3, <1>4, PlayerSet DEF Enters
<1>6. game' = [Player_swap_team(game, p, t) EXCEPT !.NumPaused = n] BY <1>5 DEF Unpause
<1>7. n = game.NumPaused - One(game.pl[p].team, PauseTeam) /\ n \in Int
    BY <1>1, <1>3 DEF One, PlayerFits
<1>8. n >= game.NumPaused - One(game.pl[p].team, PauseTeam)
  <2> HIDE DEF n
  <2> QED BY <1>7
<1> HIDE DEF n
<1>9. /\ Sound(game')
      /\ Enters(game.pl[p], t, game'.pl[p])
      /\ \A q \in Player : q # p => game'.pl[q] = game.pl[q]
    BY <1>1, <1>2, <1>6, <1>7, <1>8, TeamEntered
<1> QED BY <1>1, <1>9, EntryKeeps

\* Who is paused by a key, by a command or because it idles.
LEMMA PausesAre ==
    ASSUME NEW g, Sound(g), NEW h, NEW p \in Player, Pauses(g, h, p)
    PROVE  /\ CleanFits(h)
           /\ h.pl[p].state = "PAUSED"
           /\ \A q \in Player : q # p => h.pl[q].state \in {g.pl[q].state, "UNDEFINED"}
<1>1. NewPlayer.state = "UNDEFINED" BY DEF NewPlayer
<1> QED BY <1>1, NewsIsEnough DEF Pauses

LEMMA PauseKeeps ==
    ASSUME RoundsInv, NEW p \in Player, Pause_self(p) \/ Cmd_pause(p)
    PROVE  RoundsInv' /\ StaysOut
<1>1. \/ Crash /\ Input
      \/ Between /\ p \in Active(game) /\ game' = Player_pause_forced(game, p)
    BY DEF Pause_self, Cmd_pause, Between
<1>2. CASE Crash /\ Input BY <1>2, CrashKeeps DEF Input
<1>3. CASE Between /\ p \in Active(game) /\ game' = Player_pause_forced(game, p)
  <2>1. Sound(game) /\ \A q \in Player : game.pl[q].state # "KILLED"
      BY <1>3, InputFacts DEF Between
  <2>2. Pauses(game, game', p) BY <1>3, <2>1, PauseSound
  <2>3. Sound(game') BY <2>2 DEF Pauses
  <2>4. /\ CleanFits(game')
        /\ game'.pl[p].state = "PAUSED"
        /\ \A q \in Player : q # p => game'.pl[q].state \in {game.pl[q].state, "UNDEFINED"}
      BY <2>1, <2>2, PausesAre
  <2>5. \A q \in Player : game'.pl[q].state \in {game.pl[q].state, "UNDEFINED", "PAUSED"}
      BY <2>4
  <2>6. \A q \in Player : game'.pl[q].state # "KILLED" BY <2>1, <2>5
  <2>7. RoundsInv' BY <1>3, <2>3, <2>4, <2>6, BetweenKeeps
  <2>8. StaysOut BY <2>5 DEF StaysOut
  <2> QED BY <2>7, <2>8
<1> QED BY <1>1, <1>2, <1>3

LEMMA LoginKeeps ==
    ASSUME RoundsInv, NEW p \in Player, NEW t \in Team, Login(p, t)
    PROVE  RoundsInv' /\ StaysOut
<1> DEFINE x == [game.pl[p] EXCEPT !.team = t]
           k == [game EXCEPT !.pl[p] = x]
           o == Append(game.order, p)
           g == [k EXCEPT !.order = o]
<1>1. Between /\ p \notin InGame(game) /\ t # PauseTeam /\ game' = Entered(g, p)
    BY DEF Login, Room
<1>2. game.pl[p].state = "UNDEFINED" BY <1>1 DEF InGame
<1>3. Sound(game) /\ game \in GameType BY <1>1, InputFacts, SoundFacts DEF Between
<1>4. PlayerFits(game.pl[p]) /\ game.pl[p] \in PlayerType BY <1>3, SoundFacts
<1>5. /\ x \in PlayerType
      /\ x.team = t /\ x.state = game.pl[p].state /\ x.life = game.pl[p].life
      /\ x.deaths = game.pl[p].deaths
    BY <1>4, TeamSet
<1> HIDE DEF x
<1>6. /\ k \in GameType /\ k.pl[p] = x
      /\ \A q \in Player : q # p => k.pl[q] = game.pl[q]
      /\ k.order = game.order /\ k.NumPaused = game.NumPaused /\ k.ball = game.ball
    BY <1>3, <1>5, PlayerSet
<1> HIDE DEF k
<1>7. o \in Seq(Player)
  <2>1. game.order \in Seq(Player) BY <1>3 DEF GameType
  <2> QED BY <2>1, AppendProperties
<1>8. TableFits(o, InGame(game) \cup {p})
  <2>1. TableFits(game.order, InGame(game)) BY <1>3, SoundFacts
  <2> QED BY <1>1, <2>1, AppendedFits
<1> HIDE DEF o
<1>9. /\ g \in GameType /\ g.pl = k.pl /\ g.order = o
      /\ g.NumPaused = k.NumPaused /\ g.ball = k.ball
    BY <1>6, <1>7 DEF GameType
<1> HIDE DEF g
<1>10. PICK y : Enters(g.pl[p], g.pl[p].team, y) /\ game' = [g EXCEPT !.pl[p] = y]
    BY <1>1, <1>9, EnteredIs
<1>11. Enters(game.pl[p], t, y) BY <1>5, <1>6, <1>9, <1>10 DEF Enters
<1>12. /\ game' \in GameType /\ game'.pl[p] = y
       /\ \A q \in Player : q # p => game'.pl[q] = game.pl[q]
       /\ game'.order = o /\ game'.NumPaused = game.NumPaused /\ game'.ball = game.ball
  <2>1. /\ game' \in GameType /\ game'.pl[p] = y
        /\ \A q \in Player : q # p => game'.pl[q] = g.pl[q]
        /\ game'.order = g.order /\ game'.NumPaused = g.NumPaused /\ game'.ball = g.ball
      BY <1>9, <1>10, PlayerSet DEF Enters
  <2> QED BY <1>6, <1>9, <2>1
<1>13. y.state \notin {"UNDEFINED", "PAUSED"} BY <1>1, <1>11 DEF Enters
<1>14. PlayerFits(y) BY <1>1, <1>2, <1>4, <1>11, EntersFits
<1>15. InGame(game') = InGame(game) \cup {p} BY <1>12, <1>13 DEF InGame
<1>16. \A q \in Player : PlayerFits(game'.pl[q])
    BY <1>3, <1>12, <1>14, SoundFacts
<1>17. PausedFit(game')
  <2>1. OneChanges(game, game', p) BY <1>12 DEF OneChanges
  <2>2. /\ Cardinality(OnTeam(game', PauseTeam)) =
               Cardinality(OnTeam(game, PauseTeam)) + One(game'.pl[p].team, PauseTeam)
                   - One(game.pl[p].team, PauseTeam)
        /\ Cardinality(OnTeam(game, PauseTeam)) \in Nat
      BY <2>1, TeamCount
  <2>3. One(game'.pl[p].team, PauseTeam) = 0 BY <1>1, <1>11, <1>12 DEF Enters, One
  <2>4. One(game.pl[p].team, PauseTeam) \in {0, 1} BY DEF One
  <2>5. RoundsToPlay = 0 => One(game.pl[p].team, PauseTeam) = 0
      BY <1>2, <1>4 DEF One, PlayerFits
  <2>6. PausedFit(game) /\ game.NumPaused \in Int BY <1>3 DEF Sound, GameType
  <2> QED BY <1>12, <2>2, <2>3, <2>4, <2>5, <2>6 DEF PausedFit
<1>18. OwnersPlay(game') BY <1>3, <1>12, <1>15 DEF OwnersPlay, Sound
<1>19. Sound(game') BY <1>8, <1>12, <1>15, <1>16, <1>17, <1>18 DEF Sound
<1> QED BY <1>1, <1>11, <1>12, <1>19, EntryKeeps

LEMMA ExchangeKeeps ==
    ASSUME RoundsInv, NEW p \in Player, NEW q \in Player, Exchange(p, q)
    PROVE  RoundsInv' /\ StaysOut
<1> DEFINE tp == game.pl[p].team
           tq == game.pl[q].team
           x == [game.pl[p] EXCEPT !.team = tq]
           z == [game.pl[q] EXCEPT !.team = tp]
           k == [game EXCEPT !.pl[p] = x]
           g == [k EXCEPT !.pl[q] = z]
<1>1. /\ Between /\ p \in Active(game) /\ q \in Active(game) /\ tp # tq /\ p # q
    BY DEF Exchange
<1>2. Sound(game) /\ game \in GameType /\ \A r \in Player : game.pl[r].state # "KILLED"
    BY <1>1, InputFacts, SoundFacts DEF Between
<1>3. /\ PlayerFits(game.pl[p]) /\ game.pl[p] \in PlayerType
      /\ PlayerFits(game.pl[q]) /\ game.pl[q] \in PlayerType
      /\ tp \in Team \cup {None} /\ tq \in Team \cup {None}
    BY <1>2, SoundFacts DEF PlayerType
<1>4. game' = Entered(Entered(g, p), q)
  <2>1. g = [game EXCEPT !.pl = [@ EXCEPT ![p].team = tq, ![q].team = tp]]
      BY <1>1, <1>2 DEF GameType
  <2> QED BY <2>1 DEF Exchange
<1>5. game.pl[p].state \notin {"UNDEFINED", "PAUSED"} /\ game.pl[q].state \notin {"UNDEFINED", "PAUSED"}
    BY <1>1 DEF Active, InGame, InState
<1>6. RoundsToPlay = 0 => tp # PauseTeam /\ tq # PauseTeam BY <1>3, <1>5 DEF PlayerFits
<1>7. /\ x \in PlayerType /\ x.team = tq
      /\ x.state = game.pl[p].state /\ x.life = game.pl[p].life /\ x.deaths = game.pl[p].deaths
      /\ z \in PlayerType /\ z.team = tp
      /\ z.state = game.pl[q].state /\ z.life = game.pl[q].life /\ z.deaths = game.pl[q].deaths
    BY <1>3, TeamSet
<1> HIDE DEF x, z
<1>8. /\ k \in GameType /\ k.pl[p] = x
      /\ \A r \in Player : r # p => k.pl[r] = game.pl[r]
      /\ k.order = game.order /\ k.NumPaused = game.NumPaused /\ k.ball = game.ball
    BY <1>2, <1>7, PlayerSet
<1> HIDE DEF k
<1>9. /\ g \in GameType /\ g.pl[q] = z
      /\ \A r \in Player : r # q => g.pl[r] = k.pl[r]
      /\ g.order = k.order /\ g.NumPaused = k.NumPaused /\ g.ball = k.ball
    BY <1>7, <1>8, PlayerSet
<1> HIDE DEF g
<1>10. PICK y : Enters(g.pl[p], g.pl[p].team, y) /\ Entered(g, p) = [g EXCEPT !.pl[p] = y]
    BY <1>9, EnteredIs
<1> DEFINE h == [g EXCEPT !.pl[p] = y]
<1>11. /\ h \in GameType /\ h.pl[p] = y
       /\ \A r \in Player : r # p => h.pl[r] = g.pl[r]
       /\ h.order = g.order /\ h.NumPaused = g.NumPaused /\ h.ball = g.ball
    BY <1>9, <1>10, PlayerSet DEF Enters
<1>12. game' = Entered(h, q) BY <1>4, <1>10
<1> HIDE DEF h
<1>13. PICK w : Enters(h.pl[q], h.pl[q].team, w) /\ game' = [h EXCEPT !.pl[q] = w]
    BY <1>11, <1>12, EnteredIs
<1>14. /\ game' \in GameType /\ game'.pl[q] = w
       /\ \A r \in Player : r # q => game'.pl[r] = h.pl[r]
       /\ game'.order = h.order /\ game'.NumPaused = h.NumPaused /\ game'.ball = h.ball
    BY <1>11, <1>13, PlayerSet DEF Enters
<1>15. /\ g.pl[p] = x /\ h.pl[q] = z /\ game'.pl[p] = y
       /\ \A r \in Player : r # p /\ r # q => game'.pl[r] = game.pl[r]
    BY <1>1, <1>8, <1>9, <1>11, <1>14
<1>16. Enters(game.pl[p], tq, game'.pl[p]) BY <1>7, <1>10, <1>15 DEF Enters
<1>17. Enters(game.pl[q], tp, game'.pl[q]) BY <1>7, <1>13, <1>14, <1>15 DEF Enters
<1> HIDE DEF tp, tq
<1>18. PlayerFits(game'.pl[p]) /\ PlayerFits(game'.pl[q])
    BY <1>2, <1>3, <1>6, <1>16, <1>17, EntersFits
<1>19. ASSUME NEW r \in Player
       PROVE  /\ PlayerFits(game'.pl[r])
              /\ game'.pl[r].state = "UNDEFINED" <=> game.pl[r].state = "UNDEFINED"
              /\ game'.pl[r].state # "KILLED"
  <2>1. CASE r = p BY <1>5, <1>16, <1>18, <2>1 DEF Enters
  <2>2. CASE r = q BY <1>5, <1>17, <1>18, <2>2 DEF Enters
  <2>3. CASE r # p /\ r # q BY <1>2, <1>15, <2>3, SoundFacts
  <2> QED BY <2>1, <2>2, <2>3
<1>20. PausedFit(game')
  <2>1. game'.pl[p].team = tq /\ game'.pl[q].team = tp BY <1>16, <1>17 DEF Enters
  <2>2. Cardinality(OnTeam(game', PauseTeam)) = Cardinality(OnTeam(game, PauseTeam))
    <3>1. game'.pl[p].team = game.pl[q].team /\ game'.pl[q].team = game.pl[p].team
        BY <2>1 DEF tp, tq
    <3>2. \A r \in Player : r # p /\ r # q => game'.pl[r].team = game.pl[r].team BY <1>15
    <3> QED BY <3>1, <3>2, ExchangeCount
  <2>3. game'.NumPaused = game.NumPaused BY <1>8, <1>9, <1>11, <1>14
  <2> QED BY <1>2, <2>2, <2>3 DEF PausedFit, Sound
<1>21. Sound(game')
  <2>1. game'.order = game.order /\ game'.ball = game.ball BY <1>8, <1>9, <1>11, <1>14
  <2> QED BY <1>2, <1>14, <1>19, <1>20, <2>1, SameTable
<1>22. CleanFits(game')
  <2>1. CASE RoundsToPlay # 0 BY <2>1 DEF CleanFits
  <2>2. CASE RoundsToPlay = 0
    <3>1. game'.pl[p].state \notin {"UNDEFINED", "PAUSED"} BY <1>6, <1>16, <2>2 DEF Enters
    <3> QED BY <3>1, SomebodyPlays
  <2> QED BY <2>1, <2>2
<1>23. RoundsInv' BY <1>1, <1>19, <1>21, <1>22, BetweenKeeps
<1>24. ASSUME NEW r \in Player
       PROVE  /\ game.pl[r].state = "DEAD" /\ game'.pl[r].state \in {"APPEARING", "ALIVE", "KILLED"}
                     => Resetting
              /\ game.pl[r].state = "APPEARING" /\ game'.pl[r].state = "ALIVE" => loop.at = "update"
  <2>1. CASE r = p BY <1>16, <2>1 DEF Enters
  <2>2. CASE r = q BY <1>17, <2>2 DEF Enters
  <2>3. CASE r # p /\ r # q BY <1>15, <2>3
  <2> QED BY <2>1, <2>2, <2>3
<1> QED BY <1>23, <1>24 DEF StaysOut

LEMMA SelfDestructKeeps ==
    ASSUME RoundsInv, NEW p \in Player, Self_destruct(p)
    PROVE  RoundsInv' /\ StaysOut
<1> DEFINE x == [game.pl[p] EXCEPT !.destruct = ~@]
<1>1. Between /\ game.pl[p].state = "ALIVE" /\ game' = [game EXCEPT !.pl[p] = x]
    BY DEF Self_destruct, InState
<1>2. /\ Sound(game) /\ game \in GameType
      /\ \A q \in Player : game.pl[q].state # "KILLED"
    BY <1>1, InputFacts, SoundFacts DEF Between
<1>3. PlayerFits(game.pl[p]) /\ game.pl[p] \in PlayerType BY <1>2, SoundFacts
<1>4. /\ x \in PlayerType
      /\ x.team = game.pl[p].team /\ x.state = game.pl[p].state /\ x.life = game.pl[p].life
      /\ x.deaths = game.pl[p].deaths
    BY <1>3 DEF PlayerType
<1> HIDE DEF x
<1>5. PlayerFits(x) BY <1>3, <1>4 DEF PlayerFits, LivesFit
<1>6. /\ game' \in GameType /\ game'.pl[p] = x
      /\ \A q \in Player : q # p => game'.pl[q] = game.pl[q]
      /\ game'.order = game.order /\ game'.NumPaused = game.NumPaused /\ game'.ball = game.ball
    BY <1>1, <1>2, <1>4, PlayerSet
<1>7. ASSUME NEW q \in Player
      PROVE  /\ PlayerFits(game'.pl[q])
             /\ game'.pl[q].state = game.pl[q].state /\ game'.pl[q].team = game.pl[q].team
  <2>1. CASE q = p BY <1>4, <1>5, <1>6, <2>1
  <2>2. CASE q # p BY <1>2, <1>6, <2>2, SoundFacts
  <2> QED BY <2>1, <2>2
<1>8. PausedFit(game') BY <1>2, <1>6, <1>7, SameTeams
<1>9. Sound(game') BY <1>2, <1>6, <1>7, <1>8, SameTable
<1>10. CleanFits(game')
  <2>1. game'.pl[p].state \notin {"UNDEFINED", "PAUSED"} BY <1>1, <1>7
  <2> QED BY <2>1, SomebodyPlays
<1>11. RoundsInv' BY <1>1, <1>2, <1>7, <1>9, <1>10, BetweenKeeps
<1>12. StaysOut BY <1>7 DEF StaysOut
<1> QED BY <1>11, <1>12

LEMMA CmdResetKeeps ==
    ASSUME RoundsInv, Cmd_reset
    PROVE  RoundsInv' /\ StaysOut
<1>1. /\ loop.at = "input" /\ game' = game
      /\ loop' = [loop EXCEPT !.at = "reset", !.by = "operator"]
      /\ Sound(game) /\ CleanFits(game) /\ loop \in LoopType /\ loop.i = 0
      /\ \A p \in Player : game.pl[p].state # "KILLED"
    BY InputFacts DEF Cmd_reset, Input
<1>2. loop' \in LoopType /\ loop'.at = "reset" /\ loop'.i = 0 BY <1>1 DEF LoopType
<1>3. \A j \in DOMAIN game.order : ~(j <= 0)
  <2>1. game.order \in Seq(Player) BY <1>1, SoundFacts DEF GameType
  <2> QED BY <2>1
<1>4. ResetFits(game', loop'.at, loop'.i, loop'.kicked) BY <1>1, <1>2, <1>3 DEF ResetFits
<1>5. KillsFit(game', loop'.at, loop'.i) BY <1>1, <1>2 DEF KillsFit, InState
<1>6. RoundGoesOn' BY <1>2 DEF RoundGoesOn
<1>7. RoundsInv' BY <1>1, <1>2, <1>4, <1>5, <1>6 DEF RoundsInv, NewsFit
<1>8. StaysOut BY <1>1 DEF StaysOut
<1> QED BY <1>7, <1>8

-----------------------------------------------------------------------------
(* A frame.                                                                *)

\* The balls and the treasures change, but nobody gets a ball.
LEMMA SameWorld ==
    ASSUME NEW g, Sound(g), NEW h \in GameType,
           h.pl = g.pl, h.order = g.order, h.NumPaused = g.NumPaused,
           \A x \in Treasure : h.ball[x].owner \in {g.ball[x].owner, None}
    PROVE  Sound(h) /\ InGame(h) = InGame(g) /\ Active(h) = Active(g)
<1>1. InGame(h) = InGame(g) /\ Active(h) = Active(g) BY DEF InGame, Active, InState
<1>2. OnTeam(h, PauseTeam) = OnTeam(g, PauseTeam) BY DEF OnTeam
<1>3. PausedFit(h) BY <1>2 DEF PausedFit, Sound
<1>4. OwnersPlay(h) BY <1>1 DEF OwnersPlay, Sound
<1> QED BY <1>1, <1>3, <1>4 DEF Sound

LEMMA NumTreasuresIsInt == \A t \in Team : NumTreasures(t) \in Int
<1>1. ASSUME NEW t \in Team PROVE NumTreasures(t) \in Nat
  <2> DEFINE S == {x \in Treasure : TreasureTeam[x] = t}
  <2>1. IsFiniteSet(S) BY Constants, FS_Subset
  <2>2. Cardinality(S) \in Nat BY <2>1, FS_CardinalityType
  <2> QED BY <2>2 DEF NumTreasures
<1> QED BY <1>1

LEMMA BallExpires ==
    ASSUME NEW b \in BallType
    PROVE  /\ [b EXCEPT !.expired = TRUE] \in BallType
           /\ [b EXCEPT !.expired = TRUE].owner = b.owner
BY DEF BallType

\* The world after Objects_time_out and Teams_reset, with other news or the same.
LEMMA WorldResetSound ==
    ASSUME NEW g, Sound(g)
    PROVE  LET h == WorldReset(g) IN
           /\ h \in GameType
           /\ Sound(h)
           /\ h.pl = g.pl /\ h.order = g.order /\ h.NumPaused = g.NumPaused
           /\ Active(h) = Active(g)
           /\ \A x \in Treasure : h.ball[x].owner = g.ball[x].owner
           /\ h.roundsPlayed = g.roundsPlayed /\ h.over = g.over
           /\ Clean(h)
<1> DEFINE b == [x \in Treasure |-> [g.ball[x] EXCEPT !.expired = TRUE]]
           l == [t \in Team |-> NumTreasures(t)]
           d == [t \in Team |-> 0]
           h == [g EXCEPT !.ball = b, !.left = l, !.destroyed = d]
<1>1. g \in GameType BY SoundFacts
<1>2. WorldReset(g) = h BY <1>1 DEF WorldReset, GameType
<1>3. b \in [Treasure -> BallType] /\ \A x \in Treasure : b[x].owner = g.ball[x].owner
  <2>1. ASSUME NEW x \in Treasure PROVE b[x] \in BallType /\ b[x].owner = g.ball[x].owner
    <3>1. g.ball[x] \in BallType BY <1>1 DEF GameType
    <3>2. b[x] = [g.ball[x] EXCEPT !.expired = TRUE] OBVIOUS
    <3> QED BY <3>1, <3>2, BallExpires
  <2>2. b = [x \in Treasure |-> b[x]] OBVIOUS
  <2> HIDE DEF b
  <2> QED BY <2>1, <2>2
<1>4. l \in [Team -> Int] /\ d \in [Team -> 0 .. MaxDestroyed]
  <2>1. 0 \in 0 .. MaxDestroyed BY Constants
  <2> QED BY <2>1, NumTreasuresIsInt
<1>5. \A t \in Team : l[t] = NumTreasures(t) /\ d[t] = 0 OBVIOUS
<1> HIDE DEF b, l, d
<1>6. /\ h \in GameType
      /\ h.pl = g.pl /\ h.order = g.order /\ h.NumPaused = g.NumPaused
      /\ h.ball = b /\ h.left = l /\ h.destroyed = d
      /\ h.roundsPlayed = g.roundsPlayed /\ h.over = g.over
    BY <1>1, <1>3, <1>4 DEF GameType
<1> HIDE DEF h
<1>7. Sound(h) /\ Active(h) = Active(g)
  <2>1. \A x \in Treasure : h.ball[x].owner \in {g.ball[x].owner, None} BY <1>3, <1>6
  <2> QED BY <1>6, <2>1, SameWorld
<1>8. Clean(h) BY <1>5, <1>6 DEF Clean
<1>9. \A x \in Treasure : h.ball[x].owner = g.ball[x].owner BY <1>3, <1>6
<1> QED BY <1>2, <1>6, <1>7, <1>8, <1>9

\* As many entries as players.
LEMMA TableSize ==
    ASSUME NEW P \in SUBSET Player, NEW order, TableFits(order, P)
    PROVE  Len(order) = Cardinality(P)
<1> DEFINE n == Len(order)
<1>1. /\ order \in Seq(P) /\ n \in Nat /\ DOMAIN order = 1 .. n
      /\ order \in [1 .. n -> P]
    BY DEF TableFits
<1>2. order \in Injection(1 .. n, P) BY <1>1 DEF TableFits, Injection, IsInjective
<1>3. order \in Surjection(1 .. n, P) BY <1>1 DEF TableFits, Surjection
<1>4. IsFiniteSet(P) BY PlayersFinite
<1>5. Cardinality(1 .. n) = Cardinality(P) BY <1>2, <1>3, <1>4, FS_Injection
<1>6. \A m \in Nat : Cardinality(1 .. m) = m BY FS_Interval
<1> QED BY <1>1, <1>5, <1>6

\* Main_loop knows when nobody plays.
LEMMA NobodyIsCounted ==
    ASSUME NEW g, Sound(g), RoundsToPlay = 0, Active(g) = {}
    PROVE  Len(g.order) - g.NumPaused = 0
<1>1. TableFits(g.order, InGame(g)) /\ g.NumPaused = Cardinality(OnTeam(g, PauseTeam))
    BY DEF Sound, PausedFit
<1>2. InGame(g) \in SUBSET Player BY DEF InGame
<1>3. Len(g.order) = Cardinality(InGame(g)) BY <1>1, <1>2, TableSize
<1>4. ASSUME NEW p \in Player PROVE p \in InGame(g) <=> p \in OnTeam(g, PauseTeam)
  <2>1. PlayerFits(g.pl[p]) BY SoundFacts
  <2>2. p \in InGame(g) => g.pl[p].state = "PAUSED" BY DEF Active, InGame, InState
  <2> QED BY <2>1, <2>2 DEF PlayerFits, InGame, OnTeam
<1>5. InGame(g) = OnTeam(g, PauseTeam) BY <1>4 DEF InGame, OnTeam
<1>6. Cardinality(InGame(g)) \in Nat BY <1>2, PlayersFinite
<1> QED BY <1>1, <1>3, <1>5, <1>6

LEMMA MoveBallsKeeps ==
    ASSUME RoundsInv, Move_balls
    PROVE  RoundsInv' /\ StaysOut
<1>1. /\ Sound(game) /\ CleanFits(game) /\ loop \in LoopType /\ loop.i = 0
      /\ \A p \in Player : game.pl[p].state # "KILLED"
      /\ game \in GameType
    BY InputFacts, SoundFacts DEF Move_balls
<1>2. /\ loop' \in LoopType /\ loop'.i = 0 /\ loop'.at \in {"input", "update"}
    BY <1>1 DEF Move_balls, LoopType, Input
<1>3. /\ game'.pl = game.pl /\ game'.news = FALSE
      /\ Sound(game')
      /\ CleanFits(game')
  <2>1. CASE NobodyPlays(game)
    <3> DEFINE g == WorldReset(game)
    <3>1. game' = [g EXCEPT !.news = FALSE] BY <2>1 DEF Move_balls
    <3>2. g \in GameType /\ Sound(g) /\ g.pl = game.pl /\ Clean(g) BY <1>1, WorldResetSound
    <3> HIDE DEF g
    <3>3. /\ game' \in GameType
          /\ game'.pl = g.pl /\ game'.order = g.order /\ game'.NumPaused = g.NumPaused
          /\ game'.ball = g.ball /\ game'.left = g.left /\ game'.destroyed = g.destroyed
          /\ game'.news = FALSE
        BY <3>1, <3>2 DEF GameType
    <3>4. Sound(game') BY <3>2, <3>3, SameWorld
    <3>5. Clean(game') BY <3>2, <3>3 DEF Clean
    <3> QED BY <3>2, <3>3, <3>4, <3>5 DEF CleanFits
  <2>2. CASE ~NobodyPlays(game)
    <3>1. PICK lost \in SUBSET {x \in Treasure : ~game.ball[x].have} :
          \E cashed \in SUBSET (lost \cap Cashable) :
              LET done == {t \in Team : game.destroyed[t] + Destroys(t, cashed) > MaxDestroyed}
              IN  /\ done = {}
                  /\ game' = [game EXCEPT
                         !.ball = [x \in Treasure |->
                             IF x \in lost THEN [@[x] EXCEPT !.expired = TRUE] ELSE @[x]],
                         !.left = [t \in Team |-> @[t] - Loses(t, cashed)],
                         !.destroyed = [t \in Team |-> @[t] + Destroys(t, cashed)],
                         !.news = FALSE]
        BY <2>2 DEF Move_balls
    <3>2. PICK cashed \in SUBSET (lost \cap Cashable) :
              LET done == {t \in Team : game.destroyed[t] + Destroys(t, cashed) > MaxDestroyed}
              IN  /\ done = {}
                  /\ game' = [game EXCEPT
                         !.ball = [x \in Treasure |->
                             IF x \in lost THEN [@[x] EXCEPT !.expired = TRUE] ELSE @[x]],
                         !.left = [t \in Team |-> @[t] - Loses(t, cashed)],
                         !.destroyed = [t \in Team |-> @[t] + Destroys(t, cashed)],
                         !.news = FALSE]
        BY <3>1
    <3> DEFINE b == [x \in Treasure |->
                        IF x \in lost THEN [game.ball[x] EXCEPT !.expired = TRUE] ELSE game.ball[x]]
               l == [t \in Team |-> game.left[t] - Loses(t, cashed)]
               d == [t \in Team |-> game.destroyed[t] + Destroys(t, cashed)]
    <3>3. game' = [game EXCEPT !.ball = b, !.left = l, !.destroyed = d, !.news = FALSE]
        BY <1>1, <3>2 DEF GameType
    <3>4. cashed \in SUBSET Treasure BY DEF Cashable
    <3>5. ASSUME NEW t \in Team PROVE Destroys(t, cashed) \in Nat /\ Loses(t, cashed) \in Nat
      <4> DEFINE S == {x \in cashed : Counts(x) /\ game.pl[game.ball[x].owner].team = t}
                 T == {x \in cashed : Counts(x) /\ TreasureTeam[x] = t}
      <4>1. IsFiniteSet(S) /\ IsFiniteSet(T) BY <3>4, Constants, FS_Subset
      <4>2. Cardinality(S) \in Nat /\ Cardinality(T) \in Nat BY <4>1, FS_CardinalityType
      <4> QED BY <4>2 DEF Destroys, Loses
    <3>6. b \in [Treasure -> BallType] /\ \A x \in Treasure : b[x].owner = game.ball[x].owner
      <4>1. ASSUME NEW x \in Treasure PROVE b[x] \in BallType /\ b[x].owner = game.ball[x].owner
        <5>1. game.ball[x] \in BallType BY <1>1 DEF GameType
        <5>2. b[x] = IF x \in lost THEN [game.ball[x] EXCEPT !.expired = TRUE] ELSE game.ball[x]
            OBVIOUS
        <5> HIDE DEF b
        <5> QED BY <5>1, <5>2, BallExpires
      <4>2. b = [x \in Treasure |-> b[x]] OBVIOUS
      <4> HIDE DEF b
      <4> QED BY <4>1, <4>2
    <3>7. l \in [Team -> Int]
      <4>1. \A t \in Team : game.left[t] \in Int BY <1>1 DEF GameType
      <4> QED BY <3>5, <4>1
    <3>8. d \in [Team -> 0 .. MaxDestroyed]
      <4>1. \A t \in Team : game.destroyed[t] \in 0 .. MaxDestroyed BY <1>1 DEF GameType
      <4>2. \A t \in Team : ~(game.destroyed[t] + Destroys(t, cashed) > MaxDestroyed) BY <3>2
      <4> QED BY <3>5, <4>1, <4>2, Constants
    <3>9. \A t \in Team : /\ l[t] = game.left[t] - Loses(t, cashed)
                          /\ d[t] = game.destroyed[t] + Destroys(t, cashed)
        OBVIOUS
    <3> HIDE DEF b, l, d
    <3>10. /\ game' \in GameType
           /\ game'.pl = game.pl /\ game'.order = game.order /\ game'.NumPaused = game.NumPaused
           /\ game'.ball = b /\ game'.left = l /\ game'.destroyed = d
           /\ game'.news = FALSE
        BY <1>1, <3>3, <3>6, <3>7, <3>8 DEF GameType
    <3>11. Sound(game') /\ Active(game') = Active(game)
      <4>1. \A x \in Treasure : game'.ball[x].owner \in {game.ball[x].owner, None}
          BY <3>6, <3>10
      <4> QED BY <1>1, <3>10, <4>1, SameWorld
    <3>12. ASSUME RoundsToPlay = 0, Active(game') = {} PROVE Clean(game')
      <4>1. Active(game) = {} BY <3>11, <3>12
      <4>2. ~game.news BY <1>1, <2>2, <3>12, <4>1, NobodyIsCounted DEF NobodyPlays
      <4>3. Clean(game) BY <1>1, <3>12, <4>1, <4>2 DEF CleanFits
      <4>4. \A x \in Treasure : ~Counts(x)
          BY <4>1 DEF Counts, Active, InGame, InState, OnTeam
      <4>5. ASSUME NEW t \in Team PROVE Destroys(t, cashed) = 0 /\ Loses(t, cashed) = 0
        <5>1. {x \in cashed : Counts(x) /\ game.pl[game.ball[x].owner].team = t} = {}
              /\ {x \in cashed : Counts(x) /\ TreasureTeam[x] = t} = {}
            BY <3>4, <4>4
        <5> QED BY <5>1, FS_EmptySet DEF Destroys, Loses
      <4> QED BY <3>9, <3>10, <4>3, <4>5, NumTreasuresIsInt DEF Clean
    <3> QED BY <3>10, <3>11, <3>12 DEF CleanFits
  <2> QED BY <2>1, <2>2
<1>4. KillsFit(game', loop'.at, loop'.i) BY <1>1, <1>2, <1>3 DEF KillsFit, InState
<1>5. ResetFits(game', loop'.at, loop'.i, loop'.kicked) BY <1>2 DEF ResetFits
<1>6. RoundGoesOn' BY <1>2 DEF RoundGoesOn
<1>7. RoundsInv' BY <1>2, <1>3, <1>4, <1>5, <1>6 DEF RoundsInv, NewsFit
<1>8. StaysOut BY <1>3 DEF StaysOut
<1> QED BY <1>7, <1>8

\* Where the loop of kills goes on: at the last entry up to i that is killed.
LEMMA TurnIs ==
    ASSUME NEW g, NEW i \in Nat
    PROVE  /\ NextTurn(g, i) \in {0} \cup Killed(g, i)
           /\ \A j \in Killed(g, i) : j <= NextTurn(g, i)
<1> DEFINE S == {0} \cup Killed(g, i)
<1>1. S \in SUBSET (0 .. i) /\ S # {} BY DEF Killed
<1> HIDE DEF S
<1>2. \E n \in S : \A k \in S : n >= k BY <1>1, MaxExists
<1>3. Max(S) \in S /\ \A k \in S : Max(S) >= k BY <1>2 DEF Max
<1>4. NextTurn(g, i) = Max(S) BY DEF NextTurn, S
<1>5. \A j \in S : j \in Nat BY <1>1
<1> QED BY <1>3, <1>4, <1>5 DEF S

LEMMA TurnKeeps ==
    ASSUME Sound(game'), CleanFits(game'), loop \in LoopType, NEW i \in Nat, NEW kicks \in BOOLEAN,
           loop' = ToTurn(game', i, kicks),
           \A j \in DOMAIN game'.order : game'.pl[game'.order[j]].state = "KILLED" => j <= i
    PROVE  RoundsInv'
<1> DEFINE g == game'
           n == NextTurn(g, i)
<1>1. /\ DOMAIN g.order = 1 .. Len(g.order) /\ Len(g.order) \in Nat
      /\ \A p \in InGame(g) : \E j \in DOMAIN g.order : g.order[j] = p
      /\ \A j \in DOMAIN g.order : g.order[j] \in Player
  <2>1. g.order \in Seq(Player) BY SoundFacts DEF GameType
  <2> QED BY <2>1, SoundFacts
<1>2. n \in {0} \cup Killed(g, i) /\ \A j \in Killed(g, i) : j <= n BY TurnIs
<1>3. \A j : j \in Killed(g, i) <=>
          j \in DOMAIN g.order /\ g.pl[g.order[j]].state = "KILLED"
    BY <1>1 DEF Killed
<1> HIDE DEF g, n
<1>4. 0 \notin Killed(g, i) /\ n \in Nat
  <2>1. \A j \in Killed(g, i) : j \in Nat /\ j # 0 BY DEF Killed
  <2> QED BY <1>2, <2>1
<1>5. loop' = [loop EXCEPT !.at = IF n = 0 THEN "status" ELSE "kill", !.i = n,
                           !.kicked = @ \/ kicks]
    BY DEF ToTurn, g, n
<1>6. /\ loop' \in LoopType /\ loop'.i = n
      /\ loop'.at = IF n = 0 THEN "status" ELSE "kill"
    BY <1>4, <1>5 DEF LoopType
<1>7. KillsFit(g, loop'.at, loop'.i)
  <2>1. CASE n = 0
    <3>1. \A j \in Killed(g, i) : FALSE
      <4>1. \A j \in Killed(g, i) : j \in Nat /\ j # 0 BY DEF Killed
      <4> QED BY <1>2, <2>1, <4>1
    <3>2. ASSUME NEW p \in Player, g.pl[p].state = "KILLED" PROVE FALSE
      <4>1. p \in InGame(g) BY <3>2 DEF InGame
      <4> QED BY <1>1, <1>3, <3>1, <3>2, <4>1 DEF g
    <3> QED BY <1>6, <2>1, <3>2 DEF KillsFit, InState
  <2>2. CASE n # 0
    <3>1. n \in Killed(g, i) BY <1>2, <2>2
    <3> QED BY <1>2, <1>3, <1>6, <2>2, <3>1 DEF KillsFit
  <2> QED BY <2>1, <2>2
<1>8. ResetFits(g, loop'.at, loop'.i, loop'.kicked) BY <1>6 DEF ResetFits
<1>9. RoundGoesOn' BY <1>6 DEF RoundGoesOn
<1> QED BY <1>6, <1>7, <1>8, <1>9 DEF RoundsInv, NewsFit, g

\* The rest of Update, given who recovers and who destroys itself.
UpdateEnds(recovers, explodes) ==
    LET before == [p \in Player |->
                      Updated(game.pl[p], p \in recovers, p \in explodes, FALSE, FALSE)]
    IN
    \E dies \in SUBSET {p \in Player : before[p].state = "ALIVE"} :
    \E suicides \in SUBSET dies :
    LET after == [p \in Player |-> Updated(game.pl[p], p \in recovers, p \in explodes,
                                           p \in dies, p \in suicides)]
        g == [game EXCEPT !.pl = after]
    IN  /\ \/ game' = g
           \/ \E x \in Treasure, p \in {q \in Player : before[q].state = "ALIVE"} :
                  MayTake(g, x) /\ game' = Taken(g, p, x)
        /\ loop' = ToTurn(game', Len(game.order), FALSE)

LEMMA UpdateKeeps ==
    ASSUME RoundsInv, Update
    PROVE  RoundsInv' /\ StaysOut
<1>1. /\ Sound(game) /\ CleanFits(game) /\ loop \in LoopType /\ loop.at = "update"
      /\ game \in GameType
      /\ \A p \in Player : game.pl[p].state # "KILLED"
    BY SoundFacts DEF RoundsInv, Update, KillsFit, InState
<1>2. CASE Crash BY <1>1, <1>2, CrashKeeps
<1>3. CASE ~Crash
  <2>1. PICK recovers \in Recoveries :
            \E explodes \in SUBSET {p \in Active(game) :
                game.pl[p].destruct /\ (game.pl[p].recovering => p \in recovers)} :
                UpdateEnds(recovers, explodes)
      BY <1>3 DEF Update, UpdateEnds
  <2>0. PICK explodes \in SUBSET Active(game) : UpdateEnds(recovers, explodes) BY <2>1
  <2> DEFINE before == [p \in Player |->
                           Updated(game.pl[p], p \in recovers, p \in explodes, FALSE, FALSE)]
             ships(dies, suicides) ==
                 [p \in Player |-> Updated(game.pl[p], p \in recovers, p \in explodes,
                                           p \in dies, p \in suicides)]
             ends(dies, suicides) ==
                 LET g == [game EXCEPT !.pl = ships(dies, suicides)]
                 IN  /\ \/ game' = g
                        \/ \E x \in Treasure, p \in {q \in Player : before[q].state = "ALIVE"} :
                               MayTake(g, x) /\ game' = Taken(g, p, x)
                     /\ loop' = ToTurn(game', Len(game.order), FALSE)
  <2>a. PICK dies \in SUBSET {p \in Player : before[p].state = "ALIVE"} :
            \E suicides \in SUBSET dies : ends(dies, suicides)
      BY <2>0 DEF UpdateEnds
  <2>2. PICK suicides \in SUBSET dies : ends(dies, suicides) BY <2>a
  <2> DEFINE after == [p \in Player |-> Updated(game.pl[p], p \in recovers, p \in explodes,
                                                p \in dies, p \in suicides)]
             g == [game EXCEPT !.pl = after]
  <2>3. ASSUME NEW p \in Player
        PROVE  /\ PlayerFits(game.pl[p])
               /\ p \in explodes => game.pl[p].state \notin {"UNDEFINED", "PAUSED"}
      BY <1>1, SoundFacts DEF Active, InGame, InState
  <2>4. ASSUME NEW p \in Player, before[p].state = "ALIVE" PROVE p \in InGame(game)
    <3> DEFINE r == p \in recovers
               e == p \in explodes
               x == game.pl[p]
               y == Updated(x, r, e, FALSE, FALSE)
    <3>1. r \in BOOLEAN /\ e \in BOOLEAN OBVIOUS
    <3>2. MayUpdate(x, e, FALSE, y) BY <1>1, <2>3 DEF MayUpdate
    <3>3. y.state = "ALIVE" BY <2>4
    <3> HIDE DEF r, e
    <3>4. \A f \in BOOLEAN : MayUpdate(x, e, f, y) => UpdatesTo(x, Updated(x, r, e, f, FALSE))
        BY ONLY <3>1, UpdatedFits, Zenon
    <3>5. UpdatesTo(x, y) BY <3>2, <3>4
    <3> HIDE DEF y
    <3> QED BY <3>3, <3>5 DEF InGame, UpdatesTo
  <2>5. ASSUME NEW p \in Player
        PROVE  /\ PlayerFits(after[p]) /\ after[p] \in PlayerType
               /\ after[p].team = game.pl[p].team
               /\ after[p].state = "UNDEFINED" <=> game.pl[p].state = "UNDEFINED"
               /\ after[p].state = "PAUSED" <=> game.pl[p].state = "PAUSED"
               /\ game.pl[p].state = "DEAD" => after[p].state = "DEAD"
    <3> DEFINE r == p \in recovers
               e == p \in explodes
               d == p \in dies
               u == p \in suicides
               x == game.pl[p]
               y == Updated(x, r, e, d, u)
    <3>1. r \in BOOLEAN /\ e \in BOOLEAN /\ d \in BOOLEAN /\ u \in BOOLEAN OBVIOUS
    <3>2. d => Updated(x, r, e, FALSE, FALSE).state = "ALIVE" BY <2>a
    <3>3. after[p] = y OBVIOUS
    <3>4. e => x.state \notin {"UNDEFINED", "PAUSED"} BY <2>3
    <3>5. PlayerFits(x) /\ x.state # "KILLED" BY <1>1, <2>3
    <3> HIDE DEF r, e, d, u, after, x
    <3>6. MayUpdate(x, e, d, Updated(x, r, e, FALSE, FALSE)) BY <3>2, <3>4, <3>5 DEF MayUpdate
    <3>7. UpdatesTo(x, y) BY ONLY <3>1, <3>6, UpdatedFits, Zenon
    <3> HIDE DEF y
    <3> QED BY <3>3, <3>7 DEF PlayerFits, UpdatesTo, x
  <2>6. after \in [Player -> PlayerType]
    <3>1. after = [p \in Player |-> after[p]] OBVIOUS
    <3> HIDE DEF after
    <3> QED BY <2>5, <3>1
  <2>7. \/ game' = g
        \/ \E x \in Treasure, p \in InGame(game) : game' = Taken(g, p, x)
    <3>1. \A p \in {q \in Player : before[q].state = "ALIVE"} : p \in InGame(game) BY <2>4
    <3> HIDE DEF before
    <3> QED BY <2>2, <3>1
  <2>8. loop' = ToTurn(game', Len(game.order), FALSE) BY <2>2
  <2> HIDE DEF before, after
  <2>9. /\ g \in GameType /\ g.pl = after /\ g.order = game.order /\ g.NumPaused = game.NumPaused
        /\ g.ball = game.ball /\ g.left = game.left /\ g.destroyed = game.destroyed
        /\ g.news = game.news
      BY <1>1, <2>6 DEF GameType
  <2> HIDE DEF g
  <2>10. PausedFit(g) BY <1>1, <2>5, <2>9, SameTeams
  <2>11. Sound(g) /\ InGame(g) = InGame(game) BY <1>1, <2>5, <2>9, <2>10, SameTable
  <2>12. Active(g) = Active(game) BY <2>5, <2>9, <2>11 DEF Active, InState
  <2>13. /\ Sound(game') /\ game'.pl = g.pl /\ game'.order = g.order
         /\ game'.left = g.left /\ game'.destroyed = g.destroyed /\ game'.news = g.news
    <3>1. CASE game' = g BY <2>11, <3>1
    <3>2. ASSUME NEW x \in Treasure, NEW p \in InGame(game), game' = Taken(g, p, x)
          PROVE  /\ Sound(game') /\ game'.pl = g.pl /\ game'.order = g.order
                 /\ game'.left = g.left /\ game'.destroyed = g.destroyed /\ game'.news = g.news
      <4> DEFINE c == [g.ball[x] EXCEPT !.owner = p, !.have = FALSE,
                                        !.expired = g.ball[x].expired /\ ~g.ball[x].have]
      <4>1. game' = [g EXCEPT !.ball[x] = c] BY <2>9, <3>2 DEF Taken, GameType
      <4>2. p \in Player BY DEF InGame
      <4>3. c \in BallType /\ c.owner = p
        <5>1. g.ball[x] \in BallType BY <2>9 DEF GameType
        <5> QED BY <4>2, <5>1 DEF BallType
      <4> HIDE DEF c
      <4>4. /\ game' \in GameType /\ game'.pl = g.pl /\ game'.order = g.order
            /\ game'.NumPaused = g.NumPaused
            /\ game'.ball = [g.ball EXCEPT ![x] = c]
            /\ game'.left = g.left /\ game'.destroyed = g.destroyed /\ game'.news = g.news
          BY <2>9, <4>1, <4>3 DEF GameType
      <4>5. InGame(game') = InGame(g) BY <4>4 DEF InGame
      <4>6. \A y \in Treasure : game'.ball[y] = IF y = x THEN c ELSE g.ball[y]
          BY <2>9, <4>4 DEF GameType
      <4>7. OwnersPlay(game')
        <5>1. OwnersPlay(g) BY <2>11 DEF Sound
        <5> QED BY <2>11, <4>3, <4>5, <4>6, <5>1 DEF OwnersPlay
      <4>8. PausedFit(game') BY <2>11, <4>4, SameTeams
      <4>9. Sound(game') BY <2>11, <4>4, <4>5, <4>7, <4>8 DEF Sound
      <4> QED BY <4>4, <4>9
    <3> QED BY <2>7, <3>1, <3>2
  <2>14. CleanFits(game')
    <3>1. Active(game') = Active(game) BY <2>12, <2>13 DEF Active, InGame, InState
    <3> QED BY <1>1, <2>9, <2>13, <3>1 DEF CleanFits, Clean
  <2>15. RoundsInv'
    <3>1. game'.order = game.order BY <2>9, <2>13
    <3>2. game.order \in Seq(Player) BY <1>1 DEF GameType
    <3>3. Len(game.order) \in Nat /\ \A j \in DOMAIN game.order : j <= Len(game.order) BY <3>2
    <3> QED BY <1>1, <2>8, <2>13, <2>14, <3>1, <3>3, TurnKeeps
  <2>16. StaysOut BY <1>1, <2>5, <2>9, <2>13 DEF StaysOut
  <2> QED BY <2>15, <2>16
<1> QED BY <1>2, <1>3

LEMMA AfterKillKeeps ==
    ASSUME RoundsInv, After_kill
    PROVE  RoundsInv' /\ StaysOut
<1> DEFINE i == loop.i
           p == game.order[i]
           x == Player_destroy(game.pl[p])
           g == [game EXCEPT !.pl[p] = x]
<1>1. /\ Sound(game) /\ CleanFits(game) /\ loop \in LoopType /\ loop.at = "kill"
      /\ game \in GameType
      /\ i \in DOMAIN game.order /\ game.pl[p].state = "KILLED"
      /\ \A j \in DOMAIN game.order : game.pl[game.order[j]].state = "KILLED" => j <= i
    BY SoundFacts DEF RoundsInv, After_kill, KillsFit
<1>2. PICK idle \in MayIdle(game) :
          /\ game' = IF idle THEN Player_pause_forced(g, p) ELSE g
          /\ loop' = ToTurn(game', i - 1, idle /\ MustKick(g, p))
    BY <1>1 DEF After_kill, GameType
<1>3. p \in Player /\ PlayerFits(game.pl[p])
    BY <1>1, SoundFacts DEF InGame
<1>4. /\ i - 1 \in Nat /\ \A j \in DOMAIN game.order : j \in Nat
      /\ \A j \in DOMAIN game.order : game.order[j] = p => j = i
      /\ \A j \in DOMAIN game.order : game.order[j] \in Player
  <2>1. game.order \in Seq(Player) BY <1>1 DEF GameType
  <2>2. TableFits(game.order, InGame(game)) BY <1>1, SoundFacts
  <2>3. \A j \in DOMAIN game.order : j \in Nat /\ j - 1 \in Nat /\ game.order[j] \in Player BY <2>1
  <2>4. i \in DOMAIN game.order BY <1>1
  <2>5. \A j \in DOMAIN game.order : game.order[j] = game.order[i] => j = i
      BY <2>2, <2>4 DEF TableFits
  <2> HIDE DEF i
  <2> QED BY <2>3, <2>4, <2>5
<1> HIDE DEF p
<1>5. PlayerFits(x) /\ x.state \in {"DEAD", "APPEARING"} /\ x.team = game.pl[p].team
    BY <1>1, <1>3, KilledFits
<1>6. x \in PlayerType BY <1>5 DEF PlayerFits
<1> HIDE DEF x
<1>7. /\ g \in GameType /\ g.pl[p] = x
      /\ \A q \in Player : q # p => g.pl[q] = game.pl[q]
      /\ g.order = game.order /\ g.NumPaused = game.NumPaused /\ g.ball = game.ball
    BY <1>1, <1>3, <1>6, PlayerSet
<1> HIDE DEF g
<1>8. Sound(g)
  <2>1. ASSUME NEW q \in Player
        PROVE  /\ PlayerFits(g.pl[q]) /\ g.pl[q].team = game.pl[q].team
               /\ g.pl[q].state = "UNDEFINED" <=> game.pl[q].state = "UNDEFINED"
    <3>1. CASE q = p BY <1>1, <1>5, <1>7, <3>1
    <3>2. CASE q # p BY <1>1, <1>7, <3>2, SoundFacts
    <3> QED BY <3>1, <3>2
  <2>2. PausedFit(g) BY <1>1, <1>7, <2>1, SameTeams
  <2> QED BY <1>1, <1>7, <2>1, <2>2, SameTable
<1>9. /\ Sound(game') /\ CleanFits(game')
      /\ game'.pl[p].state # "KILLED"
      /\ \A q \in Player : q # p => game'.pl[q].state \in {game.pl[q].state, "UNDEFINED"}
      /\ Lowered(game'.order, game.order)
  <2>1. CASE idle
    <3>1. p \in Active(g) BY <1>3, <1>5, <1>7 DEF Active, InGame, InState
    <3>2. Pauses(g, game', p) BY <1>2, <1>8, <2>1, <3>1, PauseSound
    <3>3. /\ CleanFits(game') /\ game'.pl[p].state = "PAUSED"
          /\ \A q \in Player : q # p => game'.pl[q].state \in {g.pl[q].state, "UNDEFINED"}
        BY <1>3, <1>8, <3>2, PausesAre
    <3> QED BY <1>7, <3>2, <3>3 DEF Pauses
  <2>2. CASE ~idle
    <3>1. game' = g BY <1>2, <2>2
    <3>2. CleanFits(g) BY <1>3, <1>5, <1>7, SomebodyPlays
    <3>3. \A j \in DOMAIN game.order : j <= j BY <1>4
    <3>4. Lowered(game.order, game.order) BY <3>3 DEF Lowered
    <3> QED BY <1>5, <1>7, <1>8, <3>1, <3>2, <3>4
  <2> QED BY <2>1, <2>2
<1>10. ASSUME NEW j \in DOMAIN game'.order, game'.pl[game'.order[j]].state = "KILLED"
       PROVE  j <= i - 1
  <2> DEFINE q == game'.order[j]
  <2>1. q \in Player /\ j \in Nat BY <1>9, SoundFacts DEF InGame
  <2>2. PICK k \in DOMAIN game.order : j <= k /\ game.order[k] = q BY <1>9 DEF Lowered
  <2>3. q # p BY <1>9, <1>10
  <2>4. game.pl[q].state = "KILLED" BY <1>9, <1>10, <2>1, <2>3
  <2>5. k <= i BY <1>1, <2>2, <2>4
  <2>6. k # i BY <2>2, <2>3 DEF p
  <2>7. k \in Nat /\ i \in Nat BY <1>1, <1>4
  <2> QED BY <2>1, <2>2, <2>5, <2>6, <2>7
<1>11. RoundsInv'
  <2> DEFINE kicks == idle /\ MustKick(g, p)
  <2>1. kicks \in BOOLEAN /\ loop' = ToTurn(game', i - 1, kicks) BY <1>2 DEF MustKick, MayIdle
  <2> HIDE DEF kicks
  <2> QED BY <1>1, <1>4, <1>9, <1>10, <2>1, TurnKeeps
<1>12. StaysOut
  <2>1. ASSUME NEW q \in Player
        PROVE  /\ game.pl[q].state = "DEAD" /\ game'.pl[q].state \in {"APPEARING", "ALIVE", "KILLED"}
                      => Resetting
               /\ game.pl[q].state = "APPEARING" /\ game'.pl[q].state = "ALIVE" => loop.at = "update"
    <3>1. CASE q = p BY <1>1, <3>1
    <3>2. CASE q # p BY <1>9, <3>2
    <3> QED BY <3>1, <3>2
  <2> QED BY <2>1 DEF StaysOut
<1> QED BY <1>11, <1>12

-----------------------------------------------------------------------------
(* The end of a round.                                                     *)

\* When no round is over, either two teams are alive or nobody waits.
LEMMA RoundIsOn ==
    ASSUME NEW g, Sound(g), \A p \in Player : g.pl[p].state # "KILLED", ~RoundIsOver(g)
    PROVE  Cardinality(AliveTeams(g)) > 1 \/ InState(g, {"DEAD", "WAITING"}) = {}
<1> SUFFICES ASSUME ~(Cardinality(AliveTeams(g)) > 1),
                    NEW p \in InState(g, {"DEAD", "WAITING"})
             PROVE  FALSE
    OBVIOUS
<1> DEFINE S == AliveTeams(g)
           t == g.pl[p].team
<1>1. DeadTeams(g) = {} BY DEF RoundIsOver
<1>2. \A q \in InState(g, {"DEAD", "WAITING"}) : g.pl[q].team \in S
    BY <1>1 DEF DeadTeams, TeamsOf
<1>3. \A q \in InState(g, {"ALIVE", "APPEARING"}) : g.pl[q].team \in S
    BY DEF AliveTeams, TeamsOf
<1>4. S \in SUBSET (Team \cup {None})
  <2>1. \A q \in Player : g.pl[q].team \in Team \cup {None} BY SoundFacts DEF PlayerType
  <2> QED BY <2>1 DEF AliveTeams, TeamsOf, InState
<1> HIDE DEF S
<1>5. IsFiniteSet(S) BY <1>4, Constants, FS_AddElement, FS_Subset
<1>6. Cardinality(S) \in Nat /\ ~(Cardinality(S) > 1) BY <1>5, FS_CardinalityType DEF S
<1>7. t \in S BY <1>2
<1> HIDE DEF t
<1>8. \A u \in S : u = t
  <2> DEFINE R == S \ {t}
  <2>1. IsFiniteSet(R) /\ Cardinality(R) = Cardinality(S) - 1 BY <1>5, <1>7, FS_RemoveElement
  <2>2. Cardinality(R) \in Nat BY <2>1, FS_CardinalityType
  <2>3. Cardinality(R) = 0 BY <1>6, <2>1, <2>2
  <2>4. R = {} BY <2>1, <2>3, FS_EmptySet
  <2> QED BY <2>4
<1>9. Active(g) \subseteq OnTeam(g, t)
  <2>1. ASSUME NEW q \in Active(g) PROVE g.pl[q].team = t
    <3>1. q \in Player /\ g.pl[q].state \notin {"UNDEFINED", "PAUSED", "KILLED"}
        BY DEF Active, InGame, InState
    <3>2. g.pl[q].state \in States BY <3>1, SoundFacts DEF PlayerType
    <3>3. q \in InState(g, {"DEAD", "WAITING"}) \cup InState(g, {"ALIVE", "APPEARING"})
        BY <3>1, <3>2 DEF States, InState
    <3> QED BY <1>2, <1>3, <1>8, <3>3
  <2> QED BY <2>1 DEF Active, InGame, OnTeam
<1> QED BY <1>7, <1>9 DEF RoundIsOver, S

LEMMA StatusKeeps ==
    ASSUME RoundsInv, Status
    PROVE  RoundsInv' /\ StaysOut
<1>1. /\ Sound(game) /\ CleanFits(game) /\ loop \in LoopType /\ loop.at = "status"
      /\ \A p \in Player : game.pl[p].state # "KILLED"
      /\ game' = game /\ loop' = [loop EXCEPT !.at = "end"]
      /\ game.over \/ ~RoundIsOver(game)
    BY DEF RoundsInv, Status, KillsFit, InState
<1>2. loop' \in LoopType /\ loop'.at = "end" BY <1>1 DEF LoopType
<1>3. KillsFit(game', loop'.at, loop'.i) BY <1>1, <1>2 DEF KillsFit, InState
<1>4. ResetFits(game', loop'.at, loop'.i, loop'.kicked) BY <1>2 DEF ResetFits
<1>5. RoundGoesOn' BY <1>1, RoundIsOn DEF RoundGoesOn
<1>6. RoundsInv' BY <1>1, <1>2, <1>3, <1>4, <1>5 DEF RoundsInv, NewsFit
<1>7. StaysOut BY <1>1 DEF StaysOut
<1> QED BY <1>6, <1>7

LEMMA ResetPlayerKeeps ==
    ASSUME RoundsInv, Reset_player
    PROVE  RoundsInv' /\ StaysOut
<1> DEFINE i == loop.i
           p == game.order[i + 1]
<1>1. /\ Sound(game) /\ CleanFits(game) /\ loop \in LoopType /\ loop.at \in {"status", "reset"}
      /\ game \in GameType
      /\ i \in Nat /\ i < Len(game.order) /\ Resetting
      /\ ResetFits(game, loop.at, i, loop.kicked)
      /\ \A q \in Player : game.pl[q].state # "KILLED"
    BY SoundFacts DEF RoundsInv, Reset_player, Resetting, KillsFit, InState, LoopType
<1>2. PICK idle \in MayIdle(game) :
          /\ idle => game.pl[p].state \in {"ALIVE", "APPEARING"}
          /\ game' = IF game.pl[p].state = "PAUSED" THEN game
                     ELSE IF idle THEN Player_pause_forced(game, p)
                     ELSE [game EXCEPT !.pl[p] = Restarted(@)]
          /\ loop' = [loop EXCEPT !.at = "reset",
                                  !.i = @ + 1,
                                  !.kicked = @ \/ (idle /\ MustKick(game, p))]
    BY DEF Reset_player
<1>3. /\ p \in InGame(game) /\ p \in Player
      /\ \A j \in DOMAIN game.order : j \in Nat /\ game.order[j] \in Player
  <2>1. game.order \in Seq(Player) BY <1>1 DEF GameType
  <2>2. i + 1 \in DOMAIN game.order BY <1>1, <2>1
  <2>3. \A j \in DOMAIN game.order : j \in Nat /\ game.order[j] \in Player BY <2>1
  <2> QED BY <1>1, <2>2, <2>3, SoundFacts
<1>4. \A j \in DOMAIN game.order : j <= i + 1 => j <= i \/ game.order[j] = p
    BY <1>1, <1>3
<1> HIDE DEF p
<1>5. /\ loop' \in LoopType /\ loop'.at = "reset" /\ loop'.i = i + 1
      /\ ~loop'.kicked => ~loop.kicked /\ ~(idle /\ MustKick(game, p))
  <2> DEFINE kicks == loop.kicked \/ (idle /\ MustKick(game, p))
  <2>1. loop.kicked \in BOOLEAN BY <1>1 DEF LoopType
  <2>2. /\ kicks \in BOOLEAN
        /\ ~kicks => ~loop.kicked /\ ~(idle /\ MustKick(game, p))
      BY <2>1 DEF MustKick, MayIdle
  <2>3. loop' = [loop EXCEPT !.at = "reset", !.i = i + 1, !.kicked = kicks] BY <1>1, <1>2 DEF LoopType
  <2> DEFINE k == i + 1
  <2>4. k \in Nat /\ kicks \in BOOLEAN /\ loop \in LoopType BY <1>1, <2>2
  <2>5. loop' = [loop EXCEPT !.at = "reset", !.i = k, !.kicked = kicks] BY <2>3
  <2> HIDE DEF kicks, k
  <2>6. loop' \in LoopType /\ loop'.at = "reset" /\ loop'.i = k /\ loop'.kicked = kicks
      BY ONLY <2>4, <2>5 DEF LoopType
  <2> QED BY <2>2, <2>6 DEF k
<1>6. /\ Sound(game') /\ CleanFits(game')
      /\ game'.pl[p].state \in {"APPEARING", "PAUSED"}
      /\ \A q \in Player : q # p => game'.pl[q].state \in {game.pl[q].state, "UNDEFINED"}
      /\ ~loop'.kicked => /\ game'.order = game.order
                          /\ \A q \in Player : q # p => game'.pl[q] = game.pl[q]
  <2>1. CASE game.pl[p].state = "PAUSED"
    <3>1. game' = game BY <1>2, <2>1
    <3> QED BY <1>1, <2>1, <3>1
  <2>2. CASE game.pl[p].state # "PAUSED" /\ idle
    <3>1. p \in Active(game) BY <1>3, <2>2 DEF Active, InState
    <3>2. Pauses(game, game', p) BY <1>1, <1>2, <2>2, <3>1, PauseSound
    <3>3. /\ CleanFits(game') /\ game'.pl[p].state = "PAUSED"
          /\ \A q \in Player : q # p => game'.pl[q].state \in {game.pl[q].state, "UNDEFINED"}
        BY <1>1, <1>3, <3>2, PausesAre
    <3> QED BY <1>5, <2>2, <3>2, <3>3 DEF Pauses
  <2>3. CASE game.pl[p].state # "PAUSED" /\ ~idle
    <3> DEFINE x == Restarted(game.pl[p])
    <3>1. PlayerFits(game.pl[p]) BY <1>1, <1>3, SoundFacts
    <3>2. PlayerFits(x) /\ x.state = "APPEARING" /\ x.team = game.pl[p].team
        BY <2>3, <3>1, RestartedFits
    <3>3. game' = [game EXCEPT !.pl[p] = x] BY <1>1, <1>2, <1>3, <2>3 DEF GameType
    <3>4. x \in PlayerType BY <3>2 DEF PlayerFits
    <3> HIDE DEF x
    <3>5. /\ game' \in GameType /\ game'.pl[p] = x
          /\ \A q \in Player : q # p => game'.pl[q] = game.pl[q]
          /\ game'.order = game.order /\ game'.NumPaused = game.NumPaused
          /\ game'.ball = game.ball
        BY <1>1, <1>3, <3>3, <3>4, PlayerSet
    <3>6. ASSUME NEW q \in Player
          PROVE  /\ PlayerFits(game'.pl[q]) /\ game'.pl[q].team = game.pl[q].team
                 /\ game'.pl[q].state = "UNDEFINED" <=> game.pl[q].state = "UNDEFINED"
      <4>1. game.pl[p].state # "UNDEFINED" BY <1>3 DEF InGame
      <4>2. CASE q = p BY <3>2, <3>5, <4>1, <4>2
      <4>3. CASE q # p BY <1>1, <3>5, <4>3, SoundFacts
      <4> QED BY <4>2, <4>3
    <3>7. PausedFit(game') BY <1>1, <3>5, <3>6, SameTeams
    <3>8. Sound(game') BY <1>1, <3>5, <3>6, <3>7, SameTable
    <3>9. CleanFits(game') BY <1>3, <3>2, <3>5, SomebodyPlays
    <3> QED BY <3>2, <3>5, <3>8, <3>9
  <2> QED BY <2>1, <2>2, <2>3
<1>7. ResetFits(game', loop'.at, loop'.i, loop'.kicked)
  <2>1. ASSUME ~loop'.kicked, NEW j \in DOMAIN game'.order, j <= i + 1
        PROVE  game'.pl[game'.order[j]].state \in {"APPEARING", "PAUSED"}
    <3>1. j \in DOMAIN game.order /\ game'.order[j] = game.order[j] BY <1>6, <2>1
    <3> DEFINE q == game.order[j]
    <3>2. CASE q = p BY <1>6, <3>1, <3>2
    <3>3. CASE q # p
      <4>1. j <= i /\ j \in Nat /\ q \in Player BY <1>3, <1>4, <2>1, <3>1, <3>3
      <4>2. loop.at = "reset"
        <5>1. loop.at = "status" => i = 0 BY <1>1 DEF ResetFits
        <5>2. j # 0
          <6>1. game.order \in Seq(Player) BY <1>1 DEF GameType
          <6> QED BY <3>1, <6>1
        <5> QED BY <1>1, <4>1, <5>1, <5>2
      <4>3. game.pl[q].state \in {"APPEARING", "PAUSED"}
          BY <1>1, <1>5, <2>1, <3>1, <4>1, <4>2 DEF ResetFits
      <4>4. game'.pl[q] = game.pl[q] BY <1>6, <2>1, <3>3, <4>1
      <4> QED BY <3>1, <4>3, <4>4
    <3> QED BY <3>2, <3>3
  <2> QED BY <1>5, <2>1 DEF ResetFits
<1>8. \A q \in Player : /\ game'.pl[q].state # "KILLED"
                        /\ game.pl[q].state = "APPEARING" => game'.pl[q].state # "ALIVE"
    BY <1>1, <1>6
<1>9. KillsFit(game', loop'.at, loop'.i) BY <1>5, <1>8 DEF KillsFit, InState
<1>10. RoundGoesOn' BY <1>5 DEF RoundGoesOn
<1>11. RoundsInv' BY <1>5, <1>6, <1>7, <1>9, <1>10 DEF RoundsInv, NewsFit
<1>12. StaysOut BY <1>1, <1>8 DEF StaysOut
<1> QED BY <1>11, <1>12

LEMMA ResetDoneKeeps ==
    ASSUME RoundsInv, Reset_done
    PROVE  RoundsInv' /\ StaysOut
<1> DEFINE g == WorldReset(game)
<1>1. /\ Sound(game) /\ loop \in LoopType /\ loop.at = "reset" /\ Resetting
      /\ \A q \in Player : game.pl[q].state # "KILLED"
      /\ game.order \in Seq(Player) /\ loop.i \in Nat /\ loop.i >= Len(game.order)
      /\ ResetFits(game, loop.at, loop.i, loop.kicked)
  <2>1. Sound(game) BY DEF RoundsInv
  <2>2. game.order \in Seq(Player) BY <2>1, SoundFacts DEF GameType
  <2> QED BY <2>1, <2>2 DEF RoundsInv, Reset_done, Resetting, KillsFit, InState, LoopType
<1>2. ~loop.kicked => InState(game, {"DEAD", "WAITING"}) = {}
  <2>1. ASSUME ~loop.kicked, NEW q \in InState(game, {"DEAD", "WAITING"}) PROVE FALSE
    <3>1. q \in InGame(game) BY <2>1 DEF InGame, InState
    <3>2. PICK j \in DOMAIN game.order : game.order[j] = q BY <1>1, <3>1, SoundFacts
    <3>3. j <= loop.i
      <4>1. j \in Nat /\ j <= Len(game.order) /\ Len(game.order) \in Nat BY <1>1, <3>2
      <4> QED BY <1>1, <4>1
    <3>4. game.pl[q].state \in {"APPEARING", "PAUSED"}
        BY <1>1, <2>1, <3>2, <3>3 DEF ResetFits
    <3> QED BY <2>1, <3>4 DEF InState
  <2> QED BY <2>1
<1>3. /\ g \in GameType /\ Sound(g)
      /\ g.pl = game.pl /\ g.order = game.order /\ Active(g) = Active(game)
      /\ Clean(g)
    BY <1>1, WorldResetSound
<1>4. \/ loop' = [loop EXCEPT !.at = "end"] /\ game' = RoundCounted(g)
      \/ /\ loop' = Rest
         /\ \/ game' = [g EXCEPT !.over = FALSE]
            \/ game' = [g EXCEPT !.over = FALSE, !.roundsPlayed = 0]
    BY DEF Reset_done
<1>5. loop' \in LoopType /\ loop'.at \in {"end", "input"} /\ (loop'.at = "input" => loop'.i = 0)
      /\ (loop'.at = "end" => loop'.kicked = loop.kicked)
  <2>1. CASE loop' = [loop EXCEPT !.at = "end"] BY <1>1, <2>1 DEF LoopType
  <2>2. CASE loop' = Rest BY <2>2 DEF LoopType, Rest
  <2> QED BY <1>4, <2>1, <2>2
<1> HIDE DEF g
<1> DEFINE n == g.roundsPlayed + 1
           ships == [p \in Player |-> IF p \in InGame(g)
                                      THEN Player_set_state(g.pl[p], "WAITING") ELSE g.pl[p]]
<1>6. n \in Nat BY <1>3 DEF GameType
<1>7. \/ /\ \/ game' = g \/ game' = [g EXCEPT !.roundsPlayed = n]
            \/ game' = [g EXCEPT !.over = FALSE]
            \/ game' = [g EXCEPT !.over = FALSE, !.roundsPlayed = 0]
      \/ /\ RoundsToPlay # 0
         /\ game' = [g EXCEPT !.roundsPlayed = n, !.pl = ships, !.over = TRUE]
    BY <1>3, <1>4 DEF RoundCounted, GameType
<1> HIDE DEF n
<1>8. CASE \/ game' = g \/ game' = [g EXCEPT !.roundsPlayed = n]
           \/ game' = [g EXCEPT !.over = FALSE]
           \/ game' = [g EXCEPT !.over = FALSE, !.roundsPlayed = 0]
  <2>1. /\ game' \in GameType
        /\ game'.pl = g.pl /\ game'.order = g.order /\ game'.NumPaused = g.NumPaused
        /\ game'.ball = g.ball /\ game'.left = g.left /\ game'.destroyed = g.destroyed
    <3>1. CASE game' = g BY <1>3, <3>1
    <3>2. CASE game' = [g EXCEPT !.roundsPlayed = n] BY <1>3, <1>6, <3>2 DEF GameType
    <3>3. CASE game' = [g EXCEPT !.over = FALSE] BY <1>3, <3>3 DEF GameType
    <3>4. CASE game' = [g EXCEPT !.over = FALSE, !.roundsPlayed = 0] BY <1>3, <3>4 DEF GameType
    <3> QED BY <1>8, <3>1, <3>2, <3>3, <3>4
  <2>2. Sound(game') BY <1>3, <2>1, SameWorld
  <2>3. CleanFits(game') BY <1>3, <2>1 DEF CleanFits, Clean
  <2>4. KillsFit(game', loop'.at, loop'.i) BY <1>1, <1>3, <1>5, <2>1 DEF KillsFit, InState
  <2>5. ResetFits(game', loop'.at, loop'.i, loop'.kicked) BY <1>5 DEF ResetFits
  <2>6. RoundGoesOn'
    <3>1. InState(game', {"DEAD", "WAITING"}) = InState(game, {"DEAD", "WAITING"})
        BY <1>3, <2>1 DEF InState
    <3> QED BY <1>2, <1>5, <3>1 DEF RoundGoesOn
  <2>7. StaysOut BY <1>1, <1>3, <2>1 DEF StaysOut
  <2> QED BY <1>5, <2>2, <2>3, <2>4, <2>5, <2>6, <2>7 DEF RoundsInv, NewsFit
<1>9. CASE RoundsToPlay # 0 /\ game' = [g EXCEPT !.roundsPlayed = n, !.pl = ships, !.over = TRUE]
  <2>1. ASSUME NEW p \in Player
        PROVE  /\ ships[p] \in PlayerType /\ PlayerFits(ships[p])
               /\ ships[p].team = g.pl[p].team
               /\ ships[p].state \in {"WAITING", "UNDEFINED"}
               /\ ships[p].state = "UNDEFINED" <=> g.pl[p].state = "UNDEFINED"
    <3> DEFINE y == Player_set_state(g.pl[p], "WAITING")
    <3>1. PlayerFits(g.pl[p]) /\ g.pl[p] \in PlayerType BY <1>3, SoundFacts
    <3>2. y \in PlayerType /\ y.state = "WAITING" /\ y.team = g.pl[p].team
        BY <3>1, StateSet DEF States
    <3>3. ships[p] = IF g.pl[p].state # "UNDEFINED" THEN y ELSE g.pl[p] BY DEF InGame
    <3> HIDE DEF y, ships
    <3>4. PlayerFits(y) BY <1>9, <3>2 DEF PlayerFits
    <3> QED BY <3>1, <3>2, <3>3, <3>4
  <2>2. ships \in [Player -> PlayerType]
    <3>1. ships = [p \in Player |-> ships[p]] OBVIOUS
    <3> HIDE DEF ships
    <3> QED BY <2>1, <3>1
  <2> HIDE DEF ships
  <2>3. /\ game' \in GameType
        /\ game'.pl = ships /\ game'.order = g.order /\ game'.NumPaused = g.NumPaused
        /\ game'.ball = g.ball /\ game'.over = TRUE
      BY <1>3, <1>6, <1>9, <2>2 DEF GameType
  <2>4. PausedFit(game') BY <1>3, <2>1, <2>3, SameTeams
  <2>5. Sound(game') BY <1>3, <2>1, <2>3, <2>4, SameTable
  <2>6. CleanFits(game') BY <1>9 DEF CleanFits
  <2>7. KillsFit(game', loop'.at, loop'.i) BY <1>5, <2>1, <2>3 DEF KillsFit, InState
  <2>8. ResetFits(game', loop'.at, loop'.i, loop'.kicked) BY <1>5 DEF ResetFits
  <2>9. RoundGoesOn' BY <2>3 DEF RoundGoesOn
  <2>10. StaysOut BY <1>1, <2>1, <2>3 DEF StaysOut
  <2> QED BY <1>5, <2>5, <2>6, <2>7, <2>8, <2>9, <2>10 DEF RoundsInv, NewsFit
<1> QED BY <1>7, <1>8, <1>9

LEMMA EndFrameKeeps ==
    ASSUME RoundsInv, End_frame
    PROVE  RoundsInv' /\ StaysOut
<1> DEFINE b == [x \in Treasure |->
                    IF game.ball[x].expired THEN [have |-> TRUE, owner |-> None, expired |-> FALSE]
                    ELSE game.ball[x]]
<1>1. /\ Sound(game) /\ CleanFits(game) /\ loop.at = "end" /\ loop' = Rest
      /\ game \in GameType
      /\ \A q \in Player : game.pl[q].state # "KILLED"
      /\ game' = [game EXCEPT !.ball = b]
  <2>1. game \in GameType BY SoundFacts DEF RoundsInv
  <2>2. game' = [game EXCEPT !.ball = b] BY <2>1 DEF End_frame, GameType
  <2> QED BY <2>1, <2>2 DEF RoundsInv, End_frame, KillsFit, InState
<1>2. /\ b \in [Treasure -> BallType]
      /\ \A x \in Treasure : b[x].owner \in {game.ball[x].owner, None}
  <2>1. \A x \in Treasure : game.ball[x] \in BallType BY <1>1 DEF GameType
  <2> QED BY <2>1 DEF BallType
<1> HIDE DEF b
<1>3. /\ game' \in GameType
      /\ game'.pl = game.pl /\ game'.order = game.order /\ game'.NumPaused = game.NumPaused
      /\ game'.ball = b /\ game'.left = game.left /\ game'.destroyed = game.destroyed
      /\ game'.news = game.news
    BY <1>1, <1>2 DEF GameType
<1>4. Sound(game') /\ Active(game') = Active(game) BY <1>1, <1>2, <1>3, SameWorld
<1>5. CleanFits(game') BY <1>1, <1>3, <1>4 DEF CleanFits, Clean
<1>6. loop' \in LoopType /\ loop'.at = "input" /\ loop'.i = 0 BY <1>1 DEF LoopType, Rest
<1>7. KillsFit(game', loop'.at, loop'.i) BY <1>1, <1>3, <1>6 DEF KillsFit, InState
<1>8. ResetFits(game', loop'.at, loop'.i, loop'.kicked) BY <1>6 DEF ResetFits
<1>9. RoundGoesOn' BY <1>6 DEF RoundGoesOn
<1>10. StaysOut BY <1>3 DEF StaysOut
<1> QED BY <1>4, <1>5, <1>6, <1>7, <1>8, <1>9, <1>10 DEF RoundsInv, NewsFit

-----------------------------------------------------------------------------
(* The theorems.                                                           *)

LEMMA RoundsInit == Init => RoundsInv
<1> SUFFICES ASSUME Init PROVE RoundsInv
    OBVIOUS
<1> DEFINE b == [x \in Treasure |-> [have |-> TRUE, owner |-> None, expired |-> FALSE]]
           l == [t \in Team |-> NumTreasures(t)]
           d == [t \in Team |-> 0]
           ships == [p \in Player |-> NewPlayer]
<1>1. game = [pl |-> ships, order |-> <<>>, NumPaused |-> 0, ball |-> b, left |-> l,
              destroyed |-> d, roundsPlayed |-> 0, over |-> FALSE, news |-> FALSE]
      /\ loop = Rest
    BY DEF Init
<1>2. /\ ships \in [Player -> PlayerType] /\ b \in [Treasure -> BallType]
      /\ l \in [Team -> Int] /\ d \in [Team -> 0 .. MaxDestroyed]
    BY NewPlayerFits, NumTreasuresIsInt, Constants DEF PlayerFits, BallType
<1>3. /\ \A p \in Player : ships[p] = NewPlayer
      /\ \A x \in Treasure : b[x].owner = None
      /\ \A t \in Team : d[t] = 0 /\ l[t] = NumTreasures(t)
    OBVIOUS
<1> HIDE DEF ships, b, l, d
<1>4. game \in GameType BY <1>1, <1>2 DEF GameType
<1>5. \A p \in Player : game.pl[p] = NewPlayer BY <1>1, <1>3
<1>6. \A p \in Player : PlayerFits(game.pl[p]) BY <1>5, NewPlayerFits
<1>7. InGame(game) = {} /\ InState(game, {"KILLED"}) = {} BY <1>5 DEF InGame, InState, NewPlayer
<1>8. TableFits(game.order, InGame(game))
  <2>1. game.order = <<>> BY <1>1
  <2>2. \A S : <<>> \in Seq(S) /\ DOMAIN <<>> = {} OBVIOUS
  <2> QED BY <1>7, <2>1, <2>2 DEF TableFits
<1>9. PausedFit(game)
  <2>1. OnTeam(game, PauseTeam) = {} BY <1>5, Constants DEF OnTeam, NewPlayer
  <2>2. game.NumPaused = 0 BY <1>1
  <2>3. Cardinality(OnTeam(game, PauseTeam)) = 0 BY <2>1, FS_EmptySet
  <2> QED BY <2>2, <2>3 DEF PausedFit
<1>10. OwnersPlay(game) BY <1>1, <1>3 DEF OwnersPlay
<1>11. Sound(game) BY <1>4, <1>6, <1>8, <1>9, <1>10 DEF Sound
<1>12. CleanFits(game) BY <1>1, <1>3 DEF CleanFits, Clean
<1>13. loop \in LoopType /\ loop.at = "input" /\ loop.i = 0 BY <1>1 DEF LoopType, Rest
<1> QED BY <1>7, <1>11, <1>12, <1>13 DEF RoundsInv, NewsFit, KillsFit, ResetFits, RoundGoesOn

LEMMA RoundsNext ==
    ASSUME RoundsInv, [Next]_vars
    PROVE  RoundsInv' /\ (Next => StaysOut)
<1>1. CASE UNCHANGED vars
  <2>1. game' = game /\ loop' = loop BY <1>1 DEF vars
  <2>2. RoundsInv' BY <2>1 DEF RoundsInv, RoundGoesOn
  <2>3. StaysOut BY <2>1 DEF StaysOut
  <2> QED BY <2>2, <2>3
<1>2. CASE Next
  <2>1. ASSUME NEW p \in Player, Leave(p) PROVE RoundsInv' /\ StaysOut BY <2>1, LeaveKeeps
  <2>2. ASSUME NEW p \in Player, NEW t \in Team, Login(p, t) PROVE RoundsInv' /\ StaysOut
      BY <2>2, LoginKeeps
  <2>3. ASSUME NEW p \in Player, NEW t \in Team, Swap(p, t) PROVE RoundsInv' /\ StaysOut
      BY <2>3, SwapKeeps
  <2>4. ASSUME NEW p \in Player, NEW t \in Team, Unpause(p, t) PROVE RoundsInv' /\ StaysOut
      BY <2>4, UnpauseKeeps
  <2>5. ASSUME NEW p \in Player, NEW q \in Player, Exchange(p, q) PROVE RoundsInv' /\ StaysOut
      BY <2>5, ExchangeKeeps
  <2>6. ASSUME NEW p \in Player, Pause_self(p) \/ Cmd_pause(p) PROVE RoundsInv' /\ StaysOut
      BY <2>6, PauseKeeps
  <2>7. ASSUME NEW p \in Player, Self_destruct(p) PROVE RoundsInv' /\ StaysOut
      BY <2>7, SelfDestructKeeps
  <2>8. CASE Cmd_reset BY <2>8, CmdResetKeeps
  <2>9. CASE Move_balls BY <2>9, MoveBallsKeeps
  <2>10. CASE Update BY <2>10, UpdateKeeps
  <2>11. CASE After_kill BY <2>11, AfterKillKeeps
  <2>12. CASE Status BY <2>12, StatusKeeps
  <2>13. CASE Reset_player BY <2>13, ResetPlayerKeeps
  <2>14. CASE Reset_done BY <2>14, ResetDoneKeeps
  <2>15. CASE End_frame BY <2>15, EndFrameKeeps
  <2> QED
      BY <1>2, <2>1, <2>2, <2>3, <2>4, <2>5, <2>6, <2>7, <2>8, <2>9, <2>10, <2>11, <2>12,
         <2>13, <2>14, <2>15
      DEF Next
<1> QED BY <1>1, <1>2

\* The invariant holds for every number of players, teams, treasures, lives and rounds.
THEOREM RoundsAreInvariant == Spec => []RoundsInv
<1>1. RoundsInv /\ [Next]_vars => RoundsInv' BY RoundsNext
<1> QED BY RoundsInit, <1>1, PTL DEF Spec

\* However many players the loop of kills removes and moves about under its index, it
\* has left nobody killed when the frame goes on.
THEOREM TheKilledAreHandled == Spec => []NobodyStaysKilled
<1>1. RoundsInv => NobodyStaysKilled BY DEF RoundsInv, KillsFit, NobodyStaysKilled
<1> QED BY RoundsAreInvariant, <1>1, PTL

\* No frame ends with somebody waiting for a round that nobody plays.
THEOREM RoundsComeToAnEnd == Spec => []RoundGoesOn
<1>1. RoundsInv => RoundGoesOn BY DEF RoundsInv
<1> QED BY RoundsAreInvariant, <1>1, PTL

\* No step brings a dead player back but the reset of the round, and none ends a
\* recovery but the update of the frame.
THEOREM TheDeadStayOut == Spec => DeadStayOut
<1> DEFINE Out == \A p \in Player :
                      LET Now == game.pl[p].state
                          Next_ == game'.pl[p].state
                      IN  /\ Now = "DEAD" /\ Next_ \in {"APPEARING", "ALIVE", "KILLED"} => Resetting
                          /\ Now = "APPEARING" /\ Next_ = "ALIVE" => loop.at = "update"
<1>1. RoundsInv /\ [Next]_vars => [Out]_vars BY RoundsNext DEF StaysOut, Out
<1> HIDE DEF Out
<1>2. Spec => [][Out]_vars BY RoundsAreInvariant, <1>1, PTL DEF Spec
<1> QED BY <1>2 DEF DeadStayOut, Out

\* While the server plays without a limit of rounds, nobody dies more often than it has
\* lives, the paused are those of the pausers' team and as many as are counted, a ball
\* has an owner that plays, and a game that nobody plays has all its treasures.
THEOREM RoundsStaySafe ==
    ASSUME RoundsToPlay = 0
    PROVE  Spec => []RoundsSafe
<1>1. ASSUME RoundsInv PROVE RoundsSafe
  <2>1. /\ Sound(game) /\ CleanFits(game) /\ NewsFit(game, loop.at) /\ loop \in LoopType
        /\ game \in GameType
        /\ \A p \in Player : PlayerFits(game.pl[p]) /\ game.pl[p] \in PlayerType
      BY <1>1, SoundFacts DEF RoundsInv
  <2>2. TypeOK
    <3> DEFINE Fit == [state : States, team : Team \cup {None},
                       life : 0 .. Lives, deaths : -1 .. Lives + 1,
                       recovering : BOOLEAN, destruct : BOOLEAN]
    <3>1. ASSUME NEW p \in Player PROVE game.pl[p] \in Fit
        BY <2>1 DEF PlayerFits, LivesFit, PlayerType
    <3> HIDE DEF Fit
    <3>2. game.pl \in [Player -> Fit] BY <2>1, <3>1 DEF GameType
    <3>3. game.NumPaused \in Nat
      <4>1. OnTeam(game, PauseTeam) \in SUBSET Player BY DEF OnTeam
      <4> QED BY <2>1, <4>1, PlayersFinite DEF Sound, PausedFit
    <3> QED BY <2>1, <3>2, <3>3 DEF TypeOK, GameType, LoopType, BallType, Fit
  <2>3. PausersAgree
    <3>1. \A p \in Player : game.pl[p].state = "PAUSED" <=> game.pl[p].team = PauseTeam
        BY <2>1 DEF PlayerFits
    <3>2. InState(game, {"PAUSED"}) = OnTeam(game, PauseTeam) BY <3>1 DEF InState, OnTeam
    <3> QED BY <2>1, <3>1, <3>2 DEF PausersAgree, Sound, PausedFit
  <2>4. EmptyGameIsClean BY <2>1 DEF EmptyGameIsClean, CleanFits, NewsFit, Clean
  <2>5. OwnersAreInGame BY <2>1 DEF OwnersAreInGame, OwnersPlay, Sound
  <2> QED BY <2>2, <2>3, <2>4, <2>5 DEF RoundsSafe
<1> QED BY RoundsAreInvariant, <1>1, PTL

-----------------------------------------------------------------------------
(* Ranking.                                                                *)

NodeType  == [name : Nicks \cup {NoOne}, score : Nat, timestamp : Nat, pl : Players \cup {NoOne}]
EntryType == [name : Nicks \cup {NoOne}, score : Nat, rank : Index \cup {NoOne}]
LineType  == [name : Nicks, score : Nat, timestamp : Nat]

RankType ==
    /\ ranknodes \in [Index -> NodeType] /\ rank_base \in [Index -> Index]
    /\ ranked \in [Players -> EntryType]
    /\ came \in BOOLEAN /\ file \in Seq(LineType) /\ now \in Nat

\* No name is twice in the table, in the game or in the file.
NicksApart ==
    /\ \A i, j \in Used : ranknodes[i].name = ranknodes[j].name => i = j
    /\ \A p, r \in Players : ranked[p].name = ranked[r].name /\ ranked[p].name # NoOne => p = r
    /\ \A n, k \in DOMAIN file : file[n].name = file[k].name => n = k

\* A node that is held is held by the player whose node it is.
HeldFit ==
    Used # Index => \A i \in Used : ranknodes[i].pl # NoOne =>
        /\ ranked[ranknodes[i].pl].rank = i
        /\ ranked[ranknodes[i].pl].name = ranknodes[i].name

RankInv ==
    /\ RankType /\ NicksApart /\ Len(file) <= MAX_SCORES
    /\ HeldFit /\ ScoresAreOwn /\ FileIsCurrent

Numbers == INSTANCE FoldTheorems WITH Turn <- LAMBDA par, x, y : y

-----------------------------------------------------------------------------
(* Sorting.                                                                *)

Ratio(k) == IF k \in Used THEN ranknodes[k].score ELSE -1
Ahead(i) == {j \in Index : Before(j, i)}
Place(i) == Cardinality(Ahead(i))

LEMMA RatioFits ==
    ASSUME RankType
    PROVE  /\ \A i \in Index : Ratio(i) \in Int /\ (i \in Used <=> Ratio(i) >= 0)
           /\ \A i, j \in Index : Before(i, j) <=> Ratio(i) > Ratio(j) \/ (Ratio(i) = Ratio(j) /\ i < j)
<1>1. ASSUME NEW i \in Index PROVE ranknodes[i].score \in Nat BY DEF RankType, NodeType
<1>2. ASSUME NEW i \in Index PROVE Ratio(i) \in Int /\ (i \in Used <=> Ratio(i) >= 0)
    BY <1>1 DEF Ratio
<1>3. \A i, j \in Index : Before(i, j) <=> Ratio(i) > Ratio(j) \/ (Ratio(i) = Ratio(j) /\ i < j)
    BY DEF Before, Ratio
<1> QED BY <1>2, <1>3

\* No two nodes are equal, and those in use come first.
LEMMA BeforeOrders ==
    ASSUME RankType
    PROVE  /\ \A i \in Index : ~Before(i, i)
           /\ \A i, j, k \in Index : Before(i, j) /\ Before(j, k) => Before(i, k)
           /\ \A i, j \in Index : i # j => Before(i, j) \/ Before(j, i)
           /\ \A i \in Used, j \in Index \ Used : Before(i, j)
<1>1. Index \subseteq Int /\ Used \subseteq Index BY RankAssumption DEF Index, Used
<1> QED BY <1>1, RatioFits

LEMMA IndexFacts ==
    /\ IsFiniteSet(Index) /\ Cardinality(Index) = MAX_SCORES
    /\ \A S \in SUBSET Index : IsFiniteSet(S) /\ Cardinality(S) \in 0 .. MAX_SCORES
    /\ \A S \in SUBSET Index : \A T \in SUBSET S :
           Cardinality(T) <= Cardinality(S) /\ (Cardinality(S) = Cardinality(T) => S = T)
    /\ \A S \in SUBSET Index : \A i \in S : Cardinality(S \ {i}) = Cardinality(S) - 1
    /\ Used \in SUBSET Index
<1>1. IsFiniteSet(Index) /\ Cardinality(Index) = MAX_SCORES
  <2>1. 0 \in Int /\ MAX_SCORES - 1 \in Int /\ ~(0 > MAX_SCORES - 1) BY RankAssumption
  <2>2. IsFiniteSet(Index) /\ Cardinality(Index) = (MAX_SCORES - 1) - 0 + 1
      BY <2>1, FS_Interval DEF Index
  <2> QED BY <2>2, RankAssumption
<1>2. ASSUME NEW S \in SUBSET Index PROVE IsFiniteSet(S) /\ Cardinality(S) \in 0 .. MAX_SCORES
  <2>1. IsFiniteSet(S) /\ Cardinality(S) <= Cardinality(Index) BY <1>1, FS_Subset
  <2>2. Cardinality(S) \in Nat BY <2>1, FS_CardinalityType
  <2> QED BY <1>1, <2>1, <2>2, RankAssumption
<1>3. ASSUME NEW S \in SUBSET Index, NEW T \in SUBSET S
      PROVE  Cardinality(T) <= Cardinality(S) /\ (Cardinality(S) = Cardinality(T) => S = T)
    BY <1>2, FS_Subset
<1>4. ASSUME NEW S \in SUBSET Index, NEW i \in S PROVE Cardinality(S \ {i}) = Cardinality(S) - 1
    BY <1>2, FS_RemoveElement
<1>5. Used \in SUBSET Index BY DEF Used
<1> QED BY <1>1, <1>2, <1>3, <1>4, <1>5

LEMMA PlacesFit ==
    ASSUME RankType
    PROVE  /\ \A i \in Index : Place(i) \in Index
           /\ \A i, j \in Index : Before(i, j) => Place(i) < Place(j)
           /\ \A i, j \in Index : Place(i) = Place(j) => i = j
           /\ \A i \in Index : i \in Used <=> Place(i) < Cardinality(Used)
<1> USE IndexFacts
<1>1. \A i \in Index : Ahead(i) \in SUBSET Index /\ i \notin Ahead(i)
    BY BeforeOrders DEF Ahead
<1>2. ASSUME NEW i \in Index, NEW S \in SUBSET Index, i \in S, Ahead(i) \subseteq S
      PROVE  Place(i) \in Nat /\ Place(i) < Cardinality(S)
  <2>1. Ahead(i) \in SUBSET (S \ {i}) /\ S \ {i} \in SUBSET Index BY <1>1, <1>2
  <2>2. Place(i) <= Cardinality(S \ {i}) /\ Cardinality(S \ {i}) = Cardinality(S) - 1
      BY <1>2, <2>1 DEF Place
  <2>3. Place(i) \in Nat /\ Cardinality(S) \in Nat BY <1>1 DEF Place
  <2> QED BY <2>2, <2>3
<1>3. ASSUME NEW i \in Index PROVE Place(i) \in Index
  <2>1. Place(i) \in Nat /\ Place(i) < MAX_SCORES BY <1>1, <1>2
  <2> QED BY <2>1, RankAssumption DEF Index
<1>4. ASSUME NEW i \in Index, NEW j \in Index, Before(i, j) PROVE Place(i) < Place(j)
  <2>1. i \in Ahead(j) /\ Ahead(i) \subseteq Ahead(j) BY <1>4, BeforeOrders DEF Ahead
  <2> QED BY <1>1, <1>2, <2>1 DEF Place
<1>5. ASSUME NEW i \in Index, NEW j \in Index, Place(i) = Place(j) PROVE i = j
  <2>1. Place(i) \in Int BY <1>3 DEF Index
  <2> QED BY <1>4, <1>5, <2>1, BeforeOrders
<1>6. ASSUME NEW i \in Index PROVE i \in Used <=> Place(i) < Cardinality(Used)
  <2>1. CASE i \in Used
    <3>1. Ahead(i) \subseteq Used
      <4>1. ASSUME NEW j \in Ahead(i), j \notin Used PROVE FALSE
        <5>1. j \in Index /\ Before(j, i) BY <4>1 DEF Ahead
        <5>2. Before(i, j) BY <2>1, <4>1, <5>1, BeforeOrders
        <5> QED BY <5>1, <5>2, BeforeOrders
      <4> QED BY <4>1
    <3> QED BY <1>2, <2>1, <3>1
  <2>2. CASE i \notin Used
    <3>1. Used \in SUBSET Ahead(i) BY <2>2, BeforeOrders DEF Ahead
    <3>2. Cardinality(Used) <= Place(i) /\ Cardinality(Used) \in Int /\ Place(i) \in Int
        BY <1>1, <3>1 DEF Place
    <3> QED BY <2>2, <3>2
  <2> QED BY <2>1, <2>2
<1> QED BY <1>3, <1>4, <1>5, <1>6

LEMMA SortPlaces ==
    ASSUME RankType
    PROVE  /\ Rank_sort \in [Index -> Index]
           /\ \A n \in Index : Place(Rank_sort[n]) = n
           /\ \A i \in Index : Rank_sort[Place(i)] = i
<1> DEFINE place == [i \in Index |-> Place(i)]
<1>1. place \in Injection(Index, Index) BY PlacesFit DEF Injection, IsInjective
<1>2. place \in Surjection(Index, Index) BY <1>1, IndexFacts, FS_Injection
<1>3. \A n \in Index : \E i \in Index : Place(i) = n BY <1>2 DEF Surjection
<1>4. \A n \in Index : Rank_sort[n] = CHOOSE i \in Index : Place(i) = n
    BY DEF Rank_sort, Place, Ahead
<1>5. \A n \in Index : Rank_sort[n] \in Index /\ Place(Rank_sort[n]) = n BY <1>3, <1>4
<1>6. Rank_sort \in [Index -> Index] BY <1>5 DEF Rank_sort
<1>7. \A i \in Index : Rank_sort[Place(i)] = i BY <1>5, PlacesFit
<1> QED BY <1>5, <1>6, <1>7

-----------------------------------------------------------------------------
(* The file.                                                               *)

LineOf(i) == [name |-> ranknodes[i].name, score |-> ranknodes[i].score,
              timestamp |-> ranknodes[i].timestamp]

LEMMA FileIsWritten ==
    ASSUME RankType, Rank_write_webpage, Rank_write_rankfile
    PROVE  /\ file' \in Seq(LineType) /\ Len(file') = Cardinality(Used)
           /\ DOMAIN file' = 1 .. Cardinality(Used)
           /\ \A n \in DOMAIN file' : Rank_sort[n - 1] \in Used /\ file'[n] = LineOf(Rank_sort[n - 1])
           /\ \A n, k \in DOMAIN file' : Rank_sort[n - 1] = Rank_sort[k - 1] => n = k
           /\ \A i \in Used : \E n \in DOMAIN file' : i = Rank_sort[n - 1]
<1> DEFINE size == Cardinality(Used)
<1>1. size \in 0 .. MAX_SCORES /\ size \in Nat /\ Used \subseteq Index BY IndexFacts, RankAssumption
<1>2. file' = [n \in 1 .. size |-> LineOf(Rank_sort[n - 1])]
    BY DEF Rank_write_rankfile, Rank_write_webpage, LineOf
<1>3. ASSUME NEW n \in 1 .. size
      PROVE  /\ n - 1 \in Index /\ Rank_sort[n - 1] \in Index
             /\ Place(Rank_sort[n - 1]) = n - 1 /\ Rank_sort[n - 1] \in Used
  <2>1. n - 1 \in Index /\ n - 1 < size
    <3> HIDE DEF size
    <3> QED BY <1>1, RankAssumption DEF Index
  <2>2. Rank_sort[n - 1] \in Index /\ Place(Rank_sort[n - 1]) = n - 1 BY <2>1, SortPlaces
  <2> QED BY <2>1, <2>2, PlacesFit
<1>4. ASSUME NEW i \in Used PROVE LineOf(i) \in LineType
  <2>1. i \in Index /\ ranknodes[i] \in NodeType /\ ranknodes[i].name # NoOne BY DEF Used, RankType
  <2> QED BY <2>1 DEF NodeType, LineType, LineOf
<1>5. ASSUME NEW i \in Used PROVE \E n \in 1 .. size : i = Rank_sort[n - 1]
  <2>1. Place(i) \in Index /\ Place(i) < size /\ Rank_sort[Place(i)] = i
      BY <1>1, PlacesFit, SortPlaces
  <2> DEFINE n == Place(i) + 1
  <2>2. n \in 1 .. size /\ n - 1 = Place(i)
    <3> HIDE DEF size
    <3> QED BY <1>1, <2>1, RankAssumption DEF Index
  <2> QED BY <2>1, <2>2
<1>6. \A n, k \in 1 .. size : Rank_sort[n - 1] = Rank_sort[k - 1] => n = k BY <1>3
<1> HIDE DEF size
<1>7. file' \in Seq(LineType) /\ Len(file') = size /\ DOMAIN file' = 1 .. size
  <2>1. \A n \in 1 .. size : LineOf(Rank_sort[n - 1]) \in LineType BY <1>3, <1>4
  <2> QED BY <1>1, <1>2, <2>1
<1> QED BY <1>2, <1>3, <1>5, <1>6, <1>7 DEF size

LEMMA FileStaysTrue ==
    ASSUME RankInv, Rank_write_webpage, Rank_write_rankfile,
           UNCHANGED <<ranknodes, ranked, now>>, came' \in BOOLEAN
    PROVE  RankInv'
<1> USE FileIsWritten
<1>1. RankType' BY SortPlaces DEF RankInv, RankType, Rank_write_webpage
<1>2. Used' = Used BY DEF Used
<1>3. NicksApart'
  <2>1. ASSUME NEW n \in DOMAIN file', NEW k \in DOMAIN file', file'[n].name = file'[k].name
        PROVE  n = k
    <3>1. ranknodes[Rank_sort[n - 1]].name = ranknodes[Rank_sort[k - 1]].name
        BY <2>1 DEF LineOf, RankInv
    <3> QED BY <3>1 DEF RankInv, NicksApart
  <2> QED BY <1>2, <2>1 DEF RankInv, NicksApart
<1>4. Len(file') <= MAX_SCORES
  <2>1. Cardinality(Used) \in 0 .. MAX_SCORES BY IndexFacts
  <2> QED BY <2>1 DEF RankInv
<1>5. HeldFit' /\ ScoresAreOwn' BY <1>2 DEF RankInv, HeldFit, ScoresAreOwn
<1>6. FileIsCurrent'
  <2>1. {file'[n].name : n \in DOMAIN file'} = {ranknodes[i].name : i \in Used}
    <3>1. ASSUME NEW n \in DOMAIN file' PROVE \E i \in Used : file'[n].name = ranknodes[i].name
        BY DEF LineOf, RankInv
    <3>2. ASSUME NEW i \in Used PROVE \E n \in DOMAIN file' : file'[n].name = ranknodes[i].name
        BY DEF LineOf, RankInv
    <3> QED BY <3>1, <3>2
  <2>2. ASSUME NEW n \in DOMAIN file', NEW i \in Used, file'[n].name = ranknodes[i].name
        PROVE  file'[n].score = ranknodes[i].score
    <3>1. Rank_sort[n - 1] \in Used /\ file'[n] = LineOf(Rank_sort[n - 1]) BY DEF RankInv
    <3>2. Rank_sort[n - 1] = i BY <2>2, <3>1 DEF LineOf, RankInv, NicksApart
    <3> QED BY <3>1, <3>2 DEF LineOf
  <2>3. Len(file') = Cardinality(Used) BY DEF RankInv
  <2> HIDE FileIsWritten
  <2> QED BY <1>2, <2>1, <2>2, <2>3 DEF FileIsCurrent
<1> QED BY <1>1, <1>3, <1>4, <1>5, <1>6 DEF RankInv

\* The server has started with the file it had.
JustStarted ==
    /\ file \in Seq(LineType) /\ Len(file) <= MAX_SCORES /\ now \in Nat
    /\ \A n, k \in DOMAIN file : file[n].name = file[k].name => n = k
    /\ ranknodes = Loaded(file) /\ rank_base = [i \in Index |-> 0]
    /\ ranked = [p \in Players |-> NoEntry] /\ came = FALSE

LEMMA StartKeepsRank == JustStarted => RankInv
<1> SUFFICES ASSUME JustStarted PROVE RankInv OBVIOUS
<1> USE DEF JustStarted
<1>1. Len(file) \in Nat /\ DOMAIN file = 1 .. Len(file) OBVIOUS
<1>2. ASSUME NEW i \in Index
      PROVE  /\ ranknodes[i].pl = NoOne /\ ranknodes[i] \in NodeType
             /\ i < Len(file) => /\ i + 1 \in DOMAIN file /\ ranknodes[i].name = file[i + 1].name
                                 /\ ranknodes[i].score = file[i + 1].score
                                 /\ ranknodes[i].name # NoOne
             /\ ~(i < Len(file)) => ranknodes[i].name = NoOne
  <2>1. i \in Nat BY DEF Index
  <2>2. CASE i < Len(file)
    <3>1. i + 1 \in DOMAIN file BY <1>1, <2>1, <2>2
    <3>2. file[i + 1] \in LineType BY <3>1
    <3>3. ranknodes[i] = [name |-> file[i + 1].name, score |-> file[i + 1].score,
                          timestamp |-> file[i + 1].timestamp, pl |-> NoOne]
        BY <2>2 DEF Loaded
    <3> QED BY <2>2, <3>1, <3>2, <3>3, RankAssumption DEF LineType, NodeType
  <2>3. CASE ~(i < Len(file))
    <3>1. ranknodes[i] = Empty BY <2>3 DEF Loaded
    <3> QED BY <2>3, <3>1 DEF Empty, NodeType
  <2> QED BY <2>2, <2>3
<1>3. Used = 0 .. Len(file) - 1 BY <1>1, <1>2, RankAssumption DEF Used, Index
<1>4. RankType
  <2>1. ranknodes \in [Index -> NodeType]
    <3>1. DOMAIN ranknodes = Index /\ ranknodes = [i \in Index |-> ranknodes[i]] BY DEF Loaded
    <3> QED BY <1>2, <3>1
  <2>2. 0 \in Index BY RankAssumption DEF Index
  <2>3. NoEntry \in EntryType BY DEF NoEntry, EntryType
  <2> QED BY <2>1, <2>2, <2>3 DEF RankType
<1>5. NicksApart
  <2>1. ASSUME NEW i \in Used, NEW j \in Used, ranknodes[i].name = ranknodes[j].name PROVE i = j
    <3>1. i \in Index /\ j \in Index /\ i < Len(file) /\ j < Len(file) /\ i \in Int /\ j \in Int
        BY <1>1, <1>3, <2>1 DEF Used
    <3>2. i + 1 = j + 1 BY <1>2, <2>1, <3>1
    <3> QED BY <3>1, <3>2
  <2>2. \A p, r \in Players : ranked[p].name = ranked[r].name /\ ranked[p].name # NoOne => p = r
      BY DEF NoEntry
  <2> QED BY <2>1, <2>2 DEF NicksApart
<1>6. HeldFit BY <1>2 DEF HeldFit, Used
<1>7. ScoresAreOwn BY DEF ScoresAreOwn, NoEntry
<1>8. FileIsCurrent
  <2>1. ASSUME NEW i \in Used
        PROVE  /\ i + 1 \in DOMAIN file /\ ranknodes[i].name = file[i + 1].name
               /\ ranknodes[i].score = file[i + 1].score
    <3>1. i \in Index /\ i < Len(file) BY <1>1, <1>3 DEF Used
    <3> QED BY <1>2, <3>1
  <2>2. ASSUME NEW n \in DOMAIN file PROVE \E i \in Used : n = i + 1
    <3>1. n - 1 \in Used /\ n = (n - 1) + 1 BY <1>1, <1>3
    <3> QED BY <3>1
  <2>3. {file[n].name : n \in DOMAIN file} = {ranknodes[i].name : i \in Used}
    <3>1. ASSUME NEW n \in DOMAIN file PROVE \E i \in Used : file[n].name = ranknodes[i].name
        BY <2>1, <2>2
    <3>2. ASSUME NEW i \in Used PROVE \E n \in DOMAIN file : file[n].name = ranknodes[i].name
        BY <2>1
    <3> QED BY <3>1, <3>2
  <2>4. Len(file) = Cardinality(Used)
    <3>1. 0 \in Int /\ Len(file) - 1 \in Int BY <1>1
    <3>2. Cardinality(Used) = IF 0 > Len(file) - 1 THEN 0 ELSE Len(file) - 1 - 0 + 1
        BY <1>3, <3>1, FS_Interval
    <3> QED BY <1>1, <3>2
  <2>5. ASSUME NEW n \in DOMAIN file, NEW i \in Used, file[n].name = ranknodes[i].name
        PROVE  file[n].score = ranknodes[i].score
      BY <2>1, <2>5
  <2> QED BY <2>3, <2>4, <2>5 DEF FileIsCurrent
<1> QED BY <1>4, <1>5, <1>6, <1>7, <1>8 DEF RankInv

-----------------------------------------------------------------------------
(* Coming, scoring and going.                                              *)

LEMMA LeastOf ==
    ASSUME NEW T \in SUBSET Nat, T # {}
    PROVE  Min(T) \in T /\ \A k \in T : Min(T) <= k
<1>1. \E n \in T : \A k \in T : n <= k BY Numbers!SmallestNumber
<1> QED BY <1>1 DEF Min

\* A node that was used least recently, as Rank_get_saved_score finds it.
LEMMA SomeIsOldest ==
    ASSUME NEW D \in SUBSET Nat, D # {}, NEW time \in [D -> Nat]
    PROVE  \E i \in D : \A j \in D : ~(time[j] < time[i]) /\ (time[i] < time[j] \/ i <= j)
<1> DEFINE Times == {time[j] : j \in D}
           t == Min(Times)
           First == {j \in D : time[j] = t}
           i == Min(First)
<1>1. Times \in SUBSET Nat /\ Times # {} OBVIOUS
<1>2. t \in Times /\ \A k \in Times : t <= k
  <2> HIDE DEF Times
  <2> QED BY <1>1, LeastOf
<1>3. First \in SUBSET Nat /\ First # {}
  <2> HIDE DEF t
  <2> QED BY <1>2
<1>4. i \in First /\ \A k \in First : i <= k
  <2> HIDE DEF First
  <2> QED BY <1>3, LeastOf
<1>5. i \in D /\ time[i] = t
  <2> HIDE DEF i, t
  <2> QED BY <1>4
<1>6. ASSUME NEW j \in D PROVE ~(time[j] < time[i]) /\ (time[i] < time[j] \/ i <= j)
  <2>1. time[j] \in Nat /\ t \in Nat /\ t <= time[j] BY <1>1, <1>2
  <2>2. time[j] = t => i <= j
    <3> HIDE DEF i, t
    <3> QED BY <1>4
  <2> HIDE DEF i, t
  <2> QED BY <1>5, <2>1, <2>2
<1> QED BY <1>5, <1>6

\* Where a name goes that is not in the table.
Bottom == [i \in MAX_SCORES \div 2 .. MAX_SCORES - 1 |-> rank_base[i]]
Older(i, j) == ranknodes[Bottom[i]].timestamp < ranknodes[Bottom[j]].timestamp
Lru == Bottom[CHOOSE i \in DOMAIN Bottom :
                  \A j \in DOMAIN Bottom : ~Older(j, i) /\ (Older(i, j) \/ i <= j)]
Unused == Index \ Used
Fresh  == IF Unused # {} THEN Min(Unused) ELSE Lru

LEMMA FreshFits ==
    ASSUME RankType
    PROVE  Fresh \in Index /\ (Used # Index => Fresh \notin Used)
<1>1. Index \in SUBSET Nat /\ Used \in SUBSET Index BY RankAssumption DEF Index, Used
<1>2. CASE Unused # {}
  <2>1. Unused \in SUBSET Nat BY <1>1 DEF Unused
  <2>2. Min(Unused) \in Unused BY <1>2, <2>1, LeastOf
  <2> QED BY <1>2, <2>2 DEF Fresh, Unused
<1>3. CASE Unused = {}
  <2> DEFINE D == MAX_SCORES \div 2 .. MAX_SCORES - 1
             time == [i \in D |-> ranknodes[Bottom[i]].timestamp]
             Oldest(i) == \A j \in D : ~Older(j, i) /\ (Older(i, j) \/ i <= j)
  <2>1. D \in SUBSET Nat /\ D # {} /\ D \subseteq Index
    <3> DEFINE half == MAX_SCORES \div 2
    <3>1. half \in Nat /\ half <= MAX_SCORES - 1 /\ MAX_SCORES - 1 \in Nat BY RankAssumption
    <3> HIDE DEF half
    <3>2. half \in half .. MAX_SCORES - 1 BY <3>1
    <3>3. half .. MAX_SCORES - 1 \subseteq 0 .. MAX_SCORES - 1 BY <3>1
    <3> QED BY <3>2, <3>3 DEF Index, half
  <2>2. \A i \in D : Bottom[i] \in Index BY <2>1 DEF Bottom, RankType
  <2>3. time \in [D -> Nat]
    <3>1. \A i \in D : ranknodes[Bottom[i]].timestamp \in Nat BY <2>2 DEF RankType, NodeType
    <3> QED BY <3>1
  <2>4. \A i, j \in D : Older(i, j) <=> time[i] < time[j] BY DEF Older
  <2>5. DOMAIN Bottom = D BY DEF Bottom
  <2> HIDE DEF D, time
  <2>6. \E i \in D : Oldest(i) BY <2>1, <2>3, <2>4, SomeIsOldest
  <2>7. Lru = Bottom[CHOOSE i \in D : Oldest(i)] BY <2>5 DEF Lru
  <2> HIDE DEF Oldest
  <2>8. Lru \in Index BY <2>2, <2>6, <2>7
  <2> QED BY <1>1, <1>3, <2>8 DEF Fresh, Unused
<1> QED BY <1>2, <1>3

\* One node gets another name, or none, and one player comes or goes.
LEMMA LoginKeepsRank ==
    ASSUME RankInv, NEW pl \in Players, NEW name \in Nicks, Handle_login(pl, name)
    PROVE  RankInv'
<1> DEFINE known == {i \in Index : ranknodes[i].name = name}
           taken == Min(known)
           node(i, score, held) == [name |-> name, score |-> score, timestamp |-> now, pl |-> held]
           entry(score, r) == [name |-> name, score |-> score, rank |-> r]
<1>1. /\ ranked[pl].name = NoOne /\ \A p \in Players : ranked[p].name # name
      /\ came' = TRUE /\ UNCHANGED <<rank_base, file, now>>
    BY DEF Handle_login
<1>2. name # NoOne /\ NoOne \notin Index BY RankAssumption DEF Index
<1>3. RankType BY DEF RankInv
<1>4. FileIsCurrent' BY <1>1 DEF FileIsCurrent
<1>5. Len(file') <= MAX_SCORES BY <1>1 DEF RankInv
<1>6. ASSUME NEW e \in EntryType, e.name = name, ranked' = [ranked EXCEPT ![pl] = e]
      PROVE  /\ ranked' \in [Players -> EntryType]
             /\ \A p, r \in Players : ranked'[p].name = ranked'[r].name /\ ranked'[p].name # NoOne => p = r
             /\ ranked'[pl] = e /\ \A p \in Players \ {pl} : ranked'[p] = ranked[p]
  <2>1. /\ ranked' \in [Players -> EntryType] /\ ranked'[pl] = e
        /\ \A p \in Players \ {pl} : ranked'[p] = ranked[p]
      BY <1>3, <1>6 DEF RankType
  <2> QED BY <1>1, <1>6, <2>1 DEF RankInv, NicksApart
<1>7. CASE known = {}
  <2> DEFINE n == [name |-> name, score |-> 0, timestamp |-> now, pl |-> pl]
             e == [name |-> name, score |-> 0, rank |-> Fresh]
  <2>1. /\ ranknodes' = [ranknodes EXCEPT ![Fresh] = n]
        /\ ranked' = [ranked EXCEPT ![pl] = e]
      BY <1>7 DEF Handle_login, Rank_get_saved_score, Fresh, Lru, Older, Bottom, Unused
  <2>2. Fresh \in Index /\ (Used # Index => Fresh \notin Used) BY <1>3, FreshFits
  <2>3. n \in NodeType /\ e \in EntryType /\ e.name = name /\ n.name = name /\ n.pl = pl
        /\ n.score = 0 /\ e.score = 0 /\ e.rank = Fresh
      BY <1>3, <2>2 DEF NodeType, EntryType, RankType
  <2> HIDE DEF n, e
  <2>4. /\ ranknodes' \in [Index -> NodeType] /\ ranknodes'[Fresh] = n
        /\ \A i \in Index \ {Fresh} : ranknodes'[i] = ranknodes[i]
      BY <1>3, <2>1, <2>2, <2>3 DEF RankType
  <2>5. Used' = Used \cup {Fresh} BY <1>2, <2>2, <2>3, <2>4 DEF Used
  <2>6. RankType' BY <1>1, <1>3, <1>6, <2>1, <2>3, <2>4 DEF RankType
  <2>7. NicksApart'
    <3>1. \A i \in Index : ranknodes[i].name # name BY <1>7
    <3>2. ASSUME NEW i \in Used', NEW j \in Used', ranknodes'[i].name = ranknodes'[j].name
          PROVE  i = j
        BY <2>2, <2>3, <2>4, <2>5, <3>1, <3>2 DEF RankInv, NicksApart, Used
    <3> QED BY <1>1, <1>6, <2>1, <2>3, <3>2 DEF RankInv, NicksApart
  <2>8. ASSUME Used' # Index PROVE Used # Index /\ Fresh \notin Used
      BY <2>2, <2>5, <2>8 DEF Used
  <2>9. HeldFit'
    <3>1. ASSUME Used' # Index, NEW i \in Used', ranknodes'[i].pl # NoOne
          PROVE  /\ ranked'[ranknodes'[i].pl].rank = i
                 /\ ranked'[ranknodes'[i].pl].name = ranknodes'[i].name
      <4>1. CASE i = Fresh BY <1>6, <2>1, <2>3, <2>4, <4>1
      <4>2. CASE i # Fresh
        <5>1. i \in Used /\ i \in Index /\ ranknodes'[i] = ranknodes[i] BY <2>4, <2>5, <3>1, <4>2 DEF Used
        <5>2. ranknodes[i].pl \in Players /\ ranknodes[i].name # NoOne
            BY <1>3, <3>1, <5>1 DEF RankType, NodeType, Used
        <5>3. /\ ranked[ranknodes[i].pl].rank = i
              /\ ranked[ranknodes[i].pl].name = ranknodes[i].name
            BY <2>8, <3>1, <5>1 DEF RankInv, HeldFit
        <5>4. ranknodes[i].pl # pl BY <1>1, <5>2, <5>3
        <5> QED BY <1>6, <2>1, <2>3, <5>1, <5>2, <5>3, <5>4
      <4> QED BY <4>1, <4>2
    <3> QED BY <3>1 DEF HeldFit
  <2>10. ScoresAreOwn'
    <3>1. ASSUME Used' # Index, NEW p \in Players, ranked'[p].name # NoOne
          PROVE  /\ ranked'[p].rank # NoOne /\ ranknodes'[ranked'[p].rank].name = ranked'[p].name
                 /\ ranknodes'[ranked'[p].rank].pl = p
                 /\ ranknodes'[ranked'[p].rank].score = ranked'[p].score
      <4>1. CASE p = pl BY <1>2, <1>6, <2>1, <2>2, <2>3, <2>4, <4>1
      <4>2. CASE p # pl
        <5>1. ranked'[p] = ranked[p] BY <1>6, <2>1, <2>3, <4>2
        <5>2. /\ ranked[p].rank # NoOne /\ ranknodes[ranked[p].rank].name = ranked[p].name
              /\ ranknodes[ranked[p].rank].pl = p
              /\ ranknodes[ranked[p].rank].score = ranked[p].score
            BY <2>8, <3>1, <5>1 DEF RankInv, ScoresAreOwn
        <5>3. ranked[p].rank \in Index BY <1>3, <5>2 DEF RankType, EntryType
        <5>4. ranked[p].rank # Fresh BY <2>8, <3>1, <5>1, <5>2, <5>3 DEF Used
        <5> QED BY <2>4, <5>1, <5>2, <5>3, <5>4
      <4> QED BY <4>1, <4>2
    <3> QED BY <3>1 DEF ScoresAreOwn
  <2> QED BY <1>4, <1>5, <2>6, <2>7, <2>9, <2>10 DEF RankInv
<1>8. CASE known # {}
  <2>1. taken \in known
    <3>1. known \in SUBSET Nat BY RankAssumption DEF Index
    <3> HIDE DEF known
    <3> QED BY <1>8, <3>1, LeastOf
  <2>2. taken \in Index /\ taken \in Used /\ ranknodes[taken].name = name
    <3> HIDE DEF taken
    <3> QED BY <1>2, <2>1 DEF Used
  <2>3. CASE ranknodes[taken].pl = NoOne
    <3> DEFINE e == [name |-> name, score |-> ranknodes[taken].score, rank |-> taken]
    <3>1. /\ ranknodes' = [ranknodes EXCEPT ![taken].pl = pl]
          /\ ranked' = [ranked EXCEPT ![pl] = e]
        BY <1>8, <2>3 DEF Handle_login, Rank_get_saved_score
    <3> HIDE DEF taken
    <3>2. ranknodes[taken] \in NodeType BY <1>3, <2>2 DEF RankType
    <3>3. /\ e \in EntryType /\ e.name = name /\ e.rank = taken /\ e.score = ranknodes[taken].score
        BY <2>2, <3>2 DEF EntryType, NodeType
    <3> HIDE DEF e
    <3> DEFINE n == [ranknodes[taken] EXCEPT !.pl = pl]
    <3>4. /\ n \in NodeType /\ n.name = name /\ n.pl = pl /\ n.score = ranknodes[taken].score
        BY <2>2, <3>2 DEF NodeType
    <3>5. ranknodes' = [ranknodes EXCEPT ![taken] = n] BY <3>1
    <3> HIDE DEF n
    <3>6. /\ ranknodes' \in [Index -> NodeType] /\ ranknodes'[taken] = n
          /\ \A i \in Index \ {taken} : ranknodes'[i] = ranknodes[i]
        BY <1>3, <2>2, <3>4, <3>5 DEF RankType
    <3>7. Used' = Used /\ \A i \in Index : ranknodes'[i].name = ranknodes[i].name
      <4>1. \A i \in Index : ranknodes'[i].name = ranknodes[i].name BY <2>2, <3>4, <3>6
      <4> QED BY <4>1 DEF Used
    <3>8. RankType' BY <1>1, <1>3, <1>6, <3>1, <3>3, <3>6 DEF RankType
    <3>9. NicksApart'
      <4>1. Used \subseteq Index BY DEF Used
      <4> QED BY <1>1, <1>6, <3>1, <3>3, <3>7, <4>1 DEF RankInv, NicksApart
    <3>10. HeldFit'
      <4>1. ASSUME Used # Index, NEW i \in Used, ranknodes'[i].pl # NoOne
            PROVE  /\ ranked'[ranknodes'[i].pl].rank = i
                   /\ ranked'[ranknodes'[i].pl].name = ranknodes'[i].name
        <5>1. CASE i = taken BY <1>6, <3>1, <3>3, <3>4, <3>6, <5>1
        <5>2. CASE i # taken
          <6>1. i \in Index /\ ranknodes'[i] = ranknodes[i] BY <3>6, <5>2 DEF Used
          <6>2. ranknodes[i].pl \in Players /\ ranknodes[i].name # NoOne
              BY <1>3, <4>1, <6>1 DEF RankType, NodeType, Used
          <6>3. /\ ranked[ranknodes[i].pl].rank = i
                /\ ranked[ranknodes[i].pl].name = ranknodes[i].name
              BY <4>1, <6>1 DEF RankInv, HeldFit
          <6>4. ranknodes[i].pl # pl BY <1>1, <6>2, <6>3
          <6> QED BY <1>6, <3>1, <3>3, <6>1, <6>2, <6>3, <6>4
        <5> QED BY <5>1, <5>2
      <4> QED BY <3>7, <4>1 DEF HeldFit
    <3>11. ScoresAreOwn'
      <4>1. ASSUME Used # Index, NEW p \in Players, ranked'[p].name # NoOne
            PROVE  /\ ranked'[p].rank # NoOne /\ ranknodes'[ranked'[p].rank].name = ranked'[p].name
                   /\ ranknodes'[ranked'[p].rank].pl = p
                   /\ ranknodes'[ranked'[p].rank].score = ranked'[p].score
        <5>1. CASE p = pl BY <1>2, <1>6, <2>2, <3>1, <3>3, <3>4, <3>6, <5>1
        <5>2. CASE p # pl
          <6>1. ranked'[p] = ranked[p] BY <1>6, <3>1, <3>3, <5>2
          <6>2. /\ ranked[p].rank # NoOne /\ ranknodes[ranked[p].rank].name = ranked[p].name
                /\ ranknodes[ranked[p].rank].pl = p
                /\ ranknodes[ranked[p].rank].score = ranked[p].score
              BY <4>1, <6>1 DEF RankInv, ScoresAreOwn
          <6>3. ranked[p].rank \in Index BY <1>3, <6>2 DEF RankType, EntryType
          <6>4. ranked[p].rank # taken BY <2>3, <6>2, RankAssumption
          <6> QED BY <3>6, <6>1, <6>2, <6>3, <6>4
        <5> QED BY <5>1, <5>2
      <4> QED BY <3>7, <4>1 DEF ScoresAreOwn
    <3> QED BY <1>4, <1>5, <3>8, <3>9, <3>10, <3>11 DEF RankInv
  <2>4. CASE ranknodes[taken].pl # NoOne
    <3> DEFINE e == [name |-> name, score |-> 0, rank |-> NoOne]
    <3>1. ranknodes' = ranknodes /\ ranked' = [ranked EXCEPT ![pl] = e]
        BY <1>8, <2>4 DEF Handle_login, Rank_get_saved_score
    <3> HIDE DEF taken
    <3>2. e \in EntryType /\ e.name = name BY DEF EntryType
    <3> HIDE DEF e
    <3>3. Used = Index
      <4> SUFFICES ASSUME Used # Index PROVE FALSE OBVIOUS
      <4>1. ranknodes[taken].pl \in Players BY <1>3, <2>2, <2>4 DEF RankType, NodeType
      <4>2. ranked[ranknodes[taken].pl].name = name BY <2>2, <2>4 DEF RankInv, HeldFit
      <4> QED BY <1>1, <4>1, <4>2
    <3>4. Used' = Used BY <3>1 DEF Used
    <3>5. RankType' BY <1>1, <1>3, <1>6, <3>1, <3>2 DEF RankType
    <3>6. NicksApart' BY <1>1, <1>6, <3>1, <3>2, <3>4 DEF RankInv, NicksApart
    <3>7. HeldFit' /\ ScoresAreOwn' BY <3>3, <3>4 DEF HeldFit, ScoresAreOwn
    <3> QED BY <1>4, <1>5, <3>5, <3>6, <3>7 DEF RankInv
  <2> QED BY <2>3, <2>4
<1> QED BY <1>7, <1>8

\* A node keeps its name, and only that which was held for pl may change.
LEMMA LeaveKeepsRank ==
    ASSUME RankInv, NEW pl \in Players, Destroy_connection(pl)
    PROVE  RankInv'
<1> DEFINE r == ranked[pl].rank
<1>1. /\ ranked[pl].name # NoOne /\ ranked' = [ranked EXCEPT ![pl] = NoEntry] /\ came' = TRUE
      /\ UNCHANGED <<rank_base, file, now>>
      /\ ranknodes' = IF r = NoOne THEN ranknodes
                      ELSE [ranknodes EXCEPT ![r].score = ranked[pl].score, ![r].pl = NoOne,
                                             ![r].timestamp = now]
    BY DEF Destroy_connection, Rank_save_score
<1>2. NoEntry \in EntryType /\ NoEntry.name = NoOne BY DEF NoEntry, EntryType
<1>3. /\ ranked' \in [Players -> EntryType] /\ ranked'[pl].name = NoOne
      /\ \A p \in Players \ {pl} : ranked'[p] = ranked[p]
  <2> HIDE DEF r
  <2> QED BY <1>1, <1>2 DEF RankInv, RankType
<1>4. /\ r \in Index \cup {NoOne} /\ NoOne \notin Index /\ ranked[pl].score \in Nat /\ now \in Nat
    BY RankAssumption DEF RankInv, RankType, EntryType, Index
<1>5. /\ ranknodes' \in [Index -> NodeType]
      /\ \A i \in Index : ranknodes'[i].name = ranknodes[i].name
      /\ \A i \in Index : i # r => ranknodes'[i] = ranknodes[i]
      /\ r # NoOne => ranknodes'[r].pl = NoOne
  <2> HIDE DEF r
  <2>1. CASE r = NoOne BY <1>1, <1>4, <2>1 DEF RankInv, RankType
  <2>2. CASE r # NoOne
    <3> DEFINE n == [ranknodes[r] EXCEPT !.score = ranked[pl].score, !.pl = NoOne, !.timestamp = now]
    <3>1. r \in Index /\ ranknodes[r] \in NodeType BY <1>4, <2>2 DEF RankInv, RankType
    <3>2. n \in NodeType /\ n.name = ranknodes[r].name /\ n.pl = NoOne BY <1>4, <3>1 DEF NodeType
    <3>3. ranknodes' = [ranknodes EXCEPT ![r] = n] BY <1>1, <2>2
    <3> HIDE DEF n
    <3> QED BY <3>1, <3>2, <3>3 DEF RankInv, RankType
  <2> QED BY <2>1, <2>2
<1> HIDE DEF r
<1>6. Used' = Used /\ Used \subseteq Index BY <1>5 DEF Used
<1>7. RankType' BY <1>1, <1>3, <1>5 DEF RankInv, RankType
<1>8. NicksApart' BY <1>1, <1>3, <1>5, <1>6 DEF RankInv, NicksApart
<1>9. HeldFit'
  <2>1. ASSUME Used # Index, NEW i \in Used, ranknodes'[i].pl # NoOne
        PROVE  /\ ranked'[ranknodes'[i].pl].rank = i
               /\ ranked'[ranknodes'[i].pl].name = ranknodes'[i].name
    <3>1. i # r /\ i \in Index /\ ranknodes'[i] = ranknodes[i] BY <1>4, <1>5, <1>6, <2>1
    <3>2. ranknodes[i].pl \in Players BY <2>1, <3>1 DEF RankInv, RankType, NodeType
    <3>3. ranked[ranknodes[i].pl].rank = i /\ ranked[ranknodes[i].pl].name = ranknodes[i].name
        BY <2>1, <3>1 DEF RankInv, HeldFit
    <3>4. ranknodes[i].pl # pl BY <3>1, <3>3 DEF r
    <3> QED BY <1>3, <3>1, <3>2, <3>3, <3>4
  <2> QED BY <1>6, <2>1 DEF HeldFit
<1>10. ScoresAreOwn'
  <2>1. ASSUME Used # Index, NEW p \in Players, ranked'[p].name # NoOne
        PROVE  /\ ranked'[p].rank # NoOne /\ ranknodes'[ranked'[p].rank].name = ranked'[p].name
               /\ ranknodes'[ranked'[p].rank].pl = p
               /\ ranknodes'[ranked'[p].rank].score = ranked'[p].score
    <3>1. p # pl /\ ranked'[p] = ranked[p] BY <1>3, <2>1
    <3>2. /\ ranked[p].rank # NoOne /\ ranknodes[ranked[p].rank].name = ranked[p].name
          /\ ranknodes[ranked[p].rank].pl = p
          /\ ranknodes[ranked[p].rank].score = ranked[p].score
        BY <2>1, <3>1 DEF RankInv, ScoresAreOwn
    <3>3. ranknodes[r].pl = pl BY <1>1, <2>1 DEF RankInv, ScoresAreOwn, r
    <3>4. ranked[p].rank \in Index BY <3>2 DEF RankInv, RankType, EntryType
    <3> QED BY <1>5, <3>1, <3>2, <3>3, <3>4
  <2> QED BY <1>6, <2>1 DEF ScoresAreOwn
<1>11. FileIsCurrent' BY <1>1 DEF FileIsCurrent
<1>12. Len(file') <= MAX_SCORES BY <1>1 DEF RankInv
<1> QED BY <1>7, <1>8, <1>9, <1>10, <1>11, <1>12 DEF RankInv

LEMMA ScoreKeepsRank ==
    ASSUME RankInv, NEW pl \in Players, SCORE(pl)
    PROVE  RankInv'
<1> DEFINE r == ranked[pl].rank
           more == ranked[pl].score + 1
           e == [ranked[pl] EXCEPT !.score = more]
<1>1. /\ ranked[pl].name # NoOne /\ ranked' = [ranked EXCEPT ![pl] = e]
      /\ UNCHANGED <<rank_base, came, file, now>>
      /\ ranknodes' = IF r = NoOne THEN ranknodes ELSE [ranknodes EXCEPT ![r].score = @ + 1]
    BY DEF SCORE, Scored
<1>2. ranked[pl] \in EntryType /\ more \in Nat BY DEF RankInv, RankType, EntryType
<1>3. e \in EntryType /\ e.name = ranked[pl].name /\ e.rank = r /\ e.score = more
  <2> HIDE DEF more
  <2> QED BY <1>2 DEF EntryType
<1> HIDE DEF e
<1>4. /\ ranked' \in [Players -> EntryType] /\ ranked'[pl] = e
      /\ \A p \in Players \ {pl} : ranked'[p] = ranked[p]
    BY <1>1, <1>3 DEF RankInv, RankType
<1>5. \A p \in Players : ranked'[p].name = ranked[p].name /\ ranked'[p].rank = ranked[p].rank
    BY <1>3, <1>4
<1>6. r \in Index \cup {NoOne} /\ NoOne \notin Index
    BY <1>2, RankAssumption DEF EntryType, Index
<1>7. /\ ranknodes' \in [Index -> NodeType]
      /\ \A i \in Index : ranknodes'[i].name = ranknodes[i].name /\ ranknodes'[i].pl = ranknodes[i].pl
      /\ \A i \in Index : i # r => ranknodes'[i] = ranknodes[i]
      /\ r # NoOne => ranknodes'[r].score = ranknodes[r].score + 1
  <2> HIDE DEF r
  <2>1. CASE r = NoOne BY <1>1, <1>6, <2>1 DEF RankInv, RankType
  <2>2. CASE r # NoOne
    <3> DEFINE score == ranknodes[r].score + 1
               n == [ranknodes[r] EXCEPT !.score = score]
    <3>1. r \in Index /\ ranknodes[r] \in NodeType BY <1>6, <2>2 DEF RankInv, RankType
    <3>2. score \in Nat BY <3>1 DEF NodeType
    <3>3. ranknodes' = [ranknodes EXCEPT ![r] = n] BY <1>1, <2>2
    <3> HIDE DEF score
    <3>4. n \in NodeType /\ n.name = ranknodes[r].name /\ n.pl = ranknodes[r].pl /\ n.score = score
        BY <3>1, <3>2 DEF NodeType
    <3> HIDE DEF n
    <3>5. /\ ranknodes' \in [Index -> NodeType] /\ ranknodes'[r] = n
          /\ \A i \in Index \ {r} : ranknodes'[i] = ranknodes[i]
        BY <3>1, <3>3, <3>4 DEF RankInv, RankType
    <3> QED BY <3>4, <3>5 DEF score
  <2> QED BY <2>1, <2>2
<1> HIDE DEF r, more
<1>8. Used' = Used /\ Used \subseteq Index BY <1>7 DEF Used
<1>9. RankType' BY <1>1, <1>4, <1>7 DEF RankInv, RankType
<1>10. NicksApart' BY <1>1, <1>5, <1>7, <1>8 DEF RankInv, NicksApart
<1>11. HeldFit'
  <2>1. ASSUME Used # Index, NEW i \in Used, ranknodes'[i].pl # NoOne
        PROVE  /\ ranked'[ranknodes'[i].pl].rank = i
               /\ ranked'[ranknodes'[i].pl].name = ranknodes'[i].name
    <3>1. i \in Index /\ ranknodes[i].pl # NoOne /\ ranknodes'[i].pl = ranknodes[i].pl
        BY <1>7, <1>8, <2>1
    <3>2. ranknodes[i].pl \in Players BY <3>1 DEF RankInv, RankType, NodeType
    <3>3. ranked[ranknodes[i].pl].rank = i /\ ranked[ranknodes[i].pl].name = ranknodes[i].name
        BY <2>1, <3>1 DEF RankInv, HeldFit
    <3> QED BY <1>5, <1>7, <3>1, <3>2, <3>3
  <2> QED BY <1>8, <2>1 DEF HeldFit
<1>12. ASSUME Used # Index
       PROVE  r \in Index /\ ranknodes[r].name = ranked[pl].name /\ ranknodes[r].score + 1 = more
              /\ ranknodes[r].pl = pl
    BY <1>1, <1>6, <1>12 DEF RankInv, ScoresAreOwn, r, more
<1>13. ScoresAreOwn'
  <2>1. ASSUME Used # Index, NEW p \in Players, ranked'[p].name # NoOne
        PROVE  /\ ranked'[p].rank # NoOne /\ ranknodes'[ranked'[p].rank].name = ranked'[p].name
               /\ ranknodes'[ranked'[p].rank].pl = p
               /\ ranknodes'[ranked'[p].rank].score = ranked'[p].score
    <3>1. CASE p = pl BY <1>3, <1>4, <1>6, <1>7, <1>12, <2>1, <3>1
    <3>2. CASE p # pl
      <4>1. ranked'[p] = ranked[p] BY <1>4, <3>2
      <4>2. /\ ranked[p].rank # NoOne /\ ranknodes[ranked[p].rank].name = ranked[p].name
            /\ ranknodes[ranked[p].rank].pl = p
            /\ ranknodes[ranked[p].rank].score = ranked[p].score
          BY <2>1, <4>1 DEF RankInv, ScoresAreOwn
      <4>3. ranked[p].rank \in Index BY <4>2 DEF RankInv, RankType, EntryType
      <4>4. ranked[p].rank # r BY <1>12, <2>1, <3>2, <4>2
      <4> QED BY <1>7, <4>1, <4>2, <4>3, <4>4
    <3> QED BY <3>1, <3>2
  <2> QED BY <1>8, <2>1 DEF ScoresAreOwn
<1>14. FileIsCurrent'
  <2> SUFFICES ASSUME ~came PROVE FileIsCurrent' BY <1>1 DEF FileIsCurrent
  <2>1. /\ {file[n].name : n \in DOMAIN file} = {ranknodes[i].name : i \in Used}
        /\ Len(file) = Cardinality(Used)
      BY DEF RankInv, FileIsCurrent
  <2>2. {ranknodes'[i].name : i \in Used} = {ranknodes[i].name : i \in Used} BY <1>7, <1>8
  <2>3. ASSUME NEW n \in DOMAIN file, NEW i \in Used, Used # Index,
               file[n].name = ranknodes'[i].name, \A p \in Players : ranked'[p].name # file[n].name
        PROVE  file[n].score = ranknodes'[i].score
    <3>1. i \in Index /\ file[n].name = ranknodes[i].name /\ \A p \in Players : ranked[p].name # file[n].name
        BY <1>5, <1>7, <1>8, <2>3
    <3>2. file[n].score = ranknodes[i].score BY <2>3, <3>1 DEF RankInv, FileIsCurrent
    <3>3. i # r BY <1>12, <2>3, <3>1
    <3> QED BY <1>7, <3>1, <3>2, <3>3
  <2>4. /\ Used' = Used /\ file' = file
        /\ {ranknodes'[i].name : i \in Used'} = {ranknodes[i].name : i \in Used}
    <3>1. file' = file BY <1>1
    <3> QED BY <1>8, <2>2, <3>1
  <2>5. {file'[n].name : n \in DOMAIN file'} = {file[n].name : n \in DOMAIN file} BY <2>4
  <2> QED BY <2>1, <2>3, <2>4, <2>5 DEF FileIsCurrent
<1>15. Len(file') <= MAX_SCORES BY <1>1 DEF RankInv
<1> QED BY <1>9, <1>10, <1>11, <1>13, <1>14, <1>15 DEF RankInv

-----------------------------------------------------------------------------
(* All steps.                                                              *)

LEMMA RankStep ==
    ASSUME RankInv, [RankNext]_rankVars
    PROVE  RankInv'
<1>1. CASE Update_rank \/ Game_over
  <2>1. came' \in BOOLEAN BY <1>1 DEF Update_rank, Game_over, RankInv, RankType
  <2> QED BY <1>1, <2>1, FileStaysTrue DEF Update_rank, Game_over
<1>2. CASE Started
  <2>1. JustStarted'
      BY <1>2 DEF Started, RankInv, RankType, NicksApart, Loaded, JustStarted
  <2>2. (JustStarted => RankInv)' BY StartKeepsRank, PTL
  <2> QED BY <2>1, <2>2
<1>3. CASE Tick \/ UNCHANGED rankVars
  <2>1. /\ UNCHANGED <<ranknodes, rank_base, ranked, came, file>> /\ now' \in Nat
      BY <1>3 DEF Tick, rankVars, RankInv, RankType
  <2>2. Used' = Used BY <2>1 DEF Used
  <2>3. RankType' BY <2>1 DEF RankInv, RankType
  <2>4. NicksApart' /\ HeldFit' BY <2>1, <2>2 DEF RankInv, NicksApart, HeldFit
  <2>5. ScoresAreOwn' BY <2>1, <2>2 DEF RankInv, ScoresAreOwn
  <2>6. FileIsCurrent'
    <3>1. ranknodes' = ranknodes /\ ranked' = ranked /\ came' = came /\ file' = file BY <2>1
    <3>2. {file'[n].name : n \in DOMAIN file'} = {file[n].name : n \in DOMAIN file} BY <3>1
    <3>3. {ranknodes'[i].name : i \in Used'} = {ranknodes[i].name : i \in Used} BY <2>2, <3>1
    <3> QED BY <2>2, <3>1, <3>2, <3>3 DEF RankInv, FileIsCurrent
  <2> QED BY <2>1, <2>3, <2>4, <2>5, <2>6 DEF RankInv
<1>4. ASSUME NEW pl \in Players, Destroy_connection(pl) PROVE RankInv' BY <1>4, LeaveKeepsRank
<1>5. ASSUME NEW pl \in Players, SCORE(pl) PROVE RankInv' BY <1>5, ScoreKeepsRank
<1>6. ASSUME NEW pl \in Players, NEW name \in Nicks, Handle_login(pl, name) PROVE RankInv'
    BY <1>6, LoginKeepsRank
<1> QED BY <1>1, <1>2, <1>3, <1>4, <1>5, <1>6 DEF RankNext

\* The ranking loses no score that it has room for, in memory or in its file, whoever comes
\* and goes under whatever name, and whenever the server stops.
THEOREM RankingIsSafe == RankSpec => []RankSafe
<1>1. RankInit => RankInv
  <2> SUFFICES ASSUME RankInit PROVE RankInv OBVIOUS
  <2>1. file = <<>> /\ ranknodes = Loaded(file) /\ now = 0 BY DEF RankInit
  <2>2. file \in Seq(LineType) /\ Len(file) = 0 /\ DOMAIN file = {} BY <2>1
  <2>3. Len(file) <= MAX_SCORES BY <2>2, RankAssumption
  <2>4. JustStarted BY <2>1, <2>2, <2>3 DEF RankInit, JustStarted
  <2> QED BY <2>4, StartKeepsRank
<1>2. RankInv /\ [RankNext]_rankVars => RankInv' BY RankStep
<1>3. RankInv => RankSafe BY DEF RankInv, RankSafe
<1> QED BY <1>1, <1>2, <1>3, PTL DEF RankSpec
=============================================================================
