--------------------------- MODULE LoginQueueProofs ---------------------------
(***************************************************************************)
(* Proofs about Roster and LoginQueue.                                     *)
(*                                                                         *)
(* Of the roster: bases, teams and counters fit together whatever command  *)
(* comes in whatever order, for every number of players, robots, teams and *)
(* bases; and nobody loses its place in the game by changing teams.  The   *)
(* functions of the code are operators from rosters to rosters, and so the *)
(* invariant is one of rosters, with a lemma for each operator.            *)
(*                                                                         *)
(* Of the queue: the promises made to its clients are kept, however many   *)
(* there are and whatever the players, the operators and the robots do     *)
(* between the request and the login; and no two of them have the same     *)
(* name.  Here the queue is a sequence that is thinned, extended and       *)
(* reordered, and the connections are counted.                             *)
(***************************************************************************)
EXTENDS LoginQueue, FiniteSetTheorems, SequenceTheorems, TLAPS

-----------------------------------------------------------------------------
(* The invariant.                                                          *)

States == {"gone", "active", "out", "paused"}
Places == {"none", "Robot_destroy", "Robot_kick", "Handle_login", "Player_is_close_to_base"}

RosterType ==
    [state      : [Player -> States],
     team       : [Player -> Team \cup {None}],
     home       : [Player -> Base \cup {None}],
     NumMembers : [Team -> Nat],
     Swapper    : [Team -> Player \cup {None}],
     NumPaused  : Nat,
     crash      : Places]

\* One base for each who plays, of its team, and none for anybody else.
HomesFit(r) ==
    /\ \A p \in Player :
           /\ r.state[p] \in {"active", "out"} =>
                  r.home[p] \in Base /\ BaseTeam[r.home[p]] = r.team[p]
           /\ r.state[p] \in {"gone", "paused"} => r.home[p] = None
    /\ \A p, q \in Player : r.home[p] # None /\ r.home[p] = r.home[q] => p = q

TeamsFit(r) ==
    /\ \A t \in Team : r.NumMembers[t] = Cardinality(Members(r, t))
    /\ \A p \in Player :
           /\ r.state[p] = "paused" <=> r.team[p] = PauseTeam
           /\ r.state[p] # "gone" <=> r.team[p] # None

\* Who is queued for a team is in the game.  Cmd_team exchanges it without a look.
SwappersPlay(r) == \A t \in Team : r.Swapper[t] # None => r.state[r.Swapper[t]] # "gone"

\* Everything but NumPaused, which is set after the rest.
Fits(r) ==
    /\ r \in RosterType
    /\ HomesFit(r)
    /\ TeamsFit(r)
    /\ SwappersPlay(r)
    /\ Cardinality(RobotsIn(r)) <= MaxRobots

\* NumPaused still lacks n of the members of the pausers' team.
PausedCount(r, n) == r.NumMembers[PauseTeam] = r.NumPaused + n

\* With fewer robots than may be paused, what Player_pause_forced counts is enough.
PausedBound(r) == MaxRobots < MaxPaused => r.NumPaused <= MaxPaused

Sound(r) == Fits(r) /\ PausedCount(r, 0) /\ PausedBound(r)

RosterInv == Sound(roster)

-----------------------------------------------------------------------------
(* Counting.                                                               *)

LEMMA PlayersFinite ==
    /\ IsFiniteSet(Player)
    /\ \A S \in SUBSET Player : IsFiniteSet(S) /\ Cardinality(S) \in Nat
<1>1. IsFiniteSet(Player) BY RosterAssumption, FS_Union DEF Player
<1>2. ASSUME NEW S \in SUBSET Player PROVE IsFiniteSet(S) BY <1>1, FS_Subset
<1> QED BY <1>1, <1>2, FS_CardinalityType

\* How many have the value u.
Having(f, u) == {q \in Player : f[q] = u}

\* Only p's value changes.
LEMMA CountMove ==
    ASSUME NEW f, NEW g, NEW p \in Player, NEW u,
           \A q \in Player \ {p} : g[q] = f[q]
    PROVE  Cardinality(Having(g, u)) = Cardinality(Having(f, u)) + One(g[p], u) - One(f[p], u)
<1> DEFINE A == Having(f, u)
           B == Having(g, u)
<1>1. A \in SUBSET Player /\ IsFiniteSet(A) /\ Cardinality(A) \in Nat
    BY PlayersFinite DEF Having
<1>3. CASE g[p] = u /\ f[p] = u
  <2>1. B = A BY <1>3 DEF Having
  <2> QED BY <1>1, <1>3, <2>1 DEF One
<1>4. CASE g[p] = u /\ f[p] # u
  <2>1. B = A \cup {p} /\ p \notin A BY <1>4 DEF Having
  <2>2. Cardinality(B) = Cardinality(A) + 1
    <3> HIDE DEF A, B
    <3> QED BY <1>1, <2>1, FS_AddElement
  <2> QED BY <1>1, <1>4, <2>2 DEF One
<1>5. CASE g[p] # u /\ f[p] = u
  <2>1. B = A \ {p} /\ p \in A BY <1>5 DEF Having
  <2>2. Cardinality(B) = Cardinality(A) - 1
    <3> HIDE DEF A, B
    <3> QED BY <1>1, <2>1, FS_RemoveElement
  <2> QED BY <1>1, <1>5, <2>2 DEF One
<1>6. CASE g[p] # u /\ f[p] # u
  <2>1. B = A BY <1>6 DEF Having
  <2> QED BY <1>1, <1>6, <2>1 DEF One
<1> QED BY <1>3, <1>4, <1>5, <1>6

\* Two exchange their values: as many have each.
LEMMA CountSwap ==
    ASSUME NEW f, NEW h, NEW p \in Player, NEW q \in Player, NEW u,
           h[p] = f[q], h[q] = f[p],
           \A x \in Player \ {p, q} : h[x] = f[x]
    PROVE  Cardinality(Having(h, u)) = Cardinality(Having(f, u))
<1> DEFINE g == [x \in Player |-> IF x = p THEN f[q] ELSE f[x]]
<1>1. \A x \in Player \ {p} : g[x] = f[x] OBVIOUS
<1>2. \A x \in Player \ {q} : h[x] = g[x] OBVIOUS
<1>3. g[p] = f[q] /\ g[q] = f[q] OBVIOUS
<1> HIDE DEF g
<1>4. Cardinality(Having(g, u)) = Cardinality(Having(f, u)) + One(g[p], u) - One(f[p], u)
    BY <1>1, CountMove
<1>5. Cardinality(Having(h, u)) = Cardinality(Having(g, u)) + One(h[q], u) - One(g[q], u)
  <2>1. \A k \in Player :
            (\A x \in Player \ {k} : h[x] = g[x]) =>
                Cardinality(Having(h, u)) = Cardinality(Having(g, u)) + One(h[k], u) - One(g[k], u)
    BY CountMove
  <2> QED BY <1>2, <2>1
<1>6. Cardinality(Having(f, u)) \in Nat BY PlayersFinite DEF Having
<1>7. \A x, y : One(x, y) \in Int BY DEF One
<1>8. One(g[p], u) = One(f[q], u) /\ One(g[q], u) = One(f[q], u) /\ One(h[q], u) = One(f[p], u)
    BY <1>3
<1>9. One(f[p], u) \in Int /\ One(f[q], u) \in Int BY <1>7
<1> QED BY ONLY <1>4, <1>5, <1>6, <1>8, <1>9

-----------------------------------------------------------------------------
(* What the invariant says of a roster.                                    *)

LEMMA RosterFacts ==
    ASSUME NEW r, Fits(r)
    PROVE  /\ r \in RosterType
           /\ \A p \in Player : /\ r.state[p] \in States
                                /\ r.team[p] \in Team \cup {None}
                                /\ r.home[p] \in Base \cup {None}
           /\ \A t \in Team : r.NumMembers[t] \in Nat /\ r.Swapper[t] \in Player \cup {None}
           /\ r.NumPaused \in Nat
           /\ \A p \in Player : p \in InGame(r) <=> r.team[p] \in Team
           /\ \A t \in Team : r.NumMembers[t] = Cardinality(Members(r, t))
<1>1. r \in RosterType /\ TeamsFit(r) BY DEF Fits
<1>2. None \notin Team BY RosterAssumption
<1> QED BY <1>1, <1>2 DEF RosterType, TeamsFit, InGame

LEMMA PausedAreMembers ==
    ASSUME NEW r, Fits(r)
    PROVE  /\ Paused(r) = Members(r, PauseTeam)
           /\ r.NumMembers[PauseTeam] = Cardinality(Paused(r))
<1>1. Paused(r) = Members(r, PauseTeam) BY DEF Fits, TeamsFit, Paused, Members
<1> QED BY <1>1, RosterFacts, RosterAssumption

\* Who has a base of a team is a member of it: a team with room has a free base.
LEMMA RoomMeansBase ==
    ASSUME NEW r, Fits(r), NEW t \in Team, HasRoom(r, t)
    PROVE  FreeBases(r, t) # {}
<1> SUFFICES ASSUME FreeBases(r, t) = {} PROVE FALSE OBVIOUS
<1> DEFINE B == BasesOf(t)
           M == Members(r, t)
           holder == [b \in B |-> CHOOSE p \in Player : r.home[p] = b]
<1>1. ASSUME NEW b \in B PROVE \E p \in Player : r.home[p] = b
    BY <1>1 DEF FreeBases
<1>2. ASSUME NEW b \in B PROVE holder[b] \in Player /\ r.home[holder[b]] = b
    BY <1>1
<1>3. ASSUME NEW b \in B PROVE holder[b] \in M
  <2> DEFINE p == holder[b]
  <2>1. p \in Player /\ r.home[p] = b BY <1>2
  <2> HIDE DEF p, holder
  <2>2. b \in Base /\ BaseTeam[b] = t BY DEF BasesOf
  <2>3. b # None BY <2>2, RosterAssumption
  <2>4. r.state[p] \in {"active", "out"}
    BY <2>1, <2>3, RosterFacts DEF Fits, HomesFit, States
  <2>5. r.team[p] = t BY <2>1, <2>2, <2>4 DEF Fits, HomesFit
  <2>6. p \in M BY <2>1, <2>5 DEF Members
  <2> QED BY <2>6 DEF p
<1>4. holder \in Injection(B, M)
    BY <1>2, <1>3 DEF Injection, IsInjective
<1>5. IsFiniteSet(B) /\ IsFiniteSet(M)
    BY PlayersFinite, RosterAssumption, FS_Subset DEF BasesOf, Members
<1>6. Cardinality(B) <= Cardinality(M)
  <2> HIDE DEF B, M, holder
  <2> QED BY <1>4, <1>5, FS_Injection
<1>7. Cardinality(M) = r.NumMembers[t] BY RosterFacts
<1>8. Cardinality(B) \in Nat /\ Cardinality(M) \in Nat BY <1>5, FS_CardinalityType
<1> QED BY <1>6, <1>7, <1>8 DEF HasRoom

-----------------------------------------------------------------------------
(* The ways in which rosters change.                                       *)

\* What a roster says of p alone.
WellPlaced(r, p) ==
    /\ r.state[p] \in {"active", "out"} =>
           r.home[p] \in Base /\ BaseTeam[r.home[p]] = r.team[p]
    /\ r.state[p] \in {"gone", "paused"} => r.home[p] = None
    /\ r.state[p] = "paused" <=> r.team[p] = PauseTeam
    /\ r.state[p] # "gone" <=> r.team[p] # None

LEMMA EachPlaced ==
    ASSUME NEW r PROVE (HomesFit(r) /\ TeamsFit(r)) <=>
        /\ \A p \in Player : WellPlaced(r, p)
        /\ \A p, q \in Player : r.home[p] # None /\ r.home[p] = r.home[q] => p = q
        /\ \A t \in Team : r.NumMembers[t] = Cardinality(Members(r, t))
BY DEF HomesFit, TeamsFit, WellPlaced

\* x is r but for p, and the teams' counters are right for where p goes.
Moves(r, x, p) ==
    /\ \A q \in Player \ {p} : /\ x.state[q] = r.state[q]
                               /\ x.team[q] = r.team[q]
                               /\ x.home[q] = r.home[q]
    /\ \A t \in Team :
           x.NumMembers[t] = r.NumMembers[t] + One(x.team[p], t) - One(r.team[p], t)

\* One player goes to a place that is its own.
LEMMA OneMoves ==
    ASSUME NEW r, Fits(r), NEW x \in RosterType, NEW p \in Player, Moves(r, x, p),
           WellPlaced(x, p),
           x.home[p] # None => \A q \in Player \ {p} : r.home[q] # x.home[p],
           SwappersPlay(x),
           Cardinality(RobotsIn(x)) <= MaxRobots
    PROVE  Fits(x)
<1>1. \A q \in Player \ {p} : /\ x.state[q] = r.state[q]
                              /\ x.team[q] = r.team[q]
                              /\ x.home[q] = r.home[q]
    BY DEF Moves
<1>2. \A q \in Player : WellPlaced(r, q) BY EachPlaced DEF Fits
<1>3. ASSUME NEW q \in Player PROVE WellPlaced(x, q)
  <2>1. CASE q = p BY <2>1
  <2>2. CASE q # p BY <1>1, <1>2, <2>2 DEF WellPlaced
  <2> QED BY <2>1, <2>2
<1>4. ASSUME NEW q1 \in Player, NEW q2 \in Player, x.home[q1] # None, x.home[q1] = x.home[q2]
      PROVE  q1 = q2
  <2>1. \A u, v \in Player : r.home[u] # None /\ r.home[u] = r.home[v] => u = v
      BY DEF Fits, HomesFit
  <2>2. CASE q1 = p \/ q2 = p BY <1>1, <1>4, <2>2
  <2>3. CASE q1 # p /\ q2 # p BY <1>1, <1>4, <2>1, <2>3
  <2> QED BY <2>2, <2>3
<1>5. ASSUME NEW t \in Team PROVE x.NumMembers[t] = Cardinality(Members(x, t))
  <2>1. Members(x, t) = Having(x.team, t) /\ Members(r, t) = Having(r.team, t)
      BY DEF Members, Having
  <2>2. \A q \in Player \ {p} : x.team[q] = r.team[q] BY <1>1
  <2>3. Cardinality(Having(x.team, t)) =
            Cardinality(Having(r.team, t)) + One(x.team[p], t) - One(r.team[p], t)
    <3> DEFINE f == r.team
               g == x.team
    <3>1. \A q \in Player \ {p} : g[q] = f[q] BY <2>2
    <3> HIDE DEF f, g
    <3>2. Cardinality(Having(g, t)) = Cardinality(Having(f, t)) + One(g[p], t) - One(f[p], t)
        BY <3>1, CountMove
    <3> QED BY <3>2 DEF f, g
  <2>4. r.NumMembers[t] = Cardinality(Members(r, t)) BY RosterFacts
  <2> QED BY <2>1, <2>3, <2>4 DEF Moves
<1> QED BY <1>3, <1>4, <1>5, EachPlaced DEF Fits

\* The robots in the game are no more when nobody comes.
LEMMA FewerRobots ==
    ASSUME NEW r, Fits(r), NEW x, RobotsIn(x) \subseteq RobotsIn(r)
    PROVE  Cardinality(RobotsIn(x)) <= MaxRobots
<1>1. IsFiniteSet(RobotsIn(r)) BY PlayersFinite DEF RobotsIn, Player, InGame
<1>2. Cardinality(RobotsIn(x)) <= Cardinality(RobotsIn(r)) BY <1>1, FS_Subset
<1>3. Cardinality(RobotsIn(x)) \in Nat /\ Cardinality(RobotsIn(r)) \in Nat
    BY <1>1, FS_Subset, FS_CardinalityType
<1>4. Cardinality(RobotsIn(r)) <= MaxRobots /\ MaxRobots \in Nat BY RosterAssumption DEF Fits
<1> QED BY <1>2, <1>3, <1>4

\* Player_remove takes players out whatever they were doing.
LEMMA RemovedFits ==
    ASSUME NEW r, Fits(r), PausedCount(r, 0), NEW ps \in SUBSET InGame(r)
    PROVE  /\ Fits(Removed(r, ps))
           /\ PausedCount(Removed(r, ps), 0)
           /\ Removed(r, ps).NumPaused <= r.NumPaused
           /\ Paused(Removed(r, ps)) = Paused(r) \ ps
           /\ InGame(Removed(r, ps)) = InGame(r) \ ps
<1> DEFINE x == Removed(r, ps)
<1>t. /\ r \in RosterType
      /\ \A p \in Player : WellPlaced(r, p)
      /\ ps \subseteq Player
      /\ None \notin Player /\ PauseTeam \in Team /\ None \notin Team
    BY RosterAssumption, EachPlaced DEF Fits, InGame
<1>1. ASSUME NEW p \in Player
      PROVE  /\ x.state[p] = IF p \in ps THEN "gone" ELSE r.state[p]
             /\ x.team[p] = IF p \in ps THEN None ELSE r.team[p]
             /\ x.home[p] = IF p \in ps THEN None ELSE r.home[p]
    BY <1>t DEF Removed, RosterType
<1>2. ASSUME NEW t \in Team
      PROVE  /\ x.NumMembers[t] = r.NumMembers[t] - Cardinality(ps \cap Members(r, t))
             /\ Members(x, t) = Members(r, t) \ ps
             /\ x.NumMembers[t] = Cardinality(Members(x, t))
             /\ x.NumMembers[t] \in Nat
             /\ x.Swapper[t] = IF r.Swapper[t] \in ps THEN None ELSE r.Swapper[t]
  <2>1. x.NumMembers[t] = r.NumMembers[t] - Cardinality(ps \cap Members(r, t))
      BY <1>t DEF Removed, RosterType
  <2>2. Members(x, t) = Members(r, t) \ ps BY <1>1, <1>t DEF Members
  <2>3. IsFiniteSet(Members(r, t)) BY PlayersFinite DEF Members
  <2>4. Members(r, t) \cap ps = ps \cap Members(r, t) OBVIOUS
  <2>5. Cardinality(Members(r, t) \ ps) = Cardinality(Members(r, t)) - Cardinality(ps \cap Members(r, t))
      BY <2>3, <2>4, FS_Difference
  <2>6. r.NumMembers[t] = Cardinality(Members(r, t)) BY RosterFacts
  <2>7. Cardinality(Members(x, t)) \in Nat BY PlayersFinite DEF Members
  <2>8. x.Swapper[t] = IF r.Swapper[t] \in ps THEN None ELSE r.Swapper[t]
      BY <1>t DEF Removed, RosterType
  <2> QED BY <2>1, <2>2, <2>5, <2>6, <2>7, <2>8
<1>3. x.NumPaused = r.NumPaused - Cardinality(ps \cap Members(r, PauseTeam))
    BY <1>t, PausedAreMembers DEF Removed, RosterType
<1>4. x.NumMembers[PauseTeam] = x.NumPaused
  <2>1. r.NumMembers[PauseTeam] = r.NumPaused + 0 BY DEF PausedCount
  <2>2. x.NumMembers[PauseTeam] = r.NumMembers[PauseTeam] - Cardinality(ps \cap Members(r, PauseTeam))
      BY <1>2, <1>t
  <2>3. r.NumPaused \in Nat BY RosterFacts
  <2> QED BY <1>3, <2>1, <2>2, <2>3
<1>5. x.NumPaused \in Nat BY <1>2, <1>4, <1>t
<1>6. x.NumPaused <= r.NumPaused
  <2>1. Cardinality(ps \cap Members(r, PauseTeam)) \in Nat
      BY PlayersFinite DEF Members
  <2> QED BY <1>3, <1>5, <2>1, RosterFacts
<1>7. InGame(x) = InGame(r) \ ps BY <1>1, <1>t DEF InGame
<1>8. Paused(x) = Paused(r) \ ps BY <1>1, <1>t DEF Paused
<1>9. x \in RosterType
  <2> DEFINE S == [p \in Player |-> IF p \in ps THEN "gone" ELSE r.state[p]]
             T == [p \in Player |-> IF p \in ps THEN None ELSE r.team[p]]
             H == [p \in Player |-> IF p \in ps THEN None ELSE r.home[p]]
             N == [t \in Team |-> r.NumMembers[t] - Cardinality(ps \cap Members(r, t))]
             W == [t \in Team |-> IF r.Swapper[t] \in ps THEN None ELSE r.Swapper[t]]
             k == r.NumPaused - Cardinality(ps \cap Paused(r))
  <2>1. x = [r EXCEPT !.state = S, !.team = T, !.home = H, !.NumMembers = N,
                      !.NumPaused = k, !.Swapper = W]
      BY DEF Removed
  <2>2. S \in [Player -> States] BY <1>t DEF RosterType, States
  <2>3. T \in [Player -> Team \cup {None}] BY <1>t DEF RosterType
  <2>4. H \in [Player -> Base \cup {None}] BY <1>t DEF RosterType
  <2>5. N \in [Team -> Nat] BY <1>2
  <2>6. W \in [Team -> Player \cup {None}] BY <1>t DEF RosterType
  <2>7. k \in Nat BY <1>3, <1>5, PausedAreMembers
  <2> HIDE DEF x, S, T, H, N, W, k
  <2> QED BY ONLY <1>t, <2>1, <2>2, <2>3, <2>4, <2>5, <2>6, <2>7 DEF RosterType
<1>10. \A p \in Player : WellPlaced(x, p)
  <2> HIDE DEF x
  <2> QED BY <1>1, <1>t DEF WellPlaced
<1>11. \A p, q \in Player : x.home[p] # None /\ x.home[p] = x.home[q] => p = q
  <2>1. \A p, q \in Player : r.home[p] # None /\ r.home[p] = r.home[q] => p = q
      BY DEF Fits, HomesFit
  <2> HIDE DEF x
  <2> QED BY <1>1, <2>1
<1>12. SwappersPlay(x)
  <2>1. \A t \in Team : r.Swapper[t] \in Player \cup {None} BY RosterFacts
  <2>2. SwappersPlay(r) BY DEF Fits
  <2> HIDE DEF x
  <2> QED BY <1>1, <1>2, <2>1, <2>2 DEF SwappersPlay
<1>13. Cardinality(RobotsIn(x)) <= MaxRobots
  <2>1. RobotsIn(x) \subseteq RobotsIn(r) BY <1>7 DEF RobotsIn
  <2> QED BY <2>1, FewerRobots
<1>14. \A t \in Team : x.NumMembers[t] = Cardinality(Members(x, t)) BY <1>2
<1>15. Fits(x)
  <2> HIDE DEF x
  <2> QED BY <1>9, <1>10, <1>11, <1>12, <1>13, <1>14, EachPlaced DEF Fits
<1>16. PausedCount(x, 0)
  <2>1. x.NumMembers[PauseTeam] = x.NumPaused + 0 BY <1>4, <1>5
  <2> HIDE DEF x
  <2> QED BY <2>1 DEF PausedCount
<1> QED BY <1>15, <1>16, <1>6, <1>7, <1>8

\* Only who is queued, the count of the paused or the place of a crash changes.
LEMMA SamePlaces ==
    ASSUME NEW r, Fits(r), NEW x \in RosterType,
           x.state = r.state, x.team = r.team, x.home = r.home, x.NumMembers = r.NumMembers,
           SwappersPlay(x)
    PROVE  Fits(x) /\ InGame(x) = InGame(r) /\ Paused(x) = Paused(r)
<1>1. HomesFit(x) BY DEF Fits, HomesFit
<1>2. TeamsFit(x) BY DEF Fits, TeamsFit, Members
<1>3. InGame(x) = InGame(r) /\ Paused(x) = Paused(r) BY DEF InGame, Paused
<1>4. RobotsIn(x) = RobotsIn(r) BY <1>3 DEF RobotsIn
<1> QED BY <1>1, <1>2, <1>3, <1>4 DEF Fits

LEMMA CrashFits ==
    ASSUME NEW r, Fits(r), NEW c \in Places
    PROVE  /\ Fits(Crash(r, c))
           /\ \A n \in Int : PausedCount(r, n) => PausedCount(Crash(r, c), n)
           /\ Crash(r, c).NumPaused = r.NumPaused
           /\ InGame(Crash(r, c)) = InGame(r)
<1> DEFINE x == Crash(r, c)
<1>1. r \in RosterType BY DEF Fits
<1>2. /\ x \in RosterType /\ x.state = r.state /\ x.team = r.team /\ x.home = r.home
      /\ x.NumMembers = r.NumMembers /\ x.Swapper = r.Swapper /\ x.NumPaused = r.NumPaused
    BY <1>1 DEF Crash, RosterType
<1>3. SwappersPlay(x) BY <1>2 DEF Fits, SwappersPlay
<1> HIDE DEF x
<1>4. Fits(x) /\ InGame(x) = InGame(r) BY <1>2, <1>3, SamePlaces
<1> QED BY <1>2, <1>4 DEF x, PausedCount

LEMMA CountedFits ==
    ASSUME NEW r, Fits(r), NEW k \in Nat
    PROVE  /\ Fits([r EXCEPT !.NumPaused = k])
           /\ [r EXCEPT !.NumPaused = k].NumMembers = r.NumMembers
           /\ [r EXCEPT !.NumPaused = k].NumPaused = k
           /\ InGame([r EXCEPT !.NumPaused = k]) = InGame(r)
<1> DEFINE x == [r EXCEPT !.NumPaused = k]
<1>1. r \in RosterType BY DEF Fits
<1>2. /\ x \in RosterType /\ x.state = r.state /\ x.team = r.team /\ x.home = r.home
      /\ x.NumMembers = r.NumMembers /\ x.Swapper = r.Swapper /\ x.NumPaused = k
    BY <1>1 DEF RosterType
<1>3. SwappersPlay(x) BY <1>2 DEF Fits, SwappersPlay
<1> HIDE DEF x
<1>4. Fits(x) /\ InGame(x) = InGame(r) BY <1>2, <1>3, SamePlaces
<1> QED BY <1>2, <1>4 DEF x

\* The queue for the teams, by someone in the game.
LEMMA QueuedFits ==
    ASSUME NEW r, Fits(r), NEW t \in Team, NEW p \in InGame(r)
    PROVE  /\ Fits([r EXCEPT !.Swapper[t] = p])
           /\ [r EXCEPT !.Swapper[t] = p].NumMembers = r.NumMembers
           /\ [r EXCEPT !.Swapper[t] = p].NumPaused = r.NumPaused
           /\ InGame([r EXCEPT !.Swapper[t] = p]) = InGame(r)
<1> DEFINE x == [r EXCEPT !.Swapper[t] = p]
<1>1. r \in RosterType /\ p \in Player BY DEF Fits, InGame
<1>2. /\ x \in RosterType /\ x.state = r.state /\ x.team = r.team /\ x.home = r.home
      /\ x.NumMembers = r.NumMembers /\ x.NumPaused = r.NumPaused
      /\ \A u \in Team : x.Swapper[u] = IF u = t THEN p ELSE r.Swapper[u]
    BY <1>1 DEF RosterType
<1>3. SwappersPlay(x)
  <2>1. SwappersPlay(r) /\ r.state[p] # "gone" BY DEF Fits, InGame
  <2> HIDE DEF x
  <2> QED BY <1>2, <2>1 DEF SwappersPlay
<1> HIDE DEF x
<1>4. Fits(x) /\ InGame(x) = InGame(r) BY <1>2, <1>3, SamePlaces
<1> QED BY <1>2, <1>4 DEF x

LEMMA DequeuedFits ==
    ASSUME NEW r, Fits(r), NEW p
    PROVE  /\ Fits(Dequeued(r, p))
           /\ Dequeued(r, p).state = r.state
           /\ Dequeued(r, p).team = r.team
           /\ Dequeued(r, p).home = r.home
           /\ Dequeued(r, p).NumMembers = r.NumMembers
           /\ Dequeued(r, p).NumPaused = r.NumPaused
           /\ InGame(Dequeued(r, p)) = InGame(r)
           /\ p # None => \A t \in Team : Dequeued(r, p).Swapper[t] # p
<1> DEFINE x == Dequeued(r, p)
<1>1. r \in RosterType BY DEF Fits
<1>2. /\ x \in RosterType /\ x.state = r.state /\ x.team = r.team /\ x.home = r.home
      /\ x.NumMembers = r.NumMembers /\ x.NumPaused = r.NumPaused
      /\ \A u \in Team : x.Swapper[u] = IF r.Swapper[u] = p THEN None ELSE r.Swapper[u]
    BY <1>1 DEF Dequeued, RosterType
<1>3. SwappersPlay(x)
  <2>1. SwappersPlay(r) BY DEF Fits
  <2> HIDE DEF x
  <2> QED BY <1>2, <2>1 DEF SwappersPlay
<1>5. p # None => \A t \in Team : x.Swapper[t] # p BY <1>2
<1> HIDE DEF x
<1>4. Fits(x) /\ InGame(x) = InGame(r) BY <1>2, <1>3, SamePlaces
<1> QED BY <1>2, <1>4, <1>5 DEF x

-----------------------------------------------------------------------------
(* Joining and changing teams.                                             *)

LEMMA EntryIsPlay ==
    ASSUME NEW r, NEW p, NEW t \in Team \ {PauseTeam}
    PROVE  EntryStates(r, p, t) \subseteq {"active", "out"}
BY DEF EntryStates

\* A place to go to in team t: the pausers have no base.
PlaceIn(r, t, b, s) ==
    \/ t = PauseTeam /\ b = None /\ s = "paused"
    \/ t # PauseTeam /\ b \in FreeBases(r, t) /\ s \in {"active", "out"}

LEMMA PlaceIsOwn ==
    ASSUME NEW r, NEW x, NEW p \in Player,
           x.team[p] \in Team, PlaceIn(r, x.team[p], x.home[p], x.state[p])
    PROVE  /\ WellPlaced(x, p)
           /\ x.home[p] # None => \A q \in Player \ {p} : r.home[q] # x.home[p]
<1>1. None \notin Base /\ None \notin Team BY RosterAssumption
<1> QED BY <1>1 DEF PlaceIn, WellPlaced, FreeBases, BasesOf

LEMMA MovedFits ==
    ASSUME NEW r, Fits(r), NEW p \in InGame(r), NEW t \in Team, NEW b, NEW s,
           PlaceIn(r, t, b, s)
    PROVE  /\ Fits(Moved(r, p, t, b, s))
           /\ Moved(r, p, t, b, s).NumPaused = r.NumPaused
           /\ InGame(Moved(r, p, t, b, s)) = InGame(r)
           /\ \A u \in Team : Moved(r, p, t, b, s).NumMembers[u] =
                                  r.NumMembers[u] + One(t, u) - One(r.team[p], u)
<1> DEFINE x == Moved(r, p, t, b, s)
           N == [u \in Team |-> r.NumMembers[u] + One(t, u) - One(r.team[p], u)]
<1>1. /\ r \in RosterType /\ p \in Player /\ r.team[p] \in Team
      /\ b \in Base \cup {None} /\ s \in States
  <2>1. p \in Player /\ r \in RosterType BY DEF Fits, InGame
  <2>2. r.team[p] \in Team BY RosterFacts, <2>1
  <2>3. b \in Base \cup {None} /\ s \in States
      BY DEF PlaceIn, FreeBases, BasesOf, States
  <2> QED BY <2>1, <2>2, <2>3
<1>2. r.NumMembers[r.team[p]] >= 1
  <2>1. p \in Members(r, r.team[p]) BY <1>1 DEF Members
  <2>2. IsFiniteSet(Members(r, r.team[p])) BY PlayersFinite DEF Members
  <2>3. Cardinality(Members(r, r.team[p])) # 0 BY <2>1, <2>2, FS_EmptySet
  <2>4. Cardinality(Members(r, r.team[p])) = r.NumMembers[r.team[p]] BY <1>1, RosterFacts
  <2>5. r.NumMembers[r.team[p]] \in Nat BY <1>1, RosterFacts
  <2> QED BY <2>3, <2>4, <2>5
<1>3. /\ N \in [Team -> Nat]
      /\ \A u \in Team : N[u] = r.NumMembers[u] + One(t, u) - One(r.team[p], u)
  <2>1. \A u \in Team : r.NumMembers[u] \in Nat BY RosterFacts
  <2>2. \A u \in Team : r.NumMembers[u] + One(t, u) - One(r.team[p], u) \in Nat
      BY <1>2, <2>1 DEF One
  <2> QED BY <2>2
<1>4. /\ x \in RosterType
      /\ x.state = [r.state EXCEPT ![p] = s]
      /\ x.team = [r.team EXCEPT ![p] = t]
      /\ x.home = [r.home EXCEPT ![p] = b]
      /\ x.NumMembers = N
      /\ x.Swapper = r.Swapper
      /\ x.NumPaused = r.NumPaused
  <2>1. x = [r EXCEPT !.team[p] = t, !.home[p] = b, !.state[p] = s, !.NumMembers = N]
      BY DEF Moved
  <2> HIDE DEF x, N
  <2> QED BY ONLY <1>1, <1>3, <2>1, t \in Team DEF RosterType
<1> HIDE DEF x, N
<1>5. /\ x.state[p] = s /\ x.team[p] = t /\ x.home[p] = b
      /\ \A q \in Player \ {p} : /\ x.state[q] = r.state[q]
                                 /\ x.team[q] = r.team[q]
                                 /\ x.home[q] = r.home[q]
    BY <1>1, <1>4 DEF RosterType
<1>6. Moves(r, x, p) BY <1>3, <1>4, <1>5 DEF Moves
<1>7. InGame(x) = InGame(r)
  <2>1. s # "gone" BY DEF PlaceIn
  <2>2. r.state[p] # "gone" BY DEF InGame
  <2> QED BY <1>5, <2>1, <2>2 DEF InGame
<1>8. SwappersPlay(x)
  <2>1. \A q \in Player : x.state[q] # "gone" <=> r.state[q] # "gone"
      BY <1>7 DEF InGame
  <2>2. \A u \in Team : r.Swapper[u] \in Player \cup {None} BY RosterFacts
  <2>3. SwappersPlay(r) BY DEF Fits
  <2> QED BY <1>4, <2>1, <2>2, <2>3 DEF SwappersPlay
<1>9. Cardinality(RobotsIn(x)) <= MaxRobots
  <2>1. RobotsIn(x) \subseteq RobotsIn(r) BY <1>7 DEF RobotsIn
  <2> QED BY <2>1, FewerRobots
<1>10. /\ WellPlaced(x, p)
       /\ x.home[p] # None => \A q \in Player \ {p} : r.home[q] # x.home[p]
  <2>1. PlaceIn(r, x.team[p], x.home[p], x.state[p]) BY <1>5
  <2> QED BY <1>1, <1>5, <2>1, PlaceIsOwn
<1>11. Fits(x) BY <1>1, <1>4, <1>6, <1>8, <1>9, <1>10, OneMoves
<1> QED BY <1>3, <1>4, <1>7, <1>11 DEF x, N

LEMMA JoinedFits ==
    ASSUME NEW r, Fits(r), NEW p \in Player, p \notin InGame(r),
           NEW t \in Team \ {PauseTeam}, NEW b \in FreeBases(r, t), NEW s \in {"active", "out"},
           p \notin Robot \/ Cardinality(RobotsIn(r)) < MaxRobots
    PROVE  /\ Fits(Joined(r, p, t, b, s))
           /\ Joined(r, p, t, b, s).NumPaused = r.NumPaused
           /\ Joined(r, p, t, b, s).NumMembers[PauseTeam] = r.NumMembers[PauseTeam]
           /\ InGame(Joined(r, p, t, b, s)) = InGame(r) \cup {p}
<1> DEFINE x == Joined(r, p, t, b, s)
<1>1. /\ r \in RosterType /\ b \in Base \cup {None} /\ s \in States
      /\ PauseTeam \in Team /\ None \notin Team
    BY RosterAssumption DEF Fits, FreeBases, BasesOf, States
<1>2. r.state[p] = "gone" /\ r.team[p] = None
    BY <1>1, RosterFacts DEF InGame, Fits, TeamsFit
<1>3. /\ x \in RosterType
      /\ x.state = [r.state EXCEPT ![p] = s]
      /\ x.team = [r.team EXCEPT ![p] = t]
      /\ x.home = [r.home EXCEPT ![p] = b]
      /\ x.NumMembers = [r.NumMembers EXCEPT ![t] = @ + 1]
      /\ x.Swapper = r.Swapper
      /\ x.NumPaused = r.NumPaused
  <2> DEFINE N == [r.NumMembers EXCEPT ![t] = @ + 1]
             T == [r.team EXCEPT ![p] = t]
             H == [r.home EXCEPT ![p] = b]
             S == [r.state EXCEPT ![p] = s]
  <2>1. x = [r EXCEPT !.team = T, !.home = H, !.state = S, !.NumMembers = N]
      BY <1>1 DEF Joined, RosterType
  <2>2. /\ N \in [Team -> Nat] /\ T \in [Player -> Team \cup {None}]
        /\ H \in [Player -> Base \cup {None}] /\ S \in [Player -> States]
      BY <1>1 DEF RosterType
  <2> HIDE DEF x, N, T, H, S
  <2>3. /\ x \in RosterType /\ x.state = S /\ x.team = T /\ x.home = H /\ x.NumMembers = N
        /\ x.Swapper = r.Swapper /\ x.NumPaused = r.NumPaused
      BY ONLY <1>1, <2>1, <2>2 DEF RosterType
  <2> QED BY <2>3 DEF N, T, H, S
<1> HIDE DEF x
<1>4. /\ x.state[p] = s /\ x.team[p] = t /\ x.home[p] = b
      /\ \A q \in Player \ {p} : /\ x.state[q] = r.state[q]
                                 /\ x.team[q] = r.team[q]
                                 /\ x.home[q] = r.home[q]
    BY <1>1, <1>3 DEF RosterType
<1>5. \A u \in Team : x.NumMembers[u] = r.NumMembers[u] + One(t, u) - One(None, u)
  <2>1. \A u \in Team : One(None, u) = 0 BY <1>1 DEF One
  <2>2. \A u \in Team : r.NumMembers[u] \in Nat BY RosterFacts
  <2>3. r.NumMembers \in [Team -> Nat] BY <1>1 DEF RosterType
  <2> QED BY <1>3, <2>1, <2>2, <2>3 DEF One
<1>6. Moves(r, x, p) BY <1>2, <1>4, <1>5 DEF Moves
<1>7. InGame(x) = InGame(r) \cup {p} BY <1>4 DEF InGame
<1>8. SwappersPlay(x)
  <2>1. \A q \in Player : r.state[q] # "gone" => x.state[q] # "gone"
      BY <1>4
  <2>2. \A u \in Team : r.Swapper[u] \in Player \cup {None} BY RosterFacts
  <2>3. SwappersPlay(r) BY DEF Fits
  <2> QED BY <1>3, <2>1, <2>2, <2>3 DEF SwappersPlay
<1>9. Cardinality(RobotsIn(x)) <= MaxRobots
  <2>1. CASE p \notin Robot
    <3>1. RobotsIn(x) \subseteq RobotsIn(r) BY <1>7, <2>1 DEF RobotsIn
    <3> QED BY <3>1, FewerRobots
  <2>2. CASE p \in Robot
    <3>1. RobotsIn(x) = RobotsIn(r) \cup {p} /\ p \notin RobotsIn(r)
        BY <1>7, <2>2 DEF RobotsIn
    <3>2. IsFiniteSet(RobotsIn(r)) BY PlayersFinite DEF RobotsIn, Player, InGame
    <3>3. Cardinality(RobotsIn(x)) = Cardinality(RobotsIn(r)) + 1 BY <3>1, <3>2, FS_AddElement
    <3>4. Cardinality(RobotsIn(r)) \in Nat BY <3>2, FS_CardinalityType
    <3>5. Cardinality(RobotsIn(r)) < MaxRobots /\ MaxRobots \in Nat BY <2>2, RosterAssumption
    <3> QED BY <3>3, <3>4, <3>5
  <2> QED BY <2>1, <2>2
<1>10. /\ WellPlaced(x, p)
       /\ x.home[p] # None => \A q \in Player \ {p} : r.home[q] # x.home[p]
  <2>1. PlaceIn(r, x.team[p], x.home[p], x.state[p]) BY <1>4 DEF PlaceIn
  <2>2. x.team[p] \in Team BY <1>4
  <2> QED BY <2>1, <2>2, PlaceIsOwn
<1>11. Fits(x) BY <1>3, <1>6, <1>8, <1>9, <1>10, OneMoves
<1>12. x.NumMembers[PauseTeam] = r.NumMembers[PauseTeam]
  <2>1. One(t, PauseTeam) = 0 /\ One(None, PauseTeam) = 0 BY <1>1 DEF One
  <2>2. r.NumMembers[PauseTeam] \in Nat BY <1>1, RosterFacts
  <2> QED BY <1>1, <1>5, <2>1, <2>2
<1> QED BY <1>3, <1>7, <1>11, <1>12 DEF x

LEMMA RoundFits ==
    ASSUME NEW r, Fits(r), NEW p \in Playing(r), NEW s \in {"active", "out"}
    PROVE  /\ Fits([r EXCEPT !.state[p] = s])
           /\ [r EXCEPT !.state[p] = s].NumPaused = r.NumPaused
           /\ [r EXCEPT !.state[p] = s].NumMembers = r.NumMembers
           /\ InGame([r EXCEPT !.state[p] = s]) = InGame(r)
<1> DEFINE x == [r EXCEPT !.state[p] = s]
<1>1. r \in RosterType /\ p \in Player /\ s \in States
    BY DEF Fits, Playing, InGame, States
<1>2. r.state[p] \in {"active", "out"} BY <1>1, RosterFacts DEF Playing, InGame, Paused, States
<1>3. /\ x \in RosterType
      /\ x.state = [r.state EXCEPT ![p] = s]
      /\ x.team = r.team /\ x.home = r.home /\ x.NumMembers = r.NumMembers
      /\ x.Swapper = r.Swapper /\ x.NumPaused = r.NumPaused
    BY <1>1 DEF RosterType
<1> HIDE DEF x
<1>4. x.state[p] = s /\ \A q \in Player \ {p} : x.state[q] = r.state[q]
    BY <1>1, <1>3 DEF RosterType
<1>5. Moves(r, x, p)
  <2>1. \A u \in Team : r.NumMembers[u] \in Nat BY RosterFacts
  <2>2. \A u \in Team : r.NumMembers[u] = r.NumMembers[u] + One(r.team[p], u) - One(r.team[p], u)
      BY <2>1 DEF One
  <2> QED BY <1>3, <1>4, <2>2 DEF Moves
<1>6. InGame(x) = InGame(r) BY <1>2, <1>4, <1>1 DEF InGame
<1>7. SwappersPlay(x)
  <2>1. \A q \in Player : r.state[q] # "gone" => x.state[q] # "gone"
      BY <1>4
  <2>2. \A u \in Team : r.Swapper[u] \in Player \cup {None} BY RosterFacts
  <2>3. SwappersPlay(r) BY DEF Fits
  <2> QED BY <1>3, <2>1, <2>2, <2>3 DEF SwappersPlay
<1>8. Cardinality(RobotsIn(x)) <= MaxRobots
  <2>1. RobotsIn(x) \subseteq RobotsIn(r) BY <1>6 DEF RobotsIn
  <2> QED BY <2>1, FewerRobots
<1>9. WellPlaced(x, p)
  <2>1. WellPlaced(r, p) BY <1>1, EachPlaced DEF Fits
  <2> QED BY <1>2, <1>3, <1>4, <2>1 DEF WellPlaced
<1>10. x.home[p] # None => \A q \in Player \ {p} : r.home[q] # x.home[p]
    BY <1>1, <1>3 DEF Fits, HomesFit
<1>11. Fits(x) BY <1>1, <1>3, <1>5, <1>7, <1>8, <1>9, <1>10, OneMoves
<1> QED BY <1>3, <1>6, <1>11 DEF x

\* Two players take each other's team and base: each finds the place that the
\* other one leaves.
LEMMA SwapFits ==
    ASSUME NEW r, Fits(r), NEW p \in InGame(r), NEW q \in InGame(r), p # q,
           NEW x \in Players_swap_teams(r, p, q)
    PROVE  /\ Fits(x)
           /\ x.NumPaused = r.NumPaused
           /\ x.NumMembers = r.NumMembers
           /\ InGame(x) = InGame(r)
<1> DEFINE T == [r.team EXCEPT ![p] = r.team[q], ![q] = r.team[p]]
           H == [r.home EXCEPT ![p] = r.home[q], ![q] = r.home[p]]
           y == Exchanged(r, p, q)
<1>1. /\ r \in RosterType /\ p \in Player /\ q \in Player
      /\ r.team[p] \in Team /\ r.team[q] \in Team
      /\ None \notin Team /\ None \notin Base
  <2>1. r \in RosterType /\ p \in Player /\ q \in Player BY DEF Fits, InGame
  <2> QED BY <2>1, RosterFacts, RosterAssumption
<1>2. PICK s1 \in EntryStates(y, p, r.team[q]), s2 \in EntryStates(y, q, r.team[p]) :
          x = [y EXCEPT !.state = [@ EXCEPT ![p] = s1, ![q] = s2]]
    BY DEF Players_swap_teams
<1>3. /\ s1 \in {"active", "out", "paused"} /\ (s1 = "paused" <=> r.team[q] = PauseTeam)
      /\ s2 \in {"active", "out", "paused"} /\ (s2 = "paused" <=> r.team[p] = PauseTeam)
  <2> QED BY <1>2 DEF EntryStates
<1> DEFINE S == [r.state EXCEPT ![p] = s1, ![q] = s2]
<1>4. /\ T \in [Player -> Team \cup {None}]
      /\ H \in [Player -> Base \cup {None}]
      /\ S \in [Player -> States]
    BY <1>1, <1>3 DEF RosterType, States
<1>5. x = [r EXCEPT !.team = T, !.home = H, !.state = S]
  <2>1. y = [r EXCEPT !.team = T, !.home = H] BY Zenon DEF Exchanged
  <2>2. y.state = r.state BY <1>1, <1>4, <2>1 DEF RosterType
  <2>3. x = [y EXCEPT !.state = S] BY <1>2, <2>2
  <2> HIDE DEF T, H, S
  <2> QED BY <2>1, <2>3
<1> HIDE DEF T, H, S
<1>6. /\ x \in RosterType /\ x.state = S /\ x.team = T /\ x.home = H
      /\ x.NumMembers = r.NumMembers /\ x.Swapper = r.Swapper /\ x.NumPaused = r.NumPaused
    BY ONLY <1>1, <1>4, <1>5 DEF RosterType
<1>7. /\ x.state[p] = s1 /\ x.state[q] = s2
      /\ x.team[p] = r.team[q] /\ x.team[q] = r.team[p]
      /\ x.home[p] = r.home[q] /\ x.home[q] = r.home[p]
      /\ \A u \in Player \ {p, q} : /\ x.state[u] = r.state[u]
                                    /\ x.team[u] = r.team[u]
                                    /\ x.home[u] = r.home[u]
    BY <1>1, <1>6 DEF T, H, S, RosterType
<1>8. \A u \in Player : WellPlaced(x, u)
  <2>1. \A u \in Player : WellPlaced(r, u) /\ r.state[u] \in States
      BY EachPlaced, RosterFacts DEF Fits
  <2>2. r.state[p] # "gone" /\ r.state[q] # "gone" BY DEF InGame
  <2>3. WellPlaced(x, p) BY <1>1, <1>3, <1>7, <2>1, <2>2 DEF WellPlaced, States
  <2>4. WellPlaced(x, q) BY <1>1, <1>3, <1>7, <2>1, <2>2 DEF WellPlaced, States
  <2>5. ASSUME NEW u \in Player \ {p, q} PROVE WellPlaced(x, u)
      BY <1>7, <2>1 DEF WellPlaced
  <2> QED BY <2>3, <2>4, <2>5
<1>9. \A u, v \in Player : x.home[u] # None /\ x.home[u] = x.home[v] => u = v
  <2>1. \A u, v \in Player : r.home[u] # None /\ r.home[u] = r.home[v] => u = v
      BY DEF Fits, HomesFit
  <2> QED BY <1>1, <1>7, <2>1
<1>10. \A t \in Team : x.NumMembers[t] = Cardinality(Members(x, t))
  <2>1. TAKE t \in Team
  <2>2. Members(x, t) = Having(x.team, t) /\ Members(r, t) = Having(r.team, t)
      BY DEF Members, Having
  <2>3. \A u \in Player \ {p, q} : x.team[u] = r.team[u] BY <1>7
  <2>4. Cardinality(Having(x.team, t)) = Cardinality(Having(r.team, t))
    <3> DEFINE f == r.team
               h == x.team
    <3>1. h[p] = f[q] /\ h[q] = f[p] /\ \A u \in Player \ {p, q} : h[u] = f[u]
        BY <1>7
    <3>2. p \in Player /\ q \in Player BY <1>1
    <3> HIDE DEF f, h
    <3>3. Cardinality(Having(h, t)) = Cardinality(Having(f, t)) BY ONLY <3>1, <3>2, CountSwap
    <3> QED BY <3>3 DEF f, h
  <2>5. r.NumMembers[t] = Cardinality(Members(r, t)) BY RosterFacts
  <2> QED BY <1>6, <2>2, <2>4, <2>5
<1>11. InGame(x) = InGame(r)
  <2>1. r.state[p] # "gone" /\ r.state[q] # "gone" BY DEF InGame
  <2> QED BY <1>1, <1>3, <1>7, <2>1 DEF InGame
<1>12. SwappersPlay(x)
  <2>1. \A u \in Player : x.state[u] # "gone" <=> r.state[u] # "gone"
      BY <1>11 DEF InGame
  <2>2. \A u \in Team : r.Swapper[u] \in Player \cup {None} BY RosterFacts
  <2>3. SwappersPlay(r) BY DEF Fits
  <2> QED BY <1>6, <2>1, <2>2, <2>3 DEF SwappersPlay
<1>13. Cardinality(RobotsIn(x)) <= MaxRobots
  <2>1. RobotsIn(x) \subseteq RobotsIn(r) BY <1>11 DEF RobotsIn
  <2> QED BY <2>1, FewerRobots
<1>14. Fits(x) BY <1>6, <1>8, <1>9, <1>10, <1>12, <1>13, EachPlaced DEF Fits
<1> QED BY <1>6, <1>11, <1>14

LEMMA HomeFits ==
    ASSUME NEW r, Fits(r), NEW p \in Playing(r), NEW b \in Base, BaseTeam[b] = r.team[p]
    PROVE  /\ Fits(Player_change_home(r, p, b))
           /\ Player_change_home(r, p, b).NumPaused = r.NumPaused
           /\ Player_change_home(r, p, b).NumMembers = r.NumMembers
           /\ InGame(Player_change_home(r, p, b)) = InGame(r)
<1> DEFINE x == Player_change_home(r, p, b)
           H == [q \in Player |-> IF q = p THEN b
                                  ELSE IF r.home[q] = b THEN r.home[p] ELSE r.home[q]]
<1>1. /\ r \in RosterType /\ p \in Player /\ None \notin Base
    BY RosterAssumption DEF Fits, Playing, InGame
<1>2. x = [r EXCEPT !.home = H] BY DEF Player_change_home
<1>3. H \in [Player -> Base \cup {None}] BY <1>1 DEF RosterType
<1>4. \A q \in Player : H[q] = IF q = p THEN b
                               ELSE IF r.home[q] = b THEN r.home[p] ELSE r.home[q]
    OBVIOUS
<1> HIDE DEF x, H
<1>5. /\ x \in RosterType /\ x.state = r.state /\ x.team = r.team /\ x.home = H
      /\ x.NumMembers = r.NumMembers /\ x.Swapper = r.Swapper /\ x.NumPaused = r.NumPaused
    BY ONLY <1>1, <1>2, <1>3 DEF RosterType
<1>6. \A q \in Player : WellPlaced(r, q) /\ r.state[q] \in States
    BY EachPlaced, RosterFacts DEF Fits
<1>7. r.state[p] \in {"active", "out"} BY <1>6, <1>1 DEF Playing, InGame, Paused, States
<1>8. ASSUME NEW q \in Player PROVE WellPlaced(x, q)
  <2>1. CASE q = p BY <1>1, <1>4, <1>5, <1>6, <1>7, <2>1 DEF WellPlaced
  <2>2. CASE q # p /\ r.home[q] = b
    <3>1. r.state[q] \in {"active", "out"} BY <1>1, <1>6, <2>2 DEF WellPlaced, States
    <3>2. r.team[q] = r.team[p] BY <1>6, <2>2, <3>1 DEF WellPlaced
    <3>3. x.home[q] = r.home[p] /\ x.state[q] = r.state[q] /\ x.team[q] = r.team[p]
        BY <1>4, <1>5, <2>2, <3>2
    <3>4. r.home[p] \in Base /\ BaseTeam[r.home[p]] = r.team[p]
        BY <1>1, <1>6, <1>7 DEF WellPlaced
    <3>5. WellPlaced(r, q) BY <1>6
    <3> QED BY <3>1, <3>2, <3>3, <3>4, <3>5 DEF WellPlaced
  <2>3. CASE q # p /\ r.home[q] # b BY <1>4, <1>5, <1>6, <2>3 DEF WellPlaced
  <2> QED BY <2>1, <2>2, <2>3
<1>9. \A u, v \in Player : x.home[u] # None /\ x.home[u] = x.home[v] => u = v
  <2>1. \A u, v \in Player : r.home[u] # None /\ r.home[u] = r.home[v] => u = v
      BY DEF Fits, HomesFit
  <2>2. r.home[p] # None BY <1>1, <1>6, <1>7 DEF WellPlaced
  <2> QED BY <1>1, <1>4, <1>5, <2>1, <2>2
<1>10. \A t \in Team : x.NumMembers[t] = Cardinality(Members(x, t))
  <2>1. \A t \in Team : Members(x, t) = Members(r, t) BY <1>5 DEF Members
  <2> QED BY <1>5, <2>1, RosterFacts
<1>11. InGame(x) = InGame(r) BY <1>5 DEF InGame
<1>12. SwappersPlay(x) BY <1>5 DEF Fits, SwappersPlay
<1>13. Cardinality(RobotsIn(x)) <= MaxRobots
  <2>1. RobotsIn(x) \subseteq RobotsIn(r) BY <1>11 DEF RobotsIn
  <2> QED BY <2>1, FewerRobots
<1>14. Fits(x) BY <1>5, <1>8, <1>9, <1>10, <1>12, <1>13, EachPlaced DEF Fits
<1> QED BY <1>5, <1>11, <1>14 DEF x

-----------------------------------------------------------------------------
(* What the handlers are made of keeps rosters sound.                      *)

LEMMA SoundFacts ==
    ASSUME NEW r, Sound(r)
    PROVE  /\ Fits(r) /\ r \in RosterType
           /\ r.NumPaused \in Nat /\ r.NumMembers[PauseTeam] = r.NumPaused
           /\ r.NumPaused = Cardinality(Paused(r))
           /\ MaxPaused \in Nat /\ PauseTeam \in Team
<1>1. Fits(r) /\ r.NumMembers[PauseTeam] = r.NumPaused + 0 BY DEF Sound, PausedCount
<1>2. r.NumPaused \in Nat /\ r \in RosterType BY <1>1, RosterFacts
<1> QED BY <1>1, <1>2, PausedAreMembers, RosterAssumption

\* A step that leaves both counters alone.
LEMMA SameCounts ==
    ASSUME NEW r, Sound(r), NEW x, Fits(x), x.NumPaused = r.NumPaused,
           x.NumMembers[PauseTeam] = r.NumMembers[PauseTeam]
    PROVE  Sound(x)
BY DEF Sound, PausedCount, PausedBound

\* Player_swap_team to a team with room always finds a base.
LEMMA SwapsTeam ==
    ASSUME NEW r, Fits(r), NEW p \in InGame(r), NEW t \in Team \ {PauseTeam}, HasRoom(r, t),
           NEW x \in Player_swap_team(r, p, t)
    PROVE  /\ Fits(x)
           /\ x.NumPaused = r.NumPaused
           /\ x.NumMembers[PauseTeam] = r.NumMembers[PauseTeam] - One(r.team[p], PauseTeam)
           /\ InGame(x) = InGame(r)
<1>1. FreeBases(r, t) # {} BY RoomMeansBase
<1>2. PICK b \in FreeBases(r, t), s \in EntryStates(r, p, t) : x = Moved(r, p, t, b, s)
    BY <1>1 DEF Player_swap_team
<1>3. PlaceIn(r, t, b, s) BY <1>2, EntryIsPlay DEF PlaceIn
<1>4. PauseTeam \in Team /\ One(t, PauseTeam) = 0 BY RosterAssumption DEF One
<1>5. /\ Fits(Moved(r, p, t, b, s))
      /\ Moved(r, p, t, b, s).NumPaused = r.NumPaused
      /\ InGame(Moved(r, p, t, b, s)) = InGame(r)
      /\ Moved(r, p, t, b, s).NumMembers[PauseTeam] =
            r.NumMembers[PauseTeam] + One(t, PauseTeam) - One(r.team[p], PauseTeam)
    BY <1>3, <1>4, MovedFits
<1>6. r.NumMembers[PauseTeam] \in Nat /\ One(r.team[p], PauseTeam) \in Int
    BY <1>4, RosterFacts DEF One
<1>7. x.NumMembers[PauseTeam] = r.NumMembers[PauseTeam] - One(r.team[p], PauseTeam)
    BY <1>2, <1>4, <1>5, <1>6
<1> QED BY <1>2, <1>5, <1>7

LEMMA PlayerSwapsTeam ==
    ASSUME NEW r, Sound(r), NEW p \in InGame(r), r.state[p] # "paused",
           NEW t \in Team \ {PauseTeam}, HasRoom(r, t),
           NEW x \in Player_swap_team(r, p, t)
    PROVE  Sound(x) /\ InGame(x) = InGame(r)
<1>1. Fits(r) /\ p \in Player BY SoundFacts DEF InGame
<1>2. r.team[p] # PauseTeam BY <1>1 DEF Fits, TeamsFit
<1>3. One(r.team[p], PauseTeam) = 0 BY <1>2 DEF One
<1>4. /\ Fits(x) /\ x.NumPaused = r.NumPaused /\ InGame(x) = InGame(r)
      /\ x.NumMembers[PauseTeam] = r.NumMembers[PauseTeam] - 0
    BY <1>1, <1>3, SwapsTeam
<1>5. x.NumMembers[PauseTeam] = r.NumMembers[PauseTeam] BY <1>4, SoundFacts
<1> QED BY <1>4, <1>5, SameCounts

LEMMA PlayerUnpauses ==
    ASSUME NEW r, Sound(r), NEW p \in Paused(r), NEW t \in Team \ {PauseTeam}, HasRoom(r, t),
           NEW x \in Player_unpause(r, p, t)
    PROVE  Sound(x) /\ InGame(x) = InGame(r)
<1>1. Fits(r) /\ p \in InGame(r) /\ p \in Player BY SoundFacts DEF InGame, Paused
<1>2. r.team[p] = PauseTeam BY <1>1 DEF Fits, TeamsFit, Paused
<1>3. One(r.team[p], PauseTeam) = 1 BY <1>2 DEF One
<1>4. PICK y \in Player_swap_team(r, p, t) : x = [y EXCEPT !.NumPaused = @ - 1]
    BY DEF Player_unpause
<1>5. /\ Fits(y) /\ y.NumPaused = r.NumPaused /\ InGame(y) = InGame(r)
      /\ y.NumMembers[PauseTeam] = r.NumMembers[PauseTeam] - 1
    BY <1>1, <1>3, SwapsTeam
<1>6. y.NumMembers[PauseTeam] \in Nat BY <1>5, RosterFacts, RosterAssumption
<1> DEFINE k == y.NumPaused - 1
<1>7. k \in Nat /\ y.NumMembers[PauseTeam] = k /\ k <= r.NumPaused
    BY <1>5, <1>6, SoundFacts
<1>8. x = [y EXCEPT !.NumPaused = k] BY <1>4
<1> HIDE DEF k
<1>9. /\ Fits(x) /\ x.NumMembers = y.NumMembers /\ x.NumPaused = k
      /\ InGame(x) = InGame(y)
    BY <1>5, <1>7, <1>8, CountedFits
<1>10. PausedCount(x, 0) BY <1>7, <1>9 DEF PausedCount
<1>11. PausedBound(x) BY <1>7, <1>9, SoundFacts DEF Sound, PausedBound
<1> QED BY <1>5, <1>9, <1>10, <1>11 DEF Sound

\* Player_pause_forced, with the kick of all who are paused when they are too many.
LEMMA PlayerPauses ==
    ASSUME NEW r, Sound(r), NEW p \in InGame(r), NEW x \in Player_pause_forced(r, p)
    PROVE  Sound(x) /\ InGame(x) \subseteq InGame(r)
<1>1. CASE r.state[p] = "paused" BY <1>1 DEF Player_pause_forced
<1>2. CASE r.state[p] # "paused"
  <2> DEFINE ps == Paused(r) \cap Human
             y == IF FullOfPaused(r) THEN Removed(r, ps) ELSE r
  <2>1. PICK z \in Player_swap_team(y, p, PauseTeam) : x = [z EXCEPT !.NumPaused = @ + 1]
    <3>1. Player_pause_forced(r, p) =
              {[v EXCEPT !.NumPaused = @ + 1] : v \in Player_swap_team(y, p, PauseTeam)}
        BY <1>2 DEF Player_pause_forced
    <3> HIDE DEF y
    <3> QED BY <3>1
  <2>2. /\ Fits(r) /\ PausedCount(r, 0) /\ ps \in SUBSET InGame(r) /\ p \in Player
        /\ p \notin ps
      BY <1>2, SoundFacts DEF Sound, Paused, InGame
  <2>3. /\ Fits(y) /\ PausedCount(y, 0) /\ p \in InGame(y) /\ y.NumPaused \in Nat
        /\ p \notin Paused(y) /\ InGame(y) \subseteq InGame(r)
    <3>1. CASE FullOfPaused(r)
      <4>1. /\ Fits(Removed(r, ps)) /\ PausedCount(Removed(r, ps), 0)
            /\ InGame(Removed(r, ps)) = InGame(r) \ ps
            /\ Paused(Removed(r, ps)) = Paused(r) \ ps
          BY <2>2, RemovedFits
      <4>2. p \notin Paused(r) BY <1>2 DEF Paused
      <4> HIDE DEF ps
      <4> QED BY <2>2, <3>1, <4>1, <4>2, RosterFacts
    <3>2. CASE ~FullOfPaused(r) BY <1>2, <2>2, <3>2, RosterFacts DEF Paused
    <3> QED BY <3>1, <3>2
  <2>4. MaxRobots < MaxPaused => y.NumPaused + 1 <= MaxPaused
    <3>1. MaxRobots \in Nat /\ MaxPaused \in Nat BY RosterAssumption
    <3>2. CASE FullOfPaused(r)
      <4>1. Paused(Removed(r, ps)) = Paused(r) \ ps /\ Sound(Removed(r, ps))
        <5>1. /\ Fits(Removed(r, ps)) /\ PausedCount(Removed(r, ps), 0)
              /\ Removed(r, ps).NumPaused <= r.NumPaused
              /\ Paused(Removed(r, ps)) = Paused(r) \ ps
            BY <2>2, RemovedFits
        <5>2. PausedBound(Removed(r, ps))
            BY <5>1, <3>1, RosterFacts, SoundFacts DEF Sound, PausedBound
        <5> QED BY <5>1, <5>2 DEF Sound
      <4>2. Paused(y) \subseteq RobotsIn(r)
          BY <3>2, <4>1 DEF RobotsIn, Paused, InGame, Player
      <4>3. IsFiniteSet(RobotsIn(r)) BY PlayersFinite DEF RobotsIn, InGame, Player
      <4>4. Cardinality(Paused(y)) <= Cardinality(RobotsIn(r)) BY <4>2, <4>3, FS_Subset
      <4>5. y.NumPaused = Cardinality(Paused(y)) BY <3>2, <4>1, SoundFacts
      <4>6. Cardinality(RobotsIn(r)) <= MaxRobots BY <2>2 DEF Fits
      <4>7. Cardinality(RobotsIn(r)) \in Nat BY <4>3, FS_CardinalityType
      <4> HIDE DEF y
      <4> QED BY <2>3, <3>1, <4>4, <4>5, <4>6, <4>7
    <3>3. CASE ~FullOfPaused(r)
      <4>1. r.NumPaused < MaxPaused /\ r.NumPaused \in Nat
          BY <3>1, <3>3, SoundFacts DEF FullOfPaused
      <4> QED BY <3>1, <3>3, <4>1
    <3> QED BY <3>2, <3>3
  <2> HIDE DEF y
  <2>5. z = Moved(y, p, PauseTeam, None, "paused") BY <2>1 DEF Player_swap_team
  <2>6. y.team[p] # PauseTeam
      BY <2>2, <2>3 DEF Fits, TeamsFit, Paused
  <2>7. PlaceIn(y, PauseTeam, None, "paused") /\ PauseTeam \in Team
      BY RosterAssumption DEF PlaceIn
  <2>8. /\ Fits(z) /\ z.NumPaused = y.NumPaused /\ InGame(z) = InGame(y)
        /\ z.NumMembers[PauseTeam] = y.NumMembers[PauseTeam] + 1
    <3>1. /\ Fits(z) /\ z.NumPaused = y.NumPaused /\ InGame(z) = InGame(y)
          /\ \A u \in Team : z.NumMembers[u] =
                                 y.NumMembers[u] + One(PauseTeam, u) - One(y.team[p], u)
        BY <2>3, <2>5, <2>7, MovedFits
    <3>2. One(PauseTeam, PauseTeam) = 1 /\ One(y.team[p], PauseTeam) = 0
        BY <2>6 DEF One
    <3>3. y.NumMembers[PauseTeam] \in Nat BY <2>3, <2>7, RosterFacts
    <3> QED BY <2>7, <3>1, <3>2, <3>3
  <2> DEFINE k == y.NumPaused + 1
  <2>9. k \in Nat /\ x = [z EXCEPT !.NumPaused = k] BY <2>1, <2>3, <2>8
  <2>10. z.NumMembers[PauseTeam] = k
    <3>1. y.NumMembers[PauseTeam] = y.NumPaused + 0 BY <2>3 DEF PausedCount
    <3> QED BY <2>3, <2>8, <3>1
  <2>11. MaxRobots < MaxPaused => k <= MaxPaused BY <2>4
  <2> HIDE DEF k
  <2>12. Fits(x) /\ x.NumMembers = z.NumMembers /\ x.NumPaused = k /\ InGame(x) = InGame(z)
      BY <2>8, <2>9, CountedFits
  <2>13. PausedCount(x, 0) /\ PausedBound(x)
      BY <2>9, <2>10, <2>11, <2>12 DEF PausedCount, PausedBound
  <2> QED BY <2>3, <2>8, <2>12, <2>13 DEF Sound
<1> QED BY <1>1, <1>2

LEMMA TeamsExchange ==
    ASSUME NEW r, Sound(r), NEW p \in InGame(r), NEW q \in InGame(r), p # q,
           NEW x \in Players_swap_teams(r, p, q)
    PROVE  Sound(x) /\ InGame(x) = InGame(r)
<1>1. /\ Fits(x) /\ x.NumPaused = r.NumPaused /\ x.NumMembers = r.NumMembers
      /\ InGame(x) = InGame(r)
    BY SwapFits, SoundFacts
<1> QED BY <1>1, SameCounts

\* Cmd_team, after the player has been taken from the queues.
LEMMA TeamCommand ==
    ASSUME NEW r, Sound(r), NEW p \in InGame(r), NEW t \in Team,
           \A u \in Team : r.Swapper[u] # p,
           NEW x \in CmdTeam(r, p, t)
    PROVE  /\ Sound(x) /\ InGame(x) \subseteq InGame(r)
           /\ t # PauseTeam => InGame(x) = InGame(r)
<1> DEFINE q == r.Swapper[r.team[p]]
<1>1. /\ Fits(r) /\ p \in Player /\ r.team[p] \in Team
      /\ r.state[p] = "paused" <=> r.team[p] = PauseTeam
      /\ q \in Player \cup {None} /\ None \notin Player
  <2>1. Fits(r) /\ p \in Player BY SoundFacts DEF InGame
  <2> QED BY <2>1, RosterFacts, RosterAssumption DEF Fits, TeamsFit
<1>2. q # None => q \in InGame(r) /\ q # p
    BY <1>1 DEF Fits, SwappersPlay, InGame
<1>3. CASE x = r BY <1>3
<1>4. CASE Refused(r, p, t) BY <1>4, <1>3 DEF CmdTeam
<1>5. CASE ~Refused(r, p, t) /\ ~HasRoom(r, t)
  <2>1. x \in CmdTeamFull(r, p, t) BY <1>5 DEF CmdTeam
  <2>2. t # r.team[p] BY <1>5 DEF Refused
  <2> DEFINE idle == {v \in Human \cap Paused(r) : r.team[v] = t}
  <2>3. CASE q # None /\ r.team[q] = t
    <3>1. x \in Players_swap_teams(r, p, q) BY <2>1, <2>3 DEF CmdTeamFull
    <3> HIDE DEF q
    <3> QED BY <1>2, <2>3, <3>1, TeamsExchange
  <2>4. CASE ~(q # None /\ r.team[q] = t) /\ idle # {}
    <3>1. PICK v \in idle : x \in Players_swap_teams(r, p, v)
        BY <2>1, <2>4 DEF CmdTeamFull
    <3>2. v \in InGame(r) /\ v # p BY <2>2 DEF InGame, Paused
    <3> QED BY <3>1, <3>2, TeamsExchange
  <2>5. CASE ~(q # None /\ r.team[q] = t) /\ idle = {}
    <3>1. x = [r EXCEPT !.Swapper[t] = p] BY <2>1, <2>5 DEF CmdTeamFull
    <3>2. /\ Fits(x) /\ x.NumMembers = r.NumMembers /\ x.NumPaused = r.NumPaused
          /\ InGame(x) = InGame(r)
        BY <1>1, <3>1, QueuedFits
    <3> QED BY <3>2, SameCounts
  <2> QED BY <2>3, <2>4, <2>5
<1>6. CASE ~Refused(r, p, t) /\ HasRoom(r, t) /\ q # None
  <2>1. x \in Players_swap_teams(r, p, q) BY <1>6 DEF CmdTeam
  <2> HIDE DEF q
  <2> QED BY <1>2, <1>6, <2>1, TeamsExchange
<1>7. CASE /\ ~Refused(r, p, t) /\ HasRoom(r, t) /\ q = None
           /\ r.state[p] = "paused" /\ x # r
  <2>1. x \in Player_unpause(r, p, t) BY <1>7 DEF CmdTeam
  <2>2. t # PauseTeam BY <1>1, <1>7 DEF Refused
  <2>3. p \in Paused(r) BY <1>1, <1>7 DEF Paused
  <2> QED BY <1>7, <2>1, <2>2, <2>3, PlayerUnpauses
<1>8. CASE /\ ~Refused(r, p, t) /\ HasRoom(r, t) /\ q = None
           /\ r.state[p] # "paused" /\ t = PauseTeam /\ x # r
  <2>1. x \in Player_pause_forced(r, p) BY <1>8 DEF CmdTeam
  <2> QED BY <1>8, <2>1, PlayerPauses
<1>9. CASE /\ ~Refused(r, p, t) /\ HasRoom(r, t) /\ q = None
           /\ r.state[p] # "paused" /\ t # PauseTeam /\ x # r
  <2>1. x \in Player_swap_team(r, p, t) BY <1>9 DEF CmdTeam
  <2> QED BY <1>9, <2>1, PlayerSwapsTeam
<1> QED BY <1>3, <1>4, <1>5, <1>6, <1>7, <1>8, <1>9

-----------------------------------------------------------------------------
(* The handlers.                                                           *)

LEMMA LeaveSound ==
    ASSUME RosterInv, NEW p \in Player, Leave(p) PROVE RosterInv'
<1> DEFINE r == roster
           x == Removed(r, {p})
<1>1. Sound(r) /\ roster' = x /\ {p} \in SUBSET InGame(r) BY DEF RosterInv, Leave
<1> HIDE DEF r
<1>2. Fits(x) /\ PausedCount(x, 0) /\ x.NumPaused <= r.NumPaused
    BY <1>1, RemovedFits DEF Sound
<1>3. x.NumPaused \in Nat BY <1>2, RosterFacts
<1>4. PausedBound(x)
    BY <1>1, <1>2, <1>3, SoundFacts DEF Sound, PausedBound
<1> QED BY <1>1, <1>2, <1>4 DEF RosterInv, Sound

LEMMA LoginSound ==
    ASSUME RosterInv, NEW p \in Player, NEW t \in Team \ {PauseTeam}, Login(p, t)
    PROVE  RosterInv'
<1>1. PICK b \in FreeBases(roster, t), s \in EntryStates(roster, p, t) :
          roster' = Joined(roster, p, t, b, s)
    BY DEF Login
<1>2. p \in Player /\ p \notin InGame(roster) /\ p \notin Robot
    BY RosterAssumption DEF Login
<1>3. s \in {"active", "out"} BY EntryIsPlay
<1>4. Sound(roster) BY DEF RosterInv
<1>5. /\ Fits(roster') /\ roster'.NumPaused = roster.NumPaused
      /\ roster'.NumMembers[PauseTeam] = roster.NumMembers[PauseTeam]
  <2> DEFINE x == Joined(roster, p, t, b, s)
  <2>1. Fits(roster) BY <1>4, SoundFacts
  <2>2. p \notin Robot \/ Cardinality(RobotsIn(roster)) < MaxRobots BY <1>2
  <2>3. /\ Fits(x) /\ x.NumPaused = roster.NumPaused
        /\ x.NumMembers[PauseTeam] = roster.NumMembers[PauseTeam]
      BY <1>2, <1>3, <2>1, <2>2, JoinedFits
  <2> QED BY <1>1, <2>3
<1>6. Sound(roster') BY <1>4, <1>5, SameCounts
<1> QED BY <1>6 DEF RosterInv

LEMMA CmdTeamSound ==
    ASSUME RosterInv, NEW p \in Player, NEW t \in Team, Cmd_team(p, t)
    PROVE  /\ RosterInv' /\ InGame(roster') \subseteq InGame(roster)
           /\ t # PauseTeam => InGame(roster') = InGame(roster)
<1> DEFINE x == Dequeued(roster, p)
<1>1. Sound(roster) /\ p \in InGame(roster) /\ p # None
    BY RosterAssumption DEF RosterInv, Cmd_team
<1>2. /\ Fits(x) /\ x.NumMembers = roster.NumMembers /\ x.NumPaused = roster.NumPaused
      /\ InGame(x) = InGame(roster)
      /\ \A u \in Team : x.Swapper[u] # p
    BY <1>1, DequeuedFits, SoundFacts
<1> HIDE DEF x
<1>3. Sound(x) BY <1>1, <1>2, SameCounts
<1>4. CASE t = PauseTeam /\ roster' = Crash(x, "Player_is_close_to_base")
  <2>1. "Player_is_close_to_base" \in Places BY DEF Places
  <2>2. /\ Fits(roster') /\ roster'.NumPaused = x.NumPaused /\ InGame(roster') = InGame(x)
        /\ \A n \in Int : PausedCount(x, n) => PausedCount(roster', n)
      BY <1>2, <1>4, <2>1, CrashFits
  <2>3. PausedCount(roster', 0) BY <1>3, <2>2 DEF Sound
  <2>4. PausedBound(roster') BY <1>3, <2>2 DEF Sound, PausedBound
  <2> QED BY <1>2, <1>4, <2>2, <2>3, <2>4 DEF RosterInv, Sound
<1>5. CASE roster' \in CmdTeam(x, p, t)
  <2>1. /\ Sound(roster') /\ InGame(roster') \subseteq InGame(x)
        /\ t # PauseTeam => InGame(roster') = InGame(x)
      BY <1>1, <1>2, <1>3, <1>5, TeamCommand
  <2> QED BY <1>2, <2>1 DEF RosterInv
<1>6. CASE roster' = x BY <1>2, <1>3, <1>6 DEF RosterInv
<1>7. \/ t = PauseTeam /\ roster' = Crash(x, "Player_is_close_to_base")
      \/ roster' \in CmdTeam(x, p, t)
      \/ roster' = x
    BY DEF Cmd_team, x
<1> QED BY <1>4, <1>5, <1>6, <1>7

LEMMA UnpauseSound ==
    ASSUME RosterInv, NEW p \in Player, Unpause(p)
    PROVE  RosterInv' /\ InGame(roster') = InGame(roster)
<1>1. PICK t \in Team_find_available(roster) : roster' \in Player_unpause(roster, p, t)
    BY DEF Unpause
<1>2. t \in Team \ {PauseTeam} /\ HasRoom(roster, t)
    BY DEF Team_find_available
<1>3. Sound(roster) /\ p \in Paused(roster) BY DEF RosterInv, Unpause
<1>4. Sound(roster') /\ InGame(roster') = InGame(roster)
    BY <1>1, <1>2, <1>3, PlayerUnpauses
<1> QED BY <1>4 DEF RosterInv

LEMMA RobotAddSound ==
    ASSUME RosterInv, NEW p \in Player, NEW n, Robot_add(p, n)
    PROVE  /\ RosterInv'
           /\ p \in Robot /\ InGame(roster') \subseteq InGame(roster) \cup {p}
<1>1. /\ Sound(roster) /\ p \in Robot /\ p \notin InGame(roster)
      /\ Cardinality(RobotsIn(roster)) < MaxRobots
      /\ RobotTeam \in Team \ {PauseTeam}
      /\ roster' \in Robot_added(roster, p)
    BY RosterAssumption DEF RosterInv, Robot_add, MayAddRobot
<1>2. CASE roster' = Crash(roster, "Robot_destroy")
  <2>1. "Robot_destroy" \in Places BY DEF Places
  <2>2. /\ Fits(roster') /\ roster'.NumPaused = roster.NumPaused
        /\ InGame(roster') = InGame(roster)
        /\ \A k \in Int : PausedCount(roster, k) => PausedCount(roster', k)
      BY <1>1, <1>2, <2>1, CrashFits, SoundFacts
  <2>3. PausedCount(roster', 0) BY <1>1, <2>2 DEF Sound
  <2>4. PausedBound(roster') BY <1>1, <2>2 DEF Sound, PausedBound
  <2> QED BY <1>1, <2>2, <2>3, <2>4 DEF RosterInv, Sound
<1>3. CASE roster' = roster BY <1>1, <1>3 DEF RosterInv
<1>4. CASE \E b \in FreeBases(roster, RobotTeam), s \in EntryStates(roster, p, RobotTeam) :
               roster' = Joined(roster, p, RobotTeam, b, s)
  <2>1. PICK b \in FreeBases(roster, RobotTeam), s \in EntryStates(roster, p, RobotTeam) :
            roster' = Joined(roster, p, RobotTeam, b, s)
      BY <1>4
  <2>2. s \in {"active", "out"} BY <1>1, EntryIsPlay
  <2>3. /\ Fits(roster') /\ roster'.NumPaused = roster.NumPaused
        /\ InGame(roster') = InGame(roster) \cup {p}
        /\ roster'.NumMembers[PauseTeam] = roster.NumMembers[PauseTeam]
      BY <1>1, <2>1, <2>2, JoinedFits, SoundFacts
  <2>4. Sound(roster') BY <1>1, <2>3, SameCounts
  <2> QED BY <1>1, <2>3, <2>4 DEF RosterInv
<1> QED BY <1>1, <1>2, <1>3, <1>4 DEF Robot_added

LEMMA RosterInitSound == ASSUME RosterInit PROVE RosterInv
<1>1. None \notin Player /\ None \notin Team /\ None \notin Base /\ MaxRobots \in Nat
      /\ PauseTeam \in Team
    BY RosterAssumption
<1>2. /\ roster \in RosterType
      /\ \A p \in Player : /\ roster.state[p] = "gone" /\ roster.team[p] = None
                           /\ roster.home[p] = None
      /\ \A t \in Team : roster.NumMembers[t] = 0 /\ roster.Swapper[t] = None
      /\ roster.NumPaused = 0
    BY DEF RosterInit, RosterType, States, Places
<1>3. \A t \in Team : Members(roster, t) = {} BY <1>1, <1>2 DEF Members
<1>4. RobotsIn(roster) = {} BY <1>2 DEF RobotsIn, InGame
<1>5. \A t \in Team : roster.NumMembers[t] = Cardinality(Members(roster, t))
    BY <1>2, <1>3, FS_EmptySet
<1>6. Cardinality(RobotsIn(roster)) <= MaxRobots BY <1>1, <1>4, FS_EmptySet
<1>7. HomesFit(roster) BY <1>2 DEF HomesFit
<1>8. TeamsFit(roster) BY <1>1, <1>2, <1>5 DEF TeamsFit
<1>9. SwappersPlay(roster) BY <1>2 DEF SwappersPlay
<1>10. PausedCount(roster, 0) BY <1>1, <1>2 DEF PausedCount
<1>11. PausedBound(roster) BY <1>2, RosterAssumption DEF PausedBound
<1> QED BY <1>2, <1>6, <1>7, <1>8, <1>9, <1>10, <1>11 DEF RosterInv, Sound, Fits

LEMMA RosterNextSound == ASSUME RosterInv, [RosterNext]_roster PROVE RosterInv'
<1>0. Sound(roster) BY DEF RosterInv
<1>1. ASSUME NEW p \in Player, Leave(p) PROVE RosterInv' BY <1>1, LeaveSound
<1>2. ASSUME NEW p \in Player, NEW t \in Team \ {PauseTeam}, Login(p, t) PROVE RosterInv'
    BY <1>2, LoginSound
<1>3. ASSUME NEW p \in Player, NEW t \in Team, Cmd_team(p, t) PROVE RosterInv'
    BY <1>3, CmdTeamSound
<1>4. ASSUME NEW p \in Player, Pause(p) PROVE RosterInv'
    BY <1>0, <1>4, PlayerPauses DEF Pause, RosterInv
<1>5. ASSUME NEW p \in Player, Unpause(p) PROVE RosterInv' BY <1>5, UnpauseSound
<1>6. ASSUME NEW p \in Player, NEW b \in Base, Change_home(p, b) PROVE RosterInv'
  <2>1. p \in Playing(roster) /\ roster' = Player_change_home(roster, p, b)
      BY <1>6 DEF Change_home, Playing, InGame, Paused
  <2>2. /\ Fits(roster') /\ roster'.NumPaused = roster.NumPaused
        /\ roster'.NumMembers = roster.NumMembers
      BY <1>0, <1>6, <2>1, HomeFits, SoundFacts DEF Change_home
  <2>3. Sound(roster') BY <1>0, <2>2, SameCounts
  <2> QED BY <2>3 DEF RosterInv
<1>7. ASSUME NEW p \in Player, Robot_add(p, 0) PROVE RosterInv' BY <1>7, RobotAddSound
<1>8. ASSUME NEW p \in Player, NEW s \in {"active", "out"}, Round(p, s) PROVE RosterInv'
  <2>1. p \in Playing(roster) /\ roster' = [roster EXCEPT !.state[p] = s] BY <1>8 DEF Round
  <2>2. /\ Fits(roster') /\ roster'.NumPaused = roster.NumPaused
        /\ roster'.NumMembers = roster.NumMembers
      BY <1>0, <2>1, RoundFits, SoundFacts
  <2>3. Sound(roster') BY <1>0, <2>2, SameCounts
  <2> QED BY <2>3 DEF RosterInv
<1>9. CASE UNCHANGED roster BY <1>0, <1>9 DEF RosterInv
<1> QED BY <1>1, <1>2, <1>3, <1>4, <1>5, <1>6, <1>7, <1>8, <1>9 DEF RosterNext

-----------------------------------------------------------------------------
(* Results.                                                                *)

LEMMA SoundIsSafe == ASSUME RosterInv PROVE RosterSafe
<1>1. Sound(roster) /\ Fits(roster) BY SoundFacts DEF RosterInv
<1>2. RosterTypeOK BY <1>1 DEF Fits, RosterTypeOK, RosterType, States, Places
<1>3. \A p \in Player : WellPlaced(roster, p) /\ roster.state[p] \in States
    BY <1>1, EachPlaced, RosterFacts DEF Fits
<1>4. BasesAreExclusive
  <2>1. None \notin Base BY RosterAssumption
  <2>2. \A p \in Player : /\ p \in Playing(roster) <=> roster.state[p] \in {"active", "out"}
                          /\ p \notin Playing(roster) <=> roster.state[p] \in {"gone", "paused"}
      BY <1>3 DEF Playing, InGame, Paused, States
  <2>3. \A p, q \in Player : roster.home[p] # None /\ roster.home[p] = roster.home[q] => p = q
      BY <1>1 DEF Fits, HomesFit
  <2>4. Playing(roster) \subseteq Player BY DEF Playing, InGame
  <2>5. \A p \in Player :
            /\ p \in Playing(roster) =>
                   roster.home[p] # None /\ BaseTeam[roster.home[p]] = roster.team[p]
            /\ p \notin Playing(roster) => roster.home[p] = None
      BY <1>3, <2>1, <2>2 DEF WellPlaced
  <2> QED BY <2>3, <2>4, <2>5 DEF BasesAreExclusive
<1>5. CountersAgree
  <2>1. \A t \in Team : roster.NumMembers[t] = Cardinality(Members(roster, t))
      BY <1>1, RosterFacts
  <2>2. roster.NumPaused = Cardinality(Paused(roster)) BY <1>1, SoundFacts
  <2>3. \A p \in Player : /\ p \in Paused(roster) <=> roster.team[p] = PauseTeam
                          /\ p \in InGame(roster) <=> roster.team[p] # None
      BY <1>3 DEF WellPlaced, Paused, InGame
  <2> QED BY <2>1, <2>2, <2>3 DEF CountersAgree
<1>6. PausedFit
  <2>1. SUFFICES ASSUME MaxRobots < MaxPaused
                 PROVE  Cardinality(Human \cap Paused(roster)) <= MaxPaused
      BY DEF PausedFit
  <2>2. roster.NumPaused <= MaxPaused BY <1>1, <2>1 DEF Sound, PausedBound
  <2>3. IsFiniteSet(Paused(roster)) BY PlayersFinite DEF Paused
  <2>4. /\ Cardinality(Human \cap Paused(roster)) <= Cardinality(Paused(roster))
        /\ Cardinality(Human \cap Paused(roster)) \in Nat
    <3> DEFINE A == Human \cap Paused(roster)
    <3>1. A \subseteq Paused(roster) OBVIOUS
    <3> HIDE DEF A
    <3>2. IsFiniteSet(A) /\ Cardinality(A) <= Cardinality(Paused(roster))
        BY <2>3, <3>1, FS_Subset
    <3>3. Cardinality(A) \in Nat BY <3>2, FS_CardinalityType
    <3> QED BY <3>2, <3>3 DEF A
  <2> QED BY <1>1, <2>2, <2>4, SoundFacts
<1> QED BY <1>2, <1>4, <1>5, <1>6 DEF RosterSafe

\* Whoever joins, leaves, pauses, changes teams or is exchanged with another: every
\* player in play has a base of the team to itself, and the counters that decide
\* who may come agree with the players there are.
THEOREM RosterIsSafe == RosterSpec => []RosterSafe
<1>1. RosterInit => RosterInv BY RosterInitSound
<1>2. RosterInv /\ [RosterNext]_roster => RosterInv' BY RosterNextSound
<1>3. RosterInv => RosterSafe BY SoundIsSafe
<1> QED BY <1>1, <1>2, <1>3, PTL DEF RosterSpec

\* Player_swap_team never fails to find a base: whoever changes teams or unpauses
\* stays in the game, and so does everybody else.
THEOREM TeamChangesKeepPlayers == RosterSpec => ChangingTeamsIsSafe
<1> DEFINE A == \A p \in Player :
               (Unpause(p) \/ \E t \in Team \ {PauseTeam} : Cmd_team(p, t))
                   => InGame(roster') = InGame(roster)
<1>1. RosterInit => RosterInv BY RosterInitSound
<1>2. RosterInv /\ [RosterNext]_roster => RosterInv' BY RosterNextSound
<1>3. RosterInv /\ [RosterNext]_roster => [A]_roster
  <2>1. ASSUME RosterInv, NEW p \in Player, Unpause(p) PROVE InGame(roster') = InGame(roster)
      BY <2>1, UnpauseSound
  <2>2. ASSUME RosterInv, NEW p \in Player, NEW t \in Team \ {PauseTeam}, Cmd_team(p, t)
        PROVE  InGame(roster') = InGame(roster)
      BY <2>2, CmdTeamSound
  <2> QED BY <2>1, <2>2
<1> QED BY <1>1, <1>2, <1>3, PTL DEF RosterSpec, ChangingTeamsIsSafe

-----------------------------------------------------------------------------
(* The queue.                                                              *)

Entry == [who : Human, team : Team \cup {None}, entering : BOOLEAN]

EnteringBefore(q) == \A i, j \in DOMAIN q : i < j /\ q[j].entering => q[i].entering

NamesApart(q) == \A i, j \in DOMAIN q : NameOf[q[i].who] = NameOf[q[j].who] => i = j

QueueFits(q) ==
    /\ q \in Seq(Entry)
    /\ Len(q) <= MaxQueued
    /\ EnteringBefore(q)
    /\ NamesApart(q)

\* f gives the places from which n entries are taken, in order.
Thinning(q, n, f) ==
    /\ f \in [1 .. n -> DOMAIN q]
    /\ \A i, j \in 1 .. n : i < j => f[i] < f[j]

LEMMA ThinnedFits ==
    ASSUME NEW q, QueueFits(q), NEW n \in Nat, NEW f, Thinning(q, n, f)
    PROVE  QueueFits([i \in 1 .. n |-> q[f[i]]])
<1> DEFINE w == [i \in 1 .. n |-> q[f[i]]]
<1>1. /\ q \in Seq(Entry) /\ Len(q) \in Nat /\ DOMAIN q = 1 .. Len(q)
      /\ \A k \in 1 .. Len(q) : q[k] \in Entry
    BY LenProperties, ElementOfSeq DEF QueueFits
<1>2. \A i \in 1 .. n : f[i] \in 1 .. Len(q) /\ w[i] = q[f[i]]
    BY <1>1 DEF Thinning
<1>3. w \in Seq(Entry) /\ Len(w) = n /\ DOMAIN w = 1 .. n
  <2>1. \A i \in 1 .. n : w[i] \in Entry BY <1>1, <1>2
  <2>2. w \in [1 .. n -> Entry] BY <2>1
  <2> HIDE DEF w
  <2> QED BY <2>2, IsASeq, LenProperties
<1>4. \A i, j \in 1 .. n : f[i] = f[j] => i = j
  <2>1. SUFFICES ASSUME NEW i \in 1 .. n, NEW j \in 1 .. n, f[i] = f[j] PROVE i = j
      OBVIOUS
  <2>2. f[i] \in Int /\ f[j] \in Int /\ i \in Int /\ j \in Int BY <1>2
  <2>3. ~(i < j) /\ ~(j < i) BY <2>1, <2>2 DEF Thinning
  <2> QED BY <2>2, <2>3
<1>5. n <= Len(q)
  <2>1. f \in Injection(1 .. n, 1 .. Len(q))
      BY <1>1, <1>4 DEF Thinning, Injection, IsInjective
  <2>2. /\ IsFiniteSet(1 .. n) /\ IsFiniteSet(1 .. Len(q))
        /\ Cardinality(1 .. n) = n /\ Cardinality(1 .. Len(q)) = Len(q)
    <3>1. \A m \in Nat : IsFiniteSet(1 .. m) /\ Cardinality(1 .. m) = m
      <4>1. \A m \in Nat : /\ IsFiniteSet(1 .. m)
                            /\ Cardinality(1 .. m) = IF 1 > m THEN 0 ELSE m - 1 + 1
          BY FS_Interval
      <4> QED BY <4>1
    <3> QED BY <1>1, <3>1
  <2>3. Cardinality(1 .. n) <= Cardinality(1 .. Len(q)) BY <2>1, <2>2, FS_Injection
  <2> QED BY <2>2, <2>3
<1>6. Len(w) <= MaxQueued
    BY <1>1, <1>3, <1>5, LoginAssumption DEF QueueFits
<1>7. EnteringBefore(w)
  <2>1. SUFFICES ASSUME NEW i \in 1 .. n, NEW j \in 1 .. n, i < j, w[j].entering
                 PROVE  w[i].entering
      BY <1>3 DEF EnteringBefore
  <2>2. f[i] < f[j] /\ f[i] \in DOMAIN q /\ f[j] \in DOMAIN q
      BY <2>1, <1>1, <1>2 DEF Thinning
  <2>3. q[f[j]].entering BY <2>1, <1>2
  <2>4. q[f[i]].entering BY <2>2, <2>3 DEF QueueFits, EnteringBefore
  <2> QED BY <1>2, <2>4
<1>8. NamesApart(w)
  <2>1. SUFFICES ASSUME NEW i \in 1 .. n, NEW j \in 1 .. n,
                        NameOf[w[i].who] = NameOf[w[j].who]
                 PROVE  i = j
      BY <1>3 DEF NamesApart
  <2>2. NameOf[q[f[i]].who] = NameOf[q[f[j]].who] BY <2>1, <1>2
  <2>3. f[i] = f[j] BY <1>1, <1>2, <2>2 DEF QueueFits, NamesApart
  <2> QED BY <1>4, <2>3
<1> QED BY <1>3, <1>6, <1>7, <1>8 DEF QueueFits

LEMMA RemovalIs ==
    ASSUME NEW S, NEW q \in Seq(S), NEW k \in DOMAIN q
    PROVE  /\ RemoveAt(q, k) \in Seq(S)
           /\ Len(RemoveAt(q, k)) = Len(q) - 1
           /\ \A i \in 1 .. Len(q) - 1 :
                  RemoveAt(q, k)[i] = IF i < k THEN q[i] ELSE q[i + 1]
<1> DEFINE a == SubSeq(q, 1, k - 1)
           b == SubSeq(q, k + 1, Len(q))
<1>1. Len(q) \in Nat /\ k \in Int /\ 1 <= k /\ k <= Len(q)
    BY LenProperties
<1>2. /\ a \in Seq(S) /\ Len(a) = k - 1
      /\ \A i \in 1 .. (k - 1) : a[i] = q[i]
    BY <1>1, SubSeqProperties
<1>3. /\ b \in Seq(S) /\ Len(b) = Len(q) - k
      /\ \A i \in 1 .. (Len(q) - k) : b[i] = q[i + k]
    BY <1>1, SubSeqProperties
<1> HIDE DEF a, b
<1>4. /\ a \o b \in Seq(S) /\ Len(a \o b) = Len(a) + Len(b)
      /\ \A i \in 1 .. Len(a) + Len(b) :
             (a \o b)[i] = IF i <= Len(a) THEN a[i] ELSE b[i - Len(a)]
    BY <1>2, <1>3, ConcatProperties
<1>5. Len(a \o b) = Len(q) - 1 BY <1>1, <1>2, <1>3, <1>4
<1>6. ASSUME NEW i \in 1 .. Len(q) - 1
      PROVE  (a \o b)[i] = IF i < k THEN q[i] ELSE q[i + 1]
  <2>1. i \in 1 .. Len(a) + Len(b) BY <1>1, <1>2, <1>3
  <2>2. CASE i < k BY <1>1, <1>2, <1>4, <2>1, <2>2
  <2>3. CASE i >= k
    <3>1. (a \o b)[i] = b[i - (k - 1)] BY <1>1, <1>2, <1>4, <2>1, <2>3
    <3>2. i - (k - 1) \in 1 .. (Len(q) - k) BY <1>1, <2>3
    <3>3. b[i - (k - 1)] = q[(i - (k - 1)) + k] BY <1>3, <3>2
    <3>4. (i - (k - 1)) + k = i + 1 BY <1>1
    <3> QED BY <1>1, <2>3, <3>1, <3>3, <3>4
  <2>4. i < k \/ i >= k BY <1>1
  <2> QED BY <2>2, <2>3, <2>4
<1>7. RemoveAt(q, k) = a \o b BY DEF RemoveAt, a, b
<1> QED BY <1>4, <1>5, <1>6, <1>7

LEMMA InsertionIs ==
    ASSUME NEW S, NEW q \in Seq(S), NEW k \in 1 .. Len(q) + 1, NEW e \in S
    PROVE  /\ InsertAt(q, k, e) \in Seq(S)
           /\ Len(InsertAt(q, k, e)) = Len(q) + 1
           /\ \A i \in 1 .. Len(q) + 1 :
                  InsertAt(q, k, e)[i] = IF i < k THEN q[i] ELSE IF i = k THEN e ELSE q[i - 1]
<1> DEFINE a == SubSeq(q, 1, k - 1)
           b == SubSeq(q, k, Len(q))
           c == a \o <<e>>
<1>1. Len(q) \in Nat /\ k \in Int /\ 1 <= k /\ k <= Len(q) + 1
    BY LenProperties
<1>2. /\ a \in Seq(S) /\ Len(a) = k - 1
      /\ \A i \in 1 .. (k - 1) : a[i] = q[i]
    BY <1>1, SubSeqProperties
<1>3. /\ b \in Seq(S) /\ Len(b) = Len(q) - k + 1
      /\ \A i \in 1 .. (Len(q) - k + 1) : b[i] = q[i + k - 1]
    BY <1>1, SubSeqProperties
<1> HIDE DEF a, b
<1>4. c \in Seq(S) /\ Len(c) = k /\ c[k] = e /\ \A i \in 1 .. k - 1 : c[i] = q[i]
  <2>1. c = Append(a, e) BY <1>2, AppendIsConcat
  <2>2. /\ Append(a, e) \in Seq(S) /\ Len(Append(a, e)) = Len(a) + 1
        /\ Append(a, e)[Len(a) + 1] = e
        /\ \A i \in 1 .. Len(a) : Append(a, e)[i] = a[i]
      BY <1>2, AppendProperties
  <2>3. Len(a) + 1 = k BY <1>1, <1>2
  <2> HIDE DEF c
  <2> QED BY <1>2, <2>1, <2>2, <2>3
<1> HIDE DEF c
<1>5. /\ c \o b \in Seq(S) /\ Len(c \o b) = Len(c) + Len(b)
      /\ \A i \in 1 .. Len(c) + Len(b) :
             (c \o b)[i] = IF i <= Len(c) THEN c[i] ELSE b[i - Len(c)]
    BY <1>3, <1>4, ConcatProperties
<1>6. Len(c \o b) = Len(q) + 1 BY <1>1, <1>3, <1>4, <1>5
<1>7. ASSUME NEW i \in 1 .. Len(q) + 1
      PROVE  (c \o b)[i] = IF i < k THEN q[i] ELSE IF i = k THEN e ELSE q[i - 1]
  <2>1. i \in 1 .. Len(c) + Len(b) BY <1>1, <1>3, <1>4
  <2>2. CASE i < k
    <3>1. i \in 1 .. k - 1 /\ i <= Len(c) BY <1>1, <1>4, <2>2
    <3>2. (c \o b)[i] = c[i] BY <1>5, <2>1, <3>1
    <3> QED BY <1>4, <2>2, <3>1, <3>2
  <2>3. CASE i = k BY <1>1, <1>4, <1>5, <2>1, <2>3
  <2>4. CASE i > k
    <3>1. (c \o b)[i] = b[i - k] BY <1>1, <1>4, <1>5, <2>1, <2>4
    <3>2. i - k \in 1 .. (Len(q) - k + 1) BY <1>1, <2>4
    <3>3. b[i - k] = q[(i - k) + k - 1] BY <1>3, <3>2
    <3>4. (i - k) + k - 1 = i - 1 BY <1>1
    <3> QED BY <1>1, <2>4, <3>1, <3>3, <3>4
  <2>5. i < k \/ i = k \/ i > k BY <1>1
  <2> QED BY <2>2, <2>3, <2>4, <2>5
<1>8. InsertAt(q, k, e) = c \o b BY DEF InsertAt, a, b, c
<1> QED BY <1>5, <1>6, <1>7, <1>8

LEMMA RemovalFits ==
    ASSUME NEW q, QueueFits(q), NEW k \in DOMAIN q
    PROVE  QueueFits(RemoveAt(q, k))
<1> DEFINE n == Len(q) - 1
           f == [i \in 1 .. n |-> IF i < k THEN i ELSE i + 1]
           w == [i \in 1 .. n |-> q[f[i]]]
           v == RemoveAt(q, k)
<1>1. /\ q \in Seq(Entry) /\ Len(q) \in Nat /\ DOMAIN q = 1 .. Len(q)
      /\ k \in Int /\ 1 <= k /\ k <= Len(q) /\ n \in Nat
    BY LenProperties DEF QueueFits
<1>2. Thinning(q, n, f) BY <1>1 DEF Thinning
<1>3. QueueFits(w)
  <2> HIDE DEF n, f
  <2> QED BY <1>1, <1>2, ThinnedFits
<1>4. v \in Seq(Entry) /\ Len(v) = n
      /\ \A i \in 1 .. n : v[i] = IF i < k THEN q[i] ELSE q[i + 1]
    BY <1>1, RemovalIs
<1>5. w \in Seq(Entry) /\ Len(w) = n
    BY <1>1, <1>3, LenProperties DEF QueueFits
<1>6. \A i \in 1 .. n : v[i] = w[i] BY <1>4
<1>7. v = w
  <2> HIDE DEF v, w, n
  <2> QED BY <1>4, <1>5, <1>6, SeqEqual
<1> QED BY <1>3, <1>7

\* The members of S up to i.
UpTo(S, i) == {j \in S : j <= i}

LEMMA UpToFacts ==
    ASSUME NEW m \in Nat, NEW S \in SUBSET (1 .. m), NEW i \in Nat
    PROVE  IsFiniteSet(UpTo(S, i)) /\ Cardinality(UpTo(S, i)) \in Nat
<1>1. IsFiniteSet(1 .. m) BY FS_Interval
<1>2. UpTo(S, i) \subseteq 1 .. m BY DEF UpTo
<1> QED BY <1>1, <1>2, FS_Subset, FS_CardinalityType

LEMMA UpToSteps ==
    ASSUME NEW S, \A j \in S : j \in Nat /\ 1 <= j, NEW i \in Nat
    PROVE  /\ UpTo(S, 0) = {}
           /\ i \in S => UpTo(S, i) = UpTo(S, i - 1) \cup {i} /\ i \notin UpTo(S, i - 1)
           /\ i \notin S => UpTo(S, i) = UpTo(S, i - 1)
           /\ \A k \in Nat : k <= i => UpTo(S, k) \subseteq UpTo(S, i)
<1>1. \A x, j : j \in UpTo(S, x) <=> j \in S /\ j <= x BY DEF UpTo
<1>2. UpTo(S, 0) = {}
  <2>1. \A j \in S : ~(j <= 0) OBVIOUS
  <2> QED BY <1>1, <2>1
<1>3. ASSUME NEW j \in S PROVE j <= i - 1 <=> j <= i /\ j # i OBVIOUS
<1>4. \A j : j \in UpTo(S, i - 1) <=> j \in UpTo(S, i) /\ j # i BY <1>1, <1>3
<1>5. i \in S => i \in UpTo(S, i) BY <1>1
<1>6. i \notin S => i \notin UpTo(S, i) BY <1>1
<1>7. ASSUME NEW k \in Nat, k <= i PROVE UpTo(S, k) \subseteq UpTo(S, i)
  <2>1. \A j \in S : j <= k => j <= i BY <1>7
  <2> QED BY <1>1, <2>1
<1> QED BY <1>2, <1>4, <1>5, <1>6, <1>7

LEMMA SmallestNumber ==
    ASSUME NEW T \in SUBSET Nat, T # {}
    PROVE  \E n \in T : \A k \in T : n <= k
<1>1. PICK n \in T : \A k \in T : ~(<<k, n>> \in OpToRel(<, Nat))
    BY NatLessThanWellFounded, WFMin
<1>2. ASSUME NEW k \in T PROVE n <= k
  <2>1. ~(<<k, n>> \in {ss \in Nat \X Nat : ss[1] < ss[2]}) BY <1>1 DEF OpToRel
  <2> QED BY <2>1
<1> QED BY <1>2

\* A set of numbers has an n-th one, for each n up to its size.
LEMMA NthExists ==
    ASSUME NEW m \in Nat, NEW S \in SUBSET (1 .. m), NEW n \in 1 .. Cardinality(S)
    PROVE  \E i \in S : Cardinality(UpTo(S, i)) = n
<1> DEFINE T == {i \in Nat : Cardinality(UpTo(S, i)) >= n}
<1>0. \A j \in S : j \in Nat /\ 1 <= j /\ j <= m
  <2>1. \A j \in 1 .. m : j \in Nat /\ 1 <= j /\ j <= m OBVIOUS
  <2> QED BY <2>1
<1>1. m \in T /\ Cardinality(S) \in Nat
  <2>1. UpTo(S, m) = S BY <1>0 DEF UpTo
  <2>2. Cardinality(S) \in Nat BY <2>1, UpToFacts
  <2> QED BY <2>1, <2>2
<1>2. PICK i \in T : \A k \in T : i <= k
  <2>1. T \in SUBSET Nat OBVIOUS
  <2> HIDE DEF T
  <2> QED BY <1>1, <2>1, SmallestNumber
<1>3. /\ i \in Nat /\ Cardinality(UpTo(S, i)) >= n /\ n \in Nat /\ n >= 1
      /\ Cardinality(UpTo(S, i)) \in Nat
  <2>1. i \in Nat /\ Cardinality(UpTo(S, i)) >= n BY <1>2
  <2>2. n \in Nat /\ n >= 1 BY <1>1
  <2> QED BY <2>1, <2>2, UpToFacts
<1>4. i # 0
  <2>1. UpTo(S, 0) = {} BY <1>0, UpToSteps
  <2>2. Cardinality(UpTo(S, 0)) = 0 BY <2>1, FS_EmptySet
  <2> QED BY <1>3, <2>2
<1>5. i - 1 \in Nat /\ i - 1 \notin T
  <2>1. i - 1 \in Nat BY <1>3, <1>4
  <2>2. i - 1 \in T => i <= i - 1 BY <1>2
  <2> QED BY <1>3, <2>1, <2>2
<1>6. Cardinality(UpTo(S, i - 1)) < n /\ Cardinality(UpTo(S, i - 1)) \in Nat
  <2>1. Cardinality(UpTo(S, i - 1)) \in Nat BY <1>5, UpToFacts
  <2> QED BY <1>3, <1>5, <2>1
<1>7. i \in S
  <2>1. SUFFICES ASSUME i \notin S PROVE FALSE OBVIOUS
  <2>2. UpTo(S, i) = UpTo(S, i - 1) BY <1>0, <1>3, <2>1, UpToSteps
  <2> QED BY <1>3, <1>6, <2>2
<1>8. Cardinality(UpTo(S, i)) = Cardinality(UpTo(S, i - 1)) + 1
  <2>1. UpTo(S, i) = UpTo(S, i - 1) \cup {i} BY <1>0, <1>3, <1>7, UpToSteps
  <2>2. i \notin UpTo(S, i - 1) BY <1>0, <1>3, <1>7, UpToSteps
  <2>3. IsFiniteSet(UpTo(S, i - 1)) BY <1>5, UpToFacts
  <2> QED BY <2>1, <2>2, <2>3, FS_AddElement
<1> QED BY <1>3, <1>6, <1>7, <1>8

LEMMA NthIncreases ==
    ASSUME NEW m \in Nat, NEW S \in SUBSET (1 .. m), NEW i \in S, NEW k \in S,
           Cardinality(UpTo(S, i)) < Cardinality(UpTo(S, k))
    PROVE  i < k
<1>1. \A j \in S : j \in Nat /\ 1 <= j
  <2>1. \A j \in 1 .. m : j \in Nat /\ 1 <= j OBVIOUS
  <2> QED BY <2>1
<1>2. SUFFICES ASSUME k <= i PROVE FALSE BY <1>1
<1>3. UpTo(S, k) \subseteq UpTo(S, i) BY <1>1, <1>2, UpToSteps
<1>4. IsFiniteSet(UpTo(S, i)) /\ Cardinality(UpTo(S, i)) \in Nat /\ Cardinality(UpTo(S, k)) \in Nat
    BY <1>1, UpToFacts
<1>5. Cardinality(UpTo(S, k)) <= Cardinality(UpTo(S, i)) BY <1>3, <1>4, FS_Subset
<1> QED BY <1>4, <1>5

LEMMA WithoutFits ==
    ASSUME NEW q, QueueFits(q), NEW gone
    PROVE  QueueFits(Without(q, gone))
<1> DEFINE kept == {i \in DOMAIN q : q[i].who \notin gone}
           n == Cardinality(kept)
           f == [k \in 1 .. n |-> CHOOSE i \in kept : Cardinality(UpTo(kept, i)) = k]
<1>1. Len(q) \in Nat /\ DOMAIN q = 1 .. Len(q)
    BY LenProperties DEF QueueFits
<1>2. kept \in SUBSET (1 .. Len(q)) BY <1>1
<1>3. n \in Nat
  <2>1. IsFiniteSet(1 .. Len(q)) BY <1>1, FS_Interval
  <2> HIDE DEF kept
  <2> QED BY <1>2, <2>1, FS_Subset, FS_CardinalityType
<1>4. ASSUME NEW k \in 1 .. n PROVE f[k] \in kept /\ Cardinality(UpTo(kept, f[k])) = k
  <2> HIDE DEF kept
  <2>1. \E i \in kept : Cardinality(UpTo(kept, i)) = k BY <1>1, <1>2, NthExists
  <2> QED BY <2>1
<1>5. Thinning(q, n, f)
  <2>1. f \in [1 .. n -> DOMAIN q]
    <3>1. \A k \in 1 .. n : f[k] \in DOMAIN q BY <1>1, <1>2, <1>4
    <3>2. f = [k \in 1 .. n |-> f[k]] OBVIOUS
    <3> HIDE DEF f, n
    <3> QED BY <3>1, <3>2
  <2>2. ASSUME NEW i \in 1 .. n, NEW j \in 1 .. n, i < j PROVE f[i] < f[j]
    <3>1. f[i] \in kept /\ f[j] \in kept
          /\ Cardinality(UpTo(kept, f[i])) < Cardinality(UpTo(kept, f[j]))
        BY <1>4, <2>2
    <3> HIDE DEF f, kept
    <3> QED BY <1>1, <1>2, <3>1, NthIncreases
  <2> HIDE DEF f, n
  <2> QED BY <2>1, <2>2 DEF Thinning
<1>6. QueueFits([k \in 1 .. n |-> q[f[k]]])
  <2> HIDE DEF f, n
  <2> QED BY <1>3, <1>5, ThinnedFits
<1>7. Without(q, gone) = [k \in 1 .. n |-> q[f[k]]]
  <2>1. Without(q, gone) =
            [k \in 1 .. n |-> q[CHOOSE i \in kept : Cardinality(UpTo(kept, i)) = k]]
      BY DEF Without, UpTo
  <2> QED BY <2>1
<1> QED BY <1>6, <1>7

LEMMA RequeueFits ==
    ASSUME NEW q, QueueFits(q), NEW p, NEW t \in Team \cup {None}
    PROVE  QueueFits([i \in DOMAIN q |->
                         IF q[i].who = p THEN [q[i] EXCEPT !.team = t] ELSE q[i]])
<1> DEFINE w == [i \in DOMAIN q |->
                    IF q[i].who = p THEN [q[i] EXCEPT !.team = t] ELSE q[i]]
<1>1. /\ q \in Seq(Entry) /\ Len(q) \in Nat /\ DOMAIN q = 1 .. Len(q)
      /\ \A k \in 1 .. Len(q) : q[k] \in Entry
    BY LenProperties, ElementOfSeq DEF QueueFits
<1>2. ASSUME NEW i \in 1 .. Len(q)
      PROVE  w[i] \in Entry /\ w[i].who = q[i].who /\ w[i].entering = q[i].entering
    BY <1>1 DEF Entry
<1>3. w \in Seq(Entry) /\ Len(w) = Len(q) /\ DOMAIN w = 1 .. Len(q)
  <2>1. w \in [1 .. Len(q) -> Entry]
    <3>1. w = [i \in 1 .. Len(q) |-> w[i]] BY <1>1
    <3> HIDE DEF w
    <3> QED BY <1>2, <3>1
  <2> HIDE DEF w
  <2> QED BY <1>1, <2>1, IsASeq, LenProperties
<1> HIDE DEF w
<1>4. EnteringBefore(w) BY <1>1, <1>2, <1>3 DEF QueueFits, EnteringBefore
<1>5. NamesApart(w) BY <1>1, <1>2, <1>3 DEF QueueFits, NamesApart
<1>6. QueueFits(w) BY <1>3, <1>4, <1>5 DEF QueueFits
<1> QED BY <1>6 DEF w

LEMMA AppendFits ==
    ASSUME NEW q, QueueFits(q), NEW e \in Entry, ~e.entering, Len(q) < MaxQueued,
           \A k \in DOMAIN q : NameOf[q[k].who] # NameOf[e.who]
    PROVE  QueueFits(Append(q, e))
<1> DEFINE w == Append(q, e)
<1>1. q \in Seq(Entry) /\ Len(q) \in Nat /\ DOMAIN q = 1 .. Len(q)
    BY LenProperties DEF QueueFits
<1>2. /\ w \in Seq(Entry) /\ Len(w) = Len(q) + 1 /\ w[Len(q) + 1] = e
      /\ \A i \in 1 .. Len(q) : w[i] = q[i]
    BY <1>1, AppendProperties
<1> HIDE DEF w
<1>3. DOMAIN w = 1 .. Len(q) + 1 BY <1>2, LenProperties
<1>4. \A i \in DOMAIN w : i \in DOMAIN q \/ i = Len(q) + 1 BY <1>1, <1>3
<1>5. \A i, j \in DOMAIN w : i < j => i \in DOMAIN q BY <1>1, <1>3
<1>6. EnteringBefore(w)
  <2>1. SUFFICES ASSUME NEW i \in DOMAIN w, NEW j \in DOMAIN w, i < j, w[j].entering
                 PROVE  w[i].entering
      BY DEF EnteringBefore
  <2>2. i \in DOMAIN q BY <1>5, <2>1
  <2>3. j \in DOMAIN q BY <1>2, <1>4, <2>1
  <2> QED BY <1>1, <1>2, <2>1, <2>2, <2>3 DEF QueueFits, EnteringBefore
<1>7. NamesApart(w)
    BY <1>1, <1>2, <1>4 DEF QueueFits, NamesApart
<1>8. Len(w) <= MaxQueued BY <1>1, <1>2, LoginAssumption
<1> QED BY <1>2, <1>6, <1>7, <1>8 DEF QueueFits, w

\* Entry i is given other data, but its client.
LEMMA ChangedFits ==
    ASSUME NEW q, QueueFits(q), NEW i \in DOMAIN q, NEW e \in Entry, e.who = q[i].who,
           e.entering = q[i].entering
               \/ (e.entering /\ \A j \in DOMAIN q : j < i => q[j].entering)
    PROVE  QueueFits([q EXCEPT ![i] = e])
<1> DEFINE w == [q EXCEPT ![i] = e]
<1>1. /\ q \in Seq(Entry) /\ Len(q) \in Nat /\ DOMAIN q = 1 .. Len(q)
      /\ \A k \in 1 .. Len(q) : q[k] \in Entry
    BY LenProperties, ElementOfSeq DEF QueueFits
<1>2. w \in Seq(Entry) /\ Len(w) = Len(q) /\ DOMAIN w = DOMAIN q
    BY <1>1, ExceptSeq
<1>3. \A k \in DOMAIN q : w[k] = IF k = i THEN e ELSE q[k] BY <1>1
<1> HIDE DEF w
<1>4. EnteringBefore(w)
  <2>1. SUFFICES ASSUME NEW k \in DOMAIN q, NEW l \in DOMAIN q, k < l, w[l].entering
                 PROVE  w[k].entering
      BY <1>2 DEF EnteringBefore
  <2>2. q[l].entering => q[k].entering BY <2>1 DEF QueueFits, EnteringBefore
  <2>3. CASE l = i BY <1>1, <1>3, <2>1, <2>2, <2>3
  <2>4. CASE l # i
    <3>1. q[k].entering BY <1>3, <2>1, <2>2, <2>4
    <3> QED BY <1>3, <3>1
  <2> QED BY <2>3, <2>4
<1>5. NamesApart(w)
  <2>1. \A k \in DOMAIN q : w[k].who = q[k].who BY <1>3
  <2> QED BY <1>2, <2>1 DEF QueueFits, NamesApart
<1>6. QueueFits(w) BY <1>2, <1>4, <1>5 DEF QueueFits
<1> QED BY <1>6 DEF w

LEMMA LastLoopFits ==
    ASSUME NEW q, QueueFits(q), NEW i \in DOMAIN q, NEW w \in LastLoop(q, i)
    PROVE  QueueFits(w)
<1>1. CASE w = q BY <1>1
<1>2. ASSUME NEW k \in (i + 1) .. Len(q), w = RemoveAt(q, k) PROVE QueueFits(w)
  <2>1. Len(q) \in Nat /\ DOMAIN q = 1 .. Len(q) BY LenProperties DEF QueueFits
  <2>2. k \in DOMAIN q BY <2>1
  <2> QED BY <1>2, <2>2, RemovalFits
<1> QED BY <1>1, <1>2 DEF LastLoop

LEMMA MaxExists ==
    ASSUME NEW m \in Nat, NEW S \in SUBSET (0 .. m), 0 \in S
    PROVE  Max(S) \in S /\ \A j \in S : j <= Max(S)
<1> DEFINE T == {n \in Nat : \A j \in S : j <= n}
<1>1. \A j \in S : j \in Nat /\ j <= m
  <2>1. \A j \in 0 .. m : j \in Nat /\ j <= m OBVIOUS
  <2> QED BY <2>1
<1>2. m \in T BY <1>1
<1>3. PICK n \in T : \A k \in T : n <= k
  <2>1. T \in SUBSET Nat OBVIOUS
  <2> HIDE DEF T
  <2> QED BY <1>2, <2>1, SmallestNumber
<1>4. n \in S
  <2>1. SUFFICES ASSUME n \notin S PROVE FALSE OBVIOUS
  <2>2. n \in Nat /\ n # 0 BY <2>1, <1>3
  <2>3. \A j \in S : j <= n - 1
    <3>1. TAKE j \in S
    <3>2. j <= n /\ j # n /\ j \in Nat BY <1>1, <1>3, <2>1
    <3> QED BY <2>2, <3>2
  <2>4. n - 1 \in T BY <2>2, <2>3
  <2>5. n <= n - 1 BY <1>3, <2>4
  <2> QED BY <2>2, <2>5
<1>5. \E x \in S : \A y \in S : x >= y
  <2>1. \A y \in S : n >= y BY <1>1, <1>3
  <2> QED BY <1>4, <2>1
<1>6. Max(S) \in S /\ \A y \in S : Max(S) >= y BY <1>5 DEF Max
<1> QED BY <1>1, <1>6

\* Queue_advance_player moves an entry that waits to the front of those that wait.
LEMMA AdvancedFits ==
    ASSUME QueueFits(queue), NEW i \in DOMAIN queue, i > 1, ~queue[i].entering
    PROVE  QueueFits(InsertAt(RemoveAt(queue, i), PlaceAfterEntering(i), queue[i]))
<1> DEFINE q == queue
           E == {0} \cup {j \in 1 .. (i - 1) : q[j].entering}
           m == Max(E)
           v == RemoveAt(q, i)
           w == InsertAt(v, 1 + m, q[i])
           n == Len(q)
<1>1. /\ q \in Seq(Entry) /\ n \in Nat /\ DOMAIN q = 1 .. n
      /\ i \in Int /\ 1 <= i /\ i <= n /\ q[i] \in Entry
      /\ i - 1 \in Nat
    BY LenProperties, ElementOfSeq DEF QueueFits
<1>2. m \in E /\ \A j \in E : j <= m
  <2>1. E \in SUBSET (0 .. (i - 1)) /\ 0 \in E BY <1>1
  <2> HIDE DEF E
  <2> QED BY <1>1, <2>1, MaxExists
<1>3. /\ m \in Nat /\ m < i
      /\ \A j \in 1 .. (i - 1) : q[j].entering => j <= m
      /\ m # 0 => q[m].entering
  <2> HIDE DEF m
  <2> QED BY <1>1, <1>2
<1>4. PlaceAfterEntering(i) = 1 + m BY DEF PlaceAfterEntering
<1> HIDE DEF m
<1>5. /\ v \in Seq(Entry) /\ Len(v) = n - 1
      /\ \A k \in 1 .. n - 1 : v[k] = IF k < i THEN q[k] ELSE q[k + 1]
    BY <1>1, RemovalIs
<1>6. /\ w \in Seq(Entry) /\ Len(w) = n
      /\ \A k \in 1 .. n : w[k] = IF k < 1 + m THEN v[k]
                                  ELSE IF k = 1 + m THEN q[i] ELSE v[k - 1]
  <2>1. 1 + m \in 1 .. Len(v) + 1 BY <1>1, <1>3, <1>5
  <2>2. Len(v) + 1 = n BY <1>1, <1>5
  <2>3. \A k \in 1 .. Len(v) + 1 :
            /\ InsertAt(v, k, q[i]) \in Seq(Entry)
            /\ Len(InsertAt(v, k, q[i])) = Len(v) + 1
            /\ \A j \in 1 .. Len(v) + 1 :
                   InsertAt(v, k, q[i])[j] =
                       IF j < k THEN v[j] ELSE IF j = k THEN q[i] ELSE v[j - 1]
    <3>1. TAKE k \in 1 .. Len(v) + 1
    <3> DEFINE e == q[i]
    <3>2. e \in Entry /\ v \in Seq(Entry) BY <1>1, <1>5
    <3> HIDE DEF v, e
    <3>3. /\ InsertAt(v, k, e) \in Seq(Entry)
          /\ Len(InsertAt(v, k, e)) = Len(v) + 1
          /\ \A j \in 1 .. Len(v) + 1 :
                 InsertAt(v, k, e)[j] =
                     IF j < k THEN v[j] ELSE IF j = k THEN e ELSE v[j - 1]
        BY <3>2, InsertionIs
    <3> QED BY <3>3 DEF e
  <2> HIDE DEF v
  <2> QED BY <2>1, <2>2, <2>3
<1> HIDE DEF v, w
<1> DEFINE f == [k \in 1 .. n |-> IF k < 1 + m THEN k ELSE IF k = 1 + m THEN i
                                  ELSE IF k <= i THEN k - 1 ELSE k]
<1>7. ASSUME NEW k \in 1 .. n
      PROVE  /\ w[k] = q[f[k]] /\ f[k] \in 1 .. n
             /\ f[k] = IF k < 1 + m THEN k ELSE IF k = 1 + m THEN i
                       ELSE IF k <= i THEN k - 1 ELSE k
  <2>1. f[k] = IF k < 1 + m THEN k ELSE IF k = 1 + m THEN i
               ELSE IF k <= i THEN k - 1 ELSE k
      OBVIOUS
  <2>2. f[k] \in 1 .. n BY <1>1, <1>3, <2>1
  <2>3. CASE k < 1 + m
    <3>1. k \in 1 .. n - 1 /\ k < i BY <1>1, <1>3, <2>3
    <3> QED BY <1>5, <1>6, <2>1, <2>3, <3>1
  <2>4. CASE k = 1 + m BY <1>6, <2>1, <2>4
  <2>5. CASE k > 1 + m /\ k <= i
    <3>1. k - 1 \in 1 .. n - 1 /\ k - 1 < i BY <1>1, <1>3, <2>5
    <3>2. ~(k < 1 + m) /\ k # 1 + m BY <1>3, <2>5
    <3> HIDE DEF f
    <3>3. w[k] = v[k - 1] BY <1>6, <3>2
    <3>4. f[k] = k - 1 BY <2>1, <2>5, <3>2
    <3>5. v[k - 1] = q[k - 1] BY <1>5, <3>1
    <3> QED BY <2>1, <2>2, <3>3, <3>4, <3>5
  <2>6. CASE k > 1 + m /\ k > i
    <3>1. k - 1 \in 1 .. n - 1 /\ ~(k - 1 < i) /\ (k - 1) + 1 = k BY <1>1, <1>3, <2>6
    <3>2. ~(k < 1 + m) /\ k # 1 + m /\ ~(k <= i) BY <1>1, <1>3, <2>6
    <3> HIDE DEF f
    <3>3. w[k] = v[k - 1] BY <1>6, <3>2
    <3>4. f[k] = k BY <2>1, <3>2
    <3>5. v[k - 1] = q[(k - 1) + 1] BY <1>5, <3>1
    <3> QED BY <2>1, <2>2, <3>1, <3>3, <3>4, <3>5
  <2>7. k < 1 + m \/ k = 1 + m \/ (k > 1 + m /\ k <= i) \/ (k > 1 + m /\ k > i)
      BY <1>1, <1>3
  <2> HIDE DEF f
  <2> QED BY <2>1, <2>2, <2>3, <2>4, <2>5, <2>6, <2>7
<1> HIDE DEF f
<1>8. \A k, l \in 1 .. n : f[k] = f[l] => k = l
    BY <1>1, <1>3, <1>7
<1>9. DOMAIN w = 1 .. n BY <1>1, <1>6, LenProperties
<1>10. EnteringBefore(w)
  <2>1. SUFFICES ASSUME NEW k \in 1 .. n, NEW l \in 1 .. n, k < l, w[l].entering
                 PROVE  w[k].entering
      BY <1>9 DEF EnteringBefore
  <2>2. q[f[l]].entering /\ f[l] \in 1 .. n BY <1>7, <2>1
  <2>3. f[l] < i
    <3>1. ~(i < f[l]) BY <1>1, <2>2 DEF QueueFits, EnteringBefore
    <3>2. f[l] # i BY <2>2
    <3> QED BY <1>1, <2>2, <3>1, <3>2
  <2>4. f[l] <= m BY <1>1, <1>3, <2>2, <2>3
  <2>5. l < 1 + m BY <1>1, <1>3, <1>7, <2>4
  <2>6. f[k] = k /\ f[l] = l BY <1>3, <1>7, <2>1, <2>5
  <2> QED BY <1>1, <1>7, <2>1, <2>2, <2>6 DEF QueueFits, EnteringBefore
<1>11. NamesApart(w)
  <2>1. SUFFICES ASSUME NEW k \in 1 .. n, NEW l \in 1 .. n,
                        NameOf[w[k].who] = NameOf[w[l].who]
                 PROVE  k = l
      BY <1>9 DEF NamesApart
  <2>2. f[k] = f[l] BY <1>1, <1>7, <2>1 DEF QueueFits, NamesApart
  <2> QED BY <1>8, <2>2
<1>12. QueueFits(w) BY <1>1, <1>6, <1>10, <1>11 DEF QueueFits
<1> QED BY <1>4, <1>12 DEF v, w

-----------------------------------------------------------------------------
(* Names.                                                                  *)

ConnType == [Human -> [state : {"free", "listening", "login", "playing"},
                       team  : Team \cup {None}]]

Used(c) == {p \in Human : c[p].state # "free"}

ConnApart(c) ==
    /\ c \in ConnType
    /\ \A p, q \in Used(c) : NameOf[p] = NameOf[q] => p = q

\* Holds whatever the roster does.
NamesInv == QueueFits(queue) /\ ConnApart(conn)

LEMMA FewerUsed ==
    ASSUME NEW c, ConnApart(c), NEW d \in ConnType, Used(d) \subseteq Used(c)
    PROVE  ConnApart(d)
BY DEF ConnApart

\* Connection p gets another state.
LEMMA ConnChange ==
    ASSUME NEW c \in ConnType, NEW p \in Human,
           NEW e \in [state : {"free", "listening", "login", "playing"},
                      team  : Team \cup {None}]
    PROVE  /\ [c EXCEPT ![p] = e] \in ConnType
           /\ [c EXCEPT ![p] = e][p] = e
           /\ \A q \in Human : q # p => [c EXCEPT ![p] = e][q] = c[q]
BY DEF ConnType

LEMMA NewConnApart ==
    ASSUME ConnApart(conn), NEW p \in Human, ~SetupFails(p, conn), NEW t \in Team
    PROVE  /\ ConnApart([conn EXCEPT ![p] = [state |-> "listening", team |-> t]])
           /\ conn[p].state = "free"
<1> DEFINE e == [state |-> "listening", team |-> t]
           d == [conn EXCEPT ![p] = e]
<1>1. conn \in ConnType BY DEF ConnApart
<1>2. /\ d \in ConnType /\ d[p] = e
      /\ \A q \in Human : q # p => d[q] = conn[q]
    BY <1>1, ConnChange
<1> HIDE DEF d
<1>3. \A q \in Used(conn) : NameOf[q] # NameOf[p] BY DEF SetupFails, Used
<1>4. Used(d) \subseteq Used(conn) \cup {p} BY <1>2 DEF Used
<1>5. \A q, u \in Used(d) : NameOf[q] = NameOf[u] => q = u
    BY <1>3, <1>4 DEF ConnApart
<1>6. conn[p].state = "free" BY <1>3 DEF Used
<1> QED BY <1>2, <1>5, <1>6 DEF ConnApart, d

LEMMA PlacedInTeam ==
    ASSUME NEW r, NEW t \in Team \cup {None}, NEW x \in Placed(r, t)
    PROVE  x[2] \in Team \cup {None}
<1>2. ASSUME NEW y PROVE Team_find_available(y) \subseteq Team
    BY DEF Team_find_available
<1>3. \A y \in Suggested(r, t) : y[2] \in Team \cup {None} BY DEF Suggested
<1>4. \A z : \A y \in TeamFound(z) : y[2] \in Team \cup {None}
    BY <1>2 DEF TeamFound
<1> QED BY <1>3, <1>4 DEF Placed

\* What Queue_loop may do with the entry it admits.
Given(q, i, t) == [q EXCEPT ![i] = [q[i] EXCEPT !.team = t, !.entering = TRUE]]

\* How it ends when r is the roster after room was sought.
AdmitEnds(q, i, r) ==
    \/ roster' = r /\ queue' \in LastLoop(q, i) /\ conn' = conn
    \/ /\ HasPlace(r)
       /\ \E x \in Placed(r, q[i].team) :
          /\ roster' = x[1]
          /\ \/ queue' \in LastLoop([q EXCEPT ![i].team = None], i) /\ conn' = conn
             \/ queue' = Without(q, {q[i].who}) /\ conn' = conn
             \/ /\ x[2] # None
                /\ queue' = Given(q, i, x[2])
                /\ conn' = conn
             \/ /\ x[2] # None
                /\ queue' = Given(q, i, x[2])
                /\ ~SetupFails(q[i].who, conn)
                /\ conn' = [conn EXCEPT ![q[i].who] =
                               [state |-> "listening", team |-> x[2]]]

LEMMA AdmitCases ==
    ASSUME NEW q, NEW i, Admit(q, i)
    PROVE  \E r \in PlaceMade(roster) : AdmitEnds(q, i, r)
BY DEF Admit, AdmitEnds, Given

LEMMA AdmitNames ==
    ASSUME NEW q, QueueFits(q), NEW i \in DOMAIN q, ~q[i].entering,
           \A j \in DOMAIN q : j < i => q[j].entering,
           ConnApart(conn), Admit(q, i)
    PROVE  QueueFits(queue') /\ ConnApart(conn')
<1>1. /\ DOMAIN q = 1 .. Len(q) /\ Len(q) \in Nat /\ q[i] \in Entry
      /\ q[i].who \in Human /\ q[i].team \in Team \cup {None}
  <2>1. q[i] \in Entry /\ DOMAIN q = 1 .. Len(q) /\ Len(q) \in Nat
      BY LenProperties, ElementOfSeq DEF QueueFits
  <2> QED BY <2>1 DEF Entry
<1>2. ASSUME NEW w, QueueFits(w), DOMAIN w = DOMAIN q, queue' \in LastLoop(w, i)
      PROVE  QueueFits(queue')
    BY <1>2, LastLoopFits
<1>3. QueueFits([q EXCEPT ![i].team = None]) /\ DOMAIN [q EXCEPT ![i].team = None] = DOMAIN q
  <2> DEFINE e == [q[i] EXCEPT !.team = None]
  <2>1. e \in Entry /\ e.who = q[i].who /\ e.entering = q[i].entering
      BY <1>1 DEF Entry
  <2> HIDE DEF e
  <2>2. QueueFits([q EXCEPT ![i] = e]) BY <2>1, ChangedFits
  <2> QED BY <2>2 DEF e
<1>4. ASSUME NEW t \in Team \cup {None} PROVE QueueFits(Given(q, i, t))
  <2> DEFINE e == [q[i] EXCEPT !.team = t, !.entering = TRUE]
  <2>1. e \in Entry /\ e.who = q[i].who /\ e.entering
      BY <1>1 DEF Entry
  <2> HIDE DEF e
  <2>2. QueueFits([q EXCEPT ![i] = e]) BY <2>1, ChangedFits
  <2> QED BY <2>2 DEF e, Given
<1>5. QueueFits(Without(q, {q[i].who})) BY WithoutFits
<1>6. PICK r \in PlaceMade(roster) : AdmitEnds(q, i, r) BY AdmitCases
<1>7. CASE queue' \in LastLoop(q, i) /\ conn' = conn BY <1>2, <1>7
<1>8. ASSUME NEW x \in Placed(r, q[i].team),
             \/ queue' \in LastLoop([q EXCEPT ![i].team = None], i) /\ conn' = conn
             \/ queue' = Without(q, {q[i].who}) /\ conn' = conn
             \/ /\ x[2] # None
                /\ queue' = Given(q, i, x[2])
                /\ conn' = conn
             \/ /\ x[2] # None
                /\ queue' = Given(q, i, x[2])
                /\ ~SetupFails(q[i].who, conn)
                /\ conn' = [conn EXCEPT ![q[i].who] =
                               [state |-> "listening", team |-> x[2]]]
      PROVE  QueueFits(queue') /\ ConnApart(conn')
  <2>1. x[2] \in Team \cup {None} BY <1>1, <1>8, PlacedInTeam
  <2>2. CASE queue' \in LastLoop([q EXCEPT ![i].team = None], i) /\ conn' = conn
    <3> DEFINE w == [q EXCEPT ![i].team = None]
    <3>1. QueueFits(w) /\ DOMAIN w = DOMAIN q /\ queue' \in LastLoop(w, i) BY <1>3, <2>2
    <3> HIDE DEF w
    <3> QED BY <1>2, <2>2, <3>1
  <2>3. CASE queue' = Without(q, {q[i].who}) /\ conn' = conn BY <1>5, <2>3
  <2>4. CASE queue' = Given(q, i, x[2]) /\ conn' = conn BY <1>4, <2>1, <2>4
  <2>5. CASE /\ x[2] # None
             /\ queue' = Given(q, i, x[2])
             /\ ~SetupFails(q[i].who, conn)
             /\ conn' = [conn EXCEPT ![q[i].who] =
                            [state |-> "listening", team |-> x[2]]]
    <3>1. x[2] \in Team BY <2>1, <2>5
    <3>2. ConnApart(conn') BY <1>1, <2>5, <3>1, NewConnApart
    <3> QED BY <1>4, <2>1, <2>5, <3>2
  <2> QED BY <1>8, <2>2, <2>3, <2>4, <2>5
<1> QED BY <1>6, <1>7, <1>8 DEF AdmitEnds

LEMMA QueueLoopNames ==
    ASSUME NamesInv, Queue_loop PROVE QueueFits(queue') /\ ConnApart(conn')
<1>1. PICK silent \in SUBSET Entering, checked \in SUBSET Entering :
          LET q == Without(queue, silent \cup {p \in checked : ~Check_connection(p)})
              first == {i \in DOMAIN q :
                            ~q[i].entering /\ \A j \in 1..(i - 1) : q[j].entering}
          IN  \/ queue' = q /\ UNCHANGED <<roster, conn>>
              \/ \E i \in DOMAIN q :
                     /\ ~q[i].entering
                     /\ queue' = RemoveAt(q, i)
                     /\ UNCHANGED <<roster, conn>>
              \/ \E i \in first : Admit(q, i)
    BY DEF Queue_loop
<1> DEFINE q == Without(queue, silent \cup {p \in checked : ~Check_connection(p)})
<1>2. QueueFits(q) /\ ConnApart(conn) BY WithoutFits DEF NamesInv
<1>3. \/ queue' = q /\ conn' = conn
      \/ \E i \in DOMAIN q : queue' = RemoveAt(q, i) /\ conn' = conn
      \/ \E i \in DOMAIN q : /\ ~q[i].entering
                             /\ \A j \in 1..(i - 1) : q[j].entering
                             /\ Admit(q, i)
    BY <1>1
<1> HIDE DEF q
<1>4. DOMAIN q = 1 .. Len(q) /\ Len(q) \in Nat
    BY <1>2, LenProperties DEF QueueFits
<1>5. ASSUME NEW i \in DOMAIN q, ~q[i].entering, \A j \in 1..(i - 1) : q[j].entering,
             Admit(q, i)
      PROVE  QueueFits(queue') /\ ConnApart(conn')
  <2>1. \A j \in DOMAIN q : j < i => q[j].entering BY <1>4, <1>5
  <2> QED BY <1>2, <1>5, <2>1, AdmitNames
<1> QED BY <1>2, <1>3, <1>5, RemovalFits

\* A connection in use changes.
LEMMA UsedChange ==
    ASSUME ConnApart(conn), NEW p \in Human, conn[p].state # "free",
           NEW e \in [state : {"free", "listening", "login", "playing"},
                      team  : Team \cup {None}]
    PROVE  ConnApart([conn EXCEPT ![p] = e])
<1> DEFINE d == [conn EXCEPT ![p] = e]
<1>1. conn \in ConnType BY DEF ConnApart
<1>2. /\ d \in ConnType /\ d[p] = e
      /\ \A q \in Human : q # p => d[q] = conn[q]
    BY <1>1, ConnChange
<1> HIDE DEF d
<1>3. Used(d) \subseteq Used(conn) BY <1>2 DEF Used
<1>4. ConnApart(d) BY <1>2, <1>3, FewerUsed
<1> QED BY <1>4 DEF d

LEMMA ListeningNames ==
    ASSUME NamesInv, NEW p \in Human, Handle_listening(p)
    PROVE  QueueFits(queue') /\ ConnApart(conn')
<1> DEFINE e == [conn[p] EXCEPT !.state = "login"]
<1>1. conn \in ConnType /\ conn[p].state # "free" /\ queue' = queue
    BY DEF NamesInv, ConnApart, Handle_listening
<1>2. conn' = [conn EXCEPT ![p] = e] BY DEF Handle_listening
<1>3. e \in [state : {"free", "listening", "login", "playing"}, team : Team \cup {None}]
    BY <1>1 DEF ConnType
<1> HIDE DEF e
<1> QED BY <1>1, <1>2, <1>3, UsedChange DEF NamesInv

LEMMA LoginNames ==
    ASSUME NamesInv, NEW p \in Human, Handle_login(p)
    PROVE  QueueFits(queue') /\ ConnApart(conn')
<1> DEFINE e == [conn[p] EXCEPT !.state = "playing"]
<1>1. conn \in ConnType /\ conn[p].state # "free" /\ queue' = queue
    BY DEF NamesInv, ConnApart, Handle_login
<1>2. \/ conn' = conn
      \/ conn' = [conn EXCEPT ![p] = FreeConn]
      \/ conn' = [conn EXCEPT ![p] = e]
    BY DEF Handle_login
<1>3. FreeConn \in [state : {"free", "listening", "login", "playing"},
                    team : Team \cup {None}]
    BY DEF FreeConn
<1>4. e \in [state : {"free", "listening", "login", "playing"}, team : Team \cup {None}]
    BY <1>1 DEF ConnType
<1> HIDE DEF e
<1> QED BY <1>1, <1>2, <1>3, <1>4, UsedChange DEF NamesInv

LEMMA LoseNames ==
    ASSUME NamesInv, NEW p \in Human, Lose(p)
    PROVE  QueueFits(queue') /\ ConnApart(conn')
<1>1. conn[p].state # "free" /\ queue' = queue BY DEF Lose
<1>2. conn' = [conn EXCEPT ![p] = FreeConn] BY DEF Lose
<1>3. FreeConn \in [state : {"free", "listening", "login", "playing"},
                    team : Team \cup {None}]
    BY DEF FreeConn
<1> QED BY <1>1, <1>2, <1>3, UsedChange DEF NamesInv

LEMMA DestroyedApart ==
    ASSUME ConnApart(conn), NEW r
    PROVE  ConnApart(Destroyed(conn, r))
<1> DEFINE d == Destroyed(conn, r)
<1>1. conn \in ConnType BY DEF ConnApart
<1>2. \A q \in Human : d[q] = FreeConn \/ d[q] = conn[q] BY DEF Destroyed
<1>3. d \in ConnType BY <1>1 DEF Destroyed, ConnType, FreeConn
<1>4. Used(d) \subseteq Used(conn)
  <2> HIDE DEF d
  <2> QED BY <1>2 DEF Used, FreeConn
<1> HIDE DEF d
<1>5. ConnApart(d) BY <1>3, <1>4, FewerUsed
<1> QED BY <1>5 DEF d

LEMMA EnqueueNames ==
    ASSUME NamesInv, NEW p \in Human, NEW t \in Team \cup {None}, Enqueue(p, t)
    PROVE  QueueFits(queue') /\ ConnApart(conn')
<1> DEFINE e == [who |-> p, team |-> t, entering |-> FALSE]
<1>1. /\ \A k \in DOMAIN queue : NameOf[queue[k].who] # NameOf[p]
      /\ Len(queue) < MaxQueued
      /\ queue' = Append(queue, e) /\ conn' = conn
    BY DEF Enqueue, MayQueue, Queued
<1>2. e \in Entry /\ ~e.entering /\ e.who = p BY DEF Entry
<1> HIDE DEF e
<1> QED BY <1>1, <1>2, AppendFits DEF NamesInv

LEMMA NamesNext ==
    ASSUME NamesInv, [LoginNext /\ UNCHANGED NameOf]_loginVars PROVE NamesInv'
<1> SUFFICES ASSUME LoginNext /\ UNCHANGED NameOf PROVE NamesInv'
    BY DEF loginVars, NamesInv, QueueFits, NamesApart, EnteringBefore, ConnApart
<1>1. QueueFits(queue') /\ ConnApart(conn')
  <2>1. ASSUME NEW p \in Human, NEW t \in Team \cup {None}, Requeue(p, t)
        PROVE  QueueFits(queue') /\ ConnApart(conn')
      BY <2>1, RequeueFits DEF NamesInv, Requeue
  <2>2. ASSUME NEW i \in DOMAIN queue, Queue_advance_player(i)
        PROVE  QueueFits(queue') /\ ConnApart(conn')
      BY <2>2, AdvancedFits DEF NamesInv, Queue_advance_player
  <2>3. CASE Play
    <3>1. queue' = queue /\ conn' = Destroyed(conn, roster') BY <2>3 DEF Play
    <3> QED BY <3>1, DestroyedApart DEF NamesInv
  <2> QED BY <2>1, <2>2, <2>3, EnqueueNames, ListeningNames, LoginNames, LoseNames,
             QueueLoopNames DEF LoginNext
<1>2. NameOf' = NameOf OBVIOUS
<1> QED BY <1>1, <1>2 DEF NamesInv, QueueFits, NamesApart, EnteringBefore, ConnApart

LEMMA NamesInit == ASSUME LoginInit PROVE NamesInv
<1>1. queue = <<>> /\ conn = [p \in Human |-> FreeConn] BY DEF LoginInit
<1>2. queue \in Seq(Entry) /\ Len(queue) = 0 /\ DOMAIN queue = {} BY <1>1
<1>3. QueueFits(queue)
    BY <1>2, LoginAssumption DEF QueueFits, EnteringBefore, NamesApart
<1>4. conn \in ConnType BY <1>1 DEF ConnType, FreeConn
<1>5. Used(conn) = {} BY <1>1 DEF Used, FreeConn
<1> QED BY <1>3, <1>4, <1>5 DEF NamesInv, ConnApart

\* Setup_connection, Queue_player: no two connections and no two entries of the
\* queue have the same name.
THEOREM NamesStayApart == LoginSpec => []NamesDistinguish
<1>1. LoginInit => NamesInv BY NamesInit
<1>2. NamesInv /\ [LoginNext /\ UNCHANGED NameOf]_loginVars => NamesInv' BY NamesNext
<1>3. NamesInv => NamesDistinguish
    BY DEF NamesInv, NamesDistinguish, ConnApart, QueueFits, NamesApart, InUse, Used
<1> QED BY <1>1, <1>2, <1>3, PTL DEF LoginSpec

-----------------------------------------------------------------------------
(* Places.                                                                 *)

\* Room sought for a client: at most robots are kicked, and the roster stays sound.
Lesser(r, x) ==
    /\ Sound(x)
    /\ InGame(x) \subseteq InGame(r)
    /\ InGame(x) \cap Human = InGame(r) \cap Human

LEMMA LesserTrans ==
    ASSUME NEW r, NEW x, NEW y, Lesser(r, x), Lesser(x, y) PROVE Lesser(r, y)
BY DEF Lesser

LEMMA CrashIsLesser ==
    ASSUME NEW r, Sound(r), NEW c \in Places PROVE Lesser(r, Crash(r, c))
<1>1. Fits(r) /\ PausedCount(r, 0) /\ 0 \in Int BY DEF Sound
<1>2. /\ Fits(Crash(r, c)) /\ PausedCount(Crash(r, c), 0)
      /\ Crash(r, c).NumPaused = r.NumPaused /\ InGame(Crash(r, c)) = InGame(r)
    BY <1>1, CrashFits
<1> QED BY <1>2 DEF Lesser, Sound, PausedBound

LEMMA RobotGone ==
    ASSUME NEW r, Sound(r), NEW p \in RobotsIn(r) PROVE Lesser(r, Removed(r, {p}))
<1>1. Fits(r) /\ PausedCount(r, 0) /\ {p} \in SUBSET InGame(r) BY DEF Sound, RobotsIn
<1> DEFINE x == Removed(r, {p})
<1>2. /\ Fits(x) /\ PausedCount(x, 0) /\ x.NumPaused <= r.NumPaused
      /\ InGame(x) = InGame(r) \ {p}
    BY <1>1, RemovedFits
<1> HIDE DEF x
<1>3. x.NumPaused \in Nat /\ r.NumPaused \in Nat /\ MaxPaused \in Nat
    BY <1>1, <1>2, RosterFacts, RosterAssumption
<1>4. PausedBound(x) BY <1>2, <1>3 DEF PausedBound, Sound
<1>5. p \notin Human BY RosterAssumption DEF RobotsIn
<1>6. Lesser(r, x) BY <1>2, <1>4, <1>5 DEF Lesser, Sound
<1> QED BY <1>6 DEF x

LEMMA KickAnyLesser ==
    ASSUME NEW r, Sound(r), NEW x \in Kick_any_robot(r) PROVE Lesser(r, x)
<1>1. \/ x = r \/ x = Crash(r, "Robot_kick")
      \/ \E p \in RobotsIn(r) : x = Removed(r, {p})
    BY DEF Kick_any_robot
<1>2. Lesser(r, r) BY DEF Lesser
<1>3. "Robot_kick" \in Places BY DEF Places
<1> QED BY <1>1, <1>2, <1>3, CrashIsLesser, RobotGone

LEMMA KickTeamLesser ==
    ASSUME NEW r, Sound(r), NEW t, NEW x \in Kick_team_robot(r, t) PROVE Lesser(r, x)
<1>1. x = r \/ \E p \in RobotsIn(r) : x = Removed(r, {p}) BY DEF Kick_team_robot
<1>2. Lesser(r, r) BY DEF Lesser
<1> QED BY <1>1, <1>2, RobotGone

LEMMA PlaceMadeLesser ==
    ASSUME NEW r, Sound(r), NEW x \in PlaceMade(r) PROVE Lesser(r, x)
<1>1. Lesser(r, r) BY DEF Lesser
<1> QED BY <1>1, KickAnyLesser DEF PlaceMade

LEMMA PlacedLesser ==
    ASSUME NEW r, Sound(r), NEW t, NEW x \in Placed(r, t) PROVE Lesser(r, x[1])
<1>1. ASSUME NEW y \in Suggested(r, t) PROVE Lesser(r, y[1])
  <2>1. y[1] = r \/ y[1] \in Kick_team_robot(r, t) BY <1>1 DEF Suggested
  <2>2. Lesser(r, r) BY DEF Lesser
  <2> QED BY <2>1, <2>2, KickTeamLesser
<1>2. ASSUME NEW z, Sound(z), NEW y \in TeamFound(z) PROVE Lesser(z, y[1])
  <2>1. y[1] = z \/ y[1] \in Kick_any_robot(z) BY <1>2 DEF TeamFound
  <2>2. Lesser(z, z) BY <1>2 DEF Lesser
  <2> QED BY <1>2, <2>1, <2>2, KickAnyLesser
<1>3. PICK y \in Suggested(r, t) : x \in (IF y[2] = None THEN TeamFound(y[1]) ELSE {y})
    BY DEF Placed
<1>4. CASE x = y BY <1>1, <1>4
<1>5. CASE x \in TeamFound(y[1])
  <2>1. Lesser(r, y[1]) /\ Sound(y[1]) BY <1>1 DEF Lesser
  <2>2. Lesser(y[1], x[1]) BY <1>2, <1>5, <2>1
  <2> QED BY <2>1, <2>2, LesserTrans
<1> QED BY <1>3, <1>4, <1>5

\* Handle_listening to the login: those that still have to be given a base.
Logins(c) == {p \in Human : c[p].state \in {"listening", "login"}}

Connected(r, c) == \A p \in Human : p \in InGame(r) <=> c[p].state = "playing"

RoomForAll(r, c) ==
    Cardinality(InGame(r)) + Cardinality(Logins(c)) <= Cardinality(Base) + MaxPaused

PlacesInv ==
    /\ conn \in ConnType
    /\ RosterInv
    /\ Connected(roster, conn)
    /\ RoomForAll(roster, conn)

LEMMA Sizes ==
    ASSUME NEW r, NEW c
    PROVE  /\ IsFiniteSet(InGame(r)) /\ Cardinality(InGame(r)) \in Nat
           /\ IsFiniteSet(Logins(c)) /\ Cardinality(Logins(c)) \in Nat
           /\ Cardinality(Base) \in Nat /\ MaxPaused \in Nat
<1>1. InGame(r) \in SUBSET Player /\ Logins(c) \in SUBSET Player
    BY DEF InGame, Logins, Player
<1>2. Cardinality(Base) \in Nat /\ MaxPaused \in Nat
    BY RosterAssumption, FS_CardinalityType
<1> QED BY <1>1, <1>2, PlayersFinite

LEMMA LoginsAre == login_in_progress = Cardinality(Logins(conn))
BY DEF login_in_progress, Logins

\* Fewer players and fewer logins still have room.
LEMMA FewerHaveRoom ==
    ASSUME NEW r, NEW c, RoomForAll(r, c), NEW x, NEW d,
           InGame(x) \subseteq InGame(r), Logins(d) \subseteq Logins(c)
    PROVE  RoomForAll(x, d)
<1>1. /\ Cardinality(InGame(x)) <= Cardinality(InGame(r))
      /\ Cardinality(Logins(d)) <= Cardinality(Logins(c))
    BY Sizes, FS_Subset
<1>2. /\ Cardinality(InGame(x)) \in Nat /\ Cardinality(Logins(d)) \in Nat
      /\ Cardinality(InGame(r)) \in Nat /\ Cardinality(Logins(c)) \in Nat
      /\ Cardinality(Base) \in Nat /\ MaxPaused \in Nat
    BY Sizes
<1> QED BY <1>1, <1>2 DEF RoomForAll

\* The room HasPlace finds is for one more, at least: the paused can all come back.
LEMMA PlaceIsRoom ==
    ASSUME MaxRobots < MaxPaused, NEW r, Sound(r), HasPlace(r)
    PROVE  Cardinality(InGame(r)) + Cardinality(Logins(conn)) + 1 <= Cardinality(Base) + MaxPaused
<1>1. r.NumPaused <= MaxPaused /\ r.NumPaused \in Nat BY SoundFacts DEF Sound, PausedBound
<1>2. Cardinality(InGame(r)) - r.NumPaused + Cardinality(Logins(conn)) < Cardinality(Base)
    BY LoginsAre DEF HasPlace
<1>3. /\ Cardinality(InGame(r)) \in Nat /\ Cardinality(Logins(conn)) \in Nat
      /\ Cardinality(Base) \in Nat /\ MaxPaused \in Nat
    BY Sizes
<1> QED BY <1>1, <1>2, <1>3

LEMMA LesserHasRoom ==
    ASSUME PlacesInv, NEW x, Lesser(roster, x)
    PROVE  Sound(x) /\ Connected(x, conn) /\ RoomForAll(x, conn)
<1>1. RoomForAll(x, conn) BY FewerHaveRoom DEF PlacesInv, Lesser
<1>2. Connected(x, conn) BY DEF PlacesInv, Lesser, Connected
<1> QED BY <1>1, <1>2 DEF Lesser

LEMMA AdmitPlaces ==
    ASSUME MaxRobots < MaxPaused, PlacesInv, ConnApart(conn),
           NEW q, NEW i, q[i].who \in Human, q[i].team \in Team \cup {None}, Admit(q, i)
    PROVE  Sound(roster') /\ Connected(roster', conn') /\ RoomForAll(roster', conn')
<1>1. PICK r \in PlaceMade(roster) : AdmitEnds(q, i, r) BY AdmitCases
<1>2. Lesser(roster, r) BY PlaceMadeLesser DEF PlacesInv, RosterInv
<1>3. CASE roster' = r /\ conn' = conn BY <1>2, <1>3, LesserHasRoom
<1>4. ASSUME HasPlace(r), NEW x \in Placed(r, q[i].team), roster' = x[1],
             \/ conn' = conn
             \/ /\ x[2] # None
                /\ ~SetupFails(q[i].who, conn)
                /\ conn' = [conn EXCEPT ![q[i].who] =
                               [state |-> "listening", team |-> x[2]]]
      PROVE  Sound(roster') /\ Connected(roster', conn') /\ RoomForAll(roster', conn')
  <2>1. Sound(r) /\ Lesser(r, x[1]) BY <1>2, PlacedLesser DEF Lesser
  <2>2. Lesser(roster, x[1]) BY <1>2, <2>1, LesserTrans
  <2>3. Sound(x[1]) /\ Connected(x[1], conn) /\ RoomForAll(x[1], conn)
      BY <2>2, LesserHasRoom
  <2>4. CASE conn' = conn BY <1>4, <2>3, <2>4
  <2>5. CASE /\ x[2] # None
             /\ ~SetupFails(q[i].who, conn)
             /\ conn' = [conn EXCEPT ![q[i].who] =
                            [state |-> "listening", team |-> x[2]]]
    <3> DEFINE p == q[i].who
               t == x[2]
               e == [state |-> "listening", team |-> t]
               d == [conn EXCEPT ![p] = e]
    <3>1. t \in Team BY <1>4, <2>5, PlacedInTeam
    <3>2. p \in Human /\ ~SetupFails(p, conn) /\ conn' = d /\ conn \in ConnType
        BY <2>5 DEF PlacesInv
    <3> HIDE DEF p, t
    <3>3. conn[p].state = "free" BY <3>1, <3>2, NewConnApart
    <3>4. e \in [state : {"free", "listening", "login", "playing"}, team : Team \cup {None}]
        BY <3>1
    <3>5. e.state = "listening" OBVIOUS
    <3> HIDE DEF e
    <3>6. /\ d \in ConnType /\ d[p] = e
          /\ \A u \in Human : u # p => d[u] = conn[u]
      <4>1. conn \in ConnType BY <3>2
      <4>2. p \in Human BY <3>2
      <4> QED BY <3>4, <4>1, <4>2, ConnChange
    <3> HIDE DEF d
    <3>7. Connected(x[1], d) BY <2>3, <3>3, <3>5, <3>6 DEF Connected
    <3>8. Logins(d) = Logins(conn) \cup {p} /\ p \notin Logins(conn)
        BY <3>2, <3>3, <3>5, <3>6 DEF Logins
    <3>9. Cardinality(Logins(d)) = Cardinality(Logins(conn)) + 1
        BY <3>8, Sizes, FS_AddElement
    <3>10. Cardinality(InGame(r)) + Cardinality(Logins(conn)) + 1
               <= Cardinality(Base) + MaxPaused
        BY <1>4, <2>1, PlaceIsRoom
    <3>11. Cardinality(InGame(x[1])) <= Cardinality(InGame(r))
        BY <2>1, Sizes, FS_Subset DEF Lesser
    <3>12. /\ Cardinality(InGame(x[1])) \in Nat /\ Cardinality(InGame(r)) \in Nat
           /\ Cardinality(Logins(conn)) \in Nat
           /\ Cardinality(Base) \in Nat /\ MaxPaused \in Nat
        BY Sizes
    <3>13. RoomForAll(x[1], d) BY <3>9, <3>10, <3>11, <3>12 DEF RoomForAll
    <3> QED BY <1>4, <2>3, <3>2, <3>7, <3>13
  <2> QED BY <1>4, <2>4, <2>5
<1> QED BY <1>1, <1>3, <1>4 DEF AdmitEnds

LEMMA QueueLoopPlaces ==
    ASSUME MaxRobots < MaxPaused, PlacesInv, NamesInv, Queue_loop
    PROVE  Sound(roster') /\ Connected(roster', conn') /\ RoomForAll(roster', conn')
<1>1. PICK silent \in SUBSET Entering, checked \in SUBSET Entering :
          LET q == Without(queue, silent \cup {p \in checked : ~Check_connection(p)})
              first == {i \in DOMAIN q :
                            ~q[i].entering /\ \A j \in 1..(i - 1) : q[j].entering}
          IN  \/ queue' = q /\ UNCHANGED <<roster, conn>>
              \/ \E i \in DOMAIN q :
                     /\ ~q[i].entering
                     /\ queue' = RemoveAt(q, i)
                     /\ UNCHANGED <<roster, conn>>
              \/ \E i \in first : Admit(q, i)
    BY DEF Queue_loop
<1> DEFINE q == Without(queue, silent \cup {p \in checked : ~Check_connection(p)})
<1>2. QueueFits(q) BY WithoutFits DEF NamesInv
<1>3. \/ roster' = roster /\ conn' = conn
    \/ \E i \in DOMAIN q : Admit(q, i)
    BY <1>1
<1> HIDE DEF q
<1>4. ASSUME NEW i \in DOMAIN q PROVE q[i].who \in Human /\ q[i].team \in Team \cup {None}
  <2>1. q[i] \in Entry BY <1>2, ElementOfSeq, LenProperties DEF QueueFits
  <2> QED BY <2>1 DEF Entry
<1>5. ASSUME NEW i \in DOMAIN q, Admit(q, i)
      PROVE  Sound(roster') /\ Connected(roster', conn') /\ RoomForAll(roster', conn')
  <2>1. q[i].who \in Human BY <1>4
  <2>2. q[i].team \in Team \cup {None} BY <1>4
  <2>3. ConnApart(conn) BY DEF NamesInv
  <2> QED BY <1>5, <2>1, <2>2, <2>3, AdmitPlaces
<1> QED BY <1>3, <1>5 DEF PlacesInv, RosterInv

LEMMA ListeningPlaces ==
    ASSUME PlacesInv, NEW p \in Human, Handle_listening(p)
    PROVE  Sound(roster') /\ Connected(roster', conn') /\ RoomForAll(roster', conn')
<1>1. conn \in ConnType /\ conn[p].state = "listening" /\ roster' = roster
    BY DEF PlacesInv, Handle_listening
<1>2. conn' = [conn EXCEPT ![p].state = "login"] BY DEF Handle_listening
<1>3. /\ conn'[p].state = "login"
      /\ \A q \in Human : q # p => conn'[q] = conn[q]
    BY <1>1, <1>2 DEF ConnType
<1>4. Logins(conn') \subseteq Logins(conn) BY <1>1, <1>3 DEF Logins
<1>5. Connected(roster, conn') BY <1>1, <1>3 DEF PlacesInv, Connected
<1>6. RoomForAll(roster, conn') BY <1>4, FewerHaveRoom DEF PlacesInv
<1> QED BY <1>1, <1>5, <1>6 DEF PlacesInv, RosterInv

\* A connection that has no player yet is freed.
LEMMA FreedPlaces ==
    ASSUME PlacesInv, NEW p \in Human, conn[p].state \in {"listening", "login"},
           conn' = [conn EXCEPT ![p] = FreeConn], roster' = roster
    PROVE  Sound(roster') /\ Connected(roster', conn') /\ RoomForAll(roster', conn')
<1>1. conn \in ConnType BY DEF PlacesInv
<1>2. /\ conn'[p].state = "free"
      /\ \A q \in Human : q # p => conn'[q] = conn[q]
    BY <1>1 DEF ConnType, FreeConn
<1>3. Logins(conn') \subseteq Logins(conn) BY <1>2 DEF Logins
<1>4. Connected(roster, conn') BY <1>2 DEF PlacesInv, Connected
<1>5. RoomForAll(roster, conn') BY <1>3, FewerHaveRoom DEF PlacesInv
<1> QED BY <1>4, <1>5 DEF PlacesInv, RosterInv

\* The place the connection had is the player's now.
LEMMA LoginPlaces ==
    ASSUME BasesOf(PauseTeam) = {}, PlacesInv, NEW p \in Human, Handle_login(p)
    PROVE  Sound(roster') /\ Connected(roster', conn') /\ RoomForAll(roster', conn')
<1> DEFINE t == conn[p].team
<1>1. /\ conn \in ConnType /\ conn[p].state = "login" /\ t \in Team \cup {None}
      /\ Sound(roster) /\ Connected(roster, conn) /\ RoomForAll(roster, conn)
  <2>1. conn \in ConnType /\ conn[p].state = "login" BY DEF PlacesInv, Handle_login
  <2>2. t \in Team \cup {None} BY <2>1 DEF ConnType
  <2> QED BY <2>1, <2>2 DEF PlacesInv, RosterInv
<1>2. \/ conn' = [conn EXCEPT ![p] = FreeConn] /\ roster' = roster
      \/ roster' = Crash(roster, "Handle_login") /\ conn' = conn
      \/ /\ conn' = [conn EXCEPT ![p].state = "playing"]
         /\ \E b \in FreeBases(roster, t), s \in EntryStates(roster, p, t) :
                roster' = Joined(roster, p, t, b, s)
    BY DEF Handle_login
<1> HIDE DEF t
<1>3. CASE conn' = [conn EXCEPT ![p] = FreeConn] /\ roster' = roster
    BY <1>1, <1>3, FreedPlaces
<1>4. CASE roster' = Crash(roster, "Handle_login") /\ conn' = conn
  <2>1. Lesser(roster, roster') BY <1>1, <1>4, CrashIsLesser DEF Places
  <2> QED BY <1>4, <2>1, LesserHasRoom
<1>5. ASSUME conn' = [conn EXCEPT ![p].state = "playing"],
             NEW b \in FreeBases(roster, t), NEW s \in EntryStates(roster, p, t),
             roster' = Joined(roster, p, t, b, s)
      PROVE  Sound(roster') /\ Connected(roster', conn') /\ RoomForAll(roster', conn')
  <2>1. t \in Team \ {PauseTeam}
    <3>1. b \in Base /\ BaseTeam[b] = t /\ BasesOf(t) # {}
        BY <1>5 DEF FreeBases, BasesOf
    <3>2. t \in Team BY <3>1, RosterAssumption
    <3> QED BY <3>1, <3>2
  <2>2. p \notin InGame(roster) /\ p \in Player /\ p \notin Robot
    <3>1. p \notin InGame(roster) BY <1>1 DEF Connected
    <3> QED BY <3>1, RosterAssumption DEF Player
  <2>3. Fits(roster) /\ s \in {"active", "out"} BY <1>1, <1>5, <2>1, EntryIsPlay DEF Sound
  <2>4. /\ Fits(roster')
        /\ roster'.NumPaused = roster.NumPaused
        /\ roster'.NumMembers[PauseTeam] = roster.NumMembers[PauseTeam]
        /\ InGame(roster') = InGame(roster) \cup {p}
      BY <1>5, <2>1, <2>2, <2>3, JoinedFits
  <2>5. Sound(roster') BY <1>1, <2>4, SameCounts
  <2>6. /\ conn'[p].state = "playing"
        /\ \A q \in Human : q # p => conn'[q] = conn[q]
      BY <1>1, <1>5 DEF ConnType
  <2>7. Connected(roster', conn') BY <1>1, <2>4, <2>6 DEF Connected
  <2>8. Logins(conn) = Logins(conn') \cup {p} /\ p \notin Logins(conn')
      BY <1>1, <2>6 DEF Logins
  <2>9. /\ Cardinality(Logins(conn)) = Cardinality(Logins(conn')) + 1
        /\ Cardinality(InGame(roster')) = Cardinality(InGame(roster)) + 1
    <3>1. IsFiniteSet(Logins(conn')) /\ IsFiniteSet(InGame(roster)) BY Sizes
    <3>2. Cardinality(Logins(conn') \cup {p}) = Cardinality(Logins(conn')) + 1
        BY <2>8, <3>1, FS_AddElement
    <3>3. Cardinality(InGame(roster) \cup {p}) = Cardinality(InGame(roster)) + 1
        BY <2>2, <3>1, FS_AddElement
    <3> QED BY <2>4, <2>8, <3>2, <3>3
  <2>10. /\ Cardinality(Logins(conn')) \in Nat
         /\ Cardinality(InGame(roster)) \in Nat
         /\ Cardinality(Base) \in Nat /\ MaxPaused \in Nat
      BY Sizes
  <2>11. RoomForAll(roster', conn') BY <1>1, <2>9, <2>10 DEF RoomForAll
  <2> QED BY <2>5, <2>7, <2>11
<1> QED BY <1>2, <1>3, <1>4, <1>5

\* What players and robots do to the roster; a robot comes only if there is a base
\* for it besides those of the logins.
LEMMA PlayMoves ==
    ASSUME PlacesInv, Play
    PROVE  /\ Sound(roster')
           /\ \/ InGame(roster') \subseteq InGame(roster)
              \/ \E p \in Robot :
                    /\ InGame(roster') \subseteq InGame(roster) \cup {p}
                    /\ Cardinality(InGame(roster)) + Cardinality(Logins(conn))
                           < Cardinality(Base)
<1>1. RosterInv /\ Sound(roster) /\ Fits(roster) /\ PausedCount(roster, 0)
    BY DEF PlacesInv, RosterInv, Sound
<1>2. ASSUME NEW p \in Player, Leave(p)
      PROVE  Sound(roster') /\ InGame(roster') \subseteq InGame(roster)
  <2>1. {p} \in SUBSET InGame(roster) /\ roster' = Removed(roster, {p}) BY <1>2 DEF Leave
  <2>2. InGame(roster') = InGame(roster) \ {p} BY <1>1, <2>1, RemovedFits
  <2>3. RosterInv' BY <1>1, <1>2, LeaveSound
  <2> QED BY <2>2, <2>3 DEF RosterInv
<1>3. ASSUME NEW p \in Player, NEW t \in Team, Cmd_team(p, t)
      PROVE  Sound(roster') /\ InGame(roster') \subseteq InGame(roster)
    BY <1>1, <1>3, CmdTeamSound DEF RosterInv
<1>4. ASSUME NEW p \in Player, Pause(p)
      PROVE  Sound(roster') /\ InGame(roster') \subseteq InGame(roster)
    BY <1>1, <1>4, PlayerPauses DEF Pause
<1>5. ASSUME NEW p \in Player, Unpause(p)
      PROVE  Sound(roster') /\ InGame(roster') \subseteq InGame(roster)
    BY <1>1, <1>5, UnpauseSound DEF RosterInv
<1>6. ASSUME NEW p \in Player, NEW b \in Base, Change_home(p, b)
      PROVE  Sound(roster') /\ InGame(roster') \subseteq InGame(roster)
  <2>1. p \in Playing(roster) BY <1>6 DEF Change_home, Playing, InGame, Paused
  <2>2. BaseTeam[b] = roster.team[p] /\ roster' = Player_change_home(roster, p, b)
      BY <1>6 DEF Change_home
  <2>3. /\ Fits(roster')
        /\ roster'.NumPaused = roster.NumPaused
        /\ roster'.NumMembers = roster.NumMembers
        /\ InGame(roster') = InGame(roster)
      BY <1>1, <2>1, <2>2, HomeFits
  <2> QED BY <1>1, <2>3, SameCounts
<1>7. ASSUME NEW p \in Player, Robot_add(p, login_in_progress)
      PROVE  /\ Sound(roster')
             /\ p \in Robot /\ InGame(roster') \subseteq InGame(roster) \cup {p}
             /\ Cardinality(InGame(roster)) + Cardinality(Logins(conn)) < Cardinality(Base)
  <2>1. Cardinality(InGame(roster)) + login_in_progress < Cardinality(Base)
      BY <1>7 DEF Robot_add, MayAddRobot
  <2>2. /\ RosterInv' /\ p \in Robot /\ InGame(roster') \subseteq InGame(roster) \cup {p}
      BY <1>1, <1>7, RobotAddSound
  <2> QED BY <2>1, <2>2, LoginsAre DEF RosterInv
<1> QED BY <1>2, <1>3, <1>4, <1>5, <1>6, <1>7 DEF Play

LEMMA PlayPlaces ==
    ASSUME PlacesInv, Play
    PROVE  Sound(roster') /\ Connected(roster', conn') /\ RoomForAll(roster', conn')
<1>1. conn' = Destroyed(conn, roster') BY DEF Play
<1>2. \A p \in Human : conn'[p] = IF p \in InGame(roster) \ InGame(roster')
                                  THEN FreeConn ELSE conn[p]
    BY <1>1 DEF Destroyed
<1>3. Connected(roster, conn) /\ RoomForAll(roster, conn) BY DEF PlacesInv
<1>4. \A p \in Human : p \in InGame(roster') => p \in InGame(roster)
  <2>1. \A p \in Human : p \notin Robot BY RosterAssumption
  <2> QED BY <2>1, PlayMoves
<1>5. Connected(roster', conn')
    BY <1>2, <1>3, <1>4 DEF Connected, FreeConn
<1>6. Logins(conn') \subseteq Logins(conn) BY <1>2 DEF Logins, FreeConn
<1>7. ASSUME InGame(roster') \subseteq InGame(roster) PROVE RoomForAll(roster', conn')
    BY <1>3, <1>6, <1>7, FewerHaveRoom
<1>8. ASSUME NEW p \in Robot, InGame(roster') \subseteq InGame(roster) \cup {p},
             Cardinality(InGame(roster)) + Cardinality(Logins(conn)) < Cardinality(Base)
      PROVE  RoomForAll(roster', conn')
  <2>1. Cardinality(Logins(conn')) <= Cardinality(Logins(conn)) BY <1>6, Sizes, FS_Subset
  <2>2. Cardinality(InGame(roster')) <= Cardinality(InGame(roster)) + 1
    <3>1. IsFiniteSet(InGame(roster)) BY Sizes
    <3>2. /\ IsFiniteSet(InGame(roster) \cup {p})
          /\ Cardinality(InGame(roster) \cup {p}) =
                 IF p \in InGame(roster) THEN Cardinality(InGame(roster))
                                         ELSE Cardinality(InGame(roster)) + 1
        BY <3>1, FS_AddElement
    <3>3. Cardinality(InGame(roster')) <= Cardinality(InGame(roster) \cup {p})
        BY <1>8, <3>2, FS_Subset
    <3>4. Cardinality(InGame(roster')) \in Nat /\ Cardinality(InGame(roster)) \in Nat
        BY Sizes
    <3> QED BY <3>2, <3>3, <3>4
  <2>3. /\ Cardinality(InGame(roster')) \in Nat /\ Cardinality(InGame(roster)) \in Nat
        /\ Cardinality(Logins(conn)) \in Nat /\ Cardinality(Logins(conn')) \in Nat
        /\ Cardinality(Base) \in Nat /\ MaxPaused \in Nat
      BY Sizes
  <2> QED BY <1>8, <2>1, <2>2, <2>3 DEF RoomForAll
<1> QED BY <1>5, <1>7, <1>8, PlayMoves

LEMMA PlacesNext ==
    ASSUME BasesOf(PauseTeam) = {}, MaxRobots < MaxPaused, PlacesInv, NamesInv,
           [LoginNext /\ UNCHANGED NameOf]_loginVars
    PROVE  PlacesInv'
<1>1. NamesInv' BY NamesNext
<1>2. conn' \in ConnType BY <1>1 DEF NamesInv, ConnApart
<1>3. Sound(roster') /\ Connected(roster', conn') /\ RoomForAll(roster', conn')
  <2>1. CASE roster' = roster /\ conn' = conn BY <2>1 DEF PlacesInv, RosterInv
  <2>2. CASE LoginNext
    <3>1. ASSUME NEW p \in Human, NEW t \in Team \cup {None}, Enqueue(p, t) \/ Requeue(p, t)
          PROVE  roster' = roster /\ conn' = conn
        BY <3>1 DEF Enqueue, Requeue
    <3>2. ASSUME NEW i \in DOMAIN queue, Queue_advance_player(i)
          PROVE  roster' = roster /\ conn' = conn
        BY <3>2 DEF Queue_advance_player
    <3>3. ASSUME NEW p \in Human, Lose(p)
          PROVE  Sound(roster') /\ Connected(roster', conn') /\ RoomForAll(roster', conn')
        BY <3>3, FreedPlaces DEF Lose
    <3> QED BY <2>1, <2>2, <3>1, <3>2, <3>3, QueueLoopPlaces, ListeningPlaces, LoginPlaces,
               PlayPlaces DEF LoginNext
  <2> QED BY <2>1, <2>2 DEF loginVars
<1> QED BY <1>2, <1>3 DEF PlacesInv, RosterInv

LEMMA PlacesInit == ASSUME LoginInit PROVE PlacesInv
<1>1. RosterInit /\ RosterInv BY RosterInitSound DEF LoginInit
<1>2. conn = [p \in Human |-> FreeConn] BY DEF LoginInit
<1>3. conn \in ConnType BY <1>2 DEF ConnType, FreeConn
<1>4. Logins(conn) = {} BY <1>2 DEF Logins, FreeConn
<1>5. InGame(roster) = {} BY <1>1 DEF RosterInit, InGame
<1>6. Connected(roster, conn) BY <1>2, <1>5 DEF Connected, FreeConn
<1>7. Cardinality(InGame(roster)) = 0 /\ Cardinality(Logins(conn)) = 0
    BY <1>4, <1>5, FS_EmptySet
<1>8. RoomForAll(roster, conn) BY <1>7, Sizes DEF RoomForAll
<1> QED BY <1>1, <1>3, <1>6, <1>8 DEF PlacesInv

LEMMA PlacesAreSafe ==
    ASSUME MaxRobots < MaxPaused, PlacesInv, NamesInv
    PROVE  LoginSafe
<1>1. RosterSafe BY SoundIsSafe DEF PlacesInv
<1>2. LoginTypeOK
    BY <1>1 DEF LoginTypeOK, RosterSafe, NamesInv, QueueFits, Entry, PlacesInv, ConnType
<1>3. EnteringFirst BY DEF NamesInv, QueueFits, EnteringBefore, EnteringFirst
<1>4. PlayersAreConnected BY DEF PlacesInv, Connected, PlayersAreConnected
<1>5. CountersHold BY <1>1 DEF CountersHold, RosterSafe
<1>6. LoginsFit
  <2>1. Cardinality(InGame(roster)) + login_in_progress <= Cardinality(Base) + MaxPaused
      BY LoginsAre DEF PlacesInv, RoomForAll
  <2>2. ASSUME HasPlace(roster), SelectLimit >= Cardinality(Base) + MaxPaused
        PROVE  Cardinality(InUse) < MaxConnections
    <3> DEFINE G == InGame(roster)
               L == Logins(conn)
               N == Cardinality(Base) + MaxPaused
    <3>1. Cardinality(G) + Cardinality(L) + 1 <= N
        BY <2>2, PlaceIsRoom DEF PlacesInv, RosterInv
    <3>2. InUse \subseteq G \cup L
      <4>1. \A p \in Human : conn[p].state \in {"free", "listening", "login", "playing"}
          BY DEF PlacesInv, ConnType
      <4> QED BY <4>1 DEF InUse, Logins, PlacesInv, Connected
    <3> HIDE DEF G, L
    <3>3. IsFiniteSet(G) /\ IsFiniteSet(L) /\ Cardinality(G) \in Nat /\ Cardinality(L) \in Nat
        BY Sizes DEF G, L
    <3>4. /\ IsFiniteSet(G \cup L)
          /\ Cardinality(G \cup L) = Cardinality(G) + Cardinality(L) - Cardinality(G \cap L)
        BY <3>3, FS_Union
    <3>5. Cardinality(InUse) <= Cardinality(G \cup L) /\ IsFiniteSet(InUse)
        BY <3>2, <3>4, FS_Subset
    <3>6. Cardinality(G \cap L) \in Nat /\ Cardinality(InUse) \in Nat
        BY <3>3, <3>5, FS_Intersection, FS_CardinalityType
    <3>7. N \in Nat /\ SelectLimit \in Nat BY Sizes, LoginAssumption
    <3>8. Cardinality(InUse) < N BY <3>1, <3>3, <3>4, <3>5, <3>6, <3>7
    <3> HIDE DEF N
    <3>9. Min({SelectLimit, N}) = N
      <4>1. SelectLimit >= N BY <2>2 DEF N
      <4> DEFINE S == {SelectLimit, N}
      <4>2. N \in S /\ \A y \in S : N <= y BY <3>7, <4>1
      <4>3. \A x \in S : (\A y \in S : x <= y) => x = N BY <3>7, <4>1
      <4> HIDE DEF S
      <4>4. Min(S) = N BY <4>2, <4>3 DEF Min
      <4> QED BY <4>4 DEF S
    <3> QED BY <3>8, <3>9 DEF MaxConnections, N
  <2> QED BY <2>1, <2>2 DEF LoginsFit
<1> QED BY <1>2, <1>3, <1>4, <1>5, <1>6 DEF LoginSafe

\* Queue_loop, Setup_connection, Handle_login: nobody who is admitted is turned away
\* for want of a connection or a place, whatever the others do meanwhile.  The bases
\* of the pausers' team are no bases, and there are fewer robots than may pause.
THEOREM LoginsStaySafe ==
    ASSUME BasesOf(PauseTeam) = {}, MaxRobots < MaxPaused
    PROVE  LoginSpec => []LoginSafe
<1>1. LoginInit => PlacesInv /\ NamesInv BY PlacesInit, NamesInit
<1>2. PlacesInv /\ NamesInv /\ [LoginNext /\ UNCHANGED NameOf]_loginVars
          => PlacesInv' /\ NamesInv'
    BY PlacesNext, NamesNext
<1>3. PlacesInv /\ NamesInv => LoginSafe BY PlacesAreSafe
<1> QED BY <1>1, <1>2, <1>3, PTL DEF LoginSpec

=============================================================================
