-------------------------------- MODULE Frames --------------------------------
(***************************************************************************)
(* Frame_update (frame.cpp) walks along Players[] and sends each client    *)
(* its frame.  A connection that fails while its frame is sent is          *)
(* destroyed there and then: Player_remove puts the last player in its     *)
(* place, which the walk has passed, and clears locks the walk has yet to  *)
(* draw from.                                                              *)
(*                                                                         *)
(* What a frame holds is a matter of SocketBuffer; here it is whose it is  *)
(* and whose surroundings it shows.                                        *)
(***************************************************************************)
EXTENDS PlayerTable, SequencesExt

\* Humans who are playing, and whose rate has its turn in this frame_cycle, are due:
\* any set of players.  At most one connection fails in a frame (bound).
Dues  == SUBSET InGame
Fails == InGame \cup {None}

\* Whose surroundings pl may see: its own, or, while it waits, is dead or paused, those
\* of the player it has a lock on.
Views(pl, locks) == {pl} \cup ({locks[pl]} \ {None})

Walker == [table |-> Players, num |-> NumPlayers, lock |-> lock, shown |-> <<>>]

\* Mutant: whom to show is settled before the walk.
Walked_OldLocks(due, fails) ==
    LET Step(w, k) ==
            LET pl == w.table[k - 1]
            IN  IF k > w.num \/ pl \notin due THEN w
                ELSE IF pl = fails
                THEN [w EXCEPT !.table = Exchanged(fails), !.num = @ - 1, !.lock = Unlocked(fails)]
                ELSE [w EXCEPT !.shown = Append(@, <<pl, Views(pl, lock)>>)]
    IN  FoldLeft(Step, Walker, [k \in 1 .. NumPlayers |-> k])

\* The walk: shown has, for each frame that was sent, to whom and of whom.  A robot, a
\* client that is not yet playing and one whose turn it is not are passed over.
Walked(due, fails) ==
    LET Step(w, k) ==
            LET pl == w.table[k - 1]
            IN  IF k > w.num \/ pl \notin due THEN w
                ELSE IF pl = fails
                THEN [w EXCEPT !.table = Exchanged(fails), !.num = @ - 1, !.lock = Unlocked(fails)]
                ELSE [w EXCEPT !.shown = Append(@, <<pl, Views(pl, w.lock)>>)]
    IN  FoldLeft(Step, Walker, [k \in 1 .. NumPlayers |-> k])

\* What a frame changes: whose connection fails is no longer in the game.
Frame_update ==
    /\ Going
    /\ \E fails \in Fails :
           IF fails = None THEN UNCHANGED allVars ELSE Player_remove(fails)

FramesNext == TableNext \/ Frame_update

FramesSpec == TableInit /\ [][FramesNext]_allVars

-----------------------------------------------------------------------------

\* A connection that fails in the middle of the walk: no frame goes to the player who has
\* left or shows it, nobody gets two, and nobody misses one but the player who took its
\* place.
FramesReachAll ==
    \A due \in Dues :
    \A fails \in due \cup {None} :
        LET shown == Walked(due, fails).shown
            To    == {shown[k][1] : k \in DOMAIN shown}
            moved == Players[NumPlayers - 1]
        IN  /\ Len(shown) = Cardinality(To)
            /\ To \subseteq due \ {fails}
            /\ due \ To \subseteq IF fails = None THEN {} ELSE {fails, moved}
            /\ \A k \in DOMAIN shown :
                   LET Place(pl) == GetInd[id[pl]]
                   IN  /\ shown[k][2] \subseteq InGame
                       /\ fails \in shown[k][2] => Place(shown[k][1]) < Place(fails)

=============================================================================
