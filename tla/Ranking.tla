------------------------------- MODULE Ranking -------------------------------
(***************************************************************************)
(* The ranking (rank.cpp): a table of what is remembered of players, with  *)
(* the order they were put into when it was last sorted; the file it is    *)
(* written to when somebody has come or gone, and read from when the       *)
(* server starts.  The file is written under another name and renamed, so  *)
(* it is the old one or the new one, whenever the server stops.            *)
(*                                                                         *)
(* Of the numbers that are kept of a player only the score is here; the    *)
(* others are changed at the same places and take the same way.  Players   *)
(* who are ranked by their score have at least 300 rounds and are equal    *)
(* otherwise.                                                              *)
(***************************************************************************)
EXTENDS Integers, FiniteSets, FiniteSetsExt, Sequences, SequencesExt

CONSTANTS
    Players,    \* structures of humans
    Nicks,
    MAX_SCORES,
    MaxScore, MaxTime,  \* bounds
    NoOne       \* NULL; no name

ASSUME RankAssumption ==
    /\ MAX_SCORES \in Nat \ {0}
    /\ NoOne \notin Players \cup Nicks \cup Int

VARIABLES
    ranknodes,  \* 0 .. MAX_SCORES-1 -> name, score, timestamp, pl
    rank_base,  \* 0 .. MAX_SCORES-1 -> indices of nodes, the best first
    ranked,     \* structure -> name (NoOne: not in the game), score, rank (a node or NoOne)
    came,       \* num_logins or num_logouts is not 0
    file,       \* a sequence of name, score, timestamp
    now         \* time(NULL)

rankVars == <<ranknodes, rank_base, ranked, came, file, now>>

Index   == 0 .. MAX_SCORES - 1
Used    == {i \in Index : ranknodes[i].name # NoOne}
Empty   == [name |-> NoOne, score |-> 0, timestamp |-> 0, pl |-> NoOne]
NoEntry == [name |-> NoOne, score |-> 0, rank |-> NoOne]

-----------------------------------------------------------------------------
\* The ratio of a node that is not in use is -1; that of others is not negative.
Before(i, j) ==
    LET ratio(k) == IF k \in Used THEN ranknodes[k].score ELSE -1
    IN  ratio(i) > ratio(j) \/ (ratio(i) = ratio(j) /\ i < j)

Rank_sort == [n \in Index |-> CHOOSE i \in Index : Cardinality({j \in Index : Before(j, i)}) = n]

\* The first rank_entries of the order, after Rank_write_webpage, which sorts.
Rank_write_rankfile ==
    file' = [n \in 1 .. Cardinality(Used) |->
                LET node == ranknodes[rank_base'[n - 1]]
                IN  [name |-> node.name, score |-> node.score, timestamp |-> node.timestamp]]

-----------------------------------------------------------------------------
\* Rank_get_saved_score, when pl has logged in with that name: its node, the first that is
\* not used, or that of the bottom half which was used least recently.
Rank_get_saved_score(pl, name) ==
    LET known  == {i \in Index : ranknodes[i].name = name}
        unused == Index \ Used
        bottom == [i \in MAX_SCORES \div 2 .. MAX_SCORES - 1 |-> rank_base[i]]
        Older(i, j) == ranknodes[bottom[i]].timestamp < ranknodes[bottom[j]].timestamp
        lru    == bottom[CHOOSE i \in DOMAIN bottom :
                            \A j \in DOMAIN bottom : ~Older(j, i) /\ (Older(i, j) \/ i <= j)]
        fresh  == IF unused # {} THEN Min(unused) ELSE lru
        taken  == Min(known)
    IN  IF known = {}
        THEN /\ ranknodes' = [ranknodes EXCEPT ![fresh] =
                                [name |-> name, score |-> 0, timestamp |-> now, pl |-> pl]]
             /\ ranked' = [ranked EXCEPT ![pl] = [name |-> name, score |-> 0, rank |-> fresh]]
        ELSE IF ranknodes[taken].pl = NoOne
        THEN /\ ranknodes' = [ranknodes EXCEPT ![taken].pl = pl]
             /\ ranked' = [ranked EXCEPT ![pl] =
                            [name |-> name, score |-> ranknodes[taken].score, rank |-> taken]]
        ELSE /\ ranked' = [ranked EXCEPT ![pl] = [name |-> name, score |-> 0, rank |-> NoOne]]
             /\ UNCHANGED ranknodes

Handle_login(pl, name) ==
    /\ ranked[pl].name = NoOne /\ \A p \in Players : ranked[p].name # name
    /\ Rank_get_saved_score(pl, name)
    /\ came' = TRUE
    /\ UNCHANGED <<rank_base, file, now>>

Rank_save_score(pl) ==
    ranknodes' = IF ranked[pl].rank = NoOne THEN ranknodes
                 ELSE [ranknodes EXCEPT ![ranked[pl].rank].score = ranked[pl].score,
                                        ![ranked[pl].rank].pl = NoOne,
                                        ![ranked[pl].rank].timestamp = now]

\* With Player_remove.
Destroy_connection(pl) ==
    /\ ranked[pl].name # NoOne
    /\ Rank_save_score(pl)
    /\ ranked' = [ranked EXCEPT ![pl] = NoEntry]
    /\ came' = TRUE
    /\ UNCHANGED <<rank_base, file, now>>

\* Mutant: the node of the player is forgotten.
Scored_GameOnly(pl) == UNCHANGED ranknodes

Scored(pl) ==
    ranknodes' = IF ranked[pl].rank = NoOne THEN ranknodes
                 ELSE [ranknodes EXCEPT ![ranked[pl].rank].score = @ + 1]

SCORE(pl) ==
    /\ ranked[pl].name # NoOne /\ ranked[pl].score < MaxScore
    /\ \A i \in Used : ranknodes[i].score <= MaxScore
    /\ ranked' = [ranked EXCEPT ![pl].score = @ + 1]
    /\ Scored(pl)
    /\ UNCHANGED <<rank_base, came, file, now>>

Rank_write_webpage == rank_base' = Rank_sort

\* In Main_loop, when somebody has come or gone.
Update_rank ==
    /\ came /\ came' = FALSE
    /\ Rank_write_webpage /\ Rank_write_rankfile
    /\ UNCHANGED <<ranknodes, ranked, now>>

\* Team_game_over and Game_Over; and Main_loop, when somebody has paused or a robot has come.
Game_over ==
    /\ Rank_write_webpage /\ Rank_write_rankfile
    /\ UNCHANGED <<ranknodes, ranked, came, now>>

\* The server stops, of itself or not, and is started again: Rank_init_saved_scores.
Loaded(f) == [i \in Index |-> IF i < Len(f) THEN [name |-> f[i + 1].name, score |-> f[i + 1].score,
                                                  timestamp |-> f[i + 1].timestamp, pl |-> NoOne]
                              ELSE Empty]
Started ==
    /\ rank_base' = [i \in Index |-> 0]
    /\ ranked' = [p \in Players |-> NoEntry]
    /\ came' = FALSE
    /\ ranknodes' = Loaded(file)
    /\ UNCHANGED <<file, now>>

Tick == now < MaxTime /\ now' = now + 1 /\ UNCHANGED <<ranknodes, rank_base, ranked, came, file>>

RankInit ==
    /\ ranknodes = Loaded(<<>>) /\ rank_base = [i \in Index |-> 0]
    /\ ranked = [p \in Players |-> NoEntry]
    /\ came = FALSE /\ file = <<>> /\ now = 0

RankNext ==
    \/ Update_rank \/ Game_over \/ Started \/ Tick
    \/ \E pl \in Players :
           \/ Destroy_connection(pl) \/ SCORE(pl)
           \/ \E name \in Nicks : Handle_login(pl, name)

RankSpec == RankInit /\ [][RankNext]_rankVars

-----------------------------------------------------------------------------
\* While there is room in the table, what is scored goes to the node of who scored it, and
\* stays there: over leaving and coming back, and over a restart of the server.
ScoresAreOwn ==
    Used # Index => \A p \in Players : ranked[p].name # NoOne =>
        LET node == ranknodes[ranked[p].rank]
        IN  ranked[p].rank # NoOne /\ node.name = ranked[p].name /\ node.pl = p /\ node.score = ranked[p].score

\* When everybody who came or went has been noticed, the file has all of the table and nobody
\* twice; and, while there is room in the table, the last score of all who are away.
FileIsCurrent ==
    ~came =>
        /\ {file[n].name : n \in DOMAIN file} = {ranknodes[i].name : i \in Used}
        /\ Len(file) = Cardinality(Used)
        /\ \A n \in DOMAIN file, i \in Used :
               /\ Used # Index
               /\ file[n].name = ranknodes[i].name
               /\ \A p \in Players : ranked[p].name # file[n].name
               => file[n].score = ranknodes[i].score

\* The ranking loses no score that it has room for, in memory or in its file.
RankSafe == ScoresAreOwn /\ FileIsCurrent

\* "create new info by kicking the player who hasn't played for the longest time"
\* (rank.cpp): false, coming back does not count as having played, and a player who is in
\* the game is forgotten.
PlayingAreKept ==
    \A p \in Players : ranked[p].name # NoOne => \E i \in Used : ranknodes[i].name = ranked[p].name
=============================================================================
