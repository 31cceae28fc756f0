----------------------------- MODULE FuelStations -----------------------------
(***************************************************************************)
(* A fuel station (map.cpp, update.cpp, player.cpp) and who knows its      *)
(* level.  conn_mask has a bit for each connection whose client does; the  *)
(* bits go when the level changes visibly, frames show the level to those  *)
(* without the bit, and the client acknowledges with the number of the     *)
(* frame.  An acknowledgement may be of a frame from before the change,    *)
(* and a bit be left from the client that had the connection before.       *)
(*                                                                         *)
(* The level regenerates in small amounts that the client need not see.    *)
(***************************************************************************)
EXTENDS Integers, FiniteSets, FiniteSetsExt

CONSTANTS
    Cids,           \* connections, each with a bit of its own
    MAX_STATION_FUEL,
    Regeneration,   \* (int)(NumPlayers * STATION_REGENERATION)
    FramesPerUpdate,
    REFUEL_RATE,
    MaxRefuels,     \* bound: players who refuel in one loop
    MaxLoops,       \* bound: frame_loops
    MaxAcks         \* bound: acknowledgements on their way from one client

VARIABLES
    station,        \* fuel, conn_mask, last_change
    frame_loops,
    client          \* connection -> in: it plays, known: the level it shows,
                    \* acks: its acknowledgements on their way

fuelVars == <<station, frame_loops, client>>

Playing == {c \in Cids : client[c].in}

-----------------------------------------------------------------------------
(* The level.                                                              *)

Fuelstation_add_fuel(s, fuel) ==
    IF fuel = 0 THEN s
    ELSE [fuel |-> s.fuel + fuel, conn_mask |-> {}, last_change |-> frame_loops]

\* Update_fuel_stations, for one of them.
Update_fuel_station(s) ==
    LET fuel == Min({s.fuel + Regeneration, MAX_STATION_FUEL})
    IN  IF s.fuel = MAX_STATION_FUEL THEN s
        ELSE IF fuel < MAX_STATION_FUEL /\ s.last_change + FramesPerUpdate > frame_loops
        THEN [s EXCEPT !.fuel = fuel]
        ELSE [fuel |-> fuel, conn_mask |-> {}, last_change |-> frame_loops]

\* Player_refuel_advance: the station afterwards, and what the player gets.  The rest of
\* the fuel is taken first, and what is left then given to the player.
Player_refuel_advance(s) ==
    IF s.fuel > REFUEL_RATE
    THEN [station |-> Fuelstation_add_fuel(s, -REFUEL_RATE), gain |-> REFUEL_RATE]
    ELSE LET t == Fuelstation_add_fuel(s, -s.fuel)
         IN  [station |-> t, gain |-> t.fuel]

Refuelled(s, n) ==
    LET f[k \in 0 .. n] == IF k = 0 THEN s ELSE Player_refuel_advance(f[k - 1]).station
    IN  f[n]

-----------------------------------------------------------------------------
(* Main_loop and the clients.                                              *)

\* Frame_map: of those whose bit is clear, the ones near are told.  Frames get lost; a
\* client acknowledges each that it gets.
Frame_map(s, loops, got) ==
    client' = [c \in Cids |->
        IF c \in got \ s.conn_mask
        THEN [client[c] EXCEPT !.known = s.fuel, !.acks = @ \cup {loops}]
        ELSE client[c]]

\* A real frame, with n players refuelling, or one in between.
Main_loop_fuel(real, n) ==
    /\ frame_loops < MaxLoops
    /\ frame_loops' = frame_loops + 1
    /\ station' = IF real THEN Refuelled(Update_fuel_station(station), n) ELSE station
    /\ \E got \in SUBSET {c \in Playing : Cardinality(client[c].acks) < MaxAcks} :
           Frame_map(station', frame_loops', got)

\* Mutant: an acknowledgement of the frame before the change will do.
AckCounts_OneEarly(loops_ack) == loops_ack >= station.last_change

AckCounts(loops_ack) == loops_ack > station.last_change

\* It comes, perhaps again later, or is lost.
Receive_ack_fuel(c, loops_ack) ==
    /\ c \in Playing
    /\ station' = IF AckCounts(loops_ack) THEN [station EXCEPT !.conn_mask = @ \cup {c}]
                  ELSE station
    /\ \E again \in BOOLEAN :
           client' = [client EXCEPT ![c].acks = IF again THEN @ ELSE @ \ {loops_ack}]
    /\ UNCHANGED frame_loops

LoseAck(c, loops_ack) ==
    /\ client' = [client EXCEPT ![c].acks = @ \ {loops_ack}]
    /\ UNCHANGED <<station, frame_loops>>

\* The client assumes at startup that all fuelstations are filled.
MaskOfNew(c) == IF station.fuel = MAX_STATION_FUEL THEN station.conn_mask \cup {c}
                ELSE station.conn_mask \ {c}

Handle_login(c) ==
    /\ c \notin Playing
    /\ station' = [station EXCEPT !.conn_mask = MaskOfNew(c)]
    /\ client' = [client EXCEPT ![c] = [in |-> TRUE, known |-> MAX_STATION_FUEL, acks |-> {}]]
    /\ UNCHANGED frame_loops

\* What is on its way to a closed socket does not arrive.
Destroy_connection_fuel(c) ==
    /\ c \in Playing
    /\ client' = [client EXCEPT ![c] = [in |-> FALSE, known |-> 0, acks |-> {}]]
    /\ UNCHANGED <<station, frame_loops>>

FuelInit ==
    /\ station = [fuel |-> MAX_STATION_FUEL, conn_mask |-> Cids, last_change |-> 0]
    /\ frame_loops = 1
    /\ client = [c \in Cids |-> [in |-> FALSE, known |-> 0, acks |-> {}]]

FuelNext ==
    \/ \E real \in BOOLEAN, n \in 0 .. MaxRefuels : Main_loop_fuel(real, n)
    \/ \E c \in Cids :
           \/ Handle_login(c)
           \/ Destroy_connection_fuel(c)
           \/ \E l \in client[c].acks : Receive_ack_fuel(c, l) \/ LoseAck(c, l)

FuelSpec == FuelInit /\ [][FuelNext]_fuelVars

-----------------------------------------------------------------------------

\* A client that is not told the level any more knows it, but for what has regenerated
\* unseen; and it knows when the station is full.
LevelIsKnown ==
    \A c \in Playing \cap station.conn_mask :
        /\ station.fuel - client[c].known \in 0 .. FramesPerUpdate * Regeneration
        /\ station.fuel = MAX_STATION_FUEL => client[c].known = station.fuel

\* Taken over from the station is what the ship gets.
FuelIsKept ==
    \A f \in 0 .. MAX_STATION_FUEL :
        LET s == [station EXCEPT !.fuel = f]
            r == Player_refuel_advance(s)
        IN  r.gain = f - r.station.fuel
=============================================================================
