------------------------------ MODULE MCParts ------------------------------
(***************************************************************************)
(* Parts of the server that share no state, each small by itself, in one   *)
(* state space: a behaviour is a behaviour of one of them.                 *)
(***************************************************************************)
EXTENDS Frames, ObjectPool, Scheduler, SocketBuffer, FuelStations, Options, TLC

VARIABLE part           \* whose behaviour this is

partVars == <<allVars, poolVars, schedVars, bufferVars, fuelVars, optVars>>

MCInit ==
    /\ part \in {"table", "pool", "sched", "frame", "stream", "fuel", "options"}
    /\ TableInit /\ PoolInit /\ SchedInit /\ BufferInit /\ FuelInit /\ OptInit

MCNext ==
    /\ UNCHANGED part
    /\ \/ /\ part = "table" /\ FramesNext
          /\ UNCHANGED <<poolVars, schedVars, bufferVars, fuelVars, optVars>>
       \/ /\ part = "pool" /\ PoolNext
          /\ UNCHANGED <<allVars, schedVars, bufferVars, fuelVars, optVars>>
       \/ /\ part = "sched" /\ SchedNext
          /\ UNCHANGED <<allVars, poolVars, bufferVars, fuelVars, optVars>>
       \/ /\ part = "frame" /\ FrameNext
          /\ UNCHANGED <<allVars, poolVars, schedVars, fuelVars, optVars>>
       \/ /\ part = "stream" /\ StreamNext
          /\ UNCHANGED <<allVars, poolVars, schedVars, fuelVars, optVars>>
       \/ /\ part = "fuel" /\ FuelNext
          /\ UNCHANGED <<allVars, poolVars, schedVars, bufferVars, optVars>>
       \/ /\ part = "options" /\ OptNext
          /\ UNCHANGED <<allVars, poolVars, schedVars, bufferVars, fuelVars>>

MCSpec == MCInit /\ [][MCNext]_<<part, partVars>>

Symm == Permutations(Structs)
=============================================================================
