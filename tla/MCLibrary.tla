------------------------------ MODULE MCLibrary ------------------------------
(***************************************************************************)
(* One instance for TLC of the parts that work inside one thread: part     *)
(* says whether the rolling log file, one of the search structures, the    *)
(* memory pool, the leak detector, the graph of threads, the exception     *)
(* macros or the log's time stamps are used.  The variables of the others  *)
(* keep their initial values.                                              *)
(***************************************************************************)
EXTENDS LogFile, TryCatch, Memory, LogFrontEnd

CONSTANTS StructureKinds, Elements, Slots, Letters, Modulus, MaxLevel, T,
          Vertices, MaxEdges

VARIABLES part,
          kind, s, ref, faults,
          tg

S == INSTANCE Structures
G == INSTANCE ThreadGraph

(* Zones with two types and two transitions ten hours apart, read whole or *)
(* in part; half-hourly times around the transitions.                      *)
ZoneTypes == [gmtOffset : {-5400, 0, 1800, 3600}, isDst : BOOLEAN]
MCZoneFiles ==
  {[types |-> <<a, b>>, times |-> <<[at |-> 14400, type |-> i], [at |-> 50400, type |-> j]>>, got |-> n] :
      a \in ZoneTypes, b \in ZoneTypes, i \in 1 .. 2, j \in 1 .. 2, n \in 0 .. 2}
MCTicks == {1800 * i : i \in -4 .. 34}
MCLogFiles == {[types |-> <<>>, times |-> <<>>, got |-> 0]}
MCSecondYears == 1902 .. 2037

structureVars == <<kind, s, ref, faults>>

(* The choice a part makes in its Init is made only for the one that runs. *)
MCInit ==
  /\ part \in {"file", "structure", "pool", "try", "time", "graph", "hooks"}
  /\ Init /\ (part # "file" => now = 1)
  /\ S!Init /\ (part # "structure" => kind = "heap")
  /\ PoolInit /\ (part # "pool" => ~junk)
  /\ TryInit /\ G!GraphInit /\ HooksInit
  /\ LogInit /\ (part # "time" => walk = "log")
  /\ ~(part = "time" /\ walk = "log") => clock = Min(LogSeconds)

MCNext ==
  \/ /\ part = "file" /\ Next
     /\ UNCHANGED <<part, structureVars, poolVars, tryVars, timeVars, tg, hookVars>>
  \/ /\ part = "structure" /\ S!Next
     /\ UNCHANGED <<part, vars, poolVars, tryVars, timeVars, tg, hookVars>>
  \/ /\ part = "pool" /\ PoolNext
     /\ UNCHANGED <<part, vars, structureVars, tryVars, timeVars, tg, hookVars>>
  \/ /\ part = "try" /\ TryNext
     /\ UNCHANGED <<part, vars, structureVars, poolVars, timeVars, tg, hookVars>>
  \/ /\ part = "time" /\ LogNext
     /\ UNCHANGED <<part, vars, structureVars, poolVars, tryVars, tg, hookVars>>
  \/ /\ part = "graph" /\ G!GraphNext
     /\ UNCHANGED <<part, vars, structureVars, poolVars, tryVars, timeVars, hookVars>>
  \/ /\ part = "hooks" /\ HooksNext
     /\ UNCHANGED <<part, vars, structureVars, poolVars, tryVars, timeVars, tg>>

MCSpec ==
  MCInit /\ [][MCNext]_<<part, vars, structureVars, poolVars, tryVars, timeVars, tg, hookVars>>

(* Every structure keeps its own invariants and holds exactly what was     *)
(* inserted and not deleted; the search of the graph prints the cycles.    *)
StructureSound ==
  S!StructureSound /\ S!BTreeSound /\ (part = "graph" => G!CyclesPrinted)
=============================================================================
