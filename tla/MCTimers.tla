------------------------------ MODULE MCTimers ------------------------------
(***************************************************************************)
(* One instance for TLC of all timers: part says whether the timing wheel  *)
(* runs, or one of the timers with an event loop.  The variables of the    *)
(* other keep their initial values.                                        *)
(***************************************************************************)
EXTENDS TimeWheel, TLC

CONSTANTS Timers, QueueDelays, Start, MaxClock, Modulus, MaxLevel, Kinds

VARIABLES part, kind, q, clock, pc, now, wake, cur, dueAt, live, ran, early, tied, freed

Q == INSTANCE TimerQueues WITH Delays <- QueueDelays, due <- dueAt

queueVars == <<kind, q, clock, pc, now, wake, cur, dueAt, live, ran, early, tied, freed>>

MCInit == part \in {"wheel", "queue"} /\ Init /\ Q!Init /\ (part = "wheel" => kind = "set")

MCNext == \/ part = "wheel" /\ Next /\ UNCHANGED <<part, queueVars>>
          \/ part = "queue" /\ Q!Next /\ UNCHANGED <<part, vars>>

MCSpec == MCInit /\ [][MCNext]_<<part, vars, queueVars>>

(* Nodes of the wheel are interchangeable. *)
Symmetry == Permutations(Nodes)

(* The queue of each event loop timer holds exactly the timers added and   *)
(* neither deleted nor run, whatever their handlers add and delete.        *)
LiveAreQueued == Q!LiveAreQueued

(* expire_timer runs none early and leaves none that was due; the sleep    *)
(* before the next call does not go past the nearest timer.                *)
RunsInTime == Q!RunsInTime
=============================================================================
