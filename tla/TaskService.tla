---------------------------- MODULE TaskService ----------------------------
(***************************************************************************)
(* What a pool of worker threads promises its clients, without threads,    *)
(* locks or buffers: accepted tasks wait in arrival order, are handed out  *)
(* from the front, each is finished at most once, and a closed service     *)
(* neither accepts nor hands out anything.  ThreadPool implements it.      *)
(***************************************************************************)
EXTENDS Naturals, Sequences

CONSTANTS Tasks,      \* the jobs a client may submit
          Capacity    \* how many accepted jobs may wait at the same time

VARIABLES pending,    \* accepted jobs nobody has taken yet, oldest first
          running,    \* jobs a worker has taken and not finished
          finished,   \* jobs whose handler has returned
          open        \* FALSE once the service has been closed

serviceVars == <<pending, running, finished, open>>

InPending(t) == \E i \in 1..Len(pending) : pending[i] = t

ServiceInit ==
    /\ pending = <<>>
    /\ running = {}
    /\ finished = {}
    /\ open = TRUE

Accept(t) ==
    /\ open
    /\ Len(pending) < Capacity
    /\ ~InPending(t) /\ t \notin running \cup finished
    /\ pending' = Append(pending, t)
    /\ UNCHANGED <<running, finished, open>>

Take ==
    /\ open
    /\ pending # <<>>
    /\ pending' = Tail(pending)
    /\ running' = running \cup {Head(pending)}
    /\ UNCHANGED <<finished, open>>

Finish(t) ==
    /\ t \in running
    /\ running' = running \ {t}
    /\ finished' = finished \cup {t}
    /\ UNCHANGED <<pending, open>>

Close ==
    /\ open
    /\ open' = FALSE
    /\ UNCHANGED <<pending, running, finished>>

ServiceNext ==
    \/ \E t \in Tasks : Accept(t) \/ Finish(t)
    \/ Take
    \/ Close

ServiceSpec == ServiceInit /\ [][ServiceNext]_serviceVars
=============================================================================
