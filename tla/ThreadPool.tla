----------------------------- MODULE ThreadPool -----------------------------
(***************************************************************************)
(* The pthread pool of "6. .../thrd_pool.c": a circular task queue guarded *)
(* by one mutex and one condition variable, worker threads that loop in    *)
(* thread_worker, clients that call thread_pool_post, and the destruction  *)
(* protocol close - broadcast - join - free.                               *)
(*                                                                         *)
(* A critical section is one step: everything between a lock and the       *)
(* matching unlock (or cond_wait) touches the pool under the mutex.  The   *)
(* variable mutex is needed only because thread_pool_free locks the mutex  *)
(* and never unlocks it, and the second caller of thread_pool_destroy      *)
(* enters it with the mutex held.  thread_pool_free itself runs without    *)
(* the mutex up to line 125 and is one step per access to the pool.  The   *)
(* pool's memory is taken as zeroed (the code never initialises mutex and  *)
(* condition), as a fresh heap is.                                         *)
(***************************************************************************)
EXTENDS Integers, FiniteSets

CONSTANTS Workers,      \* the threads thread_pool_create starts (thrd_count of them)
          Posters,      \* client threads that call thread_pool_post
          Destroyers,   \* client threads that call thread_pool_destroy, once each
          Tasks,        \* handler/argument pairs, all different
          QueueSize,    \* queue_size
          JoinPosters,  \* TRUE: destroy is called only after the posters have left
          WaitFirst,    \* TRUE: wait_all_done is called before destroy, as in main.c
          NoTask, NoThread

ASSUME PoolAssumption ==
    /\ QueueSize \in Nat \ {0}
    /\ Workers # {} /\ IsFiniteSet(Workers)
    /\ NoTask \notin Tasks
    /\ NoThread \notin Destroyers
    /\ JoinPosters \in BOOLEAN /\ WaitFirst \in BOOLEAN

VARIABLES queue, head, tail, count,   \* task_queue_t
          closed, started,            \* thread_pool_t.closed, .started
          threads,                    \* TRUE while pool->threads is not NULL
          freed,                      \* the pool itself has been freed
          mutex,                      \* NoThread, or the destroyer that kept it
          creator,                    \* the call of thread_pool_create
          pcW, task,                  \* worker threads: place in thread_worker, local task
          pcD,                        \* destroyers: place in thread_pool_destroy
          ret,                        \* posters: last result of thread_pool_post
                                      \* ("ok" 0, "closed" -3, "full" -4), or "left"
          finished                    \* tasks whose handler has returned

vars == <<queue, head, tail, count, closed, started, threads, freed, mutex,
          creator, pcW, task, pcD, ret, finished>>

queueVars == <<queue, head, tail, count>>

Slots == 0 .. QueueSize - 1

Init ==
    /\ queue = [i \in Slots |-> NoTask]
    /\ head = 0 /\ tail = 0 /\ count = 0
    /\ closed = FALSE /\ started = 0
    /\ threads = TRUE /\ freed = FALSE
    /\ mutex = NoThread
    /\ creator = "create"
    /\ pcW = [w \in Workers |-> "none"]
    /\ task = [w \in Workers |-> NoTask]
    /\ pcD = [d \in Destroyers |-> "idle"]
    /\ ret = [p \in Posters |-> "none"]
    /\ finished = {}

-----------------------------------------------------------------------------
(* thread_pool_create: one pthread_create per iteration; any failure       *)
(* returns NULL and leaves the threads started so far behind.              *)

CreateThread(w) ==
    /\ creator = "create" /\ pcW[w] = "none"
    /\ pcW' = [pcW EXCEPT ![w] = "lock"]
    /\ started' = started + 1
    /\ creator' = IF started + 1 = Cardinality(Workers) THEN "created" ELSE "create"
    /\ UNCHANGED <<queueVars, closed, threads, freed, mutex, task, pcD, ret, finished>>

CreateFails ==
    /\ creator = "create"
    /\ creator' = "failed"
    /\ UNCHANGED <<queueVars, closed, started, threads, freed, mutex, pcW, task,
                   pcD, ret, finished>>

-----------------------------------------------------------------------------
Waiters == {w \in Workers : pcW[w] = "wait"}

\* Mutant: the wakeup is forgotten.
SignalledNone == {pcW}

(* pthread_cond_signal: one of the waiters, if there is one, leaves        *)
(* pthread_cond_wait and competes for the mutex again.                     *)
Signalled ==
    IF Waiters = {} THEN {pcW}
    ELSE {[pcW EXCEPT ![w] = "lock"] : w \in Waiters}

\* Mutant: destroy signals one worker instead of all of them.
BroadcastOne ==
    IF Waiters = {} THEN pcW
    ELSE [pcW EXCEPT ![CHOOSE w \in Waiters : TRUE] = "lock"]

(* pthread_cond_broadcast *)
Broadcast == [w \in Workers |-> IF pcW[w] = "wait" THEN "lock" ELSE pcW[w]]

(* A return from pthread_cond_wait that nobody asked for. *)
SpuriousWakeup(w) ==
    /\ pcW[w] = "wait"
    /\ pcW' = [pcW EXCEPT ![w] = "lock"]
    /\ UNCHANGED <<queueVars, closed, started, threads, freed, mutex, creator,
                   task, pcD, ret, finished>>

-----------------------------------------------------------------------------
(* thread_pool_post.  A client holds the pool from the return of create    *)
(* until it leaves; a call on a freed pool is not a call of this API.      *)

Position(k) == (head + k) % QueueSize

Known(t) ==
    \/ \E k \in 0 .. count - 1 : queue[Position(k)] = t
    \/ \E w \in Workers : task[w] = t
    \/ t \in finished

\* Mutant: the limit is tested with an off-by-one.
IsFullLate == count > QueueSize

IsFull == count = QueueSize

CanPost(p) ==
    /\ creator = "created" /\ ~freed /\ mutex = NoThread
    /\ ret[p] # "left"

PostRefused(p) ==
    /\ CanPost(p)
    /\ closed \/ IsFull
    /\ ret' = [ret EXCEPT ![p] = IF closed THEN "closed" ELSE "full"]
    /\ UNCHANGED <<queueVars, closed, started, threads, freed, mutex, creator,
                   pcW, task, pcD, finished>>

NextSlot(i) == (i + 1) % QueueSize

PostAccepted(p, t) ==
    /\ CanPost(p)
    /\ ~closed /\ ~IsFull
    /\ ~Known(t)
    /\ queue' = [queue EXCEPT ![tail] = t]
    /\ tail' = NextSlot(tail)
    /\ count' = count + 1
    /\ pcW' \in Signalled
    /\ ret' = [ret EXCEPT ![p] = "ok"]
    /\ UNCHANGED <<head, closed, started, threads, freed, mutex, creator, task,
                   pcD, finished>>

(* The client stops using the pool.  main.c stops at the first post that   *)
(* is refused; a client may as well stop earlier.                          *)
PosterLeaves(p) ==
    /\ creator = "created" /\ ret[p] # "left"
    /\ ret' = [ret EXCEPT ![p] = "left"]
    /\ UNCHANGED <<queueVars, closed, started, threads, freed, mutex, creator,
                   pcW, task, pcD, finished>>

-----------------------------------------------------------------------------
(* thread_worker: one action per way through the critical section, then    *)
(* the handler runs without the mutex.                                     *)

WorkerLocks(w) == pcW[w] = "lock" /\ mutex = NoThread

WorkerWaits(w) ==
    /\ WorkerLocks(w)
    /\ count = 0 /\ ~closed
    /\ pcW' = [pcW EXCEPT ![w] = "wait"]
    /\ UNCHANGED <<queueVars, closed, started, threads, freed, mutex, creator,
                   task, pcD, ret, finished>>

MayTake == count # 0 /\ ~closed

\* Mutant: the taken task stays in front of the queue.
WorkerTakesTwice(w) ==
    /\ WorkerLocks(w) /\ MayTake
    /\ task' = [task EXCEPT ![w] = queue[head]]
    /\ count' = count - 1
    /\ pcW' = [pcW EXCEPT ![w] = "run"]
    /\ UNCHANGED <<queue, head, tail, closed, started, threads, freed, mutex,
                   creator, pcD, ret, finished>>

WorkerTakes(w) ==
    /\ WorkerLocks(w) /\ MayTake
    /\ task' = [task EXCEPT ![w] = queue[head]]
    /\ head' = NextSlot(head)
    /\ count' = count - 1
    /\ pcW' = [pcW EXCEPT ![w] = "run"]
    /\ UNCHANGED <<queue, tail, closed, started, threads, freed, mutex, creator, pcD,
                   ret, finished>>

WorkerRuns(w) ==
    /\ pcW[w] = "run"
    /\ finished' = finished \cup {task[w]}
    /\ task' = [task EXCEPT ![w] = NoTask]
    /\ pcW' = [pcW EXCEPT ![w] = "lock"]
    /\ UNCHANGED <<queueVars, closed, started, threads, freed, mutex, creator,
                   pcD, ret>>

WorkerExits(w) ==
    /\ WorkerLocks(w)
    /\ closed
    /\ started' = started - 1
    /\ pcW' = [pcW EXCEPT ![w] = "done"]
    /\ UNCHANGED <<queueVars, closed, threads, freed, mutex, creator, task, pcD,
                   ret, finished>>

-----------------------------------------------------------------------------
(* thread_pool_destroy, wait_all_done and thread_pool_free.                *)

(* wait_all_done returns when every thread has exited. *)
AllJoined == \A w \in Workers : pcW[w] = "done"

(* The call: from here on the thread waits for the mutex. *)
DestroyCalls(d) ==
    /\ creator = "created" /\ pcD[d] = "idle" /\ ~freed
    /\ JoinPosters => \A p \in Posters : ret[p] = "left"
    /\ WaitFirst => AllJoined
    /\ pcD' = [pcD EXCEPT ![d] = "lock"]
    /\ UNCHANGED <<queueVars, closed, started, threads, freed, mutex, creator,
                   pcW, task, ret, finished>>

DestroyLocks(d) == pcD[d] = "lock" /\ ~freed /\ mutex = NoThread

DestroyCloses(d) ==
    /\ DestroyLocks(d)
    /\ ~closed
    /\ closed' = TRUE
    /\ pcW' = Broadcast
    /\ pcD' = [pcD EXCEPT ![d] = "join"]
    /\ UNCHANGED <<queueVars, started, threads, freed, mutex, creator, task, ret,
                   finished>>

(* The pool is closed already: thread_pool_free is entered with the mutex  *)
(* held, and nothing unlocks it.                                           *)
DestroyAgain(d) ==
    /\ DestroyLocks(d)
    /\ closed
    /\ mutex' = d
    /\ pcD' = [pcD EXCEPT ![d] = "free"]
    /\ UNCHANGED <<queueVars, closed, started, threads, freed, creator, pcW, task,
                   ret, finished>>

\* Mutant: the join loop leaves out one worker.
DestroyJoinsMost(d) ==
    /\ pcD[d] = "join" /\ \E v \in Workers : \A w \in Workers \ {v} : pcW[w] = "done"
    /\ pcD' = [pcD EXCEPT ![d] = "free"]
    /\ UNCHANGED <<queueVars, closed, started, threads, freed, mutex, creator,
                   pcW, task, ret, finished>>

DestroyJoins(d) ==
    /\ pcD[d] = "join" /\ AllJoined
    /\ pcD' = [pcD EXCEPT ![d] = "free"]
    /\ UNCHANGED <<queueVars, closed, started, threads, freed, mutex, creator,
                   pcW, task, ret, finished>>

(* thread_pool_free returns at once while threads are counted as running. *)
StillStarted == started > 0

(* The tests of started and of threads; the first caller returns 0, the    *)
(* second one -3 with the mutex locked.                                    *)
FreeTests(d) ==
    /\ pcD[d] = "free" /\ ~freed
    /\ pcD' = [pcD EXCEPT ![d] =
                 IF StillStarted THEN IF mutex = d THEN "refused" ELSE "end"
                 ELSE IF threads THEN "threads" ELSE "pool"]
    /\ UNCHANGED <<queueVars, closed, started, threads, freed, mutex, creator,
                   pcW, task, ret, finished>>

(* free(pool->threads), which another caller may have set to NULL since. *)
FreesThreads(d) ==
    /\ pcD[d] = "threads" /\ ~freed
    /\ threads' = FALSE
    /\ pcD' = [pcD EXCEPT ![d] = "relock"]
    /\ UNCHANGED <<queueVars, closed, started, freed, mutex, creator, pcW, task,
                   ret, finished>>

(* The mutex is locked and destroyed.  The second caller, which holds it,  *)
(* waits here for ever.                                                    *)
FreeRelocks(d) ==
    /\ pcD[d] = "relock" /\ ~freed /\ mutex = NoThread
    /\ mutex' = d
    /\ pcD' = [pcD EXCEPT ![d] = "pool"]
    /\ UNCHANGED <<queueVars, closed, started, threads, freed, creator, pcW, task,
                   ret, finished>>

(* The task queue and the pool are freed. *)
FreesPool(d) ==
    /\ pcD[d] = "pool" /\ ~freed
    /\ freed' = TRUE
    /\ pcD' = [pcD EXCEPT ![d] = "end"]
    /\ UNCHANGED <<queueVars, closed, started, threads, mutex, creator, pcW, task,
                   ret, finished>>

(* The caller uses what another caller has freed: the pool at any place of *)
(* thread_pool_destroy, the array in wait_all_done, or the array a second  *)
(* time, if its pointer was loaded before the other set it to NULL.        *)
DestroyCrashes(d) ==
    /\ \/ freed /\ pcD[d] \in {"lock", "free", "threads", "relock", "pool"}
       \/ ~threads /\ pcD[d] \in {"join", "threads"}
    /\ pcD' = [pcD EXCEPT ![d] = "crash"]
    /\ UNCHANGED <<queueVars, closed, started, threads, freed, mutex, creator,
                   pcW, task, ret, finished>>

(* The program is over: create failed, or the pool is gone. *)
Terminated ==
    /\ creator = "failed" \/ \A d \in Destroyers : pcD[d] = "end"
    /\ UNCHANGED vars

WorkerStep(w) ==
    WorkerWaits(w) \/ WorkerTakes(w) \/ WorkerRuns(w) \/ WorkerExits(w)

FreeStep(d) == FreeTests(d) \/ FreesThreads(d) \/ FreeRelocks(d) \/ FreesPool(d)

(* What a thread does once it has called thread_pool_destroy. *)
DestroyRuns(d) ==
    DestroyCloses(d) \/ DestroyAgain(d) \/ DestroyJoins(d) \/ FreeStep(d)

DestroyStep(d) == DestroyCalls(d) \/ DestroyRuns(d) \/ DestroyCrashes(d)

Next ==
    \/ CreateFails
    \/ \E w \in Workers : CreateThread(w) \/ WorkerStep(w) \/ SpuriousWakeup(w)
    \/ \E p \in Posters : PostRefused(p) \/ PosterLeaves(p)
    \/ \E p \in Posters, t \in Tasks : PostAccepted(p, t)
    \/ \E d \in Destroyers : DestroyStep(d)
    \/ Terminated

Spec == Init /\ [][Next]_vars

(* The scheduler runs every thread that can run, a mutex that is free is   *)
(* eventually granted, and handlers return.  Nothing forces a client to    *)
(* post, to leave or to call thread_pool_destroy.                          *)
Fairness ==
    /\ WF_vars(CreateFails \/ \E w \in Workers : CreateThread(w))
    /\ \A w \in Workers : WF_vars(WorkerStep(w))
    /\ \A d \in Destroyers : WF_vars(DestroyRuns(d))

FairSpec == Spec /\ Fairness

(* The client is main.c: it stops posting (the queue fills up) and then    *)
(* goes on to thread_pool_destroy.                                         *)
MainFairness ==
    /\ \A p \in Posters : WF_vars(PosterLeaves(p))
    /\ \A d \in Destroyers : WF_vars(DestroyStep(d))

MainSpec == FairSpec /\ MainFairness
-----------------------------------------------------------------------------
(* Properties.                                                             *)

(* Every variable keeps its type; head, tail and count stay inside the     *)
(* circular buffer of queue_size slots whatever the interleaving of        *)
(* thread_pool_post and thread_worker.                                     *)
TypeOK ==
    /\ queue \in [Slots -> Tasks \cup {NoTask}]
    /\ head \in Slots /\ tail \in Slots /\ count \in 0 .. QueueSize
    /\ closed \in BOOLEAN /\ started \in 0 .. Cardinality(Workers)
    /\ threads \in BOOLEAN /\ freed \in BOOLEAN
    /\ mutex \in Destroyers \cup {NoThread}
    /\ creator \in {"create", "created", "failed"}
    /\ pcW \in [Workers -> {"none", "lock", "wait", "run", "done"}]
    /\ task \in [Workers -> Tasks \cup {NoTask}]
    /\ pcD \in [Destroyers -> {"idle", "lock", "join", "free", "threads", "relock",
                            "pool", "end", "refused", "crash"}]
    /\ ret \in [Posters -> {"none", "ok", "closed", "full", "left"}]
    /\ finished \in SUBSET Tasks

(* The waiting tasks, oldest first. *)
Pending == [i \in 1 .. count |-> queue[Position(i - 1)]]

Running == {task[w] : w \in {v \in Workers : pcW[v] = "run"}}

Service == INSTANCE TaskService WITH
    Capacity <- QueueSize, pending <- Pending, running <- Running,
    finished <- finished, open <- ~closed

(* The pool implements TaskService: the circular buffer never loses,       *)
(* repeats or reorders an accepted task, no task is handed to two workers, *)
(* and a closed pool hands out nothing more.                               *)
ImplementsService == Service!ServiceSpec

(* No lost wakeup: while a task waits in an open pool, some worker is on   *)
(* its way to the queue, so the single pthread_cond_signal of              *)
(* thread_pool_post together with the while loop of thread_worker is       *)
(* enough, spurious wakeups included.  (Before the first worker thread is  *)
(* created nobody can post.)                                               *)
NoLostWakeup ==
    (~closed /\ count > 0) => \E w \in Workers : pcW[w] \in {"lock", "run"}

(* After thread_pool_destroy has closed the pool no worker sleeps on the   *)
(* condition variable, so every join can end.                              *)
NoSleeperAfterClose == closed => Waiters = {}

(* No other thread has called thread_pool_destroy. *)
Alone(d) == \A e \in Destroyers \ {d} : pcD[e] = "idle"

(* The pool's memory goes away only when every worker has left             *)
(* thread_worker, however many threads call thread_pool_destroy.  If one   *)
(* thread calls it, freeing is the last thing it does with the pool: it    *)
(* never frees or uses anything twice, is not refused, and does not wait   *)
(* for a mutex that nobody will unlock.  (thread_pool_free is not made for *)
(* two: see DestroyCrashes and the stop in FreeRelocks.)                   *)
FreedAfterExit ==
    /\ freed => AllJoined
    /\ \A d \in Destroyers : Alone(d) =>
        /\ pcD[d] \notin {"refused", "crash"}
        /\ freed => pcD[d] = "end"
        /\ mutex # NoThread => pcD[d] \in {"pool", "end"}

(* started counts the workers inside thread_worker, and a destroy that     *)
(* returns 0 has really freed the pool: the started > 0 test of            *)
(* thread_pool_free never makes it leak the pool.                          *)
DestroyFreesPool ==
    /\ started = Cardinality({w \in Workers : pcW[w] \notin {"none", "done"}})
    /\ \A d \in Destroyers : pcD[d] = "end" => freed

(* thread_pool_destroy wakes everybody, frees the pool after its last use  *)
(* and never returns 0 without having freed it.                            *)
DestroySafe == NoSleeperAfterClose /\ FreedAfterExit /\ DestroyFreesPool

(* A thread that calls thread_pool_destroy returns from it, unless another *)
(* thread calls it too: neither the join loop nor the second lock of       *)
(* thread_pool_free can hang.                                              *)
DestroyReturns ==
    \A d \in Destroyers :
        pcD[d] = "lock" ~> pcD[d] = "end" \/ ~Alone(d)

(* An accepted task is run unless the pool is closed first: no schedule of *)
(* posts, spurious wakeups and other tasks leaves it in the queue.         *)
AcceptedTaskRuns ==
    \A t \in Tasks : (\E i \in 1 .. count : Pending[i] = t) ~> (t \in finished \/ closed)

(* The pool makes progress: tasks are run, and closing it ends. *)
Progress == DestroyReturns /\ AcceptedTaskRuns

(* main.c waits for all threads and then prints how many tasks were done:  *)
(* once the pool exists, the call of thread_pool_destroy is reached.       *)
MainReachesDestroy ==
    \A d \in Destroyers : creator = "created" ~> pcD[d] = "end"
=============================================================================
