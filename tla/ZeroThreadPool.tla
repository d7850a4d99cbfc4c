--------------------------- MODULE ZeroThreadPool ---------------------------
(***************************************************************************)
(* The C++11 pool of "3. C++.../zero_threadpool.cpp": a task queue, a      *)
(* mutex and ONE condition variable on which both the workers (in get) and *)
(* the callers of waitForAllDone wait, and an atomic counter of running    *)
(* tasks that is changed outside the mutex.                                *)
(*                                                                         *)
(* A critical section is one step.  Both kinds of waiting re-test their    *)
(* predicate in a loop, so a notified thread is simply back before its     *)
(* test.  isTerminate() reads _bTerminate without the mutex: a stale FALSE *)
(* there is the same as a read just before stop().                         *)
(***************************************************************************)
EXTENDS Integers, Sequences, FiniteSets, SequencesExt

CONSTANTS Workers,      \* the threads start() creates
          Clients,      \* threads that call exec and waitForAllDone
          Tasks,        \* the tasks they give to exec, all different
          StopEarly,    \* may stop() be called while clients use the pool: a set of answers
          NoTask

ASSUME ZeroPoolAssumption ==
    /\ Workers # {} /\ IsFiniteSet(Workers)
    /\ Clients # {} /\ Workers \cap Clients = {}
    /\ StopEarly \subseteq BOOLEAN
    /\ NoTask \notin Tasks

VARIABLES tasks,       \* _tasks
          terminate,   \* _bTerminate
          atomic,      \* _atomic
          pcW, task,   \* workers: place in run/get, the local task
          pcC, timed,  \* clients: place in waitForAllDone, TRUE for a call with a time limit
          ret,         \* clients: result of the last waitForAllDone
          before,      \* clients: tasks given to exec before that call
          pcS,         \* the owner's place in stop()
          early,       \* the owner calls stop() without waiting for the clients
          done         \* tasks that have been run, or skipped as expired

vars == <<tasks, terminate, atomic, pcW, task, pcC, timed, ret, before, pcS, early, done>>
owner == <<pcS, early>>
workers == <<pcW, task, atomic, done>>
clients == <<pcC, timed, ret, before>>

InHand == {task[w] : w \in {v \in Workers : pcW[v] \in {"got", "run"}}}
Posted == ToSet(tasks) \cup InHand \cup done

(* After init(n) and start(). *)
Init ==
    /\ tasks = <<>> /\ terminate = FALSE /\ atomic = 0
    /\ pcW = [w \in Workers |-> "check"]
    /\ task = [w \in Workers |-> NoTask]
    /\ pcC = [c \in Clients |-> "idle"]
    /\ timed = [c \in Clients |-> FALSE]
    /\ ret = [c \in Clients |-> FALSE]
    /\ before = [c \in Clients |-> {}]
    /\ pcS = "use" /\ early \in StopEarly
    /\ done = {}

-----------------------------------------------------------------------------
(* The condition variable. *)

SleepingWorkers == {w \in Workers : pcW[w] = "waiting"}
SleepingClients == {c \in Clients : pcC[c] = "waiting"}

WakeW(S) == pcW' = [w \in Workers |-> IF w \in S THEN "get" ELSE pcW[w]]
WakeC(S) == pcC' = [c \in Clients |-> IF c \in S THEN "test" ELSE pcC[c]]

(* notify_one: any one of those who wait, worker or client. *)
NotifyOne ==
    \/ SleepingWorkers \cup SleepingClients = {} /\ WakeW({}) /\ WakeC({})
    \/ \E w \in SleepingWorkers : WakeW({w}) /\ WakeC({})
    \/ \E c \in SleepingClients : WakeW({}) /\ WakeC({c})

-----------------------------------------------------------------------------
(* Clients. *)

(* Mutant: exec notifies nobody. *)
ExecNotifiesNobody == WakeW({}) /\ WakeC({})

(* notify_one in exec(). *)
ExecNotifies == NotifyOne

(* exec(f, args): push and notify_one. *)
Exec(c, t) ==
    /\ pcC[c] = "idle" /\ t \in Tasks \ Posted
    /\ tasks' = Append(tasks, t)
    /\ ExecNotifies
    /\ UNCHANGED <<terminate, atomic, task, timed, ret, before, owner, done>>

(* Mutant: a notification is taken for the end of all tasks. *)
QueueEmptyAlways == TRUE

(* The wait's predicate: _tasks.empty(). *)
QueueEmpty == tasks = <<>>

(* waitForAllDone: the early test, and the call with a limit of zero. *)
WaitReturnsAtOnce(c) ==
    /\ pcC[c] = "idle"
    /\ before' = [before EXCEPT ![c] = Posted]
    /\ ret' = [ret EXCEPT ![c] = QueueEmpty]
    /\ UNCHANGED <<tasks, terminate, workers, pcC, timed, owner>>

(* waitForAllDone(-1), or with a time limit, and tasks are queued. *)
WaitForAllDone(c) ==
    /\ pcC[c] = "idle" /\ ~QueueEmpty
    /\ \E b \in BOOLEAN : timed' = [timed EXCEPT ![c] = b]
    /\ before' = [before EXCEPT ![c] = Posted]
    /\ ret' = [ret EXCEPT ![c] = FALSE]
    /\ pcC' = [pcC EXCEPT ![c] = "waiting"]
    /\ UNCHANGED <<tasks, terminate, workers, owner>>

(* Notified: test the predicate, return TRUE or wait again. *)
WaitTests(c) ==
    /\ pcC[c] = "test"
    /\ pcC' = [pcC EXCEPT ![c] = IF QueueEmpty THEN "idle" ELSE "waiting"]
    /\ ret' = [ret EXCEPT ![c] = QueueEmpty]
    /\ UNCHANGED <<tasks, terminate, workers, timed, before, owner>>

(* wait_for runs out: it returns the predicate's value. *)
WaitTimesOut(c) ==
    /\ pcC[c] = "waiting" /\ timed[c]
    /\ pcC' = [pcC EXCEPT ![c] = "idle"]
    /\ ret' = [ret EXCEPT ![c] = QueueEmpty]
    /\ UNCHANGED <<tasks, terminate, workers, timed, before, owner>>

(* A client that has nothing left to do, and whose last call was a         *)
(* waitForAllDone that returned TRUE, leaves the pool.                     *)
ClientLeaves(c) ==
    /\ pcC[c] = "idle" /\ ret[c] /\ Posted = Tasks /\ before[c] = Tasks
    /\ pcC' = [pcC EXCEPT ![c] = "left"]
    /\ UNCHANGED <<tasks, terminate, workers, timed, ret, before, owner>>

-----------------------------------------------------------------------------
(* Workers: run() and get(). *)

(* while (!isTerminate()). *)
WorkerChecks(w) ==
    /\ pcW[w] = "check"
    /\ pcW' = [pcW EXCEPT ![w] = IF terminate THEN "exited" ELSE "get"]
    /\ UNCHANGED <<tasks, terminate, atomic, task, clients, owner, done>>

(* get(): nothing to do, wait on the condition. *)
WorkerWaits(w) ==
    /\ pcW[w] = "get" /\ ~terminate /\ tasks = <<>>
    /\ pcW' = [pcW EXCEPT ![w] = "waiting"]
    /\ UNCHANGED <<tasks, terminate, atomic, task, clients, owner, done>>

(* get() returns FALSE, whatever is queued. *)
GetRefuses(w) ==
    /\ pcW[w] = "get" /\ terminate
    /\ pcW' = [pcW EXCEPT ![w] = "check"]
    /\ UNCHANGED <<tasks, terminate, atomic, task, clients, owner, done>>

(* _tasks.pop(). *)
Popped(q) == Tail(q)

(* get() returns TRUE with the oldest task. *)
GetTakes(w) ==
    /\ pcW[w] = "get" /\ ~terminate /\ tasks # <<>>
    /\ task' = [task EXCEPT ![w] = Head(tasks)]
    /\ tasks' = Popped(tasks)
    /\ pcW' = [pcW EXCEPT ![w] = "got"]
    /\ UNCHANGED <<terminate, atomic, clients, owner, done>>

(* ++_atomic, outside the mutex. *)
WorkerCounts(w) ==
    /\ pcW[w] = "got"
    /\ atomic' = atomic + 1
    /\ pcW' = [pcW EXCEPT ![w] = "run"]
    /\ UNCHANGED <<tasks, terminate, task, clients, owner, done>>

(* The task runs (an exception is swallowed) or is skipped as expired,     *)
(* then --_atomic, outside the mutex.                                      *)
WorkerRuns(w) ==
    /\ pcW[w] = "run"
    /\ done' = done \cup {task[w]}
    /\ task' = [task EXCEPT ![w] = NoTask]
    /\ atomic' = atomic - 1
    /\ pcW' = [pcW EXCEPT ![w] = "after"]
    /\ UNCHANGED <<tasks, terminate, clients, owner>>

(* Mutant: the counter is never found to be zero. *)
LastOneNever == atomic < 0

(* _atomic == 0 && _tasks.empty(). *)
LastOne == atomic = 0 /\ tasks = <<>>

(* Under the mutex again: the last one notifies everybody. *)
WorkerNotifies(w) ==
    /\ pcW[w] = "after"
    /\ pcW' = [v \in Workers |-> IF v = w THEN "check"
                                 ELSE IF LastOne /\ v \in SleepingWorkers THEN "get"
                                 ELSE pcW[v]]
    /\ WakeC(IF LastOne THEN SleepingClients ELSE {})
    /\ UNCHANGED <<tasks, terminate, atomic, task, timed, ret, before, owner, done>>

-----------------------------------------------------------------------------
(* The owner: stop(), also called by the destructor. *)

(* notify_all in stop(). *)
StopNotifies == WakeW(SleepingWorkers) /\ WakeC(SleepingClients)

StopTerminates ==
    /\ pcS = "use"
    /\ early \/ \A c \in Clients : pcC[c] = "left"
    /\ terminate' = TRUE
    /\ StopNotifies
    /\ pcS' = "join"
    /\ UNCHANGED <<tasks, atomic, task, timed, ret, before, early, done>>

StopJoins ==
    /\ pcS = "join" /\ \A w \in Workers : pcW[w] = "exited"
    /\ pcS' = "stopped"
    /\ UNCHANGED <<tasks, terminate, workers, clients, early>>

(* Nothing more to do. *)
Finished == pcS = "stopped" /\ UNCHANGED vars

(* A wakeup nobody asked for. *)
SpuriousWakeup ==
    /\ \/ \E w \in SleepingWorkers : WakeW({w}) /\ WakeC({})
       \/ \E c \in SleepingClients : WakeW({}) /\ WakeC({c})
    /\ UNCHANGED <<tasks, terminate, atomic, task, timed, ret, before, owner, done>>

Worker(w) == WorkerChecks(w) \/ WorkerWaits(w) \/ GetRefuses(w) \/ GetTakes(w)
             \/ WorkerCounts(w) \/ WorkerRuns(w) \/ WorkerNotifies(w)
Client(c) == (\E t \in Tasks : Exec(c, t)) \/ WaitReturnsAtOnce(c) \/ WaitForAllDone(c)
             \/ WaitTests(c) \/ WaitTimesOut(c) \/ ClientLeaves(c)

Next == \/ \E w \in Workers : Worker(w)
        \/ \E c \in Clients : Client(c)
        \/ StopTerminates \/ StopJoins \/ SpuriousWakeup \/ Finished

Spec == Init /\ [][Next]_vars

(* Threads that can run are scheduled and tasks return; nobody has to call *)
(* anything.                                                               *)
Fairness == /\ \A w \in Workers : WF_vars(Worker(w))
            /\ \A c \in Clients : WF_vars(WaitTests(c))
            /\ WF_vars(StopJoins)

FairSpec == Spec /\ Fairness

-----------------------------------------------------------------------------
(* Properties. *)

(* Every piece of state has its type; the counter of running tasks is      *)
(* exactly the number of workers between ++_atomic and --_atomic.          *)
TypeOK ==
    /\ tasks \in Seq(Tasks)
    /\ terminate \in BOOLEAN
    /\ atomic = Cardinality({w \in Workers : pcW[w] = "run"})
    /\ pcW \in [Workers -> {"check", "get", "waiting", "got", "run", "after", "exited"}]
    /\ task \in [Workers -> Tasks \cup {NoTask}]
    /\ pcC \in [Clients -> {"idle", "waiting", "test", "left"}]
    /\ timed \in [Clients -> BOOLEAN] /\ ret \in [Clients -> BOOLEAN]
    /\ before \in [Clients -> SUBSET Tasks]
    /\ pcS \in {"use", "join", "stopped"} /\ early \in StopEarly
    /\ done \subseteq Tasks

(* A task is never executed twice: it is in the queue once, or in the      *)
(* hands of one worker, or done.                                           *)
EachTaskOnce ==
    /\ IsInjective(tasks)
    /\ ToSet(tasks) \cap InHand = {} /\ done \cap (InHand \cup ToSet(tasks)) = {}
    /\ \A v, w \in Workers : v # w /\ task[v] = task[w] => task[v] = NoTask

(* The sequence of main.cpp, exec - waitForAllDone - stop, loses no task:  *)
(* when stop() has returned everything has been run or has expired, though *)
(* waitForAllDone looks only at the queue.                                 *)
NothingLost == ~early /\ pcS = "stopped" => done = Tasks

(* Exactly once: no task is run twice, after an orderly end none is left   *)
(* over, and the counter of running tasks is right all the while.          *)
ExactlyOnce == TypeOK /\ EachTaskOnce /\ NothingLost

(* notify_one may wake a caller of waitForAllDone instead of a worker; all *)
(* the same, queued tasks never find every worker asleep.                  *)
SomeoneAwake == tasks # <<>> /\ ~terminate => SleepingWorkers # Workers

(* A caller of waitForAllDone is never left asleep on an empty queue: some *)
(* worker that will notify it is still on its way, whatever the counter    *)
(* was when the others looked at it.                                       *)
WaiterWillBeWoken ==
    SleepingClients # {} /\ tasks = <<>> =>
        \E w \in Workers : pcW[w] \in {"got", "run", "after"}

(* Nobody sleeps through what the shared condition variable announces. *)
NobodyForgotten == SomeoneAwake /\ WaiterWillBeWoken

(* Every task is run, unless the pool is stopped. *)
TaskRuns == \A t \in Tasks : t \in Posted ~> t \in done \/ terminate

(* waitForAllDone returns, unless the pool is stopped. *)
WaitReturns == \A c \in Clients : pcC[c] = "waiting" ~> pcC[c] \in {"idle", "left"} \/ terminate

(* stop() returns. *)
StopReturns == pcS = "join" ~> pcS = "stopped"

(* Calls that wait for others return. *)
CallsReturn == WaitReturns /\ StopReturns

(* What the comment on waitForAllDone says: when it has returned TRUE, the *)
(* tasks given to the pool before the call are complete.                   *)
WaitMeansDone == \A c \in Clients : ret[c] => before[c] \subseteq done
=============================================================================
