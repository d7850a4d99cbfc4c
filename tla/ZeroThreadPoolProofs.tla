------------------------ MODULE ZeroThreadPoolProofs ------------------------
(***************************************************************************)
(* Theorems about ZeroThreadPool, for any number of workers, clients and   *)
(* tasks, with stop() called at any time or after the clients have left.   *)
(***************************************************************************)
EXTENDS ZeroThreadPool, FiniteSetTheorems, TLAPS

-----------------------------------------------------------------------------
(* The inductive invariant: ExactlyOnce and NobodyForgotten, plus what     *)
(* they rest on.                                                           *)

(* A worker holds a task exactly between get() and --_atomic. *)
HandInv == \A w \in Workers : pcW[w] \in {"got", "run"} <=> task[w] # NoTask

(* What a waitForAllDone that returned TRUE is worth: the call saw every   *)
(* task given to exec before it, and if those were all there are the queue *)
(* stays empty from then on, although some may still be running.           *)
WaitInv ==
    /\ \A c \in Clients : before[c] \subseteq Posted
    /\ \A c \in Clients : ret[c] /\ before[c] = Tasks => tasks = <<>>
    /\ \A c \in Clients : pcC[c] = "left" => ret[c] /\ before[c] = Tasks

(* The order of an ending: the clients leave, then stop() sets             *)
(* _bTerminate, then the workers leave, then stop() returns.               *)
StopInv ==
    /\ terminate <=> pcS # "use"
    /\ ~early /\ terminate => \A c \in Clients : pcC[c] = "left"
    /\ pcS = "stopped" => \A w \in Workers : pcW[w] = "exited"

PoolInv ==
    /\ TypeOK
    /\ EachTaskOnce
    /\ HandInv
    /\ WaitInv
    /\ StopInv
    /\ SomeoneAwake
    /\ WaiterWillBeWoken

WPlaces == {"check", "get", "waiting", "got", "run", "after", "exited"}
CPlaces == {"idle", "waiting", "test", "left"}

-----------------------------------------------------------------------------
(* The queue and the counter.                                              *)

(* push_back of a task that is not queued keeps the queue free of          *)
(* duplicates.                                                             *)
LEMMA AppendOnce ==
    ASSUME NEW S, NEW q \in Seq(S), NEW t \in S, t \notin ToSet(q), IsInjective(q)
    PROVE  /\ IsInjective(Append(q, t))
           /\ ToSet(Append(q, t)) = ToSet(q) \cup {t}
           /\ Append(q, t) \in Seq(S) /\ Append(q, t) # <<>>
<1>1. Append(q, t) \in Seq(S) /\ Len(Append(q, t)) = Len(q) + 1 /\ Len(q) \in Nat
  OBVIOUS
<1>2. /\ DOMAIN Append(q, t) = 1 .. Len(q) + 1 /\ Len(q) \in Nat
      /\ DOMAIN q = 1 .. Len(q)
      /\ \A i \in 1 .. Len(q) : Append(q, t)[i] = q[i]
      /\ Append(q, t)[Len(q) + 1] = t
  OBVIOUS
<1>3. IsInjective(Append(q, t))
  BY <1>2 DEF IsInjective, ToSet
<1>4. ToSet(Append(q, t)) = ToSet(q) \cup {t}
  BY <1>2 DEF ToSet
<1>5. Append(q, t) # <<>>
  BY <1>1
<1> QED
  BY <1>1, <1>3, <1>4, <1>5

(* pop takes the oldest task out of the queue and nothing else. *)
LEMMA TailOnce ==
    ASSUME NEW S, NEW q \in Seq(S), q # <<>>, IsInjective(q)
    PROVE  /\ IsInjective(Tail(q))
           /\ ToSet(Tail(q)) = ToSet(q) \ {Head(q)}
           /\ Tail(q) \in Seq(S) /\ Head(q) \in ToSet(q) /\ Head(q) \in S
<1>1. /\ Tail(q) \in Seq(S) /\ Len(q) \in Nat /\ Len(q) > 0
      /\ DOMAIN q = 1 .. Len(q) /\ DOMAIN Tail(q) = 1 .. Len(q) - 1
      /\ \A i \in 1 .. Len(q) - 1 : Tail(q)[i] = q[i + 1]
      /\ Head(q) = q[1] /\ q[1] \in S
  OBVIOUS
<1>2. IsInjective(Tail(q))
  BY <1>1 DEF IsInjective
<1>3. Head(q) \in ToSet(q)
  BY <1>1 DEF ToSet
<1>4. ToSet(Tail(q)) = ToSet(q) \ {Head(q)}
  <2>1. ASSUME NEW x \in ToSet(Tail(q)) PROVE x \in ToSet(q) \ {Head(q)}
    <3>1. PICK i \in 1 .. Len(q) - 1 : x = q[i + 1]
      BY <1>1 DEF ToSet
    <3>2. i + 1 \in 1 .. Len(q) /\ i + 1 # 1
      BY <1>1
    <3> QED
      BY <1>1, <3>1, <3>2 DEF ToSet, IsInjective
  <2>2. ASSUME NEW x \in ToSet(q) \ {Head(q)} PROVE x \in ToSet(Tail(q))
    <3>1. PICK i \in 1 .. Len(q) : x = q[i]
      BY <1>1 DEF ToSet
    <3>2. i # 1
      BY <1>1, <3>1
    <3>3. i - 1 \in 1 .. Len(q) - 1 /\ Tail(q)[i - 1] = q[i]
      BY <1>1, <3>2
    <3> QED
      BY <1>1, <3>1, <3>3 DEF ToSet
  <2> QED
    BY <2>1, <2>2
<1> QED
  BY <1>1, <1>2, <1>3, <1>4

(* The workers between ++_atomic and --_atomic. *)
Running(f) == {w \in Workers : f[w] = "run"}

(* The workers that run a task can be counted. *)
LEMMA RunningFinite ==
    ASSUME NEW f PROVE IsFiniteSet(Running(f)) /\ Cardinality(Running(f)) \in Nat
BY FS_Subset, FS_CardinalityType, ZeroPoolAssumption DEF Running

(* One worker more, and one less. *)
LEMMA OneMoreRuns ==
    ASSUME NEW f \in [Workers -> WPlaces], NEW w \in Workers, f[w] = "got"
    PROVE  Cardinality(Running([f EXCEPT ![w] = "run"])) = Cardinality(Running(f)) + 1
<1>1. Running([f EXCEPT ![w] = "run"]) = Running(f) \cup {w} /\ w \notin Running(f)
  BY DEF Running
<1> QED
  BY <1>1, RunningFinite, FS_AddElement

(* A worker that is done leaves one less. *)
LEMMA OneLessRuns ==
    ASSUME NEW f \in [Workers -> WPlaces], NEW w \in Workers, f[w] = "run"
    PROVE  Cardinality(Running([f EXCEPT ![w] = "after"])) = Cardinality(Running(f)) - 1
<1>1. Running([f EXCEPT ![w] = "after"]) = Running(f) \ {w} /\ w \in Running(f)
  BY DEF Running
<1> QED
  BY <1>1, RunningFinite, FS_RemoveElement

(* The counter reads zero only when nobody is running. *)
LEMMA ZeroMeansNobody ==
    ASSUME NEW f PROVE Cardinality(Running(f)) = 0 <=> Running(f) = {}
BY RunningFinite, FS_EmptySet

-----------------------------------------------------------------------------
(* The condition variable: what any notification, asked for or not, does.  *)

(* Sleepers may get back before their test; nobody else moves. *)
Woken ==
    /\ pcW' \in [Workers -> WPlaces] /\ pcC' \in [Clients -> CPlaces]
    /\ \A w \in Workers : pcW'[w] = pcW[w] \/ (pcW[w] = "waiting" /\ pcW'[w] = "get")
    /\ \A c \in Clients : pcC'[c] = pcC[c] \/ (pcC[c] = "waiting" /\ pcC'[c] = "test")

(* Waking some sleepers leaves everyone else where they are. *)
LEMMA WakeIsWoken ==
    ASSUME TypeOK, NEW S \in SUBSET SleepingWorkers, NEW T \in SUBSET SleepingClients,
           WakeW(S), WakeC(T)
    PROVE  Woken
BY DEF TypeOK, WakeW, WakeC, Woken, SleepingWorkers, SleepingClients, WPlaces, CPlaces

(* So does notify_one. *)
LEMMA NotifyOneIsWoken == TypeOK /\ NotifyOne => Woken
BY WakeIsWoken DEF NotifyOne

(* A notification changes neither who holds what nor who is counted. *)
LEMMA WokenKeeps ==
    ASSUME TypeOK, Woken, task' = task
    PROVE  InHand' = InHand /\ Running(pcW') = Running(pcW)
<1>1. \A w \in Workers : pcW'[w] \in {"got", "run"} <=> pcW[w] \in {"got", "run"}
  BY DEF Woken
<1>2. {w \in Workers : pcW'[w] \in {"got", "run"}} = {w \in Workers : pcW[w] \in {"got", "run"}}
  BY <1>1
<1> QED
  BY <1>2 DEF InHand, Woken, Running

-----------------------------------------------------------------------------
(* Every step keeps the invariant.                                         *)

(* The pool after start has the invariant. *)
LEMMA InitInv == Init => PoolInv
<1> SUFFICES ASSUME Init PROVE PoolInv
  OBVIOUS
<1> USE DEF Init
<1>1. InHand = {} /\ ToSet(tasks) = {} /\ IsInjective(tasks)
  BY DEF InHand, ToSet, IsInjective
<1>2. TypeOK
  <2>1. {w \in Workers : pcW[w] = "run"} = {}
    OBVIOUS
  <2>2. atomic = Cardinality({w \in Workers : pcW[w] = "run"})
    BY <2>1, FS_EmptySet
  <2>3. tasks \in Seq(Tasks)
    <3>1. <<>> \in Seq(Tasks)
      OBVIOUS
    <3> QED
      BY <3>1
  <2>4. /\ pcW \in [Workers -> {"check", "get", "waiting", "got", "run", "after", "exited"}]
        /\ task \in [Workers -> Tasks \cup {NoTask}]
    OBVIOUS
  <2>5. /\ pcC \in [Clients -> {"idle", "waiting", "test", "left"}]
        /\ timed \in [Clients -> BOOLEAN] /\ ret \in [Clients -> BOOLEAN]
        /\ before \in [Clients -> SUBSET Tasks]
    OBVIOUS
  <2> QED
    BY <2>2, <2>3, <2>4, <2>5 DEF TypeOK
<1>3. EachTaskOnce
  BY <1>1 DEF EachTaskOnce
<1>4. HandInv /\ WaitInv /\ StopInv
  BY <1>1 DEF HandInv, WaitInv, StopInv
<1>5. SomeoneAwake /\ WaiterWillBeWoken
  BY DEF SomeoneAwake, WaiterWillBeWoken, SleepingClients
<1> QED
  BY <1>2, <1>3, <1>4, <1>5 DEF PoolInv

(* exec: the task is new, and if every worker is asleep so is nobody else, *)
(* so the notification reaches a worker.                                   *)
LEMMA ExecInv ==
    ASSUME PoolInv, NEW c \in Clients, NEW t \in Tasks, Exec(c, t)
    PROVE  PoolInv'
<1> USE DEF PoolInv
<1>1. Woken
  BY NotifyOneIsWoken DEF Exec, ExecNotifies
<1>2. /\ InHand' = InHand /\ Running(pcW') = Running(pcW)
      /\ task' = task /\ done' = done
  BY <1>1, WokenKeeps DEF Exec
<1>3. /\ tasks' \in Seq(Tasks) /\ IsInjective(tasks') /\ tasks' # <<>>
      /\ ToSet(tasks') = ToSet(tasks) \cup {t} /\ t \notin Posted
  <2>1. tasks \in Seq(Tasks) /\ IsInjective(tasks) /\ t \notin Posted /\ tasks' = Append(tasks, t)
    BY DEF TypeOK, EachTaskOnce, Exec
  <2> QED
    BY <2>1, AppendOnce DEF Posted
<1>4. TypeOK'
  BY <1>1, <1>2, <1>3 DEF TypeOK, Exec, Woken, Running, WPlaces, CPlaces, owner
<1>5. EachTaskOnce'
  <2>1. t \notin InHand /\ t \notin done
    BY <1>3 DEF Posted
  <2> QED
    BY <1>2, <1>3, <2>1 DEF EachTaskOnce
<1>6. HandInv'
  BY <1>1, <1>2 DEF HandInv, Woken
<1>7. WaitInv'
  <2>1. Posted' = Posted \cup {t}
    BY <1>2, <1>3 DEF Posted
  <2>2. ret' = ret /\ before' = before
    BY DEF Exec
  <2>3. \A d \in Clients : before[d] # Tasks
    BY <1>3 DEF WaitInv
  <2>4. \A d \in Clients : pcC'[d] = "left" <=> pcC[d] = "left"
    BY <1>1 DEF Woken
  <2> QED
    BY <2>1, <2>2, <2>3, <2>4 DEF WaitInv
<1>8. StopInv'
  BY <1>1 DEF StopInv, Woken, Exec, owner
<1>9. SomeoneAwake'
  <2> SUFFICES ASSUME ~terminate PROVE \E w \in Workers : pcW'[w] # "waiting"
    BY DEF SomeoneAwake, SleepingWorkers, Exec
  <2>1. CASE \E w \in Workers : pcW[w] # "waiting"
    BY <2>1, <1>1 DEF Woken
  <2>2. CASE \A w \in Workers : pcW[w] = "waiting"
    <3>1. SleepingWorkers = Workers /\ Workers # {}
      BY <2>2, ZeroPoolAssumption DEF SleepingWorkers
    <3>2. SleepingClients = {}
      BY <2>2, <3>1 DEF SomeoneAwake, WaiterWillBeWoken
    <3>3. \E w \in Workers : WakeW({w})
      BY <3>1, <3>2 DEF Exec, ExecNotifies, NotifyOne
    <3> QED
      BY <3>3 DEF WakeW
  <2> QED
    BY <2>1, <2>2
<1>10. WaiterWillBeWoken'
  BY <1>3 DEF WaiterWillBeWoken
<1> QED
  BY <1>4, <1>5, <1>6, <1>7, <1>8, <1>9, <1>10

(* waitForAllDone and leaving touch nothing but the client itself. *)
LEMMA ClientOnly ==
    ASSUME PoolInv, UNCHANGED <<tasks, terminate, workers, owner>>
    PROVE  /\ Posted' = Posted /\ EachTaskOnce' /\ HandInv' /\ SomeoneAwake'
           /\ UNCHANGED <<tasks, terminate, pcW, task, atomic, done, pcS, early>>
<1>1. UNCHANGED <<tasks, terminate, pcW, task, atomic, done, pcS, early>>
  BY DEF workers, owner
<1>2. InHand' = InHand /\ Posted' = Posted
  BY <1>1 DEF InHand, Posted
<1>3. EachTaskOnce'
  BY <1>1, <1>2 DEF PoolInv, EachTaskOnce
<1>4. HandInv' /\ SomeoneAwake'
  BY <1>1 DEF PoolInv, HandInv, SomeoneAwake, SleepingWorkers
<1> QED
  BY <1>1, <1>2, <1>3, <1>4

(* exec and waitForAllDone keep the invariant. *)
LEMMA ClientInv ==
    ASSUME PoolInv, NEW c \in Clients, Client(c)
    PROVE  PoolInv'
<1> USE DEF PoolInv
<1>1. ASSUME NEW t \in Tasks, Exec(c, t) PROVE PoolInv'
  BY <1>1, ExecInv
<1>2. CASE WaitReturnsAtOnce(c) \/ WaitForAllDone(c) \/ WaitTests(c) \/ WaitTimesOut(c)
           \/ ClientLeaves(c)
  <2>1. /\ Posted' = Posted /\ EachTaskOnce' /\ HandInv' /\ SomeoneAwake'
        /\ UNCHANGED <<tasks, terminate, pcW, task, atomic, done, pcS, early>>
    BY <1>2, ClientOnly DEF WaitReturnsAtOnce, WaitForAllDone, WaitTests, WaitTimesOut, ClientLeaves
  <2>2. Posted \subseteq Tasks
    <3>1. ToSet(tasks) \subseteq Tasks
      BY DEF TypeOK, ToSet
    <3>2. InHand \subseteq Tasks
      BY ZeroPoolAssumption DEF TypeOK, InHand, HandInv
    <3> QED
      BY <3>1, <3>2 DEF Posted, TypeOK
  <2>3. QueueEmpty \in BOOLEAN
    BY DEF QueueEmpty
  <2>4. TypeOK'
    BY <1>2, <2>1, <2>2, <2>3
       DEF TypeOK, WaitReturnsAtOnce, WaitForAllDone, WaitTests, WaitTimesOut, ClientLeaves
  <2>5. WaitInv'
    <3>1. CASE WaitReturnsAtOnce(c)
      BY <3>1, <2>1 DEF WaitReturnsAtOnce, WaitInv, TypeOK, QueueEmpty
    <3>2. CASE WaitForAllDone(c)
      BY <3>2, <2>1 DEF WaitForAllDone, WaitInv, TypeOK
    <3>3. CASE WaitTests(c)
      BY <3>3, <2>1 DEF WaitTests, WaitInv, TypeOK, QueueEmpty
    <3>4. CASE WaitTimesOut(c)
      BY <3>4, <2>1 DEF WaitTimesOut, WaitInv, TypeOK, QueueEmpty
    <3>5. CASE ClientLeaves(c)
      BY <3>5, <2>1 DEF ClientLeaves, WaitInv, TypeOK
    <3> QED
      BY <1>2, <3>1, <3>2, <3>3, <3>4, <3>5
  <2>6. StopInv'
    BY <1>2, <2>1
       DEF StopInv, TypeOK, WaitReturnsAtOnce, WaitForAllDone, WaitTests, WaitTimesOut, ClientLeaves
  <2>7. WaiterWillBeWoken'
    <3>1. tasks = <<>> => SleepingClients' \subseteq SleepingClients
      BY <1>2, <2>1
         DEF SleepingClients, TypeOK, QueueEmpty, WaitReturnsAtOnce, WaitForAllDone, WaitTests,
             WaitTimesOut, ClientLeaves
    <3> QED
      BY <2>1, <3>1 DEF WaiterWillBeWoken
  <2> QED
    BY <2>1, <2>4, <2>5, <2>6, <2>7
<1> QED
  BY <1>1, <1>2 DEF Client

(* Steps of a worker that only move it, and by which it does not fall      *)
(* asleep on queued tasks nor leave its task behind.                       *)
LEMMA WorkerMoves ==
    ASSUME PoolInv, NEW w \in Workers,
           WorkerChecks(w) \/ WorkerWaits(w) \/ GetRefuses(w)
    PROVE  PoolInv'
<1> USE DEF PoolInv, WorkerChecks, WorkerWaits, GetRefuses
<1>1. /\ UNCHANGED <<tasks, terminate, atomic, task, pcC, timed, ret, before, pcS, early, done>>
      /\ pcW' \in [Workers -> WPlaces]
      /\ \A v \in Workers : v # w => pcW'[v] = pcW[v]
      /\ pcW[w] \in {"check", "get"} /\ pcW'[w] \in {"check", "get", "waiting", "exited"}
      /\ pcW'[w] = "waiting" => tasks = <<>>
  BY DEF TypeOK, clients, owner, WPlaces
<1>2. \A v \in Workers : pcW'[v] \in {"got", "run"} <=> pcW[v] \in {"got", "run"}
  BY <1>1
<1>3. {v \in Workers : pcW'[v] \in {"got", "run"}} = {v \in Workers : pcW[v] \in {"got", "run"}}
  BY <1>2
<1>4. InHand' = InHand /\ Posted' = Posted /\ Running(pcW') = Running(pcW)
  BY <1>1, <1>3 DEF InHand, Posted, Running
<1>5. TypeOK'
  BY <1>1, <1>4 DEF TypeOK, Running, WPlaces
<1>6. EachTaskOnce'
  BY <1>1, <1>4 DEF EachTaskOnce
<1>7. HandInv' /\ WaitInv'
  BY <1>1, <1>2, <1>4 DEF HandInv, WaitInv
<1>8. StopInv'
  BY <1>1 DEF StopInv
<1>9. SomeoneAwake'
  BY <1>1 DEF SomeoneAwake, SleepingWorkers
<1>10. WaiterWillBeWoken'
  <2>1. SleepingClients' = SleepingClients
    BY <1>1 DEF SleepingClients
  <2> QED
    BY <1>1, <2>1 DEF WaiterWillBeWoken
<1> QED
  BY <1>5, <1>6, <1>7, <1>8, <1>9, <1>10

(* get() returns TRUE: the oldest task passes from the queue to the worker.*)
LEMMA GetTakesInv ==
    ASSUME PoolInv, NEW w \in Workers, GetTakes(w)
    PROVE  PoolInv'
<1> USE DEF PoolInv, GetTakes
<1> DEFINE t == Head(tasks)
<1>1. /\ UNCHANGED <<terminate, atomic, pcC, timed, ret, before, pcS, early, done>>
      /\ pcW' = [pcW EXCEPT ![w] = "got"] /\ task' = [task EXCEPT ![w] = t]
      /\ pcW[w] = "get" /\ task[w] = NoTask
  BY DEF clients, owner, HandInv, TypeOK
<1>2. /\ tasks' \in Seq(Tasks) /\ IsInjective(tasks')
      /\ ToSet(tasks') = ToSet(tasks) \ {t} /\ t \in ToSet(tasks) /\ t \in Tasks
  BY TailOnce DEF TypeOK, EachTaskOnce, Popped
<1> HIDE DEF t
<1>3. InHand' = InHand \cup {t}
  <2>1. \A v \in Workers : v # w => pcW'[v] = pcW[v] /\ task'[v] = task[v]
    BY <1>1 DEF TypeOK
  <2>2. pcW'[w] = "got" /\ task'[w] = t
    BY <1>1 DEF TypeOK
  <2> QED
    BY <1>1, <2>1, <2>2 DEF InHand
<1>4. Posted' = Posted
  BY <1>1, <1>2, <1>3 DEF Posted
<1>5. TypeOK'
  <2>1. Running(pcW') = Running(pcW)
    BY <1>1 DEF TypeOK, Running
  <2> QED
    BY <1>1, <1>2, <2>1 DEF TypeOK, Running
<1>6. EachTaskOnce'
  <2>1. t \notin InHand /\ t \notin done
    BY <1>2 DEF EachTaskOnce
  <2>2. \A v \in Workers : v # w => task[v] # t
    BY <1>2, <2>1, ZeroPoolAssumption DEF InHand, HandInv
  <2>3. \A u, v \in Workers : u # v /\ task'[u] = task'[v] => task'[u] = NoTask
    BY <1>1, <2>2 DEF EachTaskOnce, TypeOK
  <2> QED
    BY <1>1, <1>2, <1>3, <2>1, <2>3 DEF EachTaskOnce
<1>7. HandInv'
  BY <1>1, <1>2, ZeroPoolAssumption DEF HandInv, TypeOK
<1>8. WaitInv'
  BY <1>1, <1>4 DEF WaitInv
<1>9. StopInv'
  BY <1>1 DEF StopInv, TypeOK
<1>10. SomeoneAwake'
  BY <1>1 DEF SomeoneAwake, SleepingWorkers, TypeOK
<1>11. WaiterWillBeWoken'
  BY <1>1 DEF WaiterWillBeWoken, TypeOK
<1> QED
  BY <1>5, <1>6, <1>7, <1>8, <1>9, <1>10, <1>11

(* ++_atomic. *)
LEMMA WorkerCountsInv ==
    ASSUME PoolInv, NEW w \in Workers, WorkerCounts(w)
    PROVE  PoolInv'
<1> USE DEF PoolInv, WorkerCounts
<1>1. /\ UNCHANGED <<tasks, terminate, task, pcC, timed, ret, before, pcS, early, done>>
      /\ pcW' = [pcW EXCEPT ![w] = "run"] /\ atomic' = atomic + 1 /\ pcW[w] = "got"
  BY DEF clients, owner
<1>2. \A v \in Workers : pcW'[v] \in {"got", "run"} <=> pcW[v] \in {"got", "run"}
  BY <1>1 DEF TypeOK
<1>3. {v \in Workers : pcW'[v] \in {"got", "run"}} = {v \in Workers : pcW[v] \in {"got", "run"}}
  BY <1>2
<1>4. InHand' = InHand /\ Posted' = Posted
  BY <1>1, <1>3 DEF InHand, Posted
<1>5. TypeOK'
  <2>1. atomic' = Cardinality(Running(pcW'))
    BY <1>1, OneMoreRuns DEF TypeOK, Running, WPlaces
  <2> QED
    BY <1>1, <2>1 DEF TypeOK, Running
<1>6. EachTaskOnce'
  BY <1>1, <1>4 DEF EachTaskOnce
<1>7. HandInv' /\ WaitInv'
  BY <1>1, <1>2, <1>4 DEF HandInv, WaitInv
<1>8. StopInv' /\ SomeoneAwake'
  BY <1>1 DEF StopInv, SomeoneAwake, SleepingWorkers, TypeOK
<1>9. WaiterWillBeWoken'
  BY <1>1 DEF WaiterWillBeWoken, TypeOK
<1> QED
  BY <1>5, <1>6, <1>7, <1>8, <1>9

(* The task is run, and --_atomic. *)
LEMMA WorkerRunsInv ==
    ASSUME PoolInv, NEW w \in Workers, WorkerRuns(w)
    PROVE  PoolInv'
<1> USE DEF PoolInv, WorkerRuns
<1> DEFINE t == task[w]
<1>1. /\ UNCHANGED <<tasks, terminate, pcC, timed, ret, before, pcS, early>>
      /\ pcW' = [pcW EXCEPT ![w] = "after"] /\ task' = [task EXCEPT ![w] = NoTask]
      /\ done' = done \cup {t}
      /\ atomic' = atomic - 1 /\ pcW[w] = "run" /\ t # NoTask /\ t \in Tasks
  BY DEF clients, owner, HandInv, TypeOK
<1>2. \A v \in Workers : v # w => pcW'[v] = pcW[v] /\ task'[v] = task[v] /\ task[v] # t
  BY <1>1 DEF TypeOK, EachTaskOnce
<1>3. pcW'[w] = "after" /\ task'[w] = NoTask
  BY <1>1 DEF TypeOK
<1>4. InHand' = InHand \ {t} /\ t \in InHand
  BY <1>1, <1>2, <1>3 DEF InHand
<1>5. Posted' = Posted
  BY <1>1, <1>4 DEF Posted
<1>6. TypeOK'
  <2>1. atomic' = Cardinality(Running(pcW'))
    BY <1>1, OneLessRuns DEF TypeOK, Running, WPlaces
  <2> QED
    BY <1>1, <2>1 DEF TypeOK, Running
<1>7. EachTaskOnce'
  <2>1. \A u, v \in Workers : u # v /\ task'[u] = task'[v] => task'[u] = NoTask
    BY <1>2, <1>3 DEF EachTaskOnce
  <2> QED
    BY <1>1, <1>4, <2>1 DEF EachTaskOnce
<1>8. HandInv' /\ WaitInv'
  BY <1>1, <1>2, <1>3, <1>5 DEF HandInv, WaitInv
<1>9. StopInv' /\ SomeoneAwake'
  BY <1>1, <1>2, <1>3 DEF StopInv, SomeoneAwake, SleepingWorkers
<1>10. WaiterWillBeWoken'
  BY <1>3 DEF WaiterWillBeWoken
<1> QED
  BY <1>6, <1>7, <1>8, <1>9, <1>10

(* Back under the mutex: if the queue is empty and this worker does not    *)
(* notify, the counter says that another one is running, and it will.      *)
LEMMA WorkerNotifiesInv ==
    ASSUME PoolInv, NEW w \in Workers, WorkerNotifies(w)
    PROVE  PoolInv'
<1> USE DEF PoolInv
<1>1. /\ UNCHANGED <<tasks, terminate, atomic, task, timed, ret, before, pcS, early, done>>
      /\ pcW[w] = "after"
      /\ pcW' = [v \in Workers |-> IF v = w THEN "check"
                                   ELSE IF LastOne /\ v \in SleepingWorkers THEN "get" ELSE pcW[v]]
      /\ WakeC(IF LastOne THEN SleepingClients ELSE {})
  BY DEF WorkerNotifies, owner
<1>2. /\ pcW' \in [Workers -> WPlaces] /\ pcW'[w] = "check"
      /\ \A v \in Workers : v # w => pcW'[v] = pcW[v] \/ (pcW[v] = "waiting" /\ pcW'[v] = "get")
  BY <1>1 DEF TypeOK, SleepingWorkers, WPlaces
<1>3. /\ pcC' \in [Clients -> CPlaces]
      /\ \A c \in Clients : pcC'[c] = pcC[c] \/ (pcC[c] = "waiting" /\ pcC'[c] = "test")
      /\ LastOne => \A c \in Clients : pcC'[c] # "waiting"
  BY <1>1 DEF TypeOK, WakeC, SleepingClients, CPlaces
<1>4. \A v \in Workers : pcW'[v] \in {"got", "run"} <=> pcW[v] \in {"got", "run"}
  BY <1>1, <1>2
<1>5. {v \in Workers : pcW'[v] \in {"got", "run"}} = {v \in Workers : pcW[v] \in {"got", "run"}}
  BY <1>4
<1>6. InHand' = InHand /\ Posted' = Posted /\ Running(pcW') = Running(pcW)
  BY <1>1, <1>2, <1>5 DEF InHand, Posted, Running
<1>7. TypeOK'
  BY <1>1, <1>2, <1>3, <1>6 DEF TypeOK, Running, WPlaces, CPlaces
<1>8. EachTaskOnce'
  BY <1>1, <1>6 DEF EachTaskOnce
<1>9. HandInv' /\ WaitInv'
  BY <1>1, <1>3, <1>4, <1>6 DEF HandInv, WaitInv
<1>10. StopInv'
  BY <1>1, <1>2, <1>3 DEF StopInv
<1>11. SomeoneAwake'
  BY <1>2 DEF SomeoneAwake, SleepingWorkers
<1>12. WaiterWillBeWoken'
  <2> SUFFICES ASSUME tasks = <<>>, NEW c \in Clients, pcC'[c] = "waiting"
               PROVE  \E v \in Workers : pcW'[v] \in {"got", "run", "after"}
    BY <1>1 DEF WaiterWillBeWoken, SleepingClients
  <2>1. atomic # 0
    BY <1>3 DEF LastOne
  <2>2. PICK v \in Workers : pcW[v] = "run"
    BY <2>1, ZeroMeansNobody DEF TypeOK, Running
  <2> QED
    BY <1>4, <2>2
<1> QED
  BY <1>7, <1>8, <1>9, <1>10, <1>11, <1>12

(* The loop of a worker keeps the invariant. *)
LEMMA WorkerInv ==
    ASSUME PoolInv, NEW w \in Workers, Worker(w)
    PROVE  PoolInv'
BY WorkerMoves, GetTakesInv, WorkerCountsInv, WorkerRunsInv, WorkerNotifiesInv DEF Worker

(* stop() sets the flag only when the clients have left, or early; it      *)
(* returns when the workers have exited.                                   *)
LEMMA StopStepInv ==
    ASSUME PoolInv, StopTerminates \/ StopJoins \/ SpuriousWakeup
    PROVE  PoolInv'
<1> USE DEF PoolInv
<1>1. CASE StopTerminates \/ SpuriousWakeup
  <2>1. Woken
    BY <1>1, WakeIsWoken DEF StopTerminates, StopNotifies, SpuriousWakeup
  <2>2. /\ UNCHANGED <<tasks, atomic, task, timed, ret, before, early, done>>
        /\ StopTerminates \/ UNCHANGED <<terminate, pcS>>
    BY <1>1 DEF StopTerminates, SpuriousWakeup, owner
  <2>3. InHand' = InHand /\ Running(pcW') = Running(pcW) /\ Posted' = Posted
    BY <2>1, <2>2, WokenKeeps DEF Posted
  <2>4. TypeOK'
    BY <2>1, <2>2, <2>3 DEF TypeOK, StopTerminates, Woken, Running, WPlaces, CPlaces
  <2>5. EachTaskOnce'
    BY <2>2, <2>3 DEF EachTaskOnce
  <2>6. HandInv' /\ WaitInv'
    BY <2>1, <2>2, <2>3 DEF HandInv, WaitInv, Woken
  <2>7. StopInv'
    BY <2>1, <2>2 DEF StopInv, StopTerminates, Woken
  <2>8. SomeoneAwake'
    BY <2>1, <2>2 DEF SomeoneAwake, SleepingWorkers, StopTerminates, Woken
  <2>9. WaiterWillBeWoken'
    BY <2>1, <2>2 DEF WaiterWillBeWoken, SleepingClients, Woken
  <2> QED
    BY <2>4, <2>5, <2>6, <2>7, <2>8, <2>9
<1>2. CASE StopJoins
  <2>1. UNCHANGED <<tasks, terminate, pcW, task, atomic, done, pcC, timed, ret, before, early>>
    BY <1>2 DEF StopJoins, workers, clients
  <2>2. InHand' = InHand /\ Posted' = Posted
    BY <2>1 DEF InHand, Posted
  <2>3. TypeOK' /\ StopInv'
    BY <1>2, <2>1 DEF StopJoins, TypeOK, StopInv
  <2>4. EachTaskOnce' /\ HandInv' /\ WaitInv'
    BY <2>1, <2>2 DEF EachTaskOnce, HandInv, WaitInv
  <2>5. SomeoneAwake' /\ WaiterWillBeWoken'
    BY <2>1 DEF SomeoneAwake, WaiterWillBeWoken, SleepingWorkers, SleepingClients
  <2> QED
    BY <2>3, <2>4, <2>5
<1> QED
  BY <1>1, <1>2

(* It holds in every reachable state. *)
LEMMA PoolInvariant == Spec => []PoolInv
<1>1. PoolInv /\ [Next]_vars => PoolInv'
  <2> SUFFICES ASSUME PoolInv, [Next]_vars PROVE PoolInv'
    OBVIOUS
  <2>1. CASE UNCHANGED vars
    <3>1. UNCHANGED <<tasks, terminate, atomic, pcW, task, pcC, timed, ret, before, pcS, early, done>>
      BY <2>1 DEF vars
    <3>2. InHand' = InHand /\ Posted' = Posted
      BY <3>1 DEF InHand, Posted
    <3>3. TypeOK' /\ EachTaskOnce' /\ HandInv' /\ WaitInv' /\ StopInv'
      BY <3>1, <3>2 DEF PoolInv, TypeOK, EachTaskOnce, HandInv, WaitInv, StopInv
    <3>4. SomeoneAwake' /\ WaiterWillBeWoken'
      BY <3>1 DEF PoolInv, SomeoneAwake, WaiterWillBeWoken, SleepingWorkers, SleepingClients
    <3> QED
      BY <3>3, <3>4 DEF PoolInv
  <2>2. ASSUME NEW w \in Workers, Worker(w) PROVE PoolInv'
    BY <2>2, WorkerInv
  <2>3. ASSUME NEW c \in Clients, Client(c) PROVE PoolInv'
    BY <2>3, ClientInv
  <2>4. CASE StopTerminates \/ StopJoins \/ SpuriousWakeup
    BY <2>4, StopStepInv
  <2> QED
    BY <2>1, <2>2, <2>3, <2>4 DEF Next, Finished
<1> QED
  BY <1>1, InitInv, PTL DEF Spec

-----------------------------------------------------------------------------
(* The theorems.                                                           *)

(* Main.cpp's exec - waitForAllDone - stop loses no task: the queue was    *)
(* empty when the clients left, nobody could add to it, and stop() has     *)
(* joined the workers that held the rest.                                  *)
LEMMA InvNothingLost == PoolInv => NothingLost
<1> SUFFICES ASSUME PoolInv, ~early, pcS = "stopped" PROVE done = Tasks
  BY DEF NothingLost
<1> USE DEF PoolInv
<1>1. \A c \in Clients : pcC[c] = "left"
  BY DEF StopInv
<1>2. PICK c \in Clients : ret[c] /\ before[c] = Tasks
  BY <1>1, ZeroPoolAssumption DEF WaitInv
<1>3. tasks = <<>> /\ Tasks \subseteq Posted
  BY <1>2 DEF WaitInv
<1>4. InHand = {}
  BY DEF InHand, StopInv
<1>5. ToSet(tasks) = {}
  BY <1>3 DEF ToSet
<1> QED
  BY <1>3, <1>4, <1>5 DEF Posted, TypeOK

(* Exactly once, for every pool: no task is queued, held or run twice,     *)
(* _atomic counts exactly the running tasks although it is changed outside *)
(* the mutex, and after exec - waitForAllDone - stop every task has been   *)
(* run or skipped as expired.                                              *)
THEOREM TasksExactlyOnce == Spec => []ExactlyOnce
<1>1. PoolInv => ExactlyOnce
  BY InvNothingLost DEF PoolInv, ExactlyOnce
<1> QED
  BY <1>1, PoolInvariant, PTL

(* One condition variable for workers and callers of waitForAllDone is     *)
(* enough: queued tasks never find every worker asleep, and a caller       *)
(* asleep on an empty queue still has a worker on its way to notify it.    *)
THEOREM SharedConditionSuffices == Spec => []NobodyForgotten
<1>1. PoolInv => NobodyForgotten
  BY DEF PoolInv, NobodyForgotten
<1> QED
  BY <1>1, PoolInvariant, PTL
=============================================================================
