-------------------------- MODULE ThreadPoolProofs --------------------------
(***************************************************************************)
(* Theorems about ThreadPool, for any number of workers, posters,          *)
(* destroyers and tasks and any queue size.                                *)
(***************************************************************************)
EXTENDS ThreadPool, FiniteSetTheorems, SequenceTheorems, TLAPS

-----------------------------------------------------------------------------
(* The inductive invariant: TypeOK, plus what the properties rest on.      *)

(* Workers counted by pool->started. *)
Inside == {w \in Workers : pcW[w] \notin {"none", "done"}}

(* The count slots from head on hold accepted tasks and end at tail, and a *)
(* worker in its handler holds a task.                                     *)
QueueInv ==
    /\ tail = Position(count)
    /\ \A k \in 0 .. count - 1 : queue[Position(k)] \in Tasks
    /\ \A w \in Workers : pcW[w] = "run" => task[w] \in Tasks

(* Threads exist once create has returned, and leave only a closed pool. *)
LifeInv ==
    /\ closed => creator = "created"
    /\ \A d \in Destroyers : pcD[d] # "idle" => creator = "created"
    /\ creator = "created" => \A w \in Workers : pcW[w] # "none"
    /\ \A w \in Workers : pcW[w] = "done" => closed
    /\ started = Cardinality(Inside)

(* Where the callers of thread_pool_destroy are.  A closed pool has been   *)
(* closed by one of them; only after the last worker has gone does one     *)
(* pass the test of started, and the first caller even reach it.           *)
Outside(d) == pcD[d] \in {"idle", "lock"}

DestroyInv ==
    /\ \A d \in Destroyers : ~Outside(d) => closed
    /\ closed => \E d \in Destroyers : ~Outside(d)
    /\ \A d \in Destroyers : pcD[d] = "free" => AllJoined \/ mutex = d
    /\ \A d \in Destroyers : pcD[d] \in {"threads", "relock", "pool", "end"} => AllJoined
    /\ \A d \in Destroyers : pcD[d] = "end" => freed
    /\ ~threads \/ freed => AllJoined /\ closed

(* What a caller that is alone finds in the pool. *)
AloneInv ==
    \A d \in Destroyers : Alone(d) =>
        /\ pcD[d] \notin {"refused", "crash"}
        /\ pcD[d] \in {"idle", "lock", "join", "free", "threads"} => threads
        /\ pcD[d] \notin {"pool", "end"} => mutex = NoThread
        /\ pcD[d] # "end" => ~freed

PoolInv ==
    /\ TypeOK
    /\ QueueInv
    /\ LifeInv
    /\ DestroyInv
    /\ AloneInv
    /\ NoLostWakeup
    /\ NoSleeperAfterClose
-----------------------------------------------------------------------------
(* Arithmetic of the circular buffer.                                      *)

(* One wrap is enough to reduce an index below twice the queue size. *)
LEMMA ModOnce ==
    ASSUME NEW n \in Nat \ {0}, NEW x \in 0 .. 2 * n - 1
    PROVE  x % n = IF x < n THEN x ELSE x - n
<1>1. CASE x < n
  BY <1>1, SMT
<1>2. CASE x >= n
  BY <1>2, SMT
<1> QED
  BY <1>1, <1>2

(* The slot of the k-th waiting task, counted from head h. *)
LEMMA SlotOf ==
    ASSUME NEW n \in Nat \ {0}, NEW h \in 0 .. n - 1, NEW k \in 0 .. n
    PROVE  /\ (h + k) % n = IF h + k < n THEN h + k ELSE h + k - n
           /\ (h + k) % n \in 0 .. n - 1
  <1> DEFINE x == h + k
  <1>1. x \in 0 .. 2 * n - 1
    OBVIOUS
  <1>2. x % n = IF x < n THEN x ELSE x - n
    BY <1>1, ModOnce, Zenon
  <1> QED
    BY <1>2

(* Different waiting tasks are in different slots. *)
LEMMA SlotsDiffer ==
    ASSUME NEW n \in Nat \ {0}, NEW h \in 0 .. n - 1,
           NEW j \in 0 .. n - 1, NEW k \in 0 .. n - 1, j # k
    PROVE  (h + j) % n # (h + k) % n
  <1>1. j \in 0 .. n /\ k \in 0 .. n
    OBVIOUS
  <1>2. (h + j) % n = IF h + j < n THEN h + j ELSE h + j - n
    BY <1>1, SlotOf
  <1>3. (h + k) % n = IF h + k < n THEN h + k ELSE h + k - n
    BY <1>1, SlotOf
  <1> QED
    BY <1>2, <1>3

(* Moving tail, or head, by one slot moves the position by one. *)
LEMMA SlotShift ==
    ASSUME NEW n \in Nat \ {0}, NEW h \in 0 .. n - 1, NEW k \in 0 .. n - 1
    PROVE  /\ (((h + k) % n) + 1) % n = (h + (k + 1)) % n
           /\ (((h + 1) % n) + k) % n = (h + (k + 1)) % n
  <1>1. k \in 0 .. n /\ k + 1 \in 0 .. n /\ 1 \in 0 .. n
    OBVIOUS
  <1>2. (h + k) % n = IF h + k < n THEN h + k ELSE h + k - n
    BY <1>1, SlotOf
  <1>3. (h + 1) % n = IF h + 1 < n THEN h + 1 ELSE h + 1 - n
    BY <1>1, SlotOf
  <1>4. (h + (k + 1)) % n = IF h + (k + 1) < n THEN h + (k + 1) ELSE h + (k + 1) - n
    BY <1>1, SlotOf
  <1>5. /\ ((h + k) % n) + 1 \in 0 .. 2 * n - 1
        /\ ((h + 1) % n) + k \in 0 .. 2 * n - 1
    BY <1>2, <1>3
  <1> DEFINE a == ((h + k) % n) + 1
             b == ((h + 1) % n) + k
  <1>6. a % n = IF a < n THEN a ELSE a - n
    BY <1>5, ModOnce, Zenon
  <1>7. b % n = IF b < n THEN b ELSE b - n
    BY <1>5, ModOnce, Zenon
  <1> QED
    BY <1>2, <1>3, <1>4, <1>6, <1>7

-----------------------------------------------------------------------------
(* Preservation.  What a step does to the worker threads is all that       *)
(* matters for pool->started.                                              *)

(* The number of workers inside thread_worker is a natural number of at    *)
(* most thrd_count.                                                        *)
LEMMA InsideFinite ==
    /\ IsFiniteSet(Inside)
    /\ Cardinality(Inside) \in Nat
    /\ Cardinality(Inside) <= Cardinality(Workers)
    /\ Cardinality(Workers) \in Nat
  <1>1. Inside \in SUBSET Workers
    BY DEF Inside
  <1> QED
    BY <1>1, FS_Subset, FS_CardinalityType, PoolAssumption

(* A step that neither starts nor ends a thread keeps the count. *)
LEMMA InsideSame ==
    ASSUME TypeOK, pcW' \in [Workers -> {"none", "lock", "wait", "run", "done"}],
           \A w \in Workers : pcW'[w] # pcW[w] =>
               {pcW[w], pcW'[w]} \subseteq {"lock", "wait", "run"}
    PROVE  Inside' = Inside
  BY DEF Inside, TypeOK

(* Before the close, steps of others leave the callers where they are. *)
LEMMA OpenKeepsDestroy ==
    ASSUME DestroyInv, AloneInv, ~closed,
           UNCHANGED <<closed, threads, freed, mutex, pcD>>
    PROVE  DestroyInv' /\ AloneInv'
  <1>1. \A d \in Destroyers : Outside(d)
    BY DEF DestroyInv
  <1>2. threads /\ ~freed
    BY DEF DestroyInv
  <1> QED
    BY <1>1, <1>2 DEF DestroyInv, AloneInv, Alone, Outside

(* As long as a worker is inside, nobody has got past the test of started. *)
LEMMA WorkersKeepDestroy ==
    ASSUME DestroyInv, AloneInv, ~AllJoined,
           UNCHANGED <<closed, threads, freed, mutex, pcD>>
    PROVE  DestroyInv' /\ AloneInv'
  BY DEF DestroyInv, AloneInv, Alone, Outside

(* The initial state satisfies the invariant. *)
LEMMA InitInv == Init => PoolInv
  <1> SUFFICES ASSUME Init PROVE PoolInv
    OBVIOUS
  <1> USE PoolAssumption
  <1>1. TypeOK
    <2>1. 0 \in Slots /\ 0 \in 0 .. QueueSize /\ 0 \in 0 .. Cardinality(Workers)
      BY InsideFinite DEF Slots
    <2> QED
      BY <2>1 DEF Init, TypeOK
  <1>2. QueueInv
    <2>1. Position(0) = 0
      BY SlotOf DEF Init, Position
    <2> QED
      BY <2>1 DEF Init, QueueInv
  <1>3. LifeInv
    <2>1. Inside = {}
      BY DEF Init, Inside
    <2> QED
      BY <2>1, FS_EmptySet DEF Init, LifeInv
  <1>4. DestroyInv /\ AloneInv
    BY DEF Init, DestroyInv, AloneInv, Outside
  <1>5. NoLostWakeup /\ NoSleeperAfterClose
    BY DEF Init, NoLostWakeup, NoSleeperAfterClose, Waiters
  <1> QED
    BY <1>1, <1>2, <1>3, <1>4, <1>5 DEF PoolInv

(* thread_pool_create. *)
LEMMA CreateInv ==
    ASSUME PoolInv, (\E w \in Workers : CreateThread(w)) \/ CreateFails
    PROVE  PoolInv'
  <1> USE PoolAssumption DEF PoolInv, queueVars
  <1>1. CASE CreateFails
    <2>1. TypeOK' /\ QueueInv' /\ NoLostWakeup' /\ NoSleeperAfterClose'
      BY <1>1 DEF CreateFails, TypeOK, Slots, QueueInv, Position, NoLostWakeup,
         NoSleeperAfterClose, Waiters
    <2>2. LifeInv'
      BY <1>1 DEF CreateFails, LifeInv, Inside
    <2>3. DestroyInv' /\ AloneInv'
      BY <1>1 DEF CreateFails, DestroyInv, AloneInv, Alone, Outside, AllJoined
    <2> QED
      BY <2>1, <2>2, <2>3
  <1>2. ASSUME NEW w \in Workers, CreateThread(w)
        PROVE  PoolInv'
    <2> USE <1>2
    <2>1. Inside' = Inside \cup {w} /\ w \notin Inside
      BY DEF CreateThread, Inside, TypeOK
    <2>2. Cardinality(Inside') = Cardinality(Inside) + 1
      BY <2>1, FS_AddElement, InsideFinite
    <2>3. IsFiniteSet(Inside') /\ Inside' \in SUBSET Workers
      <3>1. IsFiniteSet(Inside')
        BY <2>1, FS_AddElement, InsideFinite
      <3>2. Inside' \in SUBSET Workers
        BY DEF Inside
      <3> QED
        BY <3>1, <3>2
    <2>4. Cardinality(Inside') <= Cardinality(Workers)
      BY <2>3, FS_Subset
    <2>5. TypeOK'
      BY <2>2, <2>4, InsideFinite DEF CreateThread, TypeOK, Slots, LifeInv
    <2>6. QueueInv' /\ NoLostWakeup' /\ NoSleeperAfterClose'
      BY DEF CreateThread, TypeOK, QueueInv, Position, NoLostWakeup, LifeInv,
         NoSleeperAfterClose, Waiters
    <2>7. LifeInv'
      <3>1. ASSUME creator' = "created" PROVE Inside' = Workers
        BY <3>1, <2>2, <2>3, FS_Subset DEF CreateThread, LifeInv
      <3>2. creator' = "created" => \A v \in Workers : pcW'[v] # "none"
        BY <3>1 DEF Inside
      <3> QED
        BY <3>2, <2>2 DEF CreateThread, LifeInv, TypeOK
    <2>8. DestroyInv' /\ AloneInv'
      BY OpenKeepsDestroy DEF CreateThread, LifeInv
    <2> QED
      BY <2>5, <2>6, <2>7, <2>8
  <1> QED
    BY <1>1, <1>2

(* thread_pool_post. *)
LEMMA PostInv ==
    ASSUME PoolInv, NEW p \in Posters,
           PostRefused(p) \/ PosterLeaves(p) \/ \E t \in Tasks : PostAccepted(p, t)
    PROVE  PoolInv'
  <1> USE PoolAssumption DEF PoolInv, queueVars
  <1>1. CASE PostRefused(p) \/ PosterLeaves(p)
    <2>1. /\ ret' \in [Posters -> {"none", "ok", "closed", "full", "left"}]
          /\ UNCHANGED <<queue, head, tail, count, closed, started, threads, freed,
                         mutex, creator, pcW, task, pcD, finished>>
      BY <1>1 DEF PostRefused, PosterLeaves, TypeOK
    <2>2. TypeOK'
      BY <2>1 DEF TypeOK, Slots
    <2>3. QueueInv' /\ NoLostWakeup' /\ NoSleeperAfterClose'
      BY <2>1 DEF QueueInv, Position, NoLostWakeup, NoSleeperAfterClose, Waiters
    <2>4. LifeInv' /\ DestroyInv' /\ AloneInv'
      BY <2>1 DEF LifeInv, Inside, DestroyInv, AloneInv, Alone, Outside, AllJoined
    <2> QED
      BY <2>2, <2>3, <2>4
  <1>2. ASSUME NEW t \in Tasks, PostAccepted(p, t)
        PROVE  PoolInv'
    <2> USE <1>2
    <2>1. count \in 0 .. QueueSize - 1 /\ head \in 0 .. QueueSize - 1
      BY DEF PostAccepted, IsFull, TypeOK, Slots
    <2>2. /\ pcW' \in [Workers -> {"none", "lock", "wait", "run", "done"}]
          /\ \A w \in Workers : pcW'[w] = pcW[w] \/ (pcW[w] = "wait" /\ pcW'[w] = "lock")
          /\ (\E w \in Workers : pcW'[w] = "lock") \/ (Waiters = {} /\ pcW' = pcW)
      BY DEF PostAccepted, Signalled, Waiters, TypeOK
    <2>3. TypeOK'
      BY <2>1, <2>2, SlotOf DEF PostAccepted, NextSlot, TypeOK, Slots
    <2>4. QueueInv'
      <3>1. tail' = Position(count + 1)
        BY <2>1, SlotShift DEF PostAccepted, NextSlot, QueueInv, Position
      <3>2. ASSUME NEW k \in 0 .. count PROVE queue'[Position(k)] \in Tasks
        <4>1. CASE k = count
          BY <4>1, <2>1 DEF PostAccepted, QueueInv, TypeOK
        <4>2. CASE k # count
          <5>1. Position(k) # tail
            <6>1. k \in 0 .. QueueSize - 1 /\ k # count /\ tail = (head + count) % QueueSize
              BY <4>2, <2>1 DEF QueueInv, Position
            <6>2. (head + k) % QueueSize # (head + count) % QueueSize
              BY <6>1, <2>1, SlotsDiffer
            <6> QED
              BY <6>1, <6>2 DEF Position
          <5>2. Position(k) \in Slots
            BY <2>1, SlotOf DEF Position, Slots
          <5> QED
            BY <5>1, <5>2, <4>2, <2>1 DEF PostAccepted, QueueInv, TypeOK
        <4> QED
          BY <4>1, <4>2
      <3> QED
        BY <3>1, <3>2, <2>1, <2>2 DEF PostAccepted, QueueInv, Position
    <2>5. Inside' = Inside
      BY <2>2, InsideSame
    <2>6. LifeInv'
      BY <2>2, <2>5 DEF PostAccepted, LifeInv
    <2>7. DestroyInv' /\ AloneInv'
      BY OpenKeepsDestroy DEF PostAccepted
    <2>8. NoLostWakeup'
      <3>1. ~closed /\ creator = "created"
        BY DEF PostAccepted, CanPost
      <3>2. \A w \in Workers : pcW[w] \in {"wait", "lock", "run"}
        BY <3>1 DEF LifeInv, TypeOK
      <3>3. \E w \in Workers : pcW'[w] \in {"lock", "run"}
        BY <2>2, <3>2 DEF Waiters
      <3> QED
        BY <3>3 DEF NoLostWakeup
    <2>9. NoSleeperAfterClose'
      BY DEF PostAccepted, NoSleeperAfterClose
    <2> QED
      BY <2>3, <2>4, <2>6, <2>7, <2>8, <2>9
  <1> QED
    BY <1>1, <1>2

(* thread_worker, and returns from pthread_cond_wait nobody asked for. *)
LEMMA WorkerInv ==
    ASSUME PoolInv, NEW w \in Workers, WorkerStep(w) \/ SpuriousWakeup(w)
    PROVE  PoolInv'
  <1> USE PoolAssumption DEF PoolInv, queueVars
  <1>1. CASE WorkerWaits(w) \/ SpuriousWakeup(w)
    <2>1. /\ UNCHANGED <<queue, head, tail, count, closed, started, threads, freed,
                         mutex, creator, task, pcD, ret, finished>>
          /\ pcW' \in [Workers -> {"none", "lock", "wait", "run", "done"}]
          /\ {pcW[w], pcW'[w]} \subseteq {"lock", "wait"}
          /\ \A v \in Workers \ {w} : pcW'[v] = pcW[v]
          /\ pcW'[w] = "wait" => count = 0 /\ ~closed
      BY <1>1 DEF WorkerWaits, WorkerLocks, SpuriousWakeup, TypeOK
    <2>2. Inside' = Inside
      BY <2>1, InsideSame
    <2>3. TypeOK' /\ QueueInv'
      BY <2>1 DEF TypeOK, Slots, QueueInv, Position
    <2>4. LifeInv'
      BY <2>1, <2>2 DEF LifeInv
    <2>5. ~AllJoined
      BY <2>1 DEF AllJoined
    <2>6. DestroyInv' /\ AloneInv'
      BY <2>1, <2>5, WorkersKeepDestroy
    <2>7. NoLostWakeup' /\ NoSleeperAfterClose'
      BY <2>1 DEF TypeOK, NoLostWakeup, NoSleeperAfterClose, Waiters
    <2> QED
      BY <2>3, <2>4, <2>6, <2>7
  <1>2. CASE WorkerTakes(w)
    <2> USE <1>2
    <2>1. /\ count \in 1 .. QueueSize /\ head \in 0 .. QueueSize - 1
          /\ ~closed
      BY DEF WorkerTakes, MayTake, TypeOK, Slots
    <2>2. /\ pcW' \in [Workers -> {"none", "lock", "wait", "run", "done"}]
          /\ pcW[w] = "lock" /\ pcW'[w] = "run"
          /\ \A v \in Workers \ {w} : pcW'[v] = pcW[v]
      BY DEF WorkerTakes, WorkerLocks, TypeOK
    <2>3. Position(0) = head
      BY <2>1, SlotOf DEF Position
    <2>4. queue[head] \in Tasks
      BY <2>1, <2>3 DEF QueueInv
    <2>5. TypeOK'
      <3>1. head' \in Slots
        BY <2>1, SlotOf DEF WorkerTakes, NextSlot, Slots
      <3> QED
        BY <3>1, <2>1, <2>2, <2>4 DEF WorkerTakes, TypeOK, Slots
    <2>6. QueueInv'
      <3>1. ASSUME NEW k \in 0 .. QueueSize - 1
            PROVE  (head' + k) % QueueSize = Position(k + 1)
        BY <2>1, SlotShift DEF WorkerTakes, NextSlot, Position
      <3>2. tail' = (head' + count') % QueueSize
        <4>1. count' \in 0 .. QueueSize - 1 /\ count' + 1 = count
          BY <2>1 DEF WorkerTakes
        <4> QED
          BY <4>1, <3>1 DEF WorkerTakes, QueueInv
      <3>3. ASSUME NEW k \in 0 .. count' - 1
            PROVE  queue'[(head' + k) % QueueSize] \in Tasks
        <4>1. k + 1 \in 0 .. count - 1 /\ k \in 0 .. QueueSize - 1
          BY <2>1 DEF WorkerTakes
        <4> QED
          BY <4>1, <3>1 DEF WorkerTakes, QueueInv
      <3>4. \A v \in Workers : pcW'[v] = "run" => task'[v] \in Tasks
        BY <2>2, <2>4 DEF WorkerTakes, TypeOK, QueueInv
      <3> QED
        BY <3>2, <3>3, <3>4 DEF QueueInv, Position
    <2>7. Inside' = Inside
      BY <2>2, InsideSame
    <2>8. LifeInv'
      BY <2>2, <2>7 DEF WorkerTakes, LifeInv
    <2>9. DestroyInv' /\ AloneInv'
      BY OpenKeepsDestroy DEF WorkerTakes, MayTake
    <2>10. NoLostWakeup' /\ NoSleeperAfterClose'
      BY <2>1, <2>2 DEF WorkerTakes, NoLostWakeup, NoSleeperAfterClose
    <2> QED
      BY <2>5, <2>6, <2>8, <2>9, <2>10
  <1>3. CASE WorkerRuns(w)
    <2> USE <1>3
    <2>1. /\ pcW' \in [Workers -> {"none", "lock", "wait", "run", "done"}]
          /\ pcW[w] = "run" /\ pcW'[w] = "lock"
          /\ \A v \in Workers \ {w} : pcW'[v] = pcW[v]
      BY DEF WorkerRuns, TypeOK
    <2>2. task[w] \in Tasks
      BY <2>1 DEF QueueInv
    <2>3. TypeOK'
      BY <2>1, <2>2 DEF WorkerRuns, TypeOK, Slots
    <2>4. QueueInv'
      BY <2>1 DEF WorkerRuns, TypeOK, QueueInv, Position
    <2>5. Inside' = Inside
      BY <2>1, InsideSame
    <2>6. LifeInv'
      BY <2>1, <2>5 DEF WorkerRuns, LifeInv
    <2>7. ~AllJoined
      BY <2>1 DEF AllJoined
    <2>8. DestroyInv' /\ AloneInv'
      BY <2>7, WorkersKeepDestroy DEF WorkerRuns
    <2>9. NoLostWakeup' /\ NoSleeperAfterClose'
      BY <2>1 DEF WorkerRuns, NoLostWakeup, NoSleeperAfterClose, Waiters
    <2> QED
      BY <2>3, <2>4, <2>6, <2>8, <2>9
  <1>4. CASE WorkerExits(w)
    <2> USE <1>4
    <2>1. /\ pcW' \in [Workers -> {"none", "lock", "wait", "run", "done"}]
          /\ pcW[w] = "lock" /\ pcW'[w] = "done" /\ closed
          /\ \A v \in Workers \ {w} : pcW'[v] = pcW[v]
      BY DEF WorkerExits, WorkerLocks, TypeOK
    <2>2. w \in Inside /\ Inside' = Inside \ {w}
      BY <2>1 DEF Inside
    <2>3. Cardinality(Inside') = Cardinality(Inside) - 1
      BY <2>2, FS_RemoveElement, InsideFinite
    <2>4. IsFiniteSet(Inside')
      BY <2>2, FS_RemoveElement, InsideFinite
    <2>5. Cardinality(Inside') \in Nat
      BY <2>4, FS_CardinalityType
    <2>6. TypeOK'
      BY <2>1, <2>3, <2>5, InsideFinite DEF WorkerExits, TypeOK, Slots, LifeInv
    <2>7. QueueInv'
      BY <2>1 DEF WorkerExits, QueueInv, Position
    <2>8. LifeInv'
      BY <2>1, <2>3 DEF WorkerExits, LifeInv
    <2>9. ~AllJoined
      BY <2>1 DEF AllJoined
    <2>10. DestroyInv' /\ AloneInv'
      BY <2>9, WorkersKeepDestroy DEF WorkerExits
    <2>11. NoLostWakeup' /\ NoSleeperAfterClose'
      BY <2>1 DEF WorkerExits, NoLostWakeup, NoSleeperAfterClose, Waiters
    <2> QED
      BY <2>6, <2>7, <2>8, <2>10, <2>11
  <1> QED
    BY <1>1, <1>2, <1>3, <1>4 DEF WorkerStep

(* thread_pool_destroy. *)
LEMMA DestroyStepInv ==
    ASSUME PoolInv, NEW d \in Destroyers, DestroyStep(d)
    PROVE  PoolInv'
  <1> USE PoolAssumption DEF PoolInv, queueVars
  <1>1. CASE DestroyCloses(d)
    <2> USE <1>1
    <2>1. /\ pcW' \in [Workers -> {"none", "lock", "wait", "run", "done"}]
          /\ \A w \in Workers :
                pcW'[w] = IF pcW[w] = "wait" THEN "lock" ELSE pcW[w]
      BY DEF DestroyCloses, Broadcast, TypeOK
    <2>2. TypeOK'
      BY <2>1 DEF DestroyCloses, TypeOK, Slots
    <2>3. QueueInv'
      BY <2>1 DEF DestroyCloses, QueueInv, Position
    <2>4. Inside' = Inside
      BY <2>1, InsideSame
    <2>5. LifeInv'
      BY <2>1, <2>4 DEF DestroyCloses, DestroyLocks, LifeInv, TypeOK
    <2>6. DestroyInv' /\ AloneInv'
      <3>1. \A e \in Destroyers : Outside(e)
        BY DEF DestroyCloses, DestroyInv
      <3>2. threads /\ ~freed
        BY DEF DestroyCloses, DestroyInv
      <3>3. pcD'[d] = "join" /\ \A e \in Destroyers : e # d => pcD'[e] = pcD[e]
        BY DEF DestroyCloses, TypeOK
      <3>4. DestroyInv'
        BY <3>1, <3>2, <3>3 DEF DestroyCloses, DestroyInv, Outside
      <3>5. AloneInv'
        BY <3>2, <3>3 DEF DestroyCloses, DestroyLocks, AloneInv, Alone
      <3> QED
        BY <3>4, <3>5
    <2>7. NoLostWakeup' /\ NoSleeperAfterClose'
      BY <2>1 DEF DestroyCloses, NoLostWakeup, NoSleeperAfterClose, Waiters
    <2> QED
      BY <2>2, <2>3, <2>5, <2>6, <2>7
  <1>2. CASE DestroyCalls(d) \/ DestroyAgain(d) \/ DestroyJoins(d) \/ FreeStep(d)
             \/ DestroyCrashes(d)
    <2> USE DEF FreeStep
    <2>1. /\ UNCHANGED <<queue, head, tail, count, closed, started, creator, pcW,
                         task, ret, finished>>
      BY <1>2 DEF DestroyCalls, DestroyAgain, DestroyJoins, DestroyCrashes, FreeTests,
         FreesThreads, FreeRelocks, FreesPool
    <2>2. QueueInv' /\ NoLostWakeup' /\ NoSleeperAfterClose'
      BY <2>1 DEF QueueInv, Position, NoLostWakeup, NoSleeperAfterClose, Waiters
    <2>3. \A e \in Destroyers : e # d => pcD'[e] = pcD[e]
      BY <1>2 DEF DestroyCalls, DestroyAgain, DestroyJoins, DestroyCrashes, FreeTests,
         FreesThreads, FreeRelocks, FreesPool, TypeOK
    <2>4. pcD[d] # "idle" \/ creator = "created"
      BY <1>2 DEF DestroyCalls, DestroyAgain, DestroyLocks, DestroyJoins, DestroyCrashes,
         FreeTests, FreesThreads, FreeRelocks, FreesPool
    <2>5. LifeInv'
      BY <2>1, <2>3, <2>4 DEF LifeInv, Inside
    <2>6. TypeOK'
      <3>1. threads' \in BOOLEAN /\ freed' \in BOOLEAN /\ mutex' \in Destroyers \cup {NoThread}
        BY <1>2 DEF DestroyCalls, DestroyAgain, DestroyJoins, DestroyCrashes, FreeTests,
           FreesThreads, FreeRelocks, FreesPool, TypeOK
      <3>2. pcD' \in [Destroyers -> {"idle", "lock", "join", "free", "threads", "relock",
                                     "pool", "end", "refused", "crash"}]
        BY <1>2 DEF DestroyCalls, DestroyAgain, DestroyJoins, DestroyCrashes, FreeTests,
           FreesThreads, FreeRelocks, FreesPool, TypeOK
      <3> QED
        BY <3>1, <3>2, <2>1 DEF TypeOK, Slots
    <2>7. AllJoined' = AllJoined
      BY <2>1 DEF AllJoined
    <2>8. AllJoined => ~StillStarted
      <3>1. AllJoined => Inside = {}
        BY DEF AllJoined, Inside
      <3> QED
        BY <3>1, FS_EmptySet DEF LifeInv, StillStarted
    <2>9. closed /\ ~StillStarted => AllJoined
      <3>1. ~StillStarted => Cardinality(Inside) = 0
        BY InsideFinite DEF LifeInv, StillStarted, TypeOK
      <3>2. ~StillStarted => Inside = {}
        BY <3>1, InsideFinite, FS_EmptySet
      <3>3. closed => \A w \in Workers : pcW[w] # "none"
        BY DEF LifeInv
      <3> QED
        BY <3>2, <3>3 DEF AllJoined, Inside
    <2>10. DestroyInv' /\ AloneInv'
      <3> USE <2>1, <2>3, <2>7 DEF Outside
      <3>1. CASE DestroyCalls(d)
        <4>1. pcD[d] = "idle" /\ pcD'[d] = "lock" /\ UNCHANGED <<threads, freed, mutex>> /\ ~freed
          BY <3>1 DEF DestroyCalls, TypeOK
        <4>2. DestroyInv'
          BY <4>1 DEF DestroyInv
        <4>3. AloneInv'
          BY <4>1 DEF AloneInv, Alone
        <4> QED
          BY <4>2, <4>3
      <3>2. CASE DestroyAgain(d)
        <4>1. /\ pcD[d] = "lock" /\ pcD'[d] = "free" /\ mutex' = d /\ closed
              /\ mutex = NoThread /\ UNCHANGED <<threads, freed>>
          BY <3>2 DEF DestroyAgain, DestroyLocks, TypeOK
        <4>2. PICK c \in Destroyers : ~Outside(c)
          BY <4>1 DEF DestroyInv
        <4>3. c # d /\ pcD'[c] # "idle" /\ pcD'[d] # "idle"
          BY <4>1, <4>2
        <4>4. \A e \in Destroyers : ~Alone(e)'
          BY <4>3 DEF Alone
        <4>5. DestroyInv'
          BY <4>1, PoolAssumption DEF DestroyInv
        <4> QED
          BY <4>4, <4>5 DEF AloneInv
      <3>3. CASE DestroyJoins(d)
        <4>1. /\ pcD[d] = "join" /\ pcD'[d] = "free" /\ AllJoined
              /\ UNCHANGED <<threads, freed, mutex>>
          BY <3>3 DEF DestroyJoins, TypeOK
        <4>2. DestroyInv'
          BY <4>1 DEF DestroyInv
        <4>3. AloneInv'
          BY <4>1 DEF AloneInv, Alone
        <4> QED
          BY <4>2, <4>3
      <3>4. CASE FreeTests(d)
        <4>1. /\ pcD[d] = "free" /\ ~freed /\ UNCHANGED <<threads, freed, mutex>> /\ closed
              /\ pcD'[d] = IF StillStarted THEN IF mutex = d THEN "refused" ELSE "end"
                           ELSE IF threads THEN "threads" ELSE "pool"
          BY <3>4 DEF FreeTests, TypeOK, DestroyInv
        <4>2. StillStarted => mutex = d
          BY <4>1, <2>8 DEF DestroyInv
        <4>3. pcD'[d] \in {"refused", "threads", "pool"} /\ (pcD'[d] # "refused" => AllJoined)
          BY <4>1, <4>2, <2>9
        <4>4. DestroyInv'
          BY <4>1, <4>3 DEF DestroyInv
        <4>5. Alone(d) => AllJoined /\ threads /\ mutex = NoThread
          <5>1. Alone(d) => threads /\ mutex = NoThread
            BY <4>1 DEF AloneInv
          <5> QED
            BY <4>1, <5>1, PoolAssumption DEF DestroyInv
        <4>6. AloneInv'
          BY <4>1, <4>5, <2>8 DEF AloneInv, Alone
        <4> QED
          BY <4>4, <4>6
      <3>5. CASE FreesThreads(d)
        <4>1. /\ pcD[d] = "threads" /\ pcD'[d] = "relock" /\ ~threads' /\ AllJoined /\ closed
              /\ UNCHANGED <<freed, mutex>>
          BY <3>5 DEF FreesThreads, TypeOK, DestroyInv
        <4>2. DestroyInv'
          BY <4>1 DEF DestroyInv
        <4>3. AloneInv'
          BY <4>1 DEF AloneInv, Alone
        <4> QED
          BY <4>2, <4>3
      <3>6. CASE FreeRelocks(d)
        <4>1. /\ pcD[d] = "relock" /\ pcD'[d] = "pool" /\ mutex = NoThread /\ AllJoined
              /\ UNCHANGED <<threads, freed>> /\ ~freed
          BY <3>6 DEF FreeRelocks, TypeOK, DestroyInv
        <4>2. DestroyInv'
          BY <4>1, PoolAssumption DEF DestroyInv
        <4>3. AloneInv'
          BY <4>1 DEF AloneInv, Alone
        <4> QED
          BY <4>2, <4>3
      <3>7. CASE FreesPool(d)
        <4>1. /\ pcD[d] = "pool" /\ pcD'[d] = "end" /\ freed' /\ AllJoined /\ closed
              /\ UNCHANGED <<threads, mutex>>
          BY <3>7 DEF FreesPool, TypeOK, DestroyInv
        <4>2. DestroyInv'
          BY <4>1 DEF DestroyInv
        <4>3. AloneInv'
          BY <4>1 DEF AloneInv, Alone
        <4> QED
          BY <4>2, <4>3
      <3>8. CASE DestroyCrashes(d)
        <4>1. /\ pcD'[d] = "crash" /\ UNCHANGED <<threads, freed, mutex>> /\ pcD[d] # "idle"
              /\ \/ freed /\ pcD[d] \in {"lock", "free", "threads", "relock", "pool"}
                 \/ ~threads /\ pcD[d] \in {"join", "threads"}
          BY <3>8 DEF DestroyCrashes, TypeOK
        <4>2. DestroyInv'
          BY <4>1 DEF DestroyInv
        <4>3. ~Alone(d)
          BY <4>1 DEF AloneInv
        <4>4. \A e \in Destroyers : ~Alone(e)'
          BY <4>1, <4>3 DEF Alone
        <4> QED
          BY <4>2, <4>4 DEF AloneInv
      <3> QED
        BY <1>2, <3>1, <3>2, <3>3, <3>4, <3>5, <3>6, <3>7, <3>8
    <2> QED
      BY <2>2, <2>5, <2>6, <2>10
  <1> QED
    BY <1>1, <1>2 DEF DestroyStep, DestroyRuns

-----------------------------------------------------------------------------
(* The theorems.                                                           *)

(* PoolInv is an invariant of the pool. *)
THEOREM PoolInvariant == Spec => []PoolInv
  <1>1. Init => PoolInv
    BY InitInv
  <1>2. PoolInv /\ [Next]_vars => PoolInv'
    <2> SUFFICES ASSUME PoolInv, [Next]_vars PROVE PoolInv'
      OBVIOUS
    <2>1. CASE UNCHANGED vars
      BY <2>1 DEF vars, PoolInv, TypeOK, Slots, QueueInv, Position, LifeInv, Inside,
         DestroyInv, AloneInv, Alone, Outside, AllJoined, NoLostWakeup, NoSleeperAfterClose, Waiters
    <2>2. CASE Terminated
      BY <2>1, <2>2 DEF Terminated
    <2>3. CASE Next /\ ~Terminated
      BY <2>3, CreateInv, PostInv, WorkerInv, DestroyStepInv DEF Next
    <2> QED
      BY <2>1, <2>2, <2>3
  <1> QED
    BY <1>1, <1>2, PTL DEF Spec

(* head, tail and count of the circular queue, and all other state, keep   *)
(* their types under every interleaving of posts, workers and destroys.    *)
THEOREM TypeCorrect == Spec => []TypeOK
  <1>1. PoolInv => TypeOK
    BY DEF PoolInv
  <1> QED
    BY <1>1, PoolInvariant, PTL

(* The single pthread_cond_signal of thread_pool_post never leaves a task  *)
(* waiting while all workers sleep.                                        *)
THEOREM WakeupNotLost == Spec => []NoLostWakeup
  <1>1. PoolInv => NoLostWakeup
    BY DEF PoolInv
  <1> QED
    BY <1>1, PoolInvariant, PTL

(* After the broadcast of thread_pool_destroy no worker sleeps; the memory *)
(* of the pool is released only when every worker has exited, by any       *)
(* number of callers; a single caller never uses it afterwards, is never   *)
(* refused and never finds the mutex held; started counts the workers, and *)
(* a destroy that has returned 0 has freed the pool.                       *)
THEOREM DestroyIsSafe == Spec => []DestroySafe
  <1>1. PoolInv => NoSleeperAfterClose
    BY DEF PoolInv
  <1>2. PoolInv => FreedAfterExit
    BY DEF PoolInv, DestroyInv, AloneInv, FreedAfterExit
  <1>3. PoolInv => DestroyFreesPool
    BY DEF PoolInv, DestroyInv, LifeInv, Inside, DestroyFreesPool
  <1>4. PoolInv => DestroySafe
    BY <1>1, <1>2, <1>3 DEF DestroySafe
  <1> QED
    BY <1>4, PoolInvariant, PTL

-----------------------------------------------------------------------------
(* The pool implements TaskService.                                        *)

(* A task is in one place: in one slot of the queue, or with one worker.   *)
OnceInv ==
    /\ \A w \in Workers : task[w] # NoTask <=> pcW[w] = "run"
    /\ \A v, w \in Workers : v # w /\ task[v] = task[w] => task[v] = NoTask
    /\ \A i, j \in 1 .. count : Pending[i] = Pending[j] => i = j
    /\ \A i \in 1 .. count, w \in Workers : Pending[i] # task[w]

(* The waiting tasks of a buffer q with head h and c tasks are a sequence. *)
LEMMA WaitingIsSequence ==
    ASSUME NEW q, NEW h \in Slots, NEW c \in 0 .. QueueSize,
           \A k \in 0 .. c - 1 : q[(h + k) % QueueSize] \in Tasks
    PROVE  /\ [i \in 1 .. c |-> q[(h + (i - 1)) % QueueSize]] \in Seq(Tasks)
           /\ Len([i \in 1 .. c |-> q[(h + (i - 1)) % QueueSize]]) = c
  <1> DEFINE P == [i \in 1 .. c |-> q[(h + (i - 1)) % QueueSize]]
  <1>1. c \in Nat
    BY PoolAssumption
  <1>2. \A i \in 1 .. c : i - 1 \in 0 .. c - 1
    BY <1>1
  <1>3. P \in [1 .. c -> Tasks]
    BY <1>2
  <1> HIDE DEF P
  <1>4. P \in Seq(Tasks) /\ Len(P) = c
    BY <1>1, <1>3, SeqDef
  <1> QED
    BY <1>4 DEF P

(* The count slots from head are a sequence of tasks. *)
LEMMA PendingIsSequence ==
    ASSUME PoolInv
    PROVE  Pending \in Seq(Tasks) /\ Len(Pending) = count
  <1>1. head \in Slots /\ count \in 0 .. QueueSize
    BY DEF PoolInv, TypeOK
  <1>2. \A k \in 0 .. count - 1 : queue[(head + k) % QueueSize] \in Tasks
    BY Zenon DEF PoolInv, QueueInv, Position
  <1>3. Pending = [i \in 1 .. count |-> queue[(head + (i - 1)) % QueueSize]]
    BY Zenon DEF Pending, Position
  <1> QED
    BY <1>1, <1>2, <1>3, WaitingIsSequence, Zenon

(* A sequence is the function of its elements. *)
LEMMA SequenceIsFunction ==
    ASSUME NEW S, NEW s \in Seq(S)
    PROVE  s = [i \in 1 .. Len(s) |-> s[i]]
  <1>1. s \in [1 .. Len(s) -> S]
    BY LenProperties
  <1> QED
    BY <1>1

(* thread_pool_post appends to the waiting tasks, wherever tail is. *)
LEMMA PostAppends ==
    ASSUME PoolInv, NEW p \in Posters, NEW t \in Tasks, PostAccepted(p, t)
    PROVE  /\ Pending \in Seq(Tasks) /\ Len(Pending) = count
           /\ Pending' = Append(Pending, t) /\ count' = count + 1
           /\ count \in Nat /\ count < QueueSize
  <1> USE PoolAssumption DEF PoolInv
  <1>1. count \in 0 .. QueueSize - 1 /\ head \in 0 .. QueueSize - 1 /\ count \in 0 .. QueueSize
    BY DEF PostAccepted, IsFull, TypeOK, Slots
  <1>2. /\ Pending \in Seq(Tasks) /\ Len(Pending) = count
    BY PendingIsSequence
  <1>3. head' = head /\ count' = count + 1 /\ queue' = [queue EXCEPT ![tail] = t]
        /\ tail = Position(count)
    BY DEF PostAccepted, QueueInv
  <1>4. \A k \in 0 .. count : (head + k) % QueueSize \in Slots
    BY <1>1, SlotOf DEF Slots
  <1>5. queue'[(head + count) % QueueSize] = t
    BY <1>1, <1>3, <1>4 DEF Position, TypeOK
  <1>6. ASSUME NEW k \in 0 .. count - 1
        PROVE  queue'[(head + k) % QueueSize] = queue[(head + k) % QueueSize]
    <2>1. (head + k) % QueueSize # tail
      BY <1>1, <1>3, SlotsDiffer DEF Position
    <2> QED
      BY <1>1, <1>3, <1>4, <2>1 DEF TypeOK
  <1>7. Pending' = [i \in 1 .. count + 1 |-> queue'[(head + (i - 1)) % QueueSize]]
    BY <1>3 DEF Pending, Position
  <1>8. /\ Append(Pending, t) \in Seq(Tasks) /\ Len(Append(Pending, t)) = count + 1
        /\ \A i \in 1 .. count : Append(Pending, t)[i] = Pending[i]
        /\ Append(Pending, t)[count + 1] = t
    BY <1>2, AppendProperties
  <1>9. \A i \in 1 .. count + 1 : Append(Pending, t)[i] = queue'[(head + (i - 1)) % QueueSize]
    <2> SUFFICES ASSUME NEW i \in 1 .. count + 1
                 PROVE  Append(Pending, t)[i] = queue'[(head + (i - 1)) % QueueSize]
      OBVIOUS
    <2>1. CASE i = count + 1
      <3>1. i - 1 = count
        BY <1>1, <2>1
      <3> QED
        BY <1>5, <1>8, <2>1, <3>1
    <2>2. CASE i # count + 1
      <3>1. i \in 1 .. count /\ i - 1 \in 0 .. count - 1
        BY <1>1, <2>2
      <3>2. Pending[i] = queue[(head + (i - 1)) % QueueSize]
        BY <3>1 DEF Pending, Position
      <3>3. queue'[(head + (i - 1)) % QueueSize] = queue[(head + (i - 1)) % QueueSize]
        BY <1>6, <3>1
      <3> QED
        BY <1>8, <3>1, <3>2, <3>3
    <2> QED
      BY <2>1, <2>2
  <1>10. Append(Pending, t) = [i \in 1 .. count + 1 |-> Append(Pending, t)[i]]
    BY <1>8, SequenceIsFunction, Zenon
  <1>11. Pending' = Append(Pending, t)
    BY <1>7, <1>9, <1>10
  <1> QED
    BY <1>1, <1>2, <1>3, <1>11

(* thread_worker takes the oldest of the waiting tasks, wherever head is. *)
LEMMA TakePops ==
    ASSUME PoolInv, NEW w \in Workers, WorkerTakes(w)
    PROVE  /\ Pending \in Seq(Tasks) /\ Len(Pending) = count /\ Pending # <<>>
           /\ Pending' = Tail(Pending) /\ count' = count - 1 /\ count \in Nat \ {0}
           /\ task' = [task EXCEPT ![w] = Head(Pending)] /\ Head(Pending) = Pending[1]
  <1> USE PoolAssumption DEF PoolInv
  <1>1. count \in 1 .. QueueSize /\ head \in 0 .. QueueSize - 1 /\ count \in 0 .. QueueSize
    BY DEF WorkerTakes, MayTake, TypeOK, Slots
  <1>2. /\ Pending \in Seq(Tasks) /\ Len(Pending) = count
    BY PendingIsSequence
  <1>3. /\ head' = (head + 1) % QueueSize /\ count' = count - 1 /\ queue' = queue
        /\ task' = [task EXCEPT ![w] = queue[head]]
    BY DEF WorkerTakes, NextSlot
  <1>4. Pending # <<>>
    BY <1>1, <1>2, EmptySeq
  <1>5. /\ Tail(Pending) \in Seq(Tasks) /\ Len(Tail(Pending)) = count - 1
        /\ \A i \in 1 .. count - 1 : Tail(Pending)[i] = Pending[i + 1]
        /\ Head(Pending) = Pending[1]
    BY <1>1, <1>2, <1>4, HeadTailProperties
  <1>6. Pending[1] = queue[head]
    <2>1. (head + 0) % QueueSize = head
      BY <1>1, SlotOf
    <2>2. 1 \in 1 .. count /\ 1 - 1 = 0
      BY <1>1
    <2> QED
      BY <2>1, <2>2 DEF Pending, Position
  <1>7. Pending' = [i \in 1 .. count - 1 |-> queue[(head' + (i - 1)) % QueueSize]]
    BY <1>3 DEF Pending, Position
  <1>8. ASSUME NEW i \in 1 .. count - 1
        PROVE  Tail(Pending)[i] = queue[(head' + (i - 1)) % QueueSize]
    <2> DEFINE k == i - 1
    <2>1. k \in 0 .. QueueSize - 1 /\ i + 1 \in 1 .. count /\ (i + 1) - 1 = k + 1
      BY <1>1
    <2>2. Pending[i + 1] = queue[(head + (k + 1)) % QueueSize]
      BY <2>1 DEF Pending, Position
    <2> HIDE DEF k
    <2>3. (head' + k) % QueueSize = (head + (k + 1)) % QueueSize
      BY <1>1, <1>3, <2>1, SlotShift
    <2> QED
      BY <1>5, <2>2, <2>3 DEF k
  <1>9. Tail(Pending) = [i \in 1 .. count - 1 |-> Tail(Pending)[i]]
    BY <1>5, SequenceIsFunction, Zenon
  <1>10. Pending' = Tail(Pending)
    BY <1>7, <1>8, <1>9
  <1>11. count \in Nat \ {0}
    BY <1>1
  <1>12. task' = [task EXCEPT ![w] = Head(Pending)]
    BY <1>3, <1>5, <1>6, Zenon
  <1> QED
    BY <1>2, <1>3, <1>4, <1>5, <1>10, <1>11, <1>12, Zenon

(* All other steps neither queue nor take nor finish a task. *)
Quiet ==
    /\ UNCHANGED <<queue, head, count, task, finished>>
    /\ \A w \in Workers : pcW'[w] = "run" <=> pcW[w] = "run"

(* Steps other than post, take and run leave the tasks where they are. *)
LEMMA OtherStepsQuiet ==
    ASSUME PoolInv, [Next]_vars
    PROVE  \/ \E p \in Posters, t \in Tasks : PostAccepted(p, t)
           \/ \E w \in Workers : WorkerTakes(w) \/ WorkerRuns(w)
           \/ Quiet /\ closed' = closed
           \/ Quiet /\ ~closed /\ closed' = TRUE
  <1> USE DEF queueVars
  <1>1. ASSUME NEW d \in Destroyers, DestroyCloses(d)
        PROVE  Quiet /\ ~closed /\ closed' = TRUE
    BY <1>1 DEF DestroyCloses, Broadcast, Quiet
  <1>2. CASE UNCHANGED vars \/ Terminated
    BY <1>2 DEF vars, Terminated, Quiet
  <1>3. CASE CreateFails \/ \E p \in Posters : PostRefused(p) \/ PosterLeaves(p)
    BY <1>3 DEF CreateFails, PostRefused, PosterLeaves, Quiet
  <1>4. ASSUME NEW w \in Workers,
               CreateThread(w) \/ SpuriousWakeup(w) \/ WorkerWaits(w) \/ WorkerExits(w)
        PROVE  Quiet /\ closed' = closed
    BY <1>4 DEF PoolInv, TypeOK, CreateThread, SpuriousWakeup, WorkerWaits, WorkerExits,
                WorkerLocks, Quiet
  <1>5. ASSUME NEW d \in Destroyers,
               DestroyCalls(d) \/ DestroyAgain(d) \/ DestroyJoins(d) \/ FreeStep(d)
               \/ DestroyCrashes(d)
        PROVE  Quiet /\ closed' = closed
    BY <1>5 DEF DestroyCalls, DestroyAgain, DestroyJoins, DestroyCrashes, FreeStep, FreeTests,
                FreesThreads, FreeRelocks, FreesPool, Quiet
  <1> QED
    BY <1>1, <1>2, <1>3, <1>4, <1>5 DEF Next, WorkerStep, DestroyStep, DestroyRuns

(* A quiet step changes nothing the service sees. *)
LEMMA QuietKeeps ==
    ASSUME Quiet PROVE Pending' = Pending /\ Running' = Running /\ (OnceInv => OnceInv')
  <1>1. Pending' = Pending
    BY DEF Quiet, Pending, Position
  <1>2. {v \in Workers : pcW'[v] = "run"} = {v \in Workers : pcW[v] = "run"}
    BY DEF Quiet
  <1>3. Running' = Running
    BY <1>2 DEF Quiet, Running
  <1>4. OnceInv => OnceInv'
    BY <1>1 DEF Quiet, OnceInv
  <1> QED
    BY <1>1, <1>3, <1>4

(* A new task is neither waiting nor with a worker. *)
LEMMA NotKnown ==
    ASSUME PoolInv, NEW t, ~Known(t)
    PROVE  /\ \A i \in 1 .. count : Pending[i] # t
           /\ \A w \in Workers : task[w] # t
           /\ t \notin finished /\ t \notin Running
  <1>1. \A i \in 1 .. count : i - 1 \in 0 .. count - 1
    BY PoolAssumption DEF PoolInv, TypeOK
  <1>2. \A i \in 1 .. count : Pending[i] = queue[Position(i - 1)]
    BY DEF Pending
  <1>3. \A i \in 1 .. count : Pending[i] # t
    BY <1>1, <1>2 DEF Known
  <1>4. \A w \in Workers : task[w] # t
    BY DEF Known
  <1> QED
    BY <1>3, <1>4 DEF Known, Running

(* A post puts a new task behind the others. *)
LEMMA PostKeepsOnce ==
    ASSUME PoolInv, OnceInv, NEW p \in Posters, NEW t \in Tasks, PostAccepted(p, t)
    PROVE  OnceInv' /\ Running' = Running
  <1>1. /\ Pending \in Seq(Tasks) /\ Len(Pending) = count /\ count \in Nat
        /\ Pending' = Append(Pending, t) /\ count' = count + 1
    BY PostAppends
  <1>2. /\ \A i \in 1 .. count : Pending[i] # t
        /\ \A w \in Workers : task[w] # t
    BY NotKnown DEF PostAccepted
  <1>3. /\ \A i \in 1 .. count : Pending'[i] = Pending[i]
        /\ Pending'[count + 1] = t
    BY <1>1, AppendProperties
  <1>4. task' = task /\ \A w \in Workers : pcW'[w] = "run" <=> pcW[w] = "run"
    BY DEF PostAccepted, Signalled, Waiters, PoolInv, TypeOK
  <1>5. \A i \in 1 .. count' : i \in 1 .. count \/ i = count + 1
    BY <1>1
  <1>6. \A i, j \in 1 .. count' : Pending'[i] = Pending'[j] => i = j
    BY <1>2, <1>3, <1>5 DEF OnceInv
  <1>7. \A i \in 1 .. count', w \in Workers : Pending'[i] # task'[w]
    BY <1>2, <1>3, <1>4, <1>5 DEF OnceInv
  <1>8. OnceInv'
    BY <1>4, <1>6, <1>7 DEF OnceInv
  <1>9. {v \in Workers : pcW'[v] = "run"} = {v \in Workers : pcW[v] = "run"}
    BY <1>4
  <1> QED
    BY <1>4, <1>8, <1>9 DEF Running

(* A worker that takes a task takes the first one. *)
LEMMA TakeKeepsOnce ==
    ASSUME PoolInv, OnceInv, NEW w \in Workers, WorkerTakes(w)
    PROVE  OnceInv' /\ Running' = Running \cup {Head(Pending)}
  <1>1. /\ Pending \in Seq(Tasks) /\ Len(Pending) = count /\ count \in Nat \ {0}
        /\ Pending # <<>> /\ Pending' = Tail(Pending) /\ count' = count - 1
        /\ task' = [task EXCEPT ![w] = Head(Pending)] /\ Head(Pending) = Pending[1]
    BY TakePops
  <1>2. \A i \in 1 .. count' : Pending'[i] = Pending[i + 1] /\ i + 1 \in 1 .. count /\ i + 1 # 1
    BY <1>1, HeadTailProperties
  <1>3. Pending[1] \in Tasks /\ 1 \in 1 .. count /\ Pending[1] # NoTask
    BY <1>1, ElementOfSeq, PoolAssumption
  <1>4. /\ task'[w] = Pending[1] /\ pcW'[w] = "run"
        /\ \A v \in Workers : v # w => task'[v] = task[v] /\ pcW'[v] = pcW[v]
        /\ pcW[w] = "lock"
    BY <1>1 DEF PoolInv, TypeOK, WorkerTakes, WorkerLocks
  <1>5. \A v \in Workers : task'[v] # NoTask <=> pcW'[v] = "run"
    BY <1>3, <1>4 DEF OnceInv
  <1>6. \A u, v \in Workers : u # v /\ task'[u] = task'[v] => task'[u] = NoTask
    BY <1>3, <1>4 DEF OnceInv
  <1>7. \A i, j \in 1 .. count' : Pending'[i] = Pending'[j] => i = j
    <2> SUFFICES ASSUME NEW i \in 1 .. count', NEW j \in 1 .. count', Pending'[i] = Pending'[j]
                 PROVE  i = j
      OBVIOUS
    <2>1. i + 1 = j + 1
      BY <1>2 DEF OnceInv
    <2> QED
      BY <1>1, <2>1
  <1>8. \A i \in 1 .. count', v \in Workers : Pending'[i] # task'[v]
    BY <1>2, <1>3, <1>4 DEF OnceInv
  <1>9. OnceInv'
    BY <1>5, <1>6, <1>7, <1>8 DEF OnceInv
  <1>10. Running' = Running \cup {Pending[1]}
    BY <1>4 DEF Running
  <1> QED
    BY <1>1, <1>9, <1>10

(* A worker that has run a task gives it up. *)
LEMMA RunKeepsOnce ==
    ASSUME PoolInv, OnceInv, NEW w \in Workers, WorkerRuns(w)
    PROVE  /\ OnceInv' /\ Pending' = Pending
           /\ task[w] \in Running /\ task[w] \in Tasks /\ Running' = Running \ {task[w]}
  <1>1. /\ task'[w] = NoTask /\ pcW'[w] = "lock" /\ pcW[w] = "run"
        /\ \A v \in Workers : v # w => task'[v] = task[v] /\ pcW'[v] = pcW[v]
        /\ task[w] \in Tasks /\ task[w] # NoTask
    BY DEF PoolInv, TypeOK, WorkerRuns, OnceInv
  <1>2. Pending' = Pending /\ count' = count
    BY DEF WorkerRuns, queueVars, Pending, Position
  <1>3. \A i \in 1 .. count : Pending[i] # NoTask
    <2>1. Pending \in Seq(Tasks) /\ Len(Pending) = count
      BY PendingIsSequence
    <2> QED
      BY <2>1, ElementOfSeq, PoolAssumption
  <1>4. OnceInv'
    BY <1>1, <1>2, <1>3 DEF OnceInv
  <1>5. \A v \in Workers : v # w => task[v] # task[w]
    BY <1>1 DEF OnceInv
  <1>6. Running' = Running \ {task[w]} /\ task[w] \in Running
    BY <1>1, <1>5 DEF Running
  <1> QED
    BY <1>1, <1>2, <1>4, <1>6

(* Before the first post nothing is pending. *)
LEMMA OnceInit == Init => OnceInv
  BY DEF Init, OnceInv

(* Every step keeps each task in one place. *)
LEMMA OnceStep == PoolInv /\ OnceInv /\ [Next]_vars => OnceInv'
  BY OtherStepsQuiet, QuietKeeps, PostKeepsOnce, TakeKeepsOnce, RunKeepsOnce

(* Every step of the pool is a step of the service or invisible to it. *)
LEMMA ServiceStep ==
    ASSUME PoolInv, OnceInv, [Next]_vars
    PROVE  [Service!ServiceNext]_(Service!serviceVars)
  <1>1. closed \in BOOLEAN
    BY DEF PoolInv, TypeOK
  <1>2. ASSUME NEW p \in Posters, NEW t \in Tasks, PostAccepted(p, t)
        PROVE  Service!Accept(t)
    <2>1. /\ Pending' = Append(Pending, t) /\ Len(Pending) = count /\ count < QueueSize
      BY <1>2, PostAppends
    <2>2. Running' = Running /\ finished' = finished /\ closed' = closed /\ ~closed
      BY <1>2, PostKeepsOnce DEF PostAccepted
    <2>3. /\ \A i \in 1 .. count : Pending[i] # t
          /\ t \notin finished /\ t \notin Running
      BY <1>2, NotKnown DEF PostAccepted
    <2>4. ~Service!InPending(t)
      BY <2>1, <2>3 DEF Service!InPending
    <2>5. UNCHANGED <<Running, finished, ~closed>>
      BY <2>2
    <2> QED
      BY <2>1, <2>2, <2>3, <2>4, <2>5 DEF Service!Accept
  <1>3. ASSUME NEW w \in Workers, WorkerTakes(w)
        PROVE  Service!Take
    <2>1. Pending # <<>> /\ Pending' = Tail(Pending)
      BY <1>3, TakePops
    <2>2. Running' = Running \cup {Head(Pending)}
      BY <1>3, TakeKeepsOnce
    <2>3. ~closed /\ closed' = closed /\ finished' = finished
      BY <1>3 DEF WorkerTakes, MayTake
    <2>4. UNCHANGED <<finished, ~closed>>
      BY <2>3
    <2> QED
      BY <2>1, <2>2, <2>3, <2>4 DEF Service!Take
  <1>4. ASSUME NEW w \in Workers, WorkerRuns(w)
        PROVE  \E t \in Tasks : Service!Finish(t)
    <2>1. /\ Pending' = Pending /\ task[w] \in Running /\ task[w] \in Tasks
          /\ Running' = Running \ {task[w]}
      BY <1>4, RunKeepsOnce
    <2>2. finished' = finished \cup {task[w]} /\ closed' = closed
      BY <1>4 DEF WorkerRuns
    <2>3. UNCHANGED <<Pending, ~closed>>
      BY <2>1, <2>2
    <2>4. Service!Finish(task[w])
      BY <2>1, <2>2, <2>3 DEF Service!Finish
    <2> QED
      BY <2>1, <2>4
  <1>5. ASSUME Quiet, closed' = closed
        PROVE  UNCHANGED Service!serviceVars
    <2>1. Pending' = Pending /\ Running' = Running /\ finished' = finished
      BY <1>5, QuietKeeps DEF Quiet
    <2> QED
      BY <1>5, <2>1 DEF Service!serviceVars
  <1>6. ASSUME Quiet, ~closed, closed' = TRUE
        PROVE  Service!Close
    <2>1. UNCHANGED <<Pending, Running, finished>>
      BY <1>6, QuietKeeps DEF Quiet
    <2>2. (~closed)' = FALSE
      BY <1>6
    <2> QED
      BY <1>6, <2>1, <2>2 DEF Service!Close
  <1> QED
    BY <1>2, <1>3, <1>4, <1>5, <1>6, OtherStepsQuiet DEF Service!ServiceNext

(* The pool implements TaskService, for every number of threads and every  *)
(* queue size: through all wraps of the circular buffer accepted tasks     *)
(* stay in order, none is lost, repeated or given to two workers, and a    *)
(* closed pool hands out nothing.                                          *)
THEOREM PoolImplementsService == Spec => ImplementsService
  <1>1. Init => Service!ServiceInit
    <2> SUFFICES ASSUME Init PROVE Service!ServiceInit
      OBVIOUS
    <2>1. count = 0 /\ finished = {} /\ closed = FALSE
      BY DEF Init
    <2>2. Pending = <<>>
      BY <2>1 DEF Pending
    <2>3. Running = {}
      BY DEF Init, Running
    <2> QED
      BY <2>1, <2>2, <2>3 DEF Service!ServiceInit
  <1>2. PoolInv /\ OnceInv /\ [Next]_vars => [Service!ServiceNext]_(Service!serviceVars)
    BY ServiceStep
  <1>3. Spec => [](PoolInv /\ OnceInv)
    <2>1. PoolInv /\ [Next]_vars /\ OnceInv => OnceInv'
      BY OnceStep
    <2> QED
      BY <2>1, OnceInit, PoolInvariant, PTL DEF Spec
  <1> QED
    BY <1>1, <1>2, <1>3, PTL DEF Spec, ImplementsService, Service!ServiceSpec
=============================================================================
