--------------------------- MODULE DeadlockDetect ---------------------------
(***************************************************************************)
(* The deadlock detector of "4. .../deadlock_success.c" (its graph is also *)
(* in graph.c): pthread_mutex_lock and pthread_mutex_unlock are replaced   *)
(* by wrappers that record, in tg->locklist, which thread holds which      *)
(* mutex and, as edges of a graph of threads, who waits for whom; a thread *)
(* of its own looks for cycles.                                            *)
(*                                                                         *)
(* Nothing protects the list and the graph (tg->mutex is never used), so   *)
(* the parts of the wrappers interleave: before, the real lock, the search *)
(* and the record of after; the real unlock and its after.  Behaviours     *)
(* without overlap are those in which a wrapper is never entered while     *)
(* another thread is inside one and not blocked; the sleeps of the debug   *)
(* main aim at that.                                                       *)
(***************************************************************************)
EXTENDS Integers, Sequences, FiniteSets, SequencesExt

CONSTANTS Threads, Locks,
          Programs,   \* what threads do: functions from threads to sequences
                      \* of calls [op : {"lock", "unlock"}, lock : Locks]
          Overlaps,   \* TRUE in it: wrappers may overlap; FALSE: they may not
          Garbage,    \* what malloc may leave in the entries of locklist
          MaxSlots,   \* MAX, the size of locklist
          Nobody,     \* 0, and as an id any that is no thread's
          Other       \* a lock_id that is not 0 and is no mutex

ASSUME DetectAssumption ==
    /\ Overlaps \subseteq BOOLEAN
    /\ \A g \in Garbage : g.id \in Threads \cup {Nobody} /\ g.degress \in Int
                         /\ g.lock \in Locks \cup {Nobody, Other}
    /\ MaxSlots \in Nat \ {0}
    /\ Nobody \notin Threads \cup Locks \cup {Other} /\ Other \notin Locks
    /\ \A p \in Programs : p \in [Threads -> Seq([op : {"lock", "unlock"}, lock : Locks])]

VARIABLES program, overlap,   \* chosen at the beginning
          left,               \* what malloc left, in every entry of locklist
          pc,                 \* calls each thread has completed
          phase, slot,        \* where it is in its call, the local eidx
          owner,              \* who really holds a mutex
          locklist, lockidx,  \* tg->locklist: [id, lock, degress]
          edges               \* tg->list: successors of each thread, in list order

vars == <<program, overlap, left, pc, phase, slot, owner, locklist, lockidx, edges>>
given == <<program, overlap, left>>
graph == <<locklist, lockidx, edges>>

Vertices == Threads \cup {Nobody}

Init ==
    /\ program \in Programs /\ overlap \in Overlaps
    /\ pc = [t \in Threads |-> 0]
    /\ phase = [t \in Threads |-> "run"]
    /\ slot = [t \in Threads |-> 0]
    /\ owner = [l \in Locks |-> Nobody]
    /\ left \in Garbage
    /\ locklist = [i \in 1 .. MaxSlots |-> left]
    /\ lockidx = 0
    /\ edges = [v \in Vertices |-> <<>>]

-----------------------------------------------------------------------------
(* The graph. *)

(* In a list of successors of from.  verify_edge starts at the vertex      *)
(* itself, so a thread always "has" an edge to itself.                     *)
VerifyEdge(from, list, to) == from = to \/ to \in ToSet(list)

AddEdge(list, to) == Append(list, to)

RemoveEdge(from, to) == [edges EXCEPT ![from] = RemoveFirst(@, to)]

(* Mutant: the successors of a new vertex are not visited. *)
DfsOneLevel(v, s) == [visited |-> s.visited \cup {v}, deadlock |-> v \in s.visited]

(* DFS: a vertex that is met again sets the flag; visited is not cleared   *)
(* on the way back.                                                        *)
RECURSIVE DFS(_, _)
DFS(v, s) ==
    IF v \in s.visited
    THEN [s EXCEPT !.deadlock = TRUE]
    ELSE FoldLeft(LAMBDA a, w : DFS(w, a), [s EXCEPT !.visited = @ \cup {v}], edges[v])

(* visited is cleared, but for the start, before each of its successors. *)
SearchForCycle(v) ==
    \E w \in ToSet(edges[v]) : DFS(w, [visited |-> {v}, deadlock |-> FALSE]).deadlock

(* FALSE: check_dead_lock prints "no deadlock". *)
CheckDeadLock == \E v \in Vertices : SearchForCycle(v)

-----------------------------------------------------------------------------
(* The lock list. *)

(* search_lock, 0 for -1. *)
SearchLock(l) == SelectInSubSeq(locklist, 1, lockidx, LAMBDA e : e.lock = l)

(* search_empty_lock: a cleared entry, or the next new one. *)
SearchEmptyLock ==
    LET i == SelectInSubSeq(locklist, 1, lockidx, LAMBDA e : e.lock = Nobody)
    IN  IF i = 0 THEN lockidx + 1 ELSE i

-----------------------------------------------------------------------------
(* The wrappers. *)

Call(t) == program[t][pc[t] + 1]
HasCall(t, op) == pc[t] < Len(program[t]) /\ Call(t).op = op

(* t is in a wrapper, and not waiting for a mutex somebody holds. *)
Underway(t) ==
    \/ phase[t] \in {"after", "record", "unlocked"}
    \/ phase[t] = "acquire" /\ owner[Call(t).lock] = Nobody

MayEnter(t) == overlap \/ \A u \in Threads \ {t} : ~Underway(u)

(* A thread whose mutex was released goes on when no other is in its after. *)
MayGoOn(t) ==
    overlap \/ \A u \in Threads \ {t} : phase[u] \notin {"after", "record", "unlocked"}

Returns(t) ==
    /\ pc' = [pc EXCEPT ![t] = @ + 1]
    /\ phase' = [phase EXCEPT ![t] = "run"]

(* lock_before: an edge to the holder in every entry of the mutex. *)
LockBefore(t) ==
    /\ phase[t] = "run" /\ HasCall(t, "lock") /\ MayEnter(t)
    /\ LET found == {i \in 1 .. lockidx : locklist[i].lock = Call(t).lock}
           add(list, i) == IF VerifyEdge(t, list, locklist[i].id)
                           THEN list ELSE AddEdge(list, locklist[i].id)
       IN  /\ locklist' = [i \in 1 .. MaxSlots |->
                  IF i \in found THEN [locklist[i] EXCEPT !.degress = @ + 1] ELSE locklist[i]]
           /\ edges' = [edges EXCEPT ![t] =
                  FoldLeft(add, @, SetToSortSeq(found, LAMBDA i, j : i < j))]
    /\ phase' = [phase EXCEPT ![t] = "acquire"]
    /\ UNCHANGED <<given, pc, slot, owner, lockidx>>

(* pthread_mutex_lock_f: waits until the mutex is free. *)
Acquire(t) ==
    /\ phase[t] = "acquire" /\ owner[Call(t).lock] = Nobody /\ MayGoOn(t)
    /\ owner' = [owner EXCEPT ![Call(t).lock] = t]
    /\ phase' = [phase EXCEPT ![t] = "after"]
    /\ UNCHANGED <<given, pc, slot, graph>>

(* lock_after, the mutex is not in the list: a place for it. *)
LockAfterSearches(t) ==
    /\ phase[t] = "after" /\ SearchLock(Call(t).lock) = 0
    /\ slot' = [slot EXCEPT ![t] = SearchEmptyLock]
    /\ phase' = [phase EXCEPT ![t] = "record"]
    /\ UNCHANGED <<given, pc, owner, graph>>

(* The holder is written there.  lockidx grows whichever place it was. *)
LockAfterRecords(t) ==
    /\ phase[t] = "record"
    /\ locklist' = [locklist EXCEPT ![slot[t]].id = t, ![slot[t]].lock = Call(t).lock]
    /\ lockidx' = lockidx + 1
    /\ slot' = [slot EXCEPT ![t] = 0]
    /\ Returns(t)
    /\ UNCHANGED <<given, owner, edges>>


EdgeDropped(t, holder) == RemoveEdge(t, holder)

(* lock_after, the mutex is in the list: no longer waiting, the new holder. *)
LockAfterTakesOver(t) ==
    LET i == SearchLock(Call(t).lock)
    IN  /\ phase[t] = "after" /\ i # 0
        /\ edges' = EdgeDropped(t, locklist[i].id)
        /\ locklist' = [locklist EXCEPT ![i].degress = @ - 1, ![i].id = t]
        /\ Returns(t)
        /\ UNCHANGED <<given, slot, owner, lockidx>>

(* pthread_mutex_unlock_f. *)
Unlock(t) ==
    /\ phase[t] = "run" /\ HasCall(t, "unlock") /\ MayEnter(t)
    /\ owner' = [owner EXCEPT ![Call(t).lock] = Nobody]
    /\ phase' = [phase EXCEPT ![t] = "unlocked"]
    /\ UNCHANGED <<given, pc, slot, graph>>

(* unlock_after: the entry is cleared if nobody is counted as waiting.     *)
(* Without an entry the code looks at locklist[-1], whose degress field is *)
(* tg->num: at most the unused end of tg->list is set to zero.             *)
UnlockAfter(t) ==
    LET i == SearchLock(Call(t).lock)
    IN  /\ phase[t] = "unlocked"
        /\ locklist' = IF i # 0 /\ locklist[i].degress = 0
                       THEN [locklist EXCEPT ![i].id = Nobody, ![i].lock = Nobody]
                       ELSE locklist
        /\ Returns(t)
        /\ UNCHANGED <<given, slot, owner, lockidx, edges>>

Next == \E t \in Threads :
            \/ LockBefore(t) \/ Acquire(t)
            \/ LockAfterSearches(t) \/ LockAfterRecords(t) \/ LockAfterTakesOver(t)
            \/ Unlock(t) \/ UnlockAfter(t)

Spec == Init /\ [][Next]_vars

-----------------------------------------------------------------------------
(* Properties. *)

(* The state has its type; a mutex has at most one entry in the list even  *)
(* when wrappers overlap, unless malloc left it in entries nobody wrote.   *)
TypeOK ==
    /\ pc \in [Threads -> Nat]
    /\ phase \in [Threads -> {"run", "acquire", "after", "record", "unlocked"}]
    /\ slot \in [Threads -> 0 .. MaxSlots]
    /\ owner \in [Locks -> Threads \cup {Nobody}]
    /\ lockidx \in 0 .. MaxSlots
    /\ \A i \in 1 .. MaxSlots : /\ locklist[i].id \in Vertices
                                /\ locklist[i].lock \in Locks \cup {Nobody, Other}
                                /\ locklist[i].degress \in Int
    /\ \A i, j \in 1 .. lockidx :
           locklist[i].lock = locklist[j].lock
               => i = j \/ locklist[i].lock \in {Nobody, left.lock}
    /\ edges \in [Vertices -> Seq(Vertices)]

(* In a finite graph a cycle exists iff there is a set of vertices each of *)
(* which has a successor in the set.                                       *)
Cyclic(succ) == \E c \in SUBSET DOMAIN succ \ {{}} : \A t \in c : succ[t] \cap c # {}

(* The search finds every cycle of the graph, from whatever vertex and     *)
(* with whatever dead ends on the way, and reports nothing else as long as *)
(* no thread has two successors; the lists it works on keep their form.    *)
SearchIsRight ==
    /\ TypeOK
    /\ Cyclic([v \in Vertices |-> ToSet(edges[v])]) => CheckDeadLock
    /\ CheckDeadLock /\ (\A t \in Threads : Len(edges[t]) <= 1)
          => Cyclic([v \in Vertices |-> ToSet(edges[v])])

WaitsFor(t) ==
    IF phase[t] = "acquire" THEN {owner[Call(t).lock]} \ {Nobody} ELSE {}

Deadlocked == Cyclic([t \in Threads |-> WaitsFor(t)])

Users(l) == {t \in Threads : \E i \in DOMAIN program[t] : program[t][i].lock = l}

=============================================================================
