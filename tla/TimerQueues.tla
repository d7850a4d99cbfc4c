----------------------------- MODULE TimerQueues -----------------------------
(***************************************************************************)
(* The four timers that are driven by an event loop: mh-timer.h on the     *)
(* heap, skl-timer.c on the skip list, rbt-timer.h on the red-black tree   *)
(* and timer.cc on a std::set.  kind says which one is running.  The loop  *)
(* sleeps until the nearest timer, handles events (whose handlers add and  *)
(* delete timers) and runs what has expired; a timer's handler may add     *)
(* timers too, as do_timer of tw-timer.c does.                             *)
(***************************************************************************)
EXTENDS Integers, FiniteSets

CONSTANTS Timers,      \* identities of nodes, 1 .. n, in the order of allocation
          Delays,      \* msec arguments of add_timer
          Start, MaxClock,  \* first and last millisecond of the model's clock
          Modulus,     \* width of current_time: 2^32
          MaxLevel,    \* levels of the skip list
          Kinds        \* the implementations to run

VARIABLES kind, q,     \* the implementation and its data structure
          clock,       \* milliseconds, not cut to 32 bits
          pc,          \* "events", "scan", "handler" or "sleep"
          now, wake,   \* expire_timer's reading of the clock; end of the sleep
          cur,         \* the node whose handler runs, 0 if none
          due,         \* the millisecond a timer was asked for
          live,        \* timers added, not deleted, not run
          ran,         \* times each timer has run
          early,       \* a timer ran before it was due
          tied,        \* two queued timers had the same time
          freed        \* the structure holds a freed node: undefined from here

vars == <<kind, q, clock, pc, now, wake, cur, due, live, ran, early, tied, freed>>

H == INSTANCE MinHeap
S == INSTANCE SkipList
R == INSTANCE NgxRbTree

-----------------------------------------------------------------------------
\* mh-timer.h: the heap of timer_entry_t, ordered by time.
mh_add_timer(h, t, time) == H!Push([h EXCEPT !.time[t] = time], t)
mh_del_timer(h, t) == H!Erase(h, t)
mh_expired(h) == H!Pop(h)     \* after the handler: whatever is on top

\* skl-timer.c: the list; score is the time.
skl_add_timer(z, t, time, level) == S!zslInsert(z, t, time, level)
skl_del_timer(z, t) == S!zslDelete(z, t)
skl_expired(z) == S!zslDeleteHead(z)

\* rbt-timer.h: the tree; key is the time.
rbt_add_timer(r, t, time) == R!ngx_rbtree_insert(r, t, time)
rbt_del_timer(r, t) == R!ngx_rbtree_delete(r, t)
\* Mutant: the first node is deleted, not the one whose handler ran.
rbt_expired_first(r, t) == R!ngx_rbtree_delete(r, R!ngx_rbtree_min(r, r.root))
rbt_expired(r, t) == R!ngx_rbtree_delete(r, t)    \* the node whose handler ran
rbt_first(r) == IF r.root = R!Nil THEN 0 ELSE R!ngx_rbtree_min(r, r.root)

\* Mutant: the set is ordered by id.
BeforeById(t, u) == t <= u

\* timer.cc: the set, ordered by expire, then by id.
Before(t, u) == due[t] < due[u] \/ (due[t] = due[u] /\ t <= u)
Begin(set) == CHOOSE t \in set : \A u \in set : Before(t, u)
DelTimerNode(set, t) == set \ {t}
CheckTimer(set, t) == set \ {t}                   \* erase(iter) after func

-----------------------------------------------------------------------------
\* The time the C timers store and read: uint32_t; timer.cc uses time_t.
current_time(c) == c % Modulus
GetTick(c) == c

Stored(d) == IF kind = "set" THEN GetTick(d) ELSE current_time(d)

Queued == CASE kind = "heap" -> H!HeapContents(q)
            [] kind = "skip" -> S!SkipContents(q)
            [] kind = "tree" -> R!TreeContents(q)
            [] kind = "set"  -> q

\* The timer that is looked at next; 0 if there is none.
First == CASE kind = "heap" -> H!Top(q)
           [] kind = "skip" -> S!zslMin(q)
           [] kind = "tree" -> rbt_first(q)
           [] kind = "set"  -> IF q = {} THEN 0 ELSE Begin(q)

Init ==
  /\ kind \in Kinds
  /\ q = CASE kind = "heap" -> H!EmptyHeap(Timers)
           [] kind = "skip" -> S!zslCreate(Timers)
           [] kind = "tree" -> R!ngx_rbtree_init(Timers)
           [] kind = "set"  -> {}
  /\ clock = Start /\ pc = "events" /\ now = 0 /\ wake = 0 /\ cur = 0
  /\ due = [t \in Timers |-> 0] /\ live = {} /\ ran = [t \in Timers |-> 0]
  /\ early = FALSE /\ tied = FALSE /\ freed = FALSE

Fresh == {t \in Timers : t \notin live /\ due[t] = 0 /\ ran[t] = 0}

\* add_timer by an event handler or by a timer's handler.
AddTimer(d, level) ==
  LET t == CHOOSE x \in Fresh : \A y \in Fresh : x <= y
      time == Stored(clock + d)
  IN /\ pc \in {"events", "handler"} /\ ~freed /\ Fresh # {}
     /\ level > 1 => kind = "skip"
     /\ q' = CASE kind = "heap" -> mh_add_timer(q, t, time)
               [] kind = "skip" -> skl_add_timer(q, t, time, level)
               [] kind = "tree" -> rbt_add_timer(q, t, time)
               [] kind = "set"  -> q \cup {t}
     /\ due' = [due EXCEPT ![t] = clock + d]
     /\ live' = live \cup {t}
     /\ tied' = (tied \/ \E u \in Queued : Stored(due[u]) = time)
     /\ UNCHANGED <<kind, clock, pc, now, wake, cur, ran, early, freed>>

\* del_timer of a timer that is queued and whose handler is not running.
DelTimer(t) ==
  /\ pc \in {"events", "handler"} /\ ~freed /\ t \in (live \cap Queued) \ {cur}
  /\ q' = CASE kind = "heap" -> mh_del_timer(q, t)
            [] kind = "skip" -> skl_del_timer(q, t)
            [] kind = "tree" -> rbt_del_timer(q, t)
            [] kind = "set"  -> DelTimerNode(q, t)
  /\ live' = live \ {t}
  /\ UNCHANGED <<kind, clock, pc, now, wake, cur, due, ran, early, tied, freed>>

\* expire_timer reads the clock; CheckTimer of timer.cc reads it for every timer.
ExpireBegins ==
  /\ pc = "events" /\ ~freed
  /\ pc' = "scan" /\ now' = clock
  /\ UNCHANGED <<kind, q, clock, wake, cur, due, live, ran, early, tied, freed>>

\* The comparison of the first timer with the clock, on the stored values.
Expired ==
  First # 0 /\ Stored(due[First]) <= IF kind = "set" THEN clock ELSE now % Modulus

CallHandler ==
  /\ pc = "scan" /\ ~freed /\ Expired
  /\ pc' = "handler" /\ cur' = First
  /\ ran' = [ran EXCEPT ![First] = @ + 1]
  /\ early' = (early \/ clock < due[First])
  /\ UNCHANGED <<kind, q, clock, now, wake, due, live, tied, freed>>

\* The heap and the list remove the first node, the others the one that ran.
Removed ==
  CASE kind = "heap" -> mh_expired(q)
    [] kind = "skip" -> skl_expired(q)
    [] kind = "tree" -> rbt_expired(q, cur)
    [] kind = "set"  -> CheckTimer(q, cur)

HandlerReturns ==
  /\ pc = "handler" /\ ~freed
  /\ q' = Removed
  /\ live' = live \ {cur}
  /\ freed' = (kind = "heap" /\ cur \in H!HeapContents(Removed))
  /\ pc' = "scan" /\ cur' = 0
  /\ UNCHANGED <<kind, clock, now, wake, due, ran, early, tied>>

\* (int) te->time - (int) current_time(): the 32-bit difference as an int.
find_nearest_expire_timer ==
  LET u == (Stored(due[First]) - Stored(clock)) % Modulus
      diff == IF u >= Modulus \div 2 THEN u - Modulus ELSE u
  IN IF diff > 0 THEN diff ELSE 0

TimeToSleep == IF due[First] > clock THEN due[First] - clock ELSE 0

\* The end of the sleep: epoll_wait with the nearest timer's delay, for ever
\* if there is none; usleep in the loop of the skip list.
epoll_timeout == IF First = 0 THEN MaxClock + 1 ELSE clock + find_nearest_expire_timer
set_timeout == IF First = 0 THEN MaxClock + 1 ELSE clock + TimeToSleep
usleep_end == clock + 1

Sleep ==
  /\ pc = "scan" /\ ~freed /\ ~Expired
  /\ pc' = "sleep"
  /\ wake' = CASE kind = "skip" -> usleep_end
               [] kind = "set"  -> set_timeout
               [] OTHER -> epoll_timeout
  /\ UNCHANGED <<kind, q, clock, now, cur, due, live, ran, early, tied, freed>>

\* The time-out, or an event before it.
WakeUp ==
  /\ pc = "sleep"
  /\ pc' = "events" /\ now' = 0 /\ wake' = 0
  /\ UNCHANGED <<kind, q, clock, cur, due, live, ran, early, tied, freed>>

\* Time passes; epoll_wait returns in the millisecond of its time-out.
Tick ==
  /\ clock < MaxClock
  /\ pc = "sleep" => clock < wake
  /\ clock' = clock + 1
  /\ UNCHANGED <<kind, q, pc, now, wake, cur, due, live, ran, early, tied, freed>>

\* What follows the use of a freed node is not modelled.
Undefined == freed /\ UNCHANGED vars

Next ==
  \/ \E d \in Delays, level \in 1 .. MaxLevel : AddTimer(d, level)
  \/ \E t \in Timers : DelTimer(t)
  \/ ExpireBegins \/ CallHandler \/ HandlerReturns \/ Sleep \/ WakeUp \/ Tick \/ Undefined

Spec == Init /\ [][Next]_vars

\* No stored time has wrapped past 2^32.
NoWrap == kind = "set" \/ (clock < Modulus /\ \A t \in Timers : due[t] < Modulus)

\* The queue holds exactly the timers that were added and neither deleted nor
\* run, and none ran twice.  The tree and the set promise it always, the heap
\* unless a stored time wraps (a handler's new timer may then come before the
\* one running, and is popped in its place), the skip list only if it never
\* holds two timers of one millisecond: zslDelete and zslDeleteHead take the
\* first of them for the one meant.
LiveAreQueued ==
  \/ kind = "heap" /\ ~NoWrap
  \/ kind = "skip" /\ (tied \/ ~NoWrap)
  \/ Queued = live /\ \A t \in Timers : ran[t] <= 1

\* As long as no 32-bit time wraps, no timer runs before the millisecond it was
\* asked for, none that was due when expire_timer read the clock is left when
\* the loop goes to sleep, and the sleep ends no later than the nearest timer.
RunsInTime ==
  NoWrap /\ ~(kind = "skip" /\ tied) =>
     /\ ~early
     /\ pc = "sleep" => \A t \in live : due[t] > now
     /\ pc = "sleep" /\ kind # "skip" => \A t \in live : wake <= due[t] \/ wake <= clock
=============================================================================
