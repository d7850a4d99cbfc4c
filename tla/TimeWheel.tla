------------------------------ MODULE TimeWheel ------------------------------
(***************************************************************************)
(* The hierarchical timing wheel of 2207-timers/timewheel.c: a near wheel  *)
(* with one slot per tick, four coarser levels whose slots are moved down  *)
(* when the time reaches them, and a 32-bit time that wraps.  One thread   *)
(* calls expire_timer; any thread adds and deletes timers.                 *)
(*                                                                         *)
(* A node is its address: malloc reuses freed nodes, and add_timer does    *)
(* not initialise node->cancel, so a node keeps the byte its predecessor   *)
(* left.  The order of nodes within one slot is abstracted.  What runs     *)
(* under the spinlock is one step; callbacks run without it, so what they  *)
(* do (add_timer) is what any thread may do at that moment.                *)
(***************************************************************************)
EXTENDS Integers, FiniteSets

CONSTANTS Near,         \* TIME_NEAR, 1 << TIME_NEAR_SHIFT (256)
          LevelSize,    \* TIME_LEVEL, 1 << TIME_LEVEL_SHIFT (64)
          Nodes,        \* addresses malloc can return
          Delays,       \* the delays add_timer is called with
          MaxTicks      \* bound: calls of timer_update

(* One slot of level l is 1 << (TIME_NEAR_SHIFT + l * TIME_LEVEL_SHIFT)    *)
(* ticks.  Shifts and masks of the code are \div and % by these sizes.     *)
Unit(l) ==
    CASE l = 0 -> Near
      [] l = 1 -> Near * LevelSize
      [] l = 2 -> Near * LevelSize * LevelSize
      [] l = 3 -> Near * LevelSize * LevelSize * LevelSize
      [] l = 4 -> Near * LevelSize * LevelSize * LevelSize * LevelSize

(* The width of the time: 32 = 8 + 4 * 6 bits, so the levels fill it. *)
Wrap == Unit(4)

(* The delay is a positive int, the time an unsigned one of the same width.*)
ASSUME WheelAssumption ==
    /\ Near \in Nat \ {0, 1} /\ LevelSize \in Nat \ {0, 1}
    /\ MaxTicks \in Nat
    /\ Delays \subseteq 1 .. Wrap \div 2 - 1

VARIABLES time,     \* T->time
          where,    \* of each node: its slot, InList while dispatched, or InHeap
          expire,   \* node->expire
          cancel,   \* node->cancel
          pcU,      \* the thread in expire_timer
          ticks,    \* history: calls of timer_update, that is, the time that does not wrap
          due       \* history: the tick for which the node was set

vars == <<time, where, expire, cancel, pcU, ticks, due>>
nodes == <<expire, cancel, due>>

Slot(l, i) == [level |-> l, idx |-> i]
Places == [level : {-1}, idx : 0 .. Near - 1] \cup [level : 0 .. 3, idx : 0 .. LevelSize - 1]
InList == Slot(-2, 0)    \* taken off the wheel, in dispatch_list
InHeap == Slot(-3, 0)    \* freed, or not allocated yet

Queued == {n \in Nodes : where[n] \in Places}
Dispatched == {n \in Nodes : where[n] = InList}
Free == {n \in Nodes : where[n] = InHeap}

Init ==
    /\ time = 0
    /\ where = [n \in Nodes |-> InHeap]
    /\ expire = [n \in Nodes |-> 0]
    /\ cancel = [n \in Nodes |-> FALSE]
    /\ pcU = "idle"
    /\ ticks = 0
    /\ due = [n \in Nodes |-> 0]

-----------------------------------------------------------------------------
(* Mutant: the boundaries of the levels are taken as included. *)
LevelOfInclusive(msec) ==
    IF msec <= Near THEN -1
    ELSE IF \E l \in 0 .. 2 : msec <= Unit(l + 1)
         THEN CHOOSE l \in 0 .. 2 : msec <= Unit(l + 1) /\ (l > 0 => msec > Unit(l))
         ELSE 3

(* The ranges of add_node: [0, 0x100), [0x100, 0x4000), [0x4000, 0x100000),*)
(* [0x100000, 0x4000000) and the rest; -1 is the near wheel.               *)
LevelOf(msec) ==
    IF msec < Near THEN -1
    ELSE IF \E l \in 0 .. 2 : msec < Unit(l + 1)
         THEN CHOOSE l \in 0 .. 2 : msec < Unit(l + 1) /\ (l > 0 => msec >= Unit(l))
         ELSE 3

(* add_node: the slot for a node with this expire at this time. *)
AddNode(exp, now) ==
    LET l == LevelOf((exp - now) % Wrap)
    IN  IF l = -1 THEN Slot(-1, exp % Near)
                  ELSE Slot(l, (exp \div Unit(l)) % LevelSize)

(* node->expire = time + TI->time, unsigned. *)
Expire(delay) == (time + delay) % Wrap

(* add_timer: a node from malloc, whose cancel byte is whatever it was.    *)
(* A delay of zero is left out: it runs the callback at once in the        *)
(* calling thread and leaves no trace on the wheel.                        *)
AddTimer(n, delay) ==
    /\ n \in Free
    /\ expire' = [expire EXCEPT ![n] = Expire(delay)]
    /\ where' = [where EXCEPT ![n] = AddNode(Expire(delay), time)]
    /\ due' = [due EXCEPT ![n] = ticks + delay]
    /\ UNCHANGED <<time, cancel, pcU, ticks>>

(* del_timer, without the lock, on a timer that has not been freed. *)
DelTimer(n) ==
    /\ n \notin Free
    /\ cancel' = [cancel EXCEPT ![n] = TRUE]
    /\ UNCHANGED <<time, where, expire, pcU, ticks, due>>

-----------------------------------------------------------------------------
(* The clock has advanced by a tick: timer_update takes the lock. *)
UpdateBegins ==
    /\ pcU = "idle" /\ ticks < MaxTicks
    /\ pcU' = "before"
    /\ UNCHANGED <<time, where, nodes, ticks>>

NearSlot == Slot(-1, time % Near)
DueNodes == {n \in Nodes : where[n] = NearSlot}

(* timer_execute: take the slot of the current time off the wheel and      *)
(* dispatch it without the lock; pcU tells the two calls apart.            *)
ExecuteTakes ==
    /\ pcU \in {"before", "after"} /\ DueNodes # {} /\ Dispatched = {}
    /\ where' = [n \in Nodes |-> IF n \in DueNodes THEN InList ELSE where[n]]
    /\ UNCHANGED <<time, nodes, pcU, ticks>>

(* dispatch_list: one node after the other is called, unless cancelled,    *)
(* and freed: of its content only the cancel byte will be read again.      *)
Dispatch(n) ==
    /\ n \in Dispatched
    /\ where' = [where EXCEPT ![n] = InHeap]
    /\ expire' = [expire EXCEPT ![n] = 0]
    /\ due' = [due EXCEPT ![n] = 0]
    /\ UNCHANGED <<time, cancel, pcU, ticks>>

(* Mutant: a slot is moved down one unit late. *)
ShiftedLate(ct) ==
    {Slot(l, ((ct \div Unit(l)) - 1) % LevelSize) :
        l \in {i \in 0 .. 3 : ct % Unit(i) = 0}}

(* timer_shift: the slots whose nodes are moved down when the time becomes *)
(* ct.  The loop goes up the levels as long as ct is a multiple of their   *)
(* unit and stops at the first slot number that is not zero.               *)
Shifted(ct) ==
    IF ct = 0 THEN {Slot(3, 0)}
    ELSE {Slot(l, (ct \div Unit(l)) % LevelSize) :
             l \in {i \in 0 .. 3 : ct % Unit(i) = 0 /\ (ct \div Unit(i)) % LevelSize # 0}}

(* timer_shift and move_list. *)
TimerShift ==
    /\ pcU = "before" /\ DueNodes = {} /\ Dispatched = {}
    /\ LET ct == (time + 1) % Wrap
       IN  /\ time' = ct
           /\ where' = [n \in Nodes |-> IF where[n] \in Shifted(ct)
                                        THEN AddNode(expire[n], ct) ELSE where[n]]
    /\ ticks' = ticks + 1
    /\ pcU' = "after"
    /\ UNCHANGED nodes

UpdateEnds ==
    /\ pcU = "after" /\ DueNodes = {} /\ Dispatched = {}
    /\ pcU' = "idle"
    /\ UNCHANGED <<time, where, nodes, ticks>>

(* clear_timer, at the end of the program: every node is freed. *)
ClearTimer ==
    /\ pcU = "idle" /\ ticks = MaxTicks
    /\ where' = [n \in Nodes |-> IF n \in Queued THEN InHeap ELSE where[n]]
    /\ pcU' = "cleared"
    /\ UNCHANGED <<time, nodes, ticks>>

Finished == pcU = "cleared" /\ UNCHANGED vars

Next ==
    \/ /\ pcU # "cleared"
       /\ \E n \in Nodes : \/ \E d \in Delays : AddTimer(n, d)
                           \/ DelTimer(n) \/ Dispatch(n)
    \/ UpdateBegins \/ ExecuteTakes \/ TimerShift \/ UpdateEnds \/ ClearTimer \/ Finished

Spec == Init /\ [][Next]_vars

-----------------------------------------------------------------------------
(* Properties. *)

(* Every piece of state has its type; the time and every expire fit the    *)
(* unsigned width.                                                         *)
TypeOK ==
    /\ time \in 0 .. Wrap - 1
    /\ where \in [Nodes -> Places \cup {InList, InHeap}]
    /\ expire \in [Nodes -> 0 .. Wrap - 1]
    /\ cancel \in [Nodes -> BOOLEAN]
    /\ pcU \in {"idle", "before", "after", "cleared"}
    /\ ticks \in 0 .. MaxTicks
    /\ due \in [Nodes -> Nat]

(* A timer is dispatched in exactly the tick for which it was set, across  *)
(* every level and across the wrap of the time.                            *)
FiresOnTime == \A n \in Dispatched : due[n] = ticks

(* What the wheel promises while time has its width: a timer is dispatched *)
(* in exactly the tick timer_execute reached it for, on every level and    *)
(* over the wrap of T->time, and its state stays within its types.         *)
WheelOnTime == TypeOK /\ FiresOnTime

(* The only timers that miss their tick are those that add_node has put    *)
(* into slot 0 of one of the three lower levels.                           *)
OnlySlotZeroStrands ==
    \A n \in Queued : due[n] < ticks => where[n] \in {Slot(l, 0) : l \in 0 .. 2}

(* What the ranges in the comments of add_node say: a timer with a delay   *)
(* in the range of a level is served by that level, that is, it does not   *)
(* stay on the wheel beyond its tick.                                      *)
NoneStranded == \A n \in Queued : due[n] >= ticks
=============================================================================
