------------------------------ MODULE MinHeap ------------------------------
(***************************************************************************)
(* The binary heap of minheap.c.  A heap is a record: p maps the slots     *)
(* 0 .. n-1 to entries, a is the capacity of the array, and idx and time   *)
(* are the fields min_heap_idx and time of the entries.  Slots past n are  *)
(* dropped: no operation reads one it has not written.                     *)
(***************************************************************************)
EXTENDS Integers, TLC

EmptyHeap(Entries) ==
  [p |-> <<>>, n |-> 0, a |-> 0, idx |-> [e \in Entries |-> -1], time |-> [e \in Entries |-> 0]]

Greater(h, e, f) == h.time[e] > h.time[f]

Top(h) == IF h.n > 0 THEN h.p[0] ELSE 0          \* 0 is the null pointer

Up(i) == (i - 1) \div 2

\* (s->p[i] = e)->min_heap_idx = i
Put(h, i, e) == [h EXCEPT !.p = (i :> e) @@ @, !.idx[e] = i]

Trimmed(h) == [h EXCEPT !.p = [i \in 0 .. (h.n - 1) |-> h.p[i]]]

\* The capacity doubles, from 8; a failing realloc is not modelled.
Reserve(h, n) ==
  IF h.a < n THEN LET twice == IF h.a = 0 THEN 8 ELSE 2 * h.a
                  IN [h EXCEPT !.a = IF twice < n THEN n ELSE twice]
             ELSE h

RECURSIVE ShiftUp(_, _, _)
ShiftUp(h, hole, e) ==
  IF hole > 0 /\ Greater(h, h.p[Up(hole)], e)
  THEN ShiftUp(Put(h, hole, h.p[Up(hole)]), Up(hole), e)
  ELSE Put(h, hole, e)

\* do ... while: the first move is made without a comparison.
ShiftUpUnconditional(h, hole, e) == ShiftUp(Put(h, hole, h.p[Up(hole)]), Up(hole), e)

MinChild(h, hole) ==
  LET right == 2 * (hole + 1)
  IN IF right = h.n \/ Greater(h, h.p[right], h.p[right - 1]) THEN right - 1 ELSE right

RECURSIVE ShiftDown(_, _, _)
ShiftDown(h, hole, e) ==
  IF 2 * (hole + 1) <= h.n /\ Greater(h, e, h.p[MinChild(h, hole)])
  THEN ShiftDown(Put(h, hole, h.p[MinChild(h, hole)]), MinChild(h, hole), e)
  ELSE Put(h, hole, e)

Push(h, e) ==
  LET r == Reserve(h, h.n + 1) IN ShiftUp([r EXCEPT !.n = @ + 1], r.n, e)

Pop(h) ==
  IF h.n = 0 THEN h
  ELSE LET last == h.p[h.n - 1]
           down == ShiftDown([h EXCEPT !.n = @ - 1], 0, last)
       IN Trimmed([down EXCEPT !.idx[h.p[0]] = -1])

\* e, whose time may have changed, moves to where it belongs from slot i.
Settle(h, i, e) ==
  IF i > 0 /\ Greater(h, h.p[Up(i)], e) THEN ShiftUpUnconditional(h, i, e) ELSE ShiftDown(h, i, e)

Erase(h, e) ==
  IF h.idx[e] = -1 THEN h
  ELSE LET last == h.p[h.n - 1]
           filled == Settle([h EXCEPT !.n = @ - 1], h.idx[e], last)
       IN Trimmed([filled EXCEPT !.idx[e] = -1])

Adjust(h, e) == IF h.idx[e] = -1 THEN Push(h, e) ELSE Settle(h, h.idx[e], e)

HeapContents(h) == {h.p[i] : i \in 0 .. (h.n - 1)}

\* The order of the heap, and the index every entry keeps of its own slot.
HeapOK(h) ==
  /\ \A i \in 1 .. (h.n - 1) : ~Greater(h, h.p[Up(i)], h.p[i])
  /\ \A i \in 0 .. (h.n - 1) : h.idx[h.p[i]] = i
  /\ \A e \in DOMAIN h.idx : h.idx[e] # -1 => e \in HeapContents(h)
  /\ h.n <= h.a
=============================================================================
