------------------------------- MODULE Memory -------------------------------
(* What keeps account of memory: the pool of mmpool.c and the leak detector *)
(* of memleak.cpp.  They are used by different programs and share nothing.  *)
EXTENDS MemPool, MemHooks

(* The pool never hands out the same memory twice, and loses no large       *)
(* allocation; the leak detector misses no block.                           *)
MemorySound == ChunksDisjoint /\ LargeAccounted /\ LeaksListed
=============================================================================
