------------------------------ MODULE MemPool -------------------------------
(***************************************************************************)
(* The memory pool of mmpool.c.  A block is a record of offsets from its   *)
(* own start, in units of 8 bytes: last, end, failed and the chunks handed *)
(* out of it.  Block 1 is the head, behind the pool's own header; its next *)
(* field is left uninitialised by mp_create_pool.  large is the list of    *)
(* mp_large_s, newest first; an entry's alloc is a malloc'ed piece or 0.   *)
(***************************************************************************)
EXTENDS Integers, Sequences, FiniteSets, SequencesExt

CONSTANTS PoolSize,     \* size of mp_create_pool, in units
          Requests,     \* sizes asked for, in units; above PoolSize they are large
          FailedLimit,  \* 4 in mp_alloc_block
          MaxBlocks, MaxMallocs  \* bounds on blocks and on malloc'ed pieces

Alignment == 4          \* MP_ALIGNMENT is 32 bytes
NodeHeader == 4         \* sizeof(struct mp_node_s)
PoolHeader == 3         \* sizeof(struct mp_pool_s)
LargeSize == 2          \* sizeof(struct mp_large_s)

\* A fresh block has room for an entry of the large list (main asks for a page).
ASSUME PoolAssumption ==
  /\ PoolSize \in Nat /\ PoolSize >= LargeSize
  /\ Requests \subseteq Nat /\ {FailedLimit, MaxBlocks, MaxMallocs} \subseteq Nat

VARIABLES blocks, current, large,
          heap,         \* malloc'ed pieces that are not freed
          junk,         \* the uninitialised head->next is not NULL
          overrun,      \* a chunk was handed out past the end of its block
          alive         \* FALSE once the pool is destroyed or junk was followed

poolVars == <<blocks, current, large, heap, junk, overrun, alive>>

Align(n) == ((n + Alignment - 1) \div Alignment) * Alignment

Block(last, end, chunks) == [last |-> last, end |-> end, failed |-> 0, chunks |-> chunks]

mp_create_pool ==
  /\ blocks = <<Block(PoolHeader + NodeHeader, PoolHeader + NodeHeader + PoolSize, {})>>
  /\ current = 1 /\ large = <<>> /\ heap = {}
  /\ junk \in BOOLEAN /\ overrun = FALSE /\ alive = TRUE

\* Mutant: the difference is taken as a signed number one too large.
FitsLoose(b, m, size) == b.end - m >= size - 1

\* (size_t)(p->end - m) >= size: a negative difference is a huge one.
Fits(b, m, size) == m > b.end \/ b.end - m >= size

\* Where a chunk would start in block b: mp_alloc aligns, mp_nalloc does not.
StartIn(b, aligned) == IF aligned THEN Align(b.last) ELSE b.last

\* The first block from current on in which the request is thought to fit.
Candidates(bs, cur, size, aligned) ==
  {i \in cur .. Len(bs) : Fits(bs[i], StartIn(bs[i], aligned), size)}

\* mp_alloc_block: every block from current to the last but one counts a
\* failure; current moves behind each that had more than FailedLimit.
AllocBlock(bs, cur, size) ==
  LET psize == bs[1].end - PoolHeader
      passed == cur .. (Len(bs) - 1)
      tired == {i \in passed : bs[i].failed > FailedLimit}
      aged == [i \in DOMAIN bs |-> IF i \in passed THEN [bs[i] EXCEPT !.failed = @ + 1] ELSE bs[i]]
      start == Align(NodeHeader)
  IN [bs |-> Append(aged, Block(start + size, psize, {<<start, start + size>>})),
      cur |-> IF tired = {} THEN cur ELSE 1 + CHOOSE i \in tired : \A j \in tired : j <= i]

\* mp_alloc and mp_nalloc of a size that is not large.
Alloc(bs, cur, size, aligned) ==
  LET c == Candidates(bs, cur, size, aligned)
      i == CHOOSE x \in c : \A y \in c : x <= y
      m == StartIn(bs[i], aligned)
  IN IF c = {} THEN AllocBlock(bs, cur, size)
     ELSE [bs |-> [bs EXCEPT ![i].last = m + size, ![i].chunks = @ \cup {<<m, m + size>>}], cur |-> cur]

\* The walk runs into the head's next field: only when that is the last block.
FollowsJunk(size, aligned) ==
  junk /\ Len(blocks) = 1 /\ Candidates(blocks, current, size, aligned) = {}

Overrun(bs) == \E i \in DOMAIN bs : bs[i].last > bs[i].end

\* A request served from the blocks; the other variables are the caller's.
FromBlocks(size, aligned) ==
  LET r == Alloc(blocks, current, size, aligned)
  IN /\ Len(r.bs) <= MaxBlocks
     /\ alive' = ~FollowsJunk(size, aligned)
     /\ IF alive' THEN blocks' = r.bs /\ current' = r.cur ELSE UNCHANGED <<blocks, current>>
     /\ overrun' = (overrun \/ Overrun(r.bs))
     /\ UNCHANGED junk

Small(size, aligned) ==
  /\ alive /\ ~overrun /\ size <= PoolSize
  /\ FromBlocks(size, aligned)
  /\ UNCHANGED <<large, heap>>

\* The entries looked at for reuse: the first five.
Reusable == {i \in DOMAIN large : i <= 5 /\ large[i] = 0}

\* The allocator gives out the first piece that is not in use.
malloc == CHOOSE p \in 1 .. MaxMallocs : p \notin heap /\ \A r \in 1 .. (p - 1) : r \in heap

\* mp_alloc_large: reuse an entry whose piece was freed, or chain a new one.
Large(size) ==
  LET piece == malloc
  IN /\ alive /\ ~overrun /\ size > PoolSize /\ Cardinality(heap) < MaxMallocs
     /\ heap' = heap \cup {piece}
     /\ IF Reusable # {}
        THEN /\ large' = [large EXCEPT ![CHOOSE i \in Reusable : \A j \in Reusable : i <= j] = piece]
             /\ UNCHANGED <<blocks, current, overrun, alive, junk>>
        ELSE FromBlocks(LargeSize, TRUE) /\ large' = IF alive' THEN <<piece>> \o large ELSE large

\* mp_memalign always chains a new entry.
mp_memalign ==
  /\ alive /\ ~overrun /\ Cardinality(heap) < MaxMallocs
  /\ heap' = heap \cup {malloc}
  /\ FromBlocks(LargeSize, TRUE)
  /\ large' = IF alive' THEN <<malloc>> \o large ELSE large

\* mp_free: only a large piece is found; its entry stays.
mp_free(piece) ==
  /\ alive /\ ~overrun /\ piece \in heap
  /\ \E i \in DOMAIN large :
       /\ large[i] = piece /\ \A j \in 1 .. (i - 1) : large[j] # piece
       /\ large' = [large EXCEPT ![i] = 0]
  /\ heap' = heap \ {piece}
  /\ UNCHANGED <<blocks, current, junk, overrun, alive>>

\* mp_reset_pool: current and failed keep their values.
mp_reset_pool ==
  /\ alive /\ ~overrun /\ ~(junk /\ Len(blocks) = 1)
  /\ heap' = heap \ ToSet(large) /\ large' = <<>>
  /\ blocks' = [i \in DOMAIN blocks |->
       [blocks[i] EXCEPT !.last = NodeHeader + (IF i = 1 THEN PoolHeader ELSE 0), !.chunks = {}]]
  /\ UNCHANGED <<current, junk, overrun, alive>>

mp_destory_pool ==
  /\ alive /\ ~overrun /\ ~(junk /\ Len(blocks) = 1)
  /\ heap' = heap \ ToSet(large) /\ large' = <<>> /\ blocks' = <<>> /\ alive' = FALSE
  /\ UNCHANGED <<current, junk, overrun>>

PoolInit == mp_create_pool

PoolNext ==
  \/ \E size \in Requests, aligned \in BOOLEAN : Small(size, aligned)
  \/ \E size \in Requests : Large(size)
  \/ mp_memalign
  \/ \E piece \in heap : mp_free(piece)
  \/ mp_reset_pool
  \/ mp_destory_pool

PoolSpec == PoolInit /\ [][PoolNext]_poolVars

\* The chunks handed out since the last reset are disjoint, behind the header
\* and before the end of their block, whatever mixture of aligned, unaligned
\* and large requests, frees and resets came before; the one exception is a
\* request for which rounding up last passed end (mmpool.c:220): its chunk
\* starts past the end.
ChunksDisjoint ==
  \A i \in DOMAIN blocks :
    /\ \A c, d \in blocks[i].chunks : c # d => c[2] <= d[1] \/ d[2] <= c[1]
    /\ \A c \in blocks[i].chunks :
         /\ c[1] >= NodeHeader + (IF i = 1 THEN PoolHeader ELSE 0)
         /\ c[2] <= blocks[i].end \/ (overrun /\ c[1] > blocks[i].end)

\* Every malloc'ed piece that is not freed is in exactly one list entry, so that
\* reset and destroy free all of them and none twice; after destroy none is left.
\* (If junk was followed the program is lost, with the piece just malloc'ed.)
LargeAccounted ==
  /\ alive => heap = ToSet(large) \ {0}
  /\ \A i, j \in DOMAIN large : i # j /\ large[i] # 0 => large[i] # large[j]
  /\ blocks = <<>> => heap = {}
=============================================================================
