----------------------------- MODULE Structures -----------------------------
(***************************************************************************)
(* The search structures under every sequence of insertions and deletions: *)
(* the two red-black trees, the B-tree, the heap and the skip list.  ref   *)
(* is what the structure should hold: elements and their keys.             *)
(***************************************************************************)
EXTENDS Integers, FiniteSets, TLC

CONSTANTS StructureKinds,
          Elements, Slots, Letters,  \* names for the red-black trees, heap and list, B-tree
          Modulus, MaxLevel, T

VARIABLES kind, s, ref, faults

vars == <<kind, s, ref, faults>>

H == INSTANCE MinHeap
S == INSTANCE SkipList
N == INSTANCE NgxRbTree
R == INSTANCE RbTree
B == INSTANCE BTree

Init ==
  /\ kind \in StructureKinds
  /\ s = CASE kind = "heap" -> H!EmptyHeap(Slots)
           [] kind = "skip" -> S!zslCreate(Slots)
           [] kind = "ngx"  -> N!ngx_rbtree_init(Elements)
           [] kind = "rb"   -> R!rbtree_create(Elements)
           [] kind = "btree" -> B!None
  /\ ref = <<>> /\ faults = {}

\* The keys an element may have: pairs of equal ones in the timers' structures.
KeysOf(e) == CASE kind \in {"heap", "skip"} -> 1 .. 3
               [] kind = "ngx" -> {(e + 1) \div 2}
               [] OTHER -> {e}

Names == CASE kind \in {"heap", "skip"} -> Slots [] kind = "btree" -> Letters [] OTHER -> Elements

Insert(e, key, level) ==
  /\ e \notin DOMAIN ref \/ kind = "rb"
  /\ kind \in {"heap", "skip"} => 1 .. (e - 1) \subseteq DOMAIN ref
  /\ level > 1 => kind = "skip"
  /\ faults \cap {"freed", "rootless", "inner"} = {}
  /\ s' = CASE kind = "heap" -> H!Push([s EXCEPT !.time[e] = key], e)
            [] kind = "skip" -> S!zslInsert(s, e, key, level)
            [] kind = "ngx"  -> N!ngx_rbtree_insert(s, e, key)
            [] kind = "rb"   -> R!rbtree_insert(s, e)
            [] kind = "btree" -> B!btree_insert(s, e)
  /\ ref' = (e :> key) @@ ref
  /\ UNCHANGED <<kind, faults>>

\* The element a deletion of e really removes: the skip list's first of equal score.
Victim(e) == IF kind # "skip" THEN e
             ELSE LET up == S!Update(s, s.score[e]) IN s.fwd[0][up[0]]

\* The colour of a removed node and the sentinel's parent, written by a deletion
\* and read by no later operation.
Scratched(t, e) == [t EXCEPT !.red[e] = FALSE, !.parent[N!Nil] = N!Null]

\* A deletion; the B-tree is also asked for keys it does not hold.  What
\* happens in a B-tree out of order, or after its root was freed, is not
\* modelled.
Delete(e) ==
  /\ e \in DOMAIN ref \/ kind = "btree"
  /\ faults \cap {"freed", "inner"} = {}
  /\ s' = CASE kind = "heap" -> [H!Erase(s, e) EXCEPT !.time[e] = 0]
            [] kind = "skip" -> [S!zslDelete(s, e) EXCEPT !.score[Victim(e)] = 0]
            [] kind = "ngx"  -> Scratched(N!ngx_rbtree_delete(s, e), e)
            [] kind = "rb"   -> R!rbtree_delete(s, R!rbtree_search(s, e))
            [] kind = "btree" -> B!btree_delete(s, e).node
  /\ faults' = faults \cup IF kind = "btree" THEN B!btree_delete(s, e).faults ELSE {}
  /\ ref' = [x \in DOMAIN ref \ {Victim(e)} |-> ref[x]]
  /\ UNCHANGED kind

\* min_heap_adjust_ after the time of an entry was changed.
AdjustTime(e, key) ==
  /\ kind = "heap" /\ e \in DOMAIN ref
  /\ s' = H!Adjust([s EXCEPT !.time[e] = key], e)
  /\ ref' = [ref EXCEPT ![e] = key]
  /\ UNCHANGED <<kind, faults>>

Next == \E e \in Names :
          \/ \E key \in KeysOf(e), level \in 1 .. MaxLevel : Insert(e, key, level)
          \/ Delete(e)
          \/ \E key \in 1 .. 3 : AdjustTime(e, key)

Spec == Init /\ [][Next]_vars

\* After any sequence of operations the heap is ordered and every entry knows
\* its slot (min_heap_erase_ and min_heap_adjust_ choose one direction to move
\* in), the levels of the skip list are sorted and nested, both trees are
\* red-black, doubly linked and in order, and each holds exactly its elements:
\* the reference set of what was inserted and not deleted.
StructureSound ==
  CASE kind = "heap" -> H!HeapOK(s) /\ H!HeapContents(s) = DOMAIN ref
    [] kind = "skip" -> S!SkipOK(s) /\ S!SkipContents(s) = DOMAIN ref
    [] kind = "ngx"  -> N!TreeOK(s) /\ N!TreeContents(s) = DOMAIN ref
    [] kind = "rb"   -> R!RbOK(s, DOMAIN ref)
    [] OTHER -> TRUE

\* The B-tree stays balanced with sizes in their bounds, and holds its keys in
\* order, exactly those inserted and not deleted, as long as no deletion took
\* the replacement key from a child that is not a leaf (btree.c:259 and 266
\* take the child's own last or first key, not the predecessor or successor).
BTreeSound ==
  kind = "btree" /\ "freed" \notin faults =>
     /\ B!BTreeShape(s)
     /\ "inner" \notin faults => B!BTreeOrder(s, DOMAIN ref)
=============================================================================
