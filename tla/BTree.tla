------------------------------- MODULE BTree --------------------------------
(***************************************************************************)
(* The B-tree of btree.c, of minimum degree T (at most 2T-1 keys a node).  *)
(* A node is a record of its key and child sequences: num is Len(keys) and *)
(* leaf is kids = <<>>.  A node is referred to by its parent alone, so a   *)
(* tree is a nested record; T->root == NULL is None.  A result carries the *)
(* faults met on the way: "overflow" (the write past childrens[]), "freed" *)
(* (the root read after btree_merge freed it), "inner" (a replacement key  *)
(* taken from a child that is not a leaf), "rootless" (the last key gone). *)
(***************************************************************************)
EXTENDS Integers, Sequences, FiniteSets, SequencesExt

CONSTANT T

None == [keys |-> <<>>, kids |-> <<>>]        \* no tree; btree_create's root is empty too
IsLeaf(x) == x.kids = <<>>
Num(x) == Len(x.keys)

\* C's x->keys[i] and x->childrens[i].
Key(x, i) == x.keys[i + 1]
Kid(x, i) == x.kids[i + 1]

SetKid(x, i, y) == [x EXCEPT !.kids[i + 1] = y]

btree_split_child(x, i) ==
  LET y == Kid(x, i)
      low == [keys |-> SubSeq(y.keys, 1, T - 1), kids |-> IF IsLeaf(y) THEN <<>> ELSE SubSeq(y.kids, 1, T)]
      z == [keys |-> SubSeq(y.keys, T + 1, 2 * T - 1),
            kids |-> IF IsLeaf(y) THEN <<>> ELSE SubSeq(y.kids, T + 1, 2 * T)]
  IN [keys |-> InsertAt(x.keys, i + 1, Key(y, T - 1)),
      kids |-> InsertAt([x.kids EXCEPT ![i + 1] = low], i + 2, z)]

\* The number of keys of x that are not greater than k.
Rank(x, k) == Cardinality({i \in 1 .. Num(x) : x.keys[i] <= k})

RECURSIVE btree_insert_nonfull(_, _)
btree_insert_nonfull(x, k) ==
  IF IsLeaf(x) THEN [x EXCEPT !.keys = InsertAt(@, Rank(x, k) + 1, k)]
  ELSE LET i == Rank(x, k)
           full == Num(Kid(x, i)) = 2 * T - 1
           s == IF full THEN btree_split_child(x, i) ELSE x
           j == IF full /\ k > Key(s, i) THEN i + 1 ELSE i
       IN SetKid(s, j, btree_insert_nonfull(Kid(s, j), k))

btree_insert(r, k) ==
  IF Num(r) = 2 * T - 1
  THEN LET s == btree_split_child([keys |-> <<>>, kids |-> <<r>>], 0)
           i == IF Key(s, 0) < k THEN 1 ELSE 0
       IN SetKid(s, i, btree_insert_nonfull(Kid(s, i), k))
  ELSE btree_insert_nonfull(r, k)

\* {child[idx], key[idx], child[idx+1]} become one child.
btree_merge(x, idx) ==
  LET l == Kid(x, idx)
      r == Kid(x, idx + 1)
      merged == [keys |-> Append(l.keys, Key(x, idx)) \o r.keys, kids |-> l.kids \o r.kids]
  IN [keys |-> RemoveAt(x.keys, idx + 1),
      kids |-> RemoveAt([x.kids EXCEPT ![idx + 1] = merged], idx + 2)]

\* node->childrens[i+1] = NULL after the loop is slot num+1 of 2T slots.
MergeFaults(x) == IF Num(x) = 2 * T - 1 THEN {"overflow"} ELSE {}

BorrowNext(x, idx) ==
  LET c == Kid(x, idx)
      r == Kid(x, idx + 1)
  IN [keys |-> [x.keys EXCEPT ![idx + 1] = Key(r, 0)],
      kids |-> [x.kids EXCEPT
        ![idx + 1] = [keys |-> Append(c.keys, Key(x, idx)),
                      kids |-> IF IsLeaf(r) THEN <<>> ELSE Append(c.kids, Kid(r, 0))],
        ![idx + 2] = [keys |-> Tail(r.keys), kids |-> IF IsLeaf(r) THEN <<>> ELSE Tail(r.kids)]]]

\* (Line 330 says node->key, a field that does not exist; keys is meant.)
BorrowPrev(x, idx) ==
  LET c == Kid(x, idx)
      l == Kid(x, idx - 1)
  IN [keys |-> [x.keys EXCEPT ![idx] = Last(l.keys)],
      kids |-> [x.kids EXCEPT
        ![idx + 1] = [keys |-> <<Key(x, idx - 1)>> \o c.keys,
                      kids |-> IF IsLeaf(l) THEN <<>> ELSE <<Last(l.kids)>> \o c.kids],
        ![idx] = [keys |-> Front(l.keys), kids |-> IF IsLeaf(l) THEN <<>> ELSE Front(l.kids)]]]

Result(x, faults) == [node |-> x, faults |-> faults]

\* A poor child is filled before the descent: the node, the child's index, the faults.
Refill(x, idx) ==
  LET hasL == idx > 0
      hasR == idx < Num(x)
      rich(i) == Num(Kid(x, i)) >= T
      richR == hasR /\ (hasL => Num(Kid(x, idx + 1)) > Num(Kid(x, idx - 1)))
  IN CASE Num(Kid(x, idx)) # T - 1 -> [node |-> x, at |-> idx, faults |-> {}]
       [] Num(Kid(x, idx)) = T - 1 /\ ((hasL /\ rich(idx - 1)) \/ (hasR /\ rich(idx + 1))) ->
            [node |-> IF richR /\ rich(idx + 1) THEN BorrowNext(x, idx) ELSE BorrowPrev(x, idx),
             at |-> idx, faults |-> {}]
       [] OTHER -> LET i == IF hasL THEN idx - 1 ELSE idx
                   IN [node |-> btree_merge(x, i), at |-> i, faults |-> MergeFaults(x)]

RECURSIVE btree_delete_key(_, _)
btree_delete_key(x, k) ==
  LET idx == Cardinality({i \in 1 .. Num(x) : x.keys[i] < k})
      found == idx < Num(x) /\ Key(x, idx) = k
      \* key[idx] becomes key m of child c, and m is deleted from that child
      replace(c, m) == LET d == btree_delete_key(Kid(x, c), m)
                       IN Result(SetKid([x EXCEPT !.keys[idx + 1] = m], c, d.node),
                                 d.faults \cup IF IsLeaf(Kid(x, c)) THEN {} ELSE {"inner"})
      \* the deletion goes on in child i of node y
      down(y, i, faults) == LET d == btree_delete_key(Kid(y, i), k)
                            IN Result(SetKid(y, i, d.node), d.faults \cup faults)
  IN CASE found /\ IsLeaf(x) -> Result([x EXCEPT !.keys = RemoveAt(@, idx + 1)], {})
       [] found /\ ~IsLeaf(x) /\ Num(Kid(x, idx)) >= T -> replace(idx, Last(Kid(x, idx).keys))
       [] found /\ ~IsLeaf(x) /\ Num(Kid(x, idx)) < T /\ Num(Kid(x, idx + 1)) >= T ->
            replace(idx + 1, Key(Kid(x, idx + 1), 0))
       [] found /\ ~IsLeaf(x) /\ Num(Kid(x, idx)) < T /\ Num(Kid(x, idx + 1)) < T ->
            \* node->childrens[idx] is read after the merge freed a root left without keys
            IF Num(x) = 1 THEN Result(x, {"freed"})
            ELSE down(btree_merge(x, idx), idx, MergeFaults(x))
       [] ~found /\ IsLeaf(x) -> Result(x, {})          \* "Cannot del key"
       [] OTHER -> LET f == Refill(x, idx) IN down(f.node, f.at, f.faults)

\* A root that lost its last key gives way to its only child; a root that was a
\* leaf is freed and T->root is NULL, which btree_insert would dereference.
btree_delete(r, k) ==
  LET d == btree_delete_key(r, k)
  IN IF Num(d.node) > 0 \/ Num(r) = 0 THEN d
     ELSE IF IsLeaf(d.node) THEN Result(None, {"rootless"}) ELSE Result(Kid(d.node, 0), d.faults)

RECURSIVE btree_traverse(_)
btree_traverse(x) ==
  IF IsLeaf(x) THEN x.keys
  ELSE FlattenSeq([i \in 1 .. Num(x) |-> Append(btree_traverse(x.kids[i]), x.keys[i])])
         \o btree_traverse(Last(x.kids))

RECURSIVE BinSearch(_, _, _, _)
BinSearch(x, low, high, k) ==
  LET mid == (low + high) \div 2
  IN IF low > high THEN low
     ELSE IF k > Key(x, mid) THEN BinSearch(x, mid + 1, high, k) ELSE BinSearch(x, low, mid - 1, k)

\* Over all keys of a node: the first slot that is not below the key.
btree_bin_search(x, k) == BinSearch(x, 0, Num(x) - 1, k)

RECURSIVE Depths(_)
Depths(x) == IF IsLeaf(x) THEN {1} ELSE {d + 1 : d \in UNION {Depths(x.kids[i]) : i \in DOMAIN x.kids}}

RECURSIVE SizesOK(_, _)
SizesOK(x, least) ==
  /\ Num(x) \in least .. (2 * T - 1)
  /\ IsLeaf(x) \/ Len(x.kids) = Num(x) + 1
  /\ \A i \in DOMAIN x.kids : SizesOK(x.kids[i], T - 1)

\* In every node the search finds the slot a key is in or belongs into.
RECURSIVE SearchOK(_, _)
SearchOK(x, keys) ==
  /\ \A k \in keys : btree_bin_search(x, k) = Cardinality({j \in DOMAIN x.keys : x.keys[j] < k})
  /\ \A i \in DOMAIN x.kids : SearchOK(x.kids[i], keys)

\* Leaves on one level and sizes in their bounds; the keys in order, exactly
\* these, and found.
BTreeShape(r) == Cardinality(Depths(r)) = 1 /\ SizesOK(r, 0)

BTreeOrder(r, keys) ==
  LET order == btree_traverse(r)
  IN /\ ToSet(order) = keys /\ Len(order) = Cardinality(keys)
     /\ \A i \in 1 .. (Len(order) - 1) : order[i] < order[i + 1]
     /\ SearchOK(r, keys)
=============================================================================
