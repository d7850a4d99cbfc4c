------------------------------- MODULE RbTree -------------------------------
(***************************************************************************)
(* The red-black tree of 1. Data_structure/rbtree.c.  A node is named by   *)
(* the key it holds: where rbtree_delete copies the successor's key into   *)
(* the node, the model moves the successor into that node's place.  Nil is *)
(* T->nil, a node whose parent field is written and read like any other.   *)
(***************************************************************************)
EXTENDS Integers, FiniteSets, Sequences

Nil == 0
Other(side) == IF side = "left" THEN "right" ELSE "left"
Leaf == [left |-> Nil, right |-> Nil]

rbtree_create(Keys) ==
  [root |-> Nil, red |-> [n \in Keys \cup {Nil} |-> FALSE],
   parent |-> [n \in Keys \cup {Nil} |-> Nil], kid |-> [n \in Keys \cup {Nil} |-> Leaf]]

\* rbtree_mini for side = "left", rbtree_maxi for "right".
RECURSIVE Extreme(_, _, _)
Extreme(t, x, side) == IF t.kid[x][side] # Nil THEN Extreme(t, t.kid[x][side], side) ELSE x

RECURSIVE Climb(_, _, _)
Climb(t, x, y) == IF y # Nil /\ x = t.kid[y].right THEN Climb(t, y, t.parent[y]) ELSE y

rbtree_successor(t, x) ==
  IF t.kid[x].right # Nil THEN Extreme(t, t.kid[x].right, "left") ELSE Climb(t, x, t.parent[x])

SideOf(t, x) == IF x = t.kid[t.parent[x]].left THEN "left" ELSE "right"

\* The parent of x, or T->root, points to y instead of x.
Relink(t, x, y) ==
  IF t.parent[x] = Nil THEN [t EXCEPT !.root = y] ELSE [t EXCEPT !.kid[t.parent[x]][SideOf(t, x)] = y]

\* rbtree_left_rotate for side = "left", rbtree_right_rotate for "right".
Rotate(t, x, side) ==
  LET y == t.kid[x][Other(side)]
      inner == t.kid[y][side]
      a == [t EXCEPT !.kid[x][Other(side)] = inner, !.parent[y] = t.parent[x],
                     !.parent = IF inner # Nil THEN [@ EXCEPT ![inner] = x] ELSE @]
      b == Relink(a, x, y)
  IN [b EXCEPT !.kid[y][side] = x, !.parent[x] = y]

RECURSIVE InsertFixup(_, _)
InsertFixup(t, z) ==
  LET p == t.parent[z]
      g == t.parent[p]
      side == SideOf(t, p)
      y == t.kid[g][Other(side)]
      inner == z = t.kid[p][Other(side)]
      r == IF inner THEN Rotate(t, p, side) ELSE t
      m == IF inner THEN p ELSE z
      c == [r EXCEPT !.red[r.parent[m]] = FALSE, !.red[g] = TRUE]
  IN IF ~t.red[p] THEN [t EXCEPT !.red[t.root] = FALSE]
     ELSE IF t.red[y] THEN InsertFixup([t EXCEPT !.red[p] = FALSE, !.red[y] = FALSE, !.red[g] = TRUE], g)
     ELSE InsertFixup(Rotate(c, g, Other(side)), m)

\* The node where the search for key ends: the last one before nil.
RECURSIVE Descend(_, _, _)
Descend(t, key, x) ==
  LET side == IF key < x THEN "left" ELSE "right"
  IN IF key = x \/ t.kid[x][side] = Nil THEN x ELSE Descend(t, key, t.kid[x][side])

rbtree_insert(t, z) ==
  LET y == IF t.root = Nil THEN Nil ELSE Descend(t, z, t.root)
      a == IF y = Nil THEN [t EXCEPT !.root = z]
           ELSE [t EXCEPT !.kid[y][IF z < y THEN "left" ELSE "right"] = z]
  IN IF y = z THEN t          \* the key exists
     ELSE InsertFixup([a EXCEPT !.parent[z] = y, !.kid[z] = Leaf, !.red[z] = TRUE], z)

rbtree_search(t, key) ==
  IF t.root # Nil /\ Descend(t, key, t.root) = key THEN key ELSE Nil

RECURSIVE DeleteFixup(_, _)
DeleteFixup(t, x) ==
  LET side == SideOf(t, x)
      far == Other(side)
      p == t.parent[x]
      w0 == t.kid[p][far]
      a == IF t.red[w0] THEN Rotate([t EXCEPT !.red[w0] = FALSE, !.red[p] = TRUE], p, side) ELSE t
      w == a.kid[p][far]
      near == a.kid[w][side]
      b == IF a.red[a.kid[w][far]] THEN a
           ELSE Rotate([a EXCEPT !.red[near] = FALSE, !.red[w] = TRUE], w, far)
      v == b.kid[p][far]
      c == Rotate([b EXCEPT !.red[v] = b.red[p], !.red[p] = FALSE, !.red[b.kid[v][far]] = FALSE], p, side)
  IN IF x = t.root \/ t.red[x] THEN [t EXCEPT !.red[x] = FALSE]
     ELSE IF ~a.red[near] /\ ~a.red[a.kid[w][far]] THEN DeleteFixup([a EXCEPT !.red[w] = TRUE], p)
     ELSE [c EXCEPT !.red[c.root] = FALSE]

\* z->key = y->key: y stands where z stood, with the colour and the links of z.
Renamed(t, z, y) ==
  LET new(n) == IF n = z THEN y ELSE n
      old(n) == IF n = y THEN z ELSE n
  IN [root |-> new(t.root),
      red |-> [n \in DOMAIN t.red |-> IF n = z THEN FALSE ELSE t.red[old(n)]],
      parent |-> [n \in DOMAIN t.parent |-> IF n = z THEN Nil ELSE new(t.parent[old(n)])],
      kid |-> [n \in DOMAIN t.kid |-> IF n = z THEN Leaf
                 ELSE [left |-> new(t.kid[old(n)].left), right |-> new(t.kid[old(n)].right)]]]

\* The fields of a freed node, which nobody reads.
Freed(t, n) == [t EXCEPT !.red[n] = FALSE, !.parent[n] = Nil, !.kid[n] = Leaf]

rbtree_delete(t, z) ==
  LET y == IF Nil \in {t.kid[z].left, t.kid[z].right} THEN z ELSE rbtree_successor(t, z)
      x == IF t.kid[y].left # Nil THEN t.kid[y].left ELSE t.kid[y].right
      out == Relink([t EXCEPT !.parent[x] = t.parent[y]], y, x)
      copied == IF y = z THEN Freed(out, z) ELSE Renamed(out, z, y)
  IN IF t.red[y] THEN copied ELSE DeleteFixup(copied, x)

RECURSIVE Below(_, _)
Below(t, n) == IF n = Nil THEN {} ELSE {n} \cup Below(t, t.kid[n].left) \cup Below(t, t.kid[n].right)

\* rbtree_traversal: the keys from left to right.
RECURSIVE rbtree_traversal(_, _)
rbtree_traversal(t, n) ==
  IF n = Nil THEN <<>>
  ELSE rbtree_traversal(t, t.kid[n].left) \o <<n>> \o rbtree_traversal(t, t.kid[n].right)

RECURSIVE BlackHeight(_, _)
BlackHeight(t, n) ==   \* -1 if two paths below n differ
  IF n = Nil THEN 0
  ELSE LET l == BlackHeight(t, t.kid[n].left)
           r == BlackHeight(t, t.kid[n].right)
       IN IF l = -1 \/ l # r THEN -1 ELSE IF t.red[n] THEN l ELSE l + 1

\* Red-black, linked both ways, traversed in order; search and successor agree with keys.
RbOK(t, keys) ==
  LET order == rbtree_traversal(t, t.root)
      nodes == Below(t, t.root)
  IN /\ nodes = keys /\ Len(order) = Cardinality(keys)
     /\ \A i \in 1 .. (Len(order) - 1) :
          order[i] < order[i + 1] /\ rbtree_successor(t, order[i]) = order[i + 1]
     /\ \A k \in DOMAIN t.red \ {Nil} : rbtree_search(t, k) = IF k \in keys THEN k ELSE Nil
     /\ ~t.red[t.root] /\ ~t.red[Nil] /\ BlackHeight(t, t.root) # -1
     /\ \A n \in nodes : /\ t.red[n] => ~t.red[t.kid[n].left] /\ ~t.red[t.kid[n].right]
                         /\ \A m \in {t.kid[n].left, t.kid[n].right} \ {Nil} : t.parent[m] = n
=============================================================================
