------------------------------ MODULE NgxRbTree -----------------------------
(***************************************************************************)
(* The red-black tree of the timer directory (rbtree.c, rbtree.h).  A tree *)
(* is a record of the nodes' fields; kid[n] gives the two children, Nil is *)
(* the sentinel, Null the null pointer.  Where the code has two mirrored   *)
(* branches, one definition takes the side.  Keys are Modulus wide.        *)
(***************************************************************************)
EXTENDS Integers, FiniteSets

CONSTANT Modulus                      \* 2^32 in the code

Nil == 0
Null == -1
Other(side) == IF side = "left" THEN "right" ELSE "left"

ngx_rbtree_init(Nodes) ==
  [root |-> Nil, key |-> [n \in Nodes |-> 0], red |-> [n \in Nodes \cup {Nil} |-> FALSE],
   parent |-> [n \in Nodes \cup {Nil} |-> Null],
   kid |-> [n \in Nodes \cup {Nil} |-> [left |-> Null, right |-> Null]]]

RECURSIVE ngx_rbtree_min(_, _)
ngx_rbtree_min(t, n) ==
  IF t.kid[n].left # Nil THEN ngx_rbtree_min(t, t.kid[n].left) ELSE n

SideOf(t, n) == IF n = t.kid[t.parent[n]].left THEN "left" ELSE "right"

\* The parent of n (or the root) takes m in the place of n.
Relink(t, n, m) ==
  IF n = t.root THEN [t EXCEPT !.root = m] ELSE [t EXCEPT !.kid[t.parent[n]][SideOf(t, n)] = m]

\* ngx_rbtree_left_rotate for side = "left", ngx_rbtree_right_rotate for "right".
Rotate(t, n, side) ==
  LET up == t.kid[n][Other(side)]
      inner == t.kid[up][side]
      a == [t EXCEPT !.kid[n][Other(side)] = inner,
                     !.parent = IF inner # Nil THEN [@ EXCEPT ![inner] = n] ELSE @]
      b == Relink([a EXCEPT !.parent[up] = a.parent[n]], n, up)
  IN [b EXCEPT !.kid[up][side] = n, !.parent[n] = up]

\* (ngx_rbtree_key_int_t) (a - b) < 0
Less(a, b) == (a - b) % Modulus >= Modulus \div 2

\* ngx_rbtree_insert_timer_value: the leaf place of n below temp.
RECURSIVE InsertTimerValue(_, _, _)
InsertTimerValue(t, temp, n) ==
  LET side == IF Less(t.key[n], t.key[temp]) THEN "left" ELSE "right"
  IN IF t.kid[temp][side] # Nil THEN InsertTimerValue(t, t.kid[temp][side], n)
     ELSE [t EXCEPT !.kid[temp][side] = n, !.parent[n] = temp,
                    !.kid[n] = [left |-> Nil, right |-> Nil], !.red[n] = TRUE]

\* Mutant: after recolouring, the grandparent is not examined.
RebalanceOnce(t, n) ==
  IF n = t.root \/ ~t.red[t.parent[n]] THEN t
  ELSE [t EXCEPT !.red[t.parent[n]] = FALSE]

RECURSIVE Rebalance(_, _)
Rebalance(t, n) ==
  IF n = t.root \/ ~t.red[t.parent[n]] THEN t
  ELSE LET p == t.parent[n]
           g == t.parent[p]
           side == SideOf(t, p)
           uncle == t.kid[g][Other(side)]
       IN IF t.red[uncle]
          THEN Rebalance([t EXCEPT !.red[p] = FALSE, !.red[uncle] = FALSE, !.red[g] = TRUE], g)
          ELSE LET inner == n = t.kid[p][Other(side)]
                   m == IF inner THEN p ELSE n
                   r == IF inner THEN Rotate(t, p, side) ELSE t
                   top == r.parent[m]
                   c == [r EXCEPT !.red[top] = FALSE, !.red[r.parent[top]] = TRUE]
               IN Rebalance(Rotate(c, c.parent[top], Other(side)), m)

ngx_rbtree_insert(t, n, key) ==
  LET k == [t EXCEPT !.key[n] = key]
      b == Rebalance(InsertTimerValue(k, k.root, n), n)
  IN IF t.root = Nil
     THEN [k EXCEPT !.parent[n] = Null, !.kid[n] = [left |-> Nil, right |-> Nil],
                    !.red[n] = FALSE, !.root = n]
     ELSE [b EXCEPT !.red[b.root] = FALSE]

RECURSIVE DeleteFixup(_, _)
DeleteFixup(t, x) ==
  IF x = t.root \/ t.red[x] THEN [t EXCEPT !.red[x] = FALSE]
  ELSE LET side == SideOf(t, x)
           far == Other(side)
           p == t.parent[x]
           w0 == t.kid[p][far]
           a == IF t.red[w0] THEN Rotate([t EXCEPT !.red[w0] = FALSE, !.red[p] = TRUE], p, side) ELSE t
           w == a.kid[p][far]
           near == a.kid[w][side]
           b == IF a.red[a.kid[w][far]] THEN a
                ELSE Rotate([a EXCEPT !.red[near] = FALSE, !.red[w] = TRUE], w, far)
           v == b.kid[p][far]
           c == [b EXCEPT !.red[v] = b.red[p], !.red[p] = FALSE, !.red[b.kid[v][far]] = FALSE]
           r == Rotate(c, p, side)
       IN IF ~a.red[near] /\ ~a.red[a.kid[w][far]]
          THEN DeleteFixup([a EXCEPT !.red[w] = TRUE], p)
          ELSE [r EXCEPT !.red[r.root] = FALSE]

\* node->left = node->right = node->parent = NULL; node->key = 0
Cleared(t, n) ==
  [t EXCEPT !.kid[n] = [left |-> Null, right |-> Null], !.parent[n] = Null, !.key[n] = 0]

\* The node that leaves its place: n itself, or its successor if n has two children.
Subst(t, n) ==
  IF Nil \in {t.kid[n].left, t.kid[n].right} THEN n ELSE ngx_rbtree_min(t, t.kid[n].right)

\* subst takes the place, the colour and the children of n.
TakePlace(t, n, subst) ==
  LET a == [t EXCEPT !.kid[subst] = t.kid[n], !.parent[subst] = t.parent[n], !.red[subst] = t.red[n]]
      b == Relink(a, n, subst)
      kids == {b.kid[subst].left, b.kid[subst].right} \ {Nil}
  IN [b EXCEPT !.parent = [m \in DOMAIN @ |-> IF m \in kids THEN subst ELSE @[m]]]

ngx_rbtree_delete(t, n) ==
  LET subst == Subst(t, n)
      temp == IF t.kid[subst].left # Nil THEN t.kid[subst].left ELSE t.kid[subst].right
      out == Relink(t, subst, temp)
      up == IF subst # n /\ t.parent[subst] = n THEN subst ELSE t.parent[subst]
      linked == [out EXCEPT !.parent[temp] = up]
      placed == Cleared(IF subst = n THEN linked ELSE TakePlace(linked, n, subst), n)
  IN IF subst = t.root THEN Cleared([out EXCEPT !.red[temp] = FALSE], n)
     ELSE IF t.red[subst] THEN placed ELSE DeleteFixup(placed, temp)

RECURSIVE Below(_, _)
Below(t, n) == IF n = Nil THEN {} ELSE {n} \cup Below(t, t.kid[n].left) \cup Below(t, t.kid[n].right)

TreeContents(t) == Below(t, t.root)

\* The ancestors of n, for ngx_rbtree_next.
RECURSIVE NextUp(_, _)
NextUp(t, n) ==
  CASE n = t.root -> Null
    [] n # t.root /\ n = t.kid[t.parent[n]].left -> t.parent[n]
    [] OTHER -> NextUp(t, t.parent[n])

ngx_rbtree_next(t, n) ==
  IF t.kid[n].right # Nil THEN ngx_rbtree_min(t, t.kid[n].right) ELSE NextUp(t, n)

RECURSIVE BlackHeight(_, _)
BlackHeight(t, n) ==   \* -1 if two paths below n differ
  IF n = Nil THEN 0
  ELSE LET l == BlackHeight(t, t.kid[n].left)
           r == BlackHeight(t, t.kid[n].right)
       IN IF l = -1 \/ l # r THEN -1 ELSE IF t.red[n] THEN l ELSE l + 1

\* Red-black and linked both ways; next visits the timers in the order of their keys.
TreeOK(t) ==
  /\ ~t.red[t.root] /\ ~t.red[Nil]
  /\ BlackHeight(t, t.root) # -1
  /\ \A n \in TreeContents(t) :
       /\ n # t.root => n \in {t.kid[t.parent[n]].left, t.kid[t.parent[n]].right}
       /\ t.red[n] => ~t.red[t.kid[n].left] /\ ~t.red[t.kid[n].right]
       /\ LET m == ngx_rbtree_next(t, n)
          IN IF m = Null THEN \A k \in TreeContents(t) : ~Less(t.key[n], t.key[k])
             ELSE m \in TreeContents(t) \ {n} /\ ~Less(t.key[m], t.key[n])
=============================================================================
