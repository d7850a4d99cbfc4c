------------------------------ MODULE SkipList -----------------------------
(***************************************************************************)
(* The skip list of skiplist.c.  fwd[i][x] is x->level[i].forward; 0 is    *)
(* the null pointer and Header the header node, which has MaxLevel levels. *)
(* zslRandomLevel is a parameter of the insertion: any level from 1 to     *)
(* MaxLevel.                                                               *)
(***************************************************************************)
EXTENDS Integers, FiniteSets

CONSTANT MaxLevel                     \* ZSKIPLIST_MAXLEVEL

Header == -1
Levels == 0 .. (MaxLevel - 1)

zslCreate(Nodes) ==
  [fwd |-> [i \in Levels |-> [x \in Nodes \cup {Header} |-> 0]],
   score |-> [x \in Nodes |-> 0], level |-> 1, length |-> 0]

\* The last node at or after x on level i whose score is below s.
RECURSIVE Walk(_, _, _, _)
Walk(z, x, i, s) ==
  IF z.fwd[i][x] # 0 /\ z.score[z.fwd[i][x]] < s THEN Walk(z, z.fwd[i][x], i, s) ELSE x

\* update[]: the predecessors on every level, found from the top level down.
Update(z, s) ==
  LET RECURSIVE at(_)
      at(i) == Walk(z, IF i = z.level - 1 THEN Header ELSE at(i + 1), i, s)
  IN [i \in Levels |-> IF i < z.level THEN at(i) ELSE Header]

zslInsert(z, x, s, level) ==
  LET up == Update(z, s)
  IN [z EXCEPT !.score[x] = s, !.length = @ + 1, !.level = IF level > @ THEN level ELSE @,
               !.fwd = [i \in Levels |-> IF i < level
                           THEN [z.fwd[i] EXCEPT ![x] = z.fwd[i][up[i]], ![up[i]] = x] ELSE z.fwd[i]]]

zslMin(z) == z.fwd[0][Header]

\* while (zsl->level > 1 && header->level[zsl->level-1].forward == NULL) zsl->level--
Lowered(z) ==
  [z EXCEPT !.level = CHOOSE l \in 1 .. @ :
     /\ l = 1 \/ z.fwd[l - 1][Header] # 0
     /\ \A m \in (l + 1) .. @ : z.fwd[m - 1][Header] = 0]

\* The pointers of x itself, which nobody reads again, are cleared.
zslDeleteNode(z, x, up) ==
  Lowered([z EXCEPT !.length = @ - 1,
                    !.fwd = [i \in Levels |-> IF i < z.level /\ z.fwd[i][up[i]] = x
                       THEN [z.fwd[i] EXCEPT ![up[i]] = z.fwd[i][x], ![x] = 0] ELSE z.fwd[i]]])

\* The head is unlinked and its memory is not freed.
zslDeleteHead(z) ==
  IF zslMin(z) = 0 THEN z ELSE zslDeleteNode(z, zslMin(z), [i \in Levels |-> Header])

\* The first node with the score of zn is deleted and freed, whichever it is.
zslDelete(z, zn) ==
  LET up == Update(z, z.score[zn])
      x == z.fwd[0][up[0]]
  IN IF x # 0 /\ z.score[zn] = z.score[x] THEN zslDeleteNode(z, x, up) ELSE z

RECURSIVE ListFrom(_, _, _)
ListFrom(z, i, x) == IF z.fwd[i][x] = 0 THEN {} ELSE {z.fwd[i][x]} \cup ListFrom(z, i, z.fwd[i][x])

SkipContents(z) == ListFrom(z, 0, Header)

\* Every level is sorted and part of the one below; level and length are exact.
SkipOK(z) ==
  /\ \A i \in Levels : \A x \in ListFrom(z, i, Header) :
       z.fwd[i][x] # 0 => z.score[x] <= z.score[z.fwd[i][x]]
  /\ \A i \in Levels \ {0} : ListFrom(z, i, Header) \subseteq ListFrom(z, i - 1, Header)
  /\ \A i \in Levels : z.fwd[i][Header] # 0 => i < z.level
  /\ z.level > 1 => z.fwd[z.level - 1][Header] # 0
  /\ z.length = Cardinality(SkipContents(z))
=============================================================================
