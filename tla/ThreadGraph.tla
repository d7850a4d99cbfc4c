---------------------------- MODULE ThreadGraph ----------------------------
(***************************************************************************)
(* The graph program graph.c: vertices in an array, a list of successors   *)
(* for each, and the depth first search that prints what it takes for a    *)
(* deadlock.  DeadlockDetect uses the same graph to look for cycles; here  *)
(* the search also keeps path, and the property is about what is printed.  *)
(***************************************************************************)
EXTENDS Integers, Sequences, FiniteSets, SequencesExt, FiniteSetsExt

CONSTANTS Vertices, MaxEdges   \* MaxEdges bounds the edges present together

VARIABLE tg    \* [list, next]: the vertices in array order, and their successors

Graphs == [list : Seq(Vertices), next : [Vertices -> Seq(Vertices)]]

(* 0 for -1. *)
search_vertex(g, id) == SelectInSeq(g.list, LAMBDA v : v = id)

add_vertex(g, id) == IF search_vertex(g, id) = 0 THEN [g EXCEPT !.list = Append(@, id)] ELSE g

add_edge(g, from, to) ==
    [add_vertex(add_vertex(g, from), to) EXCEPT !.next[from] = Append(@, to)]

(* The walk starts at the vertex itself. *)
verify_edge(g, i, j) == search_vertex(g, i) # 0 /\ (i = j \/ j \in ToSet(g.next[i]))

remove_edge(g, from, to) ==
    IF search_vertex(g, from) # 0 /\ search_vertex(g, to) # 0
    THEN [g EXCEPT !.next[from] = RemoveFirst(@, to)] ELSE g

-----------------------------------------------------------------------------
(* The search: visited, path[0 .. k-1] and the paths printed so far. *)

print_deadlock(st) == [st EXCEPT !.printed = @ \cup {st.path}]

Visit(st, v) == [st EXCEPT !.path = Append(@, v)]

(* k--, after DFS returned. *)
Back(st) == [st EXCEPT !.path = Front(@)]

RECURSIVE DFS(_, _, _)
DFS(g, v, st) ==
    IF v \in st.visited
    THEN print_deadlock(Visit(st, v))
    ELSE FoldLeft(LAMBDA a, w : Back(DFS(g, w, a)),
                  Visit([st EXCEPT !.visited = @ \cup {v}], v), g.next[v])

(* Before each successor, visited is cleared but for the start, and path   *)
(* is cut back to it.                                                      *)
search_for_cycle(g, v) ==
    UNION {DFS(g, w, [visited |-> {v}, path |-> <<v>>, printed |-> {}]).printed :
               w \in ToSet(g.next[v])}

-----------------------------------------------------------------------------
GraphInit == tg = [list |-> <<>>, next |-> [v \in Vertices |-> <<>>]]

NumEdges == MapThenSumSet(LAMBDA v : Len(tg.next[v]), Vertices)

(* main, and the wrappers of the detector, add no edge twice. *)
GraphNext ==
    \/ \E v \in Vertices : tg' = add_vertex(tg, v)
    \/ \E v, w \in Vertices :
          \/ ~verify_edge(tg, v, w) /\ v # w /\ NumEdges < MaxEdges /\ tg' = add_edge(tg, v, w)
          \/ w \in ToSet(tg.next[v]) /\ tg' = remove_edge(tg, v, w)

-----------------------------------------------------------------------------
(* v is on a cycle: every set that holds its successors and is closed      *)
(* under successors holds v.                                               *)
OnCycle(v) ==
    \A c \in SUBSET Vertices :
        (\A u \in c \cup {v} : ToSet(tg.next[u]) \subseteq c) => v \in c

(* What is printed is a walk along edges from the start that repeats no    *)
(* vertex but the last and so fits into path, and one that comes back to   *)
(* the start is printed exactly if the start is on a cycle.                *)
CyclesPrinted ==
    /\ tg \in Graphs /\ IsInjective(tg.list)
    /\ \A v \in ToSet(tg.list) :
          LET printed == search_for_cycle(tg, v)
          IN  /\ \A p \in printed :
                    /\ p[1] = v /\ IsInjective(Front(p)) /\ Len(p) <= Len(tg.list) + 1
                    /\ \A i \in 1 .. (Len(p) - 1) : p[i + 1] \in ToSet(tg.next[p[i]])
              /\ (\E p \in printed : Last(p) = v) <=> OnCycle(v)
=============================================================================
