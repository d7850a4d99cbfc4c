-------------------------- MODULE MCDeadlockDetect --------------------------
(* Instances of DeadlockDetect for TLC. *)
EXTENDS DeadlockDetect, TLC

LockCall(l) == [op |-> "lock", lock |-> l]
UnlockCall(l) == [op |-> "unlock", lock |-> l]

(* As in the debug main: take one mutex and then another, release both. *)
TwoLocks == {<<LockCall(p[1]), LockCall(p[2]), UnlockCall(p[2]), UnlockCall(p[1])>> :
                p \in {q \in Locks \X Locks : q[1] # q[2]}}

(* One mutex after the other. *)
InTurn == {<<LockCall(p[1]), UnlockCall(p[1]), LockCall(p[2]), UnlockCall(p[2])>> :
              p \in {q \in Locks \X Locks : q[1] # q[2]}}

AtMostOneInTurn ==
    {p \in [Threads -> TwoLocks \cup InTurn] :
        Cardinality({t \in Threads : p[t] \in InTurn}) <= 1}

(* Zeros; a count; a lock_id that is no mutex; the address of a mutex. *)
Leftovers ==
    {[id |-> Nobody, lock |-> Nobody, degress |-> 0]}
        \cup [id : {Nobody}, lock : Locks \cup {Nobody, Other}, degress : {7}]

Symmetry == Permutations(Threads) \cup Permutations(Locks)
=============================================================================
