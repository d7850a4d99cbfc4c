SPECIFICATION Spec
CONSTANTS
    Threads = {t1, t2, t3}
    Locks = {l1, l2, l3}
    Programs <- AtMostOneInTurn
    Overlaps = {TRUE, FALSE}
    Garbage <- Leftovers
    MaxSlots = 8
    Nobody = Nobody
    Other = Other
INVARIANT SearchIsRight
 
SYMMETRY Symmetry
\* The observed program may deadlock, and ends.
CHECK_DEADLOCK FALSE
