----------------------------- MODULE MemHooks -----------------------------
(***************************************************************************)
(* The leak detector memleak.cpp (the variant that is compiled): malloc    *)
(* and free are replaced, every block gets a file ./mem/<address>.mem, and *)
(* free removes it; what is left in ./mem at the end is reported as leaks. *)
(* The flags keep the calls that the hooks themselves cause from being     *)
(* recorded.  One thread, as in the program.                               *)
(***************************************************************************)
EXTENDS Integers, FiniteSets

CONSTANTS Addresses, NullPointer

VARIABLES enable_free_hook,
          mine,        \* blocks the program holds
          inside,      \* blocks of the library: the FILE of each record
          mem,         \* the addresses with a file in ./mem
          lost         \* pointers the program freed and that stayed allocated

hookVars == <<enable_free_hook, mine, inside, mem, lost>>

HooksInit == /\ enable_free_hook = TRUE
             /\ mine = {} /\ inside = {} /\ mem = {} /\ lost = {}

Free == Addresses \ (mine \cup inside \cup lost)

(* malloc: the record is written while the hook is off, so that what fopen *)
(* allocates is not recorded; the file is not closed, and that block stays.*)
hook_malloc ==
    \E ptr \in Free : \E fp \in Free \ {ptr} :
        /\ mine' = mine \cup {ptr}
        /\ inside' = inside \cup {fp}
        /\ mem' = mem \cup {ptr}
        /\ UNCHANGED <<enable_free_hook, lost>>

(* free with the hook on, of a recorded block. *)
hook_free(ptr) ==
    /\ enable_free_hook /\ ptr \in mem
    /\ mem' = mem \ {ptr} /\ mine' = mine \ {ptr}
    /\ UNCHANGED <<enable_free_hook, inside, lost>>

(* No record, as for free(NULL): "too much free", and the hook stays off.  *)
too_much_free(ptr) ==
    /\ enable_free_hook /\ ptr \notin mem
    /\ enable_free_hook' = FALSE
    /\ mine' = mine \ {ptr} /\ lost' = lost \cup ({ptr} \cap mine)
    /\ UNCHANGED <<inside, mem>>

(* free with the hook off: the record, if any, stays. *)
plain_free(ptr) ==
    /\ ~enable_free_hook
    /\ mine' = mine \ {ptr}
    /\ UNCHANGED <<enable_free_hook, inside, mem, lost>>

HooksNext ==
    \/ hook_malloc
    \/ \E ptr \in mine \cup {NullPointer} : hook_free(ptr) \/ too_much_free(ptr) \/ plain_free(ptr)

HooksSpec == HooksInit /\ [][HooksNext]_hookVars

(* No leak is missed: every block the program holds has its file, also     *)
(* when its address was used before.  As long as only recorded pointers    *)
(* were freed, no file is left for a block that is gone.                   *)
LeaksListed ==
    /\ mine \subseteq mem /\ lost = {}
    /\ enable_free_hook => mem = mine
=============================================================================
