---------------------------- MODULE MCTcpServer ----------------------------
(* Instances of TcpServer for TLC. *)
EXTENDS TcpServer, TLC

CONSTANTS c1, c2

(* One client with two segments that fit the program's buffer of two       *)
(* bytes, or one that nrecv has to cut.                                    *)
OneClient ==
    [clients : {{c1}}, segLen : {2}, backlog : {1}, segs : {c1 :> 2}]
    \cup [clients : {{c1}}, segLen : {3}, backlog : {1}, segs : {c1 :> 1}]

(* A client with data and one without, one after the other; both waiting   *)
(* for naccept.                                                            *)
TwoClients ==
    [clients : {{c1, c2}}, segLen : {1}, backlog : {1}, segs : {c1 :> 1 @@ c2 :> 0}]
    \cup [clients : {{c1, c2}}, segLen : {1}, backlog : {2}, segs : {c1 :> 0 @@ c2 :> 0}]

OneOrTwoClients == OneClient \cup TwoClients
=============================================================================
