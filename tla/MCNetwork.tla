------------------------------ MODULE MCNetwork ------------------------------
(***************************************************************************)
(* One instance for TLC of the programs that talk to the network: part     *)
(* says which one runs, the attack detector or the packet path of tcp.c,   *)
(* or one of the servers.  The variables of the others keep their initial  *)
(* values.                                                                 *)
(***************************************************************************)
EXTENDS DdosWindow, UdpStack, Servers

VARIABLE part

-----------------------------------------------------------------------------
(* Names asked for of the HTTP server, and the files it has; bounds.       *)
Asked == {<<"a", "b">>, <<"c">>}
Found == {<<"a", "b">>, <<"c", "b">>}
Conns == [echo |-> 2, http |-> 2, uring |-> 3, poll |-> 3, epoll |-> 3]
Input == [echo |-> <<4, 4>>, http |-> <<2, 2>>, uring |-> <<2, 1, 1>>, poll |-> <<2, 2, 2>>, epoll |-> <<2, 2, 2>>]

(* What happens around the packet path.  The interesting scenarios: two    *)
(* datagrams of every length from one host or two, empty and with a zero   *)
(* byte somewhere; datagrams in one batch with TCP segments and packets    *)
(* for the kernel while the ARP timer fires;                               *)
(* three datagrams for rings of two; an allocation that fails; the servers *)
(* starting up; the interface being set up and down.                       *)
Frame(kind, src, mac, len, zero) ==
  [id |-> 0, kind |-> kind, src |-> src, mac |-> mac, len |-> len, zero |-> zero, port |-> 8889]
Datagram(src, mac, len) == Frame("udp", src, mac, len, 0)
WithZero(src, mac, len, zero) == Frame("udp", src, mac, len, zero)
Scene(ps, t, f, g, c) == [packets |-> ps, timers |-> t, fails |-> f, configs |-> g, cold |-> c]
NotUdp == {Frame(k, 2, 2, 1, 0) : k \in {"tcp", "icmp", "other"}}
Scenes ==
  {Scene(<<Datagram(1, 1, a), Datagram(h, 2, b)>>, 0, 0, 0, FALSE) : a \in {1, 2, 4}, b \in {1, 2, 4}, h \in 1 .. 2}
    \cup {Scene(<<WithZero(1, 1, a, z), Datagram(2, 2, b)>>, 0, 0, 0, FALSE) : a \in {0, 1, 3}, b \in {1, 4}, z \in 1 .. 2}
    \cup {Scene(<<Datagram(1, 1, 1), o>>, 1, 0, 0, FALSE) : o \in NotUdp}
    \cup {Scene(<<o, Datagram(1, 1, 1)>>, 1, 0, 0, FALSE) : o \in NotUdp}
    \cup {Scene(<<Datagram(1, 1, 4), Datagram(2, 2, 2), Datagram(1, 2, 1)>>, 0, 0, 0, FALSE),
          Scene(<<Datagram(1, 1, 1), Datagram(1, 1, 1)>>, 0, 1, 0, FALSE),
          Scene(<<Datagram(1, 1, 1)>>, 0, 0, 0, TRUE),
          Scene(<<Datagram(1, 1, 1), Datagram(2, 2, 1)>>, 0, 0, 2, FALSE)}

-----------------------------------------------------------------------------
(* The choice a program makes in its Init is made only for the one that    *)
(* runs.                                                                   *)
MCInit ==
  /\ part \in {"ddos", "stack", "server"}
  /\ Init /\ UdpInit /\ ServersInit
  /\ part # "stack" => scene = Scene(<<Datagram(1, 1, 1)>>, 0, 0, 0, TRUE)
  /\ part # "server" => program = "echo"

MCNext ==
  \/ part = "ddos" /\ Next /\ UNCHANGED <<part, udpVars, serverVars>>
  \/ part = "stack" /\ UdpNext /\ UNCHANGED <<part, vars, serverVars>>
  \/ part = "server" /\ ServersNext /\ UNCHANGED <<part, vars, udpVars>>

(* The fairness of UdpStack, Reactor and PollServers for the one that runs, *)
(* the HTTP server left out, of which no liveness is stated.               *)
StackRuns == part = "stack" /\ fault = "none"
StackFairness ==
  /\ WF_udpVars(StackRuns /\ Rx) /\ WF_udpVars(StackRuns /\ Tx)
  /\ WF_udpVars(StackRuns /\ PktStep) /\ WF_udpVars(StackRuns /\ AppStep)
  /\ WF_udpVars(StackRuns /\ TcpStarts)
ServerRuns(S) == part = "server" /\ program \in S
ServerFairness ==
  /\ WF_<<socketVars, reactorVars>>(ServerRuns({"echo"}) /\ EpollWait)
  /\ WF_<<socketVars, reactorVars>>(ServerRuns({"echo"}) /\ \E e \in ready : Callback(e))
  /\ WF_<<socketVars, pollVars>>(ServerRuns({"poll", "epoll"}) /\ Wait)
  /\ WF_<<socketVars, pollVars>>(ServerRuns({"poll", "epoll"}) /\ Accept)
  /\ WF_<<socketVars, pollVars>>(ServerRuns({"poll", "epoll"}) /\ (Scan \/ (~Blocked /\ SendReturns) \/ \E fd \in Clients : Read(fd)))

MCSpec ==
  /\ MCInit
  /\ [][MCNext]_<<part, vars, udpVars, serverVars>>
  /\ StackFairness /\ ServerFairness
=============================================================================
