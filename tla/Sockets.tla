------------------------------- MODULE Sockets -------------------------------
(***************************************************************************)
(* What the servers of "5. ..." have in common: the connections as the     *)
(* kernel keeps them and their calls of accept, recv and send see them,    *)
(* and what clients do to them.  peer is "open"; "closed" after a FIN;     *)
(* "doomed" when data has been sent to a closed peer; "broken" once its    *)
(* reset has arrived; "reset" when an open peer aborts; "dead" once the    *)
(* pending error has been reported.                                        *)
(***************************************************************************)
EXTENDS Integers, Sequences, FiniteSets, FiniteSetsExt, SequencesExt

CONSTANTS Listener,    \* descriptor of the listening socket
          Clients,     \* descriptors accept can return
          Names,       \* what an HTTP client can ask for
          MaxConns, MaxInput  \* bounds for each program: connections, inputs of each

\* A line of an HTTP request that is not a GET line; a GET line is the name
\* it asks for, a sequence of characters.
NoGet == <<>>

\* 0 is the standard input.
ASSUME SocketsAssumption ==
  /\ IsFiniteSet(Clients) /\ Clients \subseteq Nat \ {0} /\ Listener \in Nat \ ({0} \cup Clients)
  /\ Names \subseteq Seq(STRING) \ {NoGet}

VARIABLES program,     \* which server runs
          sock,        \* the open connection of a descriptor
          backlog,     \* connections waiting for accept
          born,        \* connections made so far
          ready,       \* what the last poll or epoll_wait reported and is still to be handled
          died         \* "none", "overrun" (an array) or "sigpipe"

socketVars == <<program, sock, backlog, born, ready, died>>

\* id is 0 for a descriptor that is not open; given counts the client's
\* inputs, inq is what has not been read yet, got what has; out is what was
\* answered.
Free == [id |-> 0, inq |-> <<>>, peer |-> "open", got |-> <<>>, out |-> <<>>, given |-> 0]

SocketsInit ==
  /\ program \in {"echo", "http", "uring", "poll", "epoll"}
  /\ sock = [fd \in Clients |-> Free] /\ backlog = 0 /\ born = 0
  /\ ready = {} /\ died = "none"

OpenFds == {fd \in Clients : sock[fd].id # 0}
FreeFds == Clients \ OpenFds

Readable(s) == s.inq # <<>> \/ s.peer # "open"
CanRead(fd) == IF fd = Listener THEN backlog > 0 ELSE Readable(sock[fd])

\* recv with an empty queue: a pending error is reported once, then 0.
RecvFails(s) == s.inq = <<>> /\ s.peer \in {"reset", "broken"}

\* send: SIGPIPE, which the programs do not handle, once the connection is
\* shut down, unless the error is a reset that nobody has been told of.
SendKills(s) == s.peer \in {"broken", "dead"}

AfterSend(s) ==
  CASE s.peer = "closed" -> "doomed" [] s.peer = "reset" -> "dead" [] OTHER -> s.peer

\* s after n of its inputs have been read.
Taken(s, n) == [s EXCEPT !.inq = SubSeq(@, n + 1, Len(@)), !.got = @ \o SubSeq(s.inq, 1, n)]

\* accept takes the oldest waiting connection and the lowest free descriptor.
NewFd == Min(FreeFds)
Accepted(fd) == [sock EXCEPT ![fd].id = born - backlog + 1]

-----------------------------------------------------------------------------
\* The clients and their kernels.
Connect ==
  /\ born < MaxConns[program]
  /\ born' = born + 1 /\ backlog' = backlog + 1
  /\ UNCHANGED sock

\* A byte of an echo server is <<c, n>>, the n-th of the c-th connection; the
\* HTTP server gets lines.
Inputs(s) == IF program = "http" THEN Names \cup {NoGet} ELSE {<<s.id, s.given + 1>>}

ClientSends(fd, item) ==
  LET s == sock[fd]
  IN /\ s.id # 0 /\ s.peer = "open" /\ s.given < MaxInput[program][s.id]
     /\ sock' = [sock EXCEPT ![fd].inq = Append(@, item), ![fd].given = @ + 1]
     /\ UNCHANGED <<backlog, born>>

PeerMoves == {<<"open", "closed">>, <<"open", "reset">>, <<"doomed", "broken">>}

PeerStep(fd, move) ==
  /\ sock[fd].id # 0 /\ sock[fd].peer = move[1]
  /\ sock' = [sock EXCEPT ![fd].peer = move[2]]
  /\ UNCHANGED <<backlog, born>>

ClientStep ==
  /\ died = "none"
  /\ \/ Connect
     \/ \E fd \in Clients : \/ \E item \in Inputs(sock[fd]) : ClientSends(fd, item)
                            \/ \E move \in PeerMoves : PeerStep(fd, move)
  /\ UNCHANGED <<program, ready, died>>
=============================================================================
