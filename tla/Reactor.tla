------------------------------- MODULE Reactor -------------------------------
(***************************************************************************)
(* The single-threaded reactor of reactor.cpp (an echo server) and of      *)
(* httpserver.cpp (the same code with a request parser and sendfile).      *)
(* program says which of the two runs, "echo" or "http".                   *)
(*                                                                         *)
(* rbuffer and wbuffer are kept up to rc and wc, except for the number of  *)
(* lines the parser, which looks for a zero byte, finds in rbuffer.  The   *)
(* HTTP server reads lines, each of one unit of the buffer; recv may end   *)
(* between two lines of a request, not inside one.  What is past the end   *)
(* of an array is not modelled: the run ends there.  The echo server's     *)
(* send does not block: epoll reports "out" only when much more than       *)
(* BufferSize bytes fit; sendfile may, and is one step all the same.       *)
(***************************************************************************)
EXTENDS Sockets

CONSTANTS BlockSize, BufferSize, MaxKeyCount,
          Count,       \* conn->count of the echo server: bytes per recv
          Files        \* names open() finds

\* set_listener takes the listener's slot from the first block.
ASSUME ReactorAssumption ==
  /\ BlockSize \in Nat /\ Listener < BlockSize
  /\ BufferSize \in Nat /\ MaxKeyCount \in Nat /\ Count \in Nat \ {0}

VARIABLES blocks,      \* zv_connblock__header: the list of blocks
          watch        \* epoll set: "in", "out" or "none" for a descriptor

reactorVars == <<blocks, watch>>

Fds == Clients \cup {Listener}

\* A zv_connect_t as new[] leaves it in memory fresh from the kernel.  held is
\* the number of lines in rbuffer up to its first zero byte: rc goes back
\* when a connection ends, the bytes stay.
NewConn == [fd |-> 0, cb |-> "none", rbuf |-> <<>>, wbuf |-> <<>>, held |-> 0,
            resource |-> <<>>, sendfile |-> FALSE, keys |-> 0]

\* zv_connect_openblock.
NewBlock == [i \in 0 .. BlockSize - 1 |-> NewConn]

\* zv_connect_idx: blocks are appended until the one of fd exists, ...
Grown(bs, fd) ==
  [i \in 1 .. Max({Len(bs), (fd \div BlockSize) + 1}) |->
     IF i \in DOMAIN bs THEN bs[i] ELSE NewBlock]

\* ... and the list is followed to it.
SlotOf(bs, fd) == Grown(bs, fd)[(fd \div BlockSize) + 1][fd % BlockSize]

Conn(fd) == SlotOf(blocks, fd)

WithConn(bs, fd, c) == [Grown(bs, fd) EXCEPT ![(fd \div BlockSize) + 1][fd % BlockSize] = c]

ReadyEvents == {<<fd, "in">> : fd \in {f \in Fds : watch[f] = "in" /\ CanRead(f)}}
                 \cup {<<fd, "out">> : fd \in {f \in Fds : watch[f] = "out"}}

\* zv_init_reactor: one block.
InitReactor == <<NewBlock>>

\* set_listener uses the head block directly.
SetListener(bs) == [bs EXCEPT ![1][Listener] = [@ EXCEPT !.fd = Listener, !.cb = "accept"]]

ReactorInit ==
  /\ blocks = SetListener(InitReactor)
  /\ watch = [fd \in Fds |-> IF fd = Listener THEN "in" ELSE "none"]

-----------------------------------------------------------------------------
\* The callbacks.  Each is called with the slot zv_connect_idx returns.

\* What accept_cb sets in the slot; the HTTP server makes a new table too.
EchoAccepted(c, fd) == [c EXCEPT !.fd = fd, !.cb = "recv"]
HttpAccepted(c, fd) == [c EXCEPT !.fd = fd, !.cb = "recv", !.keys = 0]

\* accept takes the lowest free descriptor, or fails when there is none.
AcceptCb ==
  LET fd == NewFd
      c == Conn(fd)
  IN /\ IF FreeFds = {} THEN UNCHANGED <<blocks, watch, sock, backlog>>
        ELSE /\ backlog' = backlog - 1
             /\ blocks' = WithConn(blocks, fd, IF program = "http" THEN HttpAccepted(c, fd) ELSE EchoAccepted(c, fd))
             /\ watch' = [watch EXCEPT ![fd] = "in"]
             /\ sock' = Accepted(fd)
     /\ UNCHANGED died

\* Mutant: rc is not set back.
ResetKeepsInput(c) == [c EXCEPT !.fd = -1, !.wbuf = <<>>]

\* What the close branch of recv_cb resets in the slot.
Reset(c) == [c EXCEPT !.fd = -1, !.rbuf = <<>>, !.wbuf = <<>>]

\* The echo server reads count bytes and copies all of rbuffer.
EchoReceived(c, inq) ==
  LET in == SubSeq(inq, 1, Min({Count, Len(inq)}))
  IN [c EXCEPT !.rbuf = @ \o in, !.wbuf = c.rbuf \o in, !.cb = "send"]

\* recv puts lines at rc, over what was there.
Stored(c, inq) ==
  LET r == c.rbuf \o inq
  IN [c EXCEPT !.rbuf = r, !.held = Max({@, Min({BufferSize, Len(r)})})]

\* put_kvpair: readline goes on to the first zero byte, so the lines of
\* every request of this connection and what older ones left behind them go
\* into the table again.  Nobody compares count with maxnum.
PutLines(c) == [c EXCEPT !.keys = @ + c.held]

\* The name is copied over the old one without an end mark.
Overlay(new, old) == new \o SubSeq(old, Len(new) + 1, Len(old))

\* zv_http_request: the buffer is parsed from its beginning.  Without a GET
\* the resource stays what the slot's earlier connections made it.
HttpRequest(c) ==
  [PutLines(c) EXCEPT !.resource = IF c.rbuf[1] = NoGet THEN @ ELSE Overlay(c.rbuf[1], @)]

HttpReceived(c, inq) == [HttpRequest(Stored(c, inq)) EXCEPT !.cb = "send"]

\* An array is left: rbuffer (the HTTP server also needs a zero byte in it),
\* or the table.
Overruns(c) ==
  \/ Len(c.rbuf) > BufferSize
  \/ program = "http" /\ (Len(c.rbuf) = BufferSize \/ c.keys > MaxKeyCount)

RecvCb(fd) ==
  LET s == sock[fd]
      c == Conn(fd)
      d == IF program = "http" THEN HttpReceived(c, s.inq) ELSE EchoReceived(c, s.inq)
      n == Len(d.rbuf) - Len(c.rbuf)
  IN CASE RecvFails(s) -> /\ sock' = [sock EXCEPT ![fd].peer = "dead"]
                          /\ UNCHANGED <<blocks, watch, died>>
       [] s.inq = <<>> /\ ~RecvFails(s) ->
            /\ blocks' = WithConn(blocks, fd, Reset(c))
            /\ watch' = [watch EXCEPT ![fd] = "none"]
            /\ sock' = [sock EXCEPT ![fd] = Free]
            /\ UNCHANGED died
       [] s.inq # <<>> ->
            /\ blocks' = WithConn(blocks, fd, d)
            /\ watch' = [watch EXCEPT ![fd] = "out"]
            /\ sock' = [sock EXCEPT ![fd] = Taken(s, n)]
            /\ died' = IF Overruns(d) THEN "overrun" ELSE died

\* send(wbuffer, wc) and, in the HTTP server, sendfile of body, which meets
\* what the first call has provoked: the reset of a peer that is gone may
\* have arrived, one that was pending has been reported.  back: the slot
\* goes back to recv_cb.
Sent(fd, c, body, back) ==
  LET s == sock[fd]
      twice == body # <<>>
  IN
  \/ /\ SendKills(s) \/ (twice /\ s.peer \in {"closed", "doomed", "reset"})
     /\ died' = "sigpipe" /\ UNCHANGED <<blocks, watch, sock>>
  \/ /\ ~SendKills(s) /\ ~(twice /\ s.peer = "reset")
     /\ sock' = [sock EXCEPT ![fd].peer = AfterSend(s), ![fd].out = <<c.wbuf, body>>]
     /\ blocks' = WithConn(blocks, fd, IF back THEN [c EXCEPT !.cb = "recv"] ELSE c)
     /\ watch' = IF back THEN [watch EXCEPT ![fd] = "in"] ELSE watch
     /\ UNCHANGED died

EchoSendCb(fd) == Sent(fd, Conn(fd), <<>>, TRUE)

\* zv_http_response: header of the file, or nothing new if there is none.
HttpResponse(c) ==
  IF c.resource \in Files THEN [c EXCEPT !.wbuf = c.resource, !.sendfile = TRUE] ELSE c

\* A slot that has sent a file before and does not find this one returns
\* before it goes back to recv_cb.
HttpSendCb(fd) ==
  LET c == HttpResponse(Conn(fd))
      noFile == c.sendfile /\ c.resource \notin Files
  IN Sent(fd, c, IF c.sendfile /\ ~noFile THEN c.resource ELSE <<>>, ~noFile)

-----------------------------------------------------------------------------
\* The loop of main: epoll_wait, then one callback per event.
EpollWait ==
  /\ died = "none" /\ ready = {} /\ ReadyEvents # {}
  /\ ready' = ReadyEvents
  /\ UNCHANGED <<program, sock, backlog, born, died, reactorVars>>

Callback(e) ==
  /\ died = "none" /\ e \in ready
  /\ ready' = ready \ {e}
  /\ CASE Conn(e[1]).cb = "accept" -> AcceptCb
       [] Conn(e[1]).cb = "recv" -> RecvCb(e[1]) /\ UNCHANGED backlog
       [] Conn(e[1]).cb = "send" /\ program = "echo" -> EchoSendCb(e[1]) /\ UNCHANGED backlog
       [] Conn(e[1]).cb = "send" /\ program = "http" -> HttpSendCb(e[1]) /\ UNCHANGED backlog
  /\ UNCHANGED <<program, born>>

\* The program does not come back from an overrun or a signal, and waits in
\* epoll_wait when no client does anything.
ReactorIdle == (died # "none" \/ ready \cup ReadyEvents = {}) /\ UNCHANGED <<socketVars, reactorVars>>

ReactorNext ==
  \/ EpollWait
  \/ \E e \in ready : Callback(e)
  \/ ClientStep /\ UNCHANGED reactorVars
  \/ ReactorIdle

\* The thread of main is scheduled and epoll_wait returns when it can.
ReactorFairness == /\ WF_<<socketVars, reactorVars>>(EpollWait)
                   /\ WF_<<socketVars, reactorVars>>(\E e \in ready : Callback(e))

-----------------------------------------------------------------------------
\* What is reported for a descriptor is what its slot's callback is for, in
\* the interest set and in events not handled yet, though handlers of one
\* batch close and reuse descriptors: accept_cb and recv_cb get "in" only.
CallbackMatchesInterest ==
  /\ \A fd \in Clients : watch[fd] # "none" =>
       /\ sock[fd].id # 0 /\ Conn(fd).fd = fd
       /\ Conn(fd).cb = IF watch[fd] = "in" THEN "recv" ELSE "send"
  /\ \A e \in ready : watch[e[1]] = e[2]

\* A connection is answered from its own input although its slot and the
\* buffers were another's before: the echo server sends all that this
\* connection has sent (again with every answer, rc is not reset), the
\* HTTP server, if the first line it got is a GET, the header and file of
\* that name, which may have the end of an older, longer name behind it; and
\* an array is only overrun when the input of one connection fills rbuffer
\* or comes often enough for as many full buffers to fill the table.
AnswersFromOwnInput ==
  /\ \A fd \in OpenFds :
       LET s == sock[fd] IN
       IF program = "echo" THEN watch[fd] = "in" /\ s.got # <<>> => s.out[1] = s.got
       ELSE s.out # <<>> =>
              /\ s.out[1] # <<>> /\ s.got[1] # NoGet => IsPrefix(s.got[1], s.out[1])
              /\ s.out[2] \in {<<>>, s.out[1]}
  /\ died = "overrun" => \E fd \in OpenFds :
       LET n == Len(sock[fd].got) IN
       \/ n > BufferSize
       \/ program = "http" /\ (n = BufferSize \/ n * BufferSize > MaxKeyCount)

\* The server always catches up: again and again every byte of a client
\* that stays has been echoed, however the others behave, unless the
\* program ends; no connection starves in a batch or hangs after one.
EchoArrives ==
  []<>(program = "echo" => \/ died # "none"
                         \/ \A fd \in OpenFds : LET s == sock[fd] IN
                              s.peer = "open" /\ s.given > 0 => s.out # <<>> /\ Len(s.out[1]) = s.given)
=============================================================================
