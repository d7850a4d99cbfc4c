----------------------------- MODULE PollServers -----------------------------
(***************************************************************************)
(* The two loop servers without callbacks: the echo server on poll of      *)
(* multi_io.cpp and the printing server on epoll of epoll.cpp.  program    *)
(* says which one runs, "poll" or "epoll".  An accept that fails makes     *)
(* multi_io.cpp write fds[-1].                                             *)
(***************************************************************************)
EXTENDS Sockets

VARIABLES watched,   \* descriptors in fds[] (fds[i].fd = i) or in the epoll set
          maxfd,     \* poll: the highest index used so far
          accepted,  \* poll: the accept of this pass has been done
          sending    \* poll: the descriptor on which send blocks, or 0

pollVars == <<watched, maxfd, accepted, sending>>

PollInit == watched = {Listener} /\ maxfd = Listener /\ accepted = FALSE /\ sending = 0

\* poll(fds, maxfd + 1, -1) looks at the entries up to maxfd, epoll_wait at
\* the whole set.
ReadyNow == {fd \in watched : CanRead(fd) /\ (program = "poll" => fd <= maxfd)}

Wait ==
  /\ died = "none" /\ sending = 0 /\ ready = {} /\ ReadyNow # {}
  /\ ready' = ReadyNow /\ accepted' = FALSE
  /\ UNCHANGED <<program, watched, maxfd, sending, sock, backlog, born, died>>

\* Mutant: maxfd is not raised.
NewMaxStale(fd) == maxfd

NewMax(fd) == Max({fd, maxfd})

\* accept puts the new descriptor into fds[] and raises maxfd.  The pass
\* ends when nothing else is ready; otherwise the listener is still among
\* the entries the loop looks at.
Accept ==
  LET fd == NewFd
      failed == FreeFds = {}
  IN /\ died = "none" /\ sending = 0 /\ Listener \in ready /\ ~accepted
     /\ watched' = IF failed THEN watched ELSE watched \cup {fd}
     /\ maxfd' = IF failed \/ program = "epoll" THEN maxfd ELSE NewMax(fd)
     /\ sock' = IF failed THEN sock ELSE Accepted(fd)
     /\ backlog' = IF failed THEN backlog ELSE backlog - 1
     /\ died' = IF failed /\ program = "poll" THEN "overrun" ELSE died
     /\ ready' = IF program = "epoll" \/ ready = {Listener} THEN ready \ {Listener} ELSE ready
     /\ accepted' = (program = "poll")
     /\ UNCHANGED <<program, sending, born>>

\* All that was read has been sent: the poll server answers nothing else.
SentAll(s) == [s EXCEPT !.peer = AfterSend(s), !.out = s.got]

\* The loop over the entries of poll: the lowest ready one.  A recv that
\* fails, as that of the listener does, is followed by a send all the same,
\* which raises SIGPIPE.  The loop is left when a connection is closed.  send
\* blocks while the buffers of a client that does not read are full.
Scan ==
  LET fd == Min(ready)
      s == sock[fd]
      n == Len(s.inq)
  IN /\ died = "none" /\ sending = 0 /\ program = "poll" /\ ready # {}
     /\ Listener \in ready => accepted
     /\ IF fd = Listener \/ RecvFails(s) \/ (n > 0 /\ SendKills(s))
        THEN died' = "sigpipe" /\ UNCHANGED <<watched, ready, sending, sock>>
        ELSE /\ watched' = IF n = 0 THEN watched \ {fd} ELSE watched
             /\ ready' = IF n = 0 THEN {} ELSE ready \ {fd}
             /\ sending' \in IF n > 0 /\ s.peer = "open" THEN {0, fd} ELSE {0}
             /\ sock' = [sock EXCEPT ![fd] = CASE n = 0 -> Free
                           [] n > 0 /\ sending' = 0 -> SentAll(Taken(s, n))
                           [] n > 0 /\ sending' # 0 -> Taken(s, n)]
             /\ UNCHANGED died
     /\ UNCHANGED <<program, maxfd, accepted, backlog, born>>

\* send returns when the client has read, or with an error when it is gone;
\* the error stays pending if some of the bytes had been taken.
SendReturns ==
  LET s == sock[sending]
  IN /\ died = "none" /\ sending # 0
     /\ \/ s.peer = "open" /\ sock' = [sock EXCEPT ![sending] = SentAll(s)]
        \/ s.peer # "open" /\ \E p \in {s.peer, AfterSend(s)} : sock' = [sock EXCEPT ![sending].peer = p]
     /\ sending' = 0
     /\ UNCHANGED <<program, watched, maxfd, accepted, backlog, born, ready, died>>

\* epoll.cpp prints what it reads and answers nothing.
Read(fd) ==
  LET s == sock[fd]
      n == Len(s.inq)
  IN /\ died = "none" /\ program = "epoll" /\ fd \in ready
     /\ ready' = ready \ {fd}
     /\ watched' = IF n = 0 /\ ~RecvFails(s) THEN watched \ {fd} ELSE watched
     /\ sock' = [sock EXCEPT ![fd] = CASE RecvFails(s) -> [s EXCEPT !.peer = "dead"]
                                       [] n = 0 /\ ~RecvFails(s) -> Free
                                       [] n > 0 -> Taken(s, n)]
     /\ UNCHANGED <<program, maxfd, accepted, sending, backlog, born, died>>

PollIdle == (died # "none" \/ sending # 0 \/ ready \cup ReadyNow = {}) /\ UNCHANGED <<socketVars, pollVars>>

PollNext ==
  \/ Wait \/ Accept \/ Scan \/ SendReturns
  \/ \E fd \in Clients : Read(fd)
  \/ ClientStep /\ UNCHANGED pollVars
  \/ PollIdle

\* The client whose buffers are full stays, and owes nobody to read.
Blocked == sending # 0 /\ sock[sending].peer = "open"

\* The thread of main is scheduled, and the calls return when they can; a
\* send that waits for a client that stays may never.
PollFairness == /\ WF_<<socketVars, pollVars>>(Wait) /\ WF_<<socketVars, pollVars>>(Accept)
                /\ WF_<<socketVars, pollVars>>(Scan \/ (~Blocked /\ SendReturns) \/ \E fd \in Clients : Read(fd))

-----------------------------------------------------------------------------
\* A descriptor is watched exactly while its connection is open, and only
\* descriptors that are open have an event waiting: a pass that closes one
\* is left, and one that accepts does not meet the new one.
WatchedAreOpen ==
  /\ watched = OpenFds \cup {Listener} /\ ready \subseteq watched
  /\ program = "poll" => \A fd \in watched : fd <= maxfd

\* The server always catches up: again and again everything a client that
\* stays has sent is read, and echoed by the poll server, although the loop
\* is left at every close, unless the server ends or waits for ever for a
\* client that stays and does not read.
InputIsServed ==
  \/ <>[]Blocked
  \/ []<>(\/ died # "none"
       \/ \A fd \in OpenFds : LET s == sock[fd] IN
            s.peer = "open" => Len(s.got) = s.given /\ (program = "poll" => Len(s.out) = s.given))
=============================================================================
