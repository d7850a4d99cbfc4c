----------------------------- MODULE UringServer -----------------------------
(***************************************************************************)
(* uring_server.cpp: an echo server on io_uring.  One operation at a time  *)
(* per descriptor goes round through the submission queue, the kernel and  *)
(* the completion queue; all receives and sends share one buffer.          *)
(***************************************************************************)
EXTENDS Sockets

CONSTANT PeekMax     \* completions one io_uring_peek_batch_cqe returns

ASSUME UringAssumption == PeekMax \in Nat \ {0}

VARIABLES sq,        \* operations prepared and not submitted
          flight,    \* operations the kernel has
          cq,        \* completions from the queue's head on: [op, res]
          pc,        \* "submit", "wait" or "batch"
          batch, next,  \* cqes[] and i of the loop
          shared,    \* the buffer of all receives and sends
          mixed,     \* the buffer was overwritten while data in it was due to be sent
          skipped,   \* the head was moved past completions that were not peeked
          short,     \* connections of which a send took only a part
          deaf       \* a failed accept was not made again

uringVars == <<sq, flight, cq, pc, batch, next, shared, mixed, skipped, short, deaf>>

Op(event, fd, n) == [event |-> event, fd |-> fd, len |-> n]
AcceptOp(fd) == Op("accept", fd, 0)
RecvOp(fd) == Op("read", fd, 0)

\* main takes one entry more than it prepares: a no-op, whose user_data is
\* zero and reads as an accept on descriptor 0, the standard input, which is
\* not a socket.
Stdin == 0
NopOp == Op("accept", Stdin, -1)

\* The first accept is prepared before the loop.
UringInit ==
  /\ sq = {NopOp, AcceptOp(Listener)} /\ flight = {} /\ cq = <<>> /\ pc = "submit" /\ batch = <<>> /\ next = 1
  /\ shared = <<>>
  /\ mixed = FALSE /\ skipped = FALSE /\ short = {} /\ deaf = FALSE

\* Operations that never wait complete while they are submitted.
AtOnce ==
  IF NopOp \in sq THEN <<[op |-> NopOp, res |-> 0]>>
  ELSE IF AcceptOp(Stdin) \in sq
  THEN <<[op |-> AcceptOp(Stdin), res |-> -1], [op |-> RecvOp(Stdin), res |-> -1]>>
  ELSE <<>>

Submit ==
  /\ pc = "submit"
  /\ flight' = flight \cup {o \in sq : o.fd # Stdin} /\ cq' = cq \o AtOnce
  /\ sq' = {} /\ pc' = "wait"
  /\ UNCHANGED <<batch, next, shared, mixed, skipped, short, deaf, socketVars>>

\* wait_cqe and peek_batch_cqe.
Peek ==
  /\ pc = "wait" /\ cq # <<>>
  /\ batch' = SubSeq(cq, 1, Min({Len(cq), PeekMax})) /\ next' = 1 /\ pc' = "batch"
  /\ UNCHANGED <<sq, flight, cq, shared, mixed, skipped, short, deaf, socketVars>>

\* Mutant: a connection that ended is written to.
PreparedAtEnd(e) ==
  CASE e.op.event = "accept" -> {AcceptOp(e.op.fd), RecvOp(e.res)}
    [] e.op.event = "read"   -> {Op("write", e.op.fd, e.res)}
    [] e.op.event = "write"  -> {RecvOp(e.op.fd)}

\* What a completion makes the loop prepare.
Prepared(e) ==
  CASE e.op.event = "accept" -> {AcceptOp(e.op.fd), RecvOp(e.res)}
    [] e.op.event = "read"   -> IF e.res > 0 THEN {Op("write", e.op.fd, e.res)} ELSE {}
    [] e.op.event = "write"  -> {RecvOp(e.op.fd)}

\* One pass of the for loop.  cq_advance(cqecount) is inside it: the whole
\* batch leaves the queue with every completion handled, unless the
\* completion is a failed accept, which `continue` leaves where it is.
HandleCqe ==
  LET e == batch[next]
      n == Len(batch)
      failed == e.op.event = "accept" /\ e.res < 0
      earlier == \E i \in 1 .. next - 1 : batch[i].op.event # "accept" \/ batch[i].res >= 0
  IN /\ pc = "batch" /\ ~skipped
     /\ sq' = IF failed THEN sq ELSE sq \cup Prepared(e)
     /\ sock' = IF e.op.event = "read" /\ e.res = 0 THEN [sock EXCEPT ![e.op.fd] = Free] ELSE sock
     /\ cq' = IF failed THEN cq ELSE SubSeq(cq, n + 1, Len(cq))
     /\ skipped' = (~failed /\ earlier)
     /\ deaf' = (deaf \/ (failed /\ e.op.fd = Listener))
     /\ next' = next + 1
     /\ pc' = IF next = n THEN "submit" ELSE "batch"
     /\ UNCHANGED <<flight, batch, shared, mixed, short, program, backlog, born, ready, died>>

-----------------------------------------------------------------------------
\* The kernel completes an operation, the clients act.

\* Data of another connection that is still to be sent from the buffer.
Waiting(fd) ==
  \/ \E o \in sq \cup flight : o.event = "write" /\ o.fd # fd
  \/ \E i \in DOMAIN cq : cq[i].op.event = "read" /\ cq[i].res > 0 /\ cq[i].op.fd # fd
  \/ pc = "batch" /\ \E i \in next .. Len(batch) :
       batch[i].op.event = "read" /\ batch[i].res > 0 /\ batch[i].op.fd # fd

Completed(o, r) == /\ flight' = flight \ {o}
                   /\ cq' = Append(cq, [op |-> o, res |-> r])
                   /\ UNCHANGED <<sq, pc, batch, next, skipped, deaf, program, born, ready, died>>

CompleteAccept ==
  /\ AcceptOp(Listener) \in flight /\ backlog > 0
  /\ IF FreeFds = {}
     THEN Completed(AcceptOp(Listener), -1) /\ UNCHANGED <<sock, backlog>>
     ELSE /\ Completed(AcceptOp(Listener), NewFd)
          /\ sock' = Accepted(NewFd)
          /\ backlog' = backlog - 1
  /\ UNCHANGED <<shared, mixed, short>>

CompleteRead(fd) ==
  LET s == sock[fd]
      n == Len(s.inq)
  IN /\ RecvOp(fd) \in flight /\ Readable(s)
     /\ Completed(RecvOp(fd), IF RecvFails(s) THEN -1 ELSE n)
     /\ sock' = [sock EXCEPT ![fd] = IF RecvFails(s) THEN [s EXCEPT !.peer = "dead"] ELSE Taken(s, n)]
     /\ shared' = s.inq \o SubSeq(shared, n + 1, Len(shared))
     /\ mixed' = (mixed \/ (n > 0 /\ Waiting(fd)))
     /\ UNCHANGED <<backlog, short>>

\* io_uring sends without raising SIGPIPE, and n of the bytes: what is left
\* of them is forgotten, for the loop does not look at the result.
CompleteWrite(o, n) ==
  LET s == sock[o.fd]
  IN /\ o \in flight /\ o.event = "write"
     /\ Completed(o, IF SendKills(s) THEN -1 ELSE n)
     /\ sock' = [sock EXCEPT ![o.fd].peer = AfterSend(s),
                             ![o.fd].out = IF s.peer = "open" THEN @ \o SubSeq(shared, 1, n) ELSE @]
     /\ short' = IF n < o.len THEN short \cup {s.id} ELSE short
     /\ UNCHANGED <<shared, backlog, mixed>>

\* Nothing completes any more, or the head of the queue is beyond its tail.
UringIdle == (skipped \/ (pc = "wait" /\ cq = <<>>)) /\ UNCHANGED <<socketVars, uringVars>>

UringNext ==
  \/ Submit \/ Peek \/ HandleCqe
  \/ ~skipped /\ \/ CompleteAccept
                 \/ \E o \in flight : \E n \in 1 .. o.len : CompleteWrite(o, n)
                 \/ \E fd \in Clients : CompleteRead(fd)
                 \/ ClientStep /\ UNCHANGED uringVars
  \/ UringIdle

-----------------------------------------------------------------------------
\* Completions nobody has handled: the rest of the batch, and the queue
\* without the batch.
Unhandled ==
  LET inQueue == \A i \in 1 .. next - 1 : batch[i].op.event = "accept" /\ batch[i].res < 0
  IN IF pc # "batch" THEN cq
     ELSE SubSeq(batch, next, Len(batch)) \o (IF inQueue THEN SubSeq(cq, Len(batch) + 1, Len(cq)) ELSE cq)

\* Operations that hold fd: prepared, with the kernel, or completed, the
\* accept that made fd among them.
Operations(fd) ==
  Cardinality({o \in sq : o.fd = fd}) + Cardinality({o \in flight : o.fd = fd})
    + Cardinality({i \in DOMAIN Unhandled :
         fd \in {Unhandled[i].op.fd} \cup (IF Unhandled[i].op.event = "accept" THEN {Unhandled[i].res} ELSE {})})

\* As long as the head of the queue is right, every open connection is held
\* by exactly one operation, which is why a descriptor is never closed under
\* an operation, and by none only after its recv failed (it is then never
\* closed); the listener by one, until accept fails.
OneOperation ==
  ~skipped =>
    /\ \A fd \in Clients : \/ Operations(fd) = IF sock[fd].id # 0 THEN 1 ELSE 0
                           \/ Operations(fd) = 0 /\ sock[fd].peer = "dead"
    /\ Operations(Listener) = 1 \/ deaf

\* The shared buffer: a client gets its own bytes back, in order, as long as
\* no other connection's bytes came in between their receipt and their
\* sending and no send was short; after a short send it may miss some.
OwnBytesBack ==
  ~mixed /\ ~skipped => \A fd \in OpenFds :
    LET s == sock[fd]
    IN /\ ToSet(s.out) \subseteq ToSet(s.got)
       /\ s.id \notin short => IsPrefix(s.out, s.got)
=============================================================================
