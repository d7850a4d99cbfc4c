------------------------------ MODULE TcpServer ------------------------------
(***************************************************************************)
(* The TCP half of the user-space network stack tcp.c: the table of        *)
(* control blocks (tcb_set), the descriptor bitmap, the blocking socket    *)
(* calls as tcp_server_entry uses them (an echo server that serves one     *)
(* connection at a time), and the packet thread that runs ng_tcp_process   *)
(* and ng_tcp_out.  The two threads share the table and the control blocks *)
(* without a lock; the mutex and condition of a stream only pair the wait  *)
(* in naccept/nrecv with a signal.  Sequence numbers are counted from the  *)
(* initial ones: the code adds to them and copies them but never compares. *)
(*                                                                         *)
(* Remote clients and the network (external) are ordinary TCP clients on a *)
(* path that keeps packets in order.  rte_malloc and rte_ring_create       *)
(* succeed.                                                                *)
(***************************************************************************)
EXTENDS Integers, Sequences, FiniteSets, SequencesExt

CONSTANTS Conns,       \* the client end points <<sip, sport>>, each connects once
          Fds,         \* the descriptors of fd_table, from DEFAULT_FD_NUM on
          RingSize,    \* capacity of a sndbuf or rcvbuf
          BufferSize,  \* BUFFER_SIZE of tcp_server_entry
          Traffics,    \* what the clients of a behaviour may do: who connects at
                       \* all (clients), segLen bytes in a data segment, at most
                       \* segs[c] segments from client c, at most backlog
                       \* connections that wait for naccept together
          NoConn

ASSUME TcpAssumption ==
    /\ IsFiniteSet(Conns)
    /\ Fds \subseteq Nat /\ \E f, g \in Fds : f # g
    /\ {RingSize, BufferSize} \subseteq Nat \ {0}
    /\ \A r \in Traffics : /\ {r.segLen, r.backlog} \subseteq Nat \ {0}
                          /\ r.segLen <= 2 * BufferSize   \* 1500 bytes in a frame, 1024 in the buffer
                          /\ r.clients \subseteq Conns /\ r.segs \in [r.clients -> Nat]
    /\ NoConn \notin Conns

VARIABLES listener,    \* listening socket: status and fd
          tcbs,        \* table->tcb_set without the listener, newest first
          status, fd, sndNxt, rcvNxt, sndbuf, rcvbuf,   \* ng_tcp_stream
          fdTable,     \* descriptors taken in the bitmap
          pcS, connfd, ptr, buff,   \* tcp_server_entry: place, connfd, stream, data
          pcP, cur, pkt,            \* packet thread: place, stream, packet
          unheard,     \* history: streams whose last packet came before LAST_ACK was set
          inp, out,    \* packets to and from the stack, by client
          traffic,     \* the clients of this behaviour
          pst, pSent, pRcv,         \* clients: state, segments sent, next byte expected
          got          \* history: the bytes nrecv has copied out, by stream

appVars == <<fdTable, pcS, connfd, ptr, buff, got>>
streamVars == <<tcbs, status, fd, sndNxt, rcvNxt, sndbuf, rcvbuf>>
pktVars == <<pcP, cur, pkt, unheard>>
peerVars == <<traffic, pst, pSent, pRcv>>
vars == <<listener, streamVars, appVars, pktVars, inp, out, peerVars>>

SegLen == traffic.segLen

NoFd == -1
NoPkt == [flags |-> {}, seq |-> 0, ack |-> 0, data |-> <<>>]
Packet(f, s, a, d) == [flags |-> f, seq |-> s, ack |-> a, data |-> d]

Init ==
    /\ listener = [status |-> "NONE", fd |-> NoFd]
    /\ tcbs = <<>>
    /\ status = [c \in Conns |-> "CLOSED"]
    /\ fd = [c \in Conns |-> NoFd]
    /\ sndNxt = [c \in Conns |-> 0]
    /\ rcvNxt = [c \in Conns |-> 0]
    /\ sndbuf = [c \in Conns |-> <<>>]
    /\ rcvbuf = [c \in Conns |-> <<>>]
    /\ fdTable = {}
    /\ pcS = "socket" /\ connfd = NoFd /\ ptr = NoConn /\ buff = <<>>
    /\ pcP = "idle" /\ cur = NoConn /\ pkt = NoPkt /\ unheard = {}
    /\ inp = [c \in Conns |-> <<>>]
    /\ out = [c \in Conns |-> <<>>]
    /\ traffic \in Traffics
    /\ pst = [c \in Conns |-> IF c \in traffic.clients THEN "idle" ELSE "closed"]
    /\ pSent = [c \in Conns |-> 0]
    /\ pRcv = [c \in Conns |-> 0]
    /\ got = [c \in Conns |-> <<>>]

-----------------------------------------------------------------------------
(* Shared helpers.                                                         *)

(* rte_ring_mp_enqueue; its result is not looked at, so a full ring drops. *)
Enqueue(ring, x) == IF Len(ring) < RingSize THEN Append(ring, x) ELSE ring

(* get_fd_frombitmap: the lowest free descriptor. *)
FreeFds == Fds \ fdTable
LowestFreeFd == CHOOSE f \in FreeFds : \A g \in FreeFds : f <= g

InTable(c) == \E i \in DOMAIN tcbs : tcbs[i] = c

(* get_hostinfo_fromfd and get_accept_tcb: the first stream of the table   *)
(* with this descriptor (unaccepted streams have -1), NoConn if none.      *)
StreamOfFd(f) ==
    LET match == {i \in DOMAIN tcbs : fd[tcbs[i]] = f}
    IN IF match = {} THEN NoConn ELSE tcbs[CHOOSE i \in match : \A j \in match : i <= j]

AcceptTcb == StreamOfFd(NoFd)

-----------------------------------------------------------------------------
(* tcp_server_entry: nsocket, nbind, nlisten.                              *)

ServerSocket ==
    /\ pcS = "socket"
    /\ fdTable' = fdTable \cup {LowestFreeFd}
    /\ listener' = [status |-> "CLOSED", fd |-> LowestFreeFd]
    /\ pcS' = "listen"
    /\ UNCHANGED <<streamVars, connfd, ptr, buff, got, pktVars, inp, out, peerVars>>

ServerListens ==
    /\ pcS = "listen"
    /\ listener' = [listener EXCEPT !.status = "LISTEN"]
    /\ pcS' = "accept"
    /\ UNCHANGED <<streamVars, fdTable, connfd, ptr, buff, got, pktVars, inp, out,
                   peerVars>>

(* naccept takes the first stream without a descriptor, whatever its       *)
(* state.  (The listener it looks up is there; the packet thread puts new  *)
(* streams in front and does not touch one without a descriptor's number.) *)
AcceptTakes ==
    /\ pcS = "accept" /\ AcceptTcb # NoConn
    /\ fd' = [fd EXCEPT ![AcceptTcb] = LowestFreeFd]
    /\ fdTable' = fdTable \cup {LowestFreeFd}
    /\ connfd' = LowestFreeFd
    /\ pcS' = "recv"
    /\ UNCHANGED <<listener, tcbs, status, sndNxt, rcvNxt, sndbuf, rcvbuf, ptr, buff,
                   got, pktVars, inp, out, peerVars>>

AcceptWaits ==
    /\ pcS = "accept" /\ AcceptTcb = NoConn
    /\ pcS' = "acceptWait"
    /\ UNCHANGED <<listener, streamVars, fdTable, connfd, ptr, buff, got, pktVars, inp,
                   out, peerVars>>

(* nrecv looks the stream up once, then loops on its rcvbuf. *)
RecvCall ==
    /\ pcS = "recv"
    /\ ptr' = StreamOfFd(connfd)
    /\ pcS' = "dequeue"
    /\ UNCHANGED <<listener, streamVars, fdTable, connfd, buff, got, pktVars, inp, out,
                   peerVars>>

RecvWaits ==
    /\ pcS = "dequeue" /\ rcvbuf[ptr] = <<>>
    /\ pcS' = "recvWait"
    /\ UNCHANGED <<listener, streamVars, fdTable, connfd, ptr, buff, got, pktVars, inp,
                   out, peerVars>>

(* A return from pthread_cond_wait that nobody asked for. *)
SpuriousWakeup ==
    /\ pcS \in {"recvWait", "acceptWait"}
    /\ pcS' = IF pcS = "recvWait" THEN "dequeue" ELSE "accept"
    /\ UNCHANGED <<listener, streamVars, fdTable, connfd, ptr, buff, got, pktVars, inp,
                   out, peerVars>>

\* Mutant: the rest of a long fragment is thrown away.
RestOfDropped(ring, rest) == Tail(ring)

(* The rest of a fragment longer than the buffer goes to the tail. *)
RestOf(ring, rest) == IF rest = <<>> THEN Tail(ring) ELSE Enqueue(Tail(ring), rest)

(* The fragment fits, or is cut: the result of nrecv is then the length of *)
(* the rest, and nsend echoes that many bytes of the buffer.               *)
RecvTakes ==
    LET data == Head(rcvbuf[ptr])
        long == Len(data) > BufferSize
        rest == IF long THEN SubSeq(data, BufferSize + 1, Len(data)) ELSE <<>>
        copied == IF long THEN SubSeq(data, 1, BufferSize) ELSE data
    IN /\ pcS = "dequeue" /\ rcvbuf[ptr] # <<>>
       /\ rcvbuf' = [rcvbuf EXCEPT ![ptr] = RestOf(@, rest)]
       /\ got' = [got EXCEPT ![ptr] = @ \o copied]
       /\ buff' = IF long THEN SubSeq(copied, 1, Len(rest)) ELSE copied
       /\ pcS' = IF data = <<>> THEN "close" ELSE "send"
       /\ UNCHANGED <<listener, tcbs, status, fd, sndNxt, rcvNxt, sndbuf, fdTable,
                      connfd, ptr, pktVars, inp, out, peerVars>>

(* nsend: the numbers of the segment are the stream's at this moment. *)
SendEcho ==
    LET s == StreamOfFd(connfd)
        f == Packet({"PSH", "ACK"}, sndNxt[s], rcvNxt[s], buff)
    IN /\ pcS = "send"
       /\ sndbuf' = [sndbuf EXCEPT ![s] = Enqueue(@, f)]
       /\ pcS' = "recv"
       /\ UNCHANGED <<listener, tcbs, status, fd, sndNxt, rcvNxt, rcvbuf, fdTable,
                      connfd, ptr, buff, got, pktVars, inp, out, peerVars>>

(* set_fd_frombitmap *)
ReleaseFd(f) == fdTable \ {f}

(* nclose of a connection, without a lock: the FIN is queued, the status   *)
(* is set, and the descriptor is free again although the stream keeps it   *)
(* until the last ACK.  The packet thread may run between any two of them. *)
CloseSends ==
    LET s == StreamOfFd(connfd)
        f == Packet({"FIN", "ACK"}, sndNxt[s], rcvNxt[s], <<>>)
    IN /\ pcS = "close"
       /\ sndbuf' = [sndbuf EXCEPT ![s] = Enqueue(@, f)]
       /\ ptr' = s
       /\ pcS' = "closeStatus"
       /\ UNCHANGED <<listener, tcbs, status, fd, sndNxt, rcvNxt, rcvbuf, fdTable, connfd,
                      buff, got, pktVars, inp, out, peerVars>>

CloseMarks ==
    /\ pcS = "closeStatus"
    /\ status' = [status EXCEPT ![ptr] = "LAST_ACK"]
    /\ ptr' = NoConn
    /\ pcS' = "closeFd"
    /\ UNCHANGED <<listener, tcbs, fd, sndNxt, rcvNxt, sndbuf, rcvbuf, fdTable, connfd,
                   buff, got, pktVars, inp, out, peerVars>>

CloseReleases ==
    /\ pcS = "closeFd"
    /\ fdTable' = ReleaseFd(connfd)
    /\ pcS' = "accept"
    /\ UNCHANGED <<listener, streamVars, connfd, ptr, buff, got, pktVars, inp, out,
                   peerVars>>

-----------------------------------------------------------------------------
(* The packet thread: ng_tcp_process for one packet of a client.           *)

Arrives(c) == pcP = "idle" /\ inp[c] # <<>>

(* ng_tcp_stream_search finds nothing: the packet is freed. *)
NoListener(c) ==
    /\ Arrives(c)
    /\ ~InTable(c) /\ listener.status # "LISTEN"
    /\ inp' = [inp EXCEPT ![c] = Tail(@)]
    /\ UNCHANGED <<listener, streamVars, appVars, pktVars, out, peerVars>>

(* ng_tcp_handle_listen: a SYN makes a control block at the head of the    *)
(* table and answers SYN/ACK; anything else is ignored.                    *)
HandleListen(c) ==
    LET p == Head(inp[c])
    IN /\ Arrives(c)
       /\ ~InTable(c) /\ listener.status = "LISTEN"
       /\ inp' = [inp EXCEPT ![c] = Tail(@)]
       /\ IF "SYN" \in p.flags
          THEN /\ tcbs' = <<c>> \o tcbs
               /\ status' = [status EXCEPT ![c] = "SYN_RCVD"]
               /\ rcvNxt' = [rcvNxt EXCEPT ![c] = p.seq + 1]
               /\ sndbuf' = [sndbuf EXCEPT ![c] =
                                Enqueue(@, Packet({"SYN", "ACK"}, 0, p.seq + 1, <<>>))]
          ELSE UNCHANGED <<tcbs, status, rcvNxt, sndbuf>>
       /\ UNCHANGED <<listener, fd, sndNxt, rcvbuf, appVars, pktVars, out, peerVars>>

(* ng_tcp_handle_syn_rcvd: any ACK establishes; the listener is signalled. *)
HandleSynRcvd(c) ==
    /\ Arrives(c)
    /\ InTable(c) /\ status[c] = "SYN_RCVD"
    /\ inp' = [inp EXCEPT ![c] = Tail(@)]
    /\ IF "ACK" \in Head(inp[c]).flags
       THEN /\ status' = [status EXCEPT ![c] = "ESTABLISHED"]
            /\ pcP' = "signalAccept"
       ELSE UNCHANGED <<status, pcP>>
    /\ UNCHANGED <<listener, tcbs, fd, sndNxt, rcvNxt, sndbuf, rcvbuf, appVars, cur, pkt, unheard,
                   out, peerVars>>

\* Mutant: the connection is established without telling the listener.
AfterAcceptSignalNone == pcS

AfterAcceptSignal == IF pcS = "acceptWait" THEN "accept" ELSE pcS

SignalAccept ==
    /\ pcP = "signalAccept"
    /\ pcS' = AfterAcceptSignal
    /\ pcP' = "idle"
    /\ UNCHANGED <<listener, streamVars, fdTable, connfd, ptr, buff, got, cur, pkt, unheard, inp,
                   out, peerVars>>

\* Mutant: a FIN is looked for before the payload that came with it.
FirstStageFin(flags) ==
    IF "FIN" \in flags THEN "fin" ELSE IF "PSH" \in flags THEN "psh" ELSE "idle"

(* ng_tcp_handle_established: the payload first, then the FIN. *)
FirstStage(flags) ==
    IF "PSH" \in flags THEN "psh" ELSE IF "FIN" \in flags THEN "fin" ELSE "idle"

HandleEstablished(c) ==
    LET p == Head(inp[c])
    IN /\ Arrives(c)
       /\ InTable(c) /\ status[c] = "ESTABLISHED"
       /\ inp' = [inp EXCEPT ![c] = Tail(@)]
       /\ pcP' = FirstStage(p.flags)
       /\ cur' = c /\ pkt' = p
       /\ UNCHANGED <<listener, streamVars, appVars, unheard, out, peerVars>>

(* ng_tcp_enqueue_recvbuffer, before its signal. *)
EnqueuePayload ==
    /\ pcP = "psh"
    /\ rcvbuf' = [rcvbuf EXCEPT ![cur] = Enqueue(@, pkt.data)]
    /\ pcP' = "pshSignal"
    /\ UNCHANGED <<listener, tcbs, status, fd, sndNxt, rcvNxt, sndbuf, appVars, cur, pkt, unheard,
                   inp, out, peerVars>>

EnqueueEnd ==
    /\ pcP = "fin"
    /\ status' = [status EXCEPT ![cur] = "CLOSE_WAIT"]
    /\ rcvbuf' = [rcvbuf EXCEPT ![cur] = Enqueue(@, <<>>)]
    /\ pcP' = "finSignal"
    /\ UNCHANGED <<listener, tcbs, fd, sndNxt, rcvNxt, sndbuf, appVars, cur, pkt, unheard, inp,
                   out, peerVars>>

\* Mutant: the stream's condition is signalled only for the end of the stream.
AfterDataSignalFinOnly ==
    IF pcS = "recvWait" /\ ptr = cur /\ pcP = "finSignal" THEN "dequeue" ELSE pcS

(* pthread_cond_signal on the stream: nrecv may be waiting there. *)
AfterDataSignal == IF pcS = "recvWait" /\ ptr = cur THEN "dequeue" ELSE pcS

SignalData ==
    /\ pcP \in {"pshSignal", "finSignal"}
    /\ pcS' = AfterDataSignal
    /\ pcP' = IF pcP = "pshSignal" THEN "pshAck" ELSE "finAck"
    /\ UNCHANGED <<listener, streamVars, fdTable, connfd, ptr, buff, got, cur, pkt, unheard, inp,
                   out, peerVars>>

(* By how much rcv_nxt advances. *)
Received == IF pcP = "pshAck" THEN Len(pkt.data) ELSE 1

(* The numbers of the stream move on, and ng_tcp_send_ackpkt. *)
SendAck ==
    /\ pcP \in {"pshAck", "finAck"}
    /\ rcvNxt' = [rcvNxt EXCEPT ![cur] = @ + Received]
    /\ sndNxt' = [sndNxt EXCEPT ![cur] = pkt.ack]
    /\ sndbuf' = [sndbuf EXCEPT ![cur] =
                     Enqueue(@, Packet({"ACK"}, pkt.ack, rcvNxt'[cur], <<>>))]
    /\ pcP' = IF pcP = "pshAck" /\ "FIN" \in pkt.flags THEN "fin" ELSE "idle"
    /\ UNCHANGED <<listener, tcbs, status, fd, rcvbuf, appVars, cur, pkt, unheard, inp, out,
                   peerVars>>

(* No packet of the client follows, and none will: it answers everything   *)
(* but a bare ACK.                                                         *)
LastPacket(c) ==
    Len(inp[c]) = 1 /\ \A p \in ToSet(out[c]) \cup ToSet(sndbuf[c]) : p.flags = {"ACK"}

(* ng_tcp_handle_close_wait does nothing, not even for the ACK of a FIN    *)
(* that nclose has queued but not yet followed by LAST_ACK.                *)
HandleCloseWait(c) ==
    /\ Arrives(c)
    /\ InTable(c) /\ status[c] = "CLOSE_WAIT"
    /\ inp' = [inp EXCEPT ![c] = Tail(@)]
    /\ unheard' = IF pcS = "closeStatus" /\ ptr = c /\ LastPacket(c)
                  THEN unheard \cup {c} ELSE unheard
    /\ UNCHANGED <<listener, streamVars, appVars, pcP, cur, pkt, out, peerVars>>

\* Mutant: a stream in CLOSE_WAIT is freed as well, although it is still open.
FreedByAckEarly(c) == status[c] \in {"LAST_ACK", "CLOSE_WAIT"}

FreedByAck(c) == status[c] = "LAST_ACK"

(* LL_REMOVE unlinks the stream where it is. *)
PlaceOf(c) == CHOOSE i \in DOMAIN tcbs : tcbs[i] = c

(* ng_tcp_handle_last_ack: any ACK removes and frees the stream.  (After   *)
(* its SYN every packet of a client carries an ACK.)                       *)
HandleLastAck(c) ==
    /\ Arrives(c)
    /\ InTable(c) /\ FreedByAck(c)
    /\ inp' = [inp EXCEPT ![c] = Tail(@)]
    /\ "ACK" \in Head(inp[c]).flags
    /\ tcbs' = RemoveAt(tcbs, PlaceOf(c))
    /\ status' = [status EXCEPT ![c] = "CLOSED"]
    /\ fd' = [fd EXCEPT ![c] = NoFd]
    /\ sndbuf' = [sndbuf EXCEPT ![c] = <<>>]
    /\ rcvbuf' = [rcvbuf EXCEPT ![c] = <<>>]
    /\ UNCHANGED <<listener, sndNxt, rcvNxt, appVars, pktVars, out, peerVars>>

(* A fragment as a packet: the flags, the numbers and, if there are any,   *)
(* the data; addresses and checksums are left out.                         *)
ng_tcp_pkt(f) == Packet(f.flags, f.seq, f.ack, f.data)

(* ng_tcp_out takes one fragment of a stream per round.  The client's MAC  *)
(* address is known: pkt_process stored it before ng_tcp_process.          *)
TcpOut(c) ==
    /\ pcP = "idle" /\ InTable(c) /\ sndbuf[c] # <<>>
    /\ out' = [out EXCEPT ![c] = Append(@, ng_tcp_pkt(Head(sndbuf[c])))]
    /\ sndbuf' = [sndbuf EXCEPT ![c] = Tail(@)]
    /\ UNCHANGED <<listener, tcbs, status, fd, sndNxt, rcvNxt, rcvbuf, appVars, pktVars,
                   inp, peerVars>>

-----------------------------------------------------------------------------
(* The clients (external): connect, send segments, acknowledge what        *)
(* arrives, close.  A client repeats its SYN until it is answered.         *)

PeerOutput(c, p) == inp' = [inp EXCEPT ![c] = Append(@, p)]

(* The bytes of the n-th data segment, numbered from 1. *)
Segment(n) == [i \in 1 .. SegLen |-> (n - 1) * SegLen + i]

PendingConns ==
    {d \in Conns : IF InTable(d) THEN fd[d] = NoFd ELSE pst[d] = "syn_sent"}

PeerConnects(c) ==
    /\ \/ pst[c] = "idle" /\ Cardinality(PendingConns) < traffic.backlog
       \/ pst[c] = "syn_sent" /\ ~InTable(c) /\ inp[c] = <<>> /\ out[c] = <<>>
    /\ pst' = [pst EXCEPT ![c] = "syn_sent"]
    /\ PeerOutput(c, Packet({"SYN"}, 0, 0, <<>>))
    /\ UNCHANGED <<listener, streamVars, appVars, pktVars, out, traffic, pSent, pRcv>>

(* The segments of the clients carry PSH: a segment without it would not   *)
(* be queued, which is no business of the two threads.                     *)
PeerSends(c) ==
    /\ pst[c] = "est" /\ pSent[c] < traffic.segs[c]
    /\ pSent' = [pSent EXCEPT ![c] = @ + 1]
    /\ PeerOutput(c, Packet({"PSH", "ACK"}, 1 + pSent[c] * SegLen, pRcv[c],
                            Segment(pSent[c] + 1)))
    /\ UNCHANGED <<listener, streamVars, appVars, pktVars, out, traffic, pst, pRcv>>

(* The FIN may travel with a last data segment. *)
PeerCloses(c) ==
    /\ pst[c] = "est"
    /\ pst' = [pst EXCEPT ![c] = "fin_wait"]
    /\ \/ /\ PeerOutput(c, Packet({"FIN", "ACK"}, 1 + pSent[c] * SegLen, pRcv[c], <<>>))
          /\ UNCHANGED pSent
       \/ /\ pSent[c] < traffic.segs[c]
          /\ pSent' = [pSent EXCEPT ![c] = @ + 1]
          /\ PeerOutput(c, Packet({"PSH", "FIN", "ACK"}, 1 + pSent[c] * SegLen, pRcv[c],
                                  Segment(pSent[c] + 1)))
    /\ UNCHANGED <<listener, streamVars, appVars, pktVars, out, traffic, pRcv>>

(* What a client answers: an ACK to everything but a bare ACK.  Bytes and  *)
(* FIN count only at the sequence number the client expects next.          *)
PeerReceives(c) ==
    LET p == Head(out[c])
        expected == p.seq = pRcv[c]
        size == Len(p.data) + (IF p.flags \cap {"SYN", "FIN"} # {} THEN 1 ELSE 0)
        next == IF expected THEN pRcv[c] + size ELSE pRcv[c]
    IN /\ out[c] # <<>>
       /\ out' = [out EXCEPT ![c] = Tail(@)]
       /\ pRcv' = [pRcv EXCEPT ![c] = next]
       /\ pst' = [pst EXCEPT ![c] = IF "SYN" \in p.flags THEN "est"
                                    ELSE IF "FIN" \in p.flags /\ expected THEN "closed" ELSE @]
       /\ IF size = 0
          THEN UNCHANGED inp
          ELSE PeerOutput(c, Packet({"ACK"}, 1 + pSent[c] * SegLen, next, <<>>))
       /\ UNCHANGED <<listener, streamVars, appVars, pktVars, traffic, pSent>>

-----------------------------------------------------------------------------
ServerStep ==
    \/ ServerSocket \/ ServerListens \/ AcceptTakes \/ AcceptWaits
    \/ RecvCall \/ RecvWaits \/ RecvTakes \/ SendEcho
    \/ CloseSends \/ CloseMarks \/ CloseReleases

Handle(c) ==
    \/ NoListener(c) \/ HandleListen(c) \/ HandleSynRcvd(c) \/ HandleEstablished(c)
    \/ HandleCloseWait(c) \/ HandleLastAck(c)

PacketStep ==
    SignalAccept \/ EnqueuePayload \/ EnqueueEnd \/ SignalData \/ SendAck

PeerStep(c) == PeerSends(c) \/ PeerCloses(c) \/ PeerReceives(c)

Next ==
    \/ ServerStep \/ SpuriousWakeup \/ PacketStep
    \/ \E c \in Conns : Handle(c) \/ TcpOut(c) \/ PeerConnects(c) \/ PeerStep(c)

Spec == Init /\ [][Next]_vars

(* Both threads of the stack run on cores of their own and never stop; the *)
(* packet thread serves all packets and all streams; clients acknowledge,  *)
(* repeat an unanswered SYN and eventually close.                          *)
Fairness ==
    /\ WF_vars(ServerStep) /\ WF_vars(PacketStep)
    /\ \A c \in Conns : /\ SF_vars(Handle(c)) /\ SF_vars(TcpOut(c))
                        /\ WF_vars(pst[c] = "syn_sent" /\ PeerConnects(c))
                        /\ WF_vars(PeerReceives(c)) /\ WF_vars(PeerCloses(c))

FairSpec == Spec /\ Fairness

-----------------------------------------------------------------------------
(* Properties.                                                             *)

(* Every variable keeps its type. *)
TypeOK ==
    /\ listener.status \in {"NONE", "CLOSED", "LISTEN"} /\ listener.fd \in Fds \cup {NoFd}
    /\ IsInjective(tcbs) /\ ToSet(tcbs) \subseteq Conns
    /\ status \in [Conns -> {"CLOSED", "SYN_RCVD", "ESTABLISHED", "CLOSE_WAIT", "LAST_ACK"}]
    /\ fd \in [Conns -> Fds \cup {NoFd}]
    /\ sndNxt \in [Conns -> Nat] /\ rcvNxt \in [Conns -> Nat]
    /\ \A c \in Conns : Len(sndbuf[c]) <= RingSize /\ Len(rcvbuf[c]) <= RingSize
    /\ fdTable \subseteq Fds
    /\ pcS \in {"socket", "listen", "accept", "acceptWait", "recv", "dequeue", "recvWait",
                "send", "close", "closeStatus", "closeFd"}
    /\ connfd \in Fds \cup {NoFd} /\ ptr \in Conns \cup {NoConn}
    /\ pcP \in {"idle", "signalAccept", "psh", "pshSignal", "pshAck", "fin", "finSignal",
                "finAck"}
    /\ cur \in Conns \cup {NoConn} /\ unheard \subseteq Conns
    /\ pst \in [Conns -> {"idle", "syn_sent", "est", "fin_wait", "closed"}]

(* naccept does not sleep through a connection: while it waits, an         *)
(* established stream nobody has accepted exists only as long as the       *)
(* packet thread is between setting its status and signalling.             *)
NoLostAccept ==
    pcS = "acceptWait" =>
        \A c \in Conns : status[c] = "ESTABLISHED" /\ fd[c] = NoFd => pcP = "signalAccept"

(* nrecv does not sleep through data: the rcvbuf it waits on is empty, or  *)
(* the packet thread is about to signal, although the enqueue happens      *)
(* outside the mutex that pairs the wait with the signal.                  *)
NoLostData ==
    pcS = "recvWait" /\ rcvbuf[ptr] # <<>> =>
        cur = ptr /\ pcP \in {"pshSignal", "finSignal"}

(* Neither of the program's waits misses the signal of the packet thread.  *)
NoLostSignal == NoLostAccept /\ NoLostData

FinCounted(c) ==
    IF status[c] \in {"CLOSE_WAIT", "LAST_ACK"} /\ ~(cur = c /\ pcP \in {"finSignal", "finAck"})
    THEN 1 ELSE 0

NotYetCounted(c) ==
    IF cur = c /\ pcP \in {"pshSignal", "pshAck"} THEN Len(pkt.data) ELSE 0

(* The bytes of a stream that the program has or can still read. *)
Held(c) == got[c] \o FlattenSeq(rcvbuf[c])

(* What the stack acknowledges it keeps: rcv_nxt counts exactly the bytes  *)
(* nrecv has returned or the rcvbuf holds, each byte once, also when nrecv *)
(* cuts a long fragment and queues the rest again.                         *)
AckedIsKept ==
    \A c \in Conns : InTable(c) =>
        LET held == Held(c)
        IN /\ ToSet(held) = 1 .. Len(held)
           /\ rcvNxt[c] = 1 + Len(held) - NotYetCounted(c) + FinCounted(c)

(* As long as segments fit BUFFER_SIZE, bytes reach the program in the     *)
(* order the client sent them, and it closes a connection only after it    *)
(* has read all of them.                                                   *)
InOrderDelivery ==
    \A c \in Conns : SegLen <= BufferSize /\ InTable(c) =>
        /\ LET held == Held(c) IN \A i \in DOMAIN held : held[i] = i
        /\ status[c] = "LAST_ACK" => Len(got[c]) = pSent[c] * SegLen

(* While it serves a connection, the program's descriptor leads every      *)
(* socket call to the same open stream; a stream that was closed but still *)
(* waits for its last ACK with the same number in its fd field is never    *)
(* found instead, and the stream nrecv sleeps on is never freed.  This is  *)
(* so for clients of which at most one waits for naccept at a time.        *)
FdFindsOpenStream ==
    traffic.backlog = 1 /\ pcS \in {"recv", "dequeue", "recvWait", "send", "close",
                                      "closeStatus"} =>
        LET s == StreamOfFd(connfd)
        IN /\ s # NoConn
           /\ status[s] # "LAST_ACK"
           /\ pcS \in {"dequeue", "recvWait", "closeStatus"} => ptr = s

(* The bitmap and the streams agree: exactly the listener's descriptor,    *)
(* those of streams that are not closed and the one nclose is about to     *)
(* give back are taken, and no two open streams share one.                 *)
OpenStreams == {c \in Conns : InTable(c) /\ fd[c] # NoFd /\ status[c] # "LAST_ACK"}

BitmapMatches ==
    /\ fdTable = ({listener.fd} \ {NoFd}) \cup {fd[c] : c \in OpenStreams}
                 \cup {f \in {connfd} : pcS = "closeFd"}
    /\ \A c, d \in OpenStreams : fd[c] = fd[d] => c = d

(* The tables of the stack fit together, and so do the program's           *)
(* descriptor and the stream it stands for.                                *)
Consistent == TypeOK /\ FdFindsOpenStream /\ BitmapMatches

(* A client is served to the end, whatever the order of payload, FIN,      *)
(* signals and wakeups: the handshake completes, the serial server gets to *)
(* the connection, reads all that was sent before the FIN (if segments fit *)
(* BUFFER_SIZE), sees its end and closes it, and an ACK finds the control  *)
(* block in LAST_ACK and frees it.  This is so if clients wait for naccept *)
(* one at a time.  The one exception is a client whose last ACK is handled *)
(* between the queueing of the FIN and the setting of LAST_ACK in nclose:  *)
(* no packet will ever free its block.                                     *)
Released(c) == ~InTable(c) \/ c \in unheard

AllRead(c) == SegLen <= BufferSize => Len(got[c]) = pSent[c] * SegLen

Served ==
    \A c \in Conns : traffic.backlog = 1 /\ InTable(c) ~> Released(c) /\ AllRead(c)
=============================================================================
