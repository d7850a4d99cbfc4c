--------------------------- MODULE TcpServerProofs ---------------------------
(***************************************************************************)
(* Theorems about TcpServer, for any number of clients, any traffic and    *)
(* any sizes of the rings and of the program's buffer.                     *)
(*                                                                         *)
(* The bitmap and the table stay in step because nclose always meets the   *)
(* stream whose end nrecv has read.  That takes four arguments: a client   *)
(* never comes back once its stream was freed (ClientInv), a stream gets   *)
(* one end mark and is closed only after it was read (EndInv), the stream  *)
(* that nrecv looked up is the one the descriptor still leads to, unless   *)
(* it was freed meanwhile (PtrInv), and the program has one descriptor at  *)
(* a time (FdInv).  With clients that wait one at a time the open stream   *)
(* is also found before closed ones with the same number (OrderInv).       *)
(*                                                                         *)
(* For the bytes themselves (DataInv): what the program has read, what is  *)
(* in the rcvbuf and what is on its way are, in this order, the bytes the  *)
(* client has sent, and rcv_nxt is where the first two end.  The code does *)
(* not look at the result of an enqueue, so this needs a ring with room    *)
(* whenever the packet thread queues (RoomLeft); a count of the fragments  *)
(* (CountInv) shows that there is, for traffic that fits (RingsSuffice).   *)
(***************************************************************************)
EXTENDS TcpServer, SequenceFacts, SequenceTheorems, FiniteSetTheorems, TLAPS

(* A payload, from a frame that fills at most two of the program's buffers. *)
Data == {d \in Seq(Nat) : Len(d) <= 2 * BufferSize}
Packets == [flags : SUBSET {"SYN", "ACK", "PSH", "FIN"}, seq : Nat, ack : Nat, data : Data]

(* The types of what TypeOK leaves open. *)
WireInv ==
    /\ listener \in [status : {"NONE", "CLOSED", "LISTEN"}, fd : Fds \cup {NoFd}]
    /\ tcbs \in Seq(Conns)
    /\ sndbuf \in [Conns -> Seq(Packets)] /\ rcvbuf \in [Conns -> Seq(Data)]
    /\ inp \in [Conns -> Seq(Packets)] /\ out \in [Conns -> Seq(Packets)]
    /\ pkt \in Packets /\ buff \in Data
    /\ traffic \in Traffics
    /\ pSent \in [Conns -> Nat] /\ pRcv \in [Conns -> Nat]

(* A control block outside the table is as Init and rte_free leave it. *)
TableInv ==
    \A c \in Conns : /\ status[c] = "CLOSED" <=> ~InTable(c)
                     /\ ~InTable(c) => fd[c] = NoFd /\ sndbuf[c] = <<>> /\ rcvbuf[c] = <<>>

(* Once a client has seen the SYN/ACK it never sends a SYN again. *)
Connected(c) == pst[c] \notin {"idle", "syn_sent"}

(* The first packet a client sees is the SYN/ACK, wherever it is on its    *)
(* way from the sndbuf.                                                    *)
SynAckFirst(c) ==
    IF out[c] # <<>> THEN "SYN" \in Head(out[c]).flags
                     ELSE sndbuf[c] # <<>> /\ "SYN" \in Head(sndbuf[c]).flags

(* What is on its way to the stack tells how far the client is. *)
PacketInv(c, p) ==
    /\ "SYN" \in p.flags => /\ pst[c] = "syn_sent" /\ ~InTable(c)
                            /\ Len(inp[c]) = 1 /\ out[c] = <<>>
    /\ "ACK" \in p.flags => Connected(c)
    /\ "PSH" \in p.flags => p.data # <<>>

ClientOK(c) ==
    /\ pst[c] = "idle" => inp[c] = <<>> /\ out[c] = <<>> /\ ~InTable(c)
    /\ pst[c] = "syn_sent" => IF InTable(c) THEN SynAckFirst(c) ELSE out[c] = <<>>
    /\ \A i \in DOMAIN inp[c] : PacketInv(c, inp[c][i])

ClientInv == \A c \in Conns : ClientOK(c)

(* The end marks in a rcvbuf, and where the packet thread is with the      *)
(* stream it works on.                                                     *)
Ends(c) == {i \in DOMAIN rcvbuf[c] : rcvbuf[c][i] = <<>>}

MarkInv(c) ==
    /\ Ends(c) # {} => status[c] = "CLOSE_WAIT"
    /\ \A i, j \in Ends(c) : i = j

StageInv ==
    /\ pcP \in {"psh", "pshSignal", "pshAck", "fin"} =>
           cur \in Conns /\ status[cur] = "ESTABLISHED"
    /\ pcP \in {"finSignal", "finAck"} =>
           cur \in Conns /\ status[cur] \in {"CLOSE_WAIT", "LAST_ACK"}
    /\ pcP = "psh" => pkt.data # <<>>

CloseInv ==
    pcS \in {"close", "closeStatus"} =>
        LET s == StreamOfFd(connfd)
        IN /\ s \in Conns /\ status[s] = "CLOSE_WAIT" /\ Ends(s) = {}
           /\ pcS = "closeStatus" => ptr = s

EndInv == (\A c \in Conns : MarkInv(c)) /\ StageInv /\ CloseInv

(* The stream nrecv works on is the one of the descriptor, or was freed    *)
(* for good.                                                               *)
PtrInv ==
    pcS \in {"dequeue", "recvWait"} =>
        /\ ptr \in Conns
        /\ IF InTable(ptr) THEN ptr = StreamOfFd(connfd) ELSE Connected(ptr)

(* The program holds the listener's descriptor and at most one more, which *)
(* nclose gives back after the stream has ceased to be open.               *)
Serving == pcS \in {"recv", "dequeue", "recvWait", "send", "close", "closeStatus"}

FdInv ==
    /\ IF pcS = "socket" THEN listener.fd = NoFd ELSE listener.fd \in Fds
    /\ \A c \in Conns : status[c] = "LAST_ACK" => fd[c] # NoFd
    /\ IF Serving \/ pcS = "closeFd"
       THEN connfd \in Fds \ {listener.fd} /\ fdTable = {listener.fd, connfd}
       ELSE fdTable = {listener.fd} \ {NoFd}
    /\ IF Serving THEN \E o \in Conns : OpenStreams = {o} /\ fd[o] = connfd
                  ELSE OpenStreams = {}

(* If clients wait for naccept one at a time, the table holds first the    *)
(* waiting stream, then the open one, then the closed ones.                *)
OrderInv ==
    traffic.backlog = 1 =>
        /\ \A c, d \in PendingConns : c = d
        /\ \A i, j \in DOMAIN tcbs : i < j =>
              /\ status[tcbs[i]] = "LAST_ACK" => status[tcbs[j]] = "LAST_ACK"
              /\ fd[tcbs[i]] # NoFd => fd[tcbs[j]] # NoFd
        /\ pcS \in {"dequeue", "recvWait"} => status[ptr] \notin {"LAST_ACK", "CLOSED"}

StackInv ==
    /\ TypeOK /\ WireInv /\ TableInv /\ ClientInv /\ EndInv /\ PtrInv /\ FdInv /\ OrderInv
    /\ NoLostSignal

-----------------------------------------------------------------------------
(* Rings, descriptors and look-ups.                                        *)

(* What a ring holds after an enqueue that its full state may refuse. *)
LEMMA EnqueueProperties ==
    ASSUME NEW S, NEW ring \in Seq(S), Len(ring) <= RingSize, NEW x \in S
    PROVE  /\ Enqueue(ring, x) \in Seq(S) /\ Len(Enqueue(ring, x)) <= RingSize
           /\ Enqueue(ring, x) # <<>>
           /\ ring # <<>> => Head(Enqueue(ring, x)) = Head(ring)
           /\ ring = <<>> => Head(Enqueue(ring, x)) = x
           /\ \A i \in DOMAIN Enqueue(ring, x) :
                 \/ i \in DOMAIN ring /\ Enqueue(ring, x)[i] = ring[i]
                 \/ i = Len(ring) + 1 /\ Enqueue(ring, x)[i] = x
<1>1. RingSize \in Nat \ {0} /\ Len(ring) \in Nat /\ DOMAIN ring = 1 .. Len(ring)
  BY TcpAssumption
<1>2. CASE Len(ring) < RingSize
  <2>1. Enqueue(ring, x) = Append(ring, x)
    BY <1>2 DEF Enqueue
  <2>2. /\ Append(ring, x) \in Seq(S) /\ Len(Append(ring, x)) = Len(ring) + 1
        /\ \A i \in 1 .. Len(ring) : Append(ring, x)[i] = ring[i]
        /\ Append(ring, x)[Len(ring) + 1] = x
        /\ DOMAIN Append(ring, x) = 1 .. Len(ring) + 1
    OBVIOUS
  <2>3. Head(Append(ring, x)) = Append(ring, x)[1] /\ Append(ring, x) # <<>>
    BY <1>1, <2>2
  <2>4. ring # <<>> => Head(ring) = ring[1] /\ Len(ring) >= 1
    OBVIOUS
  <2>5. ring = <<>> => Len(ring) = 0
    OBVIOUS
  <2> QED
    BY <1>1, <1>2, <2>1, <2>2, <2>3, <2>4, <2>5
<1>3. CASE Len(ring) = RingSize
  <2>1. Enqueue(ring, x) = ring
    BY <1>1, <1>3 DEF Enqueue
  <2>2. ring # <<>>
    BY <1>1, <1>3
  <2> QED
    BY <1>1, <2>1, <2>2
<1>4. Len(ring) < RingSize \/ Len(ring) = RingSize
  <2>1. \A m, n \in Nat : m <= n => m < n \/ m = n
    OBVIOUS
  <2>2. RingSize \in Nat
    BY <1>1
  <2> QED
    BY <1>1, <2>1, <2>2
<1> QED
  BY <1>2, <1>3, <1>4, Zenon

(* Dequeuing shifts what is left. *)
LEMMA TailProperties ==
    ASSUME NEW S, NEW ring \in Seq(S), ring # <<>>
    PROVE  /\ Head(ring) \in S /\ Tail(ring) \in Seq(S) /\ Len(Tail(ring)) = Len(ring) - 1
           /\ Head(ring) = ring[1] /\ 1 \in DOMAIN ring /\ Len(ring) \in Nat
           /\ \A i \in DOMAIN Tail(ring) : i + 1 \in DOMAIN ring /\ Tail(ring)[i] = ring[i + 1]
BY HeadTailProperties, LenProperties

(* With at most one descriptor taken there is a lowest free one. *)
LEMMA FreeDescriptor ==
    ASSUME NEW x, fdTable \subseteq {x}
    PROVE  LowestFreeFd \in Fds /\ LowestFreeFd \notin fdTable
<1>1. FreeFds \in SUBSET Nat /\ FreeFds # {}
  <2>1. PICK f \in Fds, g \in Fds : f # g
    BY TcpAssumption
  <2>2. f \in FreeFds \/ g \in FreeFds
    BY <2>1 DEF FreeFds
  <2>3. FreeFds \in SUBSET Nat
    BY TcpAssumption DEF FreeFds
  <2> QED
    BY <2>2, <2>3
<1>2. \E f \in FreeFds : \A g \in FreeFds : f <= g
  BY <1>1, LeastNatural
<1>3. LowestFreeFd \in FreeFds
  BY <1>2 DEF LowestFreeFd
<1> QED
  BY <1>3 DEF FreeFds

(* StreamOfFd, with the table and the descriptors as parameters. *)
Found(t, g, f) ==
    LET match == {i \in DOMAIN t : g[t[i]] = f}
    IN IF match = {} THEN NoConn ELSE t[CHOOSE i \in match : \A j \in match : i <= j]

First(t, g, f, s) ==
    \E i \in DOMAIN t : t[i] = s /\ g[s] = f /\ \A j \in DOMAIN t : g[t[j]] = f => i <= j

(* get_hostinfo_fromfd returns the first entry with the descriptor. *)
LEMMA FoundIsFirst ==
    ASSUME NEW t \in Seq(Conns), NEW g, NEW f
    PROVE  /\ Found(t, g, f) = NoConn <=> \A i \in DOMAIN t : g[t[i]] # f
           /\ Found(t, g, f) # NoConn => First(t, g, f, Found(t, g, f))
           /\ \A s : First(t, g, f, s) => Found(t, g, f) = s /\ s \in Conns
<1> DEFINE match == {i \in DOMAIN t : g[t[i]] = f}
           least == CHOOSE i \in match : \A j \in match : i <= j
<1>1. DOMAIN t \subseteq Nat /\ \A i \in DOMAIN t : t[i] \in Conns
  OBVIOUS
<1>2. match \in SUBSET Nat
  BY <1>1
<1>3. match # {} => least \in match /\ \A j \in match : least <= j
  <2>1. match # {} => \E i \in match : \A j \in match : i <= j
    BY <1>2, LeastNatural
  <2> QED
    BY <2>1
<1>4. match = {} => Found(t, g, f) = NoConn
  BY DEF Found
<1>5. match # {} => Found(t, g, f) = t[least]
  BY DEF Found
<1>6. match = {} <=> \A i \in DOMAIN t : g[t[i]] # f
  OBVIOUS
<1>7. ASSUME match # {}
      PROVE  /\ t[least] # NoConn
             /\ First(t, g, f, t[least])
             /\ \A s : First(t, g, f, s) => t[least] = s /\ s \in Conns
  <2>1. least \in match /\ \A j \in match : least <= j
    BY <1>3, <1>7
  <2> HIDE DEF least
  <2>2. t[least] # NoConn
    BY <1>1, <2>1, TcpAssumption
  <2>3. First(t, g, f, t[least])
    BY <2>1 DEF First
  <2>4. ASSUME NEW s, First(t, g, f, s) PROVE t[least] = s /\ s \in Conns
    <3>1. PICK i \in DOMAIN t : t[i] = s /\ g[s] = f /\ \A j \in DOMAIN t : g[t[j]] = f => i <= j
      BY <2>4 DEF First
    <3>2. i \in match /\ i <= least /\ least <= i
      BY <2>1, <3>1
    <3>3. i = least
      BY <1>2, <2>1, <3>2
    <3> QED
      BY <1>1, <3>1, <3>3
  <2> QED
    BY <2>2, <2>3, <2>4
<1>8. match = {} => \A s : ~First(t, g, f, s)
  BY DEF First
<1> HIDE DEF match, least
<1> QED
  BY <1>4, <1>5, <1>6, <1>7, <1>8

(* StreamOfFd by the table and the descriptors alone. *)
LEMMA StreamFound ==
    /\ \A f : StreamOfFd(f) = Found(tcbs, fd, f)
    /\ StreamOfFd(connfd)' = Found(tcbs', fd', connfd')
BY DEF StreamOfFd, Found

(* The table without one of its streams. *)
LEMMA RemoveProperties ==
    ASSUME NEW t \in Seq(Conns), NEW k \in DOMAIN t
    PROVE  /\ RemoveAt(t, k) \in Seq(Conns)
           /\ \A i \in DOMAIN RemoveAt(t, k) :
                 IF i < k THEN i \in DOMAIN t /\ RemoveAt(t, k)[i] = t[i]
                          ELSE i + 1 \in DOMAIN t /\ RemoveAt(t, k)[i] = t[i + 1]
           /\ \A i \in DOMAIN t :
                 /\ i < k => i \in DOMAIN RemoveAt(t, k) /\ RemoveAt(t, k)[i] = t[i]
                 /\ i > k => i - 1 \in DOMAIN RemoveAt(t, k) /\ RemoveAt(t, k)[i - 1] = t[i]
<1> DEFINE n == Len(t)
           a == SubSeq(t, 1, k - 1)
           b == SubSeq(t, k + 1, n)
<1>1. n \in Nat /\ k \in 1 .. n /\ DOMAIN t = 1 .. n /\ \A i \in 1 .. n : t[i] \in Conns
  OBVIOUS
<1>2. /\ a \in Seq(Conns) /\ Len(a) = k - 1 /\ \A i \in 1 .. k - 1 : a[i] = t[i]
  BY <1>1
<1>3. b \in Seq(Conns) /\ Len(b) = n - k /\ \A i \in 1 .. n - k : b[i] = t[k + i]
  <2>1. k + 1 \in Int /\ n \in Int /\ \A i \in k + 1 .. n : t[i] \in Conns
    BY <1>1
  <2> HIDE DEF n
  <2>2. /\ b \in Seq(Conns)
        /\ Len(b) = IF k + 1 <= n THEN n - (k + 1) + 1 ELSE 0
        /\ \A i \in 1 .. n - (k + 1) + 1 : b[i] = t[(k + 1) + i - 1]
    BY <2>1, SubSeqProperties
  <2>3. n - (k + 1) + 1 = n - k /\ \A i \in 1 .. n - k : (k + 1) + i - 1 = k + i
    BY <1>1
  <2> HIDE DEF b
  <2>4. Len(b) = n - k
    BY <1>1, <2>2
  <2> QED
    BY <2>2, <2>3, <2>4
<1>4. RemoveAt(t, k) = Join(a, b)
  BY DEF RemoveAt, Join
<1> HIDE DEF a, b, n
<1>5. /\ Join(a, b) \in Seq(Conns) /\ Len(Join(a, b)) = n - 1
      /\ \A i \in 1 .. n - 1 : Join(a, b)[i] = IF i <= k - 1 THEN a[i] ELSE b[i - (k - 1)]
  <2>1. /\ Join(a, b) \in Seq(Conns) /\ Len(Join(a, b)) = Len(a) + Len(b)
        /\ \A i \in 1 .. Len(a) + Len(b) :
              Join(a, b)[i] = IF i <= Len(a) THEN a[i] ELSE b[i - Len(a)]
    BY <1>2, <1>3, ConcatProperties DEF Join
  <2>2. Len(a) + Len(b) = n - 1
    BY <1>1, <1>2, <1>3
  <2> QED
    BY <1>2, <2>1, <2>2
<1>6. DOMAIN Join(a, b) = 1 .. n - 1
  BY <1>5
<1>7. ASSUME NEW i \in 1 .. n - 1
      PROVE  Join(a, b)[i] = IF i < k THEN t[i] ELSE t[i + 1]
  <2>1. CASE i < k
    BY <1>1, <1>2, <1>5, <2>1
  <2>2. CASE i >= k
    <3>1. i - (k - 1) \in 1 .. n - k /\ k + (i - (k - 1)) = i + 1
      BY <1>1, <2>2
    <3>2. Join(a, b)[i] = b[i - (k - 1)] /\ ~(i < k)
      BY <1>1, <1>5, <2>2
    <3>3. b[i - (k - 1)] = t[k + (i - (k - 1))]
      BY <1>3, <3>1
    <3> QED
      BY <3>1, <3>2, <3>3
  <2> QED
    BY <1>1, <2>1, <2>2
<1> HIDE DEF Join
<1> QED
  BY <1>1, <1>4, <1>5, <1>6, <1>7, SMTT(30)

-----------------------------------------------------------------------------
(* Types.                                                                  *)

Typed == TypeOK /\ WireInv

(* The end mark and the missing packet have their types. *)
LEMMA EmptyTyped == <<>> \in Data /\ NoPkt \in Packets
<1>1. <<>> \in Seq(Nat) /\ Len(<<>>) = 0 /\ 2 * BufferSize \in Nat
  BY TcpAssumption
<1> QED
  BY <1>1 DEF Data, NoPkt, Packets

(* A packet that is built has its type. *)
LEMMA PacketTyped ==
    ASSUME NEW f \in SUBSET {"SYN", "ACK", "PSH", "FIN"}, NEW s \in Nat, NEW a \in Nat,
           NEW d \in Data
    PROVE  /\ Packet(f, s, a, d) \in Packets
           /\ Packet(f, s, a, d).flags = f /\ Packet(f, s, a, d).data = d
BY DEF Packet, Packets

(* A data segment is a payload, and not the empty end mark. *)
LEMMA SegmentTyped ==
    ASSUME traffic \in Traffics, NEW n \in Nat
    PROVE  Segment(n + 1) \in Data /\ Segment(n + 1) # <<>> /\ 1 + n * SegLen \in Nat
<1>1. SegLen \in Nat \ {0} /\ SegLen <= 2 * BufferSize
  BY TcpAssumption DEF SegLen
<1>2. ASSUME NEW k \in Nat PROVE n * k \in Nat
  OBVIOUS
<1>3. (n + 1) - 1 = n
  OBVIOUS
<1>4. Segment(n + 1) = [i \in 1 .. SegLen |-> n * SegLen + i]
  BY <1>3 DEF Segment
<1> DEFINE z == SegLen
           w == n * z
           q == [i \in 1 .. z |-> w + i]
<1>5. z \in Nat \ {0} /\ z <= 2 * BufferSize /\ w \in Nat
  BY <1>1, <1>2
<1> HIDE DEF z, w
<1>6. q \in Seq(Nat) /\ Len(q) = z
  BY <1>5
<1>7. q # <<>>
  <2>1. Len(<<>>) = 0
    OBVIOUS
  <2> QED
    BY <1>5, <1>6, <2>1
<1>8. q \in Data
  BY <1>5, <1>6 DEF Data
<1> QED
  BY <1>4, <1>5, <1>7, <1>8 DEF z, w

(* The state before nsocket has its types. *)
LEMMA InitTyped == Init => Typed
<1> SUFFICES ASSUME Init PROVE Typed
  OBVIOUS
<1> USE DEF Init
<1>1. <<>> \in Seq(Conns) /\ <<>> \in Seq(Packets) /\ <<>> \in Seq(Data) /\ Len(<<>>) = 0
  OBVIOUS
<1>2. IsInjective(tcbs) /\ ToSet(tcbs) \subseteq Conns
  BY DEF IsInjective, ToSet
<1>3. RingSize \in Nat
  BY TcpAssumption
<1>4. \A c \in Conns : Len(sndbuf[c]) <= RingSize /\ Len(rcvbuf[c]) <= RingSize
  BY <1>1, <1>3
<1>5. pst \in [Conns -> {"idle", "syn_sent", "est", "fin_wait", "closed"}]
  OBVIOUS
<1>6. TypeOK
  BY <1>2, <1>4, <1>5 DEF TypeOK
<1>7. WireInv
  BY <1>1, EmptyTyped DEF WireInv
<1> QED
  BY <1>6, <1>7 DEF Typed

(* The program's steps. *)
LEMMA ServerTyped ==
    ASSUME Typed, FdInv, ServerSocket \/ ServerListens \/ AcceptTakes \/ AcceptWaits \/ RecvCall
                         \/ RecvWaits \/ SpuriousWakeup \/ CloseReleases
    PROVE  Typed'
<1> USE DEF Typed, TypeOK, WireInv, streamVars, appVars, pktVars, peerVars
<1>1. CASE ServerSocket
  <2>1. fdTable \subseteq {0}
    BY <1>1 DEF ServerSocket, FdInv, Serving
  <2>2. LowestFreeFd \in Fds
    BY <2>1, FreeDescriptor
  <2> QED
    BY <1>1, <2>2 DEF ServerSocket
<1>2. CASE ServerListens
  BY <1>2 DEF ServerListens
<1>3. CASE AcceptTakes
  <2>1. fdTable \subseteq {listener.fd}
    BY <1>3 DEF AcceptTakes, FdInv, Serving
  <2>2. LowestFreeFd \in Fds
    BY <2>1, FreeDescriptor
  <2>3. fd' \in [Conns -> Fds \cup {NoFd}]
    BY <1>3, <2>2 DEF AcceptTakes
  <2> QED
    BY <1>3, <2>2, <2>3 DEF AcceptTakes
<1>4. CASE AcceptWaits \/ RecvWaits \/ SpuriousWakeup \/ CloseReleases
  BY <1>4 DEF AcceptWaits, RecvWaits, SpuriousWakeup, CloseReleases, ReleaseFd
<1>5. CASE RecvCall
  <2>1. StreamOfFd(connfd) \in Conns \cup {NoConn}
    BY StreamFound, FoundIsFirst
  <2> QED
    BY <1>5, <2>1 DEF RecvCall
<1> QED
  BY <1>1, <1>2, <1>3, <1>4, <1>5

(* What nrecv makes of a fragment. *)
LEMMA RecvParts ==
    ASSUME NEW d \in Data
    PROVE  LET long == Len(d) > BufferSize
               rest == IF long THEN SubSeq(d, BufferSize + 1, Len(d)) ELSE <<>>
               copied == IF long THEN SubSeq(d, 1, BufferSize) ELSE d
           IN /\ rest \in Data /\ (IF long THEN SubSeq(copied, 1, Len(rest)) ELSE copied) \in Data
              /\ d = <<>> => rest = <<>>
<1> DEFINE n == Len(d)
           B == BufferSize
<1>1. d \in Seq(Nat) /\ n \in Nat /\ n <= 2 * B /\ B \in Nat \ {0}
      /\ \A i \in 1 .. n : d[i] \in Nat
  BY TcpAssumption DEF Data
<1>2. CASE n > B
  <2> DEFINE r == SubSeq(d, B + 1, n)
             e == SubSeq(d, 1, B)
             x == SubSeq(e, 1, Len(r))
  <2>1. r \in Seq(Nat) /\ Len(r) = n - B
    <3>1. B + 1 \in Int /\ n \in Int /\ \A i \in B + 1 .. n : d[i] \in Nat
      BY <1>1
    <3> HIDE DEF n, B
    <3>2. r \in Seq(Nat) /\ Len(r) = IF B + 1 <= n THEN n - (B + 1) + 1 ELSE 0
      BY <3>1, SubSeqProperties
    <3> HIDE DEF r
    <3> QED
      BY <1>1, <1>2, <3>2
  <2>2. e \in Seq(Nat) /\ Len(e) = B
    BY <1>1, <1>2
  <2> HIDE DEF n, B, r, e
  <2>3. x \in Seq(Nat) /\ Len(x) = n - B
    <3>1. n - B \in Nat /\ n - B <= B
      BY <1>1, <1>2
    <3>2. \A i \in 1 .. n - B : e[i] \in Nat
      BY <2>2, <3>1
    <3>3. 1 \in Int /\ n - B \in Int
      BY <3>1
    <3>4. /\ SubSeq(e, 1, n - B) \in Seq(Nat)
          /\ Len(SubSeq(e, 1, n - B)) = IF 1 <= n - B THEN (n - B) - 1 + 1 ELSE 0
      BY <3>2, <3>3, SubSeqProperties
    <3>5. Len(SubSeq(e, 1, n - B)) = n - B
      BY <3>1, <3>4
    <3> QED
      BY <2>1, <3>4, <3>5
  <2> HIDE DEF x
  <2>4. r \in Data /\ x \in Data
    BY <1>1, <1>2, <2>1, <2>3 DEF Data, B
  <2>5. d # <<>>
    <3>1. Len(<<>>) = 0
      OBVIOUS
    <3> QED
      BY <1>1, <1>2, <3>1 DEF n
  <2> QED
    BY <1>2, <2>4, <2>5 DEF n, B, r, e, x
<1>3. CASE ~(n > B)
  BY <1>3, EmptyTyped
<1> QED
  BY <1>2, <1>3

(* The program's descriptor always leads to a stream of the table. *)
LEMMA ServingStream ==
    ASSUME Typed, FdInv, Serving
    PROVE  StreamOfFd(connfd) \in Conns /\ First(tcbs, fd, connfd, StreamOfFd(connfd))
<1>1. tcbs \in Seq(Conns)
  BY DEF Typed, WireInv
<1>2. PICK o \in Conns : OpenStreams = {o} /\ fd[o] = connfd
  BY DEF FdInv
<1>3. InTable(o)
  BY <1>2 DEF OpenStreams
<1>4. PICK i \in DOMAIN tcbs : tcbs[i] = o
  BY <1>3 DEF InTable
<1>5. Found(tcbs, fd, connfd) # NoConn
  BY <1>1, <1>2, <1>4, FoundIsFirst
<1>6. First(tcbs, fd, connfd, Found(tcbs, fd, connfd))
  BY <1>1, <1>5, FoundIsFirst
<1> QED
  BY <1>1, <1>6, FoundIsFirst, StreamFound

(* nrecv keeps the types, also when it puts the rest of a fragment back. *)
LEMMA RecvTakesTyped ==
    ASSUME Typed, PtrInv, RecvTakes
    PROVE  Typed'
<1> DEFINE d == Head(rcvbuf[ptr])
           long == Len(d) > BufferSize
           rest == IF long THEN SubSeq(d, BufferSize + 1, Len(d)) ELSE <<>>
           copied == IF long THEN SubSeq(d, 1, BufferSize) ELSE d
           new == RestOf(rcvbuf[ptr], rest)
<1>1. ptr \in Conns /\ rcvbuf[ptr] \in Seq(Data) /\ rcvbuf[ptr] # <<>> /\ Len(rcvbuf[ptr]) <= RingSize
  BY DEF RecvTakes, PtrInv, Typed, WireInv, TypeOK
<1>2. /\ d \in Data /\ Tail(rcvbuf[ptr]) \in Seq(Data) /\ Len(rcvbuf[ptr]) \in Nat
      /\ Len(Tail(rcvbuf[ptr])) = Len(rcvbuf[ptr]) - 1
  BY <1>1, TailProperties
<1>3. rest \in Data /\ (IF long THEN SubSeq(copied, 1, Len(rest)) ELSE copied) \in Data
  BY <1>2, RecvParts
<1>4. /\ rcvbuf' = [rcvbuf EXCEPT ![ptr] = new]
      /\ buff' = IF long THEN SubSeq(copied, 1, Len(rest)) ELSE copied
      /\ pcS' \in {"close", "send"}
      /\ UNCHANGED <<listener, tcbs, status, fd, sndNxt, rcvNxt, sndbuf, fdTable,
                      connfd, ptr, pktVars, inp, out, peerVars>>
  BY <1>1 DEF RecvTakes, Typed, WireInv
<1> HIDE DEF d, long, rest, copied
<1>5. new \in Seq(Data) /\ Len(new) <= RingSize
  <2>1. RingSize \in Nat
    BY TcpAssumption
  <2>2. Len(Tail(rcvbuf[ptr])) <= RingSize
    BY <1>1, <1>2, <2>1
  <2>3. CASE rest = <<>>
    BY <1>2, <2>2, <2>3 DEF RestOf
  <2>4. CASE rest # <<>>
    BY <1>2, <1>3, <2>2, <2>4, EnqueueProperties DEF RestOf
  <2> QED
    BY <2>3, <2>4
<1> HIDE DEF new
<1>6. /\ rcvbuf' \in [Conns -> Seq(Data)]
      /\ \A c \in Conns : Len(rcvbuf'[c]) <= RingSize
  BY <1>1, <1>4, <1>5 DEF Typed, WireInv, TypeOK
<1>7. buff' \in Data
  BY <1>3, <1>4
<1>8. WireInv'
  BY <1>4, <1>6, <1>7 DEF Typed, WireInv, peerVars, pktVars
<1>9. TypeOK'
  BY <1>4, <1>6 DEF Typed, TypeOK, peerVars, pktVars
<1> QED
  BY <1>8, <1>9 DEF Typed

(* A fragment goes into the sndbuf of a stream. *)
LEMMA SndbufTyped ==
    ASSUME Typed, NEW c \in Conns, NEW p \in Packets, sndbuf' = [sndbuf EXCEPT ![c] = Enqueue(@, p)]
    PROVE  /\ sndbuf' \in [Conns -> Seq(Packets)]
           /\ \A d \in Conns : Len(sndbuf'[d]) <= RingSize
           /\ sndbuf'[c] = Enqueue(sndbuf[c], p)
           /\ \A d \in Conns \ {c} : sndbuf'[d] = sndbuf[d]
<1>1. sndbuf \in [Conns -> Seq(Packets)] /\ \A d \in Conns : Len(sndbuf[d]) <= RingSize
  BY DEF Typed, WireInv, TypeOK
<1>2. Enqueue(sndbuf[c], p) \in Seq(Packets) /\ Len(Enqueue(sndbuf[c], p)) <= RingSize
  BY <1>1, EnqueueProperties
<1> QED
  BY <1>1, <1>2

(* A fragment put into rcvbuf keeps the ring within its size. *)
LEMMA RcvbufTyped ==
    ASSUME Typed, NEW c \in Conns, NEW p \in Data, rcvbuf' = [rcvbuf EXCEPT ![c] = Enqueue(@, p)]
    PROVE  /\ rcvbuf' \in [Conns -> Seq(Data)]
           /\ \A d \in Conns : Len(rcvbuf'[d]) <= RingSize
           /\ rcvbuf'[c] = Enqueue(rcvbuf[c], p)
           /\ \A d \in Conns \ {c} : rcvbuf'[d] = rcvbuf[d]
<1>1. rcvbuf \in [Conns -> Seq(Data)] /\ \A d \in Conns : Len(rcvbuf[d]) <= RingSize
  BY DEF Typed, WireInv, TypeOK
<1>2. Enqueue(rcvbuf[c], p) \in Seq(Data) /\ Len(Enqueue(rcvbuf[c], p)) <= RingSize
  BY <1>1, EnqueueProperties
<1> QED
  BY <1>1, <1>2

(* nsend and nclose. *)
LEMMA ReplyTyped ==
    ASSUME Typed, FdInv, CloseInv, SendEcho \/ CloseSends \/ CloseMarks
    PROVE  Typed'
<1> DEFINE s == StreamOfFd(connfd)
<1>1. s \in Conns
  BY ServingStream DEF SendEcho, CloseSends, CloseMarks, Serving
<1> HIDE DEF s
<1>2. sndNxt[s] \in Nat /\ rcvNxt[s] \in Nat /\ buff \in Data /\ <<>> \in Data
  BY <1>1, EmptyTyped DEF Typed, TypeOK, WireInv
<1>3. CASE SendEcho
  <2> DEFINE p == Packet({"PSH", "ACK"}, sndNxt[s], rcvNxt[s], buff)
  <2>1. p \in Packets
    BY <1>2, PacketTyped
  <2>2. sndbuf' = [sndbuf EXCEPT ![s] = Enqueue(@, p)]
    BY <1>3 DEF SendEcho, s
  <2> HIDE DEF p
  <2>3. sndbuf' \in [Conns -> Seq(Packets)] /\ \A d \in Conns : Len(sndbuf'[d]) <= RingSize
    BY <1>1, <2>1, <2>2, SndbufTyped
  <2> QED
    BY <1>3, <2>3 DEF SendEcho, Typed, TypeOK, WireInv, peerVars, pktVars
<1>4. CASE CloseSends
  <2> DEFINE p == Packet({"FIN", "ACK"}, sndNxt[s], rcvNxt[s], <<>>)
  <2>1. p \in Packets
    BY <1>2, PacketTyped
  <2>2. sndbuf' = [sndbuf EXCEPT ![s] = Enqueue(@, p)] /\ ptr' = s
    BY <1>4 DEF CloseSends, s
  <2> HIDE DEF p
  <2>3. sndbuf' \in [Conns -> Seq(Packets)] /\ \A d \in Conns : Len(sndbuf'[d]) <= RingSize
    BY <1>1, <2>1, <2>2, SndbufTyped
  <2> QED
    BY <1>1, <1>4, <2>2, <2>3 DEF CloseSends, Typed, TypeOK, WireInv, peerVars, pktVars
<1>5. CASE CloseMarks
  BY <1>5 DEF CloseMarks, Typed, TypeOK, WireInv, peerVars, pktVars
<1> QED
  BY <1>3, <1>4, <1>5

(* The packet thread's steps on the stream it works on. *)
LEMMA StageTyped ==
    ASSUME Typed, EndInv, SignalAccept \/ EnqueuePayload \/ EnqueueEnd \/ SignalData \/ SendAck
    PROVE  Typed'
<1> USE DEF peerVars, pktVars, streamVars, appVars
<1>1. CASE SignalAccept
  BY <1>1 DEF SignalAccept, AfterAcceptSignal, Typed, TypeOK, WireInv
<1>2. CASE SignalData
  BY <1>2 DEF SignalData, AfterDataSignal, Typed, TypeOK, WireInv
<1>3. pkt \in Packets /\ pkt.data \in Data /\ pkt.ack \in Nat /\ Len(pkt.data) \in Nat
      /\ pkt.flags \in SUBSET {"SYN", "ACK", "PSH", "FIN"}
  BY DEF Typed, WireInv, Packets, Data
<1>4. CASE EnqueuePayload
  <2>1. cur \in Conns
    BY <1>4 DEF EnqueuePayload, EndInv, StageInv
  <2>2. rcvbuf' \in [Conns -> Seq(Data)] /\ \A d \in Conns : Len(rcvbuf'[d]) <= RingSize
    BY <1>3, <1>4, <2>1, RcvbufTyped DEF EnqueuePayload
  <2> QED
    BY <1>4, <2>2 DEF EnqueuePayload, Typed, TypeOK, WireInv
<1>5. CASE EnqueueEnd
  <2>1. cur \in Conns
    BY <1>5 DEF EnqueueEnd, EndInv, StageInv
  <2>2. rcvbuf' \in [Conns -> Seq(Data)] /\ \A d \in Conns : Len(rcvbuf'[d]) <= RingSize
    BY <1>5, <2>1, EmptyTyped, RcvbufTyped DEF EnqueueEnd
  <2> QED
    BY <1>5, <2>1, <2>2 DEF EnqueueEnd, Typed, TypeOK, WireInv
<1>6. CASE SendAck
  <2>1. cur \in Conns
    BY <1>6 DEF SendAck, EndInv, StageInv
  <2>2. Received \in Nat
    BY <1>3 DEF Received
  <2>3. rcvNxt' \in [Conns -> Nat] /\ sndNxt' \in [Conns -> Nat]
    BY <1>3, <1>6, <2>1, <2>2 DEF SendAck, Typed, TypeOK
  <2> DEFINE p == Packet({"ACK"}, pkt.ack, rcvNxt'[cur], <<>>)
  <2>4. rcvNxt'[cur] \in Nat
    BY <2>1, <2>3
  <2>5. p \in Packets
    BY <1>3, <2>4, EmptyTyped, PacketTyped
  <2>6. sndbuf' = [sndbuf EXCEPT ![cur] = Enqueue(@, p)]
    BY <1>6 DEF SendAck
  <2> HIDE DEF p
  <2>7. sndbuf' \in [Conns -> Seq(Packets)] /\ \A d \in Conns : Len(sndbuf'[d]) <= RingSize
    BY <2>1, <2>5, <2>6, SndbufTyped
  <2> QED
    BY <1>6, <2>3, <2>7, ZenonT(30) DEF SendAck, Typed, TypeOK, WireInv
<1> QED
  BY <1>1, <1>2, <1>4, <1>5, <1>6

(* A stream put at the head of the table. *)
LEMMA ConsProperties ==
    ASSUME NEW t \in Seq(Conns), NEW c \in Conns
    PROVE  /\ <<c>> \o t \in Seq(Conns)
           /\ 1 \in DOMAIN (<<c>> \o t) /\ (<<c>> \o t)[1] = c
           /\ \A i \in DOMAIN t : i + 1 \in DOMAIN (<<c>> \o t) /\ (<<c>> \o t)[i + 1] = t[i]
           /\ \A i \in DOMAIN (<<c>> \o t) :
                 i = 1 \/ (i - 1 \in DOMAIN t /\ (<<c>> \o t)[i] = t[i - 1])
<1> DEFINE u == <<c>> \o t
           n == Len(t)
<1>1. n \in Nat /\ DOMAIN t = 1 .. n /\ <<c>> \in Seq(Conns) /\ Len(<<c>>) = 1
  OBVIOUS
<1>2. /\ u \in Seq(Conns) /\ Len(u) = 1 + n
      /\ \A i \in 1 .. 1 + n : u[i] = IF i <= 1 THEN <<c>>[i] ELSE t[i - 1]
  <2>1. /\ u \in Seq(Conns) /\ Len(u) = Len(<<c>>) + n
        /\ \A i \in 1 .. Len(<<c>>) + n :
              u[i] = IF i <= Len(<<c>>) THEN <<c>>[i] ELSE t[i - Len(<<c>>)]
    BY <1>1, ConcatProperties
  <2> QED
    BY <1>1, <2>1
<1>3. DOMAIN u = 1 .. 1 + n /\ u[1] = c
  BY <1>1, <1>2
<1> HIDE DEF u
<1>4. \A i \in 1 .. n : i + 1 \in 1 .. 1 + n /\ u[i + 1] = t[i]
  BY <1>1, <1>2
<1>5. \A i \in 1 .. 1 + n : i = 1 \/ (i - 1 \in 1 .. n /\ u[i] = t[i - 1])
  BY <1>1, <1>2
<1>6. 1 \in 1 .. 1 + n
  BY <1>1
<1> HIDE DEF n
<1> QED
  BY <1>1, <1>2, <1>3, <1>4, <1>5, <1>6 DEF u

(* LL_ADD puts a new stream in front of the table. *)
LEMMA TableGrows ==
    ASSUME Typed, NEW c \in Conns, ~InTable(c), tcbs' = <<c>> \o tcbs
    PROVE  /\ tcbs' \in Seq(Conns) /\ IsInjective(tcbs') /\ ToSet(tcbs') \subseteq Conns
           /\ \A d \in Conns : InTable(d)' <=> d = c \/ InTable(d)
<1>1. tcbs \in Seq(Conns) /\ IsInjective(tcbs)
  BY DEF Typed, WireInv, TypeOK
<1>2. /\ tcbs' \in Seq(Conns) /\ 1 \in DOMAIN tcbs' /\ tcbs'[1] = c
      /\ \A i \in DOMAIN tcbs : i + 1 \in DOMAIN tcbs' /\ tcbs'[i + 1] = tcbs[i]
      /\ \A i \in DOMAIN tcbs' : i = 1 \/ (i - 1 \in DOMAIN tcbs /\ tcbs'[i] = tcbs[i - 1])
  BY <1>1, ConsProperties
<1>3. DOMAIN tcbs' \subseteq Nat
  BY <1>2
<1>4. \A d \in Conns : InTable(d)' <=> d = c \/ InTable(d)
  <2>1. ASSUME NEW d \in Conns, InTable(d)' PROVE d = c \/ InTable(d)
    <3>1. PICK i \in DOMAIN tcbs' : tcbs'[i] = d
      BY <2>1 DEF InTable
    <3> QED
      BY <1>2, <3>1 DEF InTable
  <2>2. ASSUME NEW d \in Conns, InTable(d) PROVE InTable(d)'
    <3>1. PICK i \in DOMAIN tcbs : tcbs[i] = d
      BY <2>2 DEF InTable
    <3> QED
      BY <1>2, <3>1 DEF InTable
  <2>3. InTable(c)'
    BY <1>2 DEF InTable
  <2> QED
    BY <2>1, <2>2, <2>3
<1>5. IsInjective(tcbs')
  <2>1. ASSUME NEW i \in DOMAIN tcbs', NEW j \in DOMAIN tcbs', tcbs'[i] = tcbs'[j] PROVE i = j
    <3>1. i \in Nat /\ j \in Nat
      BY <1>3
    <3>2. CASE i = 1 \/ j = 1
      BY <1>2, <2>1, <3>2 DEF InTable
    <3>3. CASE i # 1 /\ j # 1
      <4>1. i - 1 = j - 1
        BY <1>1, <1>2, <2>1, <3>3 DEF IsInjective
      <4> QED
        BY <3>1, <4>1
    <3> QED
      BY <3>2, <3>3
  <2> QED
    BY <2>1 DEF IsInjective
<1>6. ToSet(tcbs') \subseteq Conns
  BY <1>2 DEF ToSet
<1> QED
  BY <1>2, <1>4, <1>5, <1>6

(* A stream of the table is found at its place. *)
LEMMA PlaceInTable ==
    ASSUME NEW c \in Conns, InTable(c)
    PROVE  PlaceOf(c) \in DOMAIN tcbs /\ tcbs[PlaceOf(c)] = c
BY DEF InTable, PlaceOf

(* LL_REMOVE takes exactly this stream out of the table. *)
LEMMA TableShrinks ==
    ASSUME Typed, NEW c \in Conns, InTable(c), tcbs' = RemoveAt(tcbs, PlaceOf(c))
    PROVE  /\ tcbs' \in Seq(Conns) /\ IsInjective(tcbs') /\ ToSet(tcbs') \subseteq Conns
           /\ \A d \in Conns : InTable(d)' <=> d # c /\ InTable(d)
<1> DEFINE k == PlaceOf(c)
<1>1. tcbs \in Seq(Conns) /\ IsInjective(tcbs) /\ DOMAIN tcbs \subseteq Nat
  <2>1. tcbs \in Seq(Conns) /\ IsInjective(tcbs)
    BY DEF Typed, WireInv, TypeOK
  <2>2. DOMAIN tcbs \subseteq Nat
    BY <2>1
  <2> QED
    BY <2>1, <2>2
<1>2. k \in DOMAIN tcbs /\ tcbs[k] = c
  BY PlaceInTable
<1> HIDE DEF k
<1>3. /\ tcbs' \in Seq(Conns)
      /\ \A i \in DOMAIN tcbs' :
            IF i < k THEN i \in DOMAIN tcbs /\ tcbs'[i] = tcbs[i]
                     ELSE i + 1 \in DOMAIN tcbs /\ tcbs'[i] = tcbs[i + 1]
      /\ \A i \in DOMAIN tcbs :
            /\ i < k => i \in DOMAIN tcbs' /\ tcbs'[i] = tcbs[i]
            /\ i > k => i - 1 \in DOMAIN tcbs' /\ tcbs'[i - 1] = tcbs[i]
  BY <1>1, <1>2, RemoveProperties DEF k
<1>4. DOMAIN tcbs' \subseteq Nat
  BY <1>3
<1>5. \A d \in Conns : InTable(d)' <=> d # c /\ InTable(d)
  <2>1. ASSUME NEW d \in Conns, InTable(d)' PROVE d # c /\ InTable(d)
    <3>1. PICK i \in DOMAIN tcbs' : tcbs'[i] = d
      BY <2>1 DEF InTable
    <3>2. PICK m \in DOMAIN tcbs : tcbs[m] = d /\ m # k
      <4>1. CASE i < k
        BY <1>1, <1>3, <3>1, <4>1
      <4>2. CASE ~(i < k)
        <5>1. i + 1 # k
          BY <1>1, <1>2, <1>4, <4>2
        <5> QED
          BY <1>3, <3>1, <4>2, <5>1
      <4> QED
        BY <4>1, <4>2
    <3> QED
      BY <1>1, <1>2, <3>2 DEF InTable, IsInjective
  <2>2. ASSUME NEW d \in Conns, InTable(d), d # c PROVE InTable(d)'
    <3>1. PICK i \in DOMAIN tcbs : tcbs[i] = d
      BY <2>2 DEF InTable
    <3>2. i < k \/ i > k
      BY <1>1, <1>2, <2>2, <3>1
    <3> QED
      BY <1>3, <3>1, <3>2 DEF InTable
  <2> QED
    BY <2>1, <2>2
<1>6. IsInjective(tcbs')
  <2>1. ASSUME NEW i \in DOMAIN tcbs', NEW j \in DOMAIN tcbs', tcbs'[i] = tcbs'[j] PROVE i = j
    <3>1. i \in Nat /\ j \in Nat /\ k \in Nat
      BY <1>1, <1>2, <1>4
    <3>2. CASE i < k /\ j < k
      BY <1>1, <1>3, <2>1, <3>2 DEF IsInjective
    <3>3. CASE ~(i < k) /\ ~(j < k)
      <4>1. i + 1 = j + 1
        BY <1>1, <1>3, <2>1, <3>3 DEF IsInjective
      <4> QED
        BY <3>1, <4>1
    <3>4. CASE i < k /\ ~(j < k)
      <4>1. i = j + 1
        BY <1>1, <1>3, <2>1, <3>4 DEF IsInjective
      <4> QED
        BY <3>1, <3>4, <4>1
    <3>5. CASE ~(i < k) /\ j < k
      <4>1. i + 1 = j
        BY <1>1, <1>3, <2>1, <3>5 DEF IsInjective
      <4> QED
        BY <3>1, <3>5, <4>1
    <3> QED
      BY <3>2, <3>3, <3>4, <3>5
  <2> QED
    BY <2>1 DEF IsInjective
<1>7. ToSet(tcbs') \subseteq Conns
  BY <1>3 DEF ToSet
<1> QED
  BY <1>3, <1>5, <1>6, <1>7

(* The packet handlers. *)
LEMMA HandleTyped ==
    ASSUME Typed, NEW c \in Conns, Handle(c)
    PROVE  Typed'
<1> USE DEF peerVars, pktVars, streamVars, appVars
<1>1. /\ inp[c] # <<>> /\ Head(inp[c]) \in Packets /\ inp' = [inp EXCEPT ![c] = Tail(@)]
      /\ inp' \in [Conns -> Seq(Packets)]
  <2>1. inp[c] # <<>> /\ inp' = [inp EXCEPT ![c] = Tail(@)]
    BY DEF Handle, NoListener, HandleListen, HandleSynRcvd, HandleEstablished, HandleCloseWait,
           HandleLastAck, Arrives
  <2>2. inp \in [Conns -> Seq(Packets)]
    BY DEF Typed, WireInv
  <2>3. Head(inp[c]) \in Packets /\ Tail(inp[c]) \in Seq(Packets)
    BY <2>1, <2>2, TailProperties
  <2> QED
    BY <2>1, <2>2, <2>3
<1>2. CASE NoListener(c) \/ HandleCloseWait(c)
  BY <1>1, <1>2, ZenonT(30) DEF NoListener, HandleCloseWait, Typed, TypeOK, WireInv
<1>3. CASE HandleEstablished(c)
  BY <1>1, <1>3 DEF HandleEstablished, FirstStage, Typed, TypeOK, WireInv
<1>4. CASE HandleSynRcvd(c)
  <2>1. /\ status' \in [Conns -> {"CLOSED", "SYN_RCVD", "ESTABLISHED", "CLOSE_WAIT", "LAST_ACK"}]
        /\ pcP' \in {pcP, "signalAccept"}
    BY <1>4 DEF HandleSynRcvd, Typed, TypeOK
  <2>2. UNCHANGED <<listener, tcbs, fd, sndNxt, rcvNxt, sndbuf, rcvbuf, appVars, cur, pkt, unheard,
                    out, peerVars>>
    BY <1>4 DEF HandleSynRcvd
  <2>3. TypeOK'
    BY <2>1, <2>2 DEF Typed, TypeOK
  <2>4. WireInv'
    BY <1>1, <2>2 DEF Typed, WireInv
  <2> QED
    BY <2>3, <2>4 DEF Typed
<1>5. CASE HandleListen(c)
  <2> DEFINE q == Head(inp[c])
  <2>1. CASE "SYN" \in q.flags
    <3>1. /\ tcbs' = <<c>> \o tcbs /\ status' = [status EXCEPT ![c] = "SYN_RCVD"]
          /\ rcvNxt' = [rcvNxt EXCEPT ![c] = q.seq + 1]
          /\ sndbuf' = [sndbuf EXCEPT ![c] = Enqueue(@, Packet({"SYN", "ACK"}, 0, q.seq + 1, <<>>))]
          /\ ~InTable(c)
      BY <1>5, <2>1 DEF HandleListen
    <3>2. q.seq + 1 \in Nat
      BY <1>1 DEF Packets
    <3>3. Packet({"SYN", "ACK"}, 0, q.seq + 1, <<>>) \in Packets
      BY <3>2, EmptyTyped, PacketTyped
    <3>4. sndbuf' \in [Conns -> Seq(Packets)] /\ \A d \in Conns : Len(sndbuf'[d]) <= RingSize
      BY <3>1, <3>3, SndbufTyped
    <3>5. tcbs' \in Seq(Conns) /\ IsInjective(tcbs') /\ ToSet(tcbs') \subseteq Conns
      BY <3>1, TableGrows
    <3>6. status' \in [Conns -> {"CLOSED", "SYN_RCVD", "ESTABLISHED", "CLOSE_WAIT", "LAST_ACK"}]
      BY <3>1 DEF Typed, TypeOK
    <3>7. rcvNxt' \in [Conns -> Nat]
      BY <3>1, <3>2 DEF Typed, TypeOK
    <3> QED
      BY <1>1, <1>5, <3>4, <3>5, <3>6, <3>7, ZenonT(30) DEF HandleListen, Typed, TypeOK, WireInv
  <2>2. CASE "SYN" \notin q.flags
    BY <1>1, <1>5, <2>2, ZenonT(30) DEF HandleListen, Typed, TypeOK, WireInv
  <2> QED
    BY <2>1, <2>2
<1>6. CASE HandleLastAck(c)
  <2>1. /\ tcbs' = RemoveAt(tcbs, PlaceOf(c)) /\ InTable(c)
        /\ status' = [status EXCEPT ![c] = "CLOSED"] /\ fd' = [fd EXCEPT ![c] = NoFd]
        /\ sndbuf' = [sndbuf EXCEPT ![c] = <<>>] /\ rcvbuf' = [rcvbuf EXCEPT ![c] = <<>>]
    BY <1>6 DEF HandleLastAck
  <2>2. tcbs' \in Seq(Conns) /\ IsInjective(tcbs') /\ ToSet(tcbs') \subseteq Conns
    BY <2>1, TableShrinks
  <2>3. /\ status' \in [Conns -> {"CLOSED", "SYN_RCVD", "ESTABLISHED", "CLOSE_WAIT", "LAST_ACK"}]
        /\ fd' \in [Conns -> Fds \cup {NoFd}]
    BY <2>1 DEF Typed, TypeOK
  <2>4. /\ sndbuf' \in [Conns -> Seq(Packets)] /\ rcvbuf' \in [Conns -> Seq(Data)]
    BY <2>1 DEF Typed, WireInv
  <2>5. \A d \in Conns : Len(sndbuf'[d]) <= RingSize /\ Len(rcvbuf'[d]) <= RingSize
    <3>1. Len(<<>>) = 0 /\ RingSize \in Nat
      BY TcpAssumption
    <3> QED
      BY <2>1, <3>1 DEF Typed, WireInv, TypeOK
  <2>6. UNCHANGED <<listener, sndNxt, rcvNxt, appVars, pktVars, out, peerVars>>
    BY <1>6 DEF HandleLastAck
  <2>7. TypeOK'
    BY <2>2, <2>3, <2>5, <2>6 DEF Typed, TypeOK
  <2>8. WireInv'
    BY <1>1, <2>2, <2>4, <2>6 DEF Typed, WireInv
  <2> QED
    BY <2>7, <2>8 DEF Typed
<1> QED
  BY <1>2, <1>3, <1>4, <1>5, <1>6 DEF Handle

(* ng_tcp_out keeps the types and sends the fragment as it is. *)
LEMMA TcpOutTyped ==
    ASSUME Typed, NEW c \in Conns, TcpOut(c)
    PROVE  Typed' /\ ng_tcp_pkt(Head(sndbuf[c])) = Head(sndbuf[c])
<1>1. /\ sndbuf[c] # <<>> /\ sndbuf \in [Conns -> Seq(Packets)] /\ out \in [Conns -> Seq(Packets)]
      /\ Len(sndbuf[c]) <= RingSize
  BY DEF TcpOut, Typed, WireInv, TypeOK
<1>2. /\ Head(sndbuf[c]) \in Packets /\ Tail(sndbuf[c]) \in Seq(Packets)
      /\ Len(Tail(sndbuf[c])) = Len(sndbuf[c]) - 1 /\ Len(sndbuf[c]) \in Nat
  BY <1>1, TailProperties
<1>3. Len(Tail(sndbuf[c])) <= RingSize
  BY <1>1, <1>2, TcpAssumption
<1>4. ng_tcp_pkt(Head(sndbuf[c])) = Head(sndbuf[c])
  BY <1>2 DEF ng_tcp_pkt, Packet, Packets
<1>5. sndbuf' \in [Conns -> Seq(Packets)] /\ \A d \in Conns : Len(sndbuf'[d]) <= RingSize
  BY <1>1, <1>2, <1>3 DEF TcpOut, Typed, TypeOK
<1>6. out' \in [Conns -> Seq(Packets)]
  BY <1>1, <1>2, <1>4 DEF TcpOut
<1> QED
  BY <1>4, <1>5, <1>6 DEF TcpOut, Typed, TypeOK, WireInv, appVars, pktVars, peerVars

(* A client's packet goes to the stack. *)
LEMMA OutputTyped ==
    ASSUME Typed, NEW c \in Conns, NEW p \in Packets, PeerOutput(c, p)
    PROVE  /\ inp' \in [Conns -> Seq(Packets)]
           /\ \A d \in Conns \ {c} : inp'[d] = inp[d]
           /\ Len(inp'[c]) = Len(inp[c]) + 1
           /\ \A i \in DOMAIN inp'[c] : \/ i \in DOMAIN inp[c] /\ inp'[c][i] = inp[c][i]
                                        \/ i = Len(inp[c]) + 1 /\ inp'[c][i] = p
<1>1. inp \in [Conns -> Seq(Packets)]
  BY DEF Typed, WireInv
<1>2. inp' = [inp EXCEPT ![c] = Append(inp[c], p)]
  BY <1>1 DEF PeerOutput
<1>3. /\ Append(inp[c], p) \in Seq(Packets) /\ Len(Append(inp[c], p)) = Len(inp[c]) + 1
      /\ DOMAIN Append(inp[c], p) = 1 .. Len(inp[c]) + 1 /\ Len(inp[c]) \in Nat
      /\ DOMAIN inp[c] = 1 .. Len(inp[c])
      /\ \A i \in 1 .. Len(inp[c]) : Append(inp[c], p)[i] = inp[c][i]
      /\ Append(inp[c], p)[Len(inp[c]) + 1] = p
  BY <1>1, AppendProperties, LenProperties
<1> QED
  BY <1>1, <1>2, <1>3

(* The steps of the clients keep the types. *)
LEMMA PeerTyped ==
    ASSUME Typed, NEW c \in Conns,
           PeerConnects(c) \/ PeerSends(c) \/ PeerCloses(c) \/ PeerReceives(c)
    PROVE  Typed'
<1> DEFINE pstates == {"idle", "syn_sent", "est", "fin_wait", "closed"}
           n == pSent[c]
<1>1. /\ n \in Nat /\ pRcv[c] \in Nat /\ traffic \in Traffics /\ <<>> \in Data
      /\ pst \in [Conns -> pstates] /\ pSent \in [Conns -> Nat] /\ pRcv \in [Conns -> Nat]
      /\ inp \in [Conns -> Seq(Packets)] /\ out \in [Conns -> Seq(Packets)]
  BY EmptyTyped DEF Typed, WireInv, TypeOK
<1>2. Segment(n + 1) \in Data /\ 1 + n * SegLen \in Nat
  BY <1>1, SegmentTyped
<1>3. /\ pst' \in [Conns -> pstates] /\ pSent' \in [Conns -> Nat] /\ pRcv' \in [Conns -> Nat]
      /\ inp' \in [Conns -> Seq(Packets)] /\ out' \in [Conns -> Seq(Packets)]
  <2>1. CASE PeerConnects(c)
    <3>1. Packet({"SYN"}, 0, 0, <<>>) \in Packets
      BY <1>1, PacketTyped
    <3>2. inp' \in [Conns -> Seq(Packets)]
      BY <2>1, <3>1, OutputTyped DEF PeerConnects
    <3> QED
      BY <1>1, <2>1, <3>2 DEF PeerConnects
  <2>2. CASE PeerSends(c)
    <3>1. Packet({"PSH", "ACK"}, 1 + n * SegLen, pRcv[c], Segment(n + 1)) \in Packets
      BY <1>1, <1>2, PacketTyped
    <3>2. inp' \in [Conns -> Seq(Packets)]
      BY <2>2, <3>1, OutputTyped DEF PeerSends
    <3>3. pSent' \in [Conns -> Nat]
      BY <1>1, <2>2 DEF PeerSends
    <3> QED
      BY <1>1, <2>2, <3>2, <3>3 DEF PeerSends
  <2>3. CASE PeerCloses(c)
    <3>1. /\ Packet({"FIN", "ACK"}, 1 + n * SegLen, pRcv[c], <<>>) \in Packets
          /\ Packet({"PSH", "FIN", "ACK"}, 1 + n * SegLen, pRcv[c], Segment(n + 1)) \in Packets
      BY <1>1, <1>2, PacketTyped
    <3>2. inp' \in [Conns -> Seq(Packets)]
      BY <2>3, <3>1, OutputTyped DEF PeerCloses
    <3>3. pSent' \in [Conns -> Nat]
      BY <1>1, <2>3 DEF PeerCloses
    <3> QED
      BY <1>1, <2>3, <3>2, <3>3 DEF PeerCloses
  <2>4. CASE PeerReceives(c)
    <3> DEFINE p == Head(out[c])
               size == Len(p.data) + (IF p.flags \cap {"SYN", "FIN"} # {} THEN 1 ELSE 0)
               next == IF p.seq = pRcv[c] THEN pRcv[c] + size ELSE pRcv[c]
    <3>1. out[c] # <<>> /\ out' = [out EXCEPT ![c] = Tail(@)] /\ pRcv' = [pRcv EXCEPT ![c] = next]
          /\ pSent' = pSent
      BY <2>4 DEF PeerReceives
    <3>2. p \in Packets /\ Tail(out[c]) \in Seq(Packets)
      BY <1>1, <3>1, TailProperties
    <3>3. size \in Nat /\ next \in Nat
      <4>1. Len(p.data) \in Nat
        BY <3>2 DEF Packets, Data
      <4> HIDE DEF p
      <4>2. size \in Nat
        <5>1. \A k \in Nat : k + 1 \in Nat /\ k + 0 \in Nat
          OBVIOUS
        <5> QED
          BY <4>1, <5>1, Zenon
      <4> HIDE DEF size
      <4> QED
        BY <1>1, <4>2
    <3>4. pst' \in [Conns -> pstates]
      BY <1>1, <2>4 DEF PeerReceives
    <3>5. inp' = inp \/ PeerOutput(c, Packet({"ACK"}, 1 + n * SegLen, next, <<>>))
      BY <2>4 DEF PeerReceives
    <3> HIDE DEF p, size, next
    <3>6. Packet({"ACK"}, 1 + n * SegLen, next, <<>>) \in Packets
      BY <1>1, <1>2, <3>3, PacketTyped
    <3>7. inp' \in [Conns -> Seq(Packets)]
      BY <1>1, <3>5, <3>6, OutputTyped
    <3> QED
      BY <1>1, <3>1, <3>2, <3>3, <3>4, <3>7
  <2> QED
    BY <2>1, <2>2, <2>3, <2>4
<1>4. UNCHANGED <<listener, streamVars, appVars, pktVars, traffic>>
  BY DEF PeerConnects, PeerSends, PeerCloses, PeerReceives
<1> HIDE DEF n
<1>5. TypeOK'
  BY <1>3, <1>4, SMTT(30) DEF Typed, TypeOK, streamVars, appVars, pktVars
<1>6. WireInv'
  BY <1>3, <1>4 DEF Typed, WireInv, streamVars, appVars, pktVars
<1> QED
  BY <1>5, <1>6 DEF Typed

(* Every step keeps the types. *)
LEMMA TypedNext == StackInv /\ [Next]_vars => Typed'
<1> SUFFICES ASSUME StackInv, [Next]_vars PROVE Typed'
  OBVIOUS
<1>1. Typed /\ FdInv /\ PtrInv /\ EndInv
  BY DEF StackInv, Typed
<1>2. CASE UNCHANGED vars
  <2> USE DEF vars, streamVars, appVars, pktVars, peerVars, Typed
  <2>1. TypeOK'
    BY <1>1, <1>2 DEF TypeOK
  <2>2. WireInv'
    BY <1>1, <1>2 DEF WireInv
  <2> QED
    BY <2>1, <2>2
<1>3. CASE ServerStep \/ SpuriousWakeup
  BY <1>1, <1>3, ServerTyped, RecvTakesTyped, ReplyTyped DEF ServerStep, EndInv
<1>4. CASE PacketStep
  BY <1>1, <1>4, StageTyped DEF PacketStep
<1>5. ASSUME NEW c \in Conns, Handle(c) \/ TcpOut(c) \/ PeerConnects(c) \/ PeerStep(c)
      PROVE  Typed'
  BY <1>1, <1>5, HandleTyped, TcpOutTyped, PeerTyped DEF PeerStep
<1> QED
  BY <1>2, <1>3, <1>4, <1>5 DEF Next

-----------------------------------------------------------------------------
(* The table.                                                              *)

(* The steps that leave every control block alone. *)
QuietStep ==
    \/ ServerSocket \/ ServerListens \/ CloseReleases \/ AcceptWaits \/ RecvCall \/ RecvWaits
    \/ SpuriousWakeup \/ SignalAccept \/ SignalData \/ UNCHANGED vars
    \/ \E c \in Conns : \/ NoListener(c) \/ HandleEstablished(c) \/ HandleCloseWait(c)
                        \/ PeerConnects(c) \/ PeerStep(c)

(* The steps that change one. *)
StreamStep ==
    \/ AcceptTakes \/ RecvTakes \/ SendEcho \/ CloseSends \/ CloseMarks
    \/ EnqueuePayload \/ EnqueueEnd \/ SendAck
    \/ \E c \in Conns : HandleListen(c) \/ HandleSynRcvd(c) \/ HandleLastAck(c) \/ TcpOut(c)

(* Every step leaves the streams alone or is one of those that change      *)
(* them.                                                                   *)
LEMMA Steps == [Next]_vars => QuietStep \/ StreamStep
BY DEF Next, ServerStep, PacketStep, Handle, PeerStep, QuietStep, StreamStep

(* A quiet step changes neither table nor streams. *)
LEMMA QuietStreams == QuietStep => UNCHANGED streamVars
<1>1. ServerSocket \/ ServerListens \/ CloseReleases \/ AcceptWaits \/ RecvCall \/ RecvWaits
      \/ SpuriousWakeup \/ SignalAccept \/ SignalData \/ UNCHANGED vars => UNCHANGED streamVars
  BY DEF ServerSocket, ServerListens, CloseReleases, AcceptWaits, RecvCall, RecvWaits, SpuriousWakeup,
         SignalAccept, SignalData, vars
<1>2. \A c \in Conns : NoListener(c) \/ HandleEstablished(c) \/ HandleCloseWait(c)
                       \/ PeerConnects(c) \/ PeerStep(c) => UNCHANGED streamVars
  BY DEF NoListener, HandleEstablished, HandleCloseWait, PeerConnects, PeerStep, PeerSends,
         PeerCloses, PeerReceives
<1> QED
  BY <1>1, <1>2 DEF QuietStep

(* An unchanged table holds the same streams. *)
LEMMA TableSame == tcbs' = tcbs => \A d : InTable(d)' <=> InTable(d)
BY DEF InTable

(* The stream naccept takes. *)
LEMMA AcceptStream ==
    ASSUME Typed, AcceptTcb # NoConn
    PROVE  AcceptTcb \in Conns /\ InTable(AcceptTcb) /\ fd[AcceptTcb] = NoFd
<1>1. tcbs \in Seq(Conns)
  BY DEF Typed, WireInv
<1>2. First(tcbs, fd, NoFd, AcceptTcb)
  BY <1>1, StreamFound, FoundIsFirst DEF AcceptTcb
<1> QED
  BY <1>1, <1>2 DEF First, InTable

(* The descriptor the echo server uses leads to a stream of the table. *)
LEMMA ServingInTable ==
    ASSUME Typed, FdInv, Serving
    PROVE  /\ StreamOfFd(connfd) \in Conns /\ InTable(StreamOfFd(connfd))
           /\ fd[StreamOfFd(connfd)] = connfd
BY ServingStream DEF First, InTable

(* One control block of the table changes, and is not closed by it. *)
LEMMA TableChange ==
    ASSUME Typed, TableInv, tcbs' = tcbs, NEW c \in Conns, InTable(c),
           status'[c] # "CLOSED",
           \A d \in Conns \ {c} : /\ status'[d] = status[d] /\ fd'[d] = fd[d]
                                  /\ sndbuf'[d] = sndbuf[d] /\ rcvbuf'[d] = rcvbuf[d]
    PROVE  TableInv'
<1>1. \A d : InTable(d)' <=> InTable(d)
  BY TableSame
<1> QED
  BY <1>1 DEF TableInv

(* Every step keeps the table. *)
LEMMA TableNext == StackInv /\ [Next]_vars => TableInv'
<1> SUFFICES ASSUME StackInv, [Next]_vars PROVE TableInv'
  OBVIOUS
<1>1. Typed /\ FdInv /\ PtrInv /\ EndInv /\ TableInv
  BY DEF StackInv, Typed
<1>2. /\ status \in [Conns -> {"CLOSED", "SYN_RCVD", "ESTABLISHED", "CLOSE_WAIT", "LAST_ACK"}]
      /\ fd \in [Conns -> Fds \cup {NoFd}]
      /\ sndbuf \in [Conns -> Seq(Packets)] /\ rcvbuf \in [Conns -> Seq(Data)]
  BY <1>1 DEF Typed, TypeOK, WireInv
<1>3. CASE QuietStep
  <2>1. UNCHANGED streamVars
    BY <1>3, QuietStreams
  <2> QED
    BY <1>1, <2>1 DEF streamVars, TableInv, InTable
<1>4. CASE AcceptTakes
  <2> DEFINE t == AcceptTcb
  <2>1. t \in Conns /\ InTable(t) /\ fd[t] = NoFd
    BY <1>1, <1>4, AcceptStream DEF AcceptTakes
  <2>2. tcbs' = tcbs /\ status' = status /\ sndbuf' = sndbuf /\ rcvbuf' = rcvbuf
        /\ \A d \in Conns \ {t} : fd'[d] = fd[d]
    BY <1>2, <1>4 DEF AcceptTakes
  <2> HIDE DEF t
  <2>3. status'[t] # "CLOSED"
    BY <1>1, <2>1, <2>2 DEF TableInv
  <2> QED
    BY <1>1, <2>1, <2>2, <2>3, TableChange
<1>5. CASE RecvTakes
  <2>1. ptr \in Conns /\ InTable(ptr) /\ status[ptr] # "CLOSED"
    BY <1>1, <1>5 DEF RecvTakes, PtrInv, TableInv
  <2>2. tcbs' = tcbs /\ status' = status /\ sndbuf' = sndbuf /\ fd' = fd
        /\ \A d \in Conns \ {ptr} : rcvbuf'[d] = rcvbuf[d]
    BY <1>2, <1>5, <2>1 DEF RecvTakes
  <2> QED
    BY <1>1, <2>1, <2>2, TableChange
<1>6. CASE SendEcho \/ CloseSends \/ CloseMarks
  <2> DEFINE s == StreamOfFd(connfd)
  <2>1. s \in Conns /\ InTable(s) /\ (CloseMarks => ptr = s)
    BY <1>1, <1>6, ServingInTable DEF SendEcho, CloseSends, CloseMarks, Serving, EndInv, CloseInv
  <2>2. /\ tcbs' = tcbs /\ rcvbuf' = rcvbuf /\ fd' = fd
        /\ \A d \in Conns \ {s} : sndbuf'[d] = sndbuf[d] /\ status'[d] = status[d]
        /\ status'[s] \in {status[s], "LAST_ACK"}
    BY <1>2, <1>6, <2>1 DEF SendEcho, CloseSends, CloseMarks
  <2> HIDE DEF s
  <2>3. status'[s] # "CLOSED"
    BY <1>1, <2>1, <2>2 DEF TableInv
  <2> QED
    BY <1>1, <2>1, <2>2, <2>3, TableChange
<1>7. CASE EnqueuePayload \/ EnqueueEnd \/ SendAck
  <2>1. cur \in Conns /\ status[cur] # "CLOSED"
    BY <1>1, <1>7 DEF EndInv, StageInv, EnqueuePayload, EnqueueEnd, SendAck
  <2>2. InTable(cur)
    BY <1>1, <2>1 DEF TableInv
  <2>3. /\ tcbs' = tcbs /\ fd' = fd
        /\ \A d \in Conns \ {cur} : /\ sndbuf'[d] = sndbuf[d] /\ status'[d] = status[d]
                                    /\ rcvbuf'[d] = rcvbuf[d]
        /\ status'[cur] \in {status[cur], "CLOSE_WAIT"}
    BY <1>2, <1>7, <2>1 DEF EnqueuePayload, EnqueueEnd, SendAck
  <2>4. status'[cur] # "CLOSED"
    BY <2>1, <2>3
  <2> QED
    BY <1>1, <2>1, <2>2, <2>3, <2>4, TableChange
<1>8. ASSUME NEW c \in Conns, HandleListen(c) PROVE TableInv'
  <2>1. ~InTable(c) /\ rcvbuf' = rcvbuf /\ fd' = fd
    BY <1>8 DEF HandleListen
  <2>2. CASE "SYN" \in Head(inp[c]).flags
    <3>1. /\ tcbs' = <<c>> \o tcbs /\ status'[c] = "SYN_RCVD"
          /\ \A d \in Conns \ {c} : sndbuf'[d] = sndbuf[d] /\ status'[d] = status[d]
      BY <1>2, <1>8, <2>2 DEF HandleListen
    <3>2. \A d \in Conns : InTable(d)' <=> d = c \/ InTable(d)
      BY <1>1, <2>1, <3>1, TableGrows
    <3> QED
      BY <1>1, <2>1, <3>1, <3>2 DEF TableInv
  <2>3. CASE "SYN" \notin Head(inp[c]).flags
    BY <1>1, <1>8, <2>1, <2>3 DEF HandleListen, TableInv, InTable
  <2> QED
    BY <2>2, <2>3
<1>9. ASSUME NEW c \in Conns, HandleSynRcvd(c) \/ TcpOut(c) PROVE TableInv'
  <2>1. /\ InTable(c) /\ tcbs' = tcbs /\ rcvbuf' = rcvbuf /\ fd' = fd
        /\ \A d \in Conns \ {c} : sndbuf'[d] = sndbuf[d] /\ status'[d] = status[d]
        /\ status'[c] \in {status[c], "ESTABLISHED"}
    BY <1>2, <1>9 DEF HandleSynRcvd, TcpOut
  <2>2. status'[c] # "CLOSED"
    BY <1>1, <2>1 DEF TableInv
  <2> QED
    BY <1>1, <2>1, <2>2, TableChange
<1>10. ASSUME NEW c \in Conns, HandleLastAck(c) PROVE TableInv'
  <2>1. /\ InTable(c) /\ tcbs' = RemoveAt(tcbs, PlaceOf(c))
        /\ status'[c] = "CLOSED" /\ fd'[c] = NoFd /\ sndbuf'[c] = <<>> /\ rcvbuf'[c] = <<>>
        /\ \A d \in Conns \ {c} : /\ sndbuf'[d] = sndbuf[d] /\ status'[d] = status[d]
                                  /\ rcvbuf'[d] = rcvbuf[d] /\ fd'[d] = fd[d]
    BY <1>2, <1>10 DEF HandleLastAck
  <2>2. \A d \in Conns : InTable(d)' <=> d # c /\ InTable(d)
    BY <1>1, <2>1, TableShrinks
  <2> QED
    BY <1>1, <2>1, <2>2 DEF TableInv
<1> QED
  BY <1>3, <1>4, <1>5, <1>6, <1>7, <1>8, <1>9, <1>10, Steps DEF StreamStep

-----------------------------------------------------------------------------
(* The clients.                                                            *)

(* What a client has to do with a stream depends on these variables only. *)
LEMMA ClientSame ==
    ASSUME NEW d \in Conns, ClientOK(d), pst'[d] = pst[d], inp'[d] = inp[d], out'[d] = out[d],
           sndbuf'[d] = sndbuf[d], InTable(d)' <=> InTable(d)
    PROVE  ClientOK(d)'
BY DEF ClientOK, PacketInv, SynAckFirst, Connected

(* A fragment is queued behind the SYN/ACK. *)
LEMMA ClientQueued ==
    ASSUME Typed, ClientInv, NEW c \in Conns, NEW p \in Packets, tcbs' = tcbs, pst' = pst,
           inp' = inp, out' = out, sndbuf' = [sndbuf EXCEPT ![c] = Enqueue(@, p)]
    PROVE  ClientInv'
<1>1. \A d : InTable(d)' <=> InTable(d)
  BY TableSame
<1>2. /\ sndbuf'[c] = Enqueue(sndbuf[c], p) /\ \A d \in Conns \ {c} : sndbuf'[d] = sndbuf[d]
  BY SndbufTyped
<1>3. sndbuf[c] \in Seq(Packets) /\ Len(sndbuf[c]) <= RingSize
  BY DEF Typed, TypeOK, WireInv
<1>4. sndbuf'[c] # <<>> /\ (sndbuf[c] # <<>> => Head(sndbuf'[c]) = Head(sndbuf[c]))
  <2> DEFINE r == sndbuf[c]
  <2>1. r \in Seq(Packets) /\ Len(r) <= RingSize
    BY <1>3
  <2> HIDE DEF r
  <2>2. Enqueue(r, p) # <<>> /\ (r # <<>> => Head(Enqueue(r, p)) = Head(r))
    BY <2>1, EnqueueProperties
  <2> QED
    BY <1>2, <2>2, Zenon DEF r
<1>5. SynAckFirst(c) => SynAckFirst(c)'
  BY <1>4 DEF SynAckFirst
<1>6. ClientOK(c)'
  BY <1>1, <1>5 DEF ClientInv, ClientOK, PacketInv, Connected
<1>7. \A d \in Conns \ {c} : ClientOK(d)'
  BY <1>1, <1>2, ClientSame DEF ClientInv
<1> QED
  BY <1>6, <1>7 DEF ClientInv

(* A packet of a client is taken, and the table stays. *)
LEMMA ClientTaken ==
    ASSUME Typed, ClientInv, NEW c \in Conns, inp[c] # <<>>, tcbs' = tcbs, pst' = pst,
           sndbuf' = sndbuf, out' = out, inp' = [inp EXCEPT ![c] = Tail(@)]
    PROVE  ClientInv'
<1>1. \A d : InTable(d)' <=> InTable(d)
  BY TableSame
<1>2. inp \in [Conns -> Seq(Packets)]
  BY DEF Typed, WireInv
<1>3. inp'[c] = Tail(inp[c]) /\ \A d \in Conns \ {c} : inp'[d] = inp[d]
  BY <1>2
<1>4. /\ Len(inp[c]) \in Nat /\ Len(inp'[c]) = Len(inp[c]) - 1
      /\ \A i \in DOMAIN inp'[c] : i + 1 \in DOMAIN inp[c] /\ inp'[c][i] = inp[c][i + 1]
      /\ DOMAIN inp'[c] = 1 .. Len(inp'[c])
  BY <1>2, <1>3, TailProperties
<1>5. ASSUME NEW i \in DOMAIN inp'[c] PROVE PacketInv(c, inp[c][i])'
  <2>1. PacketInv(c, inp[c][i + 1]) /\ inp'[c][i] = inp[c][i + 1] /\ Len(inp[c]) # 1
    BY <1>4 DEF ClientInv, ClientOK
  <2> QED
    BY <1>1, <2>1 DEF PacketInv, Connected
<1>6. inp[c] # <<>>
  OBVIOUS
<1>7. ClientOK(c)'
  BY <1>1, <1>5, <1>6 DEF ClientInv, ClientOK, SynAckFirst
<1>8. \A d \in Conns \ {c} : ClientOK(d)'
  BY <1>1, <1>3, ClientSame DEF ClientInv
<1> QED
  BY <1>7, <1>8 DEF ClientInv

(* The SYN makes a control block whose first fragment is the SYN/ACK. *)
LEMMA ClientListen ==
    ASSUME Typed, ClientInv, TableInv, NEW c \in Conns, HandleListen(c)
    PROVE  ClientInv'
<1> DEFINE q == Head(inp[c])
           p == Packet({"SYN", "ACK"}, 0, q.seq + 1, <<>>)
<1>1. inp \in [Conns -> Seq(Packets)] /\ inp[c] # <<>> /\ inp' = [inp EXCEPT ![c] = Tail(@)]
  BY DEF Typed, WireInv, HandleListen, Arrives
<1>2. CASE "SYN" \notin q.flags
  BY <1>1, <1>2, ClientTaken DEF HandleListen, appVars, pktVars, peerVars
<1>3. CASE "SYN" \in q.flags
  <2>1. /\ tcbs' = <<c>> \o tcbs /\ ~InTable(c) /\ out' = out /\ pst' = pst
        /\ sndbuf' = [sndbuf EXCEPT ![c] = Enqueue(@, p)]
    BY <1>3 DEF HandleListen, peerVars
  <2>2. \A d \in Conns : InTable(d)' <=> d = c \/ InTable(d)
    BY <2>1, TableGrows
  <2>3. q = inp[c][1] /\ 1 \in DOMAIN inp[c] /\ q \in Packets
        /\ Len(Tail(inp[c])) = Len(inp[c]) - 1 /\ Tail(inp[c]) \in Seq(Packets)
    BY <1>1, TailProperties
  <2>4. PacketInv(c, q)
    BY <2>3 DEF ClientInv, ClientOK
  <2>5. pst[c] = "syn_sent" /\ Len(inp[c]) = 1 /\ out[c] = <<>>
    BY <1>3, <2>4 DEF PacketInv
  <2>6. p \in Packets /\ p.flags = {"SYN", "ACK"}
    <3>1. q.seq + 1 \in Nat
      BY <2>3 DEF Packets
    <3> QED
      BY <3>1, EmptyTyped, PacketTyped
  <2> HIDE DEF p
  <2>7. /\ sndbuf'[c] = Enqueue(sndbuf[c], p) /\ \A d \in Conns \ {c} : sndbuf'[d] = sndbuf[d]
        /\ sndbuf[c] = <<>>
    BY <2>1, <2>6, SndbufTyped DEF TableInv
  <2>8. sndbuf'[c] # <<>> /\ Head(sndbuf'[c]) = p
    <3> DEFINE r == <<>>
    <3>1. r \in Seq(Packets) /\ Len(r) <= RingSize
      BY TcpAssumption
    <3>2. r = <<>>
      OBVIOUS
    <3> HIDE DEF r
    <3>3. p \in Packets
      BY <2>6
    <3>4. Enqueue(r, p) # <<>> /\ (r = <<>> => Head(Enqueue(r, p)) = p)
      BY <3>1, <3>3, EnqueueProperties
    <3> QED
      BY <2>7, <3>2, <3>4, Zenon
  <2>9. inp'[c] = <<>> /\ \A d \in Conns \ {c} : inp'[d] = inp[d]
    <3>1. inp'[c] = Tail(inp[c]) /\ \A d \in Conns \ {c} : inp'[d] = inp[d]
      BY <1>1
    <3>2. Len(Tail(inp[c])) = 0
      BY <2>3, <2>5
    <3> QED
      BY <2>3, <3>1, <3>2, EmptySeq
  <2>10. ClientOK(c)'
    BY <2>1, <2>2, <2>5, <2>6, <2>8, <2>9 DEF ClientOK, SynAckFirst
  <2>11. \A d \in Conns \ {c} : ClientOK(d)'
    BY <2>1, <2>2, <2>7, <2>9, ClientSame DEF ClientInv
  <2> QED
    BY <2>10, <2>11 DEF ClientInv
<1> QED
  BY <1>2, <1>3

(* The last ACK of a stream keeps the clients' side. *)
LEMMA ClientLastAck ==
    ASSUME Typed, ClientInv, NEW c \in Conns, HandleLastAck(c)
    PROVE  ClientInv' /\ Connected(c)
<1>1. inp \in [Conns -> Seq(Packets)] /\ inp[c] # <<>> /\ inp' = [inp EXCEPT ![c] = Tail(@)]
  BY DEF Typed, WireInv, HandleLastAck, Arrives
<1>2. /\ InTable(c) /\ tcbs' = RemoveAt(tcbs, PlaceOf(c)) /\ pst' = pst /\ out' = out
      /\ "ACK" \in Head(inp[c]).flags
      /\ \A d \in Conns \ {c} : sndbuf'[d] = sndbuf[d]
  BY DEF HandleLastAck, Typed, WireInv, peerVars
<1>3. \A d \in Conns : InTable(d)' <=> d # c /\ InTable(d)
  BY <1>2, TableShrinks
<1>4. /\ inp'[c] = Tail(inp[c]) /\ \A d \in Conns \ {c} : inp'[d] = inp[d]
      /\ Head(inp[c]) = inp[c][1] /\ 1 \in DOMAIN inp[c]
      /\ \A i \in DOMAIN Tail(inp[c]) : i + 1 \in DOMAIN inp[c] /\ Tail(inp[c])[i] = inp[c][i + 1]
  BY <1>1, TailProperties
<1>5. Connected(c)
  BY <1>2, <1>4 DEF ClientInv, ClientOK, PacketInv
<1>6. ASSUME NEW i \in DOMAIN inp'[c] PROVE PacketInv(c, inp[c][i])'
  <2>1. PacketInv(c, inp[c][i + 1]) /\ inp'[c][i] = inp[c][i + 1]
    BY <1>4 DEF ClientInv, ClientOK
  <2> QED
    BY <1>2, <1>5, <2>1 DEF PacketInv, Connected
<1>7. ClientOK(c)'
  BY <1>2, <1>5, <1>6 DEF ClientOK, Connected
<1>8. \A d \in Conns \ {c} : ClientOK(d)'
  BY <1>2, <1>3, <1>4, ClientSame DEF ClientInv
<1> QED
  BY <1>5, <1>7, <1>8 DEF ClientInv

(* A packet that ng_tcp_out sends keeps the clients' side. *)
LEMMA ClientOut ==
    ASSUME Typed, ClientInv, NEW c \in Conns, TcpOut(c)
    PROVE  ClientInv'
<1> DEFINE p == Head(sndbuf[c])
<1>1. /\ InTable(c) /\ tcbs' = tcbs /\ pst' = pst /\ inp' = inp
      /\ sndbuf \in [Conns -> Seq(Packets)] /\ sndbuf[c] # <<>> /\ out \in [Conns -> Seq(Packets)]
      /\ \A d \in Conns \ {c} : sndbuf'[d] = sndbuf[d] /\ out'[d] = out[d]
  BY DEF TcpOut, peerVars, Typed, WireInv
<1>2. out'[c] = Append(out[c], p) /\ p \in Packets
  <2>1. ng_tcp_pkt(p) = p
    BY TcpOutTyped
  <2>2. p \in Packets
    BY <1>1, TailProperties
  <2> QED
    BY <1>1, <2>1, <2>2 DEF TcpOut
<1>3. out'[c] # <<>> /\ Head(out'[c]) = IF out[c] = <<>> THEN p ELSE Head(out[c])
  <2> DEFINE r == out[c]
  <2>1. r \in Seq(Packets) /\ out'[c] = Append(r, p) /\ p \in Packets
    BY <1>1, <1>2
  <2> HIDE DEF p, r
  <2>2. Append(r, p) # <<>> /\ Head(Append(r, p)) = IF r = <<>> THEN p ELSE Head(r)
    BY <2>1
  <2> QED
    BY <2>1, <2>2 DEF r
<1>4. \A d : InTable(d)' <=> InTable(d)
  BY <1>1, TableSame
<1>5. SynAckFirst(c) => SynAckFirst(c)'
  BY <1>3 DEF SynAckFirst
<1>6. \A i \in DOMAIN inp[c] : PacketInv(c, inp[c][i])'
  BY <1>1, <1>4 DEF ClientInv, ClientOK, PacketInv, Connected
<1>7. ClientOK(c)'
  BY <1>1, <1>4, <1>5, <1>6 DEF ClientInv, ClientOK
<1>8. \A d \in Conns \ {c} : ClientOK(d)'
  BY <1>1, <1>4, ClientSame DEF ClientInv
<1> QED
  BY <1>7, <1>8 DEF ClientInv

(* The clients' own steps. *)
LEMMA ClientActs ==
    ASSUME Typed, ClientInv, NEW c \in Conns, PeerConnects(c) \/ PeerStep(c)
    PROVE  ClientInv'
<1> DEFINE n == pSent[c]
<1>1. /\ n \in Nat /\ pRcv[c] \in Nat /\ traffic \in Traffics /\ <<>> \in Data
      /\ pst \in [Conns -> {"idle", "syn_sent", "est", "fin_wait", "closed"}]
      /\ pRcv \in [Conns -> Nat]
      /\ inp \in [Conns -> Seq(Packets)] /\ out \in [Conns -> Seq(Packets)]
  BY EmptyTyped DEF Typed, WireInv, TypeOK
<1>2. Segment(n + 1) \in Data /\ Segment(n + 1) # <<>> /\ 1 + n * SegLen \in Nat
  BY <1>1, SegmentTyped
<1>3. /\ tcbs' = tcbs /\ sndbuf' = sndbuf
      /\ \A d \in Conns \ {c} : pst'[d] = pst[d] /\ inp'[d] = inp[d] /\ out'[d] = out[d]
  BY <1>1 DEF PeerConnects, PeerStep, PeerSends, PeerCloses, PeerReceives, streamVars, PeerOutput
<1>4. \A d : InTable(d)' <=> InTable(d)
  BY <1>3, TableSame
<1>5. \A d \in Conns \ {c} : ClientOK(d)'
  BY <1>3, <1>4, ClientSame DEF ClientInv
<1>6. ClientOK(c)
  BY DEF ClientInv
(* A packet with an ACK, from a client that has seen the SYN/ACK. *)
<1>7. ASSUME NEW p \in Packets, PeerOutput(c, p), "SYN" \notin p.flags,
             "PSH" \in p.flags => p.data # <<>>,
             Connected(c)', pst[c] # "syn_sent" \/ out[c] # <<>>
      PROVE  ClientOK(c)'
  <2>1. \A i \in DOMAIN inp'[c] : \/ i \in DOMAIN inp[c] /\ inp'[c][i] = inp[c][i]
                                  \/ i = Len(inp[c]) + 1 /\ inp'[c][i] = p
    BY <1>7, OutputTyped
  <2>2. ASSUME NEW i \in DOMAIN inp'[c] PROVE PacketInv(c, inp[c][i])'
    <3>1. CASE i \in DOMAIN inp[c] /\ inp'[c][i] = inp[c][i]
      <4>1. PacketInv(c, inp[c][i])
        BY <1>6, <3>1 DEF ClientOK
      <4> QED
        BY <1>7, <3>1, <4>1 DEF PacketInv
    <3>2. CASE inp'[c][i] = p
      BY <1>7, <3>2 DEF PacketInv
    <3> QED
      BY <2>1, <3>1, <3>2
  <2> QED
    BY <1>7, <2>2 DEF ClientOK, Connected
<1>8. CASE PeerConnects(c)
  <2> DEFINE p == Packet({"SYN"}, 0, 0, <<>>)
  <2>1. inp[c] = <<>> /\ out[c] = <<>> /\ ~InTable(c)
    BY <1>6, <1>8 DEF PeerConnects, ClientOK
  <2>2. p \in Packets /\ p.flags = {"SYN"}
    BY <1>1, PacketTyped
  <2>3. pst'[c] = "syn_sent" /\ out' = out /\ PeerOutput(c, p)
    BY <1>1, <1>8 DEF PeerConnects
  <2> HIDE DEF p
  <2>4. /\ Len(inp'[c]) = Len(inp[c]) + 1
        /\ \A i \in DOMAIN inp'[c] : \/ i \in DOMAIN inp[c] /\ inp'[c][i] = inp[c][i]
                                     \/ i = Len(inp[c]) + 1 /\ inp'[c][i] = p
    BY <2>2, <2>3, OutputTyped
  <2>5. Len(<<>>) = 0 /\ DOMAIN <<>> = {}
    OBVIOUS
  <2>6. Len(inp'[c]) = 1 /\ \A i \in DOMAIN inp'[c] : inp'[c][i] = p
    BY <2>1, <2>4, <2>5
  <2>7. ASSUME NEW i \in DOMAIN inp'[c] PROVE PacketInv(c, inp[c][i])'
    BY <1>4, <2>1, <2>2, <2>3, <2>6 DEF PacketInv
  <2>8. ClientOK(c)'
    BY <1>4, <2>1, <2>3, <2>7 DEF ClientOK
  <2> QED
    BY <1>5, <2>8 DEF ClientInv
<1>9. CASE PeerSends(c)
  <2> DEFINE p == Packet({"PSH", "ACK"}, 1 + n * SegLen, pRcv[c], Segment(n + 1))
  <2>1. p \in Packets /\ p.flags = {"PSH", "ACK"} /\ p.data = Segment(n + 1)
    <3> DEFINE k == 1 + n * SegLen
               g == Segment(n + 1)
    <3>1. k \in Nat /\ g \in Data /\ pRcv[c] \in Nat
      BY <1>1, <1>2
    <3> HIDE DEF k, g
    <3>2. /\ Packet({"PSH", "ACK"}, k, pRcv[c], g) \in Packets
          /\ Packet({"PSH", "ACK"}, k, pRcv[c], g).flags = {"PSH", "ACK"}
          /\ Packet({"PSH", "ACK"}, k, pRcv[c], g).data = g
      BY <3>1, PacketTyped
    <3> QED
      BY <3>2 DEF k, g
  <2>2. PeerOutput(c, p) /\ pst[c] = "est" /\ pst' = pst
    BY <1>9 DEF PeerSends
  <2> HIDE DEF p
  <2>3. Connected(c)'
    BY <2>2 DEF Connected
  <2>4. ClientOK(c)'
    BY <1>2, <1>7, <2>1, <2>2, <2>3
  <2> QED
    BY <1>5, <2>4 DEF ClientInv
<1>10. CASE PeerCloses(c)
  <2> DEFINE p == Packet({"FIN", "ACK"}, 1 + n * SegLen, pRcv[c], <<>>)
             q == Packet({"PSH", "FIN", "ACK"}, 1 + n * SegLen, pRcv[c], Segment(n + 1))
  <2>1. /\ p \in Packets /\ p.flags = {"FIN", "ACK"}
        /\ q \in Packets /\ q.flags = {"PSH", "FIN", "ACK"} /\ q.data = Segment(n + 1)
    <3> DEFINE k == 1 + n * SegLen
               g == Segment(n + 1)
    <3>1. k \in Nat /\ g \in Data /\ pRcv[c] \in Nat /\ <<>> \in Data
      BY <1>1, <1>2
    <3> HIDE DEF k, g
    <3>2. /\ Packet({"FIN", "ACK"}, k, pRcv[c], <<>>) \in Packets
          /\ Packet({"FIN", "ACK"}, k, pRcv[c], <<>>).flags = {"FIN", "ACK"}
      BY <3>1, PacketTyped
    <3>3. /\ Packet({"PSH", "FIN", "ACK"}, k, pRcv[c], g) \in Packets
          /\ Packet({"PSH", "FIN", "ACK"}, k, pRcv[c], g).flags = {"PSH", "FIN", "ACK"}
          /\ Packet({"PSH", "FIN", "ACK"}, k, pRcv[c], g).data = g
      BY <3>1, PacketTyped
    <3> QED
      BY <3>2, <3>3 DEF k, g
  <2>2. (PeerOutput(c, p) \/ PeerOutput(c, q)) /\ pst[c] = "est" /\ pst'[c] = "fin_wait"
    BY <1>1, <1>10 DEF PeerCloses
  <2> HIDE DEF p, q
  <2>3. Connected(c)'
    BY <2>2 DEF Connected
  <2>4. ClientOK(c)'
    <3>1. CASE PeerOutput(c, p)
      BY <1>7, <2>1, <2>2, <2>3, <3>1
    <3>2. CASE PeerOutput(c, q)
      BY <1>2, <1>7, <2>1, <2>2, <2>3, <3>2
    <3> QED
      BY <2>2, <3>1, <3>2
  <2> QED
    BY <1>5, <2>4 DEF ClientInv
<1>11. CASE PeerReceives(c)
  <2> DEFINE q == Head(out[c])
             size == Len(q.data) + (IF q.flags \cap {"SYN", "FIN"} # {} THEN 1 ELSE 0)
             next == IF q.seq = pRcv[c] THEN pRcv[c] + size ELSE pRcv[c]
             p == Packet({"ACK"}, 1 + n * SegLen, next, <<>>)
  <2>1. out[c] # <<>> /\ pRcv' = [pRcv EXCEPT ![c] = next]
    BY <1>11 DEF PeerReceives
  <2>2. pst'[c] = IF "SYN" \in q.flags THEN "est"
                  ELSE IF "FIN" \in q.flags /\ q.seq = pRcv[c] THEN "closed" ELSE pst[c]
    BY <1>1, <1>11 DEF PeerReceives
  <2>3. inp' = inp \/ PeerOutput(c, p)
    BY <1>11 DEF PeerReceives
  <2>4. next \in Nat
    <3>1. Typed'
      BY <1>11, PeerTyped
    <3>2. pRcv'[c] \in Nat
      BY <3>1 DEF Typed, WireInv
    <3> HIDE DEF next
    <3> QED
      BY <1>1, <2>1, <3>2
  <2> HIDE DEF next, size
  <2>5. p \in Packets /\ p.flags = {"ACK"}
    BY <1>1, <1>2, <2>4, PacketTyped
  <2> HIDE DEF p
  <2>6. pst[c] # "idle" /\ (pst[c] = "syn_sent" => "SYN" \in q.flags)
    BY <1>6, <2>1 DEF ClientOK, SynAckFirst
  <2>7. Connected(c)'
    BY <2>2, <2>6 DEF Connected
  <2>8. ClientOK(c)'
    <3>1. CASE PeerOutput(c, p)
      BY <1>7, <2>1, <2>5, <2>7, <3>1
    <3>2. CASE inp' = inp
      <4>1. ASSUME NEW i \in DOMAIN inp[c] PROVE PacketInv(c, inp[c][i])'
        <5>1. PacketInv(c, inp[c][i])
          BY <1>6 DEF ClientOK
        <5> QED
          BY <2>1, <2>7, <3>2, <5>1 DEF PacketInv
      <4> QED
        BY <2>7, <3>2, <4>1 DEF ClientOK, Connected
    <3> QED
      BY <2>3, <3>1, <3>2
  <2> QED
    BY <1>5, <2>8 DEF ClientInv
<1> QED
  BY <1>8, <1>9, <1>10, <1>11 DEF PeerStep

(* Every step keeps the clients' side. *)
LEMMA ClientNext == StackInv /\ [Next]_vars => ClientInv'
<1> SUFFICES ASSUME StackInv, [Next]_vars PROVE ClientInv'
  OBVIOUS
<1>1. Typed /\ FdInv /\ PtrInv /\ EndInv /\ TableInv /\ ClientInv
  BY DEF StackInv, Typed
<1>2. ASSUME UNCHANGED <<tcbs, pst, inp, out, sndbuf>> PROVE ClientInv'
  <2>1. \A d : InTable(d)' <=> InTable(d)
    BY <1>2, TableSame
  <2>2. \A d \in Conns : ClientOK(d)'
    BY <1>1, <1>2, <2>1, ClientSame DEF ClientInv
  <2> QED
    BY <2>2 DEF ClientInv
<1>3. CASE \/ ServerSocket \/ ServerListens \/ CloseReleases \/ AcceptWaits \/ RecvCall \/ RecvWaits
           \/ SpuriousWakeup \/ SignalAccept \/ SignalData \/ UNCHANGED vars
           \/ AcceptTakes \/ RecvTakes \/ CloseMarks \/ EnqueuePayload \/ EnqueueEnd
  <2>1. UNCHANGED <<tcbs, pst, inp, out, sndbuf>>
    BY <1>3 DEF ServerSocket, ServerListens, CloseReleases, AcceptWaits, RecvCall, RecvWaits, SpuriousWakeup,
                SignalAccept, SignalData, vars, AcceptTakes, RecvTakes, CloseMarks, EnqueuePayload,
                EnqueueEnd, streamVars, peerVars
  <2> QED
    BY <1>2, <2>1
<1>4. CASE SendEcho \/ CloseSends \/ SendAck
  <2>1. PICK c \in Conns, p \in Packets : sndbuf' = [sndbuf EXCEPT ![c] = Enqueue(@, p)]
    <3> DEFINE s == StreamOfFd(connfd)
    <3>1. CASE SendEcho \/ CloseSends
      <4>1. s \in Conns
        BY <1>1, <3>1, ServingStream DEF SendEcho, CloseSends, Serving
      <4> HIDE DEF s
      <4>2. sndNxt[s] \in Nat /\ rcvNxt[s] \in Nat /\ buff \in Data /\ <<>> \in Data
        BY <1>1, <4>1, EmptyTyped DEF Typed, TypeOK, WireInv
      <4>3. /\ Packet({"PSH", "ACK"}, sndNxt[s], rcvNxt[s], buff) \in Packets
            /\ Packet({"FIN", "ACK"}, sndNxt[s], rcvNxt[s], <<>>) \in Packets
        BY <4>2, PacketTyped
      <4> QED
        BY <3>1, <4>1, <4>3 DEF SendEcho, CloseSends, s
    <3>2. CASE SendAck
      <4>1. cur \in Conns
        BY <1>1, <3>2 DEF SendAck, EndInv, StageInv
      <4>2. pkt.ack \in Nat
        BY <1>1 DEF Typed, WireInv, Packets
      <4>3. Typed'
        BY <1>1, <3>2, StageTyped
      <4>4. rcvNxt'[cur] \in Nat
        BY <4>1, <4>3 DEF Typed, TypeOK
      <4>5. Packet({"ACK"}, pkt.ack, rcvNxt'[cur], <<>>) \in Packets
        BY <4>2, <4>4, EmptyTyped, PacketTyped
      <4> QED
        BY <3>2, <4>1, <4>5 DEF SendAck
    <3> QED
      BY <1>4, <3>1, <3>2
  <2>2. UNCHANGED <<tcbs, pst, inp, out>>
    BY <1>4 DEF SendEcho, CloseSends, SendAck, peerVars
  <2> QED
    BY <1>1, <2>1, <2>2, ClientQueued
<1>5. ASSUME NEW c \in Conns,
             NoListener(c) \/ HandleEstablished(c) \/ HandleCloseWait(c) \/ HandleSynRcvd(c)
      PROVE  ClientInv'
  <2>1. inp[c] # <<>> /\ inp' = [inp EXCEPT ![c] = Tail(@)] /\ UNCHANGED <<tcbs, pst, sndbuf, out>>
    BY <1>5 DEF NoListener, HandleEstablished, HandleCloseWait, HandleSynRcvd, Arrives,
                streamVars, peerVars
  <2> QED
    BY <1>1, <2>1, ClientTaken
<1>6. ASSUME NEW c \in Conns, \/ HandleListen(c) \/ HandleLastAck(c) \/ TcpOut(c)
                              \/ PeerConnects(c) \/ PeerStep(c)
      PROVE  ClientInv'
  BY <1>1, <1>6, ClientListen, ClientLastAck, ClientOut, ClientActs
<1> QED
  BY <1>3, <1>4, <1>5, <1>6, Steps DEF QuietStep, StreamStep

-----------------------------------------------------------------------------
(* Look-ups.                                                               *)

(* A new stream without the descriptor does not hide its owner. *)
LEMMA LookupGrows ==
    ASSUME NEW t \in Seq(Conns), NEW g, NEW f, NEW c \in Conns, NEW s,
           g[c] # f, First(t, g, f, s)
    PROVE  First(<<c>> \o t, g, f, s)
<1> DEFINE u == <<c>> \o t
<1>1. PICK i \in DOMAIN t : t[i] = s /\ g[s] = f /\ \A j \in DOMAIN t : g[t[j]] = f => i <= j
  BY DEF First
<1>2. /\ u \in Seq(Conns) /\ u[1] = c
      /\ i + 1 \in DOMAIN u /\ u[i + 1] = s
      /\ \A j \in DOMAIN u : j = 1 \/ (j - 1 \in DOMAIN t /\ u[j] = t[j - 1])
  BY <1>1, ConsProperties
<1> HIDE DEF u
<1>3. ASSUME NEW j \in DOMAIN u, g[u[j]] = f PROVE i + 1 <= j
  <2>1. j # 1
    BY <1>2, <1>3
  <2>2. i <= j - 1
    BY <1>1, <1>2, <1>3, <2>1
  <2>3. i \in Nat /\ j \in Nat
    BY <1>2
  <2> QED
    BY <2>2, <2>3
<1> QED
  BY <1>1, <1>2, <1>3 DEF First, u

(* Removing another stream does not change which one is found. *)
LEMMA LookupShrinks ==
    ASSUME NEW t \in Seq(Conns), NEW g, NEW h, NEW f, NEW k \in DOMAIN t, NEW s,
           s # t[k], \A j \in DOMAIN t : t[j] # t[k] => h[t[j]] = g[t[j]],
           h[t[k]] # f, IsInjective(t), First(t, g, f, s)
    PROVE  First(RemoveAt(t, k), h, f, s)
<1> DEFINE u == RemoveAt(t, k)
<1>1. PICK i \in DOMAIN t : t[i] = s /\ g[s] = f /\ \A j \in DOMAIN t : g[t[j]] = f => i <= j
  BY DEF First
<1>2. DOMAIN t \subseteq Nat /\ k \in Nat /\ i \in Nat
  OBVIOUS
<1>3. /\ u \in Seq(Conns)
      /\ \A j \in DOMAIN u : IF j < k THEN j \in DOMAIN t /\ u[j] = t[j]
                                      ELSE j + 1 \in DOMAIN t /\ u[j] = t[j + 1]
      /\ i < k => i \in DOMAIN u /\ u[i] = t[i]
      /\ i > k => i - 1 \in DOMAIN u /\ u[i - 1] = t[i]
  BY RemoveProperties
<1> HIDE DEF u
<1>4. DOMAIN u \subseteq Nat
  BY <1>3
<1>5. h[s] = f
  BY <1>1
<1>6. ASSUME NEW j \in DOMAIN u, h[u[j]] = f
      PROVE  IF j < k THEN i <= j ELSE i <= j + 1
  <2>1. CASE j < k
    <3>1. j \in DOMAIN t /\ u[j] = t[j] /\ j # k
      BY <1>2, <1>3, <1>4, <2>1
    <3>2. t[j] # t[k]
      BY <3>1 DEF IsInjective
    <3> QED
      BY <1>1, <1>6, <2>1, <3>1, <3>2
  <2>2. CASE ~(j < k)
    <3>1. j + 1 \in DOMAIN t /\ u[j] = t[j + 1] /\ j + 1 # k
      BY <1>2, <1>3, <1>4, <2>2
    <3>2. t[j + 1] # t[k]
      BY <3>1 DEF IsInjective
    <3> QED
      BY <1>1, <1>6, <2>2, <3>1, <3>2
  <2> QED
    BY <2>1, <2>2
<1>7. i # k
  BY <1>1
<1>8. CASE i < k
  <2>1. ASSUME NEW j \in DOMAIN u, h[u[j]] = f PROVE i <= j
    BY <1>2, <1>4, <1>6, <1>8, <2>1
  <2> QED
    BY <1>1, <1>3, <1>5, <1>8, <2>1 DEF First, u
<1>9. CASE i > k
  <2>1. ASSUME NEW j \in DOMAIN u, h[u[j]] = f PROVE i - 1 <= j
    BY <1>2, <1>4, <1>6, <1>9, <2>1
  <2> QED
    BY <1>1, <1>3, <1>5, <1>9, <2>1 DEF First, u
<1> QED
  BY <1>2, <1>7, <1>8, <1>9

(* While the program serves a connection, its descriptor keeps leading to  *)
(* the same stream, unless that one is freed.                              *)
LEMMA LookupNext ==
    ASSUME StackInv, Serving, [Next]_vars,
           \A c \in Conns : HandleLastAck(c) => c # StreamOfFd(connfd)
    PROVE  /\ connfd' = connfd /\ StreamOfFd(connfd)' = StreamOfFd(connfd)
           /\ \E i \in DOMAIN tcbs' : tcbs'[i] = StreamOfFd(connfd)
<1> DEFINE s == StreamOfFd(connfd)
<1>1. Typed /\ FdInv /\ TableInv
  BY DEF StackInv, Typed
<1>2. s \in Conns /\ First(tcbs, fd, connfd, s)
  BY <1>1, ServingStream
<1>3. tcbs \in Seq(Conns) /\ IsInjective(tcbs) /\ fd \in [Conns -> Fds \cup {NoFd}]
  BY <1>1 DEF Typed, TypeOK, WireInv
<1>4. connfd \in Fds /\ connfd # NoFd
  BY <1>1, TcpAssumption DEF FdInv, NoFd
<1>5. connfd' = connfd
  <2>1. CASE QuietStep
    <3>1. ServerSocket \/ ServerListens \/ CloseReleases \/ AcceptWaits \/ RecvCall \/ RecvWaits
          \/ SpuriousWakeup \/ SignalAccept \/ SignalData \/ UNCHANGED vars => connfd' = connfd
      BY DEF ServerSocket, ServerListens, CloseReleases, AcceptWaits, RecvCall, RecvWaits, SpuriousWakeup,
             SignalAccept, SignalData, vars, appVars
    <3>2. \A c \in Conns : NoListener(c) \/ HandleEstablished(c) \/ HandleCloseWait(c)
                           \/ PeerConnects(c) \/ PeerStep(c) => connfd' = connfd
      BY DEF NoListener, HandleEstablished, HandleCloseWait, PeerConnects, PeerStep, PeerSends,
             PeerCloses, PeerReceives, appVars
    <3> QED
      BY <2>1, <3>1, <3>2 DEF QuietStep
  <2>2. CASE StreamStep
    BY <2>2 DEF StreamStep, Serving, AcceptTakes, RecvTakes, SendEcho, CloseSends, CloseMarks, EnqueuePayload,
                EnqueueEnd, SendAck, HandleListen, HandleSynRcvd, HandleLastAck, TcpOut, appVars
  <2> QED
    BY <2>1, <2>2, Steps
<1> HIDE DEF s
<1>6. ASSUME tcbs' = tcbs, fd' = fd PROVE First(tcbs', fd', connfd', s)
  BY <1>2, <1>5, <1>6
<1>7. ASSUME QuietStep PROVE First(tcbs', fd', connfd', s)
  BY <1>6, <1>7, QuietStreams DEF streamVars
<1>8. ASSUME \/ RecvTakes \/ SendEcho \/ CloseSends \/ CloseMarks \/ EnqueuePayload \/ EnqueueEnd \/ SendAck
             \/ \E c \in Conns : HandleSynRcvd(c) \/ TcpOut(c)
      PROVE  First(tcbs', fd', connfd', s)
  BY <1>6, <1>8 DEF RecvTakes, SendEcho, CloseSends, CloseMarks, EnqueuePayload, EnqueueEnd, SendAck,
                    HandleSynRcvd, TcpOut
<1>9. ~AcceptTakes
  BY DEF AcceptTakes, Serving
<1>10. ASSUME NEW c \in Conns, HandleListen(c) PROVE First(tcbs', fd', connfd', s)
  <2>1. fd' = fd /\ ~InTable(c) /\ (tcbs' = tcbs \/ tcbs' = <<c>> \o tcbs)
    BY <1>10 DEF HandleListen
  <2>2. fd[c] # connfd
    BY <1>1, <1>4, <2>1 DEF TableInv
  <2>3. First(<<c>> \o tcbs, fd, connfd, s)
    BY <1>2, <1>3, <2>2, LookupGrows
  <2> QED
    BY <1>5, <1>6, <2>1, <2>3
<1>11. ASSUME NEW c \in Conns, HandleLastAck(c) PROVE First(tcbs', fd', connfd', s)
  <2> DEFINE k == PlaceOf(c)
  <2>1. tcbs' = RemoveAt(tcbs, k) /\ fd' = [fd EXCEPT ![c] = NoFd] /\ InTable(c)
    BY <1>11 DEF HandleLastAck
  <2>2. k \in DOMAIN tcbs /\ tcbs[k] = c /\ s # c
    BY <1>11, <2>1, PlaceInTable DEF s
  <2> HIDE DEF k
  <2>3. \A j \in DOMAIN tcbs : tcbs[j] # tcbs[k] => fd'[tcbs[j]] = fd[tcbs[j]]
    <3>1. \A j \in DOMAIN tcbs : tcbs[j] \in Conns
      BY <1>3
    <3> QED
      BY <1>3, <2>1, <2>2, <3>1
  <2>4. fd'[tcbs[k]] # connfd
    BY <1>3, <1>4, <2>1, <2>2
  <2>5. First(RemoveAt(tcbs, k), fd', connfd, s)
    BY <1>2, <1>3, <2>2, <2>3, <2>4, LookupShrinks
  <2> QED
    BY <1>5, <2>1, <2>5
<1>12. First(tcbs', fd', connfd', s)
  BY <1>7, <1>8, <1>9, <1>10, <1>11, Steps DEF StreamStep
<1>13. tcbs' \in Seq(Conns)
  BY TypedNext DEF Typed, WireInv
<1>14. Found(tcbs', fd', connfd') = s
  BY <1>12, <1>13, FoundIsFirst
<1>15. \E i \in DOMAIN tcbs' : tcbs'[i] = s
  BY <1>12 DEF First
<1> QED
  BY <1>5, <1>14, <1>15, StreamFound DEF s

-----------------------------------------------------------------------------
(* The stream nrecv works on.                                              *)

(* A client that has connected does not connect again. *)
LEMMA ConnectedStays ==
    ASSUME StackInv, [Next]_vars, NEW c \in Conns, Connected(c)
    PROVE  Connected(c)' /\ (~InTable(c) => ~InTable(c)')
<1>1. Typed /\ ClientInv
  BY DEF StackInv, Typed
<1>2. pst \in [Conns -> {"idle", "syn_sent", "est", "fin_wait", "closed"}]
  BY <1>1 DEF Typed, TypeOK
<1>3. Connected(c)'
  <2>1. CASE pst' = pst
    BY <2>1 DEF Connected
  <2>2. ASSUME NEW d \in Conns, PeerConnects(d) PROVE Connected(c)'
    <3>1. pst[d] \in {"idle", "syn_sent"} /\ pst' = [pst EXCEPT ![d] = "syn_sent"]
      BY <2>2 DEF PeerConnects
    <3> QED
      BY <1>2, <3>1 DEF Connected
  <2>3. ASSUME NEW d \in Conns, PeerStep(d) PROVE Connected(c)'
    <3>1. PICK v : /\ pst' = [pst EXCEPT ![d] = v]
                   /\ v \in {pst[d], "est", "fin_wait", "closed"}
      BY <1>2, <2>3 DEF PeerStep, PeerSends, PeerCloses, PeerReceives
    <3> QED
      BY <1>2, <3>1 DEF Connected
  <2>4. CASE StreamStep
    BY <2>1, <2>4 DEF StreamStep, AcceptTakes, RecvTakes, SendEcho, CloseSends, CloseMarks, EnqueuePayload,
                EnqueueEnd, SendAck, HandleListen, HandleSynRcvd, HandleLastAck, TcpOut, peerVars
  <2>5. CASE \/ ServerSocket \/ ServerListens \/ CloseReleases \/ AcceptWaits \/ RecvCall \/ RecvWaits
             \/ SpuriousWakeup \/ SignalAccept \/ SignalData \/ UNCHANGED vars
    BY <2>1, <2>5 DEF ServerSocket, ServerListens, CloseReleases, AcceptWaits, RecvCall, RecvWaits,
                      SpuriousWakeup, SignalAccept, SignalData, vars, peerVars
  <2>6. CASE \E d \in Conns : NoListener(d) \/ HandleEstablished(d) \/ HandleCloseWait(d)
    BY <2>1, <2>6 DEF NoListener, HandleEstablished, HandleCloseWait, peerVars
  <2> QED
    BY <2>2, <2>3, <2>4, <2>5, <2>6, Steps DEF QuietStep
<1>4. ASSUME ~InTable(c) PROVE ~InTable(c)'
  <2>1. CASE tcbs' = tcbs
    BY <1>4, <2>1, TableSame
  <2>2. ASSUME NEW d \in Conns, HandleListen(d) PROVE ~InTable(c)'
    <3>1. CASE "SYN" \in Head(inp[d]).flags
      <4>1. inp[d] \in Seq(Packets) /\ inp[d] # <<>>
        BY <1>1, <2>2 DEF HandleListen, Arrives, Typed, WireInv
      <4>2. Head(inp[d]) = inp[d][1] /\ 1 \in DOMAIN inp[d]
        BY <4>1, TailProperties
      <4>3. pst[d] = "syn_sent"
        BY <1>1, <3>1, <4>2 DEF ClientInv, ClientOK, PacketInv
      <4>4. d # c
        BY <4>3 DEF Connected
      <4>5. ~InTable(d) /\ tcbs' = <<d>> \o tcbs
        BY <2>2, <3>1 DEF HandleListen
      <4> QED
        BY <1>1, <1>4, <4>4, <4>5, TableGrows
    <3>2. CASE "SYN" \notin Head(inp[d]).flags
      BY <2>1, <2>2, <3>2 DEF HandleListen
    <3> QED
      BY <3>1, <3>2
  <2>3. ASSUME NEW d \in Conns, HandleLastAck(d) PROVE ~InTable(c)'
    <3>1. InTable(d) /\ tcbs' = RemoveAt(tcbs, PlaceOf(d))
      BY <2>3 DEF HandleLastAck
    <3> QED
      BY <1>1, <1>4, <3>1, TableShrinks
  <2>4. CASE QuietStep
    BY <2>1, <2>4, QuietStreams DEF streamVars
  <2>5. CASE \/ AcceptTakes \/ RecvTakes \/ SendEcho \/ CloseSends \/ CloseMarks
             \/ EnqueuePayload \/ EnqueueEnd \/ SendAck
             \/ \E d \in Conns : HandleSynRcvd(d) \/ TcpOut(d)
    BY <2>1, <2>5 DEF AcceptTakes, RecvTakes, SendEcho, CloseSends, CloseMarks, EnqueuePayload, EnqueueEnd,
                      SendAck, HandleSynRcvd, TcpOut
  <2> QED
    BY <2>2, <2>3, <2>4, <2>5, Steps DEF StreamStep
<1> QED
  BY <1>3, <1>4

(* nrecv gets to its loop through RecvCall only. *)
LEMMA RecvPlace ==
    ASSUME [Next]_vars, ~RecvCall, pcS' \in {"dequeue", "recvWait"}
    PROVE  pcS \in {"dequeue", "recvWait"} /\ ptr' = ptr
<1>1. CASE \/ ServerSocket \/ ServerListens \/ CloseReleases \/ AcceptWaits \/ RecvWaits
           \/ SpuriousWakeup \/ SignalAccept \/ SignalData \/ UNCHANGED vars
  BY <1>1 DEF ServerSocket, ServerListens, CloseReleases, AcceptWaits, RecvWaits, SpuriousWakeup, SignalAccept,
              SignalData, AfterAcceptSignal, AfterDataSignal, vars, appVars
<1>2. CASE \E c \in Conns : \/ NoListener(c) \/ HandleEstablished(c) \/ HandleCloseWait(c)
                            \/ PeerConnects(c) \/ PeerStep(c)
  BY <1>2 DEF NoListener, HandleEstablished, HandleCloseWait, PeerConnects, PeerStep, PeerSends,
              PeerCloses, PeerReceives, appVars
<1>3. CASE StreamStep
  BY <1>3 DEF StreamStep, AcceptTakes, RecvTakes, SendEcho, CloseSends, CloseMarks, EnqueuePayload,
              EnqueueEnd, SendAck, HandleListen, HandleSynRcvd, HandleLastAck, TcpOut, appVars
<1> QED
  BY <1>1, <1>2, <1>3, Steps DEF QuietStep

(* The stream nrecv has looked up stays in the table while it is used. *)
LEMMA PtrNext == StackInv /\ [Next]_vars => PtrInv'
<1> SUFFICES ASSUME StackInv, [Next]_vars, pcS' \in {"dequeue", "recvWait"}
             PROVE  (ptr \in Conns)'
                    /\ IF InTable(ptr)' THEN ptr' = StreamOfFd(connfd)' ELSE Connected(ptr)'
  BY DEF PtrInv
<1>1. Typed /\ FdInv /\ PtrInv /\ ClientInv
  BY DEF StackInv, Typed
<1>2. CASE RecvCall
  <2>1. Serving /\ ptr' = StreamOfFd(connfd) /\ UNCHANGED <<tcbs, fd, connfd>>
    BY <1>2 DEF RecvCall, Serving, streamVars
  <2>2. StreamOfFd(connfd)' = StreamOfFd(connfd)
    BY <2>1, StreamFound
  <2>3. StreamOfFd(connfd) \in Conns /\ InTable(StreamOfFd(connfd))
    BY <1>1, <2>1, ServingInTable
  <2>4. InTable(ptr)'
    BY <2>1, <2>3 DEF InTable
  <2> QED
    BY <2>1, <2>2, <2>3, <2>4
<1>3. CASE ~RecvCall
  <2>1. pcS \in {"dequeue", "recvWait"} /\ ptr' = ptr
    BY <1>3, RecvPlace
  <2>2. ptr \in Conns /\ Serving
    BY <1>1, <2>1 DEF PtrInv, Serving
  <2>3. ASSUME ~InTable(ptr) PROVE ~InTable(ptr)' /\ Connected(ptr)'
    <3>1. Connected(ptr)
      BY <1>1, <2>1, <2>3 DEF PtrInv
    <3>2. \A c \in Conns : Connected(c) => Connected(c)' /\ (~InTable(c) => ~InTable(c)')
      BY ConnectedStays
    <3> QED
      BY <2>1, <2>2, <2>3, <3>1, <3>2 DEF Connected, InTable
  <2>4. ASSUME HandleLastAck(ptr) PROVE ~InTable(ptr)' /\ Connected(ptr)'
    <3>1. Connected(ptr) /\ pst' = pst
      BY <1>1, <2>2, <2>4, ClientLastAck DEF HandleLastAck, peerVars
    <3>2. InTable(ptr) /\ tcbs' = RemoveAt(tcbs, PlaceOf(ptr))
      BY <2>4 DEF HandleLastAck
    <3>3. \A d \in Conns : InTable(d)' <=> d # ptr /\ InTable(d)
      BY <1>1, <2>2, <3>2, TableShrinks
    <3> QED
      BY <2>1, <2>2, <3>1, <3>3 DEF InTable, Connected
  <2>5. ASSUME InTable(ptr), ~HandleLastAck(ptr)
        PROVE  InTable(ptr)' /\ ptr' = StreamOfFd(connfd)'
    <3>1. ptr = StreamOfFd(connfd)
      BY <1>1, <2>1, <2>5 DEF PtrInv
    <3>2. \A c \in Conns : HandleLastAck(c) => c # StreamOfFd(connfd)
      BY <2>5, <3>1
    <3>3. /\ StreamOfFd(connfd)' = StreamOfFd(connfd)
          /\ \E i \in DOMAIN tcbs' : tcbs'[i] = StreamOfFd(connfd)
      BY <2>2, <3>2, LookupNext
    <3> QED
      BY <2>1, <3>1, <3>3 DEF InTable
  <2> QED
    BY <2>1, <2>2, <2>3, <2>4, <2>5
<1> QED
  BY <1>2, <1>3

-----------------------------------------------------------------------------
(* End marks.                                                              *)

Marks(ring) == {i \in DOMAIN ring : ring[i] = <<>>}

(* The end marks of a stream, before and after a step. *)
LEMMA EndsAreMarks == \A c : Ends(c) = Marks(rcvbuf[c]) /\ Ends(c)' = Marks(rcvbuf'[c])
BY DEF Ends, Marks

(* Enqueueing adds an end mark at most at the end, and only for the mark. *)
LEMMA MarksQueued ==
    ASSUME NEW ring \in Seq(Data), Len(ring) <= RingSize, NEW x \in Data
    PROVE  \A i \in Marks(Enqueue(ring, x)) :
              i \in Marks(ring) \/ (x = <<>> /\ i = Len(ring) + 1)
<1> DEFINE new == Enqueue(ring, x)
<1>1. \A i \in DOMAIN new : \/ i \in DOMAIN ring /\ new[i] = ring[i]
                            \/ i = Len(ring) + 1 /\ new[i] = x
  BY EnqueueProperties
<1> HIDE DEF new
<1>2. \A i \in Marks(new) : i \in Marks(ring) \/ (x = <<>> /\ i = Len(ring) + 1)
  BY <1>1 DEF Marks
<1> QED
  BY <1>2 DEF new

(* Dequeueing moves the end marks one place forward. *)
LEMMA MarksTaken ==
    ASSUME NEW ring \in Seq(Data), ring # <<>>
    PROVE  \A i \in Marks(Tail(ring)) : i + 1 \in Marks(ring) /\ i \in Nat \ {0}
<1>1. /\ Tail(ring) \in Seq(Data)
      /\ \A i \in DOMAIN Tail(ring) : i + 1 \in DOMAIN ring /\ Tail(ring)[i] = ring[i + 1]
  BY TailProperties
<1>2. DOMAIN Tail(ring) \subseteq Nat \ {0}
  BY <1>1
<1> QED
  BY <1>1, <1>2 DEF Marks

(* nrecv shifts the marks: what it queues again is never empty. *)
LEMMA RecvMarks ==
    ASSUME Typed, PtrInv, RecvTakes
    PROVE  /\ ptr \in Conns /\ \A i \in Ends(ptr)' : i + 1 \in Ends(ptr) /\ i \in Nat \ {0}
           /\ Head(rcvbuf[ptr]) = <<>> => 1 \in Ends(ptr)
<1> DEFINE ring == rcvbuf[ptr]
           d == Head(ring)
           rest == IF Len(d) > BufferSize THEN SubSeq(d, BufferSize + 1, Len(d)) ELSE <<>>
<1>1. ptr \in Conns /\ ring \in Seq(Data) /\ ring # <<>> /\ Len(ring) <= RingSize
      /\ rcvbuf \in [Conns -> Seq(Data)]
  BY DEF RecvTakes, PtrInv, Typed, WireInv, TypeOK
<1>2. /\ d \in Data /\ Tail(ring) \in Seq(Data) /\ Len(Tail(ring)) = Len(ring) - 1
      /\ Len(ring) \in Nat /\ d = ring[1] /\ 1 \in DOMAIN ring
  BY <1>1, TailProperties
<1>3. rest \in Data
  BY <1>2, RecvParts
<1>4. rcvbuf' = [rcvbuf EXCEPT ![ptr] = RestOf(@, rest)] /\ ptr' = ptr
  BY DEF RecvTakes
<1> HIDE DEF rest
<1>5. rcvbuf'[ptr] = RestOf(ring, rest)
  BY <1>1, <1>4
<1>6. d = <<>> => 1 \in Ends(ptr)
  BY <1>2 DEF Ends
<1> HIDE DEF d, ring
<1>7. \A i \in Marks(Tail(ring)) : i + 1 \in Marks(ring) /\ i \in Nat \ {0}
  BY <1>1, MarksTaken
<1>8. \A i \in Marks(RestOf(ring, rest)) : i \in Marks(Tail(ring))
  <2>1. RingSize \in Nat
    BY TcpAssumption
  <2>2. Len(Tail(ring)) <= RingSize
    BY <1>1, <1>2, <2>1
  <2>3. CASE rest = <<>>
    BY <2>3 DEF RestOf
  <2>4. CASE rest # <<>>
    BY <1>2, <1>3, <2>2, <2>4, MarksQueued DEF RestOf
  <2> QED
    BY <2>3, <2>4
<1>9. Ends(ptr) = Marks(ring) /\ Ends(ptr)' = Marks(RestOf(ring, rest))
  <2>1. Ends(ptr)' = Marks(rcvbuf'[ptr'])
    BY DEF Ends, Marks
  <2> QED
    BY <1>4, <1>5, <2>1, EndsAreMarks DEF ring
<1> QED
  BY <1>1, <1>6, <1>7, <1>8, <1>9 DEF d, ring

(* The end marks of an untouched ring stay as they are. *)
LEMMA MarkKept ==
    ASSUME NEW c, MarkInv(c), rcvbuf'[c] = rcvbuf[c],
           status'[c] = status[c] \/ Ends(c) = {}
    PROVE  MarkInv(c)'
<1>1. Ends(c)' = Ends(c)
  BY DEF Ends
<1> QED
  BY <1>1 DEF MarkInv

(* Every step keeps the end marks. *)
LEMMA MarksNext == StackInv /\ [Next]_vars => \A c \in Conns : MarkInv(c)'
<1> SUFFICES ASSUME StackInv, [Next]_vars, NEW c \in Conns PROVE MarkInv(c)'
  OBVIOUS
<1>1. Typed /\ FdInv /\ PtrInv /\ StageInv /\ CloseInv /\ TableInv /\ \A d \in Conns : MarkInv(d)
  BY DEF StackInv, Typed, EndInv
<1>2. /\ status \in [Conns -> {"CLOSED", "SYN_RCVD", "ESTABLISHED", "CLOSE_WAIT", "LAST_ACK"}]
      /\ rcvbuf \in [Conns -> Seq(Data)] /\ \A d \in Conns : Len(rcvbuf[d]) <= RingSize
  BY <1>1 DEF Typed, TypeOK, WireInv
<1>3. ASSUME rcvbuf'[c] = rcvbuf[c], status'[c] = status[c] \/ status[c] # "CLOSE_WAIT"
      PROVE  MarkInv(c)'
  BY <1>1, <1>3, MarkKept DEF MarkInv
<1>4. CASE \/ QuietStep \/ AcceptTakes \/ SendEcho \/ CloseSends \/ SendAck
           \/ \E d \in Conns : TcpOut(d)
  <2>1. rcvbuf' = rcvbuf /\ status' = status
    BY <1>4, QuietStreams DEF streamVars, AcceptTakes, SendEcho, CloseSends, SendAck, TcpOut
  <2> QED
    BY <1>3, <2>1
<1>5. CASE RecvTakes
  <2>1. ptr \in Conns /\ \A i \in Ends(ptr)' : i + 1 \in Ends(ptr) /\ i \in Nat \ {0}
    BY <1>1, <1>5, RecvMarks
  <2>2. status' = status /\ ptr' = ptr /\ \A d \in Conns \ {ptr} : rcvbuf'[d] = rcvbuf[d]
    BY <1>2, <1>5, <2>1 DEF RecvTakes
  <2>3. CASE c = ptr
    <3>1. \A i \in Ends(c)' : i + 1 \in Ends(c) /\ i \in Nat \ {0}
      BY <2>1, <2>2, <2>3 DEF Ends
    <3>2. Ends(c)' # {} => status'[c] = "CLOSE_WAIT"
      BY <1>1, <2>2, <3>1 DEF MarkInv
    <3>3. ASSUME NEW i \in Ends(c)', NEW j \in Ends(c)' PROVE i = j
      <4>1. i + 1 = j + 1
        BY <1>1, <3>1 DEF MarkInv
      <4> QED
        BY <3>1, <4>1
    <3> QED
      BY <3>2, <3>3 DEF MarkInv
  <2> QED
    BY <1>3, <2>2, <2>3
<1>6. CASE CloseMarks
  <2> DEFINE s == ptr
  <2>1. s \in Conns /\ Ends(s) = {}
    BY <1>1, <1>6 DEF CloseMarks, CloseInv
  <2>2. rcvbuf' = rcvbuf /\ status' = [status EXCEPT ![s] = "LAST_ACK"]
    BY <1>6 DEF CloseMarks
  <2> HIDE DEF s
  <2>3. status'[c] = status[c] \/ Ends(c) = {}
    BY <1>2, <2>1, <2>2
  <2> QED
    BY <1>1, <2>2, <2>3, MarkKept
<1>7. CASE EnqueuePayload \/ EnqueueEnd
  <2> DEFINE x == IF pcP = "psh" THEN pkt.data ELSE <<>>
  <2>1. cur \in Conns /\ status[cur] = "ESTABLISHED" /\ (pcP = "psh" => x # <<>>)
    BY <1>1, <1>7 DEF EnqueuePayload, EnqueueEnd, StageInv
  <2>2. x \in Data
    BY <1>1, EmptyTyped DEF Typed, WireInv, Packets
  <2>3. /\ rcvbuf' = [rcvbuf EXCEPT ![cur] = Enqueue(@, x)]
        /\ (pcP = "psh" /\ status' = status)
              \/ (status' = [status EXCEPT ![cur] = "CLOSE_WAIT"])
    BY <1>7 DEF EnqueuePayload, EnqueueEnd
  <2> HIDE DEF x
  <2>4. CASE c = cur
    <3>1. Ends(c) = {}
      BY <1>1, <2>1, <2>4 DEF MarkInv
    <3>2. rcvbuf'[c] = Enqueue(rcvbuf[c], x)
      BY <1>2, <2>3, <2>4
    <3>3. \A i \in Ends(c)' : x = <<>> /\ i = Len(rcvbuf[c]) + 1
      BY <1>2, <2>2, <3>1, <3>2, MarksQueued, EndsAreMarks
    <3>4. x = <<>> => status'[c] = "CLOSE_WAIT"
      BY <1>2, <2>1, <2>3, <2>4
    <3> QED
      BY <3>3, <3>4 DEF MarkInv
  <2>5. CASE c # cur
    BY <1>2, <1>3, <2>3, <2>5
  <2> QED
    BY <2>4, <2>5
<1>8. ASSUME NEW d \in Conns, HandleListen(d) \/ HandleSynRcvd(d) PROVE MarkInv(c)'
  <2>1. status[d] \in {"CLOSED", "SYN_RCVD"}
    BY <1>1, <1>8 DEF HandleListen, HandleSynRcvd, TableInv
  <2>2. rcvbuf' = rcvbuf /\ \A e \in Conns \ {d} : status'[e] = status[e]
    BY <1>2, <1>8 DEF HandleListen, HandleSynRcvd
  <2> QED
    BY <1>3, <2>1, <2>2
<1>9. ASSUME NEW d \in Conns, HandleLastAck(d) PROVE MarkInv(c)'
  <2>1. /\ rcvbuf'[d] = <<>>
        /\ \A e \in Conns \ {d} : status'[e] = status[e] /\ rcvbuf'[e] = rcvbuf[e]
    BY <1>2, <1>9 DEF HandleLastAck
  <2>2. c = d => Ends(c)' = {}
    BY <2>1 DEF Ends
  <2> QED
    BY <1>3, <2>1, <2>2 DEF MarkInv
<1> QED
  BY <1>4, <1>5, <1>6, <1>7, <1>8, <1>9, Steps DEF StreamStep

(* Every step keeps the stage of the packet handler. *)
LEMMA StageNext == StackInv /\ [Next]_vars => StageInv'
<1> SUFFICES ASSUME StackInv, [Next]_vars PROVE StageInv'
  OBVIOUS
<1>1. Typed /\ StageInv /\ CloseInv /\ ClientInv
  BY DEF StackInv, Typed, EndInv
<1>2. status \in [Conns -> {"CLOSED", "SYN_RCVD", "ESTABLISHED", "CLOSE_WAIT", "LAST_ACK"}]
  BY <1>1 DEF Typed, TypeOK
<1>3. ASSUME UNCHANGED <<pcP, cur, pkt, status>> PROVE StageInv'
  BY <1>1, <1>3 DEF StageInv
<1>4. ASSUME pcP' \in {"idle", "signalAccept"} PROVE StageInv'
  BY <1>4 DEF StageInv
<1>5. CASE \/ ServerSocket \/ ServerListens \/ CloseReleases \/ AcceptWaits \/ RecvCall \/ RecvWaits
           \/ SpuriousWakeup \/ UNCHANGED vars \/ AcceptTakes \/ RecvTakes \/ SendEcho \/ CloseSends
           \/ \E c \in Conns : PeerConnects(c) \/ PeerStep(c)
  <2>1. UNCHANGED <<pcP, cur, pkt, status>>
    BY <1>5 DEF ServerSocket, ServerListens, CloseReleases, AcceptWaits, RecvCall, RecvWaits, SpuriousWakeup,
                vars, AcceptTakes, RecvTakes, SendEcho, CloseSends, PeerConnects, PeerStep, PeerSends,
                PeerCloses, PeerReceives, streamVars, pktVars
  <2> QED
    BY <1>3, <2>1
<1>6. CASE CloseMarks
  <2> DEFINE s == ptr
  <2>1. s \in Conns /\ status[s] = "CLOSE_WAIT" /\ status' = [status EXCEPT ![s] = "LAST_ACK"]
        /\ UNCHANGED <<pcP, cur, pkt>>
    BY <1>1, <1>6 DEF CloseMarks, CloseInv, pktVars
  <2> HIDE DEF s
  <2> QED
    BY <1>1, <1>2, <2>1 DEF StageInv
<1>7. CASE SignalAccept
  BY <1>4, <1>7 DEF SignalAccept
<1>8. CASE EnqueuePayload \/ SignalData \/ SendAck
  <2>1. UNCHANGED <<cur, pkt, status>>
    BY <1>8 DEF EnqueuePayload, SignalData, SendAck, streamVars
  <2>2. \/ pcP = "psh" /\ pcP' = "pshSignal"
        \/ pcP = "pshSignal" /\ pcP' = "pshAck"
        \/ pcP = "finSignal" /\ pcP' = "finAck"
        \/ pcP = "pshAck" /\ pcP' = "fin"
        \/ pcP' = "idle"
    BY <1>8 DEF EnqueuePayload, SignalData, SendAck
  <2> QED
    BY <1>1, <2>1, <2>2 DEF StageInv
<1>9. CASE EnqueueEnd
  <2>1. /\ pcP = "fin" /\ pcP' = "finSignal" /\ UNCHANGED <<cur, pkt>>
        /\ status' = [status EXCEPT ![cur] = "CLOSE_WAIT"]
    BY <1>9 DEF EnqueueEnd
  <2> QED
    BY <1>1, <1>2, <2>1 DEF StageInv
<1>10. ASSUME NEW c \in Conns, HandleEstablished(c) PROVE StageInv'
  <2> DEFINE p == Head(inp[c])
  <2>1. /\ status[c] = "ESTABLISHED" /\ status' = status /\ cur' = c /\ pkt' = p
        /\ pcP' = FirstStage(p.flags) /\ inp[c] # <<>> /\ inp[c] \in Seq(Packets)
    BY <1>1, <1>10 DEF HandleEstablished, Arrives, streamVars, Typed, WireInv
  <2>2. p = inp[c][1] /\ 1 \in DOMAIN inp[c]
    BY <2>1, TailProperties
  <2>3. "PSH" \in p.flags => p.data # <<>>
    BY <1>1, <2>2 DEF ClientInv, ClientOK, PacketInv
  <2> HIDE DEF p
  <2>4. pcP' \in {"psh", "fin", "idle"} /\ (pcP' = "psh" => "PSH" \in p.flags)
    BY <2>1 DEF FirstStage
  <2> QED
    BY <2>1, <2>3, <2>4 DEF StageInv
<1>11. ASSUME NEW c \in Conns, \/ NoListener(c) \/ HandleCloseWait(c) \/ HandleListen(c)
                               \/ HandleSynRcvd(c) \/ HandleLastAck(c) \/ TcpOut(c)
       PROVE  StageInv'
  <2>1. pcP = "idle" /\ pcP' \in {pcP, "signalAccept"}
    BY <1>11 DEF NoListener, HandleCloseWait, HandleListen, HandleSynRcvd, HandleLastAck, TcpOut,
                 Arrives, pktVars
  <2> QED
    BY <1>4, <2>1
<1> QED
  BY <1>5, <1>6, <1>7, <1>8, <1>9, <1>10, <1>11, Steps DEF QuietStep, StreamStep

(* A stream in CLOSE_WAIT and its rcvbuf are left alone but by the program. *)
LEMMA CloseWaitKept ==
    ASSUME StackInv, [Next]_vars, NEW s \in Conns, status[s] = "CLOSE_WAIT",
           ~RecvTakes, ~CloseMarks
    PROVE  status'[s] = status[s] /\ rcvbuf'[s] = rcvbuf[s]
<1>1. Typed /\ StageInv /\ TableInv
  BY DEF StackInv, Typed, EndInv
<1>2. /\ status \in [Conns -> {"CLOSED", "SYN_RCVD", "ESTABLISHED", "CLOSE_WAIT", "LAST_ACK"}]
      /\ rcvbuf \in [Conns -> Seq(Data)]
  BY <1>1 DEF Typed, TypeOK, WireInv
<1>3. CASE QuietStep
  BY <1>3, QuietStreams DEF streamVars
<1>4. CASE AcceptTakes \/ SendEcho \/ CloseSends \/ SendAck \/ \E d \in Conns : TcpOut(d)
  BY <1>4 DEF AcceptTakes, SendEcho, CloseSends, SendAck, TcpOut
<1>5. CASE EnqueuePayload \/ EnqueueEnd
  <2>1. cur # s /\ cur \in Conns
    BY <1>1, <1>5 DEF EnqueuePayload, EnqueueEnd, StageInv
  <2> QED
    BY <1>2, <1>5, <2>1 DEF EnqueuePayload, EnqueueEnd
<1>6. ASSUME NEW d \in Conns, HandleListen(d) \/ HandleSynRcvd(d) \/ HandleLastAck(d)
      PROVE  status'[s] = status[s] /\ rcvbuf'[s] = rcvbuf[s]
  <2>1. d # s
    BY <1>1, <1>6 DEF HandleListen, HandleSynRcvd, HandleLastAck, FreedByAck, TableInv
  <2> QED
    BY <1>2, <1>6, <2>1 DEF HandleListen, HandleSynRcvd, HandleLastAck
<1> QED
  BY <1>3, <1>4, <1>5, <1>6, Steps DEF StreamStep

(* The program gets to nclose only from nrecv, and keeps its stream there. *)
LEMMA ClosePlace ==
    ASSUME [Next]_vars, ~RecvTakes, pcS' \in {"close", "closeStatus"}
    PROVE  /\ pcS \in {"close", "closeStatus"} /\ ~CloseMarks
           /\ pcS' = "closeStatus" => ptr' = IF CloseSends THEN StreamOfFd(connfd) ELSE ptr
           /\ pcS' = "closeStatus" /\ ~CloseSends => pcS = "closeStatus"
<1>1. CASE \/ ServerSocket \/ ServerListens \/ CloseReleases \/ AcceptWaits \/ RecvCall \/ RecvWaits
           \/ SpuriousWakeup \/ SignalAccept \/ SignalData \/ UNCHANGED vars
  BY <1>1 DEF ServerSocket, ServerListens, CloseReleases, AcceptWaits, RecvCall, RecvWaits, SpuriousWakeup,
              SignalAccept, SignalData, AfterAcceptSignal, AfterDataSignal, vars, appVars,
              CloseSends, CloseMarks
<1>2. CASE \E c \in Conns : \/ NoListener(c) \/ HandleEstablished(c) \/ HandleCloseWait(c)
                            \/ PeerConnects(c) \/ PeerStep(c)
  BY <1>2 DEF NoListener, HandleEstablished, HandleCloseWait, PeerConnects, PeerStep, PeerSends,
              PeerCloses, PeerReceives, appVars, CloseSends, CloseMarks
<1>3. CASE StreamStep
  BY <1>3 DEF StreamStep, AcceptTakes, SendEcho, CloseSends, CloseMarks, EnqueuePayload, EnqueueEnd,
              SendAck, HandleListen, HandleSynRcvd, HandleLastAck, TcpOut, appVars
<1> QED
  BY <1>1, <1>2, <1>3, Steps DEF QuietStep

(* Every step keeps what is known of a stream that closes. *)
LEMMA CloseNext == StackInv /\ [Next]_vars => CloseInv'
<1> SUFFICES ASSUME StackInv, [Next]_vars, pcS' \in {"close", "closeStatus"}
             PROVE  \E s \in Conns : /\ StreamOfFd(connfd)' = s /\ status'[s] = "CLOSE_WAIT"
                                     /\ Ends(s)' = {} /\ (pcS' = "closeStatus" => ptr' = s)
  <2>1. (LET s == StreamOfFd(connfd)
         IN /\ s \in Conns /\ status[s] = "CLOSE_WAIT" /\ Ends(s) = {}
            /\ pcS = "closeStatus" => ptr = s)'
         <=> \E s \in Conns : /\ StreamOfFd(connfd)' = s /\ status'[s] = "CLOSE_WAIT"
                              /\ Ends(s)' = {} /\ (pcS' = "closeStatus" => ptr' = s)
    BY DEF Ends
  <2> QED
    BY <2>1 DEF CloseInv
<1>1. Typed /\ FdInv /\ PtrInv /\ EndInv /\ TableInv
  BY DEF StackInv, Typed
<1>2. CASE RecvTakes
  <2>1. /\ ptr \in Conns /\ \A i \in Ends(ptr)' : i + 1 \in Ends(ptr) /\ i \in Nat \ {0}
        /\ Head(rcvbuf[ptr]) = <<>> => 1 \in Ends(ptr)
    BY <1>1, <1>2, RecvMarks
  <2>2. /\ pcS = "dequeue" /\ UNCHANGED <<tcbs, fd, connfd, status, ptr>>
        /\ Head(rcvbuf[ptr]) = <<>> /\ pcS' # "closeStatus"
    BY <1>2 DEF RecvTakes
  <2>3. status[ptr] = "CLOSE_WAIT" /\ \A i, j \in Ends(ptr) : i = j
    BY <1>1, <2>1, <2>2 DEF EndInv, MarkInv
  <2>4. InTable(ptr)
    BY <1>1, <2>1, <2>3 DEF TableInv
  <2>5. StreamOfFd(connfd) = ptr
    BY <1>1, <2>2, <2>4 DEF PtrInv
  <2>6. StreamOfFd(connfd)' = ptr
    BY <2>2, <2>5, StreamFound
  <2>7. ASSUME NEW i \in Ends(ptr)' PROVE FALSE
    <3>1. i + 1 = 1 /\ i \in Nat \ {0}
      BY <2>1, <2>2, <2>3
    <3> QED
      BY <3>1
  <2>8. \A s : s = ptr => Ends(s)' = Ends(ptr)'
    BY <2>2 DEF Ends
  <2> QED
    BY <2>1, <2>2, <2>3, <2>6, <2>7, <2>8
<1>3. CASE ~RecvTakes
  <2> DEFINE s == StreamOfFd(connfd)
  <2>1. pcS \in {"close", "closeStatus"} /\ ~CloseMarks /\ Serving
    BY <1>3, ClosePlace DEF Serving
  <2>2. /\ s \in Conns /\ status[s] = "CLOSE_WAIT" /\ Ends(s) = {}
        /\ pcS' = "closeStatus" => ptr' = s
    BY <1>1, <1>3, <2>1, ClosePlace DEF EndInv, CloseInv
  <2>3. \A c \in Conns : HandleLastAck(c) => c # s
    BY <2>2 DEF HandleLastAck, FreedByAck
  <2>4. StreamOfFd(connfd)' = s
    BY <2>1, <2>3, LookupNext
  <2> HIDE DEF s
  <2>5. status'[s] = "CLOSE_WAIT" /\ rcvbuf'[s] = rcvbuf[s]
    BY <1>3, <2>1, <2>2, CloseWaitKept
  <2>6. PICK c \in Conns : c = s
    BY <2>2
  <2>7. Ends(c)' = {}
    BY <2>2, <2>5, <2>6 DEF Ends
  <2> QED
    BY <2>2, <2>4, <2>5, <2>6, <2>7
<1> QED
  BY <1>2, <1>3

(* Every step keeps the end of a stream. *)
LEMMA EndNext == StackInv /\ [Next]_vars => EndInv'
BY MarksNext, StageNext, CloseNext DEF EndInv

-----------------------------------------------------------------------------
(* Descriptors.                                                            *)

(* Only nsocket, naccept and nclose touch the descriptors. *)
LEMMA DescriptorsKept ==
    ASSUME Typed, [Next]_vars, ~ServerSocket, ~AcceptTakes, ~CloseMarks, ~CloseReleases
    PROVE  /\ listener'.fd = listener.fd /\ UNCHANGED <<connfd, fdTable>>
           /\ Serving' <=> Serving
           /\ pcS' = "socket" <=> pcS = "socket"
           /\ pcS' = "closeFd" <=> pcS = "closeFd"
<1>1. listener \in [status : {"NONE", "CLOSED", "LISTEN"}, fd : Fds \cup {NoFd}]
  BY DEF Typed, WireInv
<1>2. CASE ServerListens
  BY <1>1, <1>2 DEF ServerListens, Serving
<1>3. CASE \/ AcceptWaits \/ RecvCall \/ RecvWaits
           \/ SpuriousWakeup \/ SignalAccept \/ SignalData \/ UNCHANGED vars
  BY <1>3 DEF AcceptWaits, RecvCall, RecvWaits, SpuriousWakeup, SignalAccept,
              SignalData, AfterAcceptSignal, AfterDataSignal, vars, appVars, Serving
<1>4. CASE \E c \in Conns : \/ NoListener(c) \/ HandleEstablished(c) \/ HandleCloseWait(c)
                            \/ PeerConnects(c) \/ PeerStep(c)
  BY <1>4 DEF NoListener, HandleEstablished, HandleCloseWait, PeerConnects, PeerStep, PeerSends,
              PeerCloses, PeerReceives, appVars, Serving
<1>5. CASE StreamStep
  BY <1>5 DEF StreamStep, RecvTakes, SendEcho, CloseSends, EnqueuePayload, EnqueueEnd, SendAck,
              HandleListen, HandleSynRcvd, HandleLastAck, TcpOut, appVars, Serving
<1> QED
  BY <1>2, <1>3, <1>4, <1>5, Steps DEF QuietStep

(* Steps other than nsocket, naccept and nclose keep the descriptors. *)
LEMMA FdKept ==
    ASSUME Typed, FdInv, [Next]_vars, ~ServerSocket, ~AcceptTakes, ~CloseMarks, ~CloseReleases,
           \A c \in Conns : /\ c \in OpenStreams' <=> c \in OpenStreams
                            /\ c \in OpenStreams => fd'[c] = fd[c]
                            /\ status'[c] = "LAST_ACK" => fd'[c] # NoFd
    PROVE  FdInv'
<1>1. /\ listener'.fd = listener.fd /\ UNCHANGED <<connfd, fdTable>>
      /\ Serving' <=> Serving
      /\ pcS' = "socket" <=> pcS = "socket"
      /\ pcS' = "closeFd" <=> pcS = "closeFd"
  BY DescriptorsKept
<1>2. OpenStreams' = OpenStreams
  BY DEF OpenStreams
<1>3. IF pcS' = "socket" THEN listener'.fd = NoFd ELSE listener'.fd \in Fds
  BY <1>1 DEF FdInv
<1>4. CASE Serving
  <2>1. connfd' \in Fds \ {listener'.fd} /\ fdTable' = {listener'.fd, connfd'}
    BY <1>1, <1>4 DEF FdInv
  <2>2. \E o \in Conns : OpenStreams' = {o} /\ fd'[o] = connfd'
    BY <1>1, <1>2, <1>4 DEF FdInv
  <2> QED
    BY <1>1, <1>3, <1>4, <2>1, <2>2 DEF FdInv
<1>5. CASE ~Serving
  <2>1. /\ IF pcS' = "closeFd"
           THEN connfd' \in Fds \ {listener'.fd} /\ fdTable' = {listener'.fd, connfd'}
           ELSE fdTable' = {listener'.fd} \ {NoFd}
        /\ OpenStreams' = {}
    BY <1>1, <1>2, <1>5 DEF FdInv
  <2> QED
    BY <1>1, <1>3, <1>5, <2>1 DEF FdInv
<1> QED
  BY <1>4, <1>5

(* Every step keeps descriptors, bitmap and open streams in agreement. *)
LEMMA FdNext == StackInv /\ [Next]_vars => FdInv'
<1> SUFFICES ASSUME StackInv, [Next]_vars PROVE FdInv'
  OBVIOUS
<1>1. Typed /\ FdInv /\ TableInv /\ StageInv /\ CloseInv
  BY DEF StackInv, Typed, EndInv
<1>2. /\ status \in [Conns -> {"CLOSED", "SYN_RCVD", "ESTABLISHED", "CLOSE_WAIT", "LAST_ACK"}]
      /\ fd \in [Conns -> Fds \cup {NoFd}]
  BY <1>1 DEF Typed, TypeOK
<1>3. NoFd \notin Fds
  BY TcpAssumption DEF NoFd
<1>4. CASE ServerSocket
  <2> DEFINE f == LowestFreeFd
  <2>1. fdTable \subseteq {NoFd} /\ OpenStreams = {} /\ fdTable = {}
    BY <1>1, <1>4 DEF ServerSocket, FdInv, Serving
  <2>2. f \in Fds
    BY <2>1, FreeDescriptor
  <2>3. /\ fdTable' = fdTable \cup {f} /\ listener' = [status |-> "CLOSED", fd |-> f]
        /\ pcS' = "listen" /\ UNCHANGED <<tcbs, fd, status>>
    BY <1>4 DEF ServerSocket, streamVars
  <2> HIDE DEF f
  <2>4. OpenStreams' = {}
    BY <2>1, <2>3 DEF OpenStreams, InTable
  <2>5. listener'.fd = f /\ ~Serving'
    BY <2>3 DEF Serving
  <2>6. fdTable' = {listener'.fd} \ {NoFd}
    BY <1>3, <2>1, <2>2, <2>3, <2>5
  <2>7. \A c \in Conns : status'[c] = "LAST_ACK" => fd'[c] # NoFd
    BY <1>1, <2>3 DEF FdInv
  <2> QED
    BY <2>2, <2>3, <2>4, <2>5, <2>6, <2>7 DEF FdInv
<1>5. CASE AcceptTakes
  <2> DEFINE f == LowestFreeFd
             t == AcceptTcb
  <2>1. /\ fdTable = {listener.fd} \ {NoFd} /\ OpenStreams = {} /\ listener.fd \in Fds
    BY <1>1, <1>5 DEF AcceptTakes, FdInv, Serving
  <2>2. fdTable = {listener.fd}
    BY <1>3, <2>1
  <2>3. f \in Fds /\ f \notin fdTable
    BY <2>2, FreeDescriptor
  <2>4. t \in Conns /\ InTable(t) /\ fd[t] = NoFd
    BY <1>1, <1>5, AcceptStream DEF AcceptTakes
  <2>5. /\ fd' = [fd EXCEPT ![t] = f] /\ fdTable' = fdTable \cup {f} /\ connfd' = f
        /\ pcS' = "recv" /\ UNCHANGED <<tcbs, status, listener>>
    BY <1>5 DEF AcceptTakes
  <2> HIDE DEF f, t
  <2>6. status[t] # "LAST_ACK"
    BY <1>1, <2>4 DEF FdInv
  <2>7. fd'[t] = f /\ f # NoFd /\ \A c \in Conns \ {t} : fd'[c] = fd[c]
    BY <1>2, <1>3, <2>3, <2>4, <2>5
  <2>8. \A c : InTable(c)' <=> InTable(c)
    BY <2>5, TableSame
  <2>9. OpenStreams' = {t}
    <3>1. \A c \in Conns : c \in OpenStreams' <=> c = t
      BY <2>1, <2>4, <2>5, <2>6, <2>7, <2>8 DEF OpenStreams
    <3>2. OpenStreams' \subseteq Conns
      BY DEF OpenStreams
    <3> QED
      BY <2>4, <3>1, <3>2
  <2>10. Serving' /\ listener'.fd = listener.fd
    BY <2>5 DEF Serving
  <2>11. connfd' \in Fds \ {listener'.fd} /\ fdTable' = {listener'.fd, connfd'}
    BY <2>2, <2>3, <2>5, <2>10
  <2>12. \A c \in Conns : status'[c] = "LAST_ACK" => fd'[c] # NoFd
    BY <1>1, <2>5, <2>7 DEF FdInv
  <2>13. \E o \in Conns : OpenStreams' = {o} /\ fd'[o] = connfd'
    BY <2>4, <2>5, <2>7, <2>9
  <2>14. IF pcS' = "socket" THEN listener'.fd = NoFd ELSE listener'.fd \in Fds
    BY <2>1, <2>5, <2>10
  <2> QED
    BY <2>10, <2>11, <2>12, <2>13, <2>14 DEF FdInv
<1>6. CASE CloseMarks
  <2> DEFINE s == StreamOfFd(connfd)
  <2>1. pcS = "closeStatus" /\ Serving
    BY <1>6 DEF CloseMarks, Serving
  <2>2. s \in Conns /\ InTable(s) /\ fd[s] = connfd /\ status[s] = "CLOSE_WAIT" /\ ptr = s
    BY <1>1, <2>1, ServingInTable DEF CloseInv
  <2>3. /\ connfd \in Fds \ {listener.fd} /\ fdTable = {listener.fd, connfd}
        /\ \E o \in Conns : OpenStreams = {o} /\ fd[o] = connfd
        /\ listener.fd \in Fds
    BY <1>1, <2>1 DEF FdInv
  <2>4. /\ status' = [status EXCEPT ![s] = "LAST_ACK"]
        /\ pcS' = "closeFd" /\ UNCHANGED <<tcbs, fd, listener, fdTable, connfd>>
    BY <1>6, <2>2 DEF CloseMarks
  <2> HIDE DEF s
  <2>5. OpenStreams = {s}
    <3>1. s \in OpenStreams
      BY <1>3, <2>2, <2>3 DEF OpenStreams
    <3> QED
      BY <2>3, <3>1
  <2>6. status'[s] = "LAST_ACK" /\ \A c \in Conns \ {s} : status'[c] = status[c]
    BY <1>2, <2>2, <2>4
  <2>7. \A c : InTable(c)' <=> InTable(c)
    BY <2>4, TableSame
  <2>8. OpenStreams' = {}
    BY <2>4, <2>5, <2>6, <2>7 DEF OpenStreams
  <2>9. /\ connfd' \in Fds \ {listener'.fd} /\ fdTable' = {listener'.fd, connfd'}
        /\ listener'.fd \in Fds
    BY <2>3, <2>4
  <2>10. \A c \in Conns : status'[c] = "LAST_ACK" => fd'[c] # NoFd
    BY <1>1, <1>3, <2>2, <2>3, <2>4, <2>6 DEF FdInv
  <2>11. ~Serving' /\ pcS' = "closeFd"
    BY <2>4 DEF Serving
  <2> QED
    BY <2>8, <2>9, <2>10, <2>11 DEF FdInv
<1>8. CASE CloseReleases
  <2>1. /\ pcS = "closeFd" /\ pcS' = "accept" /\ fdTable' = fdTable \ {connfd}
        /\ UNCHANGED <<tcbs, status, fd, listener>>
    BY <1>8 DEF CloseReleases, ReleaseFd, streamVars
  <2>2. /\ connfd \in Fds \ {listener.fd} /\ fdTable = {listener.fd, connfd}
        /\ listener.fd \in Fds /\ OpenStreams = {}
    BY <1>1, <2>1 DEF FdInv, Serving
  <2>3. OpenStreams' = {}
    BY <2>1, <2>2 DEF OpenStreams, InTable
  <2>4. fdTable' = {listener'.fd} \ {NoFd} /\ listener'.fd \in Fds
    BY <1>3, <2>1, <2>2
  <2>5. \A c \in Conns : status'[c] = "LAST_ACK" => fd'[c] # NoFd
    BY <1>1, <2>1 DEF FdInv
  <2>6. ~Serving' /\ pcS' \notin {"socket", "closeFd"}
    BY <2>1 DEF Serving
  <2> QED
    BY <2>3, <2>4, <2>5, <2>6 DEF FdInv
<1>7. CASE ~ServerSocket /\ ~AcceptTakes /\ ~CloseMarks /\ ~CloseReleases
  <2>1. ASSUME UNCHANGED <<tcbs, status, fd>> PROVE FdInv'
    <3>1. \A c \in Conns : /\ c \in OpenStreams' <=> c \in OpenStreams
                           /\ c \in OpenStreams => fd'[c] = fd[c]
                           /\ status'[c] = "LAST_ACK" => fd'[c] # NoFd
      BY <1>1, <2>1 DEF OpenStreams, InTable, FdInv
    <3> QED
      BY <1>1, <1>7, <3>1, FdKept
  <2>2. CASE \/ QuietStep \/ RecvTakes \/ SendEcho \/ CloseSends \/ EnqueuePayload \/ SendAck
             \/ \E c \in Conns : TcpOut(c)
    BY <2>1, <2>2, QuietStreams
       DEF streamVars, RecvTakes, SendEcho, CloseSends, EnqueuePayload, SendAck, TcpOut
  <2>3. CASE EnqueueEnd
    <3>1. /\ UNCHANGED <<tcbs, fd>> /\ cur \in Conns /\ status[cur] = "ESTABLISHED"
          /\ status' = [status EXCEPT ![cur] = "CLOSE_WAIT"]
      BY <1>1, <2>3 DEF EnqueueEnd, StageInv
    <3>2. \A c \in Conns : status'[c] = "LAST_ACK" <=> status[c] = "LAST_ACK"
      BY <1>2, <3>1
    <3>3. \A c \in Conns : /\ c \in OpenStreams' <=> c \in OpenStreams
                           /\ c \in OpenStreams => fd'[c] = fd[c]
                           /\ status'[c] = "LAST_ACK" => fd'[c] # NoFd
      BY <1>1, <3>1, <3>2 DEF OpenStreams, InTable, FdInv
    <3> QED
      BY <1>1, <1>7, <3>3, FdKept
  <2>4. ASSUME NEW d \in Conns, HandleSynRcvd(d) PROVE FdInv'
    <3>1. /\ UNCHANGED <<tcbs, fd>> /\ status[d] = "SYN_RCVD"
          /\ status' = status \/ status' = [status EXCEPT ![d] = "ESTABLISHED"]
      BY <2>4 DEF HandleSynRcvd
    <3>2. \A c \in Conns : status'[c] = "LAST_ACK" <=> status[c] = "LAST_ACK"
      BY <1>2, <3>1
    <3>3. \A c \in Conns : /\ c \in OpenStreams' <=> c \in OpenStreams
                           /\ c \in OpenStreams => fd'[c] = fd[c]
                           /\ status'[c] = "LAST_ACK" => fd'[c] # NoFd
      BY <1>1, <3>1, <3>2 DEF OpenStreams, InTable, FdInv
    <3> QED
      BY <1>1, <1>7, <3>3, FdKept
  <2>5. ASSUME NEW d \in Conns, HandleListen(d) PROVE FdInv'
    <3>1. CASE "SYN" \in Head(inp[d]).flags
      <4>1. /\ ~InTable(d) /\ tcbs' = <<d>> \o tcbs /\ fd' = fd
            /\ status' = [status EXCEPT ![d] = "SYN_RCVD"]
        BY <2>5, <3>1 DEF HandleListen
      <4>2. \A c \in Conns : InTable(c)' <=> c = d \/ InTable(c)
        BY <1>1, <4>1, TableGrows
      <4>3. fd[d] = NoFd /\ status'[d] # "LAST_ACK" /\ \A c \in Conns \ {d} : status'[c] = status[c]
        BY <1>1, <1>2, <4>1 DEF TableInv
      <4>4. \A c \in Conns : /\ c \in OpenStreams' <=> c \in OpenStreams
                             /\ c \in OpenStreams => fd'[c] = fd[c]
                             /\ status'[c] = "LAST_ACK" => fd'[c] # NoFd
        BY <1>1, <4>1, <4>2, <4>3 DEF OpenStreams, FdInv
      <4> QED
        BY <1>1, <1>7, <4>4, FdKept
    <3>2. CASE "SYN" \notin Head(inp[d]).flags
      BY <2>1, <2>5, <3>2 DEF HandleListen
    <3> QED
      BY <3>1, <3>2
  <2>6. ASSUME NEW d \in Conns, HandleLastAck(d) PROVE FdInv'
    <3>1. /\ InTable(d) /\ tcbs' = RemoveAt(tcbs, PlaceOf(d)) /\ status[d] = "LAST_ACK"
          /\ status' = [status EXCEPT ![d] = "CLOSED"] /\ fd' = [fd EXCEPT ![d] = NoFd]
      BY <2>6 DEF HandleLastAck, FreedByAck
    <3>2. \A c \in Conns : InTable(c)' <=> c # d /\ InTable(c)
      BY <1>1, <3>1, TableShrinks
    <3>3. status'[d] = "CLOSED" /\ \A c \in Conns \ {d} : status'[c] = status[c] /\ fd'[c] = fd[c]
      BY <1>2, <3>1
    <3>4. \A c \in Conns : /\ c \in OpenStreams' <=> c \in OpenStreams
                           /\ c \in OpenStreams => fd'[c] = fd[c]
                           /\ status'[c] = "LAST_ACK" => fd'[c] # NoFd
      BY <1>1, <3>1, <3>2, <3>3 DEF OpenStreams, FdInv
    <3> QED
      BY <1>1, <1>7, <3>4, FdKept
  <2> QED
    BY <1>7, <2>2, <2>3, <2>4, <2>5, <2>6, Steps DEF StreamStep
<1> QED
  BY <1>4, <1>5, <1>6, <1>7, <1>8

-----------------------------------------------------------------------------
(* The order of the table.                                                 *)

Ordered(t, st, g) ==
    \A i, j \in DOMAIN t : i < j =>
        /\ st[t[i]] = "LAST_ACK" => st[t[j]] = "LAST_ACK"
        /\ g[t[i]] # NoFd => g[t[j]] # NoFd

OneWaits == \A c, d \in PendingConns : c = d

RecvOpen == pcS \in {"dequeue", "recvWait"} => status[ptr] \notin {"LAST_ACK", "CLOSED"}

(* The order of the table, before and after a step, by its parts. *)
LEMMA OrderParts ==
    /\ OrderInv <=> (traffic.backlog = 1 => OneWaits /\ Ordered(tcbs, status, fd) /\ RecvOpen)
    /\ OrderInv' <=> (traffic'.backlog = 1 =>
                         OneWaits' /\ Ordered(tcbs', status', fd') /\ RecvOpen')
BY DEF OrderInv, OneWaits, Ordered, RecvOpen

(* What the clients will do is settled from the start. *)
LEMMA TrafficKept == [Next]_vars => traffic' = traffic
<1>1. QuietStep => traffic' = traffic
  BY DEF QuietStep, ServerSocket, ServerListens, CloseReleases, AcceptWaits, RecvCall, RecvWaits, SpuriousWakeup,
         SignalAccept, SignalData, vars, NoListener, HandleEstablished, HandleCloseWait,
         PeerConnects, PeerStep, PeerSends, PeerCloses, PeerReceives, peerVars
<1>2. StreamStep => traffic' = traffic
  BY DEF StreamStep, AcceptTakes, RecvTakes, SendEcho, CloseSends, CloseMarks, EnqueuePayload,
         EnqueueEnd, SendAck, HandleListen, HandleSynRcvd, HandleLastAck, TcpOut, peerVars
<1> QED
  BY <1>1, <1>2, Steps

(* A SYN in the inp of a client comes from a client that waits. *)
LEMMA SynFromWaiting ==
    ASSUME Typed, ClientInv, NEW c \in Conns, inp[c] # <<>>, "SYN" \in Head(inp[c]).flags
    PROVE  pst[c] = "syn_sent"
<1>1. Head(inp[c]) = inp[c][1] /\ 1 \in DOMAIN inp[c]
  BY TailProperties DEF Typed, WireInv
<1> QED
  BY <1>1 DEF ClientInv, ClientOK, PacketInv

(* No more connections wait than before. *)
LEMMA OneWaitsKept ==
    ASSUME OneWaits, \A d \in Conns : d \in PendingConns' => d \in PendingConns
    PROVE  OneWaits'
BY DEF OneWaits, PendingConns

(* With a backlog of one, one connection at most waits for naccept. *)
LEMMA OneWaitsNext ==
    ASSUME StackInv, [Next]_vars, traffic.backlog = 1, OneWaits
    PROVE  OneWaits'
<1>1. Typed /\ TableInv /\ ClientInv
  BY DEF StackInv, Typed
<1>2. /\ pst \in [Conns -> {"idle", "syn_sent", "est", "fin_wait", "closed"}]
      /\ fd \in [Conns -> Fds \cup {NoFd}]
  BY <1>1 DEF Typed, TypeOK
<1>3. CASE tcbs' = tcbs /\ fd' = fd /\ pst' = pst
  BY <1>3, OneWaitsKept DEF PendingConns, InTable
<1>4. CASE AcceptTakes
  <2>1. AcceptTcb \in Conns /\ InTable(AcceptTcb) /\ fd[AcceptTcb] = NoFd
    BY <1>1, <1>4, AcceptStream DEF AcceptTakes
  <2>2. UNCHANGED <<tcbs, pst>> /\ \A d \in Conns \ {AcceptTcb} : fd'[d] = fd[d]
    BY <1>2, <1>4 DEF AcceptTakes, peerVars
  <2> QED
    BY <2>1, <2>2, OneWaitsKept DEF PendingConns, InTable
<1>5. ASSUME NEW c \in Conns, HandleListen(c) PROVE OneWaits'
  <2>1. CASE "SYN" \in Head(inp[c]).flags
    <3>1. inp[c] # <<>> /\ ~InTable(c) /\ tcbs' = <<c>> \o tcbs /\ fd' = fd /\ pst' = pst
      BY <1>5, <2>1 DEF HandleListen, Arrives, peerVars
    <3>2. pst[c] = "syn_sent"
      BY <1>1, <2>1, <3>1, SynFromWaiting
    <3>3. \A d \in Conns : InTable(d)' <=> d = c \/ InTable(d)
      BY <1>1, <3>1, TableGrows
    <3> QED
      BY <3>1, <3>2, <3>3, OneWaitsKept DEF PendingConns
  <2>2. CASE "SYN" \notin Head(inp[c]).flags
    BY <1>3, <1>5, <2>2 DEF HandleListen, peerVars
  <2> QED
    BY <2>1, <2>2
<1>6. ASSUME NEW c \in Conns, HandleLastAck(c) PROVE OneWaits'
  <2>1. /\ InTable(c) /\ tcbs' = RemoveAt(tcbs, PlaceOf(c)) /\ pst' = pst
        /\ \A d \in Conns \ {c} : fd'[d] = fd[d]
    BY <1>2, <1>6 DEF HandleLastAck, peerVars
  <2>2. Connected(c)
    BY <1>1, <1>6, ClientLastAck
  <2>3. \A d \in Conns : InTable(d)' <=> d # c /\ InTable(d)
    BY <1>1, <2>1, TableShrinks
  <2> QED
    BY <2>1, <2>2, <2>3, OneWaitsKept DEF PendingConns, Connected
<1>7. ASSUME NEW c \in Conns, PeerStep(c) PROVE OneWaits'
  <2>1. PICK v : /\ pst' = [pst EXCEPT ![c] = v]
                 /\ v \in {pst[c], "est", "fin_wait", "closed"}
    BY <1>2, <1>7 DEF PeerStep, PeerSends, PeerCloses, PeerReceives
  <2>2. UNCHANGED <<tcbs, fd>>
    BY <1>7 DEF PeerStep, PeerSends, PeerCloses, PeerReceives, streamVars
  <2>3. \A d \in Conns : pst'[d] = "syn_sent" => pst[d] = "syn_sent"
    BY <1>2, <2>1
  <2> QED
    BY <2>2, <2>3, OneWaitsKept DEF PendingConns, InTable
<1>8. ASSUME NEW c \in Conns, PeerConnects(c) PROVE OneWaits'
  <2>1. UNCHANGED <<tcbs, fd>> /\ pst' = [pst EXCEPT ![c] = "syn_sent"]
    BY <1>8 DEF PeerConnects, streamVars
  <2>2. CASE pst[c] = "syn_sent"
    <3>1. pst' = pst
      BY <1>2, <2>1, <2>2
    <3> QED
      BY <1>3, <2>1, <3>1
  <2>3. CASE pst[c] # "syn_sent"
    <3>1. Cardinality(PendingConns) < 1
      BY <1>8, <2>3 DEF PeerConnects
    <3>2. IsFiniteSet(PendingConns)
      <4>1. PendingConns \subseteq Conns
        BY DEF PendingConns
      <4> QED
        BY <4>1, TcpAssumption, FS_Subset
    <3>3. Cardinality(PendingConns) \in Nat
      BY <3>2, FS_CardinalityType
    <3>4. Cardinality(PendingConns) = 0
      BY <3>1, <3>3
    <3>5. PendingConns = {}
      BY <3>2, <3>4, FS_EmptySet
    <3>6. \A d \in Conns : d \in PendingConns' => d = c
      BY <1>2, <2>1, <3>5 DEF PendingConns, InTable
    <3> QED
      BY <3>6 DEF OneWaits, PendingConns
  <2> QED
    BY <2>2, <2>3
<1>9. CASE \/ ServerSocket \/ ServerListens \/ CloseReleases \/ AcceptWaits \/ RecvCall \/ RecvWaits
           \/ SpuriousWakeup \/ SignalAccept \/ SignalData \/ UNCHANGED vars
           \/ \E c \in Conns : NoListener(c) \/ HandleEstablished(c) \/ HandleCloseWait(c)
  BY <1>3, <1>9 DEF ServerSocket, ServerListens, CloseReleases, AcceptWaits, RecvCall, RecvWaits, SpuriousWakeup,
         SignalAccept, SignalData, vars, NoListener, HandleEstablished, HandleCloseWait,
         streamVars, peerVars
<1>10. CASE \/ RecvTakes \/ SendEcho \/ CloseSends \/ CloseMarks \/ EnqueuePayload \/ EnqueueEnd \/ SendAck
            \/ \E c \in Conns : HandleSynRcvd(c) \/ TcpOut(c)
  BY <1>3, <1>10 DEF RecvTakes, SendEcho, CloseSends, CloseMarks, EnqueuePayload, EnqueueEnd, SendAck,
         HandleSynRcvd, TcpOut, peerVars
<1> QED
  BY <1>4, <1>5, <1>6, <1>7, <1>8, <1>9, <1>10, Steps DEF QuietStep, StreamStep

(* With one client waiting at a time the descriptor finds the open stream. *)
LEMMA FindsOpen ==
    ASSUME Typed, FdInv, Serving, Ordered(tcbs, status, fd)
    PROVE  StreamOfFd(connfd) \in OpenStreams
<1> DEFINE s == StreamOfFd(connfd)
<1>1. s \in Conns /\ First(tcbs, fd, connfd, s)
  BY ServingStream
<1>2. PICK i \in DOMAIN tcbs : /\ tcbs[i] = s /\ fd[s] = connfd
                              /\ \A j \in DOMAIN tcbs : fd[tcbs[j]] = connfd => i <= j
  BY <1>1 DEF First
<1>3. PICK o \in Conns : OpenStreams = {o} /\ fd[o] = connfd
  BY DEF FdInv
<1>4. PICK k \in DOMAIN tcbs : tcbs[k] = o
  BY <1>3 DEF OpenStreams, InTable
<1>5. i <= k
  BY <1>2, <1>3, <1>4
<1>6. i \in Nat /\ k \in Nat
  <2>1. tcbs \in Seq(Conns)
    BY DEF Typed, WireInv
  <2> QED
    BY <2>1
<1> HIDE DEF s
<1>7. status[o] # "LAST_ACK" /\ fd[o] # NoFd
  BY <1>3 DEF OpenStreams
<1>8. CASE i = k
  BY <1>2, <1>3, <1>4, <1>8 DEF s
<1>9. CASE i < k
  <2>1. status[s] # "LAST_ACK"
    BY <1>2, <1>4, <1>7, <1>9 DEF Ordered
  <2>2. InTable(s)
    BY <1>2 DEF InTable
  <2>3. s \in OpenStreams
    BY <1>1, <1>2, <1>3, <1>7, <2>1, <2>2 DEF OpenStreams
  <2> QED
    BY <2>3 DEF s
<1> QED
  BY <1>5, <1>6, <1>8, <1>9

(* A new stream in front keeps the table in order. *)
LEMMA OrderedGrows ==
    ASSUME NEW t \in Seq(Conns), NEW c \in Conns, NEW st, NEW st1, NEW g,
           Ordered(t, st, g), g[c] = NoFd, st1[c] # "LAST_ACK",
           \A i \in DOMAIN t : st1[t[i]] = st[t[i]]
    PROVE  Ordered(<<c>> \o t, st1, g)
<1> DEFINE u == <<c>> \o t
<1>1. /\ u \in Seq(Conns) /\ u[1] = c
      /\ \A i \in DOMAIN u : i = 1 \/ (i - 1 \in DOMAIN t /\ u[i] = t[i - 1])
  BY ConsProperties
<1> HIDE DEF u
<1>2. DOMAIN u \subseteq Nat \ {0}
  BY <1>1
<1>3. ASSUME NEW i \in DOMAIN u, NEW j \in DOMAIN u, i < j
      PROVE  /\ st1[u[i]] = "LAST_ACK" => st1[u[j]] = "LAST_ACK"
             /\ g[u[i]] # NoFd => g[u[j]] # NoFd
  <2>1. CASE i = 1
    BY <1>1, <2>1
  <2>2. CASE i # 1
    <3>1. j # 1 /\ i - 1 < j - 1
      BY <1>2, <1>3, <2>2
    <3>2. i - 1 \in DOMAIN t /\ u[i] = t[i - 1] /\ j - 1 \in DOMAIN t /\ u[j] = t[j - 1]
      BY <1>1, <2>2, <3>1
    <3> QED
      BY <3>1, <3>2 DEF Ordered
  <2> QED
    BY <2>1, <2>2
<1>4. Ordered(u, st1, g)
  BY <1>3 DEF Ordered
<1> QED
  BY <1>4 DEF u

(* A table without one of its streams is still in order. *)
LEMMA OrderedShrinks ==
    ASSUME NEW t \in Seq(Conns), NEW k \in DOMAIN t, NEW st, NEW st1, NEW g, NEW g1,
           Ordered(t, st, g), IsInjective(t),
           \A i \in DOMAIN t : t[i] # t[k] => st1[t[i]] = st[t[i]] /\ g1[t[i]] = g[t[i]]
    PROVE  Ordered(RemoveAt(t, k), st1, g1)
<1> DEFINE u == RemoveAt(t, k)
           old(i) == IF i < k THEN i ELSE i + 1
<1>1. /\ u \in Seq(Conns)
      /\ \A i \in DOMAIN u : IF i < k THEN i \in DOMAIN t /\ u[i] = t[i]
                                      ELSE i + 1 \in DOMAIN t /\ u[i] = t[i + 1]
  BY RemoveProperties
<1>2. DOMAIN t \subseteq Nat /\ k \in Nat
  OBVIOUS
<1> HIDE DEF u
<1>3. DOMAIN u \subseteq Nat
  BY <1>1
<1>4. \A i \in DOMAIN u : old(i) \in DOMAIN t /\ u[i] = t[old(i)] /\ old(i) # k
  BY <1>1, <1>2, <1>3
<1>5. \A i, j \in DOMAIN u : i < j => old(i) < old(j)
  BY <1>2, <1>3
<1> HIDE DEF old
<1>6. \A i \in DOMAIN u : st1[u[i]] = st[t[old(i)]] /\ g1[u[i]] = g[t[old(i)]]
  BY <1>4 DEF IsInjective
<1>7. ASSUME NEW i \in DOMAIN u, NEW j \in DOMAIN u, i < j
      PROVE  /\ st1[u[i]] = "LAST_ACK" => st1[u[j]] = "LAST_ACK"
             /\ g1[u[i]] # NoFd => g1[u[j]] # NoFd
  <2>1. old(i) < old(j)
    BY <1>5, <1>7
  <2> QED
    BY <1>4, <1>6, <2>1 DEF Ordered
<1>8. Ordered(u, st1, g1)
  BY <1>7 DEF Ordered
<1> QED
  BY <1>8 DEF u

(* Closing streams stay behind the open one in the table. *)
LEMMA OrderedNext ==
    ASSUME StackInv, [Next]_vars, OneWaits, Ordered(tcbs, status, fd)
    PROVE  Ordered(tcbs', status', fd')
<1>1. Typed /\ TableInv /\ FdInv /\ StageInv /\ CloseInv
  BY DEF StackInv, Typed, EndInv
<1>2. /\ status \in [Conns -> {"CLOSED", "SYN_RCVD", "ESTABLISHED", "CLOSE_WAIT", "LAST_ACK"}]
      /\ fd \in [Conns -> Fds \cup {NoFd}] /\ tcbs \in Seq(Conns) /\ IsInjective(tcbs)
  BY <1>1 DEF Typed, TypeOK, WireInv
<1>3. NoFd \notin Fds
  BY TcpAssumption DEF NoFd
<1>4. \A i \in DOMAIN tcbs : tcbs[i] \in Conns /\ InTable(tcbs[i]) /\ i \in Nat
  BY <1>2 DEF InTable
<1>5. ASSUME UNCHANGED <<tcbs, fd>>,
             \A c \in Conns : status'[c] = "LAST_ACK" <=> status[c] = "LAST_ACK"
      PROVE  Ordered(tcbs', status', fd')
  BY <1>4, <1>5 DEF Ordered
<1>6. CASE AcceptTakes
  <2> DEFINE t == AcceptTcb
             f == LowestFreeFd
  <2>1. t \in Conns /\ InTable(t) /\ fd[t] = NoFd
    BY <1>1, <1>6, AcceptStream DEF AcceptTakes
  <2>2. UNCHANGED <<tcbs, status>> /\ fd' = [fd EXCEPT ![t] = f]
    BY <1>6 DEF AcceptTakes
  <2>3. f \in Fds
    <3>1. fdTable \subseteq {listener.fd}
      BY <1>1, <1>6 DEF AcceptTakes, FdInv, Serving
    <3> QED
      BY <3>1, FreeDescriptor
  <2> HIDE DEF t, f
  <2>4. ASSUME NEW c \in Conns, InTable(c) PROVE fd'[c] # NoFd
    <3>1. CASE fd[c] = NoFd
      <4>1. c = t
        BY <2>1, <2>4, <3>1 DEF OneWaits, PendingConns
      <4> QED
        BY <1>2, <1>3, <2>1, <2>2, <2>3, <4>1
    <3>2. CASE fd[c] # NoFd
      <4>1. c # t
        BY <2>1, <3>2
      <4> QED
        BY <1>2, <2>2, <3>2, <4>1
    <3> QED
      BY <3>1, <3>2
  <2> QED
    BY <1>4, <2>2, <2>4 DEF Ordered
<1>7. CASE CloseMarks
  <2> DEFINE s == StreamOfFd(connfd)
  <2>1. s \in Conns /\ status' = [status EXCEPT ![s] = "LAST_ACK"] /\ UNCHANGED <<tcbs, fd>>
    BY <1>1, <1>7 DEF CloseMarks, CloseInv
  <2>2. s \in OpenStreams /\ \A c \in OpenStreams : c = s
    <3>1. Serving
      BY <1>7 DEF CloseMarks, Serving
    <3>2. s \in OpenStreams
      BY <1>1, <3>1, FindsOpen
    <3> QED
      BY <1>1, <3>1, <3>2 DEF FdInv
  <2> HIDE DEF s
  <2>3. status'[s] = "LAST_ACK" /\ \A c \in Conns \ {s} : status'[c] = status[c]
    BY <1>2, <2>1
  <2>4. ASSUME NEW i \in DOMAIN tcbs, NEW j \in DOMAIN tcbs, i < j, status'[tcbs[i]] = "LAST_ACK"
        PROVE  status'[tcbs[j]] = "LAST_ACK"
    <3>1. CASE tcbs[j] = s
      BY <2>3, <3>1
    <3>2. CASE tcbs[j] # s /\ tcbs[i] = s
      <4>1. fd[s] # NoFd
        BY <2>2 DEF OpenStreams
      <4>2. fd[tcbs[j]] # NoFd
        BY <2>4, <3>2, <4>1 DEF Ordered
      <4>3. tcbs[j] \notin OpenStreams
        BY <2>2, <3>2
      <4>4. status[tcbs[j]] = "LAST_ACK"
        BY <1>4, <4>2, <4>3 DEF OpenStreams
      <4> QED
        BY <1>4, <2>3, <3>2, <4>4
    <3>3. CASE tcbs[j] # s /\ tcbs[i] # s
      <4>1. status[tcbs[i]] = "LAST_ACK"
        BY <1>4, <2>3, <2>4, <3>3
      <4>2. status[tcbs[j]] = "LAST_ACK"
        BY <2>4, <4>1 DEF Ordered
      <4> QED
        BY <1>4, <2>3, <3>3, <4>2
    <3> QED
      BY <3>1, <3>2, <3>3
  <2> QED
    BY <2>1, <2>4 DEF Ordered
<1>8. CASE EnqueueEnd
  <2>1. /\ UNCHANGED <<tcbs, fd>> /\ cur \in Conns /\ status[cur] = "ESTABLISHED"
        /\ status' = [status EXCEPT ![cur] = "CLOSE_WAIT"]
    BY <1>1, <1>8 DEF EnqueueEnd, StageInv
  <2> QED
    BY <1>2, <1>5, <2>1
<1>9. ASSUME NEW d \in Conns, HandleSynRcvd(d) PROVE Ordered(tcbs', status', fd')
  <2>1. /\ UNCHANGED <<tcbs, fd>> /\ status[d] = "SYN_RCVD"
        /\ status' = status \/ status' = [status EXCEPT ![d] = "ESTABLISHED"]
    BY <1>9 DEF HandleSynRcvd
  <2> QED
    BY <1>2, <1>5, <2>1
<1>10. ASSUME NEW d \in Conns, HandleListen(d) PROVE Ordered(tcbs', status', fd')
  <2>1. CASE "SYN" \in Head(inp[d]).flags
    <3>1. /\ ~InTable(d) /\ tcbs' = <<d>> \o tcbs /\ fd' = fd
          /\ status' = [status EXCEPT ![d] = "SYN_RCVD"]
      BY <1>10, <2>1 DEF HandleListen
    <3>2. fd[d] = NoFd /\ status'[d] # "LAST_ACK" /\ \A c \in Conns \ {d} : status'[c] = status[c]
      BY <1>1, <1>2, <3>1 DEF TableInv
    <3>3. \A i \in DOMAIN tcbs : status'[tcbs[i]] = status[tcbs[i]]
      BY <1>4, <3>1, <3>2
    <3>4. Ordered(<<d>> \o tcbs, status', fd)
      BY <1>2, <3>2, <3>3, OrderedGrows
    <3> QED
      BY <3>1, <3>4
  <2>2. CASE "SYN" \notin Head(inp[d]).flags
    BY <1>5, <1>10, <2>2 DEF HandleListen
  <2> QED
    BY <2>1, <2>2
<1>11. ASSUME NEW d \in Conns, HandleLastAck(d) PROVE Ordered(tcbs', status', fd')
  <2> DEFINE k == PlaceOf(d)
  <2>1. /\ InTable(d) /\ tcbs' = RemoveAt(tcbs, k)
        /\ status' = [status EXCEPT ![d] = "CLOSED"] /\ fd' = [fd EXCEPT ![d] = NoFd]
    BY <1>11 DEF HandleLastAck
  <2>2. k \in DOMAIN tcbs /\ tcbs[k] = d
    BY <2>1, PlaceInTable
  <2> HIDE DEF k
  <2>3. \A c \in Conns \ {d} : status'[c] = status[c] /\ fd'[c] = fd[c]
    BY <1>2, <2>1
  <2>4. \A i \in DOMAIN tcbs : tcbs[i] # tcbs[k] =>
           status'[tcbs[i]] = status[tcbs[i]] /\ fd'[tcbs[i]] = fd[tcbs[i]]
    BY <1>4, <2>2, <2>3
  <2>5. Ordered(RemoveAt(tcbs, k), status', fd')
    BY <1>2, <2>2, <2>4, OrderedShrinks
  <2> QED
    BY <2>1, <2>5
<1>12. ASSUME \/ QuietStep \/ RecvTakes \/ SendEcho \/ CloseSends \/ EnqueuePayload \/ SendAck
              \/ \E c \in Conns : TcpOut(c)
       PROVE  Ordered(tcbs', status', fd')
  BY <1>5, <1>12, QuietStreams
     DEF streamVars, RecvTakes, SendEcho, CloseSends, EnqueuePayload, SendAck, TcpOut
<1> QED
  BY <1>6, <1>7, <1>8, <1>9, <1>10, <1>11, <1>12, Steps DEF StreamStep

(* The stream nrecv works on stays the open one. *)
LEMMA RecvOpenNext ==
    ASSUME StackInv, [Next]_vars, RecvOpen, Ordered(tcbs, status, fd)
    PROVE  RecvOpen'
<1> SUFFICES ASSUME pcS' \in {"dequeue", "recvWait"}
             PROVE  status'[ptr'] \notin {"LAST_ACK", "CLOSED"}
  BY DEF RecvOpen
<1>1. Typed /\ TableInv /\ FdInv /\ StageInv /\ PtrInv
  BY DEF StackInv, Typed, EndInv
<1>2. status \in [Conns -> {"CLOSED", "SYN_RCVD", "ESTABLISHED", "CLOSE_WAIT", "LAST_ACK"}]
  BY <1>1 DEF Typed, TypeOK
<1>3. CASE RecvCall
  <2>1. Serving /\ ptr' = StreamOfFd(connfd) /\ status' = status
    BY <1>3 DEF RecvCall, Serving, streamVars
  <2>2. StreamOfFd(connfd) \in OpenStreams
    BY <1>1, <2>1, FindsOpen
  <2> QED
    BY <1>1, <2>1, <2>2 DEF OpenStreams, TableInv
<1>4. CASE ~RecvCall
  <2>1. pcS \in {"dequeue", "recvWait"} /\ ptr' = ptr
    BY <1>4, RecvPlace
  <2>2. ptr \in Conns /\ status[ptr] \notin {"LAST_ACK", "CLOSED"}
    BY <1>1, <2>1 DEF PtrInv, RecvOpen
  <2>3. CASE status' = status
    BY <2>1, <2>2, <2>3
  <2>4. CASE EnqueueEnd
    <3>1. cur \in Conns /\ status' = [status EXCEPT ![cur] = "CLOSE_WAIT"]
      BY <1>1, <2>4 DEF EnqueueEnd, StageInv
    <3> QED
      BY <1>2, <2>1, <2>2, <3>1
  <2>5. ASSUME NEW d \in Conns, HandleListen(d) \/ HandleSynRcvd(d)
        PROVE  status'[ptr'] \notin {"LAST_ACK", "CLOSED"}
    <3>1. \/ status' = status \/ status' = [status EXCEPT ![d] = "SYN_RCVD"]
          \/ status' = [status EXCEPT ![d] = "ESTABLISHED"]
      BY <2>5 DEF HandleListen, HandleSynRcvd
    <3> QED
      BY <1>2, <2>1, <2>2, <3>1
  <2>6. ASSUME NEW d \in Conns, HandleLastAck(d)
        PROVE  status'[ptr'] \notin {"LAST_ACK", "CLOSED"}
    <3>1. status[d] = "LAST_ACK" /\ status' = [status EXCEPT ![d] = "CLOSED"]
      BY <2>6 DEF HandleLastAck, FreedByAck
    <3> QED
      BY <1>2, <2>1, <2>2, <3>1
  <2>7. ~CloseSends /\ ~CloseMarks
    BY <2>1 DEF CloseSends, CloseMarks
  <2>8. CASE \/ QuietStep \/ AcceptTakes \/ RecvTakes \/ SendEcho \/ EnqueuePayload \/ SendAck
             \/ \E c \in Conns : TcpOut(c)
    BY <2>3, <2>8, QuietStreams
       DEF streamVars, AcceptTakes, RecvTakes, SendEcho, EnqueuePayload, SendAck, TcpOut
  <2> QED
    BY <2>4, <2>5, <2>6, <2>7, <2>8, Steps DEF StreamStep
<1> QED
  BY <1>3, <1>4

(* Every step keeps the order of the table. *)
LEMMA OrderNext == StackInv /\ [Next]_vars => OrderInv'
<1> SUFFICES ASSUME StackInv, [Next]_vars, traffic'.backlog = 1
             PROVE  OneWaits' /\ Ordered(tcbs', status', fd') /\ RecvOpen'
  BY OrderParts
<1>1. traffic.backlog = 1
  BY TrafficKept
<1>2. OneWaits /\ Ordered(tcbs, status, fd) /\ RecvOpen
  BY <1>1, OrderParts DEF StackInv
<1> QED
  BY <1>1, <1>2, OneWaitsNext, OrderedNext, RecvOpenNext

-----------------------------------------------------------------------------
(* Signals.                                                                *)

(* The echo server is waiting only if it was, or has just tested in vain. *)
LEMMA WaitPlace ==
    ASSUME [Next]_vars
    PROVE  /\ pcS' = "acceptWait" => AcceptWaits \/ pcS = "acceptWait"
           /\ pcS' = "recvWait" => RecvWaits \/ pcS = "recvWait"
<1>1. CASE \/ ServerSocket \/ ServerListens \/ CloseReleases \/ AcceptWaits \/ RecvCall \/ RecvWaits
           \/ SpuriousWakeup \/ SignalAccept \/ SignalData \/ UNCHANGED vars
  BY <1>1 DEF ServerSocket, ServerListens, CloseReleases, AcceptWaits, RecvCall, RecvWaits, SpuriousWakeup,
              SignalAccept, SignalData, AfterAcceptSignal, AfterDataSignal, vars, appVars
<1>2. CASE \E c \in Conns : \/ NoListener(c) \/ HandleEstablished(c) \/ HandleCloseWait(c)
                            \/ PeerConnects(c) \/ PeerStep(c)
  BY <1>2 DEF NoListener, HandleEstablished, HandleCloseWait, PeerConnects, PeerStep, PeerSends,
              PeerCloses, PeerReceives, appVars
<1>3. CASE StreamStep
  BY <1>3 DEF StreamStep, AcceptTakes, RecvTakes, SendEcho, CloseSends, CloseMarks, EnqueuePayload, EnqueueEnd,
              SendAck, HandleListen, HandleSynRcvd, HandleLastAck, TcpOut, appVars
<1> QED
  BY <1>1, <1>2, <1>3, Steps DEF QuietStep

(* naccept looks through the whole table before it waits. *)
LEMMA AcceptLooked ==
    ASSUME Typed, TableInv, AcceptTcb = NoConn, NEW c \in Conns, status[c] = "ESTABLISHED"
    PROVE  fd[c] # NoFd
<1>1. InTable(c) /\ tcbs \in Seq(Conns)
  BY DEF TableInv, Typed, WireInv
<1>2. \A i \in DOMAIN tcbs : fd[tcbs[i]] # NoFd
  BY <1>1, StreamFound, FoundIsFirst DEF AcceptTcb
<1> QED
  BY <1>1, <1>2 DEF InTable

(* No step loses the signal naccept waits for. *)
LEMMA AcceptSignalNext == StackInv /\ [Next]_vars => NoLostAccept'
<1> SUFFICES ASSUME StackInv, [Next]_vars, pcS' = "acceptWait", NEW c \in Conns,
                    status'[c] = "ESTABLISHED", fd'[c] = NoFd
             PROVE  pcP' = "signalAccept"
  BY DEF NoLostAccept
<1>1. Typed /\ TableInv /\ FdInv /\ StageInv /\ NoLostAccept
  BY DEF StackInv, Typed, EndInv, NoLostSignal
<1>2. /\ status \in [Conns -> {"CLOSED", "SYN_RCVD", "ESTABLISHED", "CLOSE_WAIT", "LAST_ACK"}]
      /\ fd \in [Conns -> Fds \cup {NoFd}]
  BY <1>1 DEF Typed, TypeOK
<1>3. CASE AcceptWaits
  <2>1. AcceptTcb = NoConn /\ status' = status /\ fd' = fd
    BY <1>3 DEF AcceptWaits, streamVars
  <2> QED
    BY <1>1, <2>1, AcceptLooked
<1>4. CASE ~AcceptWaits
  <2>1. pcS = "acceptWait"
    BY <1>4, WaitPlace
  <2>2. ASSUME status[c] = "ESTABLISHED", fd[c] = NoFd, pcP' = pcP PROVE pcP' = "signalAccept"
    BY <1>1, <2>1, <2>2 DEF NoLostAccept
  <2>3. ASSUME status[c] = "ESTABLISHED", fd[c] = NoFd PROVE pcP = "signalAccept"
    BY <1>1, <2>1, <2>3 DEF NoLostAccept
  <2>4. ~SignalAccept
    BY <2>1 DEF SignalAccept, AfterAcceptSignal
  <2>5. /\ ~AcceptTakes /\ ~RecvTakes /\ ~SendEcho
        /\ ~CloseSends /\ ~CloseMarks /\ ~CloseReleases
    BY <2>1 DEF AcceptTakes, RecvTakes, SendEcho, CloseSends, CloseMarks, CloseReleases
  <2>6. CASE \/ ServerSocket \/ ServerListens \/ RecvCall \/ RecvWaits
             \/ SpuriousWakeup \/ UNCHANGED vars
             \/ \E d \in Conns : \/ NoListener(d) \/ HandleCloseWait(d) \/ PeerConnects(d)
                                 \/ PeerStep(d) \/ TcpOut(d)
    <3>1. UNCHANGED <<status, fd, pcP>>
      BY <2>6 DEF ServerSocket, ServerListens, RecvCall, RecvWaits, SpuriousWakeup, vars,
                  NoListener, HandleCloseWait, PeerConnects, PeerStep, PeerSends, PeerCloses,
                  PeerReceives, TcpOut, streamVars, pktVars
    <3> QED
      BY <2>2, <3>1
  <2>7. CASE EnqueuePayload \/ SignalData \/ SendAck \/ \E d \in Conns : HandleEstablished(d)
    <3>1. pcP # "signalAccept" /\ UNCHANGED <<status, fd>>
      BY <2>7 DEF EnqueuePayload, SignalData, SendAck, HandleEstablished, Arrives, streamVars
    <3> QED
      BY <2>3, <3>1
  <2>8. CASE EnqueueEnd
    <3>1. /\ pcP # "signalAccept" /\ fd' = fd /\ cur \in Conns
          /\ status' = [status EXCEPT ![cur] = "CLOSE_WAIT"]
      BY <1>1, <2>8 DEF EnqueueEnd, StageInv
    <3>2. status[c] = "ESTABLISHED"
      BY <1>2, <3>1
    <3> QED
      BY <2>3, <3>1, <3>2
  <2>9. ASSUME NEW d \in Conns, HandleListen(d) \/ HandleLastAck(d) PROVE pcP' = "signalAccept"
    <3>1. /\ pcP = "idle"
          /\ \/ status' = status /\ fd' = fd
             \/ status' = [status EXCEPT ![d] = "SYN_RCVD"] /\ fd' = fd
             \/ status' = [status EXCEPT ![d] = "CLOSED"] /\ fd' = [fd EXCEPT ![d] = NoFd]
      BY <2>9 DEF HandleListen, HandleLastAck, Arrives
    <3>2. status[c] = "ESTABLISHED" /\ fd[c] = NoFd
      BY <1>2, <3>1
    <3> QED
      BY <2>3, <3>1, <3>2
  <2>10. ASSUME NEW d \in Conns, HandleSynRcvd(d) PROVE pcP' = "signalAccept"
    <3>1. pcP = "idle" /\ fd' = fd /\ (pcP' = "signalAccept" \/ status' = status)
      BY <2>10 DEF HandleSynRcvd, Arrives
    <3> QED
      BY <2>3, <3>1
  <2> QED
    BY <1>4, <2>4, <2>5, <2>6, <2>7, <2>8, <2>9, <2>10, Steps DEF QuietStep, StreamStep
<1> QED
  BY <1>3, <1>4

(* No step loses the signal nrecv waits for. *)
LEMMA DataSignalNext == StackInv /\ [Next]_vars => NoLostData'
<1> SUFFICES ASSUME StackInv, [Next]_vars, pcS' = "recvWait", rcvbuf'[ptr'] # <<>>
             PROVE  cur' = ptr' /\ pcP' \in {"pshSignal", "finSignal"}
  BY DEF NoLostData
<1>1. Typed /\ PtrInv /\ StageInv /\ NoLostData
  BY DEF StackInv, Typed, EndInv, NoLostSignal
<1>2. rcvbuf \in [Conns -> Seq(Data)]
  BY <1>1 DEF Typed, WireInv
<1>3. ~RecvWaits
  BY DEF RecvWaits, streamVars
<1>4. ~RecvCall
  BY DEF RecvCall
<1>5. pcS = "recvWait" /\ ptr' = ptr
  BY <1>3, <1>4, WaitPlace, RecvPlace
<1>6. ptr \in Conns
  BY <1>1, <1>5 DEF PtrInv
<1>7. rcvbuf[ptr] # <<>> => cur = ptr /\ pcP \in {"pshSignal", "finSignal"}
  BY <1>1, <1>5 DEF NoLostData
<1>8. ~ServerSocket /\ ~ServerListens /\ ~AcceptWaits /\ ~AcceptTakes /\ ~RecvTakes
      /\ ~SendEcho /\ ~CloseSends /\ ~CloseMarks /\ ~CloseReleases /\ ~SpuriousWakeup
  BY <1>5 DEF ServerSocket, ServerListens, AcceptWaits, AcceptTakes, RecvTakes, SendEcho,
              CloseSends, CloseMarks, CloseReleases, SpuriousWakeup
<1>9. CASE \/ UNCHANGED vars
           \/ \E d \in Conns : PeerConnects(d) \/ PeerStep(d)
  <2>1. UNCHANGED <<rcvbuf, cur, pcP>>
    BY <1>9 DEF vars, PeerConnects, PeerStep, PeerSends, PeerCloses, PeerReceives, streamVars,
                pktVars
  <2> QED
    BY <1>5, <1>7, <2>1
<1>10. CASE EnqueuePayload \/ EnqueueEnd
  <2>1. PICK x : rcvbuf' = [rcvbuf EXCEPT ![cur] = x]
    BY <1>10 DEF EnqueuePayload, EnqueueEnd
  <2>2. cur' = cur /\ pcP \in {"psh", "fin"} /\ pcP' \in {"pshSignal", "finSignal"}
    BY <1>10 DEF EnqueuePayload, EnqueueEnd
  <2>3. rcvbuf[ptr] = <<>>
    BY <1>7, <2>2
  <2>4. cur = ptr
    BY <1>2, <1>5, <1>6, <2>1, <2>3
  <2> QED
    BY <1>5, <2>2, <2>4
<1>11. CASE SignalData
  <2>1. ptr # cur /\ rcvbuf' = rcvbuf
    BY <1>5, <1>11 DEF SignalData, AfterDataSignal, streamVars
  <2> QED
    BY <1>5, <1>7, <2>1
<1>12. CASE \/ SignalAccept \/ SendAck
            \/ \E d \in Conns : \/ NoListener(d) \/ HandleEstablished(d) \/ HandleCloseWait(d)
                                \/ HandleListen(d) \/ HandleSynRcvd(d) \/ TcpOut(d)
  <2>1. rcvbuf' = rcvbuf /\ pcP \notin {"pshSignal", "finSignal"}
    BY <1>12 DEF SignalAccept, SendAck, NoListener, HandleEstablished, HandleCloseWait,
                 HandleListen, HandleSynRcvd, TcpOut, Arrives, streamVars
  <2> QED
    BY <1>5, <1>7, <2>1
<1>13. ASSUME NEW d \in Conns, HandleLastAck(d) PROVE FALSE
  <2>1. pcP = "idle" /\ rcvbuf' = [rcvbuf EXCEPT ![d] = <<>>]
    BY <1>13 DEF HandleLastAck, Arrives
  <2> QED
    BY <1>2, <1>5, <1>6, <1>7, <2>1
<1> QED
  BY <1>3, <1>4, <1>8, <1>9, <1>10, <1>11, <1>12, <1>13, Steps DEF QuietStep, StreamStep

-----------------------------------------------------------------------------
(* The theorems.                                                           *)

(* The initial state has the invariant. *)
LEMMA StackInit == Init => StackInv
<1> SUFFICES ASSUME Init PROVE StackInv
  OBVIOUS
<1>1. TypeOK /\ WireInv
  BY InitTyped DEF Typed
<1>2. \A c \in Conns : ~InTable(c)
  BY DEF Init, InTable
<1>3. TableInv
  BY <1>2 DEF Init, TableInv
<1>4. ClientInv
  BY <1>2 DEF Init, ClientInv, ClientOK
<1>5. \A c \in Conns : Ends(c) = {}
  BY DEF Init, Ends
<1>6. EndInv
  BY <1>5 DEF Init, EndInv, MarkInv, StageInv, CloseInv
<1>7. PtrInv
  BY DEF Init, PtrInv
<1>8. FdInv
  <2>1. OpenStreams = {}
    BY <1>2 DEF OpenStreams
  <2> QED
    BY <2>1 DEF Init, FdInv, Serving
<1>9. OrderInv
  <2>1. PendingConns = {}
    BY <1>2 DEF Init, PendingConns
  <2>2. DOMAIN tcbs = {}
    BY DEF Init
  <2> QED
    BY <2>1, <2>2 DEF Init, OrderInv
<1>10. NoLostSignal
  BY DEF Init, NoLostSignal, NoLostAccept, NoLostData
<1> QED
  BY <1>1, <1>3, <1>4, <1>6, <1>7, <1>8, <1>9, <1>10 DEF StackInv

(* Every step keeps the invariant. *)
LEMMA StackNext == StackInv /\ [Next]_vars => StackInv'
BY TypedNext, TableNext, ClientNext, EndNext, PtrNext, FdNext, OrderNext, AcceptSignalNext,
   DataSignalNext DEF StackInv, Typed, NoLostSignal

(* What the invariant says about the descriptors. *)
LEMMA StackConsistent == StackInv => Consistent
<1> SUFFICES ASSUME StackInv PROVE Consistent
  OBVIOUS
<1>1. Typed /\ TypeOK /\ FdInv /\ PtrInv /\ OrderInv /\ TableInv
  BY DEF StackInv, Typed
<1>2. NoFd \notin Fds
  BY TcpAssumption DEF NoFd
<1>3. FdFindsOpenStream
  <2> DEFINE s == StreamOfFd(connfd)
  <2> SUFFICES ASSUME traffic.backlog = 1, Serving
               PROVE  /\ s # NoConn /\ status[s] # "LAST_ACK"
                      /\ pcS \in {"dequeue", "recvWait", "closeStatus"} => ptr = s
    BY DEF FdFindsOpenStream, Serving
  <2>1. Ordered(tcbs, status, fd) /\ RecvOpen
    BY <1>1, OrderParts
  <2>2. s \in OpenStreams
    BY <1>1, <2>1, FindsOpen
  <2>3. s # NoConn /\ status[s] # "LAST_ACK"
    BY <2>2, TcpAssumption DEF OpenStreams
  <2>4. ASSUME pcS \in {"dequeue", "recvWait"} PROVE ptr = s
    <3>1. ptr \in Conns /\ status[ptr] # "CLOSED"
      BY <1>1, <2>1, <2>4 DEF PtrInv, RecvOpen
    <3>2. InTable(ptr)
      BY <1>1, <3>1 DEF TableInv
    <3> QED
      BY <1>1, <2>4, <3>2 DEF PtrInv
  <2>5. pcS = "closeStatus" => ptr = s
    BY DEF StackInv, EndInv, CloseInv
  <2> QED
    BY <2>3, <2>4, <2>5
<1>4. BitmapMatches
  <2>1. CASE Serving
    <3>1. PICK o \in Conns : OpenStreams = {o} /\ fd[o] = connfd
      BY <1>1, <2>1 DEF FdInv
    <3>2. fdTable = {listener.fd, connfd} /\ listener.fd \in Fds
      BY <1>1, <2>1 DEF FdInv, Serving
    <3>3. {fd[c] : c \in OpenStreams} = {connfd}
      BY <3>1
    <3>4. {listener.fd} \ {NoFd} = {listener.fd}
      BY <1>2, <3>2
    <3>5. pcS # "closeFd"
      BY <2>1 DEF Serving
    <3> QED
      BY <3>1, <3>2, <3>3, <3>4, <3>5 DEF BitmapMatches
  <2>2. CASE ~Serving
    <3>1. OpenStreams = {} /\ {fd[c] : c \in OpenStreams} = {}
      BY <1>1, <2>2 DEF FdInv
    <3>2. CASE pcS = "closeFd"
      <4>1. fdTable = {listener.fd, connfd} /\ listener.fd \in Fds
        BY <1>1, <3>2 DEF FdInv
      <4>2. {listener.fd} \ {NoFd} = {listener.fd}
        BY <1>2, <4>1
      <4> QED
        BY <3>1, <3>2, <4>1, <4>2 DEF BitmapMatches
    <3>3. CASE pcS # "closeFd"
      BY <1>1, <2>2, <3>1, <3>3 DEF FdInv, BitmapMatches
    <3> QED
      BY <3>2, <3>3
  <2> QED
    BY <2>1, <2>2
<1> QED
  BY <1>1, <1>3, <1>4 DEF Consistent

(* The bitmap of descriptors holds exactly the listener's, those of the    *)
(* open streams and the one nclose is about to give back, and, if clients  *)
(* wait for naccept one at a time, nrecv, nsend and nclose all reach the   *)
(* same open stream through the program's descriptor, never a closed one   *)
(* that still carries the number.                                          *)
THEOREM StackConsistency == Spec => []Consistent
<1>1. Spec => []StackInv
  BY StackInit, StackNext, PTL DEF Spec
<1> QED
  BY <1>1, StackConsistent, PTL

(* Neither naccept nor nrecv sleeps through the packet thread's signal,    *)
(* although status and rcvbuf change outside the mutex of the wait.        *)
THEOREM WaitsAreSignalled == Spec => []NoLostSignal
<1>1. Spec => []StackInv
  BY StackInit, StackNext, PTL DEF Spec
<1>2. StackInv => NoLostSignal
  BY DEF StackInv
<1> QED
  BY <1>1, <1>2, PTL

-----------------------------------------------------------------------------
(* The bytes of a stream.                                                  *)

(* The number of the first byte a client has not sent yet, and whether it  *)
(* has closed its side.                                                    *)
EndOf(c) == 1 + pSent[c] * SegLen
Over(c) == pst[c] \in {"fin_wait", "closed"}

(* A packet of a client that sends size bytes at a time: its bytes are     *)
(* numbered from its sequence number on, below end, and a FIN comes with   *)
(* or after the last of them.                                              *)
PacketKinds == {{"SYN"}, {"ACK"}, {"PSH", "ACK"}, {"FIN", "ACK"}, {"PSH", "FIN", "ACK"}}

SegmentOK(p, size, end, over) ==
    /\ p.flags \in PacketKinds
    /\ "SYN" \in p.flags => p.seq = 0
    /\ Len(p.data) = IF "PSH" \in p.flags THEN size ELSE 0
    /\ \A i \in 1 .. Len(p.data) : p.data[i] = p.seq - 1 + i
    /\ p.seq + Len(p.data) <= end
    /\ "FIN" \in p.flags => over /\ p.seq + Len(p.data) = end

(* The packets of q carry the bytes from number a on, up to b. *)
Carries(q, a, b) ==
    /\ q = <<>> => a = b
    /\ q # <<>> => q[1].seq = a /\ q[Len(q)].seq + Len(q[Len(q)].data) = b
    /\ \A i \in 1 .. Len(q) - 1 : q[i + 1].seq = q[i].seq + Len(q[i].data)

(* The place of the packet thread, if it works on this stream. *)
Stage(c) == IF cur = c /\ pcP \notin {"idle", "signalAccept"} THEN pcP ELSE "none"

(* The SYN/ACK is on its way at most once and before everything else. *)
SynOnce(c) ==
    /\ \A i \in DOMAIN out[c] : "SYN" \in out[c][i].flags => pst[c] = "syn_sent" /\ i = 1
    /\ \A i \in DOMAIN sndbuf[c] :
          "SYN" \in sndbuf[c][i].flags => pst[c] = "syn_sent" /\ i = 1 /\ out[c] = <<>>

(* A client that is not connected has sent nothing; the first packet of    *)
(* one that is acknowledges the SYN and has no data.                       *)
Handshake(c) ==
    /\ ~Connected(c) => pSent[c] = 0 /\ got[c] = <<>> /\ rcvbuf[c] = <<>>
    /\ status[c] \notin {"CLOSED", "SYN_RCVD"} => Connected(c)
    /\ status[c] = "SYN_RCVD" /\ Connected(c) => inp[c] # <<>> /\ inp[c][1].flags = {"ACK"}

(* What has arrived and what is still on its way are the bytes sent. *)
Closing(c) == status[c] \in {"CLOSE_WAIT", "LAST_ACK"}

Arriving(c) ==
    /\ \A i \in DOMAIN inp[c] : SegmentOK(inp[c][i], SegLen, EndOf(c), Over(c))
    /\ status[c] \in {"SYN_RCVD", "ESTABLISHED"} =>
          Carries(inp[c], 1 + Len(Held(c)) + (IF Stage(c) = "psh" THEN SegLen ELSE 0), EndOf(c))
    /\ Closing(c) => 1 + Len(Held(c)) = EndOf(c) /\ Over(c)

(* The packet the thread works on. *)
Handled(c) ==
    /\ Stage(c) \in {"psh", "pshSignal", "pshAck", "fin"} => SegmentOK(pkt, SegLen, EndOf(c), Over(c))
    /\ Stage(c) \in {"psh", "pshSignal", "pshAck"} => "PSH" \in pkt.flags
    /\ Stage(c) = "fin" => "FIN" \in pkt.flags
    /\ Stage(c) = "psh" => pkt.seq = 1 + Len(Held(c))
    /\ Stage(c) \in {"pshSignal", "pshAck", "fin"} => pkt.seq + Len(pkt.data) = 1 + Len(Held(c))

(* AckedIsKept for one stream. *)
KeptOK(c) ==
    InTable(c) =>
        /\ ToSet(Held(c)) = 1 .. Len(Held(c))
        /\ rcvNxt[c] = 1 + Len(Held(c)) - NotYetCounted(c) + FinCounted(c)

(* Segments that fit the buffer are never cut: the end mark is the last    *)
(* thing in the rcvbuf, and nothing is left once it was read.              *)
OrderOK(c) ==
    SegLen <= BufferSize =>
        /\ InTable(c) => \A i \in DOMAIN Held(c) : Held(c)[i] = i
        /\ \A i \in DOMAIN rcvbuf[c] : Len(rcvbuf[c][i]) <= SegLen
        /\ \A i \in Ends(c) : i = Len(rcvbuf[c])
        /\ Closing(c) /\ Ends(c) = {} => rcvbuf[c] = <<>>

DataOK(c) == SynOnce(c) /\ Handshake(c) /\ Arriving(c) /\ Handled(c) /\ KeptOK(c) /\ OrderOK(c)

DataInv == got \in [Conns -> Seq(Nat)] /\ \A c \in Conns : DataOK(c)

(* The ring has room for what the packet thread is about to queue. *)
RoomLeft == pcP \in {"psh", "fin"} => Len(rcvbuf[cur]) < RingSize

(* What is known of the bytes of a stream depends on these variables only. *)
SameBytes(d) ==
    /\ InTable(d)' <=> InTable(d)
    /\ status'[d] = status[d] /\ inp'[d] = inp[d] /\ got'[d] = got[d] /\ rcvbuf'[d] = rcvbuf[d]
    /\ rcvNxt'[d] = rcvNxt[d] /\ pst'[d] = pst[d] /\ pSent'[d] = pSent[d] /\ traffic' = traffic
    /\ Stage(d)' = Stage(d) /\ (Stage(d) # "none" => pkt' = pkt)

SameData(d) == SameBytes(d) /\ out'[d] = out[d] /\ sndbuf'[d] = sndbuf[d]

(* What counts as received and acknowledged, by the stage. *)
LEMMA CountedStage ==
    \A c : /\ NotYetCounted(c) = IF Stage(c) \in {"pshSignal", "pshAck"} THEN Len(pkt.data) ELSE 0
           /\ NotYetCounted(c)' = IF Stage(c)' \in {"pshSignal", "pshAck"} THEN Len(pkt'.data) ELSE 0
           /\ FinCounted(c) = IF Closing(c) /\ Stage(c) \notin {"finSignal", "finAck"} THEN 1 ELSE 0
           /\ FinCounted(c)' = IF Closing(c)' /\ Stage(c)' \notin {"finSignal", "finAck"} THEN 1 ELSE 0
BY DEF NotYetCounted, FinCounted, Stage, Closing

(* A stream whose bytes no step touches keeps them. *)
LEMMA BytesSame ==
    ASSUME NEW d, DataOK(d), SameBytes(d)
    PROVE  Handshake(d)' /\ Arriving(d)' /\ Handled(d)' /\ KeptOK(d)' /\ OrderOK(d)'
<1> USE DEF SameBytes
<1>1. /\ Held(d)' = Held(d) /\ EndOf(d)' = EndOf(d) /\ SegLen' = SegLen /\ Over(d)' = Over(d)
      /\ (Closing(d)' <=> Closing(d)) /\ Ends(d)' = Ends(d) /\ (Connected(d)' <=> Connected(d))
  BY DEF Held, EndOf, SegLen, Over, Closing, Ends, Connected
<1>2. NotYetCounted(d)' = NotYetCounted(d) /\ FinCounted(d)' = FinCounted(d)
  BY <1>1, CountedStage
<1>3. Handshake(d)'
  BY <1>1 DEF DataOK, Handshake
<1>4. Arriving(d)'
  BY <1>1 DEF DataOK, Arriving, SegmentOK
<1>5. Handled(d)'
  <2>1. CASE Stage(d) = "none"
    BY <2>1 DEF Handled
  <2>2. CASE Stage(d) # "none"
    BY <1>1, <2>2 DEF Handled, DataOK, SegmentOK
  <2> QED
    BY <2>1, <2>2
<1>6. KeptOK(d)' /\ OrderOK(d)'
  BY <1>1, <1>2 DEF DataOK, KeptOK, OrderOK
<1> QED
  BY <1>3, <1>4, <1>5, <1>6

(* A stream that no step touches stays as it is. *)
LEMMA DataSame ==
    ASSUME NEW d, DataOK(d), SameData(d)
    PROVE  DataOK(d)'
<1>1. SynOnce(d)'
  BY DEF DataOK, SameData, SameBytes, SynOnce
<1> QED
  BY <1>1, BytesSame DEF DataOK, SameData

(* A step that touches one stream. *)
LEMMA DataOne ==
    ASSUME DataInv, got' \in [Conns -> Seq(Nat)], NEW x, DataOK(x)',
           \A d \in Conns \ {x} : SameData(d)
    PROVE  DataInv'
<1>1. \A d \in Conns \ {x} : DataOK(d)'
  BY DataSame DEF DataInv
<1> QED
  BY <1>1 DEF DataInv

(* A packet stays what it is while its client sends on or closes. *)
LEMMA SegmentGrows ==
    ASSUME NEW p \in Packets, NEW size, NEW e1 \in Nat, NEW o1, NEW e2 \in Nat, NEW o2,
           SegmentOK(p, size, e1, o1), e1 <= e2, o1 => o2 /\ e1 = e2
    PROVE  SegmentOK(p, size, e2, o2)
<1>1. p.seq + Len(p.data) \in Nat
  BY DEF Packets, Data
<1> QED
  BY <1>1 DEF SegmentOK

(* The first packet is taken. *)
LEMMA CarriesTaken ==
    ASSUME NEW q \in Seq(Packets), q # <<>>, NEW a, NEW b, Carries(q, a, b)
    PROVE  Head(q).seq = a /\ Carries(Tail(q), a + Len(Head(q).data), b)
<1> DEFINE t == Tail(q)
<1>1. /\ t \in Seq(Packets) /\ Len(t) = Len(q) - 1 /\ Head(q) = q[1] /\ Len(q) \in Nat
      /\ \A i \in DOMAIN t : i + 1 \in DOMAIN q /\ t[i] = q[i + 1]
      /\ DOMAIN t = 1 .. Len(t) /\ Len(q) # 0
  BY TailProperties
<1> HIDE DEF t
<1>2. Head(q).seq = a
  BY <1>1 DEF Carries
<1>3. ASSUME t = <<>> PROVE a + Len(Head(q).data) = b
  <2>1. Len(q) = 1
    BY <1>1, <1>3
  <2> QED
    BY <1>1, <1>2, <2>1 DEF Carries
<1>4. ASSUME t # <<>> PROVE t[1].seq = a + Len(Head(q).data) /\ t[Len(t)].seq + Len(t[Len(t)].data) = b
  <2>1. Len(t) \in Nat \ {0} /\ 1 \in DOMAIN t /\ Len(t) \in DOMAIN t /\ 1 \in 1 .. Len(q) - 1
    BY <1>1, <1>4
  <2>2. t[1] = q[2] /\ t[Len(t)] = q[Len(q)]
    BY <1>1, <2>1
  <2>3. q[1 + 1].seq = q[1].seq + Len(q[1].data)
    BY <2>1 DEF Carries
  <2> QED
    BY <1>1, <2>2, <2>3 DEF Carries
<1>5. ASSUME NEW i \in 1 .. Len(t) - 1 PROVE t[i + 1].seq = t[i].seq + Len(t[i].data)
  <2>1. i \in DOMAIN t /\ i + 1 \in DOMAIN t /\ i + 1 \in 1 .. Len(q) - 1
    BY <1>1
  <2>2. t[i] = q[i + 1] /\ t[i + 1] = q[(i + 1) + 1]
    BY <1>1, <2>1
  <2> QED
    BY <2>1, <2>2 DEF Carries
<1> QED
  BY <1>2, <1>3, <1>4, <1>5 DEF Carries, t

(* The client adds the next packet. *)
LEMMA CarriesAdded ==
    ASSUME NEW q \in Seq(Packets), NEW p \in Packets, NEW a, NEW b, Carries(q, a, b), p.seq = b
    PROVE  Carries(Append(q, p), a, b + Len(p.data))
<1> DEFINE t == Append(q, p)
<1>1. /\ t \in Seq(Packets) /\ Len(t) = Len(q) + 1 /\ Len(q) \in Nat /\ t # <<>>
      /\ \A i \in 1 .. Len(q) : t[i] = q[i]
      /\ t[Len(q) + 1] = p
  BY AppendProperties, LenProperties
<1> HIDE DEF t
<1>2. t[1].seq = a
  <2>1. CASE q = <<>>
    BY <1>1, <2>1 DEF Carries
  <2>2. CASE q # <<>>
    BY <1>1, <2>2 DEF Carries
  <2> QED
    BY <2>1, <2>2
<1>3. t[Len(t)].seq + Len(t[Len(t)].data) = b + Len(p.data)
  BY <1>1
<1>4. ASSUME NEW i \in 1 .. Len(t) - 1 PROVE t[i + 1].seq = t[i].seq + Len(t[i].data)
  <2>1. CASE i < Len(q)
    <3>1. i \in 1 .. Len(q) - 1 /\ t[i] = q[i] /\ t[i + 1] = q[i + 1]
      BY <1>1, <2>1
    <3> QED
      BY <3>1 DEF Carries
  <2>2. CASE i = Len(q)
    <3>1. t[i] = q[Len(q)] /\ t[i + 1] = p /\ q # <<>>
      BY <1>1, <2>2
    <3> QED
      BY <3>1 DEF Carries
  <2> QED
    BY <1>1, <2>1, <2>2
<1> QED
  BY <1>1, <1>2, <1>3, <1>4 DEF Carries, t

(* The bytes of a stream: what was read, then what the rcvbuf holds. *)
Hold(g, r) == Join(g, FlattenSeq(r))

(* Held is Hold, before and after a step. *)
LEMMA HeldIsHold == \A c : Held(c) = Hold(got[c], rcvbuf[c]) /\ Held(c)' = Hold(got'[c], rcvbuf'[c])
BY DEF Held, Hold, Join

(* A concatenation by its elements. *)
LEMMA JoinElements ==
    ASSUME NEW s \in Seq(Nat), NEW t \in Seq(Nat)
    PROVE  /\ Join(s, t) \in Seq(Nat) /\ Len(Join(s, t)) = Len(s) + Len(t)
           /\ Len(s) \in Nat /\ Len(t) \in Nat
           /\ \A i \in 1 .. Len(s) : Join(s, t)[i] = s[i]
           /\ \A i \in 1 .. Len(t) : Join(s, t)[Len(s) + i] = t[i]
           /\ \A i \in 1 .. Len(s) + Len(t) :
                 Join(s, t)[i] = IF i <= Len(s) THEN s[i] ELSE t[i - Len(s)]
           /\ ToSet(Join(s, t)) = ToSet(s) \cup ToSet(t)
<1> DEFINE u == Join(s, t)
           m == Len(s)
           n == Len(t)
<1>1. m \in Nat /\ n \in Nat /\ DOMAIN s = 1 .. m /\ DOMAIN t = 1 .. n
  OBVIOUS
<1>2. /\ u \in Seq(Nat) /\ Len(u) = m + n
      /\ \A i \in 1 .. m + n : u[i] = IF i <= m THEN s[i] ELSE t[i - m]
  BY ConcatProperties DEF Join
<1> HIDE DEF u, m, n
<1>3. \A i \in 1 .. m : u[i] = s[i]
  BY <1>1, <1>2
<1>4. ASSUME NEW i \in 1 .. n PROVE u[m + i] = t[i]
  <2>1. m + i \in 1 .. m + n /\ ~(m + i <= m) /\ (m + i) - m = i
    BY <1>1
  <2> QED
    BY <1>2, <2>1
<1>5. DOMAIN u = 1 .. m + n
  BY <1>2
<1>6. ToSet(u) \subseteq ToSet(s) \cup ToSet(t)
  <2> SUFFICES ASSUME NEW i \in 1 .. m + n PROVE u[i] \in ToSet(s) \cup ToSet(t)
    BY <1>5 DEF ToSet
  <2>1. CASE i <= m
    <3>1. i \in 1 .. m
      BY <1>1, <2>1
    <3> QED
      BY <1>1, <1>3, <3>1 DEF ToSet
  <2>2. CASE ~(i <= m)
    <3>1. i - m \in 1 .. n /\ u[i] = t[i - m]
      BY <1>1, <1>2, <2>2
    <3> QED
      BY <1>1, <3>1 DEF ToSet
  <2> QED
    BY <2>1, <2>2
<1>7. ToSet(s) \subseteq ToSet(u)
  <2> SUFFICES ASSUME NEW i \in 1 .. m PROVE s[i] \in ToSet(u)
    BY <1>1 DEF ToSet
  <2>1. i \in DOMAIN u /\ u[i] = s[i]
    BY <1>1, <1>3, <1>5
  <2> QED
    BY <2>1 DEF ToSet
<1>8. ToSet(t) \subseteq ToSet(u)
  <2> SUFFICES ASSUME NEW i \in 1 .. n PROVE t[i] \in ToSet(u)
    BY <1>1 DEF ToSet
  <2>1. m + i \in DOMAIN u
    BY <1>1, <1>5
  <2> QED
    BY <1>4, <2>1 DEF ToSet
<1>9. ToSet(u) = ToSet(s) \cup ToSet(t)
  BY <1>6, <1>7, <1>8
<1>10. /\ u \in Seq(Nat) /\ Len(u) = m + n /\ m \in Nat /\ n \in Nat
       /\ \A i \in 1 .. m : u[i] = s[i]
       /\ \A i \in 1 .. n : u[m + i] = t[i]
       /\ \A i \in 1 .. m + n : u[i] = IF i <= m THEN s[i] ELSE t[i - m]
  BY <1>1, <1>2, <1>3, <1>4
<1> QED
  BY <1>9, <1>10, Zenon DEF u, m, n

(* Payloads are sequences of bytes, so rings can be flattened. *)
LEMMA RingFlat ==
    ASSUME NEW r \in Seq(Data)
    PROVE  r \in Seq(Seq(Nat)) /\ FlattenSeq(r) \in Seq(Nat)
<1>1. \A i \in 1 .. Len(r) : r[i] \in Seq(Nat)
  BY DEF Data
<1>2. r \in Seq(Seq(Nat))
  BY <1>1, SeqDef, LenProperties
<1>3. Len(r) \in Nat /\ FlattenSeq(r) = Cat(r, Len(r)) /\ \A n \in 0 .. Len(r) : Cat(r, n) \in Seq(Nat)
  BY <1>2, CatDefined
<1>4. Len(r) \in 0 .. Len(r)
  BY <1>3
<1> QED
  BY <1>2, <1>3, <1>4

(* A payload is queued. *)
LEMMA HoldQueued ==
    ASSUME NEW g \in Seq(Nat), NEW r \in Seq(Data), NEW x \in Data
    PROVE  /\ Hold(g, r) \in Seq(Nat)
           /\ Hold(g, Append(r, x)) = Join(Hold(g, r), x)
           /\ Hold(g, <<>>) = g
<1>1. r \in Seq(Seq(Nat)) /\ FlattenSeq(r) \in Seq(Nat) /\ x \in Seq(Nat)
  BY RingFlat DEF Data
<1>2. FlattenSeq(Append(r, x)) = Join(FlattenSeq(r), x)
  BY <1>1, FlattenAppend
<1>3. Join(g, Join(FlattenSeq(r), x)) = Join(Join(g, FlattenSeq(r)), x) /\ Join(g, FlattenSeq(r)) \in Seq(Nat)
  BY <1>1, JoinProperties
<1>4. FlattenSeq(<<>>) = <<>>
  <2>1. <<>> \in Seq(Seq(Nat)) /\ Len(<<>>) = 0
    BY EmptySeq
  <2>2. FlattenSeq(<<>>) = Cat(<<>>, Len(<<>>))
    BY <2>1, CatDefined
  <2> QED
    BY <2>1, <2>2 DEF Cat
<1>5. Join(g, <<>>) = g
  BY JoinProperties
<1> QED
  BY <1>2, <1>3, <1>4, <1>5 DEF Hold

(* A fragment is read as it is. *)
LEMMA HoldTaken ==
    ASSUME NEW g \in Seq(Nat), NEW r \in Seq(Data), r # <<>>
    PROVE  Hold(Join(g, Head(r)), Tail(r)) = Hold(g, r)
<1>1. r \in Seq(Seq(Nat))
  BY RingFlat
<1>2. /\ FlattenSeq(r) = Join(Head(r), FlattenSeq(Tail(r)))
      /\ Head(r) \in Seq(Nat) /\ FlattenSeq(Tail(r)) \in Seq(Nat)
  BY <1>1, FlattenHead
<1>3. Join(g, Join(Head(r), FlattenSeq(Tail(r)))) = Join(Join(g, Head(r)), FlattenSeq(Tail(r)))
  BY <1>2, JoinProperties
<1> QED
  BY <1>2, <1>3 DEF Hold

(* A fragment is cut, and its rest queued again: the same bytes in another *)
(* order.                                                                  *)
LEMMA HoldCut ==
    ASSUME NEW g \in Seq(Nat), NEW r \in Seq(Data), r # <<>>, NEW a \in Data, NEW b \in Data,
           Head(r) = Join(a, b)
    PROVE  /\ Hold(Join(g, a), Append(Tail(r), b)) \in Seq(Nat)
           /\ Len(Hold(Join(g, a), Append(Tail(r), b))) = Len(Hold(g, r))
           /\ ToSet(Hold(Join(g, a), Append(Tail(r), b))) = ToSet(Hold(g, r))
<1> DEFINE t == Tail(r)
           f == FlattenSeq(t)
<1>1. r \in Seq(Seq(Nat)) /\ t \in Seq(Data) /\ a \in Seq(Nat) /\ b \in Seq(Nat)
  BY RingFlat, TailProperties DEF Data
<1>2. FlattenSeq(r) = Join(Join(a, b), f) /\ f \in Seq(Nat)
  BY <1>1, FlattenHead
<1>3. Hold(g, r) = Join(g, Join(Join(a, b), f))
  BY <1>2 DEF Hold
<1>4. Hold(Join(g, a), Append(t, b)) = Join(Join(Join(g, a), f), b)
  <2>1. Join(g, a) \in Seq(Nat)
    BY <1>1, JoinProperties
  <2>2. Hold(Join(g, a), Append(t, b)) = Join(Hold(Join(g, a), t), b)
    BY <1>1, <2>1, HoldQueued
  <2> QED
    BY <2>2 DEF Hold
<1> HIDE DEF t, f
<1>5. /\ Join(a, b) \in Seq(Nat) /\ Len(Join(a, b)) = Len(a) + Len(b)
      /\ ToSet(Join(a, b)) = ToSet(a) \cup ToSet(b) /\ Len(a) \in Nat /\ Len(b) \in Nat
  BY <1>1, JoinElements
<1>6. /\ Join(Join(a, b), f) \in Seq(Nat) /\ Len(Join(Join(a, b), f)) = Len(Join(a, b)) + Len(f)
      /\ ToSet(Join(Join(a, b), f)) = ToSet(Join(a, b)) \cup ToSet(f) /\ Len(f) \in Nat
  BY <1>2, <1>5, JoinElements
<1>7. /\ Len(Hold(g, r)) = Len(g) + Len(Join(Join(a, b), f)) /\ Len(g) \in Nat
      /\ ToSet(Hold(g, r)) = ToSet(g) \cup ToSet(Join(Join(a, b), f))
  BY <1>3, <1>6, JoinElements
<1>8. /\ Join(g, a) \in Seq(Nat) /\ Len(Join(g, a)) = Len(g) + Len(a)
      /\ ToSet(Join(g, a)) = ToSet(g) \cup ToSet(a)
  BY <1>1, JoinElements
<1>9. /\ Join(Join(g, a), f) \in Seq(Nat) /\ Len(Join(Join(g, a), f)) = Len(Join(g, a)) + Len(f)
      /\ ToSet(Join(Join(g, a), f)) = ToSet(Join(g, a)) \cup ToSet(f)
  BY <1>2, <1>8, JoinElements
<1> DEFINE h == Hold(Join(g, a), Append(t, b))
<1>10. /\ h \in Seq(Nat) /\ Len(h) = Len(Join(Join(g, a), f)) + Len(b)
       /\ ToSet(h) = ToSet(Join(Join(g, a), f)) \cup ToSet(b)
  BY <1>1, <1>4, <1>9, JoinElements, ZenonT(30)
<1> HIDE DEF h
<1>11. Len(h) = Len(Hold(g, r))
  BY <1>5, <1>6, <1>7, <1>8, <1>9, <1>10
<1>12. ToSet(h) = ToSet(Hold(g, r))
  BY <1>5, <1>6, <1>7, <1>8, <1>9, <1>10
<1> QED
  BY <1>10, <1>11, <1>12 DEF h, t

(* A sequence that counts its bytes still does with the next ones. *)
LEMMA CountingGrows ==
    ASSUME NEW h \in Seq(Nat), NEW x \in Seq(Nat), NEW n \in Nat,
           n = 1 + Len(h), \A i \in 1 .. Len(x) : x[i] = n - 1 + i
    PROVE  /\ ToSet(h) = 1 .. Len(h) => ToSet(Join(h, x)) = 1 .. Len(Join(h, x))
           /\ (\A i \in DOMAIN h : h[i] = i) => \A i \in DOMAIN Join(h, x) : Join(h, x)[i] = i
<1>1. /\ Join(h, x) \in Seq(Nat) /\ Len(Join(h, x)) = Len(h) + Len(x) /\ Len(h) \in Nat /\ Len(x) \in Nat
      /\ \A i \in 1 .. Len(h) + Len(x) :
                 Join(h, x)[i] = IF i <= Len(h) THEN h[i] ELSE x[i - Len(h)]
      /\ ToSet(Join(h, x)) = ToSet(h) \cup ToSet(x)
  BY JoinElements
<1>2. DOMAIN h = 1 .. Len(h) /\ DOMAIN x = 1 .. Len(x) /\ DOMAIN Join(h, x) = 1 .. Len(h) + Len(x)
  BY <1>1
<1>3. \A i \in 1 .. Len(x) : x[i] = Len(h) + i
  BY <1>1
<1>4. ToSet(x) = Len(h) + 1 .. Len(h) + Len(x)
  <2>1. ToSet(x) \subseteq Len(h) + 1 .. Len(h) + Len(x)
    BY <1>1, <1>2, <1>3, SMTT(30) DEF ToSet
  <2>2. ASSUME NEW k \in Len(h) + 1 .. Len(h) + Len(x) PROVE k \in ToSet(x)
    <3>1. k - Len(h) \in 1 .. Len(x) /\ Len(h) + (k - Len(h)) = k
      BY <1>1
    <3>2. x[k - Len(h)] = k
      BY <1>3, <3>1
    <3> QED
      BY <1>2, <3>1, <3>2 DEF ToSet
  <2> QED
    BY <2>1, <2>2
<1>5. 1 .. Len(h) + Len(x) = (1 .. Len(h)) \cup (Len(h) + 1 .. Len(h) + Len(x))
  BY <1>1
<1>6. ASSUME \A i \in DOMAIN h : h[i] = i, NEW i \in DOMAIN Join(h, x) PROVE Join(h, x)[i] = i
  <2>1. CASE i <= Len(h)
    BY <1>1, <1>2, <1>6, <2>1
  <2>2. CASE ~(i <= Len(h))
    <3>1. i - Len(h) \in 1 .. Len(x) /\ Len(h) + (i - Len(h)) = i
      BY <1>1, <1>2, <2>2
    <3>2. Join(h, x)[i] = x[i - Len(h)]
      BY <1>1, <1>2, <2>2
    <3> QED
      BY <1>3, <3>1, <3>2
  <2> QED
    BY <2>1, <2>2
<1> QED
  BY <1>1, <1>4, <1>5, <1>6

(* The numbers of a stream. *)
LEMMA DataFacts ==
    ASSUME Typed, DataInv, NEW c \in Conns
    PROVE  /\ SegLen \in Nat \ {0} /\ pSent[c] \in Nat /\ EndOf(c) \in Nat \ {0}
           /\ got[c] \in Seq(Nat) /\ rcvbuf[c] \in Seq(Data) /\ Held(c) \in Seq(Nat) /\ Len(Held(c)) \in Nat
           /\ inp[c] \in Seq(Packets) /\ DataOK(c)
<1>1. /\ SegLen \in Nat \ {0} /\ pSent[c] \in Nat /\ got[c] \in Seq(Nat) /\ rcvbuf[c] \in Seq(Data)
      /\ inp[c] \in Seq(Packets) /\ DataOK(c)
  BY TcpAssumption DEF Typed, WireInv, SegLen, DataInv
<1>2. pSent[c] * SegLen \in Nat
  BY <1>1
<1>3. EndOf(c) \in Nat \ {0}
  <2> DEFINE w == pSent[c] * SegLen
  <2>1. w \in Nat
    BY <1>2
  <2> HIDE DEF w
  <2>2. 1 + w \in Nat \ {0}
    BY <2>1
  <2> QED
    BY <2>2 DEF EndOf, w
<1>4. Held(c) \in Seq(Nat)
  <2>1. <<>> \in Data
    BY EmptyTyped
  <2> QED
    BY <1>1, <2>1, HoldQueued, HeldIsHold
<1>5. Len(Held(c)) \in Nat
  BY <1>4
<1> QED
  BY <1>1, <1>3, <1>4, <1>5

(* Steps that have nothing to do with the bytes. *)
LEMMA DataQuiet ==
    ASSUME DataInv, \/ ServerSocket \/ ServerListens \/ AcceptTakes \/ AcceptWaits \/ RecvCall
                    \/ RecvWaits \/ SpuriousWakeup \/ SignalAccept \/ CloseReleases \/ UNCHANGED vars
    PROVE  DataInv'
<1>1. /\ UNCHANGED <<tcbs, status, inp, got, rcvbuf, rcvNxt, pst, pSent, out, sndbuf, traffic, pkt, cur>>
      /\ pcP' = pcP \/ (pcP = "signalAccept" /\ pcP' = "idle")
  BY DEF ServerSocket, ServerListens, AcceptTakes, AcceptWaits, RecvCall, RecvWaits, SpuriousWakeup,
         SignalAccept, CloseReleases, vars, streamVars, appVars, pktVars, peerVars
<1>2. \A d : Stage(d)' = Stage(d)
  BY <1>1 DEF Stage
<1>3. \A d \in Conns : SameData(d)
  BY <1>1, <1>2, TableSame DEF SameData, SameBytes
<1> QED
  BY <1>1, <1>3, DataSame DEF DataInv

(* A fragment without SYN is queued behind the others. *)
LEMMA SynQueued ==
    ASSUME Typed, NEW c \in Conns, SynOnce(c), NEW p \in Packets, "SYN" \notin p.flags,
           sndbuf' = [sndbuf EXCEPT ![c] = Enqueue(@, p)], out' = out, pst' = pst
    PROVE  SynOnce(c)' /\ \A d \in Conns \ {c} : sndbuf'[d] = sndbuf[d]
<1>1. sndbuf'[c] = Enqueue(sndbuf[c], p) /\ \A d \in Conns \ {c} : sndbuf'[d] = sndbuf[d]
  BY SndbufTyped
<1>2. sndbuf[c] \in Seq(Packets) /\ Len(sndbuf[c]) <= RingSize
  BY DEF Typed, TypeOK, WireInv
<1>3. \A i \in DOMAIN sndbuf'[c] : \/ i \in DOMAIN sndbuf[c] /\ sndbuf'[c][i] = sndbuf[c][i]
                                   \/ sndbuf'[c][i] = p
  BY <1>1, <1>2, EnqueueProperties
<1>4. \A i \in DOMAIN sndbuf'[c] : "SYN" \in sndbuf'[c][i].flags => pst'[c] = "syn_sent" /\ i = 1 /\ out'[c] = <<>>
  BY <1>3 DEF SynOnce
<1> QED
  BY <1>1, <1>4 DEF SynOnce

(* nsend queues an echo, nclose a FIN. *)
LEMMA DataEcho ==
    ASSUME Typed, FdInv, DataInv, SendEcho \/ CloseSends
    PROVE  DataInv'
<1>1. PICK s \in Conns : s = StreamOfFd(connfd)
  BY ServingStream DEF SendEcho, CloseSends, Serving
<1> DEFINE p == IF pcS = "send" THEN Packet({"PSH", "ACK"}, sndNxt[s], rcvNxt[s], buff)
                                ELSE Packet({"FIN", "ACK"}, sndNxt[s], rcvNxt[s], <<>>)
<1>2. sndNxt[s] \in Nat /\ rcvNxt[s] \in Nat /\ buff \in Data /\ <<>> \in Data
  BY EmptyTyped DEF Typed, TypeOK, WireInv
<1>3. PICK q \in Packets : q = p /\ "SYN" \notin q.flags
  BY <1>2, PacketTyped
<1>4. /\ sndbuf' = [sndbuf EXCEPT ![s] = Enqueue(@, q)]
      /\ UNCHANGED <<tcbs, status, inp, got, rcvbuf, rcvNxt, pst, pSent, out, traffic, pkt, cur, pcP>>
  BY <1>1, <1>3 DEF SendEcho, CloseSends, pktVars, peerVars
<1>5. DataOK(s) /\ SynOnce(s)
  BY DEF DataInv, DataOK
<1>6. SynOnce(s)' /\ \A d \in Conns \ {s} : sndbuf'[d] = sndbuf[d]
  BY <1>3, <1>4, <1>5, SynQueued
<1>7. \A d \in Conns : SameBytes(d)
  BY <1>4, TableSame DEF SameBytes, Stage
<1>8. DataOK(s)'
  BY <1>5, <1>6, <1>7, BytesSame DEF DataOK
<1>9. \A d \in Conns \ {s} : SameData(d)
  BY <1>4, <1>6, <1>7 DEF SameData
<1>10. got' \in [Conns -> Seq(Nat)]
  BY <1>4 DEF DataInv
<1> QED
  BY <1>8, <1>9, <1>10, DataOne

(* ng_tcp_out sends the first fragment. *)
LEMMA DataOut ==
    ASSUME Typed, DataInv, NEW c \in Conns, TcpOut(c)
    PROVE  DataInv'
<1>1. /\ sndbuf[c] # <<>> /\ sndbuf[c] \in Seq(Packets) /\ out[c] \in Seq(Packets)
      /\ sndbuf \in [Conns -> Seq(Packets)] /\ out \in [Conns -> Seq(Packets)]
  BY DEF TcpOut, Typed, WireInv
<1> DEFINE p == Head(sndbuf[c])
           q == ng_tcp_pkt(p)
<1>2. /\ p = sndbuf[c][1] /\ 1 \in DOMAIN sndbuf[c] /\ p \in Packets
      /\ Tail(sndbuf[c]) \in Seq(Packets)
      /\ \A i \in DOMAIN Tail(sndbuf[c]) :
            i + 1 \in DOMAIN sndbuf[c] /\ Tail(sndbuf[c])[i] = sndbuf[c][i + 1]
  BY <1>1, TailProperties
<1>3. q \in Packets /\ q.flags = p.flags
  <2>1. p.flags \in SUBSET {"SYN", "ACK", "PSH", "FIN"} /\ p.seq \in Nat /\ p.ack \in Nat /\ p.data \in Data
    BY <1>2 DEF Packets
  <2> HIDE DEF p
  <2> QED
    BY <2>1, PacketTyped DEF ng_tcp_pkt
<1>4. /\ out'[c] = Append(out[c], q) /\ sndbuf'[c] = Tail(sndbuf[c])
      /\ \A d \in Conns \ {c} : out'[d] = out[d] /\ sndbuf'[d] = sndbuf[d]
      /\ UNCHANGED <<tcbs, status, inp, got, rcvbuf, rcvNxt, pst, pSent, traffic, pkt, cur, pcP>>
  BY <1>1 DEF TcpOut, appVars, pktVars, peerVars
<1> HIDE DEF q
<1>5. \A i \in DOMAIN out'[c] : \/ i \in DOMAIN out[c] /\ out'[c][i] = out[c][i]
                                \/ i = Len(out[c]) + 1 /\ out'[c][i] = q
  BY <1>1, <1>3, <1>4, AppendProperties
<1>6. SynOnce(c)
  BY DEF DataInv, DataOK
<1>7. "SYN" \in p.flags => pst[c] = "syn_sent" /\ out[c] = <<>>
  BY <1>2, <1>6 DEF SynOnce
<1>8. ASSUME NEW i \in DOMAIN out'[c], "SYN" \in out'[c][i].flags PROVE pst[c] = "syn_sent" /\ i = 1
  <2>1. CASE i \in DOMAIN out[c] /\ out'[c][i] = out[c][i]
    BY <1>6, <1>8, <2>1 DEF SynOnce
  <2>2. CASE i = Len(out[c]) + 1 /\ out'[c][i] = q
    <3>1. pst[c] = "syn_sent" /\ out[c] = <<>>
      BY <1>3, <1>7, <1>8, <2>2
    <3> QED
      BY <2>2, <3>1
  <2> QED
    BY <1>5, <2>1, <2>2
<1>9. ASSUME NEW i \in DOMAIN sndbuf'[c], "SYN" \in sndbuf'[c][i].flags PROVE FALSE
  <2>1. i + 1 \in DOMAIN sndbuf[c] /\ sndbuf'[c][i] = sndbuf[c][i + 1] /\ i \in Nat \ {0}
    BY <1>2, <1>4
  <2>2. i + 1 = 1
    BY <1>6, <1>9, <2>1 DEF SynOnce
  <2> QED
    BY <2>1, <2>2
<1>10. SynOnce(c)'
  BY <1>4, <1>8, <1>9 DEF SynOnce
<1>11. \A d \in Conns : SameBytes(d)
  BY <1>4, TableSame DEF SameBytes, Stage
<1>12. DataOK(c)'
  <2>1. DataOK(c) /\ SameBytes(c)
    BY <1>11 DEF DataInv
  <2> QED
    BY <1>10, <2>1, BytesSame DEF DataOK
<1>13. \A d \in Conns \ {c} : SameData(d)
  BY <1>4, <1>11 DEF SameData
<1>14. got' \in [Conns -> Seq(Nat)]
  BY <1>4 DEF DataInv
<1> QED
  BY <1>12, <1>13, <1>14, DataOne

(* nclose follows the end mark, after everything was read. *)
LEMMA DataClose ==
    ASSUME StackInv, DataInv, CloseMarks
    PROVE  DataInv'
<1>1. Typed /\ CloseInv
  BY DEF StackInv, Typed, EndInv
<1>2. PICK x \in Conns : x = ptr /\ status[x] = "CLOSE_WAIT" /\ Ends(x) = {}
  BY <1>1 DEF CloseMarks, CloseInv
<1>5. /\ status' = [status EXCEPT ![x] = "LAST_ACK"]
      /\ UNCHANGED <<tcbs, inp, got, rcvbuf, rcvNxt, pst, pSent, out, sndbuf, traffic, pkt, cur, pcP>>
  BY <1>2 DEF CloseMarks, pktVars, peerVars
<1>6. DataOK(x) /\ SynOnce(x)
  BY DEF DataInv, DataOK
<1>7. SynOnce(x)'
  BY <1>5, <1>6 DEF SynOnce
<1>8. status'[x] = "LAST_ACK" /\ \A d \in Conns \ {x} : status'[d] = status[d]
  BY <1>1, <1>5 DEF Typed, TypeOK
<1>9. \A d \in Conns \ {x} : SameData(d)
  BY <1>5, <1>8, TableSame DEF SameData, SameBytes, Stage
<1>10. /\ Held(x)' = Held(x) /\ EndOf(x)' = EndOf(x) /\ SegLen' = SegLen /\ Over(x)' = Over(x)
       /\ Closing(x)' /\ Closing(x) /\ Ends(x)' = Ends(x) /\ (Connected(x)' <=> Connected(x))
       /\ Stage(x)' = Stage(x) /\ (InTable(x)' <=> InTable(x))
  BY <1>2, <1>5, <1>8, TableSame DEF Held, EndOf, SegLen, Over, Closing, Ends, Connected, Stage
<1>11. NotYetCounted(x)' = NotYetCounted(x) /\ FinCounted(x)' = FinCounted(x)
  BY <1>5, <1>10, CountedStage
<1>12. Handshake(x)'
  BY <1>2, <1>5, <1>6, <1>8, <1>10 DEF DataOK, Handshake
<1>13. Arriving(x)'
  BY <1>2, <1>5, <1>6, <1>8, <1>10 DEF DataOK, Arriving, SegmentOK
<1>14. Handled(x)'
  BY <1>5, <1>6, <1>10 DEF DataOK, Handled, SegmentOK
<1>15. KeptOK(x)' /\ OrderOK(x)'
  BY <1>2, <1>5, <1>6, <1>10, <1>11 DEF DataOK, KeptOK, OrderOK
<1>16. DataOK(x)'
  BY <1>7, <1>12, <1>13, <1>14, <1>15 DEF DataOK
<1>17. got' \in [Conns -> Seq(Nat)]
  BY <1>5 DEF DataInv
<1> QED
  BY <1>9, <1>16, <1>17, DataOne

(* The packet thread's place on the other streams. *)
LEMMA StageElsewhere ==
    ASSUME NEW d, NEW x, d # x, cur' = x, cur = x \/ pcP \in {"idle", "signalAccept"}
    PROVE  Stage(d)' = "none" /\ Stage(d) = "none"
BY DEF Stage

(* The signal after an enqueue changes nothing of the bytes. *)
LEMMA DataSignalled ==
    ASSUME StackInv, DataInv, SignalData
    PROVE  DataInv'
<1>1. PICK x \in Conns : x = cur
  BY DEF StackInv, EndInv, StageInv, SignalData
<1>2. /\ UNCHANGED <<tcbs, status, inp, got, rcvbuf, rcvNxt, pst, pSent, out, sndbuf, traffic, pkt, cur>>
      /\ \/ pcP = "pshSignal" /\ pcP' = "pshAck"
         \/ pcP = "finSignal" /\ pcP' = "finAck"
  BY DEF SignalData, streamVars, peerVars
<1>3. \A d : InTable(d)' <=> InTable(d)
  BY <1>2, TableSame
<1>4. ASSUME NEW d \in Conns \ {x} PROVE SameData(d)
  <2>1. Stage(d)' = "none" /\ Stage(d) = "none"
    BY <1>1, <1>2, StageElsewhere
  <2> QED
    BY <1>2, <1>3, <2>1 DEF SameData, SameBytes
<1>5. /\ Held(x)' = Held(x) /\ EndOf(x)' = EndOf(x) /\ SegLen' = SegLen /\ Over(x)' = Over(x)
      /\ (Closing(x)' <=> Closing(x)) /\ Ends(x)' = Ends(x) /\ (Connected(x)' <=> Connected(x))
      /\ Stage(x)' = pcP' /\ Stage(x) = pcP
  BY <1>1, <1>2 DEF Held, EndOf, SegLen, Over, Closing, Ends, Connected, Stage
<1>6. NotYetCounted(x)' = NotYetCounted(x) /\ FinCounted(x)' = FinCounted(x)
  BY <1>2, <1>5, CountedStage
<1>7. DataOK(x)
  BY DEF DataInv
<1>8. SynOnce(x)' /\ Handshake(x)'
  BY <1>2, <1>5, <1>7 DEF DataOK, SynOnce, Handshake
<1>9. Arriving(x)'
  BY <1>2, <1>5, <1>7 DEF DataOK, Arriving, SegmentOK
<1>10. Handled(x)'
  BY <1>2, <1>5, <1>7 DEF DataOK, Handled, SegmentOK
<1>11. KeptOK(x)' /\ OrderOK(x)'
  BY <1>2, <1>3, <1>5, <1>6, <1>7 DEF DataOK, KeptOK, OrderOK
<1>12. got' \in [Conns -> Seq(Nat)]
  BY <1>2 DEF DataInv
<1>13. DataOK(x)'
  BY <1>8, <1>9, <1>10, <1>11 DEF DataOK
<1> QED
  BY <1>4, <1>12, <1>13, DataOne

(* A payload is the next one the stream waits for, and it is queued whole. *)
LEMMA DataPayload ==
    ASSUME StackInv, DataInv, RoomLeft, EnqueuePayload
    PROVE  DataInv'
<1>1. PICK x \in Conns : x = cur /\ status[x] = "ESTABLISHED"
  BY DEF StackInv, EndInv, StageInv, EnqueuePayload
<1>2. Typed /\ TableInv /\ (\A c \in Conns : MarkInv(c)) /\ pkt \in Packets /\ rcvbuf \in [Conns -> Seq(Data)]
  BY DEF StackInv, Typed, EndInv, WireInv
<1>3. /\ UNCHANGED <<tcbs, status, inp, got, rcvNxt, pst, pSent, out, sndbuf, traffic, pkt, cur>>
      /\ pcP = "psh" /\ pcP' = "pshSignal"
      /\ rcvbuf' = [rcvbuf EXCEPT ![x] = Enqueue(@, pkt.data)]
  BY <1>1 DEF EnqueuePayload, streamVars, appVars, peerVars
<1>4. rcvbuf'[x] = Append(rcvbuf[x], pkt.data) /\ \A d \in Conns \ {x} : rcvbuf'[d] = rcvbuf[d]
  BY <1>1, <1>2, <1>3 DEF RoomLeft, Enqueue
<1>5. \A d : InTable(d)' <=> InTable(d)
  BY <1>3, TableSame
<1>6. ASSUME NEW d \in Conns \ {x} PROVE SameData(d)
  <2>1. Stage(d)' = "none" /\ Stage(d) = "none"
    BY <1>1, <1>3, StageElsewhere
  <2> QED
    BY <1>3, <1>4, <1>5, <2>1 DEF SameData, SameBytes
<1>7. /\ SegLen \in Nat \ {0} /\ EndOf(x) \in Nat \ {0} /\ got[x] \in Seq(Nat) /\ rcvbuf[x] \in Seq(Data)
      /\ Held(x) \in Seq(Nat) /\ Len(Held(x)) \in Nat /\ DataOK(x)
  BY <1>2, DataFacts
<1>8. /\ EndOf(x)' = EndOf(x) /\ SegLen' = SegLen /\ Over(x)' = Over(x)
      /\ ~Closing(x)' /\ ~Closing(x) /\ (Connected(x)' <=> Connected(x))
      /\ Stage(x)' = "pshSignal" /\ Stage(x) = "psh"
  BY <1>1, <1>3 DEF EndOf, SegLen, Over, Closing, Connected, Stage
<1>9. /\ SegmentOK(pkt, SegLen, EndOf(x), Over(x)) /\ "PSH" \in pkt.flags /\ pkt.seq = 1 + Len(Held(x))
      /\ pkt.seq \in Nat /\ pkt.data \in Data /\ pkt.data \in Seq(Nat)
  BY <1>2, <1>7, <1>8 DEF DataOK, Handled, Packets, Data
<1>10. Len(pkt.data) = SegLen /\ \A i \in 1 .. Len(pkt.data) : pkt.data[i] = pkt.seq - 1 + i
  BY <1>9 DEF SegmentOK
<1>11. Held(x)' = Join(Held(x), pkt.data)
  <2>1. Hold(got[x], Append(rcvbuf[x], pkt.data)) = Join(Hold(got[x], rcvbuf[x]), pkt.data)
    BY <1>7, <1>9, HoldQueued
  <2> QED
    BY <1>3, <1>4, <2>1, HeldIsHold
<1>12. Len(Held(x)') = Len(Held(x)) + SegLen
  <2>1. Len(Join(Held(x), pkt.data)) = Len(Held(x)) + Len(pkt.data)
    BY <1>7, <1>9, JoinElements
  <2> QED
    BY <1>10, <1>11, <2>1
<1>13. /\ ToSet(Held(x)) = 1 .. Len(Held(x)) => ToSet(Held(x)') = 1 .. Len(Held(x)')
       /\ (\A i \in DOMAIN Held(x) : Held(x)[i] = i) => \A i \in DOMAIN Held(x)' : Held(x)'[i] = i
  BY <1>7, <1>9, <1>10, <1>11, CountingGrows
<1>14. InTable(x)
  BY <1>1, <1>2 DEF TableInv
<1>15. Ends(x) = {} /\ Ends(x)' = {}
  <2>1. Ends(x) = {}
    BY <1>1, <1>2 DEF MarkInv
  <2>2. pkt.data # <<>>
    BY <1>7, <1>10
  <2>3. rcvbuf'[x] \in Seq(Data) /\ Len(rcvbuf'[x]) = Len(rcvbuf[x]) + 1
        /\ (\A i \in 1 .. Len(rcvbuf[x]) : rcvbuf'[x][i] = rcvbuf[x][i])
        /\ rcvbuf'[x][Len(rcvbuf[x]) + 1] = pkt.data
    BY <1>4, <1>7, <1>9, AppendProperties
  <2>4. \A i \in 1 .. Len(rcvbuf[x]) : rcvbuf'[x][i] # <<>>
    <3>1. DOMAIN rcvbuf[x] = 1 .. Len(rcvbuf[x])
      BY <1>7
    <3>2. \A i \in DOMAIN rcvbuf[x] : rcvbuf[x][i] # <<>>
      BY <2>1, Zenon DEF Ends
    <3> QED
      BY <2>3, <3>1, <3>2, Zenon
  <2>5. DOMAIN rcvbuf'[x] = 1 .. Len(rcvbuf[x]) + 1 /\ Len(rcvbuf[x]) \in Nat
    BY <1>7, <2>3
  <2>6. \A i \in DOMAIN rcvbuf'[x] : rcvbuf'[x][i] # <<>>
    BY <2>2, <2>3, <2>4, <2>5
  <2> QED
    BY <2>1, <2>6 DEF Ends
<1>16. /\ \A i \in DOMAIN rcvbuf'[x] : \/ i \in DOMAIN rcvbuf[x] /\ rcvbuf'[x][i] = rcvbuf[x][i]
                                       \/ rcvbuf'[x][i] = pkt.data
  BY <1>4, <1>7, <1>9, AppendProperties
<1>17. SynOnce(x)' /\ Handshake(x)'
  BY <1>1, <1>3, <1>7, <1>8 DEF DataOK, SynOnce, Handshake
<1>18. Arriving(x)'
  <2>1. \A i \in DOMAIN inp'[x] : SegmentOK(inp'[x][i], SegLen', EndOf(x)', Over(x)')
    BY <1>3, <1>7, <1>8 DEF DataOK, Arriving, SegmentOK
  <2>2. Carries(inp[x], 1 + Len(Held(x)) + SegLen, EndOf(x))
    BY <1>1, <1>7, <1>8 DEF DataOK, Arriving
  <2>3. 1 + Len(Held(x)') + 0 = 1 + Len(Held(x)) + SegLen
    BY <1>7, <1>12
  <2>4. Carries(inp'[x], 1 + Len(Held(x)') + 0, EndOf(x)')
    BY <1>3, <1>8, <2>2, <2>3
  <2> QED
    BY <1>8, <2>1, <2>4 DEF Arriving
<1>19. Handled(x)'
  <2>1. SegmentOK(pkt', SegLen', EndOf(x)', Over(x)')
    BY <1>3, <1>8, <1>9 DEF SegmentOK
  <2>2. pkt'.seq + Len(pkt'.data) = 1 + Len(Held(x)') /\ "PSH" \in pkt'.flags
    BY <1>3, <1>7, <1>9, <1>10, <1>12
  <2> QED
    BY <1>8, <2>1, <2>2 DEF Handled
<1>20. KeptOK(x)'
  <2>1. NotYetCounted(x)' = SegLen /\ NotYetCounted(x) = 0 /\ FinCounted(x) = 0 /\ FinCounted(x)' = 0
    BY <1>3, <1>8, <1>10, CountedStage
  <2>2. ToSet(Held(x)) = 1 .. Len(Held(x)) /\ rcvNxt[x] = 1 + Len(Held(x)) - 0 + 0
    BY <1>7, <1>14, <2>1 DEF DataOK, KeptOK
  <2>3. rcvNxt'[x] = 1 + Len(Held(x)') - SegLen + 0
    BY <1>3, <1>7, <1>12, <2>2
  <2> QED
    BY <1>13, <2>1, <2>2, <2>3 DEF KeptOK
<1>21. OrderOK(x)'
  <2> SUFFICES ASSUME SegLen <= BufferSize
               PROVE  /\ \A i \in DOMAIN Held(x)' : Held(x)'[i] = i
                      /\ \A i \in DOMAIN rcvbuf'[x] : Len(rcvbuf'[x][i]) <= SegLen
    BY <1>8, <1>15 DEF OrderOK
  <2>1. /\ \A i \in DOMAIN Held(x) : Held(x)[i] = i
        /\ \A i \in DOMAIN rcvbuf[x] : Len(rcvbuf[x][i]) <= SegLen
    BY <1>7, <1>14 DEF DataOK, OrderOK
  <2>2. SegLen <= SegLen
    BY <1>7
  <2>3. ASSUME NEW i \in DOMAIN rcvbuf'[x] PROVE Len(rcvbuf'[x][i]) <= SegLen
    <3>1. CASE i \in DOMAIN rcvbuf[x] /\ rcvbuf'[x][i] = rcvbuf[x][i]
      BY <2>1, <3>1
    <3>2. CASE rcvbuf'[x][i] = pkt.data
      BY <1>10, <2>2, <3>2
    <3> QED
      BY <1>16, <3>1, <3>2
  <2> QED
    BY <1>13, <2>1, <2>3
<1>22. got' \in [Conns -> Seq(Nat)]
  BY <1>3 DEF DataInv
<1>23. DataOK(x)'
  BY <1>17, <1>18, <1>19, <1>20, <1>21 DEF DataOK
<1> QED
  BY <1>6, <1>22, <1>23, DataOne

(* The FIN is handled after every byte of the client was queued. *)
LEMMA DataEnd ==
    ASSUME StackInv, DataInv, RoomLeft, EnqueueEnd
    PROVE  DataInv'
<1>1. PICK x \in Conns : x = cur /\ status[x] = "ESTABLISHED"
  BY DEF StackInv, EndInv, StageInv, EnqueueEnd
<1>2. /\ Typed /\ TableInv /\ (\A c \in Conns : MarkInv(c)) /\ pkt \in Packets
      /\ rcvbuf \in [Conns -> Seq(Data)]
      /\ status \in [Conns -> {"CLOSED", "SYN_RCVD", "ESTABLISHED", "CLOSE_WAIT", "LAST_ACK"}]
  BY DEF StackInv, Typed, EndInv, WireInv, TypeOK
<1>3. /\ UNCHANGED <<tcbs, inp, got, rcvNxt, pst, pSent, out, sndbuf, traffic, pkt, cur>>
      /\ pcP = "fin" /\ pcP' = "finSignal"
      /\ rcvbuf' = [rcvbuf EXCEPT ![x] = Enqueue(@, <<>>)]
      /\ status' = [status EXCEPT ![x] = "CLOSE_WAIT"]
  BY <1>1 DEF EnqueueEnd, appVars, peerVars
<1>4. /\ rcvbuf'[x] = Append(rcvbuf[x], <<>>) /\ status'[x] = "CLOSE_WAIT"
      /\ \A d \in Conns \ {x} : rcvbuf'[d] = rcvbuf[d] /\ status'[d] = status[d]
  BY <1>1, <1>2, <1>3 DEF RoomLeft, Enqueue
<1>5. \A d : InTable(d)' <=> InTable(d)
  BY <1>3, TableSame
<1>6. ASSUME NEW d \in Conns \ {x} PROVE SameData(d)
  <2>1. Stage(d)' = "none" /\ Stage(d) = "none"
    BY <1>1, <1>3, StageElsewhere
  <2> QED
    BY <1>3, <1>4, <1>5, <2>1 DEF SameData, SameBytes
<1>7. /\ SegLen \in Nat \ {0} /\ EndOf(x) \in Nat \ {0} /\ got[x] \in Seq(Nat) /\ rcvbuf[x] \in Seq(Data)
      /\ Held(x) \in Seq(Nat) /\ Len(Held(x)) \in Nat /\ DataOK(x)
  BY <1>2, DataFacts
<1>8. /\ EndOf(x)' = EndOf(x) /\ SegLen' = SegLen /\ Over(x)' = Over(x)
      /\ Closing(x)' /\ ~Closing(x) /\ (Connected(x)' <=> Connected(x))
      /\ Stage(x)' = "finSignal" /\ Stage(x) = "fin"
  BY <1>1, <1>3, <1>4 DEF EndOf, SegLen, Over, Closing, Connected, Stage
<1>9. /\ SegmentOK(pkt, SegLen, EndOf(x), Over(x)) /\ "FIN" \in pkt.flags
      /\ pkt.seq + Len(pkt.data) = 1 + Len(Held(x))
  BY <1>8, <1>7 DEF DataOK, Handled
<1>10. Over(x) /\ 1 + Len(Held(x)) = EndOf(x)
  BY <1>9 DEF SegmentOK
<1>11. Held(x)' = Held(x)
  <2>1. Hold(got[x], Append(rcvbuf[x], <<>>)) = Join(Hold(got[x], rcvbuf[x]), <<>>)
        /\ Hold(got[x], rcvbuf[x]) \in Seq(Nat)
    BY <1>7, EmptyTyped, HoldQueued
  <2>2. Join(Hold(got[x], rcvbuf[x]), <<>>) = Hold(got[x], rcvbuf[x])
    BY <2>1, JoinProperties
  <2> QED
    BY <1>3, <1>4, <2>1, <2>2, HeldIsHold
<1>12. InTable(x) /\ Connected(x)
  BY <1>1, <1>2, <1>7 DEF TableInv, DataOK, Handshake
<1>13. /\ rcvbuf'[x] \in Seq(Data) /\ Len(rcvbuf'[x]) = Len(rcvbuf[x]) + 1 /\ Len(rcvbuf[x]) \in Nat
       /\ \A i \in 1 .. Len(rcvbuf[x]) : rcvbuf'[x][i] = rcvbuf[x][i]
       /\ rcvbuf'[x][Len(rcvbuf[x]) + 1] = <<>>
  BY <1>4, <1>7, EmptyTyped, AppendProperties
<1>14. Ends(x)' = {Len(rcvbuf'[x])}
  <2>1. Ends(x) = {}
    BY <1>1, <1>2 DEF MarkInv
  <2>2. \A i \in 1 .. Len(rcvbuf[x]) : rcvbuf'[x][i] # <<>>
    BY <1>7, <1>13, <2>1 DEF Ends
  <2>3. DOMAIN rcvbuf'[x] = 1 .. Len(rcvbuf[x]) + 1
    BY <1>13
  <2>4. \A i \in DOMAIN rcvbuf'[x] : rcvbuf'[x][i] = <<>> <=> i = Len(rcvbuf'[x])
    BY <1>13, <2>2, <2>3
  <2>5. Len(rcvbuf'[x]) \in DOMAIN rcvbuf'[x]
    BY <1>13, <2>3
  <2> QED
    BY <2>4, <2>5 DEF Ends
<1>15. SynOnce(x)' /\ Handshake(x)'
  BY <1>3, <1>4, <1>7, <1>8, <1>12 DEF DataOK, SynOnce, Handshake
<1>16. Arriving(x)'
  <2>1. \A i \in DOMAIN inp'[x] : SegmentOK(inp'[x][i], SegLen', EndOf(x)', Over(x)')
    BY <1>3, <1>7, <1>8 DEF DataOK, Arriving, SegmentOK
  <2> QED
    BY <1>4, <1>8, <1>10, <1>11, <2>1 DEF Arriving
<1>17. Handled(x)'
  BY <1>8 DEF Handled
<1>18. KeptOK(x)'
  <2>1. NotYetCounted(x)' = 0 /\ NotYetCounted(x) = 0 /\ FinCounted(x) = 0 /\ FinCounted(x)' = 0
    BY <1>8, CountedStage
  <2> QED
    BY <1>3, <1>7, <1>11, <1>12, <2>1 DEF DataOK, KeptOK
<1>19. OrderOK(x)'
  <2> SUFFICES ASSUME SegLen <= BufferSize
               PROVE  /\ \A i \in DOMAIN Held(x)' : Held(x)'[i] = i
                      /\ \A i \in DOMAIN rcvbuf'[x] : Len(rcvbuf'[x][i]) <= SegLen
    BY <1>8, <1>14 DEF OrderOK
  <2>1. /\ \A i \in DOMAIN Held(x) : Held(x)[i] = i
        /\ \A i \in DOMAIN rcvbuf[x] : Len(rcvbuf[x][i]) <= SegLen
    BY <1>7, <1>12 DEF DataOK, OrderOK
  <2>2. Len(<<>>) = 0
    OBVIOUS
  <2>3. DOMAIN rcvbuf[x] = 1 .. Len(rcvbuf[x]) /\ DOMAIN rcvbuf'[x] = 1 .. Len(rcvbuf[x]) + 1
    BY <1>7, <1>13
  <2>4. ASSUME NEW i \in DOMAIN rcvbuf'[x] PROVE Len(rcvbuf'[x][i]) <= SegLen
    <3>1. CASE i \in 1 .. Len(rcvbuf[x])
      BY <1>13, <2>1, <2>3, <3>1
    <3>2. CASE i = Len(rcvbuf[x]) + 1
      BY <1>7, <1>13, <2>2, <3>2
    <3> QED
      BY <1>13, <2>3, <3>1, <3>2
  <2> QED
    BY <1>11, <2>1, <2>4
<1>20. got' \in [Conns -> Seq(Nat)]
  BY <1>3 DEF DataInv
<1>21. DataOK(x)'
  BY <1>15, <1>16, <1>17, <1>18, <1>19 DEF DataOK
<1> QED
  BY <1>6, <1>20, <1>21, DataOne

(* The acknowledgement counts what was queued just before. *)
LEMMA DataAcked ==
    ASSUME StackInv, DataInv, SendAck
    PROVE  DataInv'
<1>1. PICK x \in Conns : /\ x = cur
                         /\ pcP = "pshAck" => status[x] = "ESTABLISHED"
                         /\ pcP = "finAck" => status[x] \in {"CLOSE_WAIT", "LAST_ACK"}
  BY DEF StackInv, EndInv, StageInv, SendAck
<1>2. Typed /\ TableInv /\ pkt \in Packets /\ rcvNxt \in [Conns -> Nat]
  BY DEF StackInv, Typed, WireInv, TypeOK
<1>3. /\ UNCHANGED <<tcbs, status, inp, got, rcvbuf, pst, pSent, out, traffic, pkt, cur>>
      /\ pcP \in {"pshAck", "finAck"} /\ rcvNxt' = [rcvNxt EXCEPT ![x] = @ + Received]
      /\ sndbuf' = [sndbuf EXCEPT ![x] = Enqueue(@, Packet({"ACK"}, pkt.ack, rcvNxt'[x], <<>>))]
      /\ pcP' = IF pcP = "pshAck" /\ "FIN" \in pkt.flags THEN "fin" ELSE "idle"
  BY <1>1 DEF SendAck, appVars, peerVars
<1>4. /\ SegLen \in Nat \ {0} /\ EndOf(x) \in Nat \ {0} /\ got[x] \in Seq(Nat) /\ rcvbuf[x] \in Seq(Data)
      /\ Held(x) \in Seq(Nat) /\ Len(Held(x)) \in Nat /\ DataOK(x)
  BY <1>2, DataFacts
<1>5. pkt.ack \in Nat /\ <<>> \in Data /\ pkt.data \in Seq(Nat) /\ Len(pkt.data) \in Nat
  BY <1>2, EmptyTyped DEF Packets, Data
<1>6. /\ rcvNxt'[x] = rcvNxt[x] + Received /\ rcvNxt'[x] \in Nat
      /\ \A d \in Conns \ {x} : rcvNxt'[d] = rcvNxt[d]
  BY <1>2, <1>3, <1>5 DEF Received
<1>7. PICK q \in Packets : q = Packet({"ACK"}, pkt.ack, rcvNxt'[x], <<>>) /\ q.flags = {"ACK"}
  BY <1>5, <1>6, PacketTyped
<1>8. SynOnce(x)' /\ \A d \in Conns \ {x} : sndbuf'[d] = sndbuf[d]
  BY <1>2, <1>3, <1>4, <1>7, SynQueued DEF DataOK
<1>9. \A d : InTable(d)' <=> InTable(d)
  BY <1>3, TableSame
<1>10. ASSUME NEW d \in Conns \ {x} PROVE SameData(d)
  <2>1. Stage(d)' = "none" /\ Stage(d) = "none"
    BY <1>1, <1>3, StageElsewhere
  <2> QED
    BY <1>3, <1>6, <1>8, <1>9, <2>1 DEF SameData, SameBytes
<1>11. /\ Held(x)' = Held(x) /\ EndOf(x)' = EndOf(x) /\ SegLen' = SegLen /\ Over(x)' = Over(x)
       /\ (Closing(x)' <=> Closing(x)) /\ Ends(x)' = Ends(x) /\ (Connected(x)' <=> Connected(x))
       /\ Stage(x) = pcP /\ Stage(x)' \in {"fin", "none"}
       /\ Stage(x)' = "fin" => pcP = "pshAck" /\ "FIN" \in pkt.flags
  BY <1>1, <1>3 DEF Held, EndOf, SegLen, Over, Closing, Ends, Connected, Stage
<1>12. Handshake(x)' /\ OrderOK(x)'
  BY <1>3, <1>4, <1>9, <1>11 DEF DataOK, Handshake, OrderOK
<1>13. Arriving(x)'
  BY <1>3, <1>4, <1>11 DEF DataOK, Arriving, SegmentOK
<1>14. Handled(x)'
  BY <1>3, <1>4, <1>11 DEF DataOK, Handled, SegmentOK
<1>15. KeptOK(x)'
  <2>1. InTable(x)
    BY <1>1, <1>2, <1>3 DEF TableInv
  <2>2. ToSet(Held(x)) = 1 .. Len(Held(x)) /\ rcvNxt[x] = 1 + Len(Held(x)) - NotYetCounted(x) + FinCounted(x)
    BY <1>4, <2>1 DEF DataOK, KeptOK
  <2>3. rcvNxt'[x] = 1 + Len(Held(x)') - NotYetCounted(x)' + FinCounted(x)'
    <3>1. CASE pcP = "pshAck"
      <4>1. /\ NotYetCounted(x) = Len(pkt.data) /\ FinCounted(x) = 0
            /\ NotYetCounted(x)' = 0 /\ FinCounted(x)' = 0 /\ Received = Len(pkt.data)
        BY <1>1, <1>11, <3>1, CountedStage DEF Received, Closing
      <4>2. rcvNxt[x] = 1 + Len(Held(x)) - Len(pkt.data) + 0
        BY <2>2, <4>1
      <4>3. rcvNxt'[x] = 1 + Len(Held(x)) - 0 + 0
        BY <1>4, <1>5, <1>6, <4>1, <4>2
      <4> QED
        BY <1>11, <4>1, <4>3
    <3>2. CASE pcP = "finAck"
      <4>1. /\ NotYetCounted(x) = 0 /\ FinCounted(x) = 0
            /\ NotYetCounted(x)' = 0 /\ FinCounted(x)' = 1 /\ Received = 1
        BY <1>1, <1>11, <3>2, CountedStage DEF Received, Closing
      <4>2. rcvNxt'[x] = 1 + Len(Held(x)) - 0 + 1
        BY <1>4, <1>6, <2>2, <4>1
      <4> QED
        BY <1>11, <4>1, <4>2
    <3> QED
      BY <1>3, <3>1, <3>2
  <2> QED
    BY <1>11, <2>2, <2>3 DEF KeptOK
<1>16. got' \in [Conns -> Seq(Nat)]
  BY <1>3 DEF DataInv
<1>17. DataOK(x)'
  BY <1>8, <1>12, <1>13, <1>14, <1>15 DEF DataOK
<1> QED
  BY <1>10, <1>16, <1>17, DataOne

(* A packet is taken from the wire. *)
LEMMA PacketTaken ==
    ASSUME Typed, DataInv, NEW c \in Conns, inp[c] # <<>>, inp' = [inp EXCEPT ![c] = Tail(@)],
           UNCHANGED <<traffic, pst, pSent>>
    PROVE  /\ inp'[c] = Tail(inp[c]) /\ \A d \in Conns \ {c} : inp'[d] = inp[d]
           /\ Head(inp[c]) \in Packets /\ Head(inp[c]) = inp[c][1] /\ 1 \in DOMAIN inp[c]
           /\ SegmentOK(Head(inp[c]), SegLen, EndOf(c), Over(c))
           /\ \A i \in DOMAIN inp'[c] : SegmentOK(inp'[c][i], SegLen', EndOf(c)', Over(c)')
           /\ SegLen' = SegLen /\ EndOf(c)' = EndOf(c) /\ Over(c)' = Over(c)
           /\ (Connected(c)' <=> Connected(c))
<1>1. inp \in [Conns -> Seq(Packets)] /\ inp[c] \in Seq(Packets)
  BY DEF Typed, WireInv
<1>2. inp'[c] = Tail(inp[c]) /\ \A d \in Conns \ {c} : inp'[d] = inp[d]
  BY <1>1
<1>3. /\ Head(inp[c]) \in Packets /\ Head(inp[c]) = inp[c][1] /\ 1 \in DOMAIN inp[c]
      /\ \A i \in DOMAIN inp'[c] : i + 1 \in DOMAIN inp[c] /\ inp'[c][i] = inp[c][i + 1]
  BY <1>1, <1>2, TailProperties
<1>4. SegLen' = SegLen /\ EndOf(c)' = EndOf(c) /\ Over(c)' = Over(c) /\ (Connected(c)' <=> Connected(c))
  BY DEF SegLen, EndOf, Over, Connected
<1>5. \A i \in DOMAIN inp[c] : SegmentOK(inp[c][i], SegLen, EndOf(c), Over(c))
  BY DEF DataInv, DataOK, Arriving
<1>6. \A i \in DOMAIN inp'[c] : SegmentOK(inp'[c][i], SegLen, EndOf(c), Over(c))
  BY <1>3, <1>5
<1>7. \A i \in DOMAIN inp'[c] : SegmentOK(inp'[c][i], SegLen', EndOf(c)', Over(c)')
  BY <1>4, <1>6 DEF SegmentOK
<1> QED
  BY <1>2, <1>3, <1>4, <1>5, <1>7

(* A packet that the stack ignores. *)
LEMMA DataIgnored ==
    ASSUME Typed, DataInv, NEW c \in Conns, inp[c] # <<>>, inp' = [inp EXCEPT ![c] = Tail(@)],
           status[c] \notin {"SYN_RCVD", "ESTABLISHED"},
           UNCHANGED <<tcbs, status, got, rcvbuf, rcvNxt, pst, pSent, out, sndbuf, traffic, pkt, cur, pcP>>
    PROVE  DataInv'
<1>1. /\ \A d \in Conns \ {c} : inp'[d] = inp[d]
      /\ \A i \in DOMAIN inp'[c] : SegmentOK(inp'[c][i], SegLen', EndOf(c)', Over(c)')
      /\ SegLen' = SegLen /\ EndOf(c)' = EndOf(c) /\ Over(c)' = Over(c)
      /\ (Connected(c)' <=> Connected(c))
  BY PacketTaken
<1>2. \A d : Stage(d)' = Stage(d) /\ (InTable(d)' <=> InTable(d))
  BY TableSame DEF Stage
<1>3. \A d \in Conns \ {c} : SameData(d)
  BY <1>1, <1>2 DEF SameData, SameBytes
<1>4. Held(c)' = Held(c) /\ (Closing(c)' <=> Closing(c)) /\ Ends(c)' = Ends(c)
  BY DEF Held, Closing, Ends
<1>5. NotYetCounted(c)' = NotYetCounted(c) /\ FinCounted(c)' = FinCounted(c)
  BY <1>2, <1>4, CountedStage
<1>6. DataOK(c)
  BY DEF DataInv
<1>7. SynOnce(c)' /\ Handshake(c)'
  BY <1>1, <1>6 DEF DataOK, SynOnce, Handshake
<1>8. Arriving(c)'
  BY <1>1, <1>4, <1>6 DEF DataOK, Arriving
<1>9. Handled(c)'
  BY <1>1, <1>2, <1>4, <1>6 DEF DataOK, Handled, SegmentOK
<1>10. KeptOK(c)' /\ OrderOK(c)'
  BY <1>1, <1>2, <1>4, <1>5, <1>6 DEF DataOK, KeptOK, OrderOK
<1>11. got' \in [Conns -> Seq(Nat)]
  BY DEF DataInv
<1>12. DataOK(c)'
  BY <1>7, <1>8, <1>9, <1>10 DEF DataOK
<1> QED
  BY <1>3, <1>11, <1>12, DataOne

(* The first packet of a client finds nothing of an earlier connection. *)
LEMMA DataListen ==
    ASSUME StackInv, DataInv, NEW c \in Conns, HandleListen(c)
    PROVE  DataInv'
<1>1. Typed /\ TableInv /\ ClientInv
  BY DEF StackInv, Typed
<1>2. /\ inp[c] # <<>> /\ inp' = [inp EXCEPT ![c] = Tail(@)] /\ ~InTable(c) /\ pcP = "idle"
      /\ UNCHANGED <<got, rcvbuf, pst, pSent, out, traffic, pkt, cur, pcP>>
  BY DEF HandleListen, Arrives, appVars, pktVars, peerVars
<1>3. status[c] = "CLOSED" /\ sndbuf[c] = <<>> /\ rcvbuf[c] = <<>>
  BY <1>1, <1>2 DEF TableInv
<1>4. CASE "SYN" \notin Head(inp[c]).flags
  <2>1. UNCHANGED <<tcbs, status, rcvNxt, sndbuf>>
    BY <1>4 DEF HandleListen
  <2> QED
    BY <1>1, <1>2, <1>3, <2>1, DataIgnored
<1>5. CASE "SYN" \in Head(inp[c]).flags
  <2> DEFINE p == Head(inp[c])
             a == Packet({"SYN", "ACK"}, 0, p.seq + 1, <<>>)
  <2>1. /\ inp'[c] = Tail(inp[c]) /\ \A d \in Conns \ {c} : inp'[d] = inp[d]
        /\ p \in Packets /\ p = inp[c][1] /\ 1 \in DOMAIN inp[c]
        /\ SegmentOK(p, SegLen, EndOf(c), Over(c))
        /\ SegLen' = SegLen /\ EndOf(c)' = EndOf(c) /\ Over(c)' = Over(c)
        /\ (Connected(c)' <=> Connected(c))
    BY <1>1, <1>2, PacketTaken
  <2>2. pst[c] = "syn_sent" /\ Len(inp[c]) = 1 /\ out[c] = <<>> /\ ~Connected(c)
    BY <1>1, <1>5, <2>1 DEF ClientInv, ClientOK, PacketInv, Connected
  <2>3. p.seq = 0
    BY <1>5, <2>1 DEF SegmentOK
  <2>4. inp'[c] = <<>>
    <3>1. inp[c] \in Seq(Packets)
      BY <1>1 DEF Typed, WireInv
    <3>2. Tail(inp[c]) \in Seq(Packets) /\ Len(Tail(inp[c])) = Len(inp[c]) - 1
      BY <1>2, <3>1, TailProperties
    <3>3. Len(Tail(inp[c])) = 0
      BY <2>2, <3>2
    <3> QED
      BY <2>1, <3>2, <3>3, EmptySeq
  <2>5. PICK q \in Packets : q = a /\ q.flags = {"SYN", "ACK"}
    BY <2>3, PacketTyped, EmptyTyped
  <2>6. /\ tcbs' = <<c>> \o tcbs /\ status'[c] = "SYN_RCVD" /\ rcvNxt'[c] = 1
        /\ \A d \in Conns \ {c} : status'[d] = status[d] /\ rcvNxt'[d] = rcvNxt[d]
        /\ sndbuf' = [sndbuf EXCEPT ![c] = Enqueue(@, q)]
    BY <1>1, <1>5, <2>3, <2>5 DEF HandleListen, Typed, TypeOK
  <2>7. sndbuf'[c] = <<q>> /\ \A d \in Conns \ {c} : sndbuf'[d] = sndbuf[d]
    <3>1. sndbuf'[c] = Enqueue(<<>>, q) /\ \A d \in Conns \ {c} : sndbuf'[d] = sndbuf[d]
      BY <1>1, <1>3, <2>6, SndbufTyped
    <3>2. Enqueue(<<>>, q) = <<q>>
      <4>1. Len(<<>>) < RingSize /\ Append(<<>>, q) = <<q>>
        BY TcpAssumption
      <4> QED
        BY <4>1 DEF Enqueue
    <3> QED
      BY <3>1, <3>2
  <2>8. \A d \in Conns : InTable(d)' <=> d = c \/ InTable(d)
    BY <1>1, <1>2, <2>6, TableGrows
  <2>9. \A d : Stage(d)' = "none" /\ Stage(d) = "none"
    BY <1>2 DEF Stage
  <2>10. \A d \in Conns \ {c} : SameData(d)
    BY <1>2, <2>1, <2>6, <2>7, <2>8, <2>9 DEF SameData, SameBytes
  <2>11. DataOK(c) /\ got[c] = <<>> /\ pSent[c] = 0
    BY <2>2 DEF DataInv, DataOK, Handshake
  <2>12. Held(c)' = <<>> /\ Len(<<>>) = 0 /\ ToSet(<<>>) = {} /\ 1 .. 0 = {}
    <3>1. <<>> \in Seq(Nat) /\ <<>> \in Seq(Data) /\ <<>> \in Data
      BY EmptyTyped
    <3>2. Hold(<<>>, <<>>) = <<>>
      BY <3>1, HoldQueued, Zenon
    <3> QED
      BY <1>2, <1>3, <2>11, <3>2, HeldIsHold DEF ToSet
  <2>13. EndOf(c) = 1
    <3>1. SegLen \in Nat
      BY <1>1, DataFacts
    <3>2. 1 + 0 * SegLen = 1
      BY <3>1
    <3> QED
      BY <2>11, <3>2 DEF EndOf
  <2>14. SynOnce(c)'
    BY <1>2, <2>2, <2>7 DEF SynOnce
  <2>15. Handshake(c)'
    BY <1>2, <1>3, <2>1, <2>2, <2>6, <2>11 DEF Handshake
  <2>16. Arriving(c)'
    <3>1. Carries(<<>>, 1, 1)
      BY DEF Carries
    <3>2. 1 + Len(Held(c)') + 0 = 1 /\ EndOf(c)' = 1
      BY <2>1, <2>12, <2>13
    <3>3. Carries(inp'[c], 1 + Len(Held(c)') + 0, EndOf(c)')
      BY <2>4, <3>1, <3>2
    <3> QED
      BY <2>4, <2>6, <2>9, <3>3 DEF Arriving, Closing
  <2>17. Handled(c)'
    BY <2>9 DEF Handled
  <2>18. KeptOK(c)'
    <3>1. NotYetCounted(c)' = 0 /\ FinCounted(c)' = 0
      BY <2>6, <2>9, CountedStage DEF Closing
    <3> QED
      BY <2>6, <2>12, <3>1 DEF KeptOK
  <2>19. OrderOK(c)'
    BY <1>2, <1>3, <2>12 DEF OrderOK, Ends
  <2>20. got' \in [Conns -> Seq(Nat)]
    BY <1>2 DEF DataInv
  <2>21. DataOK(c)'
    BY <2>14, <2>15, <2>16, <2>17, <2>18, <2>19 DEF DataOK
  <2> QED
    BY <2>10, <2>20, <2>21, DataOne
<1> QED
  BY <1>4, <1>5

(* The ACK of the SYN/ACK carries no data. *)
LEMMA DataSynRcvd ==
    ASSUME StackInv, DataInv, NEW c \in Conns, HandleSynRcvd(c)
    PROVE  DataInv'
<1>1. Typed /\ TableInv /\ ClientInv
  BY DEF StackInv, Typed
<1>2. /\ inp[c] # <<>> /\ inp' = [inp EXCEPT ![c] = Tail(@)] /\ InTable(c) /\ pcP = "idle"
      /\ status[c] = "SYN_RCVD"
      /\ UNCHANGED <<tcbs, got, rcvbuf, rcvNxt, pst, pSent, out, sndbuf, traffic, pkt, cur>>
  BY DEF HandleSynRcvd, Arrives, appVars, peerVars
<1> DEFINE p == Head(inp[c])
<1>3. /\ inp'[c] = Tail(inp[c]) /\ \A d \in Conns \ {c} : inp'[d] = inp[d]
      /\ p \in Packets /\ p = inp[c][1] /\ 1 \in DOMAIN inp[c]
      /\ SegmentOK(p, SegLen, EndOf(c), Over(c))
      /\ \A i \in DOMAIN inp'[c] : SegmentOK(inp'[c][i], SegLen', EndOf(c)', Over(c)')
      /\ SegLen' = SegLen /\ EndOf(c)' = EndOf(c) /\ Over(c)' = Over(c)
      /\ (Connected(c)' <=> Connected(c))
  BY <1>1, <1>2, PacketTaken
<1>4. /\ SegLen \in Nat \ {0} /\ EndOf(c) \in Nat \ {0} /\ inp[c] \in Seq(Packets)
      /\ Held(c) \in Seq(Nat) /\ Len(Held(c)) \in Nat /\ DataOK(c)
  BY <1>1, DataFacts
<1>5. PacketInv(c, p)
  BY <1>1, <1>3 DEF ClientInv, ClientOK
<1>6. "ACK" \in p.flags /\ Connected(c)
  <2>1. "SYN" \notin p.flags
    BY <1>2, <1>5 DEF PacketInv
  <2>2. "ACK" \in p.flags
    BY <1>3, <2>1 DEF SegmentOK, PacketKinds
  <2> QED
    BY <1>5, <2>2 DEF PacketInv
<1>7. p.flags = {"ACK"}
  BY <1>2, <1>3, <1>4, <1>6 DEF DataOK, Handshake
<1>8. Len(p.data) = 0
  BY <1>3, <1>7 DEF SegmentOK
<1>9. /\ status'[c] = "ESTABLISHED" /\ pcP' = "signalAccept"
      /\ \A d \in Conns \ {c} : status'[d] = status[d]
  BY <1>1, <1>6 DEF HandleSynRcvd, Typed, TypeOK
<1> HIDE DEF p
<1>10. \A d : Stage(d)' = "none" /\ Stage(d) = "none" /\ (InTable(d)' <=> InTable(d))
  BY <1>2, <1>9, TableSame DEF Stage
<1>11. \A d \in Conns \ {c} : SameData(d)
  BY <1>2, <1>3, <1>9, <1>10 DEF SameData, SameBytes
<1>12. /\ Held(c)' = Held(c) /\ ~Closing(c)' /\ ~Closing(c) /\ Ends(c)' = Ends(c)
  BY <1>2, <1>9 DEF Held, Closing, Ends
<1>13. NotYetCounted(c)' = NotYetCounted(c) /\ FinCounted(c)' = FinCounted(c)
  BY <1>10, <1>12, CountedStage
<1>14. SynOnce(c)' /\ Handshake(c)'
  BY <1>2, <1>3, <1>4, <1>6, <1>9 DEF DataOK, SynOnce, Handshake
<1>15. Arriving(c)'
  <2>1. Carries(inp[c], 1 + Len(Held(c)) + 0, EndOf(c))
    BY <1>2, <1>4, <1>10 DEF DataOK, Arriving
  <2>2. Carries(Tail(inp[c]), (1 + Len(Held(c)) + 0) + Len(p.data), EndOf(c))
    <3> DEFINE a == 1 + Len(Held(c)) + 0
               e == EndOf(c)
               q == inp[c]
    <3>1. q \in Seq(Packets) /\ q # <<>> /\ Carries(q, a, e)
      BY <1>2, <1>4, <2>1
    <3> HIDE DEF a, e, q
    <3>2. Carries(Tail(q), a + Len(Head(q).data), e)
      BY <3>1, CarriesTaken
    <3> QED
      BY <3>2 DEF a, e, q, p
  <2>3. (1 + Len(Held(c)) + 0) + Len(p.data) = 1 + Len(Held(c)') + 0
    BY <1>4, <1>8, <1>12
  <2>4. Carries(inp'[c], 1 + Len(Held(c)') + 0, EndOf(c)')
    BY <1>3, <2>2, <2>3
  <2> QED
    BY <1>3, <1>10, <1>12, <2>4 DEF Arriving
<1>16. Handled(c)'
  BY <1>10 DEF Handled
<1>17. KeptOK(c)' /\ OrderOK(c)'
  BY <1>2, <1>3, <1>4, <1>10, <1>12, <1>13 DEF DataOK, KeptOK, OrderOK
<1>18. got' \in [Conns -> Seq(Nat)]
  BY <1>2 DEF DataInv
<1>19. DataOK(c)'
  BY <1>14, <1>15, <1>16, <1>17 DEF DataOK
<1> QED
  BY <1>11, <1>18, <1>19, DataOne

(* A packet of an established stream starts with the byte it waits for. *)
LEMMA DataEstablished ==
    ASSUME StackInv, DataInv, NEW c \in Conns, HandleEstablished(c)
    PROVE  DataInv'
<1>1. Typed /\ TableInv /\ ClientInv
  BY DEF StackInv, Typed
<1> DEFINE p == Head(inp[c])
<1>2. /\ inp[c] # <<>> /\ inp' = [inp EXCEPT ![c] = Tail(@)] /\ InTable(c) /\ pcP = "idle"
      /\ status[c] = "ESTABLISHED" /\ cur' = c /\ pkt' = p /\ pcP' = FirstStage(p.flags)
      /\ UNCHANGED <<tcbs, status, got, rcvbuf, rcvNxt, pst, pSent, out, sndbuf, traffic>>
  BY DEF HandleEstablished, Arrives, appVars, peerVars, streamVars
<1>3. /\ inp'[c] = Tail(inp[c]) /\ \A d \in Conns \ {c} : inp'[d] = inp[d]
      /\ p \in Packets /\ p = inp[c][1] /\ 1 \in DOMAIN inp[c]
      /\ SegmentOK(p, SegLen, EndOf(c), Over(c))
      /\ \A i \in DOMAIN inp'[c] : SegmentOK(inp'[c][i], SegLen', EndOf(c)', Over(c)')
      /\ SegLen' = SegLen /\ EndOf(c)' = EndOf(c) /\ Over(c)' = Over(c)
      /\ (Connected(c)' <=> Connected(c))
  BY <1>1, <1>2, PacketTaken
<1>4. /\ SegLen \in Nat \ {0} /\ EndOf(c) \in Nat \ {0} /\ inp[c] \in Seq(Packets)
      /\ Held(c) \in Seq(Nat) /\ Len(Held(c)) \in Nat /\ DataOK(c)
  BY <1>1, DataFacts
<1>5. Carries(inp[c], 1 + Len(Held(c)) + 0, EndOf(c))
  <2>1. Stage(c) = "none"
    BY <1>2 DEF Stage
  <2> QED
    BY <1>2, <1>4, <2>1 DEF DataOK, Arriving
<1>6. p.seq = 1 + Len(Held(c)) + 0 /\ Carries(Tail(inp[c]), (1 + Len(Held(c)) + 0) + Len(p.data), EndOf(c))
  <2> DEFINE a == 1 + Len(Held(c)) + 0
             e == EndOf(c)
             q == inp[c]
  <2>1. q \in Seq(Packets) /\ q # <<>> /\ Carries(q, a, e)
    BY <1>2, <1>4, <1>5
  <2> HIDE DEF a, e, q
  <2>2. Head(q).seq = a /\ Carries(Tail(q), a + Len(Head(q).data), e)
    BY <2>1, CarriesTaken
  <2> QED
    BY <2>2 DEF a, e, q
<1> HIDE DEF p
<1>7. /\ Stage(c) = "none" /\ Stage(c)' \in {"psh", "fin", "none"}
      /\ Stage(c)' = "psh" <=> "PSH" \in p.flags
      /\ Stage(c)' = "fin" <=> "FIN" \in p.flags /\ "PSH" \notin p.flags
  BY <1>2 DEF Stage, FirstStage
<1>8. Len(p.data) = IF Stage(c)' = "psh" THEN SegLen ELSE 0
  BY <1>3, <1>7 DEF SegmentOK
<1>9. \A d : InTable(d)' <=> InTable(d)
  BY <1>2, TableSame
<1>10. ASSUME NEW d \in Conns \ {c} PROVE SameData(d)
  <2>1. Stage(d)' = "none" /\ Stage(d) = "none"
    BY <1>2, StageElsewhere
  <2> QED
    BY <1>2, <1>3, <1>9, <2>1 DEF SameData, SameBytes
<1>11. /\ Held(c)' = Held(c) /\ ~Closing(c)' /\ ~Closing(c) /\ Ends(c)' = Ends(c)
  BY <1>2 DEF Held, Closing, Ends
<1>12. NotYetCounted(c)' = NotYetCounted(c) /\ FinCounted(c)' = FinCounted(c)
  BY <1>7, <1>11, CountedStage
<1>13. SynOnce(c)' /\ Handshake(c)'
  BY <1>2, <1>3, <1>4 DEF DataOK, SynOnce, Handshake
<1>14. Arriving(c)'
  <2>1. (1 + Len(Held(c)) + 0) + Len(p.data) = 1 + Len(Held(c)') + (IF Stage(c)' = "psh" THEN SegLen' ELSE 0)
    BY <1>3, <1>4, <1>8, <1>11
  <2>2. Carries(inp'[c], 1 + Len(Held(c)') + (IF Stage(c)' = "psh" THEN SegLen' ELSE 0), EndOf(c)')
    BY <1>3, <1>6, <2>1
  <2> QED
    BY <1>3, <1>11, <2>2 DEF Arriving
<1>15. Handled(c)'
  <2>1. SegmentOK(pkt', SegLen', EndOf(c)', Over(c)')
    BY <1>2, <1>3 DEF SegmentOK
  <2>2. Stage(c)' = "psh" => pkt'.seq = 1 + Len(Held(c)') /\ "PSH" \in pkt'.flags
    BY <1>2, <1>4, <1>6, <1>7, <1>11
  <2>3. Stage(c)' = "fin" => pkt'.seq + Len(pkt'.data) = 1 + Len(Held(c)') /\ "FIN" \in pkt'.flags
    BY <1>2, <1>4, <1>6, <1>7, <1>8, <1>11
  <2> QED
    BY <1>7, <2>1, <2>2, <2>3 DEF Handled
<1>16. KeptOK(c)' /\ OrderOK(c)'
  BY <1>2, <1>3, <1>4, <1>9, <1>11, <1>12 DEF DataOK, KeptOK, OrderOK
<1>17. got' \in [Conns -> Seq(Nat)]
  BY <1>2 DEF DataInv
<1>18. DataOK(c)'
  BY <1>13, <1>14, <1>15, <1>16 DEF DataOK
<1> QED
  BY <1>10, <1>17, <1>18, DataOne

(* The last ACK frees the stream. *)
LEMMA DataLastAck ==
    ASSUME StackInv, DataInv, NEW c \in Conns, HandleLastAck(c)
    PROVE  DataInv'
<1>1. Typed /\ TableInv
  BY DEF StackInv, Typed
<1>2. /\ inp[c] # <<>> /\ inp' = [inp EXCEPT ![c] = Tail(@)] /\ InTable(c) /\ pcP = "idle"
      /\ status[c] = "LAST_ACK" /\ tcbs' = RemoveAt(tcbs, PlaceOf(c))
      /\ UNCHANGED <<got, rcvNxt, pst, pSent, out, traffic, pkt, cur, pcP>>
  BY DEF HandleLastAck, Arrives, appVars, pktVars, peerVars, FreedByAck
<1>3. /\ status'[c] = "CLOSED" /\ sndbuf'[c] = <<>> /\ rcvbuf'[c] = <<>>
      /\ \A d \in Conns \ {c} : /\ status'[d] = status[d] /\ sndbuf'[d] = sndbuf[d]
                                /\ rcvbuf'[d] = rcvbuf[d]
  BY <1>1 DEF HandleLastAck, Typed, TypeOK, WireInv
<1>4. /\ \A d \in Conns \ {c} : inp'[d] = inp[d]
      /\ \A i \in DOMAIN inp'[c] : SegmentOK(inp'[c][i], SegLen', EndOf(c)', Over(c)')
      /\ (Connected(c)' <=> Connected(c))
  BY <1>1, <1>2, PacketTaken
<1>5. \A d \in Conns : InTable(d)' <=> d # c /\ InTable(d)
  BY <1>1, <1>2, TableShrinks
<1>6. \A d : Stage(d)' = "none" /\ Stage(d) = "none"
  BY <1>2 DEF Stage
<1>7. \A d \in Conns \ {c} : SameData(d)
  BY <1>2, <1>3, <1>4, <1>5, <1>6 DEF SameData, SameBytes
<1>8. DataOK(c) /\ Connected(c)
  BY <1>2 DEF DataInv, DataOK, Handshake
<1>9. SynOnce(c)'
  BY <1>2, <1>3, <1>8 DEF DataOK, SynOnce
<1>10. Handshake(c)' /\ Arriving(c)' /\ Handled(c)'
  BY <1>3, <1>4, <1>6, <1>8 DEF Handshake, Arriving, Handled, Closing
<1>11. KeptOK(c)' /\ OrderOK(c)'
  BY <1>3, <1>5 DEF KeptOK, OrderOK, Ends
<1>12. got' \in [Conns -> Seq(Nat)]
  BY <1>2 DEF DataInv
<1>13. DataOK(c)'
  BY <1>9, <1>10, <1>11 DEF DataOK
<1> QED
  BY <1>7, <1>12, <1>13, DataOne

(* A client sends a packet. *)
LEMMA DataSent ==
    ASSUME Typed, DataInv, NEW c \in Conns, NEW p \in Packets,
           inp' = [inp EXCEPT ![c] = Append(@, p)],
           UNCHANGED <<tcbs, status, got, rcvbuf, rcvNxt, sndbuf, traffic, pkt, cur, pcP>>,
           \A d \in Conns \ {c} : pst'[d] = pst[d] /\ pSent'[d] = pSent[d] /\ out'[d] = out[d],
           SynOnce(c)', Handshake(c)', SegmentOK(p, SegLen, EndOf(c)', Over(c)'),
           EndOf(c)' \in Nat, EndOf(c) <= EndOf(c)', Over(c) => Over(c)' /\ EndOf(c) = EndOf(c)',
           status[c] \in {"SYN_RCVD", "ESTABLISHED"} =>
              p.seq = EndOf(c) /\ EndOf(c)' = EndOf(c) + Len(p.data)
    PROVE  DataInv'
<1>1. /\ SegLen \in Nat \ {0} /\ EndOf(c) \in Nat \ {0} /\ inp[c] \in Seq(Packets)
      /\ Held(c) \in Seq(Nat) /\ Len(Held(c)) \in Nat /\ DataOK(c)
  BY DataFacts
<1>2. inp'[c] = Append(inp[c], p) /\ \A d \in Conns \ {c} : inp'[d] = inp[d]
  BY DEF Typed, WireInv
<1>3. \A d : Stage(d)' = Stage(d) /\ (InTable(d)' <=> InTable(d))
  BY TableSame DEF Stage
<1>4. \A d \in Conns \ {c} : SameData(d)
  BY <1>2, <1>3 DEF SameData, SameBytes
<1>5. Held(c)' = Held(c) /\ (Closing(c)' <=> Closing(c)) /\ Ends(c)' = Ends(c) /\ SegLen' = SegLen
  BY DEF Held, Closing, Ends, SegLen
<1>6. NotYetCounted(c)' = NotYetCounted(c) /\ FinCounted(c)' = FinCounted(c)
  BY <1>3, <1>5, CountedStage
<1>7. \A q \in Packets : SegmentOK(q, SegLen, EndOf(c), Over(c)) => SegmentOK(q, SegLen', EndOf(c)', Over(c)')
  <2> DEFINE e1 == EndOf(c)
             e2 == EndOf(c)'
             o1 == Over(c)
             o2 == Over(c)'
             z == SegLen
  <2>1. e1 \in Nat /\ e2 \in Nat /\ e1 <= e2 /\ (o1 => o2 /\ e1 = e2)
    BY <1>1
  <2> HIDE DEF e1, e2, o1, o2, z
  <2>2. \A q \in Packets : SegmentOK(q, z, e1, o1) => SegmentOK(q, z, e2, o2)
    BY <2>1, SegmentGrows
  <2> QED
    BY <1>5, <2>2, Zenon DEF e1, e2, o1, o2, z
<1>8. Arriving(c)'
  <2>1. \A i \in DOMAIN inp'[c] : \/ i \in DOMAIN inp[c] /\ inp'[c][i] = inp[c][i]
                                  \/ inp'[c][i] = p
    BY <1>1, <1>2, AppendProperties
  <2>2. ASSUME NEW i \in DOMAIN inp'[c] PROVE SegmentOK(inp'[c][i], SegLen', EndOf(c)', Over(c)')
    <3>1. CASE inp'[c][i] = p
      BY <1>5, <3>1 DEF SegmentOK
    <3>2. CASE i \in DOMAIN inp[c] /\ inp'[c][i] = inp[c][i]
      <4>1. inp[c][i] \in Packets /\ SegmentOK(inp[c][i], SegLen, EndOf(c), Over(c))
        BY <1>1, <3>2 DEF DataOK, Arriving
      <4> QED
        BY <1>7, <3>2, <4>1
    <3> QED
      BY <2>1, <3>1, <3>2
  <2>3. ASSUME status[c] \in {"SYN_RCVD", "ESTABLISHED"}
        PROVE  Carries(inp'[c], 1 + Len(Held(c)') + (IF Stage(c)' = "psh" THEN SegLen' ELSE 0), EndOf(c)')
    <3> DEFINE a == 1 + Len(Held(c)) + (IF Stage(c) = "psh" THEN SegLen ELSE 0)
               e == EndOf(c)
               q == inp[c]
    <3>1. q \in Seq(Packets) /\ Carries(q, a, e) /\ p.seq = e
      BY <1>1, <2>3 DEF DataOK, Arriving
    <3> HIDE DEF a, e, q
    <3>2. Carries(Append(q, p), a, e + Len(p.data))
      BY <3>1, CarriesAdded
    <3>3. e + Len(p.data) = EndOf(c)'
      BY <2>3 DEF e
    <3>4. a = 1 + Len(Held(c)') + (IF Stage(c)' = "psh" THEN SegLen' ELSE 0)
      BY <1>3, <1>5 DEF a
    <3>5. inp'[c] = Append(q, p)
      BY <1>2 DEF q
    <3> QED
      BY <3>2, <3>3, <3>4, <3>5
  <2>4. Closing(c) => 1 + Len(Held(c)) = EndOf(c)' /\ Over(c)'
    BY <1>1 DEF DataOK, Arriving
  <2> QED
    BY <1>5, <2>2, <2>3, <2>4 DEF Arriving
<1>9. Handled(c)'
  <2>1. pkt \in Packets
    BY DEF Typed, WireInv
  <2>2. Handled(c)
    BY <1>1 DEF DataOK
  <2>3. SegmentOK(pkt, SegLen, EndOf(c), Over(c)) => SegmentOK(pkt', SegLen', EndOf(c)', Over(c)')
    BY <1>7, <2>1
  <2> QED
    BY <1>3, <1>5, <2>2, <2>3 DEF Handled
<1>10. KeptOK(c)' /\ OrderOK(c)'
  BY <1>1, <1>3, <1>5, <1>6 DEF DataOK, KeptOK, OrderOK
<1>11. got' \in [Conns -> Seq(Nat)]
  BY DEF DataInv
<1>12. DataOK(c)'
  BY <1>8, <1>9, <1>10 DEF DataOK
<1> QED
  BY <1>4, <1>11, <1>12, DataOne

(* The bytes of a segment are numbered from its sequence number on. *)
LEMMA SegmentBytes ==
    ASSUME traffic \in Traffics, NEW n \in Nat
    PROVE  /\ Len(Segment(n + 1)) = SegLen
           /\ \A i \in 1 .. SegLen : Segment(n + 1)[i] = (1 + n * SegLen) - 1 + i
           /\ (n + 1) * SegLen = n * SegLen + SegLen
<1>1. SegLen \in Nat \ {0}
  BY TcpAssumption DEF SegLen
<1>2. (n + 1) - 1 = n
  OBVIOUS
<1>3. Segment(n + 1) = [i \in 1 .. SegLen |-> n * SegLen + i]
  BY <1>2 DEF Segment
<1>4. \A k \in Nat : n * k \in Nat /\ (n + 1) * k = n * k + k
  OBVIOUS
<1> DEFINE z == SegLen
           w == n * z
           q == [i \in 1 .. z |-> w + i]
<1>5. z \in Nat \ {0} /\ w \in Nat
  BY <1>1, <1>4
<1> HIDE DEF z, w
<1>6. Len(q) = z /\ \A i \in 1 .. z : q[i] = (1 + w) - 1 + i
  BY <1>5
<1>7. (n + 1) * SegLen = n * SegLen + SegLen
  BY <1>1, <1>4
<1> QED
  BY <1>3, <1>6, <1>7 DEF z, w

(* A client connects: nothing of it is in the stack. *)
LEMMA DataConnects ==
    ASSUME StackInv, DataInv, NEW c \in Conns, PeerConnects(c)
    PROVE  DataInv'
<1>1. Typed /\ TableInv /\ ClientInv /\ pst \in [Conns -> {"idle", "syn_sent", "est", "fin_wait", "closed"}]
  BY DEF StackInv, Typed, TypeOK
<1> DEFINE a == Packet({"SYN"}, 0, 0, <<>>)
<1>2. /\ inp' = [inp EXCEPT ![c] = Append(@, a)] /\ pst' = [pst EXCEPT ![c] = "syn_sent"]
      /\ pst[c] \in {"idle", "syn_sent"}
      /\ UNCHANGED <<tcbs, status, got, rcvbuf, rcvNxt, sndbuf, traffic, pkt, cur, pcP, pSent, out>>
  BY DEF PeerConnects, PeerOutput, streamVars, appVars, pktVars
<1>3. ~InTable(c) /\ out[c] = <<>>
  BY <1>1, <1>2 DEF PeerConnects, ClientInv, ClientOK
<1>4. status[c] = "CLOSED" /\ sndbuf[c] = <<>>
  BY <1>1, <1>3 DEF TableInv
<1>5. PICK p \in Packets : p = a
  BY PacketTyped, EmptyTyped
<1>6. p.flags = {"SYN"} /\ p.seq = 0 /\ p.data = <<>> /\ Len(p.data) = 0
  BY <1>5 DEF Packet
<1>7. pst'[c] = "syn_sent" /\ \A d \in Conns \ {c} : pst'[d] = pst[d]
  BY <1>1, <1>2
<1>8. SynOnce(c)'
  BY <1>2, <1>3, <1>4 DEF SynOnce
<1>9. DataOK(c) /\ EndOf(c) \in Nat \ {0}
  BY <1>1, DataFacts
<1>10. Handshake(c)'
  BY <1>2, <1>4, <1>7, <1>9 DEF DataOK, Handshake, Connected
<1>11. ~Over(c) /\ EndOf(c)' = EndOf(c)
  BY <1>2 DEF Over, EndOf, SegLen
<1>12. SegmentOK(p, SegLen, EndOf(c)', Over(c)')
  BY <1>6, <1>9, <1>11 DEF SegmentOK, PacketKinds
<1>13. /\ inp' = [inp EXCEPT ![c] = Append(@, p)] /\ EndOf(c) <= EndOf(c)' /\ EndOf(c)' \in Nat
       /\ \A d \in Conns \ {c} : pst'[d] = pst[d] /\ pSent'[d] = pSent[d] /\ out'[d] = out[d]
  BY <1>2, <1>5, <1>7, <1>9, <1>11
<1> HIDE DEF a
<1> QED
  BY <1>1, <1>2, <1>4, <1>8, <1>10, <1>11, <1>12, <1>13, DataSent

(* A client sends data, closes, or both. *)
LEMMA DataActs ==
    ASSUME StackInv, DataInv, NEW c \in Conns, PeerSends(c) \/ PeerCloses(c)
    PROVE  DataInv'
<1>1. Typed /\ traffic \in Traffics /\ pst \in [Conns -> {"idle", "syn_sent", "est", "fin_wait", "closed"}]
      /\ pSent \in [Conns -> Nat] /\ pRcv[c] \in Nat
  BY DEF StackInv, Typed, TypeOK, WireInv
<1> DEFINE more == pSent'[c] = pSent[c] + 1
           d == IF more THEN Segment(pSent[c] + 1) ELSE <<>>
<1>2. /\ UNCHANGED <<tcbs, status, got, rcvbuf, rcvNxt, sndbuf, traffic, pkt, cur, pcP, out>>
      /\ pst[c] = "est" /\ pst'[c] \in {"est", "fin_wait"} /\ (pst'[c] = "est" => more)
      /\ \A e \in Conns \ {c} : pst'[e] = pst[e] /\ pSent'[e] = pSent[e]
      /\ pSent'[c] \in {pSent[c], pSent[c] + 1}
  BY <1>1 DEF PeerSends, PeerCloses, streamVars, appVars, pktVars
<1>3. \E f \in SUBSET {"SYN", "ACK", "PSH", "FIN"} :
         /\ f = (IF more THEN {"PSH"} ELSE {}) \cup (IF pst'[c] = "fin_wait" THEN {"FIN"} ELSE {}) \cup {"ACK"}
         /\ inp' = [inp EXCEPT ![c] = Append(@, Packet(f, 1 + pSent[c] * SegLen, pRcv[c], d))]
  <2>1. pSent[c] # pSent[c] + 1
    BY <1>1
  <2>2. CASE PeerSends(c)
    <3>1. /\ more /\ pst'[c] = "est"
          /\ inp' = [inp EXCEPT ![c] = Append(@, Packet({"PSH", "ACK"}, 1 + pSent[c] * SegLen, pRcv[c], Segment(pSent[c] + 1)))]
      BY <1>1, <2>2 DEF PeerSends, PeerOutput
    <3> QED
      BY <3>1
  <2>3. CASE PeerCloses(c) /\ UNCHANGED pSent
    <3>1. /\ ~more /\ pst'[c] = "fin_wait"
          /\ inp' = [inp EXCEPT ![c] = Append(@, Packet({"FIN", "ACK"}, 1 + pSent[c] * SegLen, pRcv[c], <<>>))]
      BY <1>1, <2>1, <2>3 DEF PeerCloses, PeerOutput
    <3> QED
      BY <3>1
  <2>4. CASE PeerCloses(c) /\ pSent' # pSent
    <3>1. /\ more /\ pst'[c] = "fin_wait"
          /\ inp' = [inp EXCEPT ![c] = Append(@, Packet({"PSH", "FIN", "ACK"}, 1 + pSent[c] * SegLen, pRcv[c], Segment(pSent[c] + 1)))]
      BY <1>1, <2>4 DEF PeerCloses, PeerOutput
    <3> QED
      BY <3>1
  <2> QED
    BY <2>2, <2>3, <2>4
<1>4. PICK f \in SUBSET {"SYN", "ACK", "PSH", "FIN"} :
         /\ f = (IF more THEN {"PSH"} ELSE {}) \cup (IF pst'[c] = "fin_wait" THEN {"FIN"} ELSE {}) \cup {"ACK"}
         /\ inp' = [inp EXCEPT ![c] = Append(@, Packet(f, 1 + pSent[c] * SegLen, pRcv[c], d))]
  BY <1>3
<1>5. /\ Len(Segment(pSent[c] + 1)) = SegLen /\ Segment(pSent[c] + 1) \in Data
      /\ \A i \in 1 .. SegLen : Segment(pSent[c] + 1)[i] = (1 + pSent[c] * SegLen) - 1 + i
      /\ (pSent[c] + 1) * SegLen = pSent[c] * SegLen + SegLen /\ 1 + pSent[c] * SegLen \in Nat
  <2> DEFINE n == pSent[c]
  <2>1. n \in Nat
    BY <1>1
  <2> HIDE DEF n
  <2>2. /\ Len(Segment(n + 1)) = SegLen /\ Segment(n + 1) \in Data
        /\ \A i \in 1 .. SegLen : Segment(n + 1)[i] = (1 + n * SegLen) - 1 + i
        /\ (n + 1) * SegLen = n * SegLen + SegLen /\ 1 + n * SegLen \in Nat
    BY <1>1, <2>1, SegmentBytes, SegmentTyped
  <2> QED
    BY <2>2 DEF n
<1>6. /\ d \in Data /\ Len(d) = IF more THEN SegLen ELSE 0
      /\ \A i \in 1 .. Len(d) : d[i] = EndOf(c) - 1 + i
  BY <1>5, EmptyTyped DEF EndOf
<1>7. /\ DataOK(c) /\ EndOf(c) \in Nat \ {0} /\ SegLen \in Nat \ {0} /\ inp[c] \in Seq(Packets)
  BY <1>1, DataFacts
<1>8. EndOf(c)' = EndOf(c) + Len(d)
  <2>1. SegLen' = SegLen
    BY <1>2 DEF SegLen
  <2>2. CASE more
    <3> DEFINE w == pSent[c] * SegLen
    <3>1. pSent'[c] * SegLen = w + SegLen /\ 1 + w \in Nat /\ w \in Int
      <4>1. w \in Int
        BY <1>1, <1>7
      <4> QED
        BY <1>5, <2>2, <4>1
    <3> HIDE DEF w
    <3>2. 1 + (w + SegLen) = (1 + w) + SegLen
      BY <1>7, <3>1
    <3> QED
      BY <1>6, <2>1, <2>2, <3>1, <3>2 DEF EndOf, w
  <2>3. CASE ~more
    <3>1. EndOf(c)' = EndOf(c)
      BY <1>2, <2>1, <2>3 DEF EndOf
    <3> QED
      BY <1>6, <1>7, <2>3, <3>1
  <2> QED
    BY <2>2, <2>3
<1>9. 1 + pSent[c] * SegLen = EndOf(c)
  BY DEF EndOf
<1> DEFINE fin == pst'[c] = "fin_wait"
<1>10. /\ f = (IF more THEN {"PSH"} ELSE {}) \cup (IF fin THEN {"FIN"} ELSE {}) \cup {"ACK"}
       /\ fin \/ more
  BY <1>2, <1>4
<1>11. Over(c)' = fin /\ ~Over(c)
  BY <1>2 DEF Over
<1> HIDE DEF d, more, fin
<1>12. PICK p \in Packets : p = Packet(f, EndOf(c), pRcv[c], d) /\ p.flags = f /\ p.data = d /\ p.seq = EndOf(c)
  <2>1. Packet(f, EndOf(c), pRcv[c], d).seq = EndOf(c)
    BY DEF Packet
  <2> QED
    BY <1>1, <1>6, <1>7, <2>1, PacketTyped
<1>13. inp' = [inp EXCEPT ![c] = Append(@, p)]
  BY <1>4, <1>9, <1>12
<1>14. SegmentOK(p, SegLen, EndOf(c)', Over(c)')
  <2>1. /\ p.flags \in PacketKinds /\ "SYN" \notin p.flags /\ ("PSH" \in p.flags <=> more)
        /\ ("FIN" \in p.flags <=> fin)
    BY <1>10, <1>12 DEF PacketKinds
  <2>2. EndOf(c) + Len(d) <= EndOf(c) + Len(d)
    BY <1>6, <1>7
  <2> QED
    BY <1>6, <1>8, <1>11, <1>12, <2>1, <2>2 DEF SegmentOK
<1>15. SynOnce(c)'
  <2>1. SynOnce(c)
    BY <1>7 DEF DataOK
  <2> QED
    BY <1>2, <2>1 DEF SynOnce
<1>16. Handshake(c)'
  <2>1. Connected(c) /\ Connected(c)'
    BY <1>2 DEF Connected
  <2>2. status[c] = "SYN_RCVD" => inp[c] # <<>> /\ inp[c][1].flags = {"ACK"}
    BY <1>7, <2>1 DEF DataOK, Handshake
  <2>3. inp[c] # <<>> => Append(inp[c], p) # <<>> /\ Append(inp[c], p)[1] = inp[c][1]
    BY <1>7, AppendProperties
  <2>4. inp'[c] = Append(inp[c], p)
    BY <1>1, <1>13 DEF Typed, WireInv
  <2> QED
    BY <1>2, <2>1, <2>2, <2>3, <2>4 DEF Handshake
<1>17. EndOf(c)' \in Nat /\ EndOf(c) <= EndOf(c)'
  BY <1>6, <1>7, <1>8
<1> QED
  BY <1>1, <1>2, <1>8, <1>11, <1>12, <1>13, <1>14, <1>15, <1>16, <1>17, DataSent

(* A client sees the next packet of the stack and may answer it. *)
LEMMA DataReceives ==
    ASSUME StackInv, DataInv, NEW c \in Conns, PeerReceives(c)
    PROVE  DataInv'
<1> DEFINE r == Head(out[c])
           expected == r.seq = pRcv[c]
           size == Len(r.data) + (IF r.flags \cap {"SYN", "FIN"} # {} THEN 1 ELSE 0)
           next == IF expected THEN pRcv[c] + size ELSE pRcv[c]
           a == Packet({"ACK"}, 1 + pSent[c] * SegLen, next, <<>>)
<1>1. /\ Typed /\ TableInv /\ ClientInv /\ pRcv[c] \in Nat /\ out[c] \in Seq(Packets)
      /\ out \in [Conns -> Seq(Packets)] /\ inp \in [Conns -> Seq(Packets)]
      /\ pst \in [Conns -> {"idle", "syn_sent", "est", "fin_wait", "closed"}]
  BY DEF StackInv, Typed, TypeOK, WireInv
<1>2. /\ out[c] # <<>> /\ out' = [out EXCEPT ![c] = Tail(@)]
      /\ pst' = [pst EXCEPT ![c] = IF "SYN" \in r.flags THEN "est"
                                    ELSE IF "FIN" \in r.flags /\ expected THEN "closed" ELSE @]
      /\ IF size = 0 THEN inp' = inp ELSE inp' = [inp EXCEPT ![c] = Append(@, a)]
      /\ UNCHANGED <<tcbs, status, got, rcvbuf, rcvNxt, sndbuf, traffic, pkt, cur, pcP, pSent>>
  BY DEF PeerReceives, PeerOutput, streamVars, appVars, pktVars
<1>3. /\ r \in Packets /\ r = out[c][1] /\ 1 \in DOMAIN out[c]
      /\ \A i \in DOMAIN Tail(out[c]) : i + 1 \in DOMAIN out[c] /\ Tail(out[c])[i] = out[c][i + 1]
      /\ Tail(out[c]) \in Seq(Packets)
  BY <1>1, <1>2, TailProperties
<1>4. /\ out'[c] = Tail(out[c])
      /\ pst'[c] = IF "SYN" \in r.flags THEN "est"
                   ELSE IF "FIN" \in r.flags /\ expected THEN "closed" ELSE pst[c]
      /\ \A d \in Conns \ {c} : out'[d] = out[d] /\ pst'[d] = pst[d] /\ inp'[d] = inp[d] /\ pSent'[d] = pSent[d]
  BY <1>1, <1>2
<1> HIDE DEF r
<1>5. /\ Len(r.data) \in Nat /\ size \in Nat /\ next \in Nat
      /\ "SYN" \in r.flags \/ "FIN" \in r.flags => size # 0
  <2>1. Len(r.data) \in Nat
    BY <1>3 DEF Packets, Data
  <2>2. size = Len(r.data) + 1 \/ ("SYN" \notin r.flags /\ "FIN" \notin r.flags /\ size = Len(r.data) + 0)
    <3>1. CASE r.flags \cap {"SYN", "FIN"} # {}
      BY <3>1
    <3>2. CASE r.flags \cap {"SYN", "FIN"} = {}
      <4>1. "SYN" \notin r.flags /\ "FIN" \notin r.flags
        BY <3>2
      <4> QED
        BY <3>2, <4>1
    <3> QED
      BY <3>1, <3>2
  <2> HIDE DEF size
  <2>3. size \in Nat /\ ("SYN" \in r.flags \/ "FIN" \in r.flags => size # 0)
    BY <2>1, <2>2
  <2> QED
    BY <1>1, <2>1, <2>3
<1> HIDE DEF size
<1>6. /\ DataOK(c) /\ EndOf(c) \in Nat \ {0} /\ SegLen \in Nat \ {0} /\ inp[c] \in Seq(Packets)
      /\ SynOnce(c) /\ Handshake(c)
  BY <1>1, DataFacts DEF DataOK
<1>7. SynOnce(c)'
  <2>1. ASSUME NEW i \in DOMAIN out'[c], "SYN" \in out'[c][i].flags PROVE FALSE
    <3>1. i + 1 \in DOMAIN out[c] /\ "SYN" \in out[c][i + 1].flags /\ i \in Nat \ {0}
      BY <1>3, <1>4, <2>1
    <3>2. i + 1 = 1
      BY <1>6, <3>1 DEF SynOnce
    <3> QED
      BY <3>1, <3>2
  <2>2. ASSUME NEW i \in DOMAIN sndbuf'[c], "SYN" \in sndbuf'[c][i].flags PROVE FALSE
    BY <1>2, <1>6, <2>2 DEF SynOnce
  <2> QED
    BY <2>1, <2>2 DEF SynOnce
<1>8. EndOf(c)' = EndOf(c) /\ EndOf(c) <= EndOf(c)' /\ EndOf(c)' \in Nat /\ 1 + pSent[c] * SegLen = EndOf(c)
  <2>1. EndOf(c)' = EndOf(c) /\ 1 + pSent[c] * SegLen = EndOf(c)
    BY <1>2 DEF EndOf, SegLen
  <2> QED
    BY <1>6, <2>1
<1>9. PICK p \in Packets : p = a /\ p.flags = {"ACK"} /\ p.seq = EndOf(c) /\ p.data = <<>> /\ Len(p.data) = 0
  <2>1. a.seq = EndOf(c)
    BY <1>8 DEF Packet
  <2>2. <<>> \in Data /\ Len(<<>>) = 0 /\ 1 + pSent[c] * SegLen \in Nat
    BY <1>6, <1>8, EmptyTyped
  <2> HIDE DEF next, size
  <2> QED
    BY <1>5, <2>1, <2>2, PacketTyped
<1> HIDE DEF next, a
<1>10. EndOf(c)' = EndOf(c) + Len(p.data)
  <2>1. EndOf(c) + 0 = EndOf(c)
    BY <1>6
  <2> QED
    BY <1>8, <1>9, <2>1
<1>11. \A o : SegmentOK(p, SegLen, EndOf(c)', o)
  <2>1. p.flags \in PacketKinds /\ "SYN" \notin p.flags /\ "PSH" \notin p.flags /\ "FIN" \notin p.flags
    BY <1>9 DEF PacketKinds
  <2>2. p.seq + Len(p.data) <= EndOf(c)' /\ \A i \in 1 .. Len(p.data) : FALSE
    BY <1>6, <1>8, <1>9
  <2> QED
    BY <1>9, <2>1, <2>2 DEF SegmentOK
<1>12. CASE "SYN" \in r.flags
  <2>1. pst[c] = "syn_sent"
    BY <1>3, <1>6, <1>12 DEF SynOnce
  <2>2. InTable(c) /\ ~Connected(c)
    BY <1>1, <1>2, <2>1 DEF ClientInv, ClientOK, Connected
  <2>3. status[c] = "SYN_RCVD"
    BY <1>1, <1>6, <2>2 DEF Handshake, TableInv
  <2>4. inp[c] = <<>>
    <3>1. SUFFICES ASSUME inp[c] # <<>> PROVE FALSE
      OBVIOUS
    <3>2. 1 \in DOMAIN inp[c]
      BY <1>6, <3>1
    <3>3. PacketInv(c, inp[c][1]) /\ inp[c][1].flags \in PacketKinds
      BY <1>1, <1>6, <3>2 DEF ClientInv, ClientOK, DataOK, Arriving, SegmentOK
    <3> QED
      BY <2>2, <3>3 DEF PacketInv, PacketKinds
  <2>5. size # 0 /\ inp' = [inp EXCEPT ![c] = Append(@, p)]
    <3>1. size # 0
      BY <1>5, <1>12
    <3> QED
      BY <1>2, <1>9, <3>1
  <2>6. inp'[c] = <<p>>
    <3>1. inp'[c] = Append(<<>>, p)
      BY <1>1, <2>4, <2>5
    <3> QED
      BY <3>1
  <2>7. pst'[c] = "est"
    BY <1>4, <1>12
  <2>8. Handshake(c)'
    <3>1. Connected(c)' /\ inp'[c] # <<>> /\ inp'[c][1] = p
      BY <2>6, <2>7 DEF Connected
    <3> QED
      BY <1>9, <3>1 DEF Handshake
  <2>9. ~Over(c)
    BY <2>1 DEF Over
  <2>10. SegmentOK(p, SegLen, EndOf(c)', Over(c)')
    BY <1>11
  <2> HIDE DEF expected, size
  <2> QED
    BY <1>1, <1>2, <1>4, <1>7, <1>8, <1>9, <1>10, <2>5, <2>8, <2>9, <2>10, DataSent
<1>13. CASE "SYN" \notin r.flags
  <2>1. Connected(c)
    <3>1. pst[c] # "idle"
      BY <1>1, <1>2 DEF ClientInv, ClientOK
    <3>2. pst[c] # "syn_sent"
      BY <1>1, <1>2, <1>13 DEF ClientInv, ClientOK, SynAckFirst, r
    <3> QED
      BY <3>1, <3>2 DEF Connected
  <2>2. pst'[c] \in {pst[c], "closed"} /\ (size = 0 => pst'[c] = pst[c])
    BY <1>4, <1>5, <1>13
  <2>3. CASE size = 0
    <3>1. \A d \in Conns : pst'[d] = pst[d] /\ inp'[d] = inp[d]
      BY <1>2, <1>4, <2>2, <2>3
    <3>2. \A d \in Conns : SameBytes(d)
      BY <1>2, <3>1, TableSame DEF SameBytes, Stage
    <3>3. DataOK(c)'
      BY <1>6, <1>7, <3>2, BytesSame DEF DataOK
    <3>4. \A d \in Conns \ {c} : SameData(d)
      BY <1>2, <1>4, <3>2 DEF SameData
    <3>5. got' \in [Conns -> Seq(Nat)]
      BY <1>2 DEF DataInv
    <3> QED
      BY <3>3, <3>4, <3>5, DataOne
  <2>4. CASE size # 0
    <3>1. inp' = [inp EXCEPT ![c] = Append(@, p)]
      BY <1>2, <1>9, <2>4
    <3>2. Handshake(c)'
      <4>1. Connected(c)'
        BY <2>1, <2>2 DEF Connected
      <4>2. status[c] = "SYN_RCVD" => inp[c] # <<>> /\ inp[c][1].flags = {"ACK"}
        BY <1>6, <2>1 DEF Handshake
      <4>3. inp[c] # <<>> => Append(inp[c], p) # <<>> /\ Append(inp[c], p)[1] = inp[c][1]
        BY <1>6, AppendProperties
      <4>4. inp'[c] = Append(inp[c], p)
        BY <1>1, <3>1
      <4> QED
        BY <1>2, <4>1, <4>2, <4>3, <4>4 DEF Handshake
    <3>3. Over(c) => Over(c)' /\ EndOf(c) = EndOf(c)'
      BY <1>8, <2>2 DEF Over
    <3>4. SegmentOK(p, SegLen, EndOf(c)', Over(c)')
      BY <1>11
    <3> HIDE DEF expected, size
    <3> QED
      BY <1>1, <1>2, <1>4, <1>7, <1>8, <1>9, <1>10, <3>1, <3>2, <3>3, <3>4, DataSent
  <2> QED
    BY <2>3, <2>4
<1> QED
  BY <1>12, <1>13

(* What nrecv copies out and what it puts back make up the fragment. *)
LEMMA RecvJoins ==
    ASSUME NEW d \in Data, Len(d) > BufferSize
    PROVE  /\ SubSeq(d, 1, BufferSize) \in Data /\ SubSeq(d, BufferSize + 1, Len(d)) \in Data
           /\ d = Join(SubSeq(d, 1, BufferSize), SubSeq(d, BufferSize + 1, Len(d)))
           /\ SubSeq(d, BufferSize + 1, Len(d)) # <<>>
<1> DEFINE n == Len(d)
           B == BufferSize
           a == SubSeq(d, 1, B)
           b == SubSeq(d, B + 1, n)
<1>1. d \in Seq(Nat) /\ n \in Nat /\ n <= 2 * B /\ B \in Nat \ {0} /\ n > B
      /\ \A i \in 1 .. n : d[i] \in Nat
  BY TcpAssumption DEF Data
<1>2. a \in Seq(Nat) /\ Len(a) = B /\ \A i \in 1 .. B : a[i] = d[i]
  BY <1>1
<1>3. b \in Seq(Nat) /\ Len(b) = n - B /\ \A i \in 1 .. n - B : b[i] = d[B + i]
  <2>1. B + 1 \in Int /\ n \in Int /\ \A i \in B + 1 .. n : d[i] \in Nat
    BY <1>1
  <2> HIDE DEF n, B
  <2>2. /\ b \in Seq(Nat) /\ Len(b) = IF B + 1 <= n THEN n - (B + 1) + 1 ELSE 0
        /\ \A i \in 1 .. n - (B + 1) + 1 : b[i] = d[(B + 1) + i - 1]
    BY <2>1, SubSeqProperties
  <2>3. n - (B + 1) + 1 = n - B /\ \A i \in 1 .. n - B : (B + 1) + i - 1 = B + i
    BY <1>1
  <2> HIDE DEF b
  <2>4. Len(b) = n - B
    BY <1>1, <2>2
  <2> QED
    BY <2>2, <2>3, <2>4
<1>4. a \in Data /\ b \in Data /\ b # <<>>
  <2> HIDE DEF a, b, n
  <2>1. Len(<<>>) = 0 /\ n - B # 0 /\ n - B <= 2 * B /\ B <= 2 * B
    BY <1>1
  <2> QED
    BY <1>2, <1>3, <2>1 DEF Data
<1> HIDE DEF a, b
<1>5. /\ Join(a, b) \in Seq(Nat) /\ Len(Join(a, b)) = Len(a) + Len(b)
      /\ \A i \in 1 .. Len(a) + Len(b) : Join(a, b)[i] = IF i <= Len(a) THEN a[i] ELSE b[i - Len(a)]
  BY <1>2, <1>3, JoinElements
<1> HIDE DEF n, B
<1>6. Len(Join(a, b)) = n
  BY <1>1, <1>2, <1>3, <1>5
<1>7. ASSUME NEW i \in 1 .. n PROVE Join(a, b)[i] = d[i]
  <2>1. CASE i <= B
    BY <1>1, <1>2, <1>3, <1>5, <2>1
  <2>2. CASE ~(i <= B)
    <3>1. i - B \in 1 .. n - B /\ B + (i - B) = i /\ i \in 1 .. Len(a) + Len(b)
      BY <1>1, <1>2, <1>3, <2>2
    <3>2. Join(a, b)[i] = b[i - B]
      BY <1>2, <1>5, <2>2, <3>1
    <3> QED
      BY <1>3, <3>1, <3>2
  <2> QED
    BY <2>1, <2>2
<1>8. Join(a, b) = d
  BY <1>1, <1>5, <1>6, <1>7, SeqEqual DEF n
<1> QED
  BY <1>4, <1>8 DEF a, b, n, B

(* nrecv moves bytes from the rcvbuf to the program; only a cut fragment   *)
(* changes their order.                                                    *)
LEMMA HeldTaken ==
    ASSUME StackInv, DataInv, RecvTakes, NEW x \in Conns, x = ptr
    PROVE  /\ rcvbuf[x] # <<>> /\ InTable(x)
           /\ got'[x] \in Seq(Nat) /\ got' \in [Conns -> Seq(Nat)]
           /\ Len(Held(x)') = Len(Held(x)) /\ ToSet(Held(x)') = ToSet(Held(x))
           /\ \A d \in Conns \ {x} : got'[d] = got[d] /\ rcvbuf'[d] = rcvbuf[d]
           /\ Len(rcvbuf'[x]) <= Len(rcvbuf[x])
           /\ ~(Len(Head(rcvbuf[x])) > BufferSize) => rcvbuf'[x] = Tail(rcvbuf[x]) /\ Held(x)' = Held(x)
<1> DEFINE ring == rcvbuf[x]
           d == Head(ring)
           g == got[x]
           rest == IF Len(d) > BufferSize THEN SubSeq(d, BufferSize + 1, Len(d)) ELSE <<>>
           copied == IF Len(d) > BufferSize THEN SubSeq(d, 1, BufferSize) ELSE d
<1>1. Typed /\ TableInv /\ rcvbuf \in [Conns -> Seq(Data)] /\ got \in [Conns -> Seq(Nat)]
      /\ ring \in Seq(Data) /\ g \in Seq(Nat) /\ Len(ring) <= RingSize
  BY DEF StackInv, Typed, WireInv, DataInv, TypeOK
<1>2. /\ ring # <<>> /\ rcvbuf' = [rcvbuf EXCEPT ![x] = RestOf(@, rest)]
      /\ got' = [got EXCEPT ![x] = @ \o copied]
  BY DEF RecvTakes
<1>3. rcvbuf'[x] = RestOf(ring, rest) /\ got'[x] = Join(g, copied)
  BY <1>1, <1>2 DEF Join
<1>4. \A e \in Conns \ {x} : got'[e] = got[e] /\ rcvbuf'[e] = rcvbuf[e]
  BY <1>1, <1>2
<1>5. InTable(x)
  BY <1>1, <1>2 DEF TableInv
<1>6. /\ d \in Data /\ Tail(ring) \in Seq(Data) /\ Len(Tail(ring)) = Len(ring) - 1
      /\ Len(ring) \in Nat
  BY <1>1, <1>2, TailProperties
<1>7. RingSize \in Nat /\ Len(Tail(ring)) < RingSize /\ Len(Tail(ring)) <= Len(ring)
  BY <1>1, <1>6, TcpAssumption
<1>8. Held(x) = Hold(g, ring) /\ Held(x)' = Hold(Join(g, copied), RestOf(ring, rest))
  BY <1>3, HeldIsHold
<1> HIDE DEF ring, g
<1>9. CASE ~(Len(d) > BufferSize)
  <2>1. rest = <<>> /\ copied = d
    BY <1>9
  <2>2. RestOf(ring, rest) = Tail(ring)
    BY <2>1 DEF RestOf
  <2>3. Hold(Join(g, d), Tail(ring)) = Hold(g, ring)
    BY <1>1, <1>2, HoldTaken
  <2>4. Held(x)' = Held(x)
    BY <1>8, <2>1, <2>2, <2>3
  <2>5. Join(g, d) \in Seq(Nat)
    BY <1>1, <1>6, JoinProperties DEF Data
  <2>6. got'[x] \in Seq(Nat)
    BY <1>3, <2>1, <2>5
  <2>7. got' \in [Conns -> Seq(Nat)]
    BY <1>1, <1>2, <1>3, <2>6 DEF Join
  <2> QED
    BY <1>2, <1>3, <1>4, <1>5, <1>7, <2>2, <2>4, <2>6, <2>7 DEF ring
<1>10. CASE Len(d) > BufferSize
  <2> DEFINE a == SubSeq(d, 1, BufferSize)
             b == SubSeq(d, BufferSize + 1, Len(d))
  <2>1. rest = b /\ copied = a
    BY <1>10
  <2>2. a \in Data /\ b \in Data /\ d = Join(a, b) /\ b # <<>>
    BY <1>6, <1>10, RecvJoins
  <2> HIDE DEF a, b
  <2>3. RestOf(ring, rest) = Append(Tail(ring), b)
    BY <1>7, <2>1, <2>2 DEF RestOf, Enqueue
  <2>4. /\ Len(Hold(Join(g, a), Append(Tail(ring), b))) = Len(Hold(g, ring))
        /\ ToSet(Hold(Join(g, a), Append(Tail(ring), b))) = ToSet(Hold(g, ring))
    BY <1>1, <1>2, <2>2, HoldCut
  <2>5. Len(Held(x)') = Len(Held(x)) /\ ToSet(Held(x)') = ToSet(Held(x))
    BY <1>8, <2>1, <2>3, <2>4
  <2>6. Len(Append(Tail(ring), b)) = Len(ring)
    BY <1>6, <2>2, AppendProperties
  <2>7. Join(g, a) \in Seq(Nat)
    BY <1>1, <2>2, JoinProperties DEF Data
  <2>8. got'[x] \in Seq(Nat)
    BY <1>3, <2>1, <2>7
  <2>9. got' \in [Conns -> Seq(Nat)]
    BY <1>1, <1>2, <1>3, <2>8 DEF Join
  <2>10. Len(rcvbuf'[x]) <= Len(rcvbuf[x])
    BY <1>3, <1>6, <2>3, <2>6 DEF ring
  <2> QED
    BY <1>2, <1>4, <1>5, <1>10, <2>5, <2>8, <2>9, <2>10 DEF ring
<1> QED
  BY <1>9, <1>10

(* nrecv keeps the bytes. *)
LEMMA DataRead ==
    ASSUME StackInv, DataInv, RecvTakes
    PROVE  DataInv'
<1>1. PICK x \in Conns : x = ptr
  BY DEF StackInv, PtrInv, RecvTakes
<1>2. /\ rcvbuf[x] # <<>> /\ InTable(x) /\ got' \in [Conns -> Seq(Nat)]
      /\ Len(Held(x)') = Len(Held(x)) /\ ToSet(Held(x)') = ToSet(Held(x))
      /\ \A d \in Conns \ {x} : got'[d] = got[d] /\ rcvbuf'[d] = rcvbuf[d]
      /\ ~(Len(Head(rcvbuf[x])) > BufferSize) => rcvbuf'[x] = Tail(rcvbuf[x]) /\ Held(x)' = Held(x)
  BY <1>1, HeldTaken
<1>3. UNCHANGED <<tcbs, status, inp, rcvNxt, pst, pSent, out, sndbuf, traffic, pkt, cur, pcP>>
  BY DEF RecvTakes, pktVars, peerVars
<1>4. \A d : Stage(d)' = Stage(d) /\ (InTable(d)' <=> InTable(d))
  BY <1>3, TableSame DEF Stage
<1>5. \A d \in Conns \ {x} : SameData(d)
  BY <1>2, <1>3, <1>4 DEF SameData, SameBytes
<1>6. /\ EndOf(x)' = EndOf(x) /\ SegLen' = SegLen /\ Over(x)' = Over(x)
      /\ (Closing(x)' <=> Closing(x)) /\ (Connected(x)' <=> Connected(x))
  BY <1>3 DEF EndOf, SegLen, Over, Closing, Connected
<1>7. NotYetCounted(x)' = NotYetCounted(x) /\ FinCounted(x)' = FinCounted(x)
  BY <1>3, <1>4, <1>6, CountedStage
<1>8. DataOK(x) /\ rcvbuf[x] \in Seq(Data) /\ SegLen \in Nat \ {0}
  BY DataFacts DEF StackInv, Typed
<1>9. SynOnce(x)' /\ Handshake(x)'
  BY <1>2, <1>3, <1>6, <1>8 DEF DataOK, SynOnce, Handshake
<1>10. Arriving(x)'
  BY <1>2, <1>3, <1>4, <1>6, <1>8 DEF DataOK, Arriving, SegmentOK
<1>11. Handled(x)'
  BY <1>2, <1>3, <1>4, <1>6, <1>8 DEF DataOK, Handled, SegmentOK
<1>12. KeptOK(x)'
  BY <1>2, <1>3, <1>4, <1>7, <1>8 DEF DataOK, KeptOK
<1>13. OrderOK(x)'
  <2> SUFFICES ASSUME SegLen <= BufferSize PROVE OrderOK(x)'
    BY <1>6 DEF OrderOK
  <2> DEFINE ring == rcvbuf[x]
             tail == Tail(ring)
  <2>1. /\ Head(ring) = ring[1] /\ 1 \in DOMAIN ring /\ Len(ring) \in Nat /\ Len(tail) = Len(ring) - 1
        /\ tail \in Seq(Data) /\ Head(ring) \in Data
        /\ \A i \in DOMAIN tail : i + 1 \in DOMAIN ring /\ tail[i] = ring[i + 1]
    BY <1>2, <1>8, TailProperties
  <2>2. /\ \A i \in DOMAIN Held(x) : Held(x)[i] = i
        /\ \A i \in DOMAIN ring : Len(ring[i]) <= SegLen
        /\ \A i \in Ends(x) : i = Len(ring)
        /\ Closing(x) /\ Ends(x) = {} => ring = <<>>
    BY <1>2, <1>8 DEF DataOK, OrderOK
  <2>3. rcvbuf'[x] = tail /\ Held(x)' = Held(x)
    <3>1. Len(Head(ring)) <= SegLen /\ Len(Head(ring)) \in Nat
      BY <2>1, <2>2 DEF Data
    <3>2. ~(Len(Head(ring)) > BufferSize)
      BY <1>8, <3>1, TcpAssumption
    <3> QED
      BY <1>2, <3>2
  <2>4. Ends(x) = Marks(ring) /\ Ends(x)' = Marks(tail)
    BY <2>3, EndsAreMarks
  <2> HIDE DEF ring, tail
  <2>5. DOMAIN tail = 1 .. Len(tail) /\ Len(tail) \in Nat /\ DOMAIN ring = 1 .. Len(ring)
    BY <1>8, <2>1 DEF ring
  <2>6. \A i \in DOMAIN tail : Len(tail[i]) <= SegLen
    BY <2>1, <2>2
  <2>7. ASSUME NEW i \in Marks(tail) PROVE i = Len(tail)
    <3>1. i + 1 \in Marks(ring) /\ i \in Nat
      BY <2>1, <2>5, <2>7 DEF Marks
    <3>2. i + 1 = Len(ring)
      BY <2>2, <2>4, <3>1
    <3> QED
      BY <2>1, <3>1, <3>2
  <2>8. ASSUME Closing(x), Marks(tail) = {} PROVE tail = <<>>
    <3>1. Len(ring) \in Marks(ring)
      BY <1>2, <2>2, <2>4, <2>8 DEF ring
    <3>2. ASSUME tail # <<>> PROVE FALSE
      <4>1. Len(tail) \in DOMAIN tail /\ Len(tail) + 1 = Len(ring)
        BY <2>1, <2>5, <3>2
      <4>2. tail[Len(tail)] = <<>>
        BY <2>1, <3>1, <4>1 DEF Marks
      <4> QED
        BY <2>8, <4>1, <4>2 DEF Marks
    <3> QED
      BY <3>2
  <2> QED
    BY <1>6, <2>2, <2>3, <2>4, <2>6, <2>7, <2>8 DEF OrderOK
<1>14. DataOK(x)'
  BY <1>9, <1>10, <1>11, <1>12, <1>13 DEF DataOK
<1> QED
  BY <1>2, <1>5, <1>14, DataOne

(* Before the first packet there are no bytes. *)
LEMMA DataInit == Init => DataInv
<1> SUFFICES ASSUME Init PROVE DataInv
  OBVIOUS
<1>1. got \in [Conns -> Seq(Nat)]
  <2>1. <<>> \in Seq(Nat)
    OBVIOUS
  <2> QED
    BY <2>1 DEF Init
<1>2. ASSUME NEW c \in Conns PROVE DataOK(c)
  <2>1. /\ status[c] = "CLOSED" /\ tcbs = <<>> /\ inp[c] = <<>> /\ out[c] = <<>> /\ sndbuf[c] = <<>>
        /\ rcvbuf[c] = <<>> /\ got[c] = <<>> /\ pSent[c] = 0 /\ pcP = "idle"
    BY DEF Init
  <2>2. ~InTable(c) /\ Stage(c) = "none" /\ ~Closing(c) /\ Ends(c) = {}
    BY <2>1 DEF InTable, Stage, Closing, Ends
  <2> QED
    BY <2>1, <2>2 DEF DataOK, SynOnce, Handshake, Arriving, Handled, KeptOK, OrderOK
<1> QED
  BY <1>1, <1>2 DEF DataInv

(* Every step keeps the bytes, if the ring has room for what arrives. *)
LEMMA DataNext == StackInv /\ DataInv /\ RoomLeft /\ [Next]_vars => DataInv'
<1> SUFFICES ASSUME StackInv, DataInv, RoomLeft, [Next]_vars PROVE DataInv'
  OBVIOUS
<1>1. Typed /\ FdInv /\ TableInv
  BY DEF StackInv, Typed
<1>2. CASE \/ ServerSocket \/ ServerListens \/ AcceptTakes \/ AcceptWaits \/ RecvCall
           \/ RecvWaits \/ SpuriousWakeup \/ SignalAccept \/ CloseReleases \/ UNCHANGED vars
  BY <1>2, DataQuiet
<1>3. CASE RecvTakes \/ SendEcho \/ CloseSends \/ CloseMarks
  BY <1>1, <1>3, DataRead, DataEcho, DataClose
<1>4. CASE SignalData \/ EnqueuePayload \/ EnqueueEnd \/ SendAck
  BY <1>4, DataSignalled, DataPayload, DataEnd, DataAcked
<1>5. ASSUME NEW c \in Conns, NoListener(c) \/ HandleCloseWait(c) PROVE DataInv'
  <2>1. /\ inp[c] # <<>> /\ inp' = [inp EXCEPT ![c] = Tail(@)]
        /\ UNCHANGED <<tcbs, status, got, rcvbuf, rcvNxt, pst, pSent, out, sndbuf, traffic, pkt, cur, pcP>>
    BY <1>5 DEF NoListener, HandleCloseWait, Arrives, streamVars, appVars, pktVars, peerVars
  <2>2. status[c] \notin {"SYN_RCVD", "ESTABLISHED"}
    BY <1>1, <1>5 DEF NoListener, HandleCloseWait, TableInv
  <2> QED
    BY <1>1, <2>1, <2>2, DataIgnored
<1>6. ASSUME NEW c \in Conns, \/ HandleListen(c) \/ HandleSynRcvd(c) \/ HandleEstablished(c)
                              \/ HandleLastAck(c) \/ TcpOut(c)
      PROVE  DataInv'
  BY <1>1, <1>6, DataListen, DataSynRcvd, DataEstablished, DataLastAck, DataOut
<1>7. ASSUME NEW c \in Conns, PeerConnects(c) \/ PeerStep(c) PROVE DataInv'
  BY <1>7, DataConnects, DataActs, DataReceives DEF PeerStep
<1> QED
  BY <1>2, <1>3, <1>4, <1>5, <1>6, <1>7, Steps DEF QuietStep, StreamStep

(* What the two properties take from the invariant. *)
LEMMA DataShows == StackInv /\ DataInv => AckedIsKept /\ InOrderDelivery
<1> SUFFICES ASSUME StackInv, DataInv PROVE AckedIsKept /\ InOrderDelivery
  OBVIOUS
<1>1. Typed /\ \A c \in Conns : MarkInv(c)
  BY DEF StackInv, Typed, EndInv
<1>2. AckedIsKept
  BY DEF AckedIsKept, DataInv, DataOK, KeptOK
<1>3. ASSUME NEW c \in Conns, SegLen <= BufferSize, InTable(c), status[c] = "LAST_ACK"
      PROVE  Len(got[c]) = pSent[c] * SegLen
  <2>1. /\ DataOK(c) /\ got[c] \in Seq(Nat) /\ Len(Held(c)) \in Nat /\ SegLen \in Nat \ {0} /\ pSent[c] \in Nat
    BY <1>1, DataFacts
  <2>2. Ends(c) = {} /\ Closing(c)
    BY <1>1, <1>3 DEF MarkInv, Closing
  <2>3. rcvbuf[c] = <<>> /\ 1 + Len(Held(c)) = 1 + pSent[c] * SegLen
    BY <1>3, <2>1, <2>2 DEF DataOK, OrderOK, Arriving, EndOf
  <2>4. Held(c) = got[c]
    <3>1. <<>> \in Seq(Data) /\ <<>> \in Data
      BY EmptyTyped
    <3>2. Hold(got[c], <<>>) = got[c]
      BY <2>1, <3>1, HoldQueued, Zenon
    <3> QED
      BY <2>3, <3>2, HeldIsHold
  <2>5. pSent[c] * SegLen \in Nat
    BY <2>1
  <2> DEFINE w == pSent[c] * SegLen
             n == Len(Held(c))
  <2>6. w \in Nat /\ n \in Nat /\ 1 + n = 1 + w
    BY <2>1, <2>3, <2>5
  <2> HIDE DEF w, n
  <2>7. n = w
    BY <2>6
  <2> QED
    BY <2>4, <2>7 DEF w, n
<1>4. InOrderDelivery
  BY <1>3 DEF InOrderDelivery, DataInv, DataOK, OrderOK
<1> QED
  BY <1>2, <1>4

(* Nothing that was acknowledged is lost, repeated or made up, as long as  *)
(* no fragment meets a full rcvbuf: the code looks neither at the result   *)
(* of rte_ring_mp_enqueue nor at the window.                               *)
THEOREM AckedBytesKept == Spec /\ []RoomLeft => []AckedIsKept
<1>1. Spec => []StackInv
  BY StackInit, StackNext, PTL DEF Spec
<1>2. Spec /\ []RoomLeft => [](StackInv /\ DataInv)
  BY <1>1, DataInit, DataNext, PTL DEF Spec
<1>3. StackInv /\ DataInv => AckedIsKept
  BY DataShows
<1> QED
  BY <1>2, <1>3, PTL

(* Under the same condition bytes are delivered in order and completely.   *)
THEOREM BytesInOrder == Spec /\ []RoomLeft => []InOrderDelivery
<1>1. Spec => []StackInv
  BY StackInit, StackNext, PTL DEF Spec
<1>2. Spec /\ []RoomLeft => [](StackInv /\ DataInv)
  BY <1>1, DataInit, DataNext, PTL DEF Spec
<1>3. StackInv /\ DataInv => InOrderDelivery
  BY DataShows
<1> QED
  BY <1>2, <1>3, PTL

-----------------------------------------------------------------------------
(* Traffic that fits the rings.                                            *)

(* No client sends as many segments as a ring holds fragments, so that the *)
(* end mark still finds a place if the program reads nothing at all.       *)
RingsSuffice == \A r \in Traffics : \A c \in r.clients : r.segs[c] < RingSize

(* A client sends at most its segments, and a rcvbuf holds at most as many *)
(* fragments as segments have arrived, and the end mark.                   *)
SentOK(c) ==
    /\ pSent[c] > 0 => c \in traffic.clients /\ pSent[c] <= traffic.segs[c]
    /\ pst[c] \in {"idle", "syn_sent", "est"} => c \in traffic.clients

FragmentsOK(c) ==
    InTable(c) =>
        \E a \in Nat : /\ Len(Held(c)) = a * SegLen
                       /\ Len(rcvbuf[c]) <= a + (IF Closing(c) THEN 1 ELSE 0)

CountInv == \A c \in Conns : SentOK(c) /\ FragmentsOK(c)

(* Multiples compare as their factors do. *)
LEMMA LessMultiples ==
    ASSUME NEW a \in Nat, NEW n \in Nat, NEW z \in Nat \ {0}, a * z <= n * z
    PROVE  a <= n
<1>1. SUFFICES ASSUME n < a PROVE FALSE
  OBVIOUS
<1>2. PICK j \in Nat : a = (n + 1) + j
  <2>1. a - (n + 1) \in Nat /\ a = (n + 1) + (a - (n + 1))
    BY <1>1
  <2> QED
    BY <2>1
<1>3. a * z = n * z + z + j * z /\ j * z \in Nat /\ n * z \in Nat
  BY <1>2
<1> DEFINE u == n * z
           v == j * z
<1>4. u + z + v <= u /\ u \in Nat /\ v \in Nat
  BY <1>3
<1> HIDE DEF u, v
<1> QED
  BY <1>4

(* With such traffic there is always room. *)
LEMMA RoomFollows ==
    ASSUME RingsSuffice, StackInv, DataInv, CountInv
    PROVE  RoomLeft
<1> SUFFICES ASSUME pcP \in {"psh", "fin"} PROVE Len(rcvbuf[cur]) < RingSize
  BY DEF RoomLeft
<1>1. PICK x \in Conns : x = cur /\ status[x] = "ESTABLISHED"
  BY DEF StackInv, EndInv, StageInv
<1>2. Typed /\ TableInv /\ pkt \in Packets /\ traffic \in Traffics /\ RingSize \in Nat \ {0}
  BY TcpAssumption DEF StackInv, Typed, WireInv
<1>3. InTable(x) /\ ~Closing(x) /\ Stage(x) = pcP
  BY <1>1, <1>2 DEF TableInv, Closing, Stage
<1>4. PICK a \in Nat : Len(Held(x)) = a * SegLen /\ Len(rcvbuf[x]) <= a + 0
  BY <1>3 DEF CountInv, FragmentsOK
<1>5. /\ SegLen \in Nat \ {0} /\ pSent[x] \in Nat /\ EndOf(x) \in Nat \ {0} /\ DataOK(x)
      /\ Len(Held(x)) \in Nat /\ rcvbuf[x] \in Seq(Data)
  BY <1>2, DataFacts
<1>6. /\ pkt.seq \in Nat /\ Len(pkt.data) \in Nat /\ pkt.seq + Len(pkt.data) <= EndOf(x)
      /\ pcP = "psh" => pkt.seq = 1 + Len(Held(x))
      /\ pcP = "fin" => pkt.seq + Len(pkt.data) = 1 + Len(Held(x))
  BY <1>2, <1>3, <1>5 DEF DataOK, Handled, SegmentOK, Packets, Data
<1>7. 1 + Len(Held(x)) <= EndOf(x)
  BY <1>5, <1>6
<1>8. a <= pSent[x]
  <2> DEFINE n == pSent[x]
             z == SegLen
             v == a * z
             w == n * z
  <2>1. n \in Nat /\ z \in Nat \ {0} /\ v \in Nat /\ w \in Nat /\ 1 + v <= 1 + w
    BY <1>4, <1>5, <1>7 DEF EndOf
  <2> HIDE DEF v, w
  <2>2. v <= w
    BY <2>1
  <2> HIDE DEF n, z
  <2>3. a * z <= n * z
    BY <2>2 DEF v, w
  <2>4. a <= n
    BY <2>1, <2>3, LessMultiples
  <2> QED
    BY <2>4 DEF n
<1>9. Len(rcvbuf[x]) <= pSent[x] /\ Len(rcvbuf[x]) \in Nat
  BY <1>4, <1>5, <1>8
<1>10. pSent[x] < RingSize
  <2>1. CASE pSent[x] = 0
    BY <1>2, <2>1
  <2>2. CASE pSent[x] > 0
    <3>1. x \in traffic.clients /\ pSent[x] <= traffic.segs[x]
      BY <2>2 DEF CountInv, SentOK
    <3>2. traffic.segs[x] < RingSize
      BY <1>2, <3>1 DEF RingsSuffice
    <3>3. traffic.segs[x] \in Nat
      BY <1>2, <3>1, TcpAssumption
    <3> QED
      BY <1>2, <1>5, <3>1, <3>2, <3>3
  <2> QED
    BY <1>5, <2>1, <2>2
<1> QED
  BY <1>1, <1>2, <1>5, <1>9, <1>10

(* Only nrecv adds to what the program has read. *)
LEMMA GotKept ==
    ASSUME [Next]_vars, ~RecvTakes
    PROVE  got' = got
<1>1. CASE \/ ServerSocket \/ ServerListens \/ CloseReleases \/ AcceptWaits \/ RecvCall \/ RecvWaits
           \/ SpuriousWakeup \/ SignalAccept \/ SignalData \/ UNCHANGED vars
  BY <1>1 DEF ServerSocket, ServerListens, CloseReleases, AcceptWaits, RecvCall, RecvWaits, SpuriousWakeup,
              SignalAccept, SignalData, vars, appVars
<1>2. CASE \E c \in Conns : \/ NoListener(c) \/ HandleEstablished(c) \/ HandleCloseWait(c)
                            \/ PeerConnects(c) \/ PeerStep(c)
  BY <1>2 DEF NoListener, HandleEstablished, HandleCloseWait, PeerConnects, PeerStep, PeerSends,
              PeerCloses, PeerReceives, appVars
<1>3. CASE StreamStep
  BY <1>3 DEF StreamStep, AcceptTakes, SendEcho, CloseSends, CloseMarks, EnqueuePayload, EnqueueEnd, SendAck,
              HandleListen, HandleSynRcvd, HandleLastAck, TcpOut, appVars
<1> QED
  BY <1>1, <1>2, <1>3, Steps DEF QuietStep

(* A ring that did not grow, for a stream with the same number of bytes. *)
LEMMA FragmentsSame ==
    ASSUME NEW c, FragmentsOK(c), traffic' = traffic, InTable(c)' => InTable(c),
           Closing(c) => Closing(c)', Len(Held(c)') = Len(Held(c)),
           Len(rcvbuf[c]) \in Nat, Len(rcvbuf'[c]) \in Nat, Len(rcvbuf'[c]) <= Len(rcvbuf[c])
    PROVE  FragmentsOK(c)'
<1> SUFFICES ASSUME InTable(c)' PROVE FragmentsOK(c)'
  BY DEF FragmentsOK
<1>1. PICK a \in Nat : /\ Len(Held(c)) = a * SegLen
                       /\ Len(rcvbuf[c]) <= a + (IF Closing(c) THEN 1 ELSE 0)
  BY DEF FragmentsOK
<1>2. SegLen' = SegLen
  BY DEF SegLen
<1>3. Len(rcvbuf'[c]) <= a + (IF Closing(c)' THEN 1 ELSE 0)
  BY <1>1
<1>4. Len(Held(c)') = a * SegLen'
  BY <1>1, <1>2
<1> QED
  BY <1>3, <1>4 DEF FragmentsOK

(* No client has sent anything yet. *)
LEMMA CountInit == Init => CountInv
<1> SUFFICES ASSUME Init, NEW c \in Conns PROVE SentOK(c) /\ FragmentsOK(c)
  BY DEF CountInv
<1>1. pSent[c] = 0 /\ pst[c] = (IF c \in traffic.clients THEN "idle" ELSE "closed") /\ tcbs = <<>>
  BY DEF Init
<1>2. SentOK(c)
  BY <1>1 DEF SentOK
<1>3. ~InTable(c)
  BY <1>1 DEF InTable
<1> QED
  BY <1>2, <1>3 DEF FragmentsOK

(* What a client may do next to its state and to its count. *)
LEMMA PeerMoves ==
    ASSUME StackInv, DataInv, [Next]_vars, NEW c \in Conns
    PROVE  /\ \/ pst'[c] = pst[c]
              \/ pst[c] \in {"idle", "syn_sent", "est"}
              \/ pst'[c] = "closed"
           /\ \/ pSent'[c] = pSent[c]
              \/ pst[c] = "est" /\ pSent[c] < traffic.segs[c] /\ pSent'[c] = pSent[c] + 1
<1>1. /\ pst \in [Conns -> {"idle", "syn_sent", "est", "fin_wait", "closed"}]
      /\ pSent \in [Conns -> Nat] /\ out \in [Conns -> Seq(Packets)]
  BY DEF StackInv, TypeOK, WireInv
<1>2. CASE pst' = pst /\ pSent' = pSent
  BY <1>2
<1>3. ASSUME NEW d \in Conns, PeerConnects(d) \/ PeerSends(d) \/ PeerCloses(d)
      PROVE  /\ pst'[c] = pst[c] \/ pst[c] \in {"idle", "syn_sent", "est"}
             /\ \/ pSent'[c] = pSent[c]
                \/ pst[c] = "est" /\ pSent[c] < traffic.segs[c] /\ pSent'[c] = pSent[c] + 1
  <2>1. CASE PeerConnects(d)
    BY <1>1, <2>1 DEF PeerConnects
  <2>2. CASE PeerSends(d)
    BY <1>1, <2>2 DEF PeerSends
  <2>3. CASE PeerCloses(d)
    BY <1>1, <2>3 DEF PeerCloses
  <2> QED
    BY <1>3, <2>1, <2>2, <2>3
<1>4. ASSUME NEW d \in Conns, PeerReceives(d)
      PROVE  /\ pst'[c] = pst[c] \/ pst[c] = "syn_sent" \/ pst'[c] = "closed"
             /\ pSent' = pSent
  <2>1. pSent' = pSent /\ out[d] # <<>>
    BY <1>4 DEF PeerReceives
  <2>2. PICK v : /\ pst' = [pst EXCEPT ![d] = v]
                 /\ v \in {pst[d], "closed"} \/ "SYN" \in Head(out[d]).flags
    BY <1>1, <1>4 DEF PeerReceives
  <2>3. Head(out[d]) = out[d][1] /\ 1 \in DOMAIN out[d]
    BY <1>1, <2>1, TailProperties
  <2>4. "SYN" \in Head(out[d]).flags => pst[d] = "syn_sent"
    BY <2>3 DEF DataInv, DataOK, SynOnce
  <2> QED
    BY <1>1, <2>1, <2>2, <2>4
<1>5. CASE StreamStep
  BY <1>2, <1>5 DEF StreamStep, AcceptTakes, RecvTakes, SendEcho, CloseSends, CloseMarks, EnqueuePayload,
              EnqueueEnd, SendAck, HandleListen, HandleSynRcvd, HandleLastAck, TcpOut, peerVars
<1>6. CASE \/ ServerSocket \/ ServerListens \/ CloseReleases \/ AcceptWaits \/ RecvCall \/ RecvWaits
           \/ SpuriousWakeup \/ SignalAccept \/ SignalData \/ UNCHANGED vars
  BY <1>2, <1>6 DEF ServerSocket, ServerListens, CloseReleases, AcceptWaits, RecvCall, RecvWaits,
                    SpuriousWakeup, SignalAccept, SignalData, vars, peerVars
<1>7. CASE \E d \in Conns : NoListener(d) \/ HandleEstablished(d) \/ HandleCloseWait(d)
  BY <1>2, <1>7 DEF NoListener, HandleEstablished, HandleCloseWait, peerVars
<1> QED
  BY <1>3, <1>4, <1>5, <1>6, <1>7, Steps DEF QuietStep, PeerStep

(* Clients stay within their traffic. *)
LEMMA SentNext ==
    ASSUME StackInv, DataInv, CountInv, [Next]_vars, NEW c \in Conns
    PROVE  SentOK(c)'
<1>1. SentOK(c) /\ traffic' = traffic /\ traffic \in Traffics /\ pSent[c] \in Nat
  BY TrafficKept DEF CountInv, StackInv, WireInv
<1>2. pst'[c] \in {"idle", "syn_sent", "est"} => c \in traffic'.clients
  BY <1>1, PeerMoves DEF SentOK
<1>3. pSent'[c] > 0 => c \in traffic'.clients /\ pSent'[c] <= traffic'.segs[c]
  <2>1. CASE pSent'[c] = pSent[c]
    BY <1>1, <2>1 DEF SentOK
  <2>2. CASE pst[c] = "est" /\ pSent[c] < traffic.segs[c] /\ pSent'[c] = pSent[c] + 1
    <3>1. c \in traffic.clients
      BY <1>1, <2>2 DEF SentOK
    <3>2. traffic.segs[c] \in Nat
      BY <1>1, <3>1, TcpAssumption
    <3> QED
      BY <1>1, <2>2, <3>1, <3>2
  <2> QED
    BY <2>1, <2>2, PeerMoves
<1> QED
  BY <1>2, <1>3 DEF SentOK

(* One more segment in the ring. *)
LEMMA FragmentsPayload ==
    ASSUME StackInv, DataInv, RoomLeft, CountInv, EnqueuePayload, NEW x \in Conns, x = cur
    PROVE  FragmentsOK(x)'
<1>1. Typed /\ pkt \in Packets /\ rcvbuf \in [Conns -> Seq(Data)] /\ TableInv /\ status[x] = "ESTABLISHED"
  BY DEF StackInv, Typed, WireInv, EndInv, StageInv, EnqueuePayload
<1>2. /\ UNCHANGED <<tcbs, status, got, traffic>> /\ pcP = "psh"
      /\ rcvbuf'[x] = Append(rcvbuf[x], pkt.data)
  BY <1>1 DEF EnqueuePayload, RoomLeft, Enqueue, streamVars, appVars, peerVars
<1>3. InTable(x) /\ ~Closing(x) /\ ~Closing(x)' /\ Stage(x) = "psh"
  BY <1>1, <1>2 DEF TableInv, Closing, Stage
<1>4. PICK a \in Nat : Len(Held(x)) = a * SegLen /\ Len(rcvbuf[x]) <= a + 0
  BY <1>3 DEF CountInv, FragmentsOK
<1>5. /\ SegLen \in Nat \ {0} /\ got[x] \in Seq(Nat) /\ rcvbuf[x] \in Seq(Data) /\ SegLen' = SegLen
      /\ Held(x) \in Seq(Nat) /\ DataOK(x) /\ pkt.data \in Data /\ pkt.data \in Seq(Nat)
  BY <1>1, <1>2, DataFacts DEF SegLen, Packets, Data
<1>6. Len(pkt.data) = SegLen
  BY <1>3, <1>5 DEF DataOK, Handled, SegmentOK
<1>7. Held(x)' = Join(Held(x), pkt.data)
  <2>1. Hold(got[x], Append(rcvbuf[x], pkt.data)) = Join(Hold(got[x], rcvbuf[x]), pkt.data)
    BY <1>5, HoldQueued
  <2> QED
    BY <1>2, <2>1, HeldIsHold
<1>8. Len(Held(x)') = Len(Held(x)) + SegLen
  <2>1. Len(Join(Held(x), pkt.data)) = Len(Held(x)) + Len(pkt.data)
    BY <1>5, JoinElements
  <2> QED
    BY <1>6, <1>7, <2>1
<1>9. Len(Held(x)') = (a + 1) * SegLen'
  <2>1. (a + 1) * SegLen = a * SegLen + SegLen
    BY <1>5
  <2> QED
    BY <1>4, <1>5, <1>8, <2>1
<1>10. Len(rcvbuf'[x]) <= (a + 1) + 0
  BY <1>2, <1>4, <1>5
<1> QED
  BY <1>3, <1>9, <1>10 DEF FragmentsOK

(* The end mark takes one place more than the segments do. *)
LEMMA FragmentsEnd ==
    ASSUME StackInv, DataInv, RoomLeft, CountInv, EnqueueEnd, NEW x \in Conns, x = cur
    PROVE  FragmentsOK(x)'
<1>1. /\ Typed /\ rcvbuf \in [Conns -> Seq(Data)] /\ TableInv /\ status[x] = "ESTABLISHED"
      /\ status \in [Conns -> {"CLOSED", "SYN_RCVD", "ESTABLISHED", "CLOSE_WAIT", "LAST_ACK"}]
  BY DEF StackInv, Typed, TypeOK, WireInv, EndInv, StageInv, EnqueueEnd
<1>2. /\ UNCHANGED <<tcbs, got, traffic>> /\ pcP = "fin"
      /\ rcvbuf'[x] = Append(rcvbuf[x], <<>>) /\ status'[x] = "CLOSE_WAIT"
  BY <1>1 DEF EnqueueEnd, RoomLeft, Enqueue, streamVars, appVars, peerVars
<1>3. InTable(x) /\ ~Closing(x) /\ Closing(x)'
  BY <1>1, <1>2 DEF TableInv, Closing
<1>4. PICK a \in Nat : Len(Held(x)) = a * SegLen /\ Len(rcvbuf[x]) <= a + 0
  BY <1>3 DEF CountInv, FragmentsOK
<1>5. /\ got[x] \in Seq(Nat) /\ rcvbuf[x] \in Seq(Data) /\ SegLen' = SegLen /\ Held(x) \in Seq(Nat)
      /\ <<>> \in Data /\ <<>> \in Seq(Nat)
  BY <1>1, <1>2, DataFacts, EmptyTyped DEF SegLen
<1>6. Held(x)' = Join(Held(x), <<>>)
  <2>1. Hold(got[x], Append(rcvbuf[x], <<>>)) = Join(Hold(got[x], rcvbuf[x]), <<>>)
    BY <1>5, HoldQueued
  <2> QED
    BY <1>2, <2>1, HeldIsHold
<1>7. Len(Held(x)') = Len(Held(x))
  <2>1. Len(Join(Held(x), <<>>)) = Len(Held(x)) + Len(<<>>)
    BY <1>5, JoinElements
  <2>2. Len(<<>>) = 0 /\ Len(Held(x)) \in Nat
    BY <1>5
  <2> QED
    BY <1>6, <2>1, <2>2
<1>8. Len(rcvbuf'[x]) <= a + 1
  BY <1>2, <1>4, <1>5
<1> QED
  BY <1>3, <1>4, <1>5, <1>7, <1>8 DEF FragmentsOK

(* A stream whose ring and bytes a step leaves alone. *)
LEMMA FragmentsKept ==
    ASSUME StackInv, DataInv, CountInv, [Next]_vars, NEW c \in Conns, got'[c] = got[c],
           rcvbuf'[c] = rcvbuf[c], InTable(c)' => InTable(c), Closing(c) => Closing(c)'
    PROVE  FragmentsOK(c)'
<1>1. Typed /\ FragmentsOK(c) /\ traffic' = traffic /\ Held(c)' = Held(c)
  BY TrafficKept DEF StackInv, Typed, CountInv, Held
<1>2. rcvbuf[c] \in Seq(Data)
  BY <1>1, DataFacts
<1>3. Len(rcvbuf[c]) \in Nat /\ Len(rcvbuf[c]) <= Len(rcvbuf[c])
  BY <1>2
<1> QED
  BY <1>1, <1>3, FragmentsSame

(* Every step keeps the count. *)
LEMMA FragmentsNext ==
    ASSUME StackInv, DataInv, RoomLeft, CountInv, [Next]_vars, NEW c \in Conns
    PROVE  FragmentsOK(c)'
<1>1. /\ Typed /\ FdInv /\ PtrInv /\ StageInv /\ CloseInv /\ TableInv /\ FragmentsOK(c) /\ ClientInv
      /\ traffic' = traffic
  BY TrafficKept DEF StackInv, Typed, EndInv, CountInv
<1>2. /\ status \in [Conns -> {"CLOSED", "SYN_RCVD", "ESTABLISHED", "CLOSE_WAIT", "LAST_ACK"}]
      /\ rcvbuf \in [Conns -> Seq(Data)] /\ inp \in [Conns -> Seq(Packets)] /\ tcbs \in Seq(Conns)
  BY <1>1 DEF Typed, TypeOK, WireInv
<1>3. ASSUME ~RecvTakes, rcvbuf'[c] = rcvbuf[c], InTable(c)' => InTable(c), Closing(c) => Closing(c)'
      PROVE  FragmentsOK(c)'
  BY <1>3, GotKept, FragmentsKept
<1>4. CASE RecvTakes
  <2>1. PICK x \in Conns : x = ptr
    BY <1>1, <1>4 DEF PtrInv, RecvTakes
  <2>2. /\ Len(Held(x)') = Len(Held(x)) /\ Len(rcvbuf'[x]) <= Len(rcvbuf[x])
        /\ \A d \in Conns \ {x} : got'[d] = got[d] /\ rcvbuf'[d] = rcvbuf[d]
    BY <1>4, <2>1, HeldTaken
  <2>3. UNCHANGED <<tcbs, status>>
    BY <1>4 DEF RecvTakes
  <2>4. (InTable(c)' => InTable(c)) /\ (Closing(c) => Closing(c)')
    BY <2>3, TableSame DEF Closing
  <2>5. CASE c = x
    <3>1. Len(rcvbuf[c]) \in Nat /\ Len(rcvbuf'[c]) \in Nat
      <4>1. Typed'
        BY TypedNext
      <4>2. rcvbuf'[c] \in Seq(Data)
        BY <4>1 DEF Typed, WireInv
      <4> QED
        BY <1>2, <4>2
    <3> QED
      BY <1>1, <2>2, <2>4, <2>5, <3>1, FragmentsSame
  <2>6. CASE c # x
    BY <2>2, <2>4, <2>6, FragmentsKept
  <2> QED
    BY <2>5, <2>6
<1>5. CASE /\ QuietStep \/ AcceptTakes \/ SendEcho \/ CloseSends \/ SendAck \/ \E d \in Conns : TcpOut(d)
           /\ ~RecvTakes
  <2>1. rcvbuf' = rcvbuf /\ status' = status /\ tcbs' = tcbs
    BY <1>5, QuietStreams DEF streamVars, AcceptTakes, SendEcho, CloseSends, SendAck, TcpOut
  <2>2. (InTable(c)' => InTable(c)) /\ (Closing(c) => Closing(c)')
    BY <2>1, TableSame DEF Closing
  <2> QED
    BY <1>3, <1>5, <2>1, <2>2
<1>6. CASE CloseMarks /\ ~RecvTakes
  <2>1. PICK s \in Conns : s = ptr
    BY <1>1, <1>6 DEF CloseMarks, CloseInv
  <2>2. rcvbuf' = rcvbuf /\ tcbs' = tcbs /\ status' = [status EXCEPT ![s] = "LAST_ACK"]
    BY <1>6, <2>1 DEF CloseMarks
  <2>3. (InTable(c)' => InTable(c)) /\ (Closing(c) => Closing(c)')
    BY <1>2, <2>2, TableSame DEF Closing
  <2> QED
    BY <1>3, <1>6, <2>2, <2>3
<1>7. CASE (EnqueuePayload \/ EnqueueEnd) /\ ~RecvTakes
  <2>1. PICK x \in Conns : x = cur
    BY <1>1, <1>7 DEF EnqueuePayload, EnqueueEnd, StageInv
  <2>2. CASE c = x
    BY <1>7, <2>1, <2>2, FragmentsPayload, FragmentsEnd
  <2>3. CASE c # x
    <3>1. tcbs' = tcbs /\ rcvbuf'[c] = rcvbuf[c] /\ status'[c] = status[c]
      BY <1>2, <1>7, <2>1, <2>3 DEF EnqueuePayload, EnqueueEnd
    <3>2. (InTable(c)' => InTable(c)) /\ (Closing(c) => Closing(c)')
      BY <3>1, TableSame DEF Closing
    <3> QED
      BY <1>3, <1>7, <3>1, <3>2
  <2> QED
    BY <2>2, <2>3
<1>8. ASSUME NEW d \in Conns, HandleSynRcvd(d), ~RecvTakes PROVE FragmentsOK(c)'
  <2>1. /\ rcvbuf' = rcvbuf /\ tcbs' = tcbs /\ status[d] = "SYN_RCVD"
        /\ \A e \in Conns \ {d} : status'[e] = status[e]
    BY <1>2, <1>8 DEF HandleSynRcvd
  <2>2. (InTable(c)' => InTable(c)) /\ (Closing(c) => Closing(c)')
    BY <2>1, TableSame DEF Closing
  <2> QED
    BY <1>3, <1>8, <2>1, <2>2
<1>9. ASSUME NEW d \in Conns, HandleLastAck(d), ~RecvTakes PROVE FragmentsOK(c)'
  <2>1. InTable(d) /\ tcbs' = RemoveAt(tcbs, PlaceOf(d))
    BY <1>9 DEF HandleLastAck
  <2>2. CASE c = d
    <3>1. ~InTable(c)'
      BY <1>1, <2>1, <2>2, TableShrinks
    <3> QED
      BY <3>1 DEF FragmentsOK
  <2>3. CASE c # d
    <3>1. status'[c] = status[c] /\ rcvbuf'[c] = rcvbuf[c]
      BY <1>2, <1>9, <2>3 DEF HandleLastAck
    <3>2. InTable(c)' => InTable(c)
      BY <1>1, <2>1, TableShrinks
    <3> QED
      BY <1>3, <1>9, <3>1, <3>2 DEF Closing
  <2> QED
    BY <2>2, <2>3
<1>10. ASSUME NEW d \in Conns, HandleListen(d), ~RecvTakes PROVE FragmentsOK(c)'
  <2>1. rcvbuf' = rcvbuf /\ ~InTable(d) /\ inp[d] # <<>>
    BY <1>10 DEF HandleListen, Arrives
  <2>2. CASE "SYN" \notin Head(inp[d]).flags
    <3>1. tcbs' = tcbs /\ status' = status
      BY <1>10, <2>2 DEF HandleListen
    <3>2. (InTable(c)' => InTable(c)) /\ (Closing(c) => Closing(c)')
      BY <3>1, TableSame DEF Closing
    <3> QED
      BY <1>3, <1>10, <2>1, <3>2
  <2>3. CASE "SYN" \in Head(inp[d]).flags
    <3>1. tcbs' = <<d>> \o tcbs /\ status' = [status EXCEPT ![d] = "SYN_RCVD"]
      BY <1>10, <2>3 DEF HandleListen
    <3>2. CASE c # d
      <4>1. InTable(c)' => InTable(c)
        BY <1>1, <2>1, <3>1, <3>2, TableGrows
      <4>2. Closing(c) => Closing(c)'
        BY <1>2, <3>1, <3>2 DEF Closing
      <4> QED
        BY <1>3, <1>10, <2>1, <4>1, <4>2
    <3>3. CASE c = d
      <4>1. Head(inp[d]) = inp[d][1] /\ 1 \in DOMAIN inp[d]
        BY <1>2, <2>1, TailProperties
      <4>2. pst[d] = "syn_sent"
        BY <1>1, <2>3, <4>1 DEF ClientInv, ClientOK, PacketInv
      <4>3. got[c] = <<>> /\ rcvbuf[c] = <<>>
        BY <3>3, <4>2 DEF DataInv, DataOK, Handshake, Connected
      <4>4. got'[c] = <<>> /\ rcvbuf'[c] = <<>>
        BY <1>10, <2>1, <4>3, GotKept
      <4>5. Held(c)' = <<>>
        <5>1. <<>> \in Seq(Nat) /\ <<>> \in Seq(Data) /\ <<>> \in Data
          BY EmptyTyped
        <5>2. Hold(<<>>, <<>>) = <<>>
          BY <5>1, HoldQueued
        <5> QED
          BY <4>4, <5>2, HeldIsHold
      <4>6. SegLen' \in Nat
        BY <1>1, TcpAssumption DEF SegLen, Typed, WireInv
      <4>7. Len(<<>>) = 0 /\ 0 * SegLen' = 0 /\ 0 \in Nat
        <5>1. \A k \in Nat : 0 * k = 0
          OBVIOUS
        <5> QED
          BY <4>6, <5>1
      <4>8. Len(rcvbuf'[c]) <= 0 + (IF Closing(c)' THEN 1 ELSE 0)
        BY <4>4, <4>7
      <4> QED
        BY <4>5, <4>7, <4>8 DEF FragmentsOK
    <3> QED
      BY <3>2, <3>3
  <2> QED
    BY <2>2, <2>3
<1> QED
  BY <1>4, <1>5, <1>6, <1>7, <1>8, <1>9, <1>10, Steps DEF StreamStep

(* Every step of a stack with room keeps the counts. *)
LEMMA CountNext == StackInv /\ DataInv /\ RoomLeft /\ CountInv /\ [Next]_vars => CountInv'
BY SentNext, FragmentsNext DEF CountInv

(* With traffic that fits the rings nothing acknowledged is ever lost,     *)
(* although the code never looks at the result of an enqueue.              *)
THEOREM AckedBytesFit ==
    ASSUME RingsSuffice
    PROVE  Spec => []AckedIsKept
<1>1. Spec => []StackInv
  BY StackInit, StackNext, PTL DEF Spec
<1>2. StackInv /\ DataInv /\ CountInv => RoomLeft
  BY RoomFollows
<1>3. Spec => [](StackInv /\ DataInv /\ CountInv)
  BY <1>1, <1>2, DataInit, CountInit, DataNext, CountNext, PTL DEF Spec
<1>4. StackInv /\ DataInv => AckedIsKept
  BY DataShows
<1> QED
  BY <1>3, <1>4, PTL

(* With such traffic bytes are delivered in order and completely.          *)
THEOREM BytesInOrderFit ==
    ASSUME RingsSuffice
    PROVE  Spec => []InOrderDelivery
<1>1. Spec => []StackInv
  BY StackInit, StackNext, PTL DEF Spec
<1>2. StackInv /\ DataInv /\ CountInv => RoomLeft
  BY RoomFollows
<1>3. Spec => [](StackInv /\ DataInv /\ CountInv)
  BY <1>1, <1>2, DataInit, CountInit, DataNext, CountNext, PTL DEF Spec
<1>4. StackInv /\ DataInv => InOrderDelivery
  BY DataShows
<1> QED
  BY <1>3, <1>4, PTL
=============================================================================
