------------------------------ MODULE UdpStack -------------------------------
(***************************************************************************)
(* The packet path of tcp.c around TcpServer and DdosWindow: the loop of   *)
(* main between the port and the two rings, the ARP table and its timer,   *)
(* pkt_process, and the UDP echo server with its socket calls.  Four       *)
(* threads run: main, pkt_process, udp_server_entry and, until its socket  *)
(* is bound, tcp_server_entry, which takes a descriptor from the same      *)
(* bitmap without a lock.                                                  *)
(*                                                                         *)
(* A cell of data stands for as many bytes as a UDP header has (8): Nul is *)
(* one that ends a string, Junk one that is not the sender's, and any      *)
(* other cell is <<datagram, position>>.                                   *)
(***************************************************************************)
EXTENDS Integers, Sequences, FiniteSets, SequencesExt

CONSTANTS Hosts,        \* the other machines of the network
          Scenarios,    \* what happens around the program: the packets that
                        \* arrive, how often the ARP timer fires, how many
                        \* allocations fail, how often the interface is set
                        \* up or down, and whether the servers still have to
                        \* be started
          Tight,        \* lengths that rte_malloc does not round up
          BufLen,       \* UDP_APP_RECV_BUFFER_SIZE, in cells
          Burst,        \* BURST_SIZE
          RingSize      \* usable entries of a ring

\* 0 stands for no MAC address, and Packet numbers the packets.  zero is the
\* first cell of the data with a zero byte in it, if there is one.
Frames == [id : {0}, kind : {"udp", "tcp", "icmp", "other"}, src : Hosts, mac : Nat \ {0},
           len : Nat, zero : Nat, port : Nat]

ASSUME StackAssumption ==
  /\ IsFiniteSet(Hosts) /\ BufLen \in Nat /\ RingSize \in Nat /\ Burst \in Nat \ {0}
  /\ \A s \in Scenarios : s.packets \in Seq(Frames) /\ s.cold \in BOOLEAN

VARIABLES nic, inRing, outRing, wire,
          entries, count,         \* arp_table: list, head first, and count
          ppc, mbufs, at,         \* pkt_process
          fdTable, host, tcb,     \* bitmap, lhost, tcb_set
          upc, ufd, buffer, from, \* udp_server_entry
          ol,                     \* the part of a datagram nrecvfrom has to put back
          tpc, tfd,               \* tcp_server_entry, up to nbind
          scene, arrived,         \* the scenario, and how many packets have arrived
          timers, fails, configs, \* what the scenario still has in store
          port,                   \* "up" or "down"
          lost,                   \* packets that found a ring full
          owner,                  \* who has a packet's mbuf
          fault                   \* "none", or "freed": an mbuf was used after its release

udpVars == <<nic, inRing, outRing, wire, entries, count, ppc, mbufs, at, fdTable, host, tcb,
             upc, ufd, buffer, from, ol, tpc, tfd, scene, arrived, timers, fails, configs, port, lost, owner, fault>>

UdpPort == 8889
TcpPort == 9999
HeaderLen == 1
Nul == <<0, 0>>
Junk == <<0, 1>>

Pushed(ring, x) == IF Len(ring) < RingSize THEN Append(ring, x) ELSE ring
TakeUpTo(ring, n) == SubSeq(ring, 1, IF Len(ring) < n THEN Len(ring) ELSE n)
LeaveAfter(ring, n) == SubSeq(ring, n + 1, Len(ring))

\* struct localhost; fd is 0 before nsocket.
NoHost == [fd |-> 0, port |-> 0, rcvbuf |-> <<>>, sndbuf |-> <<>>]
NoTcb == [fd |-> 0, port |-> 0]
NoOne == [re |-> 0, to |-> 0]
NoPart == [re |-> 0, to |-> 0, data |-> <<>>]

UdpInit ==
  /\ nic = <<>> /\ inRing = <<>> /\ outRing = <<>> /\ wire = {}
  /\ entries = <<>> /\ count = 0
  /\ ppc = "dequeue" /\ mbufs = <<>> /\ at = 1
  /\ scene \in Scenarios /\ arrived = 0 /\ timers = scene.timers /\ fails = scene.fails
  /\ configs = scene.configs /\ port = "up"
  /\ fdTable = IF scene.cold THEN {} ELSE {3, 4}
  /\ host = IF scene.cold THEN NoHost ELSE [NoHost EXCEPT !.fd = 3, !.port = UdpPort]
  /\ tcb = IF scene.cold THEN NoTcb ELSE [fd |-> 4, port |-> TcpPort]
  /\ upc = (IF scene.cold THEN "scan" ELSE "recv") /\ ufd = IF scene.cold THEN 0 ELSE 3
  /\ tpc = (IF scene.cold THEN "scan" ELSE "listen") /\ tfd = IF scene.cold THEN 0 ELSE 4
  /\ buffer = [i \in 1 .. BufLen |-> Nul] /\ from = NoOne /\ ol = NoPart
  /\ lost = {} /\ owner = [n \in DOMAIN scene.packets |-> "port"] /\ fault = "none"

portVars == <<port, configs>>
mainVars == <<nic, inRing, wire, timers, portVars>>
arpVars == <<entries, count, fails>>
pktVars == <<ppc, mbufs, at>>
netVars == <<scene, arrived>>
appVars == <<upc, ufd, buffer, from, ol>>
startVars == <<tpc, tfd, fdTable, tcb>>

-----------------------------------------------------------------------------
(***************************************************************************)
(* The ARP table.  A lookup looks at as many entries as count says, and    *)
(* takes no lock: while an insertion has linked its entry and not counted  *)
(* it yet, the last entry of the list is not looked at.                    *)
(***************************************************************************)
Looked == TakeUpTo(entries, count)

ng_get_dst_macaddr(ip) ==
  LET hits == {i \in DOMAIN Looked : Looked[i].ip = ip}
  IN IF hits = {} THEN 0 ELSE Looked[CHOOSE i \in hits : \A j \in hits : i <= j].mac

\* Every bit of gDefaultArpMac is set.  ng_encode_arp_pkt recognises it and
\* sends to address zero instead.
Broadcast == 255

ng_encode_arp_pkt(dst) == IF dst = Broadcast THEN 0 ELSE dst

ng_send_arp(dst, ip) == [type |-> "arp", ip |-> ip, mac |-> ng_encode_arp_pkt(dst), re |-> 0, data |-> <<>>]

-----------------------------------------------------------------------------
\* The loop of main.

\* rte_eth_rx_burst and the in ring; what does not fit is forgotten.
Rx ==
  LET burst == TakeUpTo(nic, Burst)
      fit == TakeUpTo(burst, RingSize - Len(inRing))
  IN /\ nic # <<>>
     /\ nic' = LeaveAfter(nic, Burst)
     /\ inRing' = inRing \o fit
     /\ lost' = lost \cup {burst[i].id : i \in Len(fit) + 1 .. Len(burst)}
     /\ UNCHANGED <<outRing, wire, timers, portVars, arpVars, pktVars, appVars, startVars, host, netVars, owner, fault>>

\* rte_eth_tx_burst takes the first of them, none when the port is down;
\* how many it took is not looked at, and all are freed.
Tx ==
  LET burst == TakeUpTo(outRing, Burst)
      udp(q) == {p \in ToSet(q) : p.type = "udp"}
  IN /\ outRing # <<>>
     /\ \E taken \in 0 .. (IF port = "up" THEN Len(burst) ELSE 0) :
           /\ wire' = wire \cup udp(TakeUpTo(burst, taken))
           /\ lost' = lost \cup {p.re : p \in udp(LeaveAfter(burst, taken))}
     /\ outRing' = LeaveAfter(outRing, Burst)
     /\ UNCHANGED <<nic, inRing, timers, portVars, arpVars, pktVars, appVars, startVars, host, netVars, owner, fault>>

\* arp_request_timer_cb: a request to every address, by its known MAC or by
\* broadcast; what does not fit the ring is forgotten.
ArpRequests ==
  LET dst(ip) == IF ng_get_dst_macaddr(ip) = 0 THEN Broadcast ELSE ng_get_dst_macaddr(ip)
  IN TakeUpTo(SetToSeq({ng_send_arp(dst(ip), ip) : ip \in Hosts}), RingSize - Len(outRing))

\* rte_timer_manage once the resolution has passed.
ArpTimer ==
  /\ timers > 0
  /\ timers' = timers - 1
  /\ outRing' = outRing \o ArpRequests
  /\ UNCHANGED <<nic, inRing, wire, portVars, arpVars, pktVars, appVars, startVars, host, netVars, lost, owner, fault>>

-----------------------------------------------------------------------------
\* pkt_process.  pkt is the packet it is working on.
pkt == mbufs[at]

PktSame == UNCHANGED <<nic, inRing, wire, timers, portVars, startVars, appVars, netVars>>

Dequeue ==
  /\ ppc = "dequeue"
  /\ mbufs' = TakeUpTo(inRing, Burst) /\ at' = 1
  /\ inRing' = LeaveAfter(inRing, Burst)
  /\ ppc' = IF inRing = <<>> THEN "out" ELSE "packet"
  /\ UNCHANGED <<nic, wire, timers, portVars, outRing, arpVars, startVars, appVars, host, netVars, lost, owner, fault>>

\* After a packet: the next one of the batch, or udp_out.
Following == IF at < Len(mbufs) THEN "packet" ELSE "out"

\* An IPv4 packet's source goes into the table if it is not there; packets
\* that are not IPv4 go to the kernel at once.
Learn ==
  /\ ppc = "packet" /\ pkt.kind # "other"
  /\ ng_get_dst_macaddr(pkt.src) = 0
  /\ \/ /\ entries' = <<[ip |-> pkt.src, mac |-> pkt.mac]>> \o entries
        /\ ppc' = "count" /\ UNCHANGED fails
     \/ /\ fails > 0
        /\ fails' = fails - 1 /\ ppc' = "process" /\ UNCHANGED entries
  /\ UNCHANGED <<count, mbufs, at, outRing, host, lost, owner, fault>> /\ PktSame

\* The packet's source is in the table, or is not an IP address.
Ready == \/ ppc = "process"
         \/ ppc = "packet" /\ (pkt.kind = "other" \/ ng_get_dst_macaddr(pkt.src) # 0)

Counted ==
  /\ ppc = "count"
  /\ count' = count + 1 /\ ppc' = "process"
  /\ UNCHANGED <<entries, fails, mbufs, at, outRing, host, lost, owner, fault>> /\ PktSame

\* rte_pktmbuf_free, or the hand-over to the kernel, of packets ids.  The
\* packet at hand is done with: if it is not one of them it is left to nobody.
Release(ids, to) ==
  /\ owner' = [n \in DOMAIN owner |-> IF n \in ids THEN to
                                      ELSE IF n = pkt.id /\ owner[n] = "port" THEN "left" ELSE owner[n]]
  /\ fault' = IF \E n \in ids : owner[n] \in {"pool", "kernel"} THEN "freed" ELSE fault

\* get_hostinfo_fromip_port; a port here stands for the destination address
\* and the port, which are compared together.
Bound(dport) == host.fd # 0 /\ host.port = dport

\* The datagram can be stored: rte_malloc gives no memory for no bytes.
Storable(p) == Bound(p.port) /\ p.len > 0

\* Mutant: the length of the data alone.
StoredLenPayload(len) == len

\* The length udp_process stores is that of the datagram with its header,
\* the data is copied without it: later copies read past its end.
StoredLen(len) == len + HeaderLen

Offload(d) ==
  [re |-> d.id, to |-> d.src,
   data |-> [i \in 1 .. StoredLen(d.len) |->
               IF i <= d.len THEN (IF i = d.zero THEN Nul ELSE <<d.id, i>>)
               ELSE IF d.len \in Tight THEN Junk ELSE Nul]]

\* udp_process: the datagram is put into rcvbuf outside the mutex.
UdpProcess ==
  /\ Ready /\ pkt.kind = "udp"
  /\ host' = IF Storable(pkt) THEN [host EXCEPT !.rcvbuf = Pushed(@, Offload(pkt))] ELSE host
  /\ lost' = IF Storable(pkt) /\ Len(host.rcvbuf) < RingSize THEN lost ELSE lost \cup {pkt.id}
  /\ Release({pkt.id}, "pool")
  /\ ppc' = IF Storable(pkt) THEN "signal" ELSE Following
  /\ at' = IF Storable(pkt) THEN at ELSE at + 1
  /\ UNCHANGED <<arpVars, mbufs, outRing>> /\ PktSame

\* Mutant: the packet is not released.
UdpProcessFailsLeak ==
  /\ Ready /\ pkt.kind = "udp" /\ Bound(pkt.port) /\ fails > 0
  /\ fails' = fails - 1
  /\ lost' = lost \cup {pkt.id}
  /\ ppc' = Following /\ at' = at + 1
  /\ UNCHANGED <<entries, count, mbufs, outRing, host, owner, fault>> /\ PktSame

\* rte_malloc fails for the offload or its data: the datagram is dropped.
UdpProcessFails ==
  /\ Ready /\ pkt.kind = "udp" /\ Bound(pkt.port) /\ fails > 0
  /\ fails' = fails - 1
  /\ lost' = lost \cup {pkt.id}
  /\ Release({pkt.id}, "pool")
  /\ ppc' = Following /\ at' = at + 1
  /\ UNCHANGED <<entries, count, mbufs, outRing, host>> /\ PktSame

\* Mutant: nobody is woken.
WokenNever == upc

\* pthread_cond_signal under the mutex wakes nrecvfrom.
Woken == IF upc = "asleep" THEN "recv" ELSE upc

Signal ==
  /\ ppc = "signal"
  /\ upc' = Woken
  /\ ppc' = Following /\ at' = at + 1
  /\ UNCHANGED <<arpVars, mbufs, outRing, host, lost, owner, fault, nic, inRing, wire, timers,
                 portVars, startVars, ufd, buffer, from, ol, netVars>>

\* ng_tcp_process is TcpServer's; it ends with rte_pktmbuf_free.
TcpProcess ==
  /\ Ready /\ pkt.kind = "tcp"
  /\ Release({pkt.id}, "pool")
  /\ ppc' = Following /\ at' = at + 1
  /\ UNCHANGED <<arpVars, mbufs, outRing, host, lost>> /\ PktSame

\* Anything else: rte_kni_tx_burst is given the whole batch and takes the
\* first of it that its queue has room for; the result is not looked at.
KniBurst ==
  /\ Ready /\ pkt.kind \in {"icmp", "other"}
  /\ \E taken \in 0 .. Len(mbufs) : Release({mbufs[i].id : i \in 1 .. taken}, "kernel")
  /\ ppc' = Following /\ at' = at + 1
  /\ UNCHANGED <<arpVars, mbufs, outRing, host, lost>> /\ PktSame

\* rte_kni_handle_request after the batch: ifconfig up restarts the port,
\* down stops it; both lose what waits in its queue.
ng_config_network_if(if_up) ==
  /\ ppc = "out" /\ configs > 0
  /\ configs' = configs - 1
  /\ port' = IF if_up THEN "up" ELSE "down"
  /\ nic' = <<>>
  /\ lost' = lost \cup {p.id : p \in ToSet(nic)}
  /\ UNCHANGED <<inRing, wire, timers, outRing, arpVars, pktVars, startVars, appVars, host, netVars, owner, fault>>

ng_udp_pkt(d, mac) == [type |-> "udp", ip |-> d.to, mac |-> mac, re |-> d.re, data |-> d.data]

\* udp_out: one datagram of the host's sndbuf.  If the MAC is not known an
\* ARP request goes out and the datagram back into the ring.
UdpOut ==
  LET d == Head(host.sndbuf)
      rest == Tail(host.sndbuf)
      mac == ng_get_dst_macaddr(d.to)
  IN /\ ppc = "out"
     /\ ppc' = "dequeue"
     /\ IF host.sndbuf = <<>> THEN UNCHANGED <<outRing, host, lost>>
        ELSE IF mac = 0
        THEN /\ outRing' = Pushed(outRing, ng_send_arp(Broadcast, d.to))
             /\ host' = [host EXCEPT !.sndbuf = Pushed(rest, d)]
             /\ UNCHANGED lost
        ELSE /\ outRing' = Pushed(outRing, ng_udp_pkt(d, mac))
             /\ lost' = IF Len(outRing) < RingSize THEN lost ELSE lost \cup {d.re}
             /\ host' = [host EXCEPT !.sndbuf = rest]
     /\ UNCHANGED <<arpVars, mbufs, at, owner, fault>> /\ PktSame

-----------------------------------------------------------------------------
(***************************************************************************)
(* The server threads.  get_fd_frombitmap finds the lowest free bit and    *)
(* then sets it; nbind looks its descriptor up among the UDP hosts first,  *)
(* then among the TCP sockets, and binds what it finds.                    *)
(***************************************************************************)
LowestFd == CHOOSE fd \in 3 .. 5 : fd \notin fdTable /\ \A g \in 3 .. fd - 1 : g \in fdTable

\* Mutant: the UDP host is found whatever its descriptor.
HostinfoFirst(fd) ==
  IF host.fd # 0 THEN "host" ELSE IF tcb.fd = fd THEN "tcb" ELSE "none"

get_hostinfo_fromfd(fd) ==
  IF host.fd = fd THEN "host" ELSE IF tcb.fd = fd THEN "tcb" ELSE "none"

nsocket(fd) == [NoHost EXCEPT !.fd = fd]

nbind(fd, sin_port) ==
  /\ host' = IF get_hostinfo_fromfd(fd) = "host" THEN [host EXCEPT !.port = sin_port] ELSE host
  /\ tcb' = IF get_hostinfo_fromfd(fd) = "tcb" THEN [tcb EXCEPT !.port = sin_port] ELSE tcb

AppSame == UNCHANGED <<mainVars, outRing, arpVars, pktVars, netVars, lost, owner, fault>>

UdpStarts ==
  /\ \/ upc = "scan" /\ ufd' = LowestFd /\ upc' = "mark" /\ UNCHANGED <<fdTable, host, tcb>>
     \/ /\ upc = "mark" /\ fdTable' = fdTable \cup {ufd} /\ upc' = "bind"
        /\ host' = nsocket(ufd) /\ UNCHANGED <<ufd, tcb>>
     \/ upc = "bind" /\ nbind(ufd, UdpPort) /\ upc' = "recv" /\ UNCHANGED <<ufd, fdTable>>
  /\ UNCHANGED <<buffer, from, ol, tpc, tfd>> /\ AppSame

TcpStarts ==
  /\ \/ tpc = "scan" /\ tfd' = LowestFd /\ tpc' = "mark" /\ UNCHANGED <<fdTable, host, tcb>>
     \/ /\ tpc = "mark" /\ fdTable' = fdTable \cup {tfd} /\ tpc' = "bind"
        /\ tcb' = [tcb EXCEPT !.fd = tfd] /\ UNCHANGED <<tfd, host>>
     \/ tpc = "bind" /\ nbind(tfd, TcpPort) /\ tpc' = "listen" /\ UNCHANGED <<tfd, fdTable>>
  /\ UNCHANGED appVars /\ AppSame

\* nrecvfrom: waits for a datagram, copies what fits the buffer over what
\* the buffer held.
nrecvfrom ==
  LET d == Head(host.rcvbuf)
      rest == [d EXCEPT !.data = LeaveAfter(@, BufLen)]
      got == TakeUpTo(d.data, BufLen)
  IN /\ upc = "recv"
     /\ IF host.rcvbuf = <<>> THEN upc' = "asleep" /\ UNCHANGED <<host, buffer, from, ol>>
        ELSE /\ buffer' = got \o LeaveAfter(buffer, Len(got))
             /\ from' = [re |-> d.re, to |-> d.to]
             /\ host' = [host EXCEPT !.rcvbuf = Tail(@)]
             /\ IF rest.data = <<>> THEN upc' = "send" /\ UNCHANGED ol ELSE upc' = "requeue" /\ ol' = rest
     /\ UNCHANGED <<ufd, startVars>> /\ AppSame

\* The rest goes behind later datagrams, outside the mutex: the ring may be
\* full again, and then it is lost.
Requeue ==
  /\ upc = "requeue"
  /\ host' = [host EXCEPT !.rcvbuf = Pushed(@, ol)]
  /\ lost' = IF Len(host.rcvbuf) < RingSize THEN lost ELSE lost \cup {ol.re}
  /\ ol' = NoPart /\ upc' = "send"
  /\ UNCHANGED <<ufd, buffer, from, startVars, mainVars, outRing, arpVars, pktVars, netVars, owner, fault>>

\* The answer is as long as strlen(buffer) says, which looks on behind a
\* buffer without an end.
StrLen(b) == IF \E i \in DOMAIN b : b[i] = Nul
             THEN (CHOOSE i \in DOMAIN b : b[i] = Nul /\ \A j \in 1 .. i - 1 : b[j] # Nul) - 1
             ELSE Len(b)

\* rte_malloc gives no memory for an empty answer: nothing is sent then.
nsendto(beyond) ==
  LET n == StrLen(buffer)
      data == SubSeq(buffer, 1, n) \o (IF n = BufLen THEN beyond ELSE <<>>)
  IN /\ upc = "send"
     /\ host' = IF data = <<>> THEN host
                ELSE [host EXCEPT !.sndbuf = Pushed(@, [re |-> from.re, to |-> from.to, data |-> data])]
     /\ lost' = IF data = <<>> \/ Len(host.sndbuf) < RingSize THEN lost ELSE lost \cup {from.re}
     /\ upc' = "recv"
     /\ UNCHANGED <<ufd, buffer, from, ol, startVars, mainVars, outRing, arpVars, pktVars, netVars, owner, fault>>

\* rte_malloc fails in nsendto, which the server does not look at.
SendFails ==
  /\ upc = "send" /\ fails > 0
  /\ fails' = fails - 1 /\ lost' = lost \cup {from.re} /\ upc' = "recv"
  /\ UNCHANGED <<ufd, buffer, from, ol, host, startVars, mainVars, outRing, entries, count, pktVars, netVars, owner, fault>>

-----------------------------------------------------------------------------
\* The network: a packet for this machine.
Packet(n) == [scene.packets[n] EXCEPT !.id = n]

Arrive ==
  /\ arrived < Len(scene.packets)
  /\ arrived' = arrived + 1
  /\ nic' = IF port = "up" THEN Append(nic, Packet(arrived + 1)) ELSE nic
  /\ lost' = IF port = "up" THEN lost ELSE lost \cup {arrived + 1}
  /\ UNCHANGED <<scene, inRing, outRing, wire, timers, portVars, arpVars, pktVars, appVars, startVars, host, owner, fault>>

PktStep == Dequeue \/ Learn \/ Counted \/ UdpProcess \/ UdpProcessFails \/ Signal \/ TcpProcess \/ KniBurst \/ UdpOut
AppStep == UdpStarts \/ nrecvfrom \/ Requeue \/ SendFails \/ \E beyond \in {<<>>, <<Junk>>} : nsendto(beyond)

UdpNext ==
  \/ fault = "none" /\ (Rx \/ Tx \/ ArpTimer \/ PktStep \/ AppStep \/ TcpStarts \/ Arrive
                         \/ \E up \in BOOLEAN : ng_config_network_if(up))
  \/ fault # "none" /\ UNCHANGED udpVars

UdpSpec == UdpInit /\ [][UdpNext]_udpVars

\* Each thread has a core of its own.
UdpFairness == /\ WF_udpVars(fault = "none" /\ Rx) /\ WF_udpVars(fault = "none" /\ Tx)
               /\ WF_udpVars(fault = "none" /\ PktStep) /\ WF_udpVars(fault = "none" /\ AppStep)
               /\ WF_udpVars(fault = "none" /\ TcpStarts)

-----------------------------------------------------------------------------
\* A datagram that fits the server's buffer with the 8 bytes that are copied
\* too many, and behind whose data memory is zero.
Fits(d) == d.len + HeaderLen <= BufLen /\ d.len \notin Tight

\* What strlen leaves of it: the cells before the first with a zero byte.
TextLen(d) == IF d.zero \in 1 .. d.len THEN d.zero - 1 ELSE d.len

\* Every answer goes to the sender of the datagram it answers, by the MAC
\* the table has for it, and repeats a datagram that fits exactly up to its
\* first zero byte, whatever the buffer held before and whatever is queued
\* with it.
AnswersGoHome ==
  /\ \A a \in wire \cup {x \in ToSet(outRing) : x.type = "udp"} :
       /\ a.ip = Packet(a.re).src
       /\ [ip |-> a.ip, mac |-> a.mac] \in ToSet(entries)
       /\ Fits(Packet(a.re)) => a.data = [i \in 1 .. TextLen(Packet(a.re)) |-> <<a.re, i>>]
  /\ \A i, j \in DOMAIN entries : entries[i].ip = entries[j].ip => i = j

\* Every packet pkt_process has finished is released, but for one that was
\* for the kernel, whose queue was full; and none is released twice unless a
\* packet for the kernel came in one batch with others.
ReleasedOnce ==
  /\ \A i \in 1 .. at - 1 : \/ owner[mbufs[i].id] \in {"pool", "kernel"}
                            \/ owner[mbufs[i].id] = "left" /\ mbufs[i].kind \in {"icmp", "other"}
  /\ fault = "freed" => Len(mbufs) > 1 /\ \E i \in DOMAIN mbufs : mbufs[i].kind \in {"icmp", "other"}

\* Once both servers are bound each has its own port, unless both found the
\* same bit of the table free.
ServersBound ==
  (upc \notin {"scan", "mark", "bind"} /\ tpc = "listen" /\ ufd # tfd)
    => host.port = UdpPort /\ tcb.port = TcpPort

\* Every datagram that fits and does not begin with a zero byte is answered:
\* nrecvfrom does not sleep through it and udp_out sends it, unless a full
\* ring, the port or the missing socket dropped it, both servers share a
\* descriptor, or the sender could not be stored in the ARP table and has
\* not been heard of since.  So again and again nothing that has arrived is
\* left to do.
Settled(n) ==
  \/ Packet(n).kind # "udp" \/ ~Fits(Packet(n)) \/ TextLen(Packet(n)) = 0
  \/ n \in lost \/ ufd = tfd
  \/ \E a \in wire : a.re = n
  \/ \A i \in DOMAIN entries : entries[i].ip # Packet(n).src

DatagramAnswered == []<>(fault # "none" \/ \A n \in 1 .. arrived : Settled(n))
=============================================================================
