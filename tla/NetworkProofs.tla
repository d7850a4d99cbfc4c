---------------------------- MODULE NetworkProofs ---------------------------
(***************************************************************************)
(* What MCNetwork composes: two parts of tcp.c and the servers of "5. ...".*)
(*                                                                         *)
(* ddos_detect (DdosWindow): its window holds the last CAPTURE_WINDOWS     *)
(* packets, for every window size and every number of packets, and the     *)
(* program exits exactly when they are an attack.                          *)
(*                                                                         *)
(* The packet path (UdpStack), for every set of hosts, whatever arrives,   *)
(* every size of rings, burst and buffer, and every interleaving of main,  *)
(* pkt_process and the two servers.  PathInv follows the packets: each is  *)
(* in one queue, and those pkt_process has handled are released.  StartInv *)
(* follows the descriptors of the servers from the scan of the bitmap to   *)
(* the bind.  AnswerInv follows a datagram through rcvbuf, the server's    *)
(* buffer, sndbuf and the out ring: at each place it knows its sender, and *)
(* if it fits it has its bytes there, in the first two with the zero       *)
(* behind them that strlen will find.                                      *)
(*                                                                         *)
(* The servers (Servers), for every set of descriptors, every size of      *)
(* block, buffer and batch, and every number of connections and inputs.    *)
(* PollInv: what is watched is open.  ReactorInv: a slot fits its          *)
(* connection and the interest in it (SlotFits).  UringInv: the one        *)
(* operation of a connection is prepared, with the kernel or completed,    *)
(* and fits what the connection is owed (Turn).  All three rest on         *)
(* KernelInv, what the kernel keeps of a descriptor.                       *)
(***************************************************************************)
EXTENDS DdosWindow, UdpStack, Servers, SequenceFacts, SequenceTheorems, FiniteSetTheorems, TLAPS

-----------------------------------------------------------------------------
(* The window of ddos_detect.                                              *)

(* pkt_idx counts the packets modulo the window size, also after it has    *)
(* started to go round above CAPTURE_WINDOWS.                              *)
IndexInv == alive => pktIdx % CaptureWindows = Len(seen) % CaptureWindows

WindowInv == TypeOK /\ IndexInv /\ WindowIsLast

(* Division with remainder by the window size. *)
LEMMA Division ==
    ASSUME NEW a \in Nat
    PROVE  /\ a \div CaptureWindows \in Nat /\ a % CaptureWindows \in 0 .. CaptureWindows - 1
           /\ a = CaptureWindows * (a \div CaptureWindows) + (a % CaptureWindows)
BY WindowAssumption

(* The remainder is the only one of its kind. *)
LEMMA Remainder ==
    ASSUME NEW q \in Nat, NEW r \in 0 .. CaptureWindows - 1
    PROVE  (CaptureWindows * q + r) % CaptureWindows = r
BY WindowAssumption

(* No multiple of the window size is strictly between 0 and itself. *)
LEMMA Multiple ==
    ASSUME NEW d \in Int, CaptureWindows * d < CaptureWindows, 0 < CaptureWindows * d
    PROVE  FALSE
BY WindowAssumption

(* Two numbers less than a window apart have different slots. *)
LEMMA DifferentSlots ==
    ASSUME NEW a \in Nat, NEW b \in Nat, a < b, b - a < CaptureWindows
    PROVE  a % CaptureWindows # b % CaptureWindows
<1> SUFFICES ASSUME a % CaptureWindows = b % CaptureWindows PROVE FALSE
  OBVIOUS
<1> DEFINE qa == a \div CaptureWindows
           qb == b \div CaptureWindows
           r == a % CaptureWindows
<1>1. qa \in Nat /\ qb \in Nat /\ r \in Int
      /\ a = CaptureWindows * qa + r /\ b = CaptureWindows * qb + r
  BY Division
<1> HIDE DEF qa, qb, r
<1>2. b - a = CaptureWindows * (qb - qa)
  BY <1>1, WindowAssumption
<1> QED BY <1>1, <1>2, Multiple

(* The successor's slot follows from the number's slot. *)
LEMMA NextSlot ==
    ASSUME NEW a \in Nat
    PROVE  (a + 1) % CaptureWindows =
              IF (a % CaptureWindows) + 1 = CaptureWindows THEN 0 ELSE (a % CaptureWindows) + 1
<1> DEFINE q == a \div CaptureWindows
           r == a % CaptureWindows
<1>1. q \in Nat /\ r \in 0 .. CaptureWindows - 1 /\ a = CaptureWindows * q + r
  BY Division
<1> HIDE DEF q, r
<1>2. CASE r + 1 = CaptureWindows
  <2> DEFINE z == q + 1
  <2>1. z \in Nat /\ 0 \in 0 .. CaptureWindows - 1 /\ a + 1 = CaptureWindows * z + 0
    BY <1>1, <1>2, WindowAssumption
  <2> HIDE DEF z
  <2>2. (CaptureWindows * z + 0) % CaptureWindows = 0
    BY <2>1, Remainder
  <2> QED BY <1>2, <2>1, <2>2 DEF r
<1>3. CASE r + 1 # CaptureWindows
  <2>1. a + 1 = CaptureWindows * q + (r + 1) /\ r + 1 \in 0 .. CaptureWindows - 1
    BY <1>1, <1>3, WindowAssumption
  <2> QED BY <1>1, <1>3, <2>1, Remainder DEF r
<1> QED BY <1>2, <1>3

(* Two counts of the same slot move on to the same slot. *)
LEMMA SameSlotAfterStep ==
    ASSUME NEW a \in Nat, NEW b \in Nat, a % CaptureWindows = b % CaptureWindows
    PROVE  (a + 1) % CaptureWindows = (b + 1) % CaptureWindows
BY NextSlot

(* The index that has gone round denotes the slot of its remainder. *)
LEMMA SlotOfWrapped ==
    ASSUME NEW a \in Nat
    PROVE  /\ a % CaptureWindows \in Slots
           /\ ((a % CaptureWindows) + CaptureWindows) % CaptureWindows = a % CaptureWindows
BY WindowAssumption DEF Slots

(* The zeroed arrays give the invariant. *)
LEMMA InitInv == Init => WindowInv
BY WindowAssumption DEF Init, WindowInv, TypeOK, IndexInv, WindowIsLast, Slots, Packets, Zero

(* ddos_detect keeps the invariant. *)
LEMMA StepInv == WindowInv /\ [Next]_vars => WindowInv'
<1> SUFFICES ASSUME WindowInv, [Next]_vars PROVE WindowInv'
  OBVIOUS
<1> USE DEF WindowInv
<1>1. CASE UNCHANGED vars
  BY <1>1 DEF vars, TypeOK, IndexInv, WindowIsLast
<1>2. ASSUME NEW p \in Packets, DdosDetect(p) PROVE WindowInv'
  <2> DEFINE n == Len(seen)
  <2>1. /\ n \in Nat /\ pktIdx \in Nat /\ alive /\ pktIdx < 2 * CaptureWindows
        /\ pktIdx % CaptureWindows = n % CaptureWindows
        /\ n % CaptureWindows \in Slots
    <3>1. alive /\ pktIdx % CaptureWindows = n % CaptureWindows
      BY <1>2, Zenon DEF IndexInv, DdosDetect
    <3>2. n \in Nat /\ pktIdx \in Nat /\ pktIdx < 2 * CaptureWindows
      BY WindowAssumption DEF TypeOK
    <3> QED BY <3>1, <3>2, SlotOfWrapped, Zenon
  <2>2. seen' \in Seq(Packets) /\ Len(seen') = n + 1 /\ seen'[n + 1] = p
        /\ \A k \in 1 .. n : seen'[k] = seen[k]
    BY <1>2 DEF TypeOK, DdosDetect
  <2>3. window' = [window EXCEPT ![n % CaptureWindows] = p]
    BY <1>2, <2>1 DEF DdosDetect, Entered
  <2>4. \/ alive' = FALSE /\ pktIdx' = pktIdx
        \/ alive' = TRUE /\ pktIdx' = NextIdx
    BY <1>2, <2>1 DEF DdosDetect, TypeOK
  <2>5. NextIdx \in 0 .. 2 * CaptureWindows - 1
    BY <2>1, WindowAssumption DEF NextIdx
  <2>6. NextIdx % CaptureWindows = (n + 1) % CaptureWindows
    <3>1. (pktIdx + 1) % CaptureWindows = (n + 1) % CaptureWindows
      BY <2>1, SameSlotAfterStep
    <3>2. CASE pktIdx >= CaptureWindows
      <4>1. NextIdx = ((pktIdx + 1) % CaptureWindows) + CaptureWindows
        BY <3>2 DEF NextIdx
      <4> DEFINE m == pktIdx + 1
      <4>2. m \in Nat /\ NextIdx = (m % CaptureWindows) + CaptureWindows
        BY <2>1, <4>1
      <4> HIDE DEF m
      <4>3. NextIdx % CaptureWindows = m % CaptureWindows
        BY <4>2, SlotOfWrapped
      <4> QED BY <3>1, <4>3 DEF m
    <3>3. CASE ~(pktIdx >= CaptureWindows)
      BY <3>1, <3>3 DEF NextIdx
    <3> QED BY <3>2, <3>3
  <2>7. TypeOK'
    <3>1. window' \in [Slots -> Packets \cup {Zero}]
      BY <2>3, <2>1 DEF TypeOK
    <3>2. pktIdx' \in 0 .. 2 * CaptureWindows - 1
      BY <2>4, <2>5 DEF TypeOK
    <3> QED BY <3>1, <3>2, <2>2, <2>4 DEF TypeOK
  <2>8. IndexInv'
    BY <2>2, <2>4, <2>6 DEF IndexInv
  <2>9. ASSUME NEW k \in 1 .. n + 1, k > n + 1 - CaptureWindows
        PROVE  window'[(k - 1) % CaptureWindows] = seen'[k]
    <3>1. CASE k = n + 1
      BY <2>1, <2>2, <2>3, <3>1 DEF TypeOK
    <3>2. CASE k # n + 1
      <4> DEFINE j == k - 1
      <4>1. k \in 1 .. n /\ j \in Nat /\ j < n /\ n - j < CaptureWindows /\ k > n - CaptureWindows
        BY <2>1, <2>9, <3>2, WindowAssumption
      <4>2. window[j % CaptureWindows] = seen[k]
        BY <4>1 DEF WindowIsLast
      <4> HIDE DEF j
      <4>3. j % CaptureWindows # n % CaptureWindows /\ j % CaptureWindows \in Slots
        BY <2>1, <4>1, DifferentSlots, SlotOfWrapped
      <4>4. window'[j % CaptureWindows] = window[j % CaptureWindows]
        BY <2>3, <4>3 DEF TypeOK
      <4> QED BY <2>2, <4>1, <4>2, <4>4 DEF j
    <3> QED BY <3>1, <3>2
  <2>10. WindowIsLast'
    <3>1. Len(seen') = n + 1
      BY <2>2
    <3>2. \A k \in 1 .. Len(seen') : k > Len(seen') - CaptureWindows
             => window'[(k - 1) % CaptureWindows] = seen'[k]
      BY <2>1, <2>9, <3>1, WindowAssumption
    <3> QED BY <3>2 DEF WindowIsLast
  <2> QED BY <2>7, <2>8, <2>10
<1> QED BY <1>1, <1>2 DEF Next

(* It holds in every reachable state. *)
LEMMA WindowInvariant == Spec => []WindowInv
BY InitInv, StepInv, PTL DEF Spec

(* pkt_idx never leaves 0 .. 2 * CAPTURE_WINDOWS - 1: the int cannot       *)
(* overflow however many packets arrive.                                   *)
THEOREM TypeCorrect == Spec => []TypeOK
BY WindowInvariant, PTL DEF WindowInv

(* The statistics ddos_detect sums up are those of the last                *)
(* CAPTURE_WINDOWS packets.                                                *)
THEOREM WindowHoldsLastPackets == Spec => []WindowIsLast
BY WindowInvariant, PTL DEF WindowInv

-----------------------------------------------------------------------------
(* The decision.  It is taken on the slots of the arrays, in an order that *)
(* has nothing to do with that of the packets, and only once pkt_idx says  *)
(* that the arrays are full.                                               *)

(* pkt_idx knows whether a whole window has been seen: it counts up to     *)
(* CAPTURE_WINDOWS and never falls below it again.                         *)
FullInv ==
    alive => /\ pktIdx < CaptureWindows => pktIdx = Len(seen)
             /\ pktIdx >= CaptureWindows => Len(seen) >= CaptureWindows

(* The decision depends on the entries of the given slots only. *)
LEMMA AttackDependsOnSlots ==
    ASSUME NEW e, NEW f, NEW S, \A i \in S : e[i] = f[i]
    PROVE  Attack(e, S) <=> Attack(f, S)
<1>1. {i \in S : e[i] = "mixed"} = {i \in S : f[i] = "mixed"}
  OBVIOUS
<1> QED
  BY <1>1 DEF Attack

(* The last CAPTURE_WINDOWS packets and the slots correspond one to one.   *)
LEMMA PacketsToSlots ==
    ASSUME NEW n \in Nat, n >= CaptureWindows
    PROVE  [k \in LastSlots(n) |-> (k - 1) % CaptureWindows] \in Bijection(LastSlots(n), Slots)
<1> DEFINE f == [k \in LastSlots(n) |-> (k - 1) % CaptureWindows]
<1>1. \A k \in LastSlots(n) : k - 1 \in Nat /\ k \in Int
  BY WindowAssumption DEF LastSlots
<1>2. f \in [LastSlots(n) -> Slots]
  BY <1>1, SlotOfWrapped
<1>3. ASSUME NEW j \in LastSlots(n), NEW k \in LastSlots(n), j < k PROVE f[j] # f[k]
  <2> DEFINE a == j - 1
             b == k - 1
  <2>1. a \in Nat /\ b \in Nat /\ a < b /\ b - a < CaptureWindows
    BY <1>1, <1>3, WindowAssumption DEF LastSlots
  <2>2. f[j] = a % CaptureWindows /\ f[k] = b % CaptureWindows
    OBVIOUS
  <2> HIDE DEF a, b, f
  <2> QED
    BY <2>1, <2>2, DifferentSlots
<1>4. \A j, k \in LastSlots(n) : f[j] = f[k] => j = k
  <2> HIDE DEF f
  <2> SUFFICES ASSUME NEW j \in LastSlots(n), NEW k \in LastSlots(n), f[j] = f[k], j # k
               PROVE  FALSE
    OBVIOUS
  <2>1. j < k \/ k < j
    BY <1>1
  <2> QED
    BY <1>3, <2>1
<1>5. f \in Injection(LastSlots(n), Slots)
  <2> HIDE DEF f
  <2> QED
    BY <1>2, <1>4 DEF Injection, IsInjective
<1>6. /\ IsFiniteSet(Slots) /\ IsFiniteSet(LastSlots(n))
      /\ Cardinality(LastSlots(n)) = CaptureWindows /\ Cardinality(Slots) = CaptureWindows
  <2>1. n - CaptureWindows + 1 \in Int /\ n \in Int /\ 0 \in Int /\ CaptureWindows - 1 \in Int
    BY WindowAssumption
  <2>2. /\ IsFiniteSet(LastSlots(n))
        /\ Cardinality(LastSlots(n)) = IF n - CaptureWindows + 1 > n THEN 0
                                       ELSE n - (n - CaptureWindows + 1) + 1
    BY <2>1, FS_Interval DEF LastSlots
  <2>3. /\ IsFiniteSet(Slots)
        /\ Cardinality(Slots) = IF 0 > CaptureWindows - 1 THEN 0 ELSE CaptureWindows - 1 - 0 + 1
    BY <2>1, FS_Interval DEF Slots
  <2> QED
    BY <2>2, <2>3, WindowAssumption
<1> HIDE DEF f
<1>7. f \in Surjection(LastSlots(n), Slots)
  BY <1>5, <1>6, FS_Injection
<1> QED
  BY <1>5, <1>7 DEF Bijection, f

(* So a full window decides as the packets themselves would. *)
LEMMA SameDecision ==
    ASSUME NEW e \in [Slots -> Packets \cup {Zero}], NEW s, NEW n \in Nat, n >= CaptureWindows,
           \A k \in LastSlots(n) : e[(k - 1) % CaptureWindows] = s[k]
    PROVE  Attack(e, Slots) <=> Attack(s, LastSlots(n))
<1> DEFINE f == [k \in LastSlots(n) |-> (k - 1) % CaptureWindows]
           M == {i \in Slots : e[i] = "mixed"}
           N == {k \in LastSlots(n) : s[k] = "mixed"}
           g == [k \in N |-> f[k]]
<1>1. f \in Bijection(LastSlots(n), Slots)
  BY PacketsToSlots
<1>2. \A k \in LastSlots(n) : e[f[k]] = s[k]
  OBVIOUS
<1> HIDE DEF f
<1>3. /\ f \in [LastSlots(n) -> Slots]
      /\ \A j, k \in LastSlots(n) : f[j] = f[k] => j = k
      /\ \A i \in Slots : \E k \in LastSlots(n) : f[k] = i
  BY <1>1 DEF Bijection, Injection, Surjection, IsInjective
<1>4. (\A i \in Slots : e[i] # "odd") <=> (\A k \in LastSlots(n) : s[k] # "odd")
  BY <1>2, <1>3
<1>5. g \in Bijection(N, M)
  <2>1. g \in [N -> M]
    BY <1>2, <1>3
  <2>2. \A j, k \in N : g[j] = g[k] => j = k
    BY <1>3
  <2>3. \A i \in M : \E k \in N : g[k] = i
    BY <1>2, <1>3
  <2> HIDE DEF g, N, M
  <2> QED
    BY <2>1, <2>2, <2>3 DEF Bijection, Injection, Surjection, IsInjective
<1>6. IsFiniteSet(N)
  <2>1. IsFiniteSet(LastSlots(n))
    BY FS_Interval, WindowAssumption DEF LastSlots
  <2> QED
    BY <2>1, FS_Subset
<1>7. Cardinality(M) = Cardinality(N)
  <2> HIDE DEF g, N, M
  <2> QED
    BY <1>5, <1>6, FS_Bijection DEF ExistsBijection
<1> QED
  BY <1>4, <1>7 DEF Attack

DecisionInv == WindowInv /\ FullInv /\ ExitAtFirstAttack

(* Nothing has been decided before the first packet. *)
LEMMA DecisionInit == Init => DecisionInv
<1> SUFFICES ASSUME Init PROVE FullInv /\ ExitAtFirstAttack
  BY InitInv DEF DecisionInv
<1>1. Len(seen) = 0 /\ alive = TRUE /\ pktIdx = 0
  BY DEF Init
<1> QED
  BY <1>1, WindowAssumption DEF FullInv, ExitAtFirstAttack, NoAttackMissed, ExitOnAttackOnly

(* ddos_detect exits at the first window that is an attack, not before. *)
LEMMA DecisionStep == DecisionInv /\ [Next]_vars => DecisionInv'
<1> SUFFICES ASSUME DecisionInv, [Next]_vars PROVE DecisionInv'
  OBVIOUS
<1>1. WindowInv /\ WindowInv' /\ FullInv /\ ExitAtFirstAttack
  BY StepInv DEF DecisionInv
<1>2. CASE UNCHANGED vars
  BY <1>1, <1>2
     DEF DecisionInv, vars, FullInv, ExitAtFirstAttack, NoAttackMissed, ExitOnAttackOnly
<1>3. ASSUME NEW p \in Packets, DdosDetect(p) PROVE DecisionInv'
  <2> DEFINE n == Len(seen)
  <2>1. /\ n \in Nat /\ Len(seen') = n + 1 /\ alive
        /\ \A k \in 1 .. n : seen'[k] = seen[k]
        /\ window' \in [Slots -> Packets \cup {Zero}] /\ window' = Entered(p)
    BY <1>1, <1>3 DEF WindowInv, TypeOK, DdosDetect
  <2>2. /\ pktIdx \in Nat /\ (pktIdx >= CaptureWindows <=> n >= CaptureWindows)
        /\ (pktIdx < CaptureWindows => pktIdx = n)
    BY <1>1, <2>1, WindowAssumption DEF WindowInv, TypeOK, FullInv
  <2>3. n >= CaptureWindows => (Attack(window', Slots) <=> Attack(seen', LastSlots(n + 1)))
    <3> SUFFICES ASSUME n >= CaptureWindows
                 PROVE  Attack(window', Slots) <=> Attack(seen', LastSlots(n + 1))
      OBVIOUS
    <3>1. \A k \in LastSlots(n + 1) : window'[(k - 1) % CaptureWindows] = seen'[k]
      <4>1. \A k \in 1 .. Len(seen') : k > Len(seen') - CaptureWindows
               => window'[(k - 1) % CaptureWindows] = seen'[k]
        BY <1>1, Zenon DEF WindowInv, WindowIsLast
      <4>2. Len(seen') = n + 1 /\ n \in Nat
        BY <2>1
      <4>3. \A k \in LastSlots(n + 1) : k \in 1 .. Len(seen') /\ k > Len(seen') - CaptureWindows
        BY <4>2, WindowAssumption DEF LastSlots
      <4> QED
        BY <4>1, <4>3, Zenon
    <3>2. n + 1 \in Nat /\ n + 1 >= CaptureWindows
      BY <2>1, WindowAssumption
    <3> QED
      BY <2>1, <3>1, <3>2, SameDecision
  <2>4. Alarm(p) <=> n >= CaptureWindows /\ Attack(seen', LastSlots(n + 1))
    BY <2>1, <2>2, <2>3 DEF Alarm
  <2>5. \A m \in CaptureWindows + 1 .. n : ~Attack(seen', LastSlots(m))
    <3> SUFFICES ASSUME NEW m \in CaptureWindows + 1 .. n PROVE ~Attack(seen', LastSlots(m))
      OBVIOUS
    <3>1. \A k \in LastSlots(m) : seen'[k] = seen[k]
      BY <2>1, WindowAssumption DEF LastSlots
    <3>2. ~Attack(seen, LastSlots(m))
      BY <1>1, <2>1 DEF ExitAtFirstAttack, NoAttackMissed
    <3> QED
      BY <3>1, <3>2, AttackDependsOnSlots
  <2>6. CASE Alarm(p)
    <3>1. alive' = FALSE
      BY <1>3, <2>6 DEF DdosDetect
    <3>2. n + 1 > CaptureWindows
      BY <2>1, <2>4, <2>6, WindowAssumption
    <3> QED
      BY <1>1, <2>1, <2>4, <2>6, <3>1, <3>2
         DEF DecisionInv, FullInv, ExitAtFirstAttack, NoAttackMissed, ExitOnAttackOnly
  <2>7. CASE ~Alarm(p)
    <3>1. alive' = TRUE /\ pktIdx' = NextIdx
      BY <1>1, <1>3, <2>1, <2>7 DEF DdosDetect, WindowInv, TypeOK
    <3>2. NoAttackMissed'
      <4>1. \A m \in CaptureWindows + 1 .. n + 1 : m \in CaptureWindows + 1 .. n \/ m = n + 1
        BY <2>1, WindowAssumption
      <4>2. \A m \in CaptureWindows + 1 .. n + 1 : ~Attack(seen', LastSlots(m))
        <5>1. n + 1 \in CaptureWindows + 1 .. n + 1 => n >= CaptureWindows
          BY <2>1, WindowAssumption
        <5> QED
          BY <2>4, <2>5, <2>7, <4>1, <5>1
      <4> QED
        BY <2>1, <4>2 DEF NoAttackMissed
    <3>3. FullInv'
      <4>1. CASE pktIdx >= CaptureWindows
        <5>1. NextIdx >= CaptureWindows
          BY <2>2, <4>1, Division, WindowAssumption DEF NextIdx
        <5> QED
          BY <2>1, <2>2, <3>1, <4>1, <5>1, WindowAssumption DEF FullInv, NextIdx
      <4>2. CASE pktIdx < CaptureWindows
        BY <2>1, <2>2, <3>1, <4>2, WindowAssumption DEF FullInv, NextIdx
      <4> QED
        BY <2>2, <4>1, <4>2, WindowAssumption
    <3> QED
      BY <1>1, <3>1, <3>2, <3>3 DEF DecisionInv, ExitAtFirstAttack, ExitOnAttackOnly
  <2> QED
    BY <2>6, <2>7
<1> QED
  BY <1>2, <1>3 DEF Next

(* The program exits on the packet that completes the first attack and for *)
(* no other reason, for every window size and threshold: keeping the       *)
(* packets round and round in arrays, and remembering "full" in the index, *)
(* neither misses an attack nor invents one.                               *)
THEOREM ExitsAtFirstAttack == Spec => []ExitAtFirstAttack
<1>1. DecisionInv => ExitAtFirstAttack
  BY DEF DecisionInv
<1> QED
  BY <1>1, DecisionInit, DecisionStep, PTL DEF Spec

-----------------------------------------------------------------------------
(* The packet path.                                                        *)

Pkts == [id : Nat, kind : {"udp", "tcp", "icmp", "other"}, src : Hosts, mac : Nat \ {0},
         len : Nat, zero : Nat, port : Nat]

(* Packet n of scene s. *)
Numbered(s, n) == [s.packets[n] EXCEPT !.id = n]

(* A queue holds packets that have arrived, none of them twice. *)
Ids(q) == {q[i].id : i \in DOMAIN q}
QueueOK(q, s, a) ==
    /\ q \in Seq(Pkts)
    /\ \A i \in DOMAIN q : q[i].id \in 1 .. a /\ q[i] = Numbered(s, q[i].id)
    /\ \A i, j \in DOMAIN q : q[i].id = q[j].id => i = j

(* What is in a queue. *)
LEMMA InIds == \A q, x : x \in Ids(q) <=> \E i \in DOMAIN q : x = q[i].id
BY DEF Ids

(* The first elements of a queue, and those behind them. *)
LEMMA TakeLeave ==
    ASSUME NEW S, NEW q \in Seq(S), NEW n \in Nat
    PROVE  /\ TakeUpTo(q, n) \in Seq(S) /\ LeaveAfter(q, n) \in Seq(S)
           /\ Len(TakeUpTo(q, n)) = IF Len(q) < n THEN Len(q) ELSE n
           /\ Len(LeaveAfter(q, n)) = IF Len(q) < n THEN 0 ELSE Len(q) - n
           /\ \A i \in 1 .. Len(TakeUpTo(q, n)) : i \in 1 .. Len(q) /\ i <= n /\ TakeUpTo(q, n)[i] = q[i]
           /\ \A i \in 1 .. Len(LeaveAfter(q, n)) : n + i \in 1 .. Len(q) /\ LeaveAfter(q, n)[i] = q[n + i]
<1> DEFINE k == Len(q)
           m == IF k < n THEN k ELSE n
<1>1. k \in Nat /\ m \in Nat /\ m <= k /\ m <= n /\ \A i \in 1 .. k : q[i] \in S
  OBVIOUS
<1>2. TakeUpTo(q, n) = SubSeq(q, 1, m) /\ LeaveAfter(q, n) = SubSeq(q, n + 1, k)
  BY DEF TakeUpTo, LeaveAfter
<1>3. /\ SubSeq(q, 1, m) \in Seq(S) /\ Len(SubSeq(q, 1, m)) = m
      /\ \A i \in 1 .. m : i \in 1 .. k /\ i <= n /\ SubSeq(q, 1, m)[i] = q[i]
  BY <1>1
<1>4. /\ SubSeq(q, n + 1, k) \in Seq(S) /\ Len(SubSeq(q, n + 1, k)) = IF k < n THEN 0 ELSE k - n
      /\ \A i \in 1 .. Len(SubSeq(q, n + 1, k)) : n + i \in 1 .. k /\ SubSeq(q, n + 1, k)[i] = q[n + i]
  <2>1. CASE n + 1 <= k
    BY <1>1, <2>1
  <2>2. CASE k < n + 1
    BY <1>1, <2>2
  <2> QED
    BY <1>1, <2>1, <2>2
<1> HIDE DEF m
<1> QED
  BY <1>1, <1>2, <1>3, <1>4 DEF m

(* Taking from a queue. *)
LEMMA QueueTaken ==
    ASSUME NEW s, NEW a \in Nat, NEW q, QueueOK(q, s, a), NEW n \in Nat
    PROVE  /\ QueueOK(TakeUpTo(q, n), s, a) /\ QueueOK(LeaveAfter(q, n), s, a)
           /\ Ids(TakeUpTo(q, n)) \subseteq Ids(q) /\ Ids(LeaveAfter(q, n)) \subseteq Ids(q)
           /\ Ids(TakeUpTo(q, n)) \cap Ids(LeaveAfter(q, n)) = {}
<1> DEFINE t == TakeUpTo(q, n)
           l == LeaveAfter(q, n)
<1>1. /\ q \in Seq(Pkts) /\ Len(q) \in Nat /\ DOMAIN q = 1 .. Len(q)
      /\ \A i \in 1 .. Len(q) : q[i].id \in 1 .. a /\ q[i] = Numbered(s, q[i].id)
      /\ \A i, j \in 1 .. Len(q) : q[i].id = q[j].id => i = j
  BY DEF QueueOK
<1>2. /\ t \in Seq(Pkts) /\ l \in Seq(Pkts) /\ DOMAIN t = 1 .. Len(t) /\ DOMAIN l = 1 .. Len(l)
      /\ Len(t) \in Nat /\ Len(l) \in Nat
      /\ \A i \in 1 .. Len(t) : i \in 1 .. Len(q) /\ i <= n /\ t[i] = q[i]
      /\ \A i \in 1 .. Len(l) : n + i \in 1 .. Len(q) /\ l[i] = q[n + i]
  BY <1>1, TakeLeave
<1> HIDE DEF t, l
<1>3. QueueOK(t, s, a)
  BY <1>1, <1>2 DEF QueueOK
<1>4. QueueOK(l, s, a)
  <2>1. ASSUME NEW i \in 1 .. Len(l), NEW j \in 1 .. Len(l), l[i].id = l[j].id PROVE i = j
    <3>1. n + i = n + j
      BY <1>1, <1>2, <2>1
    <3> QED
      BY <1>2, <3>1
  <2>2. \A i \in 1 .. Len(l) : l[i].id \in 1 .. a /\ l[i] = Numbered(s, l[i].id)
    BY <1>1, <1>2
  <2> QED
    BY <1>2, <2>1, <2>2 DEF QueueOK
<1>5. Ids(t) \subseteq Ids(q) /\ Ids(l) \subseteq Ids(q)
  <2>1. ASSUME NEW x \in Ids(t) PROVE x \in Ids(q)
    <3>1. PICK i \in 1 .. Len(t) : x = t[i].id
      BY <1>2, InIds
    <3>2. i \in DOMAIN q /\ x = q[i].id
      BY <1>1, <1>2, <3>1
    <3> QED
      BY <3>2, InIds
  <2>2. ASSUME NEW x \in Ids(l) PROVE x \in Ids(q)
    <3>1. PICK i \in 1 .. Len(l) : x = l[i].id
      BY <1>2, InIds
    <3>2. PICK j \in DOMAIN q : j = n + i /\ x = q[j].id
      BY <1>1, <1>2, <3>1
    <3> QED
      BY <3>2, InIds
  <2> QED
    BY <2>1, <2>2
<1>6. Ids(t) \cap Ids(l) = {}
  <2> SUFFICES ASSUME NEW x \in Ids(t), x \in Ids(l) PROVE FALSE
    OBVIOUS
  <2>1. PICK i \in 1 .. Len(t) : x = t[i].id
    BY <1>2 DEF Ids
  <2>2. PICK j \in 1 .. Len(l) : x = l[j].id
    BY <1>2 DEF Ids
  <2>3. i = n + j /\ i <= n
    <3>1. PICK m \in 1 .. Len(q) : m = n + j /\ l[j] = q[m]
      BY <1>2
    <3>2. i \in 1 .. Len(q) /\ i <= n /\ t[i] = q[i]
      BY <1>2
    <3>3. q[i].id = q[m].id
      BY <2>1, <2>2, <3>1, <3>2
    <3> QED
      BY <1>1, <3>1, <3>2, <3>3
  <2> QED
    BY <1>2, <2>3
<1> QED
  BY <1>3, <1>4, <1>5, <1>6 DEF t, l

(* Adding to a queue. *)
LEMMA QueueJoined ==
    ASSUME NEW s, NEW a \in Nat, NEW q, NEW r, QueueOK(q, s, a), QueueOK(r, s, a), Ids(q) \cap Ids(r) = {}
    PROVE  QueueOK(q \o r, s, a) /\ Ids(q \o r) = Ids(q) \cup Ids(r)
<1> DEFINE z == q \o r
           k == Len(q)
           l == Len(r)
<1>1. /\ q \in Seq(Pkts) /\ k \in Nat /\ DOMAIN q = 1 .. k
      /\ \A i \in 1 .. k : q[i].id \in 1 .. a /\ q[i] = Numbered(s, q[i].id)
      /\ \A i, j \in 1 .. k : q[i].id = q[j].id => i = j
  BY DEF QueueOK
<1>2. /\ r \in Seq(Pkts) /\ l \in Nat /\ DOMAIN r = 1 .. l
      /\ \A i \in 1 .. l : r[i].id \in 1 .. a /\ r[i] = Numbered(s, r[i].id)
      /\ \A i, j \in 1 .. l : r[i].id = r[j].id => i = j
  BY DEF QueueOK
<1>3. /\ z \in Seq(Pkts) /\ DOMAIN z = 1 .. k + l
      /\ \A i \in 1 .. k : z[i] = q[i]
      /\ \A i \in 1 .. l : k + i \in 1 .. k + l /\ z[k + i] = r[i]
      /\ 1 .. k \subseteq 1 .. k + l
  BY <1>1, <1>2
<1>4. \A i \in 1 .. k + l : i \in 1 .. k \/ (i - k \in 1 .. l /\ z[i] = r[i - k] /\ i = k + (i - k))
  <2>1. ASSUME NEW i \in 1 .. k + l, i \notin 1 .. k PROVE i - k \in 1 .. l /\ z[i] = r[i - k] /\ i = k + (i - k)
    <3>1. i - k \in 1 .. l /\ i = k + (i - k)
      BY <1>1, <1>2, <2>1
    <3> HIDE DEF z
    <3> QED
      BY <1>3, <3>1
  <2> QED
    BY <2>1
<1> HIDE DEF z, k, l
<1>5. \A i \in 1 .. k + l : z[i].id \in 1 .. a /\ z[i] = Numbered(s, z[i].id)
  BY <1>1, <1>2, <1>3, <1>4
<1>6. \A i \in 1 .. k, j \in 1 .. l : q[i].id # r[j].id
  <2>1. ASSUME NEW i \in 1 .. k, NEW j \in 1 .. l, q[i].id = r[j].id PROVE FALSE
    <3>1. q[i].id \in Ids(q) /\ r[j].id \in Ids(r)
      BY <1>1, <1>2, InIds
    <3> QED
      BY <2>1, <3>1
  <2> QED
    BY <2>1
<1>7. ASSUME NEW i \in 1 .. k + l, NEW j \in 1 .. k + l, z[i].id = z[j].id PROVE i = j
  <2>1. CASE i \in 1 .. k /\ j \in 1 .. k
    BY <1>1, <1>3, <1>7, <2>1
  <2>2. CASE i \in 1 .. k /\ j \notin 1 .. k
    BY <1>3, <1>4, <1>6, <1>7, <2>2
  <2>3. CASE i \notin 1 .. k /\ j \in 1 .. k
    BY <1>3, <1>4, <1>6, <1>7, <2>3
  <2>4. CASE i \notin 1 .. k /\ j \notin 1 .. k
    <3>1. i - k = j - k
      BY <1>2, <1>4, <1>7, <2>4
    <3> QED
      BY <1>1, <1>2, <3>1
  <2> QED
    BY <2>1, <2>2, <2>3, <2>4
<1>8. QueueOK(z, s, a)
  BY <1>3, <1>5, <1>7 DEF QueueOK
<1>9. Ids(z) = Ids(q) \cup Ids(r)
  <2>1. ASSUME NEW x \in Ids(z) PROVE x \in Ids(q) \cup Ids(r)
    <3>0. PICK i \in DOMAIN z : x = z[i].id
      BY InIds
    <3>1. i \in 1 .. k + l /\ x = z[i].id
      BY <1>3, <3>0, Zenon
    <3>2. CASE i \in 1 .. k
      <4>1. x = q[i].id /\ i \in DOMAIN q
        BY <1>1, <1>3, <3>1, <3>2
      <4> QED
        BY <4>1, InIds
    <3>3. CASE i \notin 1 .. k
      <4>1. x = r[i - k].id /\ i - k \in DOMAIN r
        BY <1>2, <1>4, <3>1, <3>3
      <4> QED
        BY <4>1, InIds
    <3> QED
      BY <3>2, <3>3
  <2>2. ASSUME NEW x \in Ids(q) PROVE x \in Ids(z)
    BY <1>1, <1>3 DEF Ids
  <2>3. ASSUME NEW x \in Ids(r) PROVE x \in Ids(z)
    BY <1>2, <1>3 DEF Ids
  <2> QED
    BY <2>1, <2>2, <2>3
<1> QED
  BY <1>8, <1>9 DEF z

(* A packet of a scene, as it is numbered. *)
LEMMA PacketNumbered ==
    ASSUME NEW s \in Scenarios, NEW n \in 1 .. Len(s.packets)
    PROVE  Numbered(s, n) \in Pkts /\ Numbered(s, n).id = n
<1>1. s.packets \in Seq(Frames)
  BY StackAssumption
<1>2. PICK f \in Frames : f = s.packets[n]
  BY <1>1
<1>3. n \in Nat
  BY <1>1
<1>4. [f EXCEPT !.id = n] \in Pkts /\ [f EXCEPT !.id = n].id = n
  BY <1>3 DEF Frames, Pkts
<1> QED
  BY <1>2, <1>4 DEF Numbered

(* A batch of several packets with one for the kernel, which takes the     *)
(* whole batch.                                                            *)
Mixed == Len(mbufs) > 1 /\ \E i \in DOMAIN mbufs : mbufs[i].kind \in {"icmp", "other"}

(* pkt_process is done with packet i of its batch, up to the signal. *)
Handled(i) == i < at \/ (i = at /\ ppc = "signal")

SceneInv ==
    /\ scene \in Scenarios /\ arrived \in Nat /\ arrived <= Len(scene.packets)
    /\ owner \in [1 .. Len(scene.packets) -> {"port", "pool", "kernel", "left"}] /\ fault \in {"none", "freed"}

LoopInv ==
    /\ ppc \in {"dequeue", "packet", "count", "process", "signal", "out"}
    /\ at \in Nat \ {0}
    /\ IF ppc \in {"dequeue", "out"} THEN at = Len(mbufs) + 1 ELSE at <= Len(mbufs)

QueuesInv ==
    /\ QueueOK(nic, scene, arrived) /\ QueueOK(inRing, scene, arrived) /\ QueueOK(mbufs, scene, arrived)
    /\ Ids(nic) \cap Ids(inRing) = {} /\ Ids(nic) \cap Ids(mbufs) = {} /\ Ids(inRing) \cap Ids(mbufs) = {}

(* A packet that is done with. *)
Disposed(p, o) == o[p.id] \in {"pool", "kernel"} \/ (o[p.id] = "left" /\ p.kind \in {"icmp", "other"})

(* Who owns a packet: the port until it is handled, unless the kernel was  *)
(* given the batch.                                                        *)
OwnerInv ==
    /\ \A n \in Ids(nic) \cup Ids(inRing) : owner[n] = "port"
    /\ \A n \in 1 .. Len(scene.packets) : n > arrived => owner[n] = "port"
    /\ \A i \in DOMAIN mbufs : IF Handled(i) THEN Disposed(mbufs[i], owner)
                                             ELSE owner[mbufs[i].id] = "port" \/ Mixed
    /\ fault = "freed" => Mixed

PathInv == SceneInv /\ LoopInv /\ QueuesInv /\ OwnerInv

(* The invariant shows the property. *)
LEMMA PathShows == PathInv => ReleasedOnce
<1> SUFFICES ASSUME PathInv PROVE ReleasedOnce
  OBVIOUS
<1>1. mbufs \in Seq(Pkts) /\ Len(mbufs) \in Nat /\ DOMAIN mbufs = 1 .. Len(mbufs)
  BY DEF PathInv, QueuesInv, QueueOK
<1>2. at \in Nat \ {0} /\ at <= Len(mbufs) + 1
  BY <1>1 DEF PathInv, LoopInv
<1>3. ASSUME NEW i \in 1 .. at - 1 PROVE Disposed(mbufs[i], owner)
  <2>1. i \in DOMAIN mbufs /\ i < at
    BY <1>1, <1>2
  <2> QED
    BY <2>1 DEF PathInv, OwnerInv, Handled
<1> QED
  BY <1>3 DEF PathInv, OwnerInv, ReleasedOnce, Mixed, Disposed

(* At first nothing has arrived. *)
LEMMA PathInit == UdpInit => PathInv
<1> SUFFICES ASSUME UdpInit PROVE PathInv
  OBVIOUS
<1>1. /\ nic = <<>> /\ inRing = <<>> /\ mbufs = <<>> /\ at = 1 /\ ppc = "dequeue" /\ fault = "none" /\ arrived = 0
      /\ scene \in Scenarios /\ owner = [n \in DOMAIN scene.packets |-> "port"]
  BY DEF UdpInit
<1>2. scene.packets \in Seq(Frames)
  BY <1>1, StackAssumption
<1>3. DOMAIN scene.packets = 1 .. Len(scene.packets) /\ Len(scene.packets) \in Nat
  BY <1>2
<1>4. SceneInv
  BY <1>1, <1>3 DEF SceneInv
<1>5. LoopInv
  BY <1>1 DEF LoopInv
<1>6. \A s : QueueOK(<<>>, s, 0) /\ Ids(<<>>) = {}
  BY DEF QueueOK, Ids
<1>7. QueuesInv
  BY <1>1, <1>6 DEF QueuesInv
<1>8. OwnerInv
  BY <1>1, <1>3, <1>6 DEF OwnerInv
<1> QED
  BY <1>4, <1>5, <1>7, <1>8 DEF PathInv

(* Steps that do not touch packets. *)
LEMMA PathSame ==
    ASSUME PathInv, UNCHANGED <<scene, arrived, owner, fault, ppc, at, mbufs, nic, inRing>>
    PROVE  PathInv'
<1>1. SceneInv' /\ LoopInv'
  BY DEF PathInv, SceneInv, LoopInv
<1>2. QueuesInv'
  BY DEF PathInv, QueuesInv
<1>3. OwnerInv'
  BY DEF PathInv, OwnerInv, Handled, Mixed
<1> QED
  BY <1>1, <1>2, <1>3 DEF PathInv

(* pkt_process goes on with the packet it has, or starts over. *)
LEMMA PathMoves ==
    ASSUME PathInv, UNCHANGED <<scene, arrived, owner, fault, at, mbufs, nic, inRing>>,
           \/ ppc \in {"packet", "count"} /\ ppc' \in {"count", "process"}
           \/ ppc = "out" /\ ppc' = "dequeue"
    PROVE  PathInv'
<1>1. SceneInv' /\ QueuesInv'
  BY DEF PathInv, SceneInv, QueuesInv
<1>2. LoopInv'
  BY DEF PathInv, LoopInv
<1>3. ppc # "signal" /\ ppc' # "signal"
  OBVIOUS
<1>4. OwnerInv'
  BY <1>3 DEF PathInv, OwnerInv, Handled, Mixed
<1> QED
  BY <1>1, <1>2, <1>4 DEF PathInv

(* Queues change, the packets in them are still the port's. *)
LEMMA QueuesMove ==
    ASSUME PathInv, UNCHANGED <<scene, owner, fault, ppc, at, mbufs>>,
           arrived' \in Nat, arrived <= arrived', arrived' <= Len(scene.packets),
           QueueOK(nic', scene, arrived'), QueueOK(inRing', scene, arrived'),
           Ids(nic') \cap Ids(inRing') = {},
           Ids(nic') \cup Ids(inRing') \subseteq Ids(nic) \cup Ids(inRing) \cup (arrived + 1 .. arrived')
    PROVE  PathInv'
<1>0. scene' = scene /\ owner' = owner /\ fault' = fault /\ ppc' = ppc /\ at' = at /\ mbufs' = mbufs
  OBVIOUS
<1>1. SceneInv' /\ LoopInv'
  BY <1>0 DEF PathInv, SceneInv, LoopInv
<1>2. arrived \in Nat /\ QueueOK(mbufs, scene, arrived) /\ Len(scene.packets) \in Nat
  <2>1. scene.packets \in Seq(Frames)
    BY StackAssumption DEF PathInv, SceneInv
  <2> QED
    BY <2>1 DEF PathInv, SceneInv, QueuesInv
<1>3. QueueOK(mbufs, scene, arrived')
  BY <1>2 DEF QueueOK
<1>4. \A n \in Ids(mbufs) : n \in 1 .. arrived
  <2>1. ASSUME NEW n \in Ids(mbufs) PROVE n \in 1 .. arrived
    <3>1. PICK i \in DOMAIN mbufs : n = mbufs[i].id
      BY InIds
    <3> QED
      BY <1>2, <3>1 DEF QueueOK
  <2> QED
    BY <2>1
<1>5. Ids(nic') \cap Ids(mbufs) = {} /\ Ids(inRing') \cap Ids(mbufs) = {}
  <2>1. Ids(mbufs) \cap (arrived + 1 .. arrived') = {}
    BY <1>2, <1>4
  <2> QED
    BY <2>1 DEF PathInv, QueuesInv
<1>6. QueuesInv'
  <2>1. QueueOK(nic', scene', arrived') /\ QueueOK(inRing', scene', arrived') /\ QueueOK(mbufs', scene', arrived')
    BY <1>0, <1>3, Zenon
  <2>2. Ids(nic') \cap Ids(inRing') = {} /\ Ids(nic') \cap Ids(mbufs') = {} /\ Ids(inRing') \cap Ids(mbufs') = {}
    BY <1>0, <1>5, Zenon
  <2> QED
    BY <2>1, <2>2 DEF QueuesInv, QueueOK, Ids, Numbered
<1>7. \A n \in Ids(nic') \cup Ids(inRing') : owner[n] = "port"
  <2>1. ASSUME NEW n \in arrived + 1 .. arrived' PROVE owner[n] = "port"
    <3>1. n \in 1 .. Len(scene.packets) /\ n > arrived
      BY <1>2
    <3> QED
      BY <3>1 DEF PathInv, OwnerInv
  <2> QED
    BY <2>1 DEF PathInv, OwnerInv
<1>8. \A n \in 1 .. Len(scene.packets) : n > arrived' => owner[n] = "port"
  <2>1. ASSUME NEW n \in 1 .. Len(scene.packets), n > arrived' PROVE owner[n] = "port"
    <3>1. n > arrived
      BY <1>2, <2>1
    <3> QED
      BY <3>1 DEF PathInv, OwnerInv
  <2> QED
    BY <2>1
<1>9. OwnerInv'
  <2>1. \A n \in Ids(nic') \cup Ids(inRing') : owner'[n] = "port"
    BY <1>0, <1>7, Zenon
  <2>2. \A n \in 1 .. Len(scene'.packets) : n > arrived' => owner'[n] = "port"
    BY <1>0, <1>8, Zenon
  <2>3. \A i \in DOMAIN mbufs' : IF Handled(i)' THEN Disposed(mbufs'[i], owner')
                                               ELSE owner'[mbufs'[i].id] = "port" \/ Mixed'
    BY <1>0 DEF PathInv, OwnerInv, Handled, Mixed
  <2>4. fault' = "freed" => Mixed'
    BY <1>0 DEF PathInv, OwnerInv, Mixed
  <2> QED
    BY <2>1, <2>2, <2>3, <2>4 DEF OwnerInv, Ids
<1> QED
  BY <1>1, <1>6, <1>9 DEF PathInv

(* main takes packets from the port; what does not fit is forgotten. *)
LEMMA PathRx == ASSUME PathInv, Rx PROVE PathInv'
<1> DEFINE burst == TakeUpTo(nic, Burst)
           fit == TakeUpTo(burst, RingSize - Len(inRing))
<1>1. /\ QueueOK(nic, scene, arrived) /\ QueueOK(inRing, scene, arrived) /\ arrived \in Nat
      /\ arrived <= Len(scene.packets) /\ Ids(nic) \cap Ids(inRing) = {} /\ Burst \in Nat /\ RingSize \in Nat
  BY StackAssumption DEF PathInv, SceneInv, QueuesInv
<1>2. /\ UNCHANGED <<scene, owner, fault, ppc, at, mbufs, arrived>>
      /\ nic' = LeaveAfter(nic, Burst) /\ inRing' = inRing \o fit
  BY DEF Rx, pktVars, netVars
<1>3. /\ QueueOK(burst, scene, arrived) /\ QueueOK(nic', scene, arrived)
      /\ Ids(burst) \subseteq Ids(nic) /\ Ids(nic') \subseteq Ids(nic) /\ Ids(burst) \cap Ids(nic') = {}
  BY <1>1, <1>2, QueueTaken
<1>4. QueueOK(fit, scene, arrived) /\ Ids(fit) \subseteq Ids(burst)
  <2>1. CASE RingSize - Len(inRing) \in Nat
    <3> HIDE DEF burst
    <3> QED
      BY <1>1, <1>3, <2>1, QueueTaken
  <2>2. CASE RingSize - Len(inRing) \notin Nat
    <3>1. Len(inRing) \in Nat /\ Len(burst) \in Nat
      BY <1>1, <1>3 DEF QueueOK
    <3>2. RingSize - Len(inRing) < 1 /\ RingSize - Len(inRing) \in Int
      BY <1>1, <2>2, <3>1
    <3> DEFINE w == RingSize - Len(inRing)
    <3>3. ~(Len(burst) < w)
      BY <2>2, <3>1, <3>2
    <3>4. fit = SubSeq(burst, 1, w)
      BY <3>3, Zenon DEF TakeUpTo
    <3>5. fit = <<>>
      <4>1. burst \in Seq(Pkts) /\ w \in Int /\ w < 1
        BY <1>3, <3>2 DEF QueueOK
      <4> HIDE DEF burst, w, fit
      <4> QED
        BY <3>4, <4>1
    <3>6. QueueOK(<<>>, scene, arrived) /\ Ids(<<>>) = {}
      BY DEF QueueOK, Ids
    <3> HIDE DEF fit
    <3> QED
      BY <3>5, <3>6
  <2> QED
    BY <2>1, <2>2
<1> HIDE DEF burst, fit
<1>5. Ids(inRing) \cap Ids(fit) = {}
  BY <1>1, <1>3, <1>4
<1>6. QueueOK(inRing', scene, arrived) /\ Ids(inRing') = Ids(inRing) \cup Ids(fit)
  <2>1. QueueOK(inRing \o fit, scene, arrived) /\ Ids(inRing \o fit) = Ids(inRing) \cup Ids(fit)
    BY <1>1, <1>4, <1>5, QueueJoined
  <2> QED
    BY <1>2, <2>1, Zenon
<1>7. Ids(nic') \cap Ids(inRing') = {}
  BY <1>1, <1>3, <1>4, <1>6
<1>8. Ids(nic') \cup Ids(inRing') \subseteq Ids(nic) \cup Ids(inRing)
  BY <1>3, <1>4, <1>6
<1> QED
  <2>1. arrived' = arrived /\ arrived' \in Nat /\ arrived <= arrived' /\ arrived' <= Len(scene.packets)
    BY <1>1, <1>2
  <2>2. QueueOK(nic', scene, arrived') /\ QueueOK(inRing', scene, arrived')
    BY <1>3, <1>6, <2>1, Zenon
  <2> QED
    BY <1>2, <1>7, <1>8, <2>1, <2>2, QueuesMove

(* A packet arrives at the port. *)
LEMMA PathArrive == ASSUME PathInv, Arrive PROVE PathInv'
<1>1. /\ QueueOK(nic, scene, arrived) /\ QueueOK(inRing, scene, arrived) /\ arrived \in Nat
      /\ Ids(nic) \cap Ids(inRing) = {} /\ scene \in Scenarios
  BY DEF PathInv, SceneInv, QueuesInv
<1>2. /\ UNCHANGED <<scene, owner, fault, ppc, at, mbufs, inRing>> /\ arrived' = arrived + 1
      /\ nic' = Append(nic, Packet(arrived + 1)) \/ nic' = nic
      /\ arrived < Len(scene.packets)
  BY DEF Arrive, pktVars
<1>3. Len(scene.packets) \in Nat
  <2>1. scene.packets \in Seq(Frames)
    BY <1>1, StackAssumption
  <2> QED
    BY <2>1
<1>4. arrived' \in Nat /\ arrived <= arrived' /\ arrived' <= Len(scene.packets) /\ arrived + 1 \in arrived + 1 .. arrived'
  BY <1>1, <1>2, <1>3
<1> DEFINE p == Numbered(scene, arrived + 1)
           one == <<p>>
<1>5. p \in Pkts /\ p.id = arrived + 1
  <2>1. arrived + 1 \in 1 .. Len(scene.packets)
    BY <1>1, <1>2, <1>3
  <2> QED
    BY <1>1, <2>1, PacketNumbered
<1>6. QueueOK(nic, scene, arrived') /\ QueueOK(inRing, scene, arrived')
  BY <1>1, <1>4 DEF QueueOK
<1>7. QueueOK(one, scene, arrived') /\ Ids(one) = {arrived + 1}
  <2> HIDE DEF p
  <2>1. one \in Seq(Pkts) /\ DOMAIN one = {1} /\ one[1] = p
    BY <1>5
  <2>2. p = Numbered(scene, p.id) /\ p.id \in 1 .. arrived'
    BY <1>1, <1>2, <1>5 DEF p
  <2> HIDE DEF one
  <2> QED
    BY <1>5, <2>1, <2>2 DEF QueueOK, Ids
<1> HIDE DEF one
<1>8. arrived + 1 \notin Ids(nic) \cup Ids(inRing)
  <2>1. \A n \in Ids(nic) : n \in 1 .. arrived
    BY <1>1, InIds DEF QueueOK
  <2>2. \A n \in Ids(inRing) : n \in 1 .. arrived
    BY <1>1, InIds DEF QueueOK
  <2> QED
    BY <1>1, <2>1, <2>2
<1>9. QueueOK(nic \o one, scene, arrived') /\ Ids(nic \o one) = Ids(nic) \cup {arrived + 1}
  <2>1. Ids(nic) \cap Ids(one) = {}
    BY <1>7, <1>8
  <2>2. QueueOK(nic \o one, scene, arrived') /\ Ids(nic \o one) = Ids(nic) \cup Ids(one)
    <3>1. arrived' \in Nat /\ QueueOK(nic, scene, arrived') /\ QueueOK(one, scene, arrived')
      BY <1>4, <1>6, <1>7
    <3>2. PICK a \in Nat : a = arrived'
      BY <3>1
    <3>3. PICK r : r = one
      OBVIOUS
    <3>4. QueueOK(nic, scene, a) /\ QueueOK(r, scene, a) /\ Ids(nic) \cap Ids(r) = {}
      BY <2>1, <3>1, <3>2, <3>3
    <3>5. QueueOK(nic \o r, scene, a) /\ Ids(nic \o r) = Ids(nic) \cup Ids(r)
      BY <3>4, QueueJoined
    <3> QED
      BY <3>2, <3>3, <3>5
  <2> QED
    BY <1>7, <2>2
<1>10. nic \o one = Append(nic, Packet(arrived + 1))
  <2>1. nic \in Seq(Pkts) /\ p = Packet(arrived + 1)
    BY <1>1 DEF QueueOK, Packet, Numbered
  <2> HIDE DEF p
  <2> QED
    BY <1>5, <2>1 DEF one
<1>11. QueueOK(nic', scene, arrived') /\ Ids(nic') \subseteq Ids(nic) \cup {arrived + 1}
  <2>1. CASE nic' = nic
    BY <1>6, <2>1
  <2>2. CASE nic' = nic \o one
    BY <1>9, <2>2
  <2> QED
    BY <1>2, <1>10, <2>1, <2>2
<1>12. Ids(nic') \cap Ids(inRing) = {}
  BY <1>1, <1>8, <1>11
<1> QED
  <2>1. QueueOK(inRing', scene, arrived') /\ Ids(nic') \cap Ids(inRing') = {}
    BY <1>2, <1>6, <1>12
  <2>2. Ids(nic') \cup Ids(inRing') \subseteq Ids(nic) \cup Ids(inRing) \cup (arrived + 1 .. arrived')
    BY <1>2, <1>4, <1>11
  <2> QED
    BY <1>2, <1>4, <1>11, <2>1, <2>2, QueuesMove

(* The interface is set up or down: what waits at the port is lost. *)
LEMMA PathConfig == ASSUME PathInv, NEW up, ng_config_network_if(up) PROVE PathInv'
<1>1. /\ UNCHANGED <<scene, owner, fault, ppc, at, mbufs, inRing, arrived>> /\ nic' = <<>>
  BY DEF ng_config_network_if, pktVars, netVars
<1>2. QueueOK(inRing, scene, arrived) /\ arrived \in Nat /\ arrived <= Len(scene.packets)
  BY DEF PathInv, QueuesInv, SceneInv
<1>3. QueueOK(<<>>, scene, arrived) /\ Ids(<<>>) = {}
  BY DEF QueueOK, Ids
<1>4. /\ QueueOK(nic', scene, arrived') /\ QueueOK(inRing', scene, arrived') /\ Ids(nic') = {} /\ inRing' = inRing
      /\ arrived' \in Nat /\ arrived <= arrived' /\ arrived' <= Len(scene.packets)
  BY <1>1, <1>2, <1>3
<1> QED
  BY <1>1, <1>4, QueuesMove

(* pkt_process takes a batch, all of it the port's. *)
LEMMA PathDequeue == ASSUME PathInv, fault = "none", Dequeue PROVE PathInv'
<1>1. /\ QueueOK(nic, scene, arrived) /\ QueueOK(inRing, scene, arrived) /\ arrived \in Nat
      /\ Ids(nic) \cap Ids(inRing) = {} /\ Burst \in Nat \ {0}
      /\ fault \in {"none", "freed"}
  BY StackAssumption DEF PathInv, SceneInv, QueuesInv
<1>2. /\ UNCHANGED <<scene, owner, fault, nic, arrived>> /\ ppc = "dequeue" /\ at' = 1
      /\ mbufs' = TakeUpTo(inRing, Burst) /\ inRing' = LeaveAfter(inRing, Burst)
      /\ ppc' = IF inRing = <<>> THEN "out" ELSE "packet"
  BY DEF Dequeue, netVars
<1>3. /\ QueueOK(mbufs', scene, arrived) /\ QueueOK(inRing', scene, arrived)
      /\ Ids(mbufs') \subseteq Ids(inRing) /\ Ids(inRing') \subseteq Ids(inRing) /\ Ids(mbufs') \cap Ids(inRing') = {}
  BY <1>1, <1>2, QueueTaken
<1>4. LoopInv'
  <2>1. inRing \in Seq(Pkts) /\ Len(inRing) \in Nat
    BY <1>1 DEF QueueOK
  <2>2. Len(mbufs') = IF Len(inRing) < Burst THEN Len(inRing) ELSE Burst
    BY <1>1, <1>2, <2>1, TakeLeave
  <2>3. inRing = <<>> <=> Len(inRing) = 0
    BY <2>1
  <2> QED
    BY <1>1, <1>2, <2>1, <2>2, <2>3 DEF LoopInv
<1>5. SceneInv'
  BY <1>2 DEF PathInv, SceneInv
<1>6. QueuesInv'
  <2>1. QueueOK(nic', scene', arrived') /\ QueueOK(inRing', scene', arrived') /\ QueueOK(mbufs', scene', arrived')
    BY <1>1, <1>2, <1>3, Zenon
  <2>2. nic' = nic
    BY <1>2
  <2>3. Ids(nic') \cap Ids(inRing') = {} /\ Ids(nic') \cap Ids(mbufs') = {} /\ Ids(inRing') \cap Ids(mbufs') = {}
    BY <1>1, <1>3, <2>2
  <2> QED
    BY <2>1, <2>3 DEF QueuesInv
<1>7. \A i : ~Handled(i)' \/ ~(i \in DOMAIN mbufs')
  <2>1. mbufs' \in Seq(Pkts) /\ DOMAIN mbufs' = 1 .. Len(mbufs')
    BY <1>3 DEF QueueOK
  <2> QED
    BY <1>2, <2>1 DEF Handled
<1>8. \A n \in Ids(inRing) \cup Ids(nic) : owner'[n] = "port"
  BY <1>2 DEF PathInv, OwnerInv
<1>9. \A i \in DOMAIN mbufs' : owner'[mbufs'[i].id] = "port"
  <2>1. ASSUME NEW i \in DOMAIN mbufs' PROVE owner'[mbufs'[i].id] = "port"
    <3>1. mbufs'[i].id \in Ids(mbufs')
      BY InIds
    <3> QED
      BY <1>3, <1>8, <3>1
  <2> QED
    BY <2>1
<1>10. OwnerInv'
  <2>1. \A n \in Ids(nic') \cup Ids(inRing') : owner'[n] = "port"
    BY <1>2, <1>3, <1>8
  <2>2. \A n \in 1 .. Len(scene'.packets) : n > arrived' => owner'[n] = "port"
    BY <1>2 DEF PathInv, OwnerInv
  <2>3. fault' # "freed"
    BY <1>2
  <2> QED
    BY <1>7, <1>9, <2>1, <2>2, <2>3 DEF OwnerInv
<1> QED
  BY <1>4, <1>5, <1>6, <1>10 DEF PathInv

(* The next packet of the batch, or udp_out. *)
LEMMA LoopNext ==
    ASSUME LoopInv, Len(mbufs) \in Nat, mbufs' = mbufs, at <= Len(mbufs),
           \/ ppc' = "signal" /\ at' = at
           \/ ppc' = Following /\ at' = at + 1
    PROVE  LoopInv'
BY DEF LoopInv, Following

(* A packet is released, or some of the batch with one for the kernel. *)
LEMMA PathRelease ==
    ASSUME PathInv, ppc \in {"packet", "process"}, NEW ids, NEW to \in {"pool", "kernel"},
           \/ ids = {pkt.id}
           \/ ids \subseteq Ids(mbufs) /\ pkt.kind \in {"icmp", "other"},
           Release(ids, to), UNCHANGED <<scene, arrived, mbufs, nic, inRing>>,
           \/ ppc' = "signal" /\ at' = at
           \/ ppc' = Following /\ at' = at + 1
    PROVE  PathInv'
<1>0. scene' = scene /\ arrived' = arrived /\ mbufs' = mbufs /\ nic' = nic /\ inRing' = inRing
  OBVIOUS
<1>1. /\ mbufs \in Seq(Pkts) /\ Len(mbufs) \in Nat /\ DOMAIN mbufs = 1 .. Len(mbufs)
      /\ (\A i, j \in DOMAIN mbufs : mbufs[i].id = mbufs[j].id => i = j)
      /\ \A i \in DOMAIN mbufs : mbufs[i].id \in 1 .. arrived
  BY DEF PathInv, QueuesInv, QueueOK
<1>2. at \in Nat \ {0} /\ at <= Len(mbufs) /\ at \in DOMAIN mbufs /\ ppc # "signal"
  BY <1>1 DEF PathInv, LoopInv
<1>3. /\ arrived \in Nat /\ arrived <= Len(scene.packets) /\ scene \in Scenarios
      /\ owner \in [1 .. Len(scene.packets) -> {"port", "pool", "kernel", "left"}] /\ fault \in {"none", "freed"}
  BY DEF PathInv, SceneInv
<1>4. Len(scene.packets) \in Nat
  <2>1. scene.packets \in Seq(Frames)
    BY <1>3, StackAssumption
  <2> QED
    BY <2>1
<1>5. /\ owner' = [n \in 1 .. Len(scene.packets) |-> IF n \in ids THEN to
                       ELSE IF n = pkt.id /\ owner[n] = "port" THEN "left" ELSE owner[n]]
      /\ fault' = IF \E n \in ids : owner[n] \in {"pool", "kernel"} THEN "freed" ELSE fault
  BY <1>3 DEF Release
<1>6. ids \subseteq Ids(mbufs) /\ pkt.id \in Ids(mbufs) /\ pkt = mbufs[at]
  <2>1. mbufs[at].id \in Ids(mbufs)
    BY <1>2, InIds
  <2> QED
    BY <2>1 DEF pkt
<1>7. \A n \in Ids(mbufs) : n \in 1 .. Len(scene.packets) /\ n <= arrived
  <2>1. ASSUME NEW n \in Ids(mbufs) PROVE n \in 1 .. Len(scene.packets) /\ n <= arrived
    <3>1. n \in 1 .. arrived
      BY <1>1, InIds
    <3> QED
      BY <1>3, <1>4, <3>1
  <2> QED
    BY <2>1
<1>8. \A n \in 1 .. Len(scene.packets) : owner'[n] = IF n \in ids THEN to
                    ELSE IF n = pkt.id /\ owner[n] = "port" THEN "left" ELSE owner[n]
  BY <1>5
<1>9. SceneInv'
  <2>1. owner' \in [1 .. Len(scene.packets) -> {"port", "pool", "kernel", "left"}]
    BY <1>3, <1>5
  <2>2. fault' \in {"none", "freed"}
    BY <1>3, <1>5
  <2> QED
    BY <1>0, <1>3, <2>1, <2>2 DEF SceneInv
<1>10. LoopInv'
  BY <1>0, <1>1, <1>2, LoopNext DEF PathInv
<1>11. QueuesInv'
  BY <1>0 DEF PathInv, QueuesInv
<1>12. Mixed' = Mixed
  BY <1>0 DEF Mixed
<1>13. \A i \in DOMAIN mbufs : i < at => Disposed(mbufs[i], owner)
  BY DEF PathInv, OwnerInv, Handled
<1>14. \A i \in DOMAIN mbufs : i >= at => owner[mbufs[i].id] = "port" \/ Mixed
  <2>1. ASSUME NEW i \in DOMAIN mbufs, i >= at PROVE ~Handled(i)
    <3>1. i \in Nat
      BY <1>1
    <3> QED
      BY <1>2, <2>1, <3>1 DEF Handled
  <2> QED
    BY <2>1 DEF PathInv, OwnerInv
<1>15. fault' = "freed" => Mixed
  <2>1. CASE fault = "freed"
    BY <2>1 DEF PathInv, OwnerInv
  <2>2. ASSUME NEW n \in ids, owner[n] \in {"pool", "kernel"} PROVE Mixed
    <3>1. PICK i \in DOMAIN mbufs : n = mbufs[i].id
      BY <1>6, InIds
    <3>2. i \in Nat
      BY <1>1
    <3>3. CASE i >= at
      BY <1>14, <2>2, <3>1, <3>3
    <3>4. CASE i < at
      <4>1. pkt.kind \in {"icmp", "other"}
        <5> SUFFICES ASSUME ids = {pkt.id} PROVE FALSE
          OBVIOUS
        <5>1. mbufs[i].id = mbufs[at].id
          BY <1>6, <3>1
        <5>2. i = at
          BY <1>1, <1>2, <5>1
        <5> QED
          BY <1>2, <3>2, <3>4, <5>2
      <4>2. Len(mbufs) > 1
        BY <1>1, <1>2, <3>4
      <4> QED
        BY <1>2, <1>6, <4>1, <4>2 DEF Mixed
    <3> QED
      BY <1>2, <3>2, <3>3, <3>4
  <2> QED
    BY <1>5, <2>1, <2>2
<1>16. ASSUME NEW i \in DOMAIN mbufs
       PROVE  IF Handled(i)' THEN Disposed(mbufs[i], owner') ELSE owner'[mbufs[i].id] = "port" \/ Mixed
  <2>1. i \in Nat \ {0} /\ mbufs[i].id \in Ids(mbufs) /\ mbufs[i].id \in 1 .. Len(scene.packets)
    BY <1>1, <1>7, InIds
  <2>2. owner'[mbufs[i].id] = IF mbufs[i].id \in ids THEN to
             ELSE IF mbufs[i].id = pkt.id /\ owner[mbufs[i].id] = "port" THEN "left" ELSE owner[mbufs[i].id]
    BY <1>8, <2>1
  <2>3. CASE i = at
    <3>1. Handled(i)'
      BY <1>2, <2>3 DEF Handled
    <3>2. CASE mbufs[i].id \in ids
      BY <2>2, <3>1, <3>2 DEF Disposed
    <3>3. CASE mbufs[i].id \notin ids
      <4>1. mbufs[i] = pkt /\ pkt.kind \in {"icmp", "other"}
        BY <1>6, <2>3, <3>3
      <4>2. owner[pkt.id] \in {"port", "pool", "kernel", "left"}
        BY <1>3, <2>1, <4>1
      <4>3. owner'[pkt.id] \in {"pool", "kernel", "left"}
        BY <2>2, <3>3, <4>1, <4>2
      <4> QED
        BY <3>1, <4>1, <4>3 DEF Disposed
    <3> QED
      BY <3>2, <3>3
  <2>4. CASE i < at
    <3>1. Handled(i)'
      BY <1>2, <2>1, <2>4 DEF Handled
    <3>2. Disposed(mbufs[i], owner)
      BY <1>13, <2>4
    <3>3. Disposed(mbufs[i], owner')
      BY <2>2, <3>2 DEF Disposed
    <3> QED
      BY <3>1, <3>3
  <2>5. CASE i > at
    <3>1. ~Handled(i)'
      BY <1>2, <2>1, <2>5 DEF Handled, Following
    <3>2. CASE ids = {pkt.id}
      <4>1. mbufs[i].id \notin ids
        <5> SUFFICES ASSUME mbufs[i].id = mbufs[at].id PROVE FALSE
          BY <1>6, <3>2
        <5>1. i = at
          BY <1>1, <1>2
        <5> QED
          BY <1>2, <2>1, <2>5, <5>1
      <4>2. owner[mbufs[i].id] = "port" \/ Mixed
        BY <1>2, <1>14, <2>1, <2>5
      <4>3. mbufs[i].id # pkt.id
        BY <3>2, <4>1
      <4> QED
        BY <2>2, <3>1, <4>1, <4>2, <4>3
    <3>3. CASE pkt.kind \in {"icmp", "other"}
      <4>1. Len(mbufs) > 1
        BY <1>1, <1>2, <2>5
      <4>2. Mixed
        BY <1>2, <1>6, <3>3, <4>1 DEF Mixed
      <4> QED
        BY <3>1, <4>2
    <3> QED
      BY <3>2, <3>3
  <2> QED
    BY <1>2, <2>1, <2>3, <2>4, <2>5
<1>17. OwnerInv'
  <2>1. ASSUME NEW n \in Ids(nic) \cup Ids(inRing) PROVE owner'[n] = "port"
    <3>1. n \in 1 .. arrived
      BY InIds DEF PathInv, QueuesInv, QueueOK
    <3>2. n \in 1 .. Len(scene.packets) /\ n \notin ids /\ n # pkt.id
      BY <1>3, <1>4, <1>6, <3>1 DEF PathInv, QueuesInv
    <3> QED
      BY <1>8, <3>2 DEF PathInv, OwnerInv
  <2>2. ASSUME NEW n \in 1 .. Len(scene.packets), n > arrived PROVE owner'[n] = "port"
    <3>1. n \notin ids /\ n # pkt.id
      <4> SUFFICES ASSUME n \in ids \/ n = pkt.id PROVE FALSE
        OBVIOUS
      <4>1. n <= arrived
        BY <1>6, <1>7
      <4> QED
        BY <1>3, <2>2, <4>1
    <3> QED
      BY <1>8, <2>2, <3>1 DEF PathInv, OwnerInv
  <2>3. \A n \in Ids(nic') \cup Ids(inRing') : owner'[n] = "port"
    BY <1>0, <2>1
  <2>4. \A n \in 1 .. Len(scene'.packets) : n > arrived' => owner'[n] = "port"
    BY <1>0, <2>2
  <2>5. \A i \in DOMAIN mbufs' : IF Handled(i)' THEN Disposed(mbufs'[i], owner')
                                               ELSE owner'[mbufs'[i].id] = "port" \/ Mixed'
    BY <1>0, <1>12, <1>16
  <2>6. fault' = "freed" => Mixed'
    BY <1>12, <1>15
  <2> QED
    BY <2>3, <2>4, <2>5, <2>6 DEF OwnerInv
<1> QED
  BY <1>9, <1>10, <1>11, <1>17 DEF PathInv

(* The signal after a datagram was queued. *)
LEMMA PathSignal == ASSUME PathInv, Signal PROVE PathInv'
<1>0. /\ scene' = scene /\ arrived' = arrived /\ mbufs' = mbufs /\ nic' = nic /\ inRing' = inRing
      /\ owner' = owner /\ fault' = fault /\ ppc = "signal" /\ ppc' = Following /\ at' = at + 1
  BY DEF Signal, netVars
<1>1. mbufs \in Seq(Pkts) /\ Len(mbufs) \in Nat /\ DOMAIN mbufs = 1 .. Len(mbufs)
  BY DEF PathInv, QueuesInv, QueueOK
<1>2. at \in Nat \ {0} /\ at <= Len(mbufs)
  BY <1>0 DEF PathInv, LoopInv
<1>3. LoopInv'
  BY <1>0, <1>1, <1>2, LoopNext DEF PathInv
<1>4. SceneInv' /\ QueuesInv'
  BY <1>0 DEF PathInv, SceneInv, QueuesInv
<1>5. \A i \in DOMAIN mbufs : Handled(i)' <=> Handled(i)
  BY <1>0, <1>1, <1>2 DEF Handled, Following
<1>6. Mixed' = Mixed
  BY <1>0 DEF Mixed
<1>7. OwnerInv'
  BY <1>0, <1>5, <1>6 DEF PathInv, OwnerInv
<1> QED
  BY <1>3, <1>4, <1>7 DEF PathInv

(* Every step keeps the path in order. *)
LEMMA PathNext == PathInv /\ [UdpNext]_udpVars => PathInv'
<1> SUFFICES ASSUME PathInv, [UdpNext]_udpVars PROVE PathInv'
  OBVIOUS
<1>1. CASE UNCHANGED udpVars
  BY <1>1, PathSame DEF udpVars
<1> SUFFICES ASSUME fault = "none", UdpNext PROVE PathInv'
  BY <1>1 DEF UdpNext
<1>2. CASE Rx \/ Arrive \/ \E up \in BOOLEAN : ng_config_network_if(up)
  BY <1>2, PathRx, PathArrive, PathConfig
<1>3. CASE Dequeue
  BY <1>3, PathDequeue
<1>4. CASE Learn
  <2>1. UNCHANGED <<scene, arrived, owner, fault, at, mbufs, nic, inRing>> /\ ppc = "packet" /\ ppc' \in {"count", "process"}
    BY <1>4 DEF Learn, PktSame, netVars
  <2> QED
    BY <2>1, PathMoves
<1>5. CASE Counted
  <2>1. UNCHANGED <<scene, arrived, owner, fault, at, mbufs, nic, inRing>> /\ ppc = "count" /\ ppc' = "process"
    BY <1>5 DEF Counted, PktSame, netVars
  <2> QED
    BY <2>1, PathMoves
<1>6. CASE UdpOut
  <2>1. UNCHANGED <<scene, arrived, owner, fault, at, mbufs, nic, inRing>> /\ ppc = "out" /\ ppc' = "dequeue"
    BY <1>6 DEF UdpOut, PktSame, netVars
  <2> QED
    BY <2>1, PathMoves
<1>7. CASE UdpProcess \/ UdpProcessFails \/ TcpProcess
  <2>1. /\ UNCHANGED <<scene, arrived, mbufs, nic, inRing>> /\ ppc \in {"packet", "process"} /\ Release({pkt.id}, "pool")
        /\ \/ ppc' = "signal" /\ at' = at
           \/ ppc' = Following /\ at' = at + 1
    BY <1>7 DEF UdpProcess, UdpProcessFails, TcpProcess, Ready, PktSame, netVars
  <2> QED
    BY <2>1, PathRelease
<1>8. CASE KniBurst
  <2>1. /\ UNCHANGED <<scene, arrived, mbufs, nic, inRing>> /\ ppc \in {"packet", "process"}
        /\ pkt.kind \in {"icmp", "other"} /\ ppc' = Following /\ at' = at + 1
    BY <1>8 DEF KniBurst, Ready, PktSame, netVars
  <2>2. PICK taken \in 0 .. Len(mbufs) : Release({mbufs[i].id : i \in 1 .. taken}, "kernel")
    BY <1>8 DEF KniBurst
  <2>3. {mbufs[i].id : i \in 1 .. taken} \subseteq Ids(mbufs)
    <3>1. mbufs \in Seq(Pkts)
      BY DEF PathInv, QueuesInv, QueueOK
    <3>2. \A i \in 1 .. taken : i \in DOMAIN mbufs
      BY <3>1
    <3> QED
      BY <3>2, InIds
  <2> QED
    BY <2>1, <2>2, <2>3, PathRelease
<1>9. CASE Signal
  BY <1>9, PathSignal
<1>10. CASE Tx \/ ArpTimer
  BY <1>10, PathSame DEF Tx, ArpTimer, netVars, pktVars
<1>11. CASE AppStep \/ TcpStarts
  <2>1. UNCHANGED <<scene, arrived, owner, fault, ppc, at, mbufs, nic, inRing>>
    <3>1. CASE UdpStarts \/ TcpStarts
      BY <3>1 DEF UdpStarts, TcpStarts, AppSame, mainVars, netVars, pktVars
    <3>2. CASE nrecvfrom \/ Requeue \/ SendFails
      BY <3>2 DEF nrecvfrom, Requeue, SendFails, AppSame, mainVars, netVars, pktVars
    <3>3. ASSUME NEW beyond, nsendto(beyond) PROVE UNCHANGED <<scene, arrived, owner, fault, ppc, at, mbufs, nic, inRing>>
      BY <3>3 DEF nsendto, mainVars, netVars, pktVars
    <3> QED
      BY <1>11, <3>1, <3>2, <3>3 DEF AppStep
  <2> QED
    BY <2>1, PathSame
<1> QED
  BY <1>2, <1>3, <1>4, <1>5, <1>6, <1>7, <1>8, <1>9, <1>10, <1>11 DEF UdpNext, PktStep

(* ReleasedOnce: whatever arrives, in whatever batches, pkt_process        *)
(* releases every packet it has finished, but for those the kernel's queue *)
(* refused, and none twice unless a packet for the kernel came in one      *)
(* batch with others (tcp.c, pkt_process).                                 *)
THEOREM PacketsReleasedOnce == UdpSpec => []ReleasedOnce
BY PathInit, PathNext, PathShows, PTL DEF UdpSpec

(* The servers' sockets: who has which descriptor, and the ports. *)
Serving == {"recv", "asleep", "requeue", "send"}
StartInv ==
    /\ upc \in {"scan", "mark", "bind"} \cup Serving /\ tpc \in {"scan", "mark", "bind", "listen"}
    /\ IF upc = "scan" THEN ufd = 0 ELSE ufd \in 3 .. 5
    /\ IF tpc = "scan" THEN tfd = 0 ELSE tfd \in 3 .. 5
    /\ fdTable = (IF upc \in {"scan", "mark"} THEN {} ELSE {ufd}) \cup (IF tpc \in {"scan", "mark"} THEN {} ELSE {tfd})
    /\ host.fd = IF upc \in {"scan", "mark"} THEN 0 ELSE ufd
    /\ tcb \in [fd : Nat, port : Nat]
    /\ tcb.fd = IF tpc \in {"scan", "mark"} THEN 0 ELSE tfd
    /\ upc \in Serving /\ ufd # tfd => host.port = UdpPort
    /\ tpc = "listen" /\ ufd # tfd => tcb.port = TcpPort

(* What the datagrams in the server's rings are: each knows its sender,    *)
(* and one that fits has its bytes up to the first zero, before the echo   *)
(* with the zero that ends the string.                                     *)
Cells == Nat \X Nat
Dgs == [re : Nat, to : Hosts, data : Seq(Cells)]
SentBack(d, s, a) == d.re \in 1 .. a /\ d.to = Numbered(s, d.re).src
Echo(s, n) == [i \in 1 .. TextLen(Numbered(s, n)) |-> <<n, i>>]
Received(s, a) == {d \in Dgs : SentBack(d, s, a) /\ (Fits(Numbered(s, d.re)) => d.data = Offload(Numbered(s, d.re)).data)}
Answers(s, a) == {d \in Dgs : SentBack(d, s, a) /\ (Fits(Numbered(s, d.re)) => d.data = Echo(s, d.re))}
HostTypes(s, a) == [fd : Nat, port : Nat, rcvbuf : Seq(Received(s, a)), sndbuf : Seq(Answers(s, a))]

HostInv == host \in HostTypes(scene, arrived)

(* What nrecvfrom has copied for the answer. *)
Copied(b, f, s, a) ==
    /\ SentBack(f, s, a)
    /\ Fits(Numbered(s, f.re)) =>
         /\ \A i \in 1 .. TextLen(Numbered(s, f.re)) : b[i] = <<f.re, i>>
         /\ b[TextLen(Numbered(s, f.re)) + 1] = Nul

BufferInv ==
    /\ buffer \in Seq(Cells) /\ Len(buffer) = BufLen
    /\ from \in [re : Nat, to : Hosts \cup {0}]
    /\ upc \in {"requeue", "send"} => Copied(buffer, from, scene, arrived)
    /\ upc = "requeue" => ol \in Received(scene, arrived)

(* The ARP table: no address twice, and all but the one that is just       *)
(* being inserted are counted.                                             *)
Arps == [ip : Hosts, mac : Nat \ {0}]
ArpInv ==
    /\ entries \in Seq(Arps) /\ count \in Nat
    /\ \A i, j \in DOMAIN entries : entries[i].ip = entries[j].ip => i = j
    /\ Len(entries) = IF ppc = "count" THEN count + 1 ELSE count

(* The answers on their way out. *)
Outs == [type : {"arp", "udp"}, ip : Hosts, mac : Nat, re : Nat, data : Seq(Cells)]
Home(o, s, a, E) ==
    /\ o.re \in 1 .. a /\ o.ip = Numbered(s, o.re).src
    /\ [ip |-> o.ip, mac |-> o.mac] \in E
    /\ Fits(Numbered(s, o.re)) => o.data = Echo(s, o.re)
Outgoing(s, a, E) == {o \in Outs : o.type = "udp" => Home(o, s, a, E)}
OutInv ==
    /\ outRing \in Seq(Outgoing(scene, arrived, ToSet(entries)))
    /\ wire \subseteq {o \in Outgoing(scene, arrived, ToSet(entries)) : o.type = "udp"}

AnswerInv == HostInv /\ BufferInv /\ ArpInv /\ OutInv

UdpInv == PathInv /\ StartInv /\ AnswerInv

(* The invariant shows the properties. *)
LEMMA UdpShows == UdpInv => ServersBound /\ AnswersGoHome
<1> SUFFICES ASSUME UdpInv PROVE ServersBound /\ AnswersGoHome
  OBVIOUS
<1>1. ServersBound
  BY DEF UdpInv, StartInv, ServersBound, Serving
<1>2. ASSUME NEW o \in wire \cup {x \in ToSet(outRing) : x.type = "udp"}
      PROVE  /\ o.ip = Packet(o.re).src
             /\ [ip |-> o.ip, mac |-> o.mac] \in ToSet(entries)
             /\ Fits(Packet(o.re)) => o.data = [i \in 1 .. TextLen(Packet(o.re)) |-> <<o.re, i>>]
  <2>1. o \in Outgoing(scene, arrived, ToSet(entries)) /\ o.type = "udp"
    <3>1. CASE o \in wire
      BY <3>1 DEF UdpInv, AnswerInv, OutInv
    <3>2. CASE o \in ToSet(outRing) /\ o.type = "udp"
      <4>1. PICK i \in DOMAIN outRing : o = outRing[i]
        BY <3>2 DEF ToSet
      <4>2. outRing \in Seq(Outgoing(scene, arrived, ToSet(entries)))
        BY DEF UdpInv, AnswerInv, OutInv
      <4> QED
        BY <3>2, <4>1, <4>2
    <3> QED
      BY <3>1, <3>2
  <2>2. Home(o, scene, arrived, ToSet(entries))
    BY <2>1 DEF Outgoing
  <2>3. Packet(o.re) = Numbered(scene, o.re)
    BY DEF Packet, Numbered
  <2> QED
    BY <2>2, <2>3, Zenon DEF Home, Echo
<1>3. \A i, j \in DOMAIN entries : entries[i].ip = entries[j].ip => i = j
  BY DEF UdpInv, AnswerInv, ArpInv
<1>4. AnswersGoHome
  BY <1>2, <1>3 DEF AnswersGoHome
<1> QED
  BY <1>1, <1>4

(* At first. *)
LEMMA UdpInitInv == UdpInit => UdpInv
<1> SUFFICES ASSUME UdpInit PROVE UdpInv
  OBVIOUS
<1>1. PathInv
  BY PathInit
<1>2. /\ scene \in Scenarios /\ arrived = 0 /\ entries = <<>> /\ count = 0 /\ ppc = "dequeue" /\ outRing = <<>> /\ wire = {}
      /\ buffer = [i \in 1 .. BufLen |-> Nul] /\ from = NoOne /\ scene.cold \in BOOLEAN
      /\ BufLen \in Nat
  BY StackAssumption DEF UdpInit
<1>3. \/ /\ scene.cold = TRUE /\ fdTable = {} /\ host = NoHost /\ tcb = NoTcb
         /\ upc = "scan" /\ ufd = 0 /\ tpc = "scan" /\ tfd = 0
      \/ /\ scene.cold = FALSE /\ fdTable = {3, 4} /\ host = [NoHost EXCEPT !.fd = 3, !.port = UdpPort]
         /\ tcb = [fd |-> 4, port |-> TcpPort]
         /\ upc = "recv" /\ ufd = 3 /\ tpc = "listen" /\ tfd = 4
  <2>1. CASE scene.cold = TRUE
    BY <2>1 DEF UdpInit
  <2>2. CASE scene.cold = FALSE
    BY <2>2 DEF UdpInit
  <2> QED
    BY <1>2, <2>1, <2>2
<1>4. /\ host.fd = IF upc = "scan" THEN 0 ELSE 3
      /\ host.port = IF upc = "scan" THEN 0 ELSE UdpPort
      /\ host \in HostTypes(scene, arrived)
  <2>1. PICK S, T : S = Received(scene, arrived) /\ T = Answers(scene, arrived)
    OBVIOUS
  <2> DEFINE R == [fd : Nat, port : Nat, rcvbuf : Seq(S), sndbuf : Seq(T)]
  <2>2. NoHost \in R /\ NoHost.fd = 0 /\ NoHost.port = 0
    BY DEF NoHost
  <2>3. PICK h \in R : h = NoHost
    BY <2>2
  <2>4. PICK p \in Nat : p = UdpPort
    BY DEF UdpPort
  <2> DEFINE g == [h EXCEPT !.fd = 3, !.port = p]
  <2>5. g \in R /\ g.fd = 3 /\ g.port = p
    OBVIOUS
  <2>6. R = HostTypes(scene, arrived)
    BY <2>1 DEF HostTypes
  <2>7. (upc = "scan" /\ host = h) \/ (upc # "scan" /\ host = g)
    BY <1>3, <2>3, <2>4
  <2> HIDE DEF R, g
  <2> QED
    BY <2>2, <2>3, <2>4, <2>5, <2>6, <2>7
<1>5. StartInv
  <2>1. CASE upc = "scan"
    BY <1>3, <1>4, <2>1 DEF StartInv, Serving, NoTcb
  <2>2. CASE upc = "recv"
    BY <1>3, <1>4, <2>2 DEF StartInv, Serving, TcpPort
  <2> QED
    BY <1>3, <2>1, <2>2
<1>6. HostInv
  BY <1>4 DEF HostInv
<1>7. BufferInv
  <2>1. Nul \in Cells
    BY DEF Nul, Cells
  <2>2. buffer \in Seq(Cells) /\ Len(buffer) = BufLen
    BY <1>2, <2>1
  <2>3. from \in [re : Nat, to : Hosts \cup {0}]
    BY <1>2 DEF NoOne
  <2>4. upc \notin {"requeue", "send"}
    BY <1>3
  <2> QED
    BY <2>2, <2>3, <2>4 DEF BufferInv
<1>8. ArpInv /\ OutInv
  BY <1>2 DEF ArpInv, OutInv
<1> QED
  BY <1>1, <1>5, <1>6, <1>7, <1>8 DEF UdpInv, AnswerInv

(* There is a lowest free bit while a server looks for one. *)
LEMMA LowestFree ==
    ASSUME StartInv, upc = "scan" \/ tpc = "scan"
    PROVE  LowestFd \in 3 .. 5
<1>1. 3 \notin fdTable \/ 4 \notin fdTable
  BY DEF StartInv
<1>2. \E fd \in 3 .. 5 : fd \notin fdTable /\ \A g \in 3 .. fd - 1 : g \in fdTable
  <2>1. CASE 3 \notin fdTable
    <3>1. 3 \in 3 .. 5 /\ \A g \in 3 .. 3 - 1 : g \in fdTable
      OBVIOUS
    <3> QED
      BY <2>1, <3>1
  <2>2. CASE 3 \in fdTable
    <3>1. 4 \in 3 .. 5 /\ \A g \in 3 .. 4 - 1 : g \in fdTable
      BY <2>2
    <3> QED
      BY <1>1, <2>2, <3>1
  <2> QED
    BY <2>1, <2>2
<1> QED
  BY <1>2, Zenon DEF LowestFd

(* Steps that are not of the start-up leave the sockets alone. *)
LEMMA StartSame ==
    ASSUME StartInv, UNCHANGED <<tpc, tfd, fdTable, tcb, ufd>>, host'.fd = host.fd, host'.port = host.port,
           upc' = upc \/ (upc \in Serving /\ upc' \in Serving)
    PROVE  StartInv'
BY DEF StartInv, Serving

(* The UDP server starts. *)
LEMMA UdpStartsStep ==
    ASSUME StartInv, HostInv, UdpStarts
    PROVE  /\ StartInv' /\ host'.rcvbuf \in {host.rcvbuf, <<>>} /\ host'.sndbuf \in {host.sndbuf, <<>>}
           /\ host' = [fd |-> host'.fd, port |-> host'.port, rcvbuf |-> host'.rcvbuf, sndbuf |-> host'.sndbuf]
           /\ host'.fd \in Nat /\ host'.port \in Nat /\ upc' \notin {"requeue", "send"}
<1>0. tpc' = tpc /\ tfd' = tfd
  BY DEF UdpStarts
<1>1. PICK S, T : host \in [fd : Nat, port : Nat, rcvbuf : S, sndbuf : T]
  BY DEF HostInv, HostTypes
<1>2. CASE upc = "scan"
  <2>1. /\ ufd' = LowestFd /\ upc' = "mark" /\ fdTable' = fdTable /\ host' = host /\ tcb' = tcb
    BY <1>2 DEF UdpStarts
  <2>2. ufd' \in 3 .. 5
    BY <1>2, <2>1, LowestFree
  <2>3. StartInv'
    BY <1>0, <1>2, <2>1, <2>2 DEF StartInv, Serving
  <2> QED
    BY <1>1, <2>1, <2>3
<1>3. CASE upc = "mark"
  <2>1. /\ ufd' = ufd /\ upc' = "bind" /\ fdTable' = fdTable \cup {ufd} /\ host' = nsocket(ufd) /\ tcb' = tcb
    BY <1>3 DEF UdpStarts
  <2>2. /\ host' = [fd |-> ufd, port |-> 0, rcvbuf |-> <<>>, sndbuf |-> <<>>]
    BY <2>1 DEF nsocket, NoHost
  <2>3. ufd \in 3 .. 5
    BY <1>3 DEF StartInv
  <2>4. StartInv'
    BY <1>0, <1>3, <2>1, <2>2 DEF StartInv, Serving
  <2> QED
    BY <2>1, <2>2, <2>3, <2>4
<1>4. CASE upc = "bind"
  <2>1. ufd' = ufd /\ upc' = "recv" /\ fdTable' = fdTable /\ nbind(ufd, UdpPort) /\ host.fd = ufd
    BY <1>4 DEF UdpStarts, StartInv
  <2>2. host' = [host EXCEPT !.port = UdpPort] /\ tcb' = tcb
    BY <2>1 DEF nbind, get_hostinfo_fromfd
  <2>3. /\ host'.fd = ufd /\ host'.port = UdpPort /\ host'.rcvbuf = host.rcvbuf /\ host'.sndbuf = host.sndbuf
        /\ host' = [fd |-> host'.fd, port |-> host'.port, rcvbuf |-> host'.rcvbuf, sndbuf |-> host'.sndbuf]
    BY <1>1, <2>1, <2>2
  <2>4. ufd \in 3 .. 5 /\ UdpPort \in Nat
    BY <1>4 DEF StartInv, UdpPort
  <2>5. StartInv'
    BY <1>0, <1>4, <2>1, <2>2, <2>3 DEF StartInv, Serving
  <2> QED
    BY <2>1, <2>3, <2>4, <2>5
<1> QED
  BY <1>2, <1>3, <1>4 DEF UdpStarts

(* The TCP server starts; its bind finds the UDP host only if both have    *)
(* the same descriptor.                                                    *)
LEMMA TcpStartsStep ==
    ASSUME StartInv, HostInv, TcpStarts
    PROVE  /\ StartInv' /\ host'.rcvbuf = host.rcvbuf /\ host'.sndbuf = host.sndbuf
           /\ host' = [fd |-> host'.fd, port |-> host'.port, rcvbuf |-> host'.rcvbuf, sndbuf |-> host'.sndbuf]
           /\ host'.fd \in Nat /\ host'.port \in Nat
<1>0. upc' = upc /\ ufd' = ufd
  BY DEF TcpStarts, appVars
<1>1. PICK S, T : host \in [fd : Nat, port : Nat, rcvbuf : S, sndbuf : T]
  BY DEF HostInv, HostTypes
<1>2. CASE tpc = "scan"
  <2>1. /\ tfd' = LowestFd /\ tpc' = "mark" /\ fdTable' = fdTable /\ host' = host /\ tcb' = tcb
    BY <1>2 DEF TcpStarts
  <2>2. tfd' \in 3 .. 5
    BY <1>2, <2>1, LowestFree
  <2>3. StartInv'
    BY <1>0, <1>2, <2>1, <2>2 DEF StartInv, Serving
  <2> QED
    BY <1>1, <2>1, <2>3
<1>3. CASE tpc = "mark"
  <2>1. /\ tfd' = tfd /\ tpc' = "bind" /\ fdTable' = fdTable \cup {tfd} /\ tcb' = [tcb EXCEPT !.fd = tfd] /\ host' = host
    BY <1>3 DEF TcpStarts
  <2>2. tfd \in 3 .. 5 /\ tcb \in [fd : Nat, port : Nat]
    BY <1>3 DEF StartInv
  <2>3. tcb' \in [fd : Nat, port : Nat] /\ tcb'.fd = tfd
    BY <2>1, <2>2
  <2>4. StartInv'
    BY <1>0, <1>3, <2>1, <2>3 DEF StartInv, Serving
  <2> QED
    BY <1>1, <2>1, <2>4
<1>4. CASE tpc = "bind"
  <2>1. tfd' = tfd /\ tpc' = "listen" /\ fdTable' = fdTable /\ nbind(tfd, TcpPort) /\ tcb.fd = tfd
    BY <1>4 DEF TcpStarts, StartInv
  <2>2. tfd \in 3 .. 5 /\ tcb \in [fd : Nat, port : Nat] /\ TcpPort \in Nat
    BY <1>4 DEF StartInv, TcpPort
  <2>3. CASE host.fd = tfd
    <3>1. host' = [host EXCEPT !.port = TcpPort] /\ tcb' = tcb
      BY <2>1, <2>3 DEF nbind, get_hostinfo_fromfd
    <3>2. /\ host'.fd = host.fd /\ host'.port = TcpPort /\ host'.rcvbuf = host.rcvbuf /\ host'.sndbuf = host.sndbuf
          /\ host' = [fd |-> host'.fd, port |-> host'.port, rcvbuf |-> host'.rcvbuf, sndbuf |-> host'.sndbuf]
      BY <1>1, <3>1
    <3>3. ufd = tfd
      BY <2>2, <2>3 DEF StartInv
    <3>4. StartInv'
      BY <1>0, <1>4, <2>1, <3>1, <3>2, <3>3 DEF StartInv, Serving
    <3> QED
      BY <1>1, <2>2, <3>2, <3>4
  <2>4. CASE host.fd # tfd
    <3>1. tcb' = [tcb EXCEPT !.port = TcpPort] /\ host' = host
      BY <2>1, <2>4 DEF nbind, get_hostinfo_fromfd
    <3>2. tcb' \in [fd : Nat, port : Nat] /\ tcb'.fd = tcb.fd /\ tcb'.port = TcpPort
      BY <2>2, <3>1
    <3>3. StartInv'
      BY <1>0, <1>4, <2>1, <3>1, <3>2 DEF StartInv, Serving
    <3> QED
      BY <1>1, <3>1, <3>3
  <2> QED
    BY <2>3, <2>4
<1> QED
  BY <1>2, <1>3, <1>4 DEF TcpStarts

(* Putting something into a ring. *)
LEMMA PushedIn ==
    ASSUME NEW S, NEW q \in Seq(S), NEW x \in S
    PROVE  Pushed(q, x) \in Seq(S)
BY DEF Pushed

(* A sequence over a set is one over a larger set. *)
LEMMA SeqLarger ==
    ASSUME NEW S, NEW T, S \subseteq T, NEW q \in Seq(S)
    PROVE  q \in Seq(T)
OBVIOUS

(* As packets arrive and the ARP table grows, what is on its way stays     *)
(* what it was.                                                            *)
LEMMA SetsGrow ==
    ASSUME NEW s, NEW a \in Nat, NEW b \in Nat, a <= b, NEW E, NEW F, E \subseteq F
    PROVE  /\ Received(s, a) \subseteq Received(s, b) /\ Answers(s, a) \subseteq Answers(s, b)
           /\ Outgoing(s, a, E) \subseteq Outgoing(s, b, F)
           /\ HostTypes(s, a) \subseteq HostTypes(s, b)
           /\ \A u, f : Copied(u, f, s, a) => Copied(u, f, s, b)
<1>1. \A n \in 1 .. a : n \in 1 .. b
  OBVIOUS
<1>2. Received(s, a) \subseteq Received(s, b)
  BY <1>1, Zenon DEF Received, SentBack
<1>3. Answers(s, a) \subseteq Answers(s, b)
  BY <1>1, Zenon DEF Answers, SentBack
<1>4. Outgoing(s, a, E) \subseteq Outgoing(s, b, F)
  <2>1. \A o : Home(o, s, a, E) => Home(o, s, b, F)
    BY <1>1, Zenon DEF Home
  <2> QED
    BY <2>1, Zenon DEF Outgoing
<1>5. HostTypes(s, a) \subseteq HostTypes(s, b)
  <2>1. PICK R, S, T, U : R = Received(s, a) /\ S = Received(s, b) /\ T = Answers(s, a) /\ U = Answers(s, b)
    OBVIOUS
  <2>2. Seq(R) \subseteq Seq(S) /\ Seq(T) \subseteq Seq(U)
    BY <1>2, <1>3, <2>1, SeqLarger
  <2>3. PICK V, W, X, Y : V = Seq(R) /\ W = Seq(S) /\ X = Seq(T) /\ Y = Seq(U)
    OBVIOUS
  <2>4. [fd : Nat, port : Nat, rcvbuf : V, sndbuf : X] \subseteq [fd : Nat, port : Nat, rcvbuf : W, sndbuf : Y]
    <3>1. V \subseteq W /\ X \subseteq Y
      BY <2>2, <2>3
    <3> QED
      BY <3>1
  <2> QED
    BY <2>1, <2>3, <2>4, Zenon DEF HostTypes
<1>6. ASSUME NEW u, NEW f, Copied(u, f, s, a) PROVE Copied(u, f, s, b)
  <2>1. SentBack(f, s, b)
    BY <1>1, <1>6, Zenon DEF Copied, SentBack
  <2> QED
    BY <1>6, <2>1, Zenon DEF Copied
<1> QED
  BY <1>2, <1>3, <1>4, <1>5, <1>6

(* One ring of the host changes. *)
LEMMA RingOfHost ==
    ASSUME NEW s, NEW a, NEW h \in HostTypes(s, a)
    PROVE  /\ h.rcvbuf \in Seq(Received(s, a)) /\ h.sndbuf \in Seq(Answers(s, a))
           /\ \A q \in Seq(Received(s, a)) :
                /\ [h EXCEPT !.rcvbuf = q] \in HostTypes(s, a)
                /\ [h EXCEPT !.rcvbuf = q].fd = h.fd /\ [h EXCEPT !.rcvbuf = q].port = h.port
           /\ \A q \in Seq(Answers(s, a)) :
                /\ [h EXCEPT !.sndbuf = q] \in HostTypes(s, a)
                /\ [h EXCEPT !.sndbuf = q].fd = h.fd /\ [h EXCEPT !.sndbuf = q].port = h.port
<1>1. PICK V, W : V = Seq(Received(s, a)) /\ W = Seq(Answers(s, a))
  OBVIOUS
<1>2. h \in [fd : Nat, port : Nat, rcvbuf : V, sndbuf : W]
  BY <1>1, Zenon DEF HostTypes
<1>3. ASSUME NEW q \in V
      PROVE  /\ [h EXCEPT !.rcvbuf = q] \in [fd : Nat, port : Nat, rcvbuf : V, sndbuf : W]
             /\ [h EXCEPT !.rcvbuf = q].fd = h.fd /\ [h EXCEPT !.rcvbuf = q].port = h.port
  BY <1>2
<1>4. ASSUME NEW q \in W
      PROVE  /\ [h EXCEPT !.sndbuf = q] \in [fd : Nat, port : Nat, rcvbuf : V, sndbuf : W]
             /\ [h EXCEPT !.sndbuf = q].fd = h.fd /\ [h EXCEPT !.sndbuf = q].port = h.port
  BY <1>2
<1>5. [fd : Nat, port : Nat, rcvbuf : V, sndbuf : W] = HostTypes(s, a)
  BY <1>1, Zenon DEF HostTypes
<1>6. h.rcvbuf \in V /\ h.sndbuf \in W
  BY <1>2
<1> QED
  BY <1>1, <1>3, <1>4, <1>5, <1>6, Zenon

(* A lookup finds an entry of the table, and every one that is counted. *)
LEMMA Lookup ==
    ASSUME ArpInv, NEW ip
    PROVE  /\ ng_get_dst_macaddr(ip) \in Nat
           /\ ng_get_dst_macaddr(ip) # 0 => [ip |-> ip, mac |-> ng_get_dst_macaddr(ip)] \in ToSet(entries)
           /\ ppc # "count" /\ ng_get_dst_macaddr(ip) = 0 => \A i \in DOMAIN entries : entries[i].ip # ip
<1> DEFINE hits == {i \in DOMAIN Looked : Looked[i].ip = ip}
<1>1. entries \in Seq(Arps) /\ count \in Nat /\ Len(entries) \in Nat /\ DOMAIN entries = 1 .. Len(entries)
  BY DEF ArpInv
<1>2. /\ Looked \in Seq(Arps) /\ Len(Looked) \in Nat /\ DOMAIN Looked = 1 .. Len(Looked)
      /\ Len(Looked) = IF Len(entries) < count THEN Len(entries) ELSE count
      /\ \A i \in 1 .. Len(Looked) : i \in 1 .. Len(entries) /\ Looked[i] = entries[i]
  BY <1>1, TakeLeave DEF Looked
<1>3. CASE hits = {}
  <2>1. ng_get_dst_macaddr(ip) = 0
    BY <1>3 DEF ng_get_dst_macaddr
  <2>2. ASSUME ppc # "count", NEW i \in DOMAIN entries PROVE entries[i].ip # ip
    <3>1. Len(Looked) = Len(entries)
      BY <1>1, <1>2, <2>2 DEF ArpInv
    <3>2. i \in DOMAIN Looked /\ Looked[i] = entries[i]
      BY <1>1, <1>2, <3>1
    <3> QED
      BY <1>3, <3>2
  <2> QED
    BY <2>1, <2>2
<1>4. CASE hits # {}
  <2>1. hits \in SUBSET Nat
    BY <1>2
  <2>2. \E i \in hits : \A j \in hits : i <= j
    <3> HIDE DEF hits
    <3> QED
      BY <1>4, <2>1, LeastNatural
  <2>3. PICK k \in hits : k = CHOOSE i \in hits : \A j \in hits : i <= j
    <3> HIDE DEF hits
    <3> QED
      BY <2>2
  <2>4. ng_get_dst_macaddr(ip) = Looked[k].mac
    BY <1>4, <2>3, Zenon DEF ng_get_dst_macaddr
  <2>5. k \in DOMAIN entries /\ entries[k] = Looked[k] /\ Looked[k].ip = ip /\ Looked[k] \in Arps
    BY <1>1, <1>2
  <2>6. PICK e \in Arps : e = entries[k] /\ e.ip = ip /\ e.mac = ng_get_dst_macaddr(ip)
    BY <2>4, <2>5
  <2>7. e.mac \in Nat \ {0} /\ e = [ip |-> e.ip, mac |-> e.mac]
    BY DEF Arps
  <2>8. e \in ToSet(entries)
    BY <2>5, <2>6 DEF ToSet
  <2> QED
    BY <2>6, <2>7, <2>8
<1> QED
  BY <1>3, <1>4

(* What nrecvfrom has copied, and has to put back, is not touched. *)
SameCopy ==
    /\ upc' \in {"requeue", "send"} => upc \in {"requeue", "send"}
    /\ upc' = "requeue" => upc = "requeue" /\ ol' = ol

(* Steps that leave the answers alone. *)
LEMMA AnswersSame ==
    ASSUME AnswerInv, UNCHANGED <<scene, arrived, host, buffer, from, entries, count, outRing, wire>>,
           SameCopy, (ppc' = "count") = (ppc = "count")
    PROVE  AnswerInv'
<1>1. HostInv'
  BY DEF AnswerInv, HostInv
<1>2. BufferInv'
  BY DEF AnswerInv, BufferInv, SameCopy
<1>3. ArpInv'
  BY DEF AnswerInv, ArpInv
<1>4. OutInv'
  BY DEF AnswerInv, OutInv
<1> QED
  BY <1>1, <1>2, <1>3, <1>4 DEF AnswerInv

(* The host's rings or the out ring change, the rest does not. *)
LEMMA AnswersMove ==
    ASSUME AnswerInv, UNCHANGED <<scene, arrived, buffer, from, entries, count>>, HostInv',
           SameCopy, (ppc' = "count") = (ppc = "count"),
           outRing' \in Seq(Outgoing(scene, arrived, ToSet(entries))),
           wire' \subseteq {o \in Outgoing(scene, arrived, ToSet(entries)) : o.type = "udp"}
    PROVE  AnswerInv'
<1>2. BufferInv'
  BY DEF AnswerInv, BufferInv, SameCopy
<1>3. ArpInv'
  BY DEF AnswerInv, ArpInv
<1>4. OutInv'
  BY DEF OutInv
<1> QED
  BY <1>2, <1>3, <1>4 DEF AnswerInv

(* Main sends a burst. *)
LEMMA TxStep == ASSUME AnswerInv, Tx PROVE AnswerInv'
<1> DEFINE S == Outgoing(scene, arrived, ToSet(entries))
           t == TakeUpTo(outRing, Burst)
<1>1. outRing \in Seq(S) /\ Burst \in Nat /\ wire \subseteq {o \in S : o.type = "udp"}
  BY StackAssumption DEF AnswerInv, OutInv
<1>2. /\ UNCHANGED <<scene, arrived, host, buffer, from, ol, entries, count, upc, ppc>>
      /\ outRing' = LeaveAfter(outRing, Burst)
      /\ \E k \in 0 .. (IF port = "up" THEN Len(t) ELSE 0) : wire' = wire \cup {p \in ToSet(TakeUpTo(t, k)) : p.type = "udp"}
  BY DEF Tx, netVars, pktVars, arpVars, appVars
<1> HIDE DEF S
<1>3. t \in Seq(S) /\ outRing' \in Seq(S)
  BY <1>1, <1>2, TakeLeave
<1> HIDE DEF t
<1>4. PICK k \in Nat : wire' = wire \cup {p \in ToSet(TakeUpTo(t, k)) : p.type = "udp"}
  BY <1>2, <1>3
<1>5. wire' \subseteq {o \in S : o.type = "udp"}
  <2>1. PICK u \in Seq(S) : u = TakeUpTo(t, k)
    BY <1>3, TakeLeave
  <2>2. ToSet(u) \subseteq S
    BY DEF ToSet
  <2> QED
    BY <1>1, <1>4, <2>1, <2>2
<1>6. HostInv'
  BY <1>2 DEF AnswerInv, HostInv
<1> QED
  BY <1>2, <1>3, <1>5, <1>6, AnswersMove DEF S, SameCopy

(* An ARP packet may always go out. *)
LEMMA ArpGoesOut ==
    ASSUME NEW dst \in Nat, NEW ip \in Hosts, NEW s, NEW a, NEW E
    PROVE  ng_send_arp(dst, ip) \in Outgoing(s, a, E)
<1>1. PICK m \in Nat : m = ng_encode_arp_pkt(dst)
  BY DEF ng_encode_arp_pkt
<1>2. PICK e \in Seq(Cells) : e = <<>>
  <2>1. << >> \in Seq(Cells)
    BY EmptySeq
  <2> QED
    BY <2>1, Zenon
<1>3. ng_send_arp(dst, ip) = [type |-> "arp", ip |-> ip, mac |-> m, re |-> 0, data |-> e]
  BY <1>1, <1>2 DEF ng_send_arp
<1>4. ng_send_arp(dst, ip) \in Outs /\ ng_send_arp(dst, ip).type = "arp"
  BY <1>3 DEF Outs
<1> QED
  BY <1>4 DEF Outgoing

(* The elements of a finite set in some order. *)
LEMMA InSomeOrder ==
    ASSUME NEW S, IsFiniteSet(S)
    PROVE  SetToSeq(S) \in Seq(S)
<1> DEFINE n == Cardinality(S)
<1>1. n \in Nat /\ ExistsBijection(1 .. n, S)
  BY FS_CardinalityType
<1>2. PICK f \in [1 .. n -> S] : IsInjective(f)
  <2>1. PICK f \in Bijection(1 .. n, S) : TRUE
    BY <1>1 DEF ExistsBijection
  <2>2. f \in [1 .. n -> S] /\ \A a, b \in 1 .. n : f[a] = f[b] => a = b
    BY <2>1 DEF Bijection, Injection, IsInjective
  <2>3. IsInjective(f)
    BY <2>2 DEF IsInjective
  <2> QED
    BY <2>2, <2>3
<1>3. SetToSeq(S) \in [1 .. n -> S]
  <2>1. SetToSeq(S) = CHOOSE g \in [1 .. n -> S] : IsInjective(g)
    BY DEF SetToSeq
  <2> QED
    BY <1>2, <2>1, Zenon
<1> QED
  BY <1>1, <1>3

(* The ARP timer: a request to every address. *)
LEMMA ArpTimerStep == ASSUME AnswerInv, ArpTimer PROVE AnswerInv'
<1> DEFINE dst(ip) == IF ng_get_dst_macaddr(ip) = 0 THEN Broadcast ELSE ng_get_dst_macaddr(ip)
           f == [ip \in Hosts |-> ng_send_arp(dst(ip), ip)]
           T == {ng_send_arp(dst(ip), ip) : ip \in Hosts}
           S == Outgoing(scene, arrived, ToSet(entries))
           room == RingSize - Len(outRing)
<1>1. /\ UNCHANGED <<scene, arrived, host, buffer, from, ol, entries, count, upc, ppc, wire>>
      /\ outRing' = outRing \o TakeUpTo(SetToSeq(T), room)
  BY DEF ArpTimer, ArpRequests, netVars, pktVars, arpVars, appVars
<1>2. \A ip \in Hosts : dst(ip) \in Nat
  BY Lookup, ZenonT(30) DEF AnswerInv, Broadcast
<1>3. T \subseteq S
  <2>1. ASSUME NEW ip \in Hosts PROVE ng_send_arp(dst(ip), ip) \in S
    <3>1. dst(ip) \in Nat
      BY <1>2
    <3> HIDE DEF dst
    <3> QED
      BY <3>1, ArpGoesOut
  <2> QED
    BY <2>1
<1>4. IsFiniteSet(T)
  <2>1. f \in Surjection(Hosts, T)
    <3> HIDE DEF dst
    <3> QED
      BY DEF Surjection
  <2> HIDE DEF f, T
  <2> QED
    BY <2>1, StackAssumption, FS_Surjection
<1>5. outRing \in Seq(S) /\ Len(outRing) \in Nat /\ RingSize \in Nat /\ wire \subseteq {o \in S : o.type = "udp"}
  BY StackAssumption DEF AnswerInv, OutInv
<1> HIDE DEF T, S
<1>6. SetToSeq(T) \in Seq(S)
  BY <1>3, <1>4, InSomeOrder, SeqLarger
<1>7. TakeUpTo(SetToSeq(T), room) \in Seq(S)
  <2>1. CASE room \in Nat
    <3> HIDE DEF room
    <3> QED
      BY <1>6, <2>1, TakeLeave
  <2>2. CASE room \notin Nat
    <3>1. room \in Int /\ room < 1 /\ Len(SetToSeq(T)) \in Nat
      BY <1>5, <1>6, <2>2
    <3> HIDE DEF room
    <3>2. ~(Len(SetToSeq(T)) < room)
      BY <2>2, <3>1
    <3>3. TakeUpTo(SetToSeq(T), room) = SubSeq(SetToSeq(T), 1, room)
      BY <3>2, Zenon DEF TakeUpTo
    <3> QED
      BY <1>6, <3>1, <3>3
  <2> QED
    BY <2>1, <2>2
<1>8. outRing' \in Seq(S)
  BY <1>1, <1>5, <1>7
<1>9. HostInv'
  BY <1>1 DEF AnswerInv, HostInv
<1> QED
  BY <1>1, <1>5, <1>8, <1>9, AnswersMove DEF S, SameCopy

(* A packet arrives. *)
LEMMA ArriveStep == ASSUME AnswerInv, SceneInv, Arrive PROVE AnswerInv'
<1>1. /\ UNCHANGED <<scene, host, buffer, from, ol, entries, count, upc, ppc, outRing, wire>> /\ arrived' = arrived + 1
  BY DEF Arrive, pktVars, arpVars, appVars
<1>2. arrived \in Nat /\ arrived' \in Nat /\ arrived <= arrived'
  BY <1>1 DEF SceneInv
<1>3. PICK E : E = ToSet(entries)
  OBVIOUS
<1>4. /\ Outgoing(scene, arrived, E) \subseteq Outgoing(scene, arrived', E)
      /\ HostTypes(scene, arrived) \subseteq HostTypes(scene, arrived')
      /\ Copied(buffer, from, scene, arrived) => Copied(buffer, from, scene, arrived')
      /\ Received(scene, arrived) \subseteq Received(scene, arrived')
  <2>1. PICK b \in Nat : b = arrived' /\ arrived <= b
    BY <1>2
  <2>2. /\ Outgoing(scene, arrived, E) \subseteq Outgoing(scene, b, E)
        /\ HostTypes(scene, arrived) \subseteq HostTypes(scene, b)
        /\ Copied(buffer, from, scene, arrived) => Copied(buffer, from, scene, b)
        /\ Received(scene, arrived) \subseteq Received(scene, b)
    BY <1>2, <2>1, SetsGrow
  <2> QED
    BY <2>1, <2>2
<1>5. HostInv'
  BY <1>1, <1>4 DEF AnswerInv, HostInv
<1>6. BufferInv'
  BY <1>1, <1>4 DEF AnswerInv, BufferInv
<1>7. ArpInv'
  BY <1>1 DEF AnswerInv, ArpInv
<1>8. OutInv'
  <2>1. outRing \in Seq(Outgoing(scene, arrived, E)) /\ wire \subseteq {o \in Outgoing(scene, arrived, E) : o.type = "udp"}
    BY <1>3 DEF AnswerInv, OutInv
  <2>2. outRing \in Seq(Outgoing(scene, arrived', E))
    BY <1>4, <2>1, SeqLarger
  <2>3. wire \subseteq {o \in Outgoing(scene, arrived', E) : o.type = "udp"}
    BY <1>4, <2>1
  <2> QED
    BY <1>1, <1>3, <2>2, <2>3 DEF OutInv
<1> QED
  BY <1>5, <1>6, <1>7, <1>8 DEF AnswerInv

(* A new sender is put into the table, in front of the others. *)
LEMMA LearnStep == ASSUME AnswerInv, PathInv, Learn PROVE AnswerInv'
<1>1. /\ UNCHANGED <<scene, arrived, host, buffer, from, ol, upc, outRing, wire, count>> /\ ppc = "packet"
      /\ ng_get_dst_macaddr(pkt.src) = 0
      /\ \/ entries' = <<[ip |-> pkt.src, mac |-> pkt.mac]>> \o entries /\ ppc' = "count"
         \/ entries' = entries /\ ppc' = "process"
  BY DEF Learn, PktSame, netVars, appVars
<1>2. CASE entries' = entries /\ ppc' = "process"
  BY <1>1, <1>2, AnswersSame DEF SameCopy
<1>3. CASE entries' = <<[ip |-> pkt.src, mac |-> pkt.mac]>> \o entries /\ ppc' = "count"
  <2>1. PICK p \in Pkts : p = pkt
    <3>1. mbufs \in Seq(Pkts) /\ at \in DOMAIN mbufs
      BY <1>1 DEF PathInv, LoopInv, QueuesInv, QueueOK
    <3> QED
      BY <3>1 DEF pkt
  <2>2. PICK e \in Arps : e = [ip |-> p.src, mac |-> p.mac] /\ e.ip = p.src
    <3>1. p.src \in Hosts /\ p.mac \in Nat \ {0}
      BY DEF Pkts
    <3>2. PICK x \in Hosts, y \in Nat \ {0} : x = p.src /\ y = p.mac
      BY <3>1
    <3>3. [ip |-> x, mac |-> y] \in Arps /\ [ip |-> x, mac |-> y].ip = x
      BY DEF Arps
    <3> QED
      BY <3>2, <3>3
  <2> DEFINE k == Len(entries)
  <2>3. entries \in Seq(Arps) /\ k \in Nat /\ DOMAIN entries = 1 .. k /\ count = k /\ ArpInv
    BY <1>1 DEF AnswerInv, ArpInv
  <2>4. \A i \in 1 .. k : entries[i].ip # e.ip
    BY <1>1, <2>1, <2>2, <2>3, Lookup
  <2>5. \A i, j \in 1 .. k : entries[i].ip = entries[j].ip => i = j
    BY <2>3 DEF ArpInv
  <2>6. entries' = <<e>> \o entries
    BY <1>3, <2>1, <2>2
  <2>7. /\ entries' \in Seq(Arps) /\ Len(entries') = k + 1 /\ DOMAIN entries' = 1 .. k + 1 /\ entries'[1] = e
        /\ \A i \in 2 .. k + 1 : entries'[i] = entries[i - 1]
    BY <2>3, <2>6
  <2> HIDE DEF k
  <2>8. \A i \in 1 .. k + 1 : i = 1 \/ (i - 1 \in 1 .. k /\ entries'[i] = entries[i - 1])
    <3>1. ASSUME NEW i \in 1 .. k + 1, i # 1 PROVE i - 1 \in 1 .. k /\ entries'[i] = entries[i - 1]
      <4>1. i \in 2 .. k + 1 /\ i - 1 \in 1 .. k
        BY <2>3, <3>1
      <4> QED
        BY <2>7, <4>1
    <3> QED
      BY <3>1
  <2>9. ASSUME NEW i \in 1 .. k + 1, NEW j \in 1 .. k + 1, entries'[i].ip = entries'[j].ip PROVE i = j
    <3>1. CASE i = 1 \/ j = 1
      BY <2>4, <2>7, <2>8, <2>9, <3>1
    <3>2. CASE i # 1 /\ j # 1
      <4>1. i - 1 = j - 1
        <5>1. PICK x \in 1 .. k : x = i - 1 /\ entries'[i] = entries[x]
          BY <2>8, <3>2
        <5>2. PICK y \in 1 .. k : y = j - 1 /\ entries'[j] = entries[y]
          BY <2>8, <3>2
        <5> QED
          BY <2>5, <2>9, <5>1, <5>2
      <4> QED
        BY <2>3, <4>1
    <3> QED
      BY <3>1, <3>2
  <2>10. ArpInv'
    BY <1>1, <1>3, <2>3, <2>7, <2>9 DEF ArpInv
  <2>11. ToSet(entries) \subseteq ToSet(entries')
    <3>1. ASSUME NEW x \in ToSet(entries) PROVE x \in ToSet(entries')
      <4>1. PICK i \in 1 .. k : x = entries[i]
        BY <2>3 DEF ToSet
      <4>2. PICK j \in 1 .. k + 1 : j = i + 1 /\ j - 1 = i /\ j # 1
        BY <2>3
      <4>3. j \in DOMAIN entries' /\ entries'[j] = x
        BY <2>7, <2>8, <4>1, <4>2
      <4> QED
        BY <4>3 DEF ToSet
    <3> QED
      BY <3>1
  <2>12. OutInv'
    <3>1. arrived \in Nat
      BY DEF PathInv, SceneInv
    <3>2. PICK E, F : E = ToSet(entries) /\ F = ToSet(entries') /\ E \subseteq F
      BY <2>11
    <3>3. Outgoing(scene, arrived, E) \subseteq Outgoing(scene, arrived, F)
      BY <3>1, <3>2, SetsGrow
    <3>4. outRing \in Seq(Outgoing(scene, arrived, E)) /\ wire \subseteq {o \in Outgoing(scene, arrived, E) : o.type = "udp"}
      BY <3>2 DEF AnswerInv, OutInv
    <3>5. outRing \in Seq(Outgoing(scene, arrived, F))
      BY <3>3, <3>4, SeqLarger
    <3>6. wire \subseteq {o \in Outgoing(scene, arrived, F) : o.type = "udp"}
      BY <3>3, <3>4
    <3> QED
      BY <1>1, <3>2, <3>5, <3>6 DEF OutInv
  <2>13. HostInv' /\ BufferInv'
    BY <1>1 DEF AnswerInv, HostInv, BufferInv
  <2> QED
    BY <2>10, <2>12, <2>13 DEF AnswerInv
<1> QED
  BY <1>1, <1>2, <1>3

(* The new entry is counted. *)
LEMMA CountedStep == ASSUME AnswerInv, Counted PROVE AnswerInv'
<1>1. /\ UNCHANGED <<scene, arrived, host, buffer, from, ol, upc, outRing, wire, entries>> /\ count' = count + 1
      /\ ppc = "count" /\ ppc' = "process"
  BY DEF Counted, PktSame, netVars, appVars
<1>2. ArpInv'
  BY <1>1 DEF AnswerInv, ArpInv
<1>3. HostInv' /\ BufferInv'
  BY <1>1 DEF AnswerInv, HostInv, BufferInv
<1>4. OutInv'
  BY <1>1 DEF AnswerInv, OutInv
<1> QED
  BY <1>2, <1>3, <1>4 DEF AnswerInv

(* What udp_process hands to the server. *)
LEMMA OffloadReceived ==
    ASSUME NEW p \in Pkts, NEW s, NEW a \in Nat, p.id \in 1 .. a, p = Numbered(s, p.id)
    PROVE  Offload(p) \in Received(s, a)
<1> DEFINE n == StoredLen(p.len)
           c(i) == IF i <= p.len THEN (IF i = p.zero THEN Nul ELSE <<p.id, i>>)
                   ELSE IF p.len \in Tight THEN Junk ELSE Nul
           f == [i \in 1 .. n |-> c(i)]
<1>1. p.id \in Nat /\ p.src \in Hosts /\ p.len \in Nat /\ n \in Nat
  BY DEF Pkts, StoredLen, HeaderLen
<1>2. \A i \in 1 .. n : c(i) \in Cells
  <2>1. ASSUME NEW i \in 1 .. n PROVE <<p.id, i>> \in Cells
    BY <1>1 DEF Cells
  <2>2. Junk \in Cells /\ Nul \in Cells
    BY DEF Junk, Nul, Cells
  <2> QED
    BY <2>1, <2>2
<1>3. f \in Seq(Cells)
  <2> HIDE DEF c, n
  <2> QED
    BY <1>1, <1>2
<1>4. Offload(p) = [re |-> p.id, to |-> p.src, data |-> f]
  BY DEF Offload
<1> HIDE DEF f
<1>5. PICK T : T = Seq(Cells)
  OBVIOUS
<1>6. /\ [re |-> p.id, to |-> p.src, data |-> f] \in [re : Nat, to : Hosts, data : T]
      /\ [re |-> p.id, to |-> p.src, data |-> f].re = p.id
      /\ [re |-> p.id, to |-> p.src, data |-> f].to = p.src
  BY <1>1, <1>3, <1>5
<1>7. Offload(p) \in Dgs /\ Offload(p).re = p.id /\ Offload(p).to = p.src
  BY <1>4, <1>5, <1>6, Zenon DEF Dgs
<1>8. SentBack(Offload(p), s, a)
  BY <1>7 DEF SentBack
<1>9. Offload(Numbered(s, Offload(p).re)).data = Offload(p).data
  BY <1>7
<1> QED
  BY <1>7, <1>8, <1>9, Zenon DEF Received

(* The packet pkt_process is working on. *)
LEMMA PktTyped ==
    ASSUME PathInv, Ready
    PROVE  /\ pkt \in Pkts /\ pkt.id \in 1 .. arrived /\ pkt = Numbered(scene, pkt.id) /\ arrived \in Nat
           /\ ppc \in {"packet", "process"}
<1>1. ppc \in {"packet", "process"}
  BY DEF Ready
<1>2. mbufs \in Seq(Pkts) /\ at \in DOMAIN mbufs /\ mbufs[at].id \in 1 .. arrived /\ mbufs[at] = Numbered(scene, mbufs[at].id)
  BY <1>1 DEF PathInv, LoopInv, QueuesInv, QueueOK
<1> QED
  BY <1>1, <1>2 DEF pkt, PathInv, SceneInv

(* udp_process. *)
LEMMA UdpProcessStep ==
    ASSUME AnswerInv, PathInv, UdpProcess
    PROVE  AnswerInv' /\ host'.fd = host.fd /\ host'.port = host.port
<1>1. /\ UNCHANGED <<scene, arrived, buffer, from, ol, entries, count, upc, outRing, wire>> /\ Ready
      /\ host' = IF Storable(pkt) THEN [host EXCEPT !.rcvbuf = Pushed(@, Offload(pkt))] ELSE host
      /\ ppc' = IF Storable(pkt) THEN "signal" ELSE Following
  BY DEF UdpProcess, PktSame, netVars, arpVars, appVars
<1>2. Offload(pkt) \in Received(scene, arrived) /\ ppc # "count"
  BY <1>1, PktTyped, OffloadReceived
<1>3. ppc' # "count"
  BY <1>1 DEF Following
<1>4. PICK h \in HostTypes(scene, arrived) : h = host
  BY DEF AnswerInv, HostInv
<1>5. PICK q \in Seq(Received(scene, arrived)) : q = Pushed(h.rcvbuf, Offload(pkt))
  BY <1>2, RingOfHost, PushedIn
<1>6. /\ [h EXCEPT !.rcvbuf = q] \in HostTypes(scene, arrived)
      /\ [h EXCEPT !.rcvbuf = q].fd = h.fd /\ [h EXCEPT !.rcvbuf = q].port = h.port
  BY RingOfHost
<1>7. host' \in {h, [h EXCEPT !.rcvbuf = q]}
  BY <1>1, <1>4, <1>5
<1>8. host' \in HostTypes(scene, arrived) /\ host'.fd = host.fd /\ host'.port = host.port
  BY <1>4, <1>6, <1>7
<1>9. HostInv'
  BY <1>1, <1>8 DEF HostInv
<1>10. AnswerInv'
  BY <1>1, <1>2, <1>3, <1>9, AnswersMove DEF AnswerInv, OutInv, SameCopy
<1> QED
  BY <1>8, <1>10

(* udp_out: the answer, or an ARP request while it waits. *)
LEMMA UdpOutStep ==
    ASSUME AnswerInv, UdpOut
    PROVE  AnswerInv' /\ host'.fd = host.fd /\ host'.port = host.port
<1> DEFINE d == Head(host.sndbuf)
           rest == Tail(host.sndbuf)
           mac == ng_get_dst_macaddr(d.to)
           E == ToSet(entries)
           S == Outgoing(scene, arrived, E)
           A == Answers(scene, arrived)
<1>1. /\ UNCHANGED <<scene, arrived, buffer, from, ol, entries, count, upc, wire>> /\ ppc = "out" /\ ppc' = "dequeue"
      /\ \/ UNCHANGED <<outRing, host>>
         \/ /\ host.sndbuf # <<>> /\ mac = 0
            /\ outRing' = Pushed(outRing, ng_send_arp(Broadcast, d.to)) /\ host' = [host EXCEPT !.sndbuf = Pushed(rest, d)]
         \/ /\ host.sndbuf # <<>> /\ mac # 0
            /\ outRing' = Pushed(outRing, ng_udp_pkt(d, mac)) /\ host' = [host EXCEPT !.sndbuf = rest]
  BY DEF UdpOut, PktSame, netVars, arpVars, appVars
<1>2. outRing \in Seq(S) /\ wire \subseteq {o \in S : o.type = "udp"} /\ ArpInv
  BY DEF AnswerInv, OutInv
<1>3. PICK h \in HostTypes(scene, arrived) : h = host
  BY DEF AnswerInv, HostInv
<1>4. host.sndbuf \in Seq(A)
  BY <1>3, RingOfHost
<1>5. ASSUME NEW q \in Seq(A), host' = [host EXCEPT !.sndbuf = q]
      PROVE  host' \in HostTypes(scene, arrived) /\ host'.fd = host.fd /\ host'.port = host.port
  <2>1. /\ [h EXCEPT !.sndbuf = q] \in HostTypes(scene, arrived)
        /\ [h EXCEPT !.sndbuf = q].fd = h.fd /\ [h EXCEPT !.sndbuf = q].port = h.port
    BY RingOfHost
  <2> QED
    BY <1>3, <1>5, <2>1
<1>6. outRing' \in Seq(S) /\ host' \in HostTypes(scene, arrived) /\ host'.fd = host.fd /\ host'.port = host.port
  <2>1. CASE UNCHANGED <<outRing, host>>
    <3>1. outRing' = outRing /\ host' = host
      BY <2>1
    <3> QED
      BY <1>2, <1>3, <3>1
  <2>2. ASSUME host.sndbuf # <<>> PROVE d \in A /\ rest \in Seq(A)
    <3> HIDE DEF A
    <3> QED
      BY <1>4, <2>2
  <2>3. CASE /\ host.sndbuf # <<>> /\ mac = 0
             /\ outRing' = Pushed(outRing, ng_send_arp(Broadcast, d.to)) /\ host' = [host EXCEPT !.sndbuf = Pushed(rest, d)]
    <3>1. d \in A /\ rest \in Seq(A) /\ d.to \in Hosts
      <4>1. d \in Dgs
        BY <2>2, <2>3 DEF Answers
      <4> HIDE DEF d
      <4> QED
        BY <2>2, <2>3, <4>1 DEF Dgs
    <3>2. ng_send_arp(Broadcast, d.to) \in S
      <4> HIDE DEF d
      <4> QED
        BY <3>1, ArpGoesOut DEF Broadcast
    <3>3. PICK q \in Seq(A) : q = Pushed(rest, d)
      <4> HIDE DEF A, d, rest
      <4> QED
        BY <3>1, PushedIn
    <3>4. outRing' \in Seq(S)
      <4> HIDE DEF S
      <4> QED
        BY <1>2, <2>3, <3>2, PushedIn
    <3>5. host' = [host EXCEPT !.sndbuf = q]
      BY <2>3, <3>3
    <3> HIDE DEF A, S
    <3> QED
      BY <1>5, <3>4, <3>5
  <2>4. CASE /\ host.sndbuf # <<>> /\ mac # 0
             /\ outRing' = Pushed(outRing, ng_udp_pkt(d, mac)) /\ host' = [host EXCEPT !.sndbuf = rest]
    <3>1. PICK e \in A : e = d
      BY <2>2, <2>4
    <3>2. e \in Dgs /\ SentBack(e, scene, arrived) /\ (Fits(Numbered(scene, e.re)) => e.data = Echo(scene, e.re))
      BY <3>1, Zenon DEF Answers
    <3>3. PICK V : V = Seq(Cells)
      OBVIOUS
    <3>4. e.re \in Nat /\ e.to \in Hosts /\ e.data \in V
      BY <3>2, <3>3 DEF Dgs
    <3>5. PICK m \in Nat : m = mac /\ [ip |-> e.to, mac |-> m] \in E
      <4>1. mac \in Nat /\ [ip |-> d.to, mac |-> mac] \in E
        <5> HIDE DEF d
        <5> QED
          BY <1>2, <2>4, Lookup
      <4> HIDE DEF d, mac
      <4> QED
        BY <3>1, <4>1
    <3>6. PICK o : o = [type |-> "udp", ip |-> e.to, mac |-> m, re |-> e.re, data |-> e.data]
      OBVIOUS
    <3>7. /\ o \in [type : {"arp", "udp"}, ip : Hosts, mac : Nat, re : Nat, data : V]
          /\ o.ip = e.to /\ o.mac = m /\ o.re = e.re /\ o.data = e.data
      BY <3>4, <3>6
    <3>8. o \in Outs
      BY <3>3, <3>7, Zenon DEF Outs
    <3>9. Home(o, scene, arrived, E)
      BY <3>2, <3>5, <3>7, Zenon DEF Home, SentBack
    <3>10. o \in S
      BY <3>8, <3>9, Zenon DEF Outgoing
    <3>11. ng_udp_pkt(d, mac) = o
      <4> HIDE DEF d, mac
      <4> QED
        BY <3>1, <3>5, <3>6 DEF ng_udp_pkt
    <3>12. outRing' \in Seq(S)
      <4> HIDE DEF S
      <4> QED
        BY <1>2, <2>4, <3>10, <3>11, PushedIn
    <3>13. rest \in Seq(A)
      BY <2>2, <2>4
    <3> HIDE DEF A, S, rest
    <3> QED
      BY <1>5, <2>4, <3>12, <3>13
  <2> QED
    BY <1>1, <2>1, <2>3, <2>4
<1>7. HostInv'
  BY <1>1, <1>6 DEF HostInv
<1>8. AnswerInv'
  BY <1>1, <1>2, <1>6, <1>7, AnswersMove DEF SameCopy
<1> QED
  BY <1>6, <1>8

(* A packet that has arrived. *)
LEMMA NumberedTyped ==
    ASSUME PathInv, NEW n \in 1 .. arrived
    PROVE  Numbered(scene, n) \in Pkts /\ Numbered(scene, n).id = n
<1>1. arrived \in Nat /\ arrived <= Len(scene.packets) /\ scene.packets \in Seq(Frames)
  BY StackAssumption DEF PathInv, SceneInv
<1>2. PICK q \in Seq(Frames) : q = scene.packets
  BY <1>1
<1>3. n \in 1 .. Len(q) /\ n \in Nat
  BY <1>1, <1>2
<1>4. PICK f \in Frames : f = q[n]
  BY <1>3
<1>5. [f EXCEPT !.id = n] \in Pkts /\ [f EXCEPT !.id = n].id = n
  BY <1>3 DEF Frames, Pkts
<1> QED
  BY <1>2, <1>4, <1>5 DEF Numbered

(* What udp_process stored for a datagram that fits. *)
LEMMA OffloadOf ==
    ASSUME NEW p \in Pkts, Fits(p)
    PROVE  /\ p.len \in Nat /\ p.len + 1 <= BufLen /\ TextLen(p) \in 0 .. p.len
           /\ Offload(p).data \in Seq(Cells) /\ Len(Offload(p).data) = p.len + 1
           /\ \A i \in 1 .. TextLen(p) : Offload(p).data[i] = <<p.id, i>>
           /\ Offload(p).data[TextLen(p) + 1] = Nul
<1> DEFINE n == StoredLen(p.len)
           c(i) == IF i <= p.len THEN (IF i = p.zero THEN Nul ELSE <<p.id, i>>)
                   ELSE IF p.len \in Tight THEN Junk ELSE Nul
           f == [i \in 1 .. n |-> c(i)]
           t == TextLen(p)
<1>1. p.id \in Nat /\ p.len \in Nat /\ p.zero \in Nat /\ n = p.len + 1
  BY DEF Pkts, StoredLen, HeaderLen
<1>2. p.len + 1 <= BufLen /\ p.len \notin Tight
  BY DEF Fits, HeaderLen
<1>3. Offload(p).data = f
  BY DEF Offload
<1>4. \A i \in 1 .. n : c(i) \in Cells
  <2>1. ASSUME NEW i \in 1 .. n PROVE <<p.id, i>> \in Cells
    BY <1>1 DEF Cells
  <2>2. Junk \in Cells /\ Nul \in Cells
    BY DEF Junk, Nul, Cells
  <2> QED
    BY <2>1, <2>2
<1>5. t \in 0 .. p.len /\ (\A i \in 1 .. t : i \in 1 .. n /\ c(i) = <<p.id, i>>) /\ t + 1 \in 1 .. n /\ c(t + 1) = Nul
  BY <1>1, <1>2 DEF TextLen
<1>6. f \in Seq(Cells) /\ Len(f) = n
  <2> HIDE DEF c, n
  <2>1. n \in Nat
    BY <1>1
  <2> QED
    BY <1>4, <2>1
<1>7. (\A i \in 1 .. t : f[i] = c(i)) /\ f[t + 1] = c(t + 1)
  <2> HIDE DEF c, n, t
  <2> QED
    BY <1>5
<1> HIDE DEF c, n, f
<1> QED
  BY <1>1, <1>2, <1>3, <1>5, <1>6, <1>7

(* nrecvfrom copies a datagram that fits whole, with the zero behind it. *)
LEMMA RecvStep ==
    ASSUME AnswerInv, PathInv, nrecvfrom
    PROVE  AnswerInv' /\ host'.fd = host.fd /\ host'.port = host.port
<1> DEFINE d == Head(host.rcvbuf)
           more == LeaveAfter(d.data, BufLen)
           rest == [d EXCEPT !.data = more]
           got == TakeUpTo(d.data, BufLen)
           R == Received(scene, arrived)
<1>1. /\ UNCHANGED <<scene, arrived, entries, count, ppc, outRing, wire>> /\ upc = "recv"
      /\ \/ upc' = "asleep" /\ UNCHANGED <<host, buffer, from>>
         \/ /\ host.rcvbuf # <<>>
            /\ buffer' = got \o LeaveAfter(buffer, Len(got))
            /\ from' = [re |-> d.re, to |-> d.to]
            /\ host' = [host EXCEPT !.rcvbuf = Tail(@)]
            /\ upc' = "send" \/ (rest.data # <<>> /\ upc' = "requeue" /\ ol' = rest)
  BY DEF nrecvfrom, AppSame, netVars, arpVars, pktVars, mainVars
<1>2. CASE upc' = "asleep" /\ UNCHANGED <<host, buffer, from>>
  <2>1. host' = host
    BY <1>2
  <2> QED
    BY <1>1, <1>2, <2>1, AnswersSame DEF SameCopy
<1>3. CASE /\ host.rcvbuf # <<>>
           /\ buffer' = got \o LeaveAfter(buffer, Len(got))
           /\ from' = [re |-> d.re, to |-> d.to]
           /\ host' = [host EXCEPT !.rcvbuf = Tail(@)]
           /\ upc' = "send" \/ (rest.data # <<>> /\ upc' = "requeue" /\ ol' = rest)
  <2>1. PICK h \in HostTypes(scene, arrived) : h = host
    BY DEF AnswerInv, HostInv
  <2>2. host.rcvbuf \in Seq(R)
    BY <2>1, RingOfHost
  <2>3. d \in R /\ Tail(host.rcvbuf) \in Seq(R)
    <3> HIDE DEF R
    <3> QED
      BY <1>3, <2>2
  <2>4. PICK e \in R : e = d
    BY <2>3
  <2>5. e \in Dgs /\ SentBack(e, scene, arrived) /\ (Fits(Numbered(scene, e.re)) => e.data = Offload(Numbered(scene, e.re)).data)
    BY <2>4, Zenon DEF Received
  <2>6. PICK V : V = Seq(Cells)
    OBVIOUS
  <2>7. e \in [re : Nat, to : Hosts, data : V]
    BY <2>5, <2>6, Zenon DEF Dgs
  <2>8. e.re \in Nat /\ e.to \in Hosts /\ e.data \in Seq(Cells)
    BY <2>6, <2>7
  <2>9. PICK z \in Seq(Cells) : z = e.data
    BY <2>8
  <2>10. BufLen \in Nat /\ buffer \in Seq(Cells) /\ Len(buffer) = BufLen
    BY StackAssumption DEF AnswerInv, BufferInv
  <2>11. PICK g \in Seq(Cells), m \in Seq(Cells) : g = TakeUpTo(z, BufLen) /\ m = LeaveAfter(z, BufLen)
    BY <2>10, TakeLeave
  <2>12. /\ Len(z) \in Nat /\ Len(g) = (IF Len(z) < BufLen THEN Len(z) ELSE BufLen)
         /\ Len(m) = (IF Len(z) < BufLen THEN 0 ELSE Len(z) - BufLen)
         /\ \A i \in 1 .. Len(g) : g[i] = z[i]
    BY <2>10, <2>11, TakeLeave
  <2>13. Len(g) \in Nat /\ Len(g) <= BufLen
    BY <2>10, <2>12
  <2>14. PICK l \in Seq(Cells) : l = LeaveAfter(buffer, Len(g)) /\ Len(l) = BufLen - Len(g)
    <3>1. /\ LeaveAfter(buffer, Len(g)) \in Seq(Cells)
          /\ Len(LeaveAfter(buffer, Len(g))) = IF Len(buffer) < Len(g) THEN 0 ELSE Len(buffer) - Len(g)
      BY <2>10, <2>13, TakeLeave
    <3> QED
      BY <2>10, <2>13, <3>1
  <2>15. got = g /\ more = m
    BY <2>4, <2>9, <2>11
  <2>16. buffer' = g \o l
    BY <1>3, <2>14, <2>15
  <2>17. /\ buffer' \in Seq(Cells) /\ Len(buffer') = BufLen
         /\ \A i \in 1 .. Len(g) : buffer'[i] = z[i]
    <3>1. /\ g \o l \in Seq(Cells) /\ Len(g \o l) = Len(g) + Len(l)
          /\ \A i \in 1 .. Len(g) + Len(l) : (g \o l)[i] = IF i <= Len(g) THEN g[i] ELSE l[i - Len(g)]
      BY ONLY g \in Seq(Cells), l \in Seq(Cells), ConcatProperties
    <3>2. \A i \in 1 .. Len(g) : i \in 1 .. Len(g) + Len(l) /\ i <= Len(g)
      BY <2>10, <2>13, <2>14
    <3>3. Len(g \o l) = BufLen
      BY <2>10, <2>13, <2>14, <3>1
    <3>4. \A i \in 1 .. Len(g) : (g \o l)[i] = z[i]
      BY ONLY <2>12, <3>1, <3>2
    <3> QED
      BY ONLY <2>16, <3>1, <3>3, <3>4
  <2>18. from' = [re |-> e.re, to |-> e.to]
    BY <1>3, <2>4
  <2>19. from' \in [re : Nat, to : Hosts \cup {0}] /\ from'.re = e.re /\ from'.to = e.to
    BY <2>8, <2>18
  <2>20. e.re \in 1 .. arrived /\ e.to = Numbered(scene, e.re).src
    BY <2>5 DEF SentBack
  <2>21. PICK p \in Pkts : p = Numbered(scene, e.re) /\ p.id = e.re
    BY <2>20, NumberedTyped
  <2>22. ASSUME Fits(p)
         PROVE  /\ p.len \in Nat /\ Len(z) = p.len + 1 /\ Len(z) <= BufLen
                /\ TextLen(p) \in 0 .. p.len
                /\ \A i \in 1 .. TextLen(p) : z[i] = <<p.id, i>>
                /\ z[TextLen(p) + 1] = Nul
    <3>1. z = Offload(p).data
      BY <2>5, <2>9, <2>21, <2>22
    <3> QED
      BY <2>22, <3>1, OffloadOf
  <2>23. PICK b, f : b = buffer' /\ f = from'
    OBVIOUS
  <2>24. Copied(b, f, scene, arrived)
    <3>1. SentBack(f, scene, arrived)
      BY <2>19, <2>20, <2>23 DEF SentBack
    <3>2. ASSUME Fits(p) PROVE (\A i \in 1 .. TextLen(p) : b[i] = <<f.re, i>>) /\ b[TextLen(p) + 1] = Nul
      <4>1. Len(g) = p.len + 1 /\ p.len \in Nat /\ TextLen(p) \in 0 .. p.len
        BY <2>10, <2>12, <2>22, <3>2
      <4>2. \A i \in 1 .. TextLen(p) : i \in 1 .. Len(g)
        BY <4>1
      <4>3. TextLen(p) + 1 \in 1 .. Len(g)
        BY <4>1
      <4> QED
        BY <2>17, <2>19, <2>21, <2>22, <2>23, <3>2, <4>2, <4>3
    <3> QED
      BY <2>19, <2>21, <2>23, <3>1, <3>2 DEF Copied
  <2>25. ASSUME upc' = "requeue" PROVE ol' \in R
    <3>1. rest.data = m /\ rest = [e EXCEPT !.data = m]
      <4>1. rest = [e EXCEPT !.data = m]
        BY <2>4, <2>15
      <4>2. [e EXCEPT !.data = m].data = m
        BY <2>7
      <4> QED
        BY <4>1, <4>2
    <3>2. m # <<>> /\ ol' = rest
      BY <1>3, <2>25, <3>1
    <3>3. ~Fits(p)
      <4> SUFFICES ASSUME Fits(p) PROVE FALSE
        OBVIOUS
      <4>1. Len(m) = 0
        BY <2>10, <2>12, <2>22
      <4> QED
        BY <3>2, <4>1
    <3>4. PICK x : x = [e EXCEPT !.data = m]
      OBVIOUS
    <3>5. x \in [re : Nat, to : Hosts, data : V] /\ x.re = e.re /\ x.to = e.to
      BY <2>6, <2>7, <3>4
    <3>6. x \in Dgs
      BY <2>6, <3>5, Zenon DEF Dgs
    <3>7. SentBack(x, scene, arrived) /\ ~Fits(Numbered(scene, x.re))
      BY <2>20, <2>21, <3>3, <3>5 DEF SentBack
    <3>8. x \in R
      BY <3>6, <3>7, Zenon DEF Received
    <3> QED
      BY <3>1, <3>2, <3>4, <3>8
  <2>26. BufferInv'
    BY <1>1, <2>17, <2>19, <2>23, <2>24, <2>25 DEF BufferInv
  <2>27. host' \in HostTypes(scene, arrived) /\ host'.fd = host.fd /\ host'.port = host.port
    <3>1. PICK q \in Seq(R) : q = Tail(host.rcvbuf)
      BY <2>3
    <3>2. /\ [h EXCEPT !.rcvbuf = q] \in HostTypes(scene, arrived)
          /\ [h EXCEPT !.rcvbuf = q].fd = h.fd /\ [h EXCEPT !.rcvbuf = q].port = h.port
      BY RingOfHost
    <3>3. host' = [h EXCEPT !.rcvbuf = q]
      BY <1>3, <2>1, <3>1
    <3> QED
      BY <2>1, <3>2, <3>3
  <2>28. HostInv' /\ ArpInv' /\ OutInv'
    <3>1. HostInv'
      BY <1>1, <2>27 DEF HostInv
    <3>2. ArpInv'
      BY <1>1 DEF AnswerInv, ArpInv
    <3>3. OutInv'
      BY <1>1 DEF AnswerInv, OutInv
    <3> QED
      BY <3>1, <3>2, <3>3
  <2> QED
    BY <2>26, <2>27, <2>28 DEF AnswerInv
<1> QED
  BY <1>1, <1>2, <1>3

(* nrecvfrom puts the rest of a datagram back. *)
LEMMA RequeueStep ==
    ASSUME AnswerInv, Requeue
    PROVE  AnswerInv' /\ host'.fd = host.fd /\ host'.port = host.port
<1>1. /\ UNCHANGED <<scene, arrived, buffer, from, entries, count, ppc, outRing, wire>> /\ upc = "requeue" /\ upc' = "send"
      /\ host' = [host EXCEPT !.rcvbuf = Pushed(@, ol)]
  BY DEF Requeue, netVars, arpVars, pktVars, mainVars
<1>2. ol \in Received(scene, arrived)
  BY <1>1 DEF AnswerInv, BufferInv
<1>3. PICK h \in HostTypes(scene, arrived) : h = host
  BY DEF AnswerInv, HostInv
<1>4. PICK q \in Seq(Received(scene, arrived)) : q = Pushed(h.rcvbuf, ol)
  BY <1>2, RingOfHost, PushedIn
<1>5. /\ [h EXCEPT !.rcvbuf = q] \in HostTypes(scene, arrived)
      /\ [h EXCEPT !.rcvbuf = q].fd = h.fd /\ [h EXCEPT !.rcvbuf = q].port = h.port
  BY RingOfHost
<1>6. host' = [h EXCEPT !.rcvbuf = q]
  BY <1>1, <1>3, <1>4
<1>7. HostInv' /\ host'.fd = host.fd /\ host'.port = host.port
  BY <1>1, <1>3, <1>5, <1>6 DEF HostInv
<1>8. AnswerInv'
  BY <1>1, <1>7, AnswersMove DEF AnswerInv, OutInv, SameCopy
<1> QED
  BY <1>7, <1>8

(* strlen finds the first zero, or looks to the end of the buffer. *)
LEMMA StrLenIs ==
    ASSUME NEW b \in Seq(Cells)
    PROVE  /\ StrLen(b) \in 0 .. Len(b)
           /\ \A k \in DOMAIN b : b[k] = Nul /\ (\A j \in 1 .. k - 1 : b[j] # Nul) => StrLen(b) = k - 1
<1> DEFINE n == Len(b)
           Z == {i \in 1 .. n : b[i] = Nul}
           First(i) == b[i] = Nul /\ \A j \in 1 .. i - 1 : b[j] # Nul
<1>1. n \in Nat /\ DOMAIN b = 1 .. n
  OBVIOUS
<1>2. CASE Z = {}
  <2>1. StrLen(b) = n /\ ~(\E k \in DOMAIN b : b[k] = Nul)
    BY <1>1, <1>2 DEF StrLen
  <2> QED
    BY <1>1, <2>1
<1>3. CASE Z # {}
  <2>1. \E i \in Z : \A j \in Z : i <= j
    <3>1. Z \in SUBSET Nat
      BY <1>1
    <3> HIDE DEF Z
    <3> QED
      BY <1>3, <3>1, LeastNatural
  <2>2. PICK i \in Z : \A j \in Z : i <= j
    BY <2>1
  <2>3. i \in 1 .. n /\ First(i)
    <3>1. ASSUME NEW j \in 1 .. i - 1 PROVE b[j] # Nul
      <4>1. j \in 1 .. n /\ j < i
        BY <1>1, <2>2
      <4> QED
        BY <1>1, <2>2, <4>1
    <3> QED
      BY <2>2, <3>1
  <2>4. \A x, y \in 1 .. n : First(x) /\ First(y) => x = y
    <3>1. ASSUME NEW x \in 1 .. n, NEW y \in 1 .. n, First(x), First(y), x < y PROVE FALSE
      <4>1. x \in 1 .. y - 1
        BY <1>1, <3>1
      <4> QED
        BY <3>1, <4>1
    <3> QED
      BY <1>1, <3>1
  <2>5. \E x \in DOMAIN b : b[x] = Nul
    BY <1>1, <2>2
  <2>6. StrLen(b) = (CHOOSE x \in DOMAIN b : First(x)) - 1
    BY <2>5 DEF StrLen
  <2> HIDE DEF First
  <2>7. (CHOOSE x \in DOMAIN b : First(x)) = i
    <3>1. PICK y \in DOMAIN b : y = (CHOOSE x \in DOMAIN b : First(x)) /\ First(y)
      BY <1>1, <2>3
    <3> QED
      BY <1>1, <2>3, <2>4, <3>1
  <2>8. StrLen(b) = i - 1 /\ i - 1 \in 0 .. n
    <3>1. i - 1 \in 0 .. n
      BY <1>1, <2>3
    <3> QED
      BY <2>6, <2>7, <3>1, Zenon
  <2>9. ASSUME NEW k \in DOMAIN b, b[k] = Nul /\ (\A j \in 1 .. k - 1 : b[j] # Nul) PROVE k = i
    <3>1. First(k)
      BY <2>9 DEF First
    <3> QED
      BY <1>1, <2>3, <2>4, <3>1
  <2> QED
    BY <2>8, <2>9
<1> QED
  BY <1>2, <1>3

(* nsendto: the answer is what strlen finds, so a datagram that fits is    *)
(* repeated exactly up to its first zero byte.                             *)
LEMMA SendStep ==
    ASSUME AnswerInv, PathInv, NEW beyond \in {<<>>, <<Junk>>}, nsendto(beyond)
    PROVE  AnswerInv' /\ host'.fd = host.fd /\ host'.port = host.port
<1> DEFINE n == StrLen(buffer)
           behind == IF n = BufLen THEN beyond ELSE <<>>
           data == SubSeq(buffer, 1, n) \o behind
           A == Answers(scene, arrived)
<1>1. /\ UNCHANGED <<scene, arrived, buffer, from, entries, count, ppc, outRing, wire>> /\ upc = "send" /\ upc' = "recv"
      /\ host' \in {host, [host EXCEPT !.sndbuf = Pushed(@, [re |-> from.re, to |-> from.to, data |-> data])]}
  BY DEF nsendto, netVars, arpVars, pktVars, mainVars
<1>2. BufLen \in Nat /\ buffer \in Seq(Cells) /\ Len(buffer) = BufLen /\ Copied(buffer, from, scene, arrived)
  BY <1>1, StackAssumption DEF AnswerInv, BufferInv
<1>3. n \in 0 .. BufLen
  BY <1>2, StrLenIs
<1>4. behind \in Seq(Cells)
  <2>1. Junk \in Cells
    BY DEF Junk, Cells
  <2>2. << >> \in Seq(Cells)
    BY EmptySeq
  <2>3. <<Junk>> \in Seq(Cells)
    BY <2>1
  <2> QED
    BY <2>2, <2>3
<1>5. /\ SubSeq(buffer, 1, n) \in Seq(Cells) /\ Len(SubSeq(buffer, 1, n)) = n
      /\ \A i \in 1 .. n : SubSeq(buffer, 1, n)[i] = buffer[i]
  <2> HIDE DEF n
  <2> QED
    BY <1>2, <1>3
<1>6. data \in Seq(Cells)
  <2> HIDE DEF n, behind
  <2> QED
    BY <1>4, <1>5
<1>7. from.re \in 1 .. arrived /\ from.to = Numbered(scene, from.re).src
  BY <1>2 DEF Copied, SentBack
<1>8. PICK p \in Pkts : p = Numbered(scene, from.re) /\ p.id = from.re
  BY <1>7, NumberedTyped
<1>9. p.src \in Hosts /\ p.len \in Nat /\ from.re \in Nat /\ TextLen(p) \in 0 .. p.len
  <2>1. p.src \in Hosts /\ p.len \in Nat /\ p.zero \in Nat /\ from.re \in Nat
    BY <1>8 DEF Pkts
  <2> QED
    BY <2>1 DEF TextLen
<1>10. ASSUME Fits(p) PROVE data = Echo(scene, from.re)
  <2>0. PICK k \in Nat : k = TextLen(p) /\ k <= p.len
    BY <1>9
  <2>1. (\A i \in 1 .. k : buffer[i] = <<from.re, i>>) /\ buffer[k + 1] = Nul
    BY <1>2, <1>8, <1>10, <2>0 DEF Copied
  <2>2. k + 1 <= BufLen
    BY <1>2, <1>9, <1>10, <2>0 DEF Fits, HeaderLen
  <2>3. \A i \in 1 .. k : buffer[i] # Nul
    <3>1. ASSUME NEW i \in 1 .. k PROVE <<from.re, i>> # <<0, 0>>
      BY <1>9
    <3> QED
      BY <2>1, <3>1 DEF Nul
  <2>4. PICK l \in DOMAIN buffer : l = k + 1 /\ l - 1 = k
    BY <1>2, <1>9, <2>2
  <2>5. n = k
    BY <1>2, <2>1, <2>3, <2>4, StrLenIs
  <2>6. n # BufLen
    BY <1>2, <1>9, <2>2, <2>5
  <2>7. behind = <<>>
    BY <2>6
  <2>8. data = SubSeq(buffer, 1, n)
    <3> HIDE DEF n, behind
    <3> QED
      BY <1>5, <2>7
  <2>9. PICK t \in Seq(Cells) : t = data /\ Len(t) = k /\ \A i \in 1 .. k : t[i] = <<from.re, i>>
    <3> HIDE DEF n, data
    <3> QED
      BY <1>5, <2>1, <2>5, <2>8
  <2>10. t = [i \in 1 .. k |-> <<from.re, i>>]
    <3>1. t \in [1 .. k -> Cells]
      <4>1. t \in [1 .. Len(t) -> Cells]
        BY LenProperties
      <4> QED
        BY <2>9, <4>1
    <3>2. t = [i \in 1 .. k |-> t[i]]
      BY <3>1, Zenon
    <3>3. ASSUME NEW i \in 1 .. k PROVE t[i] = <<from.re, i>>
      BY <2>9
    <3> QED
      BY <3>2, <3>3, Zenon
  <2> QED
    BY <1>8, <2>0, <2>9, <2>10 DEF Echo
<1> HIDE DEF data
<1>11. PICK V : V = Seq(Cells)
  OBVIOUS
<1>12. PICK x : x = [re |-> from.re, to |-> from.to, data |-> data]
  OBVIOUS
<1>13. x \in [re : Nat, to : Hosts, data : V] /\ x.re = from.re /\ x.to = from.to /\ x.data = data
  BY <1>6, <1>7, <1>8, <1>9, <1>11, <1>12
<1>14. x \in Dgs
  BY <1>11, <1>13, Zenon DEF Dgs
<1>15. SentBack(x, scene, arrived)
  BY <1>7, <1>13 DEF SentBack
<1>16. x \in A
  <2>1. Fits(Numbered(scene, x.re)) => x.data = Echo(scene, x.re)
    BY <1>8, <1>10, <1>13
  <2> QED
    BY <1>14, <1>15, <2>1, Zenon DEF Answers
<1>17. PICK h \in HostTypes(scene, arrived) : h = host
  BY DEF AnswerInv, HostInv
<1>18. PICK q \in Seq(A) : q = Pushed(h.sndbuf, x)
  <2>1. h.sndbuf \in Seq(A)
    BY RingOfHost
  <2> HIDE DEF A
  <2> QED
    BY <1>16, <2>1, PushedIn
<1>19. host' \in {h, [h EXCEPT !.sndbuf = q]}
  BY <1>1, <1>12, <1>17, <1>18
<1>20. host' \in HostTypes(scene, arrived) /\ host'.fd = host.fd /\ host'.port = host.port
  <2>1. /\ [h EXCEPT !.sndbuf = q] \in HostTypes(scene, arrived)
        /\ [h EXCEPT !.sndbuf = q].fd = h.fd /\ [h EXCEPT !.sndbuf = q].port = h.port
    BY RingOfHost
  <2> QED
    BY <1>17, <1>19, <2>1
<1>21. HostInv'
  BY <1>1, <1>20 DEF HostInv
<1>22. AnswerInv'
  BY <1>1, <1>21, AnswersMove DEF AnswerInv, OutInv, SameCopy
<1> QED
  BY <1>20, <1>22

(* The servers' start leaves the datagrams alone, or begins with none. *)
LEMMA HostRestarts ==
    ASSUME AnswerInv, UNCHANGED <<scene, arrived, buffer, from, entries, count, ppc, outRing, wire>>,
           SameCopy,
           host'.rcvbuf \in {host.rcvbuf, <<>>}, host'.sndbuf \in {host.sndbuf, <<>>},
           host' = [fd |-> host'.fd, port |-> host'.port, rcvbuf |-> host'.rcvbuf, sndbuf |-> host'.sndbuf],
           host'.fd \in Nat, host'.port \in Nat
    PROVE  AnswerInv'
<1>1. PICK R, A : R = Received(scene, arrived) /\ A = Answers(scene, arrived)
  OBVIOUS
<1>2. host.rcvbuf \in Seq(R) /\ host.sndbuf \in Seq(A)
  BY <1>1, RingOfHost DEF AnswerInv, HostInv
<1>3. PICK r \in Seq(R), s \in Seq(A) : r = host'.rcvbuf /\ s = host'.sndbuf
  <2>1. << >> \in Seq(R) /\ << >> \in Seq(A)
    BY EmptySeq
  <2> QED
    BY <1>2, <2>1
<1>4. PICK f \in Nat, p \in Nat : f = host'.fd /\ p = host'.port
  OBVIOUS
<1>5. PICK V, W : V = Seq(R) /\ W = Seq(A)
  OBVIOUS
<1>6. [fd |-> f, port |-> p, rcvbuf |-> r, sndbuf |-> s] \in [fd : Nat, port : Nat, rcvbuf : V, sndbuf : W]
  BY <1>5
<1>7. host' = [fd |-> f, port |-> p, rcvbuf |-> r, sndbuf |-> s]
  BY <1>3, <1>4
<1>8. host' \in HostTypes(scene, arrived)
  BY <1>1, <1>5, <1>6, <1>7, Zenon DEF HostTypes
<1>9. HostInv'
  BY <1>8 DEF HostInv
<1> QED
  BY <1>9, AnswersMove DEF AnswerInv, OutInv

(* No step of main or of pkt_process touches the sockets. *)
LEMMA StartKept ==
    ASSUME StartInv, UNCHANGED startVars, UNCHANGED <<ufd, upc>>, host'.fd = host.fd, host'.port = host.port
    PROVE  StartInv'
<1>1. UNCHANGED <<tpc, tfd, fdTable, tcb, ufd>> /\ upc' = upc
  BY DEF startVars
<1> QED
  BY <1>1, StartSame

(* main and the network. *)
LEMMA MainStep ==
    ASSUME UdpInv, Rx \/ Tx \/ ArpTimer \/ Arrive \/ \E up \in BOOLEAN : ng_config_network_if(up)
    PROVE  AnswerInv' /\ StartInv'
<1>0. AnswerInv /\ StartInv /\ PathInv /\ SceneInv
  BY DEF UdpInv, PathInv
<1>1. CASE Rx
  <2>1. UNCHANGED <<scene, arrived, host, buffer, from, ol, entries, count, outRing, wire, upc, ppc, ufd>> /\ UNCHANGED startVars
    BY <1>1 DEF Rx, netVars, arpVars, pktVars, appVars
  <2> QED
    BY <1>0, <2>1, AnswersSame, StartKept DEF SameCopy
<1>2. CASE Tx
  <2>1. UNCHANGED <<host, upc, ufd>> /\ UNCHANGED startVars
    BY <1>2 DEF Tx, appVars
  <2> QED
    BY <1>0, <1>2, <2>1, TxStep, StartKept
<1>3. CASE ArpTimer
  <2>1. UNCHANGED <<host, upc, ufd>> /\ UNCHANGED startVars
    BY <1>3 DEF ArpTimer, appVars
  <2> QED
    BY <1>0, <1>3, <2>1, ArpTimerStep, StartKept
<1>4. CASE Arrive
  <2>1. UNCHANGED <<host, upc, ufd>> /\ UNCHANGED startVars
    BY <1>4 DEF Arrive, appVars
  <2> QED
    BY <1>0, <1>4, <2>1, ArriveStep, StartKept
<1>5. ASSUME NEW up \in BOOLEAN, ng_config_network_if(up) PROVE AnswerInv' /\ StartInv'
  <2>1. UNCHANGED <<scene, arrived, host, buffer, from, ol, entries, count, outRing, wire, upc, ppc, ufd>> /\ UNCHANGED startVars
    BY <1>5 DEF ng_config_network_if, netVars, arpVars, pktVars, appVars
  <2> QED
    BY <1>0, <2>1, AnswersSame, StartKept DEF SameCopy
<1> QED
  BY <1>1, <1>2, <1>3, <1>4, <1>5

(* pkt_process. *)
LEMMA PktSteps ==
    ASSUME UdpInv, PktStep
    PROVE  AnswerInv' /\ StartInv'
<1>0. AnswerInv /\ StartInv /\ PathInv
  BY DEF UdpInv
<1>1. Following # "count"
  BY DEF Following
<1>2. CASE Dequeue
  <2>1. /\ UNCHANGED <<scene, arrived, host, buffer, from, ol, entries, count, outRing, wire, upc, ufd>> /\ UNCHANGED startVars
        /\ ppc # "count" /\ ppc' # "count"
    BY <1>2 DEF Dequeue, netVars, arpVars, appVars
  <2> QED
    BY <1>0, <2>1, AnswersSame, StartKept DEF SameCopy
<1>3. CASE Learn
  <2>1. UNCHANGED <<host, upc, ufd>> /\ UNCHANGED startVars
    BY <1>3 DEF Learn, PktSame, appVars
  <2> QED
    BY <1>0, <1>3, <2>1, LearnStep, StartKept
<1>4. CASE Counted
  <2>1. UNCHANGED <<host, upc, ufd>> /\ UNCHANGED startVars
    BY <1>4 DEF Counted, PktSame, appVars
  <2> QED
    BY <1>0, <1>4, <2>1, CountedStep, StartKept
<1>5. CASE UdpProcess
  <2>1. UNCHANGED <<upc, ufd>> /\ UNCHANGED startVars
    BY <1>5 DEF UdpProcess, PktSame, appVars
  <2> QED
    BY <1>0, <1>5, <2>1, UdpProcessStep, StartKept
<1>6. CASE UdpProcessFails \/ TcpProcess \/ KniBurst
  <2>1. /\ UNCHANGED <<scene, arrived, host, buffer, from, ol, entries, count, outRing, wire, upc, ufd>> /\ UNCHANGED startVars
        /\ Ready /\ ppc' = Following
    BY <1>6 DEF UdpProcessFails, TcpProcess, KniBurst, PktSame, netVars, arpVars, appVars
  <2>2. ppc # "count"
    BY <2>1 DEF Ready
  <2> QED
    BY <1>0, <1>1, <2>1, <2>2, AnswersSame, StartKept DEF SameCopy
<1>7. CASE Signal
  <2>1. /\ UNCHANGED <<scene, arrived, host, buffer, from, ol, entries, count, outRing, wire, ufd>> /\ UNCHANGED startVars
        /\ ppc = "signal" /\ ppc' = Following /\ upc' = Woken
    BY <1>7 DEF Signal, netVars, arpVars
  <2>2. SameCopy /\ (upc' = upc \/ (upc \in Serving /\ upc' \in Serving))
    BY <2>1 DEF Woken, Serving, SameCopy
  <2>3. UNCHANGED <<tpc, tfd, fdTable, tcb, ufd>>
    BY <2>1 DEF startVars
  <2> QED
    BY <1>0, <1>1, <2>1, <2>2, <2>3, AnswersSame, StartSame
<1>8. CASE UdpOut
  <2>1. UNCHANGED <<upc, ufd>> /\ UNCHANGED startVars
    BY <1>8 DEF UdpOut, PktSame, appVars
  <2> QED
    BY <1>0, <1>8, <2>1, UdpOutStep, StartKept
<1> QED
  BY <1>2, <1>3, <1>4, <1>5, <1>6, <1>7, <1>8 DEF PktStep

(* The server threads. *)
LEMMA AppSteps ==
    ASSUME UdpInv, AppStep \/ TcpStarts
    PROVE  AnswerInv' /\ StartInv'
<1>0. AnswerInv /\ StartInv /\ PathInv /\ HostInv
  BY DEF UdpInv, AnswerInv
<1>1. CASE UdpStarts
  <2>1. UNCHANGED <<scene, arrived, buffer, from, entries, count, ppc, outRing, wire>>
    BY <1>1 DEF UdpStarts, AppSame, netVars, arpVars, pktVars, mainVars
  <2> QED
    BY <1>0, <1>1, <2>1, UdpStartsStep, HostRestarts DEF SameCopy
<1>2. CASE TcpStarts
  <2>1. UNCHANGED <<scene, arrived, buffer, from, ol, entries, count, ppc, outRing, wire, upc>>
    BY <1>2 DEF TcpStarts, AppSame, netVars, arpVars, pktVars, mainVars, appVars
  <2> QED
    BY <1>0, <1>2, <2>1, TcpStartsStep, HostRestarts DEF SameCopy
<1>3. CASE nrecvfrom
  <2>1. UNCHANGED <<tpc, tfd, fdTable, tcb, ufd>> /\ upc \in Serving /\ upc' \in Serving
    BY <1>3 DEF nrecvfrom, startVars, Serving
  <2> QED
    BY <1>0, <1>3, <2>1, RecvStep, StartSame
<1>4. CASE SendFails
  <2>1. /\ UNCHANGED <<scene, arrived, host, buffer, from, entries, count, outRing, wire, ppc>> /\ upc' = "recv"
        /\ UNCHANGED <<tpc, tfd, fdTable, tcb, ufd>> /\ upc \in Serving /\ upc' \in Serving
    BY <1>4 DEF SendFails, startVars, Serving, netVars, pktVars, mainVars
  <2> QED
    BY <1>0, <2>1, AnswersSame, StartSame DEF SameCopy
<1>5. ASSUME NEW beyond \in {<<>>, <<Junk>>}, nsendto(beyond) PROVE AnswerInv' /\ StartInv'
  <2>1. UNCHANGED <<tpc, tfd, fdTable, tcb, ufd>> /\ upc \in Serving /\ upc' \in Serving
    BY <1>5 DEF nsendto, startVars, Serving
  <2> QED
    BY <1>0, <1>5, <2>1, SendStep, StartSame
<1>6. CASE Requeue
  <2>1. UNCHANGED <<tpc, tfd, fdTable, tcb, ufd>> /\ upc \in Serving /\ upc' \in Serving
    BY <1>6 DEF Requeue, startVars, Serving
  <2> QED
    BY <1>0, <1>6, <2>1, RequeueStep, StartSame
<1> QED
  BY <1>1, <1>2, <1>3, <1>4, <1>5, <1>6 DEF AppStep

(* Every step keeps the invariant. *)
LEMMA UdpNextInv == UdpInv /\ [UdpNext]_udpVars => UdpInv'
<1> SUFFICES ASSUME UdpInv, [UdpNext]_udpVars PROVE UdpInv'
  OBVIOUS
<1>1. PathInv'
  BY PathNext DEF UdpInv
<1>2. AnswerInv' /\ StartInv'
  <2>1. CASE UNCHANGED udpVars
    <3>1. /\ UNCHANGED <<scene, arrived, host, buffer, from, ol, entries, count, outRing, wire, upc, ppc>>
          /\ UNCHANGED <<tpc, tfd, fdTable, tcb, ufd>>
      BY <2>1 DEF udpVars
    <3> QED
      BY <3>1, AnswersSame, StartSame DEF UdpInv, SameCopy
  <2>2. CASE Rx \/ Tx \/ ArpTimer \/ Arrive \/ \E up \in BOOLEAN : ng_config_network_if(up)
    BY <2>2, MainStep
  <2>3. CASE PktStep
    BY <2>3, PktSteps
  <2>4. CASE AppStep \/ TcpStarts
    BY <2>4, AppSteps
  <2> QED
    BY <2>1, <2>2, <2>3, <2>4 DEF UdpNext
<1> QED
  BY <1>1, <1>2 DEF UdpInv

(* Whatever order the two servers start in, each gets its port, unless     *)
(* both took the same descriptor (get_fd_frombitmap takes no lock).        *)
THEOREM ServersGetPorts == UdpSpec => []ServersBound
<1>1. UdpInit => UdpInv
  BY UdpInitInv
<1>2. UdpInv /\ [UdpNext]_udpVars => UdpInv'
  BY UdpNextInv
<1>3. UdpInv => ServersBound
  BY UdpShows
<1> QED
  BY <1>1, <1>2, <1>3, PTL DEF UdpSpec

(* Every answer goes to the sender of its datagram, by the MAC the ARP     *)
(* table has for it, and repeats a datagram that fits exactly up to its    *)
(* first zero byte, for every size of the rings, the burst and the buffer  *)
(* and whatever arrives.                                                   *)
THEOREM AnswersReachSenders == UdpSpec => []AnswersGoHome
<1>1. UdpInit => UdpInv
  BY UdpInitInv
<1>2. UdpInv /\ [UdpNext]_udpVars => UdpInv'
  BY UdpNextInv
<1>3. UdpInv => AnswersGoHome
  BY UdpShows
<1> QED
  BY <1>1, <1>2, <1>3, PTL DEF UdpSpec

-----------------------------------------------------------------------------
(* The servers of "5. ...".                                                *)

(* What the kernel keeps: a descriptor that is not open has nothing of an  *)
(* earlier connection.  O is what the program can answer.                  *)
Chars == STRING \cup Int
Items == Seq(Chars)
Peers == {"open", "closed", "reset", "doomed", "broken", "dead"}
Socks(O) == [id : Nat, inq : Seq(Items), peer : Peers, got : Seq(Items), out : O, given : Nat]
SocksOK(k, O) ==
    k \in [Clients -> Socks(O)] /\ \A fd \in Clients : k[fd].id = 0 => k[fd] = Free
KernelInv(O) == SocksOK(sock, O) /\ born \in Nat /\ backlog \in 0 .. born

(* The least of some descriptors. *)
LEMMA LeastFd ==
    ASSUME NEW S, S \subseteq Nat, S # {}
    PROVE  Min(S) \in S
<1>1. S \in SUBSET Nat
  OBVIOUS
<1>2. \E x \in S : \A y \in S : x <= y
  BY <1>1, LeastNatural
<1> QED
  BY <1>2, Zenon DEF Min

(* The fields of a connection. *)
LEMMA SockFields ==
    ASSUME NEW O, NEW s \in Socks(O)
    PROVE  s.id \in Nat /\ s.inq \in Seq(Items) /\ s.peer \in Peers /\ s.got \in Seq(Items) /\ s.out \in O /\ s.given \in Nat
<1>1. PICK V : V = Seq(Items)
  OBVIOUS
<1>2. s \in [id : Nat, inq : V, peer : Peers, got : V, out : O, given : Nat]
  BY <1>1, Zenon DEF Socks
<1> QED
  BY <1>1, <1>2

(* A connection is accepted. *)
LEMMA SockId ==
    ASSUME NEW O, NEW s \in Socks(O), NEW n \in Nat, NEW t, t = [s EXCEPT !.id = n]
    PROVE  t \in Socks(O) /\ t.id = n /\ t.got = s.got /\ t.out = s.out /\ t.inq = s.inq /\ t.peer = s.peer
<1>1. PICK V : V = Seq(Items)
  OBVIOUS
<1>2. s \in [id : Nat, inq : V, peer : Peers, got : V, out : O, given : Nat]
  BY <1>1, Zenon DEF Socks
<1>3. t \in [id : Nat, inq : V, peer : Peers, got : V, out : O, given : Nat] /\ t.id = n /\ t.got = s.got /\ t.out = s.out /\ t.inq = s.inq /\ t.peer = s.peer
  BY <1>1, <1>2
<1> QED
  BY <1>1, <1>3, Zenon DEF Socks

(* Its peer changes. *)
LEMMA SockPeer ==
    ASSUME NEW O, NEW s \in Socks(O), NEW p \in Peers, NEW t, t = [s EXCEPT !.peer = p]
    PROVE  t \in Socks(O) /\ t.id = s.id /\ t.got = s.got /\ t.out = s.out /\ t.inq = s.inq /\ t.peer = p
<1>1. PICK V : V = Seq(Items)
  OBVIOUS
<1>2. s \in [id : Nat, inq : V, peer : Peers, got : V, out : O, given : Nat]
  BY <1>1, Zenon DEF Socks
<1>3. t \in [id : Nat, inq : V, peer : Peers, got : V, out : O, given : Nat] /\ t.id = s.id /\ t.got = s.got /\ t.out = s.out /\ t.inq = s.inq /\ t.peer = p
  BY <1>1, <1>2
<1> QED
  BY <1>1, <1>3, Zenon DEF Socks

(* Its client sends. *)
GivenInput(s, q, n) == [s EXCEPT !.inq = q, !.given = n]
(* It stays a connection of the kernel, and only its queue grows. *)
LEMMA SockInput ==
    ASSUME NEW O, NEW s \in Socks(O), NEW q \in Seq(Items), NEW n \in Nat, NEW t, t = GivenInput(s, q, n)
    PROVE  t \in Socks(O) /\ t.id = s.id /\ t.got = s.got /\ t.out = s.out /\ t.inq = q /\ t.peer = s.peer
<1>1. PICK V : V = Seq(Items)
  OBVIOUS
<1>2. s \in [id : Nat, inq : V, peer : Peers, got : V, out : O, given : Nat]
  BY <1>1, Zenon DEF Socks
<1>3. t \in [id : Nat, inq : V, peer : Peers, got : V, out : O, given : Nat] /\ t.id = s.id /\ t.got = s.got /\ t.out = s.out /\ t.inq = q /\ t.peer = s.peer
  BY <1>1, <1>2 DEF GivenInput
<1> QED
  BY <1>1, <1>3, Zenon DEF Socks

(* It is read from. *)
ReadUpTo(s, q, g) == [s EXCEPT !.inq = q, !.got = g]
(* It stays a connection of the kernel; what was answered stays. *)
LEMMA SockRead ==
    ASSUME NEW O, NEW s \in Socks(O), NEW q \in Seq(Items), NEW g \in Seq(Items), NEW t, t = ReadUpTo(s, q, g)
    PROVE  t \in Socks(O) /\ t.id = s.id /\ t.got = g /\ t.out = s.out /\ t.inq = q /\ t.peer = s.peer
<1>1. PICK V : V = Seq(Items)
  OBVIOUS
<1>2. s \in [id : Nat, inq : V, peer : Peers, got : V, out : O, given : Nat]
  BY <1>1, Zenon DEF Socks
<1>3. t \in [id : Nat, inq : V, peer : Peers, got : V, out : O, given : Nat] /\ t.id = s.id /\ t.got = g /\ t.out = s.out /\ t.inq = q /\ t.peer = s.peer
  BY <1>1, <1>2 DEF ReadUpTo
<1> QED
  BY <1>1, <1>3, Zenon DEF Socks

(* It is written to. *)
WrittenTo(s, p, o) == [s EXCEPT !.peer = p, !.out = o]
(* It stays a connection of the kernel; what was read stays. *)
LEMMA SockWritten ==
    ASSUME NEW O, NEW s \in Socks(O), NEW p \in Peers, NEW o \in O, NEW t, t = WrittenTo(s, p, o)
    PROVE  t \in Socks(O) /\ t.id = s.id /\ t.got = s.got /\ t.out = o /\ t.inq = s.inq /\ t.peer = p
<1>1. PICK V : V = Seq(Items)
  OBVIOUS
<1>2. s \in [id : Nat, inq : V, peer : Peers, got : V, out : O, given : Nat]
  BY <1>1, Zenon DEF Socks
<1>3. t \in [id : Nat, inq : V, peer : Peers, got : V, out : O, given : Nat] /\ t.id = s.id /\ t.got = s.got /\ t.out = o /\ t.inq = s.inq /\ t.peer = p
  BY <1>1, <1>2 DEF WrittenTo
<1> QED
  BY <1>1, <1>3, Zenon DEF Socks

(* A free descriptor's connection. *)
LEMMA FreeTyped ==
    ASSUME NEW O, <<>> \in O
    PROVE  Free \in Socks(O) /\ Free.id = 0 /\ Free.got = <<>> /\ Free.out = <<>> /\ Free.inq = <<>> /\ Free.peer = "open"
<1>1. PICK V : V = Seq(Items)
  OBVIOUS
<1>2. << >> \in V
  BY <1>1, EmptySeq
<1>3. PICK e \in V : e = <<>> /\ e \in O
  BY <1>2
<1>4. PICK r : r = [id |-> 0, inq |-> e, peer |-> "open", got |-> e, out |-> e, given |-> 0]
  OBVIOUS
<1>5. r \in [id : Nat, inq : V, peer : Peers, got : V, out : O, given : Nat]
  BY <1>3, <1>4 DEF Peers
<1>6. r.id = 0 /\ r.got = e /\ r.out = e /\ r.inq = e /\ r.peer = "open"
  BY <1>4
<1>7. Free = r
  BY <1>3, <1>4 DEF Free
<1> QED
  BY <1>1, <1>3, <1>5, <1>6, <1>7, Zenon DEF Socks

(* One connection of the kernel's changes, and is open. *)
WithSock(k, fd, s) == [k EXCEPT ![fd] = s]
(* The others stay as they were. *)
LEMMA SocksSet ==
    ASSUME NEW O, NEW k, SocksOK(k, O), NEW fd \in Clients, NEW s \in Socks(O), s.id = 0 => s = Free,
           NEW l, l = WithSock(k, fd, s)
    PROVE  SocksOK(l, O) /\ \A g \in Clients : l[g] = IF g = fd THEN s ELSE k[g]
<1>1. PICK V : V = Socks(O)
  OBVIOUS
<1>2. k \in [Clients -> V] /\ \A g \in Clients : k[g].id = 0 => k[g] = Free
  BY <1>1 DEF SocksOK
<1>4. l \in [Clients -> V] /\ \A g \in Clients : l[g] = IF g = fd THEN s ELSE k[g]
  BY <1>1, <1>2 DEF WithSock
<1>5. \A g \in Clients : l[g].id = 0 => l[g] = Free
  BY <1>2, <1>4
<1> QED
  BY <1>1, <1>4, <1>5 DEF SocksOK

(* What clients do opens and closes nothing and changes nothing that was   *)
(* read or answered; a peer that is not open any more stays so.            *)
Alike(s, t) ==
    /\ t.id = s.id /\ t.got = s.got /\ t.out = s.out
    /\ t.peer = "open" => s.peer = "open"
    /\ s.peer = "dead" => t.peer = "dead"
(* Connections that clients use stay connections of the kernel, and the    *)
(* backlog does not get shorter.                                           *)
LEMMA ClientKeeps ==
    ASSUME NEW O, KernelInv(O), ClientStep
    PROVE  /\ KernelInv(O)' /\ UNCHANGED <<program, ready, died>> /\ backlog' >= backlog
           /\ \A fd \in Clients : Alike(sock[fd], sock'[fd])
<1>1. UNCHANGED <<program, ready, died>>
  BY DEF ClientStep
<1>2. PICK V : V = Socks(O)
  OBVIOUS
<1>3. /\ sock \in [Clients -> V] /\ born \in Nat /\ backlog \in 0 .. born
      /\ \A fd \in Clients : sock[fd].id = 0 => sock[fd] = Free
  BY <1>2 DEF KernelInv, SocksOK
<1>4. CASE Connect
  <2>1. sock' = sock /\ born' = born + 1 /\ backlog' = backlog + 1
    BY <1>4 DEF Connect
  <2>2. born' \in Nat /\ backlog' \in 0 .. born'
    BY <1>3, <2>1
  <2>3. KernelInv(O)'
    BY <1>2, <1>3, <2>1, <2>2 DEF KernelInv, SocksOK
  <2> QED
    BY <1>1, <1>3, <2>1, <2>3 DEF Alike
<1>5. ASSUME NEW fd \in Clients, NEW s \in V, sock' = [sock EXCEPT ![fd] = s], sock[fd].id # 0,
             Alike(sock[fd], s), UNCHANGED <<backlog, born>>
      PROVE  KernelInv(O)' /\ backlog' >= backlog /\ \A g \in Clients : Alike(sock[g], sock'[g])
  <2>0. s.id # 0
    BY <1>5 DEF Alike
  <2>1. PICK k, l : k = sock /\ l = WithSock(k, fd, s)
    OBVIOUS
  <2>2. SocksOK(k, O) /\ s \in Socks(O)
    BY <1>2, <1>3, <2>1 DEF KernelInv
  <2>5. SocksOK(l, O) /\ \A g \in Clients : l[g] = IF g = fd THEN s ELSE k[g]
    BY <2>0, <2>1, <2>2, SocksSet
  <2>3. sock' = l /\ \A g \in Clients : l[g] = IF g = fd THEN s ELSE sock[g]
    BY <1>5, <2>1, <2>5 DEF WithSock
  <2>4. KernelInv(O)'
    BY <1>3, <1>5, <2>3, <2>5 DEF KernelInv
  <2> QED
    BY <1>3, <1>5, <2>3, <2>4 DEF Alike
<1>6. ASSUME NEW fd \in Clients, NEW item \in Inputs(sock[fd]), ClientSends(fd, item) PROVE KernelInv(O)' /\ backlog' >= backlog /\ \A g \in Clients : Alike(sock[g], sock'[g])
  <2>1. PICK s \in V : s = sock[fd]
    BY <1>3
  <2>2. s.id # 0 /\ UNCHANGED <<backlog, born>> /\ sock' = [sock EXCEPT ![fd].inq = Append(@, item), ![fd].given = @ + 1]
    BY <1>6, <2>1 DEF ClientSends
  <2>3. s.id \in Nat /\ s.inq \in Seq(Items) /\ s.given \in Nat
    BY <1>2, SockFields
  <2>4. item \in Items
    <3>1. CASE program = "http"
      <4>1. item \in Seq(STRING)
        BY <1>6, <3>1, SocketsAssumption, EmptySeq DEF Inputs, NoGet
      <4> QED
        BY <4>1, SeqMonotonic DEF Items, Chars
    <3>2. CASE program # "http"
      <4>1. item = <<s.id, s.given + 1>>
        BY <1>6, <2>1, <3>2 DEF Inputs
      <4>2. <<s.id, s.given + 1>> \in Seq(Int)
        BY <2>3
      <4> QED
        BY <4>1, <4>2, SeqMonotonic DEF Items, Chars
    <3> QED
      BY <3>1, <3>2
  <2>5. PICK q \in Seq(Items), n \in Nat : q = Append(s.inq, item) /\ n = s.given + 1
    <3>1. Append(s.inq, item) \in Seq(Items) /\ s.given + 1 \in Nat
      BY <2>3, <2>4
    <3> QED
      BY <3>1, Zenon
  <2>6. PICK t : t = GivenInput(s, q, n)
    OBVIOUS
  <2>7. t \in V /\ t.id = s.id /\ t.got = s.got /\ t.out = s.out /\ t.peer = s.peer
    <3>1. s \in Socks(O) /\ q \in Seq(Items) /\ n \in Nat
      BY <1>2
    <3>2. t \in Socks(O) /\ t.id = s.id /\ t.got = s.got /\ t.out = s.out /\ t.inq = q /\ t.peer = s.peer
      BY <2>6, <3>1, SockInput
    <3> QED
      BY <1>2, <3>2
  <2>8. sock' = [sock EXCEPT ![fd] = t]
    BY <1>3, <2>1, <2>2, <2>5, <2>6 DEF GivenInput
  <2>9. Alike(sock[fd], t)
    BY <2>1, <2>7 DEF Alike
  <2> QED
    BY <1>5, <2>1, <2>2, <2>7, <2>8, <2>9
<1>7. ASSUME NEW fd \in Clients, NEW move \in PeerMoves, PeerStep(fd, move) PROVE KernelInv(O)' /\ backlog' >= backlog /\ \A g \in Clients : Alike(sock[g], sock'[g])
  <2>1. PICK s \in V : s = sock[fd]
    BY <1>3
  <2>2. s.id # 0 /\ s.peer = move[1] /\ UNCHANGED <<backlog, born>> /\ sock' = [sock EXCEPT ![fd].peer = move[2]]
    BY <1>7, <2>1 DEF PeerStep
  <2>3. PICK p \in Peers : p = move[2] /\ p # "open" /\ move[1] # "dead"
    BY DEF PeerMoves, Peers
  <2>4. PICK t : t = [s EXCEPT !.peer = p]
    OBVIOUS
  <2>5. t \in V /\ t.id = s.id /\ t.got = s.got /\ t.out = s.out /\ t.peer = p
    BY <1>2, <2>4, SockPeer
  <2>6. sock' = [sock EXCEPT ![fd] = t]
    BY <1>3, <2>1, <2>2, <2>3, <2>4
  <2>7. Alike(sock[fd], t)
    BY <2>1, <2>2, <2>3, <2>5 DEF Alike
  <2> QED
    BY <1>5, <2>1, <2>2, <2>5, <2>6, <2>7
<1> QED
  BY <1>1, <1>4, <1>6, <1>7 DEF ClientStep

(* One connection changes: what is open, and the others. *)
LEMMA SockStep ==
    ASSUME NEW O, KernelInv(O), NEW fd \in Clients, NEW t \in Socks(O), t.id = 0 => t = Free,
           sock' = [sock EXCEPT ![fd] = t], born' \in Nat, backlog' \in 0 .. born'
    PROVE  /\ KernelInv(O)'
           /\ \A g \in Clients : sock'[g] = IF g = fd THEN t ELSE sock[g]
           /\ OpenFds' = IF t.id = 0 THEN OpenFds \ {fd} ELSE OpenFds \cup {fd}
<1>1. PICK k, l : k = sock /\ l = WithSock(k, fd, t)
  OBVIOUS
<1>2. SocksOK(k, O)
  BY <1>1 DEF KernelInv
<1>3. SocksOK(l, O) /\ \A g \in Clients : l[g] = IF g = fd THEN t ELSE k[g]
  BY <1>1, <1>2, SocksSet
<1>6. sock' = l
  BY <1>1 DEF WithSock
<1>4. KernelInv(O)' /\ \A g \in Clients : sock'[g] = IF g = fd THEN t ELSE sock[g]
  BY <1>1, <1>3, <1>6 DEF KernelInv
<1>5. OpenFds' = {g \in Clients : sock'[g].id # 0}
  BY DEF OpenFds
<1> QED
  BY <1>4, <1>5 DEF OpenFds

(* What recv takes from a connection's queue. *)
TakenFrom(O, s, n, t) ==
    /\ t \in Socks(O) /\ t.id = s.id /\ t.out = s.out /\ t.peer = s.peer
    /\ t.got = s.got \o SubSeq(s.inq, 1, n)
    /\ SubSeq(s.inq, 1, n) \in Seq(Items) /\ Len(SubSeq(s.inq, 1, n)) = n
(* Taken is such a connection. *)
LEMMA TakenFields ==
    ASSUME NEW O, NEW s \in Socks(O), NEW n \in 0 .. Len(s.inq)
    PROVE  TakenFrom(O, s, n, Taken(s, n))
<1>0. PICK t : t = Taken(s, n)
  OBVIOUS
<1>1. s.inq \in Seq(Items) /\ s.got \in Seq(Items)
  BY SockFields
<1>2. Len(s.inq) \in Nat
  BY <1>1, LenProperties
<1>3. PICK g : g = SubSeq(s.inq, 1, n)
  OBVIOUS
<1>4. g \in Seq(Items) /\ Len(g) = n
  <2>1. s.inq \in Seq(Items) /\ 1 \in 1 .. Len(s.inq) + 1 /\ n \in 0 .. Len(s.inq)
    BY <1>1, <1>2
  <2> QED
    BY <1>1, <1>2, <1>3, <2>1, SubSeqProperties
<1>5. PICK h \in Seq(Items) : h = s.got \o g
  BY <1>1, <1>4, ConcatProperties
<1>6. PICK q \in Seq(Items) : q = SubSeq(s.inq, n + 1, Len(s.inq))
  <2>1. SubSeq(s.inq, n + 1, Len(s.inq)) \in Seq(Items)
    BY <1>1, <1>2, SubSeqProperties
  <2> QED
    BY <2>1, Zenon
<1>7. t = ReadUpTo(s, q, h)
  BY <1>0, <1>3, <1>5, <1>6 DEF Taken, ReadUpTo
<1>8. t \in Socks(O) /\ t.id = s.id /\ t.got = h /\ t.out = s.out /\ t.inq = q /\ t.peer = s.peer
  BY <1>7, SockRead
<1> QED
  BY <1>0, <1>3, <1>4, <1>5, <1>8, Zenon DEF TakenFrom

(* The peer after a send. *)
LEMMA AfterSendPeer ==
    ASSUME NEW s, s.peer \in Peers
    PROVE  /\ AfterSend(s) \in Peers /\ (s.peer = "dead" => AfterSend(s) = "dead")
           /\ (AfterSend(s) = "open" => s.peer = "open")
BY DEF AfterSend, Peers

(* accept takes a free descriptor. *)
LEMMA AcceptFields ==
    ASSUME NEW O, KernelInv(O), backlog > 0, FreeFds # {}
    PROVE  \E fd \in Clients, t \in Socks(O) :
             /\ fd = NewFd /\ sock[fd].id = 0 /\ sock[fd] = Free /\ Accepted(fd) = [sock EXCEPT ![fd] = t]
             /\ t.id \in Nat \ {0} /\ t.got = Free.got /\ t.out = Free.out /\ t.inq = Free.inq /\ t.peer = Free.peer
<1>1. FreeFds \subseteq Clients /\ FreeFds \subseteq Nat /\ \A fd \in FreeFds : sock[fd].id = 0
  BY SocketsAssumption DEF FreeFds, OpenFds
<1>2. PICK fd \in Clients : fd = NewFd /\ sock[fd].id = 0
  BY <1>1, LeastFd DEF NewFd
<1>3. PICK V : V = Socks(O)
  OBVIOUS
<1>4. sock \in [Clients -> V] /\ born \in Nat /\ backlog \in 0 .. born /\ sock[fd] = Free
  BY <1>2, <1>3 DEF KernelInv, SocksOK
<1>5. PICK n \in Nat \ {0} : n = born - backlog + 1
  BY <1>4
<1>6. PICK s \in Socks(O) : s = sock[fd]
  BY <1>3, <1>4
<1>7. PICK t : t = [s EXCEPT !.id = n]
  OBVIOUS
<1>8. t \in Socks(O) /\ t.id = n /\ t.got = s.got /\ t.out = s.out /\ t.inq = s.inq /\ t.peer = s.peer
  BY <1>5, <1>7, SockId
<1>9. Accepted(fd) = [sock EXCEPT ![fd] = t]
  BY <1>3, <1>4, <1>5, <1>6, <1>7 DEF Accepted
<1> QED
  BY <1>2, <1>4, <1>5, <1>6, <1>8, <1>9

(* The loops on poll and epoll: what is reported of the listener is there  *)
(* to be accepted, and send blocks on an open connection.                  *)
SendsOpen == sending # 0 => program = "poll" /\ sending \in OpenFds
PollInv ==
    /\ KernelInv(Seq(Items)) /\ WatchedAreOpen /\ maxfd \in Nat /\ SendsOpen
    /\ Listener \in ready /\ ~accepted => backlog > 0

(* poll and epoll_wait report what is watched. *)
LEMMA WaitKeeps ==
    ASSUME PollInv, Wait
    PROVE  PollInv'
<1>1. /\ ready' = ReadyNow /\ UNCHANGED <<program, watched, maxfd, sock, backlog, born>> /\ sending' = 0
  BY DEF Wait
<1>2. ReadyNow \subseteq watched /\ (Listener \in ReadyNow => backlog > 0)
  BY DEF ReadyNow, CanRead
<1>3. KernelInv(Seq(Items))'
  BY <1>1 DEF PollInv, KernelInv, SocksOK
<1>4. WatchedAreOpen'
  <2>1. OpenFds' = OpenFds
    BY <1>1 DEF OpenFds
  <2> QED
    BY <1>1, <1>2, <2>1 DEF PollInv, WatchedAreOpen
<1> QED
  BY <1>1, <1>2, <1>3, <1>4 DEF PollInv, SendsOpen

(* accept watches the descriptor it opens. *)
LEMMA AcceptKeeps ==
    ASSUME PollInv, Accept, Loops
    PROVE  PollInv'
<1> DEFINE O == Seq(Items)
<1>1. /\ Listener \in ready /\ ~accepted /\ backlog > 0 /\ program' = program /\ born' = born
      /\ ready' = IF program = "epoll" \/ ready = {Listener} THEN ready \ {Listener} ELSE ready
      /\ accepted' = (program = "poll") /\ sending' = 0
  BY DEF Accept, PollInv
<1>2. ready' \subseteq ready /\ (Listener \in ready' => accepted')
  BY <1>1 DEF Loops
<1>3. CASE FreeFds = {}
  <2>1. watched' = watched /\ maxfd' = maxfd /\ sock' = sock /\ backlog' = backlog
    BY <1>3 DEF Accept
  <2>2. KernelInv(O)' /\ OpenFds' = OpenFds
    BY <1>1, <2>1 DEF PollInv, KernelInv, SocksOK, OpenFds
  <2> QED
    BY <1>1, <1>2, <2>1, <2>2 DEF PollInv, WatchedAreOpen, SendsOpen
<1>4. CASE FreeFds # {}
  <2> HIDE DEF O
  <2>0. KernelInv(O)
    BY DEF PollInv, O
  <2>1. PICK fd \in Clients, t \in Socks(O) : fd = NewFd /\ Accepted(fd) = [sock EXCEPT ![fd] = t] /\ t.id \in Nat \ {0}
    BY <1>1, <1>4, <2>0, AcceptFields
  <2>2. /\ watched' = watched \cup {fd} /\ sock' = [sock EXCEPT ![fd] = t] /\ backlog' = backlog - 1
        /\ maxfd' = IF program = "epoll" THEN maxfd ELSE NewMax(fd)
    BY <1>4, <2>1 DEF Accept
  <2>3. born' \in Nat /\ backlog' \in 0 .. born'
    BY <1>1, <2>0, <2>2 DEF KernelInv
  <2>4. KernelInv(O)' /\ OpenFds' = OpenFds \cup {fd}
    BY <2>0, <2>1, <2>2, <2>3, SockStep
  <2>5. fd \in Nat /\ maxfd \in Nat /\ Listener \in Nat
    BY SocketsAssumption DEF PollInv
  <2>6. NewMax(fd) \in Nat /\ NewMax(fd) >= fd /\ NewMax(fd) >= maxfd
    <3>1. \E x \in {fd, maxfd} : \A y \in {fd, maxfd} : x >= y
      BY <2>5
    <3>2. NewMax(fd) \in {fd, maxfd} /\ \A y \in {fd, maxfd} : NewMax(fd) >= y
      BY <3>1, Zenon DEF NewMax, Max
    <3> QED
      BY <2>5, <3>2
  <2>7. watched \subseteq Nat
    BY SocketsAssumption DEF PollInv, WatchedAreOpen, OpenFds
  <2>8. WatchedAreOpen'
    <3>1. watched' = OpenFds' \cup {Listener} /\ ready' \subseteq watched'
      BY <1>2, <2>2, <2>4 DEF PollInv, WatchedAreOpen
    <3>2. program' = "poll" => \A f \in watched' : f <= maxfd'
      BY <1>1, <2>2, <2>5, <2>6, <2>7 DEF PollInv, WatchedAreOpen
    <3> QED
      BY <3>1, <3>2 DEF WatchedAreOpen
  <2>9. maxfd' \in Nat
    BY <2>2, <2>5, <2>6
  <2> QED
    BY <1>1, <1>2, <2>4, <2>8, <2>9 DEF PollInv, SendsOpen, O
<1> QED
  BY <1>3, <1>4

(* A connection that was read from stays watched, one that ended is closed *)
(* and not watched any more.                                               *)
LEMMA ReadStep ==
    ASSUME PollInv, NEW fd \in Clients, fd \in ready, NEW t \in Socks(Seq(Items)), t.id = 0 => t = Free,
           sock' = [sock EXCEPT ![fd] = t],
           watched' = IF t.id = 0 THEN watched \ {fd} ELSE watched,
           ready' \subseteq ready \ {fd}, UNCHANGED <<program, maxfd, accepted, backlog, born>>,
           sending' = 0 \/ (sending' = fd /\ t.id # 0 /\ program = "poll")
    PROVE  PollInv'
<1> DEFINE O == Seq(Items)
<1> HIDE DEF O
<1>0. KernelInv(O) /\ t \in Socks(O)
  BY DEF PollInv, O
<1>1. born' \in Nat /\ backlog' \in 0 .. born'
  BY <1>0 DEF KernelInv
<1>2. KernelInv(O)' /\ OpenFds' = IF t.id = 0 THEN OpenFds \ {fd} ELSE OpenFds \cup {fd}
  <2>1. sock' = [sock EXCEPT ![fd] = t] /\ (t.id = 0 => t = Free) /\ fd \in Clients
    OBVIOUS
  <2> QED
    BY ONLY <1>0, <1>1, <2>1, SockStep, ZenonT(30)
<1>3. fd \in OpenFds /\ fd # Listener
  BY SocketsAssumption DEF PollInv, WatchedAreOpen
<1>4. WatchedAreOpen'
  BY <1>2, <1>3 DEF PollInv, WatchedAreOpen
<1>5. SendsOpen'
  BY <1>2 DEF SendsOpen
<1> QED
  BY <1>2, <1>4, <1>5 DEF PollInv, O

(* All that was read has been sent. *)
LEMMA SentAllFields ==
    ASSUME NEW s \in Socks(Seq(Items))
    PROVE  SentAll(s) \in Socks(Seq(Items)) /\ SentAll(s).id = s.id
<1> DEFINE O == Seq(Items)
<1> HIDE DEF O
<1>1. s \in Socks(O)
  BY DEF O
<1>2. s.peer \in Peers /\ s.got \in Seq(Items)
  BY <1>1, SockFields
<1>3. PICK p \in Peers, o \in O : p = AfterSend(s) /\ o = s.got
  BY <1>2, AfterSendPeer DEF O
<1>4. PICK t : t = WrittenTo(s, p, o)
  OBVIOUS
<1>5. t \in Socks(O) /\ t.id = s.id
  BY <1>1, <1>4, SockWritten
<1>6. SentAll(s) = t
  BY <1>3, <1>4 DEF SentAll, WrittenTo
<1> QED
  BY <1>5, <1>6 DEF O

(* The echo server on poll. *)
LEMMA ScanKeeps ==
    ASSUME PollInv, Scan
    PROVE  PollInv'
<1> DEFINE O == Seq(Items)
<1>0. PICK fd : fd = Min(ready)
  OBVIOUS
<1>1. fd \in ready /\ ready \subseteq Clients \cup {Listener}
  <2>1. ready # {} /\ ready \subseteq Nat /\ ready \subseteq Clients \cup {Listener}
    BY SocketsAssumption DEF Scan, PollInv, WatchedAreOpen, OpenFds
  <2> QED
    BY <1>0, <2>1, LeastFd
<1>2. CASE UNCHANGED <<watched, ready, sending, sock>>
  <2>1. UNCHANGED <<program, maxfd, accepted, backlog, born>>
    BY DEF Scan
  <2> QED
    BY <1>2, <2>1 DEF PollInv, KernelInv, SocksOK, WatchedAreOpen, OpenFds, SendsOpen
<1>3. CASE ~UNCHANGED <<watched, ready, sending, sock>>
  <2>1. PICK s : s = sock[fd]
    OBVIOUS
  <2>0. PICK v : v = CASE Len(s.inq) = 0 -> Free
                      [] Len(s.inq) > 0 /\ sending' = 0 -> SentAll(Taken(s, Len(s.inq)))
                      [] Len(s.inq) > 0 /\ sending' # 0 -> Taken(s, Len(s.inq))
    OBVIOUS
  <2>2. /\ fd # Listener /\ UNCHANGED <<program, maxfd, accepted, backlog, born>> /\ program = "poll"
        /\ watched' = IF Len(s.inq) = 0 THEN watched \ {fd} ELSE watched
        /\ ready' = IF Len(s.inq) = 0 THEN {} ELSE ready \ {fd}
        /\ sending' \in IF Len(s.inq) > 0 /\ s.peer = "open" THEN {0, fd} ELSE {0}
        /\ sock' = [sock EXCEPT ![fd] = v]
    BY <1>0, <1>3, <2>0, <2>1, Zenon DEF Scan
  <2>9. sending' = 0 \/ sending' = fd
    BY <2>2
  <2>3. fd \in Clients /\ fd \in OpenFds
    BY <1>1, <2>2 DEF PollInv, WatchedAreOpen
  <2> HIDE DEF O
  <2>4. s \in Socks(O) /\ s.id # 0
    <3>1. KernelInv(O)
      BY DEF PollInv, O
    <3> QED
      BY <2>1, <2>3, <3>1 DEF KernelInv, SocksOK, OpenFds
  <2>5. s.inq \in Seq(Items) /\ s.peer \in Peers /\ s.out \in O /\ Len(s.inq) \in Nat
    BY <2>4, SockFields, LenProperties
  <2>6. ready' \subseteq ready \ {fd}
    BY <2>2
  <2>7. CASE Len(s.inq) = 0
    <3>1. Free \in Socks(O) /\ Free.id = 0
      <4>1. <<>> \in O
        BY EmptySeq DEF O
      <4> QED
        BY <4>1, FreeTyped
    <3>2. PICK t \in Socks(O) : t = Free
      BY <3>1
    <3>4. ~(Len(s.inq) > 0)
      BY <2>7
    <3>5. v = Free
      BY <2>0, <2>7, <3>4, Zenon
    <3>3. sock' = [sock EXCEPT ![fd] = t] /\ watched' = watched \ {fd} /\ t.id = 0 /\ sending' = 0
      BY <2>2, <2>7, <3>1, <3>2, <3>4, <3>5
    <3> QED
      BY <1>1, <2>2, <2>3, <2>6, <3>2, <3>3, ReadStep DEF O
  <2>8. CASE Len(s.inq) # 0
    <3>1. PICK r : r = Taken(s, Len(s.inq))
      OBVIOUS
    <3>2. r \in Socks(O) /\ r.id = s.id
      <4>1. Len(s.inq) \in 0 .. Len(s.inq)
        BY <2>5
      <4> QED
        BY <2>4, <3>1, <4>1, TakenFields DEF TakenFrom
    <3>3. Len(s.inq) > 0
      BY <2>5, <2>8
    <3>4. v = IF sending' = 0 THEN SentAll(r) ELSE r
      BY <2>0, <2>8, <3>1, <3>3, Zenon
    <3>5. SentAll(r) \in Socks(O) /\ SentAll(r).id = s.id
      BY <3>2, SentAllFields DEF O
    <3>6. PICK t \in Socks(O) : t = v /\ t.id = s.id
      BY <3>2, <3>4, <3>5, Zenon
    <3>8. sock' = [sock EXCEPT ![fd] = t] /\ watched' = watched /\ t.id # 0
      BY <2>2, <2>4, <2>8, <3>6
    <3> QED
      BY <1>1, <2>2, <2>3, <2>6, <2>9, <3>6, <3>8, ReadStep DEF O
  <2> QED
    BY <2>7, <2>8
<1> QED
  BY <1>2, <1>3

(* A send that blocked returns. *)
LEMMA SendReturnsKeeps ==
    ASSUME PollInv, SendReturns
    PROVE  PollInv'
<1> DEFINE O == Seq(Items)
<1> HIDE DEF O
<1>1. KernelInv(O) /\ sending \in Clients /\ sending \in OpenFds
  BY DEF PollInv, SendsOpen, SendReturns, OpenFds, O
<1>2. PICK fd \in Clients, s \in Socks(O) : fd = sending /\ s = sock[fd] /\ s.id # 0
  BY <1>1 DEF KernelInv, SocksOK, OpenFds
<1>3. s.peer \in Peers
  BY SockFields
<1>4. PICK t \in Socks(O) : t.id = s.id /\ sock' = [sock EXCEPT ![fd] = t]
  <2>1. CASE sock' = [sock EXCEPT ![fd] = SentAll(s)]
    <3>1. SentAll(s) \in Socks(O) /\ SentAll(s).id = s.id
      BY SentAllFields DEF O
    <3> QED
      BY <2>1, <3>1
  <2>2. ASSUME NEW p \in {s.peer, AfterSend(s)}, sock' = [sock EXCEPT ![fd].peer = p]
        PROVE  \E t \in Socks(O) : t.id = s.id /\ sock' = [sock EXCEPT ![fd] = t]
    <3>1. p \in Peers
      BY <1>3, AfterSendPeer
    <3>2. PICK t : t = [s EXCEPT !.peer = p]
      OBVIOUS
    <3>3. t \in Socks(O) /\ t.id = s.id
      BY <3>1, <3>2, SockPeer
    <3>4. sock' = [sock EXCEPT ![fd] = t]
      BY <1>1, <1>2, <2>2, <3>2 DEF KernelInv, SocksOK
    <3> QED
      BY <3>3, <3>4
  <2> QED
    BY <1>2, <2>1, <2>2 DEF SendReturns
<1>5. UNCHANGED <<program, watched, maxfd, accepted, backlog, born, ready, died>> /\ sending' = 0
  BY DEF SendReturns
<1>6. KernelInv(O)' /\ OpenFds' = OpenFds \cup {fd}
  <2>1. born' \in Nat /\ backlog' \in 0 .. born'
    BY <1>1, <1>5 DEF KernelInv
  <2> QED
    BY <1>1, <1>2, <1>4, <2>1, SockStep
<1>7. WatchedAreOpen'
  BY <1>1, <1>2, <1>5, <1>6 DEF PollInv, WatchedAreOpen
<1> QED
  BY <1>5, <1>6, <1>7 DEF PollInv, SendsOpen, O

(* The printing server on epoll. *)
LEMMA ReadKeeps ==
    ASSUME PollInv, NEW fd \in Clients, Read(fd)
    PROVE  PollInv'
<1> DEFINE O == Seq(Items)
<1>1. PICK s : s = sock[fd]
  OBVIOUS
<1>11. PICK v : v = CASE RecvFails(s) -> [s EXCEPT !.peer = "dead"]
                      [] Len(s.inq) = 0 /\ ~RecvFails(s) -> Free
                      [] Len(s.inq) > 0 -> Taken(s, Len(s.inq))
  OBVIOUS
<1>12. program = "epoll" /\ UNCHANGED sending
  BY DEF Read
<1>13. sending' = 0
  BY <1>12 DEF PollInv, SendsOpen
<1>2. /\ fd \in ready /\ ready' = ready \ {fd} /\ UNCHANGED <<program, maxfd, accepted, backlog, born>>
      /\ watched' = IF Len(s.inq) = 0 /\ ~RecvFails(s) THEN watched \ {fd} ELSE watched
      /\ sock' = [sock EXCEPT ![fd] = v]
  BY <1>1, <1>11, Zenon DEF Read
<1>3. fd \in OpenFds
  BY <1>2, SocketsAssumption DEF PollInv, WatchedAreOpen
<1> HIDE DEF O
<1>4. s \in Socks(O) /\ s.id # 0
  <2>1. KernelInv(O)
    BY DEF PollInv, O
  <2> QED
    BY <1>1, <1>3, <2>1 DEF KernelInv, SocksOK, OpenFds
<1>5. s.inq \in Seq(Items) /\ Len(s.inq) \in Nat
  BY <1>4, SockFields, LenProperties
<1>6. RecvFails(s) => Len(s.inq) = 0
  BY LenProperties, EmptySeq DEF RecvFails
<1>7. ASSUME NEW t \in Socks(O), t.id = 0 => t = Free, sock' = [sock EXCEPT ![fd] = t],
             watched' = IF t.id = 0 THEN watched \ {fd} ELSE watched
      PROVE  PollInv'
  BY <1>2, <1>7, <1>13, ReadStep DEF O
<1>8. CASE RecvFails(s)
  <2>1. PICK t : t = [s EXCEPT !.peer = "dead"]
    OBVIOUS
  <2>2. t \in Socks(O) /\ t.id = s.id
    BY <1>4, <2>1, SockPeer DEF Peers
  <2>4. ~(Len(s.inq) > 0) /\ v = t
    <3>1. ~(Len(s.inq) > 0)
      BY <1>6, <1>8
    <3> QED
      BY <1>8, <1>11, <2>1, <3>1, Zenon
  <2>3. sock' = [sock EXCEPT ![fd] = t] /\ watched' = watched
    BY <1>2, <1>8, <2>4, Zenon
  <2> QED
    BY <1>4, <1>7, <2>2, <2>3
<1>9. CASE Len(s.inq) = 0 /\ ~RecvFails(s)
  <2>1. Free \in Socks(O) /\ Free.id = 0
    BY EmptySeq, FreeTyped DEF O
  <2>3. ~(Len(s.inq) > 0)
    BY <1>9
  <2>4. v = Free
    BY <1>9, <1>11, <2>3, Zenon
  <2>2. sock' = [sock EXCEPT ![fd] = Free] /\ watched' = watched \ {fd}
    BY <1>2, <1>9, <2>4, Zenon
  <2> QED
    BY <1>7, <2>1, <2>2
<1>10. CASE Len(s.inq) > 0
  <2>1. PICK t : t = Taken(s, Len(s.inq))
    OBVIOUS
  <2>2. t \in Socks(O) /\ t.id = s.id
    <3>1. Len(s.inq) \in 0 .. Len(s.inq)
      BY <1>5
    <3> QED
      BY <1>4, <2>1, <3>1, TakenFields DEF TakenFrom
  <2>4. Len(s.inq) # 0
    BY <1>10
  <2>5. v = t
    BY <1>6, <1>10, <1>11, <2>1, <2>4, Zenon
  <2>3. sock' = [sock EXCEPT ![fd] = t] /\ watched' = watched
    BY <1>2, <2>4, <2>5, Zenon
  <2> QED
    BY <1>4, <1>7, <2>2, <2>3
<1> QED
  BY <1>5, <1>8, <1>9, <1>10

(* Clients open and close no descriptor. *)
LEMMA PollClientKeeps ==
    ASSUME PollInv, ClientStep, UNCHANGED pollVars
    PROVE  PollInv'
<1> DEFINE O == Seq(Items)
<1> HIDE DEF O
<1>1. KernelInv(O)
  BY DEF PollInv, O
<1>2. KernelInv(O)' /\ UNCHANGED <<program, ready, died>> /\ backlog' >= backlog /\ \A fd \in Clients : Alike(sock[fd], sock'[fd])
  BY <1>1, ClientKeeps
<1>3. OpenFds' = OpenFds
  BY <1>2 DEF OpenFds, Alike
<1>5. UNCHANGED <<watched, maxfd, accepted, sending>>
  BY DEF pollVars
<1>6. WatchedAreOpen'
  BY <1>2, <1>3, <1>5 DEF PollInv, WatchedAreOpen
<1>7. maxfd' \in Nat /\ (Listener \in ready' /\ ~accepted' => backlog' > 0)
  BY <1>1, <1>2, <1>5 DEF PollInv, KernelInv
<1>8. SendsOpen'
  BY <1>2, <1>3, <1>5 DEF PollInv, SendsOpen
<1> QED
  BY <1>2, <1>6, <1>7, <1>8 DEF PollInv, O

(* Every step of the poll and epoll loops keeps their invariant. *)
LEMMA PollStep ==
    ASSUME PollInv, Loops, PollNext
    PROVE  PollInv'
<1>1. CASE PollIdle
  BY <1>1 DEF PollIdle, socketVars, pollVars, PollInv, KernelInv, SocksOK, WatchedAreOpen, OpenFds, SendsOpen
<1> QED
  BY <1>1, WaitKeeps, AcceptKeeps, ScanKeeps, SendReturnsKeeps, ReadKeeps, PollClientKeeps DEF PollNext

BlocksOf(X) == [0 .. BlockSize - 1 -> X]
(* A descriptor's block and its place there. *)
LEMMA DivideBy ==
    ASSUME NEW m \in Nat \ {0}, NEW n \in Nat
    PROVE  n \div m \in Nat /\ n % m \in 0 .. m - 1 /\ n = m * (n \div m) + (n % m)
OBVIOUS

(* Where get_block finds the slot of a descriptor. *)
LEMMA Place ==
    ASSUME NEW fd \in Nat
    PROVE  \E k \in Nat \ {0}, j \in 0 .. BlockSize - 1 :
             k = (fd \div BlockSize) + 1 /\ j = fd % BlockSize /\ fd = BlockSize * (k - 1) + j
<1>1. PICK m \in Nat \ {0} : m = BlockSize
  BY SocketsAssumption, ReactorAssumption
<1>2. fd \div m \in Nat /\ fd % m \in 0 .. m - 1 /\ fd = m * (fd \div m) + (fd % m)
  BY DivideBy, Zenon
<1>3. PICK i \in Nat, j \in 0 .. m - 1 : i = fd \div m /\ j = fd % m
  BY <1>2, Zenon
<1>4. i + 1 \in Nat \ {0} /\ (i + 1) - 1 = i
  OBVIOUS
<1>5. PICK k \in Nat \ {0} : k = i + 1 /\ k - 1 = i
  BY <1>4
<1> QED
  BY <1>1, <1>2, <1>3, <1>5, Zenon

(* The greater of two numbers. *)
LEMMA BiggerOfTwo ==
    ASSUME NEW m \in Nat, NEW n \in Nat
    PROVE  Max({m, n}) \in Nat /\ Max({m, n}) >= m /\ Max({m, n}) >= n
<1>1. \E x \in {m, n} : \A y \in {m, n} : x >= y
  OBVIOUS
<1>2. Max({m, n}) \in {m, n} /\ \A y \in {m, n} : Max({m, n}) >= y
  BY <1>1, Zenon DEF Max
<1> QED
  BY <1>2

(* The list of blocks after zv_connect_idx. *)
LEMMA GrownBlocks ==
    ASSUME NEW X, NewConn \in X, NEW bs \in Seq(BlocksOf(X)), NEW fd \in Nat, NEW gs, gs = Grown(bs, fd)
    PROVE  /\ gs \in Seq(BlocksOf(X))
           /\ Len(gs) >= Len(bs) /\ Len(gs) >= (fd \div BlockSize) + 1
           /\ \A i \in 1 .. Len(gs) : gs[i] = IF i <= Len(bs) THEN bs[i] ELSE NewBlock
<1>1. PICK B : B = BlocksOf(X)
  OBVIOUS
<1>2. NewBlock \in B
  BY <1>1 DEF NewBlock, BlocksOf
<1>4. PICK k \in Nat : k = (fd \div BlockSize) + 1
  <2>1. PICK k \in Nat \ {0}, j \in 0 .. BlockSize - 1 : k = (fd \div BlockSize) + 1
    BY Place, Zenon
  <2> QED
    BY <2>1
<1>5. bs \in Seq(B) /\ Len(bs) \in Nat /\ DOMAIN bs = 1 .. Len(bs) /\ \A i \in 1 .. Len(bs) : bs[i] \in B
  BY <1>1, LenProperties, ElementOfSeq
<1>6. PICK m \in Nat : m = Max({Len(bs), k}) /\ m >= Len(bs) /\ m >= k
  BY <1>4, <1>5, BiggerOfTwo
<1>7. gs = [i \in 1 .. m |-> IF i \in DOMAIN bs THEN bs[i] ELSE NewBlock]
  BY <1>4, <1>6 DEF Grown
<1>8. gs \in [1 .. m -> B] /\ \A i \in 1 .. m : gs[i] = IF i <= Len(bs) THEN bs[i] ELSE NewBlock
  BY <1>2, <1>5, <1>7
<1>9. gs \in Seq(B) /\ Len(gs) = m
  <2>1. gs \in Seq(B)
    <3>1. m \in Nat /\ gs \in [1 .. m -> B]
      BY <1>6, <1>8
    <3> QED
      BY <3>1, SeqDef
  <2>2. Len(gs) \in Nat /\ DOMAIN gs = 1 .. Len(gs) /\ DOMAIN gs = 1 .. m
    BY <1>8, <2>1, LenProperties
  <2> QED
    BY <1>6, <2>1, <2>2
<1> QED
  BY <1>1, <1>4, <1>6, <1>8, <1>9

(* A slot, whether its block exists already or not. *)
LEMMA SlotValue ==
    ASSUME NEW X, NewConn \in X, NEW bs \in Seq(BlocksOf(X)), NEW fd \in Nat
    PROVE  /\ SlotOf(bs, fd) \in X
           /\ SlotOf(bs, fd) = IF (fd \div BlockSize) + 1 <= Len(bs) THEN bs[(fd \div BlockSize) + 1][fd % BlockSize] ELSE NewConn
<1>2. PICK k \in Nat \ {0}, j \in 0 .. BlockSize - 1 : k = (fd \div BlockSize) + 1 /\ j = fd % BlockSize /\ fd = BlockSize * (k - 1) + j
  BY Place, Zenon
<1>3. PICK gs : gs = Grown(bs, fd)
  OBVIOUS
<1>4. PICK B : B = BlocksOf(X)
  OBVIOUS
<1>5. gs \in Seq(B) /\ Len(gs) >= k /\ \A i \in 1 .. Len(gs) : gs[i] = IF i <= Len(bs) THEN bs[i] ELSE NewBlock
  <2>1. /\ gs \in Seq(BlocksOf(X)) /\ Len(gs) >= Len(bs) /\ Len(gs) >= (fd \div BlockSize) + 1
        /\ \A i \in 1 .. Len(gs) : gs[i] = IF i <= Len(bs) THEN bs[i] ELSE NewBlock
    BY <1>3, GrownBlocks, ZenonT(30)
  <2> QED
    BY <1>2, <1>4, <2>1, Zenon
<1>6. k \in 1 .. Len(gs) /\ gs[k] \in B
  BY <1>2, <1>5, LenProperties, ElementOfSeq
<1>7. SlotOf(bs, fd) = gs[k][j]
  BY <1>2, <1>3 DEF SlotOf
<1>8. NewBlock[j] = NewConn
  BY DEF NewBlock
<1> QED
  BY <1>2, <1>4, <1>5, <1>6, <1>7, <1>8 DEF BlocksOf

(* Writing a slot changes no other. *)
SlotIsSet(X, bs, fd, c, ws) ==
    /\ ws \in Seq(BlocksOf(X))
    /\ \A g \in Nat : SlotOf(ws, g) = IF g = fd THEN c ELSE SlotOf(bs, g)
(* WithConn writes one slot, also when it has to add blocks first. *)
LEMMA SlotSet ==
    ASSUME NEW X, NewConn \in X, NEW bs \in Seq(BlocksOf(X)), NEW fd \in Nat, NEW c \in X
    PROVE  SlotIsSet(X, bs, fd, c, WithConn(bs, fd, c))
<1>1. PICK ws : ws = WithConn(bs, fd, c)
  OBVIOUS
<1>2. PICK k \in Nat \ {0}, j \in 0 .. BlockSize - 1 : k = (fd \div BlockSize) + 1 /\ j = fd % BlockSize /\ fd = BlockSize * (k - 1) + j
  BY Place, Zenon
<1>3. PICK gs : gs = Grown(bs, fd)
  OBVIOUS
<1>4. PICK B : B = BlocksOf(X)
  OBVIOUS
<1>5. gs \in Seq(B) /\ Len(gs) >= k /\ Len(gs) >= Len(bs) /\ \A i \in 1 .. Len(gs) : gs[i] = IF i <= Len(bs) THEN bs[i] ELSE NewBlock
  <2>1. /\ gs \in Seq(BlocksOf(X)) /\ Len(gs) >= Len(bs) /\ Len(gs) >= (fd \div BlockSize) + 1
        /\ \A i \in 1 .. Len(gs) : gs[i] = IF i <= Len(bs) THEN bs[i] ELSE NewBlock
    BY <1>3, GrownBlocks, ZenonT(30)
  <2> QED
    BY <1>2, <1>4, <2>1, Zenon
<1>6. Len(gs) \in Nat /\ Len(bs) \in Nat /\ k \in 1 .. Len(gs) /\ gs \in [1 .. Len(gs) -> B]
  BY <1>2, <1>5, LenProperties
<1>7. PICK b : b = [gs[k] EXCEPT ![j] = c]
  OBVIOUS
<1>8. b \in B /\ \A l \in 0 .. BlockSize - 1 : b[l] = IF l = j THEN c ELSE gs[k][l]
  BY <1>4, <1>6, <1>7 DEF BlocksOf
<1>9. ws = [gs EXCEPT ![k] = b]
  BY <1>1, <1>2, <1>3, <1>6, <1>7 DEF WithConn
<1>10. ws \in [1 .. Len(gs) -> B] /\ \A i \in 1 .. Len(gs) : ws[i] = IF i = k THEN b ELSE gs[i]
  BY <1>6, <1>8, <1>9
<1>11. ws \in Seq(B) /\ Len(ws) = Len(gs)
  BY <1>6, <1>10, SeqDef, LenProperties
<1>12. ASSUME NEW g \in Nat PROVE SlotOf(ws, g) = IF g = fd THEN c ELSE SlotOf(bs, g)
  <2>1. PICK m \in Nat \ {0}, l \in 0 .. BlockSize - 1 : m = (g \div BlockSize) + 1 /\ l = g % BlockSize /\ g = BlockSize * (m - 1) + l
    BY Place, Zenon
  <2>2. SlotOf(ws, g) = IF m <= Len(ws) THEN ws[m][l] ELSE NewConn
    BY <1>4, <1>11, <2>1, SlotValue
  <2>3. SlotOf(bs, g) = IF m <= Len(bs) THEN bs[m][l] ELSE NewConn
    BY <1>4, <2>1, SlotValue
  <2>4. NewBlock[l] = NewConn
    BY DEF NewBlock
  <2>5. CASE g = fd
    BY <1>2, <1>5, <1>8, <1>10, <1>11, <2>1, <2>2, <2>5
  <2>6. CASE g # fd
    <3>1. m # k \/ l # j
      BY <1>2, <2>1, <2>6
    <3>2. CASE m <= Len(gs)
      <4>1. ws[m][l] = gs[m][l]
        BY <1>8, <1>10, <3>1, <3>2
      <4> QED
        BY <1>5, <1>6, <1>11, <2>2, <2>3, <2>4, <2>6, <3>2, <4>1
    <3>3. CASE m > Len(gs)
      BY <1>5, <1>6, <1>11, <2>2, <2>3, <2>6, <3>3
    <3> QED
      BY <1>6, <3>2, <3>3
  <2> QED
    BY <2>5, <2>6
<1> QED
  BY <1>1, <1>4, <1>11, <1>12 DEF SlotIsSet

(* The slots of the reactor and what its connections are answered. *)
Wbufs == Seq(Items) \cup Items
SentOuts == {<<>>} \cup (Wbufs \X Wbufs)
Cbs == {"none", "accept", "recv", "send"}
ConnSlots == [fd : Int, cb : Cbs, rbuf : Seq(Items), wbuf : Wbufs, held : 0 .. BufferSize,
              resource : Items, sendfile : BOOLEAN, keys : Nat]

(* A prefix, element by element. *)
LEMMA PrefixIs ==
    ASSUME NEW S, NEW s \in Seq(S), NEW t \in Seq(S)
    PROVE  IsPrefix(s, t) <=> Len(s) <= Len(t) /\ \A i \in 1 .. Len(s) : s[i] = t[i]
<1>1. SubSeq(s, 1, Len(s)) = s /\ Len(s) \in Nat /\ Len(t) \in Nat
  BY SubSeqFull, LenProperties
<1>2. ASSUME Len(s) <= Len(t)
      PROVE  s = SubSeq(t, 1, Len(s)) <=> \A i \in 1 .. Len(s) : s[i] = t[i]
  <2>1. PICK u : u = SubSeq(t, 1, Len(s))
    OBVIOUS
  <2>2. \A i \in 1 .. Len(s) : t[i] \in S
    BY <1>1, <1>2
  <2>3. u \in Seq(S) /\ Len(u) = Len(s) /\ \A i \in 1 .. Len(s) : u[i] = t[i]
    BY <1>1, <1>2, <2>1, <2>2, SubSeqProperties
  <2>4. s = u <=> \A i \in 1 .. Len(s) : s[i] = u[i]
    BY <2>3, SeqEqual
  <2> QED
    BY <2>1, <2>3, <2>4
<1> QED
  BY <1>1, <1>2 DEF IsPrefix

(* What a sequence begins with is a prefix of it. *)
LEMMA PrefixOfConcat ==
    ASSUME NEW S, NEW s \in Seq(S), NEW t \in Seq(S)
    PROVE  IsPrefix(s, s \o t)
<1>1. PICK u : u = s \o t
  OBVIOUS
<1>2. u \in Seq(S) /\ Len(u) = Len(s) + Len(t) /\ \A i \in 1 .. Len(s) : u[i] = s[i]
  BY <1>1, ConcatProperties
<1>3. Len(s) \in Nat /\ Len(t) \in Nat
  BY LenProperties
<1>4. Len(s) <= Len(u) /\ \A i \in 1 .. Len(s) : s[i] = u[i]
  BY <1>2, <1>3
<1> QED
  BY <1>1, <1>2, <1>4, PrefixIs

(* The name of a request lies over an older one. *)
LEMMA OverlayPrefix ==
    ASSUME NEW n \in Items, NEW o \in Items
    PROVE  Overlay(n, o) \in Items /\ IsPrefix(n, Overlay(n, o))
<1>1. PICK r : r = SubSeq(o, Len(n) + 1, Len(o))
  OBVIOUS
<1>2. n \in Seq(Chars) /\ o \in Seq(Chars)
  BY DEF Items
<1>3. r \in Seq(Chars)
  BY <1>1, <1>2, SubSeqProperties, LenProperties
<1>4. Overlay(n, o) = n \o r
  BY <1>1 DEF Overlay
<1> QED
  BY <1>2, <1>3, <1>4, PrefixOfConcat, ConcatProperties DEF Items

(* The fields of a slot. *)
LEMMA SlotFields ==
    ASSUME NEW c \in ConnSlots
    PROVE  /\ c.fd \in Int /\ c.cb \in Cbs /\ c.rbuf \in Seq(Items) /\ c.wbuf \in Wbufs
           /\ c.held \in 0 .. BufferSize /\ c.resource \in Items /\ c.sendfile \in BOOLEAN /\ c.keys \in Nat
<1>1. PICK I, C, V, W, H, R, B, N : I = Int /\ C = Cbs /\ V = Seq(Items) /\ W = Wbufs /\ H = 0 .. BufferSize /\ R = Items /\ B = BOOLEAN /\ N = Nat
  OBVIOUS
<1>2. c \in [fd : I, cb : C, rbuf : V, wbuf : W, held : H, resource : R, sendfile : B, keys : N]
  BY <1>1, Zenon DEF ConnSlots
<1> QED
  BY <1>1, <1>2

(* A slot of memory fresh from the kernel. *)
LEMMA NewSlot ==
    /\ NewConn \in ConnSlots /\ NewConn.rbuf = <<>> /\ NewConn.wbuf = <<>> /\ NewConn.keys = 0
<1>1. PICK I, C, V, W, H, R, B, N : I = Int /\ C = Cbs /\ V = Seq(Items) /\ W = Wbufs /\ H = 0 .. BufferSize /\ R = Items /\ B = BOOLEAN /\ N = Nat
  OBVIOUS
<1>2. <<>> \in V /\ <<>> \in W /\ <<>> \in R
  BY <1>1, EmptySeq DEF Wbufs, Items
<1>8. PICK h \in H : h = 0
  BY <1>1, ReactorAssumption
<1>3. PICK e : e = <<>> /\ e \in V /\ e \in W /\ e \in R
  BY <1>2
<1>4. PICK c : c = [fd |-> 0, cb |-> "none", rbuf |-> e, wbuf |-> e, held |-> h, resource |-> e, sendfile |-> FALSE, keys |-> 0]
  OBVIOUS
<1>5. c \in [fd : I, cb : C, rbuf : V, wbuf : W, held : H, resource : R, sendfile : B, keys : N]
  BY <1>1, <1>3, <1>4 DEF Cbs
<1>6. c.rbuf = e /\ c.wbuf = e /\ c.keys = 0
  BY <1>4
<1>7. NewConn = c
  BY <1>3, <1>4, <1>8 DEF NewConn
<1> QED
  BY <1>1, <1>3, <1>5, <1>6, <1>7, Zenon DEF ConnSlots

(* What agrees between two slots that differ in callback and descriptor. *)
SameBuffers(c, d) == d.rbuf = c.rbuf /\ d.wbuf = c.wbuf /\ d.resource = c.resource

(* accept_cb. *)
LEMMA EchoAcceptedSlot ==
    ASSUME NEW c \in ConnSlots, NEW fd \in Nat, NEW d, d = EchoAccepted(c, fd)
    PROVE  d \in ConnSlots /\ SameBuffers(c, d) /\ d.fd = fd /\ d.cb = "recv" /\ d.keys = c.keys
<1>1. PICK I, C, V, W, H, R, B, N : I = Int /\ C = Cbs /\ V = Seq(Items) /\ W = Wbufs /\ H = 0 .. BufferSize /\ R = Items /\ B = BOOLEAN /\ N = Nat
  OBVIOUS
<1>2. c \in [fd : I, cb : C, rbuf : V, wbuf : W, held : H, resource : R, sendfile : B, keys : N]
  BY <1>1, Zenon DEF ConnSlots
<1>4. PICK f \in I, e \in C : f = fd /\ e = "recv"
  BY <1>1 DEF Cbs
<1>5. d = [c EXCEPT !.fd = f, !.cb = e]
  BY <1>4 DEF EchoAccepted
<1>3. /\ d \in [fd : I, cb : C, rbuf : V, wbuf : W, held : H, resource : R, sendfile : B, keys : N]
      /\ SameBuffers(c, d) /\ d.fd = fd /\ d.cb = "recv" /\ d.keys = c.keys
  BY <1>2, <1>4, <1>5 DEF SameBuffers
<1> QED
  BY <1>1, <1>3, Zenon DEF ConnSlots

(* The HTTP server's makes a new table. *)
LEMMA HttpAcceptedSlot ==
    ASSUME NEW c \in ConnSlots, NEW fd \in Nat, NEW d, d = HttpAccepted(c, fd)
    PROVE  d \in ConnSlots /\ SameBuffers(c, d) /\ d.fd = fd /\ d.cb = "recv" /\ d.keys = 0
<1>1. PICK I, C, V, W, H, R, B, N : I = Int /\ C = Cbs /\ V = Seq(Items) /\ W = Wbufs /\ H = 0 .. BufferSize /\ R = Items /\ B = BOOLEAN /\ N = Nat
  OBVIOUS
<1>2. c \in [fd : I, cb : C, rbuf : V, wbuf : W, held : H, resource : R, sendfile : B, keys : N]
  BY <1>1, Zenon DEF ConnSlots
<1>4. PICK f \in I, e \in C, k \in N : f = fd /\ e = "recv" /\ k = 0
  BY <1>1 DEF Cbs
<1>5. d = [c EXCEPT !.fd = f, !.cb = e, !.keys = k]
  BY <1>4 DEF HttpAccepted
<1>3. /\ d \in [fd : I, cb : C, rbuf : V, wbuf : W, held : H, resource : R, sendfile : B, keys : N]
      /\ SameBuffers(c, d) /\ d.fd = fd /\ d.cb = "recv" /\ d.keys = 0
  BY <1>2, <1>4, <1>5 DEF SameBuffers
<1> QED
  BY <1>1, <1>3, Zenon DEF ConnSlots

(* The close branch of recv_cb. *)
LEMMA ResetSlot ==
    ASSUME NEW c \in ConnSlots, NEW d, d = Reset(c)
    PROVE  d \in ConnSlots /\ d.rbuf = <<>> /\ d.wbuf = <<>> /\ d.keys = c.keys
<1>1. PICK I, C, V, W, H, R, B, N : I = Int /\ C = Cbs /\ V = Seq(Items) /\ W = Wbufs /\ H = 0 .. BufferSize /\ R = Items /\ B = BOOLEAN /\ N = Nat
  OBVIOUS
<1>2. c \in [fd : I, cb : C, rbuf : V, wbuf : W, held : H, resource : R, sendfile : B, keys : N]
  BY <1>1, Zenon DEF ConnSlots
<1>3. <<>> \in V /\ <<>> \in W
  BY <1>1, EmptySeq DEF Wbufs
<1>4. PICK e : e = <<>> /\ e \in V /\ e \in W
  BY <1>3
<1>7. PICK n \in I : n = -1
  BY <1>1
<1>5. d = [c EXCEPT !.fd = n, !.rbuf = e, !.wbuf = e]
  BY <1>4, <1>7 DEF Reset
<1>6. /\ d \in [fd : I, cb : C, rbuf : V, wbuf : W, held : H, resource : R, sendfile : B, keys : N]
      /\ d.rbuf = e /\ d.wbuf = e /\ d.keys = c.keys
  BY <1>2, <1>4, <1>5
<1> QED
  BY <1>1, <1>4, <1>6, Zenon DEF ConnSlots

(* send_cb goes back to recv_cb. *)
LEMMA BackSlot ==
    ASSUME NEW c \in ConnSlots, NEW d, d = [c EXCEPT !.cb = "recv"]
    PROVE  d \in ConnSlots /\ SameBuffers(c, d) /\ d.fd = c.fd /\ d.cb = "recv" /\ d.keys = c.keys
<1>1. PICK I, C, V, W, H, R, B, N : I = Int /\ C = Cbs /\ V = Seq(Items) /\ W = Wbufs /\ H = 0 .. BufferSize /\ R = Items /\ B = BOOLEAN /\ N = Nat
  OBVIOUS
<1>2. c \in [fd : I, cb : C, rbuf : V, wbuf : W, held : H, resource : R, sendfile : B, keys : N]
  BY <1>1, Zenon DEF ConnSlots
<1>4. PICK e \in C : e = "recv"
  BY <1>1 DEF Cbs
<1>3. /\ d \in [fd : I, cb : C, rbuf : V, wbuf : W, held : H, resource : R, sendfile : B, keys : N]
      /\ SameBuffers(c, d) /\ d.fd = c.fd /\ d.cb = "recv" /\ d.keys = c.keys
  BY <1>2, <1>4 DEF SameBuffers
<1> QED
  BY <1>1, <1>3, Zenon DEF ConnSlots

(* recv_cb of the echo server. *)
LEMMA EchoSlot ==
    ASSUME NEW c \in ConnSlots, NEW q \in Seq(Items), q # <<>>, NEW d, d = EchoReceived(c, q)
    PROVE  /\ d \in ConnSlots /\ d.fd = c.fd /\ d.cb = "send" /\ d.keys = c.keys
           /\ \E n \in 0 .. Len(q) : /\ d.rbuf = c.rbuf \o SubSeq(q, 1, n) /\ d.wbuf = d.rbuf
                                     /\ Len(d.rbuf) = Len(c.rbuf) + n /\ n > 0
<1>1. PICK I, C, V, W, H, R, B, N : I = Int /\ C = Cbs /\ V = Seq(Items) /\ W = Wbufs /\ H = 0 .. BufferSize /\ R = Items /\ B = BOOLEAN /\ N = Nat
  OBVIOUS
<1>2. c \in [fd : I, cb : C, rbuf : V, wbuf : W, held : H, resource : R, sendfile : B, keys : N]
  BY <1>1, Zenon DEF ConnSlots
<1>3. c.rbuf \in Seq(Items) /\ Len(c.rbuf) \in Nat
  BY SlotFields, LenProperties
<1>4. Len(q) \in Nat /\ Len(q) # 0
  BY LenProperties, EmptySeq
<1>5. PICK n \in 0 .. Len(q) : n = Min({Count, Len(q)}) /\ n > 0
  <2>1. {Count, Len(q)} \subseteq Nat /\ {Count, Len(q)} # {} /\ Count > 0
    BY <1>4, ReactorAssumption
  <2>2. \E x \in {Count, Len(q)} : \A y \in {Count, Len(q)} : x <= y
    BY <1>4, <2>1
  <2>3. Min({Count, Len(q)}) \in {Count, Len(q)} /\ \A y \in {Count, Len(q)} : Min({Count, Len(q)}) <= y
    BY <2>2, Zenon DEF Min
  <2>4. Min({Count, Len(q)}) \in 0 .. Len(q) /\ Min({Count, Len(q)}) > 0
    BY <1>4, <2>1, <2>3
  <2> QED
    BY <2>4, Zenon
<1>6. PICK i : i = SubSeq(q, 1, n)
  OBVIOUS
<1>7. i \in Seq(Items) /\ Len(i) = n
  <2>1. 1 \in Int /\ n \in Int /\ \A j \in 1 .. n : q[j] \in Items
    <3>1. \A j \in 1 .. Len(q) : q[j] \in Items
      BY ElementOfSeq
    <3>2. n \in Nat /\ n <= Len(q)
      BY <1>4, <1>5
    <3> QED
      BY <1>4, <3>1, <3>2
  <2>2. i \in Seq(Items) /\ Len(i) = IF 1 <= n THEN n - 1 + 1 ELSE 0
    BY <1>6, <2>1, SubSeqProperties
  <2> QED
    BY <1>4, <1>5, <2>2
<1>8. PICK g : g = c.rbuf \o i
  OBVIOUS
<1>9. g \in V /\ g \in W /\ Len(g) = Len(c.rbuf) + n
  BY <1>1, <1>3, <1>7, <1>8, ConcatProperties DEF Wbufs
<1>13. PICK e \in C : e = "send"
  BY <1>1 DEF Cbs
<1>10. d = [c EXCEPT !.rbuf = g, !.wbuf = g, !.cb = e]
  BY <1>5, <1>6, <1>8, <1>13 DEF EchoReceived
<1>11. /\ d \in [fd : I, cb : C, rbuf : V, wbuf : W, held : H, resource : R, sendfile : B, keys : N]
       /\ d.rbuf = g /\ d.wbuf = g /\ d.fd = c.fd /\ d.cb = "send" /\ d.keys = c.keys
  BY <1>2, <1>9, <1>10, <1>13
<1>12. d \in ConnSlots
  BY <1>1, <1>11, Zenon DEF ConnSlots
<1> QED
  BY <1>5, <1>6, <1>8, <1>9, <1>11, <1>12

(* The lines of rbuffer fit into it. *)
LEMMA HeldTyped ==
    ASSUME NEW a \in 0 .. BufferSize, NEW n \in Nat
    PROVE  Max({a, Min({BufferSize, n})}) \in 0 .. BufferSize
<1>1. PICK B \in Nat : B = BufferSize
  BY ReactorAssumption
<1>2. \E x \in {B, n} : \A y \in {B, n} : x <= y
  OBVIOUS
<1>3. Min({B, n}) \in {B, n} /\ \A y \in {B, n} : Min({B, n}) <= y
  BY <1>2, Zenon DEF Min
<1>4. PICK m \in 0 .. B : m = Min({B, n})
  BY <1>3
<1>5. \E x \in {a, m} : \A y \in {a, m} : x >= y
  BY <1>1
<1>6. Max({a, m}) \in {a, m}
  BY <1>5, Zenon DEF Max
<1> QED
  BY <1>1, <1>4, <1>6

(* recv_cb of the HTTP server. *)
HttpRead(c, q, d) ==
    /\ d \in ConnSlots /\ d.fd = c.fd /\ d.cb = "send" /\ d.wbuf = c.wbuf
    /\ d.rbuf = c.rbuf \o q /\ Len(d.rbuf) = Len(c.rbuf) + Len(q) /\ Len(q) \in Nat /\ Len(q) > 0
    /\ d.keys = c.keys + d.held /\ (d.rbuf[1] # NoGet => IsPrefix(d.rbuf[1], d.resource))
(* The slot after it: the input behind the earlier input, the name of the  *)
(* request, if it has one, at the head of resource.                        *)
LEMMA HttpSlot ==
    ASSUME NEW c \in ConnSlots, NEW q \in Seq(Items), q # <<>>, NEW d, d = HttpReceived(c, q)
    PROVE  HttpRead(c, q, d)
<1>1. PICK I, C, V, W, H, R, B, N : I = Int /\ C = Cbs /\ V = Seq(Items) /\ W = Wbufs /\ H = 0 .. BufferSize /\ R = Items /\ B = BOOLEAN /\ N = Nat
  OBVIOUS
<1>2. c \in [fd : I, cb : C, rbuf : V, wbuf : W, held : H, resource : R, sendfile : B, keys : N]
  BY <1>1, Zenon DEF ConnSlots
<1>3. c.rbuf \in Seq(Items) /\ Len(c.rbuf) \in Nat /\ c.resource \in Items /\ c.keys \in Nat /\ c.held \in 0 .. BufferSize
  BY SlotFields, LenProperties
<1>4. Len(q) \in Nat /\ Len(q) > 0
  BY LenProperties, EmptySeq
<1>5. PICK g : g = c.rbuf \o q
  OBVIOUS
<1>6. g \in V /\ Len(g) = Len(c.rbuf) + Len(q)
  BY <1>1, <1>3, <1>5, ConcatProperties
<1>7. g[1] \in Items
  BY <1>1, <1>3, <1>4, <1>6, ElementOfSeq
<1>8. PICK o : o = IF g[1] = NoGet THEN c.resource ELSE Overlay(g[1], c.resource)
  OBVIOUS
<1>9. o \in R /\ (g[1] # NoGet => IsPrefix(g[1], o))
  BY <1>1, <1>3, <1>7, <1>8, OverlayPrefix
<1>22. PICK h \in H : h = Max({c.held, Min({BufferSize, Len(g)})})
  <2>1. PICK l \in Nat : l = Len(g)
    BY <1>3, <1>4, <1>6
  <2>2. Max({c.held, Min({BufferSize, l})}) \in H
    BY <1>1, <1>3, HeldTyped
  <2> QED
    BY <2>1, <2>2
<1>10. PICK k : k = c.keys + h
  OBVIOUS
<1>11. k \in Nat
  BY <1>1, <1>3, <1>10, <1>22, ReactorAssumption
<1>12. PICK r : r = [c EXCEPT !.rbuf = g, !.held = h]
  OBVIOUS
<1>13. r \in [fd : I, cb : C, rbuf : V, wbuf : W, held : H, resource : R, sendfile : B, keys : N] /\ r.rbuf = g /\ r.held = h /\ r.keys = c.keys /\ r.resource = c.resource
  BY <1>2, <1>6, <1>12, <1>22
<1>23. Stored(c, q) = r
  BY <1>5, <1>12, <1>22 DEF Stored
<1>14. PICK x : x = [r EXCEPT !.keys = k]
  OBVIOUS
<1>15. PutLines(r) = x
  BY <1>10, <1>13, <1>14 DEF PutLines
<1>16. PICK y : y = [x EXCEPT !.resource = o]
  OBVIOUS
<1>17. x.resource = c.resource /\ x.rbuf = g
  BY <1>13, <1>14
<1>18. HttpRequest(r) = y
  BY <1>8, <1>13, <1>15, <1>16, <1>17 DEF HttpRequest
<1>19. d = [y EXCEPT !.cb = "send"]
  BY <1>18, <1>23 DEF HttpReceived
<1>20. /\ d \in [fd : I, cb : C, rbuf : V, wbuf : W, held : H, resource : R, sendfile : B, keys : N]
       /\ d.rbuf = g /\ d.wbuf = c.wbuf /\ d.fd = c.fd /\ d.cb = "send" /\ d.held = h /\ d.keys = k /\ d.resource = o
  <2>1. x \in [fd : I, cb : C, rbuf : V, wbuf : W, held : H, resource : R, sendfile : B, keys : N] /\ x.rbuf = g /\ x.wbuf = c.wbuf /\ x.fd = c.fd /\ x.held = h /\ x.keys = k
    <3>1. k \in N
      BY <1>1, <1>11
    <3>2. r.wbuf = c.wbuf /\ r.fd = c.fd
      BY <1>2, <1>6, <1>12
    <3> QED
      BY <1>13, <1>14, <3>1, <3>2
  <2>2. y \in [fd : I, cb : C, rbuf : V, wbuf : W, held : H, resource : R, sendfile : B, keys : N] /\ y.rbuf = g /\ y.wbuf = c.wbuf /\ y.fd = c.fd /\ y.held = h /\ y.keys = k /\ y.resource = o
    BY <1>9, <1>16, <2>1
  <2> QED
    <3>1. PICK e \in C : e = "send"
      BY <1>1 DEF Cbs
    <3> QED
      BY <1>19, <2>2, <3>1
<1>21. d \in ConnSlots
  BY <1>1, <1>20, Zenon DEF ConnSlots
<1> QED
  BY <1>4, <1>5, <1>6, <1>9, <1>10, <1>20, <1>21, Zenon DEF HttpRead

(* zv_http_response. *)
LEMMA ResponseSlot ==
    ASSUME NEW c \in ConnSlots, NEW d, d = HttpResponse(c)
    PROVE  /\ d \in ConnSlots /\ d.fd = c.fd /\ d.cb = c.cb /\ d.rbuf = c.rbuf /\ d.resource = c.resource /\ d.keys = c.keys
           /\ IF c.resource \in Files THEN d.wbuf = c.resource ELSE d = c
<1>1. PICK I, C, V, W, H, R, B, N : I = Int /\ C = Cbs /\ V = Seq(Items) /\ W = Wbufs /\ H = 0 .. BufferSize /\ R = Items /\ B = BOOLEAN /\ N = Nat
  OBVIOUS
<1>2. c \in [fd : I, cb : C, rbuf : V, wbuf : W, held : H, resource : R, sendfile : B, keys : N]
  BY <1>1, Zenon DEF ConnSlots
<1>3. PICK o : o = c.resource /\ o \in W
  BY <1>1, SlotFields DEF Wbufs
<1>4. CASE o \in Files
  <2>1. d = [c EXCEPT !.wbuf = o, !.sendfile = TRUE]
    BY <1>3, <1>4 DEF HttpResponse
  <2>2. /\ d \in [fd : I, cb : C, rbuf : V, wbuf : W, held : H, resource : R, sendfile : B, keys : N]
        /\ d.fd = c.fd /\ d.cb = c.cb /\ d.rbuf = c.rbuf /\ d.resource = c.resource /\ d.keys = c.keys /\ d.wbuf = o
    <3>1. PICK x \in B : x = TRUE
      BY <1>1
    <3> QED
      BY <1>2, <1>3, <2>1, <3>1
  <2>3. d \in ConnSlots
    BY <1>1, <2>2, Zenon DEF ConnSlots
  <2> QED
    BY <1>3, <1>4, <2>2, <2>3
<1>5. CASE o \notin Files
  BY <1>3, <1>5 DEF HttpResponse
<1> QED
  BY <1>4, <1>5

(* A slot fits its descriptor's connection and the interest in it: what it *)
(* holds, and what was sent from it, is of this connection.                *)
Interests == {"none", "in", "out"}
EchoFits(c, s, w) ==
    c.keys = 0 /\ (w = "out" => c.wbuf = s.got) /\ (w = "in" /\ s.got # <<>> => s.out[1] = s.got)
Begins(g, r) == g # <<>> /\ (g[1] # NoGet => IsPrefix(g[1], r))
Served(g, o) == (o[1] # <<>> => Begins(g, o[1])) /\ o[2] \in {<<>>, o[1]}
KeysFit(n, k) == n <= k * BufferSize
HttpFits(c, s, w) ==
    /\ (w = "out" \/ s.got # <<>> => Begins(s.got, c.resource))
    /\ (c.wbuf # <<>> => Begins(s.got, c.wbuf))
    /\ (s.out # <<>> => Served(s.got, s.out))
    /\ (s.id # 0 => KeysFit(c.keys, Len(s.got)))
SlotFits(p, fd, c, s, w) ==
    /\ c.rbuf = s.got /\ (w = "none" <=> s.id = 0)
    /\ (w # "none" => c.fd = fd /\ c.cb = IF w = "in" THEN "recv" ELSE "send")
    /\ (p = "echo" => EchoFits(c, s, w)) /\ (p = "http" => HttpFits(c, s, w))
TooMuch(p, n) ==
    n > BufferSize \/ (p = "http" /\ (n = BufferSize \/ n * BufferSize > MaxKeyCount))
OneInputOverruns ==
    died = "overrun" => \E fd \in OpenFds : TooMuch(program, Len(sock[fd].got))
ReactorInv ==
    /\ KernelInv(SentOuts)
    /\ blocks \in Seq(BlocksOf(ConnSlots)) /\ watch \in [Fds -> Interests]
    /\ watch[Listener] = "in" /\ Conn(Listener).cb = "accept"
    /\ \A fd \in Clients : SlotFits(program, fd, Conn(fd), sock[fd], watch[fd])
    /\ ready \subseteq Fds \X {"in", "out"} /\ \A e \in ready : watch[e[1]] = e[2]
    /\ (<<Listener, "in">> \in ready => backlog > 0)
    /\ OneInputOverruns

(* What the properties of the reactor follow from. *)
LEMMA ReactorInvImplies ==
    ASSUME ReactorInv, Reactors
    PROVE  CallbackMatchesInterest /\ AnswersFromOwnInput
<1>1. CallbackMatchesInterest
  BY DEF ReactorInv, SlotFits, CallbackMatchesInterest
<1>2. ASSUME NEW fd \in OpenFds, NEW s, s = sock[fd]
      PROVE  IF program = "echo" THEN watch[fd] = "in" /\ s.got # <<>> => s.out[1] = s.got
             ELSE s.out # <<>> =>
                    /\ s.out[1] # <<>> /\ s.got[1] # NoGet => IsPrefix(s.got[1], s.out[1])
                    /\ s.out[2] \in {<<>>, s.out[1]}
  <2>1. PICK c, w : c = Conn(fd) /\ w = watch[fd] /\ SlotFits(program, fd, c, s, w)
    BY <1>2 DEF ReactorInv, OpenFds
  <2>2. CASE program = "echo"
    BY <2>1, <2>2 DEF SlotFits, EchoFits
  <2>3. CASE program = "http"
    BY <2>1, <2>3, Zenon DEF SlotFits, HttpFits, Served, Begins
  <2> QED
    BY <2>2, <2>3 DEF Reactors
<1>3. AnswersFromOwnInput
  BY <1>2, Zenon DEF AnswersFromOwnInput, ReactorInv, OneInputOverruns, TooMuch
<1> QED
  BY <1>1, <1>3

(* The callbacks change one slot, the interest in its descriptor and its   *)
(* connection.                                                             *)
SlotChanges(fd, c, t, w) ==
    /\ c \in ConnSlots /\ t \in Socks(SentOuts) /\ w \in Interests
    /\ (t.id = 0 => t = Free) /\ SlotFits(program, fd, c, t, w)
    /\ blocks' \in Seq(BlocksOf(ConnSlots)) /\ (\A g \in Fds : SlotOf(blocks', g) = IF g = fd THEN c ELSE SlotOf(blocks, g))
    /\ watch' = [watch EXCEPT ![fd] = w] /\ sock' = [sock EXCEPT ![fd] = t]
    /\ ready' \subseteq ready /\ (\A e \in ready' : e[1] = fd => e[2] = w)
    /\ program' = program /\ born' = born /\ backlog' \in 0 .. born
    /\ (<<Listener, "in">> \in ready' => backlog' > 0) /\ OneInputOverruns'
(* Such a change keeps the invariant of the reactor. *)
LEMMA SlotStep ==
    ASSUME ReactorInv, NEW fd \in Clients, NEW c, NEW t, NEW w, SlotChanges(fd, c, t, w)
    PROVE  ReactorInv'
<1>0. /\ c \in ConnSlots /\ t \in Socks(SentOuts) /\ w \in Interests
      /\ (t.id = 0 => t = Free) /\ SlotFits(program, fd, c, t, w)
      /\ blocks' \in Seq(BlocksOf(ConnSlots)) /\ (\A g \in Fds : SlotOf(blocks', g) = IF g = fd THEN c ELSE SlotOf(blocks, g))
      /\ watch' = [watch EXCEPT ![fd] = w] /\ sock' = [sock EXCEPT ![fd] = t]
      /\ ready' \subseteq ready /\ (\A e \in ready' : e[1] = fd => e[2] = w)
      /\ program' = program /\ born' = born /\ backlog' \in 0 .. born
      /\ (<<Listener, "in">> \in ready' => backlog' > 0) /\ OneInputOverruns'
  BY Zenon DEF SlotChanges
<1>1. fd # Listener /\ Listener \in Fds /\ Clients \subseteq Fds /\ fd \in Fds
  BY SocketsAssumption DEF Fds
<1>2. KernelInv(SentOuts)' /\ \A g \in Clients : sock'[g] = IF g = fd THEN t ELSE sock[g]
  <2>1. KernelInv(SentOuts) /\ born' \in Nat /\ backlog' \in 0 .. born'
    BY <1>0 DEF ReactorInv, KernelInv
  <2>2. PICK O : O = SentOuts /\ KernelInv(O) /\ t \in Socks(O)
    BY <1>0, <2>1
  <2>4. fd \in Clients /\ (t.id = 0 => t = Free) /\ sock' = [sock EXCEPT ![fd] = t] /\ born' \in Nat /\ backlog' \in 0 .. born'
    BY <1>0, <2>1
  <2>3. KernelInv(O)' /\ \A g \in Clients : sock'[g] = IF g = fd THEN t ELSE sock[g]
    BY ONLY <2>2, <2>4, SockStep
  <2> QED
    BY <2>2, <2>3
<1>3. watch' \in [Fds -> Interests] /\ \A g \in Fds : watch'[g] = IF g = fd THEN w ELSE watch[g]
  BY <1>0, <1>1 DEF ReactorInv
<1>4. watch'[Listener] = "in" /\ Conn(Listener)'.cb = "accept"
  BY <1>0, <1>1, <1>3 DEF ReactorInv, Conn
<1>5. ASSUME NEW g \in Clients PROVE SlotFits(program, g, Conn(g), sock[g], watch[g])'
  <2>1. CASE g = fd
    <3>1. Conn(g)' = c /\ sock'[g] = t /\ watch'[g] = w /\ program' = program
      BY <1>0, <1>1, <1>2, <1>3, <2>1 DEF Conn
    <3> QED
      BY <1>0, <2>1, <3>1 DEF SlotFits
  <2>2. CASE g # fd
    <3>1. Conn(g)' = Conn(g) /\ sock'[g] = sock[g] /\ watch'[g] = watch[g] /\ program' = program
      BY <1>0, <1>1, <1>2, <1>3, <2>2 DEF Conn
    <3>2. SlotFits(program, g, Conn(g), sock[g], watch[g])
      BY DEF ReactorInv
    <3> QED
      BY <3>1, <3>2 DEF SlotFits
  <2> QED
    BY <2>1, <2>2
<1>6. ready' \subseteq Fds \X {"in", "out"} /\ \A e \in ready' : watch'[e[1]] = e[2]
  BY <1>0, <1>1, <1>3 DEF ReactorInv
<1> QED
  BY <1>0, <1>2, <1>3, <1>4, <1>5, <1>6 DEF ReactorInv

(* The table after n more lines of one connection, of which l were read:   *)
(* every recv brings at least one, and makes at most m <= b entries.       *)
LEMMA KeysGrow ==
    ASSUME NEW b \in Nat, NEW k \in Nat, NEW l \in Nat, NEW n \in Nat, n > 0, NEW m \in 0 .. b, k <= l * b
    PROVE  k + m <= (l + n) * b
<1>1. PICK x \in Nat, y \in Nat : x = l * b /\ y = n * b
  OBVIOUS
<1>2. (l + n) * b = x + y
  BY <1>1
<1>3. y >= b
  BY <1>1
<1> QED
  BY <1>1, <1>2, <1>3

(* accept_cb finds a slot of a free descriptor. *)
LEMMA FitsAccepted ==
    ASSUME NEW p \in {"echo", "http"}, NEW fd \in Nat, NEW c \in ConnSlots, NEW w, NEW s, SlotFits(p, fd, c, s, w), s = Free,
           NEW t, t.id # 0, t.got = Free.got, t.out = Free.out,
           NEW d, d = IF p = "http" THEN HttpAccepted(c, fd) ELSE EchoAccepted(c, fd)
    PROVE  d \in ConnSlots /\ SlotFits(p, fd, d, t, "in")
<1>1. Free.got = <<>> /\ Free.out = <<>>
  BY DEF Free
<1>2. CASE p = "echo"
  <2>1. d \in ConnSlots /\ SameBuffers(c, d) /\ d.fd = fd /\ d.cb = "recv" /\ d.keys = c.keys
    BY <1>2, EchoAcceptedSlot
  <2> QED
    BY <1>1, <1>2, <2>1, Zenon DEF SlotFits, EchoFits, SameBuffers
<1>3. CASE p = "http"
  <2>1. d \in ConnSlots /\ SameBuffers(c, d) /\ d.fd = fd /\ d.cb = "recv" /\ d.keys = 0
    BY <1>3, HttpAcceptedSlot
  <2>2. c.wbuf = <<>> /\ c.rbuf = <<>>
    BY <1>1, <1>3, Zenon DEF SlotFits, HttpFits, Begins
  <2>3. KeysFit(0, Len(t.got))
    <3>1. Len(t.got) = 0
      BY <1>1
    <3> QED
      BY <3>1, ReactorAssumption DEF KeysFit
  <2> QED
    BY <1>1, <1>3, <2>1, <2>2, <2>3, Zenon DEF SlotFits, HttpFits, SameBuffers, Begins
<1> QED
  BY <1>2, <1>3

(* What the peer does, and a failed recv, leave the slot as it is. *)
LEMMA FitsAlike ==
    ASSUME NEW p, NEW fd, NEW c, NEW w, NEW s, NEW t, SlotFits(p, fd, c, s, w), t.id = s.id, t.got = s.got, t.out = s.out
    PROVE  SlotFits(p, fd, c, t, w)
BY Zenon DEF SlotFits, EchoFits, HttpFits

(* The close branch of recv_cb. *)
LEMMA FitsReset ==
    ASSUME NEW p, NEW fd, NEW c \in ConnSlots, NEW w, NEW s, SlotFits(p, fd, c, s, w), NEW d, d = Reset(c)
    PROVE  d \in ConnSlots /\ SlotFits(p, fd, d, Free, "none")
<1>1. Free.got = <<>> /\ Free.out = <<>> /\ Free.id = 0
  BY DEF Free
<1>2. d \in ConnSlots /\ d.rbuf = <<>> /\ d.wbuf = <<>> /\ d.keys = c.keys
  BY ResetSlot
<1> QED
  BY <1>1, <1>2, Zenon DEF SlotFits, EchoFits, HttpFits

(* recv_cb of the echo server. *)
ReceivedFits(p, O, fd, d, t) == d \in ConnSlots /\ t \in Socks(O) /\ t.id # 0 /\ t.got = d.rbuf /\ SlotFits(p, fd, d, t, "out")
(* The slot and the connection fit each other after recv_cb of the echo    *)
(* server.                                                                 *)
LEMMA FitsEchoReceived ==
    ASSUME NEW O, NEW fd, NEW c \in ConnSlots, NEW s \in Socks(O), SlotFits("echo", fd, c, s, "in"), s.inq # <<>>,
           NEW d, d = EchoReceived(c, s.inq), NEW t, t = Taken(s, Len(d.rbuf) - Len(c.rbuf))
    PROVE  ReceivedFits("echo", O, fd, d, t)
<1>1. s.inq \in Seq(Items) /\ s.got \in Seq(Items) /\ c.rbuf \in Seq(Items)
  BY SockFields, SlotFields
<1>2. PICK q \in Seq(Items) : q = s.inq /\ q # <<>>
  BY <1>1
<1>3. /\ d \in ConnSlots /\ d.fd = c.fd /\ d.cb = "send" /\ d.keys = c.keys
      /\ \E n \in 0 .. Len(q) : /\ d.rbuf = c.rbuf \o SubSeq(q, 1, n) /\ d.wbuf = d.rbuf
                                /\ Len(d.rbuf) = Len(c.rbuf) + n /\ n > 0
  BY <1>2, EchoSlot
<1>4. PICK n \in 0 .. Len(q) : d.rbuf = c.rbuf \o SubSeq(q, 1, n) /\ d.wbuf = d.rbuf /\ Len(d.rbuf) = Len(c.rbuf) + n
  BY <1>3
<1>5. Len(c.rbuf) \in Nat /\ Len(q) \in Nat
  BY <1>1, LenProperties
<1>6. Len(d.rbuf) - Len(c.rbuf) = n
  <2>1. n \in 0 .. Len(q) /\ Len(d.rbuf) = Len(c.rbuf) + n
    BY <1>4, Zenon
  <2> QED
    BY ONLY <1>5, <2>1
<1>7. t \in Socks(O) /\ t.id = s.id /\ t.out = s.out /\ t.got = s.got \o SubSeq(q, 1, n)
  <2>2. n \in 0 .. Len(s.inq) /\ t = Taken(s, n)
    BY <1>2, <1>6
  <2>3. t \in Socks(O) /\ t.id = s.id /\ t.out = s.out /\ t.got = s.got \o SubSeq(s.inq, 1, n)
    <3>1. TakenFrom(O, s, n, Taken(s, n))
      BY <2>2, TakenFields
    <3> QED
      BY <2>2, <3>1, Zenon DEF TakenFrom
  <2> QED
    BY <1>2, <2>3
<1>8. t.got = d.rbuf /\ c.rbuf = s.got /\ s.id # 0 /\ c.fd = fd /\ c.keys = 0
  BY <1>4, <1>7 DEF SlotFits, EchoFits
<1> QED
  <2>1. SlotFits("echo", fd, d, t, "out")
    BY <1>3, <1>4, <1>7, <1>8, Zenon DEF SlotFits, EchoFits
  <2> QED
    BY <1>3, <1>7, <1>8, <2>1, Zenon DEF ReceivedFits

(* recv_cb of the HTTP server. *)
LEMMA FitsHttpReceived ==
    ASSUME NEW O, NEW fd, NEW c \in ConnSlots, NEW s \in Socks(O), SlotFits("http", fd, c, s, "in"), s.inq # <<>>,
           NEW d, d = HttpReceived(c, s.inq), NEW t, t = Taken(s, Len(d.rbuf) - Len(c.rbuf))
    PROVE  ReceivedFits("http", O, fd, d, t)
<1>1. s.inq \in Seq(Items) /\ s.got \in Seq(Items) /\ c.rbuf \in Seq(Items) /\ c.keys \in Nat
  BY SockFields, SlotFields
<1>2. PICK q \in Seq(Items) : q = s.inq /\ q # <<>>
  BY <1>1
<1>3. /\ d \in ConnSlots /\ d.fd = c.fd /\ d.cb = "send" /\ d.wbuf = c.wbuf
      /\ d.rbuf = c.rbuf \o q /\ Len(d.rbuf) = Len(c.rbuf) + Len(q) /\ Len(q) \in Nat /\ Len(q) > 0
      /\ d.keys = c.keys + d.held /\ (d.rbuf[1] # NoGet => IsPrefix(d.rbuf[1], d.resource))
  <2>1. HttpRead(c, q, d)
    BY <1>2, HttpSlot
  <2> QED
    BY <2>1, Zenon DEF HttpRead
<1>4. PICK g, l, n : g = d.rbuf /\ l = Len(c.rbuf) /\ n = Len(q)
  OBVIOUS
<1>5. l \in Nat /\ n \in Nat /\ n > 0 /\ Len(g) = l + n
  <2>1. Len(c.rbuf) \in Nat
    BY <1>1, LenProperties
  <2> QED
    BY <1>3, <1>4, <2>1, Zenon
<1>6. TakenFrom(O, s, n, t)
  <2>1. Len(d.rbuf) - Len(c.rbuf) = n
    <3>1. Len(d.rbuf) = l + n /\ Len(c.rbuf) = l
      BY <1>4, <1>5, Zenon
    <3> QED
      BY ONLY <1>5, <3>1
  <2>2. n \in 0 .. n
    BY <1>5
  <2>3. n \in 0 .. Len(s.inq)
    BY <1>2, <1>4, <2>2, Zenon
  <2>4. TakenFrom(O, s, n, Taken(s, n))
    BY <2>3, TakenFields
  <2> QED
    BY <2>1, <2>4, Zenon
<1>7. t \in Socks(O) /\ t.id = s.id /\ t.out = s.out /\ t.got = g
  <2>1. SubSeq(s.inq, 1, n) = q
    BY <1>2, <1>4, SubSeqFull, Zenon
  <2>2. c.rbuf = s.got
    BY DEF SlotFits
  <2> QED
    BY <1>3, <1>4, <1>6, <2>1, <2>2, Zenon DEF TakenFrom
<1>8. g # <<>> /\ (s.got # <<>> => g[1] = s.got[1])
  <2>1. s.got = c.rbuf
    BY DEF SlotFits
  <2>2. PICK b \in Seq(Items) : b = c.rbuf /\ g = b \o q /\ l = Len(b)
    BY <1>1, <1>3, <1>4
  <2>3. Len(g) # 0
    BY <1>5
  <2>4. g \in Seq(Items)
    BY <2>2, ConcatProperties
  <2>5. g # <<>>
    BY <2>3, <2>4, EmptySeq
  <2>6. b # <<>> => g[1] = b[1]
    <3>1. SUFFICES ASSUME b # <<>> PROVE g[1] = b[1]
      OBVIOUS
    <3>2. Len(b) \in Nat /\ Len(b) # 0
      BY <3>1, LenProperties, EmptySeq
    <3> QED
      BY <2>2, <3>2, ConcatProperties
  <2> QED
    BY <2>1, <2>2, <2>5, <2>6
<1>9. Begins(g, d.resource)
  BY <1>3, <1>4, <1>8, Zenon DEF Begins
<1>10. HttpFits(c, s, "in") /\ c.fd = fd /\ s.id # 0 /\ c.rbuf = s.got
  BY DEF SlotFits
<1>11. \A r : Begins(s.got, r) => Begins(g, r)
  BY <1>8, Zenon DEF Begins
<1>12. KeysFit(d.keys, Len(g))
  <2>1. KeysFit(c.keys, l)
    BY <1>4, <1>10, Zenon DEF HttpFits
  <2>2. PICK k \in Nat, b \in Nat : k = c.keys /\ b = BufferSize
    BY <1>1, ReactorAssumption
  <2>6. PICK m \in 0 .. b : m = d.held
    BY <1>3, <2>2, SlotFields
  <2>3. k <= l * b
    BY <2>1, <2>2, Zenon DEF KeysFit
  <2>4. k + m <= (l + n) * b
    BY <1>5, <2>3, KeysGrow
  <2>5. d.keys = k + m
    BY <1>3, <2>2, <2>6, Zenon
  <2> QED
    BY <1>5, <2>2, <2>4, <2>5, Zenon DEF KeysFit
<1>13. s.out # <<>> => Served(g, s.out)
  BY <1>10, <1>11, Zenon DEF HttpFits, Served
<1>14. HttpFits(d, t, "out")
  BY <1>3, <1>7, <1>9, <1>10, <1>11, <1>12, <1>13, Zenon DEF HttpFits
<1> QED
  <2>1. SlotFits("http", fd, d, t, "out")
    BY <1>3, <1>4, <1>7, <1>10, <1>14, Zenon DEF SlotFits
  <2> QED
    BY <1>3, <1>4, <1>7, <1>10, <2>1, Zenon DEF ReceivedFits

(* send_cb of the echo server. *)
LEMMA FitsEchoSent ==
    ASSUME NEW fd, NEW c \in ConnSlots, NEW s, SlotFits("echo", fd, c, s, "out"), NEW t, t.id = s.id, t.got = s.got,
           NEW b, t.out = <<c.wbuf, b>>, NEW d, d = [c EXCEPT !.cb = "recv"]
    PROVE  d \in ConnSlots /\ SlotFits("echo", fd, d, t, "in")
<1>1. d \in ConnSlots /\ SameBuffers(c, d) /\ d.fd = c.fd /\ d.cb = "recv" /\ d.keys = c.keys
  BY BackSlot
<1>2. t.out[1] = c.wbuf
  OBVIOUS
<1> QED
  BY <1>1, <1>2, Zenon DEF SlotFits, EchoFits, SameBuffers

(* send_cb of the HTTP server. *)
LEMMA FitsHttpSent ==
    ASSUME NEW fd, NEW c \in ConnSlots, NEW s, SlotFits("http", fd, c, s, "out"), NEW e, e = HttpResponse(c),
           NEW t, t.id = s.id, t.got = s.got, NEW b, t.out = <<e.wbuf, b>>, b = <<>> \/ (b = e.resource /\ e.resource \in Files)
    PROVE  /\ e \in ConnSlots /\ SlotFits("http", fd, e, t, "out")
           /\ \A d : d = [e EXCEPT !.cb = "recv"] => d \in ConnSlots /\ SlotFits("http", fd, d, t, "in")
<1>1. /\ e \in ConnSlots /\ e.fd = c.fd /\ e.cb = c.cb /\ e.rbuf = c.rbuf /\ e.resource = c.resource /\ e.keys = c.keys
      /\ IF c.resource \in Files THEN e.wbuf = c.resource ELSE e = c
  BY ResponseSlot
<1>2. /\ HttpFits(c, s, "out") /\ c.fd = fd /\ c.cb = "send" /\ s.id # 0 /\ c.rbuf = s.got
  BY DEF SlotFits
<1>3. Begins(s.got, c.resource) /\ (c.wbuf # <<>> => Begins(s.got, c.wbuf)) /\ KeysFit(c.keys, Len(s.got))
  BY <1>2, Zenon DEF HttpFits
<1>4. e.wbuf # <<>> => Begins(s.got, e.wbuf)
  BY <1>1, <1>3, Zenon
<1>5. b = <<>> \/ b = e.wbuf
  BY <1>1, Zenon
<1>6. t.out[1] = e.wbuf /\ t.out[2] = b
  OBVIOUS
<1>7. Served(t.got, t.out)
  BY <1>4, <1>5, <1>6 DEF Served
<1>8. HttpFits(e, t, "out")
  BY <1>1, <1>3, <1>4, <1>7, Zenon DEF HttpFits
<1>9. SlotFits("http", fd, e, t, "out")
  BY <1>1, <1>2, <1>8, Zenon DEF SlotFits
<1>10. ASSUME NEW d, d = [e EXCEPT !.cb = "recv"] PROVE d \in ConnSlots /\ SlotFits("http", fd, d, t, "in")
  <2>1. d \in ConnSlots /\ SameBuffers(e, d) /\ d.fd = e.fd /\ d.cb = "recv" /\ d.keys = e.keys
    BY <1>1, <1>10, BackSlot
  <2>2. HttpFits(d, t, "in")
    BY <1>8, <2>1, Zenon DEF HttpFits, SameBuffers
  <2> QED
    BY <1>1, <1>2, <2>1, <2>2, Zenon DEF SlotFits, SameBuffers
<1> QED
  BY <1>1, <1>9, <1>10

(* An event that is still to be handled is the only one of its descriptor  *)
(* and what its slot waits for.                                            *)
LEMMA EventKnown ==
    ASSUME ReactorInv, NEW e \in ready
    PROVE  /\ e[1] \in Fds /\ e[2] \in {"in", "out"} /\ watch[e[1]] = e[2]
           /\ \A x \in ready \ {e} : x[1] # e[1]
           /\ e[1] = Listener => e[2] = "in" /\ backlog > 0 /\ <<Listener, "in">> \notin ready \ {e}
<1>1. ready \subseteq Fds \X {"in", "out"} /\ (\A x \in ready : watch[x[1]] = x[2]) /\ watch[Listener] = "in"
  BY DEF ReactorInv
<1>2. \A x \in ready : x = <<x[1], x[2]>> /\ x[1] \in Fds /\ x[2] \in {"in", "out"}
  BY <1>1
<1>3. \A x \in ready \ {e} : x[1] # e[1]
  BY <1>1, <1>2
<1>4. ASSUME e[1] = Listener PROVE e[2] = "in" /\ backlog > 0 /\ <<Listener, "in">> \notin ready \ {e}
  <2>1. e[2] = "in" /\ e = <<Listener, "in">>
    BY <1>1, <1>2, <1>4
  <2> QED
    BY <2>1 DEF ReactorInv
<1> QED
  BY <1>1, <1>2, <1>3, <1>4

(* Nothing but the events changes. *)
LEMMA ReactorWaits ==
    ASSUME ReactorInv, UNCHANGED <<program, sock, backlog, born, blocks, watch>>, died' \in {died, "sigpipe"},
           ready' \subseteq Fds \X {"in", "out"}, \A e \in ready' : watch[e[1]] = e[2],
           <<Listener, "in">> \in ready' => backlog > 0
    PROVE  ReactorInv'
<1>1. KernelInv(SentOuts)'
  BY DEF ReactorInv, KernelInv, SocksOK
<1>2. blocks' = blocks /\ watch' = watch /\ Conn(Listener)' = Conn(Listener)
  BY DEF Conn
<1>3. OneInputOverruns'
  BY DEF ReactorInv, OneInputOverruns, OpenFds
<1>4. \A fd \in Clients : SlotFits(program, fd, Conn(fd), sock[fd], watch[fd])'
  <2>1. ASSUME NEW fd \in Clients PROVE SlotFits(program, fd, Conn(fd), sock[fd], watch[fd])'
    <3>1. Conn(fd)' = Conn(fd) /\ sock'[fd] = sock[fd] /\ watch'[fd] = watch[fd] /\ program' = program
      BY DEF Conn
    <3>2. SlotFits(program, fd, Conn(fd), sock[fd], watch[fd])
      BY DEF ReactorInv
    <3> QED
      BY <3>1, <3>2 DEF SlotFits
  <2> QED
    BY <2>1
<1> QED
  BY <1>1, <1>2, <1>3, <1>4 DEF ReactorInv

(* epoll_wait reports what the interest set asks for. *)
LEMMA EpollWaitKeeps ==
    ASSUME ReactorInv, EpollWait
    PROVE  ReactorInv'
<1>1. ready' = ReadyEvents /\ UNCHANGED <<program, sock, backlog, born, died, blocks, watch>>
  BY DEF EpollWait, reactorVars
<1>2. ReadyEvents \subseteq Fds \X {"in", "out"} /\ \A e \in ReadyEvents : watch[e[1]] = e[2]
  BY DEF ReadyEvents
<1>3. <<Listener, "in">> \in ReadyEvents => backlog > 0
  BY DEF ReadyEvents, CanRead
<1> QED
  BY <1>1, <1>2, <1>3, ReactorWaits

(* A slot is written. *)
LEMMA BlocksStep ==
    ASSUME ReactorInv, NEW fd \in Fds, NEW c \in ConnSlots, blocks' = WithConn(blocks, fd, c)
    PROVE  /\ blocks' \in Seq(BlocksOf(ConnSlots))
           /\ \A g \in Fds : SlotOf(blocks', g) = IF g = fd THEN c ELSE SlotOf(blocks, g)
<1>1. PICK X, bs, ws : X = ConnSlots /\ bs = blocks /\ ws = blocks'
  OBVIOUS
<1>2. NewConn \in X /\ bs \in Seq(BlocksOf(X)) /\ ws = WithConn(bs, fd, c) /\ c \in X
  BY <1>1, NewSlot DEF ReactorInv
<1>3. Fds \subseteq Nat
  BY SocketsAssumption DEF Fds
<1>5. SlotIsSet(X, bs, fd, c, WithConn(bs, fd, c))
  BY <1>2, <1>3, SlotSet
<1>4. ws \in Seq(BlocksOf(X)) /\ \A g \in Nat : SlotOf(ws, g) = IF g = fd THEN c ELSE SlotOf(bs, g)
  BY <1>2, <1>5, Zenon DEF SlotIsSet
<1> QED
  BY <1>1, <1>3, <1>4

(* Every descriptor has a slot. *)
LEMMA ConnTyped ==
    ASSUME ReactorInv, NEW fd \in Fds
    PROVE  Conn(fd) \in ConnSlots
<1>1. PICK X, bs : X = ConnSlots /\ bs = blocks
  OBVIOUS
<1>2. NewConn \in X /\ bs \in Seq(BlocksOf(X)) /\ fd \in Nat
  BY <1>1, NewSlot, SocketsAssumption DEF ReactorInv, Fds
<1>3. SlotOf(bs, fd) \in X
  BY <1>2, SlotValue
<1> QED
  BY <1>1, <1>3 DEF Conn

(* accept_cb. *)
LEMMA AcceptCbKeeps ==
    ASSUME ReactorInv, Reactors, NEW e \in ready, e[1] = Listener, AcceptCb, ready' = ready \ {e},
           died = "none", UNCHANGED <<program, born>>
    PROVE  ReactorInv'
<1>1. backlog > 0 /\ <<Listener, "in">> \notin ready'
  BY EventKnown
<1>2. ready' \subseteq Fds \X {"in", "out"} /\ \A x \in ready' : watch[x[1]] = x[2]
  BY DEF ReactorInv
<1>3. CASE FreeFds = {}
  <2>1. UNCHANGED <<blocks, watch, sock, backlog, died>>
    BY <1>3 DEF AcceptCb
  <2> QED
    BY <1>1, <1>2, <2>1, ReactorWaits
<1>4. CASE FreeFds # {}
  <2>0. PICK O : O = SentOuts /\ KernelInv(O)
    BY DEF ReactorInv
  <2>1. PICK fd \in Clients, t \in Socks(O) :
             /\ fd = NewFd /\ sock[fd].id = 0 /\ sock[fd] = Free /\ Accepted(fd) = [sock EXCEPT ![fd] = t]
             /\ t.id \in Nat \ {0} /\ t.got = Free.got /\ t.out = Free.out
    BY <1>1, <1>4, <2>0, AcceptFields
  <2>2. PICK c, d, p : c = Conn(fd) /\ p = program /\ d = IF p = "http" THEN HttpAccepted(c, fd) ELSE EchoAccepted(c, fd)
    OBVIOUS
  <2>3. /\ backlog' = backlog - 1 /\ watch' = [watch EXCEPT ![fd] = "in"] /\ sock' = [sock EXCEPT ![fd] = t]
        /\ blocks' = WithConn(blocks, fd, d) /\ died' = died
    BY <1>4, <2>1, <2>2 DEF AcceptCb
  <2>4. fd \in Fds /\ fd \in Nat /\ p \in {"echo", "http"}
    BY <2>2, SocketsAssumption DEF Fds, Reactors
  <2>5. c \in ConnSlots
    BY <2>2, <2>4, ConnTyped
  <2>6. PICK s, w : s = sock[fd] /\ w = watch[fd] /\ SlotFits(p, fd, c, s, w) /\ s = Free
    BY <2>1, <2>2 DEF ReactorInv
  <2>7. d \in ConnSlots /\ SlotFits(p, fd, d, t, "in")
    BY <2>1, <2>2, <2>4, <2>5, <2>6, FitsAccepted
  <2>8. blocks' \in Seq(BlocksOf(ConnSlots)) /\ \A g \in Fds : SlotOf(blocks', g) = IF g = fd THEN d ELSE SlotOf(blocks, g)
    BY <2>3, <2>4, <2>7, BlocksStep
  <2>9. watch[fd] = "none"
    BY <2>1, <2>6 DEF SlotFits
  <2>10. \A x \in ready' : x[1] = fd => x[2] = "in"
    <3>1. \A x \in ready' : x[2] \in {"in", "out"}
      BY <1>2
    <3> QED
      BY <1>2, <2>9, <3>1
  <2>11. backlog' \in 0 .. born
    BY <1>1, <2>0, <2>3 DEF KernelInv
  <2>12. OneInputOverruns'
    BY <2>3 DEF OneInputOverruns
  <2>13. t \in Socks(SentOuts) /\ "in" \in Interests /\ (t.id = 0 => t = Free) /\ SlotFits(program, fd, d, t, "in") /\ ready' \subseteq ready
    BY <2>0, <2>1, <2>2, <2>7 DEF Interests
  <2>14. SlotChanges(fd, d, t, "in")
    BY <1>1, <2>3, <2>7, <2>8, <2>10, <2>11, <2>12, <2>13, Zenon DEF SlotChanges
  <2> QED
    BY <2>14, SlotStep
<1> QED
  BY <1>3, <1>4

(* A callback of a client's descriptor: what is known when it is called. *)
EventAt(e, fd, c, s, w) ==
    /\ fd \in Clients /\ fd \in Fds /\ c = Conn(fd) /\ s = sock[fd] /\ w = watch[fd]
    /\ c \in ConnSlots /\ s \in Socks(SentOuts) /\ w \in {"in", "out"} /\ s.id # 0 /\ SlotFits(program, fd, c, s, w)
    /\ ready' \subseteq ready /\ (\A x \in ready' : x[1] # fd)
    /\ (<<Listener, "in">> \in ready' => backlog > 0) /\ backlog \in 0 .. born
    /\ watch \in [Fds -> Interests] /\ sock \in [Clients -> Socks(SentOuts)]
(* All of it holds when the event of a client is handled. *)
LEMMA ClientEvent ==
    ASSUME ReactorInv, NEW e \in ready, e[1] # Listener, ready' = ready \ {e}
    PROVE  EventAt(e, e[1], Conn(e[1]), sock[e[1]], watch[e[1]])
<1>1. PICK fd, c, s, w : fd = e[1] /\ c = Conn(fd) /\ s = sock[fd] /\ w = watch[fd]
  OBVIOUS
<1>2. /\ e[1] \in Fds /\ e[2] \in {"in", "out"} /\ watch[e[1]] = e[2] /\ (\A x \in ready \ {e} : x[1] # e[1])
  BY EventKnown
<1>3. fd \in Fds /\ fd \in Clients /\ w \in {"in", "out"}
  BY <1>1, <1>2 DEF Fds
<1>4. c \in ConnSlots
  BY <1>1, <1>3, ConnTyped
<1>5. SlotFits(program, fd, c, s, w) /\ sock \in [Clients -> Socks(SentOuts)] /\ s \in Socks(SentOuts) /\ backlog \in 0 .. born /\ watch \in [Fds -> Interests]
  BY <1>1, <1>3 DEF ReactorInv, KernelInv, SocksOK
<1>6. s.id # 0
  BY <1>3, <1>5 DEF SlotFits
<1>7. <<Listener, "in">> \in ready' => backlog > 0
  BY DEF ReactorInv
<1>8. ready' \subseteq ready /\ \A x \in ready' : x[1] # fd
  BY <1>1, <1>2
<1>9. EventAt(e, fd, c, s, w)
  BY <1>1, <1>3, <1>4, <1>5, <1>6, <1>7, <1>8, Zenon DEF EventAt
<1> QED
  BY <1>1, <1>9, Zenon

(* recv_cb when recv reports an error. *)
LEMMA RecvFailsKeeps ==
    ASSUME ReactorInv, NEW e, NEW fd, NEW c, NEW s, NEW w, EventAt(e, fd, c, s, w), died = "none",
           sock' = [sock EXCEPT ![fd].peer = "dead"], UNCHANGED <<blocks, watch, died, backlog, program, born>>
    PROVE  ReactorInv'
<1>0. /\ fd \in Clients /\ fd \in Fds /\ c = Conn(fd) /\ s = sock[fd] /\ w = watch[fd]
      /\ c \in ConnSlots /\ s \in Socks(SentOuts) /\ w \in {"in", "out"} /\ s.id # 0 /\ SlotFits(program, fd, c, s, w)
      /\ ready' \subseteq ready /\ (\A x \in ready' : x[1] # fd)
      /\ (<<Listener, "in">> \in ready' => backlog > 0) /\ backlog \in 0 .. born
      /\ watch \in [Fds -> Interests] /\ sock \in [Clients -> Socks(SentOuts)]
  BY Zenon DEF EventAt
<1>1. PICK O : O = SentOuts
  OBVIOUS
<1>2. PICK p \in Peers : p = "dead"
  BY DEF Peers
<1>3. PICK t : t = [s EXCEPT !.peer = p]
  OBVIOUS
<1>4. t \in Socks(O) /\ t.id = s.id /\ t.got = s.got /\ t.out = s.out
  <2>1. s \in Socks(O) /\ p \in Peers /\ t = [s EXCEPT !.peer = p]
    BY <1>0, <1>1, <1>3
  <2> QED
    BY ONLY <2>1, SockPeer
<1>5. sock' = [sock EXCEPT ![fd] = t]
  BY <1>0, <1>2, <1>3
<1>6. SlotFits(program, fd, c, t, w)
  BY <1>0, <1>4, FitsAlike
<1>7. watch' = [watch EXCEPT ![fd] = w] /\ w \in Interests
  BY <1>0 DEF Interests
<1>8. blocks' \in Seq(BlocksOf(ConnSlots)) /\ \A g \in Fds : SlotOf(blocks', g) = IF g = fd THEN c ELSE SlotOf(blocks, g)
  BY <1>0 DEF ReactorInv, Conn
<1>9. OneInputOverruns'
  BY DEF OneInputOverruns
<1>10. t \in Socks(SentOuts) /\ (t.id = 0 => t = Free) /\ (\A x \in ready' : x[1] = fd => x[2] = w) /\ backlog' = backlog
  BY <1>0, <1>1, <1>4
<1>11. SlotChanges(fd, c, t, w)
  BY <1>0, <1>5, <1>6, <1>7, <1>8, <1>9, <1>10, Zenon DEF SlotChanges
<1> QED
  BY <1>0, <1>11, SlotStep

(* A callback that writes the slot. *)
Writes(fd, d, t, v) ==
    /\ d \in ConnSlots /\ v \in Interests /\ t \in Socks(SentOuts) /\ (t.id = 0 => t = Free) /\ SlotFits(program, fd, d, t, v)
    /\ blocks' = WithConn(blocks, fd, d) /\ watch' = [watch EXCEPT ![fd] = v] /\ sock' = [sock EXCEPT ![fd] = t]
    /\ UNCHANGED <<backlog, program, born>> /\ OneInputOverruns'
(* A callback that writes its slot so keeps the invariant. *)
LEMMA CallbackWrites ==
    ASSUME ReactorInv, NEW e, NEW fd, NEW c, NEW s, NEW w, EventAt(e, fd, c, s, w),
           NEW d, NEW t, NEW v, Writes(fd, d, t, v)
    PROVE  ReactorInv'
<1>4. /\ d \in ConnSlots /\ v \in Interests /\ t \in Socks(SentOuts) /\ (t.id = 0 => t = Free) /\ SlotFits(program, fd, d, t, v)
      /\ blocks' = WithConn(blocks, fd, d) /\ watch' = [watch EXCEPT ![fd] = v] /\ sock' = [sock EXCEPT ![fd] = t]
      /\ UNCHANGED <<backlog, program, born>> /\ OneInputOverruns'
  BY Zenon DEF Writes
<1>0. /\ fd \in Clients /\ fd \in Fds /\ ready' \subseteq ready /\ (\A x \in ready' : x[1] # fd)
      /\ (<<Listener, "in">> \in ready' => backlog > 0) /\ backlog \in 0 .. born
  BY Zenon DEF EventAt
<1>1. blocks' \in Seq(BlocksOf(ConnSlots)) /\ \A g \in Fds : SlotOf(blocks', g) = IF g = fd THEN d ELSE SlotOf(blocks, g)
  BY <1>0, <1>4, BlocksStep
<1>2. (\A x \in ready' : x[1] = fd => x[2] = v) /\ backlog' = backlog /\ program' = program /\ born' = born
  BY <1>0, <1>4
<1>3. SlotChanges(fd, d, t, v)
  BY <1>0, <1>1, <1>2, <1>4, Zenon DEF SlotChanges
<1> QED
  BY <1>0, <1>3, SlotStep

(* recv_cb when the peer has closed. *)
LEMMA RecvClosesKeeps ==
    ASSUME ReactorInv, NEW e, NEW fd, NEW c, NEW s, NEW w, EventAt(e, fd, c, s, w), died = "none",
           blocks' = WithConn(blocks, fd, Reset(c)), watch' = [watch EXCEPT ![fd] = "none"],
           sock' = [sock EXCEPT ![fd] = Free], UNCHANGED <<died, backlog, program, born>>
    PROVE  ReactorInv'
<1>0. c \in ConnSlots /\ SlotFits(program, fd, c, s, w)
  BY Zenon DEF EventAt
<1>1. PICK d, p : d = Reset(c) /\ p = program
  OBVIOUS
<1>2. d \in ConnSlots /\ SlotFits(p, fd, d, Free, "none")
  BY <1>0, <1>1, FitsReset
<1>3. PICK t, v : t = Free /\ v = "none" /\ v \in Interests
  BY DEF Interests
<1>4. t \in Socks(SentOuts)
  BY <1>3, FreeTyped DEF SentOuts
<1>5. OneInputOverruns'
  BY DEF OneInputOverruns
<1>6. SlotFits(program, fd, d, t, v) /\ blocks' = WithConn(blocks, fd, d) /\ watch' = [watch EXCEPT ![fd] = v] /\ sock' = [sock EXCEPT ![fd] = t]
  BY <1>1, <1>2, <1>3
<1>7. UNCHANGED <<backlog, program, born>>
  OBVIOUS
<1> QED
  <2>1. Writes(fd, d, t, v)
    BY <1>2, <1>3, <1>4, <1>5, <1>6, <1>7, Zenon DEF Writes
  <2> QED
    BY <2>1, CallbackWrites

(* recv_cb when there is data. *)
LEMMA RecvDataKeeps ==
    ASSUME ReactorInv, Reactors, NEW e, NEW fd, NEW c, NEW s, NEW w, EventAt(e, fd, c, s, w), c.cb = "recv", s.inq # <<>>, died = "none",
           NEW d, d = IF program = "http" THEN HttpReceived(c, s.inq) ELSE EchoReceived(c, s.inq),
           blocks' = WithConn(blocks, fd, d), watch' = [watch EXCEPT ![fd] = "out"],
           sock' = [sock EXCEPT ![fd] = Taken(s, Len(d.rbuf) - Len(c.rbuf))],
           died' = (IF Overruns(d) THEN "overrun" ELSE died), UNCHANGED <<backlog, program, born>>
    PROVE  ReactorInv'
<1>0. /\ fd \in Clients /\ c \in ConnSlots /\ s \in Socks(SentOuts) /\ w \in {"in", "out"} /\ SlotFits(program, fd, c, s, w)
      /\ sock \in [Clients -> Socks(SentOuts)]
  BY Zenon DEF EventAt
<1>1. w = "in"
  BY <1>0 DEF SlotFits
<1>2. PICK t, O, p, v : t = Taken(s, Len(d.rbuf) - Len(c.rbuf)) /\ O = SentOuts /\ p = program /\ v = "out" /\ v \in Interests
  BY DEF Interests
<1>3. d \in ConnSlots /\ t \in Socks(O) /\ t.id # 0 /\ t.got = d.rbuf /\ SlotFits(p, fd, d, t, "out")
  <2>1. s \in Socks(O) /\ SlotFits(p, fd, c, s, "in") /\ s.inq # <<>>
    BY <1>0, <1>1, <1>2
  <2>2. CASE p = "http"
    <3>1. d = HttpReceived(c, s.inq) /\ SlotFits("http", fd, c, s, "in")
      BY <1>2, <2>1, <2>2
    <3>2. c \in ConnSlots /\ t = Taken(s, Len(d.rbuf) - Len(c.rbuf))
      BY <1>0, <1>2
    <3>3. ReceivedFits("http", O, fd, d, t)
      BY ONLY <2>1, <3>1, <3>2, FitsHttpReceived
    <3> QED
      BY <2>2, <3>3, Zenon DEF ReceivedFits
  <2>3. CASE p = "echo"
    <3>1. d = EchoReceived(c, s.inq) /\ SlotFits("echo", fd, c, s, "in")
      BY <1>2, <2>1, <2>3
    <3>2. c \in ConnSlots /\ t = Taken(s, Len(d.rbuf) - Len(c.rbuf))
      BY <1>0, <1>2
    <3>3. ReceivedFits("echo", O, fd, d, t)
      BY ONLY <2>1, <3>1, <3>2, FitsEchoReceived
    <3> QED
      BY <2>3, <3>3, Zenon DEF ReceivedFits
  <2> QED
    BY <1>2, <2>2, <2>3 DEF Reactors
<1>4. sock'[fd] = t /\ fd \in OpenFds'
  <2>1. sock' = [sock EXCEPT ![fd] = t] /\ sock'[fd] = t
    BY <1>0, <1>2
  <2> QED
    BY <1>0, <1>3, <2>1 DEF OpenFds
<1>5. OneInputOverruns'
  <2>1. SUFFICES ASSUME died' = "overrun"
        PROVE  TooMuch(program, Len(t.got))
    BY <1>4 DEF OneInputOverruns, TooMuch
  <2>4. Overruns(d)
    BY <2>1
  <2>2. CASE Len(d.rbuf) > BufferSize \/ (program = "http" /\ Len(d.rbuf) = BufferSize)
    BY <1>3, <2>2 DEF TooMuch
  <2>3. CASE ~(Len(d.rbuf) > BufferSize \/ (program = "http" /\ Len(d.rbuf) = BufferSize))
    <3>1. d.keys > MaxKeyCount /\ program = "http"
      BY <2>3, <2>4 DEF Overruns
    <3>2. d.keys \in Nat
      BY <1>3, SlotFields
    <3>4. KeysFit(d.keys, Len(t.got))
      BY <1>2, <1>3, <3>1, Zenon DEF SlotFits, HttpFits
    <3>5. PICK k \in Nat, a \in Int : k = d.keys /\ a = Len(t.got) * BufferSize
      <4>1. Len(t.got) \in Nat
        BY <1>3, SlotFields, LenProperties
      <4>2. Len(t.got) * BufferSize \in Int
        BY <4>1, ReactorAssumption
      <4> QED
        BY <3>2, <4>2, Zenon
    <3>6. k <= a
      BY <3>4, <3>5, Zenon DEF KeysFit
    <3>7. a > MaxKeyCount
      BY <3>1, <3>5, <3>6, ReactorAssumption
    <3> QED
      BY <3>1, <3>5, <3>7 DEF TooMuch
  <2> QED
    BY <2>2, <2>3
<1>6. /\ t \in Socks(SentOuts) /\ (t.id = 0 => t = Free) /\ SlotFits(program, fd, d, t, v)
      /\ watch' = [watch EXCEPT ![fd] = v] /\ sock' = [sock EXCEPT ![fd] = t]
  BY <1>2, <1>3
<1>7. UNCHANGED <<backlog, program, born>>
  OBVIOUS
<1> QED
  <2>1. Writes(fd, d, t, v)
    BY <1>2, <1>3, <1>5, <1>6, <1>7, Zenon DEF Writes
  <2> QED
    BY <2>1, CallbackWrites

(* What is to be shown of a send: f, the slot afterwards, fits whatever    *)
(* socket was given the slot's buffer and the body.                        *)
SendFits(fd, d, b, back, f, s) ==
    /\ f \in ConnSlots /\ f = IF back THEN [d EXCEPT !.cb = "recv"] ELSE d
    /\ \A t : t.id = s.id /\ t.got = s.got /\ t.out = <<d.wbuf, b>> => SlotFits(program, fd, f, t, IF back THEN "in" ELSE "out")

(* send_cb: d is the slot that is sent from. *)
LEMMA SentKeeps ==
    ASSUME ReactorInv, NEW e, NEW fd, NEW c, NEW s, EventAt(e, fd, c, s, "out"), died = "none",
           NEW d \in ConnSlots, NEW b \in Wbufs, NEW back \in BOOLEAN, Sent(fd, d, b, back), UNCHANGED <<backlog, program, born>>,
           NEW f, SendFits(fd, d, b, back, f, s)
    PROVE  ReactorInv'
<1>0. /\ fd \in Clients /\ fd \in Fds /\ s = sock[fd] /\ watch[fd] = "out" /\ s \in Socks(SentOuts) /\ s.id # 0
      /\ ready' \subseteq ready /\ (<<Listener, "in">> \in ready' => backlog > 0)
      /\ watch \in [Fds -> Interests] /\ sock \in [Clients -> Socks(SentOuts)]
  BY Zenon DEF EventAt
<1>3. /\ f = IF back THEN [d EXCEPT !.cb = "recv"] ELSE d
      /\ f \in ConnSlots
      /\ \A t : t.id = s.id /\ t.got = s.got /\ t.out = <<d.wbuf, b>> => SlotFits(program, fd, f, t, IF back THEN "in" ELSE "out")
  BY Zenon DEF SendFits
<1>1. CASE died' = "sigpipe" /\ UNCHANGED <<blocks, watch, sock>>
  <2>1. died' = "sigpipe" /\ UNCHANGED <<blocks, watch, sock>>
    BY <1>1
  <2>2. ready' \subseteq Fds \X {"in", "out"} /\ \A x \in ready' : watch[x[1]] = x[2]
    BY <1>0 DEF ReactorInv
  <2> QED
    BY <1>0, <2>1, <2>2, ReactorWaits
<1>2. CASE ~(died' = "sigpipe" /\ UNCHANGED <<blocks, watch, sock>>)
  <2>1. /\ sock' = [sock EXCEPT ![fd].peer = AfterSend(s), ![fd].out = <<d.wbuf, b>>]
        /\ blocks' = WithConn(blocks, fd, f) /\ watch' = (IF back THEN [watch EXCEPT ![fd] = "in"] ELSE watch) /\ died' = died
    BY <1>0, <1>3, <1>2, Zenon DEF Sent
  <2>2. PICK O, v : O = SentOuts /\ v = (IF back THEN "in" ELSE "out") /\ v \in Interests
    BY DEF Interests
  <2>3. PICK p \in Peers : p = AfterSend(s)
    <3>1. s.peer \in Peers
      BY <1>0, SockFields
    <3> QED
      BY <3>1, AfterSendPeer
  <2>4. PICK o \in O : o = <<d.wbuf, b>>
    <3>1. PICK W : W = Wbufs
      OBVIOUS
    <3>2. d.wbuf \in W /\ b \in W
      BY <3>1, SlotFields
    <3>3. <<d.wbuf, b>> \in W \X W
      BY <3>2
    <3> QED
      BY <2>2, <3>1, <3>3, Zenon DEF SentOuts
  <2>5. PICK t : t = WrittenTo(s, p, o)
    OBVIOUS
  <2>6. t \in Socks(O) /\ t.id = s.id /\ t.got = s.got /\ t.out = o
    <3>1. s \in Socks(O)
      BY <1>0, <2>2
    <3> QED
      BY ONLY <2>3, <2>4, <2>5, <3>1, SockWritten
  <2>7. sock' = [sock EXCEPT ![fd] = t]
    BY <1>0, <2>1, <2>3, <2>4, <2>5 DEF WrittenTo
  <2>8. watch' = [watch EXCEPT ![fd] = v]
    BY <1>0, <2>1, <2>2
  <2>9. SlotFits(program, fd, f, t, v)
    BY <1>3, <2>2, <2>4, <2>6, Zenon
  <2>10. OneInputOverruns'
    BY <2>1 DEF OneInputOverruns
  <2>11. Writes(fd, f, t, v)
    <3>1. t \in Socks(SentOuts) /\ (t.id = 0 => t = Free)
      BY <1>0, <2>2, <2>6
    <3>2. UNCHANGED <<backlog, program, born>>
      OBVIOUS
    <3> QED
      BY <1>3, <2>1, <2>2, <2>7, <2>8, <2>9, <2>10, <3>1, <3>2, Zenon DEF Writes
  <2> QED
    BY <2>11, CallbackWrites
<1> QED
  BY <1>1, <1>2

(* send_cb of the echo server keeps the invariant. *)
LEMMA EchoSendKeeps ==
    ASSUME ReactorInv, NEW e, NEW fd, NEW c, NEW s, EventAt(e, fd, c, s, "out"), died = "none", program = "echo",
           EchoSendCb(fd), UNCHANGED <<backlog, program, born>>
    PROVE  ReactorInv'
<1>0. c = Conn(fd) /\ c \in ConnSlots /\ SlotFits(program, fd, c, s, "out")
  BY Zenon DEF EventAt
<1>1. PICK b, f : b = <<>> /\ b \in Wbufs /\ f = [c EXCEPT !.cb = "recv"]
  BY EmptySeq DEF Wbufs
<1>2. Sent(fd, c, b, TRUE)
  BY <1>0, <1>1 DEF EchoSendCb
<1>3. f \in ConnSlots
  BY <1>0, <1>1, BackSlot
<1>4. ASSUME NEW t, t.id = s.id, t.got = s.got, t.out = <<c.wbuf, b>> PROVE SlotFits(program, fd, f, t, "in")
  <2>1. SlotFits("echo", fd, c, s, "out")
    BY <1>0
  <2>2. SlotFits("echo", fd, f, t, "in")
    BY <1>0, <1>1, <1>4, <2>1, FitsEchoSent
  <2> QED
    BY <2>2
<1>5. PICK back \in BOOLEAN : back = TRUE
  OBVIOUS
<1>6. \A t : t.id = s.id /\ t.got = s.got /\ t.out = <<c.wbuf, b>> => SlotFits(program, fd, f, t, IF back THEN "in" ELSE "out")
  BY <1>4, <1>5
<1>7. f = (IF back THEN [c EXCEPT !.cb = "recv"] ELSE c) /\ Sent(fd, c, b, back) /\ UNCHANGED <<backlog, program, born>>
  BY <1>1, <1>2, <1>5
<1>8. SendFits(fd, c, b, back, f, s)
  BY <1>3, <1>6, <1>7, Zenon DEF SendFits
<1> QED
  BY <1>0, <1>1, <1>7, <1>8, SentKeeps

(* send_cb of the HTTP server keeps the invariant. *)
LEMMA HttpSendKeeps ==
    ASSUME ReactorInv, NEW e, NEW fd, NEW c, NEW s, EventAt(e, fd, c, s, "out"), died = "none", program = "http",
           HttpSendCb(fd), UNCHANGED <<backlog, program, born>>
    PROVE  ReactorInv'
<1>0. c = Conn(fd) /\ c \in ConnSlots /\ SlotFits(program, fd, c, s, "out")
  BY Zenon DEF EventAt
<1>1. PICK d : d = HttpResponse(c)
  OBVIOUS
<1>2. d \in ConnSlots /\ d.resource \in Items /\ d.sendfile \in BOOLEAN
  <2>1. d \in ConnSlots
    BY <1>0, <1>1, ResponseSlot
  <2> QED
    BY <2>1, SlotFields
<1>3. PICK back \in BOOLEAN : back = ~(d.sendfile /\ d.resource \notin Files)
  BY <1>2
<1>4. PICK b : b = IF d.sendfile /\ back THEN d.resource ELSE <<>>
  OBVIOUS
<1>5. Sent(fd, d, b, back)
  <2>1. PICK n \in BOOLEAN : n = (d.sendfile /\ d.resource \notin Files)
    BY <1>2
  <2>2. Sent(fd, d, IF d.sendfile /\ ~n THEN d.resource ELSE <<>>, ~n)
    BY <1>0, <1>1, <2>1, Zenon DEF HttpSendCb
  <2>3. back = ~n
    BY <1>3, <2>1
  <2> QED
    BY <1>4, <2>2, <2>3, Zenon
<1>6. b \in Wbufs /\ (b = <<>> \/ (b = d.resource /\ d.resource \in Files))
  <2>1. <<>> \in Wbufs
    BY EmptySeq DEF Wbufs
  <2> QED
    BY <1>2, <1>3, <1>4, <2>1 DEF Wbufs
<1>7. PICK f : f = IF back THEN [d EXCEPT !.cb = "recv"] ELSE d
  OBVIOUS
<1>8. f \in ConnSlots
  <2>1. [d EXCEPT !.cb = "recv"] \in ConnSlots
    BY <1>2, BackSlot
  <2> QED
    BY <1>2, <1>7, <2>1
<1>9. ASSUME NEW t, t.id = s.id, t.got = s.got, t.out = <<d.wbuf, b>> PROVE SlotFits(program, fd, f, t, IF back THEN "in" ELSE "out")
  <2>1. SlotFits("http", fd, c, s, "out")
    BY <1>0
  <2>2. /\ SlotFits("http", fd, d, t, "out")
        /\ \A g : g = [d EXCEPT !.cb = "recv"] => SlotFits("http", fd, g, t, "in")
    BY <1>0, <1>1, <1>6, <1>9, <2>1, FitsHttpSent
  <2>3. SlotFits("http", fd, f, t, IF back THEN "in" ELSE "out")
    BY <1>3, <1>7, <2>2, Zenon
  <2> QED
    BY <2>3
<1>10. \A t : t.id = s.id /\ t.got = s.got /\ t.out = <<d.wbuf, b>> => SlotFits(program, fd, f, t, IF back THEN "in" ELSE "out")
  BY <1>9
<1>11. UNCHANGED <<backlog, program, born>>
  OBVIOUS
<1>12. SendFits(fd, d, b, back, f, s)
  BY <1>7, <1>8, <1>10, Zenon DEF SendFits
<1> QED
  BY <1>2, <1>5, <1>6, <1>11, <1>12, SentKeeps

(* recv_cb, the three outcomes of recv. *)
LEMMA RecvKeeps ==
    ASSUME ReactorInv, Reactors, NEW e, NEW fd, NEW c, NEW s, NEW w, EventAt(e, fd, c, s, w), c.cb = "recv", died = "none",
           RecvCb(fd), UNCHANGED <<backlog, program, born>>
    PROVE  ReactorInv'
<1>0. c = Conn(fd) /\ s = sock[fd]
  BY Zenon DEF EventAt
<1>1. PICK d : d = IF program = "http" THEN HttpReceived(c, s.inq) ELSE EchoReceived(c, s.inq)
  OBVIOUS
<1>2. UNCHANGED <<backlog, program, born>>
  OBVIOUS
<1>3. CASE RecvFails(s)
  <2>1. s.inq = <<>>
    BY <1>3 DEF RecvFails
  <2>2. sock' = [sock EXCEPT ![fd].peer = "dead"] /\ UNCHANGED <<blocks, watch, died>>
    BY <1>0, <1>3, <2>1, Zenon DEF RecvCb
  <2>3. UNCHANGED <<blocks, watch, died, backlog, program, born>>
    BY <1>2, <2>2
  <2> QED
    BY <2>2, <2>3, RecvFailsKeeps
<1>4. CASE ~RecvFails(s) /\ s.inq = <<>>
  <2>1. /\ blocks' = WithConn(blocks, fd, Reset(c)) /\ watch' = [watch EXCEPT ![fd] = "none"]
        /\ sock' = [sock EXCEPT ![fd] = Free] /\ UNCHANGED died
    BY <1>0, <1>4, Zenon DEF RecvCb
  <2>2. UNCHANGED <<died, backlog, program, born>>
    BY <1>2, <2>1
  <2> QED
    BY <2>1, <2>2, RecvClosesKeeps
<1>5. CASE s.inq # <<>>
  <2>0. ~RecvFails(s)
    BY <1>5 DEF RecvFails
  <2>1. /\ blocks' = WithConn(blocks, fd, d) /\ watch' = [watch EXCEPT ![fd] = "out"]
        /\ sock' = [sock EXCEPT ![fd] = Taken(s, Len(d.rbuf) - Len(c.rbuf))]
        /\ died' = IF Overruns(d) THEN "overrun" ELSE died
    BY <1>0, <1>1, <1>5, <2>0, Zenon DEF RecvCb
  <2> QED
    BY <1>1, <1>2, <1>5, <2>1, RecvDataKeeps
<1> QED
  BY <1>3, <1>4, <1>5

(* The callback of an event: the listener's slot has accept_cb, a client's *)
(* the one its interest is for.                                            *)
LEMMA CallbackKeeps ==
    ASSUME ReactorInv, Reactors, NEW e \in ready, Callback(e)
    PROVE  ReactorInv'
<1>0. died = "none" /\ ready' = ready \ {e} /\ UNCHANGED <<program, born>>
  BY DEF Callback
<1>1. CASE e[1] = Listener
  <2>1. Conn(e[1]).cb = "accept"
    BY <1>1 DEF ReactorInv
  <2>2. AcceptCb
    BY <2>1, Zenon DEF Callback
  <2> QED
    BY <1>0, <1>1, <2>2, AcceptCbKeeps
<1>2. CASE e[1] # Listener
  <2>1. PICK fd, c, s, w : fd = e[1] /\ c = Conn(fd) /\ s = sock[fd] /\ w = watch[fd]
    OBVIOUS
  <2>2. EventAt(e, fd, c, s, w)
    BY <1>0, <1>2, <2>1, ClientEvent
  <2>3. w \in {"in", "out"} /\ SlotFits(program, fd, c, s, w)
    BY <2>2, Zenon DEF EventAt
  <2>4. c.cb = IF w = "in" THEN "recv" ELSE "send"
    BY <2>3 DEF SlotFits
  <2>5. CASE w = "in"
    <3>1. c.cb = "recv"
      BY <2>4, <2>5
    <3>2. RecvCb(fd) /\ UNCHANGED backlog
      BY <2>1, <3>1, Zenon DEF Callback
    <3>3. UNCHANGED <<backlog, program, born>>
      BY <1>0, <3>2
    <3> QED
      BY <1>0, <2>2, <3>1, <3>2, <3>3, RecvKeeps
  <2>6. CASE w = "out" /\ program = "echo"
    <3>1. c.cb = "send"
      BY <2>4, <2>6
    <3>2. EchoSendCb(fd) /\ UNCHANGED backlog
      BY <2>1, <2>6, <3>1, Zenon DEF Callback
    <3>3. UNCHANGED <<backlog, program, born>> /\ EventAt(e, fd, c, s, "out")
      BY <1>0, <2>2, <2>6, <3>2
    <3> QED
      BY <1>0, <2>6, <3>2, <3>3, EchoSendKeeps
  <2>7. CASE w = "out" /\ program = "http"
    <3>1. c.cb = "send"
      BY <2>4, <2>7
    <3>2. HttpSendCb(fd) /\ UNCHANGED backlog
      BY <2>1, <2>7, <3>1, Zenon DEF Callback
    <3>3. UNCHANGED <<backlog, program, born>> /\ EventAt(e, fd, c, s, "out")
      BY <1>0, <2>2, <2>7, <3>2
    <3> QED
      BY <1>0, <2>7, <3>2, <3>3, HttpSendKeeps
  <2> QED
    BY <2>3, <2>5, <2>6, <2>7 DEF Reactors
<1> QED
  BY <1>1, <1>2

(* What clients do changes no slot and nothing a slot is compared with. *)
LEMMA ReactorClientKeeps ==
    ASSUME ReactorInv, ClientStep, UNCHANGED reactorVars
    PROVE  ReactorInv'
<1>1. PICK O : O = SentOuts /\ KernelInv(O)
  BY DEF ReactorInv
<1>2. /\ KernelInv(O)' /\ UNCHANGED <<program, ready, died>> /\ backlog' >= backlog
      /\ \A fd \in Clients : Alike(sock[fd], sock'[fd])
  BY <1>1, ClientKeeps
<1>3. blocks' = blocks /\ watch' = watch /\ Conn(Listener)' = Conn(Listener)
  BY DEF reactorVars, Conn
<1>4. died' = "none" /\ OneInputOverruns'
  BY <1>2 DEF ClientStep, OneInputOverruns
<1>5. ASSUME NEW fd \in Clients PROVE SlotFits(program, fd, Conn(fd), sock[fd], watch[fd])'
  <2>1. PICK c, s, t, w, p : c = Conn(fd) /\ s = sock[fd] /\ t = sock'[fd] /\ w = watch[fd] /\ p = program
    OBVIOUS
  <2>2. SlotFits(p, fd, c, s, w) /\ t.id = s.id /\ t.got = s.got /\ t.out = s.out
    BY <1>2, <2>1 DEF ReactorInv, Alike
  <2>3. SlotFits(p, fd, c, t, w)
    BY <2>2, FitsAlike
  <2>4. Conn(fd)' = c /\ sock'[fd] = t /\ watch'[fd] = w /\ program' = p
    BY <1>2, <1>3, <2>1 DEF Conn
  <2> QED
    BY <2>3, <2>4 DEF SlotFits
<1>6. <<Listener, "in">> \in ready' => backlog' > 0
  BY <1>1, <1>2 DEF ReactorInv, KernelInv
<1> QED
  BY <1>1, <1>2, <1>3, <1>4, <1>5, <1>6 DEF ReactorInv

(* Every step of the reactor. *)
LEMMA ReactorStep ==
    ASSUME ReactorInv, Reactors, ReactorNext
    PROVE  ReactorInv'
<1>1. CASE ReactorIdle
  <2>1. UNCHANGED <<program, sock, backlog, born, blocks, watch, ready, died>>
    BY <1>1 DEF ReactorIdle, socketVars, reactorVars
  <2>2. /\ ready' \subseteq Fds \X {"in", "out"} /\ (\A e \in ready' : watch[e[1]] = e[2])
        /\ (<<Listener, "in">> \in ready' => backlog > 0)
    BY <2>1 DEF ReactorInv
  <2> QED
    BY <2>1, <2>2, ReactorWaits
<1> QED
  BY <1>1, EpollWaitKeeps, CallbackKeeps, ReactorClientKeeps DEF ReactorNext

(* The listener's slot. *)
LEMMA ListenerSlot ==
    ASSUME NEW k, k = [NewConn EXCEPT !.fd = Listener, !.cb = "accept"]
    PROVE  k \in ConnSlots /\ k.cb = "accept"
<1>1. PICK I, C, V, W, H, R, B, N : I = Int /\ C = Cbs /\ V = Seq(Items) /\ W = Wbufs /\ H = 0 .. BufferSize /\ R = Items /\ B = BOOLEAN /\ N = Nat
  OBVIOUS
<1>2. NewConn \in [fd : I, cb : C, rbuf : V, wbuf : W, held : H, resource : R, sendfile : B, keys : N]
  BY <1>1, NewSlot, Zenon DEF ConnSlots
<1>3. PICK f \in I, e \in C : f = Listener /\ e = "accept"
  BY <1>1, SocketsAssumption DEF Cbs
<1>4. k = [NewConn EXCEPT !.fd = f, !.cb = e]
  BY <1>3
<1>5. k \in [fd : I, cb : C, rbuf : V, wbuf : W, held : H, resource : R, sendfile : B, keys : N] /\ k.cb = "accept"
  BY <1>2, <1>3, <1>4
<1> QED
  BY <1>1, <1>5, Zenon DEF ConnSlots

(* The reactor starts with one block, in which only the listener's slot is *)
(* in use.                                                                 *)
LEMMA ReactorStarts ==
    ASSUME SocketsInit, ReactorInit
    PROVE  ReactorInv
<1>1. PICK X, bs : X = ConnSlots /\ NewConn \in X /\ bs = blocks
  BY NewSlot
<1>2. PICK k \in X : k = [NewConn EXCEPT !.fd = Listener, !.cb = "accept"] /\ k.cb = "accept"
  BY <1>1, ListenerSlot
<1>3. Listener \in 0 .. BlockSize - 1
  BY SocketsAssumption, ReactorAssumption
<1>4. PICK b : b = [NewBlock EXCEPT ![Listener] = k]
  OBVIOUS
<1>5. b \in BlocksOf(X) /\ \A j \in 0 .. BlockSize - 1 : b[j] = IF j = Listener THEN k ELSE NewConn
  BY <1>1, <1>2, <1>3, <1>4 DEF BlocksOf, NewBlock
<1>6. bs = <<b>>
  <2>1. NewBlock[Listener] = NewConn
    BY <1>3 DEF NewBlock
  <2>2. [InitReactor EXCEPT ![1] = b] = <<b>>
    BY DEF InitReactor
  <2>3. SetListener(InitReactor) = [InitReactor EXCEPT ![1] = b]
    BY <1>2, <1>4, <2>1 DEF SetListener, InitReactor
  <2> QED
    BY <1>1, <2>2, <2>3 DEF ReactorInit
<1>7. bs \in Seq(BlocksOf(X)) /\ Len(bs) = 1 /\ bs[1] = b
  BY <1>5, <1>6
<1>8. ASSUME NEW fd \in Nat PROVE SlotOf(bs, fd) = IF fd = Listener THEN k ELSE NewConn
  <2>1. PICK m \in Nat \ {0}, l \in 0 .. BlockSize - 1 : m = (fd \div BlockSize) + 1 /\ l = fd % BlockSize /\ fd = BlockSize * (m - 1) + l
    BY Place, Zenon
  <2>2. SlotOf(bs, fd) = IF m <= Len(bs) THEN bs[m][l] ELSE NewConn
    BY <1>1, <1>7, <2>1, SlotValue
  <2>3. CASE m = 1
    <3>1. fd = l
      BY <2>1, <2>3, ReactorAssumption
    <3> QED
      BY <1>5, <1>7, <2>2, <2>3, <3>1
  <2>4. CASE m # 1
    <3>1. PICK B \in Nat, i \in Nat : B = BlockSize /\ i = m - 1 /\ i >= 1
      BY <2>4, ReactorAssumption
    <3>2. B * i >= B
      BY <3>1
    <3>3. fd >= BlockSize
      BY <2>1, <3>1, <3>2
    <3> QED
      BY <1>3, <1>7, <2>2, <2>4, <3>3, ReactorAssumption
  <2> QED
    BY <2>3, <2>4
<1>9. Listener \in Nat /\ Clients \subseteq Nat /\ Listener \notin Clients
  BY SocketsAssumption
<1>10. Conn(Listener).cb = "accept" /\ \A fd \in Clients : Conn(fd) = NewConn
  BY <1>1, <1>2, <1>8, <1>9 DEF Conn
<1>11. watch \in [Fds -> Interests] /\ watch[Listener] = "in" /\ \A fd \in Clients : watch[fd] = "none"
  BY <1>9 DEF ReactorInit, Fds, Interests
<1>12. PICK O : O = SentOuts /\ <<>> \in O
  <2>1. <<>> \in SentOuts
    BY Zenon DEF SentOuts
  <2> QED
    BY <2>1
<1>13. Free \in Socks(O) /\ Free.id = 0 /\ Free.got = <<>> /\ Free.out = <<>> /\ Free.inq = <<>> /\ Free.peer = "open"
  BY <1>12, FreeTyped
<1>14. KernelInv(SentOuts) /\ \A fd \in Clients : sock[fd] = Free
  <2>1. SocksOK(sock, O)
    BY <1>13 DEF SocketsInit, SocksOK
  <2> QED
    BY <1>12, <2>1 DEF KernelInv, SocketsInit
<1>15. ASSUME NEW p PROVE \A fd \in Clients : SlotFits(p, fd, NewConn, Free, "none")
  <2>1. EchoFits(NewConn, Free, "none")
    BY <1>13, NewSlot DEF EchoFits
  <2>2. HttpFits(NewConn, Free, "none")
    BY <1>13, NewSlot DEF HttpFits
  <2> QED
    BY <1>13, <2>1, <2>2, NewSlot DEF SlotFits
<1>16. \A fd \in Clients : SlotFits(program, fd, Conn(fd), sock[fd], watch[fd])
  BY <1>10, <1>11, <1>14, <1>15
<1>17. ready = {} /\ died = "none"
  BY DEF SocketsInit
<1>18. OneInputOverruns
  BY <1>17 DEF OneInputOverruns
<1>19. blocks \in Seq(BlocksOf(ConnSlots))
  BY <1>1, <1>7
<1> QED
  BY <1>10, <1>11, <1>14, <1>16, <1>17, <1>18, <1>19 DEF ReactorInv

(* The loops start with the listener alone. *)
LEMMA PollStarts ==
    ASSUME SocketsInit, PollInit
    PROVE  PollInv
<1>1. PICK O : O = Seq(Items) /\ <<>> \in O
  BY EmptySeq
<1>2. Free \in Socks(O) /\ Free.id = 0
  BY <1>1, FreeTyped
<1>3. SocksOK(sock, O) /\ OpenFds = {}
  BY <1>2 DEF SocketsInit, SocksOK, OpenFds
<1>4. KernelInv(Seq(Items))
  BY <1>1, <1>3 DEF KernelInv, SocketsInit
<1>5. Listener \in Nat
  BY SocketsAssumption
<1>6. WatchedAreOpen
  BY <1>3, <1>5 DEF WatchedAreOpen, SocketsInit, PollInit
<1> QED
  BY <1>4, <1>5, <1>6 DEF PollInv, SendsOpen, SocketsInit, PollInit

(* The operations of the ring, and its completions, by what they are made  *)
(* on.                                                                     *)
Ops == {o \in [event : {"accept", "read", "write"}, fd : Nat, len : Int] :
          /\ o.event = "accept" => o.fd \in {Listener, Stdin}
          /\ o.event = "read" => o.fd \in Clients \cup {Stdin}
          /\ o.event = "write" => o.fd \in Clients}
Cqes == {x \in [op : Ops, res : Int] :
           /\ x.op.event = "accept" => x.res = -1 \/ (x.op.fd = Listener /\ x.res \in Clients) \/ (x.op.fd = Stdin /\ x.res = Stdin)
           /\ x.op.event = "read" /\ x.op.fd = Stdin => x.res < 0}

(* The operations of a descriptor in a set, and the completions that hold  *)
(* it in a queue.                                                          *)
OpsOf(S, fd) == {o \in S : o.fd = fd}
Holds(x, fd) == x.op.fd = fd \/ (x.op.event = "accept" /\ x.res = fd)
CqesOf(U, fd) == {i \in DOMAIN U : Holds(U[i], fd)}

(* A connection is answered all it has sent; the first n bytes of the      *)
(* buffer b are what is still to be sent to it.  Once its peer is not open *)
(* no more is recorded.                                                    *)
Own(s, m) == ToSet(s.out) \subseteq ToSet(s.got) /\ (s.id \notin m.short => IsPrefix(s.out, s.got))
Even(s, m) == Own(s, m) /\ (s.id \notin m.short /\ s.peer = "open" => s.out = s.got)
Due(s, n, b, m) ==
    /\ Own(s, m) /\ ToSet(SubSeq(b, 1, n)) \subseteq ToSet(s.got)
    /\ s.id \notin m.short /\ s.peer = "open" => s.out \o SubSeq(b, 1, n) = s.got
OpFits(o, s, b, m) ==
    /\ s.id # 0 /\ (o.event = "write" => o.len \in 1 .. Len(b))
    /\ ~m.mixed => IF o.event = "write" THEN Due(s, o.len, b, m) ELSE Even(s, m)
CqeFits(x, s, b, m) ==
    /\ s.id # 0 /\ (x.op.event = "read" => x.res <= Len(b)) /\ (x.op.event = "read" /\ x.res < 0 => s.peer = "dead")
    /\ ~m.mixed => IF x.op.event = "read" /\ x.res > 0 THEN Due(s, x.res, b, m) ELSE Even(s, m)

NoneFits(s, m) == (s.id = 0 \/ s.peer = "dead") /\ (~m.mixed => Own(s, m))

(* Where the one operation of a descriptor is: prepared, with the kernel,  *)
(* or completed.                                                           *)
InSq(S, F, U, fd, o) == OpsOf(S, fd) = {o} /\ OpsOf(F, fd) = {} /\ CqesOf(U, fd) = {}
InFlight(S, F, U, fd, o) == OpsOf(S, fd) = {} /\ OpsOf(F, fd) = {o} /\ CqesOf(U, fd) = {}
InCq(S, F, U, fd, i) == OpsOf(S, fd) = {} /\ OpsOf(F, fd) = {} /\ CqesOf(U, fd) = {i}
Nowhere(S, F, U, fd) == OpsOf(S, fd) = {} /\ OpsOf(F, fd) = {} /\ CqesOf(U, fd) = {}

(* A client's turn: its operation fits its connection; there is none when  *)
(* it is not open or its recv failed.                                      *)
Turn(S, F, U, fd, s, b, m) ==
    \/ \E o \in S : InSq(S, F, U, fd, o) /\ OpFits(o, s, b, m)
    \/ \E o \in F : InFlight(S, F, U, fd, o) /\ OpFits(o, s, b, m)
    \/ \E i \in DOMAIN U : InCq(S, F, U, fd, i) /\ CqeFits(U[i], s, b, m)
    \/ Nowhere(S, F, U, fd) /\ NoneFits(s, m)
Held(S, F, U, fd) ==
    \/ \E o \in S : InSq(S, F, U, fd, o)
    \/ \E o \in F : InFlight(S, F, U, fd, o)
    \/ \E i \in DOMAIN U : InCq(S, F, U, fd, i)

(* The batch is at the head of the queue until a completion of it has been *)
(* handled.                                                                *)
Failed(x) == x.op.event = "accept" /\ x.res < 0
AllFailed(b, k) == \A i \in 1 .. k - 1 : Failed(b[i])
Heard(b, k, d) == \A i \in 1 .. k - 1 : Failed(b[i]) /\ b[i].op.fd = Listener => d
BatchOK(p, b, k, q) ==
    p = "batch" =>
      /\ b \in Seq(Cqes) /\ k \in 1 .. Len(b)
      /\ AllFailed(b, k) => Len(b) <= Len(q) /\ b = SubSeq(q, 1, Len(b))

(* What spoils answers: the buffer overwritten, sends cut short. *)
Faults == [mixed |-> mixed, short |-> short]

RingInv ==
    /\ KernelInv(Seq(Items)) /\ mixed \in BOOLEAN /\ deaf \in BOOLEAN
    /\ sq \subseteq Ops /\ flight \subseteq Ops /\ (\A o \in flight : o.fd # Stdin)
    /\ cq \in Seq(Cqes) /\ BatchOK(pc, batch, next, cq) /\ shared \in Seq(Items)
    /\ \A fd \in Clients : Turn(sq, flight, Unhandled, fd, sock[fd], shared, Faults)
    /\ ~deaf => Held(sq, flight, Unhandled, Listener)
    /\ pc = "batch" => Heard(batch, next, deaf)
UringInv == skipped \in BOOLEAN /\ (~skipped => RingInv)

(* How the completions that hold fd change with the queue: one joins it,   *)
(* some that do not hold fd join it, the first leaves it.                  *)
Joined(C, U, x, fd, V) ==
    /\ V \in Seq(C) /\ DOMAIN U \subseteq DOMAIN V /\ Len(U) + 1 \in DOMAIN V /\ V[Len(U) + 1] = x
    /\ \A i \in DOMAIN U : V[i] = U[i]
    /\ CqesOf(V, fd) = CqesOf(U, fd) \cup (IF Holds(x, fd) THEN {Len(U) + 1} ELSE {})
Padded(C, U, fd, V) ==
    /\ V \in Seq(C) /\ DOMAIN U \subseteq DOMAIN V /\ (\A i \in DOMAIN U : V[i] = U[i])
    /\ CqesOf(V, fd) = CqesOf(U, fd)
Advanced(C, U, fd, V) ==
    /\ V \in Seq(C)
    /\ CqesOf(U, fd) \in {{}, {1}} => CqesOf(V, fd) = {}
    /\ \A i \in DOMAIN U \ {1} : CqesOf(U, fd) = {i} =>
         \E j \in DOMAIN V : CqesOf(V, fd) = {j} /\ V[j] = U[i]
NoneHolds(A, fd) == \A i \in DOMAIN A : ~Holds(A[i], fd)

(* A completion joins the queue. *)
LEMMA CqesAppend ==
    ASSUME NEW C, NEW U \in Seq(C), NEW x \in C, NEW fd, NEW V, V = Append(U, x)
    PROVE  Joined(C, U, x, fd, V)
<1>1. V \in Seq(C) /\ Len(V) = Len(U) + 1 /\ V[Len(U) + 1] = x /\ \A i \in 1 .. Len(U) : V[i] = U[i]
  BY AppendProperties
<1>2. Len(U) \in Nat /\ DOMAIN U = 1 .. Len(U) /\ DOMAIN V = 1 .. Len(U) + 1
  BY <1>1, LenProperties
<1>3. DOMAIN V = DOMAIN U \cup {Len(U) + 1}
  BY <1>2
<1>4. \A i \in DOMAIN U : V[i] = U[i]
  BY <1>1, <1>2
<1>5. CqesOf(V, fd) = CqesOf(U, fd) \cup (IF Holds(x, fd) THEN {Len(U) + 1} ELSE {})
  BY <1>1, <1>3, <1>4 DEF CqesOf
<1> QED
  BY <1>1, <1>3, <1>4, <1>5 DEF Joined

(* Completions that do not hold fd join the queue. *)
LEMMA CqesConcat ==
    ASSUME NEW C, NEW U \in Seq(C), NEW A \in Seq(C), NEW fd, NoneHolds(A, fd), NEW V, V = U \o A
    PROVE  Padded(C, U, fd, V)
<1>1. /\ V \in Seq(C) /\ Len(V) = Len(U) + Len(A) /\ (\A i \in 1 .. Len(U) : V[i] = U[i])
      /\ \A i \in 1 .. Len(A) : V[Len(U) + i] = A[i]
  BY ConcatProperties
<1>2. Len(U) \in Nat /\ Len(A) \in Nat /\ DOMAIN U = 1 .. Len(U) /\ DOMAIN A = 1 .. Len(A) /\ DOMAIN V = 1 .. Len(U) + Len(A)
  BY <1>1, LenProperties
<1>3. \A i \in DOMAIN U : V[i] = U[i] /\ i \in DOMAIN V
  BY <1>1, <1>2
<1>4. ASSUME NEW i \in DOMAIN V, i \notin DOMAIN U PROVE ~Holds(V[i], fd)
  <2>1. PICK j \in 1 .. Len(A) : i = Len(U) + j
    <3>1. i - Len(U) \in 1 .. Len(A) /\ i = Len(U) + (i - Len(U))
      BY <1>2, <1>4
    <3> QED
      BY <3>1
  <2> QED
    BY <1>1, <1>2, <2>1 DEF NoneHolds
<1>5. CqesOf(V, fd) = CqesOf(U, fd)
  BY <1>3, <1>4 DEF CqesOf
<1> QED
  BY <1>1, <1>3, <1>5 DEF Padded

(* The first completion is handled; those in front of the others do not    *)
(* hold fd.                                                                *)
LEMMA CqesTail ==
    ASSUME NEW C, NEW U \in Seq(C), U # <<>>, NEW B \in Seq(C), NEW fd, NoneHolds(B, fd),
           NEW V, V = B \o Tail(U)
    PROVE  Advanced(C, U, fd, V)
<1>1. PICK T : T = Tail(U) /\ T \in Seq(C) /\ Len(T) = Len(U) - 1 /\ \A i \in 1 .. Len(T) : T[i] = U[i + 1]
  BY HeadTailProperties
<1>2. /\ V \in Seq(C) /\ Len(V) = Len(B) + Len(T) /\ (\A i \in 1 .. Len(B) : V[i] = B[i])
      /\ \A i \in 1 .. Len(T) : V[Len(B) + i] = T[i]
  BY <1>1, ConcatProperties
<1>3. PICK m \in Nat, n \in Nat : m = Len(B) /\ n = Len(T) /\ Len(U) = n + 1
  <2>1. Len(B) \in Nat /\ Len(T) \in Nat /\ Len(U) \in Nat
    BY <1>1, LenProperties
  <2>2. Len(U) = Len(T) + 1
    BY <1>1, <2>1
  <2> QED
    BY <2>1, <2>2, Zenon
<1>4. DOMAIN U = 1 .. n + 1 /\ DOMAIN B = 1 .. m /\ DOMAIN V = 1 .. m + n
  BY <1>2, <1>3, LenProperties
<1>5. \A j \in 1 .. n : V[m + j] = U[j + 1]
  BY <1>1, <1>2, <1>3
<1>6. \A i \in 1 .. m : ~Holds(V[i], fd)
  BY <1>2, <1>3, <1>4 DEF NoneHolds
<1>7. \A i \in DOMAIN V : i \notin 1 .. m => V[i] = U[i - m + 1] /\ i - m + 1 \in DOMAIN U \ {1}
  <2>1. SUFFICES ASSUME NEW i \in DOMAIN V, i \notin 1 .. m PROVE V[i] = U[i - m + 1] /\ i - m + 1 \in DOMAIN U \ {1}
    OBVIOUS
  <2>2. PICK j \in 1 .. n : i = m + j /\ j + 1 = i - m + 1
    <3>1. i - m \in 1 .. n /\ i = m + (i - m) /\ (i - m) + 1 = i - m + 1
      BY <1>4, <2>1
    <3> QED
      BY <3>1
  <2> QED
    BY <1>4, <1>5, <2>2
<1>8. ASSUME CqesOf(U, fd) \in {{}, {1}} PROVE CqesOf(V, fd) = {}
  <2>1. \A i \in DOMAIN U \ {1} : ~Holds(U[i], fd)
    BY <1>8 DEF CqesOf
  <2> QED
    BY <1>6, <1>7, <2>1 DEF CqesOf
<1>9. ASSUME NEW i \in DOMAIN U \ {1}, CqesOf(U, fd) = {i} PROVE \E j \in DOMAIN V : CqesOf(V, fd) = {j} /\ V[j] = U[i]
  <2>1. PICK j \in DOMAIN V : j = m + i - 1 /\ j \notin 1 .. m /\ j - m + 1 = i
    BY <1>4
  <2>2. V[j] = U[i] /\ Holds(U[i], fd)
    BY <1>7, <1>9, <2>1 DEF CqesOf
  <2>3. ASSUME NEW k \in DOMAIN V, Holds(V[k], fd) PROVE k = j
    <3>1. k \notin 1 .. m
      BY <1>6, <2>3
    <3>2. Holds(U[k - m + 1], fd) /\ k - m + 1 \in DOMAIN U
      BY <1>7, <2>3, <3>1
    <3>3. k - m + 1 = i
      BY <1>9, <3>2 DEF CqesOf
    <3> QED
      BY <1>4, <2>1, <3>3
  <2> QED
    BY <2>2, <2>3 DEF CqesOf
<1> QED
  BY <1>2, <1>8, <1>9 DEF Advanced

(* The end of a sequence. *)
LEMMA EndOf ==
    ASSUME NEW C, NEW q \in Seq(C), NEW n \in 0 .. Len(q), NEW w, w = SubSeq(q, n + 1, Len(q))
    PROVE  /\ w \in Seq(C) /\ Len(w) = Len(q) - n /\ (\A i \in 1 .. Len(q) - n : w[i] = q[n + i])
           /\ SubSeq(q, 1, n) \o w = q
<1>1. PICK l \in Nat : l = Len(q) /\ n \in 0 .. l /\ n + 1 \in Int /\ \A i \in 1 .. l : q[i] \in C
  BY LenProperties, ElementOfSeq
<1>2. \A i \in n + 1 .. l : q[i] \in C
  BY <1>1
<1>3. w \in Seq(C) /\ Len(w) = (IF n + 1 <= l THEN l - (n + 1) + 1 ELSE 0) /\ \A i \in 1 .. l - (n + 1) + 1 : w[i] = q[(n + 1) + i - 1]
  BY <1>1, <1>2, SubSeqProperties
<1>4. Len(w) = l - n /\ \A i \in 1 .. l - n : w[i] = q[n + i]
  <2>1. l - (n + 1) + 1 = l - n /\ \A i \in 1 .. l - n : (n + 1) + i - 1 = n + i
    BY <1>1
  <2> QED
    BY <1>1, <1>3, <2>1
<1>5. SubSeq(q, 1, n) \o SubSeq(q, n + 1, l) = SubSeq(q, 1, l)
  <2>1. 1 \in 1 .. l + 1 /\ n \in 1 - 1 .. l /\ l \in n .. l
    BY <1>1
  <2> QED
    BY <1>1, <2>1, ConcatAdjacentSubSeq
<1>6. SubSeq(q, 1, l) = q
  BY <1>1, SubSeqFull
<1> QED
  BY <1>1, <1>3, <1>4, <1>5, <1>6

(* The end of a sequence that has grown. *)
LEMMA EndOfAppend ==
    ASSUME NEW C, NEW q \in Seq(C), NEW n \in 0 .. Len(q), NEW x \in C, NEW r, r = Append(q, x)
    PROVE  SubSeq(r, n + 1, Len(r)) = Append(SubSeq(q, n + 1, Len(q)), x)
<1>0. PICK w, v : w = SubSeq(q, n + 1, Len(q)) /\ v = SubSeq(r, n + 1, Len(r))
  OBVIOUS
<1>1. PICK l \in Nat : l = Len(q)
  BY LenProperties
<1>2. r \in Seq(C) /\ Len(r) = l + 1 /\ (\A i \in 1 .. l : r[i] = q[i]) /\ r[l + 1] = x
  BY <1>1, AppendProperties
<1>3. w \in Seq(C) /\ Len(w) = l - n /\ (\A i \in 1 .. l - n : w[i] = q[n + i])
  BY <1>0, <1>1, EndOf
<1>4. n \in 0 .. Len(r) /\ n \in 0 .. l
  BY <1>1, <1>2
<1>5. v \in Seq(C) /\ Len(v) = l + 1 - n /\ (\A i \in 1 .. l + 1 - n : v[i] = r[n + i])
  <2>1. v \in Seq(C) /\ Len(v) = Len(r) - n /\ (\A i \in 1 .. Len(r) - n : v[i] = r[n + i])
    <3>1. r \in Seq(C) /\ n \in 0 .. Len(r) /\ v = SubSeq(r, n + 1, Len(r))
      BY <1>0, <1>2, <1>4
    <3> QED
      BY ONLY <3>1, EndOf
  <2> QED
    BY <1>2, <2>1
<1>6. PICK u : u = Append(w, x)
  OBVIOUS
<1>7. u \in Seq(C) /\ Len(u) = l - n + 1 /\ (\A i \in 1 .. l - n : u[i] = w[i]) /\ u[l - n + 1] = x
  BY <1>3, <1>6, AppendProperties
<1>8. Len(u) = Len(v) /\ Len(u) \in Nat
  BY <1>4, <1>5, <1>7
<1>9. ASSUME NEW i \in 1 .. Len(u) PROVE u[i] = v[i]
  <2>1. CASE i = l - n + 1
    <3>1. n + i = l + 1 /\ i \in 1 .. l + 1 - n
      BY <1>4, <2>1
    <3> QED
      BY <1>2, <1>5, <1>7, <2>1, <3>1
  <2>2. CASE i # l - n + 1
    <3>1. i \in 1 .. l - n /\ n + i \in 1 .. l /\ i \in 1 .. l + 1 - n
      BY <1>4, <1>7, <2>2
    <3> QED
      BY <1>2, <1>3, <1>5, <1>7, <3>1
  <2> QED
    BY <2>1, <2>2
<1>10. u = v
  BY <1>5, <1>7, <1>8, <1>9, SeqEqual
<1> QED
  BY <1>0, <1>6, <1>10

(* The rest of the batch, and the queue behind it. *)
Rest(b, k, w) == SubSeq(b, k, Len(b)) \o w
(* A completion that joins the queue joins the rest. *)
LEMMA RestGrows ==
    ASSUME NEW C, NEW b \in Seq(C), NEW k \in 1 .. Len(b), NEW w \in Seq(C), NEW x \in C
    PROVE  Rest(b, k, Append(w, x)) = Append(Rest(b, k, w), x)
<1>1. PICK a : a = SubSeq(b, k, Len(b))
  OBVIOUS
<1>2. a \in Seq(C)
  <2>1. k \in Int /\ Len(b) \in Int /\ \A i \in k .. Len(b) : b[i] \in C
    BY LenProperties, ElementOfSeq
  <2> QED
    BY <1>1, <2>1, SubSeqProperties
<1>3. <<x>> \in Seq(C) /\ Append(w, x) = w \o <<x>> /\ a \o w \in Seq(C)
  BY <1>2, AppendIsConcat, ConcatProperties
<1>4. Append(a \o w, x) = (a \o w) \o <<x>>
  BY <1>3, AppendIsConcat
<1>5. (a \o w) \o <<x>> = a \o (w \o <<x>>)
  BY <1>2, <1>3, ConcatAssociative, SMTT(30)
<1> QED
  BY <1>1, <1>3, <1>4, <1>5 DEF Rest

(* The first element and the rest of a sequence. *)
LEMMA FirstAndRest ==
    ASSUME NEW C, NEW x \in C, NEW v \in Seq(C), NEW U, U = <<x>> \o v
    PROVE  U \in Seq(C) /\ U # <<>> /\ U[1] = x /\ 1 \in DOMAIN U /\ Tail(U) = v
<1>1. PICK n \in Nat : n = Len(v)
  BY LenProperties
<1>2. <<x>> \in Seq(C) /\ Len(<<x>>) = 1 /\ <<x>>[1] = x
  OBVIOUS
<1>3. U \in Seq(C) /\ Len(U) = 1 + n /\ \A i \in 1 .. 1 + n : U[i] = IF i <= 1 THEN <<x>>[i] ELSE v[i - 1]
  BY <1>1, <1>2, ConcatProperties
<1>4. U[1] = x /\ Len(U) # 0 /\ DOMAIN U = 1 .. 1 + n /\ 1 \in 1 .. 1 + n
  <2>1. 1 \in 1 .. 1 + n /\ 1 <= 1 /\ 1 + n # 0
    BY <1>1
  <2> QED
    BY <1>2, <1>3, <2>1, LenProperties
<1>5. U # <<>>
  BY <1>4, EmptySeq
<1>6. PICK u : u = Tail(U)
  OBVIOUS
<1>7. u \in Seq(C) /\ Len(u) = Len(U) - 1 /\ \A i \in 1 .. Len(u) : u[i] = U[i + 1]
  BY <1>3, <1>5, <1>6, HeadTailProperties
<1>8. Len(u) = n
  BY <1>1, <1>3, <1>7
<1>9. ASSUME NEW i \in 1 .. n PROVE u[i] = v[i]
  <2>1. i + 1 \in 1 .. 1 + n /\ ~(i + 1 <= 1) /\ (i + 1) - 1 = i
    BY <1>1
  <2> QED
    BY <1>3, <1>7, <1>8, <2>1
<1>10. u = v
  BY <1>1, <1>7, <1>8, <1>9, SeqEqual
<1> QED
  BY <1>3, <1>4, <1>5, <1>6, <1>10

(* The rest of the batch begins with the completion the loop is at. *)
LEMMA RestHead ==
    ASSUME NEW C, NEW b \in Seq(C), NEW k \in 1 .. Len(b), NEW w \in Seq(C), NEW U, U = Rest(b, k, w)
    PROVE  U \in Seq(C) /\ U # <<>> /\ U[1] = b[k] /\ 1 \in DOMAIN U /\ Tail(U) = Rest(b, k + 1, w)
<1>1. PICK l \in Nat : l = Len(b) /\ k \in 1 .. l
  BY LenProperties
<1>2. PICK x \in C : x = b[k]
  BY <1>1, ElementOfSeq
<1>3. PICK t : t = SubSeq(b, k + 1, l)
  OBVIOUS
<1>4. t \in Seq(C)
  <2>1. k + 1 \in Int /\ l \in Int /\ \A i \in k + 1 .. l : b[i] \in C
    BY <1>1, ElementOfSeq
  <2> QED
    BY <1>3, <2>1, SubSeqProperties
<1>5. SubSeq(b, k, l) = <<x>> \o t
  <2>1. l \in k .. l /\ k \in 1 .. Len(b) /\ l \in k .. Len(b)
    BY <1>1
  <2> QED
    BY <1>2, <1>3, <2>1, SubSeqRecursiveFirst
<1>6. <<x>> \in Seq(C) /\ t \o w \in Seq(C)
  BY <1>4, ConcatProperties
<1>7. U = <<x>> \o (t \o w)
  BY <1>1, <1>4, <1>5, <1>6, ConcatAssociative, SMTT(30) DEF Rest
<1>8. t \o w = Rest(b, k + 1, w)
  BY <1>1, <1>3 DEF Rest
<1> QED
  BY <1>2, <1>6, <1>7, <1>8, FirstAndRest

(* Nothing is left of a batch that has been handled. *)
LEMMA RestDone ==
    ASSUME NEW C, NEW b \in Seq(C), NEW w \in Seq(C)
    PROVE  Rest(b, Len(b) + 1, w) = w
<1>1. Len(b) \in Nat
  BY LenProperties
<1>2. SubSeq(b, Len(b) + 1, Len(b)) = <<>>
  BY <1>1, SubSeqEmpty
<1> QED
  BY <1>2, ConcatEmptySeq DEF Rest

(* What is not handled yet, as a function of the queue and the batch. *)
Behind(b, k, q) == IF AllFailed(b, k) THEN SubSeq(q, Len(b) + 1, Len(q)) ELSE q
UnhandledOf(p, b, k, q) == IF p # "batch" THEN q ELSE Rest(b, k, Behind(b, k, q))
(* Unhandled is this function, in this state and in the next. *)
LEMMA UnhandledIs ==
    /\ Unhandled = UnhandledOf(pc, batch, next, cq)
    /\ Unhandled' = UnhandledOf(pc', batch', next', cq')
<1>1. Unhandled = UnhandledOf(pc, batch, next, cq)
  BY DEF Unhandled, UnhandledOf, Rest, Behind, AllFailed, Failed
<1>2. Unhandled' = UnhandledOf(pc', batch', next', cq')
  BY DEF Unhandled, UnhandledOf, Rest, Behind, AllFailed, Failed
<1> QED
  BY <1>1, <1>2

(* The queue behind the batch. *)
LEMMA BehindTyped ==
    ASSUME NEW b \in Seq(Cqes), NEW k \in 1 .. Len(b), NEW q \in Seq(Cqes), BatchOK("batch", b, k, q)
    PROVE  /\ Behind(b, k, q) \in Seq(Cqes)
           /\ AllFailed(b, k) => Len(b) \in 0 .. Len(q) /\ b = SubSeq(q, 1, Len(b)) /\ b \o Behind(b, k, q) = q
<1>1. PICK C : C = Cqes
  OBVIOUS
<1>2. CASE AllFailed(b, k)
  <2>1. Len(b) \in 0 .. Len(q) /\ b = SubSeq(q, 1, Len(b))
    BY <1>2, LenProperties DEF BatchOK
  <2>2. PICK w : w = SubSeq(q, Len(b) + 1, Len(q))
    OBVIOUS
  <2>3. w \in Seq(C) /\ SubSeq(q, 1, Len(b)) \o w = q
    BY <1>1, <2>1, <2>2, EndOf
  <2>4. Behind(b, k, q) = w
    BY <1>2, <2>2 DEF Behind
  <2> QED
    BY <1>1, <2>1, <2>3, <2>4
<1>3. CASE ~AllFailed(b, k)
  BY <1>3 DEF Behind
<1> QED
  BY <1>2, <1>3

(* What is not handled yet are completions. *)
LEMMA UnhandledTyped ==
    ASSUME NEW p, NEW b, NEW k, NEW q \in Seq(Cqes), BatchOK(p, b, k, q)
    PROVE  UnhandledOf(p, b, k, q) \in Seq(Cqes)
<1>1. PICK C : C = Cqes
  OBVIOUS
<1>2. CASE p = "batch"
  <2>1. b \in Seq(C) /\ k \in 1 .. Len(b)
    BY <1>1, <1>2 DEF BatchOK
  <2>2. PICK w \in Seq(C) : w = Behind(b, k, q)
    BY <1>1, <1>2, <2>1, BehindTyped
  <2>3. Rest(b, k, w) \in Seq(C)
    BY <2>1, <2>2, RestHead
  <2> QED
    BY <1>1, <1>2, <2>2, <2>3 DEF UnhandledOf
<1> QED
  BY <1>2 DEF UnhandledOf

(* A completion joins what is not handled yet. *)
GrownBy(p, b, k, q, x, r) ==
    /\ r \in Seq(Cqes) /\ BatchOK(p, b, k, r)
    /\ UnhandledOf(p, b, k, r) = Append(UnhandledOf(p, b, k, q), x)
(* Appending to the queue is appending to what is not handled yet. *)
LEMMA UnhandledGrows ==
    ASSUME NEW p, NEW b, NEW k, NEW q \in Seq(Cqes), BatchOK(p, b, k, q), NEW x \in Cqes, NEW r, r = Append(q, x)
    PROVE  GrownBy(p, b, k, q, x, r)
<1>0. SUFFICES /\ r \in Seq(Cqes) /\ BatchOK(p, b, k, r)
               /\ UnhandledOf(p, b, k, r) = Append(UnhandledOf(p, b, k, q), x)
  BY Zenon DEF GrownBy
<1>1. PICK C : C = Cqes
  OBVIOUS
<1>2. r \in Seq(C) /\ Len(r) = Len(q) + 1 /\ Len(q) \in Nat /\ \A i \in 1 .. Len(q) : r[i] = q[i]
  BY <1>1, AppendProperties, LenProperties
<1>3. CASE p # "batch"
  BY <1>1, <1>2, <1>3 DEF BatchOK, UnhandledOf
<1>4. CASE p = "batch"
  <2>1. b \in Seq(C) /\ k \in 1 .. Len(b) /\ BatchOK("batch", b, k, q)
    BY <1>1, <1>4 DEF BatchOK
  <2>2. PICK w \in Seq(C) : w = Behind(b, k, q)
    BY <1>1, <2>1, BehindTyped
  <2>3. AllFailed(b, k) => Len(b) \in 0 .. Len(q) /\ b = SubSeq(q, 1, Len(b))
    BY <1>1, <2>1, BehindTyped
  <2>4. Behind(b, k, r) = Append(w, x)
    <3>1. CASE AllFailed(b, k)
      <4>1. PICK n : n = Len(b) /\ n \in 0 .. Len(q)
        BY <2>3, <3>1
      <4>2. SubSeq(r, n + 1, Len(r)) = Append(SubSeq(q, n + 1, Len(q)), x)
        BY <1>1, <4>1, EndOfAppend
      <4> QED
        BY <2>2, <3>1, <4>1, <4>2 DEF Behind
    <3>2. CASE ~AllFailed(b, k)
      BY <2>2, <3>2 DEF Behind
    <3> QED
      BY <3>1, <3>2
  <2>5. AllFailed(b, k) => Len(b) <= Len(r) /\ b = SubSeq(r, 1, Len(b))
    <3>1. SUFFICES ASSUME AllFailed(b, k) PROVE Len(b) <= Len(r) /\ b = SubSeq(r, 1, Len(b))
      OBVIOUS
    <3>2. PICK n : n = Len(b) /\ n \in 1 .. Len(q) /\ 1 \in 1 .. Len(q) /\ b = SubSeq(q, 1, n)
      BY <1>2, <2>1, <2>3, <3>1
    <3>3. r = q \o <<x>> /\ <<x>> \in Seq(C)
      BY <1>1, AppendIsConcat
    <3>4. SubSeq(q \o <<x>>, 1, n) = SubSeq(q, 1, n)
      BY <1>1, <3>2, <3>3, SubSeqOfConcat1
    <3> QED
      BY <1>2, <3>2, <3>3, <3>4
  <2>6. Rest(b, k, Append(w, x)) = Append(Rest(b, k, w), x)
    BY <1>1, <2>1, <2>2, RestGrows
  <2>7. UnhandledOf(p, b, k, r) = Append(UnhandledOf(p, b, k, q), x)
    BY <1>4, <2>2, <2>4, <2>6 DEF UnhandledOf
  <2> QED
    BY <1>1, <1>2, <2>1, <2>5, <2>7 DEF BatchOK
<1> QED
  BY <1>3, <1>4

(* One pass of the loop, n the length of the batch: the completion it      *)
(* handles was the first, and failed accepts come back at the end.         *)
Requeued(B) == \A i \in DOMAIN B : Failed(B[i])
Passed(b, k, q, p, r) ==
    LET U == UnhandledOf("batch", b, k, q)
    IN /\ U # <<>> /\ U[1] = b[k] /\ 1 \in DOMAIN U /\ r \in Seq(Cqes) /\ BatchOK(p, b, k + 1, r)
       /\ \E B \in Seq(Cqes) : Requeued(B) /\ (B = <<>> \/ (B = b /\ k = Len(b))) /\ UnhandledOf(p, b, k + 1, r) = B \o Tail(U)
(* A pass of the loop that skips nothing is of this kind. *)
LEMMA UnhandledShrinks ==
    ASSUME NEW b \in Seq(Cqes), NEW k \in 1 .. Len(b), NEW q \in Seq(Cqes), BatchOK("batch", b, k, q),
           NEW p, p = (IF k = Len(b) THEN "submit" ELSE "batch"),
           NEW r, r = (IF Failed(b[k]) THEN q ELSE SubSeq(q, Len(b) + 1, Len(q))), Failed(b[k]) \/ AllFailed(b, k)
    PROVE  Passed(b, k, q, p, r)
<1>0. SUFFICES LET U == UnhandledOf("batch", b, k, q)
               IN /\ U # <<>> /\ U[1] = b[k] /\ 1 \in DOMAIN U /\ r \in Seq(Cqes) /\ BatchOK(p, b, k + 1, r)
                  /\ \E B \in Seq(Cqes) : Requeued(B) /\ (B = <<>> \/ (B = b /\ k = Len(b))) /\ UnhandledOf(p, b, k + 1, r) = B \o Tail(U)
  BY Zenon DEF Passed
<1>1. PICK C, U : C = Cqes /\ U = UnhandledOf("batch", b, k, q)
  OBVIOUS
<1>2. PICK w \in Seq(C) : w = Behind(b, k, q)
  BY <1>1, BehindTyped
<1>3. AllFailed(b, k) => Len(b) \in 0 .. Len(q) /\ b = SubSeq(q, 1, Len(b)) /\ b \o w = q
  BY <1>2, BehindTyped
<1>4. U = Rest(b, k, w)
  BY <1>1, <1>2 DEF UnhandledOf
<1>5. U \in Seq(C) /\ U # <<>> /\ U[1] = b[k] /\ 1 \in DOMAIN U /\ Tail(U) = Rest(b, k + 1, w)
  BY <1>1, <1>2, <1>4, RestHead
<1>6. PICK n \in Nat : n = Len(b) /\ k \in 1 .. n
  BY LenProperties
<1>7. r \in Seq(C) /\ (~Failed(b[k]) => r = w)
  BY <1>1, <1>2 DEF Behind
<1>8. AllFailed(b, k + 1) <=> AllFailed(b, k) /\ Failed(b[k])
  <2>1. 1 .. k + 1 - 1 = (1 .. k - 1) \cup {k}
    BY <1>6
  <2> QED
    BY <2>1 DEF AllFailed
<1>9. Rest(b, n + 1, w) = w
  BY <1>1, <1>6, RestDone
<1>10. <<>> \in Seq(C) /\ Requeued(<<>>) /\ <<>> \o Tail(U) = Tail(U)
  <2>1. <<>> \in Seq(C) /\ Tail(U) \in Seq(C)
    BY <1>5, EmptySeq, HeadTailProperties
  <2> QED
    BY <2>1, ConcatEmptySeq DEF Requeued
<1>11. CASE k = n
  <2>1. p = "submit" /\ UnhandledOf(p, b, k + 1, r) = r /\ Tail(U) = w /\ BatchOK(p, b, k + 1, r)
    BY <1>5, <1>6, <1>9, <1>11 DEF UnhandledOf, BatchOK
  <2>2. CASE r = w
    BY <1>1, <1>5, <1>7, <1>10, <2>1, <2>2
  <2>3. CASE r # w
    <3>1. Failed(b[k]) /\ r = q
      BY <1>7, <2>3
    <3>2. AllFailed(b, k)
      BY <1>2, <2>3, <3>1 DEF Behind
    <3>3. Requeued(b)
      BY <1>6, <1>8, <1>11, <3>1, <3>2, LenProperties DEF Requeued, AllFailed
    <3>4. UnhandledOf(p, b, k + 1, r) = b \o Tail(U)
      BY <1>3, <2>1, <3>1, <3>2
    <3> QED
      BY <1>1, <1>5, <1>6, <1>7, <1>11, <2>1, <3>3, <3>4
  <2> QED
    BY <2>2, <2>3
<1>12. CASE k # n
  <2>1. p = "batch" /\ k + 1 \in 1 .. Len(b)
    BY <1>6, <1>12
  <2>2. Behind(b, k + 1, r) = w
    BY <1>2, <1>7, <1>8 DEF Behind
  <2>3. UnhandledOf(p, b, k + 1, r) = Tail(U)
    BY <1>5, <2>1, <2>2 DEF UnhandledOf
  <2>4. BatchOK(p, b, k + 1, r)
    BY <1>8, <2>1 DEF BatchOK
  <2> QED
    BY <1>1, <1>5, <1>7, <1>10, <2>3, <2>4
<1> QED
  BY <1>11, <1>12

(* How many completions are peeked. *)
LEMMA PeekCount ==
    ASSUME NEW l \in Nat \ {0}
    PROVE  Min({l, PeekMax}) \in 1 .. l
<1>1. \E x \in {l, PeekMax} : \A y \in {l, PeekMax} : x <= y
  BY UringAssumption
<1>2. Min({l, PeekMax}) \in {l, PeekMax} /\ \A y \in {l, PeekMax} : Min({l, PeekMax}) <= y
  BY <1>1, Zenon DEF Min
<1> QED
  BY <1>2, UringAssumption

(* Peeking at the queue changes nothing. *)
LEMMA UnhandledPeeked ==
    ASSUME NEW q \in Seq(Cqes), NEW l \in Nat, l = Len(q), NEW n \in 1 .. l, NEW b, b = SubSeq(q, 1, n)
    PROVE  BatchOK("batch", b, 1, q) /\ UnhandledOf("batch", b, 1, q) = q
<1>1. PICK C : C = Cqes
  OBVIOUS
<1>4. b \in Seq(C) /\ Len(b) = n
  <2>0. \A i \in 1 .. l : q[i] \in C
    BY <1>1, ElementOfSeq
  <2>1. 1 \in Int /\ n \in Int /\ (\A i \in 1 .. n : q[i] \in C) /\ 1 <= n /\ n - 1 + 1 = n
    BY <2>0
  <2> QED
    BY <2>1, SubSeqProperties
<1>5. AllFailed(b, 1)
  BY DEF AllFailed
<1>6. BatchOK("batch", b, 1, q)
  <2>1. 1 \in 1 .. n /\ n <= Len(q) /\ b = SubSeq(q, 1, n)
    OBVIOUS
  <2> QED
    BY <1>1, <1>4, <2>1 DEF BatchOK
<1>7. b \o Behind(b, 1, q) = q
  <2>1. b \in Seq(Cqes) /\ 1 \in 1 .. Len(b)
    BY <1>1, <1>4
  <2> QED
    BY <1>5, <1>6, <2>1, BehindTyped
<1>8. SubSeq(b, 1, Len(b)) = b
  BY <1>4, SubSeqFull
<1> QED
  BY <1>6, <1>7, <1>8 DEF UnhandledOf, Rest

(* An operation of fd stays where it is, or is submitted. *)
Keeps(S, F, U, T, G, V, fd) ==
    /\ \A o \in S : InSq(S, F, U, fd, o) => (o \in T /\ InSq(T, G, V, fd, o)) \/ (o \in G /\ InFlight(T, G, V, fd, o))
    /\ \A o \in F : InFlight(S, F, U, fd, o) => o \in G /\ InFlight(T, G, V, fd, o)
    /\ \A i \in DOMAIN U : InCq(S, F, U, fd, i) => \E j \in DOMAIN V : InCq(T, G, V, fd, j) /\ V[j] = U[i]
    /\ Nowhere(S, F, U, fd) => Nowhere(T, G, V, fd)

(* What it stays with: the same connection, or one that it fits as well. *)
StillFits(S, F, U, fd, s, b, m, s2, b2, m2) ==
    /\ \A o \in S \cup F : o.fd = fd /\ OpFits(o, s, b, m) => OpFits(o, s2, b2, m2)
    /\ \A i \in DOMAIN U : Holds(U[i], fd) /\ CqeFits(U[i], s, b, m) => CqeFits(U[i], s2, b2, m2)
    /\ NoneFits(s, m) => NoneFits(s2, m2)
(* An operation that stays and still fits: the turn is kept. *)
LEMMA TurnKept ==
    ASSUME NEW S, NEW F, NEW U, NEW T, NEW G, NEW V, NEW fd, Keeps(S, F, U, T, G, V, fd),
           NEW s, NEW b, NEW m, NEW s2, NEW b2, NEW m2, StillFits(S, F, U, fd, s, b, m, s2, b2, m2),
           Turn(S, F, U, fd, s, b, m)
    PROVE  Turn(T, G, V, fd, s2, b2, m2)
<1>1. CASE \E o \in S : InSq(S, F, U, fd, o) /\ OpFits(o, s, b, m)
  <2>1. PICK o \in S : InSq(S, F, U, fd, o) /\ OpFits(o, s, b, m)
    BY <1>1
  <2>2. OpFits(o, s2, b2, m2)
    <3>1. o.fd = fd
      BY <2>1 DEF InSq, OpsOf
    <3> QED
      BY <2>1, <3>1, Zenon DEF StillFits
  <2>3. (o \in T /\ InSq(T, G, V, fd, o)) \/ (o \in G /\ InFlight(T, G, V, fd, o))
    BY <2>1, Zenon DEF Keeps
  <2> QED
    BY <2>2, <2>3, Zenon DEF Turn
<1>2. CASE \E o \in F : InFlight(S, F, U, fd, o) /\ OpFits(o, s, b, m)
  <2>1. PICK o \in F : InFlight(S, F, U, fd, o) /\ OpFits(o, s, b, m)
    BY <1>2
  <2>2. OpFits(o, s2, b2, m2)
    <3>1. o.fd = fd
      BY <2>1 DEF InFlight, OpsOf
    <3> QED
      BY <2>1, <3>1, Zenon DEF StillFits
  <2>3. o \in G /\ InFlight(T, G, V, fd, o)
    BY <2>1, Zenon DEF Keeps
  <2> QED
    BY <2>2, <2>3, Zenon DEF Turn
<1>3. CASE \E i \in DOMAIN U : InCq(S, F, U, fd, i) /\ CqeFits(U[i], s, b, m)
  <2>1. PICK i \in DOMAIN U : InCq(S, F, U, fd, i) /\ CqeFits(U[i], s, b, m)
    BY <1>3
  <2>2. CqeFits(U[i], s2, b2, m2)
    <3>1. Holds(U[i], fd)
      BY <2>1 DEF InCq, CqesOf
    <3> QED
      BY <2>1, <3>1, Zenon DEF StillFits
  <2>3. PICK j \in DOMAIN V : InCq(T, G, V, fd, j) /\ V[j] = U[i]
    BY <2>1, Zenon DEF Keeps
  <2> QED
    BY <2>2, <2>3, Zenon DEF Turn
<1>4. CASE Nowhere(S, F, U, fd) /\ NoneFits(s, m)
  <2>1. Nowhere(T, G, V, fd) /\ NoneFits(s2, m2)
    BY <1>4, Zenon DEF Keeps, StillFits
  <2> QED
    BY <2>1, Zenon DEF Turn
<1> QED
  BY <1>1, <1>2, <1>3, <1>4, Zenon DEF Turn

(* A listener whose operation stays is still held. *)
LEMMA HeldKept ==
    ASSUME NEW S, NEW F, NEW U, NEW T, NEW G, NEW V, NEW fd, Keeps(S, F, U, T, G, V, fd), Held(S, F, U, fd)
    PROVE  Held(T, G, V, fd)
BY Zenon DEF Keeps, Held

(* Submitting. *)
LEMMA SubmitMoves ==
    ASSUME NEW S, NEW F, NEW C, NEW U \in Seq(C), NEW A \in Seq(C), NEW fd, fd # Stdin, NoneHolds(A, fd),
           NEW G, G = F \cup {o \in S : o.fd # Stdin}, NEW V, V = U \o A
    PROVE  Keeps(S, F, U, {}, G, V, fd)
<1>1. DOMAIN U \subseteq DOMAIN V /\ (\A i \in DOMAIN U : V[i] = U[i]) /\ CqesOf(V, fd) = CqesOf(U, fd)
  <2>1. Padded(C, U, fd, V)
    BY CqesConcat
  <2> QED
    BY <2>1, Zenon DEF Padded
<1>2. OpsOf({}, fd) = {} /\ OpsOf(G, fd) = OpsOf(F, fd) \cup OpsOf(S, fd)
  BY DEF OpsOf
<1>3. \A o \in S : OpsOf(S, fd) = {o} => o \in G
  BY DEF OpsOf
<1>4. \A o \in S : InSq(S, F, U, fd, o) => o \in G /\ InFlight({}, G, V, fd, o)
  BY <1>1, <1>2, <1>3 DEF InSq, InFlight
<1>5. \A o \in F : InFlight(S, F, U, fd, o) => o \in G /\ InFlight({}, G, V, fd, o)
  BY <1>1, <1>2 DEF InFlight
<1>6. \A i \in DOMAIN U : InCq(S, F, U, fd, i) => i \in DOMAIN V /\ InCq({}, G, V, fd, i) /\ V[i] = U[i]
  BY <1>1, <1>2 DEF InCq
<1>7. Nowhere(S, F, U, fd) => Nowhere({}, G, V, fd)
  BY <1>1, <1>2 DEF Nowhere
<1> QED
  BY <1>4, <1>5, <1>6, <1>7 DEF Keeps

(* An operation of another descriptor completes. *)
LEMMA OtherCompletes ==
    ASSUME NEW S, NEW F, NEW C, NEW U \in Seq(C), NEW o, NEW x \in C, NEW fd, o.fd # fd, ~Holds(x, fd),
           NEW G, G = F \ {o}, NEW V, V = Append(U, x)
    PROVE  Keeps(S, F, U, S, G, V, fd)
<1>1. DOMAIN U \subseteq DOMAIN V /\ (\A i \in DOMAIN U : V[i] = U[i]) /\ CqesOf(V, fd) = CqesOf(U, fd)
  <2>1. Joined(C, U, x, fd, V)
    BY CqesAppend
  <2>2. CqesOf(U, fd) \cup (IF Holds(x, fd) THEN {Len(U) + 1} ELSE {}) = CqesOf(U, fd)
    OBVIOUS
  <2> QED
    BY <2>1, <2>2, Zenon DEF Joined
<1>2. OpsOf(G, fd) = OpsOf(F, fd)
  BY DEF OpsOf
<1>3. \A a \in S : InSq(S, F, U, fd, a) => InSq(S, G, V, fd, a)
  BY <1>1, <1>2 DEF InSq
<1>4. \A a \in F : InFlight(S, F, U, fd, a) => a \in G /\ InFlight(S, G, V, fd, a)
  BY <1>1, <1>2 DEF InFlight, OpsOf
<1>5. \A i \in DOMAIN U : InCq(S, F, U, fd, i) => i \in DOMAIN V /\ InCq(S, G, V, fd, i) /\ V[i] = U[i]
  BY <1>1, <1>2 DEF InCq
<1>6. Nowhere(S, F, U, fd) => Nowhere(S, G, V, fd)
  BY <1>1, <1>2 DEF Nowhere
<1> QED
  BY <1>3, <1>4, <1>5, <1>6 DEF Keeps

(* The operation of fd completes, or the accept that made fd. *)
Arrives(S, G, V, fd, x) == \E j \in DOMAIN V : V[j] = x /\ InCq(S, G, V, fd, j)
(* A completed operation is where it arrives, and nowhere else. *)
LEMMA OwnCompletes ==
    ASSUME NEW S, NEW F, NEW C, NEW U \in Seq(C), NEW o, NEW x \in C, NEW fd, Holds(x, fd),
           InFlight(S, F, U, fd, o) \/ Nowhere(S, F, U, fd), NEW G, G = F \ {o}, NEW V, V = Append(U, x)
    PROVE  Arrives(S, G, V, fd, x)
<1>1. Len(U) + 1 \in DOMAIN V /\ V[Len(U) + 1] = x /\ CqesOf(V, fd) = CqesOf(U, fd) \cup {Len(U) + 1}
  <2>1. Joined(C, U, x, fd, V)
    BY CqesAppend
  <2>2. (IF Holds(x, fd) THEN {Len(U) + 1} ELSE {}) = {Len(U) + 1}
    OBVIOUS
  <2> QED
    BY <2>1, <2>2, Zenon DEF Joined
<1>2. OpsOf(S, fd) = {} /\ OpsOf(G, fd) = {} /\ CqesOf(U, fd) = {}
  BY DEF InFlight, Nowhere, OpsOf
<1> QED
  BY <1>1, <1>2 DEF InCq, Arrives

(* A completion that does not hold fd is handled, and P is prepared. *)
LEMMA OtherHandled ==
    ASSUME NEW S, NEW F, NEW C, NEW U \in Seq(C), U # <<>>, 1 \in DOMAIN U, NEW B \in Seq(C), NEW fd, ~Holds(U[1], fd),
           NoneHolds(B, fd), NEW P, OpsOf(P, fd) = {}, NEW T, T = S \cup P, NEW V, V = B \o Tail(U)
    PROVE  Keeps(S, F, U, T, F, V, fd)
<1>1. 1 \notin CqesOf(U, fd)
  BY DEF CqesOf
<1>2. /\ CqesOf(U, fd) = {} => CqesOf(V, fd) = {}
      /\ \A i \in DOMAIN U : CqesOf(U, fd) = {i} => \E j \in DOMAIN V : CqesOf(V, fd) = {j} /\ V[j] = U[i]
  <2>1. Advanced(C, U, fd, V)
    BY CqesTail
  <2> QED
    BY <1>1, <2>1, Zenon DEF Advanced
<1>3. OpsOf(T, fd) = OpsOf(S, fd) /\ S \subseteq T
  BY DEF OpsOf
<1>4. \A a \in S : InSq(S, F, U, fd, a) => a \in T /\ InSq(T, F, V, fd, a)
  BY <1>2, <1>3 DEF InSq
<1>5. \A a \in F : InFlight(S, F, U, fd, a) => InFlight(T, F, V, fd, a)
  BY <1>2, <1>3 DEF InFlight
<1>6. \A i \in DOMAIN U : InCq(S, F, U, fd, i) => \E j \in DOMAIN V : InCq(T, F, V, fd, j) /\ V[j] = U[i]
  BY <1>2, <1>3 DEF InCq
<1>7. Nowhere(S, F, U, fd) => Nowhere(T, F, V, fd)
  BY <1>2, <1>3 DEF Nowhere
<1> QED
  BY <1>4, <1>5, <1>6, <1>7 DEF Keeps

(* The completion that holds fd is handled. *)
Prepares(P, T, F, V, fd) ==
    /\ OpsOf(P, fd) = {} => Nowhere(T, F, V, fd)
    /\ \A y \in P : OpsOf(P, fd) = {y} => y \in T /\ InSq(T, F, V, fd, y)
(* What was prepared for fd is then its only operation. *)
LEMMA OwnHandled ==
    ASSUME NEW S, NEW F, NEW C, NEW U \in Seq(C), U # <<>>, 1 \in DOMAIN U, NEW B \in Seq(C), NEW fd, InCq(S, F, U, fd, 1),
           NoneHolds(B, fd), NEW P, NEW T, T = S \cup P, NEW V, V = B \o Tail(U)
    PROVE  Prepares(P, T, F, V, fd)
<1>1. OpsOf(S, fd) = {} /\ OpsOf(F, fd) = {} /\ CqesOf(U, fd) = {1}
  BY DEF InCq
<1>2. CqesOf(V, fd) = {}
  <2>1. Advanced(C, U, fd, V)
    BY CqesTail
  <2> QED
    BY <1>1, <2>1, Zenon DEF Advanced
<1>3. OpsOf(T, fd) = OpsOf(P, fd)
  BY <1>1 DEF OpsOf
<1> QED
  BY <1>1, <1>2, <1>3 DEF Nowhere, InSq, Prepares

(* Where the operation is when something of it is known. *)
LEMMA TurnIs ==
    ASSUME NEW S, NEW F, NEW U, NEW fd, NEW s, NEW b, NEW m, Turn(S, F, U, fd, s, b, m)
    PROVE  /\ s.id = 0 => Nowhere(S, F, U, fd)
           /\ \A o \in F : o.fd = fd => InFlight(S, F, U, fd, o) /\ OpFits(o, s, b, m)
           /\ \A i \in DOMAIN U : Holds(U[i], fd) => InCq(S, F, U, fd, i) /\ CqeFits(U[i], s, b, m)
<1>1. s.id = 0 => Nowhere(S, F, U, fd)
  BY Zenon DEF Turn, OpFits, CqeFits
<1>2. ASSUME NEW o \in F, o.fd = fd PROVE InFlight(S, F, U, fd, o) /\ OpFits(o, s, b, m)
  <2>1. o \in OpsOf(F, fd)
    BY <1>2 DEF OpsOf
  <2> QED
    BY <2>1 DEF Turn, InSq, InFlight, InCq, Nowhere
<1>3. ASSUME NEW i \in DOMAIN U, Holds(U[i], fd) PROVE InCq(S, F, U, fd, i) /\ CqeFits(U[i], s, b, m)
  <2>1. i \in CqesOf(U, fd)
    BY <1>3 DEF CqesOf
  <2> QED
    BY <2>1 DEF Turn, InSq, InFlight, InCq, Nowhere
<1> QED
  BY <1>1, <1>2, <1>3

(* The same of the listener's. *)
LEMMA HeldIs ==
    ASSUME NEW S, NEW F, NEW U, NEW fd, Held(S, F, U, fd)
    PROVE  /\ \A o \in F : o.fd = fd => InFlight(S, F, U, fd, o)
           /\ \A i \in DOMAIN U : Holds(U[i], fd) => InCq(S, F, U, fd, i)
<1>2. ASSUME NEW o \in F, o.fd = fd PROVE InFlight(S, F, U, fd, o)
  <2>1. o \in OpsOf(F, fd)
    BY <1>2 DEF OpsOf
  <2> QED
    BY <2>1 DEF Held, InSq, InFlight, InCq
<1>3. ASSUME NEW i \in DOMAIN U, Holds(U[i], fd) PROVE InCq(S, F, U, fd, i)
  <2>1. i \in CqesOf(U, fd)
    BY <1>3 DEF CqesOf
  <2> QED
    BY <2>1 DEF Held, InSq, InFlight, InCq
<1> QED
  BY <1>2, <1>3

(* What Operations counts. *)
CountOf(S, F, U, fd) == Cardinality(OpsOf(S, fd)) + Cardinality(OpsOf(F, fd)) + Cardinality(CqesOf(U, fd))
(* Operations counts these. *)
LEMMA OperationsAre ==
    ASSUME NEW fd
    PROVE  Operations(fd) = CountOf(sq, flight, Unhandled, fd)
<1>1. PICK U : U = Unhandled
  OBVIOUS
<1>2. CqesOf(U, fd) = {i \in DOMAIN U : fd \in {U[i].op.fd} \cup (IF U[i].op.event = "accept" THEN {U[i].res} ELSE {})}
  BY DEF CqesOf, Holds
<1> QED
  BY <1>1, <1>2, Zenon DEF Operations, OpsOf, CountOf

(* Where the operation is in one place the count is one; where it is       *)
(* nowhere it is zero.                                                     *)
LEMMA CountedOnce ==
    ASSUME NEW S, NEW F, NEW U, NEW fd
    PROVE  /\ \A o : InSq(S, F, U, fd, o) \/ InFlight(S, F, U, fd, o) \/ InCq(S, F, U, fd, o) => CountOf(S, F, U, fd) = 1
           /\ Nowhere(S, F, U, fd) => CountOf(S, F, U, fd) = 0
<1>1. Cardinality({}) = 0 /\ \A x : Cardinality({x}) = 1
  BY FS_EmptySet, FS_Singleton
<1>2. PICK a, b, c : a = Cardinality(OpsOf(S, fd)) /\ b = Cardinality(OpsOf(F, fd)) /\ c = Cardinality(CqesOf(U, fd))
  OBVIOUS
<1>3. CountOf(S, F, U, fd) = a + b + c
  BY <1>2, Zenon DEF CountOf
<1>4. \A o : InSq(S, F, U, fd, o) => a = 1 /\ b = 0 /\ c = 0
  BY <1>1, <1>2, Zenon DEF InSq
<1>5. \A o : InFlight(S, F, U, fd, o) => a = 0 /\ b = 1 /\ c = 0
  BY <1>1, <1>2, Zenon DEF InFlight
<1>6. \A o : InCq(S, F, U, fd, o) => a = 0 /\ b = 0 /\ c = 1
  BY <1>1, <1>2, Zenon DEF InCq
<1>7. Nowhere(S, F, U, fd) => a = 0 /\ b = 0 /\ c = 0
  BY <1>1, <1>2, Zenon DEF Nowhere
<1> QED
  BY <1>3, <1>4, <1>5, <1>6, <1>7

(* What the properties of the ring follow from. *)
LEMMA UringInvImplies ==
    ASSUME UringInv
    PROVE  OneOperation /\ OwnBytesBack
<1>1. SUFFICES ASSUME RingInv PROVE OneOperation /\ OwnBytesBack
  BY DEF UringInv, OneOperation, OwnBytesBack
<1>2. PICK U : U = Unhandled
  OBVIOUS
<1>3. ASSUME NEW fd \in Clients
      PROVE  /\ Operations(fd) = (IF sock[fd].id # 0 THEN 1 ELSE 0) \/ (Operations(fd) = 0 /\ sock[fd].peer = "dead")
             /\ ~mixed => Own(sock[fd], Faults)
  <2>1. PICK s : s = sock[fd] /\ Turn(sq, flight, U, fd, s, shared, Faults)
    BY <1>1, <1>2 DEF RingInv
  <2>2. PICK n : n = Operations(fd) /\ n = CountOf(sq, flight, U, fd)
    BY <1>2, OperationsAre
  <2>3. ASSUME NEW o, InSq(sq, flight, U, fd, o) \/ InFlight(sq, flight, U, fd, o) \/ InCq(sq, flight, U, fd, o)
        PROVE  n = 1
    BY <2>2, <2>3, CountedOnce, Zenon
  <2>4. Nowhere(sq, flight, U, fd) => n = 0
    BY <2>2, CountedOnce, Zenon
  <2>5. n = (IF s.id # 0 THEN 1 ELSE 0) \/ (n = 0 /\ s.peer = "dead")
    BY <2>1, <2>3, <2>4 DEF Turn, OpFits, CqeFits, NoneFits
  <2>6. ~mixed => Own(s, Faults)
    <3>0. Faults.mixed = mixed
      BY DEF Faults
    <3>1. PICK m : m = Faults /\ m.mixed = mixed
      BY <3>0
    <3>2. ~m.mixed => Own(s, m)
      BY <2>1, <3>1, Zenon DEF Turn, OpFits, CqeFits, NoneFits, Even, Due
    <3> QED
      BY <3>1, <3>2
  <2> QED
    BY <2>1, <2>2, <2>5, <2>6
<1>4. Operations(Listener) = 1 \/ deaf
  <2>1. PICK n : n = Operations(Listener) /\ n = CountOf(sq, flight, U, Listener)
    BY <1>2, OperationsAre
  <2>2. deaf \/ Held(sq, flight, U, Listener)
    BY <1>1, <1>2 DEF RingInv
  <2>3. Held(sq, flight, U, Listener) => n = 1
    BY <2>1, CountedOnce, Zenon DEF Held
  <2> QED
    BY <2>1, <2>2, <2>3
<1>5. ASSUME ~mixed, NEW fd \in OpenFds
      PROVE  /\ ToSet(sock[fd].out) \subseteq ToSet(sock[fd].got)
             /\ sock[fd].id \notin short => IsPrefix(sock[fd].out, sock[fd].got)
  <2>1. fd \in Clients
    BY DEF OpenFds
  <2> QED
    BY <1>3, <1>5, <2>1 DEF Own, Faults
<1> QED
  BY <1>3, <1>4, <1>5, Zenon DEF OneOperation, OwnBytesBack

(* Operations and completions are records of the right kind. *)
LEMMA OpTyped ==
    ASSUME NEW e \in {"accept", "read", "write"}, NEW f \in Nat, NEW n \in Int, e = "accept" => f \in {Listener, Stdin},
           e = "read" => f \in Clients \cup {Stdin}, e = "write" => f \in Clients, NEW o, o = Op(e, f, n)
    PROVE  o \in Ops /\ o.event = e /\ o.fd = f /\ o.len = n
<1>1. o = [event |-> e, fd |-> f, len |-> n]
  BY DEF Op
<1>2. o \in [event : {"accept", "read", "write"}, fd : Nat, len : Int] /\ o.event = e /\ o.fd = f /\ o.len = n
  BY <1>1
<1> QED
  BY <1>2 DEF Ops

(* The fields of an operation. *)
LEMMA OpFields ==
    ASSUME NEW o \in Ops
    PROVE  /\ o.event \in {"accept", "read", "write"} /\ o.fd \in Nat /\ o.len \in Int
           /\ o.event = "accept" => o.fd \in {Listener, Stdin}
           /\ o.event = "read" => o.fd \in Clients \cup {Stdin}
           /\ o.event = "write" => o.fd \in Clients
BY DEF Ops

(* A completion of an operation. *)
LEMMA CqeTyped ==
    ASSUME NEW o \in Ops, NEW r \in Int, NEW x, x = [op |-> o, res |-> r],
           o.event = "accept" => r = -1 \/ (o.fd = Listener /\ r \in Clients) \/ (o.fd = Stdin /\ r = Stdin),
           o.event = "read" /\ o.fd = Stdin => r < 0
    PROVE  x \in Cqes /\ x.op = o /\ x.res = r
<1>1. PICK P : P = Ops
  OBVIOUS
<1>2. x \in [op : P, res : Int] /\ x.op = o /\ x.res = r
  BY <1>1
<1>3. x \in [op : Ops, res : Int]
  BY <1>1, <1>2
<1> QED
  BY <1>2, <1>3, Zenon DEF Cqes

(* The fields of a completion. *)
LEMMA CqeFields ==
    ASSUME NEW x \in Cqes
    PROVE  /\ x.op \in Ops /\ x.res \in Int
           /\ x.op.event = "accept" => x.res = -1 \/ (x.op.fd = Listener /\ x.res \in Clients) \/ (x.op.fd = Stdin /\ x.res = Stdin)
           /\ x.op.event = "read" /\ x.op.fd = Stdin => x.res < 0
<1>1. PICK P : P = Ops
  OBVIOUS
<1>2. x \in [op : Ops, res : Int]
  BY Zenon DEF Cqes
<1>3. x \in [op : P, res : Int]
  BY <1>1, <1>2
<1>4. x.op \in P /\ x.res \in Int
  BY <1>3
<1> QED
  BY <1>1, <1>4, Zenon DEF Cqes

(* The descriptors that are checked. *)
LEMMA Descriptors ==
    /\ Stdin = 0 /\ Stdin \notin Clients /\ Stdin # Listener /\ Listener \notin Clients /\ Clients \subseteq Nat /\ Listener \in Nat
    /\ -1 \notin Clients /\ -1 # Listener
BY SocketsAssumption DEF Stdin

(* A failed accept holds no client; one on the standard input nothing.     *)
LEMMA FailedHolds ==
    ASSUME NEW x \in Cqes, Failed(x)
    PROVE  (\A fd \in Clients : ~Holds(x, fd)) /\ (Holds(x, Listener) => x.op.fd = Listener)
<1>1. /\ x.op \in Ops /\ x.res \in Int /\ x.op.event = "accept" /\ x.res < 0
      /\ x.res = -1 \/ (x.op.fd = Listener /\ x.res \in Clients) \/ (x.op.fd = Stdin /\ x.res = Stdin)
  BY CqeFields DEF Failed
<1>2. x.op.fd \in {Listener, Stdin}
  BY <1>1, OpFields
<1> QED
  BY <1>1, <1>2, Descriptors DEF Holds

(* What completes while it is submitted. *)
LEMMA AtOnceIs ==
    /\ AtOnce \in Seq(Cqes) /\ (\A fd \in Clients : NoneHolds(AtOnce, fd)) /\ NoneHolds(AtOnce, Listener)
<1>1. NopOp \in Ops /\ NopOp.event = "accept" /\ NopOp.fd = Stdin
  BY OpTyped, Descriptors DEF NopOp
<1>2. AcceptOp(Stdin) \in Ops /\ AcceptOp(Stdin).event = "accept" /\ AcceptOp(Stdin).fd = Stdin
  BY OpTyped, Descriptors DEF AcceptOp
<1>3. RecvOp(Stdin) \in Ops /\ RecvOp(Stdin).event = "read" /\ RecvOp(Stdin).fd = Stdin
  BY OpTyped, Descriptors DEF RecvOp
<1>4. PICK a, b, c : a = [op |-> NopOp, res |-> 0] /\ b = [op |-> AcceptOp(Stdin), res |-> -1] /\ c = [op |-> RecvOp(Stdin), res |-> -1]
  OBVIOUS
<1>5. a \in Cqes /\ a.op = NopOp /\ a.res = 0
  BY <1>1, <1>4, CqeTyped, Descriptors
<1>6. b \in Cqes /\ b.op = AcceptOp(Stdin) /\ b.res = -1
  BY <1>2, <1>4, CqeTyped, Descriptors
<1>7. c \in Cqes /\ c.op = RecvOp(Stdin) /\ c.res = -1
  BY <1>3, <1>4, CqeTyped, Descriptors
<1>8. \A fd \in Clients \cup {Listener} : ~Holds(a, fd) /\ ~Holds(b, fd) /\ ~Holds(c, fd)
  BY <1>1, <1>2, <1>3, <1>5, <1>6, <1>7, Descriptors DEF Holds
<1>9. PICK A, C : A = AtOnce /\ C = Cqes
  OBVIOUS
<1>10. A = <<a>> \/ A = <<b, c>> \/ A = <<>>
  BY <1>4, <1>9, Zenon DEF AtOnce
<1>11. A \in Seq(C)
  <2>1. a \in C /\ b \in C /\ c \in C /\ <<>> \in Seq(C)
    BY <1>5, <1>6, <1>7, <1>9, EmptySeq
  <2>2. <<a>> \in Seq(C) /\ <<b, c>> \in Seq(C)
    BY <2>1
  <2> QED
    BY <1>10, <2>1, <2>2
<1>12. \A i \in DOMAIN A : A[i] \in {a, b, c}
  BY <1>10
<1>13. \A fd \in Clients \cup {Listener} : NoneHolds(A, fd)
  BY <1>8, <1>12 DEF NoneHolds
<1> QED
  BY <1>9, <1>11, <1>13

(* Every sequence is a prefix of itself. *)
LEMMA PrefixSelf ==
    ASSUME NEW S, NEW s \in Seq(S)
    PROVE  IsPrefix(s, s)
<1>1. Len(s) <= Len(s) /\ \A i \in 1 .. Len(s) : s[i] = s[i]
  BY LenProperties
<1> QED
  BY <1>1, PrefixIs

(* What does not change fits as before. *)
LEMMA SameFits ==
    ASSUME NEW S, NEW F, NEW U, NEW fd, NEW s, NEW b, NEW m
    PROVE  StillFits(S, F, U, fd, s, b, m, s, b, m)
BY Zenon DEF StillFits

(* Submitting keeps the invariant of the ring. *)
LEMMA SubmitKeeps ==
    ASSUME RingInv, Submit
    PROVE  RingInv'
<1>1. PICK C, U, V, A : C = Cqes /\ U = Unhandled /\ V = Unhandled' /\ A = AtOnce
  OBVIOUS
<1>2. /\ pc = "submit" /\ pc' = "wait" /\ sq' = {} /\ flight' = flight \cup {o \in sq : o.fd # Stdin} /\ cq' = cq \o A
      /\ UNCHANGED <<batch, next, shared, mixed, skipped, deaf, program, sock, backlog, born, ready, died, Faults>>
  BY <1>1 DEF Submit, socketVars, Faults
<1>3. A \in Seq(C) /\ (\A fd \in Clients : NoneHolds(A, fd)) /\ NoneHolds(A, Listener)
  BY <1>1, AtOnceIs
<1>4. cq \in Seq(C) /\ U = cq /\ V = U \o A
  BY <1>1, <1>2, UnhandledIs DEF RingInv, UnhandledOf
<1>5. cq' \in Seq(C)
  BY <1>2, <1>3, <1>4, ConcatProperties
<1>6. ASSUME NEW fd \in Clients \cup {Listener} PROVE Keeps(sq, flight, U, sq', flight', V, fd)
  BY <1>2, <1>3, <1>4, SubmitMoves, Descriptors
<1>7. ASSUME NEW fd \in Clients PROVE Turn(sq', flight', V, fd, sock'[fd], shared', Faults')
  <2>1. Turn(sq, flight, U, fd, sock[fd], shared, Faults)
    BY <1>1 DEF RingInv
  <2>2. StillFits(sq, flight, U, fd, sock[fd], shared, Faults, sock'[fd], shared', Faults')
    BY <1>2, SameFits
  <2>3. Keeps(sq, flight, U, sq', flight', V, fd)
    BY <1>6
  <2> QED
    BY ONLY <2>1, <2>2, <2>3, TurnKept
<1>8. ~deaf' => Held(sq', flight', V, Listener)
  <2>1. Keeps(sq, flight, U, sq', flight', V, Listener)
    BY <1>6
  <2>2. ~deaf => Held(sq, flight, U, Listener)
    BY <1>1 DEF RingInv
  <2> QED
    BY <1>2, <2>1, <2>2, HeldKept
<1>9. KernelInv(Seq(Items))'
  BY <1>2 DEF RingInv, KernelInv, SocksOK
<1>10. /\ sq' \subseteq Ops /\ flight' \subseteq Ops /\ (\A o \in flight' : o.fd # Stdin) /\ cq' \in Seq(Cqes)
       /\ BatchOK(pc', batch', next', cq') /\ shared' \in Seq(Items) /\ mixed' \in BOOLEAN /\ deaf' \in BOOLEAN
  BY <1>1, <1>2, <1>5 DEF RingInv, BatchOK
<1> QED
  BY <1>1, <1>2, <1>7, <1>8, <1>9, <1>10, Zenon DEF RingInv

(* Peeking keeps the invariant of the ring. *)
LEMMA PeekKeeps ==
    ASSUME RingInv, Peek
    PROVE  RingInv'
<1>1. PICK l \in Nat \ {0} : l = Len(cq)
  BY EmptySeq DEF RingInv, Peek
<1>2. PICK n \in 1 .. l : n = Min({l, PeekMax})
  BY PeekCount
<1>3. /\ pc = "wait" /\ pc' = "batch" /\ batch' = SubSeq(cq, 1, n) /\ next' = 1
      /\ UNCHANGED <<sq, flight, cq, shared, mixed, deaf, sock, backlog, born, Faults>>
  BY <1>1, <1>2 DEF Peek, socketVars, Faults
<1>4. cq \in Seq(Cqes)
  BY DEF RingInv
<1>5. BatchOK("batch", batch', 1, cq) /\ UnhandledOf("batch", batch', 1, cq) = cq
  BY <1>1, <1>3, <1>4, UnhandledPeeked
<1>6. Unhandled' = Unhandled
  BY <1>3, <1>5, UnhandledIs DEF UnhandledOf
<1>7. KernelInv(Seq(Items))'
  BY <1>3 DEF RingInv, KernelInv, SocksOK
<1>8. Heard(batch', next', deaf') /\ BatchOK(pc', batch', next', cq')
  BY <1>3, <1>5 DEF Heard
<1>9. \A fd \in Clients : Turn(sq', flight', Unhandled', fd, sock'[fd], shared', Faults')
  BY <1>3, <1>6 DEF RingInv
<1>10. ~deaf' => Held(sq', flight', Unhandled', Listener)
  BY <1>3, <1>6 DEF RingInv
<1>11. /\ sq' \subseteq Ops /\ flight' \subseteq Ops /\ (\A o \in flight' : o.fd # Stdin) /\ cq' \in Seq(Cqes)
       /\ shared' \in Seq(Items) /\ mixed' \in BOOLEAN /\ deaf' \in BOOLEAN
  BY <1>3 DEF RingInv
<1> QED
  BY <1>7, <1>8, <1>9, <1>10, <1>11, Zenon DEF RingInv

(* What clients do. *)
LEMMA AlikeFits ==
    ASSUME NEW S, NEW F, NEW U, NEW fd, NEW s, NEW t, NEW b, NEW m, Alike(s, t)
    PROVE  StillFits(S, F, U, fd, s, b, m, t, b, m)
<1>1. /\ t.id = s.id /\ t.got = s.got /\ t.out = s.out
      /\ (t.peer = "open" => s.peer = "open") /\ (s.peer = "dead" => t.peer = "dead")
  BY DEF Alike
<1>2. (Own(s, m) => Own(t, m)) /\ (Even(s, m) => Even(t, m))
  BY <1>1, Zenon DEF Even, Own
<1>3. \A n : Due(s, n, b, m) => Due(t, n, b, m)
  BY <1>1, <1>2, Zenon DEF Due
<1>4. \A o : OpFits(o, s, b, m) => OpFits(o, t, b, m)
  BY <1>1, <1>2, <1>3, Zenon DEF OpFits
<1>5. \A x : CqeFits(x, s, b, m) => CqeFits(x, t, b, m)
  BY <1>1, <1>2, <1>3, Zenon DEF CqeFits
<1>6. NoneFits(s, m) => NoneFits(t, m)
  BY <1>1, <1>2, Zenon DEF NoneFits
<1> QED
  BY <1>4, <1>5, <1>6, Zenon DEF StillFits

(* Where nothing moves everything is kept. *)
LEMMA StaysKept ==
    ASSUME NEW S, NEW F, NEW U, NEW fd
    PROVE  Keeps(S, F, U, S, F, U, fd)
BY Zenon DEF Keeps

(* Clients keep the invariant of the ring. *)
LEMMA UringClientKeeps ==
    ASSUME RingInv, ClientStep, UNCHANGED uringVars
    PROVE  RingInv'
<1>1. PICK O : O = Seq(Items) /\ KernelInv(O)
  BY DEF RingInv
<1>2. KernelInv(O)' /\ \A fd \in Clients : Alike(sock[fd], sock'[fd])
  BY <1>1, ClientKeeps
<1>3. UNCHANGED <<sq, flight, cq, pc, batch, next, shared, mixed, skipped, deaf, Faults>>
  BY DEF uringVars, Faults
<1>4. Unhandled' = Unhandled
  BY <1>3, UnhandledIs
<1>5. ASSUME NEW fd \in Clients PROVE Turn(sq, flight, Unhandled, fd, sock'[fd], shared, Faults)
  <2>1. Turn(sq, flight, Unhandled, fd, sock[fd], shared, Faults)
    BY DEF RingInv
  <2>2. StillFits(sq, flight, Unhandled, fd, sock[fd], shared, Faults, sock'[fd], shared, Faults)
    BY <1>2, AlikeFits
  <2>3. Keeps(sq, flight, Unhandled, sq, flight, Unhandled, fd)
    BY StaysKept
  <2> QED
    BY ONLY <2>1, <2>2, <2>3, TurnKept
<1>6. KernelInv(Seq(Items))'
  BY <1>1, <1>2
<1> QED
  BY <1>3, <1>4, <1>5, <1>6 DEF RingInv

(* The first accept is prepared, and a no-op that holds nothing. *)
LEMMA UringStarts ==
    ASSUME SocketsInit, UringInit
    PROVE  UringInv
<1>1. NopOp \in Ops /\ NopOp.fd = Stdin
  BY OpTyped, Descriptors DEF NopOp
<1>2. AcceptOp(Listener) \in Ops /\ AcceptOp(Listener).fd = Listener
  BY OpTyped, Descriptors DEF AcceptOp
<1>3. sq = {NopOp, AcceptOp(Listener)} /\ flight = {} /\ cq = <<>> /\ pc = "submit" /\ shared = <<>> /\ mixed = FALSE /\ skipped = FALSE /\ deaf = FALSE
  BY DEF UringInit
<1>4. PICK U : U = Unhandled /\ U = <<>>
  BY <1>3, UnhandledIs DEF UnhandledOf
<1>5. \A fd : OpsOf(flight, fd) = {} /\ CqesOf(U, fd) = {}
  BY <1>3, <1>4 DEF OpsOf, CqesOf
<1>6. OpsOf(sq, Listener) = {AcceptOp(Listener)} /\ \A fd \in Clients : OpsOf(sq, fd) = {}
  BY <1>1, <1>2, <1>3, Descriptors DEF OpsOf
<1>7. Held(sq, flight, U, Listener)
  BY <1>3, <1>5, <1>6 DEF Held, InSq
<1>8. PICK O : O = Seq(Items) /\ <<>> \in O
  BY EmptySeq
<1>9. Free \in Socks(O) /\ Free.id = 0 /\ Free.got = <<>> /\ Free.out = <<>>
  BY <1>8, FreeTyped
<1>10. SocksOK(sock, O) /\ \A fd \in Clients : sock[fd] = Free
  BY <1>9 DEF SocketsInit, SocksOK
<1>11. KernelInv(Seq(Items))
  BY <1>8, <1>10 DEF KernelInv, SocketsInit
<1>12. NoneFits(Free, Faults)
  <2>1. IsPrefix(<<>>, <<>>)
    BY EmptySeq, PrefixSelf
  <2> QED
    BY <1>9, <2>1 DEF NoneFits, Own
<1>13. ASSUME NEW fd \in Clients PROVE Turn(sq, flight, U, fd, sock[fd], shared, Faults)
  BY <1>5, <1>6, <1>10, <1>12 DEF Turn, Nowhere
<1>14. cq \in Seq(Cqes) /\ shared \in Seq(Items)
  BY <1>3, EmptySeq
<1> QED
  BY <1>1, <1>2, <1>3, <1>4, <1>7, <1>11, <1>13, <1>14 DEF UringInv, RingInv, BatchOK

(* What the loop prepares for a completion. *)
NextOps(e) == IF Failed(e) THEN {} ELSE Prepared(e)
Follows(y, e) == IF e.op.event = "read" THEN y.event = "write" /\ y.len = e.res ELSE y.event = "read"
(* A completion makes the loop prepare at most one operation for each      *)
(* client and for the listener that it holds, and none for others.         *)
LEMMA PreparedIs ==
    ASSUME NEW e \in Cqes
    PROVE  /\ NextOps(e) \subseteq Ops
           /\ \A fd \in Clients \cup {Listener} : ~Holds(e, fd) => OpsOf(NextOps(e), fd) = {}
           /\ \A fd \in Clients : Holds(e, fd) /\ e.op.event = "read" /\ e.res <= 0 => OpsOf(NextOps(e), fd) = {}
           /\ \A fd \in Clients : Holds(e, fd) /\ ~(e.op.event = "read" /\ e.res <= 0) =>
                \E y \in NextOps(e) : OpsOf(NextOps(e), fd) = {y} /\ Follows(y, e)
           /\ Holds(e, Listener) /\ ~Failed(e) => \E y \in NextOps(e) : OpsOf(NextOps(e), Listener) = {y}
<1>1. PICK o, r, P : o = e.op /\ r = e.res /\ P = NextOps(e)
  OBVIOUS
<1>2. /\ o \in Ops /\ r \in Int
      /\ o.event = "accept" => r = -1 \/ (o.fd = Listener /\ r \in Clients) \/ (o.fd = Stdin /\ r = Stdin)
      /\ o.event = "read" /\ o.fd = Stdin => r < 0
  BY <1>1, CqeFields
<1>3. /\ o.event \in {"accept", "read", "write"} /\ o.fd \in Nat
      /\ (o.event = "accept" => o.fd \in {Listener, Stdin}) /\ (o.event = "read" => o.fd \in Clients \cup {Stdin}) /\ (o.event = "write" => o.fd \in Clients)
  BY <1>2, OpFields
<1>4. \A fd : Holds(e, fd) <=> o.fd = fd \/ (o.event = "accept" /\ r = fd)
  BY <1>1, Zenon DEF Holds
<1>5. Failed(e) <=> o.event = "accept" /\ r < 0
  BY <1>1, Zenon DEF Failed
<1>6. CASE o.event = "accept" /\ r < 0
  <2>1. P = {} /\ r = -1
    BY <1>1, <1>2, <1>5, <1>6, Descriptors DEF NextOps
  <2>2. \A fd : OpsOf(P, fd) = {}
    BY <2>1 DEF OpsOf
  <2>3. \A fd \in Clients : ~Holds(e, fd)
    BY <1>3, <1>4, <1>6, <2>1, Descriptors
  <2> QED
    BY <1>1, <1>5, <1>6, <2>1, <2>2, <2>3
<1>7. CASE o.event = "accept" /\ ~(r < 0)
  <2>1. r \in Nat /\ (r \in Clients \/ r = Stdin)
    BY <1>2, <1>7, Descriptors
  <2>2. PICK a, b : a = AcceptOp(o.fd) /\ b = RecvOp(r)
    OBVIOUS
  <2>3. a \in Ops /\ a.fd = o.fd
    BY <1>3, <1>7, <2>2, OpTyped DEF AcceptOp
  <2>4. b \in Ops /\ b.fd = r /\ b.event = "read"
    BY <2>1, <2>2, OpTyped DEF RecvOp
  <2>5. Prepared(e) = {a, b}
    BY <1>1, <1>7, <2>2, Zenon DEF Prepared
  <2>6. P = {a, b}
    BY <1>1, <1>5, <1>7, <2>5, Zenon DEF NextOps
  <2>7. \A fd \in Clients : (Holds(e, fd) => OpsOf(P, fd) = {b}) /\ (~Holds(e, fd) => OpsOf(P, fd) = {})
    BY <1>3, <1>4, <1>7, <2>3, <2>4, <2>6, Descriptors DEF OpsOf
  <2>8. (Holds(e, Listener) => OpsOf(P, Listener) = {a}) /\ (~Holds(e, Listener) => OpsOf(P, Listener) = {})
    BY <1>3, <1>4, <1>7, <2>1, <2>3, <2>4, <2>6, Descriptors DEF OpsOf
  <2>9. Follows(b, e)
    BY <1>1, <1>7, <2>4 DEF Follows
  <2> QED
    BY <1>1, <1>7, <2>3, <2>4, <2>6, <2>7, <2>8, <2>9
<1>8. CASE o.event = "read" /\ r > 0
  <2>1. o.fd \in Clients
    BY <1>2, <1>3, <1>8
  <2>2. PICK a : a = Op("write", o.fd, r)
    OBVIOUS
  <2>3. a \in Ops /\ a.fd = o.fd /\ a.event = "write" /\ a.len = r
    BY <1>2, <1>3, <2>1, <2>2, OpTyped
  <2>4. o.event # "accept" /\ o.event # "write"
    BY <1>8
  <2>5. Prepared(e) = {a}
    BY <1>1, <1>8, <2>2, <2>4, Zenon DEF Prepared
  <2>6. P = {a}
    BY <1>1, <1>5, <2>4, <2>5, Zenon DEF NextOps
  <2>7. \A fd : OpsOf(P, fd) = IF Holds(e, fd) THEN {a} ELSE {}
    BY <1>4, <2>3, <2>4, <2>6 DEF OpsOf
  <2>8. Follows(a, e)
    BY <1>1, <1>8, <2>3 DEF Follows
  <2> QED
    BY <1>1, <1>2, <1>8, <2>3, <2>6, <2>7, <2>8
<1>9. CASE o.event = "read" /\ ~(r > 0)
  <2>1. o.event # "accept" /\ o.event # "write"
    BY <1>9
  <2>2. Prepared(e) = {}
    BY <1>1, <1>9, <2>1, Zenon DEF Prepared
  <2>3. P = {}
    BY <1>1, <1>5, <2>1, <2>2, Zenon DEF NextOps
  <2>4. \A fd : OpsOf(P, fd) = {}
    BY <2>3 DEF OpsOf
  <2>5. ~Holds(e, Listener)
    BY <1>3, <1>4, <1>9, Descriptors
  <2> QED
    BY <1>1, <1>2, <1>9, <2>3, <2>4, <2>5
<1>10. CASE o.event = "write"
  <2>1. o.fd \in Clients /\ o.event # "accept" /\ o.event # "read"
    BY <1>3, <1>10
  <2>2. PICK a : a = RecvOp(o.fd)
    OBVIOUS
  <2>3. a \in Ops /\ a.fd = o.fd /\ a.event = "read"
    BY <1>3, <2>1, <2>2, OpTyped DEF RecvOp
  <2>5. Prepared(e) = {a}
    BY <1>1, <1>10, <2>1, <2>2, Zenon DEF Prepared
  <2>6. P = {a}
    BY <1>1, <1>5, <2>1, <2>5, Zenon DEF NextOps
  <2>7. \A fd : OpsOf(P, fd) = IF Holds(e, fd) THEN {a} ELSE {}
    BY <1>4, <2>1, <2>3, <2>6 DEF OpsOf
  <2>8. Follows(a, e)
    BY <1>1, <2>1, <2>3 DEF Follows
  <2> QED
    BY <1>1, <2>1, <2>3, <2>6, <2>7, <2>8
<1> QED
  BY <1>3, <1>6, <1>7, <1>8, <1>9, <1>10

(* The turn of a client whose completion is handled. *)
FirstHandled(U, B, V, e) == U # <<>> /\ 1 \in DOMAIN U /\ e = U[1] /\ V = B \o Tail(U)
ClosedBy(e, fd, s) == IF e.op.event = "read" /\ e.res = 0 /\ e.op.fd = fd THEN Free ELSE s
(* The client has its turn again: its next operation fits, or it is        *)
(* closed.                                                                 *)
LEMMA TurnHandled ==
    ASSUME NEW S, NEW F, NEW U \in Seq(Cqes), NEW B \in Seq(Cqes), NEW fd \in Clients, NoneHolds(B, fd),
           NEW e \in Cqes, NEW T, T = S \cup NextOps(e), NEW V, FirstHandled(U, B, V, e),
           NEW s, NEW b, NEW m, Turn(S, F, U, fd, s, b, m), NEW t, t = ClosedBy(e, fd, s)
    PROVE  Turn(T, F, V, fd, t, b, m)
<1>0. /\ U # <<>> /\ 1 \in DOMAIN U /\ e = U[1] /\ V = B \o Tail(U)
      /\ t = IF e.op.event = "read" /\ e.res = 0 /\ e.op.fd = fd THEN Free ELSE s
  BY Zenon DEF FirstHandled, ClosedBy
<1>1. PICK C, P : C = Cqes /\ P = NextOps(e)
  OBVIOUS
<1>2. CASE ~Holds(e, fd)
  <2>1. OpsOf(P, fd) = {}
    BY <1>1, <1>2, PreparedIs
  <2>2. Keeps(S, F, U, T, F, V, fd)
    BY <1>0, <1>1, <1>2, <2>1, OtherHandled
  <2>3. t = s
    BY <1>0, <1>2 DEF Holds
  <2>4. StillFits(S, F, U, fd, s, b, m, t, b, m)
    BY <2>3, SameFits
  <2> QED
    BY <2>2, <2>4, TurnKept
<1>3. CASE Holds(e, fd)
  <2>1. InCq(S, F, U, fd, 1) /\ CqeFits(e, s, b, m)
    BY <1>0, <1>3, TurnIs
  <2>2. /\ OpsOf(P, fd) = {} => Nowhere(T, F, V, fd)
        /\ \A y \in P : OpsOf(P, fd) = {y} => y \in T /\ InSq(T, F, V, fd, y)
    <3>1. Prepares(P, T, F, V, fd)
      BY <1>0, <1>1, <2>1, OwnHandled
    <3> QED
      BY <3>1, Zenon DEF Prepares
  <2>3. e.op.event = "read" => e.op.fd = fd
    BY <1>3 DEF Holds
  <2>4. e.res \in Int
    BY CqeFields
  <2>5. CASE e.op.event = "read" /\ e.res <= 0
    <3>1. Nowhere(T, F, V, fd)
      BY <1>1, <1>3, <2>2, <2>5, PreparedIs
    <3>2. NoneFits(t, m)
      <4>1. CASE e.res = 0
        <5>1. Free.id = 0 /\ Free.got = <<>> /\ Free.out = <<>>
          BY DEF Free
        <5>2. IsPrefix(<<>>, <<>>)
          BY EmptySeq, PrefixSelf
        <5>3. t = Free
          BY <1>0, <2>3, <2>5, <4>1
        <5> QED
          BY <5>1, <5>2, <5>3 DEF NoneFits, Own
      <4>2. CASE e.res # 0
        <5>1. t = s /\ e.res < 0 /\ ~(e.res > 0)
          BY <1>0, <2>4, <2>5, <4>2
        <5> QED
          BY <2>1, <2>5, <5>1, Zenon DEF NoneFits, CqeFits, Even
      <4> QED
        BY <4>1, <4>2
    <3> QED
      BY <3>1, <3>2, Zenon DEF Turn
  <2>6. CASE ~(e.op.event = "read" /\ e.res <= 0)
    <3>1. PICK y \in P : OpsOf(P, fd) = {y} /\ Follows(y, e)
      BY <1>1, <1>3, <2>6, PreparedIs
    <3>2. y \in T /\ InSq(T, F, V, fd, y)
      BY <2>2, <3>1
    <3>3. t = s
      BY <1>0, <2>6
    <3>4. OpFits(y, s, b, m)
      <4>1. CASE e.op.event = "read"
        <5>1. y.event = "write" /\ y.len = e.res /\ e.res > 0 /\ e.res <= Len(b)
          BY <2>1, <2>4, <2>6, <3>1, <4>1 DEF CqeFits, Follows
        <5>2. s.id # 0 /\ (~m.mixed => Due(s, y.len, b, m))
          BY <2>1, <4>1, <5>1, Zenon DEF CqeFits
        <5> QED
          BY <2>4, <5>1, <5>2, CqeFields DEF OpFits
      <4>2. CASE e.op.event # "read"
        <5>1. y.event = "read" /\ s.id # 0 /\ (~m.mixed => Even(s, m))
          BY <2>1, <3>1, <4>2 DEF CqeFits, Follows
        <5> QED
          BY <5>1 DEF OpFits
      <4> QED
        BY <4>1, <4>2
    <3> QED
      BY <3>2, <3>3, <3>4, Zenon DEF Turn
  <2> QED
    BY <2>5, <2>6
<1> QED
  BY <1>2, <1>3

(* The same of the listener. *)
LEMMA HeldHandled ==
    ASSUME NEW S, NEW F, NEW U \in Seq(Cqes), U # <<>>, 1 \in DOMAIN U, NEW B \in Seq(Cqes), NoneHolds(B, Listener),
           NEW e \in Cqes, e = U[1], NEW T, T = S \cup NextOps(e), NEW V, V = B \o Tail(U),
           Held(S, F, U, Listener), Holds(e, Listener) => ~Failed(e)
    PROVE  Held(T, F, V, Listener)
<1>1. PICK C, P, fd : C = Cqes /\ P = NextOps(e) /\ fd = Listener
  OBVIOUS
<1>2. CASE ~Holds(e, fd)
  <2>1. OpsOf(P, fd) = {}
    BY <1>1, <1>2, PreparedIs
  <2>2. Keeps(S, F, U, T, F, V, fd)
    BY <1>1, <1>2, <2>1, OtherHandled
  <2> QED
    BY <1>1, <2>2, HeldKept
<1>3. CASE Holds(e, fd)
  <2>1. InCq(S, F, U, fd, 1)
    BY <1>1, <1>3, HeldIs
  <2>2. Prepares(P, T, F, V, fd)
    BY <1>1, <2>1, OwnHandled
  <2>3. PICK y \in P : OpsOf(P, fd) = {y}
    BY <1>1, <1>3, PreparedIs
  <2>4. y \in T /\ InSq(T, F, V, fd, y)
    BY <2>2, <2>3, Zenon DEF Prepares
  <2> QED
    BY <1>1, <2>4, Zenon DEF Held
<1> QED
  BY <1>2, <1>3

(* One pass of the loop. *)
LEMMA HandleKeeps ==
    ASSUME RingInv, HandleCqe, ~skipped'
    PROVE  RingInv'
<1>1. PICK U, V, b, k, q, r, n : U = Unhandled /\ V = Unhandled' /\ b = batch /\ k = next /\ q = cq /\ r = cq' /\ n = Len(b)
  OBVIOUS
<1>2. PICK e : e = b[k]
  OBVIOUS
<1>3. pc = "batch" /\ b \in Seq(Cqes) /\ k \in 1 .. Len(b) /\ q \in Seq(Cqes) /\ BatchOK("batch", b, k, q)
  BY <1>1 DEF RingInv, BatchOK, HandleCqe
<1>4. /\ sq' = sq \cup NextOps(e) /\ r = (IF Failed(e) THEN q ELSE SubSeq(q, n + 1, Len(q)))
      /\ sock' = (IF e.op.event = "read" /\ e.res = 0 THEN [sock EXCEPT ![e.op.fd] = Free] ELSE sock)
      /\ deaf' = (deaf \/ (Failed(e) /\ e.op.fd = Listener))
      /\ next' = k + 1 /\ pc' = (IF k = n THEN "submit" ELSE "batch")
      /\ UNCHANGED <<flight, batch, shared, mixed, backlog, born, Faults>>
  <2>1. /\ sq' = (IF Failed(e) THEN sq ELSE sq \cup Prepared(e)) /\ r = (IF Failed(e) THEN q ELSE SubSeq(q, n + 1, Len(q)))
        /\ sock' = (IF e.op.event = "read" /\ e.res = 0 THEN [sock EXCEPT ![e.op.fd] = Free] ELSE sock)
        /\ deaf' = (deaf \/ (Failed(e) /\ e.op.fd = Listener))
        /\ next' = k + 1 /\ pc' = (IF k = n THEN "submit" ELSE "batch")
        /\ UNCHANGED <<flight, batch, shared, mixed, short, backlog, born>>
    BY <1>1, <1>2, Zenon DEF HandleCqe, Failed
  <2>2. sq' = sq \cup NextOps(e)
    BY <2>1 DEF NextOps
  <2>3. Faults' = Faults
    BY <2>1 DEF Faults
  <2> QED
    BY <2>1, <2>2, <2>3
<1>5. Failed(e) \/ AllFailed(b, k)
  <2>1. skipped' = (~Failed(e) /\ \E i \in 1 .. k - 1 : b[i].op.event # "accept" \/ b[i].res >= 0)
    BY <1>1, <1>2, Zenon DEF HandleCqe, Failed
  <2>2. ASSUME ~Failed(e), NEW i \in 1 .. k - 1 PROVE Failed(b[i])
    <3>1. ~(b[i].op.event # "accept" \/ b[i].res >= 0)
      BY <2>1, <2>2
    <3>2. i \in 1 .. Len(b)
      BY <1>3, LenProperties
    <3>3. b[i] \in Cqes
      BY <1>3, <3>2, ElementOfSeq
    <3>4. b[i].res \in Int
      BY <3>3, CqeFields
    <3> QED
      BY <3>1, <3>4 DEF Failed
  <2> QED
    BY <2>2 DEF AllFailed
<1>6. U = UnhandledOf("batch", b, k, q) /\ V = UnhandledOf(pc', b, k + 1, r)
  BY <1>1, <1>3, <1>4, UnhandledIs
<1>7. /\ U # <<>> /\ U[1] = e /\ 1 \in DOMAIN U /\ r \in Seq(Cqes) /\ BatchOK(pc', b, k + 1, r)
      /\ \E B \in Seq(Cqes) : Requeued(B) /\ (B = <<>> \/ (B = b /\ k = Len(b))) /\ V = B \o Tail(U)
  <2>1. PICK p : p = pc'
    OBVIOUS
  <2>2. p = (IF k = Len(b) THEN "submit" ELSE "batch") /\ r = (IF Failed(b[k]) THEN q ELSE SubSeq(q, Len(b) + 1, Len(q)))
    BY <1>1, <1>2, <1>4, <2>1, Zenon
  <2>3. Failed(b[k]) \/ AllFailed(b, k)
    BY <1>2, <1>5
  <2>4. Passed(b, k, q, p, r)
    BY ONLY <1>3, <2>2, <2>3, UnhandledShrinks
  <2> QED
    BY <1>2, <1>6, <2>1, <2>4, Zenon DEF Passed
<1>8. PICK B \in Seq(Cqes) : Requeued(B) /\ (B = <<>> \/ (B = b /\ k = Len(b))) /\ V = B \o Tail(U)
  BY <1>7
<1>9. e \in Cqes /\ U \in Seq(Cqes)
  <2>1. e \in Cqes
    BY <1>2, <1>3, ElementOfSeq
  <2> QED
    BY <1>3, <1>6, <2>1, UnhandledTyped
<1>10. \A i \in DOMAIN B : B[i] \in Cqes /\ Failed(B[i])
  BY <1>8, ElementOfSeq, LenProperties DEF Requeued
<1>11. \A fd \in Clients : NoneHolds(B, fd)
  BY <1>10, FailedHolds DEF NoneHolds
<1>12. ~deaf' => ~deaf /\ NoneHolds(B, Listener) /\ (Holds(e, Listener) => ~Failed(e))
  <2>1. SUFFICES ASSUME ~deaf' PROVE ~deaf /\ NoneHolds(B, Listener) /\ (Holds(e, Listener) => ~Failed(e))
    OBVIOUS
  <2>2. ~deaf /\ ~(Failed(e) /\ e.op.fd = Listener)
    BY <1>4, <2>1
  <2>3. \A i \in 1 .. k - 1 : ~(Failed(b[i]) /\ b[i].op.fd = Listener)
    BY <1>1, <1>3, <2>2, Zenon DEF RingInv, Heard
  <2>4. ASSUME NEW i \in DOMAIN B PROVE ~Holds(B[i], Listener)
    <3>1. CASE B = <<>>
      BY <3>1
    <3>2. CASE B = b /\ k = Len(b)
      <4>1. i \in 1 .. k
        BY <1>3, <3>2, LenProperties
      <4>2. i \in 1 .. k - 1 \/ i = k
        BY <1>3, <4>1
      <4>3. ~(Failed(B[i]) /\ B[i].op.fd = Listener)
        BY <1>2, <2>2, <2>3, <3>2, <4>2
      <4> QED
        BY <1>10, <4>3, FailedHolds
    <3> QED
      BY <1>8, <3>1, <3>2
  <2> QED
    BY <1>9, <2>2, <2>4, FailedHolds DEF NoneHolds
<1>13. e.op.event = "read" /\ e.res = 0 => e.op.fd \in Clients
  BY <1>9, CqeFields, OpFields
<1>14. KernelInv(Seq(Items))' /\ \A fd \in Clients : sock'[fd] = IF e.op.event = "read" /\ e.res = 0 /\ e.op.fd = fd THEN Free ELSE sock[fd]
  <2>1. PICK O : O = Seq(Items) /\ KernelInv(O) /\ born' \in Nat /\ backlog' \in 0 .. born'
    BY <1>4 DEF RingInv, KernelInv
  <2>2. CASE e.op.event = "read" /\ e.res = 0
    <3>1. PICK g, t : g = e.op.fd /\ t = Free
      OBVIOUS
    <3>2. g \in Clients /\ sock' = [sock EXCEPT ![g] = t]
      BY <1>4, <1>13, <2>2, <3>1
    <3>3. t \in Socks(O) /\ (t.id = 0 => t = Free)
      <4>1. <<>> \in O
        BY <2>1, EmptySeq
      <4> QED
        BY <3>1, <4>1, FreeTyped
    <3>4. KernelInv(O) /\ born' \in Nat /\ backlog' \in 0 .. born' /\ g \in Clients /\ t \in Socks(O) /\ (t.id = 0 => t = Free)
      BY <2>1, <3>2, <3>3
    <3>5. sock' = [sock EXCEPT ![g] = t]
      BY <3>2
    <3>6. KernelInv(O)' /\ \A fd \in Clients : sock'[fd] = IF fd = g THEN t ELSE sock[fd]
      BY ONLY <3>4, <3>5, SockStep, ZenonT(30)
    <3> QED
      BY <2>1, <2>2, <3>1, <3>6
  <2>3. CASE ~(e.op.event = "read" /\ e.res = 0)
    BY <1>4, <2>1, <2>3 DEF KernelInv, SocksOK
  <2> QED
    BY <2>2, <2>3
<1>15. ASSUME NEW fd \in Clients PROVE Turn(sq', flight', V, fd, sock'[fd], shared', Faults')
  <2>1. PICK s, t : s = sock[fd] /\ t = sock'[fd] /\ Turn(sq, flight, U, fd, s, shared, Faults)
    BY <1>1 DEF RingInv
  <2>2. t = ClosedBy(e, fd, s)
    BY <1>14, <2>1, Zenon DEF ClosedBy
  <2>3. PICK T : T = sq' /\ T = sq \cup NextOps(e)
    BY <1>4
  <2>4. NoneHolds(B, fd) /\ e = U[1]
    BY <1>7, <1>11
  <2>5. PICK F, m, c : F = flight /\ m = Faults /\ c = shared
    OBVIOUS
  <2>6. Turn(sq, F, U, fd, s, c, m) /\ FirstHandled(U, B, V, e) /\ U \in Seq(Cqes) /\ e \in Cqes
    BY <1>7, <1>8, <1>9, <2>1, <2>5, Zenon DEF FirstHandled
  <2>7. Turn(T, F, V, fd, t, c, m)
    <3>1. PICK S : S = sq
      OBVIOUS
    <3>2. T = S \cup NextOps(e) /\ Turn(S, F, U, fd, s, c, m)
      BY <2>3, <2>6, <3>1
    <3> QED
      BY ONLY <2>2, <2>4, <2>6, <3>2, TurnHandled, fd \in Clients, B \in Seq(Cqes)
  <2> QED
    BY <1>4, <2>1, <2>3, <2>5, <2>7
<1>16. ~deaf' => Held(sq', flight', V, Listener)
  <2>1. SUFFICES ASSUME ~deaf' PROVE Held(sq', flight', V, Listener)
    OBVIOUS
  <2>2. NoneHolds(B, Listener) /\ (Holds(e, Listener) => ~Failed(e)) /\ Held(sq, flight, U, Listener) /\ e = U[1]
    BY <1>1, <1>7, <1>12, <2>1 DEF RingInv
  <2>3. PICK T : T = sq' /\ T = sq \cup NextOps(e)
    BY <1>4
  <2>4. Held(T, flight, V, Listener)
    BY <1>7, <1>8, <1>9, <2>2, <2>3, HeldHandled
  <2> QED
    BY <1>4, <2>3, <2>4
<1>17. Heard(batch', next', deaf')
  <2>1. Heard(b, k, deaf)
    BY <1>1, <1>3 DEF RingInv
  <2>2. PICK m : m = k + 1
    OBVIOUS
  <2>3. Heard(b, m, deaf')
    <3>1. SUFFICES ASSUME NEW i \in 1 .. m - 1, Failed(b[i]) /\ b[i].op.fd = Listener PROVE deaf'
      BY Zenon DEF Heard
    <3>2. CASE i \in 1 .. k - 1
      BY <1>4, <2>1, <3>1, <3>2, Zenon DEF Heard
    <3>3. CASE i = k
      BY <1>2, <1>4, <3>1, <3>3, Zenon
    <3> QED
      BY <1>3, <2>2, <3>2, <3>3
  <2>4. batch' = b /\ next' = k + 1
    BY <1>1, <1>4
  <2> QED
    BY <2>2, <2>3, <2>4
<1>18. sq' \subseteq Ops /\ flight' \subseteq Ops /\ (\A o \in flight' : o.fd # Stdin) /\ shared' \in Seq(Items) /\ mixed' \in BOOLEAN
  BY <1>4, <1>9, PreparedIs DEF RingInv
<1>19. deaf' \in BOOLEAN /\ cq' \in Seq(Cqes) /\ BatchOK(pc', batch', next', cq')
  BY <1>1, <1>4, <1>7
<1> QED
  BY <1>1, <1>14, <1>15, <1>16, <1>17, <1>18, <1>19, Zenon DEF RingInv

(* What the completion x of an operation o asks of a descriptor: that x    *)
(* fits the descriptor if it holds it, and that nothing else stops fitting.*)
Finishes(o, x, fd, S, F, U, s, b, m, s2, b2, m2) ==
    /\ Holds(x, fd) => CqeFits(x, s2, b2, m2) /\ (o.fd = fd \/ s.id = 0)
    /\ ~Holds(x, fd) => StillFits(S, F, U, fd, s, b, m, s2, b2, m2)

(* The turn of a client when an operation completes. *)
LEMMA TurnCompleted ==
    ASSUME NEW S, NEW F, NEW C, NEW U \in Seq(C), NEW o \in F, NEW x \in C, x.op = o, NEW fd,
           NEW s, NEW b, NEW m, NEW s2, NEW b2, NEW m2, Turn(S, F, U, fd, s, b, m),
           Finishes(o, x, fd, S, F, U, s, b, m, s2, b2, m2), NEW G, G = F \ {o}, NEW V, V = Append(U, x)
    PROVE  Turn(S, G, V, fd, s2, b2, m2)
<1>1. CASE Holds(x, fd)
  <2>1. CqeFits(x, s2, b2, m2) /\ (o.fd = fd \/ s.id = 0)
    BY <1>1, Zenon DEF Finishes
  <2>2. InFlight(S, F, U, fd, o) \/ Nowhere(S, F, U, fd)
    BY <2>1, TurnIs, Zenon
  <2>3. Arrives(S, G, V, fd, x)
    BY <1>1, <2>2, OwnCompletes
  <2> QED
    BY <2>1, <2>3, Zenon DEF Turn, Arrives
<1>2. CASE ~Holds(x, fd)
  <2>1. o.fd # fd
    BY <1>2, Zenon DEF Holds
  <2>2. Keeps(S, F, U, S, G, V, fd)
    BY <1>2, <2>1, OtherCompletes
  <2>3. StillFits(S, F, U, fd, s, b, m, s2, b2, m2)
    BY <1>2, Zenon DEF Finishes
  <2> QED
    BY ONLY <2>2, <2>3, Turn(S, F, U, fd, s, b, m), TurnKept
<1> QED
  BY <1>1, <1>2

(* The same of the listener, whose operation is its accept. *)
LEMMA HeldCompleted ==
    ASSUME NEW S, NEW F, NEW U \in Seq(Cqes), NEW o \in F, NEW x \in Cqes, x.op = o, Held(S, F, U, Listener),
           NEW G, G = F \ {o}, NEW V, V = Append(U, x)
    PROVE  Held(S, G, V, Listener)
<1>1. PICK C, fd : C = Cqes /\ fd = Listener
  OBVIOUS
<1>2. Holds(x, fd) => o.fd = fd
  BY <1>1, CqeFields, Descriptors DEF Holds
<1>3. CASE Holds(x, fd)
  <2>1. InFlight(S, F, U, fd, o)
    BY <1>1, <1>2, <1>3, HeldIs, Zenon
  <2>2. Arrives(S, G, V, fd, x)
    BY <1>1, <1>3, <2>1, OwnCompletes
  <2> QED
    BY <1>1, <2>2, Zenon DEF Held, Arrives
<1>4. CASE ~Holds(x, fd)
  <2>1. o.fd # fd
    BY <1>4, Zenon DEF Holds
  <2>2. Keeps(S, F, U, S, G, V, fd)
    BY <1>1, <1>4, <2>1, OtherCompletes
  <2> QED
    BY <1>1, <2>2, HeldKept
<1> QED
  BY <1>3, <1>4

(* The kernel completes an operation. *)
LEMMA CompletedKeeps ==
    ASSUME RingInv, NEW o \in flight, NEW r, NEW x \in Cqes, x = [op |-> o, res |-> r], Completed(o, r),
           KernelInv(Seq(Items))', shared' \in Seq(Items), mixed' \in BOOLEAN,
           \A fd \in Clients :
             Finishes(o, x, fd, sq, flight, Unhandled, sock[fd], shared, Faults, sock'[fd], shared', Faults')
    PROVE  RingInv'
<1>1. PICK C, U, V, G : C = Cqes /\ U = Unhandled /\ V = Unhandled' /\ G = flight'
  OBVIOUS
<1>2. /\ G = flight \ {o} /\ cq' = Append(cq, x)
      /\ UNCHANGED <<sq, pc, batch, next, skipped, deaf, program, born, ready, died>>
  BY <1>1 DEF Completed
<1>3. x.op = o
  OBVIOUS
<1>4. cq \in Seq(C) /\ BatchOK(pc, batch, next, cq)
  BY <1>1 DEF RingInv
<1>5. /\ cq' \in Seq(C) /\ BatchOK(pc, batch, next, cq')
      /\ UnhandledOf(pc, batch, next, cq') = Append(UnhandledOf(pc, batch, next, cq), x)
  <2>1. PICK p, b, k, q, z : p = pc /\ b = batch /\ k = next /\ q = cq /\ z = cq'
    OBVIOUS
  <2>2. q \in Seq(Cqes) /\ BatchOK(p, b, k, q) /\ z = Append(q, x)
    BY <1>1, <1>2, <1>4, <2>1
  <2>3. GrownBy(p, b, k, q, x, z)
    BY ONLY <2>2, x \in Cqes, UnhandledGrows
  <2> QED
    BY <1>1, <2>1, <2>3, Zenon DEF GrownBy
<1>6. U \in Seq(C) /\ V = Append(U, x)
  <2>1. U = UnhandledOf(pc, batch, next, cq) /\ V = UnhandledOf(pc, batch, next, cq')
    BY <1>1, <1>2, UnhandledIs
  <2>2. U \in Seq(C)
    BY <1>1, <1>4, <2>1, UnhandledTyped
  <2> QED
    BY <1>5, <2>1, <2>2
<1>7. ASSUME NEW fd \in Clients PROVE Turn(sq', flight', V, fd, sock'[fd], shared', Faults')
  <2>1. PICK S, F, s, b, m, s2, b2, m2 :
           /\ S = sq /\ F = flight /\ s = sock[fd] /\ b = shared /\ m = Faults
           /\ s2 = sock'[fd] /\ b2 = shared' /\ m2 = Faults'
    OBVIOUS
  <2>2. Turn(S, F, U, fd, s, b, m) /\ Finishes(o, x, fd, S, F, U, s, b, m, s2, b2, m2) /\ G = F \ {o} /\ o \in F
    BY <1>1, <1>2, <2>1 DEF RingInv
  <2>3. x \in C
    BY <1>1
  <2>4. Turn(S, G, V, fd, s2, b2, m2)
    BY ONLY <1>3, <1>6, <2>2, <2>3, TurnCompleted
  <2> QED
    BY <1>1, <1>2, <2>1, <2>4
<1>8. ~deaf' => Held(sq', flight', V, Listener)
  <2>1. ~deaf => Held(sq, flight, U, Listener)
    BY <1>1 DEF RingInv
  <2>2. Held(sq, flight, U, Listener) => Held(sq, G, V, Listener)
    BY <1>1, <1>2, <1>3, <1>6, HeldCompleted
  <2> QED
    BY <1>1, <1>2, <2>1, <2>2
<1>9. sq' \subseteq Ops /\ flight' \subseteq Ops /\ (\A a \in flight' : a.fd # Stdin) /\ deaf' \in BOOLEAN
  BY <1>1, <1>2 DEF RingInv
<1>10. pc' = "batch" => Heard(batch', next', deaf')
  BY <1>2 DEF RingInv
<1>11. cq' \in Seq(Cqes) /\ BatchOK(pc', batch', next', cq')
  BY <1>1, <1>2, <1>5
<1> QED
  BY <1>1, <1>7, <1>8, <1>9, <1>10, <1>11, Zenon DEF RingInv

(* accept completes, with a descriptor that no operation held, or fails.   *)
LEMMA CompleteAcceptKeeps ==
    ASSUME RingInv, CompleteAccept
    PROVE  RingInv'
<1>1. PICK o, O : o = AcceptOp(Listener) /\ O = Seq(Items)
  OBVIOUS
<1>2. o \in flight /\ backlog > 0 /\ shared' = shared /\ mixed' = mixed /\ Faults' = Faults
  BY <1>1 DEF CompleteAccept, Faults
<1>3. o \in Ops /\ o.event = "accept" /\ o.fd = Listener
  BY <1>1, OpTyped, Descriptors DEF AcceptOp
<1>4. KernelInv(O) /\ shared' \in Seq(Items) /\ mixed' \in BOOLEAN
  BY <1>1, <1>2 DEF RingInv
<1>5. CASE FreeFds = {}
  <2>1. PICK r : r = -1
    OBVIOUS
  <2>2. PICK x : x = [op |-> o, res |-> r]
    OBVIOUS
  <2>3. x \in Cqes /\ x.op = o /\ x.res = -1
    BY <1>3, <2>1, <2>2, CqeTyped
  <2>4. Completed(o, r) /\ sock' = sock /\ backlog' = backlog
    BY <1>1, <1>5, <2>1 DEF CompleteAccept
  <2>5. KernelInv(Seq(Items))'
    BY <1>1, <1>4, <2>4 DEF KernelInv, SocksOK, Completed
  <2>6. ASSUME NEW fd \in Clients PROVE ~Holds(x, fd)
    BY <1>3, <2>3, Descriptors DEF Holds
  <2>7. ASSUME NEW fd \in Clients
        PROVE  Finishes(o, x, fd, sq, flight, Unhandled, sock[fd], shared, Faults, sock'[fd], shared', Faults')
    <3>1. StillFits(sq, flight, Unhandled, fd, sock[fd], shared, Faults, sock'[fd], shared', Faults')
      BY <1>2, <2>4, SameFits
    <3> QED
      BY <2>6, <3>1, Zenon DEF Finishes
  <2> QED
    BY <1>2, <1>4, <2>2, <2>3, <2>4, <2>5, <2>7, CompletedKeeps
<1>6. CASE FreeFds # {}
  <2>1. PICK r \in Clients, t \in Socks(O) :
          /\ r = NewFd /\ sock[r].id = 0 /\ sock[r] = Free /\ Accepted(r) = [sock EXCEPT ![r] = t]
          /\ t.id \in Nat \ {0} /\ t.got = Free.got /\ t.out = Free.out /\ t.inq = Free.inq /\ t.peer = Free.peer
    BY <1>2, <1>4, <1>6, AcceptFields
  <2>2. PICK x : x = [op |-> o, res |-> r]
    OBVIOUS
  <2>3. x \in Cqes /\ x.op = o /\ x.res = r
    BY <1>3, <2>2, CqeTyped, Descriptors
  <2>4. Completed(o, r) /\ sock' = [sock EXCEPT ![r] = t] /\ backlog' = backlog - 1
    BY <1>1, <1>6, <2>1 DEF CompleteAccept
  <2>5. KernelInv(O) /\ born' \in Nat /\ backlog' \in 0 .. born' /\ (t.id = 0 => t = Free)
    BY <1>2, <1>4, <2>1, <2>4 DEF KernelInv, Completed
  <2>6. sock' = [sock EXCEPT ![r] = t]
    BY <2>4
  <2>7. KernelInv(O)' /\ \A fd \in Clients : sock'[fd] = IF fd = r THEN t ELSE sock[fd]
    BY ONLY <2>5, <2>6, r \in Clients, t \in Socks(O), SockStep, ZenonT(30)
  <2>8. \A fd \in Clients : Holds(x, fd) <=> fd = r
    BY <1>3, <2>3, Descriptors DEF Holds
  <2>9. CqeFits(x, t, shared', Faults')
    <3>1. t.got = <<>> /\ t.out = <<>>
      BY <2>1 DEF Free
    <3>2. IsPrefix(<<>>, <<>>)
      BY EmptySeq, PrefixSelf
    <3>3. Even(t, Faults')
      BY <3>1, <3>2 DEF Even, Own
    <3> QED
      BY <1>3, <2>1, <2>3, <3>3 DEF CqeFits
  <2>10. ASSUME NEW fd \in Clients
         PROVE  Finishes(o, x, fd, sq, flight, Unhandled, sock[fd], shared, Faults, sock'[fd], shared', Faults')
    <3>1. CASE fd = r
      <4>1. Holds(x, fd) /\ CqeFits(x, sock'[fd], shared', Faults') /\ sock[fd].id = 0
        BY <2>1, <2>7, <2>8, <2>9, <3>1
      <4> QED
        BY <4>1, Zenon DEF Finishes
    <3>2. CASE fd # r
      <4>1. StillFits(sq, flight, Unhandled, fd, sock[fd], shared, Faults, sock'[fd], shared', Faults')
        BY <1>2, <2>7, <3>2, SameFits
      <4>2. ~Holds(x, fd)
        BY <2>8, <3>2
      <4> QED
        BY <4>1, <4>2, Zenon DEF Finishes
    <3> QED
      BY <3>1, <3>2
  <2>11. KernelInv(Seq(Items))'
    BY <1>1, <2>7
  <2> QED
    BY <1>2, <1>4, <2>2, <2>3, <2>4, <2>10, <2>11, CompletedKeeps
<1> QED
  BY <1>5, <1>6

(* The elements of a part of a sequence. *)
LEMMA ElementsOf ==
    ASSUME NEW S, NEW s \in Seq(S), NEW n \in 1 .. Len(s), NEW k \in 1 .. n
    PROVE  ToSet(SubSeq(s, 1, k)) \subseteq ToSet(SubSeq(s, 1, n))
BY DEF ToSet

(* Those of two in a row. *)
LEMMA ElementsJoined ==
    ASSUME NEW S, NEW s \in Seq(S), NEW t \in Seq(S)
    PROVE  ToSet(s \o t) = ToSet(s) \cup ToSet(t)
<1>1. PICK u : u = s \o t
  OBVIOUS
<1>2. PICK k \in Nat, l \in Nat : k = Len(s) /\ l = Len(t) /\ DOMAIN s = 1 .. k /\ DOMAIN t = 1 .. l
  BY LenProperties
<1>3. DOMAIN u = 1 .. k + l /\ (\A i \in 1 .. k : u[i] = s[i]) /\ (\A i \in k + 1 .. k + l : u[i] = t[i - k])
  BY <1>1, <1>2, ConcatProperties, LenProperties
<1>4. ASSUME NEW i \in 1 .. l PROVE k + i \in 1 .. k + l /\ u[k + i] = t[i]
  <2>1. k + i \in k + 1 .. k + l /\ (k + i) - k = i
    BY <1>2
  <2> QED
    BY <1>2, <1>3, <2>1
<1>5. ASSUME NEW i \in 1 .. k + l PROVE u[i] \in ToSet(s) \cup ToSet(t)
  <2>1. CASE i \in 1 .. k
    BY <1>2, <1>3, <2>1 DEF ToSet
  <2>2. CASE i \notin 1 .. k
    <3>1. i \in k + 1 .. k + l /\ i - k \in 1 .. l
      BY <1>2, <2>2
    <3> QED
      BY <1>2, <1>3, <3>1 DEF ToSet
  <2> QED
    BY <2>1, <2>2
<1>6. ASSUME NEW i \in 1 .. k PROVE s[i] \in ToSet(u)
  <2>1. i \in 1 .. k + l /\ u[i] = s[i]
    BY <1>2, <1>3
  <2> QED
    BY <1>3, <2>1 DEF ToSet
<1>7. ASSUME NEW i \in 1 .. l PROVE t[i] \in ToSet(u)
  BY <1>3, <1>4 DEF ToSet
<1>8. ToSet(u) \subseteq ToSet(s) \cup ToSet(t)
  <2>1. ASSUME NEW x \in ToSet(u) PROVE x \in ToSet(s) \cup ToSet(t)
    <3>1. PICK i \in 1 .. k + l : x = u[i]
      BY <1>3, <2>1 DEF ToSet
    <3> QED
      BY <1>5, <3>1
  <2> QED
    BY <2>1
<1>9. ToSet(s) \subseteq ToSet(u)
  <2>1. ASSUME NEW x \in ToSet(s) PROVE x \in ToSet(u)
    <3>1. PICK i \in 1 .. k : x = s[i]
      BY <1>2, <2>1 DEF ToSet
    <3> QED
      BY <1>6, <3>1
  <2> QED
    BY <2>1
<1>10. ToSet(t) \subseteq ToSet(u)
  <2>1. ASSUME NEW x \in ToSet(t) PROVE x \in ToSet(u)
    <3>1. PICK i \in 1 .. l : x = t[i]
      BY <1>2, <2>1 DEF ToSet
    <3> QED
      BY <1>7, <3>1
  <2> QED
    BY <2>1
<1> QED
  BY <1>1, <1>8, <1>9, <1>10

(* A connection that fits still does when others were answered short. *)
LEMMA ShorterFits ==
    ASSUME NEW S, NEW F, NEW U, NEW fd, NEW s, NEW b, NEW m, NEW m2, m2.mixed = m.mixed, m.short \subseteq m2.short
    PROVE  StillFits(S, F, U, fd, s, b, m, s, b, m2)
<1>1. Own(s, m) => Own(s, m2)
  BY DEF Own
<1>2. Even(s, m) => Even(s, m2)
  BY <1>1 DEF Even
<1>3. \A n : Due(s, n, b, m) => Due(s, n, b, m2)
  BY <1>1 DEF Due
<1>4. \A o : OpFits(o, s, b, m) => OpFits(o, s, b, m2)
  BY <1>2, <1>3, Zenon DEF OpFits
<1>5. \A x : CqeFits(x, s, b, m) => CqeFits(x, s, b, m2)
  BY <1>2, <1>3, Zenon DEF CqeFits
<1>6. NoneFits(s, m) => NoneFits(s, m2)
  BY <1>1, Zenon DEF NoneFits
<1> QED
  BY <1>4, <1>5, <1>6, Zenon DEF StillFits

(* A send completes: the connection is answered what it was due, or a part *)
(* of it, and is then one that was answered short.                         *)
LEMMA CompleteWriteKeeps ==
    ASSUME RingInv, NEW o \in flight, NEW n \in 1 .. o.len, CompleteWrite(o, n)
    PROVE  RingInv'
<1>1. PICK O, fd, s, m, m2 : O = Seq(Items) /\ fd = o.fd /\ s = sock[fd] /\ m = Faults /\ m2 = Faults'
  OBVIOUS
<1>2. o.event = "write" /\ shared' = shared /\ mixed' = mixed /\ backlog' = backlog
  BY DEF CompleteWrite
<1>0. /\ m.mixed = mixed /\ m2.mixed = m.mixed /\ m.short \subseteq m2.short
      /\ (n < o.len => s.id \in m2.short) /\ (~(n < o.len) => m2.short = m.short)
  <2>1. short' = IF n < o.len THEN short \cup {s.id} ELSE short
    BY <1>1 DEF CompleteWrite
  <2> QED
    BY <1>1, <1>2, <2>1 DEF Faults
<1>3. o \in Ops /\ o.len \in Int /\ fd \in Clients
  BY <1>1, <1>2, OpFields DEF RingInv
<1>4. KernelInv(O) /\ shared \in O /\ mixed \in BOOLEAN
  BY <1>1 DEF RingInv
<1>5. s \in Socks(O) /\ s.out \in O /\ s.got \in O /\ s.peer \in Peers
  <2>1. s \in Socks(O)
    BY <1>1, <1>3, <1>4 DEF KernelInv, SocksOK
  <2> QED
    BY <1>1, <2>1, SockFields
<1>6. OpFits(o, s, shared, Faults)
  <2>1. Turn(sq, flight, Unhandled, fd, s, shared, Faults)
    BY <1>1, <1>3 DEF RingInv
  <2> QED
    BY <1>1, <2>1, TurnIs
<1>7. s.id # 0 /\ o.len \in 1 .. Len(shared) /\ (~m.mixed => Due(s, o.len, shared, m))
  BY <1>1, <1>2, <1>6, Zenon DEF OpFits
<1>8. PICK r \in Int : r = IF SendKills(s) THEN -1 ELSE n
  BY <1>3
<1>9. PICK x : x = [op |-> o, res |-> r]
  OBVIOUS
<1>10. x \in Cqes /\ x.op = o
  BY <1>2, <1>3, <1>9, CqeTyped
<1>11. PICK p \in Peers : p = AfterSend(s) /\ (p = "open" => s.peer = "open")
  BY <1>5, AfterSendPeer
<1>12. PICK d \in O : d = SubSeq(shared, 1, n)
  <2>1. \A i \in 1 .. Len(shared) : shared[i] \in Items
    BY <1>1, <1>4, ElementOfSeq
  <2>2. Len(shared) \in Nat
    BY <1>1, <1>4, LenProperties
  <2>3. 1 \in Int /\ n \in Int /\ \A i \in 1 .. n : shared[i] \in Items
    BY <1>7, <2>1, <2>2
  <2>4. SubSeq(shared, 1, n) \in Seq(Items)
    BY <2>3, SubSeqProperties
  <2> QED
    BY <1>1, <2>4
<1>13. PICK w \in O : w = IF s.peer = "open" THEN s.out \o d ELSE s.out
  <2>1. s.out \o d \in O
    BY <1>1, <1>5, <1>12, ConcatProperties
  <2> QED
    BY <1>5, <2>1
<1>14. PICK t : t = WrittenTo(s, p, w)
  OBVIOUS
<1>15. t \in Socks(O) /\ t.id = s.id /\ t.got = s.got /\ t.out = w /\ t.peer = p
  <2>1. s \in Socks(O)
    BY <1>5
  <2> QED
    BY ONLY <1>14, <2>1, p \in Peers, w \in O, SockWritten
<1>16. sock' = [sock EXCEPT ![fd] = t] /\ Completed(o, r)
  <2>1. sock' = [sock EXCEPT ![fd].peer = AfterSend(s), ![fd].out = IF s.peer = "open" THEN @ \o SubSeq(shared, 1, n) ELSE @]
    BY <1>1 DEF CompleteWrite
  <2>2. Completed(o, r)
    BY <1>1, <1>8 DEF CompleteWrite
  <2>3. sock \in [Clients -> Socks(O)]
    BY <1>4 DEF KernelInv, SocksOK
  <2> QED
    BY <1>1, <1>3, <1>11, <1>12, <1>13, <1>14, <2>1, <2>2, <2>3 DEF WrittenTo
<1>17. KernelInv(O) /\ born' \in Nat /\ backlog' \in 0 .. born' /\ (t.id = 0 => t = Free)
  BY <1>2, <1>4, <1>7, <1>15, <1>16 DEF KernelInv, Completed
<1>18. sock' = [sock EXCEPT ![fd] = t]
  BY <1>16
<1>19. KernelInv(O)' /\ \A g \in Clients : sock'[g] = IF g = fd THEN t ELSE sock[g]
  <2>1. fd \in Clients /\ t \in Socks(O)
    BY <1>3, <1>15
  <2> QED
    BY ONLY <1>17, <1>18, <2>1, SockStep, ZenonT(30)
<1>20. CqeFits(x, t, shared, m2)
  <2>1. ASSUME ~m2.mixed PROVE Even(t, m2)
    <3>1. PICK e : e = SubSeq(shared, 1, o.len)
      OBVIOUS
    <3>2. /\ ToSet(s.out) \subseteq ToSet(s.got) /\ ToSet(e) \subseteq ToSet(s.got)
          /\ s.id \notin m.short => IsPrefix(s.out, s.got) /\ (s.peer = "open" => s.out \o e = s.got)
      BY <1>0, <1>7, <2>1, <3>1 DEF Due, Own
    <3>3. ToSet(w) \subseteq ToSet(s.got)
      <4>1. ToSet(d) \subseteq ToSet(e)
        BY <1>1, <1>4, <1>7, <1>12, <3>1, ElementsOf
      <4>2. CASE s.peer # "open"
        BY <1>13, <3>2, <4>2
      <4>3. CASE s.peer = "open"
        <5>1. ToSet(s.out \o d) = ToSet(s.out) \cup ToSet(d)
          <6>1. s.out \in Seq(Items) /\ d \in Seq(Items)
            BY <1>1, <1>5, <1>12
          <6> QED
            BY <6>1, ElementsJoined
        <5> QED
          BY <1>13, <3>2, <4>1, <4>3, <5>1
      <4> QED
        BY <4>2, <4>3
    <3>4. ASSUME s.id \notin m2.short PROVE IsPrefix(w, s.got) /\ (p = "open" => w = s.got)
      <4>1. d = e /\ s.id \notin m.short
        BY <1>0, <1>3, <1>12, <3>1, <3>4
      <4>2. IsPrefix(s.got, s.got)
        BY <1>1, <1>5, PrefixSelf
      <4> QED
        BY <1>11, <1>13, <3>2, <4>1, <4>2
    <3> QED
      BY <1>15, <3>3, <3>4, Zenon DEF Even, Own
  <2> QED
    BY <1>2, <1>7, <1>10, <1>15, <2>1 DEF CqeFits
<1>21. ASSUME NEW g \in Clients
       PROVE  Finishes(o, x, g, sq, flight, Unhandled, sock[g], shared, Faults, sock'[g], shared', Faults')
  <2>1. Holds(x, g) <=> g = fd
    BY <1>1, <1>2, <1>10 DEF Holds
  <2>2. CASE g = fd
    <3>1. Holds(x, g) /\ CqeFits(x, sock'[g], shared', Faults') /\ o.fd = g
      BY <1>1, <1>2, <1>19, <1>20, <2>1, <2>2
    <3> QED
      BY <3>1, Zenon DEF Finishes
  <2>3. CASE g # fd
    <3>1. StillFits(sq, flight, Unhandled, g, sock[g], shared, m, sock[g], shared, m2)
      BY <1>0, ShorterFits
    <3>2. StillFits(sq, flight, Unhandled, g, sock[g], shared, Faults, sock'[g], shared', Faults')
      BY <1>1, <1>2, <1>19, <2>3, <3>1
    <3> QED
      BY <2>1, <2>3, <3>2, Zenon DEF Finishes
  <2> QED
    BY <2>2, <2>3
<1>22. KernelInv(Seq(Items))' /\ shared' \in Seq(Items) /\ mixed' \in BOOLEAN
  BY <1>1, <1>2, <1>4, <1>19
<1> QED
  BY <1>9, <1>10, <1>16, <1>21, <1>22, CompletedKeeps

(* recv writes the n bytes q over the head of the buffer b, which never    *)
(* gets shorter.                                                           *)
Overwritten(I, q, n, b, c) ==
    /\ c \in Seq(I) /\ Len(c) \in Nat /\ n <= Len(c) /\ Len(b) <= Len(c)
    /\ n = 0 => c = b
    /\ n > 0 => SubSeq(c, 1, n) = q
(* So does recv. *)
LEMMA BufferTaken ==
    ASSUME NEW I, NEW q \in Seq(I), NEW b \in Seq(I), NEW n, n = Len(q), NEW c, c = q \o SubSeq(b, n + 1, Len(b))
    PROVE  Overwritten(I, q, n, b, c)
<1>1. n \in Nat /\ Len(b) \in Nat
  BY LenProperties
<1>2. PICK w : w = SubSeq(b, n + 1, Len(b))
  OBVIOUS
<1>3. w \in Seq(I) /\ Len(w) >= Len(b) - n /\ Len(w) \in Nat
  <2>1. CASE n <= Len(b)
    <3>1. n \in 0 .. Len(b)
      BY <1>1, <2>1
    <3>2. w \in Seq(I) /\ Len(w) = Len(b) - n
      BY <1>2, <3>1, EndOf
    <3> QED
      BY <3>2, LenProperties
  <2>2. CASE ~(n <= Len(b))
    <3>1. w = <<>>
      BY <1>1, <1>2, <2>2, SubSeqEmpty
    <3> QED
      BY <1>1, <2>2, <3>1, EmptySeq
  <2> QED
    BY <2>1, <2>2
<1>4. c \in Seq(I) /\ Len(c) = n + Len(w)
  BY <1>2, <1>3, ConcatProperties
<1>5. n > 0 => SubSeq(c, 1, n) = q
  <2>1. SUFFICES ASSUME n > 0 PROVE SubSeq(c, 1, n) = q
    OBVIOUS
  <2>2. 1 \in 1 .. Len(q) /\ n \in 1 .. Len(q)
    BY <1>1, <2>1
  <2>3. SubSeq(q \o w, 1, n) = SubSeq(q, 1, n)
    BY <1>3, <2>2, SubSeqOfConcat1
  <2>4. SubSeq(q, 1, n) = q
    BY SubSeqFull
  <2> QED
    BY <1>2, <2>3, <2>4
<1>6. n = 0 => c = b
  <2>1. SUFFICES ASSUME n = 0 PROVE c = b
    OBVIOUS
  <2>2. q = <<>>
    BY <2>1, EmptySeq
  <2>3. w = SubSeq(b, 1, Len(b))
    BY <1>2, <2>1
  <2>4. w = b
    BY <2>3, SubSeqFull
  <2> QED
    BY <1>2, <2>2, <2>4, ConcatEmptySeq
<1> QED
  BY <1>1, <1>3, <1>4, <1>5, <1>6 DEF Overwritten

(* What is not handled yet is in the batch or in the queue. *)
Within(U, b, k, q, p) ==
    \A i \in DOMAIN U : (\E j \in DOMAIN q : U[i] = q[j]) \/ (p = "batch" /\ \E j \in k .. Len(b) : U[i] = b[j])
(* Every completion that is not handled yet is in one of them. *)
LEMMA UnhandledWithin ==
    ASSUME NEW p, NEW b, NEW k, NEW q \in Seq(Cqes), BatchOK(p, b, k, q), NEW U, U = UnhandledOf(p, b, k, q)
    PROVE  Within(U, b, k, q, p)
<1>1. PICK C : C = Cqes /\ q \in Seq(C)
  OBVIOUS
<1>2. CASE p # "batch"
  BY <1>2 DEF UnhandledOf, Within
<1>3. CASE p = "batch"
  <2>1. b \in Seq(C) /\ k \in 1 .. Len(b) /\ BatchOK("batch", b, k, q)
    BY <1>1, <1>3 DEF BatchOK
  <2>2. PICK n \in Nat : n = Len(b) /\ k \in 1 .. n
    BY <2>1, LenProperties
  <2>3. PICK w : w = Behind(b, k, q)
    OBVIOUS
  <2>4. w \in Seq(C) /\ \A i \in 1 .. Len(w) : \E j \in DOMAIN q : w[i] = q[j]
    <3>1. CASE AllFailed(b, k)
      <4>1. w = SubSeq(q, n + 1, Len(q)) /\ n \in 0 .. Len(q)
        <5>1. Len(b) \in 0 .. Len(q)
          BY <1>1, <2>1, <3>1, BehindTyped
        <5> QED
          BY <2>2, <2>3, <3>1, <5>1 DEF Behind
      <4>2. w \in Seq(C) /\ Len(w) = Len(q) - n /\ \A i \in 1 .. Len(q) - n : w[i] = q[n + i]
        BY <1>1, <4>1, EndOf
      <4>3. DOMAIN q = 1 .. Len(q) /\ Len(q) \in Nat
        BY <1>1, LenProperties
      <4>4. \A i \in 1 .. Len(q) - n : n + i \in 1 .. Len(q)
        BY <4>1, <4>3
      <4> QED
        BY <4>2, <4>3, <4>4
    <3>2. CASE ~AllFailed(b, k)
      <4>1. w = q
        BY <2>3, <3>2 DEF Behind
      <4>2. DOMAIN q = 1 .. Len(q)
        BY <1>1, LenProperties
      <4> QED
        BY <1>1, <4>1, <4>2
    <3> QED
      BY <3>1, <3>2
  <2>5. PICK v : v = SubSeq(b, k, n)
    OBVIOUS
  <2>6. v \in Seq(C) /\ Len(v) = n - k + 1 /\ \A i \in 1 .. n - k + 1 : v[i] = b[k + i - 1]
    <3>1. k - 1 \in 0 .. Len(b) /\ (k - 1) + 1 = k
      BY <2>2
    <3>2. PICK a : a = k - 1
      OBVIOUS
    <3>3. a \in 0 .. Len(b) /\ v = SubSeq(b, a + 1, Len(b))
      BY <2>2, <2>5, <3>1, <3>2
    <3>4. v \in Seq(C) /\ Len(v) = Len(b) - a /\ \A i \in 1 .. Len(b) - a : v[i] = b[a + i]
      BY <2>1, <3>3, EndOf
    <3>5. Len(b) - a = n - k + 1 /\ \A i \in 1 .. n - k + 1 : a + i = k + i - 1
      BY <2>2, <3>2
    <3> QED
      BY <3>4, <3>5
  <2>7. U = v \o w
    BY <1>3, <2>2, <2>3, <2>5 DEF UnhandledOf, Rest
  <2>8. PICK l \in Nat, z \in Nat : l = Len(v) /\ z = Len(w)
    BY <2>4, <2>6, LenProperties
  <2>9. /\ DOMAIN U = 1 .. l + z /\ (\A i \in 1 .. l : U[i] = v[i]) /\ \A i \in 1 .. z : U[l + i] = w[i]
    <3>1. U \in Seq(C) /\ Len(U) = l + z /\ (\A i \in 1 .. l : U[i] = v[i]) /\ \A i \in 1 .. z : U[l + i] = w[i]
      <4>1. v \in Seq(C) /\ w \in Seq(C)
        BY <2>4, <2>6
      <4>2. /\ v \o w \in Seq(C) /\ Len(v \o w) = Len(v) + Len(w)
            /\ (\A i \in 1 .. Len(v) : (v \o w)[i] = v[i]) /\ \A i \in 1 .. Len(w) : (v \o w)[Len(v) + i] = w[i]
        BY ONLY <4>1, ConcatProperties
      <4> QED
        BY <2>7, <2>8, <4>2
    <3> QED
      BY <3>1, LenProperties
  <2>10. ASSUME NEW i \in DOMAIN U
         PROVE  (\E j \in DOMAIN q : U[i] = q[j]) \/ (\E j \in k .. n : U[i] = b[j])
    <3>1. CASE i \in 1 .. l
      <4>1. k + i - 1 \in k .. n /\ U[i] = b[k + i - 1]
        <5>1. i \in 1 .. n - k + 1 /\ U[i] = v[i]
          BY <2>6, <2>8, <2>9, <3>1
        <5>2. v[i] = b[k + i - 1]
          BY <2>6, <5>1
        <5>3. k + i - 1 \in k .. n
          BY <2>2, <5>1
        <5> QED
          BY <5>1, <5>2, <5>3
      <4> QED
        BY <4>1
    <3>2. CASE i \notin 1 .. l
      <4>1. PICK m \in 1 .. z : i = l + m
        <5>1. i - l \in 1 .. z /\ i = l + (i - l)
          BY <2>8, <2>9, <3>2
        <5> QED
          BY <5>1
      <4>2. U[i] = w[m]
        BY <2>9, <4>1
      <4> QED
        BY <2>4, <2>8, <4>2
    <3> QED
      BY <3>1, <3>2
  <2> QED
    BY <1>3, <2>2, <2>10 DEF Within
<1> QED
  BY <1>2, <1>3

(* Nothing of the buffer is due to be sent to g. *)
NoneDue(S, F, U, g) ==
    /\ \A o \in S \cup F : o.fd = g => o.event # "write"
    /\ \A i \in DOMAIN U : Holds(U[i], g) => ~(U[i].op.event = "read" /\ U[i].res > 0)

(* A connection that waits for none of the buffer does not mind that the   *)
(* buffer is overwritten; what the others wait for is then mixed.          *)
LEMMA OverwriteFits ==
    ASSUME NEW S, NEW F, NEW U \in Seq(Cqes), NEW g, NEW s, NEW b, NEW c, NEW m, NEW m2, m2.short = m.short,
           Len(b) \in Nat, Len(c) \in Nat, Len(b) <= Len(c), m.mixed => m2.mixed, m2.mixed \/ NoneDue(S, F, U, g)
    PROVE  StillFits(S, F, U, g, s, b, m, s, c, m2)
<1>0. (Own(s, m) => Own(s, m2)) /\ (Even(s, m) => Even(s, m2))
  BY Zenon DEF Even, Own
<1>1. ASSUME NEW o \in S \cup F, o.fd = g, OpFits(o, s, b, m) PROVE OpFits(o, s, c, m2)
  <2>1. s.id # 0 /\ (o.event = "write" => o.len \in 1 .. Len(b)) /\ (~m.mixed => IF o.event = "write" THEN Due(s, o.len, b, m) ELSE Even(s, m))
    BY <1>1, Zenon DEF OpFits
  <2>2. o.event = "write" => o.len \in 1 .. Len(c)
    BY <2>1
  <2>3. ~m2.mixed => ~m.mixed /\ o.event # "write"
    BY <1>1, Zenon DEF NoneDue
  <2>4. ~m2.mixed => IF o.event = "write" THEN Due(s, o.len, c, m2) ELSE Even(s, m2)
    BY <1>0, <2>1, <2>3, Zenon
  <2> QED
    BY <2>1, <2>2, <2>4, Zenon DEF OpFits
<1>2. ASSUME NEW i \in DOMAIN U, Holds(U[i], g), CqeFits(U[i], s, b, m) PROVE CqeFits(U[i], s, c, m2)
  <2>1. PICK x : x = U[i]
    OBVIOUS
  <2>2. /\ s.id # 0 /\ (x.op.event = "read" => x.res <= Len(b)) /\ (x.op.event = "read" /\ x.res < 0 => s.peer = "dead")
        /\ ~m.mixed => IF x.op.event = "read" /\ x.res > 0 THEN Due(s, x.res, b, m) ELSE Even(s, m)
    BY <1>2, <2>1, Zenon DEF CqeFits
  <2>3. x.res \in Int
    <3>1. x \in Cqes
      BY <2>1, ElementOfSeq, LenProperties
    <3> QED
      BY <3>1, CqeFields
  <2>4. x.op.event = "read" => x.res <= Len(c)
    BY <2>2, <2>3
  <2>5. ~m2.mixed => ~m.mixed /\ ~(x.op.event = "read" /\ x.res > 0)
    BY <1>2, <2>1, Zenon DEF NoneDue
  <2>6. ~m2.mixed => IF x.op.event = "read" /\ x.res > 0 THEN Due(s, x.res, c, m2) ELSE Even(s, m2)
    BY <1>0, <2>2, <2>5, Zenon
  <2>7. CqeFits(x, s, c, m2)
    BY <2>2, <2>4, <2>6, Zenon DEF CqeFits
  <2> QED
    BY <2>1, <2>7
<1>3. NoneFits(s, m) => NoneFits(s, m2)
  BY <1>0, Zenon DEF NoneFits
<1> QED
  BY <1>1, <1>2, <1>3, Zenon DEF StillFits

(* What is due to another connection than fd is what Waiting finds. *)
LEMMA NoneWaiting ==
    ASSUME RingInv, NEW fd \in Clients, ~Waiting(fd), NEW g \in Clients, g # fd, NEW U, U = Unhandled
    PROVE  NoneDue(sq, flight, U, g)
<1>1. /\ \A o \in sq \cup flight : ~(o.event = "write" /\ o.fd # fd)
      /\ \A i \in DOMAIN cq : ~(cq[i].op.event = "read" /\ cq[i].res > 0 /\ cq[i].op.fd # fd)
      /\ pc = "batch" => \A i \in next .. Len(batch) : ~(batch[i].op.event = "read" /\ batch[i].res > 0 /\ batch[i].op.fd # fd)
  BY Zenon DEF Waiting
<1>2. Within(U, batch, next, cq, pc)
  <2>1. PICK p, b, k, q : p = pc /\ b = batch /\ k = next /\ q = cq
    OBVIOUS
  <2>2. q \in Seq(Cqes) /\ BatchOK(p, b, k, q) /\ U = UnhandledOf(p, b, k, q)
    BY <2>1, UnhandledIs DEF RingInv
  <2>3. Within(U, b, k, q, p)
    BY ONLY <2>2, UnhandledWithin
  <2> QED
    BY <2>1, <2>3
<1>3. ASSUME NEW i \in DOMAIN U, Holds(U[i], g), U[i].op.event = "read", U[i].res > 0 PROVE FALSE
  <2>1. PICK x : x = U[i]
    OBVIOUS
  <2>2. x.op.fd = g /\ x.op.event = "read" /\ x.res > 0
    BY <1>3, <2>1 DEF Holds
  <2>3. (\E j \in DOMAIN cq : x = cq[j]) \/ (pc = "batch" /\ \E j \in next .. Len(batch) : x = batch[j])
    BY <1>2, <2>1, Zenon DEF Within
  <2> QED
    BY <1>1, <2>2, <2>3, Zenon
<1> QED
  BY <1>1, <1>3 DEF NoneDue

(* A prefix stays one when the sequence grows. *)
LEMMA PrefixLonger ==
    ASSUME NEW S, NEW s \in Seq(S), NEW t \in Seq(S), NEW u \in Seq(S), IsPrefix(s, t), NEW v, v = t \o u
    PROVE  IsPrefix(s, v)
<1>1. v \in Seq(S) /\ Len(v) = Len(t) + Len(u) /\ (\A i \in 1 .. Len(t) : v[i] = t[i]) /\ Len(s) \in Nat /\ Len(t) \in Nat /\ Len(u) \in Nat
  BY ConcatProperties, LenProperties
<1>2. Len(s) <= Len(t) /\ \A i \in 1 .. Len(s) : s[i] = t[i]
  BY PrefixIs
<1>3. Len(s) <= Len(v) /\ \A i \in 1 .. Len(s) : s[i] = v[i]
  BY <1>1, <1>2
<1> QED
  BY <1>1, <1>3, PrefixIs

(* A recv completes: into the buffer with all that has come, or with an    *)
(* error that no other call will report.                                   *)
LEMMA CompleteReadKeeps ==
    ASSUME RingInv, NEW fd \in Clients, CompleteRead(fd)
    PROVE  RingInv'
<1>1. PICK O, o, s, n, q : O = Seq(Items) /\ o = RecvOp(fd) /\ s = sock[fd] /\ q = s.inq /\ n = Len(q)
  OBVIOUS
<1>2. PICK r : r = IF RecvFails(s) THEN -1 ELSE n
  OBVIOUS
<1>3. PICK t : t = IF RecvFails(s) THEN [s EXCEPT !.peer = "dead"] ELSE Taken(s, n)
  OBVIOUS
<1>4. PICK b, c, m, m2 : b = shared /\ c = shared' /\ m = Faults /\ m2 = Faults'
  OBVIOUS
<1>5. /\ o \in flight /\ Completed(o, r) /\ sock' = [sock EXCEPT ![fd] = t]
      /\ c = q \o SubSeq(b, n + 1, Len(b)) /\ backlog' = backlog
      /\ mixed' = (mixed \/ (n > 0 /\ Waiting(fd))) /\ short' = short
  BY <1>1, <1>2, <1>3, <1>4 DEF CompleteRead
<1>6. o \in Ops /\ o.event = "read" /\ o.fd = fd
  BY <1>1, OpTyped, Descriptors DEF RecvOp
<1>7. KernelInv(O) /\ b \in O /\ mixed \in BOOLEAN
  BY <1>1, <1>4 DEF RingInv
<1>8. s \in Socks(O)
  BY <1>1, <1>7 DEF KernelInv, SocksOK
<1>9. q \in Seq(Items) /\ s.out \in Seq(Items) /\ s.got \in Seq(Items) /\ n \in Nat
  BY <1>1, <1>8, SockFields, LenProperties
<1>10. s.id # 0 /\ (~m.mixed => Even(s, m))
  <2>1. Turn(sq, flight, Unhandled, fd, s, b, m)
    BY <1>1, <1>4 DEF RingInv
  <2>2. OpFits(o, s, b, m)
    BY <1>5, <1>6, <2>1, TurnIs
  <2> QED
    BY <1>6, <2>2 DEF OpFits
<1>11. Overwritten(Items, q, n, b, c)
  <2>1. b \in Seq(Items)
    BY <1>1, <1>7
  <2>2. n = Len(q) /\ c = q \o SubSeq(b, n + 1, Len(b)) /\ q \in Seq(Items)
    BY <1>1, <1>5, <1>9
  <2> QED
    BY ONLY <2>1, <2>2, BufferTaken
<1>12. PICK x : x = [op |-> o, res |-> r]
  OBVIOUS
<1>13. r \in Int /\ x \in Cqes /\ x.op = o /\ x.res = r
  <2>1. r \in Int
    BY <1>2, <1>9
  <2> QED
    BY <1>6, <1>12, <2>1, CqeTyped, Descriptors
<1>14. /\ mixed' \in BOOLEAN /\ m2.short = m.short /\ (m.mixed => m2.mixed) /\ (n > 0 /\ Waiting(fd) => m2.mixed)
       /\ n = 0 => m2 = m
  <2>1. m = [mixed |-> mixed, short |-> short] /\ m2 = [mixed |-> mixed', short |-> short']
    BY <1>4 DEF Faults
  <2>2. m.mixed = mixed /\ m.short = short /\ m2.mixed = mixed' /\ m2.short = short'
    BY <2>1
  <2>3. mixed' \in BOOLEAN /\ (mixed => mixed') /\ (n > 0 /\ Waiting(fd) => mixed') /\ (n = 0 => mixed' = mixed)
    <3>1. mixed' = (mixed \/ (n > 0 /\ Waiting(fd))) /\ mixed \in BOOLEAN
      BY <1>5, <1>7
    <3>2. n = 0 => ~(n > 0)
      OBVIOUS
    <3>3. mixed' \in BOOLEAN
      BY <3>1
    <3> QED
      BY <3>1, <3>2, <3>3, Zenon
  <2> QED
    BY <1>5, <2>1, <2>2, <2>3
<1>15. t \in Socks(O) /\ t.id = s.id /\ CqeFits(x, t, c, m2)
  <2>1. CASE RecvFails(s)
    <3>1. n = 0 /\ r = -1
      BY <1>1, <1>2, <2>1, EmptySeq DEF RecvFails
    <3>2. t = [s EXCEPT !.peer = "dead"] /\ "dead" \in Peers
      BY <1>3, <2>1 DEF Peers
    <3>3. t \in Socks(O) /\ t.id = s.id /\ t.got = s.got /\ t.out = s.out /\ t.peer = "dead"
      BY <1>8, <3>2, SockPeer
    <3>4. ~m2.mixed => Even(t, m2)
      BY <1>10, <1>14, <3>3, Zenon DEF Even, Own
    <3>5. Len(c) \in Nat
      BY <1>11 DEF Overwritten
    <3>6. -1 <= Len(c) /\ ~(-1 > 0)
      BY <3>5
    <3> QED
      BY <1>10, <1>13, <3>1, <3>3, <3>4, <3>6 DEF CqeFits
  <2>2. CASE ~RecvFails(s)
    <3>1. r = n /\ t = Taken(s, n) /\ n \in 0 .. Len(s.inq)
      BY <1>1, <1>2, <1>3, <1>9, <2>2
    <3>2. TakenFrom(O, s, n, t)
      BY <1>8, <3>1, TakenFields
    <3>3. SubSeq(s.inq, 1, n) = q
      BY <1>1, <1>9, SubSeqFull
    <3>4. t \in Socks(O) /\ t.id = s.id /\ t.out = s.out /\ t.peer = s.peer /\ t.got = s.got \o q
      BY <3>2, <3>3, Zenon DEF TakenFrom
    <3>5. n <= Len(c) /\ (n > 0 => SubSeq(c, 1, n) = q)
      BY <1>11, Zenon DEF Overwritten
    <3>6. ASSUME ~m2.mixed PROVE IF n > 0 THEN Due(t, n, c, m2) ELSE Even(t, m2)
      <4>1. /\ ToSet(s.out) \subseteq ToSet(s.got)
            /\ s.id \notin m2.short => IsPrefix(s.out, s.got) /\ (s.peer = "open" => s.out = s.got)
        BY <1>10, <1>14, <3>6, Zenon DEF Even, Own
      <4>2. ToSet(t.got) = ToSet(s.got) \cup ToSet(q)
        BY <1>9, <3>4, ElementsJoined
      <4>3. Own(t, m2)
        <5>1. s.id \notin m2.short => IsPrefix(s.out, t.got)
          BY <1>9, <3>4, <4>1, PrefixLonger
        <5> QED
          BY <3>4, <4>1, <4>2, <5>1 DEF Own
      <4>4. CASE n > 0
        <5>1. SubSeq(c, 1, n) = q
          BY <3>5, <4>4
        <5>2. t.id \notin m2.short /\ t.peer = "open" => t.out \o q = t.got
          BY <3>4, <4>1
        <5> QED
          BY <4>2, <4>3, <4>4, <5>1, <5>2 DEF Due
      <4>5. CASE ~(n > 0)
        <5>1. q = <<>>
          BY <1>1, <1>9, <4>5, EmptySeq
        <5>2. t.got = s.got
          BY <1>9, <3>4, <5>1, ConcatEmptySeq
        <5>3. Even(t, m2)
          BY <3>4, <4>1, <4>3, <5>2, Zenon DEF Even
        <5> QED
          BY <4>5, <5>3
      <4> QED
        BY <4>4, <4>5
    <3>7. ~(n < 0)
      BY <1>9
    <3> QED
      BY <1>6, <1>10, <1>13, <3>1, <3>4, <3>5, <3>6, <3>7, Zenon DEF CqeFits
  <2> QED
    BY <2>1, <2>2
<1>16. KernelInv(O) /\ born' \in Nat /\ backlog' \in 0 .. born' /\ (t.id = 0 => t = Free)
  BY <1>5, <1>7, <1>10, <1>15 DEF KernelInv, Completed
<1>17. sock' = [sock EXCEPT ![fd] = t]
  BY <1>5
<1>18. KernelInv(O)' /\ \A g \in Clients : sock'[g] = IF g = fd THEN t ELSE sock[g]
  <2>1. fd \in Clients /\ t \in Socks(O)
    BY <1>15
  <2> QED
    BY ONLY <1>16, <1>17, <2>1, SockStep
<1>19. ASSUME NEW g \in Clients
       PROVE  Finishes(o, x, g, sq, flight, Unhandled, sock[g], shared, Faults, sock'[g], shared', Faults')
  <2>1. Holds(x, g) <=> g = fd
    BY <1>6, <1>13 DEF Holds
  <2>2. CASE g = fd
    <3>1. Holds(x, g) /\ CqeFits(x, sock'[g], shared', Faults') /\ o.fd = g
      BY <1>4, <1>6, <1>15, <1>18, <2>1, <2>2
    <3> QED
      BY <3>1, Zenon DEF Finishes
  <2>3. CASE g # fd
    <3>1. PICK S, F, U, z : S = sq /\ F = flight /\ U = Unhandled /\ z = sock[g]
      OBVIOUS
    <3>2. StillFits(S, F, U, g, z, b, m, z, c, m2)
      <4>1. CASE n = 0
        <5>1. c = b /\ m2 = m
          BY <1>11, <1>14, <4>1 DEF Overwritten
        <5> QED
          BY <5>1, SameFits
      <4>2. CASE n # 0
        <5>1. Len(b) \in Nat /\ Len(c) \in Nat /\ Len(b) <= Len(c)
          BY <1>1, <1>7, <1>11, LenProperties DEF Overwritten
        <5>2. m2.mixed \/ NoneDue(S, F, U, g)
          BY <1>9, <1>14, <2>3, <3>1, <4>2, NoneWaiting
        <5>3. U \in Seq(Cqes)
          <6>1. cq \in Seq(Cqes) /\ BatchOK(pc, batch, next, cq)
            BY DEF RingInv
          <6> QED
            BY <3>1, <6>1, UnhandledIs, UnhandledTyped
        <5>4. m2.short = m.short /\ (m.mixed => m2.mixed)
          BY <1>14
        <5> QED
          BY ONLY <5>1, <5>2, <5>3, <5>4, OverwriteFits
      <4> QED
        BY <4>1, <4>2
    <3>3. StillFits(sq, flight, Unhandled, g, sock[g], shared, Faults, sock'[g], shared', Faults')
      BY <1>4, <1>18, <2>3, <3>1, <3>2
    <3> QED
      BY <2>1, <2>3, <3>3, Zenon DEF Finishes
  <2> QED
    BY <2>2, <2>3
<1>20. KernelInv(Seq(Items))' /\ shared' \in Seq(Items) /\ mixed' \in BOOLEAN
  BY <1>1, <1>4, <1>11, <1>14, <1>18 DEF Overwritten
<1> QED
  BY <1>5, <1>12, <1>13, <1>19, <1>20, CompletedKeeps

(* Every step of the server, its kernel and its clients. *)
LEMMA UringStep ==
    ASSUME UringInv, UringNext
    PROVE  UringInv'
<1>1. CASE skipped
  <2>1. skipped' = skipped
    BY <1>1 DEF UringNext, Submit, Peek, HandleCqe, UringIdle, uringVars
  <2> QED
    BY <1>1, <2>1 DEF UringInv
<1>2. CASE ~skipped
  <2>1. RingInv
    BY <1>2 DEF UringInv
  <2>2. CASE HandleCqe
    <3>1. skipped' \in BOOLEAN
      BY <2>2 DEF HandleCqe
    <3> QED
      BY <2>1, <2>2, <3>1, HandleKeeps DEF UringInv
  <2>3. CASE ~HandleCqe
    <3>1. RingInv' /\ skipped' = skipped
      <4>1. CASE Submit
        BY <2>1, <4>1, SubmitKeeps DEF Submit
      <4>2. CASE Peek
        BY <2>1, <4>2, PeekKeeps DEF Peek
      <4>3. CASE CompleteAccept
        BY <2>1, <4>3, CompleteAcceptKeeps DEF CompleteAccept, Completed
      <4>4. ASSUME NEW o \in flight, NEW n \in 1 .. o.len, CompleteWrite(o, n) PROVE RingInv' /\ skipped' = skipped
        BY <2>1, <4>4, CompleteWriteKeeps DEF CompleteWrite, Completed
      <4>5. ASSUME NEW fd \in Clients, CompleteRead(fd) PROVE RingInv' /\ skipped' = skipped
        BY <2>1, <4>5, CompleteReadKeeps DEF CompleteRead, Completed
      <4>6. CASE ClientStep /\ UNCHANGED uringVars
        BY <2>1, <4>6, UringClientKeeps DEF uringVars
      <4>7. CASE UringIdle
        <5>1. UNCHANGED <<sq, flight, cq, pc, batch, next, shared, mixed, skipped, deaf, sock, backlog, born, Faults>>
          BY <4>7 DEF UringIdle, uringVars, socketVars, Faults
        <5>2. Unhandled' = Unhandled
          BY <5>1, UnhandledIs
        <5> QED
          BY <2>1, <5>1, <5>2 DEF RingInv, KernelInv, SocksOK
      <4> QED
        BY <2>3, <4>1, <4>2, <4>3, <4>4, <4>5, <4>6, <4>7, Zenon DEF UringNext
    <3> QED
      BY <1>2, <3>1 DEF UringInv
  <2> QED
    BY <2>2, <2>3
<1> QED
  BY <1>1, <1>2 DEF UringInv

(* Whichever server runs, its invariant holds. *)
ServersInv ==
    /\ Reactors => ReactorInv
    /\ program = "uring" => UringInv
    /\ Loops => PollInv

(* One program runs. *)
LEMMA ProgramsDiffer ==
    /\ Reactors => program # "uring" /\ ~Loops
    /\ Loops => program # "uring" /\ ~Reactors
    /\ program = "uring" => ~Reactors /\ ~Loops
BY DEF Reactors, Loops

(* No step changes which program runs. *)
LEMMA ProgramStays ==
    ASSUME ServersNext \/ UNCHANGED serverVars
    PROVE  program' = program
<1>1. CASE UNCHANGED serverVars
  BY <1>1 DEF serverVars, socketVars
<1>2. ASSUME ClientStep PROVE program' = program
  BY <1>2 DEF ClientStep
<1>3. CASE ReactorNext
  BY <1>2, <1>3, Zenon DEF ReactorNext, EpollWait, Callback, ReactorIdle, socketVars
<1>4. CASE UringNext
  <2>1. ASSUME NEW o, NEW r, Completed(o, r) PROVE program' = program
    BY <2>1 DEF Completed
  <2>2. CompleteAccept => program' = program
    BY <2>1, Zenon DEF CompleteAccept
  <2>3. ASSUME NEW o, NEW n, CompleteWrite(o, n) PROVE program' = program
    BY <2>1, <2>3, Zenon DEF CompleteWrite
  <2>4. ASSUME NEW fd, CompleteRead(fd) PROVE program' = program
    BY <2>1, <2>4, Zenon DEF CompleteRead
  <2>5. Submit \/ Peek \/ HandleCqe \/ UringIdle => program' = program
    BY Zenon DEF Submit, Peek, HandleCqe, UringIdle, socketVars
  <2> QED
    BY <1>2, <1>4, <2>2, <2>3, <2>4, <2>5, Zenon DEF UringNext
<1>5. CASE PollNext
  BY <1>2, <1>5, Zenon DEF PollNext, Wait, Accept, Scan, SendReturns, Read, PollIdle, socketVars
<1> QED
  BY <1>1, <1>3, <1>4, <1>5, Zenon DEF ServersNext

(* A step that changes nothing. *)
LEMMA ServersStay ==
    ASSUME ServersInv, UNCHANGED serverVars
    PROVE  ServersInv'
<1>1. UNCHANGED socketVars /\ UNCHANGED reactorVars /\ UNCHANGED uringVars /\ UNCHANGED pollVars
  BY DEF serverVars
<1>2. UNCHANGED <<program, sock, backlog, born, ready, died>>
  BY <1>1 DEF socketVars
<1>3. UNCHANGED <<sq, flight, cq, pc, batch, next, shared, mixed, skipped, deaf, Faults>>
  BY <1>1 DEF uringVars, Faults
<1>4. UNCHANGED <<watched, maxfd, accepted, sending>>
  BY <1>1 DEF pollVars
<1>5. ASSUME ReactorInv PROVE ReactorInv'
  <2>1. UNCHANGED <<program, sock, backlog, born, blocks, watch, ready, died>>
    BY <1>1, <1>2 DEF reactorVars
  <2>2. /\ ready' \subseteq Fds \X {"in", "out"} /\ (\A e \in ready' : watch[e[1]] = e[2])
        /\ (<<Listener, "in">> \in ready' => backlog > 0)
    BY <1>5, <2>1 DEF ReactorInv
  <2> QED
    BY <1>5, <2>1, <2>2, ReactorWaits
<1>6. ASSUME UringInv PROVE UringInv'
  <2>1. Unhandled' = Unhandled
    BY <1>3, UnhandledIs
  <2> QED
    BY <1>2, <1>3, <1>6, <2>1 DEF UringInv, RingInv, KernelInv, SocksOK
<1>7. ASSUME PollInv PROVE PollInv'
  BY <1>2, <1>4, <1>7 DEF PollInv, KernelInv, SocksOK, WatchedAreOpen, OpenFds, SendsOpen
<1>8. (Reactors' <=> Reactors) /\ (Loops' <=> Loops)
  BY <1>2 DEF Reactors, Loops
<1> QED
  BY <1>2, <1>5, <1>6, <1>7, <1>8 DEF ServersInv

(* Every step of every program. *)
LEMMA ServersStep ==
    ASSUME ServersInv, ServersNext
    PROVE  ServersInv'
<1>1. program' = program /\ (Reactors' <=> Reactors) /\ (Loops' <=> Loops)
  BY ProgramStays DEF Reactors, Loops
<1>2. CASE Reactors /\ ReactorNext
  <2>1. ReactorInv'
    BY <1>2, ReactorStep DEF ServersInv
  <2> QED
    BY <1>1, <1>2, <2>1, ProgramsDiffer DEF ServersInv
<1>3. CASE program = "uring" /\ UringNext
  <2>1. UringInv'
    BY <1>3, UringStep DEF ServersInv
  <2> QED
    BY <1>1, <1>3, <2>1, ProgramsDiffer DEF ServersInv
<1>4. CASE Loops /\ PollNext
  <2>1. PollInv'
    BY <1>4, PollStep DEF ServersInv
  <2> QED
    BY <1>1, <1>4, <2>1, ProgramsDiffer DEF ServersInv
<1> QED
  BY <1>2, <1>3, <1>4 DEF ServersNext

(* Every server keeps its invariant. *)
LEMMA ServersKeep == ServersSpec => []ServersInv
<1>1. ServersInit => ServersInv
  BY ReactorStarts, UringStarts, PollStarts DEF ServersInit, ServersInv
<1>2. ServersInv /\ [ServersNext]_serverVars => ServersInv'
  BY ServersStay, ServersStep
<1> QED
  BY <1>1, <1>2, PTL DEF ServersSpec

(* In each of the servers of "5. ..." the bookkeeping of descriptors       *)
(* agrees with what is open, in every interleaving with the clients and    *)
(* for every set of descriptors: the reactor's slots with the interest in  *)
(* epoll and the events still to be handled, the operations of the io_uring*)
(* server (as long as its head of the queue is right) with the open        *)
(* connections, what poll and epoll watch with the open descriptors.       *)
THEOREM DescriptorsStayRight == ServersSpec => []DescriptorsAgree
<1>1. ServersInv => DescriptorsAgree
  BY ReactorInvImplies, UringInvImplies DEF ServersInv, DescriptorsAgree, PollInv
<1> QED
  BY <1>1, ServersKeep, PTL

(* A client of the echo reactor is answered its own bytes, one of the http *)
(* reactor the resource of its own request line (if it asked with GET: the *)
(* parser leaves the slot's resource alone for another method), and one of *)
(* the io_uring server its own bytes in order, unless another connection's *)
(* came into the shared buffer before they were sent, or with some missing *)
(* after a short send: whatever slots, descriptors and buffers were used   *)
(* for before.                                                             *)
THEOREM AnswersAreOwn == ServersSpec => []OwnAnswer
<1>1. ServersInv => OwnAnswer
  BY ReactorInvImplies, UringInvImplies DEF ServersInv, OwnAnswer
<1> QED
  BY <1>1, ServersKeep, PTL
=============================================================================
