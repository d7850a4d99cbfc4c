----------------------------- MODULE DdosWindow -----------------------------
(***************************************************************************)
(* ddos_detect of tcp.c: the bit statistics of the last CAPTURE_WINDOWS    *)
(* packets are kept in arrays that are filled round and round, and once    *)
(* the window has been full for a packet the program exits when the sum of *)
(* the packets' entropies exceeds the entropy of the whole by tresh.       *)
(*                                                                         *)
(* A packet is abstracted to what the decision tells apart.  The excess of *)
(* entropy is a symmetric function of the window's entries: a "mixed"      *)
(* packet contributes to it and an "even" one does not.  The entropy of an *)
(* "odd" packet (no bit set, or all, or more than buf_len * 8 counted) is  *)
(* not a number, which makes the sum not a number and the comparison false.*)
(***************************************************************************)
EXTENDS Integers, Sequences, FiniteSets

CONSTANTS CaptureWindows,   \* CAPTURE_WINDOWS
          Threshold,        \* the number of mixed packets that exceeds tresh
          MaxPackets        \* bound: packets received

ASSUME WindowAssumption ==
    /\ CaptureWindows \in Nat \ {0}
    /\ Threshold \in Nat /\ MaxPackets \in Nat

VARIABLES window,    \* p_setbits, p_totbits and p_entropy, one entry per slot
          pktIdx,    \* pkt_idx
          alive,     \* FALSE after rte_exit
          seen       \* history: every packet given to ddos_detect

vars == <<window, pktIdx, alive, seen>>

Slots == 0 .. CaptureWindows - 1
Packets == {"even", "mixed", "odd"}

(* The static arrays are zero, which is the entry of no packet. *)
Zero == "zero"

Init ==
    /\ window = [i \in Slots |-> Zero]
    /\ pktIdx = 0
    /\ alive = TRUE
    /\ seen = <<>>

(* tresh < sum_entropy - entropy. *)
Attack(entries, slots) ==
    /\ \A i \in slots : entries[i] # "odd"
    /\ Cardinality({i \in slots : entries[i] = "mixed"}) >= Threshold

(* Mutant: the index falls back to the warm-up phase when it wraps. *)
NextIdxForgetful == (pktIdx + 1) % (2 * CaptureWindows)

(* Mutant: the index skips a slot each time round. *)
NextIdxSkips ==
    IF pktIdx >= CaptureWindows
    THEN ((pktIdx + 1) % CaptureWindows) + CaptureWindows + 1
    ELSE pktIdx + 1

(* From CAPTURE_WINDOWS on the index goes round above CAPTURE_WINDOWS, so  *)
(* that "full" is remembered and the int never overflows.                  *)
NextIdx ==
    IF pktIdx >= CaptureWindows
    THEN ((pktIdx + 1) % CaptureWindows) + CaptureWindows
    ELSE pktIdx + 1

Entered(p) == [window EXCEPT ![pktIdx % CaptureWindows] = p]

(* The window is full and looks like an attack. *)
Alarm(p) == pktIdx >= CaptureWindows /\ Attack(Entered(p), Slots)

(* ddos_detect(pkt): rte_exit does not return. *)
DdosDetect(p) ==
    /\ alive /\ Len(seen) < MaxPackets
    /\ window' = Entered(p)
    /\ seen' = Append(seen, p)
    /\ IF Alarm(p) THEN alive' = FALSE /\ UNCHANGED pktIdx
                   ELSE pktIdx' = NextIdx /\ UNCHANGED alive

Next == \E p \in Packets : DdosDetect(p)

Spec == Init /\ [][Next]_vars

-----------------------------------------------------------------------------
(* Properties. *)

(* The state has its type; the int pkt_idx stays below 2 * CAPTURE_WINDOWS *)
(* however long the program runs.                                          *)
TypeOK ==
    /\ window \in [Slots -> Packets \cup {Zero}]
    /\ pktIdx \in 0 .. 2 * CaptureWindows - 1
    /\ alive \in BOOLEAN
    /\ seen \in Seq(Packets)

(* The arrays hold exactly the last CAPTURE_WINDOWS packets: packet k of   *)
(* them is in slot k - 1 modulo the window, at any time and however often  *)
(* the arrays have been gone round.                                        *)
WindowIsLast ==
    \A k \in 1 .. Len(seen) :
        k > Len(seen) - CaptureWindows => window[(k - 1) % CaptureWindows] = seen[k]

(* The program is still running only if, after each packet beyond the      *)
(* first CAPTURE_WINDOWS, the last CAPTURE_WINDOWS packets were no attack: *)
(* no attack is missed when the index wraps, and an odd packet hides an    *)
(* attack for no longer than it is in the window.                          *)
LastSlots(n) == n - CaptureWindows + 1 .. n
NoAttackMissed ==
    alive => \A n \in CaptureWindows + 1 .. Len(seen) : ~Attack(seen, LastSlots(n))

(* The program exits only on the packet that completes an attack. *)
ExitOnAttackOnly ==
    ~alive => /\ Len(seen) > CaptureWindows
              /\ Attack(seen, LastSlots(Len(seen)))

(* The program exits at the first attack and for no other reason. *)
ExitAtFirstAttack == NoAttackMissed /\ ExitOnAttackOnly
=============================================================================
