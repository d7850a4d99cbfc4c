--------------------------- MODULE TimeWheelProofs ---------------------------
(***************************************************************************)
(* Theorems about TimeWheel, for wheels of any size and any number of      *)
(* nodes: every timer that is dispatched is dispatched in its tick, and    *)
(* the timers that are not end up in slot 0 of a lower level.              *)
(*                                                                         *)
(* The argument forgets the wrap: ticks and due count without it, the time *)
(* and the expire of a node are their remainders, and the units of the     *)
(* levels divide the width, so that the digits a slot number is made of    *)
(* survive (ModMul).  Right says where a timer may be: in the near wheel   *)
(* it is due within one turn, in level l within one turn of that level and *)
(* not before the next unit of it begins.                                  *)
(***************************************************************************)
EXTENDS TimeWheel, TLAPS

(* The slot s is a right one at tick t for a timer that is due at tick d;  *)
(* of slot 0 of the lower levels, which is never moved down, only the      *)
(* number is known.                                                        *)
Right(s, d, t) ==
    LET U == Unit(s.level)
    IN /\ s \in Places
       /\ IF s.level = -1
          THEN s.idx = d % Near /\ t <= d /\ d < t + Near
          ELSE /\ s.idx = (d \div U) % LevelSize
               /\ s.idx # 0 \/ s.level = 3 =>
                     (t \div U) < (d \div U) /\ (d \div U) <= (t \div U) + LevelSize

(* The inductive invariant: the time and the expires are what the history  *)
(* says, modulo the width; every timer on the wheel is in a right slot.    *)
WheelInv ==
    /\ TypeOK
    /\ time = ticks % Wrap
    /\ \A n \in Nodes \ Free : expire[n] = due[n] % Wrap
    /\ \A n \in Queued : Right(where[n], due[n], ticks)
    /\ FiresOnTime
    /\ pcU = "before" => ticks < MaxTicks

-----------------------------------------------------------------------------
(* Division.                                                               *)

(* Division with remainder, by a divisor that is not a numeral. *)
LEMMA DivMod ==
    ASSUME NEW a \in Int, NEW b \in Nat \ {0}
    PROVE  /\ a \div b \in Int /\ a % b \in 0 .. b - 1
           /\ a = b * (a \div b) + (a % b)
           /\ a \in Nat => a \div b \in Nat
OBVIOUS

(* The same for natural numbers, with the remainder and the quotient in    *)
(* Nat.                                                                    *)
LEMMA DivModNat ==
    ASSUME NEW a \in Nat, NEW b \in Nat \ {0}
    PROVE  /\ a \div b \in Nat /\ a % b \in 0 .. b - 1
           /\ a = b * (a \div b) + (a % b)
<1>1. a \in Int
  OBVIOUS
<1> QED
  BY <1>1, DivMod

(* A larger factor makes the product larger by the divisor at least. *)
LEMMA Mono ==
    ASSUME NEW b \in Nat \ {0}, NEW p \in Int, NEW q \in Int, p < q
    PROVE  b * p + b <= b * q
OBVIOUS

(* Quotient and remainder are the only ones of their kind. *)
LEMMA DivModUnique ==
    ASSUME NEW a \in Int, NEW b \in Nat \ {0}, NEW q \in Int, NEW r \in 0 .. b - 1,
           a = b * q + r
    PROVE  a \div b = q /\ a % b = r
BY DivMod, Mono

(* Taking digits of a number that was cut to more digits. *)
LEMMA ModMul ==
    ASSUME NEW a \in Nat, NEW b \in Nat \ {0}, NEW k \in Nat \ {0}
    PROVE  (a % (b * k)) % b = a % b /\ (a % (b * k)) \div b = (a \div b) % k
<1> DEFINE q == a \div b
           r == a % b
           p == q \div k
           s == q % k
           c == b * s + r
<1>1. q \in Int /\ r \in 0 .. b - 1 /\ a = b * q + r
  BY DivMod
<1> HIDE DEF q, r
<1>2. p \in Int /\ s \in 0 .. k - 1 /\ q = k * p + s
  BY <1>1, DivMod
<1> HIDE DEF p, s
<1>3. b * k \in Nat \ {0}
  OBVIOUS
<1>4. c \in 0 .. b * k - 1
  <2>1. b * s + b <= b * k
    BY <1>2, Mono
  <2>2. b * s \in Nat
    BY <1>2
  <2>3. b * k \in Nat
    BY <1>3
  <2> QED
    BY <1>1, <2>1, <2>2, <2>3
<1>5. a = (b * k) * p + c
  <2>1. b * (k * p + s) = (b * k) * p + b * s
    BY <1>2
  <2> QED
    BY <1>1, <1>2, <2>1
<1> DEFINE m == b * k
<1>6. m \in Nat \ {0} /\ c \in 0 .. m - 1 /\ a = m * p + c
  BY <1>3, <1>4, <1>5
<1>8. c \in Int /\ c = b * s + r
  BY <1>6
<1> HIDE DEF m, c
<1>7. a % m = c
  BY <1>2, <1>6, DivModUnique
<1>9. c \div b = s /\ c % b = r
  BY <1>1, <1>2, <1>8, DivModUnique
<1> QED
  BY <1>7, <1>9 DEF m, q, r, s

(* Of k numbers in a row each has its own remainder by k. *)
LEMMA ModSame ==
    ASSUME NEW x \in Nat, NEW y \in Nat, NEW k \in Nat \ {0}, x % k = y % k, x <= y, y < x + k
    PROVE  x = y
<1> DEFINE p == x \div k
           q == y \div k
           r == x % k
<1>1. p \in Int /\ q \in Int /\ r \in 0 .. k - 1 /\ x = k * p + r /\ y = k * q + r
  BY DivMod
<1> HIDE DEF p, q, r
<1>2. ~(p < q)
  <2>1. ASSUME p < q PROVE k * p + k <= k * q
    BY <1>1, <2>1, Mono
  <2>2. k * p \in Int /\ k * q \in Int
    BY <1>1
  <2> QED
    BY <1>1, <2>1, <2>2
<1>3. ~(q < p)
  <2>1. ASSUME q < p PROVE k * q + k <= k * p
    BY <1>1, <2>1, Mono
  <2>2. k * p \in Int /\ k * q \in Int
    BY <1>1
  <2> QED
    BY <1>1, <2>1, <2>2
<1>4. p = q
  BY <1>1, <1>2, <1>3
<1> QED
  BY <1>1, <1>4

(* An unsigned sum may be cut before or after the addition. *)
LEMMA ModAdd ==
    ASSUME NEW t \in Nat, NEW d \in Nat, NEW W \in Nat \ {0}
    PROVE  ((t % W) + d) % W = (t + d) % W
<1> DEFINE q == t \div W
           r == t % W
           p == (r + d) \div W
           s == (r + d) % W
<1>1. q \in Int /\ r \in 0 .. W - 1 /\ t = W * q + r
  BY DivMod
<1>2. p \in Int /\ s \in 0 .. W - 1 /\ r + d = W * p + s
  <2>1. r + d \in Int
    BY <1>1
  <2> QED
    BY <2>1, DivMod
<1> HIDE DEF q, r, p, s
<1>3. t + d = W * (q + p) + s
  <2>1. W * (q + p) = W * q + W * p
    BY <1>1, <1>2
  <2>2. W * q \in Int /\ W * p \in Int
    BY <1>1, <1>2
  <2> QED
    BY <1>1, <1>2, <2>1, <2>2
<1>4. t + d \in Int /\ q + p \in Int
  BY <1>1, <1>2
<1>5. (t + d) % W = s
  BY <1>2, <1>3, <1>4, DivModUnique
<1> QED
  BY <1>5 DEF r, s

(* An unsigned difference of less than the width is the true one. *)
LEMMA ModDiff ==
    ASSUME NEW d \in Nat, NEW t \in Nat, NEW W \in Nat \ {0}, t <= d, d < t + W
    PROVE  ((d % W) - (t % W)) % W = d - t
<1> DEFINE p == d \div W
           r == d % W
           q == t \div W
           s == t % W
<1>1. /\ p \in Int /\ r \in 0 .. W - 1 /\ d = W * p + r
      /\ q \in Int /\ s \in 0 .. W - 1 /\ t = W * q + s
  BY DivMod
<1> HIDE DEF p, r, q, s
<1>2. r - s \in Int /\ q - p \in Int /\ d - t \in 0 .. W - 1
  BY <1>1
<1>3. r - s = W * (q - p) + (d - t)
  <2>1. W * (q - p) = W * q - W * p
    BY <1>1
  <2>2. W * q \in Int /\ W * p \in Int
    BY <1>1
  <2> QED
    BY <1>1, <2>1, <2>2
<1>4. (r - s) % W = d - t
  BY <1>2, <1>3, DivModUnique
<1> QED
  BY <1>4 DEF r, s

(* A tick begins a new unit exactly when it is a multiple of the unit. *)
LEMMA DivStep ==
    ASSUME NEW t \in Nat, NEW U \in Nat \ {0}
    PROVE  (t + 1) \div U = IF (t + 1) % U = 0 THEN (t \div U) + 1 ELSE t \div U
<1> DEFINE q == t \div U
           r == t % U
<1>1. q \in Int /\ r \in 0 .. U - 1 /\ t = U * q + r
  BY DivMod
<1> HIDE DEF q, r
<1>2. CASE r + 1 < U
  <2>1. r + 1 \in 0 .. U - 1 /\ t + 1 = U * q + (r + 1) /\ t + 1 \in Int
    <3>1. U * q \in Int
      BY <1>1
    <3> QED
      BY <1>1, <1>2, <3>1
  <2>2. (t + 1) \div U = q /\ (t + 1) % U = r + 1
    BY <1>1, <2>1, DivModUnique
  <2>3. r + 1 # 0
    BY <1>1
  <2> QED
    BY <2>2, <2>3 DEF q
<1>3. CASE r + 1 = U
  <2>1. t + 1 = U * (q + 1) + 0 /\ t + 1 \in Int /\ q + 1 \in Int /\ 0 \in 0 .. U - 1
    <3>1. U * (q + 1) = U * q + U /\ U * q \in Int
      BY <1>1
    <3> QED
      BY <1>1, <1>3, <3>1
  <2>2. (t + 1) \div U = q + 1 /\ (t + 1) % U = 0
    BY <2>1, DivModUnique
  <2> QED
    BY <2>2 DEF q
<1> QED
  BY <1>1, <1>2, <1>3

(* What quotients say about the order of two ticks. *)
LEMMA DivOrder ==
    ASSUME NEW t \in Nat, NEW d \in Nat, NEW U \in Nat \ {0}
    PROVE  /\ t + U <= d => t \div U < d \div U
           /\ t \div U < d \div U => t < d
           /\ \A L \in Nat \ {0} : d < t + U * L => d \div U <= (t \div U) + L
           /\ t % U = 0 /\ t \div U = d \div U => t <= d /\ d < t + U
<1> DEFINE p == d \div U
           r == d % U
           q == t \div U
           s == t % U
<1>1. /\ p \in Int /\ r \in 0 .. U - 1 /\ d = U * p + r
      /\ q \in Int /\ s \in 0 .. U - 1 /\ t = U * q + s
  BY DivMod
<1> HIDE DEF p, r, q, s
<1>2. U * p \in Int /\ U * q \in Int
  BY <1>1
<1>3. ASSUME t + U <= d PROVE q < p
  <2>1. ASSUME p < q PROVE U * p + U <= U * q
    BY <1>1, <2>1, Mono
  <2>2. p = q => U * p = U * q
    OBVIOUS
  <2> QED
    BY <1>1, <1>2, <1>3, <2>1, <2>2
<1>4. ASSUME q < p PROVE t < d
  <2>1. U * q + U <= U * p
    BY <1>1, <1>4, Mono
  <2> QED
    BY <1>1, <1>2, <2>1
<1>5. ASSUME NEW L \in Nat \ {0}, d < t + U * L PROVE p <= q + L
  <2>1. ASSUME q + L < p PROVE U * (q + L) + U <= U * p
    BY <1>1, <2>1, Mono
  <2>2. U * (q + L) = U * q + U * L /\ U * L \in Int
    BY <1>1
  <2> QED
    BY <1>1, <1>2, <1>5, <2>1, <2>2
<1>6. ASSUME s = 0, q = p PROVE t <= d /\ d < t + U
  BY <1>1, <1>2, <1>6
<1> QED
  BY <1>3, <1>4, <1>5, <1>6 DEF p, r, q, s

-----------------------------------------------------------------------------
(* Units, digits and levels.                                               *)

(* The units of the levels, each a multiple of the one below, divide the   *)
(* width.                                                                  *)
LEMMA UnitFacts ==
    /\ Near \in Nat \ {0} /\ LevelSize \in Nat \ {0} /\ Wrap \in Nat \ {0}
    /\ Unit(0) = Near /\ Unit(4) = Wrap
    /\ \A l \in 0 .. 3 : Unit(l) \in Nat \ {0} /\ Unit(l + 1) = Unit(l) * LevelSize
    /\ \A l \in 0 .. 3 : \E m \in Nat \ {0} : Wrap = Unit(l) * (LevelSize * m)
<1> DEFINE N == Near
           L == LevelSize
<1>1. N \in Nat \ {0} /\ L \in Nat \ {0}
  BY WheelAssumption
<1>2. /\ Unit(0) = N /\ Unit(1) = N * L /\ Unit(2) = N * L * L /\ Unit(3) = N * L * L * L
      /\ Unit(4) = N * L * L * L * L /\ Wrap = N * L * L * L * L
  BY DEF Unit, Wrap
<1> HIDE DEF N, L
<1>3. /\ N * L \in Nat \ {0} /\ N * L * L \in Nat \ {0} /\ N * L * L * L \in Nat \ {0}
      /\ L * L \in Nat \ {0} /\ L * L * L \in Nat \ {0}
  BY <1>1
<1>4. N * L * L * L * L \in Nat \ {0}
  BY <1>1, <1>3
<1>5. /\ N * L * L * L * L = N * (L * (L * L * L))
      /\ N * L * L * L * L = (N * L) * (L * (L * L))
      /\ N * L * L * L * L = (N * L * L) * (L * L)
      /\ N * L * L * L * L = (N * L * L * L) * (L * 1)
  BY <1>1
<1>6. \A l \in 0 .. 3 : l = 0 \/ l = 1 \/ l = 2 \/ l = 3
  OBVIOUS
<1>7. 0 + 1 = 1 /\ 1 + 1 = 2 /\ 2 + 1 = 3 /\ 3 + 1 = 4 /\ 1 \in Nat \ {0}
  OBVIOUS
<1>8. \A l \in 0 .. 3 : Unit(l) \in Nat \ {0} /\ Unit(l + 1) = Unit(l) * L
  BY <1>1, <1>2, <1>3, <1>6, <1>7
<1>9. \A l \in 0 .. 3 : \E m \in Nat \ {0} : Wrap = Unit(l) * (L * m)
  <2>1. Wrap = Unit(0) * (L * (L * L * L)) /\ Wrap = Unit(1) * (L * (L * L))
        /\ Wrap = Unit(2) * (L * L) /\ Wrap = Unit(3) * (L * 1)
    BY <1>2, <1>5
  <2> QED
    BY <1>1, <1>3, <1>6, <1>7, <2>1
<1> QED
  BY <1>1, <1>2, <1>4, <1>8, <1>9 DEF N, L

(* The time that wraps has the same digits. *)
LEMMA SameDigits ==
    ASSUME NEW d \in Nat, NEW l \in 0 .. 3
    PROVE  /\ (d % Wrap) % Unit(l) = d % Unit(l)
           /\ ((d % Wrap) \div Unit(l)) % LevelSize = (d \div Unit(l)) % LevelSize
<1> DEFINE U == Unit(l)
           L == LevelSize
<1>1. U \in Nat \ {0} /\ L \in Nat \ {0}
  BY UnitFacts
<1>2. PICK m \in Nat \ {0} : Wrap = U * (L * m)
  BY UnitFacts
<1> DEFINE k == L * m
<1> HIDE DEF U, L
<1>3. k \in Nat \ {0}
  BY <1>1
<1>4. Wrap = U * k
  BY <1>2
<1> HIDE DEF k
<1>5. (d % Wrap) % U = d % U /\ (d % Wrap) \div U = (d \div U) % k
  BY <1>1, <1>3, <1>4, ModMul
<1>6. d \div U \in Nat
  BY <1>1, DivMod
<1> DEFINE q == d \div U
<1> HIDE DEF q
<1>7. (q % (L * m)) % L = q % L
  BY <1>1, <1>6, ModMul DEF q
<1> QED
  BY <1>5, <1>7 DEF U, L, k, q

(* The near slot of a tick survives the wrap. *)
LEMMA SameNear ==
    ASSUME NEW d \in Nat
    PROVE  (d % Wrap) % Near = d % Near
<1>1. (d % Wrap) % Unit(0) = d % Unit(0)
  BY SameDigits
<1> QED
  BY <1>1, UnitFacts

(* The level add_node chooses is the one whose range holds the delay. *)
LEMMA LevelFacts ==
    ASSUME NEW msec \in 0 .. Wrap - 1
    PROVE  /\ LevelOf(msec) \in -1 .. 3
           /\ LevelOf(msec) = -1 => msec < Near
           /\ \A l \in 0 .. 3 : LevelOf(msec) = l => Unit(l) <= msec /\ msec < Unit(l + 1)
<1> DEFINE P(l) == msec < Unit(l + 1) /\ (l > 0 => msec >= Unit(l))
           c == CHOOSE l \in 0 .. 2 : P(l)
<1>1. /\ msec \in Nat /\ Unit(0) \in Nat /\ Unit(1) \in Nat /\ Unit(2) \in Nat /\ Unit(3) \in Nat
      /\ Unit(0) = Near /\ Unit(4) = Wrap /\ Wrap \in Nat
  BY UnitFacts
<1>2. CASE msec < Near
  <2>1. LevelOf(msec) = -1
    BY <1>2 DEF LevelOf
  <2> QED
    BY <1>2, <2>1
<1>3. CASE ~(msec < Near) /\ \E l \in 0 .. 2 : msec < Unit(l + 1)
  <2>1. \E l \in 0 .. 2 : P(l)
    <3>1. msec < Unit(1) \/ msec < Unit(2) \/ msec < Unit(3)
      <4>1. PICK l \in 0 .. 2 : msec < Unit(l + 1)
        BY <1>3
      <4>2. l + 1 = 1 \/ l + 1 = 2 \/ l + 1 = 3
        OBVIOUS
      <4> QED
        BY <4>1, <4>2
    <3>2. 0 + 1 = 1 /\ 1 + 1 = 2 /\ 2 + 1 = 3 /\ 0 \in 0 .. 2 /\ 1 \in 0 .. 2 /\ 2 \in 0 .. 2
          /\ ~(0 > 0)
      OBVIOUS
    <3>3. CASE msec < Unit(1)
      <4>1. P(0)
        BY <3>2, <3>3
      <4> QED
        BY <3>2, <4>1
    <3>4. CASE ~(msec < Unit(1)) /\ msec < Unit(2)
      <4>1. P(1)
        BY <1>1, <3>2, <3>4
      <4> QED
        BY <3>2, <4>1
    <3>5. CASE ~(msec < Unit(2)) /\ msec < Unit(3)
      <4>1. P(2)
        BY <1>1, <3>2, <3>5
      <4> QED
        BY <3>2, <4>1
    <3> QED
      BY <3>1, <3>3, <3>4, <3>5
  <2>2. c \in 0 .. 2 /\ P(c)
    BY <2>1
  <2>3. LevelOf(msec) = c
    BY <1>3 DEF LevelOf
  <2> HIDE DEF c
  <2>4. c > 0 \/ c = 0
    BY <2>2
  <2>5. Unit(c) <= msec
    <3>1. CASE c = 0
      BY <1>1, <1>3, <3>1
    <3>2. CASE c > 0
      <4>1. msec >= Unit(c)
        BY <2>2, <3>2
      <4>2. c \in 0 .. 3
        BY <2>2
      <4>3. Unit(c) \in Nat
        BY <4>2, UnitFacts
      <4> QED
        BY <1>1, <4>1, <4>3
    <3> QED
      BY <2>4, <3>1, <3>2
  <2>6. c # -1 /\ c \in -1 .. 3
    BY <2>2
  <2> QED
    BY <2>2, <2>3, <2>5, <2>6
<1>4. CASE ~(msec < Near) /\ ~\E l \in 0 .. 2 : msec < Unit(l + 1)
  <2>1. LevelOf(msec) = 3
    BY <1>4 DEF LevelOf
  <2>2. ~(msec < Unit(2 + 1)) /\ 2 + 1 = 3 /\ 3 + 1 = 4
    <3>1. 2 \in 0 .. 2
      OBVIOUS
    <3> QED
      BY <1>4, <3>1
  <2>3. Unit(3) <= msec /\ msec < Unit(3 + 1)
    BY <1>1, <2>2
  <2> QED
    BY <2>1, <2>3
<1> QED
  BY <1>2, <1>3, <1>4

-----------------------------------------------------------------------------
(* Where a timer belongs.                                                  *)

(* Slots as records. *)
LEMMA SlotFacts ==
    /\ \A s \in Places : /\ s.level \in -1 .. 3 /\ s = Slot(s.level, s.idx)
                         /\ s # InList /\ s # InHeap
    /\ \A l, i : Slot(l, i).level = l /\ Slot(l, i).idx = i
    /\ \A i \in 0 .. Near - 1 : Slot(-1, i) \in Places
    /\ \A l \in 0 .. 3, i \in 0 .. LevelSize - 1 : Slot(l, i) \in Places
<1>1. \A l, i : Slot(l, i).level = l /\ Slot(l, i).idx = i
  BY DEF Slot
<1>2. ASSUME NEW s \in Places
      PROVE  s.level \in -1 .. 3 /\ s = Slot(s.level, s.idx) /\ s # InList /\ s # InHeap
  <2>1. s.level \in -1 .. 3 /\ s = Slot(s.level, s.idx)
    BY DEF Places, Slot
  <2>2. InList.level = -2 /\ InHeap.level = -3
    BY DEF InList, InHeap, Slot
  <2>3. \A x \in -1 .. 3 : x # -2 /\ x # -3
    OBVIOUS
  <2> QED
    BY <2>1, <2>2, <2>3
<1>3. \A i \in 0 .. Near - 1 : Slot(-1, i) \in Places
  BY DEF Places, Slot
<1>4. \A l \in 0 .. 3, i \in 0 .. LevelSize - 1 : Slot(l, i) \in Places
  BY DEF Places, Slot
<1> QED
  BY <1>1, <1>2, <1>3, <1>4

(* add_node finds a right slot for every timer due within the width. *)
LEMMA Placed ==
    ASSUME NEW t \in Nat, NEW d \in Nat, t <= d, d < t + Wrap
    PROVE  Right(AddNode(d % Wrap, t % Wrap), d, t)
<1> DEFINE s == AddNode(d % Wrap, t % Wrap)
           l == LevelOf(d - t)
           L == LevelSize
<1>1. ((d % Wrap) - (t % Wrap)) % Wrap = d - t
  BY UnitFacts, ModDiff
<1>2. d - t \in 0 .. Wrap - 1
  BY UnitFacts
<1>3. /\ l \in -1 .. 3
      /\ l = -1 => d - t < Near
      /\ \A k \in 0 .. 3 : l = k => Unit(k) <= d - t /\ d - t < Unit(k + 1)
  BY <1>2, LevelFacts
<1>4. s = IF l = -1 THEN Slot(-1, (d % Wrap) % Near)
                    ELSE Slot(l, ((d % Wrap) \div Unit(l)) % L)
  BY <1>1 DEF AddNode
<1> HIDE DEF s, l
<1>5. CASE l = -1
  <2>1. s = Slot(-1, d % Near)
    BY <1>4, <1>5, SameNear
  <2>2. d % Near \in 0 .. Near - 1
    BY UnitFacts, DivModNat
  <2>3. s \in Places /\ s.level = -1 /\ s.idx = d % Near
    BY <2>1, <2>2, SlotFacts
  <2>4. d < t + Near
    BY <1>3, <1>5, UnitFacts
  <2> QED
    BY <2>3, <2>4 DEF Right, s
<1>6. CASE l # -1
  <2>1. l \in 0 .. 3
    BY <1>3, <1>6
  <2>2. /\ Unit(l) \in Nat \ {0} /\ Unit(l + 1) = Unit(l) * L /\ L \in Nat \ {0}
        /\ Unit(l) <= d - t /\ d - t < Unit(l + 1)
    BY <1>3, <2>1, UnitFacts
  <2> DEFINE U == Unit(l)
  <2>3. U \in Nat \ {0} /\ t + U <= d /\ d < t + U * L
    <3>1. U * L \in Nat
      BY <2>2
    <3> QED
      BY <2>2, <3>1
  <2>4. s = Slot(l, (d \div U) % L)
    BY <1>4, <1>6, <2>1, SameDigits
  <2>5. d \div U \in Nat
    BY <2>3, DivMod
  <2> HIDE DEF U
  <2>6. (d \div U) % L \in 0 .. L - 1
    BY <2>2, <2>5, DivModNat
  <2>7. s \in Places /\ s.level = l /\ s.idx = (d \div U) % L
    BY <2>1, <2>4, <2>6, SlotFacts
  <2>8. (t \div U) < (d \div U) /\ (d \div U) <= (t \div U) + L
    BY <2>2, <2>3, DivOrder
  <2> QED
    BY <1>6, <2>7, <2>8 DEF Right, s, U
<1> QED
  BY <1>5, <1>6

(* timer_shift takes the slot of every level whose unit begins, except     *)
(* slot 0 of the lower ones.                                               *)
LEMMA ShiftedSlots ==
    ASSUME NEW u \in Nat, NEW s \in Places
    PROVE  LET U == Unit(s.level)
           IN s \in Shifted(u % Wrap) <=>
                 /\ s.level # -1 /\ u % U = 0 /\ s.idx = (u \div U) % LevelSize
                 /\ s.idx # 0 \/ s.level = 3
<1> DEFINE ct == u % Wrap
           l == s.level
           L == LevelSize
           digit(k) == (u \div Unit(k)) % L
<1>1. l \in -1 .. 3 /\ s = Slot(l, s.idx)
  BY SlotFacts
<1>2. \A k \in 0 .. 3 : ct % Unit(k) = u % Unit(k) /\ (ct \div Unit(k)) % L = digit(k)
  BY SameDigits
<1>3. ct = 0 => Shifted(ct) = {Slot(3, 0)}
  BY DEF Shifted
<1>4. ct # 0 => Shifted(ct) = {Slot(k, (ct \div Unit(k)) % L) :
                     k \in {i \in 0 .. 3 : ct % Unit(i) = 0 /\ (ct \div Unit(i)) % L # 0}}
  BY DEF Shifted
<1>5. (u % Unit(3) = 0 /\ digit(3) = 0) => ct = 0
  <2> DEFINE V == Unit(3)
             q == u \div V
             p == q \div L
  <2>1. V \in Nat \ {0} /\ L \in Nat \ {0} /\ Unit(4) = V * L /\ Unit(4) = Wrap
    <3>1. 3 \in 0 .. 3 /\ 3 + 1 = 4
      OBVIOUS
    <3> QED
      BY <3>1, UnitFacts
  <2> HIDE DEF V
  <2>2. q \in Nat /\ u = V * q + (u % V)
    BY <2>1, DivModNat
  <2> HIDE DEF q
  <2>3. p \in Nat /\ q = L * p + (q % L)
    BY <2>1, <2>2, DivModNat
  <2> HIDE DEF p
  <2>4. ASSUME u % V = 0, q % L = 0 PROVE u % Wrap = 0
    <3>1. u = V * q /\ q = L * p
      BY <2>1, <2>2, <2>3, <2>4
    <3>2. V * (L * p) = (V * L) * p
      BY <2>1, <2>3
    <3>3. u = Wrap * p + 0 /\ 0 \in 0 .. Wrap - 1 /\ Wrap \in Nat \ {0}
      <4>1. Wrap \in Nat \ {0}
        BY UnitFacts
      <4>2. u = Wrap * p
        BY <2>1, <3>1, <3>2
      <4> QED
        BY <2>3, <4>1, <4>2
    <3> QED
      BY <2>3, <3>3, DivModUnique
  <2> QED
    BY <2>4 DEF V, q
<1>6. ct = 0 => \A k \in 0 .. 3 : u % Unit(k) = 0 /\ digit(k) = 0
  <2>1. \A k \in 0 .. 3 : Unit(k) \in Nat \ {0} /\ L \in Nat \ {0}
    BY UnitFacts
  <2>2. \A k \in 0 .. 3 : 0 % Unit(k) = 0 /\ 0 \div Unit(k) = 0
    <3> SUFFICES ASSUME NEW k \in 0 .. 3 PROVE 0 % Unit(k) = 0 /\ 0 \div Unit(k) = 0
      OBVIOUS
    <3> DEFINE V == Unit(k)
    <3>1. V \in Nat \ {0}
      BY <2>1
    <3> HIDE DEF V
    <3>2. 0 = V * 0 + 0 /\ 0 \in 0 .. V - 1 /\ 0 \in Int
      BY <3>1
    <3>3. 0 \div V = 0 /\ 0 % V = 0
      BY <3>1, <3>2, DivModUnique
    <3> QED
      BY <3>3 DEF V
  <2>3. 0 % L = 0
    BY <2>1
  <2> HIDE DEF L, digit
  <2> QED
    BY <1>2, <2>2, <2>3
<1> HIDE DEF ct, digit
<1>7. CASE l = -1
  <2>1. \A k \in 0 .. 3 : \A i : s # Slot(k, i)
    <3>1. \A k \in 0 .. 3 : k # -1
      OBVIOUS
    <3> QED
      BY <1>7, <3>1, SlotFacts
  <2>2. s \notin Shifted(ct)
    <3>1. CASE ct = 0
      BY <1>3, <2>1, <3>1
    <3>2. CASE ct # 0
      BY <1>4, <2>1, <3>2
    <3> QED
      BY <3>1, <3>2
  <2> QED
    BY <1>7, <2>2 DEF ct
<1>8. CASE l # -1
  <2>1. l \in 0 .. 3
    BY <1>1, <1>8
  <2>2. s \in Shifted(ct) <=> u % Unit(l) = 0 /\ s.idx = digit(l) /\ (s.idx # 0 \/ l = 3)
    <3>1. CASE ct = 0
      <4>1. s \in Shifted(ct) <=> l = 3 /\ s.idx = 0
        BY <1>1, <1>3, <3>1, SlotFacts
      <4>2. u % Unit(l) = 0 /\ digit(l) = 0
        BY <1>6, <2>1, <3>1
      <4> QED
        BY <4>1, <4>2
    <3>2. CASE ct # 0
      <4>1. \A k \in 0 .. 3 : s = Slot(k, (ct \div Unit(k)) % L) <=> k = l /\ s.idx = digit(k)
        BY <1>1, <1>2, SlotFacts
      <4>2. s \in Shifted(ct) <=>
               \E k \in 0 .. 3 : /\ ct % Unit(k) = 0 /\ (ct \div Unit(k)) % L # 0
                                 /\ s = Slot(k, (ct \div Unit(k)) % L)
        BY <1>4, <3>2
      <4>3. s \in Shifted(ct) <=> u % Unit(l) = 0 /\ digit(l) # 0 /\ s.idx = digit(l)
        BY <1>2, <2>1, <4>1, <4>2
      <4>4. l = 3 => ~(u % Unit(l) = 0 /\ digit(l) = 0)
        BY <1>5, <3>2
      <4> QED
        BY <4>3, <4>4
    <3> QED
      BY <3>1, <3>2
  <2> QED
    BY <1>8, <2>2 DEF ct, digit
<1> QED
  BY <1>7, <1>8

(* A timer that is moved down is due within the unit that begins. *)
LEMMA Moves ==
    ASSUME NEW t \in Nat, NEW d \in Nat, NEW s, Right(s, d, t), s \in Shifted((t + 1) % Wrap)
    PROVE  t + 1 <= d /\ d < t + 1 + Wrap
<1> DEFINE u == t + 1
           U == Unit(s.level)
           L == LevelSize
<1>1. s \in Places /\ u \in Nat
  BY DEF Right
<1>2. s.level # -1 /\ u % U = 0 /\ s.idx = (u \div U) % L /\ (s.idx # 0 \/ s.level = 3)
  BY <1>1, ShiftedSlots
<1>3. /\ s.idx = (d \div U) % L
      /\ (t \div U) < (d \div U) /\ (d \div U) <= (t \div U) + L
  BY <1>2 DEF Right
<1>4. s.level \in 0 .. 3
  BY <1>1, <1>2, SlotFacts
<1>5. U \in Nat \ {0} /\ L \in Nat \ {0}
  BY <1>4, UnitFacts
<1>6. U <= Wrap
  <2>1. PICK m \in Nat \ {0} : Wrap = U * (L * m)
    BY <1>4, UnitFacts
  <2> HIDE DEF U, L
  <2>2. L * m \in Nat \ {0}
    BY <1>5
  <2> DEFINE k == L * m
  <2>3. k \in Nat \ {0} /\ Wrap = U * k
    BY <2>1, <2>2
  <2> HIDE DEF k
  <2> QED
    BY <1>5, <2>3
<1>7. u \div U = (t \div U) + 1
  BY <1>2, <1>5, DivStep
<1> DEFINE a == t \div U
           b == d \div U
<1>8. a \in Nat /\ b \in Nat
  BY <1>5, DivModNat
<1> HIDE DEF a, b, U, u, L
<1>9. a + 1 = b
  <2>1. a + 1 <= b /\ b < (a + 1) + L /\ a + 1 \in Nat
    BY <1>3, <1>5, <1>8 DEF a, b
  <2>2. (a + 1) % L = b % L
    BY <1>2, <1>3, <1>7 DEF a, b
  <2> QED
    BY <1>5, <1>8, <2>1, <2>2, ModSame
<1>10. u % U = 0 /\ u \div U = d \div U
  BY <1>2, <1>7, <1>9 DEF a, b
<1>11. u <= d /\ d < u + U
  BY <1>1, <1>5, <1>10, DivOrder
<1> QED
  BY <1>1, <1>5, <1>6, <1>11, UnitFacts DEF u

(* What timer_shift leaves in its place is still right a tick later. *)
LEMMA Stays ==
    ASSUME NEW t \in Nat, NEW d \in Nat, NEW s, Right(s, d, t),
           s \notin Shifted((t + 1) % Wrap), s # Slot(-1, t % Near)
    PROVE  Right(s, d, t + 1)
<1> DEFINE u == t + 1
           U == Unit(s.level)
           L == LevelSize
<1>1. s \in Places /\ u \in Nat /\ L \in Nat \ {0} /\ Near \in Nat
  BY UnitFacts DEF Right
<1>2. CASE s.level = -1
  <2>1. s.idx = d % Near /\ t <= d /\ d < t + Near
    BY <1>2 DEF Right
  <2>2. d # t
    BY <1>1, <1>2, <2>1, SlotFacts
  <2>3. u <= d /\ d < u + Near
    BY <1>1, <2>1, <2>2
  <2> QED
    BY <1>1, <1>2, <2>1, <2>3 DEF Right
<1>3. CASE s.level # -1
  <2>1. s.level \in 0 .. 3
    BY <1>1, <1>3, SlotFacts
  <2>2. U \in Nat \ {0}
    BY <2>1, UnitFacts
  <2>3. ~(u % U = 0 /\ s.idx = (u \div U) % L /\ (s.idx # 0 \/ s.level = 3))
    BY <1>1, <1>3, ShiftedSlots
  <2>4. /\ s.idx = (d \div U) % L
        /\ s.idx # 0 \/ s.level = 3 =>
              (t \div U) < (d \div U) /\ (d \div U) <= (t \div U) + L
    BY <1>3 DEF Right
  <2> DEFINE a == t \div U
             b == d \div U
             e == u \div U
  <2>5. a \in Nat /\ b \in Nat
    BY <2>2, DivModNat
  <2>6. e = IF u % U = 0 THEN a + 1 ELSE a
    BY <2>2, DivStep
  <2> HIDE DEF a, b, e, u, U
  <2>7. ASSUME s.idx # 0 \/ s.level = 3 PROVE e < b /\ b <= e + L
    <3>1. a < b /\ b <= a + L
      BY <2>4, <2>7 DEF a, b
    <3>2. CASE u % U = 0
      <4>1. e # b
        BY <2>3, <2>4, <2>7, <3>2 DEF b, e
      <4> QED
        BY <1>1, <2>5, <2>6, <3>1, <3>2, <4>1
    <3>3. CASE u % U # 0
      BY <2>6, <3>1, <3>3
    <3> QED
      BY <3>2, <3>3
  <2> QED
    BY <1>1, <1>3, <2>4, <2>7 DEF Right, b, e, u, U
<1> QED
  BY <1>2, <1>3

(* The near slot of the tick holds only timers of that tick. *)
LEMMA Fires ==
    ASSUME NEW t \in Nat, NEW d \in Nat, Right(Slot(-1, t % Near), d, t)
    PROVE  d = t
<1>1. Slot(-1, t % Near).level = -1 /\ Slot(-1, t % Near).idx = t % Near
  BY SlotFacts
<1>2. t % Near = d % Near /\ t <= d /\ d < t + Near
  BY <1>1 DEF Right
<1> QED
  BY <1>2, UnitFacts, ModSame

(* A right slot that is past its tick is slot 0 of a lower level. *)
LEMMA Strands ==
    ASSUME NEW t \in Nat, NEW d \in Nat, NEW s, Right(s, d, t), d < t
    PROVE  s \in {Slot(l, 0) : l \in 0 .. 2}
<1>1. s \in Places /\ s.level # -1
  BY DEF Right
<1>2. s.level \in 0 .. 3 /\ s = Slot(s.level, s.idx)
  BY <1>1, SlotFacts
<1> DEFINE U == Unit(s.level)
<1>3. U \in Nat \ {0}
  BY <1>2, UnitFacts
<1>4. s.idx # 0 \/ s.level = 3 => (t \div U) < (d \div U)
  BY <1>1 DEF Right
<1> HIDE DEF U
<1>5. ~((t \div U) < (d \div U))
  <2>1. (t \div U) < (d \div U) => t < d
    BY <1>3, DivOrder
  <2>2. ~(t < d)
    OBVIOUS
  <2> QED
    BY <2>1, <2>2
<1>6. s.idx = 0 /\ s.level # 3
  BY <1>4, <1>5
<1>7. s.level \in 0 .. 2
  BY <1>2, <1>6
<1> QED
  BY <1>2, <1>6, <1>7

-----------------------------------------------------------------------------
(* The invariant.                                                          *)

(* timer_create_timer gives the invariant. *)
LEMMA WheelInit == Init => WheelInv
<1> SUFFICES ASSUME Init PROVE WheelInv
  OBVIOUS
<1>1. Wrap \in Nat \ {0} /\ MaxTicks \in Nat
  BY UnitFacts, WheelAssumption
<1>2. \A n \in Nodes : n \in Free /\ n \notin Queued /\ n \notin Dispatched
  <2>1. InHeap # InList /\ InHeap \notin Places
    <3>1. InHeap.level = -3 /\ InList.level = -2
      BY DEF InHeap, InList, Slot
    <3> QED
      BY <3>1, SlotFacts
  <2> QED
    BY <2>1 DEF Init, Free, Queued, Dispatched
<1>3. time = ticks % Wrap
  <2>1. 0 % Wrap = 0
    BY <1>1
  <2> QED
    BY <2>1 DEF Init
<1>4. TypeOK
  BY <1>1 DEF Init, TypeOK
<1>5. pcU # "before"
  BY DEF Init
<1> QED
  BY <1>2, <1>3, <1>4, <1>5 DEF WheelInv, FiresOnTime, Queued, Dispatched

(* The place of a node decides which of the three it is. *)
LEMMA Exclusive ==
    \A n \in Nodes : /\ n \in Queued => n \notin Free /\ n \notin Dispatched
                     /\ n \in Dispatched => n \notin Free
<1>1. InHeap.level = -3 /\ InList.level = -2
  BY DEF InHeap, InList, Slot
<1>2. InHeap # InList
  BY <1>1
<1> QED
  BY <1>2, SlotFacts DEF Free, Queued, Dispatched

(* Only the place of the nodes changes, and what is on the wheel stays.    *)
LEMMA PlacesChange ==
    ASSUME WheelInv, UNCHANGED <<time, expire, cancel, ticks, due>>,
           pcU' \in {"idle", "before", "after", "cleared"},
           pcU' = "before" => ticks < MaxTicks,
           where' \in [Nodes -> Places \cup {InList, InHeap}],
           \A n \in Nodes : \/ where'[n] = where[n] \/ where'[n] = InHeap
                            \/ (where'[n] = InList /\ n \in DueNodes)
    PROVE  WheelInv'
<1>1. TypeOK'
  BY DEF WheelInv, TypeOK
<1>2. ASSUME NEW n \in Nodes, n \notin Free' PROVE n \notin Free
  <2>1. \A m \in DueNodes : m \notin Free
    <3>1. NearSlot.level = -1 /\ InHeap.level = -3
      BY DEF NearSlot, InHeap, Slot
    <3> QED
      BY <3>1 DEF DueNodes, Free
  <2> QED
    BY <1>2, <2>1 DEF Free
<1>3. \A n \in Nodes \ Free' : expire'[n] = due'[n] % Wrap
  BY <1>2 DEF WheelInv
<1>4. \A n \in Queued' : Right(where'[n], due'[n], ticks')
  <2>1. \A n \in Queued' : n \in Nodes /\ where'[n] = where[n] /\ n \in Queued
    BY SlotFacts DEF Queued
  <2> QED
    BY <2>1 DEF WheelInv
<1>5. ASSUME NEW n \in Dispatched' PROVE due'[n] = ticks'
  <2>1. n \in Nodes /\ (n \in Dispatched \/ n \in DueNodes)
    <3>1. InHeap.level = -3 /\ InList.level = -2
      BY DEF InHeap, InList, Slot
    <3>2. InHeap # InList
      BY <3>1
    <3> QED
      BY <1>5, <3>2 DEF Dispatched
  <2>2. CASE n \in Dispatched
    BY <2>2 DEF WheelInv, FiresOnTime
  <2>3. CASE n \in DueNodes
    <3>1. ticks \in Nat /\ due[n] \in Nat
      BY <2>1, WheelAssumption DEF WheelInv, TypeOK
    <3>2. time % Near = ticks % Near
      BY <3>1, SameNear DEF WheelInv
    <3>3. where[n] = Slot(-1, ticks % Near)
      BY <2>3, <3>2 DEF DueNodes, NearSlot
    <3>4. Slot(-1, ticks % Near) \in Places
      BY <3>1, UnitFacts, DivModNat, SlotFacts
    <3>5. n \in Queued
      BY <2>1, <3>3, <3>4 DEF Queued
    <3>6. Right(Slot(-1, ticks % Near), due[n], ticks)
      BY <3>3, <3>5 DEF WheelInv
    <3> QED
      BY <3>1, <3>6, Fires
  <2> QED
    BY <2>1, <2>2, <2>3
<1> QED
  BY <1>1, <1>3, <1>4, <1>5 DEF WheelInv, FiresOnTime

(* One node changes and is, or is not, on the wheel afterwards. *)
LEMMA NodeChange ==
    ASSUME WheelInv, UNCHANGED <<time, pcU, ticks>>, TypeOK', NEW m \in Nodes,
           \A n \in Nodes \ {m} : /\ where'[n] = where[n] /\ expire'[n] = expire[n]
                                  /\ due'[n] = due[n],
           m \notin Dispatched',
           m \notin Free' => /\ expire'[m] = due'[m] % Wrap
                             /\ Right(where'[m], due'[m], ticks)
    PROVE  WheelInv'
<1>1. \A n \in Nodes \ {m} : /\ n \in Free' <=> n \in Free
                             /\ n \in Queued' <=> n \in Queued
                             /\ n \in Dispatched' <=> n \in Dispatched
  BY DEF Free, Queued, Dispatched
<1>2. m \in Queued' => m \notin Free'
  BY SlotFacts DEF Queued, Free
<1>3. \A n \in Nodes \ Free' : expire'[n] = due'[n] % Wrap
  BY <1>1 DEF WheelInv
<1>4. \A n \in Queued' : Right(where'[n], due'[n], ticks')
  <2>1. \A n \in Queued' : n \in Nodes
    BY DEF Queued
  <2> QED
    BY <1>1, <1>2, <2>1 DEF WheelInv
<1>5. \A n \in Dispatched' : due'[n] = ticks'
  <2>1. \A n \in Dispatched' : n \in Nodes
    BY DEF Dispatched
  <2> QED
    BY <1>1, <2>1 DEF WheelInv, FiresOnTime
<1> QED
  BY <1>3, <1>4, <1>5 DEF WheelInv, FiresOnTime

(* add_timer: add_node finds the place by the delay, for any time. *)
LEMMA AddInv ==
    ASSUME WheelInv, NEW n \in Nodes, NEW delay \in Delays, AddTimer(n, delay)
    PROVE  WheelInv'
<1> DEFINE d == ticks + delay
           x == d % Wrap
           s == AddNode(x, ticks % Wrap)
<1>1. /\ ticks \in Nat /\ delay \in Nat /\ d \in Nat /\ ticks <= d /\ d < ticks + Wrap
      /\ Wrap \in Nat \ {0}
  <2>1. Wrap \in Nat \ {0} /\ ticks \in Nat
    BY UnitFacts, WheelAssumption DEF WheelInv, TypeOK
  <2>2. delay \in 1 .. Wrap \div 2 - 1
    BY WheelAssumption
  <2>3. Wrap \div 2 \in Nat /\ Wrap \div 2 <= Wrap
    BY <2>1
  <2> DEFINE h == Wrap \div 2
  <2> HIDE DEF h
  <2>4. delay \in 1 .. h - 1 /\ h \in Nat /\ h <= Wrap
    BY <2>2, <2>3 DEF h
  <2> QED
    BY <2>1, <2>4
<1>2. Expire(delay) = x
  <2>1. ((ticks % Wrap) + delay) % Wrap = (ticks + delay) % Wrap
    BY <1>1, ModAdd
  <2> QED
    BY <2>1 DEF Expire, WheelInv
<1>3. Right(s, d, ticks)
  BY <1>1, Placed
<1>4. x \in 0 .. Wrap - 1
  BY <1>1, DivModNat
<1>5. /\ expire' = [expire EXCEPT ![n] = x] /\ where' = [where EXCEPT ![n] = s]
      /\ due' = [due EXCEPT ![n] = d] /\ UNCHANGED <<time, cancel, pcU, ticks>>
  BY <1>2 DEF AddTimer, WheelInv
<1> HIDE DEF d, x, s
<1>6. s \in Places
  BY <1>3 DEF Right
<1>7. /\ where \in [Nodes -> Places \cup {InList, InHeap}]
      /\ expire \in [Nodes -> 0 .. Wrap - 1] /\ due \in [Nodes -> Nat] /\ TypeOK
  BY DEF WheelInv, TypeOK
<1>8. /\ where'[n] = s /\ expire'[n] = x /\ due'[n] = d
      /\ \A m \in Nodes \ {n} : where'[m] = where[m] /\ expire'[m] = expire[m] /\ due'[m] = due[m]
  BY <1>5, <1>7
<1>9. TypeOK'
  <2>1. /\ where' \in [Nodes -> Places \cup {InList, InHeap}]
        /\ expire' \in [Nodes -> 0 .. Wrap - 1] /\ due' \in [Nodes -> Nat]
    BY <1>1, <1>4, <1>5, <1>6, <1>7
  <2> QED
    BY <1>5, <1>7, <2>1 DEF TypeOK
<1>10. n \notin Dispatched'
  BY <1>6, <1>8, SlotFacts DEF Dispatched
<1>11. expire'[n] = due'[n] % Wrap /\ Right(where'[n], due'[n], ticks)
  BY <1>3, <1>8 DEF x
<1> QED
  BY <1>5, <1>8, <1>9, <1>10, <1>11, NodeChange

(* dispatch_list frees a node of the list. *)
LEMMA DispatchInv ==
    ASSUME WheelInv, NEW n \in Nodes, Dispatch(n)
    PROVE  WheelInv'
<1>1. /\ where' = [where EXCEPT ![n] = InHeap] /\ expire' = [expire EXCEPT ![n] = 0]
      /\ due' = [due EXCEPT ![n] = 0] /\ UNCHANGED <<time, cancel, pcU, ticks>>
  BY DEF Dispatch
<1>2. /\ where \in [Nodes -> Places \cup {InList, InHeap}]
      /\ expire \in [Nodes -> 0 .. Wrap - 1] /\ due \in [Nodes -> Nat] /\ TypeOK
  BY DEF WheelInv, TypeOK
<1>3. /\ where'[n] = InHeap
      /\ \A m \in Nodes \ {n} : where'[m] = where[m] /\ expire'[m] = expire[m] /\ due'[m] = due[m]
  BY <1>1, <1>2
<1>4. TypeOK'
  <2>1. 0 \in 0 .. Wrap - 1
    BY UnitFacts
  <2>2. /\ where' \in [Nodes -> Places \cup {InList, InHeap}]
        /\ expire' \in [Nodes -> 0 .. Wrap - 1] /\ due' \in [Nodes -> Nat]
    BY <1>1, <1>2, <2>1
  <2> QED
    BY <1>1, <1>2, <2>2 DEF TypeOK
<1>5. n \in Free' /\ n \notin Dispatched'
  <2>1. InHeap.level = -3 /\ InList.level = -2
    BY DEF InHeap, InList, Slot
  <2>2. InHeap # InList
    BY <2>1
  <2> QED
    BY <1>3, <2>2 DEF Free, Dispatched
<1> QED
  BY <1>1, <1>3, <1>4, <1>5, NodeChange

(* timer_shift: what is moved down finds its place by the new time, and    *)
(* the slot that has just been dispatched was empty.                       *)
LEMMA ShiftInv ==
    ASSUME WheelInv, TimerShift
    PROVE  WheelInv'
<1> DEFINE u == ticks + 1
           ct == u % Wrap
<1>1. /\ ticks \in Nat /\ u \in Nat /\ u <= MaxTicks /\ due \in [Nodes -> Nat] /\ Wrap \in Nat \ {0}
      /\ where \in [Nodes -> Places \cup {InList, InHeap}] /\ TypeOK
  <2>1. ticks \in Nat /\ ticks < MaxTicks /\ MaxTicks \in Nat
    BY WheelAssumption DEF WheelInv, TypeOK, TimerShift
  <2>2. u \in Nat /\ u <= MaxTicks
    BY <2>1
  <2> QED
    BY <2>1, <2>2, UnitFacts DEF WheelInv, TypeOK
<1>2. (time + 1) % Wrap = ct
  <2>1. ((ticks % Wrap) + 1) % Wrap = (ticks + 1) % Wrap
    BY <1>1, ModAdd
  <2> QED
    BY <2>1 DEF WheelInv
<1>3. /\ time' = ct /\ ticks' = u /\ pcU' = "after" /\ UNCHANGED <<expire, cancel, due>>
      /\ where' = [n \in Nodes |-> IF where[n] \in Shifted(ct)
                                   THEN AddNode(expire[n], ct) ELSE where[n]]
      /\ DueNodes = {} /\ Dispatched = {}
  BY <1>2 DEF TimerShift, nodes
<1> HIDE DEF ct
<1>4. \A x \in Shifted(ct) : x # InList /\ x # InHeap
  <2>1. \A l \in 0 .. 3 : \A i : Slot(l, i) # InList /\ Slot(l, i) # InHeap
    <3>1. InHeap.level = -3 /\ InList.level = -2
      BY DEF InHeap, InList, Slot
    <3>2. \A l \in 0 .. 3 : l # -3 /\ l # -2
      OBVIOUS
    <3> QED
      BY <3>1, <3>2, SlotFacts
  <2> QED
    BY <2>1 DEF Shifted
<1>5. ASSUME NEW n \in Nodes, n \in Queued PROVE Right(where'[n], due[n], u)
  <2> DEFINE s == where[n]
             d == due[n]
  <2>1. Right(s, d, ticks) /\ d \in Nat /\ n \notin Free
    BY <1>1, <1>5, Exclusive DEF WheelInv
  <2>2. expire[n] = d % Wrap
    BY <2>1 DEF WheelInv
  <2>3. CASE s \in Shifted(ct)
    <3>1. u <= d /\ d < u + Wrap
      BY <1>1, <2>1, <2>3, Moves DEF ct
    <3>2. Right(AddNode(d % Wrap, u % Wrap), d, u)
      BY <1>1, <2>1, <3>1, Placed
    <3> QED
      BY <1>3, <2>2, <2>3, <3>2 DEF ct
  <2>4. CASE s \notin Shifted(ct)
    <3>1. time % Near = ticks % Near
      BY <1>1, SameNear DEF WheelInv
    <3>2. s # Slot(-1, ticks % Near)
      BY <1>3, <3>1 DEF DueNodes, NearSlot
    <3>3. Right(s, d, u)
      BY <1>1, <2>1, <2>4, <3>2, Stays DEF ct
    <3> QED
      BY <1>3, <2>4, <3>3
  <2> QED
    BY <2>3, <2>4
<1>6. ASSUME NEW n \in Nodes, n \notin Queued PROVE where'[n] = where[n]
  <2>1. where[n] \in {InList, InHeap}
    BY <1>1, <1>6 DEF Queued
  <2> QED
    BY <1>3, <1>4, <2>1
<1>7. \A n \in Nodes : where'[n] \in Places <=> n \in Queued
  BY <1>5, <1>6 DEF Right, Queued
<1>8. \A n \in Queued' : Right(where'[n], due'[n], ticks')
  BY <1>3, <1>5, <1>7 DEF Queued
<1>9. \A n \in Nodes \ Free' : expire'[n] = due'[n] % Wrap
  <2>1. ASSUME NEW n \in Nodes, n \notin Free' PROVE n \notin Free
    BY <1>6, <2>1, Exclusive DEF Free
  <2> QED
    BY <1>3, <2>1 DEF WheelInv
<1>10. Dispatched' = {}
  <2>1. ASSUME NEW n \in Nodes, where'[n] = InList PROVE FALSE
    <3>1. n \notin Queued
      BY <1>7, <2>1, SlotFacts
    <3> QED
      BY <1>3, <1>6, <2>1, <3>1 DEF Dispatched
  <2> QED
    BY <2>1 DEF Dispatched
<1>11. where' \in [Nodes -> Places \cup {InList, InHeap}]
  <2>1. \A n \in Nodes : where'[n] \in Places \cup {InList, InHeap}
    BY <1>1, <1>6, <1>7
  <2> QED
    BY <1>3, <2>1
<1>12. ct \in 0 .. Wrap - 1
  BY <1>1, DivModNat DEF ct
<1>13. TypeOK'
  <2>1. ticks' \in 0 .. MaxTicks
    BY <1>1, <1>3, WheelAssumption
  <2> QED
    BY <1>1, <1>3, <1>11, <1>12, <2>1 DEF TypeOK
<1>14. time' = ticks' % Wrap
  BY <1>3 DEF ct
<1>15. pcU' # "before"
  BY <1>3
<1> QED
  BY <1>8, <1>9, <1>10, <1>13, <1>14, <1>15 DEF WheelInv, FiresOnTime

(* Every step keeps the invariant. *)
LEMMA WheelNext == WheelInv /\ [Next]_vars => WheelInv'
<1> SUFFICES ASSUME WheelInv, [Next]_vars PROVE WheelInv'
  OBVIOUS
<1>1. /\ pcU \in {"idle", "before", "after", "cleared"}
      /\ where \in [Nodes -> Places \cup {InList, InHeap}] /\ TypeOK
      /\ pcU = "before" => ticks < MaxTicks
  BY DEF WheelInv, TypeOK
<1>2. ASSUME NEW n \in Nodes, NEW d \in Delays, AddTimer(n, d) PROVE WheelInv'
  BY <1>2, AddInv
<1>3. ASSUME NEW n \in Nodes, DelTimer(n) PROVE WheelInv'
  <2>1. cancel' = [cancel EXCEPT ![n] = TRUE] /\ UNCHANGED <<time, where, expire, pcU, ticks, due>>
    BY <1>3 DEF DelTimer
  <2>2. cancel' \in [Nodes -> BOOLEAN]
    BY <1>1, <2>1 DEF TypeOK
  <2>3. TypeOK'
    BY <1>1, <2>1, <2>2 DEF TypeOK
  <2> QED
    BY <2>1, <2>3 DEF WheelInv, FiresOnTime, Free, Queued, Dispatched
<1>4. ASSUME NEW n \in Nodes, Dispatch(n) PROVE WheelInv'
  BY <1>4, DispatchInv
<1>5. CASE UpdateBegins
  <2>1. /\ UNCHANGED <<time, expire, cancel, ticks, due, where>>
        /\ pcU' = "before" /\ ticks < MaxTicks
    BY <1>5 DEF UpdateBegins, nodes
  <2> QED
    BY <1>1, <2>1, PlacesChange
<1>6. CASE ExecuteTakes
  <2>1. /\ UNCHANGED <<time, expire, cancel, ticks, due, pcU>>
        /\ where' = [n \in Nodes |-> IF n \in DueNodes THEN InList ELSE where[n]]
    BY <1>6 DEF ExecuteTakes, nodes
  <2>2. where' \in [Nodes -> Places \cup {InList, InHeap}]
    BY <1>1, <2>1
  <2>3. \A n \in Nodes : where'[n] = where[n] \/ (where'[n] = InList /\ n \in DueNodes)
    BY <2>1
  <2> QED
    BY <1>1, <2>1, <2>2, <2>3, PlacesChange
<1>7. CASE TimerShift
  BY <1>7, ShiftInv
<1>8. CASE UpdateEnds
  <2>1. UNCHANGED <<time, expire, cancel, ticks, due, where>> /\ pcU' = "idle"
    BY <1>8 DEF UpdateEnds, nodes
  <2> QED
    BY <1>1, <2>1, PlacesChange
<1>9. CASE ClearTimer
  <2>1. /\ UNCHANGED <<time, expire, cancel, ticks, due>> /\ pcU' = "cleared"
        /\ where' = [n \in Nodes |-> IF n \in Queued THEN InHeap ELSE where[n]]
    BY <1>9 DEF ClearTimer, nodes
  <2>2. where' \in [Nodes -> Places \cup {InList, InHeap}]
    BY <1>1, <2>1
  <2>3. \A n \in Nodes : where'[n] = where[n] \/ where'[n] = InHeap
    BY <2>1
  <2> QED
    BY <1>1, <2>1, <2>2, <2>3, PlacesChange
<1>10. CASE UNCHANGED vars
  BY <1>10 DEF WheelInv, TypeOK, FiresOnTime, Free, Queued, Dispatched, vars
<1> QED
  BY <1>2, <1>3, <1>4, <1>5, <1>6, <1>7, <1>8, <1>9, <1>10 DEF Next, Finished

(* The invariant of the wheel: the time is the remainder of the ticks, and *)
(* every timer is dispatched in its tick or in a slot from which           *)
(* timer_shift will bring it there (slot 0 of a lower level excepted).     *)
THEOREM WheelInvariant == Spec => []WheelInv
BY WheelInit, WheelNext, PTL DEF Spec

(* A timer that leaves the wheel leaves it in the tick it was set for, on  *)
(* whatever level add_node had put it, however often timer_shift has moved *)
(* it, whatever was added meanwhile and however often the 32-bit time has  *)
(* wrapped; for every size of the wheel.                                   *)
THEOREM TimersFireOnTime == Spec => []WheelOnTime
<1>1. WheelInv => WheelOnTime
  BY DEF WheelInv, WheelOnTime
<1> QED
  BY <1>1, WheelInvariant, PTL

(* The comparison idx # 0 of timer_shift loses only the timers that        *)
(* add_node has put into slot 0 of level 0, 1 or 2: no other timer is on   *)
(* the wheel after its tick.                                               *)
THEOREM StrandedInSlotZero == Spec => []OnlySlotZeroStrands
<1>1. WheelInv => OnlySlotZeroStrands
  <2> SUFFICES ASSUME WheelInv, NEW n \in Queued, due[n] < ticks
               PROVE  where[n] \in {Slot(l, 0) : l \in 0 .. 2}
    BY DEF OnlySlotZeroStrands
  <2>1. ticks \in Nat /\ due[n] \in Nat
    BY WheelAssumption DEF WheelInv, TypeOK, Queued
  <2>2. Right(where[n], due[n], ticks)
    BY DEF WheelInv
  <2> QED
    BY <2>1, <2>2, Strands
<1> QED
  BY <1>1, WheelInvariant, PTL
=============================================================================
