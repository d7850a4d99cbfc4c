--------------------------- MODULE SequenceFacts ---------------------------
(***************************************************************************)
(* Facts about numbers and sequences that the proofs of several components *)
(* use.                                                                    *)
(*                                                                         *)
(* Concatenations of sequences of sequences are recursive functions.  What *)
(* they compute is proved by induction over sets of numbers: a set of      *)
(* naturals without a least counterexample is the set of all of them.      *)
(***************************************************************************)
EXTENDS Integers, Sequences, SequencesExt, SequenceTheorems, WellFoundedInduction, TLAPS

(* A nonempty set of natural numbers has a least element. *)
LEMMA LeastNatural ==
    ASSUME NEW T \in SUBSET Nat, T # {}
    PROVE  \E m \in T : \A k \in T : m <= k
<1> DEFINE R == OpToRel(<, Nat)
<1>1. IsWellFoundedOn(R, Nat)
  BY NatLessThanWellFounded
<1>2. \A a, b \in Nat : <<a, b>> \in R <=> a < b
  BY DEF OpToRel
<1> HIDE DEF R
<1>3. PICK x \in T : \A y \in T : ~(<<y, x>> \in R)
  BY <1>1, WFMin
<1>4. ASSUME NEW k \in T PROVE x <= k
  <2>1. k \in Nat /\ x \in Nat
    OBVIOUS
  <2>2. ~(k < x)
    BY <1>2, <1>3, <2>1, Zenon
  <2> QED
    BY <2>1, <2>2
<1> QED
  BY <1>4

(* A set that holds 0, and n + 1 with n, holds every natural number. *)
LEMMA SetInduction ==
    ASSUME NEW T \in SUBSET Nat, 0 \in T, \A n \in T : n + 1 \in T
    PROVE  T = Nat
<1> SUFFICES ASSUME Nat \ T # {} PROVE FALSE
  OBVIOUS
<1>1. PICK m \in Nat \ T : \A k \in Nat \ T : m <= k
  BY LeastNatural
<1>2. m # 0 /\ m - 1 \in Nat
  OBVIOUS
<1>3. m - 1 \in T
  BY <1>1, <1>2
<1> QED
  BY <1>1, <1>3

-----------------------------------------------------------------------------
(* FlattenSeq.                                                             *)

(* Concatenation, under a name whose definition stays closed. *)
Join(s, t) == s \o t

(* The function of the partial concatenations that FlattenSeq defines, and *)
(* the concatenation of the first n elements.                              *)
FlatStep(q, f) == [i \in 1 .. Len(q) |-> IF i = 1 THEN q[i] ELSE Join(f[i - 1], q[i])]
Flats(q) == CHOOSE f : f = FlatStep(q, f)
Cat(q, n) == IF n = 0 THEN <<>> ELSE Flats(q)[n]

(* What concatenation does with empty, longer and nested arguments. *)
LEMMA JoinProperties ==
    ASSUME NEW S, NEW s \in Seq(S), NEW t \in Seq(S)
    PROVE  /\ Join(s, t) \in Seq(S)
           /\ Join(s, <<>>) = s /\ Join(<<>>, s) = s
           /\ \A c \in S : Join(s, Append(t, c)) = Append(Join(s, t), c)
           /\ \A u \in Seq(S) : Join(s, Join(t, u)) = Join(Join(s, t), u)
<1>1. s \o t \in Seq(S)
  BY ConcatProperties
<1>2. s \o <<>> = s /\ <<>> \o s = s
  BY ConcatEmptySeq
<1>3. ASSUME NEW c \in S PROVE s \o Append(t, c) = Append(s \o t, c)
  OBVIOUS
<1>4. ASSUME NEW u \in Seq(S) PROVE s \o (t \o u) = (s \o t) \o u
  BY ConcatAssociative
<1> QED
  BY <1>1, <1>2, <1>3, <1>4 DEF Join

(* The recursion has a solution, so Flats is one, and Cat builds up the    *)
(* concatenation of all elements from the left.                            *)
LEMMA CatDefined ==
    ASSUME NEW S, NEW q \in Seq(Seq(S))
    PROVE  /\ Len(q) \in Nat /\ FlattenSeq(q) = Cat(q, Len(q))
           /\ Cat(q, 0) = <<>>
           /\ \A n \in 0 .. Len(q) - 1 : Cat(q, n + 1) = Join(Cat(q, n), q[n + 1])
           /\ \A n \in 0 .. Len(q) : Cat(q, n) \in Seq(S)
           /\ \A n \in 1 .. Len(q) : q[n] \in Seq(S)
<1> DEFINE N == Len(q)
<1>1. /\ N \in Nat /\ (N = 0 => q = <<>>)
      /\ \A i \in 1 .. N : q[i] \in Seq(S)
  BY ElementOfSeq, LenProperties, EmptySeq
<1>2. <<>> \in Seq(S)
  BY EmptySeq
<1>3. FlattenSeq(q) = Cat(q, N)
  <2>1. CASE N = 0
    BY <1>1, <2>1 DEF FlattenSeq, Cat
  <2>2. CASE N # 0
    BY <2>2 DEF FlattenSeq, Cat, Flats, FlatStep, Join
  <2> QED
    BY <2>1, <2>2
<1> HIDE DEF N
<1> DEFINE Solves(g, n) == /\ g \in [1 .. n -> Seq(S)]
                           /\ \A i \in 1 .. n : g[i] = IF i = 1 THEN q[i] ELSE Join(g[i - 1], q[i])
           T == {n \in Nat : n <= N => \E g : Solves(g, n)}
<1>4. 0 \in T
  <2>1. Solves([i \in 1 .. 0 |-> <<>>], 0)
    BY <1>2
  <2> HIDE DEF Solves
  <2> QED
    BY <2>1
<1>5. ASSUME NEW n \in T PROVE n + 1 \in T
  <2> HIDE DEF Solves
  <2> SUFFICES ASSUME n + 1 <= N PROVE \E g : Solves(g, n + 1)
    OBVIOUS
  <2>1. n \in Nat /\ n <= N /\ n + 1 \in 1 .. N
    BY <1>1
  <2>2. PICK g : Solves(g, n)
    BY <2>1
  <2>3. /\ g \in [1 .. n -> Seq(S)]
        /\ \A i \in 1 .. n : g[i] = IF i = 1 THEN q[i] ELSE Join(g[i - 1], q[i])
    BY <2>2 DEF Solves
  <2> DEFINE new == IF n = 0 THEN q[1] ELSE Join(g[n], q[n + 1])
             h == [i \in 1 .. n + 1 |-> IF i <= n THEN g[i] ELSE new]
  <2>4. q[n + 1] \in Seq(S)
    BY <1>1, <2>1
  <2>5. new \in Seq(S)
    <3>1. CASE n = 0
      BY <2>4, <3>1
    <3>2. CASE n # 0
      <4>1. g[n] \in Seq(S)
        BY <2>1, <2>3, <3>2
      <4> QED
        BY <2>4, <3>2, <4>1, JoinProperties
    <3> QED
      BY <3>1, <3>2
  <2>6. n = 0 => new = q[n + 1]
    OBVIOUS
  <2>7. n # 0 => new = Join(g[n], q[n + 1])
    OBVIOUS
  <2> HIDE DEF new
  <2>8. h \in [1 .. n + 1 -> Seq(S)]
    BY <2>1, <2>3, <2>5
  <2>9. ASSUME NEW i \in 1 .. n + 1
        PROVE  h[i] = IF i = 1 THEN q[i] ELSE Join(h[i - 1], q[i])
    <3>1. CASE i <= n
      <4>1. i \in 1 .. n /\ h[i] = g[i] /\ (i # 1 => h[i - 1] = g[i - 1])
        BY <2>1, <3>1
      <4> HIDE DEF h
      <4> QED
        BY <2>3, <4>1
    <3>2. CASE i = n + 1
      <4>1. h[i] = new /\ (i # 1 => h[i - 1] = g[n] /\ n # 0) /\ (i = 1 => n = 0)
        BY <2>1, <3>2
      <4> HIDE DEF h
      <4> QED
        BY <2>6, <2>7, <3>2, <4>1
    <3> QED
      BY <2>1, <3>1, <3>2
  <2> HIDE DEF h
  <2>10. Solves(h, n + 1)
    BY <2>8, <2>9 DEF Solves
  <2> QED
    BY <2>10
<1>6. T = Nat
  <2> HIDE DEF T
  <2>1. T \in SUBSET Nat
    BY DEF T
  <2> QED
    BY <1>4, <1>5, <2>1, SetInduction
<1>7. PICK g : Solves(g, N)
  <2> HIDE DEF Solves
  <2> HIDE DEF T
  <2>1. N \in T /\ N <= N
    BY <1>1, <1>6
  <2> QED
    BY <2>1 DEF T
<1>8. g = FlatStep(q, g)
  BY <1>1, <1>7 DEF FlatStep, N
<1>9. Flats(q) = FlatStep(q, Flats(q))
  BY <1>8 DEF Flats
<1> HIDE DEF T, Solves
<1> DEFINE f == Flats(q)
<1>10. f = [i \in 1 .. N |-> IF i = 1 THEN q[i] ELSE Join(f[i - 1], q[i])]
  BY <1>9 DEF FlatStep, N
<1> HIDE DEF f
<1>11. \A n \in Nat : Cat(q, n) = IF n = 0 THEN <<>> ELSE f[n]
  BY DEF Cat, f
<1>12. ASSUME NEW n \in 0 .. N - 1 PROVE Cat(q, n + 1) = Join(Cat(q, n), q[n + 1])
  <2>1. n \in Nat /\ n + 1 \in 1 .. N /\ n + 1 # 0 /\ (n + 1) - 1 = n /\ (n = 0 <=> n + 1 = 1)
    BY <1>1
  <2>2. f[n + 1] = IF n + 1 = 1 THEN q[n + 1] ELSE Join(f[n], q[n + 1])
    BY <1>10, <2>1
  <2>3. Cat(q, n + 1) = f[n + 1]
    BY <1>11, <2>1
  <2>4. CASE n = 0
    <3>1. Cat(q, n) = <<>> /\ Cat(q, n + 1) = q[n + 1] /\ q[n + 1] \in Seq(S)
      BY <1>1, <1>11, <2>1, <2>2, <2>3, <2>4
    <3> QED
      BY <3>1, JoinProperties
  <2>5. CASE n # 0
    BY <1>11, <2>1, <2>2, <2>3, <2>5
  <2> QED
    BY <2>4, <2>5
<1>13. Cat(q, 0) = <<>>
  BY DEF Cat
<1> DEFINE U == {n \in Nat : n <= N => Cat(q, n) \in Seq(S)}
<1>14. 0 \in U
  BY <1>2, <1>13
<1>15. ASSUME NEW n \in U PROVE n + 1 \in U
  <2> SUFFICES ASSUME n + 1 <= N PROVE Cat(q, n + 1) \in Seq(S)
    OBVIOUS
  <2>1. n \in 0 .. N - 1 /\ n + 1 \in 1 .. N /\ n <= N
    BY <1>1
  <2>2. Cat(q, n) \in Seq(S) /\ q[n + 1] \in Seq(S)
    BY <1>1, <2>1
  <2> QED
    BY <1>12, <2>1, <2>2, JoinProperties
<1>16. U = Nat
  <2> HIDE DEF U
  <2>1. U \in SUBSET Nat
    BY DEF U
  <2> QED
    BY <1>14, <1>15, <2>1, SetInduction
<1>17. \A n \in 0 .. N : Cat(q, n) \in Seq(S)
  BY <1>1, <1>16
<1> QED
  BY <1>1, <1>3, <1>12, <1>13, <1>17 DEF N

(* Sequences that agree up to k have the same concatenation up to k. *)
LEMMA CatAgree ==
    ASSUME NEW S, NEW q \in Seq(Seq(S)), NEW r \in Seq(Seq(S)), NEW k \in Nat,
           k <= Len(q), k <= Len(r), \A i \in 1 .. k : q[i] = r[i]
    PROVE  Cat(q, k) = Cat(r, k)
<1> DEFINE U == {n \in Nat : n <= k => Cat(q, n) = Cat(r, n)}
<1>1. /\ Len(q) \in Nat /\ Cat(q, 0) = <<>>
      /\ \A n \in 0 .. Len(q) - 1 : Cat(q, n + 1) = Join(Cat(q, n), q[n + 1])
  BY CatDefined
<1>2. /\ Len(r) \in Nat /\ Cat(r, 0) = <<>>
      /\ \A n \in 0 .. Len(r) - 1 : Cat(r, n + 1) = Join(Cat(r, n), r[n + 1])
  BY CatDefined
<1>3. 0 \in U
  BY <1>1, <1>2
<1>4. ASSUME NEW n \in U PROVE n + 1 \in U
  <2> SUFFICES ASSUME n + 1 <= k PROVE Cat(q, n + 1) = Cat(r, n + 1)
    OBVIOUS
  <2>1. n \in 0 .. Len(q) - 1 /\ n \in 0 .. Len(r) - 1 /\ n + 1 \in 1 .. k /\ n <= k
    BY <1>1, <1>2
  <2> QED
    BY <1>1, <1>2, <2>1
<1>5. U = Nat
  <2>1. U \in SUBSET Nat
    OBVIOUS
  <2> HIDE DEF U
  <2> QED
    BY <1>3, <1>4, <2>1, SetInduction
<1> QED
  BY <1>5

(* The concatenation of a sequence with one more element. *)
LEMMA FlattenAppend ==
    ASSUME NEW S, NEW q \in Seq(Seq(S)), NEW b \in Seq(S)
    PROVE  FlattenSeq(Append(q, b)) = Join(FlattenSeq(q), b)
<1> DEFINE r == Append(q, b)
           n == Len(q)
<1>1. /\ r \in Seq(Seq(S)) /\ n \in Nat /\ Len(r) = n + 1 /\ r[n + 1] = b
      /\ \A i \in 1 .. n : q[i] = r[i]
  BY AppendProperties, LenProperties
<1> HIDE DEF r
<1>2. FlattenSeq(q) = Cat(q, n) /\ FlattenSeq(r) = Cat(r, n + 1)
  BY <1>1, CatDefined
<1>3. Cat(q, n) = Cat(r, n)
  <2>1. n <= Len(q) /\ n <= Len(r)
    BY <1>1
  <2> QED
    BY <1>1, <2>1, CatAgree
<1>4. Cat(r, n + 1) = Join(Cat(r, n), b)
  <2>1. n \in 0 .. Len(r) - 1
    BY <1>1
  <2> QED
    BY <1>1, <2>1, CatDefined
<1> QED
  BY <1>2, <1>3, <1>4 DEF r

(* The concatenation of a sequence, from its first element. *)
LEMMA FlattenHead ==
    ASSUME NEW S, NEW q \in Seq(Seq(S)), q # <<>>
    PROVE  /\ FlattenSeq(q) = Join(Head(q), FlattenSeq(Tail(q)))
           /\ Head(q) \in Seq(S) /\ FlattenSeq(Tail(q)) \in Seq(S)
<1> DEFINE r == Tail(q)
           a == Head(q)
           n == Len(r)
<1>1. /\ r \in Seq(Seq(S)) /\ n \in Nat /\ Len(q) = n + 1 /\ Len(q) \in Nat
      /\ a = q[1] /\ a \in Seq(S) /\ \A i \in 1 .. n : r[i] = q[i + 1]
  <2>1. /\ r \in Seq(Seq(S)) /\ a \in Seq(S) /\ Len(r) = Len(q) - 1
        /\ \A i \in 1 .. Len(q) - 1 : r[i] = q[i + 1]
    BY HeadTailProperties
  <2>2. Len(q) \in Nat /\ Len(r) \in Nat
    BY <2>1, LenProperties
  <2> QED
    BY <2>1, <2>2
<1> HIDE DEF r, a, n
<1>2. /\ Cat(q, 0) = <<>> /\ FlattenSeq(q) = Cat(q, n + 1)
      /\ \A i \in 0 .. n : Cat(q, i + 1) = Join(Cat(q, i), q[i + 1])
  <2>1. Len(q) = n + 1 /\ Len(q) - 1 = n
    BY <1>1
  <2>2. /\ Cat(q, 0) = <<>> /\ FlattenSeq(q) = Cat(q, Len(q))
        /\ \A i \in 0 .. Len(q) - 1 : Cat(q, i + 1) = Join(Cat(q, i), q[i + 1])
    BY CatDefined
  <2> QED
    BY <2>1, <2>2
<1>3. /\ Cat(r, 0) = <<>> /\ FlattenSeq(r) = Cat(r, n)
      /\ \A i \in 0 .. n - 1 : Cat(r, i + 1) = Join(Cat(r, i), r[i + 1])
      /\ \A i \in 0 .. n : Cat(r, i) \in Seq(S)
      /\ \A i \in 1 .. n : r[i] \in Seq(S)
  BY <1>1, CatDefined DEF n
<1> DEFINE U == {i \in Nat : i <= n => Cat(q, i + 1) = Join(a, Cat(r, i))}
<1>4. 0 \in U
  <2>1. 0 \in 0 .. n
    BY <1>1
  <2>2. Cat(q, 0 + 1) = Join(<<>>, a)
    BY <1>1, <1>2, <2>1
  <2>3. Join(<<>>, a) = a /\ Join(a, <<>>) = a
    BY <1>1, JoinProperties
  <2> QED
    BY <1>3, <2>2, <2>3
<1>5. ASSUME NEW i \in U PROVE i + 1 \in U
  <2> SUFFICES ASSUME i + 1 <= n PROVE Cat(q, (i + 1) + 1) = Join(a, Cat(r, i + 1))
    OBVIOUS
  <2>1. i \in 0 .. n - 1 /\ i + 1 \in 0 .. n /\ i + 1 \in 1 .. n /\ i \in 0 .. n /\ i <= n
    BY <1>1
  <2>2. /\ Cat(q, i + 1) = Join(a, Cat(r, i))
        /\ Cat(q, (i + 1) + 1) = Join(Cat(q, i + 1), r[i + 1])
        /\ Cat(r, i + 1) = Join(Cat(r, i), r[i + 1])
        /\ Cat(r, i) \in Seq(S) /\ r[i + 1] \in Seq(S)
    BY <1>1, <1>2, <1>3, <2>1
  <2>3. Join(a, Join(Cat(r, i), r[i + 1])) = Join(Join(a, Cat(r, i)), r[i + 1])
    BY <1>1, <2>2, JoinProperties
  <2> QED
    BY <2>2, <2>3
<1>6. U = Nat
  <2>1. U \in SUBSET Nat
    OBVIOUS
  <2> HIDE DEF U
  <2> QED
    BY <1>4, <1>5, <2>1, SetInduction
<1>7. Cat(q, n + 1) = Join(a, Cat(r, n))
  <2> HIDE DEF U
  <2>1. n \in U /\ n <= n
    BY <1>1, <1>6
  <2> QED
    BY <2>1 DEF U
<1>8. FlattenSeq(r) \in Seq(S)
  BY <1>1, <1>3
<1> QED
  BY <1>1, <1>2, <1>3, <1>7, <1>8 DEF r, a

(* The concatenation of a prefix is a prefix of the concatenation. *)
LEMMA FlattenPrefix ==
    ASSUME NEW S, NEW q \in Seq(Seq(S)), NEW k \in Nat, k <= Len(q)
    PROVE  /\ FlattenSeq(SubSeq(q, 1, k)) \in Seq(S)
           /\ \E rest \in Seq(S) : FlattenSeq(q) = Join(FlattenSeq(SubSeq(q, 1, k)), rest)
<1> DEFINE r == SubSeq(q, 1, k)
           n == Len(q)
<1>1. n \in Nat /\ \A i \in 1 .. n : q[i] \in Seq(S)
  BY LenProperties, ElementOfSeq
<1>2. r \in Seq(Seq(S)) /\ Len(r) = k /\ \A i \in 1 .. k : r[i] = q[i]
  BY <1>1
<1> HIDE DEF r, n
<1>3. FlattenSeq(r) = Cat(q, k)
  <2>1. FlattenSeq(r) = Cat(r, k)
    BY <1>2, CatDefined
  <2>2. k <= Len(q) /\ k <= Len(r)
    BY <1>2
  <2>3. Cat(r, k) = Cat(q, k)
    BY <1>2, <2>2, CatAgree
  <2> QED
    BY <2>1, <2>3
<1>4. /\ FlattenSeq(q) = Cat(q, n)
      /\ \A i \in 0 .. n - 1 : Cat(q, i + 1) = Join(Cat(q, i), q[i + 1])
      /\ \A i \in 0 .. n : Cat(q, i) \in Seq(S)
  BY CatDefined DEF n
<1>5. k \in 0 .. n /\ Cat(q, k) \in Seq(S)
  BY <1>1, <1>4 DEF n
<1> DEFINE U == {i \in Nat : k + i <= n => \E rest \in Seq(S) : Cat(q, k + i) = Join(Cat(q, k), rest)}
<1>6. 0 \in U
  <2>1. <<>> \in Seq(S)
    BY EmptySeq
  <2>2. Cat(q, k) = Join(Cat(q, k), <<>>)
    BY <1>5, JoinProperties
  <2>3. k + 0 = k
    OBVIOUS
  <2> QED
    BY <2>1, <2>2, <2>3
<1>7. ASSUME NEW i \in U PROVE i + 1 \in U
  <2> SUFFICES ASSUME k + (i + 1) <= n
               PROVE  \E rest \in Seq(S) : Cat(q, k + (i + 1)) = Join(Cat(q, k), rest)
    OBVIOUS
  <2>1. k + i \in 0 .. n - 1 /\ k + (i + 1) = (k + i) + 1 /\ k + i <= n /\ (k + i) + 1 \in 1 .. n
    BY <1>1, <1>5
  <2>2. PICK rest \in Seq(S) : Cat(q, k + i) = Join(Cat(q, k), rest)
    BY <2>1
  <2>3. q[(k + i) + 1] \in Seq(S)
    BY <1>1, <2>1
  <2>4. Cat(q, (k + i) + 1) = Join(Cat(q, k + i), q[(k + i) + 1])
    BY <1>4, <2>1
  <2>5. Join(rest, q[(k + i) + 1]) \in Seq(S)
    BY <2>3, JoinProperties
  <2>6. Join(Cat(q, k), Join(rest, q[(k + i) + 1])) = Join(Join(Cat(q, k), rest), q[(k + i) + 1])
    <3> DEFINE x == Cat(q, k)
               y == q[(k + i) + 1]
    <3>1. x \in Seq(S) /\ y \in Seq(S) /\ rest \in Seq(S)
      BY <1>5, <2>3
    <3> HIDE DEF x, y
    <3>2. Join(x, Join(rest, y)) = Join(Join(x, rest), y)
      BY <3>1, JoinProperties
    <3> QED
      BY <3>2 DEF x, y
  <2> QED
    BY <2>1, <2>2, <2>4, <2>5, <2>6
<1>8. U = Nat
  <2>1. U \in SUBSET Nat
    OBVIOUS
  <2> HIDE DEF U
  <2> QED
    BY <1>6, <1>7, <2>1, SetInduction
<1>9. n - k \in Nat /\ k + (n - k) = n
  BY <1>1, <1>5
<1>10. n - k \in U
  BY <1>8, <1>9
<1>11. \E rest \in Seq(S) : Cat(q, n) = Join(Cat(q, k), rest)
  BY <1>1, <1>9, <1>10
<1> QED
  BY <1>3, <1>4, <1>5, <1>11 DEF r
=============================================================================
