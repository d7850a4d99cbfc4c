---------------------------- MODULE LibraryProofs ----------------------------
(***************************************************************************)
(* Theorems about the libraries that each stand on their own.              *)
(*                                                                         *)
(* LogFile: for every roll size, check interval, flush interval and        *)
(* period, any clock that is set back and forth, and any number of chunks. *)
(* Sizes and the concatenation of the files are recursive functions; what  *)
(* they compute is proved with SetInduction of SequenceFacts.              *)
(*                                                                         *)
(* TryCatch: for any set of exceptions and any depth of nesting.  The      *)
(* frames on the stack are those of the statements whose body runs, in     *)
(* their order, so that what is on top belongs to the innermost body.      *)
(*                                                                         *)
(* Memory: for any size of the pool and any requests.  The chunks of a     *)
(* block lie between its header and last, so that what is cut off behind   *)
(* last meets none of them; the list of large pieces has each once.        *)
(*                                                                         *)
(* LogFrontEnd: for every year, every second of a day, every well-formed   *)
(* zone file, any times and any threads.  The conversions count years from *)
(* March; a search by local time finds the transition of the true time or  *)
(* the next one.  Numbers as large as 86400 are kept behind names, as some *)
(* provers count in ones.                                                  *)
(***************************************************************************)
EXTENDS LogFile, TryCatch, Memory, LogFrontEnd, SequenceFacts, SequenceTheorems, FiniteSetTheorems, TLAPS

Chunk == [id : Nat, len : ChunkSizes, at : Times]

-----------------------------------------------------------------------------
(* The inductive invariant.                                                *)

(* The open file is the one of the last roll, and the latest of all: files *)
(* with a later name do not exist, even when the clock has been set back.  *)
OpenIsLatest ==
    /\ files \in [Times -> Seq(Chunk)]
    /\ open = lastRoll /\ startOfPeriod = Period(open)
    /\ \A t \in Times : t > open => files[t] = <<>>

(* fflush and fclose push out what has been written, and the bound on      *)
(* appends bounds it.                                                      *)
WrittenInv ==
    /\ durable <= Len(Written(files)) /\ Len(Written(files)) <= MaxChunks
    /\ Len(Written(files)) = 0 => \A t \in Times : files[t] = <<>>

(* In the open file no chunk at all ends beyond RollSize, once the second  *)
(* of its name is over.                                                    *)
OpenBound ==
    \A i \in 1 .. Len(files[open]) :
        files[open][i].at > open => Size(SubSeq(files[open], 1, i)) <= RollSize

(* Without a step back the last chunk is the youngest, count_ counts the   *)
(* chunks of later periods in the open file, and the files that were left  *)
(* have at most one more than count_ can reach.                            *)
LateInv ==
    Steady => /\ \A t \in Times : \A i \in 1 .. Len(files[t]) :
                    files[t][i].at <= Written(files)[Len(Written(files))].at
              /\ Cardinality(Late(open)) <= count
              /\ \A t \in Times : Cardinality(Late(t)) <= CheckEveryN

FileInv ==
    /\ TypeOK
    /\ OpenIsLatest
    /\ WrittenInv
    /\ SizeIsReal
    /\ SizeBound
    /\ OpenBound
    /\ LateInv

-----------------------------------------------------------------------------
(* Sizes.                                                                  *)

(* The function of the partial sums that Size defines by recursion. *)
SumStep(s, f) == [i \in 0 .. Len(s) |-> IF i = 0 THEN 0 ELSE f[i - 1] + s[i].len]
Sums(s) == CHOOSE f : f = SumStep(s, f)

(* The size of a file is its last partial sum. *)
LEMMA SizeIsLastSum == \A s : Size(s) = Sums(s)[Len(s)]
BY DEF Size, Sums, SumStep

(* The recursion has a solution, so Sums is one. *)
LEMMA SumsDefined ==
    ASSUME NEW s \in Seq(Chunk)
    PROVE  /\ Len(s) \in Nat /\ Sums(s)[0] = 0
           /\ \A i \in 1 .. Len(s) : Sums(s)[i] = Sums(s)[i - 1] + s[i].len
           /\ \A i \in 0 .. Len(s) : Sums(s)[i] \in Nat
<1>1. Len(s) \in Nat /\ \A i \in 1 .. Len(s) : s[i].len \in Nat
  <2>1. \A i \in 1 .. Len(s) : s[i] \in Chunk
    BY ElementOfSeq
  <2>2. \A c \in Chunk : c.len \in Nat
    BY LogFileAssumption DEF Chunk
  <2> QED
    BY <2>1, <2>2, LenProperties
<1> DEFINE Solves(g, n) == /\ g \in [0 .. n -> Nat] /\ g[0] = 0
                           /\ \A i \in 1 .. n : g[i] = g[i - 1] + s[i].len
           T == {n \in Nat : n <= Len(s) => \E g : Solves(g, n)}
<1>2. 0 \in T
  <2>1. Solves([i \in 0 .. 0 |-> 0], 0)
    OBVIOUS
  <2> QED
    BY <2>1
<1>3. ASSUME NEW n \in T PROVE n + 1 \in T
  <2> HIDE DEF Solves
  <2> SUFFICES ASSUME n + 1 <= Len(s) PROVE \E g : Solves(g, n + 1)
    OBVIOUS
  <2> USE DEF Solves
  <2>1. n \in Nat /\ n <= Len(s) /\ s[n + 1].len \in Nat
    BY <1>1
  <2>2. PICK g : Solves(g, n)
    BY <2>1
  <2> DEFINE h == [i \in 0 .. n + 1 |-> IF i <= n THEN g[i] ELSE g[n] + s[n + 1].len]
  <2>3. h \in [0 .. n + 1 -> Nat] /\ h[0] = 0
    BY <2>1, <2>2
  <2>4. ASSUME NEW i \in 1 .. n + 1 PROVE h[i] = h[i - 1] + s[i].len
    <3>1. CASE i <= n
      BY <2>1, <2>2, <3>1
    <3>2. CASE i = n + 1
      BY <2>1, <2>2, <3>2
    <3> QED
      BY <2>1, <3>1, <3>2
  <2> HIDE DEF h
  <2>5. Solves(h, n + 1)
    BY <2>3, <2>4
  <2> QED
    BY <2>5
<1>4. T = Nat
  <2> HIDE DEF T
  <2>1. T \in SUBSET Nat
    BY DEF T
  <2> QED
    BY <1>2, <1>3, <2>1, SetInduction
<1>5. PICK g : Solves(g, Len(s))
  BY <1>1, <1>4, SMTT(30)
<1>6. g = SumStep(s, g)
  BY <1>1, <1>5 DEF SumStep
<1>7. Sums(s) = SumStep(s, Sums(s))
  BY <1>6 DEF Sums
<1> HIDE DEF T
<1> DEFINE f == Sums(s)
<1>8. f = [i \in 0 .. Len(s) |-> IF i = 0 THEN 0 ELSE f[i - 1] + s[i].len]
  BY <1>7 DEF SumStep
<1> HIDE DEF f
<1>9. f[0] = 0 /\ \A i \in 1 .. Len(s) : f[i] = f[i - 1] + s[i].len
  BY <1>1, <1>8
<1> DEFINE U == {n \in Nat : n <= Len(s) => f[n] \in Nat}
<1>10. U = Nat
  <2>1. 0 \in U
    BY <1>9
  <2>2. ASSUME NEW n \in U PROVE n + 1 \in U
    <3> SUFFICES ASSUME n + 1 <= Len(s) PROVE f[n + 1] \in Nat
      OBVIOUS
    <3>1. n \in Nat /\ f[n] \in Nat /\ n + 1 \in 1 .. Len(s) /\ (n + 1) - 1 = n
      BY <1>1
    <3>2. f[n + 1] = f[n] + s[n + 1].len
      BY <1>9, <3>1
    <3> QED
      BY <1>1, <3>1, <3>2
  <2>3. U \in SUBSET Nat
    OBVIOUS
  <2> HIDE DEF U
  <2> QED
    BY <2>1, <2>2, <2>3, SetInduction
<1>11. \A i \in 0 .. Len(s) : f[i] \in Nat
  BY <1>1, <1>10
<1> QED
  BY <1>1, <1>9, <1>11 DEF f

(* Sequences that agree up to k have the same partial sums up to k. *)
LEMMA SumsAgree ==
    ASSUME NEW s \in Seq(Chunk), NEW t \in Seq(Chunk), NEW k \in Nat,
           k <= Len(s), k <= Len(t), \A i \in 1 .. k : s[i] = t[i]
    PROVE  Sums(s)[k] = Sums(t)[k]
<1> DEFINE U == {n \in Nat : n <= k => Sums(s)[n] = Sums(t)[n]}
<1>1. 0 \in U
  BY SumsDefined
<1>2. ASSUME NEW n \in U PROVE n + 1 \in U
  <2> SUFFICES ASSUME n + 1 <= k PROVE Sums(s)[n + 1] = Sums(t)[n + 1]
    OBVIOUS
  <2>1. /\ n \in Nat /\ Sums(s)[n] = Sums(t)[n] /\ (n + 1) - 1 = n
        /\ n + 1 \in 1 .. Len(s) /\ n + 1 \in 1 .. Len(t) /\ s[n + 1] = t[n + 1]
    BY SumsDefined
  <2>2. Sums(s)[n + 1] = Sums(s)[n] + s[n + 1].len
    BY <2>1, SumsDefined
  <2>3. Sums(t)[n + 1] = Sums(t)[n] + t[n + 1].len
    BY <2>1, SumsDefined
  <2> QED
    BY <2>1, <2>2, <2>3
<1>3. U \in SUBSET Nat
  OBVIOUS
<1>4. U = Nat
  <2> HIDE DEF U
  <2> QED
    BY <1>1, <1>2, <1>3, SetInduction
<1> QED
  BY <1>4

(* An empty file has size 0. *)
LEMMA SizeEmpty == Size(<<>>) = 0
<1>1. <<>> \in Seq(Chunk) /\ Len(<<>>) = 0
  BY EmptySeq
<1> QED
  BY <1>1, SizeIsLastSum, SumsDefined

(* An append adds its length to the size. *)
LEMMA SizeAppend ==
    ASSUME NEW s \in Seq(Chunk), NEW c \in Chunk
    PROVE  Size(Append(s, c)) = Size(s) + c.len /\ Size(s) \in Nat
<1> DEFINE t == Append(s, c)
           n == Len(s)
<1>1. /\ t \in Seq(Chunk) /\ n \in Nat /\ Len(t) = n + 1
      /\ \A i \in 1 .. n : t[i] = s[i] /\ t[n + 1] = c
  BY AppendProperties
<1>2. t[n + 1] = c
  BY AppendProperties
<1> HIDE DEF t
<1>3. Sums(t)[n + 1] = Sums(t)[n] + c.len
  <2>1. n + 1 \in 1 .. Len(t) /\ (n + 1) - 1 = n
    BY <1>1
  <2> QED
    BY <1>1, <1>2, <2>1, SumsDefined
<1>4. Sums(t)[n] = Sums(s)[n]
  BY <1>1, SumsAgree
<1>5. Sums(s)[n] \in Nat
  BY <1>1, SumsDefined
<1> QED
  BY <1>1, <1>3, <1>4, <1>5, SizeIsLastSum DEF t

-----------------------------------------------------------------------------
(* The concatenation of the files.                                         *)

(* The record is the concatenation of the files in the order of their      *)
(* names.                                                                  *)
LEMMA WrittenIsCat ==
    ASSUME NEW q \in [Times -> Seq(Chunk)]
    PROVE  /\ Written(q) = Cat(q, MaxTime) /\ Written(q) \in Seq(Chunk)
           /\ MaxTime \in Nat \ {0} /\ Cat(q, 0) = <<>>
           /\ \A n \in 0 .. MaxTime - 1 : Cat(q, n + 1) = Join(Cat(q, n), q[n + 1])
           /\ \A n \in 0 .. MaxTime : Cat(q, n) \in Seq(Chunk)
<1>1. q = [t \in Times |-> q[t]] /\ MaxTime \in Nat /\ MaxTime # 0
  BY LogFileAssumption
<1>2. q \in Seq(Seq(Chunk)) /\ Len(q) = MaxTime
  <2>1. q \in Seq(Seq(Chunk))
    BY <1>1, SeqDef DEF Times
  <2> QED
    BY <1>1, <2>1, LenProperties DEF Times
<1>3. /\ FlattenSeq(q) = Cat(q, MaxTime) /\ Cat(q, 0) = <<>>
      /\ \A n \in 0 .. MaxTime - 1 : Cat(q, n + 1) = Join(Cat(q, n), q[n + 1])
      /\ \A n \in 0 .. MaxTime : Cat(q, n) \in Seq(Chunk)
  BY <1>2, CatDefined
<1>4. MaxTime \in 0 .. MaxTime
  BY <1>1
<1> QED
  BY <1>1, <1>3, <1>4 DEF Written

(* Empty files make an empty record. *)
LEMMA WrittenEmpty ==
    ASSUME NEW q \in [Times -> Seq(Chunk)], \A t \in Times : q[t] = <<>>
    PROVE  Written(q) = <<>>
<1> DEFINE U == {n \in Nat : n <= MaxTime => Cat(q, n) = <<>>}
<1>1. /\ MaxTime \in Nat \ {0} /\ Cat(q, 0) = <<>> /\ Written(q) = Cat(q, MaxTime)
      /\ \A n \in 0 .. MaxTime - 1 : Cat(q, n + 1) = Join(Cat(q, n), q[n + 1])
  BY WrittenIsCat
<1>2. Join(<<>>, <<>>) = <<>>
  <2>1. <<>> \in Seq(Chunk)
    BY EmptySeq
  <2> QED
    BY <2>1, JoinProperties
<1>3. 0 \in U
  BY <1>1
<1>4. ASSUME NEW n \in U PROVE n + 1 \in U
  <2> SUFFICES ASSUME n + 1 <= MaxTime PROVE Cat(q, n + 1) = <<>>
    OBVIOUS
  <2>1. n \in 0 .. MaxTime - 1 /\ n + 1 \in Times /\ n <= MaxTime
    BY <1>1 DEF Times
  <2>2. Cat(q, n) = <<>> /\ q[n + 1] = <<>> /\ Cat(q, n + 1) = Join(Cat(q, n), q[n + 1])
    BY <1>1, <2>1
  <2> QED
    BY <1>2, <2>2
<1>5. U \in SUBSET Nat
  OBVIOUS
<1> HIDE DEF U
<1>6. U = Nat
  BY <1>3, <1>4, <1>5, SetInduction
<1>7. MaxTime \in U /\ MaxTime <= MaxTime
  BY <1>1, <1>6
<1> QED
  BY <1>1, <1>7 DEF U

(* A chunk appended to a file with nothing behind it is appended to what   *)
(* has been written in all files.                                          *)
LEMMA WrittenAppend ==
    ASSUME NEW q \in [Times -> Seq(Chunk)], NEW o \in Times, NEW c \in Chunk,
           \A t \in Times : t > o => q[t] = <<>>
    PROVE  /\ Written([q EXCEPT ![o] = Append(@, c)]) = Append(Written(q), c)
           /\ [q EXCEPT ![o] = Append(@, c)] \in [Times -> Seq(Chunk)]
<1> DEFINE r == [q EXCEPT ![o] = Append(@, c)]
           f(n) == Cat(q, n)
           g(n) == Cat(r, n)
           Same(n) == IF n < o THEN g(n) = f(n) ELSE g(n) = Append(f(n), c)
           U == {n \in Nat : n <= MaxTime => Same(n)}
<1>1. Append(q[o], c) \in Seq(Chunk) /\ q[o] \in Seq(Chunk)
  BY AppendProperties
<1>2. r \in [Times -> Seq(Chunk)]
  BY <1>1
<1>3. /\ MaxTime \in Nat \ {0} /\ f(0) = <<>> /\ Written(q) = f(MaxTime)
      /\ \A n \in 0 .. MaxTime - 1 : f(n + 1) = Join(f(n), q[n + 1])
      /\ \A n \in 0 .. MaxTime : f(n) \in Seq(Chunk)
  BY WrittenIsCat
<1>4. /\ g(0) = <<>> /\ Written(r) = g(MaxTime)
      /\ \A n \in 0 .. MaxTime - 1 : g(n + 1) = Join(g(n), r[n + 1])
  <2> HIDE DEF r
  <2> QED
    BY <1>2, WrittenIsCat
<1>5. \A t \in Times : r[t] = IF t = o THEN Append(q[o], c) ELSE q[t]
  BY <1>1
<1>6. \A t \in Times : q[t] \in Seq(Chunk) /\ (t > o => q[t] = <<>>)
  OBVIOUS
<1>7. o \in Nat /\ o >= 1 /\ o <= MaxTime
  BY <1>3 DEF Times
<1> HIDE DEF f, g, r
<1>8. 0 \in U
  BY <1>3, <1>4, <1>7
<1>9. ASSUME NEW n \in U PROVE n + 1 \in U
  <2> SUFFICES ASSUME n + 1 <= MaxTime PROVE Same(n + 1)
    OBVIOUS
  <2> DEFINE m == n + 1
  <2>1. n \in Nat /\ n \in 0 .. MaxTime - 1 /\ n \in 0 .. MaxTime /\ m \in 0 .. MaxTime /\ m \in Times /\ m \in Nat
    BY <1>3 DEF Times
  <2>2. g(m) = Join(g(n), r[m]) /\ f(m) = Join(f(n), q[m])
    BY <1>3, <1>4, <2>1
  <2>3. IF n < o THEN g(n) = f(n) ELSE g(n) = Append(f(n), c)
    BY <1>3, <2>1
  <2>4. f(n) \in Seq(Chunk) /\ q[m] \in Seq(Chunk)
    BY <1>3, <1>6, <2>1
  <2>5. r[m] = IF m = o THEN Append(q[o], c) ELSE q[m]
    BY <1>5, <2>1, Zenon
  <2>6. m = n + 1
    OBVIOUS
  <2> HIDE DEF m, U
  <2>7. CASE m < o
    <3>1. g(n) = f(n) /\ r[m] = q[m]
      BY <1>7, <2>1, <2>3, <2>5, <2>6, <2>7
    <3> QED
      BY <2>2, <2>7, <3>1 DEF m
  <2>8. CASE m = o
    <3>1. g(n) = f(n) /\ r[m] = Append(q[m], c) /\ ~(m < o)
      BY <1>7, <2>1, <2>3, <2>5, <2>6, <2>8
    <3>2. Join(f(n), Append(q[m], c)) = Append(Join(f(n), q[m]), c)
      <4> DEFINE x == f(n)
                 y == q[m]
      <4>1. x \in Seq(Chunk) /\ y \in Seq(Chunk)
        BY <2>4
      <4> HIDE DEF x, y
      <4>2. Join(x, Append(y, c)) = Append(Join(x, y), c)
        BY <4>1, JoinProperties
      <4> QED
        BY <4>2 DEF x, y
    <3>3. g(m) = Append(f(m), c)
      BY <2>2, <3>1, <3>2
    <3> QED
      BY <3>1, <3>3 DEF m
  <2>9. CASE m > o
    <3>1. q[m] = <<>>
      BY <1>6, <2>1, <2>9
    <3>2. g(n) = Append(f(n), c) /\ r[m] = <<>> /\ ~(m < o)
      BY <1>7, <2>1, <2>3, <2>5, <2>6, <2>9, <3>1
    <3>3. Append(f(n), c) \in Seq(Chunk)
      BY <2>4, AppendProperties
    <3>4. g(m) = Append(f(n), c)
      BY <2>2, <3>2, <3>3, JoinProperties
    <3>5. f(m) = f(n)
      BY <2>2, <2>4, <3>1, JoinProperties
    <3> QED
      BY <3>2, <3>4, <3>5 DEF m
  <2> QED
    BY <1>7, <2>1, <2>7, <2>8, <2>9
<1>10. U = Nat
  <2>1. U \in SUBSET Nat
    OBVIOUS
  <2> HIDE DEF U
  <2> QED
    BY <1>8, <1>9, <2>1, SetInduction
<1>11. g(MaxTime) = Append(f(MaxTime), c)
  <2> HIDE DEF U
  <2>1. MaxTime \in U /\ MaxTime <= MaxTime /\ ~(MaxTime < o)
    BY <1>3, <1>7, <1>10
  <2> QED
    BY <2>1 DEF U
<1> QED
  BY <1>2, <1>3, <1>4, <1>11 DEF r

-----------------------------------------------------------------------------
(* Periods.                                                                *)

(* A later second is in the same or in a later period. *)
LEMMA PeriodMonotone ==
    ASSUME NEW a \in Nat, NEW b \in Nat, a <= b
    PROVE  Period(a) <= Period(b) /\ Period(a) \in 0 .. a
<1>1. PeriodLength \in Nat /\ PeriodLength > 0
  BY LogFileAssumption
<1>2. a \div PeriodLength <= b \div PeriodLength
  BY <1>1
<1>3. Period(a) \in 0 .. a
  BY <1>1 DEF Period
<1>4. Period(a) <= Period(b)
  BY <1>1, <1>2 DEF Period
<1> QED
  BY <1>3, <1>4

-----------------------------------------------------------------------------
(* What every append does to the files, whether it rolls or not.           *)

PutStep(len) ==
    /\ len \in ChunkSizes
    /\ Len(Written(files)) < MaxChunks
    /\ files' = Put(len)
    /\ now' = now

NewChunk(len) == [id |-> Len(Written(files)) + 1, len |-> len, at |-> now]

(* AppendFile::append changes the end of the open file only. *)
LEMMA PutFiles ==
    ASSUME FileInv, NEW len, PutStep(len)
    PROVE  /\ NewChunk(len) \in Chunk /\ NewChunk(len).at = now
           /\ files' \in [Times -> Seq(Chunk)] /\ files \in [Times -> Seq(Chunk)]
           /\ files'[open] = Append(files[open], NewChunk(len))
           /\ \A t \in Times : t # open => files'[t] = files[t]
           /\ Written(files) \in Seq(Chunk)
           /\ Written(files') = Append(Written(files), NewChunk(len))
           /\ Size(files'[open]) = writtenBytes + len
<1>1. /\ files \in [Times -> Seq(Chunk)] /\ open \in Times /\ now \in Times
      /\ \A t \in Times : t > open => files[t] = <<>>
  BY DEF FileInv, OpenIsLatest, TypeOK
<1>2. Written(files) \in Seq(Chunk)
  BY <1>1, WrittenIsCat
<1>3. NewChunk(len) \in Chunk /\ NewChunk(len).at = now /\ NewChunk(len).len = len
  <2>1. Len(Written(files)) + 1 \in Nat
    BY <1>2, LenProperties
  <2> QED
    BY <1>1, <2>1 DEF NewChunk, Chunk, PutStep
<1> DEFINE c == NewChunk(len)
<1>4. files' = [files EXCEPT ![open] = Append(@, c)]
  BY DEF PutStep, Put, NewChunk
<1> HIDE DEF c
<1>5. /\ files'[open] = Append(files[open], c)
      /\ \A t \in Times : t # open => files'[t] = files[t]
  BY <1>1, <1>4
<1>6. /\ Written(files') = Append(Written(files), c)
      /\ files' \in [Times -> Seq(Chunk)]
  BY <1>1, <1>3, <1>4, WrittenAppend DEF c
<1>7. Size(files'[open]) = writtenBytes + len
  <2>1. files[open] \in Seq(Chunk)
    BY <1>1
  <2>2. writtenBytes = Size(files[open])
    BY DEF FileInv, SizeIsReal
  <2> QED
    BY <1>3, <1>5, <2>1, <2>2, SizeAppend DEF c
<1> QED
  BY <1>1, <1>2, <1>3, <1>5, <1>6, <1>7 DEF c

(* The entries of the files: the old ones stay, and the new one is the     *)
(* last of the open file.                                                  *)
LEMMA PutEntries ==
    ASSUME FileInv, NEW len, PutStep(len)
    PROVE  /\ \A t \in Times : Len(files[t]) \in Nat /\ Len(files'[t]) \in Nat
           /\ Len(files'[open]) = Len(files[open]) + 1
           /\ files'[open][Len(files[open]) + 1].at = now
           /\ \A t \in Times : t # open => files'[t] = files[t]
           /\ \A t \in Times : \A i \in 1 .. Len(files[t]) :
                 /\ files'[t][i] = files[t][i] /\ i \in 1 .. Len(files'[t])
                 /\ files[t][i].at \in Times
                 /\ SubSeq(files'[t], 1, i) = SubSeq(files[t], 1, i)
<1> DEFINE c == NewChunk(len)
           n == Len(files[open])
<1>1. /\ c \in Chunk /\ c.at = now
      /\ files' \in [Times -> Seq(Chunk)] /\ files \in [Times -> Seq(Chunk)]
      /\ files'[open] = Append(files[open], c)
      /\ \A t \in Times : t # open => files'[t] = files[t]
  BY PutFiles
<1>2. open \in Times
  BY DEF FileInv, TypeOK
<1> HIDE DEF c
<1>3. \A t \in Times : /\ files[t] \in Seq(Chunk) /\ files'[t] \in Seq(Chunk)
  BY <1>1
<1>4. \A t \in Times : Len(files[t]) \in Nat /\ Len(files'[t]) \in Nat
  BY <1>3, LenProperties
<1>5. /\ Len(files'[open]) = n + 1
      /\ \A i \in 1 .. n : files'[open][i] = files[open][i]
      /\ files'[open][n + 1] = c
  BY <1>1, <1>2, <1>3, AppendProperties
<1>6. ASSUME NEW t \in Times, NEW i \in 1 .. Len(files[t])
      PROVE  /\ files'[t][i] = files[t][i] /\ i \in 1 .. Len(files'[t])
             /\ files[t][i].at \in Times
             /\ SubSeq(files'[t], 1, i) = SubSeq(files[t], 1, i)
  <2>1. files[t][i].at \in Times
    <3>1. files[t][i] \in Chunk
      BY <1>3, ElementOfSeq
    <3> QED
      BY <3>1 DEF Chunk
  <2>2. CASE t # open
    BY <1>1, <2>1, <2>2
  <2>3. CASE t = open
    <3>1. i \in Nat /\ i <= n /\ n \in Nat /\ i \in 1 .. n /\ i \in 1 .. n + 1
      BY <1>2, <1>4, <2>3
    <3>2. files'[t][i] = files[t][i] /\ i \in 1 .. Len(files'[t])
      BY <1>5, <2>3, <3>1
    <3>3. SubSeq(Append(files[open], c), 1, i) = SubSeq(files[open], 1, i)
      <4> DEFINE s == files[open]
      <4>1. s \in Seq(Chunk) /\ i \in 0 .. Len(s)
        BY <1>2, <1>3, <3>1
      <4> HIDE DEF s
      <4>2. SubSeq(Append(s, c), 1, i) = SubSeq(s, 1, i)
        BY <1>1, <4>1
      <4> QED
        BY <4>2 DEF s
    <3> QED
      BY <1>1, <2>1, <2>3, <3>2, <3>3
  <2> QED
    BY <2>2, <2>3
<1> QED
  BY <1>1, <1>4, <1>5, <1>6

(* Only the last entry of a file can end beyond RollSize, because a file   *)
(* whose last entry does is not the open one any more.                     *)
LEMMA PutSizeBound ==
    ASSUME FileInv, NEW len, PutStep(len)
    PROVE  SizeBound'
<1> SUFFICES ASSUME NEW t \in Times, NEW i \in 1 .. Len(files'[t]) - 1, files'[t][i].at > t
             PROVE  Size(SubSeq(files'[t], 1, i)) <= RollSize
  BY DEF SizeBound
<1>1. CASE t = open
  <2>1. i \in 1 .. Len(files[open])
    BY <1>1, PutEntries
  <2>2. /\ files'[t][i] = files[t][i]
        /\ SubSeq(files'[t], 1, i) = SubSeq(files[t], 1, i)
    BY <1>1, <2>1, PutEntries
  <2> QED
    BY <1>1, <2>1, <2>2 DEF FileInv, OpenBound
<1>2. CASE t # open
  <2>1. files'[t] = files[t]
    BY <1>2, PutEntries
  <2> QED
    BY <2>1 DEF FileInv, SizeBound
<1> QED
  BY <1>1, <1>2

(* The open file keeps its bound: the new entry ends within it, or was     *)
(* written within the second of the file's name.                           *)
LEMMA PutOpenBound ==
    ASSUME FileInv, NEW len, PutStep(len), open' = open,
           now > open => writtenBytes + len <= RollSize
    PROVE  OpenBound'
<1> SUFFICES ASSUME NEW i \in 1 .. Len(files'[open]), files'[open][i].at > open
             PROVE  Size(SubSeq(files'[open], 1, i)) <= RollSize
  BY DEF OpenBound
<1>1. open \in Times /\ Len(files[open]) \in Nat /\ Len(files'[open]) = Len(files[open]) + 1
  BY PutEntries DEF FileInv, TypeOK
<1>2. CASE i \in 1 .. Len(files[open])
  <2>1. /\ files'[open][i] = files[open][i]
        /\ SubSeq(files'[open], 1, i) = SubSeq(files[open], 1, i)
    BY <1>1, <1>2, PutEntries
  <2> QED
    BY <1>2, <2>1 DEF FileInv, OpenBound
<1>3. CASE i = Len(files[open]) + 1
  <2>1. now > open
    BY <1>3, PutEntries
  <2>2. SubSeq(files'[open], 1, i) = files'[open]
    <3>1. files'[open] \in Seq(Chunk)
      BY <1>1, PutFiles
    <3> QED
      BY <1>1, <1>3, <3>1, SubSeqFull
  <2> QED
    BY <2>1, <2>2, PutFiles
<1> QED
  BY <1>1, <1>2, <1>3

(* Since the open file is the newest, the record grows at its end. *)
LEMMA PutWritten ==
    ASSUME FileInv, NEW len, PutStep(len)
    PROVE  /\ Len(Written(files)) \in Nat
           /\ Len(Written(files')) = Len(Written(files)) + 1
           /\ Len(Written(files')) <= MaxChunks
           /\ Written(files')[Len(Written(files'))].at = now
           /\ \A i \in 1 .. Len(Written(files)) : Written(files')[i] = Written(files)[i]
<1> DEFINE c == NewChunk(len)
           w == Written(files)
<1>1. w \in Seq(Chunk) /\ c \in Chunk /\ c.at = now /\ Written(files') = Append(w, c)
  BY PutFiles
<1>2. Len(w) < MaxChunks /\ MaxChunks \in Nat
  BY LogFileAssumption DEF PutStep
<1> HIDE DEF c, w
<1>3. /\ Len(w) \in Nat /\ Len(Append(w, c)) = Len(w) + 1
      /\ Append(w, c)[Len(w) + 1] = c
      /\ \A i \in 1 .. Len(w) : Append(w, c)[i] = w[i]
  BY <1>1, AppendProperties, LenProperties
<1> QED
  BY <1>1, <1>2, <1>3 DEF w

(* If this append did not see the clock set back, no earlier one did, and  *)
(* every entry is as old as the new one or older.                          *)
LEMMA PutSteady ==
    ASSUME FileInv, NEW len, PutStep(len), Steady'
    PROVE  /\ Steady /\ now >= open
           /\ \A t \in Times : \A i \in 1 .. Len(files'[t]) : files'[t][i].at <= now
<1> DEFINE w == Written(files)
           v == Written(files')
<1>1. /\ \A t \in Times : \A i \in DOMAIN files'[t] : files'[t][i].at >= t
      /\ \A i \in 1 .. Len(v) - 1 : v[i].at <= v[i + 1].at
  BY DEF Steady
<1>2. /\ Len(w) \in Nat /\ Len(v) = Len(w) + 1 /\ v[Len(w) + 1].at = now
      /\ \A i \in 1 .. Len(w) : v[i] = w[i]
  BY PutWritten
<1> HIDE DEF w, v
<1>3. \A t \in Times : DOMAIN files[t] = 1 .. Len(files[t]) /\ DOMAIN files'[t] = 1 .. Len(files'[t])
  <2>1. \A t \in Times : files[t] \in Seq(Chunk) /\ files'[t] \in Seq(Chunk)
    BY PutFiles
  <2> QED
    BY <2>1, LenProperties
<1>4. ASSUME NEW t \in Times, NEW i \in DOMAIN files[t] PROVE files[t][i].at >= t
  <2>1. i \in 1 .. Len(files[t])
    BY <1>3
  <2>2. i \in 1 .. Len(files'[t]) /\ files'[t][i] = files[t][i]
    BY <2>1, PutEntries
  <2> QED
    BY <1>1, <1>3, <2>2
<1>5. ASSUME NEW i \in 1 .. Len(w) - 1 PROVE w[i].at <= w[i + 1].at
  <2>1. i \in 1 .. Len(w) /\ i + 1 \in 1 .. Len(w) /\ i \in 1 .. Len(v) - 1
    BY <1>2
  <2> QED
    BY <1>1, <1>2, <2>1
<1>6. Steady
  BY <1>4, <1>5 DEF Steady, w
<1>7. open \in Times /\ now \in Times
  BY DEF FileInv, TypeOK
<1>8. now >= open
  <2>1. Len(files[open]) + 1 \in 1 .. Len(files'[open])
    BY <1>7, PutEntries
  <2>2. files'[open][Len(files[open]) + 1].at >= open
    BY <1>1, <1>3, <1>7, <2>1
  <2> QED
    BY <2>2, PutEntries
<1>9. ASSUME NEW t \in Times, NEW i \in 1 .. Len(files[t]) PROVE files[t][i].at <= now
  <2>1. Len(w) # 0
    <3>1. \A u \in Times : Len(files[u]) \in Nat
      BY PutEntries
    <3>2. SUFFICES ASSUME Len(w) = 0 PROVE FALSE
      OBVIOUS
    <3>3. files[t] = <<>>
      BY <3>2 DEF FileInv, WrittenInv, w
    <3>4. Len(<<>>) = 0
      OBVIOUS
    <3> QED
      BY <3>3, <3>4
  <2>2. files[t][i].at <= w[Len(w)].at
    BY <1>6 DEF FileInv, LateInv, w
  <2>3. w[Len(w)].at <= now
    <3>1. Len(w) \in 1 .. Len(v) - 1 /\ Len(w) \in 1 .. Len(w)
      BY <1>2, <2>1
    <3> QED
      BY <1>1, <1>2, <3>1
  <2>4. files[t][i].at \in Nat /\ w[Len(w)].at \in Nat
    <3>1. files[t][i].at \in Times
      BY PutEntries
    <3>2. w \in Seq(Chunk) /\ Len(w) \in 1 .. Len(w)
      BY <1>2, <2>1, PutFiles DEF w
    <3>3. w[Len(w)] \in Chunk
      BY <3>2, ElementOfSeq
    <3> QED
      BY <3>1, <3>3 DEF Chunk, Times
  <2>5. now \in Nat
    BY <1>7 DEF Times
  <2> QED
    BY <2>2, <2>3, <2>4, <2>5
<1>10. ASSUME NEW t \in Times, NEW i \in 1 .. Len(files'[t]) PROVE files'[t][i].at <= now
  <2>1. CASE i \in 1 .. Len(files[t])
    <3>1. files'[t][i] = files[t][i]
      BY <2>1, PutEntries
    <3> QED
      BY <1>9, <2>1, <3>1
  <2>2. CASE i \notin 1 .. Len(files[t])
    <3>1. t = open
      BY <2>2, PutEntries
    <3>2. i = Len(files[open]) + 1
      BY <1>7, <2>2, <3>1, PutEntries
    <3>3. now \in Nat
      BY <1>7 DEF Times
    <3> QED
      BY <3>1, <3>2, <3>3, PutEntries
  <2> QED
    BY <2>1, <2>2
<1> QED
  BY <1>6, <1>8, <1>10

(* An append adds at most one late entry, to the open file, and none if it *)
(* is made in the file's own period or earlier.                            *)
LEMMA PutLate ==
    ASSUME FileInv, NEW len, PutStep(len), NEW t \in Times
    PROVE  /\ Cardinality(Late(t)) \in Nat /\ Cardinality(Late(t)') \in Nat
           /\ t # open => Late(t)' = Late(t)
           /\ Cardinality(Late(t)') <= Cardinality(Late(t)) + 1
           /\ t = open /\ Period(now) <= Period(t) => Late(t)' = Late(t)
<1> DEFINE n == Len(files[t])
           A == Late(t)
           B == Late(t)'
<1>1. /\ n \in Nat /\ A \subseteq 1 .. n
      /\ t # open => B = A
  BY PutEntries DEF Late
<1>2. B \subseteq A \cup {n + 1} /\ (t = open /\ Period(now) <= Period(t) => B = A)
  <2>1. CASE t # open
    BY <1>1, <2>1
  <2>2. CASE t = open
    <3>1. /\ Len(files'[t]) = n + 1 /\ files'[t][n + 1].at = now
          /\ \A i \in 1 .. n : files'[t][i] = files[t][i]
      BY <2>2, PutEntries
    <3>2. 1 .. n + 1 = 1 .. n \cup {n + 1} /\ n + 1 \notin 1 .. n
      BY <1>1
    <3>3. B = {i \in 1 .. n + 1 : Period(files'[t][i].at) > Period(t)}
      BY <3>1 DEF Late
    <3>4. \A i \in 1 .. n : i \in B <=> i \in A
      BY <3>1, <3>2, <3>3, Zenon DEF Late
    <3>5. n + 1 \in B <=> Period(now) > Period(t)
      BY <1>1, <3>1, <3>2, <3>3
    <3>6. Period(now) <= Period(t) => ~(Period(now) > Period(t))
      <4>1. now \in Nat /\ t \in Nat
        BY DEF FileInv, TypeOK, Times
      <4>2. Period(now) \in Nat /\ Period(t) \in Nat
        BY <4>1, PeriodMonotone
      <4> QED
        BY <4>2
    <3> HIDE DEF A, B, n
    <3>7. B \subseteq 1 .. n + 1
      BY <3>3
    <3>8. B \subseteq A \cup {n + 1}
      BY <3>2, <3>4, <3>7
    <3>9. ASSUME Period(now) <= Period(t) PROVE B = A
      <4>1. n + 1 \notin B
        BY <3>5, <3>6, <3>9
      <4> QED
        BY <1>1, <3>2, <3>4, <3>7, <4>1
    <3> QED
      BY <3>8, <3>9
  <2> QED
    BY <2>1, <2>2
<1> HIDE DEF A, B, n
<1>3. IsFiniteSet(1 .. n)
  BY <1>1, FS_Interval
<1>4. IsFiniteSet(A)
  BY <1>1, <1>3, FS_Subset
<1>5. Cardinality(A) \in Nat
  BY <1>4, FS_CardinalityType
<1>6. /\ IsFiniteSet(A \cup {n + 1}) /\ Cardinality(A \cup {n + 1}) \in Nat
      /\ Cardinality(A \cup {n + 1}) <= Cardinality(A) + 1
  <2>1. IsFiniteSet(A \cup {n + 1})
    BY <1>4, FS_AddElement
  <2>2. Cardinality(A \cup {n + 1}) = IF n + 1 \in A THEN Cardinality(A) ELSE Cardinality(A) + 1
    BY <1>4, FS_AddElement
  <2> QED
    BY <1>5, <2>1, <2>2
<1>7. Cardinality(B) <= Cardinality(A \cup {n + 1}) /\ IsFiniteSet(B)
  BY <1>2, <1>6, FS_Subset
<1>8. Cardinality(B) \in Nat
  BY <1>7, FS_CardinalityType
<1>9. Cardinality(B) <= Cardinality(A) + 1
  BY <1>5, <1>6, <1>7, <1>8
<1> QED
  BY <1>1, <1>2, <1>5, <1>8, <1>9 DEF A, B

(* The ways in which the four branches of append_unlocked leave the open   *)
(* file and the counter.                                                   *)
BranchEnd ==
    \/ open' = open /\ count' = count + 1
    \/ open' = open /\ count' = count /\ now <= open
    \/ open' = open /\ count' = 0 /\ now <= open /\ Period(now) # Period(open)
    \/ open' = open /\ count' = 0 /\ Period(now) = Period(open)
    \/ open' = now /\ now > open /\ count' \in Nat

(* The entries of a later period stay as few as the check count says. *)
LEMMA PutLateInv ==
    ASSUME FileInv, NEW len, PutStep(len), BranchEnd
    PROVE  LateInv'
<1> SUFFICES ASSUME Steady' PROVE
        /\ \A t \in Times : \A i \in 1 .. Len(files'[t]) :
              files'[t][i].at <= Written(files')[Len(Written(files'))].at
        /\ Cardinality(Late(open)') <= count'
        /\ \A t \in Times : Cardinality(Late(t)') <= CheckEveryN
  BY DEF LateInv
<1>1. /\ open \in Times /\ now \in Times /\ count \in Nat /\ count + 1 <= CheckEveryN
      /\ CheckEveryN \in Nat
  BY LogFileAssumption DEF FileInv, TypeOK
<1>2. /\ Steady /\ now >= open
      /\ \A t \in Times : \A i \in 1 .. Len(files'[t]) : files'[t][i].at <= now
  BY PutSteady
<1>3. /\ Cardinality(Late(open)) <= count
      /\ \A t \in Times : Cardinality(Late(t)) <= CheckEveryN
  BY <1>2 DEF FileInv, LateInv
<1>4. \A t \in Times : \A i \in 1 .. Len(files'[t]) :
              files'[t][i].at <= Written(files')[Len(Written(files'))].at
  BY <1>2, PutWritten
<1>5. ASSUME NEW t \in Times PROVE Cardinality(Late(t)') <= CheckEveryN
  <2>1. CASE t = open
    <3>1. Cardinality(Late(t)') <= Cardinality(Late(t)) + 1
      BY PutLate
    <3>2. Cardinality(Late(t)') \in Nat /\ Cardinality(Late(t)) \in Nat
      BY PutLate
    <3>3. Cardinality(Late(t)) <= count
      BY <1>3, <2>1
    <3> QED
      BY <1>1, <3>1, <3>2, <3>3
  <2>2. CASE t # open
    BY <1>3, <2>2, PutLate
  <2> QED
    BY <2>1, <2>2
<1>6. \A t \in Times : Period(t) \in Nat
  <2>1. \A t \in Times : t \in Nat
    BY DEF Times
  <2> QED
    BY <2>1, PeriodMonotone
<1>7. PICK u \in Times : u = open
  BY <1>1
<1>8. /\ Cardinality(Late(u)) \in Nat /\ Cardinality(Late(u)') \in Nat
      /\ Cardinality(Late(u)') <= Cardinality(Late(u)) + 1
      /\ Period(now) <= Period(u) => Late(u)' = Late(u)
      /\ Cardinality(Late(u)) <= count
  BY <1>3, <1>7, PutLate
<1>9. open' = open => Late(open)' = Late(u)'
  BY <1>7 DEF Late
<1>10. now \in Nat /\ open \in Nat
  BY <1>1 DEF Times
<1>11. Cardinality(Late(open)') <= count'
  <2>1. CASE open' = open /\ count' = count + 1
    <3>1. Cardinality(Late(u)') <= count + 1
      BY <1>1, <1>8
    <3> QED
      BY <1>9, <2>1, <3>1
  <2>2. CASE open' = open /\ count' = count /\ now <= open
    <3>1. Period(now) <= Period(u)
      BY <1>7, <1>10, <2>2, PeriodMonotone
    <3> QED
      BY <1>8, <1>9, <2>2, <3>1
  <2>3. CASE now <= open /\ Period(now) # Period(open)
    BY <1>2, <1>10, <2>3
  <2>4. CASE open' = open /\ count' = 0 /\ Period(now) = Period(open)
    <3>1. ASSUME NEW i \in 1 .. Len(files'[u]) PROVE ~(Period(files'[u][i].at) > Period(u))
      <4>1. files'[u][i].at \in Times /\ files'[u][i].at <= now
        <5>1. files'[u] \in Seq(Chunk)
          BY PutFiles
        <5>2. files'[u][i] \in Chunk
          BY <5>1, ElementOfSeq
        <5> QED
          BY <1>2, <5>2 DEF Chunk
      <4>2. files'[u][i].at \in Nat
        BY <4>1 DEF Times
      <4>3. Period(files'[u][i].at) <= Period(now)
        BY <1>10, <4>1, <4>2, PeriodMonotone
      <4>4. Period(files'[u][i].at) \in Nat /\ Period(u) \in Nat
        BY <1>6, <4>1
      <4> QED
        BY <1>7, <2>4, <4>3, <4>4
    <3>2. Late(u)' = {}
      BY <3>1, Zenon DEF Late
    <3>3. Cardinality({}) = 0
      BY FS_EmptySet
    <3> QED
      BY <1>9, <2>4, <3>2, <3>3
  <2>5. CASE open' = now /\ now > open /\ count' \in Nat
    <3>1. files'[now] = <<>>
      <4>1. files[now] = <<>>
        BY <1>1, <2>5 DEF FileInv, OpenIsLatest
      <4>2. now # open
        BY <1>10, <2>5
      <4> QED
        BY <1>1, <4>1, <4>2, PutEntries
    <3>2. Late(open)' = {}
      <4>1. Len(<<>>) = 0 /\ 1 .. 0 = {}
        OBVIOUS
      <4>2. Late(open)' = {i \in 1 .. Len(files'[now]) : Period(files'[now][i].at) > Period(now)}
        BY <2>5, Zenon DEF Late
      <4> QED
        BY <3>1, <4>1, <4>2
    <3>3. Cardinality({}) = 0
      BY FS_EmptySet
    <3> QED
      BY <2>5, <3>2, <3>3
  <2> QED
    BY <2>1, <2>2, <2>3, <2>4, <2>5 DEF BranchEnd
<1> QED
  BY <1>4, <1>5, <1>11

-----------------------------------------------------------------------------
(* The invariant is preserved.                                             *)

(* The constructor, which rolls once, gives the invariant. *)
LEMMA InitInv == Init => FileInv
<1> SUFFICES ASSUME Init PROVE FileInv
  OBVIOUS
<1>1. /\ now \in Times /\ files = [t \in Times |-> <<>>] /\ open = now /\ writtenBytes = 0
      /\ count = 0 /\ startOfPeriod = Period(now) /\ lastRoll = now /\ lastFlush = now
      /\ durable = 0
  BY DEF Init
<1>2. <<>> \in Seq(Chunk) /\ Len(<<>>) = 0 /\ 1 .. 0 = {} /\ 1 .. 0 - 1 = {}
  <2>1. <<>> \in Seq(Chunk)
    BY EmptySeq
  <2> QED
    BY <2>1
<1>3. files \in [Times -> Seq(Chunk)] /\ \A t \in Times : files[t] = <<>>
  BY <1>1, <1>2
<1>4. Written(files) = <<>>
  BY <1>3, WrittenEmpty
<1>5. TypeOK
  <2>1. now \in Nat /\ now <= MaxTime /\ MaxTime \in Nat
    BY <1>1, LogFileAssumption DEF Times
  <2>2. Period(now) \in 0 .. now
    BY <2>1, PeriodMonotone
  <2>3. startOfPeriod \in 0 .. MaxTime
    BY <1>1, <2>1, <2>2
  <2> QED
    BY <1>1, <2>3, LogFileAssumption DEF TypeOK
<1>6. OpenIsLatest
  BY <1>1, <1>3 DEF OpenIsLatest
<1>7. WrittenInv
  BY <1>1, <1>2, <1>3, <1>4, LogFileAssumption DEF WrittenInv
<1>8. SizeIsReal
  BY <1>1, <1>3, SizeEmpty DEF SizeIsReal
<1>9. SizeBound
  BY <1>2, <1>3, Zenon DEF SizeBound
<1>10. OpenBound
  BY <1>1, <1>2, <1>3 DEF OpenBound
<1>11. LateInv
  <2>1. \A t \in Times : Late(t) = {}
    BY <1>2, <1>3, Zenon DEF Late
  <2>2. Cardinality({}) = 0
    BY FS_EmptySet
  <2>3. \A t \in Times : Cardinality(Late(t)) = 0
    BY <2>1, <2>2
  <2>4. \A t \in Times : \A i \in 1 .. Len(files[t]) :
           files[t][i].at <= Written(files)[Len(Written(files))].at
    BY <1>2, <1>3, Zenon
  <2>5. Cardinality(Late(open)) <= count
    BY <1>1, <2>3
  <2>6. \A t \in Times : Cardinality(Late(t)) <= CheckEveryN
    BY <2>3, LogFileAssumption
  <2> QED
    BY <2>4, <2>5, <2>6 DEF LateInv
<1> QED
  BY <1>5, <1>6, <1>7, <1>8, <1>9, <1>10, <1>11 DEF FileInv

(* An append that leaves the open file open. *)
LEMMA KeepsFileInv ==
    ASSUME FileInv, NEW len, PutStep(len), BranchEnd,
           open' = open, lastRoll' = lastRoll, startOfPeriod' = startOfPeriod,
           writtenBytes' = writtenBytes + len, lastFlush' \in Times,
           durable' \in {durable, Len(Written(files'))},
           count' \in 0 .. CheckEveryN - 1,
           now > open => writtenBytes + len <= RollSize
    PROVE  FileInv'
<1>1. /\ Len(Written(files)) \in Nat
      /\ Len(Written(files')) = Len(Written(files)) + 1
      /\ Len(Written(files')) <= MaxChunks
  BY PutWritten
<1>2. durable \in Nat /\ durable <= Len(Written(files))
  BY LogFileAssumption DEF FileInv, TypeOK, WrittenInv
<1>3. durable' \in Nat /\ durable' <= Len(Written(files')) /\ durable' \in 0 .. MaxChunks
  BY <1>1, <1>2, LogFileAssumption
<1>4. TypeOK'
  <2>1. len \in Nat
    BY LogFileAssumption DEF PutStep
  <2> QED
    BY <1>3, <2>1 DEF FileInv, TypeOK, PutStep
<1>5. OpenIsLatest'
  <2>1. /\ open \in Times /\ open = lastRoll /\ startOfPeriod = Period(open)
        /\ \A t \in Times : t > open => files[t] = <<>>
    BY DEF FileInv, TypeOK, OpenIsLatest
  <2>2. \A t \in Times : t > open => t # open
    BY <2>1 DEF Times
  <2>3. \A t \in Times : t > open => files'[t] = <<>>
    BY <2>1, <2>2, PutFiles, Zenon
  <2>4. Period(open') = Period(open)
    BY DEF Period
  <2>5. files' \in [Times -> Seq(Chunk)]
    BY PutFiles
  <2> QED
    BY <2>1, <2>3, <2>4, <2>5 DEF OpenIsLatest
<1>6. WrittenInv'
  <2>1. ~(Len(Written(files')) = 0)
    BY <1>1
  <2> QED
    BY <1>1, <1>3, <2>1 DEF WrittenInv
<1>7. SizeIsReal'
  BY PutFiles DEF SizeIsReal
<1>8. SizeBound' /\ OpenBound' /\ LateInv'
  BY PutSizeBound, PutOpenBound, PutLateInv
<1> QED
  BY <1>4, <1>5, <1>6, <1>7, <1>8 DEF FileInv

(* An append that rolls to a new file. *)
LEMMA LeavesFileInv ==
    ASSUME FileInv, NEW len, PutStep(len), now > lastRoll,
           open' = now, lastRoll' = now, lastFlush' = now, startOfPeriod' = Period(now),
           writtenBytes' = 0, durable' = Len(Written(files')),
           count' \in 0 .. CheckEveryN - 1
    PROVE  FileInv'
<1>1. /\ Len(Written(files)) \in Nat
      /\ Len(Written(files')) = Len(Written(files)) + 1
      /\ Len(Written(files')) <= MaxChunks
  BY PutWritten
<1>2. /\ now \in Times /\ now \in Nat /\ now <= MaxTime /\ MaxTime \in Nat
      /\ open \in Nat /\ now > open /\ open \in Times
  BY LogFileAssumption DEF FileInv, TypeOK, OpenIsLatest, Times
<1>3. TypeOK'
  <2>1. Period(now) \in 0 .. MaxTime
    <3>1. Period(now) \in 0 .. now
      BY <1>2, PeriodMonotone
    <3> QED
      BY <1>2, <3>1
  <2>2. durable' \in 0 .. MaxChunks
    BY <1>1, LogFileAssumption
  <2> QED
    BY <1>2, <2>1, <2>2 DEF TypeOK, PutStep
<1>4. \A t \in Times : t >= now => files'[t] = <<>>
  <2>1. \A t \in Times : t > open => files[t] = <<>>
    BY DEF FileInv, OpenIsLatest
  <2>2. \A t \in Times : t >= now => t > open /\ t # open
    BY <1>2 DEF Times
  <2> QED
    BY <2>1, <2>2, PutFiles, Zenon
<1>5. OpenIsLatest'
  <2>1. \A t \in Times : t > now => t >= now
    BY <1>2 DEF Times
  <2>2. \A t \in Times : t > now => files'[t] = <<>>
    BY <1>4, <2>1, Zenon
  <2>3. files' \in [Times -> Seq(Chunk)]
    BY PutFiles
  <2>4. Period(open') = Period(now)
    BY DEF Period
  <2> QED
    BY <2>2, <2>3, <2>4 DEF OpenIsLatest
<1>6. WrittenInv'
  <2>1. ~(Len(Written(files')) = 0)
    BY <1>1
  <2> QED
    BY <1>1, <2>1 DEF WrittenInv
<1>7. files'[now] = <<>>
  BY <1>2, <1>4
<1>8. SizeIsReal'
  BY <1>7, SizeEmpty DEF SizeIsReal
<1>9. SizeBound'
  BY PutSizeBound
<1>10. OpenBound'
  <2>1. Len(<<>>) = 0 /\ 1 .. 0 = {}
    OBVIOUS
  <2>2. 1 .. Len(files'[open']) = {}
    BY <1>7, <2>1
  <2> QED
    BY <2>2, Zenon DEF OpenBound
<1>11. LateInv'
  <2>1. BranchEnd
    BY <1>2, LogFileAssumption DEF BranchEnd
  <2> QED
    BY <2>1, PutLateInv
<1> QED
  BY <1>3, <1>5, <1>6, <1>8, <1>9, <1>10, <1>11 DEF FileInv

(* Every append either keeps or leaves its file. *)
LEMMA AppendInv ==
    ASSUME FileInv, NEW len \in ChunkSizes, Len(Written(files)) < MaxChunks,
           \/ AppendRollsBySize(len) \/ AppendOnly(len)
           \/ AppendRollsByPeriod(len) \/ AppendFlushes(len)
    PROVE  FileInv' /\ PutStep(len) /\ durable' \in {durable, Len(Written(files'))}
<1>1. PutStep(len)
  BY DEF PutStep, AppendRollsBySize, AppendOnly, AppendRollsByPeriod, AppendFlushes
<1>2. /\ now \in Nat /\ open \in Nat /\ open = lastRoll /\ startOfPeriod = Period(open)
      /\ writtenBytes \in Nat /\ len \in Nat /\ RollSize \in Nat
      /\ lastFlush \in Times /\ now \in Times
      /\ count \in Nat /\ count \in 0 .. CheckEveryN - 1 /\ CheckEveryN \in Nat \ {0}
  BY LogFileAssumption DEF FileInv, TypeOK, OpenIsLatest, Times
<1>3. 0 \in 0 .. CheckEveryN - 1
  BY <1>2
<1>4. ASSUME RollFile(files', len), RollAllowed, count' \in 0 .. CheckEveryN - 1
      PROVE  FileInv' /\ durable' = Len(Written(files'))
  <2>1. /\ now > lastRoll /\ open' = now /\ lastRoll' = now /\ lastFlush' = now
        /\ startOfPeriod' = Period(now) /\ writtenBytes' = 0 /\ durable' = Len(Written(files'))
    BY <1>4 DEF RollFile, RollAllowed
  <2> QED
    BY <1>1, <1>4, <2>1, LeavesFileInv
<1>5. ASSUME RollFile(files', len), ~RollAllowed, count' \in 0 .. CheckEveryN - 1, BranchEnd
      PROVE  FileInv' /\ durable' = durable
  <2>1. /\ open' = open /\ lastRoll' = lastRoll /\ lastFlush' = lastFlush
        /\ startOfPeriod' = startOfPeriod /\ writtenBytes' = writtenBytes + len
        /\ durable' = durable
    BY <1>5 DEF RollFile
  <2>2. ~(now > open)
    BY <1>2, <1>5 DEF RollAllowed
  <2> QED
    BY <1>1, <1>2, <1>5, <2>1, <2>2, KeepsFileInv
<1>6. CASE AppendRollsBySize(len)
  <2>1. RollFile(files', len) /\ count' = count
    BY <1>6 DEF AppendRollsBySize
  <2>2. ASSUME ~RollAllowed PROVE BranchEnd
    <3>1. open' = open /\ now <= open
      BY <1>2, <2>1, <2>2 DEF RollFile, RollAllowed
    <3> QED
      BY <2>1, <3>1 DEF BranchEnd
  <2> QED
    BY <1>1, <1>2, <1>4, <1>5, <2>1, <2>2
<1>7. CASE AppendOnly(len)
  <2>1. /\ writtenBytes' = writtenBytes + len /\ count' = count + 1
        /\ open' = open /\ lastRoll' = lastRoll /\ startOfPeriod' = startOfPeriod
        /\ lastFlush' = lastFlush /\ durable' = durable
    BY <1>7 DEF AppendOnly
  <2>2. writtenBytes + len <= RollSize /\ count' \in 0 .. CheckEveryN - 1
    BY <1>2, <1>7, <2>1 DEF AppendOnly, TooLarge, CheckDue
  <2>3. BranchEnd
    BY <2>1 DEF BranchEnd
  <2> QED
    BY <1>1, <1>2, <2>1, <2>2, <2>3, KeepsFileInv
<1>8. CASE AppendRollsByPeriod(len)
  <2>1. RollFile(files', len) /\ count' = 0 /\ Period(now) # Period(open)
    BY <1>2, <1>8 DEF AppendRollsByPeriod
  <2>2. ASSUME ~RollAllowed PROVE BranchEnd
    <3>1. open' = open /\ now <= open
      BY <1>2, <2>1, <2>2 DEF RollFile, RollAllowed
    <3> QED
      BY <2>1, <3>1 DEF BranchEnd
  <2> QED
    BY <1>1, <1>3, <1>4, <1>5, <2>1, <2>2
<1>9. CASE AppendFlushes(len)
  <2>1. /\ writtenBytes' = writtenBytes + len /\ count' = 0
        /\ open' = open /\ lastRoll' = lastRoll /\ startOfPeriod' = startOfPeriod
        /\ Period(now) = Period(open)
    BY <1>2, <1>9 DEF AppendFlushes
  <2>2. lastFlush' \in Times /\ durable' \in {durable, Len(Written(files'))}
    BY <1>2, <1>9 DEF AppendFlushes
  <2>3. writtenBytes + len <= RollSize
    BY <1>2, <1>9 DEF AppendFlushes, TooLarge
  <2>4. BranchEnd
    BY <2>1 DEF BranchEnd
  <2> QED
    BY <1>1, <1>3, <2>1, <2>2, <2>3, <2>4, KeepsFileInv
<1> QED
  BY <1>6, <1>7, <1>8, <1>9

(* flush keeps the invariant. *)
LEMMA FlushInv == FileInv /\ Flush => FileInv'
<1> SUFFICES ASSUME FileInv, Flush PROVE FileInv'
  OBVIOUS
<1>1. /\ durable' = Len(Written(files)) /\ files' = files /\ now' = now /\ open' = open
      /\ writtenBytes' = writtenBytes /\ count' = count /\ startOfPeriod' = startOfPeriod
      /\ lastRoll' = lastRoll /\ lastFlush' = lastFlush
  BY DEF Flush
<1>2. Len(Written(files)) \in Nat
  <2>1. Written(files) \in Seq(Chunk)
    BY WrittenIsCat DEF FileInv, OpenIsLatest
  <2> QED
    BY <2>1, LenProperties
<1>3. TypeOK'
  BY <1>1, <1>2, LogFileAssumption DEF FileInv, TypeOK, WrittenInv
<1>4. OpenIsLatest'
  BY <1>1 DEF FileInv, OpenIsLatest, Period
<1>5. WrittenInv'
  BY <1>1, <1>2 DEF FileInv, WrittenInv
<1>6. SizeIsReal' /\ SizeBound' /\ OpenBound'
  BY <1>1 DEF FileInv, SizeIsReal, SizeBound, OpenBound
<1>7. LateInv'
  BY <1>1 DEF FileInv, LateInv, Steady, Late
<1> QED
  BY <1>3, <1>4, <1>5, <1>6, <1>7 DEF FileInv

(* The clock, forward or back, keeps the invariant. *)
LEMMA TickInv == FileInv /\ (Tick \/ UNCHANGED vars) => FileInv'
<1> SUFFICES ASSUME FileInv, Tick \/ UNCHANGED vars PROVE FileInv'
  OBVIOUS
<1>1. /\ files' = files /\ open' = open /\ durable' = durable
      /\ writtenBytes' = writtenBytes /\ count' = count /\ startOfPeriod' = startOfPeriod
      /\ lastRoll' = lastRoll /\ lastFlush' = lastFlush
  BY DEF Tick, vars
<1>2. now' \in Times
  BY LogFileAssumption DEF FileInv, TypeOK, Times, Tick, vars
<1>3. TypeOK'
  BY <1>1, <1>2 DEF FileInv, TypeOK
<1>4. OpenIsLatest'
  BY <1>1 DEF FileInv, OpenIsLatest, Period
<1>5. WrittenInv'
  BY <1>1 DEF FileInv, WrittenInv
<1>6. SizeIsReal' /\ SizeBound' /\ OpenBound'
  BY <1>1 DEF FileInv, SizeIsReal, SizeBound, OpenBound
<1>7. LateInv'
  BY <1>1 DEF FileInv, LateInv, Steady, Late
<1> QED
  BY <1>3, <1>4, <1>5, <1>6, <1>7 DEF FileInv

(* The inductive invariant of the rolling file holds in every reachable    *)
(* state of append, rollFile, flush and the clock.                         *)
THEOREM InvHolds == Spec => []FileInv
<1>1. FileInv /\ [Next]_vars => FileInv'
  <2> SUFFICES ASSUME FileInv, [Next]_vars PROVE FileInv'
    OBVIOUS
  <2>1. CASE AppendUnlocked
    BY <2>1, AppendInv DEF AppendUnlocked
  <2>2. CASE Flush
    BY <2>2, FlushInv
  <2>3. CASE Tick \/ UNCHANGED vars
    BY <2>3, TickInv
  <2> QED
    BY <2>1, <2>2, <2>3 DEF Next
<1> QED
  BY <1>1, InitInv, PTL DEF Spec

(* The size the code works with is the true one, at most one entry of a    *)
(* file ends beyond rollSize_ once the second of its name is over, and at  *)
(* most checkEveryN_ entries of later periods get into a file: what        *)
(* append_unlocked and rollFile keep for every clock and every option.     *)
THEOREM FilesStayWithinBounds == Spec => []FileWithinBounds
<1>1. FileInv => FileWithinBounds
  <2> SUFFICES ASSUME FileInv PROVE FileWithinBounds
    OBVIOUS
  <2>1. TypeOK /\ SizeIsReal /\ SizeBound
    BY DEF FileInv
  <2>2. ASSUME Steady, NEW t \in Times
        PROVE  Cardinality(Late(t)) <= CheckEveryN - (IF t = open THEN 1 ELSE 0)
    <3>1. Cardinality(Late(open)) <= count /\ Cardinality(Late(t)) <= CheckEveryN
      BY <2>2 DEF FileInv, LateInv
    <3>2. count \in Nat /\ count <= CheckEveryN - 1 /\ CheckEveryN \in Nat
      BY LogFileAssumption DEF FileInv, TypeOK
    <3>3. Cardinality(Late(t)) \in Nat
      <4> DEFINE A == Late(t)
      <4>1. Len(files[t]) \in Nat
        BY LenProperties DEF FileInv, OpenIsLatest
      <4>2. A \subseteq 1 .. Len(files[t])
        BY DEF Late
      <4> HIDE DEF A
      <4>3. IsFiniteSet(1 .. Len(files[t]))
        BY <4>1, FS_Interval
      <4>4. IsFiniteSet(A)
        BY <4>2, <4>3, FS_Subset
      <4> QED
        BY <4>4, FS_CardinalityType DEF A
    <3>4. CASE t = open
      BY <3>1, <3>2, <3>3, <3>4
    <3>5. CASE t # open
      BY <3>1, <3>2, <3>3, <3>5
    <3> QED
      BY <3>4, <3>5
  <2>3. PeriodBound
    BY <2>2 DEF PeriodBound
  <2> QED
    BY <2>1, <2>3 DEF FileWithinBounds, FileBounds
<1> QED
  BY <1>1, InvHolds, PTL

-----------------------------------------------------------------------------
(* The files implement the append-only store.                              *)

(* The chunk that is appended is the last of the record. *)
LEMMA IdsOfAppend ==
    ASSUME NEW s \in Seq(Chunk), NEW c \in Chunk
    PROVE  /\ Ids(s) \in Seq(Nat) /\ c.id \in Nat /\ Len(Ids(s)) = Len(s)
           /\ Ids(Append(s, c)) = Append(Ids(s), c.id)
<1>1. \A q \in Seq(Chunk) : Ids(q) \in Seq(Nat) /\ Len(Ids(q)) = Len(q)
  <2> SUFFICES ASSUME NEW q \in Seq(Chunk) PROVE Ids(q) \in Seq(Nat) /\ Len(Ids(q)) = Len(q)
    OBVIOUS
  <2>1. Len(q) \in Nat
    BY LenProperties
  <2>2. \A i \in 1 .. Len(q) : q[i] \in Chunk
    BY ElementOfSeq
  <2>3. \A i \in 1 .. Len(q) : q[i].id \in Nat
    BY <2>2 DEF Chunk
  <2> QED
    BY <2>1, <2>3 DEF Ids
<1>2. c.id \in Nat
  BY DEF Chunk
<1> DEFINE r == Append(s, c)
<1>3. /\ r \in Seq(Chunk) /\ Len(r) = Len(s) + 1 /\ Len(s) \in Nat
      /\ r[Len(s) + 1] = c /\ \A i \in 1 .. Len(s) : r[i] = s[i]
  BY AppendProperties, LenProperties
<1> HIDE DEF r
<1>4. /\ Append(Ids(s), c.id) \in Seq(Nat) /\ Len(Append(Ids(s), c.id)) = Len(s) + 1
      /\ Append(Ids(s), c.id)[Len(s) + 1] = c.id
      /\ \A i \in 1 .. Len(s) : Append(Ids(s), c.id)[i] = Ids(s)[i]
  BY <1>1, <1>2, AppendProperties
<1>5. ASSUME NEW i \in 1 .. Len(r) PROVE Ids(r)[i] = Append(Ids(s), c.id)[i]
  <2>1. Ids(r)[i] = r[i].id
    BY DEF Ids
  <2>2. CASE i = Len(s) + 1
    BY <1>3, <1>4, <2>1, <2>2
  <2>3. CASE i \in 1 .. Len(s)
    <3>1. Ids(s)[i] = s[i].id
      BY <2>3 DEF Ids
    <3> QED
      BY <1>3, <1>4, <2>1, <2>3, <3>1
  <2>4. i = Len(s) + 1 \/ i \in 1 .. Len(s)
    BY <1>3
  <2> QED
    BY <2>2, <2>3, <2>4, Zenon
<1>6. Ids(r) = Append(Ids(s), c.id)
  <2>1. Ids(r) \in Seq(Nat) /\ Len(Ids(r)) = Len(r)
    BY <1>1, <1>3
  <2> QED
    BY <1>3, <1>4, <1>5, <2>1, SeqEqual
<1> QED
  BY <1>1, <1>2, <1>6 DEF r

(* A record appended at the end extends the store. *)
LEMMA AppendExtends ==
    ASSUME NEW s \in Seq(Nat), NEW n \in Nat
    PROVE  LET r == Append(s, n)
           IN  /\ Len(r) > Len(s)
               /\ SubSeq(r, 1, Len(s)) = s
               /\ r = s \o SubSeq(r, Len(s) + 1, Len(r))
<1> DEFINE r == Append(s, n)
           k == Len(s)
<1>1. /\ r \in Seq(Nat) /\ Len(r) = k + 1 /\ k \in Nat /\ r[k + 1] = n
      /\ \A i \in 1 .. k : r[i] = s[i]
  BY AppendProperties, LenProperties
<1> HIDE DEF r, k
<1>2. \A i \in 1 .. k + 1 : r[i] \in Nat
  BY <1>1, ElementOfSeq
<1>3. SubSeq(r, 1, k) = s
  <2>1. /\ SubSeq(r, 1, k) \in Seq(Nat) /\ Len(SubSeq(r, 1, k)) = k
        /\ \A i \in 1 .. k : SubSeq(r, 1, k)[i] = r[i]
    BY <1>1, <1>2
  <2> QED
    BY <1>1, <2>1, SeqEqual DEF k
<1>4. SubSeq(r, k + 1, k + 1) = <<n>>
  <2> DEFINE u == SubSeq(r, k + 1, k + 1)
  <2>1. \A i \in k + 1 .. k + 1 : r[i] \in Nat
    BY <1>1
  <2>2. /\ u \in Seq(Nat)
        /\ Len(u) = IF k + 1 <= k + 1 THEN (k + 1) - (k + 1) + 1 ELSE 0
        /\ \A i \in 1 .. (k + 1) - (k + 1) + 1 : u[i] = r[(k + 1) + i - 1]
    BY <1>1, <2>1, SubSeqProperties
  <2> HIDE DEF u
  <2>3. Len(u) = 1 /\ u[1] = n
    BY <1>1, <2>2
  <2>4. <<n>> \in Seq(Nat) /\ Len(<<n>>) = 1 /\ <<n>>[1] = n
    OBVIOUS
  <2>5. \A i \in 1 .. 1 : u[i] = <<n>>[i]
    BY <2>3
  <2>6. u = <<n>>
    BY <2>2, <2>3, <2>4, <2>5, SeqEqual
  <2> QED
    BY <2>6 DEF u
<1>5. s \o <<n>> = r
  BY AppendIsConcat DEF r
<1> QED
  BY <1>1, <1>3, <1>4, <1>5 DEF r, k

(* Every step of the files is a step of the store, or changes nothing it   *)
(* sees.                                                                   *)
LEMMA StoreStep == FileInv /\ [Next]_vars => [Store!Next]_<<Ids(Written(files)), durable>>
<1> SUFFICES ASSUME FileInv, [Next]_vars
             PROVE  Store!Next \/ UNCHANGED <<Ids(Written(files)), durable>>
  OBVIOUS
<1>1. CASE AppendUnlocked
  <2>1. PICK len \in ChunkSizes :
           /\ Len(Written(files)) < MaxChunks
           /\ \/ AppendRollsBySize(len) \/ AppendOnly(len)
              \/ AppendRollsByPeriod(len) \/ AppendFlushes(len)
    BY <1>1 DEF AppendUnlocked
  <2>2. PutStep(len) /\ durable' \in {durable, Len(Written(files'))}
    BY <2>1, AppendInv
  <2> DEFINE c == NewChunk(len)
             w == Ids(Written(files))
             v == Ids(Written(files'))
  <2>3. /\ Written(files) \in Seq(Chunk) /\ c \in Chunk
        /\ Written(files') = Append(Written(files), c)
    BY <2>2, PutFiles
  <2>4. w \in Seq(Nat) /\ c.id \in Nat /\ v = Append(w, c.id)
    BY <2>3, IdsOfAppend
  <2>5. Len(v) = Len(Written(files'))
    <3>1. Written(files') \in Seq(Chunk)
      BY <2>3, AppendProperties
    <3> HIDE DEF c
    <3> QED
      BY <2>3, <3>1, IdsOfAppend
  <2> HIDE DEF c, w, v
  <2>6. /\ Len(v) > Len(w) /\ SubSeq(v, 1, Len(w)) = w
        /\ v = w \o SubSeq(v, Len(w) + 1, Len(v))
    BY <2>4, AppendExtends
  <2>7. durable' \in {durable, Len(v)}
    BY <2>2, <2>5
  <2>8. Store!Extends
    BY <2>6, <2>7 DEF Store!Extends, Store!AppendChunk, w, v
  <2> QED
    BY <2>8 DEF Store!Next
<1>2. CASE Flush
  <2>1. Written(files) \in Seq(Chunk)
    BY WrittenIsCat DEF FileInv, OpenIsLatest
  <2>2. Len(Ids(Written(files))) = Len(Written(files))
    <3>1. Len(Written(files)) \in Nat
      BY <2>1, LenProperties
    <3> QED
      BY <3>1 DEF Ids
  <2>3. files' = files /\ durable' = Len(Written(files))
    BY <1>2 DEF Flush
  <2>4. Store!Flush
    BY <2>2, <2>3 DEF Store!Flush
  <2> QED
    BY <2>4 DEF Store!Next
<1>3. CASE Tick \/ UNCHANGED vars
  BY <1>3 DEF Tick, vars
<1> QED
  BY <1>1, <1>2, <1>3 DEF Next

(* Read in the order of their names, the files are an append-only record   *)
(* of all chunks, of which a prefix has been pushed out: neither rolling,  *)
(* nor a refused roll, nor the clock set back loses, repeats or reorders a *)
(* chunk.                                                                  *)
THEOREM FilesImplementStore == Spec => ImplementsStore
<1>1. Init => Store!Init
  <2> SUFFICES ASSUME Init PROVE Ids(Written(files)) = <<>> /\ durable = 0
    BY DEF Store!Init
  <2>1. <<>> \in Seq(Chunk)
    BY EmptySeq
  <2>2. files \in [Times -> Seq(Chunk)] /\ \A t \in Times : files[t] = <<>>
    BY <2>1 DEF Init
  <2>3. Written(files) = <<>>
    BY <2>2, WrittenEmpty
  <2>4. Ids(<<>>) = <<>>
    BY DEF Ids
  <2> QED
    BY <2>3, <2>4 DEF Init
<1>2. Spec => []FileInv
  BY InvHolds
<1> QED
  BY <1>1, <1>2, StoreStep, PTL DEF Spec, ImplementsStore, Store!Spec

-----------------------------------------------------------------------------
(* Exceptions.                                                             *)

Statements ==
    [caught : SUBSET Exceptions, finally : BOOLEAN, block : {"body", "handler", "finally"},
     flag : {"entered", "thrown", "handled", "finalized"}, exception : Exceptions \cup {0}]

(* HandledWhereCaught for one statement, by where it is. *)
StatementOK(t) ==
    /\ t.block = "body" => t.flag = "entered" /\ t.exception = 0
    /\ t.block = "handler" => t.flag = "handled" /\ t.exception \in t.caught
    /\ t.block = "finally" => \/ t.flag = "finalized" /\ t.exception = 0
                              \/ t.flag = "handled" /\ t.exception \in t.caught
                              \/ t.flag = "thrown" /\ t.exception \notin t.caught

(* The statements in their bodies, and the frames on a stack. *)
Bodies(n) == {d \in 1 .. Len(n) : n[d].block = "body"}
Linked(f) == {f[i] : i \in DOMAIN f}
Ascending(f) == \A i, j \in DOMAIN f : i < j => f[i] < f[j]

NestOK(n) == n \in Seq(Statements) /\ \A i \in 1 .. Len(n) : StatementOK(n[i])
FramesOK(f, n) == f \in Seq(Nat) /\ Linked(f) = Bodies(n) /\ Ascending(f)

TryInv == NestOK(nest) /\ FramesOK(frames, nest) /\ rethrow \in Exceptions \cup {0}

(* The invariant shows the property. *)
LEMMA TryShows == TryInv => ThrowsLand
<1> SUFFICES ASSUME TryInv PROVE ThrowsLand
  OBVIOUS
<1>1. FramesAreBodies
  BY DEF TryInv, FramesOK, Linked, Bodies, Ascending, FramesAreBodies, Depth
<1>2. ASSUME NEW i \in 1 .. Depth
      PROVE  LET t == nest[i] IN
               CASE t.block = "body"    -> t.flag = "entered" /\ t.exception = 0
                 [] t.block = "handler" -> t.flag = "handled" /\ t.exception \in t.caught
                 [] t.block = "finally" -> \/ t.flag = "finalized" /\ t.exception = 0
                                           \/ t.flag = "handled" /\ t.exception \in t.caught
                                           \/ t.flag = "thrown" /\ t.exception \notin t.caught
  <2>1. nest[i] \in Statements /\ StatementOK(nest[i])
    BY DEF TryInv, NestOK, Depth
  <2>2. nest[i].block \in {"body", "handler", "finally"}
    BY <2>1 DEF Statements
  <2> QED
    BY <2>1, <2>2 DEF StatementOK
<1>3. HandledWhereCaught
  BY <1>2 DEF HandledWhereCaught
<1> QED
  BY <1>1, <1>3 DEF ThrowsLand

(* The frame on top is the innermost one. *)
LEMMA TopFrame ==
    ASSUME NEW f \in Seq(Nat), Ascending(f), f # <<>>
    PROVE  /\ SubSeq(f, 1, Len(f) - 1) \in Seq(Nat) /\ Ascending(SubSeq(f, 1, Len(f) - 1))
           /\ f[Len(f)] \in Linked(f) /\ f[Len(f)] \in Nat
           /\ \A x \in Linked(f) : x \in Nat /\ x <= f[Len(f)]
           /\ Linked(SubSeq(f, 1, Len(f) - 1)) = {x \in Linked(f) : x < f[Len(f)]}
<1> DEFINE k == Len(f)
           g == SubSeq(f, 1, k - 1)
<1>1. k \in Nat \ {0} /\ DOMAIN f = 1 .. k /\ k \in DOMAIN f /\ \A i \in 1 .. k : f[i] \in Nat
  OBVIOUS
<1>2. g \in Seq(Nat) /\ Len(g) = k - 1 /\ DOMAIN g = 1 .. k - 1 /\ \A i \in 1 .. k - 1 : g[i] = f[i]
  BY <1>1
<1> HIDE DEF g, k
<1>3. Ascending(g)
  BY <1>1, <1>2, SMTT(30) DEF Ascending
<1>4. \A i \in 1 .. k - 1 : f[i] < f[k] /\ i \in DOMAIN f
  BY <1>1 DEF Ascending
<1>5. \A x \in Linked(f) : x \in Nat /\ x <= f[k] /\ (x < f[k] \/ x = f[k])
  <2>1. ASSUME NEW i \in DOMAIN f PROVE f[i] \in Nat /\ f[i] <= f[k] /\ (f[i] < f[k] \/ f[i] = f[k])
    <3>1. i = k \/ i \in 1 .. k - 1
      BY <1>1
    <3> QED
      BY <1>1, <1>4, <3>1
  <2> QED
    BY <2>1 DEF Linked
<1>6. Linked(g) = {x \in Linked(f) : x < f[k]}
  <2>1. ASSUME NEW x \in Linked(g) PROVE x \in Linked(f) /\ x < f[k]
    <3>1. PICK i \in 1 .. k - 1 : x = g[i]
      BY <1>2 DEF Linked
    <3> QED
      BY <1>2, <1>4, <3>1 DEF Linked
  <2>2. ASSUME NEW x \in Linked(f), x < f[k] PROVE x \in Linked(g)
    <3>1. PICK i \in 1 .. k : x = f[i]
      BY <1>1 DEF Linked
    <3>2. i # k
      BY <1>1, <2>2, <3>1
    <3>3. i \in 1 .. k - 1
      BY <1>1, <3>2
    <3> QED
      BY <1>2, <3>1, <3>3 DEF Linked
  <2> QED
    BY <2>1, <2>2
<1> QED
  BY <1>1, <1>2, <1>3, <1>5, <1>6 DEF Linked, g, k

(* A frame is linked on top of the others. *)
LEMMA FrameAdded ==
    ASSUME NEW f \in Seq(Nat), Ascending(f), NEW d \in Nat, \A x \in Linked(f) : x < d
    PROVE  /\ Append(f, d) \in Seq(Nat) /\ Ascending(Append(f, d))
           /\ Linked(Append(f, d)) = Linked(f) \cup {d}
<1> DEFINE k == Len(f)
           g == Append(f, d)
<1>1. /\ k \in Nat /\ DOMAIN f = 1 .. k /\ g \in Seq(Nat) /\ DOMAIN g = 1 .. k + 1 /\ g[k + 1] = d
      /\ \A i \in 1 .. k : g[i] = f[i] /\ f[i] \in Nat
  BY AppendProperties
<1> HIDE DEF g, k
<1>2. \A i \in 1 .. k : f[i] < d
  BY <1>1 DEF Linked
<1>3. \A i \in 1 .. k + 1 : i \in 1 .. k \/ i = k + 1
  BY <1>1
<1>4. ASSUME NEW i \in DOMAIN g, NEW j \in DOMAIN g, i < j PROVE g[i] < g[j]
  <2>1. i \in 1 .. k
    BY <1>1, <1>4
  <2>2. CASE j \in 1 .. k
    BY <1>1, <1>4, <2>1, <2>2 DEF Ascending
  <2>3. CASE j = k + 1
    BY <1>1, <1>2, <2>1, <2>3
  <2> QED
    BY <1>1, <1>3, <2>2, <2>3
<1>5. Linked(g) = Linked(f) \cup {d}
  <2>1. ASSUME NEW x \in Linked(g) PROVE x \in Linked(f) \cup {d}
    <3>1. PICK i \in 1 .. k + 1 : x = g[i]
      BY <1>1 DEF Linked
    <3> QED
      BY <1>1, <1>3, <3>1 DEF Linked
  <2>2. ASSUME NEW x \in Linked(f) PROVE x \in Linked(g)
    <3>1. PICK i \in 1 .. k : x = f[i]
      BY <1>1 DEF Linked
    <3>2. i \in 1 .. k + 1
      BY <1>1
    <3> QED
      BY <1>1, <3>1, <3>2 DEF Linked
  <2>3. d \in Linked(g)
    <3>1. k + 1 \in DOMAIN g
      BY <1>1
    <3> QED
      BY <1>1, <3>1 DEF Linked
  <2> QED
    BY <2>1, <2>2, <2>3
<1> QED
  BY <1>1, <1>4, <1>5 DEF Ascending, g

(* The statements outside of the one at depth d, alone or with that one in *)
(* a handler or a Finally block.                                           *)
LEMMA NestCut ==
    ASSUME NEW n, NestOK(n), NEW d \in 1 .. Len(n)
    PROVE  /\ NestOK(SubSeq(n, 1, d - 1)) /\ Bodies(SubSeq(n, 1, d - 1)) = {x \in Bodies(n) : x < d}
           /\ \A t \in Statements : StatementOK(t) /\ t.block # "body" =>
                 /\ NestOK(Append(SubSeq(n, 1, d - 1), t))
                 /\ Bodies(Append(SubSeq(n, 1, d - 1), t)) = {x \in Bodies(n) : x < d}
<1> DEFINE m == SubSeq(n, 1, d - 1)
<1>1. n \in Seq(Statements) /\ Len(n) \in Nat /\ d - 1 \in Nat /\ \A i \in 1 .. Len(n) : StatementOK(n[i])
  BY DEF NestOK
<1>2. m \in Seq(Statements) /\ Len(m) = d - 1 /\ \A i \in 1 .. d - 1 : m[i] = n[i] /\ i \in 1 .. Len(n)
  BY <1>1
<1> HIDE DEF m
<1>3. NestOK(m)
  BY <1>1, <1>2 DEF NestOK
<1>4. Bodies(m) = {x \in Bodies(n) : x < d}
  BY <1>1, <1>2 DEF Bodies
<1>5. ASSUME NEW t \in Statements, StatementOK(t), t.block # "body"
      PROVE  NestOK(Append(m, t)) /\ Bodies(Append(m, t)) = {x \in Bodies(n) : x < d}
  <2> DEFINE q == Append(m, t)
  <2>1. q \in Seq(Statements) /\ Len(q) = d /\ q[d] = t /\ \A i \in 1 .. d - 1 : q[i] = m[i]
    <3>1. /\ Append(m, t) \in Seq(Statements) /\ Len(Append(m, t)) = Len(m) + 1
          /\ \A i \in 1 .. Len(m) : Append(m, t)[i] = m[i]
          /\ Append(m, t)[Len(m) + 1] = t
      BY <1>2, AppendProperties
    <3>2. (d - 1) + 1 = d
      OBVIOUS
    <3> QED
      BY <1>2, <3>1, <3>2
  <2> HIDE DEF q
  <2>2. \A i \in 1 .. d : i \in 1 .. d - 1 \/ i = d
    OBVIOUS
  <2>3. NestOK(q)
    BY <1>1, <1>2, <1>5, <2>1, <2>2 DEF NestOK
  <2>4. Bodies(q) = {x \in Bodies(n) : x < d}
    BY <1>1, <1>2, <1>5, <2>1, <2>2 DEF Bodies
  <2> QED
    BY <2>3, <2>4 DEF q
<1> QED
  BY <1>3, <1>4, <1>5 DEF m

(* The last statement as it was, or as the end of a block leaves it. *)
LEMMA NestLast ==
    ASSUME NEW n, NestOK(n), Len(n) > 0, NEW t \in Statements
    PROVE  [n EXCEPT ![Len(n)] = t] = Append(SubSeq(n, 1, Len(n) - 1), t)
<1> DEFINE k == Len(n)
           m == SubSeq(n, 1, k - 1)
           q == Append(m, t)
           r == [n EXCEPT ![k] = t]
<1>1. n \in Seq(Statements) /\ k \in Nat \ {0} /\ DOMAIN n = 1 .. k
  BY DEF NestOK
<1>2. m \in Seq(Statements) /\ Len(m) = k - 1 /\ \A i \in 1 .. k - 1 : m[i] = n[i]
  BY <1>1
<1>3. r \in [1 .. k -> Statements] /\ \A i \in 1 .. k : r[i] = IF i = k THEN t ELSE n[i]
  BY <1>1
<1> HIDE DEF m, k, r
<1>4. /\ Append(m, t) \in Seq(Statements) /\ Len(Append(m, t)) = (k - 1) + 1
      /\ \A i \in 1 .. k - 1 : Append(m, t)[i] = m[i]
      /\ Append(m, t)[(k - 1) + 1] = t
  <2>1. /\ Append(m, t) \in Seq(Statements) /\ Len(Append(m, t)) = Len(m) + 1
        /\ \A i \in 1 .. Len(m) : Append(m, t)[i] = m[i]
        /\ Append(m, t)[Len(m) + 1] = t
    BY <1>2, AppendProperties
  <2> QED
    BY <1>2, <2>1
<1>5. (k - 1) + 1 = k /\ \A i \in 1 .. k : i \in 1 .. k - 1 \/ i = k
  BY <1>1
<1> HIDE DEF q
<1>6. q \in [1 .. k -> Statements] /\ \A i \in 1 .. k : q[i] = IF i = k THEN t ELSE n[i]
  <2>1. q \in Seq(Statements) /\ Len(q) = k /\ (\A i \in 1 .. k - 1 : q[i] = n[i]) /\ q[k] = t
    BY <1>2, <1>4, <1>5 DEF q
  <2> QED
    BY <1>1, <1>5, <2>1
<1> QED
  BY <1>3, <1>6 DEF k, m, q, r

(* The end of a block takes the statement out of its body, if it was there. *)
LEMMA BlockLeft ==
    ASSUME TryInv, Depth > 0, Leave(Now)
    PROVE  /\ NestOK(nest') /\ Bodies(nest') = Bodies(nest) \ {Depth}
           /\ rethrow' \in Exceptions \cup {0}
<1> DEFINE t == Now
           u == [t EXCEPT !.block = "finally", !.flag = IF @ = "entered" THEN "finalized" ELSE @]
<1>1. NestOK(nest) /\ Depth \in Nat \ {0} /\ Depth = Len(nest) /\ Depth \in 1 .. Len(nest)
  BY DEF TryInv, NestOK, Depth
<1>2. t \in Statements /\ StatementOK(t)
  BY <1>1 DEF NestOK, Now
<1>3. {x \in Bodies(nest) : x < Depth} = Bodies(nest) \ {Depth}
  BY <1>1 DEF Bodies
<1>4. CASE t.finally /\ t.block # "finally"
  <2>1. nest' = [nest EXCEPT ![Depth] = u] /\ rethrow' = 0
    BY <1>4 DEF Leave
  <2>2. u \in Statements /\ u.block = "finally" /\ u.block # "body"
    BY <1>2 DEF Statements
  <2>3. StatementOK(u)
    <3>1. t.block \in {"body", "handler", "finally"}
      BY <1>2 DEF Statements
    <3>2. u.exception = t.exception /\ u.caught = t.caught /\ u.flag = IF t.flag = "entered" THEN "finalized" ELSE t.flag
      BY <1>2 DEF Statements
    <3> HIDE DEF t, u
    <3> QED
      BY <1>2, <1>4, <2>2, <3>1, <3>2 DEF StatementOK
  <2> HIDE DEF u, t
  <2>4. nest' = Append(SubSeq(nest, 1, Depth - 1), u)
    BY <1>1, <2>1, <2>2, NestLast
  <2>5. NestOK(nest') /\ Bodies(nest') = {x \in Bodies(nest) : x < Depth}
    BY <1>1, <2>2, <2>3, <2>4, NestCut
  <2> QED
    BY <1>3, <2>1, <2>5
<1>5. CASE ~(t.finally /\ t.block # "finally")
  <2>1. nest' = SubSeq(nest, 1, Depth - 1) /\ rethrow' \in {t.exception, 0}
    BY <1>5 DEF Leave
  <2>2. t.exception \in Exceptions \cup {0}
    BY <1>2 DEF Statements
  <2> HIDE DEF t
  <2>3. NestOK(nest') /\ Bodies(nest') = {x \in Bodies(nest) : x < Depth}
    BY <1>1, <2>1, NestCut
  <2> QED
    BY <1>3, <2>1, <2>2, <2>3
<1> QED
  BY <1>4, <1>5

(* Try links the frame of the statement it starts. *)
LEMMA TryStarts ==
    ASSUME TryInv, NEW caught \in SUBSET Exceptions, NEW finally \in BOOLEAN, Try(caught, finally)
    PROVE  TryInv'
<1> DEFINE t == [caught |-> caught, finally |-> finally, block |-> "body",
                 flag |-> "entered", exception |-> 0]
           k == Depth
<1>1. NestOK(nest) /\ FramesOK(frames, nest) /\ k = Len(nest) /\ k \in Nat /\ nest \in Seq(Statements)
  BY DEF TryInv, NestOK, Depth
<1>2. nest' = Append(nest, t) /\ frames' = Append(frames, k + 1) /\ rethrow' = rethrow
  BY DEF Try
<1>3. t \in Statements /\ StatementOK(t) /\ t.block = "body"
  BY DEF Statements, StatementOK
<1> HIDE DEF t, k
<1>4. /\ nest' \in Seq(Statements) /\ Len(nest') = k + 1 /\ nest'[k + 1] = t
      /\ \A i \in 1 .. k : nest'[i] = nest[i]
  BY <1>1, <1>2, <1>3, AppendProperties
<1>5. \A i \in 1 .. k + 1 : i \in 1 .. k \/ i = k + 1
  BY <1>1
<1>6. NestOK(nest')
  BY <1>1, <1>3, <1>4, <1>5 DEF NestOK
<1>7. Bodies(nest') = Bodies(nest) \cup {k + 1}
  <2>1. Bodies(nest') \subseteq Bodies(nest) \cup {k + 1}
    BY <1>1, <1>4, <1>5 DEF Bodies
  <2>2. Bodies(nest) \subseteq Bodies(nest')
    BY <1>1, <1>4 DEF Bodies
  <2>3. k + 1 \in Bodies(nest')
    BY <1>1, <1>3, <1>4 DEF Bodies
  <2> QED
    BY <2>1, <2>2, <2>3
<1>8. FramesOK(frames', nest')
  <2>1. frames \in Seq(Nat) /\ Linked(frames) = Bodies(nest) /\ Ascending(frames)
    BY <1>1 DEF FramesOK
  <2>2. k + 1 \in Nat /\ \A x \in Linked(frames) : x < k + 1
    BY <1>1, <2>1 DEF Bodies
  <2> QED
    BY <1>2, <1>7, <2>1, <2>2, FrameAdded DEF FramesOK
<1> QED
  BY <1>2, <1>6, <1>8 DEF TryInv

(* The end of a body unlinks its frame; the end of another block finds no  *)
(* frame of its own.                                                       *)
LEMMA BlockEnded ==
    ASSUME TryInv, BodyEnds \/ BlockEnds
    PROVE  TryInv'
<1>1. /\ NestOK(nest) /\ FramesOK(frames, nest) /\ Depth = Len(nest) /\ Depth \in Nat /\ Depth > 0
      /\ frames' = PopIfEntered /\ Leave(Now) /\ Now = nest[Depth]
  BY DEF TryInv, NestOK, Depth, BodyEnds, BlockEnds, Running, Now
<1>2. NestOK(nest') /\ Bodies(nest') = Bodies(nest) \ {Depth} /\ rethrow' \in Exceptions \cup {0}
  BY <1>1, BlockLeft
<1>3. /\ Now \in Statements /\ StatementOK(Now) /\ Now.block \in {"body", "handler", "finally"}
      /\ Depth \in 1 .. Len(nest)
  <2>1. Depth \in 1 .. Len(nest)
    BY <1>1
  <2>2. Now \in Statements /\ StatementOK(Now)
    BY <1>1, <2>1 DEF NestOK
  <2> QED
    BY <2>1, <2>2 DEF Statements
<1>4. frames \in Seq(Nat) /\ Linked(frames) = Bodies(nest) /\ Ascending(frames)
  BY <1>1 DEF FramesOK
<1>5. CASE Now.block = "body"
  <2>1. Now.flag = "entered" /\ Depth \in Linked(frames)
    BY <1>1, <1>3, <1>4, <1>5 DEF StatementOK, Bodies
  <2>2. frames' = SubSeq(frames, 1, Len(frames) - 1) /\ frames # <<>>
    BY <1>1, <2>1 DEF PopIfEntered, Linked
  <2>3. /\ SubSeq(frames, 1, Len(frames) - 1) \in Seq(Nat) /\ Ascending(SubSeq(frames, 1, Len(frames) - 1))
        /\ frames[Len(frames)] \in Linked(frames) /\ frames[Len(frames)] \in Nat
        /\ \A x \in Linked(frames) : x \in Nat /\ x <= frames[Len(frames)]
        /\ Linked(SubSeq(frames, 1, Len(frames) - 1)) = {x \in Linked(frames) : x < frames[Len(frames)]}
    BY <1>4, <2>2, TopFrame
  <2>4. frames[Len(frames)] = Depth
    <3>1. frames[Len(frames)] <= Depth
      BY <1>1, <1>4, <2>3 DEF Bodies
    <3>2. Depth <= frames[Len(frames)]
      BY <2>1, <2>3
    <3> QED
      BY <1>1, <2>3, <3>1, <3>2
  <2>5. {x \in Linked(frames) : x < Depth} = Bodies(nest) \ {Depth}
    BY <1>1, <1>4 DEF Bodies
  <2> QED
    BY <1>2, <2>2, <2>3, <2>4, <2>5 DEF TryInv, FramesOK
<1>6. CASE Now.block # "body"
  <2>1. Now.flag # "entered"
    BY <1>3, <1>6 DEF StatementOK
  <2>2. frames' = frames /\ Depth \notin Bodies(nest)
    BY <1>1, <1>6, <2>1 DEF PopIfEntered, Bodies
  <2> QED
    BY <1>2, <1>4, <2>2 DEF TryInv, FramesOK
<1> QED
  BY <1>5, <1>6

(* A throw goes to the innermost statement in its body. *)
LEMMA ThrownLands ==
    ASSUME TryInv, NEW e \in Exceptions, ExceptionThrow(e)
    PROVE  TryInv'
<1>1. NestOK(nest) /\ FramesOK(frames, nest)
  BY DEF TryInv
<1>2. CASE frames = <<>>
  BY <1>1, <1>2 DEF ExceptionThrow, TryInv
<1>3. CASE frames # <<>>
  <2>1. frames \in Seq(Nat) /\ Linked(frames) = Bodies(nest) /\ Ascending(frames)
    BY <1>1 DEF FramesOK
  <2>2. PICK d : d = frames[Len(frames)]
    OBVIOUS
  <2>3. /\ frames' = SubSeq(frames, 1, Len(frames) - 1) /\ Land(e, d)
    BY <1>3, <2>2 DEF ExceptionThrow
  <2>4. /\ frames' \in Seq(Nat) /\ Ascending(frames') /\ d \in Bodies(nest)
        /\ Linked(frames') = {x \in Bodies(nest) : x < d}
    BY <1>3, <2>1, <2>2, <2>3, TopFrame
  <2>5. d \in 1 .. Len(nest) /\ nest[d] \in Statements
    BY <1>1, <2>4 DEF Bodies, NestOK
  <2> DEFINE t == [nest[d] EXCEPT !.exception = e, !.flag = "thrown"]
             u(b, f) == [t EXCEPT !.block = b, !.flag = f]
             m == SubSeq(nest, 1, d - 1)
  <2>6. /\ u("handler", "handled") \in Statements /\ u("finally", "thrown") \in Statements
        /\ e \in t.caught => StatementOK(u("handler", "handled"))
        /\ e \notin t.caught => StatementOK(u("finally", "thrown"))
        /\ u("handler", "handled").block # "body" /\ u("finally", "thrown").block # "body"
    BY <2>5 DEF Statements, StatementOK
  <2>7. \/ nest' = Append(m, u("handler", "handled")) /\ e \in t.caught /\ rethrow' = 0
        \/ nest' = Append(m, u("finally", "thrown")) /\ e \notin t.caught /\ rethrow' = 0
        \/ nest' = m /\ rethrow' = e
    BY <2>3 DEF Land
  <2>8. NestOK(nest') /\ Bodies(nest') = {x \in Bodies(nest) : x < d}
    <3>1. PICK v \in Statements, w \in Statements :
             /\ v = u("handler", "handled") /\ v.block # "body" /\ (e \in t.caught => StatementOK(v))
             /\ w = u("finally", "thrown") /\ w.block # "body" /\ (e \notin t.caught => StatementOK(w))
      BY <2>6
    <3> HIDE DEF t, u
    <3>2. \/ nest' = m
          \/ nest' = Append(m, v) /\ StatementOK(v)
          \/ nest' = Append(m, w) /\ StatementOK(w)
      BY <2>7, <3>1
    <3>3. /\ NestOK(m) /\ Bodies(m) = {x \in Bodies(nest) : x < d}
          /\ \A s \in Statements : StatementOK(s) /\ s.block # "body" =>
                NestOK(Append(m, s)) /\ Bodies(Append(m, s)) = {x \in Bodies(nest) : x < d}
      BY <1>1, <2>5, NestCut
    <3> HIDE DEF m
    <3> QED
      BY <3>1, <3>2, <3>3
  <2>9. rethrow' \in Exceptions \cup {0}
    BY <2>7
  <2> QED
    BY <2>4, <2>8, <2>9 DEF TryInv, FramesOK
<1> QED
  BY <1>2, <1>3

(* However Try statements are nested and wherever their bodies, handlers   *)
(* and Finally blocks throw, the frames linked are those of the bodies     *)
(* that run, and what is thrown lands in a statement that catches it or    *)
(* has a Finally block.                                                    *)
THEOREM ThrowsLandInBodies == TrySpec => []ThrowsLand
<1>1. TryInit => TryInv
  <2> SUFFICES ASSUME TryInit PROVE TryInv
    OBVIOUS
  <2>1. nest = <<>> /\ frames = <<>> /\ rethrow = 0
    BY DEF TryInit
  <2>2. <<>> \in Seq(Statements) /\ <<>> \in Seq(Nat) /\ Len(<<>>) = 0 /\ DOMAIN <<>> = {}
    OBVIOUS
  <2>3. Bodies(<<>>) = {} /\ Linked(<<>>) = {} /\ Ascending(<<>>)
    BY <2>2 DEF Bodies, Linked, Ascending
  <2> QED
    BY <2>1, <2>2, <2>3 DEF TryInv, NestOK, FramesOK
<1>2. TryInv /\ [TryNext]_tryVars => TryInv'
  <2> SUFFICES ASSUME TryInv, [TryNext]_tryVars PROVE TryInv'
    OBVIOUS
  <2>1. ASSUME NEW e \in Exceptions, Throw(e) PROVE TryInv'
    BY <2>1, ThrownLands DEF Throw
  <2>2. CASE ReThrow
    BY <2>2, ThrownLands DEF ReThrow, TryInv
  <2>3. CASE UNCHANGED tryVars
    BY <2>3 DEF tryVars, TryInv
  <2> QED
    BY <2>1, <2>2, <2>3, TryStarts, BlockEnded DEF TryNext
<1> QED
  BY <1>1, <1>2, TryShows, PTL DEF TrySpec

-----------------------------------------------------------------------------
(* The leak detector.                                                      *)

(* No leak is missed, and the records are exact until a block without one  *)
(* was freed.                                                              *)
LEMMA HooksList == HooksSpec => []LeaksListed
<1>1. HooksInit => LeaksListed
  BY DEF HooksInit, LeaksListed
<1>2. LeaksListed /\ [HooksNext]_hookVars => LeaksListed'
  <2> SUFFICES ASSUME LeaksListed, [HooksNext]_hookVars PROVE LeaksListed'
    OBVIOUS
  <2>1. CASE hook_malloc
    BY <2>1 DEF hook_malloc, LeaksListed
  <2>2. ASSUME NEW ptr, hook_free(ptr) \/ too_much_free(ptr) \/ plain_free(ptr) PROVE LeaksListed'
    BY <2>2 DEF hook_free, too_much_free, plain_free, LeaksListed
  <2>3. CASE UNCHANGED hookVars
    BY <2>3 DEF hookVars, LeaksListed
  <2> QED
    BY <2>1, <2>2, <2>3 DEF HooksNext
<1> QED
  BY <1>1, <1>2, PTL DEF HooksSpec

-----------------------------------------------------------------------------
(* The memory pool.                                                        *)

Blocks == [last : Nat, end : Nat, failed : Nat, chunks : SUBSET (Nat \X Nat)]

(* Where the memory of block i starts. *)
HeaderOf(i) == NodeHeader + (IF i = 1 THEN PoolHeader ELSE 0)

(* One block: its chunks lie between the header and last, and before end   *)
(* unless this is the block in which the pool ran over.                    *)
BlockOK(b, h, over) ==
    /\ h <= b.last /\ h + PoolSize <= b.end
    /\ b.last <= b.end \/ over
    /\ \A c \in b.chunks : /\ h <= c[1] /\ c[1] <= c[2] /\ c[2] <= b.last
                           /\ c[2] <= b.end \/ (over /\ c[1] > b.end)
    /\ \A c, d \in b.chunks : c # d => c[2] <= d[1] \/ d[2] <= c[1]

BlocksOK(bs, over) == \A i \in DOMAIN bs : BlockOK(bs[i], HeaderOf(i), over)

(* The blocks, where the search starts, and the list of large pieces. *)
PoolInv ==
    /\ blocks \in Seq(Blocks) /\ BlocksOK(blocks, overrun)
    /\ alive => blocks # <<>>
    /\ blocks # <<>> => blocks[1].end = PoolHeader + NodeHeader + PoolSize
    /\ current \in Nat \ {0}
    /\ overrun \in BOOLEAN /\ alive \in BOOLEAN
    /\ large \in Seq(Nat) /\ heap \subseteq 1 .. MaxMallocs
    /\ LargeAccounted

(* Rounding up. *)
LEMMA AlignUp == \A n \in Nat : Align(n) \in Nat /\ Align(n) >= n /\ Align(NodeHeader) = NodeHeader
<1>1. ASSUME NEW n \in Nat PROVE Align(n) \in Nat /\ Align(n) >= n
  <2>1. (n + 4 - 1) \div 4 \in Nat /\ ((n + 4 - 1) \div 4) * 4 >= n
    OBVIOUS
  <2> QED
    BY <2>1 DEF Align, Alignment
<1>2. Align(NodeHeader) = NodeHeader
  BY DEF Align, Alignment, NodeHeader
<1> QED
  BY <1>1, <1>2

(* The invariant shows the property. *)
LEMMA PoolShows == PoolInv => ChunksDisjoint /\ LargeAccounted
BY DEF PoolInv, BlocksOK, BlockOK, HeaderOf, ChunksDisjoint

(* Block b with the chunk of a request cut off it. *)
Cut(b, aligned, size) ==
    LET m == StartIn(b, aligned)
    IN [b EXCEPT !.last = m + size, !.chunks = @ \cup {<<m, m + size>>}]

(* A chunk is cut off a block that has room, or that is thought to have    *)
(* because rounding passed its end.                                        *)
LEMMA ChunkCut ==
    ASSUME NEW b \in Blocks, NEW h \in Nat, BlockOK(b, h, FALSE), NEW size \in Nat, NEW aligned \in BOOLEAN,
           Fits(b, StartIn(b, aligned), size), NEW over \in BOOLEAN,
           StartIn(b, aligned) + size > b.end => over
    PROVE  /\ Cut(b, aligned, size) \in Blocks /\ BlockOK(Cut(b, aligned, size), h, over)
           /\ Cut(b, aligned, size).end = b.end /\ Cut(b, aligned, size).last = StartIn(b, aligned) + size
<1> DEFINE m == StartIn(b, aligned)
           n == [b EXCEPT !.last = m + size, !.chunks = @ \cup {<<m, m + size>>}]
<1>0. n = Cut(b, aligned, size)
  BY DEF Cut
<1>1. b.last \in Nat /\ b.end \in Nat /\ b.chunks \subseteq Nat \X Nat
  BY DEF Blocks
<1>2. m \in Nat /\ m >= b.last
  BY <1>1, AlignUp DEF StartIn
<1>3. m > b.end \/ b.end - m >= size
  BY DEF Fits
<1> HIDE DEF m
<1>4. n \in Blocks /\ n.last = m + size /\ n.end = b.end /\ n.chunks = b.chunks \cup {<<m, m + size>>}
  <2> DEFINE k == b.chunks \cup {<<m, m + size>>}
             l == m + size
  <2>1. k \in SUBSET (Nat \X Nat) /\ l \in Nat
    BY <1>1, <1>2
  <2>2. n = [b EXCEPT !.last = l, !.chunks = k]
    OBVIOUS
  <2> HIDE DEF k, l, n
  <2>3. n \in Blocks /\ n.last = l /\ n.end = b.end /\ n.chunks = k
    BY <2>1, <2>2 DEF Blocks
  <2> QED
    BY <2>3 DEF k, l
<1> HIDE DEF n
<1>5. /\ h <= b.last /\ h + PoolSize <= b.end /\ b.last <= b.end /\ PoolSize \in Nat
      /\ \A c \in b.chunks : h <= c[1] /\ c[1] <= c[2] /\ c[2] <= b.last /\ c[2] <= b.end
      /\ \A c, d \in b.chunks : c # d => c[2] <= d[1] \/ d[2] <= c[1]
  BY PoolAssumption DEF BlockOK
<1>6. m + size > b.end => over /\ m > b.end
  BY <1>1, <1>2, <1>3 DEF m
<1>7. h <= n.last /\ h + PoolSize <= n.end /\ (n.last <= n.end \/ over)
  BY <1>1, <1>2, <1>4, <1>5, <1>6
<1>8. ASSUME NEW c \in n.chunks
      PROVE  h <= c[1] /\ c[1] <= c[2] /\ c[2] <= n.last /\ (c[2] <= n.end \/ (over /\ c[1] > n.end))
  <2>1. CASE c \in b.chunks
    <3>1. c[1] \in Nat /\ c[2] \in Nat
      BY <1>1, <2>1
    <3> QED
      BY <1>1, <1>2, <1>4, <1>5, <2>1, <3>1
  <2>2. CASE c = <<m, m + size>>
    <3>1. c[1] = m /\ c[2] = m + size
      BY <2>2
    <3> QED
      BY <1>1, <1>2, <1>4, <1>5, <1>6, <3>1
  <2> QED
    BY <1>4, <2>1, <2>2
<1>9. ASSUME NEW c \in n.chunks, NEW d \in n.chunks, c # d PROVE c[2] <= d[1] \/ d[2] <= c[1]
  <2>1. \A x \in b.chunks : x[2] \in Nat /\ x[2] <= m
    <3>1. ASSUME NEW x \in b.chunks PROVE x[2] \in Nat /\ x[2] <= m
      <4>1. x[2] \in Nat /\ x[2] <= b.last
        BY <1>1, <1>5
      <4> QED
        BY <1>1, <1>2, <4>1
    <3> QED
      BY <3>1
  <2>2. <<m, m + size>>[1] = m
    OBVIOUS
  <2> QED
    BY <1>4, <1>5, <1>9, <2>1, <2>2
<1>10. BlockOK(n, h, over)
  BY <1>7, <1>8, <1>9 DEF BlockOK
<1> QED
  BY <1>0, <1>4, <1>10 DEF m

(* A set of numbers up to a bound has a largest one. *)
LEMMA LargestNatural ==
    ASSUME NEW n \in Nat, NEW S \in SUBSET (0 .. n), S # {}
    PROVE  \E i \in S : \A j \in S : j <= i
<1> DEFINE D == {n - i : i \in S}
<1>1. D \in SUBSET Nat /\ D # {}
  <2>1. \A i \in S : n - i \in Nat
    <3>1. ASSUME NEW i \in S PROVE n - i \in Nat
      <4>1. i \in 0 .. n
        OBVIOUS
      <4> QED
        BY <4>1
    <3> QED
      BY <3>1
  <2>2. PICK s \in S : TRUE
    OBVIOUS
  <2>3. n - s \in D
    OBVIOUS
  <2> QED
    BY <2>1, <2>3
<1>2. PICK k \in D : \A l \in D : k <= l
  <2> HIDE DEF D
  <2> QED
    BY <1>1, LeastNatural
<1>3. PICK i \in S : k = n - i
  BY <1>2
<1>4. ASSUME NEW j \in S PROVE j <= i
  <2>1. n - i <= n - j
    BY <1>2, <1>3
  <2>2. i \in 0 .. n /\ j \in 0 .. n
    OBVIOUS
  <2> QED
    BY <2>1, <2>2
<1> QED
  BY <1>4

(* A header is a number of units. *)
LEMMA HeaderNat == \A i : HeaderOf(i) \in Nat
BY DEF HeaderOf, NodeHeader, PoolHeader

(* A block that is in order stays so if it counts a failure. *)
LEMMA BlockKept ==
    ASSUME NEW b \in Blocks, NEW h \in Nat, BlockOK(b, h, FALSE)
    PROVE  /\ \A over \in BOOLEAN : BlockOK(b, h, over)
           /\ [b EXCEPT !.failed = @ + 1] \in Blocks /\ [b EXCEPT !.failed = @ + 1].end = b.end
           /\ BlockOK([b EXCEPT !.failed = @ + 1], h, FALSE)
<1> DEFINE d == [b EXCEPT !.failed = @ + 1]
<1>1. d \in Blocks /\ d.last = b.last /\ d.end = b.end /\ d.chunks = b.chunks
  BY DEF Blocks
<1>2. BlockOK(d, h, FALSE)
  <2> HIDE DEF d
  <2> QED
    BY <1>1 DEF BlockOK
<1>3. ASSUME NEW over \in BOOLEAN PROVE BlockOK(b, h, over)
  BY DEF BlockOK
<1> QED
  BY <1>1, <1>2, <1>3

(* What every allocation from the blocks gives. *)
Given(bs, cur) ==
    /\ bs \in Seq(Blocks) /\ bs # <<>> /\ cur \in Nat \ {0}
    /\ bs[1].end = PoolHeader + NodeHeader + PoolSize
    /\ BlocksOK(bs, Overrun(bs))

(* mp_alloc_block: a new block behind the others. *)
LEMMA BlockGives ==
    ASSUME NEW bs \in Seq(Blocks), bs # <<>>, BlocksOK(bs, FALSE),
           bs[1].end = PoolHeader + NodeHeader + PoolSize,
           NEW cur \in Nat \ {0}, NEW size \in Nat, size <= PoolSize
    PROVE  Given(AllocBlock(bs, cur, size).bs, AllocBlock(bs, cur, size).cur)
<1> DEFINE passed == cur .. (Len(bs) - 1)
           tired == {i \in passed : bs[i].failed > FailedLimit}
           aged == [i \in DOMAIN bs |-> IF i \in passed THEN [bs[i] EXCEPT !.failed = @ + 1] ELSE bs[i]]
           new == Block(NodeHeader + size, bs[1].end - PoolHeader, {<<NodeHeader, NodeHeader + size>>})
           k == Len(bs)
           r == Append(aged, new)
<1>1. /\ k \in Nat \ {0} /\ DOMAIN bs = 1 .. k /\ 1 \in DOMAIN bs /\ \A i \in 1 .. k : bs[i] \in Blocks
      /\ PoolSize \in Nat
  BY PoolAssumption
<1>2. /\ AllocBlock(bs, cur, size).bs = r
      /\ AllocBlock(bs, cur, size).cur = IF tired = {} THEN cur ELSE 1 + CHOOSE i \in tired : \A j \in tired : j <= i
  BY AlignUp DEF AllocBlock, NodeHeader
<1>3. \A i \in 1 .. k : aged[i] \in Blocks /\ aged[i].end = bs[i].end /\ BlockOK(aged[i], HeaderOf(i), FALSE)
  <2>1. ASSUME NEW i \in 1 .. k
        PROVE  aged[i] \in Blocks /\ aged[i].end = bs[i].end /\ BlockOK(aged[i], HeaderOf(i), FALSE)
    <3>1. bs[i] \in Blocks /\ BlockOK(bs[i], HeaderOf(i), FALSE) /\ HeaderOf(i) \in Nat
      BY <1>1, HeaderNat DEF BlocksOK
    <3>2. aged[i] = [bs[i] EXCEPT !.failed = @ + 1] \/ aged[i] = bs[i]
      BY <1>1
    <3> HIDE DEF aged
    <3> QED
      BY <3>1, <3>2, BlockKept
  <2> QED
    BY <2>1
<1>4. aged \in Seq(Blocks) /\ Len(aged) = k
  <2>1. aged \in [1 .. k -> Blocks]
    BY <1>1, <1>3
  <2> HIDE DEF aged
  <2> QED
    BY <1>1, <2>1
<1>5. new \in Blocks /\ BlockOK(new, NodeHeader, FALSE)
  <2> DEFINE q == {<<NodeHeader, NodeHeader + size>>}
  <2>1. q \in SUBSET (Nat \X Nat) /\ NodeHeader + size \in Nat /\ bs[1].end - PoolHeader = NodeHeader + PoolSize
    BY <1>1 DEF NodeHeader, PoolHeader
  <2>2. new = [last |-> NodeHeader + size, end |-> NodeHeader + PoolSize, failed |-> 0, chunks |-> q]
    BY <2>1 DEF Block
  <2>3. \A c \in q : c[1] = NodeHeader /\ c[2] = NodeHeader + size
    OBVIOUS
  <2>4. \A c, d \in q : c = d
    OBVIOUS
  <2> HIDE DEF q, new
  <2>5. new \in Blocks /\ new.last = NodeHeader + size /\ new.end = NodeHeader + PoolSize /\ new.chunks = q
    BY <1>1, <2>1, <2>2 DEF Blocks, NodeHeader
  <2> QED
    BY <1>1, <2>3, <2>4, <2>5 DEF BlockOK, NodeHeader
<1> HIDE DEF aged, new
<1>6. /\ r \in Seq(Blocks) /\ Len(r) = k + 1 /\ r[k + 1] = new /\ \A i \in 1 .. k : r[i] = aged[i]
  BY <1>4, <1>5, AppendProperties
<1> HIDE DEF r
<1>7. /\ r # <<>> /\ DOMAIN r = 1 .. k + 1 /\ HeaderOf(k + 1) = NodeHeader /\ r[1] = aged[1]
      /\ \A i \in 1 .. k + 1 : i \in 1 .. k \/ i = k + 1
  BY <1>1, <1>6 DEF HeaderOf, NodeHeader
<1>8. \A i \in DOMAIN r : BlockOK(r[i], HeaderOf(i), FALSE) /\ r[i] \in Blocks /\ HeaderOf(i) \in Nat
  <2>1. ASSUME NEW i \in DOMAIN r PROVE BlockOK(r[i], HeaderOf(i), FALSE) /\ r[i] \in Blocks
    <3>1. CASE i \in 1 .. k
      BY <1>3, <1>6, <3>1
    <3>2. CASE i = k + 1
      BY <1>5, <1>6, <1>7, <3>2, Zenon
    <3> QED
      BY <1>7, <3>1, <3>2
  <2> QED
    BY <2>1, HeaderNat
<1>9. BlocksOK(r, Overrun(r))
  <2>1. Overrun(r) \in BOOLEAN
    BY DEF Overrun
  <2> QED
    BY <1>8, <2>1, BlockKept DEF BlocksOK
<1>10. r[1].end = PoolHeader + NodeHeader + PoolSize
  BY <1>1, <1>3, <1>7
<1>11. AllocBlock(bs, cur, size).cur \in Nat \ {0}
  <2>1. CASE tired = {}
    BY <1>2, <2>1
  <2>2. CASE tired # {}
    <3>1. tired \in SUBSET (0 .. k)
      BY <1>1
    <3>2. PICK t \in tired : t = CHOOSE i \in tired : \A j \in tired : j <= i
      <4> HIDE DEF tired
      <4>1. \E i \in tired : \A j \in tired : j <= i
        BY <1>1, <2>2, <3>1, LargestNatural
      <4> QED
        BY <4>1
    <3> HIDE DEF tired
    <3>3. AllocBlock(bs, cur, size).cur = 1 + t
      BY <1>2, <2>2, <3>2
    <3>4. t \in 0 .. k
      BY <3>1
    <3>5. 1 + t \in Nat \ {0}
      BY <1>1, <3>4
    <3> QED
      BY <3>3, <3>5
  <2> QED
    BY <2>1, <2>2
<1> QED
  BY <1>2, <1>6, <1>7, <1>9, <1>10, <1>11 DEF Given

(* mp_alloc and mp_nalloc: the request is cut off the first block in which *)
(* it is thought to fit, or off a new one.                                 *)
LEMMA AllocGives ==
    ASSUME NEW bs \in Seq(Blocks), bs # <<>>, BlocksOK(bs, FALSE),
           bs[1].end = PoolHeader + NodeHeader + PoolSize,
           NEW cur \in Nat \ {0}, NEW size \in Nat, size <= PoolSize, NEW aligned \in BOOLEAN
    PROVE  Given(Alloc(bs, cur, size, aligned).bs, Alloc(bs, cur, size, aligned).cur)
<1> DEFINE k == Len(bs)
           c == Candidates(bs, cur, size, aligned)
<1>1. k \in Nat \ {0} /\ DOMAIN bs = 1 .. k /\ 1 \in DOMAIN bs /\ \A i \in 1 .. k : bs[i] \in Blocks
  OBVIOUS
<1>2. CASE c = {}
  <2>1. Alloc(bs, cur, size, aligned) = AllocBlock(bs, cur, size)
    BY <1>2 DEF Alloc
  <2>2. Given(AllocBlock(bs, cur, size).bs, AllocBlock(bs, cur, size).cur)
    BY BlockGives
  <2> QED
    BY <2>1, <2>2
<1>3. CASE c # {}
  <2>1. c \subseteq 1 .. k /\ c \in SUBSET Nat
    BY <1>1 DEF Candidates
  <2>2. \E x \in c : \A y \in c : x <= y
    <3> HIDE DEF c
    <3> QED
      BY <1>3, <2>1, LeastNatural
  <2>3. PICK i \in c : i = CHOOSE x \in c : \A y \in c : x <= y
    <3> HIDE DEF c
    <3> QED
      BY <2>2
  <2>4. i \in 1 .. k /\ Fits(bs[i], StartIn(bs[i], aligned), size)
    BY <2>1 DEF Candidates
  <2> DEFINE b == bs[i]
             m == StartIn(b, aligned)
             n == Cut(b, aligned, size)
             r == [bs EXCEPT ![i] = n]
  <2>5. Alloc(bs, cur, size, aligned).bs = r /\ Alloc(bs, cur, size, aligned).cur = cur
    <3>1. Alloc(bs, cur, size, aligned) =
            [bs |-> [bs EXCEPT ![i].last = m + size, ![i].chunks = @ \cup {<<m, m + size>>}], cur |-> cur]
      BY <1>3, <2>3, Zenon DEF Alloc
    <3>2. [bs EXCEPT ![i].last = m + size, ![i].chunks = @ \cup {<<m, m + size>>}] = r
      BY <1>1, <2>4 DEF Blocks, Cut
    <3> HIDE DEF m, r
    <3> QED
      BY <3>1, <3>2
  <2>6. b \in Blocks /\ HeaderOf(i) \in Nat /\ BlockOK(b, HeaderOf(i), FALSE)
    BY <1>1, <2>4, HeaderNat DEF BlocksOK
  <2>7. n \in Blocks /\ n.end = b.end /\ \A over \in BOOLEAN : (m + size > b.end => over) => BlockOK(n, HeaderOf(i), over)
    <3>1. Fits(b, StartIn(b, aligned), size) /\ TRUE \in BOOLEAN
      BY <2>4
    <3> HIDE DEF b
    <3> QED
      BY <2>6, <3>1, ChunkCut
  <2>8. n.last = m + size
    <3>1. Fits(b, StartIn(b, aligned), size) /\ TRUE \in BOOLEAN
      BY <2>4
    <3> HIDE DEF b
    <3> QED
      BY <2>6, <3>1, ChunkCut
  <2> HIDE DEF n
  <2>9. /\ r \in Seq(Blocks) /\ DOMAIN r = 1 .. k /\ r[i] = n /\ r # <<>>
        /\ \A j \in 1 .. k : j # i => r[j] = bs[j]
    <3>1. r \in [1 .. k -> Blocks] /\ r[i] = n /\ \A j \in 1 .. k : j # i => r[j] = bs[j]
      BY <1>1, <2>4, <2>7
    <3> HIDE DEF r
    <3>2. r \in Seq(Blocks) /\ DOMAIN r = 1 .. k
      BY <1>1, <3>1
    <3> QED
      BY <1>1, <3>1, <3>2
  <2> HIDE DEF r
  <2>10. r[1].end = PoolHeader + NodeHeader + PoolSize
    <3>1. CASE i = 1
      BY <2>7, <2>9, <3>1
    <3>2. CASE i # 1
      BY <1>1, <2>9, <3>2
    <3> QED
      BY <3>1, <3>2
  <2>11. Overrun(r) \in BOOLEAN /\ (m + size > b.end => Overrun(r))
    BY <2>4, <2>7, <2>8, <2>9 DEF Overrun
  <2>12. BlockOK(n, HeaderOf(i), Overrun(r))
    BY <2>7, <2>11
  <2>13. \A j \in DOMAIN r : BlockOK(r[j], HeaderOf(j), Overrun(r))
    <3>1. ASSUME NEW j \in DOMAIN r, j # i PROVE BlockOK(r[j], HeaderOf(j), Overrun(r))
      <4>1. r[j] = bs[j] /\ bs[j] \in Blocks /\ HeaderOf(j) \in Nat /\ BlockOK(bs[j], HeaderOf(j), FALSE)
        BY <1>1, <2>9, <3>1, HeaderNat DEF BlocksOK
      <4> QED
        BY <2>11, <4>1, BlockKept
    <3> QED
      BY <2>9, <2>12, <3>1
  <2>14. Given(r, cur)
    BY <2>9, <2>10, <2>13 DEF Given, BlocksOK
  <2> QED
    BY <2>5, <2>14
<1> QED
  BY <1>2, <1>3

(* The part of the invariant about the blocks. *)
BlocksInv ==
    /\ blocks \in Seq(Blocks) /\ BlocksOK(blocks, overrun)
    /\ alive => blocks # <<>>
    /\ blocks # <<>> => blocks[1].end = PoolHeader + NodeHeader + PoolSize
    /\ current \in Nat \ {0}
    /\ overrun \in BOOLEAN /\ alive \in BOOLEAN

(* A request served from the blocks keeps their part of the invariant,     *)
(* also when the walk runs into the head's next field.                     *)
LEMMA FromBlocksStep ==
    ASSUME BlocksInv, alive, ~overrun, NEW size \in Nat, size <= PoolSize, NEW aligned \in BOOLEAN,
           FromBlocks(size, aligned)
    PROVE  BlocksInv' /\ blocks' # <<>>
<1> DEFINE rbs == Alloc(blocks, current, size, aligned).bs
           rcur == Alloc(blocks, current, size, aligned).cur
<1>1. /\ blocks \in Seq(Blocks) /\ blocks # <<>> /\ BlocksOK(blocks, FALSE)
      /\ blocks[1].end = PoolHeader + NodeHeader + PoolSize /\ current \in Nat \ {0}
  <2>1. overrun = FALSE
    BY DEF BlocksInv
  <2> QED
    BY <2>1 DEF BlocksInv
<1>2. Given(rbs, rcur)
  BY <1>1, AllocGives
<1>3. /\ alive' \in BOOLEAN /\ overrun' = Overrun(rbs)
      /\ \/ blocks' = rbs /\ current' = rcur
         \/ blocks' = blocks /\ current' = current
  <2>1. /\ alive' = ~FollowsJunk(size, aligned) /\ overrun' = (overrun \/ Overrun(rbs))
        /\ IF alive' THEN blocks' = rbs /\ current' = rcur ELSE UNCHANGED <<blocks, current>>
    BY DEF FromBlocks
  <2>2. Overrun(rbs) \in BOOLEAN /\ FollowsJunk(size, aligned) \in BOOLEAN
    BY DEF Overrun, FollowsJunk
  <2>3. overrun = FALSE
    BY DEF BlocksInv
  <2> HIDE DEF rbs, rcur
  <2>4. overrun' = Overrun(rbs)
    BY <2>1, <2>2, <2>3
  <2>5. alive' \in BOOLEAN
    BY <2>1, <2>2
  <2>6. (blocks' = rbs /\ current' = rcur) \/ (blocks' = blocks /\ current' = current)
    BY <2>1
  <2> QED
    BY <2>4, <2>5, <2>6
<1>4. Overrun(rbs) \in BOOLEAN
  BY DEF Overrun
<1>5. BlocksOK(blocks, Overrun(rbs))
  <2>1. \A i \in DOMAIN blocks : blocks[i] \in Blocks /\ HeaderOf(i) \in Nat
    BY <1>1, HeaderNat
  <2>2. \A i \in DOMAIN blocks : BlockOK(blocks[i], HeaderOf(i), FALSE)
    BY <1>1, Zenon DEF BlocksOK
  <2> HIDE DEF rbs
  <2> QED
    BY <1>4, <2>1, <2>2, BlockKept DEF BlocksOK
<1> HIDE DEF rbs, rcur
<1>6. CASE blocks' = rbs /\ current' = rcur
  <2>1. /\ blocks' \in Seq(Blocks) /\ blocks' # <<>> /\ BlocksOK(blocks', overrun')
        /\ blocks'[1].end = PoolHeader + NodeHeader + PoolSize /\ current' \in Nat \ {0}
    BY <1>2, <1>3, <1>6, Zenon DEF Given
  <2> QED
    BY <1>3, <1>4, <2>1 DEF BlocksInv, BlocksOK, BlockOK, HeaderOf, NodeHeader, PoolHeader
<1>7. CASE blocks' = blocks /\ current' = current
  <2>1. BlocksOK(blocks', overrun')
    BY <1>3, <1>5, <1>7, Zenon
  <2> QED
    BY <1>1, <1>3, <1>4, <1>7, <2>1 DEF BlocksInv, BlocksOK, BlockOK, HeaderOf, NodeHeader, PoolHeader
<1> QED
  BY <1>3, <1>6, <1>7

(* There is a first piece that is not in use. *)
LEMMA MallocGives ==
    ASSUME heap \subseteq 1 .. MaxMallocs, Cardinality(heap) < MaxMallocs
    PROVE  malloc \in 1 .. MaxMallocs /\ malloc \notin heap
<1>1. MaxMallocs \in Nat
  BY PoolAssumption
<1>2. IsFiniteSet(1 .. MaxMallocs) /\ Cardinality(1 .. MaxMallocs) = MaxMallocs
  BY <1>1, FS_Interval
<1> DEFINE S == (1 .. MaxMallocs) \ heap
<1>3. S # {} /\ S \in SUBSET Nat
  <2>1. heap # 1 .. MaxMallocs
    <3> SUFFICES ASSUME heap = 1 .. MaxMallocs PROVE FALSE
      OBVIOUS
    <3>1. Cardinality(heap) = MaxMallocs
      BY <1>2
    <3> QED
      BY <1>1, <3>1
  <2>2. \A x \in 1 .. MaxMallocs : x \in Nat
    BY <1>1
  <2>3. S \in SUBSET Nat
    BY <2>2
  <2>4. S # {}
    BY <2>1
  <2> QED
    BY <2>3, <2>4
<1>4. PICK p \in S : \A q \in S : p <= q
  <2> HIDE DEF S
  <2> QED
    BY <1>3, LeastNatural
<1>5. p \in 1 .. MaxMallocs /\ p \notin heap /\ \A r \in 1 .. (p - 1) : r \in heap
  <2>1. ASSUME NEW r \in 1 .. (p - 1) PROVE r \in heap
    <3>1. p \in 1 .. MaxMallocs
      BY <1>4
    <3>2. r \in 1 .. MaxMallocs /\ ~(p <= r)
      BY <1>1, <3>1
    <3> QED
      BY <1>4, <3>2
  <2> QED
    BY <1>4, <2>1
<1> QED
  BY <1>5, Zenon DEF malloc

(* The invariant in its two parts. *)
LEMMA PoolParts ==
    PoolInv <=> BlocksInv /\ large \in Seq(Nat) /\ heap \subseteq 1 .. MaxMallocs /\ LargeAccounted
BY DEF PoolInv, BlocksInv

(* A new piece in front of the list. *)
LEMMA PieceChained ==
    ASSUME large \in Seq(Nat), heap \subseteq 1 .. MaxMallocs, LargeAccounted, alive,
           NEW piece \in 1 .. MaxMallocs, piece \notin heap, heap' = heap \cup {piece},
           large' = IF alive' THEN <<piece>> \o large ELSE large, blocks' # <<>>
    PROVE  large' \in Seq(Nat) /\ heap' \subseteq 1 .. MaxMallocs /\ LargeAccounted'
<1>1. MaxMallocs \in Nat /\ piece \in Nat \ {0} /\ heap' \subseteq 1 .. MaxMallocs
  BY PoolAssumption
<1>2. /\ heap = ToSet(large) \ {0}
      /\ \A i, j \in DOMAIN large : i # j /\ large[i] # 0 => large[i] # large[j]
  BY DEF LargeAccounted
<1>3. CASE alive'
  <2> DEFINE k == Len(large)
  <2>1. /\ large' = <<piece>> \o large /\ k \in Nat /\ DOMAIN large = 1 .. k /\ \A i \in 1 .. k : large[i] \in Nat
    BY <1>3
  <2>2. /\ large' \in Seq(Nat) /\ Len(large') = k + 1 /\ DOMAIN large' = 1 .. k + 1 /\ large'[1] = piece
        /\ \A i \in 2 .. k + 1 : large'[i] = large[i - 1]
    BY <1>1, <2>1
  <2>3. ToSet(large) = {large[i] : i \in 1 .. k} /\ ToSet(large') = {large'[i] : i \in 1 .. k + 1}
    BY <2>1, <2>2 DEF ToSet
  <2> HIDE DEF k
  <2>4. ToSet(large') = {piece} \cup ToSet(large)
    <3>1. \A i \in 1 .. k + 1 : large'[i] \in {piece} \cup ToSet(large)
      <4>1. ASSUME NEW i \in 1 .. k + 1 PROVE large'[i] \in {piece} \cup ToSet(large)
        <5>1. CASE i = 1
          BY <2>2, <5>1
        <5>2. CASE i # 1
          <6>1. i - 1 \in 1 .. k /\ large'[i] = large[i - 1]
            BY <2>1, <2>2, <5>2
          <6> QED
            BY <2>3, <6>1
        <5> QED
          BY <5>1, <5>2
      <4> QED
        BY <4>1
    <3>2. \A i \in 1 .. k : large[i] \in ToSet(large')
      <4>1. ASSUME NEW i \in 1 .. k PROVE large[i] \in ToSet(large')
        <5>1. i + 1 \in 1 .. k + 1 /\ large'[i + 1] = large[i]
          BY <2>1, <2>2
        <5> QED
          BY <2>3, <5>1
      <4> QED
        BY <4>1
    <3>3. piece \in ToSet(large')
      <4>1. 1 \in 1 .. k + 1
        BY <2>1
      <4> QED
        BY <2>2, <2>3, <4>1
    <3> QED
      BY <2>3, <3>1, <3>2, <3>3, ZenonT(30)
  <2>5. heap' = ToSet(large') \ {0}
    BY <1>1, <1>2, <2>4
  <2>6. ASSUME NEW i \in DOMAIN large', NEW j \in DOMAIN large', i # j, large'[i] # 0 PROVE large'[i] # large'[j]
    <3>1. \A x \in 1 .. k : large[x] # piece
      <4>1. ASSUME NEW x \in 1 .. k, large[x] = piece PROVE FALSE
        <5>1. large[x] \in ToSet(large)
          BY <2>3
        <5> QED
          BY <1>1, <1>2, <4>1, <5>1
      <4> QED
        BY <4>1
    <3>2. \A x \in 1 .. k + 1 : (x = 1 /\ large'[x] = piece) \/ (x - 1 \in 1 .. k /\ large'[x] = large[x - 1])
      <4>1. ASSUME NEW x \in 1 .. k + 1, x # 1 PROVE x - 1 \in 1 .. k /\ large'[x] = large[x - 1]
        <5>1. x \in 2 .. k + 1 /\ x - 1 \in 1 .. k
          BY <2>1, <4>1
        <5> QED
          BY <2>2, <5>1
      <4> QED
        BY <2>2, <4>1
    <3>3. i \in 1 .. k + 1 /\ j \in 1 .. k + 1 /\ k \in Nat /\ i - 1 # j - 1
      BY <2>1, <2>2, <2>6
    <3>4. CASE i = 1 \/ j = 1
      BY <2>6, <3>1, <3>2, <3>3, <3>4
    <3>5. CASE i # 1 /\ j # 1
      <4>1. PICK x \in 1 .. k : x = i - 1
        BY <3>2, <3>3, <3>5
      <4>2. PICK y \in 1 .. k : y = j - 1
        BY <3>2, <3>3, <3>5
      <4>3. large'[i] = large[x] /\ large'[j] = large[y] /\ x # y
        BY <3>2, <3>3, <3>5, <4>1, <4>2
      <4> QED
        BY <1>2, <2>1, <2>6, <4>3
    <3> QED
      BY <3>4, <3>5
  <2> QED
    BY <1>1, <2>2, <2>5, <2>6 DEF LargeAccounted
<1>4. CASE ~alive'
  BY <1>1, <1>2, <1>4 DEF LargeAccounted
<1> QED
  BY <1>3, <1>4

(* A request served from the blocks keeps the list. *)
LEMMA SmallStep ==
    ASSUME PoolInv, NEW size \in Requests, NEW aligned \in BOOLEAN, Small(size, aligned)
    PROVE  PoolInv'
<1>1. BlocksInv /\ alive /\ ~overrun /\ size \in Nat /\ size <= PoolSize /\ FromBlocks(size, aligned)
  BY PoolParts, PoolAssumption DEF Small
<1>2. BlocksInv' /\ blocks' # <<>>
  BY <1>1, FromBlocksStep
<1>3. large' = large /\ heap' = heap
  BY DEF Small
<1>4. large' \in Seq(Nat) /\ heap' \subseteq 1 .. MaxMallocs /\ LargeAccounted'
  BY <1>1, <1>2, <1>3 DEF PoolInv, LargeAccounted
<1> QED
  BY <1>2, <1>4 DEF PoolInv, BlocksInv

(* mp_alloc_large: an entry is reused, or a new one chained. *)
LEMMA LargeStep ==
    ASSUME PoolInv, NEW size \in Requests, Large(size)
    PROVE  PoolInv'
<1>1. PICK piece \in 1 .. MaxMallocs : piece = malloc /\ piece \notin heap
  BY MallocGives DEF PoolInv, Large
<1>2. /\ BlocksInv /\ alive /\ ~overrun /\ large \in Seq(Nat) /\ heap \subseteq 1 .. MaxMallocs /\ LargeAccounted
      /\ heap' = heap \cup {piece}
  BY <1>1, PoolParts DEF Large
<1>3. CASE Reusable # {}
  <2>1. /\ large' = [large EXCEPT ![CHOOSE i \in Reusable : \A j \in Reusable : i <= j] = piece]
        /\ UNCHANGED <<blocks, current, overrun, alive, junk>>
    BY <1>1, <1>3, Zenon DEF Large
  <2> DEFINE k == Len(large)
  <2>2. /\ k \in Nat /\ DOMAIN large = 1 .. k /\ (\A i \in 1 .. k : large[i] \in Nat)
        /\ Reusable \in SUBSET Nat /\ Reusable \subseteq {i \in 1 .. k : large[i] = 0}
    BY <1>2 DEF Reusable
  <2> HIDE DEF k
  <2>3. \E i \in Reusable : \A j \in Reusable : i <= j
    BY <1>3, <2>2, LeastNatural
  <2>4. PICK i \in Reusable : i = CHOOSE x \in Reusable : \A j \in Reusable : x <= j
    BY <2>3
  <2>5. i \in 1 .. k /\ large[i] = 0 /\ large' = [large EXCEPT ![i] = piece] /\ piece \in Nat \ {0} /\ MaxMallocs \in Nat
    <3>1. i \in 1 .. k /\ large[i] = 0 /\ large' = [large EXCEPT ![i] = piece]
      BY <2>1, <2>2, <2>4
    <3>2. piece \in Nat \ {0} /\ MaxMallocs \in Nat
      BY PoolAssumption
    <3> QED
      BY <3>1, <3>2
  <2>6. large' \in Seq(Nat) /\ DOMAIN large' = 1 .. k /\ large'[i] = piece /\ \A j \in 1 .. k : j # i => large'[j] = large[j]
    BY <1>2, <2>2, <2>5
  <2>7. /\ heap = ToSet(large) \ {0}
        /\ \A x, y \in 1 .. k : x # y /\ large[x] # 0 => large[x] # large[y]
        /\ ToSet(large) = {large[x] : x \in 1 .. k} /\ ToSet(large') = {large'[x] : x \in 1 .. k}
    BY <1>2, <2>2, <2>6 DEF LargeAccounted, ToSet
  <2>8. heap' = ToSet(large') \ {0}
    <3>1. ASSUME NEW x \in heap' PROVE x \in ToSet(large') \ {0}
      <4>1. CASE x = piece
        BY <2>5, <2>6, <2>7, <4>1
      <4>2. CASE x \in heap
        <5>1. PICK y \in 1 .. k : x = large[y] /\ x # 0
          BY <2>7, <4>2
        <5>2. y # i /\ large'[y] = x
          BY <2>5, <2>6, <5>1
        <5> QED
          BY <2>7, <5>1, <5>2
      <4> QED
        BY <1>2, <4>1, <4>2
    <3>2. ASSUME NEW x \in ToSet(large'), x # 0 PROVE x \in heap'
      <4>1. PICK y \in 1 .. k : x = large'[y]
        BY <2>7
      <4>2. CASE y = i
        BY <1>2, <2>6, <4>1, <4>2
      <4>3. CASE y # i
        <5>1. x = large[y]
          BY <2>6, <4>1, <4>3
        <5> QED
          BY <1>2, <2>7, <3>2, <5>1
      <4> QED
        BY <4>2, <4>3
    <3> QED
      BY <3>1, <3>2
  <2>9. ASSUME NEW x \in 1 .. k, NEW y \in 1 .. k, x # y, large'[x] # 0 PROVE large'[x] # large'[y]
    <3>1. \A z \in 1 .. k : large[z] # piece
      BY <1>1, <2>5, <2>7
    <3> QED
      BY <2>5, <2>6, <2>7, <2>9, <3>1
  <2>10. large' \in Seq(Nat) /\ heap' \subseteq 1 .. MaxMallocs /\ LargeAccounted'
    BY <1>2, <2>1, <2>6, <2>8, <2>9, ZenonT(30) DEF LargeAccounted, BlocksInv
  <2>11. BlocksInv'
    BY <1>2, <2>1 DEF BlocksInv, BlocksOK, BlockOK, HeaderOf, NodeHeader, PoolHeader
  <2> QED
    BY <2>10, <2>11 DEF PoolInv, BlocksInv
<1>4. CASE Reusable = {}
  <2>1. FromBlocks(LargeSize, TRUE) /\ large' = IF alive' THEN <<piece>> \o large ELSE large
    BY <1>1, <1>4, Zenon DEF Large
  <2>2. LargeSize \in Nat /\ LargeSize <= PoolSize
    BY PoolAssumption DEF LargeSize
  <2>3. BlocksInv' /\ blocks' # <<>>
    BY <1>2, <2>1, <2>2, FromBlocksStep
  <2>4. large' \in Seq(Nat) /\ heap' \subseteq 1 .. MaxMallocs /\ LargeAccounted'
    BY <1>1, <1>2, <2>1, <2>3, PieceChained
  <2> QED
    BY <2>3, <2>4 DEF PoolInv, BlocksInv
<1> QED
  BY <1>3, <1>4

(* mp_memalign chains a new entry. *)
LEMMA MemalignStep ==
    ASSUME PoolInv, mp_memalign
    PROVE  PoolInv'
<1>1. PICK piece \in 1 .. MaxMallocs : piece = malloc /\ piece \notin heap
  BY MallocGives DEF PoolInv, mp_memalign
<1>2. /\ BlocksInv /\ alive /\ ~overrun /\ large \in Seq(Nat) /\ heap \subseteq 1 .. MaxMallocs /\ LargeAccounted
      /\ heap' = heap \cup {piece}
  BY <1>1, PoolParts DEF mp_memalign
<1>3. FromBlocks(LargeSize, TRUE) /\ large' = IF alive' THEN <<piece>> \o large ELSE large
  BY <1>1, Zenon DEF mp_memalign
<1>4. LargeSize \in Nat /\ LargeSize <= PoolSize
  BY PoolAssumption DEF LargeSize
<1>5. BlocksInv' /\ blocks' # <<>>
  BY <1>2, <1>3, <1>4, FromBlocksStep
<1>6. large' \in Seq(Nat) /\ heap' \subseteq 1 .. MaxMallocs /\ LargeAccounted'
  BY <1>1, <1>2, <1>3, <1>5, PieceChained
<1> QED
  BY <1>5, <1>6 DEF PoolInv, BlocksInv

(* mp_free: the piece goes, its entry stays. *)
LEMMA FreeStep ==
    ASSUME PoolInv, NEW piece \in heap, mp_free(piece)
    PROVE  PoolInv'
<1>1. /\ BlocksInv /\ alive /\ large \in Seq(Nat) /\ heap \subseteq 1 .. MaxMallocs /\ LargeAccounted
      /\ heap' = heap \ {piece} /\ UNCHANGED <<blocks, current, junk, overrun, alive>>
  BY PoolParts DEF mp_free
<1>2. PICK i \in DOMAIN large : large[i] = piece /\ large' = [large EXCEPT ![i] = 0]
  BY DEF mp_free
<1>3. /\ heap = ToSet(large) \ {0} /\ piece # 0
      /\ \A x, y \in DOMAIN large : x # y /\ large[x] # 0 => large[x] # large[y]
      /\ large' \in Seq(Nat) /\ DOMAIN large' = DOMAIN large /\ large'[i] = 0
      /\ \A j \in DOMAIN large : j # i => large'[j] = large[j]
  BY <1>1, <1>2 DEF LargeAccounted
<1>4. ToSet(large) = {large[x] : x \in DOMAIN large} /\ ToSet(large') = {large'[x] : x \in DOMAIN large}
  BY <1>3 DEF ToSet
<1>5. heap' = ToSet(large') \ {0}
  <2>1. ASSUME NEW x \in heap' PROVE x \in ToSet(large') \ {0}
    <3>1. PICK y \in DOMAIN large : x = large[y] /\ x # 0 /\ x # piece
      BY <1>1, <1>3, <1>4
    <3>2. y # i /\ large'[y] = x
      BY <1>2, <1>3, <3>1
    <3> QED
      BY <1>4, <3>1, <3>2
  <2>2. ASSUME NEW x \in ToSet(large'), x # 0 PROVE x \in heap'
    <3>1. PICK y \in DOMAIN large : x = large'[y]
      BY <1>4
    <3>2. y # i /\ x = large[y]
      BY <1>3, <2>2, <3>1
    <3>3. x \in heap /\ x # piece
      BY <1>2, <1>3, <1>4, <2>2, <3>2
    <3> QED
      BY <1>1, <3>3
  <2> QED
    BY <2>1, <2>2
<1>6. \A x, y \in DOMAIN large' : x # y /\ large'[x] # 0 => large'[x] # large'[y]
  BY <1>3
<1>7. LargeAccounted' /\ heap' \subseteq 1 .. MaxMallocs
  BY <1>1, <1>5, <1>6 DEF LargeAccounted, BlocksInv
<1>8. BlocksInv'
  BY <1>1 DEF BlocksInv, BlocksOK, BlockOK, HeaderOf, NodeHeader, PoolHeader
<1> QED
  BY <1>3, <1>7, <1>8 DEF PoolInv, BlocksInv

(* mp_reset_pool: every block is empty again, every piece is freed. *)
LEMMA ResetStep ==
    ASSUME PoolInv, mp_reset_pool
    PROVE  PoolInv'
<1>1. /\ BlocksInv /\ alive /\ large \in Seq(Nat) /\ heap = ToSet(large) \ {0} /\ 0 \notin heap /\ blocks # <<>>
      /\ heap' = heap \ ToSet(large) /\ large' = <<>> /\ UNCHANGED <<current, junk, overrun, alive>>
      /\ overrun = FALSE
  BY PoolParts, PoolAssumption DEF mp_reset_pool, LargeAccounted, BlocksInv
<1>2. heap' = {} /\ large' \in Seq(Nat) /\ DOMAIN large' = {}
  BY <1>1
<1>3. LargeAccounted' /\ heap' \subseteq 1 .. MaxMallocs
  BY <1>2 DEF LargeAccounted, ToSet
<1> DEFINE k == Len(blocks)
           f(i) == [blocks[i] EXCEPT !.last = HeaderOf(i), !.chunks = {}]
<1>4. k \in Nat \ {0} /\ DOMAIN blocks = 1 .. k /\ \A i \in 1 .. k : blocks[i] \in Blocks
  BY <1>1 DEF BlocksInv
<1>5. blocks' = [i \in 1 .. k |-> f(i)]
  BY <1>4 DEF mp_reset_pool, HeaderOf
<1>6. ASSUME NEW i \in 1 .. k
      PROVE  f(i) \in Blocks /\ f(i).end = blocks[i].end /\ BlockOK(f(i), HeaderOf(i), FALSE)
  <2>1. PICK b \in Blocks : b = blocks[i]
    BY <1>4
  <2>2. PICK h \in Nat : h = HeaderOf(i)
    BY HeaderNat
  <2>3. PICK e \in SUBSET (Nat \X Nat) : e = {}
    OBVIOUS
  <2>4. BlockOK(b, h, FALSE)
    BY <1>1, <1>4, <2>1, <2>2, Zenon DEF BlocksInv, BlocksOK
  <2> DEFINE d == [b EXCEPT !.last = h, !.chunks = e]
  <2>5. d \in Blocks /\ d.last = h /\ d.chunks = e /\ d.end = b.end
    BY DEF Blocks
  <2>6. f(i) = d
    BY <2>1, <2>2, <2>3
  <2> HIDE DEF d
  <2>7. BlockOK(d, h, FALSE)
    <3>1. b.end \in Nat /\ PoolSize \in Nat
      BY PoolAssumption DEF Blocks
    <3> QED
      BY <2>3, <2>4, <2>5, <3>1 DEF BlockOK
  <2> QED
    BY <2>1, <2>2, <2>5, <2>6, <2>7
<1> HIDE DEF f
<1>7. blocks' \in Seq(Blocks) /\ DOMAIN blocks' = 1 .. k /\ blocks' # <<>> /\ \A i \in 1 .. k : blocks'[i] = f(i)
  <2>1. blocks' \in [1 .. k -> Blocks] /\ \A i \in 1 .. k : blocks'[i] = f(i)
    BY <1>5, <1>6
  <2>2. blocks' \in Seq(Blocks) /\ DOMAIN blocks' = 1 .. k
    BY <1>4, <2>1
  <2> QED
    BY <1>4, <2>1, <2>2
<1>8. BlocksOK(blocks', overrun') /\ blocks'[1].end = PoolHeader + NodeHeader + PoolSize
  <2>1. \A i \in DOMAIN blocks' : BlockOK(blocks'[i], HeaderOf(i), overrun')
    BY <1>1, <1>6, <1>7
  <2>2. blocks[1].end = PoolHeader + NodeHeader + PoolSize /\ 1 \in 1 .. k
    BY <1>1, <1>4 DEF BlocksInv
  <2> QED
    BY <1>6, <1>7, <2>1, <2>2 DEF BlocksOK
<1>9. BlocksInv'
  BY <1>1, <1>7, <1>8 DEF BlocksInv, BlocksOK, BlockOK, HeaderOf, NodeHeader, PoolHeader
<1> QED
  BY <1>2, <1>3, <1>9 DEF PoolInv, BlocksInv

(* mp_destory_pool: nothing is left. *)
LEMMA DestroyStep ==
    ASSUME PoolInv, mp_destory_pool
    PROVE  PoolInv'
<1>1. /\ BlocksInv /\ large \in Seq(Nat) /\ heap = ToSet(large) \ {0}
      /\ heap' = heap \ ToSet(large) /\ large' = <<>> /\ blocks' = <<>> /\ alive' = FALSE
      /\ UNCHANGED <<current, overrun>>
  BY PoolParts DEF mp_destory_pool, LargeAccounted
<1>2. heap' = {} /\ large' \in Seq(Nat) /\ DOMAIN large' = {} /\ blocks' \in Seq(Blocks) /\ DOMAIN blocks' = {}
  BY <1>1
<1> QED
  BY <1>1, <1>2 DEF PoolInv, BlocksInv, BlocksOK, LargeAccounted, ToSet

(* The pool keeps its invariant. *)
LEMMA PoolKeeps == PoolSpec => []PoolInv
<1>1. PoolInit => PoolInv
  <2> SUFFICES ASSUME PoolInit PROVE PoolInv
    OBVIOUS
  <2> DEFINE b == Block(PoolHeader + NodeHeader, PoolHeader + NodeHeader + PoolSize, {})
  <2>1. blocks = <<b>> /\ current = 1 /\ large = <<>> /\ heap = {} /\ overrun = FALSE /\ alive = TRUE
    BY DEF PoolInit, mp_create_pool
  <2>2. PoolSize \in Nat
    BY PoolAssumption
  <2>3. b \in Blocks /\ b.last = 7 /\ b.end = 7 + PoolSize /\ b.chunks = {}
    BY <2>2 DEF Block, Blocks, PoolHeader, NodeHeader
  <2> HIDE DEF b
  <2>4. HeaderOf(1) = 7 /\ PoolHeader + NodeHeader + PoolSize = 7 + PoolSize
    BY <2>2 DEF HeaderOf, NodeHeader, PoolHeader
  <2>5. BlockOK(b, 7, FALSE)
    BY <2>2, <2>3 DEF BlockOK
  <2>6. blocks \in Seq(Blocks) /\ DOMAIN blocks = {1} /\ blocks[1] = b /\ blocks # <<>>
    BY <2>1, <2>3
  <2>7. BlocksOK(blocks, overrun)
    BY <2>1, <2>4, <2>5, <2>6 DEF BlocksOK
  <2>8. large \in Seq(Nat) /\ DOMAIN large = {}
    BY <2>1
  <2>9. LargeAccounted
    BY <2>1, <2>8 DEF LargeAccounted, ToSet
  <2>10. blocks[1].end = PoolHeader + NodeHeader + PoolSize
    BY <2>3, <2>4, <2>6
  <2>11. heap \subseteq 1 .. MaxMallocs /\ current \in Nat \ {0}
    BY <2>1
  <2>12. overrun \in BOOLEAN /\ alive \in BOOLEAN
    BY <2>1, Zenon
  <2> QED
    BY <2>6, <2>7, <2>8, <2>9, <2>10, <2>11, <2>12 DEF PoolInv
<1>2. PoolInv /\ [PoolNext]_poolVars => PoolInv'
  <2> SUFFICES ASSUME PoolInv, [PoolNext]_poolVars PROVE PoolInv'
    OBVIOUS
  <2>1. CASE UNCHANGED poolVars
    <3>1. UNCHANGED <<blocks, current, large, heap, overrun, alive>>
      BY <2>1 DEF poolVars
    <3>2. BlocksOK(blocks', overrun')
      BY <3>1, Zenon DEF PoolInv
    <3> QED
      BY <3>1, <3>2 DEF PoolInv, LargeAccounted, BlocksOK, BlockOK, HeaderOf, NodeHeader, PoolHeader
  <2> QED
    BY <2>1, SmallStep, LargeStep, MemalignStep, FreeStep, ResetStep, DestroyStep DEF PoolNext
<1> QED
  BY <1>1, <1>2, PTL DEF PoolSpec

(* MemorySound: for every size of the pool, every set of requests and any  *)
(* number of blocks the pool hands no memory out twice and loses no large  *)
(* piece (mmpool.c), and the leak detector misses no block (memleak.cpp).  *)
THEOREM MemoryIsSound == PoolSpec /\ HooksSpec => []MemorySound
<1>1. PoolInv /\ LeaksListed => MemorySound
  BY PoolShows DEF MemorySound
<1> QED
  BY <1>1, PoolKeeps, HooksList, PTL

-----------------------------------------------------------------------------
(* Dates, zones and stamps.                                                *)

(* The calendar counts years from March: where a month, a year of a       *)
(* century and a century begin.                                           *)
MonthStart(m) == (153 * m + 2) \div 5
YearStart(d) == (1461 * d) \div 4
CenturyStart(b) == (b * 146097) \div 4
MarchYear(y) == y * 365 + (y \div 4) - (y \div 100) + (y \div 400)

(* The quotient is the number between these bounds. *)
LEMMA QuotientIs ==
    ASSUME NEW n \in Int, NEW k \in Nat \ {0}, NEW q \in Int, k * q <= n, n < k * q + k
    PROVE  n \div k = q
BY SMT

CenturyOK(b) ==
    /\ CenturyStart(b) \in Nat /\ CenturyStart(b) = 36524 * b + (b \div 4)
    /\ 4 * CenturyStart(b) <= 146097 * b /\ 146097 * b <= 4 * CenturyStart(b) + 3
    /\ b % 4 = 3 => 4 * CenturyStart(b) + 3 = 146097 * b

YearOK(d) ==
    /\ YearStart(d) \in Nat /\ YearStart(d) = 365 * d + (d \div 4)
    /\ 4 * YearStart(d) <= 1461 * d /\ 1461 * d <= 4 * YearStart(d) + 3
    /\ d % 4 = 3 => 4 * YearStart(d) + 3 = 1461 * d

(* Four centuries have 146097 days; the last of them has the day more. *)
LEMMA CenturyStarts ==
    ASSUME NEW b \in Nat
    PROVE  CenturyOK(b)
<1>1. b \div 4 \in Nat /\ b % 4 \in 0 .. 3 /\ b = 4 * (b \div 4) + (b % 4)
  BY SMT
<1>2. (b * 146097) \div 4 = 36524 * b + (b \div 4)
  BY SMT
<1>3. CenturyStart(b) = 36524 * b + (b \div 4)
  BY <1>2, SMT DEF CenturyStart
<1> QED
  BY <1>1, <1>3, SMT DEF CenturyOK

(* Four years have 1461 days; the last of them has the day more. *)
LEMMA YearStarts ==
    ASSUME NEW d \in Nat
    PROVE  YearOK(d)
<1>1. d \div 4 \in Nat /\ d % 4 \in 0 .. 3 /\ d = 4 * (d \div 4) + (d % 4)
  BY SMT
<1>2. (1461 * d) \div 4 = 365 * d + (d \div 4)
  BY SMT
<1>3. YearStart(d) = 365 * d + (d \div 4)
  BY <1>2, SMT DEF YearStart
<1> QED
  BY <1>1, <1>3, SMT DEF YearOK

(* Where the months from March begin. *)
LEMMA MonthStarts ==
    /\ MonthStart(0) = 0 /\ MonthStart(1) = 31 /\ MonthStart(2) = 61 /\ MonthStart(3) = 92
    /\ MonthStart(4) = 122 /\ MonthStart(5) = 153 /\ MonthStart(6) = 184 /\ MonthStart(7) = 214
    /\ MonthStart(8) = 245 /\ MonthStart(9) = 275 /\ MonthStart(10) = 306 /\ MonthStart(11) = 337
BY SMT DEF MonthStart

(* A year begins where it begins in its century. *)
LEMMA Centuries ==
    ASSUME NEW b \in Nat, NEW d \in 0 .. 99, NEW y \in Nat, y = 100 * b + d
    PROVE  MarchYear(y) = CenturyStart(b) + YearStart(d)
<1>1. /\ y \div 4 = 25 * b + (d \div 4)
      /\ y \div 100 = b
      /\ y \div 400 = b \div 4
  BY SMT
<1>2. CenturyStart(b) = 36524 * b + (b \div 4) /\ YearStart(d) = 365 * d + (d \div 4)
  <2>1. d \in Nat
    BY SMT
  <2>2. CenturyOK(b) /\ YearOK(d)
    BY <2>1, CenturyStarts, YearStarts, Zenon
  <2> QED
    BY <2>2, SMT DEF CenturyOK, YearOK
<1>3. d \div 4 \in Int /\ b \div 4 \in Int
  BY SMT
<1> QED
  BY <1>1, <1>2, <1>3, SMT DEF MarchYear

(* A year from March ends with a leap day: by its place in its century. *)
LEMMA LeapSplits ==
    ASSUME NEW b \in Nat, NEW d \in 0 .. 99, NEW y \in Nat, y = 100 * b + d
    PROVE  Leap(y + 1) <=> (d % 4 = 3 /\ (d = 99 => b % 4 = 3))
<1>1. (y + 1) % 4 = 0 <=> d % 4 = 3
  BY SMT
<1>2. (y + 1) % 100 = 0 <=> d = 99
  BY SMT
<1>3. d = 99 => ((y + 1) % 400 = 0 <=> b % 4 = 3)
  BY SMT
<1> QED
  BY <1>1, <1>2, <1>3, SMT DEF Leap

(* A year from March is as long as the year it ends in. *)
LEMMA YearLength ==
    ASSUME NEW y \in Nat
    PROVE  MarchYear(y + 1) = MarchYear(y) + DaysOf(y + 1) /\ MarchYear(y) \in Int
<1>1. (y + 1) \div 4 = (y \div 4) + (IF (y + 1) % 4 = 0 THEN 1 ELSE 0)
  BY SMT
<1>2. (y + 1) \div 100 = (y \div 100) + (IF (y + 1) % 100 = 0 THEN 1 ELSE 0)
  BY SMT
<1>3. (y + 1) \div 400 = (y \div 400) + (IF (y + 1) % 400 = 0 THEN 1 ELSE 0)
  BY SMT
<1>4. ((y + 1) % 400 = 0 => (y + 1) % 100 = 0) /\ ((y + 1) % 100 = 0 => (y + 1) % 4 = 0)
  BY SMT
<1>5. y \div 4 \in Int /\ y \div 100 \in Int /\ y \div 400 \in Int
  BY SMT
<1> QED
  BY <1>1, <1>2, <1>3, <1>4, <1>5, SMT DEF MarchYear, DaysOf, Leap

(* The number of the day is made of year, month and day that begin in March. *)
DayNo(y, m, day) == day + MonthStart(m) + MarchYear(y) - 32045
DateNo(y, m, day) == getJulianDayNumber(y - 4800 + (m \div 10), m + 3 - 12 * (m \div 10), day)

(* getJulianDayNumber counts a date by months and years from March. *)
LEMMA DayNumber ==
    ASSUME NEW y \in Int, NEW m \in 0 .. 11, NEW day \in Int
    PROVE  DateNo(y, m, day) = DayNo(y, m, day)
<1>1. PICK a \in Int : a = m \div 10
  BY SMT
<1>2. (14 - (m + 3 - 12 * a)) \div 12 = a
  BY <1>1, SMT
<1>3. (y - 4800 + a) + 4800 - a = y /\ (m + 3 - 12 * a) + 12 * a - 3 = m
  BY SMT
<1>4. getJulianDayNumber(y - 4800 + a, m + 3 - 12 * a, day)
        = day + ((153 * m + 2) \div 5) + y * 365 + (y \div 4) - (y \div 100) + (y \div 400) - 32045
  BY <1>2, <1>3, SMT DEF getJulianDayNumber
<1>5. y \div 4 \in Int /\ y \div 100 \in Int /\ y \div 400 \in Int /\ (153 * m + 2) \div 5 \in Int
  BY SMT
<1> QED
  BY <1>1, <1>4, <1>5, SMT DEF MonthStart, MarchYear, DayNo, DateNo

(* getYearMonthDay by its intermediate results. *)
CenturyOf(a) == (4 * a + 3) \div 146097
InCentury(a) == a - CenturyStart(CenturyOf(a))
YearOf(c) == (4 * c + 3) \div 1461
InYear(c) == c - YearStart(YearOf(c))
MonthOf(e) == (5 * e + 2) \div 153
DateOf(b, d, e, m) == [day |-> e - MonthStart(m) + 1, month |-> m + 3 - 12 * (m \div 10),
                       year |-> b * 100 + d - 4800 + (m \div 10)]

(* getYearMonthDay takes the century, the year in it and the month one     *)
(* after the other.                                                        *)
LEMMA DateByParts ==
    ASSUME NEW a \in Int
    PROVE  getYearMonthDay(a - 32044)
             = DateOf(CenturyOf(a), YearOf(InCentury(a)), InYear(InCentury(a)), MonthOf(InYear(InCentury(a))))
<1>1. (a - 32044) + 32044 = a
  BY SMT
<1> QED
  BY <1>1, SMT DEF getYearMonthDay, MonthStart, CenturyOf, InCentury, CenturyStart, YearOf, InYear, YearStart, MonthOf, DateOf

(* The century of a day is the only one it is between the ends of. *)
LEMMA CenturyBounds ==
    ASSUME NEW a \in Nat
    PROVE  /\ CenturyOf(a) \in Nat
           /\ 146097 * CenturyOf(a) <= 4 * a + 3 /\ 4 * a + 3 < 146097 * CenturyOf(a) + 146097
           /\ \A b \in Nat : 146097 * b <= 4 * a + 3 /\ 4 * a + 3 < 146097 * b + 146097 => CenturyOf(a) = b
BY SMT DEF CenturyOf

(* So is its year in the century. *)
LEMMA YearBounds ==
    ASSUME NEW c \in Nat
    PROVE  /\ YearOf(c) \in Nat
           /\ 1461 * YearOf(c) <= 4 * c + 3 /\ 4 * c + 3 < 1461 * YearOf(c) + 1461
           /\ \A d \in Nat : 1461 * d <= 4 * c + 3 /\ 4 * c + 3 < 1461 * d + 1461 => YearOf(c) = d
BY SMT DEF YearOf

(* Twelve months. *)
LEMMA MonthBounds ==
    ASSUME NEW e \in 0 .. 365
    PROVE  MonthOf(e) \in 0 .. 11
BY SMT DEF MonthOf

(* How many days the months have, from March on. *)
Span(y, m) == IF m = 11 THEN (IF Leap(y + 1) THEN 29 ELSE 28) ELSE MonthStart(m + 1) - MonthStart(m)

(* The month of a day of the year. *)
DayOK(y, m, k, e) ==
    /\ MonthStart(m) \in 0 .. 337 /\ e = MonthStart(m) + k /\ e \in 0 .. 365
    /\ MonthOf(e) = m /\ (e = 365 => Leap(y + 1))

(* A day of a month lies in the year, and its month is found again. *)
LEMMA DayInMonth ==
    ASSUME NEW y \in Nat, NEW m \in 0 .. 11, NEW k \in Nat, k < Span(y, m)
    PROVE  DayOK(y, m, k, MonthStart(m) + k)
<1>1. m \in {0, 1, 2, 3, 4, 5, 6, 7, 8, 9, 10, 11}
  BY SMT
<1>2. ASSUME NEW n \in 0 .. 10, m = n PROVE k < MonthStart(n + 1) - MonthStart(n)
  BY <1>2, SMT DEF Span
<1>3. CASE m = 11
  BY <1>3, MonthStarts, SMT DEF Span, MonthOf, DayOK
<1>4. CASE m \in {0, 1, 2, 3, 4, 5}
  BY <1>2, <1>4, MonthStarts, SMT DEF MonthOf, DayOK
<1>5. CASE m \in {6, 7, 8, 9, 10}
  BY <1>2, <1>5, MonthStarts, SMT DEF MonthOf, DayOK
<1> QED
  BY <1>1, <1>3, <1>4, <1>5, Zenon

(* The year, the month and the day of a day. *)
DateFor(y, m, day) == [day |-> day, month |-> m + 3 - 12 * (m \div 10), year |-> y - 4800 + (m \div 10)]

(* getYearMonthDay gives back the date whose number it is given. *)
LEMMA DateOfDay ==
    ASSUME NEW y \in Nat, NEW m \in 0 .. 11, NEW k \in Nat, k < Span(y, m)
    PROVE  getYearMonthDay(DayNo(y, m, k + 1)) = DateFor(y, m, k + 1)
<1>1. PICK b \in Nat, d \in 0 .. 99 : y = 100 * b + d
  <2>1. y \div 100 \in Nat /\ y % 100 \in 0 .. 99 /\ y = 100 * (y \div 100) + (y % 100)
    BY SMT
  <2> QED
    BY <2>1, Zenon
<1>2. MarchYear(y) = CenturyStart(b) + YearStart(d)
  BY <1>1, Centuries, Zenon
<1>3. PICK e : DayOK(y, m, k, e)
  BY DayInMonth, Zenon
<1>4. /\ e \in 0 .. 365 /\ e = MonthStart(m) + k /\ MonthOf(e) = m /\ MonthStart(m) \in 0 .. 337
      /\ e = 365 => d % 4 = 3 /\ (d = 99 => b % 4 = 3)
  <2>1. Leap(y + 1) => d % 4 = 3 /\ (d = 99 => b % 4 = 3)
    BY <1>1, LeapSplits, SMT
  <2> QED
    BY <1>3, <2>1, SMT DEF DayOK
<1>5. d \in Nat
  BY SMT
<1>6. /\ YearStart(d) \in Nat
      /\ 4 * YearStart(d) <= 1461 * d /\ 1461 * d <= 4 * YearStart(d) + 3
      /\ d % 4 = 3 => 4 * YearStart(d) + 3 = 1461 * d
  <2>1. YearOK(d)
    BY <1>5, YearStarts, Zenon
  <2> QED
    BY <2>1, SMT DEF YearOK
<1>7. PICK c \in Nat : c = YearStart(d) + e
  BY <1>4, <1>6, SMT
<1>8. 1461 * d <= 4 * c + 3 /\ 4 * c + 3 < 1461 * d + 1461
  BY <1>4, <1>6, <1>7, SMT
<1>9. YearOf(c) = d
  BY <1>5, <1>8, YearBounds, SMT
<1>10. InYear(c) = e
  BY <1>4, <1>6, <1>7, <1>9, SMT DEF InYear
<1>11. /\ CenturyStart(b) \in Nat
       /\ 4 * CenturyStart(b) <= 146097 * b /\ 146097 * b <= 4 * CenturyStart(b) + 3
       /\ b % 4 = 3 => 4 * CenturyStart(b) + 3 = 146097 * b
  <2>1. CenturyOK(b)
    BY CenturyStarts, Zenon
  <2> QED
    BY <2>1, SMT DEF CenturyOK
<1>12. c <= 36523 \/ (c = 36524 /\ b % 4 = 3)
  BY <1>4, <1>6, <1>7, SMT
<1>13. PICK a \in Nat : a = CenturyStart(b) + c
  BY <1>11, SMT
<1>14. 146097 * b <= 4 * a + 3 /\ 4 * a + 3 < 146097 * b + 146097
  BY <1>11, <1>12, <1>13, SMT
<1>15. CenturyOf(a) = b
  BY <1>14, CenturyBounds, SMT
<1>16. InCentury(a) = c
  BY <1>11, <1>13, <1>15, SMT DEF InCentury
<1>17. getYearMonthDay(a - 32044) = DateOf(b, d, e, m)
  <2>1. a \in Int
    BY SMT
  <2>2. getYearMonthDay(a - 32044)
          = DateOf(CenturyOf(a), YearOf(InCentury(a)), InYear(InCentury(a)), MonthOf(InYear(InCentury(a))))
    BY <2>1, DateByParts, SMT
  <2> QED
    BY <1>4, <1>9, <1>10, <1>15, <1>16, <2>2, SMT
<1>18. a - 32044 = DayNo(y, m, k + 1)
  <2>1. PICK s \in Nat, t \in Nat, u \in Nat : s = CenturyStart(b) /\ t = YearStart(d) /\ u = MonthStart(m)
    BY <1>4, <1>6, <1>11, SMT
  <2>2. MarchYear(y) = s + t /\ e = u + k /\ c = t + e /\ a = s + c
    BY <1>2, <1>4, <1>7, <1>13, <2>1, SMT
  <2>3. a = s + t + u + k
    BY <2>2, SMT
  <2> QED
    BY <2>1, <2>2, <2>3, SMT DEF DayNo
<1>19. e - MonthStart(m) + 1 = k + 1 /\ b * 100 + d = y
  BY <1>1, <1>4, SMT
<1> QED
  BY <1>17, <1>18, <1>19, SMT DEF DateOf, DateFor

(* What getYearMonthDay makes of any day is the date of that day. *)
LEMMA DayOfDate ==
    ASSUME NEW a \in Nat
    PROVE  /\ getYearMonthDay(a - 32044) \in [day : Int, month : Int, year : Int]
           /\ getJulianDayNumber(getYearMonthDay(a - 32044).year, getYearMonthDay(a - 32044).month,
                                 getYearMonthDay(a - 32044).day) = a - 32044
<1>1. PICK b \in Nat : b = CenturyOf(a)
  BY CenturyBounds, SMT
<1>0. 146097 * b <= 4 * a + 3 /\ 4 * a + 3 < 146097 * b + 146097
  BY <1>1, CenturyBounds, SMT
<1>2. /\ CenturyStart(b) \in Nat
      /\ 4 * CenturyStart(b) <= 146097 * b /\ 146097 * b <= 4 * CenturyStart(b) + 3
  <2>1. CenturyOK(b)
    BY CenturyStarts, Zenon
  <2> QED
    BY <2>1, SMT DEF CenturyOK
<1>3. PICK s \in Nat : s = CenturyStart(b) /\ 4 * s <= 146097 * b /\ 146097 * b <= 4 * s + 3
  BY <1>2, SMT
<1>4. PICK c \in Nat : c = InCentury(a) /\ c = a - CenturyStart(b) /\ c <= 36524
  <2>1. a - s \in Nat /\ a - s <= 36524
    BY <1>0, <1>3, SMT
  <2> QED
    BY <1>1, <1>3, <2>1, SMT DEF InCentury
<1>5. PICK d \in Nat : d = YearOf(c)
  BY YearBounds, SMT
<1>00. 1461 * d <= 4 * c + 3 /\ 4 * c + 3 < 1461 * d + 1461
  BY <1>5, YearBounds, SMT
<1>6. d \in 0 .. 99
  BY <1>4, <1>00, SMT
<1>7. YearStart(d) \in Nat /\ 4 * YearStart(d) <= 1461 * d /\ 1461 * d <= 4 * YearStart(d) + 3
  <2>1. YearOK(d)
    BY YearStarts, Zenon
  <2> QED
    BY <2>1, SMT DEF YearOK
<1>8. c - YearStart(d) \in 0 .. 365
  BY <1>00, <1>7, SMT
<1>9. PICK e \in 0 .. 365 : e = InYear(c) /\ e = c - YearStart(d)
  BY <1>5, <1>8, SMT DEF InYear
<1>10. PICK m \in 0 .. 11 : m = MonthOf(e)
  BY MonthBounds, SMT
<1>11. MonthStart(m) \in Int /\ m \div 10 \in Int
  BY SMT DEF MonthStart
<1>12. PICK y \in Nat : y = 100 * b + d
  BY SMT
<1>13. PICK day \in Int : day = e - MonthStart(m) + 1
  BY <1>11, SMT
<1>14. getYearMonthDay(a - 32044) = [day |-> day, month |-> m + 3 - 12 * (m \div 10), year |-> y - 4800 + (m \div 10)]
  <2>1. getYearMonthDay(a - 32044) = DateOf(b, d, e, m)
    <3>1. a \in Int
      BY SMT
    <3>2. getYearMonthDay(a - 32044)
            = DateOf(CenturyOf(a), YearOf(InCentury(a)), InYear(InCentury(a)), MonthOf(InYear(InCentury(a))))
      BY <3>1, DateByParts, SMT
    <3> QED
      BY <1>1, <1>4, <1>5, <1>9, <1>10, <3>2, SMT
  <2>2. b * 100 + d = y
    BY <1>12, SMT
  <2> QED
    BY <1>13, <2>1, <2>2, SMT DEF DateOf
<1>15. getJulianDayNumber(y - 4800 + (m \div 10), m + 3 - 12 * (m \div 10), day)
        = day + MonthStart(m) + MarchYear(y) - 32045
  <2>1. y \in Int
    BY SMT
  <2>2. DateNo(y, m, day) = DayNo(y, m, day)
    BY <2>1, DayNumber, Zenon
  <2> QED
    BY <2>2, SMT DEF DateNo, DayNo
<1>16. MarchYear(y) = CenturyStart(b) + YearStart(d)
  BY <1>6, <1>12, Centuries, Zenon
<1>17. day + MonthStart(m) + MarchYear(y) - 32045 = a - 32044
  BY <1>2, <1>4, <1>7, <1>9, <1>11, <1>13, <1>16, SMT
<1> QED
  BY <1>11, <1>14, <1>15, <1>17, SMT

(* The calendar repeats every 400 years, of which 4800 is a multiple. *)
LEMMA LeapPeriod ==
    ASSUME NEW yr \in Int
    PROVE  Leap(yr + 4800) <=> Leap(yr)
<1>1. (yr + 4800) % 4 = yr % 4 /\ (yr + 4800) % 100 = yr % 100 /\ (yr + 4800) % 400 = yr % 400
  BY SMT
<1> QED
  BY <1>1, SMT DEF Leap

(* The days before each month, by the recursion. *)
LeapDay(yr) == IF Leap(yr) THEN 1 ELSE 0
DaysStep(yr, f) == [k \in 0 .. 11 |-> IF k = 0 THEN 0 ELSE f[k - 1] + DaysIn(yr, k)]
MonthsBefore(yr) == [k \in 0 .. 11 |->
    CASE k = 0 -> 0 [] k = 1 -> 31 [] k = 2 -> 59 + LeapDay(yr) [] k = 3 -> 90 + LeapDay(yr)
      [] k = 4 -> 120 + LeapDay(yr) [] k = 5 -> 151 + LeapDay(yr) [] k = 6 -> 181 + LeapDay(yr)
      [] k = 7 -> 212 + LeapDay(yr) [] k = 8 -> 243 + LeapDay(yr) [] k = 9 -> 273 + LeapDay(yr)
      [] k = 10 -> 304 + LeapDay(yr) [] k = 11 -> 334 + LeapDay(yr)]

(* The table of days before each month obeys the recursion of DaysBefore. *)
LEMMA MonthsAdd ==
    ASSUME NEW yr
    PROVE  MonthsBefore(yr) = DaysStep(yr, MonthsBefore(yr))
<1>1. LeapDay(yr) \in Int /\ DaysIn(yr, 2) = 28 + LeapDay(yr)
  BY SMT DEF LeapDay, DaysIn
<1> HIDE DEF LeapDay
<1>2. ASSUME NEW k \in 1 .. 11
      PROVE  MonthsBefore(yr)[k] = MonthsBefore(yr)[k - 1] + DaysIn(yr, k)
  <2>1. k \in {1, 2, 3, 4, 5, 6, 7, 8, 9, 10, 11}
    BY SMT
  <2>2. k - 1 \in 0 .. 11
    BY SMT
  <2>3. CASE k = 2
    BY <1>1, <2>3, SMT DEF MonthsBefore
  <2>4. CASE k \in {1, 3, 4, 5, 6}
    BY <1>1, <2>4, SMT DEF MonthsBefore, DaysIn
  <2>5. CASE k \in {7, 8, 9, 10, 11}
    BY <1>1, <2>5, SMT DEF MonthsBefore, DaysIn
  <2> QED
    BY <2>1, <2>3, <2>4, <2>5, Zenon
<1>3. MonthsBefore(yr)[0] = 0
  BY SMT DEF MonthsBefore
<1>4. MonthsBefore(yr) = [k \in 0 .. 11 |-> MonthsBefore(yr)[k]]
  BY SMT DEF MonthsBefore
<1>5. \A k \in 0 .. 11 : MonthsBefore(yr)[k] = DaysStep(yr, MonthsBefore(yr))[k]
  <2>1. \A k \in 0 .. 11 : k = 0 \/ k \in 1 .. 11
    BY SMT
  <2> QED
    BY <1>2, <1>3, <2>1, Zenon DEF DaysStep
<1>6. DaysStep(yr, MonthsBefore(yr)) = [k \in 0 .. 11 |-> DaysStep(yr, MonthsBefore(yr))[k]]
  BY Zenon DEF DaysStep
<1> QED
  BY <1>4, <1>5, <1>6, SMT

(* So DaysBefore is that table. *)
LEMMA DaysBeforeIs ==
    ASSUME NEW yr, NEW month \in 1 .. 12
    PROVE  DaysBefore(yr, month) = MonthsBefore(yr)[month - 1]
<1> DEFINE f == CHOOSE g : g = DaysStep(yr, g)
<1>1. f = DaysStep(yr, f)
  BY MonthsAdd, Zenon
<1>2. DaysBefore(yr, month) = f[month - 1]
  BY Zenon DEF DaysBefore, DaysStep
<1> HIDE DEF f
<1>3. f[0] = 0 /\ \A k \in 1 .. 11 : f[k] = f[k - 1] + DaysIn(yr, k)
  BY <1>1, SMT DEF DaysStep
<1>4. MonthsBefore(yr)[0] = 0
      /\ \A k \in 1 .. 11 : MonthsBefore(yr)[k] = MonthsBefore(yr)[k - 1] + DaysIn(yr, k)
  BY MonthsAdd, SMT DEF DaysStep
<1> DEFINE T == {n \in Nat : n <= 11 => f[n] = MonthsBefore(yr)[n]}
<1>5. 0 \in T
  BY <1>3, <1>4, SMT
<1>6. ASSUME NEW n \in T PROVE n + 1 \in T
  <2>1. CASE n + 1 <= 11
    <3>1. n + 1 \in 1 .. 11 /\ (n + 1) - 1 = n /\ n <= 11
      BY <2>1, SMT
    <3> QED
      BY <1>3, <1>4, <3>1, SMT
  <2>2. CASE ~(n + 1 <= 11)
    BY <2>2, SMT
  <2> QED
    BY <2>1, <2>2, Zenon
<1>7. T = Nat
  <2> HIDE DEF T
  <2>1. T \in SUBSET Nat
    BY SMT DEF T
  <2> QED
    BY <1>5, <1>6, <2>1, SetInduction, Zenon
<1>8. month - 1 \in Nat /\ month - 1 <= 11
  BY SMT
<1> QED
  BY <1>2, <1>7, <1>8, SMT

-----------------------------------------------------------------------------
(* Every day of a year.                                                    *)

(* A month by the year that begins in March. *)
MarchBased(yr, month) == IF month > 2 THEN yr + 4800 ELSE yr + 4799
MonthNo(month) == IF month > 2 THEN month - 3 ELSE month + 9

Reckoned(yr) == yr \in Int /\ yr >= -4799

(* A date by the year and the month from March. *)
LEMMA FromMarch ==
    ASSUME NEW yr, Reckoned(yr), NEW month \in 1 .. 12, NEW day \in Int
    PROVE  /\ MarchBased(yr, month) \in Nat /\ MonthNo(month) \in 0 .. 11
           /\ DateFor(MarchBased(yr, month), MonthNo(month), day) = [day |-> day, month |-> month, year |-> yr]
           /\ getJulianDayNumber(yr, month, day) = DayNo(MarchBased(yr, month), MonthNo(month), day)
<1>1. PICK y \in Nat : y = MarchBased(yr, month)
  BY SMT DEF MarchBased, Reckoned
<1>2. PICK m \in 0 .. 11 : m = MonthNo(month)
  BY SMT DEF MonthNo
<1>3. y - 4800 + (m \div 10) = yr /\ m + 3 - 12 * (m \div 10) = month
  <2>1. month > 2 => m \div 10 = 0
    BY <1>2, SMT DEF MonthNo
  <2>2. ~(month > 2) => m \div 10 = 1
    BY <1>2, SMT DEF MonthNo
  <2> QED
    BY <1>1, <1>2, <2>1, <2>2, SMT DEF MarchBased, MonthNo, Reckoned
<1>4. DateNo(y, m, day) = DayNo(y, m, day)
  <2>1. y \in Int
    BY SMT
  <2> QED
    BY <2>1, DayNumber, Zenon
<1>5. getJulianDayNumber(yr, month, day) = DateNo(y, m, day)
  BY <1>3, SMT DEF DateNo
<1>6. DateFor(y, m, day) = [day |-> day, month |-> month, year |-> yr]
  BY <1>3, SMT DEF DateFor
<1> QED
  BY <1>1, <1>2, <1>4, <1>5, <1>6, Zenon

(* The first day of a year, and the days of its months. *)
FirstOf(yr) == getJulianDayNumber(yr, 1, 1)

(* The months of a year follow each other from its first day on. *)
LEMMA MonthDays ==
    ASSUME NEW yr, Reckoned(yr), NEW month \in 1 .. 12
    PROVE  /\ FirstOf(yr) \in Int /\ DaysBefore(yr, month) \in Int
           /\ DaysIn(yr, month) = Span(MarchBased(yr, month), MonthNo(month))
           /\ \A day \in Int : FirstOf(yr) + DaysBefore(yr, month) + day - 1
                                 = DayNo(MarchBased(yr, month), MonthNo(month), day)
<1>1. PICK z \in Nat : z = yr + 4799 /\ yr \in Int
  BY SMT DEF Reckoned
<1>2. PICK n \in Int : n = MarchYear(z)
  BY YearLength, SMT
<1>3. PICK l \in 0 .. 1 : l = LeapDay(yr) /\ (l = 1 <=> Leap(yr))
  BY SMT DEF LeapDay
<1>4. Leap(z + 1) <=> Leap(yr)
  <2>1. z + 1 = yr + 4800
    BY <1>1, SMT
  <2> QED
    BY <1>1, <2>1, LeapPeriod, SMT
<1>5. MarchYear(z + 1) = n + 365 + l
  <2>1. DaysOf(z + 1) = 365 + l
    BY <1>3, <1>4, SMT DEF DaysOf
  <2>2. MarchYear(z + 1) = MarchYear(z) + DaysOf(z + 1)
    BY YearLength, SMT
  <2> QED
    BY <1>2, <2>1, <2>2, SMT
<1>6. MarchBased(yr, 1) = z /\ MonthNo(1) = 10
  BY <1>1, SMT DEF MarchBased, MonthNo
<1>7. FirstOf(yr) = n + 307 - 32045
  <2>1. FirstOf(yr) = DayNo(z, 10, 1)
    BY <1>6, FromMarch, SMT DEF FirstOf
  <2> QED
    BY <1>2, <2>1, MonthStarts, SMT DEF DayNo
<1>8. DaysBefore(yr, month) = MonthsBefore(yr)[month - 1]
  BY DaysBeforeIs, Zenon
<1>9. month \in {1, 2, 3, 4, 5, 6, 7, 8, 9, 10, 11, 12}
  BY SMT
<1> DEFINE P(k) == /\ MonthsBefore(yr)[k - 1] \in Int
                   /\ DaysIn(yr, k) = Span(MarchBased(yr, k), MonthNo(k))
                   /\ n + 307 - 32045 + MonthsBefore(yr)[k - 1] - 1 + 1
                         = 1 + MonthStart(MonthNo(k)) + MarchYear(MarchBased(yr, k)) - 32045
<1>10. ASSUME NEW k \in 1 .. 2 PROVE P(k)
  <2>1. MarchBased(yr, k) = z /\ MonthNo(k) = k + 9
    BY <1>1, SMT DEF MarchBased, MonthNo
  <2>2. MonthsBefore(yr)[k - 1] = IF k = 1 THEN 0 ELSE 31
    BY SMT DEF MonthsBefore
  <2>3. k = 1 \/ k = 2
    BY SMT
  <2>4. DaysIn(yr, k) = Span(z, k + 9)
    BY <1>4, <2>3, MonthStarts, SMT DEF DaysIn, Span
  <2>5. MonthStart(k + 9) = IF k = 1 THEN 306 ELSE 337
    BY <2>3, MonthStarts, SMT
  <2> QED
    BY <1>2, <2>1, <2>2, <2>3, <2>4, <2>5, SMT
<1>11. ASSUME NEW k \in 3 .. 12 PROVE P(k)
  <2>1. MarchBased(yr, k) = z + 1 /\ MonthNo(k) = k - 3
    BY <1>1, SMT DEF MarchBased, MonthNo
  <2>2. k \in {3, 4, 5, 6, 7, 8, 9, 10, 11, 12}
    BY SMT
  <2>3. MonthsBefore(yr)[k - 1] = MonthStart(k - 3) + 59 + l /\ MonthStart(k - 3) \in Int
    <3>1. CASE k \in {3, 4, 5, 6, 7}
      BY <1>3, <3>1, MonthStarts, SMT DEF MonthsBefore
    <3>2. CASE k \in {8, 9, 10, 11, 12}
      BY <1>3, <3>2, MonthStarts, SMT DEF MonthsBefore
    <3> QED
      BY <2>2, <3>1, <3>2, SMT
  <2>4. DaysIn(yr, k) = Span(z + 1, k - 3)
    BY <2>2, MonthStarts, SMT DEF DaysIn, Span
  <2> QED
    BY <1>3, <1>5, <2>1, <2>3, <2>4, SMT
<1>12. P(month)
  <2> HIDE DEF P
  <2>1. month \in 1 .. 2 \/ month \in 3 .. 12
    BY SMT
  <2> QED
    BY <1>10, <1>11, <2>1, SMT
<1>13. MonthStart(MonthNo(month)) \in Int /\ MarchYear(MarchBased(yr, month)) \in Int
  <2>1. MarchBased(yr, month) \in Nat /\ MonthNo(month) \in 0 .. 11
    BY FromMarch, Zenon
  <2> QED
    BY <2>1, YearLength, SMT DEF MonthStart
<1> QED
  BY <1>7, <1>8, <1>12, <1>13, SMT DEF DayNo

(* The calendar is right in every year. *)
LEMMA YearIsRight ==
    ASSUME NEW yr, Reckoned(yr)
    PROVE  YearRight(yr, FirstOf(yr))
<1> SUFFICES ASSUME NEW month \in 1 .. 12, NEW day \in 1 .. DaysIn(yr, month)
             PROVE  DayRight(yr, month, day, FirstOf(yr) + DaysBefore(yr, month) + day - 1)
  BY Zenon DEF YearRight
<1>1. day \in Int
  BY SMT
<1>2. PICK y \in Nat, m \in 0 .. 11 : y = MarchBased(yr, month) /\ m = MonthNo(month)
  BY <1>1, FromMarch, Zenon
<1>3. /\ getJulianDayNumber(yr, month, day) = DayNo(y, m, day)
      /\ DateFor(y, m, day) = [day |-> day, month |-> month, year |-> yr]
  BY <1>1, <1>2, FromMarch, Zenon
<1>4. /\ FirstOf(yr) + DaysBefore(yr, month) + day - 1 = DayNo(y, m, day)
      /\ DaysIn(yr, month) = Span(y, m)
  BY <1>1, <1>2, MonthDays, Zenon
<1>5. PICK k \in Nat : k + 1 = day /\ k < Span(y, m)
  <2>1. DaysIn(yr, month) \in Nat
    BY SMT DEF DaysIn
  <2>2. day - 1 \in Nat /\ day - 1 < DaysIn(yr, month) /\ (day - 1) + 1 = day
    BY <2>1, SMT
  <2> QED
    BY <1>4, <2>2, Zenon
<1>6. getYearMonthDay(DayNo(y, m, day)) = DateFor(y, m, day)
  BY <1>5, DateOfDay, Zenon
<1>7. DayNo(y, m, day) \in Int
  <2>1. MonthStart(m) \in Int /\ MarchYear(y) \in Int
    BY YearLength, SMT DEF MonthStart
  <2> QED
    BY <1>1, <2>1, SMT DEF DayNo
<1>8. ASSUME NEW n \in Int PROVE weekDay(n) = (4 + n - Anchor) % 7
  BY SMT DEF weekDay, Anchor
<1> QED
  BY <1>3, <1>4, <1>6, <1>7, <1>8, Zenon DEF DayRight

(* The year after begins where this one ends. *)
LEMMA YearAfter ==
    ASSUME NEW yr, Reckoned(yr)
    PROVE  FirstOf(yr + 1) = FirstOf(yr) + DaysOf(yr) /\ FirstOf(yr) \in Int /\ DaysOf(yr) \in Int
<1> DEFINE Z(w) == FirstOf(w) = MarchYear(w + 4799) + 307 - 32045
<1>1. ASSUME NEW w, Reckoned(w) PROVE Z(w)
  <2>1. MarchBased(w, 1) = w + 4799 /\ MonthNo(1) = 10 /\ 1 \in 1 .. 12 /\ 1 \in Int
    BY <1>1, SMT DEF MarchBased, MonthNo, Reckoned
  <2>2. FirstOf(w) = DayNo(w + 4799, 10, 1)
    BY <1>1, <2>1, FromMarch, SMT DEF FirstOf
  <2>3. w + 4799 \in Nat
    BY <1>1, SMT DEF Reckoned
  <2> QED
    BY <2>2, <2>3, YearLength, MonthStarts, SMT DEF DayNo
<1>2. Reckoned(yr + 1)
  BY SMT DEF Reckoned
<1>3. PICK z \in Nat : z = yr + 4799 /\ yr \in Int
  BY SMT DEF Reckoned
<1>4. (yr + 1) + 4799 = z + 1
  BY <1>3, SMT
<1>5. FirstOf(yr) = MarchYear(z) + 307 - 32045 /\ FirstOf(yr + 1) = MarchYear(z + 1) + 307 - 32045
  BY <1>1, <1>2, <1>3, <1>4, SMT
<1>6. DaysOf(z + 1) = DaysOf(yr) /\ DaysOf(yr) \in Int
  <2>1. z + 1 = yr + 4800
    BY <1>3, SMT
  <2> QED
    BY <1>3, <2>1, LeapPeriod, SMT DEF DaysOf
<1>7. MarchYear(z + 1) = MarchYear(z) + DaysOf(z + 1) /\ MarchYear(z) \in Int
  BY YearLength, Zenon
<1> QED
  BY <1>5, <1>6, <1>7, SMT

(* The walk begins with 1 January 1970. *)
LEMMA Origin == FirstOf(1970) = Anchor /\ kJulianDayOf1970_01_01 = Anchor
BY SMT DEF FirstOf, getJulianDayNumber, Anchor, kJulianDayOf1970_01_01

-----------------------------------------------------------------------------
(* Seconds of a day. *)
SecondOf(d, s) == d * kSecondsPerDay + s
ADay == {s \in Nat : s < 86400}

(* toUtcTime takes a second apart into day and second of the day, before   *)
(* 1970 too.                                                               *)
LEMMA SplitIs ==
    ASSUME NEW d \in Int, NEW s \in ADay
    PROVE  Split(SecondOf(d, s)) = [seconds |-> s, days |-> d]
<1>1. kSecondsPerDay = 86400
  BY SMT DEF kSecondsPerDay
<1>2. s \in Int /\ 0 <= s /\ s < 86400
  BY SMT DEF ADay
<1>3. PICK t \in Int : t = 86400 * d + s /\ t = SecondOf(d, s)
  BY <1>1, <1>2, SMT DEF SecondOf
<1>4. CASE t >= 0
  <2>1. CDiv(t, 86400) = d
    BY <1>2, <1>3, <1>4, SMT DEF CDiv
  <2>2. CMod(t, 86400) = s
    BY <1>2, <1>3, <2>1, SMT DEF CMod
  <2> QED
    BY <1>1, <1>2, <1>3, <2>1, <2>2, SMT DEF Split
<1>5. CASE t < 0 /\ s = 0
  <2>1. -t = 86400 * (-d) /\ (-t) \div 86400 = -d
    BY <1>3, <1>5, SMT
  <2>2. CDiv(t, 86400) = d
    BY <1>3, <1>5, <2>1, SMT DEF CDiv
  <2>3. CMod(t, 86400) = 0
    BY <1>3, <1>5, <2>2, SMT DEF CMod
  <2> QED
    BY <1>1, <1>5, <1>3, <2>2, <2>3, SMT DEF Split
<1>6. CASE t < 0 /\ s # 0
  <2>1. -t = 86400 * (-d - 1) + (86400 - s) /\ (-t) \div 86400 = -d - 1
    BY <1>2, <1>3, <1>6, SMT
  <2>2. CDiv(t, 86400) = d + 1
    BY <1>3, <1>6, <2>1, SMT DEF CDiv
  <2>3. CMod(t, 86400) = s - 86400
    BY <1>2, <1>3, <1>6, <2>2, SMT DEF CMod
  <2> QED
    BY <1>1, <1>2, <1>3, <2>2, <2>3, SMT DEF Split
<1> QED
  BY <1>3, <1>4, <1>5, <1>6, SMT

(* What the clock shows at a second of the day. *)
Clocked(s, hour, min, sec) ==
    sec \in 0 .. 59 /\ min \in 0 .. 59 /\ hour \in Int /\ hour * 3600 + min * 60 + sec = s

(* fillHMS shows the second of the day. *)
LEMMA ClockIs ==
    ASSUME NEW s \in ADay
    PROVE  \E hour, min, sec : fillHMS(s) = [sec |-> sec, min |-> min, hour |-> hour] /\ (* What the clock shows at a second of the day. *)
Clocked(s, hour, min, sec)
<1>1. s \in Nat
  BY SMT DEF ADay
<1>2. PICK q \in Nat, sec \in 0 .. 59 : q = s \div 60 /\ sec = s % 60 /\ s = 60 * q + sec
  BY <1>1, SMT
<1>3. PICK hour \in Nat, min \in 0 .. 59 : hour = q \div 60 /\ min = q % 60 /\ q = 60 * hour + min
  BY SMT
<1>4. (* What the clock shows at a second of the day. *)
Clocked(s, hour, min, sec)
  BY <1>2, <1>3, SMT DEF Clocked
<1>5. fillHMS(s) = [sec |-> sec, min |-> min, hour |-> hour]
  BY <1>2, <1>3, SMT DEF fillHMS
<1> QED
  BY <1>4, <1>5, Zenon

(* A broken-down time for a day with a number the calendar can handle. *)
Numbered(d) == d \in Int /\ d + Anchor + 32044 >= 0

(* A day whose number getYearMonthDay takes to a date and                  *)
(* getJulianDayNumber back.                                                *)
DatedDay(n) ==
    /\ getYearMonthDay(n) \in [day : Int, month : Int, year : Int]
    /\ getJulianDayNumber(getYearMonthDay(n).year, getYearMonthDay(n).month, getYearMonthDay(n).day) = n

(* Every numbered day has a date, which converts back. *)
LEMMA NumberedIsDated ==
    ASSUME NEW d, Numbered(d)
    PROVE  DatedDay(d + Anchor) /\ d \in Int
<1>1. d + Anchor + 32044 \in Nat /\ (d + Anchor + 32044) - 32044 = d + Anchor /\ d \in Int
  BY SMT DEF Numbered, Anchor
<1>2. PICK a \in Nat : a - 32044 = d + Anchor
  BY <1>1, SMT
<1>3. DatedDay(a - 32044)
  BY DayOfDate, SMT DEF DatedDay
<1> QED
  BY <1>1, <1>2, <1>3, SMT

(* The broken-down time by the date and the clock. *)
Broken(r, h, n) ==
    [year |-> r.year - 1900, mon |-> r.month - 1, mday |-> r.day,
     hour |-> h.hour, min |-> h.min, sec |-> h.sec,
     wday |-> weekDay(n), yday |-> n - FirstOf(r.year)]

(* toUtcTime gives the date of the day and the clock of the second. *)
LEMMA UtcIs ==
    ASSUME NEW d \in Int, NEW s \in ADay
    PROVE  toUtcTime(SecondOf(d, s)) = Broken(getYearMonthDay(d + Anchor), fillHMS(s), d + Anchor)
<1>1. Split(SecondOf(d, s)).seconds = s /\ Split(SecondOf(d, s)).days = d
  <2>1. Split(SecondOf(d, s)) = [seconds |-> s, days |-> d]
    BY SplitIs, Zenon
  <2> QED
    BY <2>1, SMT
<1> QED
  BY <1>1, Origin, SMT DEF toUtcTime, Broken, FirstOf

(* fromUtcTime undoes toUtcTime on the seconds of numbered days. *)
LEMMA UtcBack ==
    ASSUME NEW d, Numbered(d), NEW s \in ADay
    PROVE  fromUtcTime(toUtcTime(SecondOf(d, s))) = SecondOf(d, s)
<1>1. DatedDay(d + Anchor) /\ d \in Int
  BY NumberedIsDated, Zenon
<1>3. PICK r \in [day : Int, month : Int, year : Int] :
        r = getYearMonthDay(d + Anchor) /\ getJulianDayNumber(r.year, r.month, r.day) = d + Anchor
  BY <1>1, Zenon DEF DatedDay
<1>4. PICK hour, min, sec : fillHMS(s) = [sec |-> sec, min |-> min, hour |-> hour] /\ (* What the clock shows at a second of the day. *)
Clocked(s, hour, min, sec)
  BY ClockIs, Zenon
<1>5. PICK tm : /\ tm = toUtcTime(SecondOf(d, s))
                /\ tm.year = r.year - 1900 /\ tm.mon = r.month - 1 /\ tm.mday = r.day
                /\ tm.hour = hour /\ tm.min = min /\ tm.sec = sec
  <2>1. toUtcTime(SecondOf(d, s)) = Broken(r, [sec |-> sec, min |-> min, hour |-> hour], d + Anchor)
    BY <1>1, <1>3, <1>4, UtcIs, Zenon
  <2> QED
    BY <2>1, SMT DEF Broken
<1>6. (r.year - 1900) + 1900 = r.year /\ (r.month - 1) + 1 = r.month
  BY SMT
<1>7. PICK j \in Int : j = d + Anchor /\ j - Anchor = d /\ j = getJulianDayNumber(r.year, r.month, r.day)
  BY <1>1, <1>3, SMT DEF Anchor
<1>8. fromUtcTime(tm) = d * kSecondsPerDay + hour * 3600 + min * 60 + sec
  BY <1>5, <1>6, <1>7, Origin, SMT DEF fromUtcTime
<1>9. PICK c \in Int : c = d * kSecondsPerDay
  BY <1>1, SMT DEF kSecondsPerDay
<1>10. c + hour * 3600 + min * 60 + sec = c + s
  <2>1. hour \in Int /\ min \in Int /\ sec \in Int /\ s \in Int /\ hour * 3600 + min * 60 + sec = s
    BY <1>4, SMT DEF Clocked, ADay
  <2> QED
    BY <2>1, SMT
<1> QED
  BY <1>5, <1>8, <1>9, <1>10, SMT DEF SecondOf

(* Every second that TLC can count, and some before it, is the second of a *)
(* day that has a number.                                                  *)
Countable(t) == t \in Int /\ t >= -2100000000

(* So it does for every countable second. *)
LEMMA UtcRoundTrip ==
    ASSUME NEW t, Countable(t)
    PROVE  fromUtcTime(toUtcTime(t)) = t
<1>1. PICK d \in Int, s \in ADay : t = SecondOf(d, s) /\ Numbered(d)
  <2>0. t \in Int
    BY SMT DEF Countable
  <2>1. PICK d \in Int : 86400 * d <= t /\ t < 86400 * d + 86400
    <3>1. t \div 86400 \in Int /\ 86400 * (t \div 86400) <= t /\ t < 86400 * (t \div 86400) + 86400
      BY <2>0, SMT
    <3> QED
      BY <3>1, SMT
  <2>2. PICK s \in ADay : t = d * 86400 + s
    <3>1. PICK s \in Int : s = t - 86400 * d
      BY <2>0, SMT
    <3>2. s \in ADay /\ t = d * 86400 + s
      BY <2>0, <2>1, <3>1, SMT DEF ADay
    <3> QED
      BY <3>2, SMT
  <2>3. Numbered(d)
    BY <2>2, SMT DEF Countable, ADay, Numbered, Anchor
  <2>4. t = SecondOf(d, s)
    BY <2>2, SMT DEF SecondOf, kSecondsPerDay
  <2> QED
    BY <2>3, <2>4, Zenon
<1> QED
  BY <1>1, UtcBack, Zenon

(* The first and the last day of a year. *)
LEMMA YearEnds ==
    ASSUME NEW yr, Reckoned(yr)
    PROVE  /\ getYearMonthDay(FirstOf(yr)) = [day |-> 1, month |-> 1, year |-> yr]
           /\ getYearMonthDay(FirstOf(yr) + DaysOf(yr) - 1) = [day |-> 31, month |-> 12, year |-> yr]
<1>1. YearRight(yr, FirstOf(yr)) /\ FirstOf(yr) \in Int
  BY YearIsRight, YearAfter, Zenon
<1>2. DaysBefore(yr, 1) = 0 /\ DaysBefore(yr, 12) = DaysOf(yr) - 31 /\ DaysOf(yr) \in Int
  <2>1. 1 \in 1 .. 12 /\ 12 \in 1 .. 12
    BY SMT
  <2>2. DaysBefore(yr, 1) = MonthsBefore(yr)[1 - 1] /\ DaysBefore(yr, 12) = MonthsBefore(yr)[12 - 1]
    BY <2>1, DaysBeforeIs, Zenon
  <2> QED
    BY <2>2, SMT DEF MonthsBefore, LeapDay, DaysOf
<1>3. 1 \in 1 .. DaysIn(yr, 1) /\ 31 \in 1 .. DaysIn(yr, 12) /\ 1 \in 1 .. 12 /\ 12 \in 1 .. 12
  BY SMT DEF DaysIn
<1>4. /\ DayRight(yr, 1, 1, FirstOf(yr) + DaysBefore(yr, 1) + 1 - 1)
      /\ DayRight(yr, 12, 31, FirstOf(yr) + DaysBefore(yr, 12) + 31 - 1)
  BY <1>1, <1>3, Zenon DEF YearRight
<1>5. /\ FirstOf(yr) + DaysBefore(yr, 1) + 1 - 1 = FirstOf(yr)
      /\ FirstOf(yr) + DaysBefore(yr, 12) + 31 - 1 = FirstOf(yr) + DaysOf(yr) - 1
  BY <1>1, <1>2, SMT
<1> QED
  BY <1>4, <1>5, SMT DEF DayRight

(* The days of the years the calendar reckons with are numbered. *)
LEMMA FirstNumbered ==
    ASSUME NEW yr, Reckoned(yr), NEW n \in Nat
    PROVE  Numbered(FirstOf(yr) + n - Anchor) /\ (FirstOf(yr) + n - Anchor) + Anchor = FirstOf(yr) + n
<1>1. PICK z \in Nat : z = yr + 4799 /\ yr \in Int
  BY SMT DEF Reckoned
<1>2. MarchYear(z) \in Nat
  <2>1. z \div 4 \in Nat /\ z \div 100 \in Nat /\ z \div 400 \in Nat /\ z \div 100 <= z
    BY SMT
  <2> QED
    BY <2>1, SMT DEF MarchYear
<1>3. FirstOf(yr) = MarchYear(z) + 307 - 32045
  <2>1. MarchBased(yr, 1) = z /\ MonthNo(1) = 10 /\ 1 \in 1 .. 12 /\ 1 \in Int
    BY <1>1, SMT DEF MarchBased, MonthNo
  <2>2. FirstOf(yr) = DayNo(z, 10, 1)
    BY <2>1, FromMarch, SMT DEF FirstOf
  <2> QED
    BY <1>2, <2>2, MonthStarts, SMT DEF DayNo
<1> QED
  BY <1>2, <1>3, SMT DEF Numbered, Anchor

(* What SecondsRight says of one second. *)
SecondRight(yr, d, t, s) ==
    LET tm == toUtcTime(t)
    IN  /\ <<tm.year, tm.yday, tm.mon, tm.mday>>
               = IF d = 1 THEN <<yr - 1900, 0, 0, 1>> ELSE <<yr - 1900, d - 1, 11, 31>>
        /\ tm.hour * 3600 + tm.min * 60 + tm.sec = s /\ tm.min < 60 /\ tm.sec < 60
        /\ fromUtcTime(tm) = t

(* The seconds of the first and the last day of any year. *)
LEMMA SecondsAreRight ==
    ASSUME NEW yr, Reckoned(yr), NEW seconds \in SUBSET ADay
    PROVE  SecondsRight(yr, FirstOf(yr), seconds)
<1>1. FirstOf(yr) \in Int /\ DaysOf(yr) \in {365, 366}
  BY YearAfter, SMT DEF DaysOf
<1>2. ASSUME NEW d \in {1, DaysOf(yr)}, NEW s \in seconds
      PROVE  SecondRight(yr, d, SecondOf(FirstOf(yr) + d - 1 - Anchor, s), s)
  <2>1. PICK n \in Nat : d = n + 1 /\ (n = 0 \/ n = DaysOf(yr) - 1)
    BY <1>1, SMT
  <2>2. PICK k \in Int : /\ Numbered(k) /\ k + Anchor = FirstOf(yr) + n
                         /\ k = FirstOf(yr) + d - 1 - Anchor
    <3>1. FirstOf(yr) + n - Anchor = FirstOf(yr) + d - 1 - Anchor
      BY <1>1, <2>1, SMT DEF Anchor
    <3> QED
      BY <3>1, FirstNumbered, NumberedIsDated, Zenon
  <2>3. PICK day, month : /\ getYearMonthDay(k + Anchor) = [day |-> day, month |-> month, year |-> yr]
                          /\ IF d = 1 THEN day = 1 /\ month = 1 ELSE day = 31 /\ month = 12
    <3>1. CASE d = 1
      <4>1. k + Anchor = FirstOf(yr)
        BY <1>1, <2>1, <2>2, <3>1, SMT
      <4> QED
        BY <3>1, <4>1, YearEnds, Zenon
    <3>2. CASE d # 1
      <4>1. k + Anchor = FirstOf(yr) + DaysOf(yr) - 1
        BY <1>1, <2>1, <2>2, <3>2, SMT
      <4> QED
        BY <3>2, <4>1, YearEnds, SMT
    <3> QED
      BY <3>1, <3>2, Zenon
  <2>4. s \in ADay
    BY Zenon
  <2>5. PICK hour, min, sec : fillHMS(s) = [sec |-> sec, min |-> min, hour |-> hour] /\ (* What the clock shows at a second of the day. *)
Clocked(s, hour, min, sec)
    BY <2>4, ClockIs, Zenon
  <2>6. PICK tm : tm = toUtcTime(SecondOf(k, s))
    OBVIOUS
  <2>7. tm = Broken([day |-> day, month |-> month, year |-> yr],
                    [sec |-> sec, min |-> min, hour |-> hour], k + Anchor)
    BY <2>3, <2>4, <2>5, <2>6, UtcIs, Zenon
  <2>8. /\ tm.year = yr - 1900 /\ tm.yday = n /\ tm.mon = month - 1 /\ tm.mday = day
        /\ tm.hour = hour /\ tm.min = min /\ tm.sec = sec
    BY <1>1, <2>2, <2>7, SMT DEF Broken
  <2>9. fromUtcTime(tm) = SecondOf(k, s)
    BY <2>2, <2>4, <2>6, UtcBack, Zenon
  <2>10. hour * 3600 + min * 60 + sec = s /\ min < 60 /\ sec < 60
    BY <2>5, SMT DEF Clocked
  <2>11. <<tm.year, tm.yday, tm.mon, tm.mday>>
            = IF d = 1 THEN <<yr - 1900, 0, 0, 1>> ELSE <<yr - 1900, d - 1, 11, 31>>
    BY <2>1, <2>3, <2>8, SMT
  <2> QED
    BY <2>2, <2>6, <2>8, <2>9, <2>10, <2>11, SMT DEF SecondRight
<1> QED
  BY <1>2, SMT DEF SecondsRight, SecondRight, SecondOf

(* A set of numbers up to n has a last element, and Max and Min find the   *)
(* last and the first.                                                     *)
LEMMA LastOf ==
    ASSUME NEW n \in Nat, NEW S \in SUBSET (1 .. n), S # {}
    PROVE  Max(S) \in S /\ \A y \in S : Max(S) >= y
<1> DEFINE T == {n - k : k \in S}
<1>0. \A k \in S : k \in Int /\ n - k \in Nat
  BY SMT
<1>1. T \in SUBSET Nat /\ T # {}
  BY <1>0, Zenon
<1>2. PICK m \in T : \A k \in T : m <= k
  BY <1>1, LeastNatural, Zenon
<1>3. PICK x \in S : m = n - x
  BY <1>2
<1>4. ASSUME NEW y \in S PROVE x >= y
  <2>1. n - y \in T
    BY Zenon
  <2>2. n - x <= n - y
    BY <1>2, <1>3, <2>1, Zenon
  <2> QED
    BY <1>0, <2>2, SMT
<1> QED
  BY <1>4, Zenon DEF Max

(* Min finds the first. *)
LEMMA FirstOfSet ==
    ASSUME NEW S \in SUBSET Nat, S # {}
    PROVE  Min(S) \in S /\ \A y \in S : Min(S) =< y
BY LeastNatural, Zenon DEF Min

-----------------------------------------------------------------------------
(* findLocaltime: the last transition up to the sentry. *)

(* Data as readTimeZoneFile leaves it: the position of a sentry among the  *)
(* transitions, and the type there.                                        *)
Transitions == Seq([gmttime : Int, localtime : Int, localtimeIdx : Nat])
Position(trs, compareGmt, sentry, j) ==
    /\ j \in 0 .. Len(trs)
    /\ \A i \in 1 .. Len(trs) : i <= j <=> Key(compareGmt, trs[i]) <= sentry
Ordered(trs, compareGmt) ==
    \A i, j \in 1 .. Len(trs) : i < j => Key(compareGmt, trs[i]) < Key(compareGmt, trs[j])
Picked(data, j) ==
    IF j = 0 THEN FirstType(data.localtimes) ELSE data.localtimes[data.transitions[j].localtimeIdx]

(* Transitions are compared by numbers. *)
LEMMA KeysAreNumbers ==
    ASSUME NEW trs \in Transitions, NEW compareGmt \in BOOLEAN, NEW i \in 1 .. Len(trs)
    PROVE  Key(compareGmt, trs[i]) \in Int
<1>1. trs[i] \in [gmttime : Int, localtime : Int, localtimeIdx : Nat]
  BY ElementOfSeq, Zenon DEF Transitions
<1> QED
  BY <1>1, Zenon DEF Key

(* findLocaltime picks the type of the transition at the position of the   *)
(* sentry.                                                                 *)
LEMMA FoundIs ==
    ASSUME NEW data, data.transitions \in Transitions, NEW compareGmt \in BOOLEAN, NEW sentry \in Int,
           Ordered(data.transitions, compareGmt), NEW j, Position(data.transitions, compareGmt, sentry, j)
    PROVE  findLocaltime(data, sentry, compareGmt) = Picked(data, j)
<1>1. PICK trs : trs = data.transitions
  OBVIOUS
<1>2. PICK n \in Nat : n = Len(trs) /\ (n = 0 <=> trs = <<>>) /\ j \in 0 .. n
  <2>1. PICK R : trs \in Seq(R)
    BY <1>1, Zenon DEF Transitions
  <2>2. Len(trs) \in Nat /\ (Len(trs) = 0 <=> trs = <<>>)
    BY <2>1, SMT
  <2> QED
    BY <1>1, <2>2, Zenon DEF Position
<1> DEFINE K(i) == Key(compareGmt, trs[i])
           S == {i \in 1 .. Len(trs) : Key(compareGmt, trs[i]) >= sentry}
           f == IF S # {} THEN Min(S) ELSE 0
           g == CASE f = 0 -> Len(trs) [] f # 0 /\ K(f) = sentry -> f [] OTHER -> f - 1
<1>3. findLocaltime(data, sentry, compareGmt)
        = IF trs = <<>> \/ sentry < K(1) THEN FirstType(data.localtimes) ELSE data.localtimes[trs[g].localtimeIdx]
  BY <1>1, Zenon DEF findLocaltime, SelectInSeq
<1>4. \A i \in 1 .. n : K(i) \in Int /\ (i <= j <=> K(i) <= sentry)
  BY <1>1, <1>2, KeysAreNumbers, Zenon DEF Position
<1>5. \A i, k \in 1 .. n : i < k => K(i) < K(k)
  BY <1>1, <1>2, Zenon DEF Ordered
<1>6. S = {i \in 1 .. n : K(i) >= sentry}
  BY <1>2, Zenon
<1>7. CASE j = 0
  <2>1. n # 0 => sentry < K(1)
    BY <1>2, <1>4, <1>7, SMT
  <2> QED
    BY <1>2, <1>3, <1>7, <2>1, Zenon DEF Picked
<1>8. CASE j # 0
  <2>1. n # 0 /\ 1 \in 1 .. n /\ j \in 1 .. n /\ ~(sentry < K(1))
    BY <1>2, <1>4, <1>8, SMT
  <2>2. g = j
    <3> HIDE DEF K
    <3>1. CASE S = {}
      <4>1. f = 0
        BY <3>1, Zenon
      <4>2. j = n
        <5>1. j < n => j + 1 \in 1 .. n
          BY <1>2, SMT
        <5>2. j + 1 \in 1 .. n => K(j + 1) >= sentry
          BY <1>2, <1>4, SMT
        <5> QED
          BY <1>2, <1>6, <3>1, <5>1, <5>2, SMT
      <4> QED
        BY <1>2, <4>1, <4>2, SMT
    <3>2. CASE S # {}
      <4>1. S \in SUBSET Nat
        BY <1>6, SMT
      <4>2. PICK i \in S : f = i /\ \A k \in S : i =< k
        BY <3>2, <4>1, FirstOfSet, Zenon
      <4>3. i \in 1 .. n /\ K(i) >= sentry /\ K(i) \in Int /\ i # 0
        BY <1>4, <1>6, <4>2, SMT
      <4>4. g = IF K(i) = sentry THEN i ELSE i - 1
        BY <4>2, <4>3, SMT
      <4>5. ASSUME K(i) = sentry PROVE i = j
        <5>1. i <= j /\ K(j) <= sentry
          BY <1>4, <2>1, <4>3, <4>5, SMT
        <5>2. i < j => K(i) < K(j)
          BY <1>5, <2>1, <4>3, SMT
        <5> QED
          BY <1>2, <1>4, <2>1, <4>3, <4>5, <5>1, <5>2, SMT
      <4>6. ASSUME K(i) # sentry PROVE i - 1 = j
        <5>1. i > j
          BY <1>2, <1>4, <4>3, <4>6, SMT
        <5>2. ASSUME j + 1 < i PROVE FALSE
          <6>1. j + 1 \in 1 .. n /\ ~(j + 1 <= j)
            BY <1>2, <4>3, <5>2, SMT
          <6>2. K(j + 1) >= sentry
            BY <1>4, <6>1, SMT
          <6>3. j + 1 \in S
            BY <1>6, <6>1, <6>2, Zenon
          <6> QED
            BY <1>2, <4>2, <4>3, <5>2, <6>3, SMT
        <5> QED
          BY <1>2, <4>3, <5>1, <5>2, SMT
      <4> HIDE DEF g
      <4> QED
        BY <4>4, <4>5, <4>6, Zenon
    <3> QED
      BY <3>1, <3>2, Zenon
  <2> HIDE DEF g
  <2> QED
    BY <1>1, <1>2, <1>3, <1>8, <2>1, <2>2, Zenon DEF Picked
<1> QED
  BY <1>7, <1>8, Zenon

(* There is such a position if the keys are in order. *)
LEMMA PositionExists ==
    ASSUME NEW trs \in Transitions, NEW compareGmt \in BOOLEAN, NEW sentry \in Int, Ordered(trs, compareGmt)
    PROVE  \E j : Position(trs, compareGmt, sentry, j)
<1>1. PICK n \in Nat : n = Len(trs)
  BY SMT DEF Transitions
<1> DEFINE S == {i \in 1 .. n : Key(compareGmt, trs[i]) <= sentry}
<1>2. \A i \in 1 .. n : Key(compareGmt, trs[i]) \in Int
  BY <1>1, KeysAreNumbers, Zenon
<1>3. CASE S = {}
  <2>1. Position(trs, compareGmt, sentry, 0)
    BY <1>1, <1>2, <1>3, SMT DEF Position
  <2> QED
    BY <2>1, Zenon
<1>4. CASE S # {}
  <2>1. Max(S) \in S /\ \A y \in S : Max(S) >= y
    BY <1>4, LastOf, Zenon
  <2>2. PICK m \in 1 .. n : m \in S /\ \A y \in S : m >= y
    BY <2>1, Zenon
  <2>3. ASSUME NEW i \in 1 .. n PROVE i <= m <=> Key(compareGmt, trs[i]) <= sentry
    <3>1. i < m => Key(compareGmt, trs[i]) < Key(compareGmt, trs[m])
      BY <1>1, Zenon DEF Ordered
    <3>2. Key(compareGmt, trs[i]) \in Int /\ Key(compareGmt, trs[m]) \in Int /\ Key(compareGmt, trs[m]) <= sentry
      BY <1>2, <2>2, Zenon
    <3>3. Key(compareGmt, trs[i]) <= sentry => i <= m
      BY <2>2, SMT
    <3> QED
      BY <3>1, <3>2, <3>3, SMT
  <2>4. Position(trs, compareGmt, sentry, m)
    BY <1>1, <2>3, SMT DEF Position
  <2> QED
    BY <2>4, Zenon
<1> QED
  BY <1>3, <1>4, Zenon
-----------------------------------------------------------------------------
(* Zone files. *)

(* Transition i of a file, and the type from it on; 0 is before all. *)
At(f, i) == f.times[i].at
TypeOf(f, j) == f.types[IF j = 0 THEN 1 ELSE f.times[j].type]
Off(f, j) == TypeOf(f, j).gmtOffset
Types == [gmtOffset : Offsets, isDst : BOOLEAN]
Typed(f) == [i \in 1 .. Len(f.types) |-> Localtime(f.types[i])]

(* No more than a day back. *)
Bounded(o) == o \in Int /\ o >= -86400

(* An offset takes a time back by a day at most. *)
LEMMA OffsetsBounded ==
    ASSUME NEW o \in Offsets
    PROVE  Bounded(o) /\ o \in Int
<1>1. kSecondsPerDay = 86400
  BY SMT DEF kSecondsPerDay
<1> QED
  BY <1>1, SMT DEF Offsets, Bounded

(* Numbers, types of the file, and transitions far apart. *)
FileOK(f, n) ==
    /\ n \in Nat /\ n = Len(f.times)
    /\ \A i \in 1 .. n : At(f, i) \in Int
    /\ \A j \in 0 .. n : Off(f, j) \in Int /\ Bounded(Off(f, j)) /\ \E k \in 1 .. Len(f.types) : TypeOf(f, j) = f.types[k]
    /\ \A i, k \in 1 .. n, a, b \in 0 .. n : i < k => At(f, k) - At(f, i) > Off(f, a) - Off(f, b)

(* The types of a file. *)
LEMMA TypesAre ==
    ASSUME NEW f, WellFormed(f), NEW k \in 1 .. Len(f.types)
    PROVE  /\ f.types[k] \in Types /\ f.types[k].gmtOffset \in Int /\ Bounded(f.types[k].gmtOffset)
           /\ f.types[k].isDst \in BOOLEAN
<1>1. f.types[k] \in Types
  BY ElementOfSeq, Zenon DEF WellFormed, Types
<1>2. f.types[k].gmtOffset \in Offsets /\ f.types[k].isDst \in BOOLEAN
  BY <1>1, Zenon DEF Types
<1> QED
  BY <1>1, <1>2, OffsetsBounded, Zenon

(* What a well-formed file says of its transitions. *)
LEMMA FileFacts ==
    ASSUME NEW f, WellFormed(f)
    PROVE  FileOK(f, Len(f.times))
<1>1. PICK n \in Nat, m \in Nat \ {0} : n = Len(f.times) /\ m = Len(f.types)
  <2>1. Len(f.times) \in Nat /\ Len(f.types) \in Nat /\ Len(f.types) # 0
    BY SMT DEF WellFormed
  <2> QED
    BY <2>1, SMT
<1>2. \A i \in 1 .. n : f.times[i] \in [at : Int, type : 1 .. m]
  BY <1>1, ElementOfSeq, Zenon DEF WellFormed
<1>3. \A i \in 1 .. n : At(f, i) \in Int /\ f.times[i].type \in 1 .. m
  BY <1>2, Zenon DEF At
<1>4. \A j \in 0 .. n : \E k \in 1 .. m : TypeOf(f, j) = f.types[k]
  <2>1. \A j \in 0 .. n : j = 0 \/ j \in 1 .. n
    BY SMT
  <2>2. 1 \in 1 .. m
    BY SMT
  <2> QED
    BY <1>3, <2>1, <2>2, Zenon DEF TypeOf
<1>5. \A j \in 0 .. n : Off(f, j) \in Int /\ Bounded(Off(f, j))
  <2>1. \A k \in 1 .. m : f.types[k].gmtOffset \in Int /\ Bounded(f.types[k].gmtOffset)
    BY <1>1, TypesAre, Zenon
  <2> QED
    BY <1>4, <2>1, Zenon DEF Off
<1>6. \A i, k \in 1 .. n, a, b \in 1 .. m :
          i < k => f.times[k].at - f.times[i].at > f.types[a].gmtOffset - f.types[b].gmtOffset
  BY <1>1, Zenon DEF WellFormed
<1>7. \A i, k \in 1 .. n, a, b \in 0 .. n : i < k => At(f, k) - At(f, i) > Off(f, a) - Off(f, b)
  BY <1>4, <1>6, Zenon DEF At, Off
<1> QED
  BY <1>1, <1>3, <1>4, <1>5, <1>7, Zenon DEF FileOK

(* The zone of a file that was read to the end, and of one that was not. *)
ZoneData(f) == ZoneOfFile(f)
WholeZone(f, data) ==
    /\ data.transitions \in Transitions /\ Len(data.transitions) = Len(f.times)
    /\ \A i \in 1 .. Len(f.times) : Key(TRUE, data.transitions[i]) = At(f, i)
                                   /\ Key(FALSE, data.transitions[i]) = At(f, i) + Off(f, i)
    /\ \A j \in 0 .. Len(f.times) : Picked(data, j) = Localtime(TypeOf(f, j))

(* The zone of a file read to the end has the times and types of the file. *)
LEMMA ZoneIsWhole ==
    ASSUME NEW f, WellFormed(f), f.got = Len(f.types)
    PROVE  WholeZone(f, ZoneData(f))
<1>1. PICK n \in Nat, m \in Nat \ {0} : n = Len(f.times) /\ m = Len(f.types)
  <2>1. Len(f.times) \in Nat /\ Len(f.types) \in Nat /\ Len(f.types) # 0
    BY SMT DEF WellFormed
  <2> QED
    BY <2>1, SMT
<1>2. \A i \in 1 .. n : f.times[i].type \in 1 .. m /\ At(f, i) \in Int
  <2>1. \A i \in 1 .. n : f.times[i] \in [at : Int, type : 1 .. m]
    BY <1>1, ElementOfSeq, Zenon DEF WellFormed
  <2> QED
    BY <2>1, Zenon DEF At
<1> DEFINE data == ZoneData(f)
           trs == [i \in 1 .. n |-> Transition(At(f, i), At(f, i) + Off(f, i), f.times[i].type)]
<1>3. \A i \in 1 .. n : Typed(f)[f.times[i].type].gmtOffset = Off(f, i) /\ i # 0
  <2>1. \A i \in 1 .. n : i # 0
    BY SMT
  <2> QED
    BY <1>1, <1>2, <2>1, Zenon DEF Typed, Localtime, Off, TypeOf
<1>4. data.transitions = trs
  <2>1. ~(f.got < Len(f.types))
    BY <1>1, SMT
  <2>2. data.transitions = [i \in 1 .. n |-> Transition(At(f, i), At(f, i) + Typed(f)[f.times[i].type].gmtOffset, f.times[i].type)]
    BY <1>1, <2>1, Zenon DEF ZoneData, ZoneOfFile, readTimeZoneFile, Typed, At
  <2> QED
    BY <1>3, <2>2, SMT
<1>5. data.localtimes = Typed(f)
  <2>1. data.localtimes = SubSeq(Typed(f), 1, m)
    BY <1>1, Zenon DEF ZoneData, ZoneOfFile, readTimeZoneFile, Typed
  <2>2. Typed(f) = [k \in 1 .. m |-> Localtime(f.types[k])]
    BY <1>1, Zenon DEF Typed
  <2>3. SubSeq(Typed(f), 1, m) = Typed(f)
    <3> DEFINE q == Typed(f)
    <3>1. q \in Seq({Localtime(f.types[k]) : k \in 1 .. m}) /\ Len(q) = m
      BY <2>2, SMT
    <3>2. SubSeq(q, 1, Len(q)) = q
      BY <3>1, SubSeqFull, Zenon
    <3> QED
      BY <3>1, <3>2, Zenon
  <2> QED
    BY <2>1, <2>3, Zenon
<1>6. FileOK(f, n)
  BY <1>1, FileFacts, Zenon
<1>7. \A i \in 1 .. n : trs[i] \in [gmttime : Int, localtime : Int, localtimeIdx : Nat]
  <2>1. \A i \in 1 .. n : At(f, i) + Off(f, i) \in Int /\ f.times[i].type \in Nat
    BY <1>2, <1>6, SMT DEF FileOK
  <2> QED
    BY <1>2, <2>1, SMT DEF Transition
<1>8. trs \in Transitions /\ Len(trs) = n
  <2> DEFINE R == [gmttime : Int, localtime : Int, localtimeIdx : Nat]
  <2>1. trs \in [1 .. n -> R]
    BY <1>7, Zenon
  <2> HIDE DEF R, trs
  <2>2. trs \in Seq(R) /\ Len(trs) = n
    BY <2>1, SMT
  <2> QED
    BY <2>2, Zenon DEF Transitions, R
<1>9. \A i \in 1 .. n : Key(TRUE, trs[i]) = At(f, i) /\ Key(FALSE, trs[i]) = At(f, i) + Off(f, i)
  BY Zenon DEF Key, Transition
<1>10. \A j \in 0 .. n : Picked(data, j) = Localtime(TypeOf(f, j))
  <2>1. \A k \in 1 .. m : Typed(f)[k] = Localtime(f.types[k])
    BY <1>1, Zenon DEF Typed
  <2>2. FirstType(Typed(f)) = Localtime(f.types[1])
    <3>1. 1 \in 1 .. m
      BY SMT
    <3>2. Typed(f) # <<>>
      <4> DEFINE q == Typed(f)
      <4>1. q = [k \in 1 .. m |-> Localtime(f.types[k])]
        BY <1>1, Zenon DEF Typed
      <4>2. Len(q) = m
        BY <4>1, SMT
      <4>3. Len(<<>>) = 0 /\ m # 0
        BY SMT
      <4> HIDE DEF q
      <4>4. q # <<>>
        BY <4>2, <4>3, Zenon
      <4> QED
        BY <4>4, Zenon DEF q
    <3> QED
      BY <2>1, <3>1, <3>2, Zenon DEF FirstType
  <2>3. \A j \in 1 .. n : trs[j].localtimeIdx = f.times[j].type /\ j # 0
    <3>1. \A i \in 1 .. n : i # 0
      BY SMT
    <3> QED
      BY <3>1, Zenon DEF Transition
  <2>4. \A j \in 0 .. n : j = 0 \/ j \in 1 .. n
    BY SMT
  <2> HIDE DEF trs, data
  <2>5. ASSUME NEW j \in 1 .. n PROVE Picked(data, j) = Localtime(TypeOf(f, j))
    BY <1>2, <1>4, <1>5, <2>1, <2>3, Zenon DEF Picked, TypeOf
  <2>6. Picked(data, 0) = Localtime(TypeOf(f, 0))
    BY <1>5, <2>2, Zenon DEF Picked, TypeOf
  <2> QED
    BY <2>4, <2>5, <2>6, Zenon
<1> HIDE DEF trs
<1> QED
  BY <1>1, <1>4, <1>8, <1>9, <1>10, Zenon DEF WholeZone

(* Where a time is among the transitions of a file. *)
KeyAt(f, compareGmt, i) == IF compareGmt THEN At(f, i) ELSE At(f, i) + Off(f, i)
Place(f, compareGmt, t, j) ==
    j \in 0 .. Len(f.times) /\ \A i \in 1 .. Len(f.times) : i <= j <=> KeyAt(f, compareGmt, i) <= t

(* Its transitions are in order by either time, and positions are places. *)
LEMMA WholeIsOrdered ==
    ASSUME NEW f, WellFormed(f), f.got = Len(f.types), NEW compareGmt \in BOOLEAN
    PROVE  /\ ZoneData(f).transitions \in Transitions
           /\ Ordered(ZoneData(f).transitions, compareGmt)
           /\ \A t, j : Place(f, compareGmt, t, j) <=> Position(ZoneData(f).transitions, compareGmt, t, j)
           /\ \A j \in 0 .. Len(f.times) : Picked(ZoneData(f), j) = Localtime(TypeOf(f, j))
<1>1. WholeZone(f, ZoneData(f))
  BY ZoneIsWhole, Zenon
<1>2. PICK n \in Nat : n = Len(f.times) /\ FileOK(f, n)
  BY FileFacts, Zenon DEF FileOK
<1>3. \A i \in 1 .. n : Key(compareGmt, ZoneData(f).transitions[i]) = KeyAt(f, compareGmt, i)
  BY <1>1, <1>2, Zenon DEF WholeZone, KeyAt
<1>4. ASSUME NEW i \in 1 .. n, NEW k \in 1 .. n, i < k PROVE KeyAt(f, compareGmt, i) < KeyAt(f, compareGmt, k)
  <2>1. i \in 0 .. n /\ k \in 0 .. n
    BY SMT
  <2>2. /\ At(f, i) \in Int /\ At(f, k) \in Int /\ Off(f, i) \in Int /\ Off(f, k) \in Int
        /\ At(f, k) - At(f, i) > Off(f, i) - Off(f, k) /\ At(f, k) - At(f, i) > Off(f, i) - Off(f, i)
    BY <1>2, <1>4, <2>1, Zenon DEF FileOK
  <2> QED
    BY <2>2, SMT DEF KeyAt
<1>5. Ordered(ZoneData(f).transitions, compareGmt)
  BY <1>1, <1>2, <1>3, <1>4, Zenon DEF WholeZone, Ordered
<1>6. Len(ZoneData(f).transitions) = n
  BY <1>1, <1>2, Zenon DEF WholeZone
<1>7. \A t, j : Place(f, compareGmt, t, j) <=> Position(ZoneData(f).transitions, compareGmt, t, j)
  BY <1>2, <1>3, <1>6, Zenon DEF Place, Position
<1> QED
  BY <1>1, <1>5, <1>7, Zenon DEF WholeZone

(* A search finds the type at the place of the time. *)
LEMMA PlaceFinds ==
    ASSUME NEW f, WellFormed(f), f.got = Len(f.types), NEW compareGmt \in BOOLEAN, NEW t \in Int
    PROVE  /\ \E j : Place(f, compareGmt, t, j)
           /\ \A j : Place(f, compareGmt, t, j)
                       => findLocaltime(ZoneData(f), t, compareGmt) = Localtime(TypeOf(f, j))
<1>1. PICK data : data = ZoneData(f)
  OBVIOUS
<1>2. /\ data.transitions \in Transitions
      /\ Ordered(data.transitions, compareGmt)
      /\ \A j : Place(f, compareGmt, t, j) <=> Position(data.transitions, compareGmt, t, j)
      /\ \A j \in 0 .. Len(f.times) : Picked(data, j) = Localtime(TypeOf(f, j))
  BY <1>1, WholeIsOrdered, Zenon
<1>3. \E j : Place(f, compareGmt, t, j)
  BY <1>2, PositionExists, Zenon
<1>4. ASSUME NEW j, Place(f, compareGmt, t, j)
      PROVE  findLocaltime(data, t, compareGmt) = Localtime(TypeOf(f, j))
  <2>1. findLocaltime(data, t, compareGmt) = Picked(data, j)
    BY <1>2, <1>4, FoundIs, Zenon
  <2> QED
    BY <1>2, <1>4, <2>1, Zenon DEF Place
<1> QED
  BY <1>1, <1>3, <1>4, Zenon

(* TypeAt is the type at the place of the time. *)
LEMMA TypeAtIs ==
    ASSUME NEW f, WellFormed(f), NEW t \in Int, NEW j, Place(f, TRUE, t, j)
    PROVE  TypeAt(f, t) = TypeOf(f, j)
<1>1. PICK n \in Nat : n = Len(f.times) /\ FileOK(f, n)
  BY FileFacts, Zenon DEF FileOK
<1> DEFINE S == {i \in 1 .. n : f.times[i].at <= t}
<1>2. \A i \in 1 .. n : i \in S <=> i <= j
  BY <1>1, Zenon DEF Place, KeyAt, At
<1>3. j \in 0 .. n
  BY <1>1, Zenon DEF Place
<1>4. TypeAt(f, t) = f.types[IF S = {} THEN 1 ELSE f.times[Max(S)].type]
  BY <1>1, Zenon DEF TypeAt
<1>5. S \in SUBSET (1 .. n)
  BY Zenon
<1> HIDE DEF S
<1>6. CASE j = 0
  <2>1. S = {}
    BY <1>2, <1>5, <1>6, SMT
  <2> QED
    BY <1>4, <1>6, <2>1, Zenon DEF TypeOf
<1>7. CASE j # 0
  <2>1. j \in 1 .. n /\ j \in S
    BY <1>2, <1>3, <1>7, SMT
  <2>2. S # {}
    BY <2>1, Zenon
  <2>3. Max(S) \in S /\ \A y \in S : Max(S) >= y
    BY <1>5, <2>2, LastOf, Zenon
  <2>4. PICK x \in 1 .. n : x = Max(S) /\ x \in S /\ x >= j
    BY <1>5, <2>1, <2>3, Zenon
  <2>5. x <= j
    BY <1>2, <2>4, Zenon
  <2>6. Max(S) = j
    BY <2>1, <2>4, <2>5, SMT
  <2> QED
    BY <1>4, <1>7, <2>2, <2>6, Zenon DEF TypeOf
<1> QED
  BY <1>6, <1>7, Zenon

(* Searching by local time finds the same place, or the next one if that   *)
(* has begun by its own local time; then the time it makes of it belongs   *)
(* to it.                                                                  *)
LEMMA LocalPlace ==
    ASSUME NEW f, WellFormed(f), NEW t \in Int, NEW j, Place(f, TRUE, t, j),
           NEW k, Place(f, FALSE, t + Off(f, j), k)
    PROVE  /\ Off(f, j) \in Int /\ Off(f, k) \in Int
           /\ k = j \/ (t < t + Off(f, j) - Off(f, k) /\ Place(f, TRUE, t + Off(f, j) - Off(f, k), k))
<1>1. PICK n \in Nat : n = Len(f.times) /\ FileOK(f, n)
  BY FileFacts, Zenon DEF FileOK
<1>2. j \in 0 .. n /\ \A i \in 1 .. n : i <= j <=> At(f, i) <= t
  BY <1>1, Zenon DEF Place, KeyAt
<1>3. k \in 0 .. n /\ \A i \in 1 .. n : i <= k <=> At(f, i) + Off(f, i) <= t + Off(f, j)
  BY <1>1, Zenon DEF Place, KeyAt
<1>4. /\ \A i \in 1 .. n : At(f, i) \in Int
      /\ \A i \in 0 .. n : Off(f, i) \in Int
      /\ \A i, l \in 1 .. n, a, b \in 0 .. n : i < l => At(f, l) - At(f, i) > Off(f, a) - Off(f, b)
  BY <1>1, Zenon DEF FileOK
<1>5. Off(f, j) \in Int /\ Off(f, k) \in Int
  BY <1>2, <1>3, <1>4, Zenon
<1>6. j <= k
  <2>1. CASE j = 0
    BY <1>3, <2>1, SMT
  <2>2. CASE j # 0
    <3>1. j \in 1 .. n
      BY <1>2, <2>2, SMT
    <3>2. At(f, j) <= t /\ At(f, j) \in Int
      BY <1>2, <1>4, <3>1, SMT
    <3>3. At(f, j) + Off(f, j) <= t + Off(f, j)
      BY <1>5, <3>2, SMT
    <3> QED
      BY <1>3, <3>1, <3>3, Zenon
  <2> QED
    BY <2>1, <2>2, Zenon
<1>7. ASSUME k # j
      PROVE  t < t + Off(f, j) - Off(f, k) /\ Place(f, TRUE, t + Off(f, j) - Off(f, k), k)
  <2>1. k \in 1 .. n /\ j + 1 \in 1 .. n /\ j + 1 <= k
    BY <1>2, <1>3, <1>6, <1>7, SMT
  <2>2. t < At(f, j + 1) /\ At(f, j + 1) \in Int /\ At(f, k) \in Int
    <3>1. ~(j + 1 <= j)
      BY <1>2, SMT
    <3> QED
      BY <1>2, <1>4, <2>1, <3>1, SMT
  <2>3. At(f, k) + Off(f, k) <= t + Off(f, j)
    <3>1. k <= k
      BY <1>3, SMT
    <3> QED
      BY <1>3, <2>1, <3>1, Zenon
  <2>4. k = j + 1
    <3>1. j + 1 < k => At(f, k) - At(f, j + 1) > Off(f, j) - Off(f, k)
      BY <1>2, <1>3, <1>4, <2>1, Zenon
    <3> QED
      BY <1>2, <1>3, <1>5, <2>1, <2>2, <2>3, <3>1, SMT
  <2>5. PICK u \in Int : u = t + Off(f, j) - Off(f, k)
    BY <1>5, SMT
  <2>6. At(f, k) <= u /\ t < u /\ u - At(f, k) < Off(f, j) - Off(f, k)
    BY <1>5, <2>2, <2>3, <2>4, <2>5, SMT
  <2>7. ASSUME NEW i \in 1 .. n PROVE i <= k <=> At(f, i) <= u
    <3>1. At(f, i) \in Int
      BY <1>4, Zenon
    <3>2. i < k => At(f, k) - At(f, i) > Off(f, k) - Off(f, k)
      BY <1>3, <1>4, <2>1, Zenon
    <3>3. k < i => At(f, i) - At(f, k) > Off(f, j) - Off(f, k)
      BY <1>2, <1>3, <1>4, <2>1, Zenon
    <3>4. i <= k => At(f, i) <= u
      BY <1>5, <2>1, <2>2, <2>6, <3>1, <3>2, SMT
    <3>5. k < i => u < At(f, i)
      BY <1>5, <2>1, <2>2, <2>6, <3>1, <3>3, SMT
    <3> QED
      BY <2>1, <3>1, <3>4, <3>5, SMT
  <2>8. Place(f, TRUE, u, k)
    BY <1>1, <1>3, <2>7, Zenon DEF Place, KeyAt
  <2> QED
    BY <2>5, <2>6, <2>8, Zenon
<1> QED
  BY <1>5, <1>7, Zenon

(* Local time and back, by what the two searches find. *)
LocalSecond(t, local) == t + local.gmtOffset

(* toLocalTime shifts by the offset found, and timegm gives the local      *)
(* second.                                                                 *)
LEMMA LocalIs ==
    ASSUME NEW data, NEW t, NEW a, findLocaltime(data, t, TRUE) = a, Countable(LocalSecond(t, a))
    PROVE  /\ toLocalTime(data, t).tm = gmtime_r(LocalSecond(t, a))
           /\ toLocalTime(data, t).isdst = a.isDst /\ toLocalTime(data, t).junk = a.junk
           /\ timegm(toLocalTime(data, t).tm) = LocalSecond(t, a)
<1>1. timegm(gmtime_r(LocalSecond(t, a))) = LocalSecond(t, a)
  BY UtcRoundTrip, Zenon DEF timegm, gmtime_r
<1>2. toLocalTime(data, t) = [tm |-> gmtime_r(LocalSecond(t, a)), isdst |-> a.isDst, junk |-> a.junk]
  BY Zenon DEF toLocalTime, LocalTime, LocalSecond
<1>3. PICK l : l = toLocalTime(data, t)
  OBVIOUS
<1>4. l.tm = gmtime_r(LocalSecond(t, a)) /\ l.isdst = a.isDst /\ l.junk = a.junk
  BY <1>2, <1>3, SMT
<1> QED
  BY <1>1, <1>3, <1>4, Zenon

(* If both searches find the same offset, nothing is lost. *)
LEMMA SameOffset ==
    ASSUME NEW data, NEW t \in Int, NEW a, findLocaltime(data, t, TRUE) = a, a.gmtOffset \in Int,
           Countable(LocalSecond(t, a)),
           findLocaltime(data, LocalSecond(t, a), FALSE).gmtOffset = a.gmtOffset
    PROVE  fromLocalTime(data, toLocalTime(data, t)) = t
<1>1. PICK l : l = toLocalTime(data, t)
  OBVIOUS
<1>2. PICK s \in Int : s = LocalSecond(t, a) /\ s - a.gmtOffset = t
  BY SMT DEF LocalSecond
<1>3. timegm(l.tm) = s
  BY <1>1, <1>2, LocalIs, Zenon
<1>4. PICK b : b = findLocaltime(data, s, FALSE) /\ b.gmtOffset = a.gmtOffset
  BY <1>2, Zenon
<1>5. toLocalTime(data, s - b.gmtOffset) = l
  BY <1>1, <1>2, <1>4, Zenon
<1>6. ~SummerReading(data, l, s, b)
  BY <1>5, Zenon DEF SummerReading
<1>7. fromLocalTime(data, l) = s - b.gmtOffset
  <2>1. fromLocalTime(data, l) = (IF SummerReading(data, l, s, b) THEN s - 3600 ELSE s) - b.gmtOffset
    BY <1>3, <1>4, SMT DEF fromLocalTime
  <2> QED
    BY <1>6, <2>1, SMT
<1> QED
  BY <1>1, <1>2, <1>4, <1>7, Zenon

(* The hour shown twice, read as summer time. *)
HourLater(u, t) == u = t + 3600

(* The summer time reading takes the hour off. *)
LEMMA SummerOffset ==
    ASSUME NEW data, NEW t \in Int, NEW a, findLocaltime(data, t, TRUE) = a, a.gmtOffset \in Int,
           Countable(LocalSecond(t, a)),
           NEW b, findLocaltime(data, LocalSecond(t, a), FALSE) = b, b.gmtOffset \in Int,
           findLocaltime(data, LocalSecond(t, a) - b.gmtOffset, TRUE) = b,
           a.isDst, ~b.isDst, HourLater(LocalSecond(t, a) - b.gmtOffset, t)
    PROVE  fromLocalTime(data, toLocalTime(data, t)) = t
<1>1. PICK l : l = toLocalTime(data, t)
  OBVIOUS
<1>2. PICK s \in Int : s = LocalSecond(t, a)
  BY SMT DEF LocalSecond
<1>3. PICK u \in Int : u = s - b.gmtOffset /\ LocalSecond(u, b) = s /\ HourLater(u, t)
  <2>1. s - b.gmtOffset \in Int /\ (s - b.gmtOffset) + b.gmtOffset = s
    BY SMT
  <2> QED
    BY <1>2, <2>1, SMT DEF LocalSecond
<1>4. timegm(l.tm) = s /\ l.tm = gmtime_r(s) /\ l.isdst
  BY <1>1, <1>2, LocalIs, Zenon
<1>5. PICK m : m = toLocalTime(data, u)
  OBVIOUS
<1>6. m.tm = gmtime_r(s) /\ ~m.isdst
  <2>1. m = [tm |-> gmtime_r(LocalSecond(u, b)), isdst |-> b.isDst, junk |-> b.junk]
    BY <1>2, <1>3, <1>5, Zenon DEF toLocalTime, LocalTime, LocalSecond
  <2> QED
    BY <1>3, <2>1, SMT
<1>7. SummerReading(data, l, s, b)
  BY <1>3, <1>4, <1>5, <1>6, Zenon DEF SummerReading
<1>8. fromLocalTime(data, l) = (IF SummerReading(data, l, s, b) THEN s - 3600 ELSE s) - b.gmtOffset
  <2>1. PICK c : c = findLocaltime(data, s, FALSE) /\ c = b
    BY <1>2, Zenon
  <2>2. fromLocalTime(data, l) = (IF SummerReading(data, l, s, c) THEN s - 3600 ELSE s) - c.gmtOffset
    BY <1>4, <2>1, SMT DEF fromLocalTime
  <2> QED
    BY <2>1, <2>2, SMT
<1>9. fromLocalTime(data, l) = s - 3600 - b.gmtOffset
  BY <1>7, <1>8, SMT
<1> QED
  BY <1>1, <1>3, <1>9, SMT DEF HourLater

(* A file that was cut short: everything is in the first type. *)
LEMMA CutZone ==
    ASSUME NEW f, WellFormed(f), f.got # Len(f.types)
    PROVE  /\ ZoneData(f).transitions = <<>>
           /\ \A t, c : findLocaltime(ZoneData(f), t, c) = IF f.got = 0 THEN Nowhere ELSE Localtime(f.types[1])
<1>1. PICK m \in Nat \ {0} : m = Len(f.types) /\ f.got \in 0 .. m
  <2>1. Len(f.types) \in Nat /\ Len(f.types) # 0
    <3>1. f.types \in Seq(Types) /\ f.types # <<>>
      BY Zenon DEF WellFormed, Types
    <3> QED
      BY <3>1, SMT
  <2>2. Len(f.types) \in Nat \ {0}
    BY <2>1, Zenon
  <2> QED
    BY <2>2, Zenon DEF WellFormed
<1>2. PICK g \in 0 .. (m - 1) : g = f.got /\ f.got < Len(f.types)
  BY <1>1, SMT
<1>3. PICK data : data = ZoneData(f)
  OBVIOUS
<1>4. data.transitions = <<>> /\ data.localtimes = SubSeq(Typed(f), 1, g)
  BY <1>2, <1>3, Zenon DEF ZoneData, ZoneOfFile, readTimeZoneFile, Typed
<1>5. \A t, c : findLocaltime(data, t, c) = FirstType(data.localtimes)
  BY <1>4, Zenon DEF findLocaltime
<1>6. FirstType(data.localtimes) = IF g = 0 THEN Nowhere ELSE Localtime(f.types[1])
  <2>1. CASE g = 0
    <3>1. 0 \in Int /\ 1 \in Int /\ 0 < 1
      BY SMT
    <3>2. SubSeq(Typed(f), 1, 0) = <<>>
      BY <3>1, SubSeqEmpty, Zenon
    <3> QED
      BY <1>4, <2>1, <3>2, Zenon DEF FirstType
  <2>2. CASE g # 0
    <3> DEFINE R == {Localtime(f.types[k]) : k \in 1 .. m}
    <3>1. Typed(f) = [k \in 1 .. m |-> Localtime(f.types[k])]
      BY <1>1, Zenon DEF Typed
    <3>2. 1 \in Int /\ g \in Int /\ 1 <= g /\ g - 1 + 1 = g /\ 1 \in 1 .. g /\ 1 \in 1 .. m /\ 1 + 1 - 1 = 1
          /\ \A k \in 1 .. g : k \in 1 .. m
      BY <2>2, SMT
    <3>3. \A k \in 1 .. g : Typed(f)[k] \in R
      BY <3>1, <3>2, Zenon
    <3> HIDE DEF R
    <3>4. SubSeq(Typed(f), 1, g) \in Seq(R) /\ Len(SubSeq(Typed(f), 1, g)) = g /\ SubSeq(Typed(f), 1, g)[1] = Typed(f)[1]
      <4>1. /\ SubSeq(Typed(f), 1, g) \in Seq(R)
            /\ Len(SubSeq(Typed(f), 1, g)) = IF 1 <= g THEN g - 1 + 1 ELSE 0
            /\ \A i \in 1 .. g - 1 + 1 : SubSeq(Typed(f), 1, g)[i] = Typed(f)[1 + i - 1]
        <5>1. 1 \in Int /\ g \in Int /\ \A i \in 1 .. g : Typed(f)[i] \in R
          BY <3>2, <3>3, Zenon
        <5> QED
          BY <5>1, SubSeqProperties, SMT
      <4> QED
        BY <3>2, <4>1, Zenon
    <3>5. SubSeq(Typed(f), 1, g) # <<>>
      <4>1. Len(<<>>) = 0
        BY SMT
      <4> QED
        BY <2>2, <3>4, <4>1, Zenon
    <3>6. Typed(f)[1] = Localtime(f.types[1])
      BY <3>1, <3>2, Zenon
    <3> QED
      BY <1>4, <2>2, <3>4, <3>5, <3>6, Zenon DEF FirstType
  <2> QED
    BY <2>1, <2>2, Zenon
<1> QED
  BY <1>2, <1>3, <1>4, <1>5, <1>6, Zenon

(* Times far from where the calendar begins. *)
Readable(ticks) == \A t \in ticks : t \in Int /\ t >= -2000000000

(* Any well-formed zone file and any time: what ZoneRight says. *)
LEMMA ZoneIsRight ==
    ASSUME NEW f, WellFormed(f), NEW ticks, Readable(ticks)
    PROVE  ZoneRight(f, ticks)
<1> DEFINE data == ZoneData(f)
           Type(t) == IF f.got = Len(f.types) THEN TypeAt(f, t) ELSE f.types[1]
           Right(t) == IF f.got = 0 THEN toLocalTime(data, t).junk
                       ELSE /\ ~toLocalTime(data, t).junk
                            /\ \/ Guessed(f, t)
                               \/ /\ toLocalTime(data, t).isdst = Type(t).isDst
                                  /\ fromUtcTime(toLocalTime(data, t).tm) = t + Type(t).gmtOffset
                            /\ (data.transitions # <<>> => ~Confused(f, t))
                                  => fromLocalTime(data, toLocalTime(data, t)) = t
<1>1. SUFFICES ASSUME NEW t \in ticks PROVE Right(t)
  BY Zenon DEF ZoneRight, ZoneData
<1>2. t \in Int /\ \A o \in Int : Bounded(o) => Countable(t + o)
  BY SMT DEF Readable, Bounded, Countable
<1>3. 1 \in 1 .. Len(f.types) /\ f.types[1].gmtOffset \in Int /\ Bounded(f.types[1].gmtOffset) /\ Len(f.types) # 0
  <2>1. f.types \in Seq(Types) /\ f.types # <<>>
    BY Zenon DEF WellFormed, Types
  <2>2. 1 \in 1 .. Len(f.types) /\ Len(f.types) # 0
    BY <2>1, SMT
  <2> QED
    BY <2>2, TypesAre, Zenon
<1>4. CASE f.got # Len(f.types) /\ f.got = 0
  <2>1. findLocaltime(data, t, TRUE) = Nowhere
    BY <1>4, CutZone, Zenon
  <2>2. toLocalTime(data, t).junk
    <3>1. Nowhere.junk
      BY SMT DEF Nowhere
    <3>2. toLocalTime(data, t).junk = Nowhere.junk
      BY <2>1, Zenon DEF toLocalTime, LocalTime
    <3> QED
      BY <3>1, <3>2, Zenon
  <2> QED
    BY <1>4, <2>2, Zenon
<1>5. CASE f.got # Len(f.types) /\ f.got # 0
  <2>1. PICK a : a = Localtime(f.types[1])
    OBVIOUS
  <2>2. \A x, c : findLocaltime(data, x, c) = a
    BY <1>5, <2>1, CutZone, Zenon
  <2>3. a.gmtOffset = f.types[1].gmtOffset /\ a.isDst = f.types[1].isDst /\ a.junk = FALSE
    BY <2>1, Zenon DEF Localtime
  <2>4. Countable(LocalSecond(t, a)) /\ a.gmtOffset \in Int
    BY <1>2, <1>3, <2>3, Zenon DEF LocalSecond
  <2>5. /\ toLocalTime(data, t).isdst = a.isDst /\ toLocalTime(data, t).junk = a.junk
        /\ timegm(toLocalTime(data, t).tm) = LocalSecond(t, a)
    <3>1. findLocaltime(data, t, TRUE) = a
      BY <2>2, Zenon
    <3> QED
      BY <2>4, <3>1, LocalIs, Zenon
  <2>6. fromLocalTime(data, toLocalTime(data, t)) = t
    BY <1>2, <2>2, <2>4, SameOffset, Zenon
  <2> HIDE DEF data
  <2> QED
    BY <1>5, <2>3, <2>5, <2>6, Zenon DEF LocalSecond, timegm
<1>6. CASE f.got = Len(f.types)
  <2>1. PICK j : Place(f, TRUE, t, j)
    BY <1>2, <1>6, PlaceFinds, Zenon
  <2>2. PICK type : type = TypeOf(f, j) /\ TypeAt(f, t) = type
    BY <1>2, <2>1, TypeAtIs, Zenon
  <2>3. PICK a : a = Localtime(type)
    OBVIOUS
  <2>4. findLocaltime(data, t, TRUE) = a
    BY <1>2, <1>6, <2>1, <2>2, <2>3, PlaceFinds, Zenon
  <2>5. a.gmtOffset = type.gmtOffset /\ a.isDst = type.isDst /\ a.junk = FALSE
    BY <2>3, Zenon DEF Localtime
  <2>6. PICK n \in Nat : n = Len(f.times) /\ FileOK(f, n)
    BY FileFacts, Zenon DEF FileOK
  <2>7. j \in 0 .. n /\ a.gmtOffset = Off(f, j) /\ Off(f, j) \in Int /\ Bounded(Off(f, j))
    BY <2>1, <2>2, <2>5, <2>6, Zenon DEF Place, FileOK, Off
  <2>8. Countable(LocalSecond(t, a)) /\ a.gmtOffset \in Int /\ LocalSecond(t, a) = t + Off(f, j)
    BY <1>2, <2>7, Zenon DEF LocalSecond
  <2>9. /\ toLocalTime(data, t).isdst = a.isDst /\ toLocalTime(data, t).junk = a.junk
        /\ timegm(toLocalTime(data, t).tm) = LocalSecond(t, a)
    BY <2>4, <2>8, LocalIs, Zenon
  <2>10. ASSUME data.transitions # <<>> => ~Confused(f, t)
         PROVE  fromLocalTime(data, toLocalTime(data, t)) = t
    <3>1. LocalSecond(t, a) \in Int
      BY <2>8, SMT DEF Countable
    <3>2. PICK k : Place(f, FALSE, LocalSecond(t, a), k)
      BY <1>6, <3>1, PlaceFinds, Zenon
    <3>3. findLocaltime(data, LocalSecond(t, a), FALSE) = Localtime(TypeOf(f, k))
      BY <1>6, <3>1, <3>2, PlaceFinds, Zenon
    <3>4. PICK later : later = TypeOf(f, k)
      OBVIOUS
    <3>0. PICK b : b = Localtime(later)
      OBVIOUS
    <3>5. b = Localtime(later) /\ b.gmtOffset = later.gmtOffset /\ b.isDst = later.isDst
      BY <3>0, Zenon DEF Localtime
    <3>6. PICK u : u = LocalSecond(t, a) - b.gmtOffset
      OBVIOUS
    <3>7. /\ Off(f, k) \in Int /\ b.gmtOffset = Off(f, k)
          /\ k = j \/ (t < u /\ Place(f, TRUE, u, k))
      <4>1. b.gmtOffset = Off(f, k)
        BY <3>4, <3>5, Zenon DEF Off
      <4>2. Place(f, FALSE, t + Off(f, j), k) /\ u = t + Off(f, j) - Off(f, k)
        <5>1. k \in 0 .. n
          BY <2>6, <3>2, Zenon DEF Place
        <5>2. Off(f, k) \in Int
          BY <2>6, <5>1, Zenon DEF FileOK
        <5>3. u = t + Off(f, j) - Off(f, k)
          BY <1>2, <2>7, <2>8, <3>6, <4>1, <5>2, SMT
        <5> QED
          BY <2>8, <3>2, <5>3, Zenon
      <4>3. /\ Off(f, k) \in Int
            /\ k = j \/ (t < t + Off(f, j) - Off(f, k) /\ Place(f, TRUE, t + Off(f, j) - Off(f, k), k))
        BY <1>2, <2>1, <4>2, LocalPlace, Zenon
      <4> QED
        BY <4>1, <4>2, <4>3, Zenon
    <3>8. CASE k = j
      <4>1. findLocaltime(data, LocalSecond(t, a), FALSE).gmtOffset = a.gmtOffset
        BY <2>2, <2>3, <3>3, <3>8, Zenon
      <4> QED
        BY <1>2, <2>4, <2>8, <4>1, SameOffset, Zenon
    <3>9. CASE t < u /\ Place(f, TRUE, u, k)
      <4>1. u \in Int
        BY <3>1, <3>6, <3>7, SMT
      <4>2. findLocaltime(data, u, TRUE) = b /\ TypeAt(f, u) = later
        BY <1>6, <3>4, <3>5, <3>9, <4>1, PlaceFinds, TypeAtIs, Zenon
      <4>3. data.transitions # <<>>
        <5>1. Len(data.transitions) = n /\ Len(<<>>) = 0
          <6>1. Len(data.transitions) = n
            BY <1>6, <2>6, ZoneIsWhole, Zenon DEF WholeZone
          <6>2. Len(<<>>) = 0
            BY SMT
          <6> QED
            BY <6>1, <6>2, Zenon
        <5>2. n = 0 => k = j
          <6>1. k \in 0 .. n
            BY <2>6, <3>2, Zenon DEF Place
          <6> QED
            BY <2>7, <6>1, SMT
        <5>3. k # j
          <6>1. ASSUME k = j PROVE FALSE
            <7>1. b.gmtOffset = a.gmtOffset
              BY <2>7, <3>7, <6>1, Zenon
            <7>2. u = t
              BY <1>2, <2>8, <3>6, <7>1, SMT DEF LocalSecond
            <7> QED
              BY <1>2, <3>9, <7>2, SMT
          <6> QED
            BY <6>1, Zenon
        <5> QED
          BY <5>1, <5>2, <5>3, Zenon
      <4>4. \E i \in 1 .. Len(f.types) : later = f.types[i]
        BY <2>6, <3>2, <3>4, Zenon DEF Place, FileOK
      <4>5. u = t + type.gmtOffset - later.gmtOffset
        BY <1>2, <2>5, <2>7, <3>5, <3>6, <3>7, SMT DEF LocalSecond
      <4>6. type.isDst /\ ~later.isDst /\ HourLater(u, t)
        <5>1. ~Confused(f, t)
          BY <2>10, <4>3, Zenon
        <5> QED
          BY <2>2, <3>9, <4>2, <4>4, <4>5, <5>1, SMT DEF Confused, HourLater
      <4>7. a.isDst /\ ~b.isDst
        BY <2>5, <3>5, <4>6, Zenon
      <4>8. findLocaltime(data, LocalSecond(t, a), FALSE) = b
        BY <3>3, <3>4, <3>5, Zenon
      <4>9. b.gmtOffset \in Int
        BY <3>7, Zenon
      <4> HIDE DEF data
      <4> QED
        BY <1>2, <2>4, <2>8, <3>6, <4>2, <4>6, <4>7, <4>8, <4>9, SummerOffset, Zenon
    <3> QED
      BY <3>7, <3>8, <3>9, Zenon
  <2>11. f.got # 0
    BY <1>3, <1>6, Zenon
  <2> HIDE DEF data
  <2> QED
    BY <1>6, <2>2, <2>5, <2>9, <2>10, <2>11, Zenon DEF LocalSecond, timegm
<1> QED
  BY <1>4, <1>5, <1>6, Zenon

(* The walk is at the first day of a year, and the zone file is well formed. *)
CalendarInv == Reckoned(year) /\ first = FirstOf(year) /\ file \in ZoneFiles

(* What a kept text and a line are: of a zone their second was lived in. *)
Lived(second, text) == second # 0 => \E z \in zonesOf[second] : text = Formatted(z, second)
ZInv == zonesOf = [t \in LogSeconds |-> zonesOf[t]] /\ clock \in LogSeconds /\ zone \in zonesOf[clock]
KeptInv ==
    /\ t_lastSecond = [p \in Loggers |-> t_lastSecond[p]] /\ t_time = [p \in Loggers |-> t_time[p]]
    /\ \A p \in Loggers : /\ t_lastSecond[p] # 0 => t_lastSecond[p] \in LogSeconds
                          /\ Lived(t_lastSecond[p], t_time[p])
LineInv ==
    line # <<>> => /\ line.second \in LogSeconds
                   /\ Lived(line.second, line.text)
                   /\ \E z \in zonesOf[line.second] : line.Z <=> z = NoZone
TimeInv == CalendarInv /\ ZInv /\ KeptInv /\ LineInv

(* Initially it is 1970, and nothing has been written. *)
LEMMA TimeInit == LogInit => TimeInv
<1> SUFFICES ASSUME LogInit PROVE TimeInv
  OBVIOUS
<1>1. CalendarInv
  <2>1. Reckoned(1970)
    BY SMT DEF Reckoned
  <2>2. year = 1970 /\ first = Anchor /\ file \in ZoneFiles
    BY SMT DEF LogInit
  <2>3. first = FirstOf(year)
    BY <2>2, Origin, SMT
  <2>4. Reckoned(year)
    BY <2>1, <2>2, SMT
  <2> QED
    BY <2>2, <2>3, <2>4, SMT DEF CalendarInv
<1>2. ZInv
  BY SMT DEF LogInit, ZInv
<1>3. KeptInv
  BY SMT DEF LogInit, KeptInv, Lived
<1>4. LineInv
  BY SMT DEF LogInit, LineInv
<1> QED
  BY <1>1, <1>2, <1>3, <1>4, Zenon DEF TimeInv

(* The walk goes from first day to first day. *)
LEMMA YearsWalk ==
    ASSUME CalendarInv, NextYear \/ YearBefore \/ UNCHANGED <<calendarVars, file>>
    PROVE  CalendarInv'
<1>1. CASE NextYear
  <2>1. Reckoned(year + 1)
    BY SMT DEF CalendarInv, Reckoned
  <2>2. FirstOf(year + 1) = FirstOf(year) + DaysOf(year)
    BY YearAfter, Zenon DEF CalendarInv
  <2>3. year' = year + 1 /\ first' = first + DaysOf(year) /\ file' = file
    BY <1>1, SMT DEF NextYear
  <2> QED
    BY <2>1, <2>2, <2>3, SMT DEF CalendarInv
<1>2. CASE YearBefore
  <2>1. year - 1 \in Int /\ Reckoned(year - 1) /\ (year - 1) + 1 = year
    <3>1. year \in (FirstYear + 1) .. 1970
      BY <1>2, SMT DEF YearBefore
    <3> QED
      BY <3>1, TimeAssumption, SMT DEF Reckoned
  <2>2. PICK y : y = year - 1 /\ Reckoned(y) /\ y + 1 = year
    BY <2>1, SMT
  <2>3. FirstOf(y + 1) = FirstOf(y) + DaysOf(y) /\ FirstOf(y) \in Int /\ DaysOf(y) \in Int
    BY <2>2, YearAfter, SMT
  <2>4. year' = y /\ first' = first - DaysOf(y) /\ file' = file
    BY <1>2, <2>2, SMT DEF YearBefore
  <2>5. first = FirstOf(y) + DaysOf(y) /\ file \in ZoneFiles
    BY <2>2, <2>3, Zenon DEF CalendarInv
  <2>6. first - DaysOf(y) = FirstOf(y)
    BY <2>3, <2>5, SMT
  <2> QED
    BY <2>2, <2>4, <2>5, <2>6, Zenon DEF CalendarInv
<1>3. CASE UNCHANGED <<calendarVars, file>>
  BY <1>3, Zenon DEF calendarVars, CalendarInv
<1> QED
  BY <1>1, <1>2, <1>3, Zenon

(* The zones of a second only become more. *)
Grows == \A t \in LogSeconds : zonesOf[t] \subseteq zonesOf'[t]

(* A line is stamped with the kept text or with one in the zone of now. *)
LEMMA StampStep ==
    ASSUME ZInv, KeptInv, LineInv, NEW p \in Loggers, formatTime(p)
    PROVE  ZInv' /\ KeptInv' /\ LineInv'
<1>1. /\ t_lastSecond' = [t_lastSecond EXCEPT ![p] = clock]
      /\ t_time' = IF Stale(p) THEN [t_time EXCEPT ![p] = Formatted(zone, clock)] ELSE t_time
      /\ line' = [second |-> clock, text |-> t_time'[p], Z |-> zone = NoZone]
      /\ zone' = zone /\ clock' = clock /\ zonesOf' = zonesOf
  BY SMT DEF formatTime
<1>2. ZInv'
  BY <1>1, Zenon DEF ZInv
<1>3. t_lastSecond'[p] = clock /\ \A q \in Loggers : q # p => t_lastSecond'[q] = t_lastSecond[q]
  BY <1>1, Zenon DEF KeptInv
<1>4. \A q \in Loggers : q # p => t_time'[q] = t_time[q]
  BY <1>1, Zenon DEF KeptInv
<1>5. t_time'[p] = IF Stale(p) THEN Formatted(zone, clock) ELSE t_time[p]
  BY <1>1, Zenon DEF KeptInv
<1>6. Lived(clock, t_time'[p])
  <2>1. CASE Stale(p)
    BY <1>5, <2>1, Zenon DEF ZInv, Lived
  <2>2. CASE ~Stale(p)
    <3>1. clock = t_lastSecond[p] /\ t_time'[p] = t_time[p]
      BY <1>5, <2>2, Zenon DEF Stale
    <3> QED
      BY <3>1, Zenon DEF KeptInv
  <2> QED
    BY <2>1, <2>2, Zenon
<1>8. KeptInv'
  <2>1. t_lastSecond' = [q \in Loggers |-> t_lastSecond'[q]]
    BY <1>1, SMT DEF KeptInv
  <2>2. t_time' = [q \in Loggers |-> t_time'[q]]
    BY <1>1, SMT DEF KeptInv
  <2>3. ASSUME NEW q \in Loggers
        PROVE  (t_lastSecond'[q] # 0 => t_lastSecond'[q] \in LogSeconds) /\ Lived(t_lastSecond[q], t_time[q])'
    <3>1. CASE q = p
      BY <1>1, <1>3, <1>6, <3>1, Zenon DEF ZInv, Lived
    <3>2. CASE q # p
      <4>1. t_lastSecond'[q] = t_lastSecond[q] /\ t_time'[q] = t_time[q]
        BY <1>3, <1>4, <3>2, Zenon
      <4>2. (t_lastSecond[q] # 0 => t_lastSecond[q] \in LogSeconds) /\ Lived(t_lastSecond[q], t_time[q])
        BY Zenon DEF KeptInv
      <4> QED
        BY <1>1, <4>1, <4>2, Zenon DEF Lived
    <3> QED
      BY <3>1, <3>2, Zenon
  <2> QED
    BY <2>1, <2>2, <2>3, Zenon DEF KeptInv
<1>9. LineInv'
  <2>1. line'.second = clock /\ line'.text = t_time'[p] /\ (line'.Z <=> zone = NoZone)
    BY <1>1, Zenon
  <2>2. Lived(line.second, line.text)'
    BY <1>1, <1>6, <2>1, Zenon DEF Lived
  <2>3. \E z \in zonesOf'[line'.second] : line'.Z <=> z = NoZone
    BY <1>1, <2>1, Zenon DEF ZInv
  <2> QED
    BY <2>1, <2>2, <2>3, Zenon DEF LineInv, ZInv
<1> QED
  BY <1>2, <1>8, <1>9, Zenon

(* The other steps leave the texts alone. *)
LEMMA ZonesGrow ==
    ASSUME KeptInv, LineInv, Grows, UNCHANGED <<t_lastSecond, t_time, line>>
    PROVE  KeptInv' /\ LineInv'
<1>1. t_lastSecond' = t_lastSecond /\ t_time' = t_time /\ line' = line
  OBVIOUS
<1>2. KeptInv'
  <2>1. ASSUME NEW p \in Loggers
        PROVE  (t_lastSecond'[p] # 0 => t_lastSecond'[p] \in LogSeconds) /\ Lived(t_lastSecond[p], t_time[p])'
    <3>1. (t_lastSecond[p] # 0 => t_lastSecond[p] \in LogSeconds) /\ Lived(t_lastSecond[p], t_time[p])
      BY Zenon DEF KeptInv
    <3> QED
      BY <1>1, <3>1, Zenon DEF Lived, Grows
  <2> QED
    BY <1>1, <2>1, Zenon DEF KeptInv
<1>3. LineInv'
  <2> SUFFICES ASSUME line # <<>>
               PROVE  /\ line.second \in LogSeconds
                      /\ line.second # 0 => \E z \in zonesOf'[line.second] : line.text = Formatted(z, line.second)
                      /\ \E z \in zonesOf'[line.second] : line.Z <=> z = NoZone
    BY <1>1, Zenon DEF LineInv, Lived
  <2> QED
    BY Zenon DEF LineInv, Lived, Grows
<1> QED
  BY <1>2, <1>3, Zenon

(* setTimeZone adds a zone to the second that is. *)
LEMMA ZoneStep ==
    ASSUME ZInv, NEW z, setTimeZone(z)
    PROVE  ZInv' /\ Grows /\ UNCHANGED <<t_lastSecond, t_time, line>>
<1>1. /\ zone' = z /\ clock' = clock /\ zonesOf' = [zonesOf EXCEPT ![clock] = @ \cup {z}]
      /\ UNCHANGED <<t_lastSecond, t_time, line>>
  BY SMT DEF setTimeZone
<1>2. zonesOf' = [t \in LogSeconds |-> IF t = clock THEN zonesOf[t] \cup {z} ELSE zonesOf[t]] /\ clock \in LogSeconds
  BY <1>1, SMT DEF ZInv
<1> QED
  BY <1>1, <1>2, SMT DEF ZInv, Grows

(* The next second is lived in the zone that is set. *)
LEMMA ClockStep ==
    ASSUME ZInv, ClockMoves
    PROVE  ZInv' /\ Grows /\ UNCHANGED <<t_lastSecond, t_time, line>>
<1>1. /\ zone' = zone /\ clock' \in LogSeconds /\ zonesOf' = [zonesOf EXCEPT ![clock'] = @ \cup {zone}]
      /\ UNCHANGED <<t_lastSecond, t_time, line>>
  BY SMT DEF ClockMoves
<1>2. zonesOf' = [t \in LogSeconds |-> IF t = clock' THEN zonesOf[t] \cup {zone} ELSE zonesOf[t]]
  BY <1>1, SMT DEF ZInv
<1> QED
  BY <1>1, <1>2, SMT DEF ZInv, Grows

(* Every step keeps the invariant. *)
LEMMA TimeStep == TimeInv /\ [LogNext]_timeVars => TimeInv'
<1> SUFFICES ASSUME TimeInv, [LogNext]_timeVars PROVE TimeInv'
  OBVIOUS
<1>1. CalendarInv /\ ZInv /\ KeptInv /\ LineInv
  BY Zenon DEF TimeInv
<1>2. CASE NextYear \/ YearBefore \/ UNCHANGED timeVars
  <2>1. CalendarInv'
    BY <1>1, <1>2, YearsWalk, Zenon DEF timeVars
  <2>2. UNCHANGED logVars
    BY <1>2, SMT DEF NextYear, YearBefore, timeVars
  <2>3. zone' = zone /\ clock' = clock /\ zonesOf' = zonesOf /\ UNCHANGED <<t_lastSecond, t_time, line>>
    BY <2>2, SMT DEF logVars
  <2>4. ZInv' /\ Grows
    BY <1>1, <2>3, Zenon DEF ZInv, Grows
  <2> QED
    BY <1>1, <2>1, <2>3, <2>4, ZonesGrow, Zenon DEF TimeInv
<1>3. CASE ClockMoves
  <2>1. UNCHANGED <<calendarVars, file>>
    BY <1>3, SMT DEF ClockMoves
  <2> QED
    BY <1>1, <1>3, <2>1, YearsWalk, ClockStep, ZonesGrow, Zenon DEF TimeInv
<1>4. ASSUME NEW p \in Loggers, formatTime(p) PROVE TimeInv'
  <2>1. UNCHANGED <<calendarVars, file>>
    BY <1>4, SMT DEF formatTime
  <2> QED
    BY <1>1, <1>4, <2>1, YearsWalk, StampStep, Zenon DEF TimeInv
<1>5. ASSUME NEW z \in LogZones, setTimeZone(z) PROVE TimeInv'
  <2>1. UNCHANGED <<calendarVars, file>>
    BY <1>5, SMT DEF setTimeZone
  <2> QED
    BY <1>1, <1>5, <2>1, YearsWalk, ZoneStep, ZonesGrow, Zenon DEF TimeInv
<1> QED
  BY <1>2, <1>3, <1>4, <1>5, Zenon DEF LogNext

(* A line whose second had one zone is in that zone, and says Z            *)
(* accordingly.                                                            *)
LEMMA StampsHold ==
    ASSUME ZInv, LineInv
    PROVE  StampsRight
<1> SUFFICES ASSUME line # <<>>, line.second # 0
             PROVE  /\ \E z \in zonesOf[line.second] : line.text = Formatted(z, line.second)
                    /\ zonesOf[line.second] = {NoZone} => line.Z /\ line.text = Text(toUtcTime(line.second))
  BY Zenon DEF StampsRight
<1>1. PICK z \in zonesOf[line.second] : line.text = Formatted(z, line.second)
  BY Zenon DEF LineInv, Lived
<1>2. ASSUME zonesOf[line.second] = {NoZone} PROVE line.Z /\ line.text = Text(toUtcTime(line.second))
  <2>1. z = NoZone
    BY <1>1, <1>2, Zenon
  <2>2. line.text = Text(toUtcTime(line.second))
    BY <1>1, <2>1, Zenon DEF Formatted, gmtime_r
  <2>3. PICK w \in zonesOf[line.second] : line.Z <=> w = NoZone
    BY Zenon DEF LineInv
  <2>4. line.Z
    BY <1>2, <2>3, Zenon
  <2> QED
    BY <2>2, <2>4, Zenon
<1> QED
  BY <1>1, <1>2, Zenon

(* For any years from -4799 on, any seconds of a day, any well-formed zone *)
(* files, whole or cut short, any times, loggers and moves of the clock:   *)
(* dates, local times and stamps are those of the calendar, of the zone    *)
(* file and of the second (Date.cc, TimeZone.cc, Logging.cc).              *)
THEOREM TimesAreRight == LogSpec => []TimesAgree
<1>1. LogInit => TimeInv
  BY TimeInit
<1>2. TimeInv /\ [LogNext]_timeVars => TimeInv'
  BY TimeStep
<1>3. TimeInv => TimesAgree
  <2> SUFFICES ASSUME TimeInv PROVE TimesAgree
    OBVIOUS
  <2>1. Reckoned(year) /\ first = FirstOf(year) /\ file \in ZoneFiles /\ ZInv /\ LineInv
    BY Zenon DEF TimeInv, CalendarInv
  <2>2. YearRight(year, first)
    BY <2>1, YearIsRight, Zenon
  <2>3. DaySeconds \in SUBSET ADay
    BY TimeAssumption, SMT DEF ADay, kSecondsPerDay
  <2>4. SecondsRight(year, first, DaySeconds)
    BY <2>1, <2>3, SecondsAreRight, Zenon
  <2>5. WellFormed(file) /\ Readable(Ticks)
    BY <2>1, TimeAssumption, SMT DEF Readable
  <2>6. ZoneRight(file, Ticks)
    BY <2>5, ZoneIsRight, Zenon
  <2>7. StampsRight
    BY <2>1, StampsHold, Zenon
  <2> QED
    BY <2>2, <2>4, <2>6, <2>7, Zenon DEF TimesAgree, ConversionsRight
<1> QED
  BY <1>1, <1>2, <1>3, PTL DEF LogSpec
=============================================================================
