------------------------- MODULE AsyncLoggingProofs -------------------------
(***************************************************************************)
(* The assertions in threadFunc can never fail, and no line is lost,       *)
(* repeated or overtaken without a "Dropped" record, for any buffer size,  *)
(* any limit on queued buffers and any number of lines.                    *)
(*                                                                         *)
(* The first argument is about the pointers.  The spare buffer nextBuffer_ *)
(* is missing only while a full buffer is queued (NextInv), so a batch     *)
(* that costs the back end both of its buffers has at least two to give    *)
(* back (BatchInv).  The second follows the lines through the buffers: the *)
(* concatenation InFlight of the file, the batch, the queue and the        *)
(* current buffer grows at its end, is handed on unchanged, and is cut in  *)
(* one place by a drop (LinesInv).                                         *)
(***************************************************************************)
EXTENDS AsyncLogging, SequenceFacts, SequenceTheorems, FiniteSetTheorems, TLAPS

(* nextBuffer_ is empty, or null, and this only after append() has queued  *)
(* a full buffer that the back end has not collected yet.                  *)
NextInv == /\ nextBuffer \in {Null, <<>>}
           /\ nextBuffer = Null => buffers # <<>>

(* Between two batches the back end holds two empty buffers. *)
IdleInv == pcT \in {"loop", "lock", "waiting", "woken"} =>
              /\ newBuffer1 = <<>> /\ newBuffer2 = <<>>
              /\ buffersToWrite = <<>>

(* While it works on a batch it has given away one or both of them, and    *)
(* the batch is long enough to replace them.                               *)
BatchInv == pcT \in {"collected", "write"} =>
              /\ newBuffer1 = Null /\ newBuffer2 \in {Null, <<>>}
              /\ Len(buffersToWrite) >= (IF newBuffer2 = Null THEN 2 ELSE 1)

(* The thread begins while running_ is still set: stop() is called after   *)
(* start() has seen the latch.                                             *)
StartInv == /\ pcT \in {"none", "begin"} => latch = 1
            /\ pcT = "begin" => running
            /\ pcM = "new" => pcT = "none"
            /\ pcT \in {"none", "begin"} => buffersToWrite = <<>>
            /\ pcT = "collected" => position = 0

LoggingInv == TypeOK /\ NextInv /\ IdleInv /\ BatchInv /\ StartInv /\ NoFullBufferSleeps

-----------------------------------------------------------------------------
(* A fresh buffer is a buffer. *)
LEMMA EmptyIsBuffer == <<>> \in Buffer
BY LoggingAssumption DEF Buffer

(* A buffer with room takes one more line; an empty one always has room. *)
LEMMA OneMoreLine ==
    ASSUME NEW b \in Buffer, Fits(b) \/ b = <<>>, NEW l \in 1 .. MaxLines
    PROVE  Append(b, l) \in Buffer
<1>1. Append(b, l) \in Seq(1 .. MaxLines) /\ Len(Append(b, l)) = Len(b) + 1
  BY DEF Buffer
<1>2. Len(b) + 1 < BufferSize
  BY LoggingAssumption DEF Buffer, Fits
<1> QED BY <1>1, <1>2 DEF Buffer

(* A pointer that was given away is told apart from a buffer. *)
LEMMA NullIsNoBuffer == Null \notin Buffer
BY LoggingAssumption, SMT DEF Buffer

(* The constructor gives the invariant. *)
LEMMA InitInv == Init => LoggingInv
<1> SUFFICES ASSUME Init PROVE LoggingInv
  OBVIOUS
<1>1. TypeOK
  <2>1. <<>> \in Seq(Buffer) /\ <<>> \in Seq(0 .. MaxLines) /\ Len(<<>>) = 0
    OBVIOUS
  <2>2. <<>> \in BufferPtr /\ Null \in BufferPtr
    BY EmptyIsBuffer DEF BufferPtr
  <2>3. 0 \in 0 .. MaxLines /\ 0 \in 0 .. 0 /\ 1 \in 0 .. 1
    BY LoggingAssumption
  <2> QED BY EmptyIsBuffer, <2>1, <2>2, <2>3 DEF Init, TypeOK
<1>2. NextInv /\ IdleInv /\ BatchInv /\ StartInv /\ NoFullBufferSleeps
  <2>1. nextBuffer # Null
    BY EmptyIsBuffer, NullIsNoBuffer DEF Init
  <2> QED BY <2>1 DEF Init, NextInv, IdleInv, BatchInv, StartInv, NoFullBufferSleeps
<1> QED BY <1>1, <1>2 DEF LoggingInv

(* append() into the current buffer. *)
LEMMA AppendToCurrentInv == LoggingInv /\ AppendToCurrent => LoggingInv'
<1> SUFFICES ASSUME LoggingInv, AppendToCurrent PROVE LoggingInv'
  OBVIOUS
<1> USE DEF LoggingInv
<1>1. appended + 1 \in 1 .. MaxLines /\ appended' = appended + 1
  BY LoggingAssumption DEF TypeOK, AppendToCurrent
<1>2. currentBuffer' \in Buffer
  BY <1>1, OneMoreLine DEF TypeOK, AppendToCurrent
<1>3. TypeOK'
  BY <1>1, <1>2, LoggingAssumption DEF TypeOK, AppendToCurrent, back, out
<1>4. (NextInv /\ IdleInv /\ BatchInv /\ StartInv /\ NoFullBufferSleeps)'
  BY DEF AppendToCurrent, back, out, NextInv, IdleInv, BatchInv, StartInv, NoFullBufferSleeps
<1> QED BY <1>3, <1>4

(* append() that moves on to another buffer: the only step that takes      *)
(* nextBuffer_ away, and it queues a buffer and wakes the back end.        *)
LEMMA AppendToNextInv == LoggingInv /\ AppendToNext => LoggingInv'
<1> SUFFICES ASSUME LoggingInv, AppendToNext PROVE LoggingInv'
  OBVIOUS
<1> USE DEF LoggingInv
<1>1. appended + 1 \in 1 .. MaxLines /\ appended' = appended + 1
  BY LoggingAssumption DEF TypeOK, AppendToNext
<1>2. buffers' \in Seq(Buffer) /\ buffers' # <<>>
  BY DEF TypeOK, AppendToNext
<1>3. currentBuffer' \in Buffer
  <2>1. currentBuffer' = Append(<<>>, appended + 1)
    BY DEF AppendToNext, NextInv
  <2> QED BY <1>1, <2>1, EmptyIsBuffer, OneMoreLine
<1>6. pcT' \in {pcT, "woken"}
  BY DEF AppendToNext, Notified
<1>7. TypeOK'
  BY <1>1, <1>2, <1>3, <1>6, LoggingAssumption
  DEF TypeOK, AppendToNext, BufferPtr, back, out
<1>4. (NextInv /\ NoFullBufferSleeps)'
  BY <1>2 DEF AppendToNext, Notified, NextInv, NoFullBufferSleeps
<1>5. (IdleInv /\ BatchInv /\ StartInv)'
  BY DEF AppendToNext, Notified, back, out, IdleInv, BatchInv, StartInv
<1> QED BY <1>4, <1>5, <1>7

(* The critical section of threadFunc: newBuffer1 always goes, newBuffer2  *)
(* only if nextBuffer_ was missing, and then two buffers are collected.    *)
LEMMA ExchangesInv == LoggingInv /\ Exchanges => LoggingInv'
<1> SUFFICES ASSUME LoggingInv, Exchanges PROVE LoggingInv'
  OBVIOUS
<1> USE DEF LoggingInv
<1>1. pcT \in {"lock", "woken"} /\ pcT' = "collected"
  BY DEF Exchanges
<1>2. newBuffer1 = <<>> /\ newBuffer2 = <<>>
  BY <1>1 DEF IdleInv
<1>3. nextBuffer' = <<>> /\ newBuffer2' \in {Null, <<>>} /\ currentBuffer' = <<>>
  BY <1>2 DEF Exchanges, Spare, NextInv
<1>4. buffersToWrite' \in Seq(Buffer) /\ Len(buffersToWrite') = Len(buffers) + 1
  BY DEF Exchanges, Collected, TypeOK
<1>5. newBuffer2' = Null => Len(buffersToWrite') >= 2
  <2>1. newBuffer2' = Null => nextBuffer = Null
    BY <1>2, EmptyIsBuffer, NullIsNoBuffer DEF Exchanges, Spare
  <2>2. buffers # <<>> => Len(buffers) > 0
    BY DEF TypeOK
  <2> QED BY <1>4, <2>1, <2>2 DEF NextInv, TypeOK
<1>6. TypeOK'
  <2>1. buffers' \in Seq(Buffer)
    BY DEF Exchanges
  <2>2. position' \in 0 .. Len(buffersToWrite')
    BY <1>4 DEF Exchanges, TypeOK
  <2>3. newBuffer1' \in BufferPtr /\ newBuffer2' \in BufferPtr /\ nextBuffer' \in BufferPtr
    BY <1>3, EmptyIsBuffer DEF Exchanges, BufferPtr
  <2> QED BY <1>1, <1>3, <1>4, <2>1, <2>2, <2>3, EmptyIsBuffer DEF TypeOK, Exchanges, out
<1>7. NextInv'
  BY <1>3, EmptyIsBuffer, NullIsNoBuffer DEF NextInv
<1>8. BatchInv'
  BY <1>3, <1>4, <1>5 DEF BatchInv, Exchanges, TypeOK
<1>9. (IdleInv /\ StartInv /\ NoFullBufferSleeps)'
  BY <1>1 DEF IdleInv, StartInv, NoFullBufferSleeps, Exchanges
<1> QED BY <1>6, <1>7, <1>8, <1>9

(* Dropping keeps two buffers, as many as can be needed. *)
LEMMA DropsExcessInv == LoggingInv /\ DropsExcess => LoggingInv'
<1> SUFFICES ASSUME LoggingInv, DropsExcess PROVE LoggingInv'
  OBVIOUS
<1> USE DEF LoggingInv
<1>1. buffersToWrite' \in Seq(Buffer) /\ Len(buffersToWrite') = 2
  BY LoggingAssumption DEF TypeOK, DropsExcess
<1>2. file' \in Seq(0 .. MaxLines) /\ Len(file') = Len(file) + 1
  <2>1. <<Dropped>> \in Seq(0 .. MaxLines) /\ Len(<<Dropped>>) = 1
    BY LoggingAssumption DEF Dropped
  <2> QED BY <2>1 DEF TypeOK, DropsExcess, DropNotice
<1>3. TypeOK'
  BY <1>1, <1>2 DEF TypeOK, StartInv, DropsExcess, front
<1>4. BatchInv'
  BY <1>1 DEF BatchInv, DropsExcess
<1>5. (NextInv /\ IdleInv /\ StartInv /\ NoFullBufferSleeps)'
  BY DEF NextInv, IdleInv, StartInv, NoFullBufferSleeps, DropsExcess, front
<1> QED BY <1>3, <1>4, <1>5

(* Writing one buffer of the batch to the file keeps the invariant. *)
LEMMA WritesBufferInv == LoggingInv /\ WritesBuffer => LoggingInv'
<1> SUFFICES ASSUME LoggingInv, WritesBuffer PROVE LoggingInv'
  OBVIOUS
<1> USE DEF LoggingInv
<1>1. position + 1 \in 1 .. Len(buffersToWrite) /\ position' = position + 1
  BY DEF TypeOK, WritesBuffer
<1>2. PICK b \in Buffer : b = buffersToWrite[position + 1]
  BY <1>1 DEF TypeOK
<1>3. b \in Seq(0 .. MaxLines) /\ Len(b) \in Nat
  BY <1>2, LoggingAssumption DEF Buffer
<1>4. file' \in Seq(0 .. MaxLines) /\ Len(file') = Len(file) + Len(b)
  BY <1>2, <1>3 DEF TypeOK, WritesBuffer
<1>5. flushed' \in 0 .. Len(file')
  BY <1>3, <1>4 DEF TypeOK, WritesBuffer
<1>6. TypeOK'
  BY <1>1, <1>4, <1>5 DEF TypeOK, WritesBuffer, front
<1>7. (NextInv /\ IdleInv /\ BatchInv /\ StartInv /\ NoFullBufferSleeps)'
  BY DEF NextInv, IdleInv, BatchInv, StartInv, NoFullBufferSleeps, WritesBuffer, front
<1> QED BY <1>6, <1>7

(* The end of a batch, with the assertions of threadFunc, keeps it. *)
LEMMA FlushesAndReusesInv == LoggingInv /\ FlushesAndReuses => LoggingInv'
<1> SUFFICES ASSUME LoggingInv, FlushesAndReuses PROVE LoggingInv'
  OBVIOUS
<1> USE DEF LoggingInv
<1>1. newBuffer1' = <<>> /\ newBuffer2' = <<>> /\ buffersToWrite' = <<>>
  BY DEF FlushesAndReuses, Refilled, BatchInv
<1>2. flushed' \in 0 .. Len(file') /\ position' \in 0 .. Len(buffersToWrite')
  BY <1>1 DEF TypeOK, FlushesAndReuses, Flushed
<1>3. TypeOK'
  BY <1>1, <1>2, EmptyIsBuffer DEF TypeOK, FlushesAndReuses, front, BufferPtr
<1>4. (NextInv /\ IdleInv /\ BatchInv /\ StartInv /\ NoFullBufferSleeps)'
  BY <1>1 DEF NextInv, IdleInv, BatchInv, StartInv, NoFullBufferSleeps, FlushesAndReuses, front
<1> QED BY <1>3, <1>4

(* Every step of the back end keeps it. *)
LEMMA BackEndInv == LoggingInv /\ BackEnd => LoggingInv'
<1> SUFFICES ASSUME LoggingInv, BackEnd PROVE LoggingInv'
  OBVIOUS
<1>1. CASE ThreadBegins
  <2>1. newBuffer1' \in BufferPtr /\ newBuffer2' \in BufferPtr
    BY <1>1, EmptyIsBuffer DEF ThreadBegins, BufferPtr
  <2>2. buffersToWrite = <<>>
    BY <1>1 DEF LoggingInv, StartInv, ThreadBegins
  <2> QED BY <1>1, <2>1, <2>2
    DEF LoggingInv, TypeOK, NextInv, IdleInv, BatchInv, StartInv, NoFullBufferSleeps,
        ThreadBegins, front, out
<1>2. CASE LoopAgain \/ Waits \/ WaitEnds \/ KeepsAll
  BY <1>2 DEF LoggingInv, TypeOK, NextInv, IdleInv, BatchInv, StartInv, NoFullBufferSleeps,
              LoopAgain, Waits, WaitEnds, KeepsAll, front, back, out
<1>3. CASE ThreadEnds
  BY <1>3 DEF LoggingInv, TypeOK, NextInv, IdleInv, BatchInv, StartInv, NoFullBufferSleeps,
              ThreadEnds, front, back
<1> QED BY <1>1, <1>2, <1>3, ExchangesInv, DropsExcessInv, WritesBufferInv, FlushesAndReusesInv
        DEF BackEnd

(* start and stop keep it. *)
LEMMA OwnerInv == LoggingInv /\ Owner => LoggingInv'
<1> SUFFICES ASSUME LoggingInv, Owner PROVE LoggingInv'
  OBVIOUS
<1> USE DEF LoggingInv, TypeOK, NextInv, IdleInv, BatchInv, StartInv, NoFullBufferSleeps
<1>1. CASE Starts
  BY <1>1 DEF Starts, front, back, out
<1>2. CASE StopClears
  <2>1. pcT # "begin" /\ pcT' = pcT
    BY <1>2 DEF StopClears, Started
  <2>2. running' \in BOOLEAN
    BY <1>2, Zenon DEF StopClears
  <2>3. TypeOK'
    BY <1>2, <2>1, <2>2 DEF StopClears, front, back, out
  <2>4. StartInv'
    BY <1>2, <2>1 DEF StopClears, front, back
  <2>5. (NextInv /\ IdleInv /\ BatchInv /\ NoFullBufferSleeps)'
    BY <1>2 DEF StopClears, front, back
  <2> QED BY <2>3, <2>4, <2>5
<1>3. CASE StopNotifies
  BY <1>3 DEF StopNotifies, Notified, front, back, out
<1>4. CASE StopJoins
  BY <1>4 DEF StopJoins, front, back, out
<1> QED BY <1>1, <1>2, <1>3, <1>4 DEF Owner

(* Every step keeps it. *)
LEMMA NextInvariant == LoggingInv /\ [Next]_vars => LoggingInv'
<1> SUFFICES ASSUME LoggingInv, [Next]_vars PROVE LoggingInv'
  OBVIOUS
<1>1. CASE UNCHANGED vars
  BY <1>1 DEF LoggingInv, TypeOK, NextInv, IdleInv, BatchInv, StartInv, NoFullBufferSleeps,
              vars, front, back, out
<1>2. CASE Finished
  BY <1>1, <1>2 DEF Finished
<1> QED BY <1>1, <1>2, AppendToCurrentInv, AppendToNextInv, BackEndInv, OwnerInv
        DEF Next, FrontEnd

(* It holds in every reachable state. *)
LEMMA LoggingInvariant == Spec => []LoggingInv
BY InitInv, NextInvariant, PTL DEF Spec

(* No buffer overflows and no pointer is null where the code dereferences  *)
(* it, for every buffer size.                                              *)
THEOREM TypeCorrect == Spec => []TypeOK
BY LoggingInvariant, PTL DEF LoggingInv

(* threadFunc's assertions never fail. *)
THEOREM AssertionsNeverFail == Spec => []AssertionsHold
<1>1. LoggingInv => AssertionsHold
  <2> SUFFICES ASSUME LoggingInv PROVE AssertionsHold
    OBVIOUS
  <2> USE DEF LoggingInv
  <2>1. pcT = "collected" => buffersToWrite # <<>>
    BY DEF BatchInv, TypeOK
  <2>2. ASSUME pcT = "write" PROVE EnoughToReuse
    <3>1. Len(Reusable) = IF Len(buffersToWrite) > 2 THEN 2 ELSE Len(buffersToWrite)
      BY DEF TypeOK, Reusable
    <3> QED BY <2>2, <3>1 DEF BatchInv, TypeOK, EnoughToReuse
  <2> QED BY <2>1, <2>2 DEF AssertionsHold, StartInv, IdleInv
<1> QED BY <1>1, LoggingInvariant, PTL

(* The back end never waits while a full buffer is queued. *)
THEOREM FullBufferWakesBackEnd == Spec => []NoFullBufferSleeps
BY LoggingInvariant, PTL DEF LoggingInv

-----------------------------------------------------------------------------
(* The lines.  Only DropsExcess takes lines out of the flow; every other   *)
(* step hands them on in order or adds the next one.                       *)

Line == 0 .. MaxLines

LinesInv ==
    /\ LinesOnceInOrder
    /\ ToSet(InFlight) \subseteq 0 .. appended
    /\ DropsAnnounced

Before(s, t) == \A a \in ToSet(s), b \in ToSet(t) : a # Dropped /\ b # Dropped => a < b

(* What a sequence has at an index is among its elements. *)
LEMMA ToSetIndex == \A s : \A i \in DOMAIN s : s[i] \in ToSet(s)
BY DEF ToSet

(* Concatenation, seen through the lines it holds and their order. *)
LEMMA JoinLines ==
    ASSUME NEW s \in Seq(Line), NEW t \in Seq(Line)
    PROVE  /\ ToSet(Join(s, t)) = ToSet(s) \cup ToSet(t)
           /\ InOrder(Join(s, t)) <=> InOrder(s) /\ InOrder(t) /\ Before(s, t)
<1> DEFINE u == Join(s, t)
           m == Len(s)
           n == Len(t)
<1>1. /\ u \in Seq(Line) /\ m \in Nat /\ n \in Nat /\ Len(u) = m + n
      /\ \A i \in 1 .. m + n : u[i] = IF i <= m THEN s[i] ELSE t[i - m]
      /\ DOMAIN s = 1 .. m /\ DOMAIN t = 1 .. n /\ DOMAIN u = 1 .. m + n
  <2>1. /\ u \in Seq(Line) /\ Len(u) = m + n
        /\ \A i \in 1 .. m + n : u[i] = IF i <= m THEN s[i] ELSE t[i - m]
    BY ConcatProperties DEF Join
  <2> HIDE DEF u
  <2> QED
    BY <2>1, LenProperties
<1>2. /\ \A i \in 1 .. m : s[i] \in Nat /\ i \in 1 .. m + n /\ u[i] = s[i]
      /\ \A i \in 1 .. n : t[i] \in Nat /\ m + i \in 1 .. m + n /\ u[m + i] = t[i]
      /\ \A i \in 1 .. m + n : i \in 1 .. m \/ \E k \in 1 .. n : i = m + k
  <2>1. \A i \in 1 .. m : s[i] \in Nat
    BY ElementOfSeq, LoggingAssumption DEF Line
  <2>2. \A i \in 1 .. n : t[i] \in Nat
    BY ElementOfSeq, LoggingAssumption DEF Line
  <2> HIDE DEF u, m, n
  <2>3. \A i \in 1 .. m : i \in 1 .. m + n /\ u[i] = s[i]
    BY <1>1
  <2>4. ASSUME NEW i \in 1 .. n PROVE m + i \in 1 .. m + n /\ u[m + i] = t[i]
    <3>1. m + i \in 1 .. m + n /\ ~(m + i <= m) /\ (m + i) - m = i
      BY <1>1
    <3> QED
      BY <1>1, <3>1
  <2>5. ASSUME NEW i \in 1 .. m + n PROVE i \in 1 .. m \/ \E k \in 1 .. n : i = m + k
    <3>1. CASE i > m
      <4>1. i - m \in 1 .. n /\ i = m + (i - m)
        BY <1>1, <3>1
      <4> QED
        BY <4>1
    <3> QED
      BY <1>1, <3>1
  <2> QED
    BY <2>1, <2>2, <2>3, <2>4, <2>5
<1> HIDE DEF u, m, n
<1>3. ToSet(u) = ToSet(s) \cup ToSet(t)
  <2>1. ASSUME NEW x \in ToSet(u) PROVE x \in ToSet(s) \cup ToSet(t)
    <3>1. PICK i \in 1 .. m + n : x = u[i]
      BY <1>1 DEF ToSet
    <3>2. CASE i \in 1 .. m
      BY <1>1, <1>2, <3>1, <3>2, ToSetIndex
    <3>3. ASSUME NEW k \in 1 .. n, i = m + k PROVE x \in ToSet(t)
      BY <1>1, <1>2, <3>1, <3>3, ToSetIndex
    <3> QED
      BY <1>2, <3>2, <3>3
  <2>2. \A x \in ToSet(s) : x \in ToSet(u)
    BY <1>1, <1>2, Zenon DEF ToSet
  <2>3. ASSUME NEW x \in ToSet(t) PROVE x \in ToSet(u)
    <3>1. PICK k \in 1 .. n : x = t[k]
      BY <1>1 DEF ToSet
    <3>2. m + k \in DOMAIN u /\ u[m + k] = x
      BY <1>1, <1>2, <3>1
    <3> QED
      BY <3>2, ToSetIndex
  <2> QED
    BY <2>1, <2>2, <2>3
<1>4. Len(u) = m + n /\ Len(s) = m /\ Len(t) = n
  BY <1>1 DEF m, n
<1>5. ASSUME InOrder(u) PROVE InOrder(s) /\ InOrder(t) /\ Before(s, t)
  <2>0. \A i, j \in 1 .. m + n : i < j /\ u[i] # Dropped /\ u[j] # Dropped => u[i] < u[j]
    BY <1>4, <1>5 DEF InOrder
  <2>1. InOrder(s)
    <3> SUFFICES ASSUME NEW i \in 1 .. m, NEW j \in 1 .. m, i < j, s[i] # Dropped, s[j] # Dropped
                 PROVE  s[i] < s[j]
      BY <1>4 DEF InOrder
    <3> QED
      BY <1>2, <2>0
  <2>2. InOrder(t)
    <3> SUFFICES ASSUME NEW i \in 1 .. n, NEW j \in 1 .. n, i < j, t[i] # Dropped, t[j] # Dropped
                 PROVE  t[i] < t[j]
      BY <1>4 DEF InOrder
    <3>1. m + i < m + j
      BY <1>1
    <3> QED
      BY <1>2, <2>0, <3>1, Zenon
  <2>3. Before(s, t)
    <3> SUFFICES ASSUME NEW a \in ToSet(s), NEW b \in ToSet(t), a # Dropped, b # Dropped
                 PROVE  a < b
      BY DEF Before
    <3>1. PICK i \in 1 .. m : a = s[i]
      BY <1>1 DEF ToSet
    <3>2. PICK j \in 1 .. n : b = t[j]
      BY <1>1 DEF ToSet
    <3>3. i < m + j
      BY <1>1
    <3> QED
      BY <1>2, <2>0, <3>1, <3>2, <3>3, Zenon
  <2> QED
    BY <2>1, <2>2, <2>3
<1>6. ASSUME InOrder(s), InOrder(t), Before(s, t) PROVE InOrder(u)
  <2> SUFFICES ASSUME NEW i \in 1 .. m + n, NEW j \in 1 .. m + n, i < j,
                      u[i] # Dropped, u[j] # Dropped
               PROVE  u[i] < u[j]
    BY <1>4 DEF InOrder
  <2>1. CASE j \in 1 .. m
    <3>1. i \in 1 .. m
      BY <1>1, <2>1
    <3> QED
      BY <1>2, <1>4, <1>6, <2>1, <3>1 DEF InOrder
  <2>2. ASSUME NEW k \in 1 .. n, j = m + k PROVE u[i] < u[j]
    <3>1. CASE i \in 1 .. m
      <4>1. u[i] = s[i] /\ u[j] = t[k] /\ s[i] \in ToSet(s) /\ t[k] \in ToSet(t)
        BY <1>1, <1>2, <2>2, <3>1, ToSetIndex
      <4> QED
        BY <1>6, <4>1 DEF Before
    <3>2. ASSUME NEW h \in 1 .. n, i = m + h PROVE u[i] < u[j]
      <4>1. u[i] = t[h] /\ u[j] = t[k] /\ h < k
        BY <1>1, <1>2, <2>2, <3>2
      <4> QED
        BY <1>4, <1>6, <4>1 DEF InOrder
    <3> QED
      BY <1>2, <3>1, <3>2
  <2> QED
    BY <1>2, <2>1, <2>2
<1> QED
  BY <1>3, <1>5, <1>6 DEF u

(* Sequences of no line and of one line. *)
LEMMA SmallLines ==
    /\ ToSet(<<>>) = {} /\ InOrder(<<>>)
    /\ \A x \in Line : <<x>> \in Seq(Line) /\ ToSet(<<x>>) = {x} /\ InOrder(<<x>>)
<1>1. ToSet(<<>>) = {} /\ InOrder(<<>>)
  BY DEF ToSet, InOrder
<1>2. ASSUME NEW x \in Line PROVE <<x>> \in Seq(Line) /\ ToSet(<<x>>) = {x} /\ InOrder(<<x>>)
  <2>1. <<x>> \in Seq(Line) /\ Len(<<x>>) = 1 /\ DOMAIN <<x>> = {1} /\ <<x>>[1] = x
    OBVIOUS
  <2>2. ToSet(<<x>>) = {x}
    BY <2>1 DEF ToSet
  <2>3. \A i, j \in 1 .. 1 : ~(i < j)
    OBVIOUS
  <2> QED
    BY <2>1, <2>2, <2>3 DEF InOrder
<1> QED
  BY <1>1, <1>2

(* What is in flight, as one sequence made of the four places. *)
LEMMA FlowTyped ==
    ASSUME LoggingInv
    PROVE  /\ file \in Seq(Line) /\ FlattenSeq(Unwritten) \in Seq(Line)
           /\ FlattenSeq(buffers) \in Seq(Line) /\ currentBuffer \in Seq(Line)
           /\ buffers \in Seq(Seq(Line)) /\ Unwritten \in Seq(Seq(Line))
           /\ buffersToWrite \in Seq(Seq(Line)) /\ Len(buffersToWrite) \in Nat
           /\ InFlight = Join(Join(Join(file, FlattenSeq(Unwritten)), FlattenSeq(buffers)),
                              currentBuffer)
           /\ InFlight \in Seq(Line)
<1>1. /\ file \in Seq(Line) /\ currentBuffer \in Buffer /\ buffers \in Seq(Buffer)
      /\ buffersToWrite \in Seq(Buffer) /\ position \in 0 .. Len(buffersToWrite)
  BY DEF LoggingInv, TypeOK, Line
<1>2. \A b \in Buffer : b \in Seq(Line)
  BY LoggingAssumption DEF Buffer, Line
<1>3. \A q \in Seq(Buffer) : q \in Seq(Seq(Line))
  BY <1>2
<1>4. buffers \in Seq(Seq(Line)) /\ buffersToWrite \in Seq(Seq(Line)) /\ currentBuffer \in Seq(Line)
  BY <1>1, <1>2, <1>3
<1>5. Len(buffersToWrite) \in Nat /\ \A i \in 1 .. Len(buffersToWrite) : buffersToWrite[i] \in Seq(Line)
  BY <1>4, LenProperties, ElementOfSeq
<1>6. Unwritten \in Seq(Seq(Line))
  <2>1. SubSeq(buffersToWrite, position + 1, Len(buffersToWrite)) \in Seq(Seq(Line))
    <3>1. position \in Nat /\ position + 1 \in Int /\ Len(buffersToWrite) \in Int
      BY <1>1, <1>5
    <3>2. \A i \in position + 1 .. Len(buffersToWrite) : buffersToWrite[i] \in Seq(Line)
      BY <1>5, <3>1
    <3> QED
      BY <3>1, <3>2, SubSeqProperties
  <2>2. <<>> \in Seq(Seq(Line))
    BY EmptySeq
  <2> QED
    BY <2>1, <2>2 DEF Unwritten
<1>7. \A q \in Seq(Seq(Line)) : FlattenSeq(q) \in Seq(Line)
  <2> SUFFICES ASSUME NEW q \in Seq(Seq(Line)) PROVE FlattenSeq(q) \in Seq(Line)
    OBVIOUS
  <2>1. Len(q) \in Nat /\ FlattenSeq(q) = Cat(q, Len(q)) /\ \A n \in 0 .. Len(q) : Cat(q, n) \in Seq(Line)
    BY CatDefined
  <2>2. Len(q) \in 0 .. Len(q)
    BY <2>1
  <2> QED
    BY <2>1, <2>2
<1>8. FlattenSeq(Unwritten) \in Seq(Line) /\ FlattenSeq(buffers) \in Seq(Line)
  BY <1>4, <1>6, <1>7
<1>9. InFlight = Join(Join(Join(file, FlattenSeq(Unwritten)), FlattenSeq(buffers)), currentBuffer)
  BY DEF InFlight, Join
<1>10. Join(Join(Join(file, FlattenSeq(Unwritten)), FlattenSeq(buffers)), currentBuffer) \in Seq(Line)
  <2>1. Join(file, FlattenSeq(Unwritten)) \in Seq(Line)
    BY <1>1, <1>8, JoinProperties
  <2>2. Join(Join(file, FlattenSeq(Unwritten)), FlattenSeq(buffers)) \in Seq(Line)
    BY <1>8, <2>1, JoinProperties
  <2> QED
    BY <1>4, <2>2, JoinProperties
<1> QED
  BY <1>1, <1>4, <1>5, <1>6, <1>8, <1>9, <1>10

(* A line appended to the second part is appended to the whole. *)
LEMMA LineJoinAppend ==
    ASSUME NEW s \in Seq(Line), NEW t \in Seq(Line), NEW c \in Line
    PROVE  Join(s, Append(t, c)) = Append(Join(s, t), c)
BY JoinProperties

(* InFlight in the next state, part by part. *)
LEMMA FlowNext ==
    InFlight' = Join(Join(Join(file', FlattenSeq(Unwritten')), FlattenSeq(buffers')), currentBuffer')
BY DEF InFlight, Join

(* append() adds the next line at the end of the flow. *)
LEMMA AppendFlow ==
    ASSUME LoggingInv, AppendToCurrent \/ AppendToNext
    PROVE  InFlight' = Append(InFlight, appended + 1) /\ file' = file /\ appended' = appended + 1
<1> DEFINE f == Join(file, FlattenSeq(Unwritten))
           l == appended + 1
<1>1. /\ file \in Seq(Line) /\ FlattenSeq(Unwritten) \in Seq(Line)
      /\ FlattenSeq(buffers) \in Seq(Line) /\ currentBuffer \in Seq(Line)
      /\ buffers \in Seq(Seq(Line))
      /\ InFlight = Join(Join(f, FlattenSeq(buffers)), currentBuffer)
  BY FlowTyped
<1>2. f \in Seq(Line) /\ Join(f, FlattenSeq(buffers)) \in Seq(Line)
  <2>1. f \in Seq(Line)
    BY <1>1, JoinProperties
  <2> HIDE DEF f
  <2> QED
    BY <1>1, <2>1, JoinProperties
<1>3. l \in Line /\ file' = file /\ appended' = l
  BY LoggingAssumption DEF LoggingInv, TypeOK, AppendToCurrent, AppendToNext, out, Line
<1>4. Unwritten' = Unwritten
  BY DEF Unwritten, AppendToCurrent, AppendToNext, Notified, back
<1> HIDE DEF f, l
<1>5. InFlight' = Join(Join(f, FlattenSeq(buffers')), currentBuffer')
  BY <1>3, <1>4, FlowNext DEF f
<1>6. CASE AppendToCurrent
  <2>1. buffers' = buffers /\ currentBuffer' = Append(currentBuffer, l)
    BY <1>6 DEF AppendToCurrent, l
  <2> DEFINE x == Join(f, FlattenSeq(buffers))
  <2>2. x \in Seq(Line)
    BY <1>2
  <2>3. InFlight' = Join(x, Append(currentBuffer, l)) /\ InFlight = Join(x, currentBuffer)
    BY <1>1, <1>5, <2>1
  <2> HIDE DEF x
  <2>4. Join(x, Append(currentBuffer, l)) = Append(Join(x, currentBuffer), l)
    BY <1>1, <1>3, <2>2, LineJoinAppend
  <2> QED
    BY <1>3, <2>3, <2>4 DEF l
<1>7. CASE AppendToNext
  <2>1. buffers' = Append(buffers, currentBuffer) /\ currentBuffer' = Append(<<>>, l)
    BY <1>7 DEF AppendToNext, l, LoggingInv, NextInv
  <2> DEFINE b == FlattenSeq(buffers)
  <2>2. FlattenSeq(buffers') = Join(b, currentBuffer)
    BY <1>1, <2>1, FlattenAppend
  <2>3. InFlight' = Join(Join(f, Join(b, currentBuffer)), Append(<<>>, l))
    BY <1>5, <2>1, <2>2
  <2>4. b \in Seq(Line) /\ InFlight = Join(Join(f, b), currentBuffer)
    BY <1>1
  <2> HIDE DEF b
  <2>5. Join(f, Join(b, currentBuffer)) = Join(Join(f, b), currentBuffer)
    BY <1>1, <1>2, <2>4, JoinProperties
  <2>6. <<>> \in Seq(Line) /\ InFlight \in Seq(Line)
    BY FlowTyped, EmptySeq
  <2>7. Join(InFlight, Append(<<>>, l)) = Append(Join(InFlight, <<>>), l)
    BY <1>3, <2>6, LineJoinAppend
  <2>8. Join(InFlight, <<>>) = InFlight
    BY <2>6, JoinProperties
  <2> QED
    BY <1>3, <2>3, <2>4, <2>5, <2>7, <2>8 DEF l
<1> QED
  BY <1>6, <1>7

(* The back end takes over what is queued, in order. *)
LEMMA ExchangeFlow ==
    ASSUME LoggingInv, Exchanges
    PROVE  InFlight' = InFlight /\ file' = file /\ appended' = appended
<1>1. /\ file \in Seq(Line)
      /\ FlattenSeq(buffers) \in Seq(Line) /\ currentBuffer \in Seq(Line)
      /\ buffers \in Seq(Seq(Line))
      /\ InFlight = Join(Join(Join(file, FlattenSeq(Unwritten)), FlattenSeq(buffers)), currentBuffer)
  BY FlowTyped
<1>2. /\ Unwritten = <<>> /\ buffers' = <<>> /\ currentBuffer' = <<>>
      /\ file' = file /\ appended' = appended
  BY DEF Exchanges, Unwritten, LoggingInv, IdleInv, out
<1>3. Unwritten' = Append(buffers, currentBuffer)
  <2>1. buffersToWrite' = Append(buffers, currentBuffer) /\ position' = 0 /\ pcT' = "collected"
    BY DEF Exchanges, Collected
  <2>2. buffersToWrite' \in Seq(Seq(Line))
    BY <1>1, <2>1, AppendProperties
  <2>3. Unwritten' = SubSeq(buffersToWrite', 1, Len(buffersToWrite'))
    BY <2>1 DEF Unwritten
  <2> QED
    BY <2>1, <2>2, <2>3, SubSeqFull
<1> DEFINE b == FlattenSeq(buffers)
<1>4. FlattenSeq(Unwritten') = Join(b, currentBuffer) /\ FlattenSeq(<<>>) = <<>>
  <2>1. FlattenSeq(<<>>) = <<>>
    BY DEF FlattenSeq
  <2> QED
    BY <1>1, <1>3, <2>1, FlattenAppend
<1>5. /\ InFlight' = Join(Join(Join(file, Join(b, currentBuffer)), <<>>), <<>>)
      /\ InFlight = Join(Join(Join(file, <<>>), b), currentBuffer)
      /\ b \in Seq(Line)
  BY <1>1, <1>2, <1>4, FlowNext
<1> HIDE DEF b
<1>6. <<>> \in Seq(Line) /\ Join(b, currentBuffer) \in Seq(Line)
  BY <1>1, <1>5, EmptySeq, JoinProperties
<1> DEFINE x == Join(file, Join(b, currentBuffer))
<1>7. x \in Seq(Line) /\ x = Join(Join(file, b), currentBuffer) /\ Join(file, <<>>) = file
  BY <1>1, <1>5, <1>6, JoinProperties
<1>8. InFlight' = Join(Join(x, <<>>), <<>>)
  BY <1>5
<1> HIDE DEF x
<1>9. Join(x, <<>>) = x
  BY <1>6, <1>7, JoinProperties
<1> QED
  BY <1>2, <1>5, <1>7, <1>8, <1>9

(* A buffer that is written moves from the batch to the file. *)
LEMMA WriteFlow ==
    ASSUME LoggingInv, WritesBuffer
    PROVE  InFlight' = InFlight /\ appended' = appended /\ Cardinality(Notices') = Cardinality(Notices)
<1> DEFINE n == Len(buffersToWrite)
           a == buffersToWrite[position + 1]
           b == FlattenSeq(buffers)
           r == FlattenSeq(Unwritten')
<1>1. /\ file \in Seq(Line) /\ Unwritten \in Seq(Seq(Line))
      /\ b \in Seq(Line) /\ currentBuffer \in Seq(Line)
      /\ buffersToWrite \in Seq(Seq(Line)) /\ n \in Nat
      /\ InFlight = Join(Join(Join(file, FlattenSeq(Unwritten)), b), currentBuffer)
  BY FlowTyped
<1>2. /\ buffers' = buffers /\ currentBuffer' = currentBuffer /\ appended' = appended
      /\ file' = Join(file, a) /\ buffersToWrite' = buffersToWrite
      /\ pcT' = pcT /\ pcT = "write" /\ position' = position + 1 /\ position < n
      /\ position \in 0 .. n
  BY DEF WritesBuffer, front, Join, LoggingInv, TypeOK
<1>3. position + 1 \in 1 .. n /\ n \in position + 1 .. n
  BY <1>1, <1>2
<1>4. Unwritten = SubSeq(buffersToWrite, position + 1, n)
  BY <1>2 DEF Unwritten
<1>5. Unwritten' = SubSeq(buffersToWrite, (position + 1) + 1, n)
  BY <1>2 DEF Unwritten
<1>6. Head(Unwritten) = a /\ Tail(Unwritten) = Unwritten'
  BY <1>1, <1>3, <1>4, <1>5, HeadTailOfSubSeq
<1>7. Unwritten # <<>>
  <2>1. \A i \in position + 1 .. n : buffersToWrite[i] \in Seq(Line)
    BY <1>1, <1>2, ElementOfSeq
  <2>2. Len(Unwritten) = IF position + 1 <= n THEN n - (position + 1) + 1 ELSE 0
    <3>1. position + 1 \in Int /\ n \in Int
      BY <1>1, <1>3
    <3> QED
      BY <1>4, <2>1, <3>1, SubSeqProperties
  <2>3. Len(Unwritten) > 0
    BY <1>1, <1>3, <2>2
  <2>4. Len(<<>>) = 0
    OBVIOUS
  <2> QED
    BY <2>3, <2>4
<1>8. FlattenSeq(Unwritten) = Join(a, r) /\ a \in Seq(Line) /\ r \in Seq(Line)
  BY <1>1, <1>6, <1>7, FlattenHead
<1>9. InFlight' = Join(Join(Join(Join(file, a), r), b), currentBuffer)
  BY <1>2, FlowNext
<1>10. a \in Buffer
  BY <1>3, ElementOfSeq DEF LoggingInv, TypeOK
<1> HIDE DEF a, r, b, n
<1>11. Join(file, Join(a, r)) = Join(Join(file, a), r)
  BY <1>1, <1>8, JoinProperties
<1>12. InFlight' = InFlight
  BY <1>1, <1>8, <1>9, <1>11
<1>13. Notices' = Notices
  <2>1. /\ Len(file) \in Nat /\ Len(a) \in Nat /\ Len(file') = Len(file) + Len(a)
        /\ \A i \in 1 .. Len(file) + Len(a) :
              file'[i] = IF i <= Len(file) THEN file[i] ELSE a[i - Len(file)]
    BY <1>1, <1>2, <1>8, ConcatProperties, LenProperties DEF Join
  <2>2. \A i \in 1 .. Len(a) : a[i] # Dropped
    <3>1. a \in Seq(1 .. MaxLines)
      BY <1>10 DEF Buffer
    <3>2. \A i \in 1 .. Len(a) : a[i] \in 1 .. MaxLines
      BY <3>1, ElementOfSeq
    <3> QED
      BY <3>2, LoggingAssumption DEF Dropped
  <2>3. ASSUME NEW i \in 1 .. Len(file'), file'[i] = Dropped PROVE i \in Notices
    <3>1. CASE i <= Len(file)
      BY <2>1, <2>3, <3>1 DEF Notices
    <3>2. CASE i > Len(file)
      <4>1. i - Len(file) \in 1 .. Len(a) /\ file'[i] = a[i - Len(file)]
        BY <2>1, <3>2
      <4> QED
        BY <2>2, <2>3, <4>1
    <3> QED
      BY <2>1, <3>1, <3>2
  <2>4. ASSUME NEW i \in 1 .. Len(file), file[i] = Dropped PROVE i \in Notices'
    BY <2>1, <2>4 DEF Notices
  <2> QED
    BY <2>3, <2>4 DEF Notices
<1> QED
  BY <1>2, <1>12, <1>13

(* Dropping cuts one stretch out of the flow: of the lines that are lost   *)
(* with it, only the last can be the end of a new gap.                     *)
LEMMA DropFlow ==
    ASSUME LoggingInv, LinesInv, DropsExcess
    PROVE  /\ LinesOnceInOrder' /\ appended' = appended
           /\ ToSet(InFlight)' \subseteq 0 .. appended
           /\ \E x : Gaps' \subseteq Gaps \cup {x}
           /\ Cardinality(Notices') = Cardinality(Notices) + 1
<1> DEFINE a == FlattenSeq(Unwritten')
           b == FlattenSeq(buffers)
           c == currentBuffer
           z == <<Dropped>>
<1>1. /\ file \in Seq(Line) /\ Unwritten \in Seq(Seq(Line))
      /\ b \in Seq(Line) /\ c \in Seq(Line)
      /\ buffersToWrite \in Seq(Seq(Line)) /\ Len(buffersToWrite) \in Nat
      /\ InFlight = Join(Join(Join(file, FlattenSeq(Unwritten)), b), c)
  BY FlowTyped
<1>2. /\ buffers' = buffers /\ currentBuffer' = currentBuffer /\ appended' = appended
      /\ file' = Join(file, z) /\ buffersToWrite' = SubSeq(buffersToWrite, 1, 2)
      /\ pcT = "collected" /\ pcT' = "write" /\ position = 0 /\ position' = 0
      /\ Len(buffersToWrite) > MaxBuffers
  BY DEF DropsExcess, DropNotice, front, Join, LoggingInv, StartInv
<1>3. Len(buffersToWrite) >= 2
  BY <1>1, <1>2, LoggingAssumption
<1>4. Unwritten = buffersToWrite
  <2>1. Unwritten = SubSeq(buffersToWrite, 1, Len(buffersToWrite))
    BY <1>2 DEF Unwritten
  <2> QED
    BY <1>1, <2>1, SubSeqFull
<1>5. Unwritten' = SubSeq(buffersToWrite, 1, 2)
  <2>1. Unwritten' = SubSeq(buffersToWrite', 1, Len(buffersToWrite'))
    BY <1>2 DEF Unwritten
  <2>2. buffersToWrite' \in Seq(Seq(Line))
    <3>1. \A i \in 1 .. 2 : buffersToWrite[i] \in Seq(Line)
      BY <1>1, <1>3, ElementOfSeq
    <3> QED
      BY <1>2, <3>1, SubSeqProperties
  <2> QED
    BY <1>2, <2>1, <2>2, SubSeqFull
<1>6. PICK r \in Seq(Line) : FlattenSeq(Unwritten) = Join(a, r) /\ a \in Seq(Line)
  <2>1. 2 \in Nat /\ 2 <= Len(buffersToWrite)
    BY <1>3
  <2> QED
    BY <1>1, <1>4, <1>5, <2>1, FlattenPrefix
<1>7. InFlight' = Join(Join(Join(Join(file, z), a), b), c)
  BY <1>2, FlowNext
<1>8. z \in Seq(Line) /\ ToSet(z) = {Dropped} /\ InOrder(z)
  BY SmallLines, LoggingAssumption DEF Line, Dropped
<1> HIDE DEF a, b, c, z
<1> DEFINE F == ToSet(file)
           A == ToSet(a)
           R == ToSet(r)
           B == ToSet(b)
           C == ToSet(c)
<1>9. /\ Join(a, r) \in Seq(Line) /\ Join(file, Join(a, r)) \in Seq(Line)
      /\ Join(Join(file, Join(a, r)), b) \in Seq(Line)
  <2>1. Join(a, r) \in Seq(Line)
    BY <1>6, JoinProperties
  <2>2. Join(file, Join(a, r)) \in Seq(Line)
    BY <1>1, <2>1, JoinProperties
  <2> QED
    BY <1>1, <2>1, <2>2, JoinProperties
<1>10. /\ Join(file, z) \in Seq(Line) /\ Join(Join(file, z), a) \in Seq(Line)
       /\ Join(Join(Join(file, z), a), b) \in Seq(Line)
  <2>1. Join(file, z) \in Seq(Line)
    BY <1>1, <1>8, JoinProperties
  <2>2. Join(Join(file, z), a) \in Seq(Line)
    BY <1>6, <2>1, JoinProperties
  <2> QED
    BY <1>1, <2>1, <2>2, JoinProperties
<1>11. InOrder(InFlight) /\ ToSet(InFlight) \subseteq 0 .. appended
  BY DEF LinesInv, LinesOnceInOrder
<1>12. /\ InOrder(c) /\ Before(Join(Join(file, Join(a, r)), b), c)
       /\ ToSet(InFlight) = ToSet(Join(Join(file, Join(a, r)), b)) \cup C
       /\ InOrder(Join(Join(file, Join(a, r)), b))
  BY <1>1, <1>6, <1>9, <1>11, JoinLines
<1>13. /\ InOrder(b) /\ Before(Join(file, Join(a, r)), b)
       /\ ToSet(Join(Join(file, Join(a, r)), b)) = ToSet(Join(file, Join(a, r))) \cup B
       /\ InOrder(Join(file, Join(a, r)))
  BY <1>1, <1>9, <1>12, JoinLines
<1>14. /\ InOrder(file) /\ Before(file, Join(a, r))
       /\ ToSet(Join(file, Join(a, r))) = F \cup ToSet(Join(a, r))
       /\ InOrder(Join(a, r))
  BY <1>1, <1>9, <1>13, JoinLines
<1>15. InOrder(a) /\ Before(a, r) /\ ToSet(Join(a, r)) = A \cup R
  BY <1>6, <1>14, JoinLines
<1>16. ToSet(InFlight) = F \cup A \cup R \cup B \cup C
  BY <1>12, <1>13, <1>14, <1>15
<1>17. /\ ToSet(Join(file, z)) = F \cup {Dropped}
       /\ ToSet(Join(Join(file, z), a)) = F \cup {Dropped} \cup A
       /\ ToSet(Join(Join(Join(file, z), a), b)) = F \cup {Dropped} \cup A \cup B
       /\ ToSet(InFlight') = F \cup {Dropped} \cup A \cup B \cup C
  <2>1. ToSet(Join(file, z)) = F \cup {Dropped}
    BY <1>1, <1>8, JoinLines
  <2>2. ToSet(Join(Join(file, z), a)) = F \cup {Dropped} \cup A
    BY <1>6, <1>10, <2>1, JoinLines
  <2>3. ToSet(Join(Join(Join(file, z), a), b)) = F \cup {Dropped} \cup A \cup B
    BY <1>1, <1>10, <2>2, JoinLines
  <2>4. ToSet(InFlight') = F \cup {Dropped} \cup A \cup B \cup C
    BY <1>1, <1>7, <1>10, <2>3, JoinLines
  <2> QED
    BY <2>1, <2>2, <2>3, <2>4
<1>18. InOrder(InFlight')
  <2>1. InOrder(Join(file, z))
    <3>1. Before(file, z)
      BY <1>8 DEF Before
    <3> QED
      BY <1>1, <1>8, <1>14, <3>1, JoinLines
  <2>2. InOrder(Join(Join(file, z), a))
    <3>1. Before(Join(file, z), a)
      BY <1>14, <1>15, <1>17 DEF Before
    <3> QED
      BY <1>6, <1>10, <1>15, <2>1, <3>1, JoinLines
  <2>3. InOrder(Join(Join(Join(file, z), a), b))
    <3>1. Before(Join(Join(file, z), a), b)
      BY <1>13, <1>14, <1>15, <1>17 DEF Before
    <3> QED
      BY <1>1, <1>10, <1>13, <2>2, <3>1, JoinLines
  <2>4. Before(Join(Join(Join(file, z), a), b), c)
    BY <1>12, <1>13, <1>14, <1>15, <1>17 DEF Before
  <2> QED
    BY <1>1, <1>7, <1>10, <1>12, <2>3, <2>4, JoinLines
<1>19. appended \in Nat
  BY LoggingAssumption DEF LoggingInv, TypeOK
<1>20. ToSet(InFlight') \subseteq 0 .. appended
  BY <1>11, <1>16, <1>17, <1>19 DEF Dropped
<1>21. /\ Lost = (1 .. appended) \ (F \cup A \cup R \cup B \cup C)
       /\ Lost' = (1 .. appended) \ (F \cup {Dropped} \cup A \cup B \cup C)
  BY <1>2, <1>16, <1>17 DEF Lost
<1>22. ASSUME NEW y \in Gaps' \ Gaps
       PROVE  y \in R /\ y \in Nat /\ \A w \in R : w <= y
  <2>1. y \in Lost' /\ y + 1 \notin Lost'
    BY DEF Gaps
  <2>2. y \in 1 .. appended /\ y \notin F \cup A \cup B \cup C
    BY <1>21, <2>1
  <2>3. y \in R
    <3>1. Lost \subseteq Lost'
      BY <1>21 DEF Dropped
    <3>2. y \notin Lost
      BY <2>1, <3>1 DEF Gaps
    <3> QED
      BY <1>21, <2>2, <3>2
  <2>4. y \in Nat /\ y # Dropped /\ y + 1 # Dropped
    BY <1>19, <2>2 DEF Dropped
  <2>5. y = appended \/ y + 1 \in F \cup A \cup B \cup C
    BY <1>19, <1>21, <2>1, <2>2, <2>4
  <2>6. y + 1 \notin F \cup A
    <3>1. ~(y + 1 < y)
      BY <2>4
    <3>2. y + 1 \notin F
      BY <1>14, <1>15, <2>3, <2>4, <3>1 DEF Before
    <3>3. y + 1 \notin A
      BY <1>15, <2>3, <2>4, <3>1 DEF Before
    <3> QED
      BY <3>2, <3>3
  <2>7. \A w \in R : w \in Nat /\ w <= appended
    BY <1>11, <1>16, <1>19
  <2>8. ASSUME NEW w \in R PROVE w <= y
    <3>1. CASE y = appended
      BY <2>7, <3>1
    <3>2. CASE w = Dropped
      BY <2>4, <3>2 DEF Dropped
    <3>3. CASE y + 1 \in B \cup C /\ w # Dropped
      <4>1. w < y + 1
        <5>1. CASE y + 1 \in B
          BY <1>13, <1>14, <1>15, <2>4, <3>3, <5>1 DEF Before
        <5>2. CASE y + 1 \in C
          BY <1>12, <1>13, <1>14, <1>15, <2>4, <3>3, <5>2 DEF Before
        <5> QED
          BY <3>3, <5>1, <5>2
      <4> QED
        BY <2>4, <2>7, <4>1
    <3> QED
      BY <2>5, <2>6, <3>1, <3>2, <3>3
  <2> QED
    BY <2>3, <2>4, <2>8
<1>23. \E x : Gaps' \subseteq Gaps \cup {x}
  <2>1. CASE Gaps' \subseteq Gaps
    BY <2>1
  <2>2. CASE ~(Gaps' \subseteq Gaps)
    <3>1. PICK x : x \in Gaps' \ Gaps
      BY <2>2
    <3>2. ASSUME NEW y \in Gaps' \ Gaps PROVE y = x
      <4>1. x \in Nat /\ y \in Nat /\ x <= y /\ y <= x
        BY <1>22, <3>1
      <4> QED
        BY <4>1
    <3>3. Gaps' \subseteq Gaps \cup {x}
      BY <3>2
    <3> QED
      BY <3>3
  <2> QED
    BY <2>1, <2>2
<1>24. Cardinality(Notices') = Cardinality(Notices) + 1
  <2> DEFINE n == Len(file)
             N == Notices
  <2>1. /\ n \in Nat /\ Len(file') = n + 1 /\ file'[n + 1] = Dropped
        /\ \A i \in 1 .. n : file'[i] = file[i]
    BY <1>1, <1>2 DEF Join, z
  <2>2. N \subseteq 1 .. n /\ N = {i \in 1 .. n : file[i] = Dropped}
    BY DEF Notices
  <2>3. Notices' = {i \in 1 .. n + 1 : file'[i] = Dropped}
    BY <2>1 DEF Notices
  <2> HIDE DEF n, N
  <2>4. Notices' = N \cup {n + 1} /\ n + 1 \notin N
    BY <2>1, <2>2, <2>3
  <2>5. IsFiniteSet(1 .. n)
    BY <2>1, FS_Interval
  <2>6. IsFiniteSet(N)
    BY <2>2, <2>5, FS_Subset
  <2>7. Cardinality(N \cup {n + 1}) = Cardinality(N) + 1
    BY <2>4, <2>6, FS_AddElement
  <2> QED
    BY <2>4, <2>7 DEF N
<1> QED
  BY <1>2, <1>18, <1>20, <1>23, <1>24 DEF LinesOnceInOrder

(* Before the first line there is nothing to account for. *)
LEMMA LinesInit == Init => LinesInv
<1> SUFFICES ASSUME Init PROVE LinesInv
  OBVIOUS
<1>1. /\ file = <<>> /\ Unwritten = <<>> /\ buffers = <<>> /\ currentBuffer = <<>>
      /\ appended = 0
  BY DEF Init, Unwritten
<1>2. InFlight = <<>>
  <2>1. <<>> \in Seq(Line) /\ <<>> \in Seq(Seq(Line)) /\ Len(<<>>) = 0
    OBVIOUS
  <2>2. FlattenSeq(<<>>) = <<>>
    BY <2>1, CatDefined
  <2>3. InFlight = Join(Join(Join(<<>>, <<>>), <<>>), <<>>)
    BY <1>1, <2>2 DEF InFlight, Join
  <2>4. Join(<<>>, <<>>) = <<>>
    BY <2>1, JoinProperties
  <2> QED
    BY <2>3, <2>4
<1>3. ToSet(InFlight) = {} /\ LinesOnceInOrder
  BY <1>2, SmallLines DEF LinesOnceInOrder
<1>4. Gaps = {} /\ Notices = {}
  BY <1>1 DEF Gaps, Lost, Notices
<1>5. DropsAnnounced
  BY <1>4, FS_EmptySet DEF DropsAnnounced
<1> QED
  BY <1>3, <1>5 DEF LinesInv

(* A step that leaves the flow and the number of lines alone, and removes  *)
(* no notice, keeps the lines accounted for.                               *)
LEMMA SameFlow ==
    ASSUME LinesInv, InFlight' = InFlight, appended' = appended,
           Cardinality(Notices') = Cardinality(Notices)
    PROVE  LinesInv'
<1>1. Lost' = Lost
  BY DEF Lost
<1>2. Gaps' = Gaps
  BY <1>1 DEF Gaps
<1> QED
  BY <1>2 DEF LinesInv, LinesOnceInOrder, DropsAnnounced

(* append adds the newest line at the end of what is in flight. *)
LEMMA AppendLines == LoggingInv /\ LinesInv /\ FrontEnd => LinesInv'
<1> SUFFICES ASSUME LoggingInv, LinesInv, FrontEnd PROVE LinesInv'
  OBVIOUS
<1> DEFINE n == appended
           s == InFlight
           o == <<n + 1>>
<1>1. InFlight' = Append(s, n + 1) /\ file' = file /\ appended' = n + 1
  BY AppendFlow DEF FrontEnd
<1>2. n \in Nat /\ n + 1 \in Line
  BY LoggingAssumption DEF LoggingInv, TypeOK, FrontEnd, AppendToCurrent, AppendToNext, Line
<1>3. s \in Seq(Line)
  BY FlowTyped
<1>4. o \in Seq(Line) /\ ToSet(o) = {n + 1} /\ InOrder(o)
  BY <1>2, SmallLines
<1>5. InFlight' = Join(s, o)
  BY <1>1, <1>2, <1>3, AppendIsConcat DEF Join
<1>6. InOrder(s) /\ ToSet(s) \subseteq 0 .. n /\ Cardinality(Gaps) <= Cardinality(Notices)
  BY DEF LinesInv, LinesOnceInOrder, DropsAnnounced
<1>7. Lost = (1 .. n) \ ToSet(s) /\ Lost' = (1 .. n + 1) \ ToSet(InFlight')
  BY <1>1 DEF Lost
<1> HIDE DEF o, s, n
<1>8. Before(s, o)
  BY <1>2, <1>4, <1>6 DEF Before
<1>9. ToSet(InFlight') = ToSet(s) \cup {n + 1} /\ InOrder(InFlight')
  BY <1>3, <1>4, <1>5, <1>6, <1>8, JoinLines
<1>10. ToSet(InFlight') \subseteq 0 .. n + 1
  BY <1>2, <1>6, <1>9
<1>11. Lost' = Lost
  BY <1>2, <1>6, <1>7, <1>9
<1>12. Gaps' = Gaps /\ Notices' = Notices
  BY <1>1, <1>11 DEF Gaps, Notices
<1>13. DropsAnnounced'
  BY <1>6, <1>12 DEF DropsAnnounced
<1> QED
  BY <1>1, <1>9, <1>10, <1>13 DEF LinesInv, LinesOnceInOrder

(* The drop path announces what it takes out of the batch. *)
LEMMA DropLines == LoggingInv /\ LinesInv /\ DropsExcess => LinesInv'
<1> SUFFICES ASSUME LoggingInv, LinesInv, DropsExcess PROVE LinesInv'
  OBVIOUS
<1>1. /\ LinesOnceInOrder' /\ appended' = appended
      /\ ToSet(InFlight)' \subseteq 0 .. appended
      /\ Cardinality(Notices') = Cardinality(Notices) + 1
  BY DropFlow
<1>2. PICK x : Gaps' \subseteq Gaps \cup {x}
  BY DropFlow
<1>3. appended \in Nat
  BY LoggingAssumption DEF LoggingInv, TypeOK
<1>4. IsFiniteSet(1 .. appended)
  BY <1>3, FS_Interval
<1>5. Gaps \subseteq 1 .. appended
  BY DEF Gaps, Lost
<1>6. IsFiniteSet(Gaps)
  BY <1>4, <1>5, FS_Subset
<1>7. /\ IsFiniteSet(Gaps \cup {x}) /\ Cardinality(Gaps) \in Nat
      /\ Cardinality(Gaps \cup {x}) <= Cardinality(Gaps) + 1
  <2>1. Cardinality(Gaps) \in Nat
    BY <1>6, FS_CardinalityType
  <2> QED
    BY <1>6, <2>1, FS_AddElement
<1>8. /\ Cardinality(Gaps') <= Cardinality(Gaps \cup {x})
      /\ Cardinality(Gaps') \in Nat /\ Cardinality(Gaps \cup {x}) \in Nat
  <2>1. IsFiniteSet(Gaps') /\ Cardinality(Gaps') <= Cardinality(Gaps \cup {x})
    BY <1>2, <1>7, FS_Subset
  <2> QED
    BY <1>7, <2>1, FS_CardinalityType
<1>9. Cardinality(Notices) \in Nat
  <2>1. Len(file) \in Nat
    BY DEF LoggingInv, TypeOK
  <2>2. IsFiniteSet(1 .. Len(file)) /\ Notices \subseteq 1 .. Len(file)
    BY <2>1, FS_Interval DEF Notices
  <2>3. IsFiniteSet(Notices)
    BY <2>2, FS_Subset
  <2> QED
    BY <2>3, FS_CardinalityType
<1>10. Cardinality(Gaps) <= Cardinality(Notices)
  BY DEF LinesInv, DropsAnnounced
<1>11. Cardinality(Gaps') <= Cardinality(Notices')
  BY <1>1, <1>7, <1>8, <1>9, <1>10
<1> QED
  BY <1>1, <1>11 DEF LinesInv, DropsAnnounced

(* The steps that do not touch the lines at all. *)
LEMMA QuietLines ==
    ASSUME LoggingInv, LinesInv,
           ThreadBegins \/ LoopAgain \/ ThreadEnds \/ Waits \/ WaitEnds \/ KeepsAll
              \/ FlushesAndReuses \/ Owner \/ UNCHANGED vars
    PROVE  LinesInv'
<1>1. /\ file' = file /\ buffers' = buffers /\ currentBuffer' = currentBuffer
      /\ appended' = appended
  BY DEF ThreadBegins, LoopAgain, ThreadEnds, Waits, WaitEnds, KeepsAll, FlushesAndReuses,
         Owner, Starts, StopClears, StopNotifies, StopJoins, vars, front, back, out
<1>2. Unwritten' = Unwritten
  <2>1. CASE FlushesAndReuses
    <3>1. /\ pcT = "write" /\ position = Len(buffersToWrite) /\ pcT' = "loop"
          /\ Len(buffersToWrite) \in Nat /\ buffersToWrite \in Seq(Buffer)
      BY <2>1 DEF FlushesAndReuses, LoggingInv, TypeOK
    <3>2. Unwritten = SubSeq(buffersToWrite, position + 1, Len(buffersToWrite))
      BY <3>1 DEF Unwritten
    <3>3. SubSeq(buffersToWrite, position + 1, Len(buffersToWrite)) = <<>>
      BY <3>1
    <3> QED
      BY <3>1, <3>2, <3>3 DEF Unwritten
  <2>2. CASE ThreadBegins \/ LoopAgain \/ ThreadEnds \/ Waits \/ WaitEnds
    BY <2>2 DEF ThreadBegins, LoopAgain, ThreadEnds, Waits, WaitEnds, Unwritten
  <2>3. CASE KeepsAll \/ UNCHANGED vars
    BY <2>3 DEF KeepsAll, vars, back, Unwritten
  <2>4. CASE Owner
    <3>1. CASE Starts
      BY <3>1 DEF Starts, Unwritten, LoggingInv, StartInv
    <3>2. CASE StopClears \/ StopNotifies \/ StopJoins
      BY <3>2 DEF StopClears, StopNotifies, StopJoins, Notified, back, Unwritten
    <3> QED
      BY <2>4, <3>1, <3>2 DEF Owner
  <2> QED
    BY <2>1, <2>2, <2>3, <2>4
<1>3. InFlight' = InFlight /\ Notices' = Notices
  BY <1>1, <1>2 DEF InFlight, Notices
<1> QED
  BY <1>1, <1>3, SameFlow

(* Every step keeps the lines accounted for. *)
LEMMA LinesNext == LoggingInv /\ LinesInv /\ [Next]_vars => LinesInv'
<1> SUFFICES ASSUME LoggingInv, LinesInv, [Next]_vars PROVE LinesInv'
  OBVIOUS
<1>1. CASE Exchanges
  <2>1. InFlight' = InFlight /\ file' = file /\ appended' = appended
    BY <1>1, ExchangeFlow
  <2>2. Notices' = Notices
    BY <2>1 DEF Notices
  <2> QED
    BY <2>1, <2>2, SameFlow
<1>2. CASE WritesBuffer
  BY <1>2, WriteFlow, SameFlow
<1>3. CASE Finished
  BY <1>3, QuietLines DEF Finished
<1> QED
  BY <1>1, <1>2, <1>3, AppendLines, DropLines, QuietLines DEF Next, BackEnd

(* Every line append() accepted is written once and in order, or falls in  *)
(* a gap for which the file holds a "Dropped" record.                      *)
THEOREM LinesWrittenOrAnnounced == Spec => []LinesAccountedFor
<1>1. LinesInv => LinesAccountedFor
  BY DEF LinesInv, LinesAccountedFor
<1> QED
  BY <1>1, LinesInit, LinesNext, LoggingInvariant, PTL DEF Spec
=============================================================================
