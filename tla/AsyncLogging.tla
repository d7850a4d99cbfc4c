---------------------------- MODULE AsyncLogging ----------------------------
(***************************************************************************)
(* The double-buffered asynchronous logger (muduo_log/AsyncLogging.cc):    *)
(* front-end threads append lines under the mutex, one back-end thread     *)
(* (threadFunc) exchanges the filled buffers for empty ones and writes     *)
(* them to a LogFile without the lock, and the owner starts and stops it.  *)
(*                                                                         *)
(* append is one critical section, so the front-end threads need no state: *)
(* lines are numbered in the order in which they got the mutex.  A line    *)
(* occupies one unit of a buffer (a Logger line is at most kSmallBuffer    *)
(* bytes, a buffer kLargeBuffer).  The back end's own buffers are touched  *)
(* by no other thread, so only its critical section, its reads of running_ *)
(* and its file operations are separate steps.                             *)
(***************************************************************************)
EXTENDS Integers, Sequences, SequencesExt

CONSTANTS BufferSize,    \* capacity of a Buffer, in lines
          MaxBuffers,    \* more buffers than this in one round are dropped (25)
          MaxLines,      \* bound: lines appended
          Null           \* an empty BufferPtr

ASSUME LoggingAssumption ==
    /\ BufferSize \in Nat /\ BufferSize > 1
    /\ MaxBuffers \in Nat /\ MaxBuffers > 1
    /\ MaxLines \in Nat
    /\ Null \notin Seq(Nat)

VARIABLES running,                                \* running_
          latch,                                  \* latch_'s count
          currentBuffer, nextBuffer, buffers,     \* guarded by mutex_
          newBuffer1, newBuffer2, buffersToWrite, \* locals of threadFunc
          position,    \* buffers of buffersToWrite already given to the file
          pcT,         \* the back-end thread's place in threadFunc
          pcM,         \* the owner's place in start() and stop()
          file,        \* what LogFile::append was given: lines, 0 for "Dropped"
          flushed,     \* Len(file) at the last LogFile::flush
          appended     \* lines appended so far

front == <<currentBuffer, nextBuffer, buffers, appended>>
back == <<newBuffer1, newBuffer2, buffersToWrite, position>>
out == <<file, flushed>>
vars == <<running, latch, front, back, pcT, pcM, out>>

Dropped == 0

Init ==
    /\ running = FALSE /\ latch = 1
    /\ currentBuffer = <<>> /\ nextBuffer = <<>> /\ buffers = <<>>
    /\ newBuffer1 = Null /\ newBuffer2 = Null /\ buffersToWrite = <<>>
    /\ position = 0
    /\ pcT = "none" /\ pcM = "new"
    /\ file = <<>> /\ flushed = 0
    /\ appended = 0

-----------------------------------------------------------------------------
(* Front end. *)

(* Mutant: notify is forgotten. *)
NotifiedNever(pc) == pc

(* cond_.notify(): the back-end thread is the only one that waits. *)
Notified(pc) == IF pc = "waiting" THEN "woken" ELSE pc

(* Mutant: the line goes in when the buffer has exactly no room left.      *)
FitsLate(buffer) == BufferSize - Len(buffer) >= 1

(* currentBuffer_->avail() > len. *)
Fits(buffer) == BufferSize - Len(buffer) > 1

AppendToCurrent ==
    /\ appended < MaxLines
    /\ Fits(currentBuffer)
    /\ currentBuffer' = Append(currentBuffer, appended + 1)
    /\ appended' = appended + 1
    /\ UNCHANGED <<running, latch, nextBuffer, buffers, back, pcT, pcM, out>>

(* The current buffer is full: queue it, go on with the spare buffer or a  *)
(* freshly allocated one (empty either way), wake the back end.            *)
AppendToNext ==
    /\ appended < MaxLines
    /\ ~Fits(currentBuffer)
    /\ buffers' = Append(buffers, currentBuffer)
    /\ currentBuffer' = Append(IF nextBuffer # Null THEN nextBuffer ELSE <<>>, appended + 1)
    /\ nextBuffer' = Null
    /\ appended' = appended + 1
    /\ pcT' = Notified(pcT)
    /\ UNCHANGED <<running, latch, back, pcM, out>>

-----------------------------------------------------------------------------
(* Back end: threadFunc. *)

(* The thread counts the latch down and allocates its two spare buffers.   *)
ThreadBegins ==
    /\ pcT = "begin"
    /\ latch' = latch - 1
    /\ newBuffer1' = <<>> /\ newBuffer2' = <<>>
    /\ pcT' = "loop"
    /\ UNCHANGED <<running, front, buffersToWrite, position, pcM, out>>

(* while (running_). *)
LoopAgain ==
    /\ pcT = "loop" /\ running
    /\ pcT' = "lock"
    /\ UNCHANGED <<running, latch, front, back, pcM, out>>

(* The loop is left: the last output.flush(), and ~LogFile. *)
ThreadEnds ==
    /\ pcT = "loop" /\ ~running
    /\ flushed' = Len(file)
    /\ pcT' = "exited"
    /\ UNCHANGED <<running, latch, front, back, pcM, file>>

(* Nothing queued: cond_.waitForSeconds(flushInterval_). *)
Waits ==
    /\ pcT = "lock" /\ buffers = <<>>
    /\ pcT' = "waiting"
    /\ UNCHANGED <<running, latch, front, back, pcM, out>>

(* The wait runs out, or ends spuriously: the code tells neither from a    *)
(* notification.                                                           *)
WaitEnds ==
    /\ pcT = "waiting"
    /\ pcT' = "woken"
    /\ UNCHANGED <<running, latch, front, back, pcM, out>>

(* buffers_.push_back(std::move(currentBuffer_)) and the swap. *)
Collected == Append(buffers, currentBuffer)

(* Mutant: newBuffer2 is handed over although the spare buffer is there.   *)
SpareAlways == [next |-> newBuffer2, new2 |-> Null]

(* if (!nextBuffer_) nextBuffer_ = std::move(newBuffer2). *)
Spare == IF nextBuffer = Null THEN [next |-> newBuffer2, new2 |-> Null]
                              ELSE [next |-> nextBuffer, new2 |-> newBuffer2]

(* The critical section: take everything that was appended, leave empty    *)
(* buffers behind.  The condition is tested once, so it may be false.      *)
Exchanges ==
    /\ \/ pcT = "lock" /\ buffers # <<>>
       \/ pcT = "woken"
    /\ buffersToWrite' = Collected
    /\ buffers' = <<>>
    /\ currentBuffer' = newBuffer1
    /\ newBuffer1' = Null
    /\ nextBuffer' = Spare.next
    /\ newBuffer2' = Spare.new2
    /\ position' = 0
    /\ pcT' = "collected"
    /\ UNCHANGED <<running, latch, appended, pcM, out>>

(* Mutant: the message is left out. *)
DropNoticeNone == <<>>

(* "Dropped log messages at ...". *)
DropNotice == <<Dropped>>

(* Too far behind: announce it and keep the two oldest buffers. *)
DropsExcess ==
    /\ pcT = "collected"
    /\ Len(buffersToWrite) > MaxBuffers
    /\ file' = file \o DropNotice
    /\ buffersToWrite' = SubSeq(buffersToWrite, 1, 2)
    /\ pcT' = "write"
    /\ UNCHANGED <<running, latch, front, newBuffer1, newBuffer2, position, pcM, flushed>>

KeepsAll ==
    /\ pcT = "collected"
    /\ Len(buffersToWrite) <= MaxBuffers
    /\ pcT' = "write"
    /\ UNCHANGED <<running, latch, front, back, pcM, out>>

(* output.append(buffer->data(), buffer->length()), one buffer at a time.  *)
WritesBuffer ==
    /\ pcT = "write" /\ position < Len(buffersToWrite)
    /\ file' = file \o buffersToWrite[position + 1]
    /\ position' = position + 1
    /\ UNCHANGED <<running, latch, front, newBuffer1, newBuffer2, buffersToWrite,
                   pcT, pcM, flushed>>

(* buffersToWrite.resize(2): what is left to reuse. *)
Reusable == SubSeq(buffersToWrite, 1, IF Len(buffersToWrite) > 2 THEN 2 ELSE Len(buffersToWrite))

(* The assertions of lines 123 and 131: the vector is not empty when a     *)
(* buffer is taken from its back, once per missing spare buffer.           *)
EnoughToReuse ==
    Len(Reusable) >= (IF newBuffer1 = Null THEN 1 ELSE 0) + (IF newBuffer2 = Null THEN 1 ELSE 0)

(* Mutant: the buffers are not flushed. *)
FlushedForgotten == flushed

(* output.flush(). *)
Flushed == Len(file)

(* if (!newBuffer) take a written buffer back and reset() it to empty. *)
Refilled(new) == IF new = Null THEN <<>> ELSE new

(* Everything is written: flush and replenish the spare buffers. *)
FlushesAndReuses ==
    /\ pcT = "write" /\ position = Len(buffersToWrite)
    /\ EnoughToReuse
    /\ flushed' = Flushed
    /\ newBuffer1' = Refilled(newBuffer1) /\ newBuffer2' = Refilled(newBuffer2)
    /\ buffersToWrite' = <<>>
    /\ position' = 0
    /\ pcT' = "loop"
    /\ UNCHANGED <<running, latch, front, pcM, file>>

-----------------------------------------------------------------------------
(* The owner. *)

(* start(): running_ = true; thread_.start(). *)
Starts ==
    /\ pcM = "new"
    /\ running' = TRUE
    /\ pcT' = "begin"
    /\ pcM' = "starting"
    /\ UNCHANGED <<latch, front, back, out>>

(* latch_.wait() has returned, and start() with it. *)
Started == pcM = "starting" /\ latch = 0

(* stop(), or ~AsyncLogging of a running logger: running_ = false ... *)
StopClears ==
    /\ Started
    /\ running' = FALSE
    /\ pcM' = "stopping"
    /\ UNCHANGED <<latch, front, back, pcT, out>>

(* ... cond_.notify(), without the mutex: it is lost unless the back end   *)
(* is asleep at this very moment ...                                       *)
StopNotifies ==
    /\ pcM = "stopping"
    /\ pcT' = Notified(pcT)
    /\ pcM' = "joining"
    /\ UNCHANGED <<running, latch, front, back, out>>

(* ... thread_.join(). *)
StopJoins ==
    /\ pcM = "joining" /\ pcT = "exited"
    /\ pcM' = "stopped"
    /\ UNCHANGED <<running, latch, front, back, pcT, out>>

(* Nothing is left to happen: the end of the run, not a deadlock. *)
Finished == pcM = "stopped" /\ appended = MaxLines /\ UNCHANGED vars

FrontEnd == AppendToCurrent \/ AppendToNext
BackEnd == ThreadBegins \/ LoopAgain \/ ThreadEnds \/ Waits \/ WaitEnds \/ Exchanges
           \/ DropsExcess \/ KeepsAll \/ WritesBuffer \/ FlushesAndReuses
Owner == Starts \/ StopClears \/ StopNotifies \/ StopJoins

Next == FrontEnd \/ BackEnd \/ Owner \/ Finished

Spec == Init /\ [][Next]_vars

(* The back end is scheduled, and its waits end after flushInterval_       *)
(* seconds; a stop() that was called is carried through.  Nobody has to    *)
(* append or to stop.                                                      *)
Fairness == WF_vars(BackEnd) /\ WF_vars(StopNotifies \/ StopJoins)

FairSpec == Spec /\ Fairness

-----------------------------------------------------------------------------
(* Properties. *)

Buffer == {b \in Seq(1 .. MaxLines) : Len(b) < BufferSize}
BufferPtr == Buffer \cup {Null}

(* Every piece of state has its type; in particular no buffer holds more   *)
(* than FixedBuffer::append accepts, so append() never loses a line, and   *)
(* currentBuffer_ is never null outside the critical sections.             *)
TypeOK ==
    /\ running \in BOOLEAN
    /\ latch \in 0 .. 1
    /\ currentBuffer \in Buffer /\ nextBuffer \in BufferPtr
    /\ buffers \in Seq(Buffer)
    /\ newBuffer1 \in BufferPtr /\ newBuffer2 \in BufferPtr
    /\ buffersToWrite \in Seq(Buffer)
    /\ position \in 0 .. Len(buffersToWrite)
    /\ pcT \in {"none", "begin", "loop", "lock", "waiting", "woken", "collected",
                "write", "exited"}
    /\ pcM \in {"new", "starting", "stopping", "joining", "stopped"}
    /\ file \in Seq(0 .. MaxLines)
    /\ flushed \in 0 .. Len(file)
    /\ appended \in 0 .. MaxLines

(* The assertions of threadFunc (lines 62, 73-75, 95, 123, 131) hold       *)
(* whenever they are reached: the spare buffers the back end gave away     *)
(* always come back in the batch it collected.                             *)
AssertionsHold ==
    /\ pcT = "begin" => running
    /\ pcT = "lock" => newBuffer1 = <<>> /\ newBuffer2 = <<>> /\ buffersToWrite = <<>>
    /\ pcT = "collected" => buffersToWrite # <<>>
    /\ pcT = "write" => EnoughToReuse

(* append() wakes the back end whenever it queues a full buffer: the back  *)
(* end never sits out its flush interval on a full buffer.                 *)
NoFullBufferSleeps == pcT = "waiting" => buffers = <<>>

(* Everything on its way from append() to the disk, oldest first. *)
Unwritten == IF pcT \in {"collected", "write"}
             THEN SubSeq(buffersToWrite, position + 1, Len(buffersToWrite))
             ELSE <<>>
InFlight == file \o FlattenSeq(Unwritten) \o FlattenSeq(buffers) \o currentBuffer

(* No line is written twice or overtakes an earlier one, in any exchange   *)
(* of the four buffers between the threads.                                *)
InOrder(s) ==
    \A i, j \in 1 .. Len(s) : i < j /\ s[i] # Dropped /\ s[j] # Dropped => s[i] < s[j]
LinesOnceInOrder == InOrder(InFlight)

(* Lines disappear only when the back end falls behind, and then the file  *)
(* says so: the runs of lost lines, each told by its last line, are never  *)
(* more than the "Dropped" records.                                        *)
Lost == (1 .. appended) \ ToSet(InFlight)
Gaps == {l \in Lost : l + 1 \notin Lost}
Notices == {i \in 1 .. Len(file) : file[i] = Dropped}
DropsAnnounced == Cardinality(Gaps) <= Cardinality(Notices)

(* Every line is written once and in order, or its loss is announced.     *)
LinesAccountedFor == LinesOnceInOrder /\ DropsAnnounced

(* stop() returns, even when its notification found nobody waiting. *)
StopReturns == pcM = "stopping" ~> pcM = "stopped"

(* While the logger runs, no appended line stays in memory: it gets to the *)
(* disk or is dropped (and announced), after finitely many steps.          *)
OutOfMemory(l) == \A i \in 1 .. Len(InFlight) : InFlight[i] = l => i <= flushed
LinesReachDisk == \A l \in 1 .. MaxLines : appended >= l ~> OutOfMemory(l) \/ ~running

(* The logger makes progress: what is appended leaves memory while it      *)
(* runs, and stopping it ends.                                             *)
Progress == StopReturns /\ LinesReachDisk
=============================================================================
