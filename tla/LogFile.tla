------------------------------ MODULE LogFile ------------------------------
(***************************************************************************)
(* The rolling log file (muduo_log/LogFile.cc over FileUtil::AppendFile):  *)
(* a file is left for a new one when it is larger than rollSize_ or, tried *)
(* every checkEveryN_ appends, when a new period (day) has begun.  A file  *)
(* is named after the second in which it was opened, and rollFile refuses  *)
(* to roll within the second of the last roll.                             *)
(*                                                                         *)
(* The clock is time(NULL), the wall clock, in seconds: it may be set back *)
(* (MayStepBack).  Every operation runs within one second and, with or     *)
(* without the LogFile's mutex, without interleaving with another one.     *)
(***************************************************************************)
EXTENDS Integers, Sequences, SequencesExt

CONSTANTS RollSize,       \* rollSize_
          CheckEveryN,    \* checkEveryN_
          FlushInterval,  \* flushInterval_
          PeriodLength,   \* kRollPerSeconds_
          ChunkSizes,     \* the lengths append is called with
          MaxChunks,      \* bound: calls of append
          MaxTime         \* bound: the latest time

ASSUME LogFileAssumption ==
    /\ RollSize \in Nat /\ CheckEveryN \in Nat \ {0} /\ FlushInterval \in Nat
    /\ PeriodLength \in Nat \ {0}
    /\ MaxTime \in Nat \ {0} /\ MaxChunks \in Nat
    /\ ChunkSizes \subseteq Nat \ {0}

VARIABLES now,            \* the wall clock
          files,          \* what each file holds, by the second in its name
          open,           \* the name of file_
          writtenBytes,   \* file_->writtenBytes()
          count, startOfPeriod, lastRoll, lastFlush,
          durable         \* chunks that fflush or fclose has pushed out

vars == <<now, files, open, writtenBytes, count, startOfPeriod, lastRoll, lastFlush, durable>>

Times == 1 .. MaxTime

(* A chunk is [id, len, at]: its number, length and time. *)
Written(fs) == FlattenSeq([t \in Times |-> fs[t]])

Period(t) == (t \div PeriodLength) * PeriodLength

(* Mutant: rolls whenever the second has changed. *)
RollAllowedWhenDifferent == now # lastRoll

(* now > lastRoll_. *)
RollAllowed == now > lastRoll

(* rollFile: fclose pushes out the old file; the new one starts empty,     *)
(* unless a file of that name is there to be appended to.  A refused roll  *)
(* leaves the old file open, with the len bytes just written.              *)
RollFile(fs, len) ==
    IF RollAllowed
    THEN /\ lastRoll' = now /\ lastFlush' = now
         /\ startOfPeriod' = Period(now)
         /\ open' = now /\ writtenBytes' = 0
         /\ durable' = Len(Written(fs))
    ELSE /\ writtenBytes' = writtenBytes + len
         /\ UNCHANGED <<lastRoll, lastFlush, startOfPeriod, open, durable>>

Init ==
    /\ now \in Times
    /\ files = [t \in Times |-> <<>>]
    /\ open = now /\ writtenBytes = 0
    /\ count = 0
    /\ startOfPeriod = Period(now) /\ lastRoll = now /\ lastFlush = now
    /\ durable = 0

(* AppendFile::append, called by append_unlocked with the open file. *)
Put(len) == [files EXCEPT ![open] =
                Append(@, [id |-> Len(Written(files)) + 1, len |-> len, at |-> now])]

(* Mutant: the size is tested against the bytes before this append. *)
TooLargeLate(len) == writtenBytes > RollSize

(* file_->writtenBytes() > rollSize_, after the append. *)
TooLarge(len) == writtenBytes + len > RollSize

(* append_unlocked, first branch: the file is too large. *)
AppendRollsBySize(len) ==
    /\ TooLarge(len)
    /\ files' = Put(len)
    /\ RollFile(files', len)
    /\ UNCHANGED <<now, count>>

(* ++count_ >= checkEveryN_. *)
CheckDue == count + 1 >= CheckEveryN

(* No check of the clock is due. *)
AppendOnly(len) ==
    /\ ~TooLarge(len) /\ ~CheckDue
    /\ files' = Put(len)
    /\ writtenBytes' = writtenBytes + len
    /\ count' = count + 1
    /\ UNCHANGED <<now, open, startOfPeriod, lastRoll, lastFlush, durable>>

(* The check finds a new period. *)
AppendRollsByPeriod(len) ==
    /\ ~TooLarge(len) /\ CheckDue
    /\ Period(now) # startOfPeriod
    /\ files' = Put(len)
    /\ count' = 0
    /\ RollFile(files', len)
    /\ UNCHANGED now

(* The check finds the same period: flush if the last one is long ago. *)
AppendFlushes(len) ==
    /\ ~TooLarge(len) /\ CheckDue
    /\ Period(now) = startOfPeriod
    /\ files' = Put(len)
    /\ writtenBytes' = writtenBytes + len
    /\ count' = 0
    /\ IF now - lastFlush > FlushInterval
       THEN lastFlush' = now /\ durable' = Len(Written(files'))
       ELSE UNCHANGED <<lastFlush, durable>>
    /\ UNCHANGED <<now, open, startOfPeriod, lastRoll>>

AppendUnlocked ==
    /\ Len(Written(files)) < MaxChunks
    /\ \E len \in ChunkSizes :
          \/ AppendRollsBySize(len) \/ AppendOnly(len)
          \/ AppendRollsByPeriod(len) \/ AppendFlushes(len)

(* LogFile::flush. *)
Flush ==
    /\ durable' = Len(Written(files))
    /\ UNCHANGED <<now, files, open, writtenBytes, count, startOfPeriod, lastRoll, lastFlush>>

(* Time passes, or the wall clock is set back. *)
Tick ==
    /\ \/ now < MaxTime /\ now' = now + 1
       \/ now > 1 /\ now' = now - 1
    /\ UNCHANGED <<files, open, writtenBytes, count, startOfPeriod, lastRoll, lastFlush, durable>>

Next == AppendUnlocked \/ Flush \/ Tick

Spec == Init /\ [][Next]_vars

-----------------------------------------------------------------------------
(* Properties. *)

(* Every piece of state has its type; the counter stays below its limit.   *)
TypeOK ==
    /\ now \in Times /\ open \in Times
    /\ writtenBytes \in Nat
    /\ count \in 0 .. CheckEveryN - 1
    /\ startOfPeriod \in 0 .. MaxTime
    /\ lastRoll \in Times /\ lastFlush \in Times
    /\ durable \in 0 .. MaxChunks

(* The file sizes the code works with are the real ones: rollFile never    *)
(* reopens a file that already has content, whatever the clock does.       *)
Size(s) == LET sum[i \in 0 .. Len(s)] == IF i = 0 THEN 0 ELSE sum[i - 1] + s[i].len
           IN  sum[Len(s)]
SizeIsReal == writtenBytes = Size(files[open])

(* Once the second in which a file was opened is over, at most one chunk   *)
(* ends beyond RollSize in it: the first one that does makes it roll.      *)
SizeBound ==
    \A t \in Times : \A i \in 1 .. Len(files[t]) - 1 :
        files[t][i].at > t => Size(SubSeq(files[t], 1, i)) <= RollSize

(* At most CheckEveryN chunks of later periods get into a file, and as     *)
(* long as the file is open one less, if no append saw the clock set back. *)
Steady ==
    /\ \A t \in Times : \A i \in DOMAIN files[t] : files[t][i].at >= t
    /\ LET all == Written(files)
       IN  \A i \in 1 .. Len(all) - 1 : all[i].at <= all[i + 1].at
Late(t) == {i \in 1 .. Len(files[t]) : Period(files[t][i].at) > Period(t)}
PeriodBound ==
    Steady => \A t \in Times : Cardinality(Late(t)) <= CheckEveryN - (IF t = open THEN 1 ELSE 0)

(* The bounds of a file that the options of LogFile promise, from the true *)
(* size of the open file.                                                  *)
FileBounds == SizeIsReal /\ SizeBound /\ PeriodBound

(* The files keep to the bounds LogFile's options promise, and its state   *)
(* to its types.                                                           *)
FileWithinBounds == TypeOK /\ FileBounds

(* Read in the order of their names, the files are an append-only record   *)
(* of everything appended: rolling loses, repeats and reorders nothing,    *)
(* even when the clock is set back.                                        *)
Ids(s) == [i \in 1 .. Len(s) |-> s[i].id]
Store == INSTANCE LogStore WITH written <- Ids(Written(files)), durable <- durable
ImplementsStore == Store!Spec
=============================================================================
