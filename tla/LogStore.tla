------------------------------ MODULE LogStore ------------------------------
(***************************************************************************)
(* What the asynchronous logger expects of its LogFile and what LogFile    *)
(* promises: one growing sequence of records, of which a prefix has been   *)
(* handed to the kernel.  Rolling from file to file is invisible here.     *)
(***************************************************************************)
EXTENDS Integers, Sequences

VARIABLES written,    \* everything appended, over all files, oldest first
          durable     \* the length of the prefix that fflush or fclose has pushed out

Init == written = <<>> /\ durable = 0

(* LogFile::append: a chunk goes to the end, and may or may not be pushed  *)
(* out at once.                                                            *)
AppendChunk(chunk) ==
    /\ written' = written \o chunk
    /\ durable' \in {durable, Len(written')}

(* LogFile::flush. *)
Flush == written' = written /\ durable' = Len(written)

(* A chunk is whatever the step adds; nothing already written changes. *)
Extends ==
    /\ Len(written') > Len(written)
    /\ SubSeq(written', 1, Len(written)) = written
    /\ AppendChunk(SubSeq(written', Len(written) + 1, Len(written')))

Next == Extends \/ Flush

Spec == Init /\ [][Next]_<<written, durable>>
=============================================================================
