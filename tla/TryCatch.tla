------------------------------ MODULE TryCatch ------------------------------
(***************************************************************************)
(* Exceptions in C: the macros Try, Catch, Finally, EndTry and Throw of    *)
(* trycatch_finally.c.  One thread (the frame stack is thread specific)    *)
(* runs an arbitrary nest of Try statements.  nest holds the statements it *)
(* is inside of, outermost first: the exceptions caught, whether there is  *)
(* a Finally block, the part that runs, Exception_flag and frame.exception *)
(* (0 while none was thrown).  frames is ExceptionStack: the depths of the *)
(* statements whose frames are linked.                                     *)
(***************************************************************************)
EXTENDS Integers, Sequences, FiniteSets

CONSTANTS Exceptions,    \* their types, as far as the macros tell them apart
          MaxDepth, MaxThrows  \* bounds: depth of the nest, Throw statements

ASSUME TryAssumption == 0 \notin Exceptions

VARIABLES nest, frames,
          throws,        \* Throw statements executed so far
          uncaught,      \* exceptions thrown with no frame, which are printed
          rethrow,       \* the exception ReThrow passes to the frame below, or 0
          skipped        \* Finally blocks left out because a handler threw

tryVars == <<nest, frames, throws, uncaught, rethrow, skipped>>

TryInit ==
  /\ nest = <<>> /\ frames = <<>> /\ throws = 0 /\ uncaught = 0 /\ rethrow = 0 /\ skipped = 0

Depth == Len(nest)
Now == nest[Depth]
Running(block) == Depth > 0 /\ rethrow = 0 /\ Now.block = block

\* Mutant: the frame stays linked when the body ends normally.
PopIfThrown == IF Now.flag = "thrown" THEN SubSeq(frames, 1, Len(frames) - 1) ELSE frames

\* if (Exception_flag == ExceptionEntered) ntyExceptionPopStack;
PopIfEntered == IF Now.flag = "entered" THEN SubSeq(frames, 1, Len(frames) - 1) ELSE frames

Try(caught, finally) ==
  /\ Depth < MaxDepth /\ rethrow = 0
  /\ nest' = Append(nest, [caught |-> caught, finally |-> finally, block |-> "body",
                           flag |-> "entered", exception |-> 0])
  /\ frames' = Append(frames, Depth + 1)
  /\ UNCHANGED <<throws, uncaught, rethrow, skipped>>

\* Where a statement goes when a block of it ends: to Finally, or out of EndTry.
Leave(t) ==
  IF t.finally /\ t.block # "finally"
  THEN nest' = [nest EXCEPT ![Depth] = [t EXCEPT !.block = "finally",
                    !.flag = IF @ = "entered" THEN "finalized" ELSE @]] /\ rethrow' = 0
  ELSE /\ nest' = SubSeq(nest, 1, Depth - 1)
       /\ rethrow' = IF t.flag = "thrown" THEN t.exception ELSE 0

\* The body ends without an exception: the next macro unlinks the frame.
BodyEnds ==
  /\ Running("body")
  /\ frames' = PopIfEntered
  /\ Leave(Now)
  /\ UNCHANGED <<throws, uncaught, skipped>>

\* A handler, or the Finally block, ends.
BlockEnds ==
  /\ Running("handler") \/ Running("finally")
  /\ frames' = PopIfEntered
  /\ Leave(Now)
  /\ UNCHANGED <<throws, uncaught, skipped>>

\* longjmp to the frame on top, unlinked first: setjmp returns ExceptionThrown
\* in the statement at that depth; the statements inside it are gone.
Land(e, d) ==
  LET t == [nest[d] EXCEPT !.exception = e, !.flag = "thrown"]
      landed(b, f) == Append(SubSeq(nest, 1, d - 1), [t EXCEPT !.block = b, !.flag = f])
  IN IF e \in t.caught THEN nest' = landed("handler", "handled") /\ rethrow' = 0
     ELSE IF t.finally THEN nest' = landed("finally", "thrown") /\ rethrow' = 0
     ELSE nest' = SubSeq(nest, 1, d - 1) /\ rethrow' = e

\* ntyExceptionThrow; without a frame it prints and returns.
ExceptionThrow(e) ==
  IF frames = <<>>
  THEN uncaught' = uncaught + 1 /\ rethrow' = 0 /\ UNCHANGED <<nest, frames, skipped>>
  ELSE LET d == frames[Len(frames)]
       IN /\ frames' = SubSeq(frames, 1, Len(frames) - 1)
          /\ Land(e, d)
          /\ skipped' = skipped
               + Cardinality({i \in (d + 1) .. Depth : nest[i].finally /\ nest[i].block = "handler"})
          /\ UNCHANGED uncaught

Throw(e) ==
  /\ rethrow = 0 /\ throws < MaxThrows
  /\ throws' = throws + 1
  /\ ExceptionThrow(e)

\* ReThrow at the end of EndTry, after an exception nobody caught here.
ReThrow ==
  /\ rethrow # 0
  /\ ExceptionThrow(rethrow)
  /\ UNCHANGED throws

TryNext ==
  \/ \E caught \in SUBSET Exceptions, finally \in BOOLEAN : Try(caught, finally)
  \/ BodyEnds \/ BlockEnds \/ ReThrow
  \/ \E e \in Exceptions : Throw(e)

TrySpec == TryInit /\ [][TryNext]_tryVars

\* The stack always links exactly the statements whose body is running, in their
\* order: no jump can go to a statement that was left, or to one whose handler or
\* Finally block runs, and none whose body runs is forgotten.
FramesAreBodies ==
  /\ {frames[i] : i \in DOMAIN frames} = {d \in 1 .. Depth : nest[d].block = "body"}
  /\ \A i, j \in DOMAIN frames : i < j => frames[i] < frames[j]

\* What was thrown is handled by the innermost statement in its body that catches
\* it: a handler runs only an exception of its own, a Finally block with the flag
\* thrown only one its statement does not catch, and both go on to EndTry with
\* the flag that decides about ReThrow.
HandledWhereCaught ==
  \A i \in 1 .. Depth : LET t == nest[i] IN
    CASE t.block = "body"    -> t.flag = "entered" /\ t.exception = 0
      [] t.block = "handler" -> t.flag = "handled" /\ t.exception \in t.caught
      [] t.block = "finally" -> \/ t.flag = "finalized" /\ t.exception = 0
                                \/ t.flag = "handled" /\ t.exception \in t.caught
                                \/ t.flag = "thrown" /\ t.exception \notin t.caught

\* Exceptions go to the innermost statement that catches them, and no jump goes to
\* a frame that was left.
ThrowsLand == FramesAreBodies /\ HandledWhereCaught
=============================================================================
