----------------------------- MODULE TimeSource -----------------------------
(***************************************************************************)
(* The clock that the processes fall back to when the system has no        *)
(* performance counter: GetTickCount64 counts all milliseconds since boot  *)
(* but is up to 16 behind, timeGetTime is exact but starts again at 0      *)
(* after 2^32 of them.  TimeGetTime64 joins the high part of the one with  *)
(* the low part of the other.                                              *)
(***************************************************************************)
EXTENDS Integers

CONSTANT Wrap  \* number of values of timeGetTime, 2^32

Block == 4096  \* the low part is time & 0xFFF

Distance(a, b) == IF a > b THEN a - b ELSE b - a

\* The join, before it is corrected.
Joined(tick, time) == (tick - (tick % Block)) + (time % Block)

\* A block is added or taken when that brings the result nearer to tick than
\* the two clocks are to each other.
TimeGetTime64(tick, time) ==
  LET result == Joined(tick, time)
  IN  IF Distance(result, tick) <= Distance(tick, time) THEN result
      ELSE IF result > tick THEN result - Block ELSE result + Block
=============================================================================
