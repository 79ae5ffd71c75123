--------------------------- MODULE MCReactionMeter ---------------------------
EXTENDS ReactionMeter
(* A meter scaled down: 2 ticks to the millisecond, 6 ms to answer, a       *)
(* 2-bit result register, a generator of 3 values.                          *)

MCShift(n) == IF n = 3 THEN 1 ELSE n + 1

MCDelays == {0, 1, 3}
=============================================================================
