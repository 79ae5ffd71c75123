-------------------------------- MODULE Prng --------------------------------
(***************************************************************************)
(* The random number generator of the reaction meter (prng.vhd): an 8-bit  *)
(* shift register with linear feedback, read as a number.                  *)
(***************************************************************************)
EXTENDS Integers

LFSR_SEED == 1                                \* x"01"

\* Bit i of the register.
Tap(n, i) == (n \div 2^i) % 2

\* Slip: a tap in the wrong place.
FeedbackWrongTap(n) == (Tap(n, 4) + Tap(n, 3) + Tap(n, 1) + Tap(n, 0)) % 2

\* tmp: the exclusive or of the four taps.
Feedback(n) == (Tap(n, 4) + Tap(n, 3) + Tap(n, 2) + Tap(n, 0)) % 2

\* LFSR <= tmp & LFSR(7 DOWNTO 1)
LfsrShift(n) == 128 * Feedback(n) + n \div 2

-----------------------------------------------------------------------------
VARIABLES
  lfsr,        \* signal LFSR
  steps        \* history: enabled edges since the register last started a
               \* cycle, modulo the number of values it may take

prngVars == <<lfsr, steps>>

PrngInit == lfsr = LFSR_SEED /\ steps = 0

\* An edge with EN high; on any other edge the register keeps its value
\* (the meter ties RST low).
Enabled ==
  /\ lfsr' = LfsrShift(lfsr)
  /\ steps' = (steps + 1) % 255

PrngSpec == PrngInit /\ [][Enabled]_prngVars

-----------------------------------------------------------------------------
\* Type invariant.  The register is never zero, the value it cannot leave.
PrngTypeOK == lfsr \in 1..255 /\ steps \in 0..254

\* The taps give the longest cycle there is: the register is back at its
\* seed after 255 enabled edges and not before, so it takes each of its 255
\* values once in a cycle and every delay the meter can compute from it
\* comes up.
FullPeriod == lfsr = LFSR_SEED <=> steps = 0
=============================================================================
