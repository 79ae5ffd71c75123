----------------------------- MODULE PrngProofs -----------------------------
(* Proofs about the random number generator.                               *)
EXTENDS Prng, TLAPS

\* What the meter assumes of the generator: from a value the register can
\* hold, a shift leads to another one; zero is never entered.
LEMMA LfsrShiftClosed ==
  ASSUME NEW n \in 1..255
  PROVE  LfsrShift(n) \in 1..255
<1>1. Feedback(n) \in {0, 1}
  <2>1. \A i \in {0, 2, 3, 4} : Tap(n, i) \in {0, 1}
    BY DEF Tap
  <2> QED
    BY <2>1 DEF Feedback
<1>2. n \div 2 \in 0..127 /\ (n # 1 => n \div 2 # 0)
  OBVIOUS
<1>3. CASE n = 1
  <2>1. Tap(n, 0) = 1 /\ Tap(n, 2) = 0 /\ Tap(n, 3) = 0 /\ Tap(n, 4) = 0
    BY <1>3 DEF Tap
  <2>2. Feedback(n) = 1
    BY <2>1 DEF Feedback
  <2> QED
    BY <1>2, <2>2 DEF LfsrShift
<1>4. CASE n # 1
  BY <1>1, <1>2, <1>4 DEF LfsrShift
<1> QED
  BY <1>3, <1>4

\* The register is never zero, for any number of shifts.
THEOREM PrngTyped == PrngSpec => []PrngTypeOK
<1>1. PrngInit => PrngTypeOK
  BY DEF PrngInit, PrngTypeOK, LFSR_SEED
<1>2. PrngTypeOK /\ [Enabled]_prngVars => PrngTypeOK'
  <2> SUFFICES ASSUME PrngTypeOK, [Enabled]_prngVars PROVE PrngTypeOK'
    OBVIOUS
  <2>1. CASE Enabled
    <3>1. lfsr' \in 1..255
      BY <2>1, LfsrShiftClosed DEF Enabled, PrngTypeOK
    <3>2. steps' \in 0..254
      BY <2>1 DEF Enabled, PrngTypeOK
    <3> QED
      BY <3>1, <3>2 DEF PrngTypeOK
  <2>2. CASE UNCHANGED prngVars
    BY <2>2 DEF prngVars, PrngTypeOK
  <2> QED
    BY <2>1, <2>2
<1> QED
  BY <1>1, <1>2, PTL DEF PrngSpec
-----------------------------------------------------------------------------
(* The cycle.                                                              *)

\* The values from the seed on, as the shifts make them.
Cycle == <<
  1, 128, 64, 32, 16, 136, 196, 226, 113, 56, 28, 142, 71, 35, 145, 72, 164,
  210, 233, 116, 58, 29, 14, 7, 3, 129, 192, 96, 48, 152, 76, 38, 147, 73,
  36, 146, 201, 100, 178, 217, 236, 118, 59, 157, 78, 39, 19, 9, 4, 130, 65,
  160, 80, 168, 212, 106, 181, 218, 109, 182, 91, 173, 214, 107, 53, 154, 77, 166,
  211, 105, 52, 26, 13, 134, 195, 225, 240, 248, 124, 190, 223, 111, 183, 219, 237,
  246, 123, 189, 94, 175, 215, 235, 117, 186, 93, 46, 23, 139, 69, 34, 17, 8,
  132, 194, 97, 176, 216, 108, 54, 27, 141, 198, 227, 241, 120, 60, 158, 207, 231,
  115, 57, 156, 206, 103, 51, 25, 140, 70, 163, 209, 104, 180, 90, 45, 150, 75,
  37, 18, 137, 68, 162, 81, 40, 148, 74, 165, 82, 169, 84, 42, 149, 202, 229,
  114, 185, 220, 238, 119, 187, 221, 110, 55, 155, 205, 230, 243, 121, 188, 222, 239,
  247, 251, 253, 126, 191, 95, 47, 151, 203, 101, 50, 153, 204, 102, 179, 89, 172,
  86, 43, 21, 138, 197, 98, 49, 24, 12, 6, 131, 193, 224, 112, 184, 92, 174,
  87, 171, 85, 170, 213, 234, 245, 250, 125, 62, 159, 79, 167, 83, 41, 20, 10,
  133, 66, 33, 144, 200, 228, 242, 249, 252, 254, 255, 127, 63, 31, 15, 135, 67,
  161, 208, 232, 244, 122, 61, 30, 143, 199, 99, 177, 88, 44, 22, 11, 5, 2 >>

\* Where the register is in it.
OnCycle == steps \in 0..254 /\ lfsr = Cycle[steps + 1]

\* Each value is the shift of the one before, and the first that of the last.
LEMMA CycleShifts ==
  /\ \A k \in 1..254 : LfsrShift(Cycle[k]) = Cycle[k + 1]
  /\ LfsrShift(Cycle[255]) = Cycle[1]
BY DEF Cycle, LfsrShift, Feedback, Tap

\* The seed comes once.
LEMMA SeedOnce == Cycle[1] = LFSR_SEED /\ \A k \in 2..255 : Cycle[k] # LFSR_SEED
BY DEF Cycle, LFSR_SEED

\* The taps of prng.vhd make a cycle of full length: after 255 enabled edges,
\* and not before, the register is back at its seed.
THEOREM CycleIsFull == PrngSpec => []FullPeriod
<1> USE CycleShifts, SeedOnce
<1>1. PrngInit => OnCycle
  BY DEF PrngInit, OnCycle
<1>2. OnCycle /\ [Enabled]_prngVars => OnCycle'
  <2> SUFFICES ASSUME OnCycle, [Enabled]_prngVars PROVE OnCycle'
    OBVIOUS
  <2>1. CASE Enabled /\ steps < 254
    <3>1. steps + 1 \in 1..254 /\ steps' = steps + 1
      BY <2>1 DEF Enabled, OnCycle
    <3>2. lfsr' = Cycle[(steps + 1) + 1]
      BY <2>1, <3>1 DEF Enabled, OnCycle
    <3> QED
      BY <3>1, <3>2 DEF OnCycle
  <2>2. CASE Enabled /\ steps = 254
    BY <2>2 DEF Enabled, OnCycle
  <2>3. CASE UNCHANGED prngVars
    BY <2>3 DEF prngVars, OnCycle
  <2> QED
    BY <2>1, <2>2, <2>3 DEF OnCycle
<1>3. OnCycle => FullPeriod
  BY DEF OnCycle, FullPeriod
<1> QED
  BY <1>1, <1>2, <1>3, PTL DEF PrngSpec
=============================================================================
