------------------------------- MODULE Display -------------------------------
(***************************************************************************)
(* What the player sees: six seven-segment digits behind a register        *)
(* (reg32.vhd, hex7seg.vhd) and ten leds, and what the task reaction_meter *)
(* of either application writes to them in the course of a round.          *)
(*                                                                         *)
(* The 16 bits of the task's variable leds are the set of those that are 1. *)
(***************************************************************************)
EXTENDS Integers, Sequences, FiniteSets

CONSTANTS
  Responses,      \* response times the task may accept, in ms
  MaxSteps        \* bound: leds lit in one round, and turns of the leds

ASSUME DisplayAssumption ==
  /\ Responses \subseteq 0..9999
  /\ MaxSteps \in Nat

UINT16_MAX == 65535

VARIABLES
  q,              \* Q of reg32: the segments of HEX0 to HEX5, 0 lights one
  leds,           \* leds of the task, uint16_t: the bits that are 1
  tries,          \* uint8_t
  highscore,      \* uint16_t
  phase,          \* state of the task
  count,          \* history: leds lit, or turns of the leds, in this phase
  lit             \* history: leds when the score was shown

displayVars == <<q, leds, tries, highscore, phase, count, lit>>

-----------------------------------------------------------------------------
\* hex7seg: segments a to g of every digit, in the order of the literals
hex7seg ==
  <<"0000001", "1001111", "0010010", "0000110", "1001100", "0100100",
    "0100000", "0001111", "0000000", "0001100", "0001000", "1100000",
    "0110001", "1000010", "0110000", "0111000">>

Segments(nibble) == hex7seg[nibble + 1]

Nibble(data, i) == (data \div <<1, 16, 256, 4096>>[i + 1]) % 16

\* reg32 with all bytes enabled, as IOWR_32DIRECT writes: the upper half of
\* the word goes nowhere.
WriteScore(data) == [i \in 0..5 |-> IF i < 4 THEN Segments(Nibble(data, i)) ELSE q[i]]
WriteTries(data) == [i \in 0..5 |-> IF i < 4 THEN q[i] ELSE Segments(Nibble(data, i - 4))]

\* Slip: a digit is taken before the lower ones are divided off.
BcdUndivided(n) == (n % 10) + (16 * (n % 100)) + (256 * (n % 1000))

\* The nibbles that show_score and show_tries put together.
Bcd(n) ==
  (n % 10) + (16 * ((n \div 10) % 10)) + (256 * ((n \div 100) % 10))
    + (4096 * ((n \div 1000) % 10))

show_score(n) == q' = WriteScore(Bcd(n))

\* num << n, and num >> n for n < 0, cut to uint16_t
Bits == 0..15
Shifted(num, n) == {i + n : i \in num} \cap Bits

\* Slip: nine is the last bit of the register.
RotateTen(num) == Shifted(num, 1) \cup Shifted(num, -9)

\* leds = rotate_left(leds, 1): (num << shift) | (num >> (9 - shift))
rotate_left(num) == Shifted(num, 1) \cup Shifted(num, -8)

-----------------------------------------------------------------------------
\* After reset the outputs are 0 and every segment is lit.
DisplayInit ==
  /\ q = [i \in 0..5 |-> "0000000"]
  /\ leds = {} /\ tries = 0 /\ highscore = UINT16_MAX
  /\ phase = "BOOT" /\ count = 0 /\ lit = {}

\* IDLE: the home screen.  Then the task waits for the start.
GoHome(from) ==
  /\ phase = from /\ phase' = "IDLE"
  /\ LET score == IF highscore # UINT16_MAX THEN highscore ELSE 0
         shown == WriteScore(Bcd(score))
     IN  q' = [i \in 0..5 |-> IF i < 4 THEN shown[i]
                              ELSE Segments(Nibble(Bcd(tries % 100), i - 4))]
  /\ tries' = (tries + 1) % 256
  /\ leds' = {} /\ count' = 0 /\ lit' = {}
  /\ UNCHANGED highscore

\* START, and DELAY in the application without the meter
Starts ==
  /\ phase = "IDLE" /\ phase' = "COUNT"
  /\ show_score(0)
  /\ UNCHANGED <<leds, tries, highscore, count, lit>>

\* COUNT: one more led.
LightsLed ==
  /\ phase = "COUNT" /\ count < MaxSteps
  /\ leds' = Shifted(leds, 1) \cup {0}
  /\ count' = count + 1
  /\ UNCHANGED <<q, tries, highscore, phase, lit>>

\* STOP: the score, and whether it is the highest so far.
Responds(response_time) ==
  /\ phase = "COUNT"
  /\ show_score(response_time)
  /\ highscore' = IF response_time < highscore THEN response_time ELSE highscore
  /\ phase' = IF response_time < highscore THEN "CIRCLE" ELSE "STOP"
  /\ lit' = leds /\ count' = 0
  /\ UNCHANGED <<leds, tries>>

\* STOP with a new high score: every 100 ms the leds turn.
Turns ==
  /\ phase = "CIRCLE" /\ count < MaxSteps
  /\ leds' = rotate_left(leds)
  /\ count' = count + 1
  /\ UNCHANGED <<q, tries, highscore, phase, lit>>

DisplayNext ==
  \/ \E from \in {"BOOT", "COUNT", "STOP", "CIRCLE"} : GoHome(from)
  \/ Starts
  \/ LightsLed
  \/ \E r \in Responses : Responds(r)
  \/ Turns

DisplaySpec == DisplayInit /\ [][DisplayNext]_displayVars

-----------------------------------------------------------------------------
\* Type invariant.
DisplayTypeOK ==
  /\ q \in [0..5 -> {hex7seg[i] : i \in 1..16}]
  /\ leds \subseteq Bits /\ lit \subseteq Bits
  /\ tries \in 0..255
  /\ highscore \in Responses \cup {UINT16_MAX}
  /\ phase \in {"BOOT", "IDLE", "COUNT", "STOP", "CIRCLE"}
  /\ count \in 0..MaxSteps

\* The decimal numbers a reader sees.
Digit(i) == CHOOSE d \in 0..15 : Segments(d) = q[i]
ScoreSeen == Digit(0) + (10 * Digit(1)) + (100 * Digit(2)) + (1000 * Digit(3))
TriesSeen == Digit(4) + (10 * Digit(5))

\* The two leftmost digits show the tries and the four others the high score,
\* after every round however it ended.  The tries are those before this one,
\* counted in 8 bits: after 99 the digits start over, after 255 at 0.
HomeScreen ==
  phase = "IDLE" =>
    /\ ScoreSeen = IF highscore = UINT16_MAX THEN 0 ELSE highscore
    /\ TriesSeen = ((tries + 255) % 256) % 100

\* The nine first leds circle: after n turns each shows what the n-th before
\* it showed, and the tenth repeats the first.
LedsCircle ==
  phase = "CIRCLE" =>
    /\ \A i \in 0..8 : i \in leds <=> (i + 9 * MaxSteps - count) % 9 \in lit
    /\ count > 0 => (9 \in leds <=> 0 \in leds)
=============================================================================
