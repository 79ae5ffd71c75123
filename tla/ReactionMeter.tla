---------------------------- MODULE ReactionMeter ----------------------------
(***************************************************************************)
(* The reaction meter component, one step per rising clock edge.           *)
(*                                                                         *)
(* Three clocked processes share the clock: the state machine of           *)
(* reaction_meter.vhd, the register file of resp_reg.vhd and the random    *)
(* number generator of prng.vhd.  A VHDL signal keeps its old value for    *)
(* every process that reads it during an edge, so one step of the whole is *)
(* the conjunction of one step of each process: an unprimed signal is what *)
(* the processes see, a primed one is what they assign.                    *)
(*                                                                         *)
(* The buttons are wired straight to the processes (active low), without   *)
(* synchroniser or debouncing: every edge may see any level.               *)
(***************************************************************************)
EXTENDS Integers

CONSTANTS
  MAX_DELAY,       \* generic MAX_DELAY: clock ticks, 3 s at 50 MHz
  TICKS_PER_MS,    \* F_CLK / 1000, also the literal 50000
  MAX_REG_DELAY,   \* upper end of the range of reg_delay (5000 ms)
  RESP_SPAN,       \* values the synthesised resp_time register can tell
                   \* apart: its range 0 TO 2000 takes 11 bits, so 2048
  RND_MAX,         \* largest value of the generator (255)
  RND_SEED,        \* its power-up value (x"01")
  Shift(_),        \* one step of its shift register (module Prng)
  Delays           \* the delays, in ms, software writes into the register

ASSUME MeterAssumption ==
  /\ MAX_DELAY \in Nat \ {0}
  /\ TICKS_PER_MS \in Nat \ {0}
  /\ MAX_REG_DELAY \in Nat
  /\ RESP_SPAN \in Nat \ {0}
  /\ RND_MAX \in Nat \ {0}
  /\ RND_SEED \in 1..RND_MAX
  /\ \A n \in 1..RND_MAX : Shift(n) \in 1..RND_MAX
  /\ Delays \subseteq 0..MAX_REG_DELAY
  /\ MAX_REG_DELAY * TICKS_PER_MS <= 3 * MAX_DELAY

VARIABLES
  \* reaction_meter.vhd
  next_state,      \* the state of the machine (its signal has this name)
  tick,            \* ticks counted in DELAY or COUNT
  resp_time,       \* the last response, in ms
  state,           \* output: position of next_state one edge ago
  interrupt,       \* output irq of the meter, signal interrupt of resp_reg
  rng_en,          \* enables the generator
  rnd_delay,       \* the generator's register
  \* resp_reg.vhd
  delay,           \* delay register, ms; 0 asks for a random delay
  readdata,        \* data returned to the bus
  irq,             \* interrupt request to the processor
  \* the Avalon bus
  bus              \* "idle", or the address of a read in its second cycle

meterVars == <<next_state, tick, resp_time, state, interrupt, rng_en>>
regVars   == <<delay, readdata, irq>>
vars      == <<meterVars, rnd_delay, regVars, bus>>

Bit    == {0, 1}
States == {"IDLE", "START", "DELAY", "COUNT", "STOP"}

\* state_t'POS
Pos(s) ==
  IF s = "IDLE" THEN 0 ELSE IF s = "START" THEN 1 ELSE IF s = "DELAY" THEN 2
  ELSE IF s = "COUNT" THEN 3 ELSE 4

Init ==
  /\ next_state = "IDLE" /\ tick = 0 /\ resp_time = 0 /\ state = 0
  /\ interrupt = 0 /\ rng_en = 0 /\ rnd_delay = RND_SEED
  /\ delay = 0 /\ readdata = 0 /\ irq = 0
  /\ bus = "idle"

-----------------------------------------------------------------------------
(* The state machine: one action per WHEN branch.  key0 and key1 are the   *)
(* levels of the two buttons at the edge, 0 when pressed.                  *)

RandomWait == 2 * MAX_DELAY - (MAX_DELAY \div RND_MAX) * rnd_delay

WaitTicks == IF delay # 0 THEN delay * TICKS_PER_MS ELSE RandomWait

\* A move to another state; every one of them but TimeOut raises interrupt.
MoveTo(s, announce) == next_state' = s /\ interrupt' = announce
Hold == MoveTo(next_state, 0)

Idle(key0) ==
  /\ next_state = "IDLE"
  /\ IF key0 = 0 THEN MoveTo("START", 1) ELSE Hold
  /\ UNCHANGED <<tick, resp_time, rng_en>>

\* Slip: the generator is left running when the button is released.
StartKeepsRng(key0) ==
  /\ next_state = "START"
  /\ IF key0 = 1 THEN MoveTo("DELAY", 1) /\ tick' = 0
                 ELSE Hold /\ UNCHANGED tick
  /\ rng_en' = 1
  /\ UNCHANGED resp_time

Start(key0) ==
  /\ next_state = "START"
  /\ IF key0 = 1
     THEN MoveTo("DELAY", 1) /\ rng_en' = 0 /\ tick' = 0
     ELSE Hold /\ rng_en' = 1 /\ UNCHANGED tick
  /\ UNCHANGED resp_time

\* Slip: tick is reset only when counting starts.
DelayKeepsTick(key1) ==
  /\ next_state = "DELAY"
  /\ IF tick + 1 >= WaitTicks /\ key1 = 1
     THEN tick' = 0 /\ MoveTo("COUNT", 1)
     ELSE tick' = tick + 1 /\ Hold
  /\ UNCHANGED <<resp_time, rng_en>>

Delay(key1) ==
  /\ next_state = "DELAY"
  /\ LET expired == tick + 1 >= WaitTicks
     IN  /\ tick' = IF expired THEN 0 ELSE tick + 1
         /\ IF expired /\ key1 = 1 THEN MoveTo("COUNT", 1) ELSE Hold
  /\ UNCHANGED <<resp_time, rng_en>>

\* Slip: a time-out publishes the count it reached.
TimeOutPublishes ==
  /\ next_state = "COUNT"
  /\ tick + 1 >= MAX_DELAY
  /\ tick' = 0
  /\ resp_time' = (tick \div TICKS_PER_MS) % RESP_SPAN
  /\ MoveTo("IDLE", 0)
  /\ UNCHANGED rng_en

TimeOut ==
  /\ next_state = "COUNT"
  /\ tick + 1 >= MAX_DELAY
  /\ tick' = tick + 1
  /\ MoveTo("IDLE", 0)
  /\ UNCHANGED <<resp_time, rng_en>>

\* resp_time keeps as many low-order bits as its register has.
Respond(key1) ==
  /\ next_state = "COUNT"
  /\ tick + 1 < MAX_DELAY
  /\ key1 = 0
  /\ resp_time' = ((tick + 1) \div TICKS_PER_MS) % RESP_SPAN
  /\ tick' = 0
  /\ MoveTo("STOP", 1)
  /\ UNCHANGED rng_en

\* Slip: tick restarts with every millisecond.
KeepCountingMs(key1) ==
  /\ next_state = "COUNT"
  /\ tick + 1 < MAX_DELAY
  /\ key1 = 1
  /\ tick' = (tick + 1) % TICKS_PER_MS
  /\ Hold
  /\ UNCHANGED <<resp_time, rng_en>>

\* Slip: counting goes on past the time-out.
KeepCountingOn(key1) ==
  /\ next_state = "COUNT"
  /\ key1 = 1
  /\ tick' = tick + 1
  /\ Hold
  /\ UNCHANGED <<resp_time, rng_en>>

KeepCounting(key1) ==
  /\ next_state = "COUNT"
  /\ tick + 1 < MAX_DELAY
  /\ key1 = 1
  /\ tick' = tick + 1
  /\ Hold
  /\ UNCHANGED <<resp_time, rng_en>>

Stop(key1) ==
  /\ next_state = "STOP"
  /\ IF key1 = 1 THEN MoveTo("IDLE", 1) ELSE Hold
  /\ UNCHANGED <<tick, resp_time, rng_en>>

\* Slip: the state output shows the machine's next state at once.
MachineEdgeAhead(key0, key1) ==
  /\ \/ Idle(key0) \/ Start(key0) \/ Delay(key1)
     \/ TimeOut \/ Respond(key1) \/ KeepCounting(key1)
     \/ Stop(key1)
  /\ state' = Pos(next_state')

MachineEdge(key0, key1) ==
  /\ \/ Idle(key0) \/ Start(key0) \/ Delay(key1)
     \/ TimeOut \/ Respond(key1) \/ KeepCounting(key1)
     \/ Stop(key1)
  /\ state' = Pos(next_state)

\* With resetn low only resp_time is assigned.
MachineReset ==
  /\ resp_time' = 0
  /\ UNCHANGED <<next_state, tick, state, interrupt, rng_en>>

-----------------------------------------------------------------------------
(* The generator shifts whenever it is enabled; its own reset is tied low. *)

PrngEdge == rnd_delay' = IF rng_en = 1 THEN Shift(rnd_delay) ELSE rnd_delay

-----------------------------------------------------------------------------
(* The register file.  An access is what the bus shows at the edge.        *)

BusAccess(rd, wr, a, d) ==
  [read |-> rd, write |-> wr, address |-> a, writedata |-> d]

NoAccess      == BusAccess(0, 0, 0, 0)
Read(a)       == BusAccess(1, 0, a, 0)
WriteDelay(d) == BusAccess(0, 1, 0, d)

RegEdge(access) ==
  /\ readdata' = IF access.read = 0 THEN readdata
                 ELSE IF access.address = 1 THEN resp_time ELSE state
  /\ delay' = IF access.write = 1 /\ access.address = 0
              THEN access.writedata ELSE delay
  /\ irq' = IF access.read = 1 THEN 0
            ELSE IF interrupt = 1 /\ irq = 0 THEN 1 ELSE irq

RegReset == readdata' = 0 /\ irq' = 0 /\ UNCHANGED delay

(* The bus holds a read for two edges (one wait state, no read latency)    *)
(* and a write for one: the accesses the present edge may see and the bus   *)
(* after it.  Software reads both registers and writes register 0.         *)
Accesses ==
  CASE bus = "idle"  -> {NoAccess, Read(0), Read(1)}
                          \cup {WriteDelay(d) : d \in Delays}
    [] bus = "read0" -> {Read(0)}
    [] bus = "read1" -> {Read(1)}

BusAfter(access) ==
  IF bus = "idle" /\ access.read = 1
  THEN IF access.address = 0 THEN "read0" ELSE "read1"
  ELSE "idle"

-----------------------------------------------------------------------------
(* One rising edge, with the reset input high or low.                      *)

ClockEdge ==
  \E key0, key1 \in Bit, a \in Accesses :
    /\ MachineEdge(key0, key1)
    /\ PrngEdge
    /\ RegEdge(a)
    /\ bus' = BusAfter(a)

\* Reset also ends whatever the bus was doing.
ResetEdge == MachineReset /\ PrngEdge /\ RegReset /\ bus' = "idle"

Next == ClockEdge \/ ResetEdge

Spec == Init /\ [][Next]_vars

(* The oscillator never stops and reset is not held for ever.              *)
Fairness == WF_vars(ClockEdge)
FairSpec == Spec /\ Fairness

-----------------------------------------------------------------------------
(* Properties                                                              *)

\* Type invariant: every register of the three processes keeps to its range.
TypeOK ==
  /\ next_state \in States
  /\ tick \in 0..(3 * MAX_DELAY)
  /\ resp_time \in 0..(RESP_SPAN - 1)
  /\ state \in 0..4
  /\ interrupt \in Bit /\ rng_en \in Bit /\ irq \in Bit
  /\ rnd_delay \in 1..RND_MAX
  /\ delay \in 0..MAX_REG_DELAY
  /\ readdata \in 0..(RESP_SPAN - 1) \cup 0..4
  /\ bus \in {"idle", "read0", "read1"}

\* The declared range of both process variables (reaction_meter.vhd, line
\* 42) is never left, whatever is written into the delay register while a
\* delay runs: tick after an edge and the wait_ticks computed at an edge.
\* The random delay is 3 s to 6 s, as the comment in the DELAY branch says.
TickInRange ==
  /\ tick \in 0..(3 * MAX_DELAY)
  /\ WaitTicks \in 0..(3 * MAX_DELAY)
  /\ RandomWait \in MAX_DELAY..(2 * MAX_DELAY)

\* A delay that runs is not pulled away under the state machine: the
\* generator stands still from the first edge in DELAY on, although its
\* enable is a register that START sets and clears, and reset touches neither.
DelayIsFrozen == [][next_state = "DELAY" => rnd_delay' = rnd_delay]_vars

\* The state output trails the machine by one edge, and that edge is the
\* one that carries the pulse: the register is behind exactly while
\* interrupt is high or, since a time-out raises no pulse, just after one.
\* Reset may fall in between and freeze the machine in mid-transition.
StateTrailsPulse ==
  state # Pos(next_state) <=>
    interrupt = 1 \/ (state = Pos("COUNT") /\ next_state = "IDLE")

\* The request to the processor and the new contents of the state register
\* arrive at the same edge, so the handler that answers a request never
\* reads the state from before the transition that raised it.
IrqShowsNewState == [][irq = 0 /\ irq' = 1 => state' # state]_vars

\* Counting never takes longer than MAX_DELAY: a round left in COUNT is
\* ended by a response or by the time-out, also across resets and time-outs
\* of earlier rounds that leave tick at its last value.
CountEnds == next_state = "COUNT" ~> next_state # "COUNT"

\* The abstract protocol, implemented by this design.
Protocol == INSTANCE MeterProtocol WITH
  phase <- next_state, result <- resp_time, pulse <- interrupt,
  Results <- 0..(RESP_SPAN - 1)

ImplementsProtocol == Protocol!ProtocolSpec
=============================================================================
