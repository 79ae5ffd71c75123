------------------------- MODULE ReactionMeterProofs -------------------------
(***************************************************************************)
(* Proofs about the reaction meter, for every clock rate, delay and        *)
(* register width that satisfies MeterAssumption.                          *)
(***************************************************************************)
EXTENDS ReactionMeter, TLAPS

\* Counting stays below the time-out, and only START enables the generator.
CountBelowTimeOut == next_state = "COUNT" => tick < MAX_DELAY
RngOnlyInStart == next_state # "START" => rng_en = 0

\* The inductive invariant.
IInv == TypeOK /\ CountBelowTimeOut /\ RngOnlyInStart /\ StateTrailsPulse

-----------------------------------------------------------------------------
\* The span of the random delay (line 73) for every value of the generator.
LEMMA RandomWaitBounds ==
  ASSUME rnd_delay \in 1..RND_MAX
  PROVE  RandomWait \in MAX_DELAY..(2 * MAX_DELAY)
<1> DEFINE q == MAX_DELAY \div RND_MAX
<1>1. MAX_DELAY \in Nat /\ RND_MAX \in Nat /\ RND_MAX > 0
  BY MeterAssumption DEF MeterAssumption
<1>2. q \in Nat /\ q * RND_MAX <= MAX_DELAY
  BY <1>1
<1>3. q * rnd_delay \in Nat /\ q * rnd_delay <= q * RND_MAX
  BY <1>1, <1>2
<1>4. q * rnd_delay \in 0..MAX_DELAY
  BY <1>1, <1>2, <1>3
<1> QED
  BY <1>1, <1>4 DEF RandomWait

\* The wait computed in DELAY (lines 70-74) stays in the range of wait_ticks.
LEMMA WaitTicksInRange == 
  ASSUME rnd_delay \in 1..RND_MAX, delay \in 0..MAX_REG_DELAY
  PROVE  WaitTicks \in 0..(3 * MAX_DELAY)
<1>1. /\ MAX_DELAY \in Nat /\ TICKS_PER_MS \in Nat /\ MAX_REG_DELAY \in Nat
      /\ MAX_REG_DELAY * TICKS_PER_MS <= 3 * MAX_DELAY
  BY MeterAssumption DEF MeterAssumption
<1>2. RandomWait \in 0..(3 * MAX_DELAY)
  BY RandomWaitBounds, <1>1
<1>3. /\ delay * TICKS_PER_MS \in Nat
      /\ delay * TICKS_PER_MS <= MAX_REG_DELAY * TICKS_PER_MS
  BY <1>1
<1> QED
  BY <1>1, <1>2, <1>3 DEF WaitTicks

-----------------------------------------------------------------------------
LEMMA InitIInv == Init => IInv
BY MeterAssumption
DEF MeterAssumption, Init, IInv, TypeOK, CountBelowTimeOut, RngOnlyInStart,
    StateTrailsPulse, Pos, States, Bit

\* One lemma per process: what an edge of the state machine preserves.
LEMMA MachineEdgeIInv ==
  ASSUME IInv, NEW key0 \in Bit, NEW key1 \in Bit, MachineEdge(key0, key1)
  PROVE  /\ next_state' \in States /\ tick' \in 0..(3 * MAX_DELAY)
         /\ resp_time' \in 0..(RESP_SPAN - 1) /\ state' \in 0..4
         /\ interrupt' \in Bit /\ rng_en' \in Bit
         /\ CountBelowTimeOut' /\ RngOnlyInStart' /\ StateTrailsPulse'
<1> USE DEF IInv, TypeOK, CountBelowTimeOut, RngOnlyInStart,
            StateTrailsPulse, MachineEdge, MoveTo, Hold, States, Bit, Pos
<1>0. /\ MAX_DELAY \in Nat \ {0} /\ TICKS_PER_MS \in Nat \ {0}
      /\ RESP_SPAN \in Nat \ {0}
  BY MeterAssumption DEF MeterAssumption
<1>1. CASE Idle(key0)
  BY <1>0, <1>1 DEF Idle
<1>2. CASE Start(key0)
  BY <1>0, <1>2 DEF Start
<1>3. CASE Delay(key1)
  <2>1. WaitTicks \in 0..(3 * MAX_DELAY)
    BY WaitTicksInRange
  <2>2. tick' \in 0..(3 * MAX_DELAY)
    BY <1>0, <1>3, <2>1 DEF Delay
  <2>3. next_state' = "COUNT" => tick' = 0
    BY <1>3 DEF Delay
  <2> QED
    BY <1>0, <1>3, <2>2, <2>3 DEF Delay
<1>4. CASE TimeOut
  BY <1>0, <1>4 DEF TimeOut
<1>5. CASE Respond(key1)
  <2>1. resp_time' \in 0..(RESP_SPAN - 1)
    BY <1>0, <1>5 DEF Respond
  <2>2. /\ next_state = "COUNT" /\ next_state' = "STOP" /\ interrupt' = 1
        /\ tick' = 0 /\ rng_en' = 0 /\ state' = 3
    BY <1>5 DEF Respond
  <2>3. Pos(next_state') = 4
    BY <2>2
  <2>4. CountBelowTimeOut' /\ RngOnlyInStart'
    BY <2>2
  <2>5. StateTrailsPulse'
    BY <2>2, <2>3
  <2>6. tick' \in 0..(3 * MAX_DELAY)
    BY <1>0, <2>2
  <2> QED
    BY <2>1, <2>2, <2>4, <2>5, <2>6
<1>6. CASE KeepCounting(key1)
  BY <1>0, <1>6 DEF KeepCounting
<1>7. CASE Stop(key1)
  BY <1>0, <1>7 DEF Stop
<1> QED
  BY <1>1, <1>2, <1>3, <1>4, <1>5, <1>6, <1>7

\* What an edge of the register file preserves, for an access of the bus.
LEMMA RegEdgeTypeOK ==
  ASSUME TypeOK, NEW a \in Accesses, RegEdge(a)
  PROVE  /\ delay' \in 0..MAX_REG_DELAY /\ irq' \in Bit
         /\ readdata' \in 0..(RESP_SPAN - 1) \cup 0..4
<1>1. Delays \subseteq 0..MAX_REG_DELAY
  BY MeterAssumption DEF MeterAssumption
<1>2. a.write = 1 => a.writedata \in Delays
  <2>1. \/ a \in {NoAccess, Read(0), Read(1)}
        \/ \E d \in Delays : a = WriteDelay(d)
    BY DEF Accesses, TypeOK
  <2> QED
    BY <2>1 DEF BusAccess, NoAccess, Read, WriteDelay
<1>3. delay' \in 0..MAX_REG_DELAY
  BY <1>1, <1>2 DEF TypeOK, RegEdge
<1>4. irq' \in Bit
  BY DEF TypeOK, RegEdge, Bit
<1>5. readdata' \in 0..(RESP_SPAN - 1) \cup 0..4
  BY DEF TypeOK, RegEdge
<1> QED
  BY <1>3, <1>4, <1>5

LEMMA PrngEdgeTypeOK ==
  ASSUME rnd_delay \in 1..RND_MAX, PrngEdge
  PROVE  rnd_delay' \in 1..RND_MAX
BY MeterAssumption DEF MeterAssumption, PrngEdge

LEMMA NextIInv == IInv /\ [Next]_vars => IInv'
<1> SUFFICES ASSUME IInv, [Next]_vars PROVE IInv'
  OBVIOUS
<1>1. CASE ClockEdge
  <2>1. PICK key0 \in Bit, key1 \in Bit, a \in Accesses :
          /\ MachineEdge(key0, key1) /\ PrngEdge
          /\ RegEdge(a) /\ bus' = BusAfter(a)
    BY <1>1 DEF ClockEdge
  <2>2. rnd_delay' \in 1..RND_MAX
    BY <2>1, PrngEdgeTypeOK DEF IInv, TypeOK
  <2>3. /\ delay' \in 0..MAX_REG_DELAY /\ irq' \in Bit
        /\ readdata' \in 0..(RESP_SPAN - 1) \cup 0..4
        /\ bus' \in {"idle", "read0", "read1"}
    BY <2>1, RegEdgeTypeOK DEF IInv, BusAfter
  <2> QED
    BY <2>1, <2>2, <2>3, MachineEdgeIInv DEF IInv, TypeOK
<1>2. CASE ResetEdge
  <2>1. rnd_delay' \in 1..RND_MAX
    BY <1>2, PrngEdgeTypeOK DEF ResetEdge, IInv, TypeOK
  <2>2. RESP_SPAN \in Nat \ {0}
    BY MeterAssumption DEF MeterAssumption
  <2> QED
    BY <1>2, <2>1, <2>2
    DEF ResetEdge, MachineReset, RegReset, IInv, TypeOK, Bit,
        CountBelowTimeOut, RngOnlyInStart, StateTrailsPulse
<1>3. CASE UNCHANGED vars
  BY <1>3 DEF vars, meterVars, regVars, IInv, TypeOK, CountBelowTimeOut,
              RngOnlyInStart, StateTrailsPulse
<1> QED
  BY <1>1, <1>2, <1>3 DEF Next

\* Every register of the three processes keeps to its range.
THEOREM Typed == Spec => []TypeOK
<1>1. IInv => TypeOK
  BY DEF IInv
<1> QED
  BY <1>1, InitIInv, NextIInv, PTL DEF Spec

THEOREM Inductive == Spec => []IInv
BY InitIInv, NextIInv, PTL DEF Spec

\* The process variables tick and wait_ticks keep to NATURAL RANGE 0 TO
\* MAX_DELAY * 3 (line 42), whatever delay software writes and whenever.
THEOREM TickStaysInRange == Spec => []TickInRange
<1>1. IInv => TickInRange
  <2> SUFFICES ASSUME IInv PROVE TickInRange
    OBVIOUS
  <2>1. tick \in 0..(3 * MAX_DELAY) /\ WaitTicks \in 0..(3 * MAX_DELAY)
    BY WaitTicksInRange DEF IInv, TypeOK
  <2>2. RandomWait \in MAX_DELAY..(2 * MAX_DELAY)
    BY RandomWaitBounds DEF IInv, TypeOK
  <2> QED
    BY <2>1, <2>2 DEF TickInRange
<1> QED
  BY <1>1, Inductive, PTL

\* The state output is behind the machine exactly during a pulse or just
\* after a time-out.
THEOREM StateTrails == Spec => []StateTrailsPulse
<1>1. IInv => StateTrailsPulse
  BY DEF IInv
<1> QED
  BY <1>1, Inductive, PTL

\* The random delay stands still while the machine is in DELAY.
THEOREM DelayFrozen == Spec => DelayIsFrozen
<1>1. IInv /\ [Next]_vars => [next_state = "DELAY" => rnd_delay' = rnd_delay]_vars
  <2> SUFFICES ASSUME IInv, Next, next_state = "DELAY"
               PROVE  rnd_delay' = rnd_delay
    OBVIOUS
  <2>1. rng_en = 0
    BY DEF IInv, RngOnlyInStart
  <2> QED
    BY <2>1 DEF Next, ClockEdge, ResetEdge, PrngEdge
<1> QED
  BY <1>1, Inductive, PTL DEF Spec, DelayIsFrozen

\* A request to the processor comes with a new value in the state register.
THEOREM IrqShowsNew == Spec => IrqShowsNewState
<1>1. IInv /\ [Next]_vars => [irq = 0 /\ irq' = 1 => state' # state]_vars
  <2> SUFFICES ASSUME IInv, Next, irq = 0, irq' = 1
               PROVE  state' # state
    OBVIOUS
  <2>1. ClockEdge
    BY DEF Next, ResetEdge, RegReset
  <2>2. interrupt = 1 /\ state' = Pos(next_state)
    BY <2>1 DEF ClockEdge, RegEdge, MachineEdge
  <2> QED
    BY <2>2 DEF IInv, StateTrailsPulse
<1> QED
  BY <1>1, Inductive, PTL DEF Spec, IrqShowsNewState

-----------------------------------------------------------------------------
(* The design implements the abstract protocol.                            *)

LEMMA StepRefines ==
  IInv /\ [Next]_vars => [Protocol!ProtocolNext]_(Protocol!protocolVars)
<1> SUFFICES ASSUME IInv, [Next]_vars
             PROVE  [Protocol!ProtocolNext]_(Protocol!protocolVars)
  OBVIOUS
<1> USE DEF Protocol!ProtocolNext, Protocol!Move, Protocol!protocolVars
<1>1. CASE ClockEdge
  <2>1. PICK key0 \in Bit, key1 \in Bit : MachineEdge(key0, key1)
    BY <1>1 DEF ClockEdge
  <2>2. CASE Idle(key0)
    BY <2>2 DEF Idle, MoveTo, Hold, Protocol!Arm, Protocol!Stay
  <2>3. CASE Start(key0)
    BY <2>3 DEF Start, MoveTo, Hold, Protocol!Release, Protocol!Stay
  <2>4. CASE Delay(key1)
    BY <2>4 DEF Delay, MoveTo, Hold, Protocol!Go, Protocol!Stay
  <2>5. CASE TimeOut
    BY <2>5 DEF TimeOut, MoveTo, Protocol!GiveUp
  <2>6. CASE Respond(key1)
    <3>1. resp_time' \in 0..(RESP_SPAN - 1)
      BY <2>1, MachineEdgeIInv
    <3>2. Protocol!Respond(resp_time')
      BY <2>6 DEF Respond, MoveTo, Protocol!Respond
    <3> QED
      BY <3>1, <3>2
  <2>7. CASE KeepCounting(key1)
    BY <2>7 DEF KeepCounting, MoveTo, Hold, Protocol!Stay
  <2>8. CASE Stop(key1)
    BY <2>8 DEF Stop, MoveTo, Hold, Protocol!Rest, Protocol!Stay
  <2> QED
    BY <2>1, <2>2, <2>3, <2>4, <2>5, <2>6, <2>7, <2>8 DEF MachineEdge
<1>2. CASE ResetEdge
  BY <1>2 DEF ResetEdge, MachineReset, Protocol!Clear
<1>3. CASE UNCHANGED vars
  BY <1>3 DEF vars, meterVars
<1> QED
  BY <1>1, <1>2, <1>3 DEF Next

\* Every behaviour of the three processes is one of the abstract protocol:
\* phases in order, a pulse for every move but the time-out, and a result
\* published with a response and at no other time but a reset.
THEOREM MeterImplementsProtocol == Spec => ImplementsProtocol
<1>1. Init => Protocol!ProtocolInit
  BY DEF Init, Protocol!ProtocolInit
<1> QED
  BY <1>1, Inductive, StepRefines, PTL
  DEF Spec, ImplementsProtocol, Protocol!ProtocolSpec
=============================================================================
