------------------------------- MODULE QsysApp -------------------------------
(***************************************************************************)
(* The Qsys application (qsys_main.c): the reaction meter in hardware, its  *)
(* interrupt, the handler that turns its states into semaphores, and the   *)
(* task that follows the round on the other side of the semaphores.        *)
(*                                                                         *)
(* It composes the protocol of the meter, which module ReactionMeter       *)
(* implements, with the kernel of module Ucos.  Time advances by kernel    *)
(* ticks, which are also the milliseconds of the meter: both are derived   *)
(* from the same oscillator.                                               *)
(***************************************************************************)
EXTENDS Ucos, MeterProtocol

CONSTANTS
  DELAY_MS,        \* FIXED_DELAY, the delay written into the meter (2000)
  MAX_MS,          \* the meter's time-out (3000)
  RESP_SPAN,       \* values of its result register (2048)
  MIN_RESP,        \* MIN_RESP_TIME (80)
  SLICES,          \* iterations of the counting loop (20)
  SLICE_TICKS,     \* ticks each of them waits (100)
  Reactions,       \* when the player presses KEY1, in ms after the signal
  Habits,          \* what a player may do beyond pressing KEY0 once when the
                   \* task waits for it, KEY1 to respond, and entering a name
                   \* when asked: press "key0" or "key1" any time, enter
                   \* "names" any time, "bounce" faster than interrupts
  BUS_RACES        \* a bus read may coincide with a pulse of the meter or
                   \* be under way when the interrupt request rises

ASSUME QsysAssumption ==
  /\ {1, 2} = Tasks
  /\ Events = {"start_sem", "start_counting_sem", "stop_sem", "restart_sem",
               "player_queue"}
  /\ DELAY_MS \in Nat \ {0} /\ MAX_MS \in Nat \ {0}
  /\ RESP_SPAN \in Nat \ {0} /\ Results = 0..(RESP_SPAN - 1)
  /\ MIN_RESP \in Nat /\ SLICES \in Nat \ {0} /\ SLICE_TICKS \in Nat \ {0}
  /\ Reactions \subseteq 0..(MAX_MS - 1)
  /\ Habits \subseteq {"key0", "key1", "names", "bounce"}
  /\ BUS_RACES \in BOOLEAN

VARIABLES
  \* hardware, next to phase, result and pulse of the protocol
  ms,              \* milliseconds the meter has counted in DELAY or COUNT
  irq,             \* the meter's interrupt request
  timer,           \* the interrupt request of the tick timer
  key0, key1,      \* the buttons, "up" or "down"
  \* the task reaction_meter
  pc,              \* where it is: a case of its switch, or a call in it
  time,            \* iteration of the counting loop
  response_time,   \* the result it has read
  highscore,       \* the best result, UINT16_MAX before the first
  rounds,          \* static counter of user_register
  \* history
  measured,        \* what the meter's stopwatch showed when the player
                   \* responded in this round, before it has: UNMEASURED
  best             \* the least of these that were not too fast

meter    == <<phase, result, pulse, ms>>
lines    == <<irq, timer>>
keys     == <<key0, key1>>
task     == <<pc, time, response_time, highscore, rounds>>
history  == <<measured, best>>
vars     == <<meter, lines, keys, kernelVars, task, history>>

UINT16_MAX == 65535
UNMEASURED == -1

ReactionTask == 1
ConsoleTask  == 2

Init ==
  /\ ProtocolInit /\ ms = 0 /\ irq = 0 /\ timer = 0
  /\ key0 = "up" /\ key1 = "up"
  /\ KernelInit
  /\ pc = "IDLE" /\ time = 0 /\ response_time = 0
  /\ highscore = UINT16_MAX /\ rounds = 3
  /\ measured = UNMEASURED /\ best = UINT16_MAX

-----------------------------------------------------------------------------
(* The meter.  A move follows a button within a clock cycle, so time and   *)
(* buttons wait for the meter to settle.                                   *)

MeterMoves ==
  \/ pulse = 1
  \/ phase = "IDLE" /\ key0 = "down"
  \/ phase = "START" /\ key0 = "up"
  \/ phase = "COUNT" /\ key1 = "down"
  \/ phase = "STOP" /\ key1 = "up"

\* The register file takes over the pulse.
Latch == pulse = 1 /\ Stay /\ irq' = 1 /\ UNCHANGED <<ms, measured, best>>

MeterArm ==
  key0 = "down" /\ Arm /\ measured' = UNMEASURED /\ UNCHANGED <<ms, irq, best>>

MeterRelease ==
  key0 = "up" /\ Release /\ ms' = 0 /\ UNCHANGED <<irq, measured, best>>

\* Slip: the result register is too narrow for the responses.
MeterRespondNarrow ==
  /\ key1 = "down"
  /\ Respond(ms % 2)
  /\ measured' = ms
  /\ best' = IF MIN_RESP <= ms /\ ms < best THEN ms ELSE best
  /\ ms' = 0
  /\ UNCHANGED irq

MeterRespond ==
  /\ key1 = "down"
  /\ Respond(ms % RESP_SPAN)
  /\ measured' = ms
  /\ best' = IF MIN_RESP <= ms /\ ms < best THEN ms ELSE best
  /\ ms' = 0
  /\ UNCHANGED irq

MeterRest == key1 = "up" /\ Rest /\ UNCHANGED <<ms, irq, measured, best>>

Meter ==
  /\ \/ Latch
     \/ pulse = 0 /\ (MeterArm \/ MeterRelease \/ MeterRespond \/ MeterRest)
  /\ UNCHANGED <<timer, keys, kernelVars, task>>

(* A millisecond passes.  The interrupt handlers are done long before.     *)
Quiet == ~MeterMoves /\ irq = 0 /\ timer = 0 /\ nesting = 0

DelayPasses ==
  /\ phase = "DELAY"
  /\ \/ ms + 1 < DELAY_MS /\ ms' = ms + 1 /\ UNCHANGED protocolVars
     \/ ms + 1 >= DELAY_MS /\ key1 = "up" /\ Go /\ ms' = 0
     \/ ms + 1 >= DELAY_MS /\ key1 = "down" /\ ms' = 0 /\ UNCHANGED protocolVars

CountPasses ==
  /\ phase = "COUNT"
  /\ \/ ms + 1 < MAX_MS /\ ms' = ms + 1 /\ UNCHANGED protocolVars
     \/ ms + 1 >= MAX_MS /\ GiveUp /\ ms' = ms + 1

\* From the pend of start_sem to the read of the result, and while the score is
\* shown, the task neither prints nor waits except in its calls: there it gets
\* on within the millisecond.  Where it prints it may be late by any time.
Prompt ==
  ReactionTask \in rdy =>
    /\ pc \notin {"START", "COUNT", "read", "show"}
    /\ pc = "ready" => evt[ReactionTask] = NoEvent

Millisecond ==
  /\ Quiet /\ Prompt
  /\ timer' = 1
  /\ \/ DelayPasses \/ CountPasses
     \/ phase \notin {"DELAY", "COUNT"} /\ UNCHANGED meter
  /\ UNCHANGED <<irq, keys, kernelVars, task, history>>

(* The player.                                                             *)
PressKey0 ==
  /\ key0 = "up" /\ key0' = "down" /\ UNCHANGED key1
  /\ \/ "key0" \in Habits
     \/ ReactionTask \in waiting["start_sem"] /\ phase = "IDLE" /\ key1 = "up"

PressKey1 ==
  /\ key1 = "up" /\ key1' = "down" /\ UNCHANGED key0
  /\ IF phase = "COUNT" THEN ms \in Reactions ELSE "key1" \in Habits

LiftKey0 == key0 = "down" /\ key0' = "up" /\ UNCHANGED key1
LiftKey1 == key1 = "down" /\ key1' = "up" /\ UNCHANGED key0

Button(move) ==
  /\ move /\ ~MeterMoves
  /\ "bounce" \in Habits \/ Quiet
  /\ UNCHANGED <<meter, lines, kernelVars, task, history>>

Player == \/ Button(PressKey0) \/ Button(PressKey1)
          \/ Button(LiftKey0) \/ Button(LiftKey1)

-----------------------------------------------------------------------------
(* Interrupts.  Software sees the meter only through reads of its          *)
(* registers; each of them clears the request, and a pulse at that edge is *)
(* dropped while the state register still shows the state before it.       *)

Before == [START |-> "IDLE", DELAY |-> "START", COUNT |-> "DELAY",
           STOP |-> "COUNT", IDLE |-> "STOP"]

StateRegister == IF pulse = 1 THEN Before[phase] ELSE phase

ReadRegister == irq' = 0 /\ pulse' = 0 /\ UNCHANGED <<phase, result, ms>>

\* Without races the processor takes a request before its next access.
BusIsFree == pulse = 0 \/ BUS_RACES
Undisturbed == (pulse = 0 /\ irq = 0 /\ timer = 0) \/ BUS_RACES

Interrupted ==
  /\ nesting = 0 /\ (irq = 1 \/ timer = 1)
  /\ IntEnter
  /\ UNCHANGED <<cnt, waiting, evt, stat, pendStat, dly, rdy, sched>>
  /\ UNCHANGED <<meter, lines, keys, task, history>>

\* Line 0, the tick, goes before line 1, the meter.
TickIsr ==
  /\ nesting > 0 /\ timer = 1
  /\ timer' = 0
  /\ TimeTick
  /\ UNCHANGED <<schedVars, meter, irq, keys, task, history>>

\* isr() of qsys_main.c: reads the state register and posts for the state.
\* Slips: two states confused; the last one forgotten.
PostedSwapped == [IDLE |-> "stop_sem", START |-> "start_sem",
                  COUNT |-> "start_counting_sem", STOP |-> "restart_sem"]
PostedNoRestart == [START |-> "start_sem", COUNT |-> "start_counting_sem",
                    STOP |-> "stop_sem"]

Posted == [IDLE |-> "restart_sem", START |-> "start_sem",
           COUNT |-> "start_counting_sem", STOP |-> "stop_sem"]

MeterIsr ==
  /\ nesting > 0 /\ timer = 0 /\ irq = 1 /\ BusIsFree
  /\ ReadRegister
  /\ IF StateRegister \in DOMAIN Posted
     THEN Post(Posted[StateRegister])
     ELSE UNCHANGED <<cnt, waiting, evt, stat, pendStat, dly, rdy, sched>>
  /\ UNCHANGED <<schedVars, timer, keys, task, history>>

Resume ==
  /\ irq = 0 /\ timer = 0
  /\ IntExit
  /\ UNCHANGED <<cnt, waiting, evt, stat, pendStat, dly, rdy, sched>>
  /\ UNCHANGED <<meter, lines, keys, task, history>>

Switch == Dispatch /\ UNCHANGED <<meter, lines, keys, task, history>>

Processor == Interrupted \/ TickIsr \/ MeterIsr \/ Resume \/ Switch

-----------------------------------------------------------------------------
(* The task reaction_meter.                                                *)

At(label) == pc = label /\ Runs(ReactionTask) /\ Undisturbed

Keep == UNCHANGED <<schedVars, meter, lines, keys>>

InCall == evt[ReactionTask] # NoEvent

\* The three things that happen in a pend call: it waits, it returns with
\* the event, it returns with OS_TIMEOUT.
Waits(label, e, timeout) ==
  /\ At(label) /\ ~InCall /\ PendBlocks(e, timeout)
  /\ UNCHANGED <<task, history>> /\ Keep

Gets(label, e) ==
  /\ At(label)
  /\ \/ ~InCall /\ PendTakes(e)
     \/ InCall /\ pendStat[ReactionTask] = "OK" /\ PendReturns
  /\ Keep

TimesOut(label) ==
  /\ At(label) /\ InCall /\ pendStat[ReactionTask] = "TO" /\ PendReturns
  /\ Keep

Goto(label) == pc' = label

\* case IDLE up to the first call that may wait; user_register's test
\* rounds++ >= 3.
Idle ==
  /\ At("IDLE")
  /\ rounds' = rounds + 1
  /\ Goto(IF rounds >= 3 THEN "register" ELSE "ready")
  /\ UNCHANGED <<kernelVars, meter, lines, keys>>
  /\ UNCHANGED <<time, response_time, highscore, history>>

\* Slip: the counter of turns is not reset.
RegisterKeepsRounds ==
  \/ Waits("register", "player_queue", 0)
  \/ /\ Gets("register", "player_queue")
     /\ Goto("ready")
     /\ UNCHANGED <<time, response_time, highscore, rounds, history>>

Register ==
  \/ Waits("register", "player_queue", 0)
  \/ /\ Gets("register", "player_queue")
     /\ rounds' = 0 /\ Goto("ready")
     /\ UNCHANGED <<time, response_time, highscore, history>>

Ready ==
  \/ Waits("ready", "start_sem", 0)
  \/ /\ Gets("ready", "start_sem")
     /\ Goto("START")
     /\ UNCHANGED <<time, response_time, highscore, rounds, history>>

Start ==
  \/ Waits("START", "start_counting_sem", 0)
  \/ /\ Gets("START", "start_counting_sem")
     /\ time' = 0 /\ Goto("COUNT")
     /\ UNCHANGED <<response_time, highscore, rounds, history>>

\* Slip: the result is read only the next time round.
CountSkipsRead ==
  \/ Waits("COUNT", "stop_sem", SLICE_TICKS)
  \/ /\ TimesOut("COUNT")
     /\ time' = time + 1
     /\ Goto(IF time + 1 < SLICES THEN "COUNT" ELSE "IDLE")
     /\ UNCHANGED <<response_time, highscore, rounds, history>>
  \/ /\ Gets("COUNT", "stop_sem")
     /\ Goto("STOP")
     /\ UNCHANGED <<time, response_time, highscore, rounds, history>>

\* Slip: the wait for a response has no time-out.
CountWaitsForever ==
  \/ Waits("COUNT", "stop_sem", 0)
  \/ /\ Gets("COUNT", "stop_sem")
     /\ Goto("read")
     /\ UNCHANGED <<time, response_time, highscore, rounds, history>>

\* case COUNT: a slice at a time, until stop_sem or the last slice.
Count ==
  \/ Waits("COUNT", "stop_sem", SLICE_TICKS)
  \/ /\ TimesOut("COUNT")
     /\ time' = time + 1
     /\ Goto(IF time + 1 < SLICES THEN "COUNT" ELSE "IDLE")
     /\ UNCHANGED <<response_time, highscore, rounds, history>>
  \/ /\ Gets("COUNT", "stop_sem")
     /\ Goto("read")
     /\ UNCHANGED <<time, response_time, highscore, rounds, history>>

ReadResult ==
  /\ At("read")
  /\ response_time' = result
  /\ ReadRegister
  /\ Goto(IF result >= MIN_RESP THEN "STOP" ELSE "IDLE")
  /\ UNCHANGED <<kernelVars, timer, keys>>
  /\ UNCHANGED <<time, highscore, rounds, history>>

\* case STOP: the score is shown until restart_sem, in waits of SLICE_TICKS
\* (100 ticks, like the slices) between which the leds may rotate.
Stop ==
  /\ At("STOP")
  /\ highscore' = IF response_time < highscore THEN response_time ELSE highscore
  /\ Goto("show")
  /\ UNCHANGED <<kernelVars, meter, lines, keys>>
  /\ UNCHANGED <<time, response_time, rounds, history>>

\* Slip: the loop ends with the first time-out.
ShowOnce ==
  \/ Waits("show", "restart_sem", SLICE_TICKS)
  \/ /\ TimesOut("show") \/ Gets("show", "restart_sem")
     /\ Goto("IDLE")
     /\ UNCHANGED <<time, response_time, highscore, rounds, history>>

Show ==
  \/ Waits("show", "restart_sem", SLICE_TICKS)
  \/ TimesOut("show") /\ UNCHANGED <<task, history>>
  \/ /\ Gets("show", "restart_sem")
     /\ Goto("IDLE")
     /\ UNCHANGED <<time, response_time, highscore, rounds, history>>

ReactionMeterTask ==
  Idle \/ Register \/ Ready \/ Start \/ Count \/ ReadResult \/ Stop \/ Show

\* The task console: reads a line (it never waits in the kernel for it) and
\* posts a name.
Console ==
  /\ Runs(ConsoleTask) /\ Undisturbed
  /\ "names" \in Habits \/ pc = "register"
  /\ Post("player_queue")
  /\ UNCHANGED <<schedVars, meter, lines, keys, task, history>>

-----------------------------------------------------------------------------
Next == Meter \/ Millisecond \/ Player \/ Processor \/ ReactionMeterTask \/ Console

Spec == Init /\ [][Next]_vars

(* Time passes, hardware and processor run, a task that is not preempted   *)
(* for ever gets on, players let go of the buttons and enter a name when   *)
(* asked.  Nobody is assumed to press a button.                            *)
Fairness ==
  /\ WF_vars(Meter) /\ SF_vars(Millisecond) /\ WF_vars(Processor)
  /\ SF_vars(ReactionMeterTask) /\ SF_vars(Switch)
  /\ SF_vars(pc = "register" /\ Console)
  /\ SF_vars(Button(LiftKey0)) /\ SF_vars(Button(LiftKey1))

FairSpec == Spec /\ Fairness

-----------------------------------------------------------------------------
(* Properties                                                              *)

TypeOK ==
  /\ ProtocolTypeOK
  /\ ms \in 0..(IF phase = "DELAY" THEN DELAY_MS ELSE MAX_MS)
  /\ irq \in {0, 1} /\ timer \in {0, 1}
  /\ key0 \in {"up", "down"} /\ key1 \in {"up", "down"}
  /\ pc \in {"IDLE", "register", "ready", "START", "COUNT", "read", "STOP", "show"}
  /\ time \in 0..SLICES
  /\ response_time \in Results
  /\ highscore \in Results \cup {UINT16_MAX}
  /\ rounds \in 0..4

\* doc/Measurements.md: "the value displayed on the seven segment displays
\* is exactly the same as the measurement for the platform designer
\* component": a score that is shown is what the meter timed in this round.
ScoreIsMeasurement == pc \in {"STOP", "show"} => response_time = measured

\* While the task waits for a new turn no event of an earlier one is left
\* over: no token that would let a later call of the turn return at once.
NoStaleTokens ==
  ReactionTask \in waiting["start_sem"] =>
    cnt["start_counting_sem"] = 0 /\ cnt["stop_sem"] = 0 /\ cnt["restart_sem"] = 0

\* README.md: "nothing happens until the user lets go of KEY_1; the user is
\* brought back": the score is left only when the meter has seen KEY1 up.
ScoreStaysUntilRelease ==
  [][pc = "show" /\ pc' = "IDLE" => phase # "STOP"]_vars

\* The other half of that sentence: letting go of KEY1 reaches the task.
\* Once interrupts are served, a task that still waits for the release has a
\* player who still holds the button.
ReleaseReachesTask ==
  ReactionTask \in waiting["restart_sem"] /\ Quiet => phase = "STOP"

\* README.md: the user is presented with "the highest score": no score is
\* better than the best response the meter ever timed and the rules admit.
HighscoreWasAchieved == highscore >= best

\* Whatever the task is doing, it comes back to asking for a turn: every
\* event it waits for is announced by the meter, or the wait times out.
ComesHome == pc # "ready" ~> pc = "ready"
-----------------------------------------------------------------------------
(* The game the players see, in terms of meter and task.                   *)

\* The task is in a turn the meter has begun, and has not read the result.
InTurn ==
  \/ pc \in {"START", "COUNT", "read"}
  \/ /\ evt[ReactionTask] = "start_sem"
     /\ stat[ReactionTask] = "RDY" /\ pendStat[ReactionTask] = "OK"

\* The meter leads until the response, the task from the score on.
Stage ==
  IF pc \in {"STOP", "show"} THEN "shows"
  ELSE IF phase \in {"START", "DELAY"} THEN "waits"
  ELSE IF InTurn /\ (phase = "COUNT" \/ measured # UNMEASURED) THEN "counts"
  ELSE "home"

\* A press is a response when the meter takes it.
Clock    == IF Stage = "counts" /\ phase = "COUNT" THEN ms ELSE 0
Held     == key1 = "down" /\ phase # "COUNT"
Response == IF Stage \in {"counts", "shows"} THEN measured ELSE UNMEASURED
Freed    == Stage \in {"counts", "shows"} /\ phase = "IDLE"
TopScore == IF pc = "STOP" /\ response_time < highscore
            THEN response_time ELSE highscore

\* The task gives up after its slices, the meter after its time-out.
TimeAllowed ==
  IF SLICES * SLICE_TICKS < MAX_MS THEN SLICES * SLICE_TICKS ELSE MAX_MS - 1

Game == INSTANCE ReactionGame
          WITH PATIENCE <- TimeAllowed, LEAST <- MIN_RESP, ACCURACY <- 0,
               stage <- Stage, clock <- Clock, held <- Held, response <- Response,
               free <- Freed, score <- response_time, highscore <- TopScore

\* README.md, Usage and Cheat-prevention: for patient players the application
\* is the game: its scores are the very responses, each turn with a response
\* in time ends in a score, and no turn counts before KEY1 is released.
PlaysGame == Game!Spec
=============================================================================
