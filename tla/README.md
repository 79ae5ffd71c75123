# Verification of the configurable reaction meter

The repository holds three builds of a reaction-time meter for the DE1-SoC: a
state machine in VHDL behind a bus (`components/reaction_meter`), an
application on the uC/OS-II kernel that uses it (`qsys/`), and an application
that measures in software alone (`rtos/`). A player presses KEY0, waits for a
signal and presses KEY1; the score is the time in between. This directory
specifies those builds in TLA+, checks small instances with TLC and proves what
matters for every size with TLAPS.

Contents: [1 Inventory](#1-inventory), [2 Modules](#2-modules-and-the-code-they-stand-for),
[3 What the runs check](#3-what-the-runs-check), [4 Findings](#4-findings),
[5 Bounds](#5-bounds), [6 Fairness](#6-fairness), [7 Proofs](#7-proofs),
[8 Not modelled](#8-not-modelled), [9 Plan](#9-plan).

## 1 Inventory

| Component | State | Operations | Hard behaviour |
|---|---|---|---|
| Reaction meter (`reaction_meter.vhd`) | `next_state`, `tick`, `resp_time`, outputs `state`, `irq`, `rng_en` | one clocked process: IDLE, START, DELAY, COUNT, STOP; reset | outputs assigned from old values; counters that are restarted on some paths only; buttons change on any edge |
| Register file (`resp_reg.vhd`) | delay register, `readdata`, `irq` | bus read (2 cycles), write of the delay, latch of the pulse, reset | a read clears the request and swallows a pulse of the same edge |
| Random generator (`prng.vhd`) | 8-bit shift register | shift while enabled | must not reach zero, must stand still in DELAY |
| uC/OS-II kernel (`os_sem.c`, `os_q.c`, `os_time.c`, `os_core.c`) | event counts and wait lists, task control blocks, ready table, current task, nesting | pend, post, set, delay, tick, interrupt entry and exit, scheduling | a time-out and a post of the same wait; reschedule at the right places; a task that timed out stays in the wait list until it runs |
| Qsys application (`qsys_main.c`) | state of the task, score, high score, turns; four semaphores and a queue | interrupt handler, `reaction_meter`, `console`, `user_register` | two state machines (hardware, task) that talk through an interrupt and counting semaphores; different time-outs; interrupts are about states, not transitions |
| Buttons class and its port (`button.cpp`, the generated port) | edge capture register, level | capture, read, clear, callback, `pressed` | two bus accesses with a gap; a press is remembered by the semaphore for ever |
| RTOS application (`rtos_main.cpp`) | the same without the meter: counting loop of one-tick waits, cheat-prevention loop | `button_isr`, `reaction_meter`, `console`, `user_register` | time is counted in waits; presses outside the round leave tokens |
| Interrupt dispatch and tick driver (HAL) | pending lines | entry, handlers by line number, exit | tick and meter or buttons pending together |
| Displays and leds (`hex7seg.vhd`, `reg32.vhd`, the writes of both applications) | segments of six digits, ten leds, tries | decimal digits of score and tries, one led more per time slice, rotation | sizes of `tries` and `leds`, a digit taken too early, a rotation in `int` over nine of ten leds |
| Names (`receive`, `console`, `user_register`) | one static buffer, a queue of pointers into it, `rounds` | a character is read, a line is posted, a name is copied | every queued pointer is the same; the buffer is never cleared and receives no terminating zero |
| Ring of messages (`os_q.c`) | table, `OSQIn`, `OSQOut`, `OSQEntries` | post, post in front, take, flush | two pointers that wrap in different calls and one of them backwards |
| HAL alarms (`alt_alarm_start.c`, `alt_tick.c`) | tick counter, due time, roll-over flag | start, stop, tick with callback | the counter and the due time roll over at different ticks |
| Event flags (`os_flag.c`) | flags, who waits for which, flags a task was woken with | pend with consumption, post | the flags a task was woken with are consumed only when it runs |
| JTAG UART and its driver | two FIFOs, two rings, interrupt enables, flag group, two locks, seconds without a host | handler, alarm, read and write with a step for every access the handler may come between | rings without a lock; interrupts that one side turns off and the other on; a flag posted between a look and a wait; a host that goes away |
| Avalon wrapper, interconnect, other kernel services, rest of the HAL, Linux part | | | see [8](#8-not-modelled) |

How they interact: the buttons are wired to the meter (Qsys) or to the capture
port (RTOS). The meter pulses `interrupt` for one clock; the register file turns
that into `irq`, which any bus read takes back. The HAL calls the handler inside
`OSIntEnter`/`OSIntExit`; the handler posts a semaphore; the task, the most
urgent in the system, pends on it. `console` (less urgent) posts names to the
queue from which `user_register` takes one. It reads them with `getchar` from the
JTAG UART, whose handler fills a ring and wakes the call through event flags; both
tasks write to the same device with `printf`. An alarm of the tick driver tells
the driver every second whether a host is there.

What makes each part correct:

* meter: counters keep their ranges, the processor is told with the new state,
  the delay does not move while it runs, every count ends, and all of it is the
  abstract protocol of a round;
* kernel: no token lost or made up, wait lists and ready table exact, the most
  urgent ready task runs, a timed call returns;
* applications: a score is the time of this round's response, a high score was
  achieved, nothing of a round leaks into the next, a score stays as long as the
  button is held and leaves when it is released, the task always comes back;
* displays: the home screen reads as tries and high score after every round, the
  leds circle without losing one;
* names: the name registered is the one typed, and text ends inside its buffer;
* buttons: nothing is posted that was not pressed, and presses are lost in three
  known ways only;
* alarms: called on the tick that was asked for;
* ring of messages, and either direction of the JTAG UART: nothing lost, doubled
  or reordered; no wake-up lost, no interrupt left off, no call left hanging.

## 2 Modules and the code they stand for

| Module | Models | One action per |
|---|---|---|
| `MeterProtocol` | what the meter promises: phases, announcement, result. No clock, no buttons | transition of the round |
| `Prng` | `prng.vhd`, 8 bits | clock edge |
| `ReactionMeter` | the three clocked processes together with the bus | clock edge (a conjunction of one step of each process), with one operator per `WHEN` branch |
| `Ucos` | the kernel, as operators that are one critical section each; its guarantees as invariants | - |
| `ReactionGame` | the game as its players know it, for both applications: stage of the turn, time since the signal, KEY1, response, score, high score. No semaphores, interrupts or registers | event a player notices |
| `UcosTasks` | the kernel under every program: tasks and handlers call anything in any order | call |
| `QsysApp` | `qsys_main.c` with handler, both tasks, interrupt dispatch, `Ucos` and `MeterProtocol` | segment of a task between two kernel calls or bus accesses |
| `RtosApp` | `rtos_main.cpp`, `button.cpp`, the capture port, on `Ucos` | the same |
| `Display` | `hex7seg.vhd`, `reg32.vhd`, `show_score`, `show_tries`, `rotate_left` and the writes of a round | state of the task that writes |
| `Names` | `receive`, `console`, `user_register` with their buffer | character read; turn, taking or awaiting of a name |
| `Deque` | what a message queue promises: a bounded sequence with two ends | - |
| `MsgQueue` | the ring of `os_q.c` | call |
| `Alarms` | `alt_alarm_start`, `alt_alarm_stop`, `alt_tick` for one alarm | call, tick |
| `Buttons` | edge capture port, `buttons_c`, `button_isr`, set-up included | edge, bus access, callback |
| `EventFlags` | `OSFlagPend` and `OSFlagPost` as operators on a group | - |
| `BytePipe` | what one direction of a character device promises | - |
| `JtagUart` | the device, and `altera_avalon_jtag_uart_{init,read,write}.c` on `EventFlags` | step of the host, pass of the handler, alarm, segment of a call between two points where the handler is seen |
| `MCParts` | `Prng`, `Display`, `MsgQueue`, `Alarms`, `Buttons`, `Names` side by side: a behaviour is one of them running, so that their state spaces add up | - |
| other `MC*` | values of the constants for TLC; `MCJtagUart` also splits hosts into those that type (alternating two characters), fetch or are gone | - |
| `ReactionMeterProofs`, `PrngProofs`, `KernelProofs`, `UcosTasksProofs`, `QsysProofs`, `RtosProofs`, `PartsProofs`, `JtagUartProofs` | theorems | - |

Composition:

    Ucos ------+-- UcosTasks
               +-- RtosApp
               +-- QsysApp --- MeterProtocol <== implemented by == ReactionMeter -- Prng
                                                                   (Shift parameter)
    EventFlags --- JtagUart == implements, twice ==> BytePipe
                   MsgQueue == implements ==> Deque
    RtosApp, QsysApp == implement ==> UcosTasks
    RtosApp, QsysApp == implement, for patient players ==> ReactionGame

`QsysApp` moves the meter with the actions of `MeterProtocol`, which
`ReactionMeter` is shown to implement (`ImplementsProtocol`, checked and proved),
so what software can see of the meter is what the clocked design does. Conversely the meter in
`QsysApp` keeps to that protocol whatever the software reads, and both applications keep to
`UcosTasks` (both proved, section 7).

`ReactionGame` is what the two applications have in common, and what README.md of the
repository promises a player: no signal while KEY1 is held; the first press after it is
the response; a response becomes a score or is too fast for one; nobody is sent home for
silence before `PATIENCE`; the score stays until KEY1 is let go. `ACCURACY` is where they differ: 0
with the meter, one tick without. The mappings are the last sections of `QsysApp` and
`RtosApp` (`Stage`, `Clock`, `Held`, ...). In `QsysApp` meter and task are two state machines that
are never in step: the meter leads until the response, the task from the score on, and a press
of KEY1 counts when the meter takes it. There `PATIENCE` is `TimeAllowed`, the lesser of
the task's slices and the meter's time-out.
`ReactionMeter` takes the generator's step as the parameter `Shift`;
`PrngProofs!LfsrShiftClosed` discharges the assumption made of it.

Correspondence of state. In `ReactionMeter` every variable is the VHDL signal of
that name; an unprimed signal is what the processes read on an edge, a primed one
what they assign. In `Ucos` every variable names the C field it stands for in its
declaration. A task is its priority. `sched` holds the tasks that are on their way
to `OS_Sched` after leaving a critical section: interrupts may come in between.
Queue contents are abstracted to their number; `MsgQueue` has the contents, and
`Names` what they point to. In `JtagUart` a ring is a record of buffer and two
indices, in `Display` the 16 bits of `leds` are the set of those that are 1, `seen` is the copy of `rx_in` a read decides by, and the step after a
copy moves the index, because the handler may run between the two. In the applications `pc` is the
case of the `switch`, or the pend call inside it; a call that blocks is two steps
(`Waits`, then `Gets` or `TimesOut`). Locals that are dead between cases are
left out. The cheat-prevention loop of `RtosApp` is three states: the look at KEY1 (`delayed`), the
`printf` before the reset of `stop_sem` (`cheated`), and the next delay (`again`). Variables under "history" are not in the code; they say what the player
did, for properties to compare with.

Definitions called "Slip" in the modules are plausible mistakes of the same
shape as the definition they precede. Nothing uses them: each is a variation with
which one property is known to fail, which is how the properties are kept from
being empty.

## 3 What the runs check

| Run | Question | Result |
|---|---|---|
| `meter` | ranges of counters and random delay across resets and delay rewrites, frozen delay, request with new state, counting ends, refinement of the protocol | holds |
| `parts` | generator over its whole cycle; displays and leds over every sequence of rounds; ring of messages as a bounded sequence; alarms across the roll-over; presses from edge to callback; names of people who wait their turn | holds |
| `ucos` | the kernel under every program of two tasks, a semaphore, a queue and handlers | holds |
| `qsys` | the Qsys application for players who respond in time, or not at all, and press nothing else, and that it is the game | holds |
| `rtos` | the RTOS application for players who respond or not and hold KEY1 over the end of a delay, once, several times or not at all, and that it is the game | holds |
| `jtag` | the JTAG UART: pipes, wake-ups, interrupt enables, calls that return, a host that goes | holds |
| `qsys_early`, `qsys_late`, `qsys_held`, `qsys_race`, `rtos_late`, `names_ahead` | one statement of the documents each, for a player who does a little more | violated, see 4 |

The properties of `qsys` and `rtos` are about what neither side alone decides:

* `ScoreIsMeasurement` (Qsys): the score on display equals what the meter's
  stopwatch showed at this round's response, through the pulse, the request, the
  handler, the semaphore and the read of the result. `ScoreIsTime` (RTOS): it is
  that time, or one tick less when the press falls between a tick and its handler.
  The repository's own measurement agrees with it: doc/Measurements.md reports 335 ms on
  display where the instrument showed 336.89 ms. The instrument times the pins written at the entry
  to COUNT and to STOP (`rtos_main.cpp:134`, `:157`), and between the response and the second
  lies the `printf` of line 146, which is no part of the score. A score of 335 stands for a press
  335 to 337 ms after the signal, seen from a clock that ticks every millisecond; the rest is
  printing.
* `NoStaleTokens`: while the task asks for a turn, no counted token of an earlier
  one waits.
* `ReleaseReachesTask` (Qsys): the score is left when the meter has seen the release. That it
  is left only then is `ScoreStaysUntilRelease`, part of the game and of `qsys_early`.
* `HighscoreWasAchieved` (Qsys): no high score better than the best admitted
  response.
* `PlaysGame`: every step of hardware, handler, kernel and tasks is one of `ReactionGame` or
  shows nothing to the player. It contains that only a response ends a round before its
  time-out (`OnlyResponsesEndRounds`, the property of `rtos_late`) and that a response in time is not
  passed over.
* `ComesHome`: whatever happens, the task asks for another turn; in the RTOS application once the
  player has stopped holding KEY1 over the ends of delays, since each time starts another delay.

Those of `jtag` are about a handler and two calls that share rings and flags
without a lock:

* `NoLostWakeup`: a task sleeps in read only before an empty ring and in write only
  before a full one, with the transmit interrupt on. The handler may have run
  between the look and the wait.
* `WokenReadGoesOn`: a read that is woken by a character never finds `rx_in` where
  it saw it, so that it does not report a failed device. The handler would have to
  fill the ring completely in between, which the free slot prevents.
* `InterruptsComeBack`: the handler turns off the receive interrupt when its ring is
  full and the transmit interrupt when its ring is empty; whoever is to turn it
  on again is under way.
* `InputIsPipe`, `OutputIsPipe`: device FIFO and ring together are a queue of
  characters, also when a call gives up in the middle of a message.
* `CallsReturn`, `GoneHostReleases`: a read returns once there is a character for it,
  a write if the host goes on fetching, and both if the host goes away for good.

Those of `parts`:

* `HomeScreen`: what a reader sees on the six digits is the tries so far, modulo what
  two digits and eight bits can hold, and the high score, after every round however
  it ended. `LedsCircle`: nine leds turn as a ring and the tenth repeats the first;
  the task never finds more lit than it lit.
* `CalledOnTime`: an alarm is called exactly when its caller's ticks are over, wherever
  counter and due time roll over.
* `NoPhantomPress`, `SlowPressesArrive`: no post without a press, and no press without
  a post unless an edge came before set-up cleared the register, while another was
  captured, or while the handler ran.
* `RegisteredNameWasTyped`: character for character, whatever rest of an earlier line
  is in the buffer.
* `RingIsQueue`: refinement of `Deque`. `FullPeriod`: the generator passes through all
  255 values.

`TablesAgree` of `ucos` is three invariants that only make sense together: no counted
token while a task waits, the wait lists hold exactly the tasks whose call is
open, the ready table exactly those that neither wait nor sleep.

`qsys` deliberately restricts the player; the violation runs remove one restriction
each, so that every finding has its own shortest trace. The restrictions are in
the constants `Habits`, `Reactions` and `BUS_RACES` and in nothing else.

## 4 Findings

| Run | Kind | What happens |
|---|---|---|
| `qsys_early` | bug | A response below `MIN_RESP_TIME` leaves its `restart_sem` behind; the next score vanishes while KEY1 is held |
| `qsys_late` | bug | The task gives up after 2 s, the meter after 3 s; a response in between ends the next round at once, with the result of the last |
| `qsys_held` | bug | With KEY0 down when KEY1 is released, the handler reads START instead of IDLE and the release is lost |
| `qsys_race` | bug | A read of the result in the clock of the release swallows the pulse; the task waits for ever |
| `rtos_late` | bug | A press of KEY1 in IDLE, START or the delay, released before the delay ends, ends the next round with 0 ms |
| `names_ahead` | bug | Every queued name points into one buffer: a name typed before the last one was taken replaces it, and is registered twice |

More, read off the models rather than given a run:

* `resp_time` has 11 bits and COUNT lasts 3000 ms (`reaction_meter.vhd:98`): a
  response after 2048 ms becomes a small number, and by way of `qsys_late` a high
  score (with 5 added to `Reactions` and no other property `HighscoreWasAchieved` fails in `MCQsysApp.cfg`).
* `user_register` compares `rounds` before it counts (`qsys_main.c:70`): there are four
  turns, not three as the README says, between two registrations.
* A response in the moment between the last time-out of the RTOS counting loop and
  the task's return to IDLE leaves the same token as in `rtos_late` (add
  `RESP_TIMEOUT` to `Reactions` in `MCRtosApp.cfg` and `NoStaleTokens` fails).
* The README says that an interrupt is fired "whenever a state-transition occurs", but
  the meter's time-out from COUNT to IDLE raises none (`TimeOut` in `ReactionMeter`,
  `GiveUp` in the protocol).
* A turn of the Qsys application can begin without KEY0 when the meter was operated
  while a name was awaited, because `start_sem` counts it.
* A read of the JTAG UART that finds the flag `READ_RDY` of characters an earlier call
  has already fetched does not sleep, finds `rx_in` unchanged and returns -EIO
  (`altera_avalon_jtag_uart_read.c:177`); `getchar` then yields EOF, which `receive`
  stores as if it were a character of the name. `WokenReadGoesOn` therefore promises
  nothing to calls that did not sleep.

## 5 Bounds

| Run | Values | Why they are enough |
|---|---|---|
| `meter` | 12 ticks of 2 per ms, result of 2 bits, generator of 3 values, delays 0, 1, 3 | 6 ms against 4 results: responses wrap; a fixed delay of 6 ticks is shorter, a random one of 12 to 20 at least as long as the time-out, so `tick` is rewritten under way in both directions |
| `parts` | all 255 values of the generator; responses of 204 and 1999 ms, 20 leds or turns of them (`MaxSteps`), all 256 values of `tries`; a ring of 3 cells and two messages; a counter of 8 ticks, delays 0, 1, 2, 5, 6; three buttons, one of them unknown to the callback, up to 4 lost presses (`MaxOwed`); a buffer of 6 cells, a queue of 2, six lines | 20 turns go round the circle of nine twice; every position of both pointers of the ring; delays up to the largest the counter allows, from every start; names that leave room in the buffer and one that fills it |
| `ucos` | priorities 1, 2 and idle; a semaphore and a queue of 2; time-outs 0 and 2, delay 1, set to 0 or 1 | overflow, two waiters on one event, a time-out met by a post, both orders of urgency. 65535 as a limit behaves like 2: the code only compares with it |
| `qsys` | a tick is half a second: delay 1, time-out 6, result of 2 bits, patience 2 slices of 2 ticks; responses at 1 and 3, or none | the relations that matter are kept: patience < time-out, result span < time-out, fastest admitted response > 0, a response in the last tick of patience |
| `rtos` | delay 2, counting loop 3, least response 1, looks at KEY1 every 2 ticks | too fast, valid and missing responses before the last tick; a delay started over any number of times, with presses before its end and between the look at KEY1 and the reset |
| `jtag` | rings of 3 cells, FIFOs of 2, a host counted as gone after 2 seconds, messages of three characters read two at a time; one reading and one writing task | rings wrap and are full with two characters, a message needs two looks at the ring, both FIFOs are full or nearly so, characters are left over for the next call. Two callers of one direction exclude each other by its semaphore; the proofs are for any number |
| violation runs | as above with one more habit or reaction; in `qsys_late` the result register holds every time the meter counts, so that no response wraps | a counterexample needs no more |

Timing. In `QsysApp` the meter's moves and all handlers are over before the next
millisecond (`Quiet`). A task that is ready gets on within the millisecond where the code neither
prints nor computes (`Prompt` of both modules), and may be late by any number of ticks where it
prints. In `QsysApp` it is prompt from the return of the pend of `start_sem` to the read of the
result (`qsys_main.c:102` to `:122`) and between the waits of `restart_sem`; it may be late in IDLE,
while it registers, and from the `printf` of line 124 to the first wait of STOP. In
`RtosApp` it is prompt at the look at KEY1 that ends a delay (`rtos_main.cpp:125`) and in the iterations of the
counting loop. Who is found cheating meets a `printf` (line 126) before the reset of
`stop_sem` (line 127); that is a state of its own, `cheated`, which may last, and in which the
player may let KEY1 go and press it again, noticed by nobody. Without `Prompt` the score of the RTOS
application is no measure of time at all.

Unbounded counters: `elapsed` counts only in COUNT; `host_inactive` stops at
`Timeout`, above which the driver makes no difference (it would wrap after 2^32
seconds); nothing else grows. All pass runs check for deadlock.

`Delays` of `Alarms` ends at `Ticks - 2` (`AlarmsAssumption`): an alarm of one tick
more would be due at the value the counter has already, without the roll-over
flag, and be called on the next tick (`alt_alarm_start.c:82`). The driver asks for
one second. Lines of `Names` fit the buffer with their newline; `receive` does not
stop at its end (`qsys_main.c:165`), and what a longer line overwrites depends on
the linker.

## 6 Fairness

* Clock edges, time and the timer go on: `WF` of the clock, `SF` of `Millisecond`
  (the tick is disabled while a handler runs and enabled again and again).
* The processor runs handlers and leaves them: `WF` of `Processor`. A handler is
  a few instructions, without a loop.
* Tasks: `SF` of the task's step and of `OS_Sched`. Interrupts disable a task's
  step for moments, and the application's task is the most urgent. Strong
  fairness of the less urgent task of `UcosTasks` is used only for calls of the
  most urgent one.
* JTAG UART: `WF` of the handler (`Isr`), of the alarm (periodic) and of every call that
  can go on (`Reads`, `Writes`); a pending interrupt comes before the next step of a
  task and its handler is finite, because the host needs time to fill a FIFO again.
  Nothing is assumed of the host: what a write needs of it is the
  hypothesis of `OutputReturns`, and `GoneHostReleases` is about a host that
  does nothing.
* People let go of buttons and enter a name when asked (`SF` of `Lift`, of
  `Console` in `register`). Nobody is assumed to press anything: `ComesHome`
  and `CountEnds` hold for a player who walks away.

## 7 Proofs

All theorems are proved for every value of the constants that satisfies the named
assumptions (`MeterAssumption`, `UcosAssumption`, `TasksAssumption`,
`QsysAssumption`, `RtosAssumption`, `MsgQueueAssumption`, `AlarmsAssumption`,
`ButtonsAssumption`, `DisplayAssumption`, `NamesAssumption`, `JtagUartAssumption`); TLC evaluates these for the instances.

**Meter.** The counters' ranges are not inductive: that `tick` stays below its
bound depends on `tick` having been restarted on entry to the counting state. The
invariant adds `CountBelowTimeOut` (in COUNT `tick` is below `MAX_DELAY`),
`RngOnlyInStart` (the generator is enabled only in START, hence frozen in DELAY)
and `StateTrailsPulse`. From it follow `Typed`, `TickStaysInRange` (counters and
random delay), `StateTrails`, `DelayFrozen`, `IrqShowsNew`, and step
by step `MeterImplementsProtocol`.

**Generator.** `PrngTyped`: the register is never zero; `LfsrShiftClosed` says so
of one step by arithmetic on the 8 bits. `CycleIsFull`: the table `Cycle` has the 255 values in
order, each the shift of the one before it (`CycleShifts`), and the seed once; the invariant is
that the register is in it at `steps`.

**Kernel.** `KernelProofs` has one lemma per operation: if `KernelInv` holds and
the caller keeps to the rules (`TaskCalls`: it is the running task and in no other
call; handlers run with nesting 1), it holds after. `KernelInv` strengthens the
guarantees with `FieldsAgree`: how the fields of one control block belong
together (a task that waits, or whose wait timed out, is in a call; a call whose wait is over
has no countdown left). Without it the
tick or a post could start from combinations that never arise. Three modules cite
these lemmas:
`UcosTasksProofs` for every program, where `TablesStayExact` and
`SchedulerIsPreemptive` follow from `KernelInv`; `QsysProofs` and
`RtosProofs` show that each application uses the kernel within those rules
(`KernelGuaranteesHold`) and that its counters keep to their ranges (`Typed`). For
the RTOS application the rules need `NoDelayInsideCall`: a delay drawn in DELAY
is still positive when it is used again some states later, and no `OSTimeDly` is
called inside an open pend call, whose countdown it would overwrite.

**Tokens.** A second lemma per operation says what it does to `Account`: for each event, the
count plus the number of tasks that have been handed it and have not returned, a cardinality that
changes by at most one. `NoTokenLost` is that the history `credit` of `UcosTasks` is
this account. The same lemmas give `RunsKernel` in `QsysProofs` and `RtosProofs`, with `Account` for
`credit` as the refinement mapping: each application, whatever players and buses do, is a
behaviour of `UcosTasks`. Each of its steps is one kernel operation of a task that runs
and is in no other call, or of a handler, or leaves the kernel alone. So what the runs of `UcosTasks`
and its theorems say of the kernel "under every program" is about these two programs. It takes one
more invariant, that the console task is never in a pend call (`ConsoleNeverWaits`), or it
could not be the caller of its post.

**Meter in the application.** `MeterFollowsProtocol`: with every habit of the player and every race on
the bus, what happens on the wires in `QsysApp` is a behaviour of `MeterProtocol`, the
specification that `ReactionMeter` implements (`MeterImplementsProtocol`). A read of a register can
take a pulse from the handler, which is what the violation runs show, but makes no transition up.

**Rounds of the Qsys application.** `PatientInductive` holds for `PatientPlayers`: each
reaction is at least `MIN_RESP`, fits the result register and comes before
`SLICES * SLICE_TICKS`; KEY0 is pressed only when the task waits for it; no bus access meets a
pulse. They may press and hold KEY1 at any time outside the counting (`"key1"`) and
type names whenever they like, which is wider than the run `qsys` (`Habits = {}`). The runs of
section 4 show that the properties fail without the rest. None of the properties is
inductive: that the score of this round is shown depends on which semaphores hold a token, and that on where meter and task are. `RoundInv` says so in six
parts:

* `Matched`: tokens are counted wherever they are, in the semaphore, in the hands of a
  task that was made ready and has not run, or in the request that `isr` has yet to
  turn into one. Each transition of the meter (`Starts`, `Goes`, `Responses`,
  `Releases`) is matched by one token until the task has taken it, and outside a
  round there is none;
* `Together`: the states the meter can be in while the task is at some point;
* `Patience`: what the meter has counted is at least the slices the task has
  waited plus the ticks since, so a task that gives up after the last slice leaves a meter whose
  player can no longer respond;
* `Presses`: KEY0 goes down only where the round asks for it, with no request under way, and KEY1
  in the counting phase only at one of the reactions;
* `Scores`: result, measurement and score, and that a measurement exists once it is announced;
* `Calls`: the event of an open call is the one of the task's place.

One lemma per action shows that it is preserved, from lemmas on what each kernel
operation does to the tokens (`PostTokens`, `GetsTokens`, `TimesOutTokens`, ...). From it
follow `ScoresAreMeasurements`, `NoTokensLeftOver`, `ReleasesReachTask` and
`ScoresStayUntilRelease`.

**High scores.** `HighscoresWereAchieved` needs none of this. Impatient players and races on the
bus leave tokens over and lose others, so that the task may read a result again or one of an earlier
round (`qsys_late`), but never one nobody achieved. The invariant is `Achieved`: wherever a
result is on its way (stopwatch, register, score) it is at least `best`, if it counts. The one
hypothesis is `ResponsesFit`: `MIN_RESP` is positive and reactions fit the register; a
response that wraps in its 11 bits does break it (section 4).

**Responses of the RTOS application.** `RoundsInductive` of `RtosProofs` holds for everybody whose
buttons do not bounce (`NoBounces`), whatever they press and when. The properties are about two
things no variable shows: where a press of KEY1 is, and how far the clock is ahead of the loop.
A press is under way as a count of `stop_sem`, in the hands of a task that was made
ready and has not run (`Handed`), or in the capture register; `Responses` is their number.
`RoundInv` has, besides `Calls`,

* `Captures`: the port holds one press at most, the handler between its read and its
  clear has read that one, and KEY1 is still down while its press is captured;
* `DelayEnds`: the delay ends with a tick;
* `Counted`: time and iterations of the loop, tick by tick: equal between two calls, one apart
  from the tick that times a call out until the task has returned from it;
* `Measured`: a response is found in the iteration whose number it is, or in the next. A press
  captured when the call has timed out already is the `time` of that next iteration;
* `Found`: in COUNT presses are under way iff the player has responded, except that older ones may
  be counted until the first iteration takes one;
* `Heard`, for `PatientPlayers` only: there are no older ones. Patient players press KEY1 to
  cheat, by holding it over the end of a delay, and to respond before `RESP_TIMEOUT`; KEY0
  and names come any time. Before the signal the one press under way is that of a
  button still held, which the reset of `stop_sem` after the delay forgets. Only between the look at
  KEY1 and that reset there is no bound: KEY1 may be let go and pressed again any number of times.
  Of these presses the reset leaves at most one that is captured but not yet posted, and then
  KEY1 is still down and the end of the next delay finds it.

The number of presses changes only as `PostTokens`, `WaitsTokens` and `EndsTokens` say, lemmas on the
kernel's operations alone. From `Found` and `Measured` follows `ScoresAreTimes`, for all players without
bounces: the round that an older press ends has lasted no iteration, too short for a score as
`MIN_RESP_TIME` is positive. (With all of `"key0"`, `"key1"` and `"bounce"` TLC finds it
violated: two buttons captured at once are both lost, and the response that counts is a later one.)
From `Heard` follow `NoTokensLeftOver` and `RoundsEndWithResponses`.

**The game.** `PlaysTheGame`, in `QsysProofs` and in `RtosProofs`: for patient players each application
implements `ReactionGame`. One lemma per group of actions maps its steps. In the RTOS application the steps of
handlers and kernel show nothing (`NothingSeen`); a press is `Respond` or `Press`, depending on the invariant's account of whether
a response is under way; the branches of the task are `Score`, `TooFast`, `GiveUp` and `Leave`.
There the conditions of these follow from `Measured` and `Counted`. In the Qsys
application each of the two machines does part of it: that a task which
gives up leaves nobody who responded behind is `Patience`, that `Stage` does not change when
the meter's transition and the token it posts are consumed is `Matched` and `Together`. `TooFast` never happens
there to a patient player; `qsys_early` shows why the others are not playing this game.

**Parts.** The ring of messages: `PointersAgree` (the in-pointer is the out-pointer plus
the count, once round at most) makes the type inductive, and with it
`QueueRefines` maps each call to a step of `Deque`. The alarm: the flag must be set
exactly when the due time is below the counter, so the invariant relates due
time, counter, flag and the ticks still to go; `AlarmOnTime` is that at the moment of
the call. The buttons: `NoPhantomPress` bounds what the handler has read plus what
it will find by the presses not yet posted, key by key, `SlowPressesArrive` makes it an
equation while no edge came too early; both for any number of buttons. `PartsObey` says
that the composition of `MCParts` runs each part by its own specification; `PartsTyped` joins their
types.

**Names.** `NamesInv` says of the buffer, while a line is read, that its first `at` cells are the first `at`
characters of a line of `Lines` of which the rest is to come, and at all times that the
last cell is `Nul` and no other cell than the first says "name". The last cell is what
makes `strstr` and `strcpy` stop: a name that fills the buffer writes its newline there,
which `strtok` ends within the same step. What is left of an earlier line lies behind the newline; `StringOf` and
`StrtokEnds` show that neither function gets that far. `NamesTyped` needs only
that lines are plain (`PlainLines`: they fit, and "name" is first and has a name behind it), `NamesAreThoseTyped` also that nobody
types while a name is queued; the run `names_ahead` shows the property fail without. That a set of cells with
`Nul` has a first one is `LeastElement`, from the library's well-foundedness of `<`: it takes
a set where the induction theorems take an operator.

**Displays and leds.** `HomeScreenShows` holds for all responses of at most four digits: no
two glyphs of `hex7seg` are alike (`DigitsDiffer`), and the nibbles that `show_score` puts together are
the decimal digits (`BcdNibbles`, `DecimalDigits`), which add up to the number again. `LedsCircle` is not
inductive, since `rotate_left` brings bits 9 to 15 into play: `Circling` says what
they hold. Either the nine first leds are all lit, or bit `8 + j` repeats bit `j - 1`
for as many `j` as there were turns and is 0 for the others, so that what `num >> 8` brings in at `j` is
what `num << 1` moves there anyway. `LedsTurn` holds for any number of leds and turns.

**JTAG UART.** The invariant joins `TypeOK` with who holds which lock (`Locks`: at most one
task is inside read and one inside write, and the semaphores know it),
`GroupExact` (which task waits for which flags, and that no flag it waits for is set),
what a read knows at each of its steps (`Reading`: the piece it copies is still in
the ring, and between an empty look and the end of the sleep either the ring is
empty or `READ_RDY` is set), the same for write (`Writing`), and the two halves of `InterruptsComeBack`. `SleepsRightly`,
`InterruptsEnabled` and `Typed` follow. For `WokenReadsGoOn` a second invariant,
`SawEmpty`, adds that a read waits with `seen` equal to `rx_out`, which nobody else moves,
and that a task told of a character has one in the ring: `rx_in` is then not at `rx_out`. `InputRefines` and
`OutputRefines` map steps to `BytePipe`; lemmas about rings say what moving an index
or storing behind it does to the sequence of their contents.

**Only model-checked.** Liveness (`CountEnds`, `UrgentCallReturns`, `ComesHome`, `CallsReturn`,
`GoneHostReleases`), which is out of the prover's reach. Every invariant, action property and refinement of the
runs is stated by a theorem.

## 8 Not modelled

* What `printf` says, and the names in the RTOS application, whose `console` reads them
  with the stream library.
* Names longer than the buffer, and lines in which the word "name" does not come
  first: the text from the sixth character on is then the name.
* The driver's calls with `O_NONBLOCK`, `ioctl`, `close`, and calls before the kernel
  runs; the device seen by two processors. The lists of alarms with more than one
  entry: an alarm is touched by no other.
* The build of the Qsys application without `FIXED_DELAY` (`qsys_main.c:16` defines it), in
  which the meter draws a random delay. The meter itself is modelled with both (`ReactionMeter`).
* Bit level of the buttons: they are levels the meter may see on any edge; the
  VHDL has no synchroniser, metastability is out of scope. `RtosApp` has bounces
  faster than interrupts as a habit (`"bounce"`); what is lost then, and that
  nothing else is, is the subject of `Buttons`.
* Kernel services no code of the repository calls (mutexes, mailboxes, memory, timers;
  of flags: waiting for all, for cleared flags, with a time-out; delete, abort,
  query, broadcast, suspend, scheduler lock), statistics and hooks.
* The start-up: initial states are those `main` leaves, after `OSStart`. The read of
  the state register at the end of `main` and interrupts before it are not steps.
* How `rand` makes a delay of the time; any member of `Delays` may come.
* Generated interconnect, processor and board support, apart from wait states,
  interrupt numbers and the dispatch loop. Interrupts do not nest in this port.
* The Linux application: its directory is an empty submodule. What is there of `hps/` is
  the vendor's handoff: the SDRAM calibration firmware (`sequencer.c`, twice),
  headers and generated hardware.

Most lines of the repository are of this last kind: vendored and generated code,
often in two or three copies (both board support packages hold the same kernel, HAL and
drivers, and the models name the lines of one). The models cover nearly every
line the project itself wrote and the vendored code its behaviour depends on;
they are a small share of all lines.

## 9 Plan

Done: the meter with generator and register file, and its refinement; the kernel; both
applications; displays, names, ring of messages, alarms, buttons, event flags and
the JTAG UART; proofs of types, of the refinements of section 2, of the
kernel's guarantees, of alarm, buttons and
wake-ups, of the rounds of both applications and of the game they are, of names, digits
and leds.

What would add most from here:

1. `ComesHome` split into the steps of a round, each a consequence of `RoundInv` and
   the fairness of one action.
2. Start-up of both applications, with the registration of the handler and the
   first read of the state register as steps.
3. `Names` on top of `JtagUart`: console and `printf` of both tasks through the driver, with
   the EOF of a stale flag.
