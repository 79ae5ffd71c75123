------------------------------- MODULE RtosApp -------------------------------
(***************************************************************************)
(* The RTOS application (rtos_main.cpp): the buttons behind an edge-capture *)
(* port, the handler that turns captured presses into semaphores, and the  *)
(* task that measures a response by counting kernel ticks.                 *)
(*                                                                         *)
(* It uses the kernel of module Ucos.  Nothing but the tick measures time   *)
(* here, so the model counts milliseconds on the side to compare.          *)
(***************************************************************************)
EXTENDS Ucos

CONSTANTS
  Delays,          \* the random delays, in ticks (1000..2999)
  RESP_TIMEOUT,    \* iterations of the counting loop (1000)
  MIN_RESP_TIME,   \* the least response that counts (80)
  SHOW_TICKS,      \* ticks between two looks at KEY1 in STOP (100)
  Reactions,       \* when the player presses KEY1, in ms after the signal
  Habits           \* what a player may do beyond pressing KEY0 when the task
                   \* waits for it, KEY1 to respond, and entering a name when
                   \* asked: "holds" KEY1 over the end of a delay, from before
                   \* it or from after the look at the end of the last one,
                   \* press "key0" or "key1" any time, enter "names" any
                   \* time, "bounce" faster than interrupts

ASSUME RtosAssumption ==
  /\ {1, 2} = Tasks
  /\ Events = {"start_sem", "stop_sem", "player_queue"}
  /\ Delays \subseteq Nat \ {0}
  /\ RESP_TIMEOUT \in Nat \ {0} /\ MIN_RESP_TIME \in Nat
  /\ SHOW_TICKS \in Nat \ {0}
  /\ Reactions \subseteq Nat
  /\ Habits \subseteq {"holds", "key0", "key1", "names", "bounce"}

VARIABLES
  \* hardware
  timer,           \* the interrupt request of the tick timer
  pressed,         \* the buttons that are down
  capture,         \* edge capture register of the port; requests if not {}
  \* the handler buttons_c::isr
  isr,             \* "entry", or "clear" between its two bus accesses
  edge_capture,    \* what it has read
  \* the task reaction_meter
  pc, time, delay, response_time, highscore, rounds,
  \* history
  elapsed,         \* milliseconds since the signal, while it is counted
  responded        \* elapsed at the first press of KEY1 since the signal,
                   \* UNMEASURED before

lines    == <<timer, capture, isr, edge_capture>>
task     == <<pc, time, delay, response_time, highscore, rounds>>
history  == <<elapsed, responded>>
vars     == <<pressed, lines, kernelVars, task, history>>

UINT16_MAX == 65535
UNMEASURED == -1

ReactionTask == 1
ConsoleTask  == 2

START_KEY == "KEY0"
RESP_KEY  == "KEY1"
Keys == {START_KEY, RESP_KEY}

Init ==
  /\ timer = 0 /\ pressed = {} /\ capture = {} /\ isr = "entry" /\ edge_capture = {}
  /\ KernelInit
  /\ pc = "IDLE" /\ time = 0 /\ delay = 0 /\ response_time = 0
  /\ highscore = UINT16_MAX /\ rounds = 3
  /\ elapsed = 0 /\ responded = UNMEASURED

-----------------------------------------------------------------------------
(* The player and the port.  A press is a falling edge, which is captured; *)
(* the data register shows the buttons as they are.                        *)

Quiet == capture = {} /\ timer = 0 /\ nesting = 0

MayPress(key) ==
  IF key = START_KEY
  THEN \/ "key0" \in Habits
       \/ ReactionTask \in waiting["start_sem"] /\ pressed = {}
  ELSE \/ "key1" \in Habits
       \/ "holds" \in Habits /\ pc \in {"START", "cheated"}
       \/ pc = "COUNT" /\ responded = UNMEASURED /\ elapsed \in Reactions

\* Who holds KEY1 over the end of the delay waits until it has been noticed.
MayLift(key) ==
  \/ key = START_KEY
  \/ "key1" \in Habits
  \/ pc \notin {"START", "DELAY", "delayed", "again"}
  \/ cnt["stop_sem"] = 0

Press(key) ==
  /\ key \notin pressed /\ MayPress(key)
  /\ "bounce" \in Habits \/ Quiet \/ (key = RESP_KEY /\ capture = {})
  /\ pressed' = pressed \cup {key}
  /\ capture' = capture \cup {key}
  /\ responded' = IF key = RESP_KEY /\ pc = "COUNT" /\ responded = UNMEASURED
                  THEN elapsed ELSE responded
  /\ UNCHANGED <<timer, isr, edge_capture, kernelVars, task, elapsed>>

Lift(key) ==
  /\ key \in pressed /\ MayLift(key)
  /\ "bounce" \in Habits \/ Quiet
  /\ pressed' = pressed \ {key}
  /\ UNCHANGED <<lines, kernelVars, task, history>>

Player == \E key \in Keys : Press(key) \/ Lift(key)

\* A millisecond passes.  Handlers, the look at the end of the delay and one
\* iteration of the counting loop take less, and the task does not print
\* between them and the wait before; where it prints it may be late.
Prompt == pc \in {"delayed", "COUNT"} => ReactionTask \notin rdy

Millisecond ==
  /\ timer = 0 /\ nesting = 0 /\ Prompt
  /\ timer' = 1
  /\ elapsed' = IF pc = "COUNT" THEN elapsed + 1 ELSE 0
  /\ UNCHANGED <<pressed, capture, isr, edge_capture, kernelVars, task, responded>>

-----------------------------------------------------------------------------
(* Interrupts: line 0 is the tick, line 2 the buttons.                     *)

Pending == timer = 1 \/ capture # {}

Interrupted ==
  /\ nesting = 0 /\ Pending
  /\ IntEnter
  /\ UNCHANGED <<cnt, waiting, evt, stat, pendStat, dly, rdy, sched>>
  /\ UNCHANGED <<pressed, lines, task, history>>

TickIsr ==
  /\ nesting > 0 /\ timer = 1 /\ isr = "entry"
  /\ timer' = 0
  /\ TimeTick
  /\ UNCHANGED <<schedVars, pressed, capture, isr, edge_capture, task, history>>

\* The handler reads the capture register, clears all of it, and posts for
\* what it has read: nothing, if that was more than one button.
IsrRead ==
  /\ nesting > 0 /\ timer = 0 /\ capture # {} /\ isr = "entry"
  /\ edge_capture' = capture
  /\ isr' = "clear"
  /\ UNCHANGED <<kernelVars, pressed, timer, capture, task, history>>

\* Slip: the keys are swapped.
ButtonIsrSwapped(pin) ==
  CASE pin = {START_KEY} -> Post("stop_sem")
    [] pin = {RESP_KEY}  -> Post("start_sem")
    [] OTHER -> UNCHANGED <<cnt, waiting, evt, stat, pendStat, dly, rdy, sched>>

\* button_isr
ButtonIsr(pin) ==
  CASE pin = {START_KEY} -> Post("start_sem")
    [] pin = {RESP_KEY}  -> Post("stop_sem")
    [] OTHER -> UNCHANGED <<cnt, waiting, evt, stat, pendStat, dly, rdy, sched>>

IsrClear ==
  /\ nesting > 0 /\ isr = "clear"
  /\ capture' = {}
  /\ isr' = "entry"
  /\ ButtonIsr(edge_capture)
  /\ UNCHANGED <<schedVars, pressed, timer, edge_capture, task, history>>

Resume ==
  /\ ~Pending /\ isr = "entry"
  /\ IntExit
  /\ UNCHANGED <<cnt, waiting, evt, stat, pendStat, dly, rdy, sched>>
  /\ UNCHANGED <<pressed, lines, task, history>>

Switch == Dispatch /\ UNCHANGED <<pressed, lines, task, history>>

Processor == Interrupted \/ TickIsr \/ IsrRead \/ IsrClear \/ Resume \/ Switch

-----------------------------------------------------------------------------
(* The task reaction_meter.                                                *)

At(label) == pc = label /\ Runs(ReactionTask)

Keep == UNCHANGED <<schedVars, pressed, lines>>

InCall == evt[ReactionTask] # NoEvent

Waits(label, e, timeout) ==
  /\ At(label) /\ ~InCall /\ PendBlocks(e, timeout)
  /\ UNCHANGED <<task, history>> /\ Keep

Gets(label, e) ==
  /\ At(label)
  /\ \/ ~InCall /\ PendTakes(e)
     \/ InCall /\ pendStat[ReactionTask] = "OK" /\ PendReturns
  /\ Keep

TimesOut(label) ==
  /\ At(label) /\ InCall /\ pendStat[ReactionTask] = "TO" /\ PendReturns
  /\ Keep

\* A step without the kernel.
Alone(label) == At(label) /\ UNCHANGED kernelVars /\ UNCHANGED <<pressed, lines>>

Goto(label) == pc' = label

Idle ==
  /\ Alone("IDLE")
  /\ rounds' = rounds + 1
  /\ Goto(IF rounds >= 3 THEN "register" ELSE "ready")
  /\ UNCHANGED <<time, delay, response_time, highscore, history>>

\* Slip: the counter of turns is not reset.
RegisterKeepsRounds ==
  \/ Waits("register", "player_queue", 0)
  \/ /\ Gets("register", "player_queue")
     /\ Goto("ready")
     /\ UNCHANGED <<time, delay, response_time, highscore, rounds, history>>

Register ==
  \/ Waits("register", "player_queue", 0)
  \/ /\ Gets("register", "player_queue")
     /\ rounds' = 0 /\ Goto("ready")
     /\ UNCHANGED <<time, delay, response_time, highscore, history>>

Ready ==
  \/ Waits("ready", "start_sem", 0)
  \/ /\ Gets("ready", "start_sem")
     /\ Goto("START")
     /\ UNCHANGED <<time, delay, response_time, highscore, rounds, history>>

\* Slip: the sense of the button, which is active low, is inverted.
StartInverted ==
  \/ /\ At("START") /\ START_KEY \notin pressed /\ TimeDly(1)
     /\ UNCHANGED <<task, history>> /\ Keep
  \/ /\ Alone("START") /\ START_KEY \in pressed
     /\ Goto("DELAY")
     /\ UNCHANGED <<time, delay, response_time, highscore, rounds, history>>

\* case START: a look at KEY0 every tick.
Start ==
  \/ /\ At("START") /\ START_KEY \in pressed /\ TimeDly(1)
     /\ UNCHANGED <<task, history>> /\ Keep
  \/ /\ Alone("START") /\ START_KEY \notin pressed
     /\ Goto("DELAY")
     /\ UNCHANGED <<time, delay, response_time, highscore, rounds, history>>

\* case DELAY up to the end of the first delay.
Delay ==
  /\ At("DELAY")
  /\ delay' \in Delays /\ TimeDly(delay')
  /\ Goto("delayed")
  /\ UNCHANGED <<time, response_time, highscore, rounds, history>> /\ Keep

\* The signal: case COUNT begins.
BeginCount ==
  /\ Goto("COUNT") /\ time' = 0
  /\ elapsed' = 0 /\ responded' = UNMEASURED

\* The look at KEY1 at the end of a delay.
Delayed ==
  \/ /\ Alone("delayed") /\ RESP_KEY \in pressed
     /\ Goto("cheated")
     /\ UNCHANGED <<time, delay, response_time, highscore, rounds, history>>
  \/ /\ Alone("delayed") /\ RESP_KEY \notin pressed
     /\ BeginCount
     /\ UNCHANGED <<delay, response_time, highscore, rounds>>

\* Slip: the semaphore is not reset.
CheatedKeepsTokens ==
  /\ Alone("cheated")
  /\ Goto("again")
  /\ UNCHANGED <<time, delay, response_time, highscore, rounds, history>>

\* Cheat prevention prints, and only then resets stop_sem and starts over:
\* what happens to KEY1 in between it does not look at.
Cheated ==
  /\ At("cheated") /\ SemSet("stop_sem", 0)
  /\ Goto("again")
  /\ UNCHANGED <<time, delay, response_time, highscore, rounds, history>> /\ Keep

Again ==
  /\ At("again") /\ TimeDly(delay)
  /\ Goto("delayed")
  /\ UNCHANGED <<time, delay, response_time, highscore, rounds, history>> /\ Keep

\* Slip: the iteration is counted before the outcome of its wait is seen.
CountAhead ==
  \/ Waits("COUNT", "stop_sem", 1)
  \/ /\ TimesOut("COUNT")
     /\ time' = time + 1
     /\ Goto(IF time + 1 < RESP_TIMEOUT THEN "COUNT" ELSE "IDLE")
     /\ UNCHANGED <<delay, response_time, highscore, rounds, history>>
  \/ /\ Gets("COUNT", "stop_sem")
     /\ IF time + 1 < MIN_RESP_TIME
        THEN Goto("IDLE") /\ UNCHANGED response_time
        ELSE Goto("STOP") /\ response_time' = time + 1
     /\ UNCHANGED <<time, delay, highscore, rounds, history>>

\* case COUNT: one tick an iteration, until stop_sem or the last iteration.
Count ==
  \/ Waits("COUNT", "stop_sem", 1)
  \/ /\ TimesOut("COUNT")
     /\ time' = time + 1
     /\ Goto(IF time + 1 < RESP_TIMEOUT THEN "COUNT" ELSE "IDLE")
     /\ UNCHANGED <<delay, response_time, highscore, rounds, history>>
  \/ /\ Gets("COUNT", "stop_sem")
     /\ IF time < MIN_RESP_TIME
        THEN Goto("IDLE") /\ UNCHANGED response_time
        ELSE Goto("STOP") /\ response_time' = time
     /\ UNCHANGED <<time, delay, highscore, rounds, history>>

\* case STOP: the score is shown until KEY1 is found released.
Stop ==
  /\ Alone("STOP")
  /\ highscore' = IF response_time < highscore THEN response_time ELSE highscore
  /\ Goto("show")
  /\ UNCHANGED <<time, delay, response_time, rounds, history>>

Show ==
  \/ /\ At("show") /\ RESP_KEY \in pressed /\ TimeDly(SHOW_TICKS)
     /\ UNCHANGED <<task, history>> /\ Keep
  \/ /\ Alone("show") /\ RESP_KEY \notin pressed
     /\ Goto("IDLE")
     /\ UNCHANGED <<time, delay, response_time, highscore, rounds, history>>

ReactionMeterTask ==
  \/ Idle \/ Register \/ Ready \/ Start \/ Delay \/ Delayed \/ Cheated
  \/ Again \/ Count \/ Stop \/ Show

\* The task console posts a name for each line that is a name command.
Console ==
  /\ Runs(ConsoleTask)
  /\ "names" \in Habits \/ pc = "register"
  /\ Post("player_queue")
  /\ UNCHANGED <<schedVars, pressed, lines, task, history>>

-----------------------------------------------------------------------------
Next == Player \/ Millisecond \/ Processor \/ ReactionMeterTask \/ Console

Spec == Init /\ [][Next]_vars

(* Time passes, the processor runs, a task that is not preempted for ever  *)
(* gets on, players let go of the buttons and enter a name when asked.     *)
Fairness ==
  /\ SF_vars(Millisecond) /\ WF_vars(Processor)
  /\ SF_vars(ReactionMeterTask) /\ SF_vars(Switch)
  /\ SF_vars(pc = "register" /\ Console)
  /\ \A key \in Keys : SF_vars(Lift(key))

FairSpec == Spec /\ Fairness

-----------------------------------------------------------------------------
(* Properties                                                              *)

TypeOK ==
  /\ timer \in {0, 1} /\ pressed \subseteq Keys /\ capture \subseteq Keys
  /\ isr \in {"entry", "clear"} /\ edge_capture \subseteq Keys
  /\ pc \in {"IDLE", "register", "ready", "START", "DELAY", "delayed",
             "cheated", "again", "COUNT", "STOP", "show"}
  /\ time \in 0..RESP_TIMEOUT /\ delay \in Delays \cup {0}
  /\ response_time \in 0..(RESP_TIMEOUT - 1)
  /\ highscore \in 0..(RESP_TIMEOUT - 1) \cup {UINT16_MAX}
  /\ rounds \in 0..4

\* README.md: the RTOS "can't reach a measurement accuracy of more than
\* 1ms": a score is the time of the response, at most one tick short (a press
\* between a tick and its handler still finds the wait of the tick before).
ScoreIsTime ==
  pc \in {"STOP", "show"} => responded - response_time \in {0, 1}

\* README.md: responses "faster than a human" are invalid: only a response
\* can end the counting before its time-out.  No press of earlier, in the
\* delay or in another round, is taken for one.
OnlyResponsesEndRounds ==
  [][pc = "COUNT" /\ pc' # "COUNT" /\ time' = time => responded # UNMEASURED]_vars

\* A turn begins with a press of KEY0 after it was asked for, and no press of
\* KEY1 is left over: no token waits while the task waits for the next turn.
NoStaleTokens ==
  ReactionTask \in waiting["start_sem"] =>
    cnt["start_sem"] = 0 /\ cnt["stop_sem"] = 0

\* Whatever the task is doing, it comes back to asking for a turn, once the
\* player has given up holding KEY1 over the ends of delays.
ComesHome ==
  <>[](pc = "delayed" => RESP_KEY \notin pressed) =>
    (pc # "ready" ~> pc = "ready")
-----------------------------------------------------------------------------
(* The game the players see.                                               *)

Stage ==
  IF pc \in {"START", "DELAY", "delayed", "cheated", "again"} THEN "waits"
  ELSE IF pc = "COUNT" THEN "counts"
  ELSE IF pc \in {"STOP", "show"} THEN "shows"
  ELSE "home"

Held     == RESP_KEY \in pressed
Clock    == IF Stage = "counts" /\ responded = UNMEASURED THEN elapsed ELSE 0
Response == IF Stage \in {"counts", "shows"} THEN responded ELSE UNMEASURED
TopScore == IF pc = "STOP" /\ response_time < highscore
            THEN response_time ELSE highscore

Game == INSTANCE ReactionGame
          WITH PATIENCE <- RESP_TIMEOUT, LEAST <- MIN_RESP_TIME, ACCURACY <- 1,
               stage <- Stage, clock <- Clock, held <- Held, response <- Response,
               free <- FALSE, score <- response_time, highscore <- TopScore

\* README.md, Usage and Cheat-prevention: for patient players the application
\* is the game, with scores that fall short of the response by a tick at most.
PlaysGame == Game!Spec
=============================================================================
