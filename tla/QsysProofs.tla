----------------------------- MODULE QsysProofs -----------------------------
(***************************************************************************)
(* The Qsys application for every delay, time-out, register width, patience *)
(* and behaviour of the player: types, and the kernel's invariant in the    *)
(* composition with hardware and tasks.  For patient players: meter and     *)
(* task are in the same round, token by token, and what follows for scores, *)
(* semaphores and releases.  At the end: the program implements the         *)
(* protocol of the meter and the specification of the kernel.               *)
(***************************************************************************)
EXTENDS QsysApp, KernelProofs

\* The loops of meter and task stop before their counters leave the range.
LoopsStop ==
  /\ phase = "DELAY" => ms < DELAY_MS
  /\ phase = "COUNT" => ms < MAX_MS
  /\ pc = "COUNT" => time < SLICES
  /\ pc # "register" => rounds <= 3

\* The inductive invariant.
IInv == TypeOK /\ KernelInv /\ LoopsStop

\* What the task and the hardware contribute to it.
AppInv == TypeOK /\ LoopsStop

-----------------------------------------------------------------------------
\* The state main leaves behind.
LEMMA InitIInv == Init => IInv
<1> SUFFICES ASSUME Init PROVE IInv
  OBVIOUS
<1>1. KernelInv
  BY KernelInitInv DEF Init
<1>2. AppInv
  BY <1>1, QsysAssumption
  DEF QsysAssumption, AppInv, Init, ProtocolInit, TypeOK, LoopsStop, KernelInv,
      ProtocolTypeOK, KernelTypeOK, Phases, UINT16_MAX
<1> QED
  BY <1>1, <1>2 DEF IInv, AppInv

\* The constants the arithmetic of the steps needs.
LEMMA Sizes ==
  /\ DELAY_MS \in Nat \ {0} /\ MAX_MS \in Nat \ {0} /\ SLICES \in Nat \ {0}
  /\ SLICE_TICKS \in Nat /\ Results = 0..(RESP_SPAN - 1) /\ RESP_SPAN \in Nat \ {0}
BY QsysAssumption DEF QsysAssumption

LEMMA Names ==
  /\ ReactionTask \in Tasks /\ ConsoleTask \in Tasks
  /\ "start_sem" \in Events /\ "start_counting_sem" \in Events
  /\ "stop_sem" \in Events /\ "restart_sem" \in Events
  /\ "player_queue" \in Events
BY QsysAssumption DEF QsysAssumption, ReactionTask, ConsoleTask

\* A clock edge of the meter between two milliseconds.
LEMMA MeterAppInv ==
  ASSUME AppInv, Meter
  PROVE  AppInv'
<1> USE Sizes
    DEF AppInv, TypeOK, LoopsStop, ProtocolTypeOK, Phases, Meter, keys, task,
        kernelVars, Move
<1>1. CASE Latch
  BY <1>1 DEF Latch, Stay
<1>2. CASE MeterArm
  BY <1>2 DEF MeterArm, Arm
<1>3. CASE MeterRelease
  BY <1>3 DEF MeterRelease, Release
<1>4. CASE MeterRespond
  <2>1. ms % RESP_SPAN \in Results
    OBVIOUS
  <2> QED
    BY <1>4, <2>1 DEF MeterRespond, Respond
<1>5. CASE MeterRest
  BY <1>5 DEF MeterRest, Rest
<1> QED
  BY <1>1, <1>2, <1>3, <1>4, <1>5

\* A millisecond, of a delay, of a count or of neither.
LEMMA MillisecondAppInv ==
  ASSUME AppInv, Millisecond
  PROVE  AppInv'
<1> USE Sizes
    DEF AppInv, TypeOK, LoopsStop, ProtocolTypeOK, Phases, Millisecond, keys,
        task, kernelVars, Move, meter, protocolVars
<1>1. CASE DelayPasses
  BY <1>1 DEF DelayPasses, Go
<1>2. CASE CountPasses
  BY <1>2 DEF CountPasses, GiveUp
<1>3. CASE phase \notin {"DELAY", "COUNT"} /\ UNCHANGED meter
  BY <1>3
<1> QED
  BY <1>1, <1>2, <1>3

\* The player only moves buttons.
LEMMA PlayerAppInv ==
  ASSUME AppInv, Player
  PROVE  AppInv'
<1> USE DEF AppInv, TypeOK, LoopsStop, ProtocolTypeOK, Player, Button, meter,
            lines, task
<1>1. CASE Button(PressKey0)
  BY <1>1 DEF PressKey0
<1>2. CASE Button(PressKey1)
  BY <1>2 DEF PressKey1
<1>3. CASE Button(LiftKey0)
  BY <1>3 DEF LiftKey0
<1>4. CASE Button(LiftKey1)
  BY <1>4 DEF LiftKey1
<1> QED
  BY <1>1, <1>2, <1>3, <1>4

\* Interrupts and the scheduler leave the task alone.
LEMMA ProcessorAppInv ==
  ASSUME AppInv, Processor \/ Console
  PROVE  AppInv'
<1> USE DEF AppInv, TypeOK, LoopsStop, ProtocolTypeOK, Processor, meter, lines,
            keys, task
<1>1. CASE Interrupted
  BY <1>1 DEF Interrupted
<1>2. CASE TickIsr
  BY <1>2 DEF TickIsr
<1>3. CASE MeterIsr
  BY <1>3 DEF MeterIsr, ReadRegister
<1>4. CASE Resume
  BY <1>4 DEF Resume
<1>5. CASE Switch
  BY <1>5 DEF Switch
<1>6. CASE Console
  BY <1>6 DEF Console
<1> QED
  BY <1>1, <1>2, <1>3, <1>4, <1>5, <1>6

\* The states of the task.
LEMMA TaskAppInv ==
  ASSUME AppInv, ReactionMeterTask
  PROVE  AppInv'
<1> USE Sizes
    DEF AppInv, TypeOK, LoopsStop, ProtocolTypeOK, meter, lines, keys, task,
        Waits, Gets, TimesOut, At, Keep, Goto
<1>1. CASE Idle
  BY <1>1 DEF Idle
<1>2. CASE Register
  <2>1. UNCHANGED <<meter, lines, keys, time, response_time, highscore>>
    BY <1>2 DEF Register
  <2>2. /\ pc = "register"
        /\ \/ pc' = pc /\ rounds' = rounds
           \/ pc' = "ready" /\ rounds' = 0
    BY <1>2 DEF Register
  <2>3. TypeOK'
    BY <2>1, <2>2
  <2>4. LoopsStop'
    BY <2>1, <2>2
  <2> QED
    BY <2>3, <2>4
<1>3. CASE Ready
  <2>1. /\ UNCHANGED <<meter, lines, keys, time, response_time, highscore, rounds>>
        /\ pc = "ready" /\ pc' \in {"ready", "START"}
    BY <1>3 DEF Ready
  <2>2. TypeOK'
    BY <2>1
  <2>3. LoopsStop'
    BY <2>1
  <2> QED
    BY <2>2, <2>3
<1>4. CASE Start
  <2>1. 0 \in 0..SLICES /\ 0 < SLICES
    OBVIOUS
  <2>2. UNCHANGED <<meter, lines, keys, response_time, highscore, rounds>>
    BY <1>4 DEF Start
  <2>3. /\ pc = "START"
        /\ \/ pc' = pc /\ time' = time
           \/ pc' = "COUNT" /\ time' = 0
    BY <1>4 DEF Start
  <2>4. TypeOK'
    BY <2>1, <2>2, <2>3
  <2>5. LoopsStop'
    BY <2>1, <2>2, <2>3
  <2> QED
    BY <2>4, <2>5 DEF AppInv
<1>5. CASE Count
  <2>1. UNCHANGED <<meter, lines, keys, response_time, highscore, rounds>>
    BY <1>5 DEF Count
  <2>2. /\ pc = "COUNT"
        /\ \/ pc' \in {"COUNT", "read"} /\ time' = time
           \/ pc' = "COUNT" /\ time' = time + 1 /\ time + 1 < SLICES
           \/ pc' = "IDLE" /\ time' = time + 1
    BY <1>5 DEF Count
  <2> QED
    BY <2>1, <2>2
<1>6. CASE ReadResult
  BY <1>6 DEF ReadResult, ReadRegister
<1>7. CASE Stop
  BY <1>7 DEF Stop
<1>8. CASE Show
  BY <1>8 DEF Show
<1> QED
  BY <1>1, <1>2, <1>3, <1>4, <1>5, <1>6, <1>7, <1>8 DEF ReactionMeterTask

-----------------------------------------------------------------------------
(* Every step uses the kernel as the lemmas of KernelProofs demand.        *)

\* The three ways through a pend call of the task.
LEMMA WaitsKernelInv ==
  ASSUME KernelInv, NEW label, NEW e \in Events, NEW timeout \in Nat,
         Waits(label, e, timeout)
  PROVE  KernelInv'
<1>1. TaskCalls
  BY Names DEF Waits, At, Runs, TaskCalls, InCall
<1> QED
  BY <1>1, PendBlocksInv DEF Waits, Keep

LEMMA GetsKernelInv ==
  ASSUME KernelInv, NEW label, NEW e \in Events,
         Gets(label, e) \/ TimesOut(label)
  PROVE  KernelInv'
<1>1. cur = ReactionTask /\ cur \in Tasks /\ Runs(cur) /\ UNCHANGED schedVars
  BY Names DEF Gets, TimesOut, At, Runs, Keep
<1>2. PendTakes(e) \/ PendReturns
  BY DEF Gets, TimesOut
<1> QED
  BY <1>1, <1>2, PendTakesInv, PendReturnsInv

LEMMA TaskKernelInv ==
  ASSUME KernelInv, ReactionMeterTask
  PROVE  KernelInv'
<1> USE Names, Sizes
<1>1. CASE Register
  BY <1>1, WaitsKernelInv, GetsKernelInv DEF Register
<1>2. CASE Ready
  BY <1>2, WaitsKernelInv, GetsKernelInv DEF Ready
<1>3. CASE Start
  BY <1>3, WaitsKernelInv, GetsKernelInv DEF Start
<1>4. CASE Count
  BY <1>4, WaitsKernelInv, GetsKernelInv DEF Count
<1>5. CASE Show
  BY <1>5, WaitsKernelInv, GetsKernelInv DEF Show
<1>6. CASE Idle \/ ReadResult \/ Stop
  <2>1. UNCHANGED kernelVars
    BY <1>6 DEF Idle, ReadResult, Stop
  <2> QED
    BY <2>1, StutterInv
<1> QED
  BY <1>1, <1>2, <1>3, <1>4, <1>5, <1>6 DEF ReactionMeterTask

\* A post of the handler or of the console task.
LEMMA PostsKernelInv ==
  ASSUME KernelInv, MeterIsr \/ Console
  PROVE  KernelInv'
<1>1. CASE MeterIsr
  <2>1. nesting > 0 /\ UNCHANGED schedVars
    BY <1>1 DEF MeterIsr
  <2>2. CASE StateRegister \in DOMAIN Posted
    <3>1. Posted[StateRegister] \in Events
      BY <2>2, Names DEF Posted
    <3> QED
      BY <1>1, <2>1, <2>2, <3>1, PostInv DEF MeterIsr, KernelInv, KernelTypeOK
  <2>3. CASE StateRegister \notin DOMAIN Posted
    BY <1>1, <2>1, <2>3, StutterInv DEF MeterIsr, kernelVars, schedVars
  <2> QED
    BY <2>2, <2>3
<1>2. CASE Console
  <2>1. cur \in Tasks /\ UNCHANGED schedVars /\ Post("player_queue")
    BY <1>2, Names DEF Console, Runs
  <2> QED
    BY <2>1, Names, PostInv
<1> QED
  BY <1>1, <1>2

LEMMA ProcessorKernelInv ==
  ASSUME KernelInv, Processor
  PROVE  KernelInv'
<1>1. CASE Interrupted
  BY <1>1, IntEnterInv DEF Interrupted
<1>2. CASE TickIsr
  BY <1>2, TimeTickInv DEF TickIsr
<1>3. CASE MeterIsr
  BY <1>3, PostsKernelInv
<1>4. CASE Resume
  BY <1>4, IntExitInv DEF Resume
<1>5. CASE Switch
  BY <1>5, DispatchInv DEF Switch
<1> QED
  BY <1>1, <1>2, <1>3, <1>4, <1>5 DEF Processor

-----------------------------------------------------------------------------
\* Every step of the program, with the kernel's part and the others apart.
LEMMA StepIInv == IInv /\ [Next]_vars => IInv'
<1> SUFFICES ASSUME IInv, [Next]_vars PROVE IInv'
  OBVIOUS
<1>0. KernelInv /\ AppInv
  BY DEF IInv, AppInv
<1>1. KernelInv'
  <2>1. CASE Meter \/ Millisecond \/ Player \/ UNCHANGED vars
    <3>1. UNCHANGED kernelVars
      BY <2>1 DEF Meter, Millisecond, Player, Button, vars
    <3> QED
      BY <1>0, <3>1, StutterInv
  <2>2. CASE Processor \/ Console
    BY <1>0, <2>2, ProcessorKernelInv, PostsKernelInv
  <2>3. CASE ReactionMeterTask
    BY <1>0, <2>3, TaskKernelInv
  <2> QED
    BY <2>1, <2>2, <2>3 DEF Next
<1>2. AppInv'
  <2>1. CASE UNCHANGED vars
    BY <1>0, <2>1
    DEF AppInv, TypeOK, LoopsStop, ProtocolTypeOK, vars, meter, lines, keys, task
  <2>2. CASE Next
    BY <1>0, <2>2, MeterAppInv, MillisecondAppInv, PlayerAppInv,
       ProcessorAppInv, TaskAppInv
    DEF Next
  <2> QED
    BY <2>1, <2>2
<1> QED
  BY <1>1, <1>2 DEF IInv, AppInv

\* Every state of the composed system satisfies the inductive invariant
\* (qsys_main.c on the kernel, with the meter's interrupt).
THEOREM Inductive == Spec => []IInv
BY InitIInv, StepIInv, PTL DEF Spec

\* Every counter of meter and task keeps to its range.
THEOREM Typed == Spec => []TypeOK
BY Inductive, PTL DEF IInv

\* The guarantees of the kernel hold in this program: its tasks and handlers
\* keep to the rules under which they were proved.
THEOREM KernelGuaranteesHold == Spec => []KernelInv
BY Inductive, PTL DEF IInv
-----------------------------------------------------------------------------
(* Rounds of meter and task with patient players.                          *)

\* They respond neither too fast nor beyond the patience of the task and the
\* width of the result, press KEY0 when the task waits for it, and no access of
\* the bus meets a pulse of the meter.  Outside the counting phase they may hold
\* KEY1 as they like, and they may enter names at any time.
PatientPlayers ==
  /\ Habits \subseteq {"key1", "names"} /\ ~BUS_RACES
  /\ \A r \in Reactions : /\ r \in MIN_RESP..(RESP_SPAN - 1)
                          /\ r < SLICES * SLICE_TICKS

OneIf(b) == IF b THEN 1 ELSE 0

\* A post has ended the task's wait for e, and the task has not run since.
Handed(e) ==
  evt[ReactionTask] = e /\ stat[ReactionTask] = "RDY" /\ pendStat[ReactionTask] = "OK"

\* Tokens of e that are counted or in the hands of the task, and the one that
\* the handler will post for a transition to p it has not yet been told of.
Tokens(e) == cnt[e] + OneIf(Handed(e))
Announced == pulse = 1 \/ irq = 1
Coming(e, p) == Tokens(e) + OneIf(Announced /\ phase = p)

Starts    == Coming("start_sem", "START")
Goes      == Coming("start_counting_sem", "COUNT")
Responses == Coming("stop_sem", "STOP")
Releases  == Coming("restart_sem", "IDLE")

\* How far the task is in a round: it has not seen the start, the signal, the
\* response; and how far the meter is: the response is over.
Behind   == Starts = 1
BeforeGo == Behind \/ pc = "START"
Counting == BeforeGo \/ pc = "COUNT"
Scoring  == pc \in {"read", "STOP", "show"}
Open     == Counting \/ Scoring
Answered == phase = "STOP" \/ (phase = "IDLE" /\ Releases = 1)

\* Every transition of the meter is matched by one token until the task has
\* taken it, and outside a round there are none.
Matched ==
  /\ Starts \in {0, 1} /\ cnt["start_sem"] = 0 /\ (Behind => pc = "ready")
  /\ Releases \in {0, 1}
  /\ ~Open => Goes = 0 /\ Responses = 0 /\ Releases = 0
  /\ Open => /\ Goes = OneIf(BeforeGo /\ phase \notin {"START", "DELAY"})
             /\ Responses = OneIf(Counting /\ Answered)
             /\ Releases = 1 => phase = "IDLE"

\* Where the meter can be while the task is at some point of a round.
Together ==
  /\ ~Open => \/ phase = "IDLE"
              \/ phase = "COUNT" /\ key1 = "up" /\ ms >= SLICES * SLICE_TICKS
  /\ pc = "COUNT" => phase \in {"COUNT", "STOP", "IDLE"}
  /\ Scoring => Answered

\* Time the meter has counted, against the slices the task has waited.
Patience ==
  pc = "COUNT" =>
    /\ stat[ReactionTask] = "PEND" => dly[ReactionTask] \in 1..SLICE_TICKS
    /\ phase = "COUNT" =>
         /\ ms >= time * SLICE_TICKS
         /\ stat[ReactionTask] = "PEND" =>
              ms >= time * SLICE_TICKS + (SLICE_TICKS - dly[ReactionTask]) + timer
         /\ pendStat[ReactionTask] = "TO" => ms >= time * SLICE_TICKS + SLICE_TICKS

\* A button the meter is about to see.
KeyMoves ==
  \/ phase = "IDLE" /\ key0 = "down"
  \/ phase = "START" /\ key0 = "up"
  \/ phase = "COUNT" /\ key1 = "down"
  \/ phase = "STOP" /\ key1 = "up"

Presses ==
  /\ key0 = "down" => \/ phase = "START"
                      \/ phase = "IDLE" /\ ReactionTask \in waiting["start_sem"]
  /\ phase = "COUNT" /\ key1 = "down" => ms \in Reactions
  /\ phase = "START" /\ Announced => ReactionTask \in waiting["start_sem"]
  /\ KeyMoves => pulse = 0 /\ irq = 0 /\ timer = 0 /\ nesting = 0
  /\ pulse = 1 => irq = 0

Scores ==
  /\ Answered => result = measured /\ measured >= MIN_RESP
  /\ Open /\ ~Answered => measured = UNMEASURED
  /\ pc \in {"STOP", "show"} => response_time = measured
  /\ measured \in Int

\* Which call the task may be in; the other task never waits.
CallOf == [register |-> "player_queue", ready |-> "start_sem",
           START |-> "start_counting_sem", COUNT |-> "stop_sem",
           show |-> "restart_sem"]
Calls ==
  /\ evt[ConsoleTask] = NoEvent
  /\ evt[ReactionTask] # NoEvent => /\ pc \in DOMAIN CallOf
                                    /\ evt[ReactionTask] = CallOf[pc]

RoundInv == Matched /\ Together /\ Patience /\ Presses /\ Scores /\ Calls
PatientInv == IInv /\ RoundInv

-----------------------------------------------------------------------------
(* Tokens of the task's semaphores, operation by operation.                *)

LEMMA OnlyTasks == Tasks = {ReactionTask, ConsoleTask} /\ ReactionTask # ConsoleTask
BY QsysAssumption DEF QsysAssumption, ReactionTask, ConsoleTask

LEMMA TokensAreNat ==
  ASSUME KernelInv, NEW e \in Events
  PROVE  /\ cnt[e] \in Nat /\ Tokens(e) \in Nat /\ Tokens(e) >= cnt[e]
         /\ Tokens(e) = 0 <=> cnt[e] = 0 /\ ~Handed(e)
BY DEF KernelInv, KernelTypeOK, Tokens, OneIf

\* Nothing about a token changes unless events and task control blocks do.
LEMMA SameTokens ==
  ASSUME UNCHANGED <<cnt, evt, stat, pendStat>>, NEW e
  PROVE  Tokens(e)' = Tokens(e) /\ Handed(e)' = Handed(e)
BY DEF Tokens, Handed

\* OSSemPost adds a token, to the count or to the task's hands.
LEMMA PostTokens ==
  ASSUME KernelInv, Calls, NEW e \in Events, Post(e), Tokens(e) = 0
  PROVE  /\ Tokens(e)' = 1
         /\ \A f \in Events \ {e} : Tokens(f)' = Tokens(f) /\ cnt'[f] = cnt[f]
         /\ evt' = evt
         /\ waiting[e] # {} => cnt'[e] = 0
         /\ stat'[ReactionTask] = "PEND" =>
              stat[ReactionTask] = "PEND" /\ dly'[ReactionTask] = dly[ReactionTask]
<1>1. cnt[e] = 0 /\ ~Handed(e) /\ Limit[e] \in Nat \ {0}
  BY TokensAreNat, UcosAssumption DEF UcosAssumption
<1>2. CASE PostHands(e)
  <2>1. PICK t \in waiting[e] :
          /\ stat' = [stat EXCEPT ![t] = "RDY"]
          /\ pendStat' = [pendStat EXCEPT ![t] = "OK"]
          /\ UNCHANGED <<cnt, evt>>
    BY <1>2 DEF PostHands, EventTaskRdy
  <2>2. t = ReactionTask /\ evt[t] = e /\ t \in Tasks
    BY OnlyTasks, UcosAssumption
    DEF UcosAssumption, KernelInv, KernelTypeOK, WaitListExact, FieldsAgree, Calls
  <2>3. stat'[ReactionTask] = "RDY"
    BY <2>1, <2>2 DEF KernelInv, KernelTypeOK
  <2>4. Handed(e)' /\ \A f \in Events \ {e} : ~Handed(f) /\ ~Handed(f)'
    BY <2>1, <2>2 DEF Handed, KernelInv, KernelTypeOK
  <2> QED
    BY <1>1, <2>1, <2>3, <2>4 DEF Tokens, OneIf
<1>3. CASE PostCounts(e)
  <2>1. \A f : Handed(f)' = Handed(f)
    BY <1>3 DEF PostCounts, Handed
  <2>2. cnt' = [cnt EXCEPT ![e] = 1] /\ cnt \in [Events -> Nat] /\ evt' = evt
        /\ waiting[e] = {} /\ stat' = stat /\ dly' = dly
    BY <1>1, <1>3 DEF PostCounts, KernelInv, KernelTypeOK
  <2> QED
    BY <1>1, <2>1, <2>2 DEF Tokens, OneIf
<1>4. CASE PostOverflows(e)
  BY <1>1, <1>4 DEF PostOverflows
<1> QED
  BY <1>2, <1>3, <1>4 DEF Post

\* OSSemPend that waits holds no token before and after.
LEMMA WaitsTokens ==
  ASSUME KernelInv, NEW label, NEW e \in Events, NEW timeout,
         Waits(label, e, timeout), NEW f \in Events
  PROVE  Tokens(f)' = Tokens(f) /\ evt' = [evt EXCEPT ![ReactionTask] = e]
<1>1. /\ cur = ReactionTask /\ cur \in Tasks /\ evt[cur] = NoEvent /\ cnt' = cnt
      /\ stat' = [stat EXCEPT ![cur] = "PEND"] /\ evt' = [evt EXCEPT ![cur] = e]
  BY Names DEF Waits, At, Runs, InCall, PendBlocks, EventTaskWait
<1>2. ~Handed(f) /\ ~Handed(f)'
  BY <1>1, UcosAssumption DEF UcosAssumption, Handed, KernelInv, KernelTypeOK
<1> QED
  BY <1>1, <1>2 DEF Tokens, OneIf

\* OSSemPend that returns with the event has consumed one.
LEMMA GetsTokens ==
  ASSUME KernelInv, Calls, NEW label \in DOMAIN CallOf, NEW e \in Events, Gets(label, e),
         e = CallOf[label]
  PROVE  /\ Tokens(e) >= 1 /\ Tokens(e)' = Tokens(e) - 1
         /\ \A f \in Events \ {e} : Tokens(f)' = Tokens(f)
         /\ evt' = [evt EXCEPT ![ReactionTask] = NoEvent]
         /\ cnt[e] = 0 => cnt'[e] = 0
<1>1. /\ cur = ReactionTask /\ cur \in Tasks /\ Runs(cur) /\ pc = label
      /\ evt \in [Tasks -> Events \cup {NoEvent}] /\ cnt \in [Events -> Nat]
      /\ NoEvent \notin Events
  BY Names, UcosAssumption DEF UcosAssumption, Gets, At, Runs, KernelInv, KernelTypeOK
<1>2. stat[ReactionTask] = "RDY"
  BY <1>1, RunningIsReady
<1>3. CASE ~InCall /\ PendTakes(e)
  <2>1. /\ cnt[e] > 0 /\ cnt' = [cnt EXCEPT ![e] = cnt[e] - 1] /\ evt' = evt
        /\ evt[ReactionTask] = NoEvent
    BY <1>3 DEF PendTakes, InCall
  <2>2. \A f \in Events : ~Handed(f) /\ ~Handed(f)'
    BY <1>1, <2>1 DEF Handed
  <2>3. evt' = [evt EXCEPT ![ReactionTask] = NoEvent]
    BY <1>1, <2>1
  <2>4. /\ cnt[e] \in Nat /\ cnt'[e] = cnt[e] - 1
        /\ \A f \in Events \ {e} : cnt'[f] = cnt[f]
    BY <1>1, <2>1
  <2>5. \A f \in Events : Tokens(f) = cnt[f] + 0 /\ Tokens(f)' = cnt'[f] + 0
    BY <2>2 DEF Tokens, OneIf
  <2>6. Tokens(e) >= 1 /\ Tokens(e)' = Tokens(e) - 1
    BY <2>1, <2>4, <2>5
  <2>7. \A f \in Events \ {e} : Tokens(f)' = Tokens(f)
    BY <2>4, <2>5
  <2>8. cnt[e] # 0
    BY <2>1, <2>4
  <2> QED
    BY <2>3, <2>6, <2>7, <2>8, Zenon
<1>4. CASE InCall /\ pendStat[ReactionTask] = "OK" /\ PendReturns
  <2>1. cnt' = cnt /\ evt' = [evt EXCEPT ![ReactionTask] = NoEvent]
    BY <1>1, <1>4 DEF PendReturns
  <2>2. evt[ReactionTask] = e
    BY <1>1, <1>4 DEF InCall, Calls
  <2>3. Handed(e) /\ \A f \in Events : ~Handed(f)' /\ (f # e => ~Handed(f))
    BY <1>1, <1>2, <1>4, <2>1, <2>2 DEF Handed
  <2> QED
    BY <1>1, <2>1, <2>3 DEF Tokens, OneIf
<1> QED
  BY <1>3, <1>4 DEF Gets

\* OSSemPend that times out has met none.
LEMMA TimesOutTokens ==
  ASSUME KernelInv, Calls, NEW label \in DOMAIN CallOf, TimesOut(label),
         CallOf[label] \in Events
  PROVE  /\ Tokens(CallOf[label]) = 0
         /\ \A f \in Events : Tokens(f)' = Tokens(f)
         /\ evt' = [evt EXCEPT ![ReactionTask] = NoEvent]
<1>1. /\ cur = ReactionTask /\ cur \in Tasks /\ pc = label
      /\ evt \in [Tasks -> Events \cup {NoEvent}] /\ cnt \in [Events -> Nat]
      /\ NoEvent \notin Events
      /\ pendStat[cur] = "TO" /\ InCall /\ cnt' = cnt
      /\ evt' = [evt EXCEPT ![ReactionTask] = NoEvent]
  BY Names, UcosAssumption
  DEF UcosAssumption, TimesOut, At, Runs, KernelInv, KernelTypeOK, PendReturns
<1>2. evt[cur] = CallOf[label]
  BY <1>1 DEF InCall, Calls
<1>3. cur \in waiting[CallOf[label]]
  BY <1>1, <1>2 DEF KernelInv, WaitListExact
<1>4. cnt[CallOf[label]] = 0
  BY <1>1, <1>3 DEF KernelInv, TokensMeanNoWaiter
<1>5. \A f \in Events : ~Handed(f) /\ ~Handed(f)'
  BY <1>1 DEF Handed
<1> QED
  BY <1>1, <1>4, <1>5 DEF Tokens, OneIf

\* OSTimeTick ends waits without a token.
LEMMA TickTokens ==
  ASSUME KernelInv, TimeTick, NEW e \in Events
  PROVE  Tokens(e)' = Tokens(e)
<1>1. ReactionTask \in Tasks /\ evt' = evt /\ cnt' = cnt /\ NoEvent \notin Events
  BY Names, UcosAssumption DEF UcosAssumption, TimeTick
<1>2. /\ stat'[ReactionTask] = IF dly[ReactionTask] = 1 THEN "RDY" ELSE stat[ReactionTask]
      /\ pendStat'[ReactionTask] =
           IF dly[ReactionTask] # 1 THEN pendStat[ReactionTask]
           ELSE IF stat[ReactionTask] = "PEND" THEN "TO" ELSE "OK"
  BY <1>1 DEF TimeTick
<1>3. Handed(e)' <=> Handed(e)
  BY <1>1, <1>2 DEF Handed, KernelInv, KernelTypeOK, FieldsAgree
<1> QED
  BY <1>1, <1>3 DEF Tokens, OneIf

\* What a step that leaves the kernel alone does to tokens.
TokensStay ==
  /\ Tokens("start_sem")' = Tokens("start_sem")
  /\ Tokens("start_counting_sem")' = Tokens("start_counting_sem")
  /\ Tokens("stop_sem")' = Tokens("stop_sem")
  /\ Tokens("restart_sem")' = Tokens("restart_sem")

LEMMA KernelStays ==
  ASSUME UNCHANGED <<cnt, waiting, evt, stat, pendStat, dly, pc>>
  PROVE  /\ TokensStay
         /\ Calls => Calls'
BY SameTokens DEF TokensStay, Calls

\* The numbers the four tokens are.
LEMMA FourTokens ==
  ASSUME KernelInv
  PROVE  /\ Tokens("start_sem") \in Nat /\ Tokens("start_counting_sem") \in Nat
         /\ Tokens("stop_sem") \in Nat /\ Tokens("restart_sem") \in Nat
BY Names, TokensAreNat

\* A clock edge of the meter.
LEMMA MeterRound ==
  ASSUME PatientInv, PatientPlayers, Meter
  PROVE  RoundInv'
<1> USE DEF Starts, Goes, Responses, Releases, Coming, Behind, BeforeGo, Counting,
            Scoring, Open, Answered, Announced, OneIf, KeyMoves
<1>1. /\ KernelInv /\ TypeOK /\ Matched /\ Together /\ Patience /\ Presses
      /\ Scores /\ Calls
  BY DEF PatientInv, RoundInv, IInv
<1>2. UNCHANGED <<timer, key0, key1, cnt, waiting, evt, stat, pendStat, dly, nesting>>
  BY DEF Meter, keys, kernelVars
<1>3. UNCHANGED <<pc, time, response_time, highscore, rounds>>
  BY DEF Meter, task
<1>4. TokensStay /\ Calls'
  BY <1>1, <1>2, <1>3, KernelStays
<1>5. /\ Tokens("start_sem") \in Nat /\ Tokens("start_counting_sem") \in Nat
      /\ Tokens("stop_sem") \in Nat /\ Tokens("restart_sem") \in Nat
  BY <1>1, FourTokens
<1>6. CASE Latch
  <2>1. /\ pulse = 1 /\ pulse' = 0 /\ irq' = 1
        /\ UNCHANGED <<phase, result, ms, measured, best>>
    BY <1>6 DEF Latch, Stay
  <2>2. Matched'
    BY <1>1, <1>2, <1>3, <1>4, <2>1 DEF Matched, TokensStay
  <2>3. Together'
    BY <1>1, <1>2, <1>3, <1>4, <2>1 DEF Together, TokensStay
  <2>4. Patience'
    BY <1>1, <1>2, <1>3, <2>1 DEF Patience
  <2>5. Presses'
    BY <1>1, <1>2, <2>1 DEF Presses
  <2>6. Scores'
    BY <1>1, <1>3, <1>4, <2>1 DEF Scores, TokensStay
  <2> QED
    BY <1>4, <2>2, <2>3, <2>4, <2>5, <2>6 DEF RoundInv
<1>7. CASE MeterArm /\ pulse = 0
  <2>1. /\ phase = "IDLE" /\ phase' = "START" /\ pulse' = 1 /\ pulse = 0 /\ key0 = "down"
        /\ measured' = UNMEASURED /\ UNCHANGED <<ms, irq, best, result>>
    BY <1>7 DEF MeterArm, Arm, Move
  <2>2. ReactionTask \in waiting["start_sem"] /\ irq = 0 /\ nesting = 0 /\ timer = 0
    BY <1>1, <2>1 DEF Presses, TypeOK
  <2>3. pc = "ready" /\ ~Handed("start_sem") /\ cnt["start_sem"] = 0
    BY <1>1, <2>2, Names, UcosAssumption
    DEF UcosAssumption, KernelInv, WaitListExact, Calls, Handed, Matched, CallOf, FieldsAgree
  <2>4. Tokens("start_sem") = 0
    BY <1>1, <2>3, Names, TokensAreNat
  <2>5. Matched'
    BY <1>1, <1>2, <1>3, <1>4, <1>5, <2>1, <2>2, <2>3, <2>4 DEF Matched, TokensStay
  <2>6. Together'
    BY <1>3, <1>4, <2>1, <2>3, <2>4 DEF Together, TokensStay
  <2>7. Patience'
    BY <1>3, <2>3 DEF Patience
  <2>8. Presses'
    BY <1>1, <1>2, <2>1, <2>2 DEF Presses
  <2>9. Scores'
    BY <1>1, <1>3, <2>1, <2>3 DEF Scores, UNMEASURED
  <2> QED
    BY <1>4, <2>5, <2>6, <2>7, <2>8, <2>9 DEF RoundInv
<1>8. CASE MeterRelease /\ pulse = 0
  <2>1. /\ phase = "START" /\ phase' = "DELAY" /\ pulse' = 1 /\ pulse = 0 /\ key0 = "up"
        /\ ms' = 0 /\ UNCHANGED <<irq, measured, best, result>>
    BY <1>8 DEF MeterRelease, Release, Move
  <2>2. irq = 0 /\ timer = 0 /\ nesting = 0
    BY <1>1, <2>1 DEF Presses, TypeOK
  <2>3. Matched'
    BY <1>1, <1>2, <1>3, <1>4, <1>5, <2>1, <2>2 DEF Matched, Together, TokensStay
  <2>4. Together'
    BY <1>1, <1>3, <1>4, <2>1, <2>2 DEF Together, TokensStay
  <2>5. Patience'
    BY <1>1, <1>2, <1>3, <2>1 DEF Patience
  <2>6. Presses'
    BY <1>1, <1>2, <2>1, <2>2 DEF Presses
  <2>7. Scores'
    BY <1>1, <1>3, <1>4, <2>1, <2>2 DEF Scores, Together
  <2> QED
    BY <1>4, <2>3, <2>4, <2>5, <2>6, <2>7 DEF RoundInv
<1>9. CASE MeterRespond /\ pulse = 0
  <2>1. /\ phase = "COUNT" /\ phase' = "STOP" /\ pulse' = 1 /\ pulse = 0 /\ key1 = "down"
        /\ result' = ms % RESP_SPAN /\ measured' = ms /\ ms' = 0 /\ UNCHANGED irq
    BY <1>9 DEF MeterRespond, Respond, Move
  <2>2. irq = 0 /\ timer = 0 /\ nesting = 0 /\ key0 = "up" /\ ms \in Reactions
    BY <1>1, <2>1 DEF Presses, TypeOK
  <2>3. ms \in Nat /\ MIN_RESP \in Nat /\ MIN_RESP <= ms /\ ms < RESP_SPAN
    BY <1>1, <2>2, QsysAssumption DEF PatientPlayers, QsysAssumption
  <2>4. ms % RESP_SPAN = ms
    BY <2>3, QsysAssumption DEF QsysAssumption
  <2>5. Open /\ Counting /\ ~Scoring
    BY <1>1, <2>1 DEF Together
  <2>6. Matched'
    BY <1>1, <1>2, <1>3, <1>4, <1>5, <2>1, <2>2, <2>5 DEF Matched, TokensStay
  <2>7. Together'
    BY <1>1, <1>3, <1>4, <2>1, <2>2, <2>5 DEF Together, TokensStay
  <2>8. Patience'
    BY <1>1, <1>2, <1>3, <2>1 DEF Patience
  <2>9. Presses'
    BY <1>1, <1>2, <2>1, <2>2 DEF Presses
  <2>10. Scores'
    BY <1>3, <2>1, <2>3, <2>4, <2>5 DEF Scores
  <2> QED
    BY <1>4, <2>6, <2>7, <2>8, <2>9, <2>10 DEF RoundInv
<1>10. CASE MeterRest /\ pulse = 0
  <2>1. /\ phase = "STOP" /\ phase' = "IDLE" /\ pulse' = 1 /\ pulse = 0 /\ key1 = "up"
        /\ UNCHANGED <<ms, irq, measured, best, result>>
    BY <1>10 DEF MeterRest, Rest, Move
  <2>2. irq = 0 /\ timer = 0 /\ nesting = 0 /\ key0 = "up"
    BY <1>1, <2>1 DEF Presses, TypeOK
  <2>3. Matched'
    BY <1>1, <1>2, <1>3, <1>4, <1>5, <2>1, <2>2 DEF Matched, Together, TokensStay
  <2>4. Together'
    BY <1>1, <1>3, <1>4, <1>5, <2>1, <2>2 DEF Matched, Together, TokensStay
  <2>5. Patience'
    BY <1>1, <1>2, <1>3, <2>1 DEF Patience
  <2>6. Presses'
    BY <1>1, <1>2, <2>1, <2>2 DEF Presses
  <2>7. Scores'
    <3>1. Answered'
      BY <1>3, <1>4, <1>5, <2>1, <2>2, <2>3 DEF Matched, TokensStay
    <3> QED
      BY <1>1, <1>3, <2>1, <3>1 DEF Scores
  <2> QED
    BY <1>4, <2>3, <2>4, <2>5, <2>6, <2>7 DEF RoundInv
<1> QED
  BY <1>6, <1>7, <1>8, <1>9, <1>10 DEF Meter

\* The multiplications of the slices.
LEMMA Slices ==
  ASSUME NEW n \in Nat
  PROVE  /\ n * SLICE_TICKS \in Nat /\ 0 * SLICE_TICKS = 0
         /\ (n + 1) * SLICE_TICKS = n * SLICE_TICKS + SLICE_TICKS
BY Sizes

\* A millisecond.
LEMMA MillisecondRound ==
  ASSUME PatientInv, Millisecond
  PROVE  RoundInv'
<1> USE DEF Starts, Goes, Responses, Releases, Coming, Behind, BeforeGo, Counting,
            Scoring, Open, Answered, Announced, OneIf, KeyMoves
<1>1. /\ KernelInv /\ TypeOK /\ Matched /\ Together /\ Patience /\ Presses
      /\ Scores /\ Calls /\ LoopsStop
  BY DEF PatientInv, RoundInv, IInv
<1>2. /\ UNCHANGED <<irq, key0, key1, cnt, waiting, evt, stat, pendStat, dly, nesting,
                     pc, time, response_time, highscore, measured, best>>
      /\ timer = 0 /\ timer' = 1 /\ pulse = 0 /\ irq = 0 /\ nesting = 0 /\ ~KeyMoves
  BY <1>1 DEF Millisecond, Quiet, MeterMoves, keys, kernelVars, task, history,
              TypeOK, ProtocolTypeOK
<1>3. TokensStay /\ Calls'
  BY <1>1, <1>2, KernelStays
<1>4. /\ Tokens("start_sem") \in Nat /\ Tokens("start_counting_sem") \in Nat
      /\ Tokens("stop_sem") \in Nat /\ Tokens("restart_sem") \in Nat
      /\ ms \in Nat /\ time \in Nat /\ time * SLICE_TICKS \in Nat
      /\ SLICES * SLICE_TICKS \in Nat /\ SLICE_TICKS \in Nat /\ SLICES \in Nat
  BY <1>1, FourTokens, Slices, Sizes DEF TypeOK
<1>5. pc = "COUNT" /\ stat[ReactionTask] = "PEND" => dly[ReactionTask] \in 1..SLICE_TICKS
  BY <1>1 DEF Patience
<1>6. CASE phase' = phase /\ pulse' = pulse /\ result' = result /\ ms' \in {0, ms, ms + 1}
           /\ (phase = "COUNT" => ms' = ms + 1)
  <2>1. Matched' /\ Scores'
    BY <1>1, <1>2, <1>3, <1>6 DEF Matched, Scores, TokensStay
  <2>2. Together'
    BY <1>1, <1>2, <1>3, <1>4, <1>6 DEF Together, TokensStay
  <2>3. Patience'
    BY <1>1, <1>2, <1>4, <1>5, <1>6 DEF Patience
  <2>4. Presses'
    BY <1>1, <1>2, <1>6 DEF Presses, TypeOK
  <2> QED
    BY <1>3, <2>1, <2>2, <2>3, <2>4 DEF RoundInv
<1>7. CASE phase = "DELAY" /\ Go /\ ms' = 0 /\ key1 = "up"
  <2>1. /\ phase' = "COUNT" /\ pulse' = 1 /\ result' = result /\ phase = "DELAY"
        /\ ms' = 0
    BY <1>7 DEF Go, Move
  <2>2. Open /\ BeforeGo /\ ~Scoring /\ pc # "COUNT"
    BY <1>1, <2>1 DEF Together
  <2>3. Matched'
    BY <1>1, <1>2, <1>3, <1>4, <2>1, <2>2 DEF Matched, TokensStay
  <2>4. Together'
    BY <1>1, <1>2, <1>3, <1>4, <2>1, <2>2 DEF Together, TokensStay
  <2>5. Patience'
    BY <1>2, <2>2 DEF Patience
  <2>6. Presses'
    BY <1>1, <1>2, <1>7, <2>1 DEF Presses
  <2>7. Scores'
    BY <1>1, <1>2, <1>3, <2>1, <2>2 DEF Scores
  <2> QED
    BY <1>3, <2>3, <2>4, <2>5, <2>6, <2>7 DEF RoundInv
<1>8. CASE phase = "COUNT" /\ GiveUp
  <2>1. phase' = "IDLE" /\ pulse' = 0 /\ result' = result /\ phase = "COUNT"
    BY <1>8 DEF GiveUp, Move
  <2>2. ~Scoring
    BY <1>1, <2>1 DEF Together
  <2>3. Matched'
    BY <1>1, <1>2, <1>3, <1>4, <2>1, <2>2 DEF Matched, TokensStay
  <2>4. Together'
    BY <1>1, <1>2, <1>3, <1>4, <2>1, <2>2 DEF Together, TokensStay
  <2>5. Patience'
    BY <1>1, <1>2, <2>1 DEF Patience
  <2>6. Presses'
    BY <1>1, <1>2, <2>1 DEF Presses, TypeOK
  <2>7. Scores'
    BY <1>1, <1>2, <1>3, <1>4, <2>1, <2>2 DEF Scores, Matched, TokensStay
  <2> QED
    BY <1>3, <2>3, <2>4, <2>5, <2>6, <2>7 DEF RoundInv
<1> QED
  <2>1. CASE DelayPasses
    BY <2>1, <1>6, <1>7 DEF DelayPasses, protocolVars
  <2>2. CASE CountPasses
    BY <2>2, <1>6, <1>8 DEF CountPasses, protocolVars
  <2>3. CASE phase \notin {"DELAY", "COUNT"} /\ UNCHANGED meter
    BY <2>3, <1>6 DEF meter
  <2> QED
    BY <2>1, <2>2, <2>3 DEF Millisecond

\* The player moves a button.
LEMMA PlayerRound ==
  ASSUME PatientInv, PatientPlayers, Player
  PROVE  RoundInv'
<1> USE DEF Starts, Goes, Responses, Releases, Coming, Behind, BeforeGo, Counting,
            Scoring, Open, Answered, Announced, OneIf, KeyMoves
<1>1. /\ KernelInv /\ TypeOK /\ Matched /\ Together /\ Patience /\ Presses
      /\ Scores /\ Calls /\ LoopsStop
  BY DEF PatientInv, RoundInv, IInv
<1>2. /\ UNCHANGED <<phase, result, pulse, ms, irq, timer, cnt, waiting, evt, stat,
                     pendStat, dly, nesting, pc, time, response_time, highscore,
                     measured, best>>
      /\ timer = 0 /\ pulse = 0 /\ irq = 0 /\ nesting = 0 /\ ~KeyMoves
      /\ PressKey0 \/ PressKey1 \/ LiftKey0 \/ LiftKey1
  BY <1>1 DEF Player, Button, PatientPlayers, Quiet, MeterMoves, meter, lines, kernelVars,
              task, history, TypeOK, ProtocolTypeOK
<1>3. TokensStay /\ Calls'
  BY <1>1, <1>2, KernelStays
<1>4. /\ key0 \in {"up", "down"} /\ key1 \in {"up", "down"} /\ ms \in Nat
  BY <1>1 DEF TypeOK
<1>5. phase = "COUNT" /\ ~Open => key1' = "up"
  <2> SUFFICES ASSUME phase = "COUNT", ~Open PROVE key1' = "up"
    OBVIOUS
  <2>1. key1 = "up" /\ ms >= SLICES * SLICE_TICKS
    BY <1>1 DEF Together
  <2>2. SLICES * SLICE_TICKS \in Nat
    BY Sizes, Slices
  <2>3. ~PressKey1
    BY <1>4, <2>1, <2>2, QsysAssumption DEF PressKey1, PatientPlayers, QsysAssumption
  <2> QED
    BY <1>2, <2>1, <2>3 DEF PressKey0, LiftKey0, LiftKey1
<1>6. Matched' /\ Patience' /\ Scores'
  BY <1>1, <1>2, <1>3 DEF Matched, Patience, Scores, TokensStay
<1>7. Together'
  BY <1>1, <1>2, <1>3, <1>5 DEF Together, TokensStay
<1>8. Presses'
  <2>1. CASE PressKey0
    BY <1>1, <1>2, <1>4, <2>1 DEF Presses, PressKey0, PatientPlayers
  <2>2. CASE PressKey1
    BY <1>1, <1>2, <1>4, <2>2 DEF Presses, PressKey1, PatientPlayers
  <2>3. CASE LiftKey0
    BY <1>1, <1>2, <1>4, <2>3 DEF Presses, LiftKey0
  <2>4. CASE LiftKey1
    BY <1>1, <1>2, <1>4, <2>4 DEF Presses, LiftKey1
  <2> QED
    BY <1>2, <2>1, <2>2, <2>3, <2>4
<1> QED
  BY <1>3, <1>6, <1>7, <1>8 DEF RoundInv

\* Handlers are entered and left, and OS_Sched switches.
LEMMA SwitchRound ==
  ASSUME PatientInv, Interrupted \/ Resume \/ Switch
  PROVE  RoundInv'
<1> USE DEF Starts, Goes, Responses, Releases, Coming, Behind, BeforeGo, Counting,
            Scoring, Open, Answered, Announced, OneIf, KeyMoves
<1>1. Matched /\ Together /\ Patience /\ Presses /\ Scores /\ Calls /\ KernelInv
  BY DEF PatientInv, RoundInv, IInv
<1>2. /\ UNCHANGED <<phase, result, pulse, ms, irq, timer, key0, key1, cnt, waiting,
                     evt, stat, pendStat, dly, pc, time, response_time, highscore,
                     measured, best>>
      /\ nesting' = nesting \/ irq = 1 \/ timer = 1 \/ nesting' = 0
  BY <1>1 DEF Interrupted, Resume, Switch, Dispatch, IntEnter, IntExit, meter, lines,
              keys, task, history, KernelInv, KernelTypeOK
<1>3. TokensStay /\ Calls'
  BY <1>1, <1>2, KernelStays
<1>4. Matched' /\ Patience' /\ Scores' /\ Together'
  BY <1>1, <1>2, <1>3 DEF Matched, Patience, Scores, Together, TokensStay
<1>5. Presses'
  BY <1>1, <1>2 DEF Presses
<1> QED
  BY <1>3, <1>4, <1>5 DEF RoundInv

\* The tick.
LEMMA TickRound ==
  ASSUME PatientInv, TickIsr
  PROVE  RoundInv'
<1> USE DEF Starts, Goes, Responses, Releases, Coming, Behind, BeforeGo, Counting,
            Scoring, Open, Answered, Announced, OneIf, KeyMoves
<1>1. /\ Matched /\ Together /\ Patience /\ Presses /\ Scores /\ Calls /\ KernelInv
      /\ TypeOK
  BY DEF PatientInv, RoundInv, IInv
<1>2. /\ UNCHANGED <<phase, result, pulse, ms, irq, key0, key1, cnt, waiting, evt,
                     nesting, pc, time, response_time, highscore, measured, best>>
      /\ nesting > 0 /\ timer = 1 /\ timer' = 0 /\ TimeTick
  BY DEF TickIsr, TimeTick, schedVars, meter, keys, task, history
<1>3. TokensStay /\ Calls'
  BY <1>1, <1>2, Names, TickTokens DEF TokensStay, Calls
<1>4. Matched' /\ Scores' /\ Together'
  BY <1>1, <1>2, <1>3 DEF Matched, Scores, Together, TokensStay
<1>5. Presses'
  BY <1>1, <1>2 DEF Presses
<1>6. Patience'
  <2>1. /\ stat'[ReactionTask] = IF dly[ReactionTask] = 1 THEN "RDY" ELSE stat[ReactionTask]
        /\ pendStat'[ReactionTask] =
             IF dly[ReactionTask] # 1 THEN pendStat[ReactionTask]
             ELSE IF stat[ReactionTask] = "PEND" THEN "TO" ELSE "OK"
        /\ dly'[ReactionTask] = IF dly[ReactionTask] > 0 THEN dly[ReactionTask] - 1 ELSE 0
    BY <1>2, Names DEF TimeTick
  <2>2. /\ dly[ReactionTask] \in Nat /\ ms \in Nat /\ time * SLICE_TICKS \in Nat
        /\ SLICE_TICKS \in Nat
    BY <1>1, Names, Slices, Sizes DEF KernelInv, KernelTypeOK, TypeOK
  <2> QED
    BY <1>1, <1>2, <2>1, <2>2 DEF Patience
<1> QED
  BY <1>3, <1>4, <1>5, <1>6 DEF RoundInv

\* The handler posts the token of the state it reads: the one announced.
LEMMA MeterIsrRound ==
  ASSUME PatientInv, PatientPlayers, MeterIsr
  PROVE  RoundInv'
<1> USE DEF Starts, Goes, Responses, Releases, Coming, Behind, BeforeGo, Counting,
            Scoring, Open, Answered, Announced, OneIf, KeyMoves
<1>1. /\ Matched /\ Together /\ Patience /\ Presses /\ Scores /\ Calls /\ KernelInv
      /\ TypeOK
  BY DEF PatientInv, RoundInv, IInv
<1>2. /\ UNCHANGED <<phase, result, ms, timer, key0, key1, nesting, pc, time,
                     response_time, highscore, measured, best>>
      /\ nesting > 0 /\ timer = 0 /\ irq = 1 /\ irq' = 0 /\ pulse = 0 /\ pulse' = 0
      /\ StateRegister = phase
  BY DEF MeterIsr, BusIsFree, PatientPlayers, ReadRegister, StateRegister, schedVars,
         keys, task, history
<1>3. /\ Tokens("start_sem") \in Nat /\ Tokens("start_counting_sem") \in Nat
      /\ Tokens("stop_sem") \in Nat /\ Tokens("restart_sem") \in Nat
  BY <1>1, FourTokens
<1>4. phase \in {"IDLE", "START", "DELAY", "COUNT", "STOP"}
  BY <1>1 DEF TypeOK, ProtocolTypeOK, Phases
<1>5. /\ phase = "START" => Tokens("start_sem") = 0
      /\ phase = "COUNT" => Tokens("start_counting_sem") = 0
      /\ phase = "STOP" => Tokens("stop_sem") = 0
      /\ phase = "IDLE" => Tokens("restart_sem") = 0
  BY <1>1, <1>2, <1>3 DEF Matched
<1>6. CASE phase = "DELAY"
  <2>1. UNCHANGED <<cnt, waiting, evt, stat, pendStat, dly>>
    BY <1>2, <1>6 DEF MeterIsr, Posted
  <2>2. TokensStay /\ Calls'
    BY <1>1, <1>2, <2>1, KernelStays
  <2>3. Matched' /\ Scores' /\ Together' /\ Patience'
    BY <1>1, <1>2, <1>6, <2>1, <2>2 DEF Matched, Scores, Together, Patience, TokensStay
  <2>4. Presses'
    BY <1>1, <1>2, <1>6, <2>1 DEF Presses
  <2> QED
    BY <2>2, <2>3, <2>4 DEF RoundInv
<1>7. CASE phase # "DELAY"
  <2>1. PICK e \in Events :
        /\ Post(e) /\ Tokens(e) = 0
        /\ e = CASE phase = "START" -> "start_sem"
               [] phase = "COUNT" -> "start_counting_sem"
               [] phase = "STOP" -> "stop_sem"
               [] phase = "IDLE" -> "restart_sem"
    <3>1. Posted[phase] \in Events /\ Post(Posted[phase])
      BY <1>2, <1>4, <1>7, Names DEF MeterIsr, Posted
    <3> QED
      BY <1>4, <1>5, <1>7, <3>1 DEF Posted
  <2>2. /\ Tokens(e)' = 1
        /\ \A f \in Events \ {e} : Tokens(f)' = Tokens(f) /\ cnt'[f] = cnt[f]
        /\ evt' = evt
        /\ waiting[e] # {} => cnt'[e] = 0
        /\ stat'[ReactionTask] = "PEND" =>
             stat[ReactionTask] = "PEND" /\ dly'[ReactionTask] = dly[ReactionTask]
    BY <1>1, <2>1, PostTokens
  <2>3. /\ Tokens("start_sem")' = Tokens("start_sem") + OneIf(phase = "START")
        /\ Tokens("start_counting_sem")' =
             Tokens("start_counting_sem") + OneIf(phase = "COUNT")
        /\ Tokens("stop_sem")' = Tokens("stop_sem") + OneIf(phase = "STOP")
        /\ Tokens("restart_sem")' = Tokens("restart_sem") + OneIf(phase = "IDLE")
    <3>1. \A f \in Events : Tokens(f)' = IF f = e THEN 1 ELSE Tokens(f)
      BY <2>2
    <3>2. /\ Tokens("start_sem")' = IF e = "start_sem" THEN 1 ELSE Tokens("start_sem")
          /\ Tokens("start_counting_sem")' =
               IF e = "start_counting_sem" THEN 1 ELSE Tokens("start_counting_sem")
          /\ Tokens("stop_sem")' = IF e = "stop_sem" THEN 1 ELSE Tokens("stop_sem")
          /\ Tokens("restart_sem")' =
               IF e = "restart_sem" THEN 1 ELSE Tokens("restart_sem")
      BY <3>1, Names
    <3> QED
      BY <1>3, <1>4, <1>5, <1>7, <2>1, <3>2
  <2>4. cnt'["start_sem"] = 0
    <3>1. CASE phase = "START"
      BY <1>1, <1>2, <2>1, <2>2, <3>1 DEF Presses
    <3>2. CASE phase # "START"
      BY <1>1, <1>4, <1>7, <2>1, <2>2, <3>2, Names DEF Matched
    <3> QED
      BY <3>1, <3>2
  <2>5. Matched' /\ Together'
    BY <1>1, <1>2, <1>3, <1>4, <1>7, <2>3, <2>4 DEF Matched, Together
  <2>6. Scores'
    BY <1>1, <1>2, <1>3, <1>4, <1>7, <2>3 DEF Scores
  <2>7. pc = "COUNT" => phase # "COUNT"
    BY <1>1, <1>2, <1>3 DEF Matched
  <2>8. Patience'
    BY <1>1, <1>2, <2>2, <2>7 DEF Patience
  <2>9. Presses'
    BY <1>1, <1>2 DEF Presses
  <2>10. Calls'
    BY <1>1, <1>2, <2>2 DEF Calls
  <2> QED
    BY <2>5, <2>6, <2>8, <2>9, <2>10 DEF RoundInv
<1> QED
  BY <1>6, <1>7

\* The console task posts names: nobody's token.
LEMMA ConsoleRound ==
  ASSUME PatientInv, Console
  PROVE  RoundInv'
<1> USE DEF Starts, Goes, Responses, Releases, Coming, Behind, BeforeGo, Counting,
            Scoring, Open, Answered, Announced, OneIf, KeyMoves
<1>1. /\ Matched /\ Together /\ Patience /\ Presses /\ Scores /\ Calls /\ KernelInv
      /\ TypeOK
  BY DEF PatientInv, RoundInv, IInv
<1>2. /\ UNCHANGED <<phase, result, pulse, ms, irq, timer, key0, key1, nesting, pc, time,
                     response_time, highscore, measured, best>>
      /\ Post("player_queue")
  BY DEF Console, schedVars, meter, lines, keys, task, history
<1>3. /\ evt' = evt /\ waiting'["start_sem"] = waiting["start_sem"]
      /\ \A f \in Events \ {"player_queue"} :
           cnt'[f] = cnt[f] /\ (Handed(f)' <=> Handed(f))
      /\ stat'[ReactionTask] = "PEND" =>
           stat[ReactionTask] = "PEND" /\ dly'[ReactionTask] = dly[ReactionTask]
      /\ pendStat'[ReactionTask] = "TO" => pendStat[ReactionTask] = "TO"
  <2>1. CASE PostHands("player_queue")
    <3>1. PICK t \in waiting["player_queue"] :
            /\ stat' = [stat EXCEPT ![t] = "RDY"]
            /\ pendStat' = [pendStat EXCEPT ![t] = "OK"]
            /\ waiting' = [waiting EXCEPT !["player_queue"] = @ \ {t}]
            /\ UNCHANGED <<cnt, evt>>
      BY <2>1 DEF PostHands, EventTaskRdy
    <3>2. t = ReactionTask /\ evt[t] = "player_queue" /\ t \in Tasks
      BY <1>1, OnlyTasks, Names, UcosAssumption
      DEF UcosAssumption, KernelInv, KernelTypeOK, WaitListExact, FieldsAgree, Calls
    <3>3. stat'[ReactionTask] = "RDY" /\ pendStat'[ReactionTask] = "OK"
      BY <1>1, <3>1, <3>2 DEF KernelInv, KernelTypeOK
    <3>4. waiting'["start_sem"] = waiting["start_sem"]
      BY <1>1, <3>1, Names DEF KernelInv, KernelTypeOK
    <3>5. \A f \in Events \ {"player_queue"} : ~Handed(f) /\ ~Handed(f)'
      BY <3>1, <3>2 DEF Handed
    <3> QED
      BY <3>1, <3>3, <3>4, <3>5
  <2>2. CASE PostCounts("player_queue")
    BY <1>1, <2>2, Names DEF PostCounts, Handed, KernelInv, KernelTypeOK
  <2>3. CASE PostOverflows("player_queue")
    BY <1>1, <2>3, Names DEF PostOverflows, Handed
  <2> QED
    BY <1>2, <2>1, <2>2, <2>3 DEF Post
<1>4. TokensStay /\ cnt'["start_sem"] = cnt["start_sem"]
  BY <1>3, Names DEF TokensStay, Tokens
<1>5. Matched' /\ Scores' /\ Together'
  BY <1>1, <1>2, <1>4 DEF Matched, Scores, Together, TokensStay
<1>6. Patience'
  BY <1>1, <1>2, <1>3 DEF Patience
<1>7. Presses' /\ Calls'
  BY <1>1, <1>2, <1>3 DEF Presses, Calls
<1> QED
  BY <1>5, <1>6, <1>7 DEF RoundInv

\* What is around the task when it takes a step.
LEMMA TaskUndisturbed ==
  ASSUME PatientInv, PatientPlayers, ReactionMeterTask
  PROVE  /\ pulse = 0 /\ irq = 0 /\ timer = 0 /\ nesting = 0
         /\ UNCHANGED <<phase, result, pulse, ms, irq, timer, key0, key1, nesting,
                        measured, best>>
         /\ evt[ConsoleTask] = NoEvent /\ stat[ReactionTask] = "RDY"
<1> USE DEF At, Runs, Keep, schedVars, meter, lines, keys, history, task,
            Waits, Gets, TimesOut, kernelVars
<1>1. Runs(ReactionTask) /\ Undisturbed
  BY DEF ReactionMeterTask, Idle, Register, Ready, Start, Count, ReadResult, Stop, Show
<1>2. pulse = 0 /\ irq = 0 /\ timer = 0 /\ nesting = 0
  BY <1>1 DEF Undisturbed, PatientPlayers
<1>3. UNCHANGED <<phase, result, pulse, ms, irq, timer, key0, key1, nesting, measured, best>>
  <2>1. CASE Idle
    BY <2>1 DEF Idle
  <2>2. CASE Register
    BY <2>2 DEF Register
  <2>3. CASE Ready
    BY <2>3 DEF Ready
  <2>4. CASE Start
    BY <2>4 DEF Start
  <2>5. CASE Count
    BY <2>5 DEF Count
  <2>6. CASE ReadResult
    BY <1>2, <2>6 DEF ReadResult, ReadRegister
  <2>7. CASE Stop
    BY <2>7 DEF Stop
  <2>8. CASE Show
    BY <2>8 DEF Show
  <2> QED
    BY <2>1, <2>2, <2>3, <2>4, <2>5, <2>6, <2>7, <2>8 DEF ReactionMeterTask
<1>4. stat[ReactionTask] = "RDY"
  BY <1>1, Names, RunningIsReady DEF PatientInv, IInv
<1> QED
  BY <1>2, <1>3, <1>4 DEF PatientInv, RoundInv, Calls

\* A call that returns, with the event or without.
LEMMA PendEnds ==
  ASSUME KernelInv, Calls, NEW label \in DOMAIN CallOf, CallOf[label] \in Events,
         Gets(label, CallOf[label]) \/ TimesOut(label)
  PROVE  /\ stat'[ReactionTask] = "RDY" /\ pendStat'[ReactionTask] = "OK"
         /\ \A f \in Events \ {CallOf[label]} :
              cnt'[f] = cnt[f] /\ waiting'[f] = waiting[f]
         /\ Gets(label, CallOf[label]) => waiting' = waiting
<1>1. /\ cur = ReactionTask /\ cur \in Tasks /\ Runs(cur) /\ pc = label
      /\ NoEvent \notin Events
  BY Names, UcosAssumption DEF UcosAssumption, Gets, TimesOut, At, Runs
<1>2. stat[ReactionTask] = "RDY"
  BY <1>1, RunningIsReady
<1>3. CASE Gets(label, CallOf[label]) /\ ~InCall /\ PendTakes(CallOf[label])
  BY <1>1, <1>2, <1>3 DEF PendTakes, InCall, KernelInv, KernelTypeOK, FieldsAgree
<1>4. CASE InCall /\ PendReturns
  <2>1. evt[cur] = CallOf[label]
    BY <1>1, <1>4 DEF InCall, Calls
  <2>2. CASE pendStat[cur] = "TO"
    <3>1. ~Gets(label, CallOf[label])
      BY <1>1, <1>4, <2>2 DEF Gets
    <3> QED
      BY <1>1, <1>4, <2>1, <2>2, <3>1 DEF PendReturns, KernelInv, KernelTypeOK
  <2>3. CASE pendStat[cur] # "TO"
    BY <1>1, <1>4, <2>1, <2>3 DEF PendReturns, KernelInv, KernelTypeOK
  <2> QED
    BY <2>2, <2>3
<1> QED
  BY <1>3, <1>4 DEF Gets, TimesOut

\* A call that waits leaves the round where it is.
LEMMA WaitsRound ==
  ASSUME PatientInv, PatientPlayers, ReactionMeterTask, NEW timeout,
         NEW label \in DOMAIN CallOf, CallOf[label] \in Events,
         Waits(label, CallOf[label], timeout), label = "COUNT" => timeout = SLICE_TICKS
  PROVE  RoundInv'
<1> USE DEF Starts, Goes, Responses, Releases, Coming, Behind, BeforeGo, Counting,
            Scoring, Open, Answered, Announced, OneIf, KeyMoves
<1>1. /\ Matched /\ Together /\ Patience /\ Presses /\ Scores /\ Calls /\ KernelInv
      /\ TypeOK
  BY DEF PatientInv, RoundInv, IInv
<1>2. /\ pulse = 0 /\ irq = 0 /\ timer = 0 /\ nesting = 0
      /\ UNCHANGED <<phase, result, pulse, ms, irq, timer, key0, key1, nesting,
                     measured, best>>
      /\ evt[ConsoleTask] = NoEvent /\ stat[ReactionTask] = "RDY"
  BY TaskUndisturbed
<1>3. /\ cur = ReactionTask /\ pc = label /\ cnt' = cnt
      /\ UNCHANGED <<pc, time, response_time, highscore>>
      /\ evt' = [evt EXCEPT ![ReactionTask] = CallOf[label]]
      /\ stat' = [stat EXCEPT ![ReactionTask] = "PEND"]
      /\ pendStat' = [pendStat EXCEPT ![ReactionTask] = "OK"]
      /\ dly' = [dly EXCEPT ![ReactionTask] = timeout]
      /\ waiting' = [waiting EXCEPT ![CallOf[label]] = @ \cup {ReactionTask}]
  BY DEF Waits, At, Runs, PendBlocks, EventTaskWait, task
<1>4. \A f \in Events : Tokens(f)' = Tokens(f)
  BY <1>1, WaitsTokens
<1>5. TokensStay
  BY <1>4, Names DEF TokensStay
<1>6. ReactionTask \in waiting["start_sem"] => ReactionTask \in waiting'["start_sem"]
  BY <1>1, <1>3, Names DEF KernelInv, KernelTypeOK
<1>7. Matched' /\ Together' /\ Scores'
  BY <1>1, <1>2, <1>3, <1>5 DEF Matched, Together, Scores, TokensStay
<1>8. Patience'
  <2>1. /\ SLICE_TICKS \in Nat \ {0} /\ ms \in Nat /\ time * SLICE_TICKS \in Nat
    BY <1>1, Slices, QsysAssumption DEF TypeOK, QsysAssumption
  <2>2. /\ stat'[ReactionTask] = "PEND" /\ dly'[ReactionTask] = timeout
        /\ pendStat'[ReactionTask] = "OK"
    BY <1>1, <1>3, Names DEF KernelInv, KernelTypeOK
  <2> QED
    BY <1>1, <1>2, <1>3, <2>1, <2>2 DEF Patience
<1>9. Presses'
  BY <1>1, <1>2, <1>6 DEF Presses
<1>10. Calls'
  BY <1>1, <1>3, Names, OnlyTasks DEF Calls, KernelInv, KernelTypeOK
<1> QED
  BY <1>7, <1>8, <1>9, <1>10 DEF RoundInv

\* What a call that returns has done.
Consumed(e) ==
  /\ Tokens(e) >= 1 /\ Tokens(e)' = Tokens(e) - 1
  /\ evt'[ReactionTask] = NoEvent
  /\ stat'[ReactionTask] = "RDY" /\ pendStat'[ReactionTask] = "OK"
  /\ waiting' = waiting

LEMMA GetsRound ==
  ASSUME PatientInv, NEW label \in DOMAIN CallOf, Gets(label, CallOf[label]),
         CallOf[label] \in Events
  PROVE  /\ Consumed(CallOf[label])
         /\ \A f \in Events \ {CallOf[label]} : Tokens(f)' = Tokens(f)
         /\ cnt'["start_sem"] = 0 /\ evt'[ConsoleTask] = evt[ConsoleTask] /\ pc = label
<1>1. KernelInv /\ Calls /\ cnt["start_sem"] = 0 /\ pc = label
  BY DEF PatientInv, RoundInv, IInv, Matched, Gets, At
<1>2. /\ Tokens(CallOf[label]) >= 1 /\ Tokens(CallOf[label])' = Tokens(CallOf[label]) - 1
      /\ \A f \in Events \ {CallOf[label]} : Tokens(f)' = Tokens(f)
      /\ evt' = [evt EXCEPT ![ReactionTask] = NoEvent]
      /\ cnt[CallOf[label]] = 0 => cnt'[CallOf[label]] = 0
  BY <1>1, GetsTokens
<1>3. /\ stat'[ReactionTask] = "RDY" /\ pendStat'[ReactionTask] = "OK"
      /\ \A f \in Events \ {CallOf[label]} : cnt'[f] = cnt[f]
      /\ waiting' = waiting
  BY <1>1, PendEnds
<1>4. cnt'["start_sem"] = 0
  BY <1>1, <1>2, <1>3, Names
<1>5. evt'[ReactionTask] = NoEvent /\ evt'[ConsoleTask] = evt[ConsoleTask]
  BY <1>1, <1>2, OnlyTasks DEF KernelInv, KernelTypeOK
<1> QED
  BY <1>1, <1>2, <1>3, <1>4, <1>5 DEF Consumed

\* The task asks for a name and for a new turn.
LEMMA TurnRound ==
  ASSUME PatientInv, PatientPlayers, ReactionMeterTask, Idle \/ Register \/ Ready
  PROVE  RoundInv'
<1> USE DEF Starts, Goes, Responses, Releases, Coming, Behind, BeforeGo, Counting,
            Scoring, Open, Answered, Announced, OneIf, KeyMoves
<1>1. /\ Matched /\ Together /\ Patience /\ Presses /\ Scores /\ Calls /\ KernelInv
      /\ TypeOK
  BY DEF PatientInv, RoundInv, IInv
<1>2. /\ pulse = 0 /\ irq = 0 /\ timer = 0 /\ nesting = 0
      /\ UNCHANGED <<phase, result, pulse, ms, irq, timer, key0, key1, nesting,
                     measured, best>>
      /\ evt[ConsoleTask] = NoEvent
  BY TaskUndisturbed
<1>3. CASE Idle
  <2>1. /\ UNCHANGED <<cnt, waiting, evt, stat, pendStat, dly, time, response_time,
                       highscore>>
        /\ pc = "IDLE" /\ pc' \in {"register", "ready"} /\ InCall' = InCall
    BY <1>3 DEF Idle, At, Goto, kernelVars, InCall
  <2>2. TokensStay /\ Calls'
    BY <1>1, <2>1, SameTokens DEF TokensStay, Calls, CallOf
  <2>3. Matched' /\ Together' /\ Scores'
    BY <1>1, <1>2, <2>1, <2>2 DEF Matched, Together, Scores, TokensStay
  <2>4. Patience' /\ Presses'
    BY <1>1, <1>2, <2>1 DEF Patience, Presses
  <2> QED
    BY <2>2, <2>3, <2>4 DEF RoundInv
<1>4. CASE Gets("register", "player_queue") /\ Goto("ready")
           /\ UNCHANGED <<time, response_time, highscore>>
  <2>1. /\ Consumed("player_queue") /\ pc = "register" /\ cnt'["start_sem"] = 0
        /\ \A f \in Events \ {"player_queue"} : Tokens(f)' = Tokens(f)
        /\ evt'[ConsoleTask] = evt[ConsoleTask]
    BY <1>4, Names, GetsRound DEF CallOf
  <2>2. TokensStay
    BY <2>1, Names DEF TokensStay
  <2>3. pc' = "ready"
    BY <1>4 DEF Goto
  <2>4. Matched' /\ Together' /\ Scores'
    BY <1>1, <1>2, <1>4, <2>1, <2>2, <2>3 DEF Matched, Together, Scores, TokensStay
  <2>5. Patience' /\ Presses' /\ Calls'
    BY <1>1, <1>2, <2>1, <2>3 DEF Patience, Presses, Calls, Consumed
  <2> QED
    BY <2>4, <2>5 DEF RoundInv
<1>5. CASE Gets("ready", "start_sem") /\ Goto("START")
           /\ UNCHANGED <<time, response_time, highscore>>
  <2>1. /\ Consumed("start_sem") /\ pc = "ready" /\ cnt'["start_sem"] = 0
        /\ \A f \in Events \ {"start_sem"} : Tokens(f)' = Tokens(f)
        /\ evt'[ConsoleTask] = evt[ConsoleTask]
    BY <1>5, Names, GetsRound DEF CallOf
  <2>2. /\ Tokens("start_counting_sem")' = Tokens("start_counting_sem")
        /\ Tokens("stop_sem")' = Tokens("stop_sem")
        /\ Tokens("restart_sem")' = Tokens("restart_sem")
        /\ Tokens("start_sem") = 1 /\ Tokens("start_sem")' = 0
    <3>1. Tokens("start_sem") \in {0, 1} /\ Tokens("start_sem") >= 1
      BY <1>1, <1>2, <2>1, FourTokens DEF Consumed, Matched
    <3> QED
      BY <2>1, <3>1, Names DEF Consumed
  <2>3. pc' = "START"
    BY <1>5 DEF Goto
  <2>4. Matched' /\ Together' /\ Scores'
    BY <1>1, <1>2, <1>5, <2>1, <2>2, <2>3 DEF Matched, Together, Scores
  <2>5. Patience' /\ Presses' /\ Calls'
    BY <1>1, <1>2, <2>1, <2>3 DEF Patience, Presses, Calls, Consumed
  <2> QED
    BY <2>4, <2>5 DEF RoundInv
<1>6. CASE Waits("register", "player_queue", 0) \/ Waits("ready", "start_sem", 0)
  BY <1>6, Names, WaitsRound DEF CallOf
<1> QED
  BY <1>3, <1>4, <1>5, <1>6 DEF Register, Ready

\* The task follows the meter from the signal to the response or to the end
\* of its patience.
LEMMA CountRound ==
  ASSUME PatientInv, PatientPlayers, ReactionMeterTask, Start \/ Count
  PROVE  RoundInv'
<1> USE DEF Starts, Goes, Responses, Releases, Coming, Behind, BeforeGo, Counting,
            Scoring, Open, Answered, Announced, OneIf, KeyMoves
<1>1. /\ Matched /\ Together /\ Patience /\ Presses /\ Scores /\ Calls /\ KernelInv
      /\ TypeOK /\ LoopsStop
  BY DEF PatientInv, RoundInv, IInv
<1>2. /\ pulse = 0 /\ irq = 0 /\ timer = 0 /\ nesting = 0
      /\ UNCHANGED <<phase, result, pulse, ms, irq, timer, key0, key1, nesting,
                     measured, best>>
      /\ evt[ConsoleTask] = NoEvent
  BY TaskUndisturbed
<1>3. /\ ms \in Nat /\ time \in Nat /\ time * SLICE_TICKS \in Nat
      /\ 0 * SLICE_TICKS = 0 /\ SLICE_TICKS \in Nat /\ SLICES \in Nat
      /\ (time + 1) * SLICE_TICKS = time * SLICE_TICKS + SLICE_TICKS
  BY <1>1, Slices, Sizes DEF TypeOK
<1>4. CASE Gets("START", "start_counting_sem") /\ time' = 0 /\ Goto("COUNT")
           /\ UNCHANGED <<response_time, highscore>>
  <2>1. /\ Consumed("start_counting_sem") /\ pc = "START" /\ cnt'["start_sem"] = 0
        /\ \A f \in Events \ {"start_counting_sem"} : Tokens(f)' = Tokens(f)
        /\ evt'[ConsoleTask] = evt[ConsoleTask]
    BY <1>4, Names, GetsRound DEF CallOf
  <2>2. /\ Tokens("start_sem")' = Tokens("start_sem") /\ Tokens("stop_sem")' = Tokens("stop_sem")
        /\ Tokens("restart_sem")' = Tokens("restart_sem")
        /\ Tokens("start_counting_sem") = 1 /\ Tokens("start_counting_sem")' = 0
        /\ phase \notin {"START", "DELAY"}
    BY <1>1, <1>2, <2>1, Names, FourTokens DEF Consumed, Matched
  <2>3. pc' = "COUNT"
    BY <1>4 DEF Goto
  <2>4. phase \in {"COUNT", "STOP", "IDLE"}
    BY <1>1, <2>2 DEF TypeOK, ProtocolTypeOK, Phases
  <2>5. Matched' /\ Together' /\ Scores'
    BY <1>1, <1>2, <1>4, <2>1, <2>2, <2>3, <2>4 DEF Matched, Together, Scores
  <2>6. Patience'
    BY <1>2, <1>3, <1>4, <2>1 DEF Patience, Consumed
  <2>7. Presses' /\ Calls'
    BY <1>1, <1>2, <2>1, <2>3 DEF Presses, Calls, Consumed
  <2> QED
    BY <2>5, <2>6, <2>7 DEF RoundInv
<1>5. CASE Gets("COUNT", "stop_sem") /\ Goto("read")
           /\ UNCHANGED <<time, response_time, highscore>>
  <2>1. /\ Consumed("stop_sem") /\ pc = "COUNT" /\ cnt'["start_sem"] = 0
        /\ \A f \in Events \ {"stop_sem"} : Tokens(f)' = Tokens(f)
        /\ evt'[ConsoleTask] = evt[ConsoleTask]
    BY <1>5, Names, GetsRound DEF CallOf
  <2>2. /\ Tokens("start_sem")' = Tokens("start_sem")
        /\ Tokens("start_counting_sem")' = Tokens("start_counting_sem")
        /\ Tokens("restart_sem")' = Tokens("restart_sem")
        /\ Tokens("stop_sem") = 1 /\ Tokens("stop_sem")' = 0 /\ Answered
    BY <1>1, <1>2, <2>1, Names, FourTokens DEF Consumed, Matched
  <2>3. pc' = "read"
    BY <1>5 DEF Goto
  <2>4. Matched' /\ Together' /\ Scores'
    BY <1>1, <1>2, <1>5, <2>1, <2>2, <2>3 DEF Matched, Together, Scores
  <2>5. Patience' /\ Presses' /\ Calls'
    BY <1>1, <1>2, <2>1, <2>3 DEF Patience, Presses, Calls, Consumed
  <2> QED
    BY <2>4, <2>5 DEF RoundInv
<1>6. CASE TimesOut("COUNT") /\ time' = time + 1
           /\ Goto(IF time + 1 < SLICES THEN "COUNT" ELSE "IDLE")
           /\ UNCHANGED <<response_time, highscore>>
  <2>1. /\ Tokens("stop_sem") = 0 /\ \A f \in Events : Tokens(f)' = Tokens(f)
        /\ evt' = [evt EXCEPT ![ReactionTask] = NoEvent]
    BY <1>1, <1>6, Names, TimesOutTokens DEF CallOf
  <2>2. /\ stat'[ReactionTask] = "RDY" /\ pendStat'[ReactionTask] = "OK"
        /\ cnt'["start_sem"] = 0 /\ waiting'["start_sem"] = waiting["start_sem"]
    BY <1>1, <1>6, Names, PendEnds DEF CallOf, Matched
  <2>3. TokensStay
    BY <2>1, Names DEF TokensStay
  <2>4. pc = "COUNT" /\ pendStat[ReactionTask] = "TO"
    BY <1>6 DEF TimesOut, At
  <2>5. ~Answered /\ Releases = 0
    BY <1>1, <1>2, <2>1, <2>4 DEF Matched
  <2>6. phase = "IDLE" \/ (phase = "COUNT" /\ ms >= (time + 1) * SLICE_TICKS)
    <3>1. phase \in {"COUNT", "IDLE"}
      BY <1>1, <2>4, <2>5 DEF Together
    <3>2. phase = "COUNT" => ms >= time * SLICE_TICKS + SLICE_TICKS
      BY <1>1, <2>4 DEF Patience
    <3>3. (time + 1) * SLICE_TICKS = time * SLICE_TICKS + SLICE_TICKS
      BY <1>3
    <3> QED
      BY <3>1, <3>2, <3>3, Zenon
  <2>7. pc' = IF time + 1 < SLICES THEN "COUNT" ELSE "IDLE"
    BY <1>6 DEF Goto
  <2>8. time + 1 >= SLICES => time + 1 = SLICES
    BY <1>1, <1>3, <2>4 DEF LoopsStop
  <2>9. phase = "COUNT" /\ time + 1 = SLICES => key1 = "up"
    <3> SUFFICES ASSUME phase = "COUNT", time + 1 = SLICES, key1 = "down" PROVE FALSE
      BY <1>1 DEF TypeOK
    <3>1. ms \in Reactions /\ ms >= SLICES * SLICE_TICKS
      BY <1>1, <2>6 DEF Presses
    <3>2. ms < SLICES * SLICE_TICKS /\ SLICES * SLICE_TICKS \in Nat
      BY <1>3, <3>1, Slices DEF PatientPlayers
    <3> QED
      BY <1>3, <3>1, <3>2
  <2>10. Matched' /\ Scores'
    BY <1>1, <1>2, <1>6, <2>2, <2>3, <2>4, <2>5, <2>7 DEF Matched, Scores, TokensStay
  <2>11. Together'
    BY <1>1, <1>2, <1>3, <2>3, <2>4, <2>6, <2>7, <2>8, <2>9 DEF Together, TokensStay
  <2>12. Patience'
    BY <1>2, <1>3, <1>6, <2>2, <2>6 DEF Patience
  <2>13. Presses' /\ Calls'
    BY <1>1, <1>2, <2>1, <2>2, Names, OnlyTasks DEF Presses, Calls, KernelInv, KernelTypeOK
  <2> QED
    BY <2>10, <2>11, <2>12, <2>13 DEF RoundInv
<1>7. CASE \/ Waits("START", "start_counting_sem", 0)
           \/ Waits("COUNT", "stop_sem", SLICE_TICKS)
  BY <1>7, Names, WaitsRound DEF CallOf
<1> QED
  BY <1>4, <1>5, <1>6, <1>7 DEF Start, Count

\* The score: read, kept, and shown until the release.
LEMMA ScoreRound ==
  ASSUME PatientInv, PatientPlayers, ReactionMeterTask, ReadResult \/ Stop \/ Show
  PROVE  RoundInv'
<1> USE DEF Starts, Goes, Responses, Releases, Coming, Behind, BeforeGo, Counting,
            Scoring, Open, Answered, Announced, OneIf, KeyMoves
<1>1. /\ Matched /\ Together /\ Patience /\ Presses /\ Scores /\ Calls /\ KernelInv
      /\ TypeOK
  BY DEF PatientInv, RoundInv, IInv
<1>2. /\ pulse = 0 /\ irq = 0 /\ timer = 0 /\ nesting = 0
      /\ UNCHANGED <<phase, result, pulse, ms, irq, timer, key0, key1, nesting,
                     measured, best>>
      /\ evt[ConsoleTask] = NoEvent
  BY TaskUndisturbed
<1>3. CASE ReadResult \/ Stop
  <2>1. /\ UNCHANGED <<cnt, waiting, evt, stat, pendStat, dly, time>>
        /\ pc \in {"read", "STOP"} /\ InCall' = InCall
        /\ Scoring /\ Answered
    BY <1>1, <1>3 DEF ReadResult, Stop, At, kernelVars, InCall, Together
  <2>2. /\ pc' = IF pc = "read" THEN "STOP" ELSE "show"
        /\ response_time' = measured
    <3>1. result = measured /\ measured >= MIN_RESP
      BY <1>1, <2>1 DEF Scores
    <3>2. CASE ReadResult
      BY <3>1, <3>2 DEF ReadResult, At, Goto
    <3>3. CASE Stop
      BY <1>1, <3>3 DEF Stop, At, Goto, Scores
    <3> QED
      BY <1>3, <3>2, <3>3
  <2>3. TokensStay /\ Calls'
    BY <1>1, <2>1, SameTokens DEF TokensStay, Calls, CallOf
  <2>4. Matched' /\ Together' /\ Scores'
    BY <1>1, <1>2, <2>1, <2>2, <2>3 DEF Matched, Together, Scores, TokensStay
  <2>5. Patience' /\ Presses'
    BY <1>1, <1>2, <2>1, <2>2 DEF Patience, Presses
  <2> QED
    BY <2>3, <2>4, <2>5 DEF RoundInv
<1>4. CASE Gets("show", "restart_sem") /\ Goto("IDLE")
           /\ UNCHANGED <<time, response_time, highscore>>
  <2>1. /\ Consumed("restart_sem") /\ pc = "show" /\ cnt'["start_sem"] = 0
        /\ \A f \in Events \ {"restart_sem"} : Tokens(f)' = Tokens(f)
        /\ evt'[ConsoleTask] = evt[ConsoleTask]
    BY <1>4, Names, GetsRound DEF CallOf
  <2>2. /\ Tokens("start_sem")' = Tokens("start_sem") /\ Tokens("stop_sem")' = Tokens("stop_sem")
        /\ Tokens("start_counting_sem")' = Tokens("start_counting_sem")
        /\ Tokens("restart_sem") = 1 /\ Tokens("restart_sem")' = 0
        /\ phase = "IDLE"
    BY <1>1, <1>2, <2>1, Names, FourTokens DEF Consumed, Matched
  <2>3. pc' = "IDLE"
    BY <1>4 DEF Goto
  <2>4. Matched' /\ Together' /\ Scores'
    BY <1>1, <1>2, <1>4, <2>1, <2>2, <2>3 DEF Matched, Together, Scores
  <2>5. Patience' /\ Presses' /\ Calls'
    BY <1>1, <1>2, <2>1, <2>3 DEF Patience, Presses, Calls, Consumed
  <2> QED
    BY <2>4, <2>5 DEF RoundInv
<1>5. CASE TimesOut("show") /\ UNCHANGED <<task, history>>
  <2>1. /\ \A f \in Events : Tokens(f)' = Tokens(f)
        /\ evt' = [evt EXCEPT ![ReactionTask] = NoEvent]
    BY <1>1, <1>5, Names, TimesOutTokens DEF CallOf
  <2>2. /\ stat'[ReactionTask] = "RDY" /\ pendStat'[ReactionTask] = "OK"
        /\ cnt'["start_sem"] = 0 /\ waiting'["start_sem"] = waiting["start_sem"]
    BY <1>1, <1>5, Names, PendEnds DEF CallOf, Matched
  <2>3. TokensStay
    BY <2>1, Names DEF TokensStay
  <2>4. pc = "show" /\ UNCHANGED <<pc, time, response_time, highscore>>
    BY <1>5 DEF TimesOut, At, task
  <2>5. Matched' /\ Scores' /\ Together'
    BY <1>1, <1>2, <2>2, <2>3, <2>4 DEF Matched, Scores, Together, TokensStay
  <2>6. Patience' /\ Presses' /\ Calls'
    BY <1>1, <1>2, <2>1, <2>2, <2>4, Names, OnlyTasks
    DEF Patience, Presses, Calls, KernelInv, KernelTypeOK
  <2> QED
    BY <2>5, <2>6 DEF RoundInv
<1>6. CASE Waits("show", "restart_sem", SLICE_TICKS)
  BY <1>6, Names, WaitsRound DEF CallOf
<1> QED
  BY <1>3, <1>4, <1>5, <1>6 DEF Show

\* Before the first round.
LEMMA InitRound == Init => RoundInv
<1> SUFFICES ASSUME Init PROVE RoundInv
  OBVIOUS
<1> USE DEF Starts, Goes, Responses, Releases, Coming, Behind, BeforeGo, Counting,
            Scoring, Open, Answered, Announced, OneIf, KeyMoves
<1>1. /\ phase = "IDLE" /\ pulse = 0 /\ irq = 0 /\ timer = 0 /\ nesting = 0
      /\ key0 = "up" /\ key1 = "up" /\ pc = "IDLE"
      /\ highscore = UINT16_MAX /\ best = UINT16_MAX /\ measured = UNMEASURED
  BY DEF Init, ProtocolInit, KernelInit
<1>2. /\ \A e \in Events : cnt[e] = 0 /\ ~Handed(e)
      /\ evt[ReactionTask] = NoEvent /\ evt[ConsoleTask] = NoEvent
  BY Names, UcosAssumption DEF UcosAssumption, Init, KernelInit, Handed
<1>3. /\ Tokens("start_sem") = 0 /\ Tokens("start_counting_sem") = 0
      /\ Tokens("stop_sem") = 0 /\ Tokens("restart_sem") = 0
      /\ cnt["start_sem"] = 0
  BY <1>2, Names DEF Tokens
<1>4. Matched /\ Together
  BY <1>1, <1>3 DEF Matched, Together
<1>5. Patience /\ Presses /\ Calls
  BY <1>1, <1>2 DEF Patience, Presses, Calls
<1>6. Scores
  BY <1>1, <1>3 DEF Scores, UINT16_MAX, UNMEASURED
<1> QED
  BY <1>4, <1>5, <1>6 DEF RoundInv

\* Every step of the program keeps meter and task in the same round.
LEMMA StepRound ==
  ASSUME PatientInv, PatientPlayers, [Next]_vars
  PROVE  RoundInv'
<1>1. CASE UNCHANGED vars
  <2>1. UNCHANGED <<phase, result, pulse, ms, irq, timer, key0, key1, cnt, waiting, evt,
                    stat, pendStat, dly, nesting, pc, time, response_time, highscore,
                    measured, best>>
    BY <1>1 DEF vars, meter, lines, keys, kernelVars, task, history
  <2>2. TokensStay /\ Calls'
    BY <2>1, KernelStays DEF PatientInv, RoundInv
  <2>3. Matched' /\ Together' /\ Scores'
    BY <2>1, <2>2
    DEF PatientInv, RoundInv, Matched, Together, Scores, TokensStay, Starts, Goes, Responses,
        Releases, Coming, Behind, BeforeGo, Counting, Scoring, Open, Answered, Announced, OneIf
  <2>4. Patience' /\ Presses'
    BY <2>1 DEF PatientInv, RoundInv, Patience, Presses, KeyMoves, Announced
  <2> QED
    BY <2>2, <2>3, <2>4 DEF RoundInv
<1>2. CASE ReactionMeterTask
  BY <1>2, TurnRound, CountRound, ScoreRound DEF ReactionMeterTask
<1>3. CASE Processor
  BY <1>3, SwitchRound, TickRound, MeterIsrRound DEF Processor
<1>4. CASE Meter \/ Millisecond \/ Player \/ Console
  BY <1>4, MeterRound, MillisecondRound, PlayerRound, ConsoleRound
<1> QED
  BY <1>1, <1>2, <1>3, <1>4 DEF Next

-----------------------------------------------------------------------------
(* What follows for the properties of the application.                     *)

\* The inductive invariant of the rounds, for patient players.
THEOREM PatientInductive == ASSUME PatientPlayers PROVE Spec => []PatientInv
<1>1. Init => PatientInv
  BY InitIInv, InitRound DEF PatientInv
<1>2. PatientInv /\ [Next]_vars => PatientInv'
  <2> SUFFICES ASSUME PatientInv, [Next]_vars PROVE PatientInv'
    OBVIOUS
  <2>1. IInv'
    BY StepIInv DEF PatientInv
  <2>2. RoundInv'
    BY StepRound
  <2> QED
    BY <2>1, <2>2 DEF PatientInv
<1> QED
  BY <1>1, <1>2, PTL DEF Spec

\* doc/Measurements.md: the score reaction_meter shows in its case STOP is
\* what the stopwatch of the meter showed in this round.
THEOREM ScoresAreMeasurements ==
  ASSUME PatientPlayers PROVE Spec => []ScoreIsMeasurement
<1>1. PatientInv => ScoreIsMeasurement
  BY DEF PatientInv, RoundInv, Scores, ScoreIsMeasurement
<1> QED
  BY <1>1, PatientInductive, PTL

\* A task that waits for a turn in user_response has no semaphore of an
\* earlier round left: every token isr posted was taken in its round.
THEOREM NoTokensLeftOver ==
  ASSUME PatientPlayers PROVE Spec => []NoStaleTokens
<1>1. PatientInv => NoStaleTokens
  <2> SUFFICES ASSUME PatientInv, ReactionTask \in waiting["start_sem"]
               PROVE  /\ cnt["start_counting_sem"] = 0
                      /\ cnt["stop_sem"] = 0 /\ cnt["restart_sem"] = 0
    BY DEF NoStaleTokens
  <2>1. KernelInv /\ TypeOK /\ Matched /\ Together /\ Presses /\ Calls
    BY DEF PatientInv, RoundInv, IInv
  <2>2. /\ pc = "ready" /\ ~Handed("start_sem")
    BY <2>1, Names, UcosAssumption
    DEF UcosAssumption, KernelInv, WaitListExact, Calls, Handed, CallOf, FieldsAgree
  <2>3. /\ Tokens("start_counting_sem") \in Nat /\ Tokens("stop_sem") \in Nat
        /\ Tokens("restart_sem") \in Nat /\ Tokens("start_sem") = 0
    BY <2>1, <2>2, Names, FourTokens, TokensAreNat DEF Matched
  <2>4. /\ Tokens("start_counting_sem") = 0 /\ Tokens("stop_sem") = 0
        /\ Tokens("restart_sem") = 0
    <3> USE DEF Counting, BeforeGo, Behind, Starts, Goes, Responses, Releases, Coming, OneIf
    <3>1. CASE Open
      <4>1. Announced /\ phase = "START"
        BY <2>2, <2>3, <3>1 DEF Open, Scoring
      <4> QED
        BY <2>1, <2>3, <3>1, <4>1 DEF Matched, Answered
    <3>2. CASE ~Open
      BY <2>1, <2>3, <3>2 DEF Matched
    <3> QED
      BY <3>1, <3>2
  <2> QED
    BY <2>1, <2>4, Names, TokensAreNat
<1> QED
  BY <1>1, PatientInductive, PTL

\* README.md: the user lets go of KEY1 and is brought back.  When the handlers
\* are done, only a player who still holds the button keeps the task waiting.
THEOREM ReleasesReachTask ==
  ASSUME PatientPlayers PROVE Spec => []ReleaseReachesTask
<1>1. PatientInv => ReleaseReachesTask
  <2> SUFFICES ASSUME PatientInv, ReactionTask \in waiting["restart_sem"], Quiet
               PROVE  phase = "STOP"
    BY DEF ReleaseReachesTask
  <2>1. KernelInv /\ TypeOK /\ Matched /\ Together /\ Calls
    BY DEF PatientInv, RoundInv, IInv
  <2>2. /\ pc = "show" /\ ~Handed("restart_sem") /\ cnt["restart_sem"] = 0
    <3>1. /\ evt[ReactionTask] = "restart_sem"
          /\ stat[ReactionTask] = "PEND" \/ pendStat[ReactionTask] = "TO"
          /\ cnt["restart_sem"] \in Nat
      BY <2>1, Names DEF KernelInv, WaitListExact, KernelTypeOK
    <3>2. pc = "show"
      BY <2>1, <3>1, Names, UcosAssumption DEF UcosAssumption, Calls, CallOf
    <3>3. cnt["restart_sem"] = 0
      BY <2>1, <3>1, Names DEF KernelInv, TokensMeanNoWaiter
    <3> QED
      BY <3>1, <3>2, <3>3 DEF Handed
  <2>3. pulse = 0 /\ irq = 0
    BY <2>1 DEF Quiet, MeterMoves, TypeOK, ProtocolTypeOK
  <2>4. Tokens("restart_sem") = 0
    BY <2>1, <2>2, Names, TokensAreNat
  <2> QED
    BY <2>1, <2>2, <2>3, <2>4
    DEF Together, Scoring, Answered, Releases, Coming, Announced, OneIf
<1> QED
  BY <1>1, PatientInductive, PTL

\* The high score needs none of this patience, only responses that fit into
\* the register: where the least response that counts can be.
Achieved ==
  /\ phase = "COUNT" /\ key1 = "down" => ms \in Reactions
  /\ best \in Int
  /\ result >= MIN_RESP => result >= best
  /\ pc = "STOP" => response_time >= best
  /\ highscore >= best

ResponsesFit == MIN_RESP > 0 /\ \A r \in Reactions : r < RESP_SPAN

\* A response that counts is published as it is, and lowers best with it.
LEMMA AchievedByResponse ==
  ASSUME TypeOK, Achieved, ResponsesFit, MeterRespond, UNCHANGED task
  PROVE  Achieved'
<1>1. /\ phase' = "STOP" /\ result' = ms % RESP_SPAN /\ ms \in Reactions
      /\ best' = IF MIN_RESP <= ms /\ ms < best THEN ms ELSE best
      /\ pc' = pc /\ response_time' = response_time /\ highscore' = highscore
  BY DEF MeterRespond, Respond, Move, Achieved, task
<1>2. /\ ms \in Nat /\ ms < RESP_SPAN /\ RESP_SPAN \in Nat /\ MIN_RESP \in Nat
      /\ best \in Int /\ response_time \in Int /\ highscore \in Int
  BY <1>1, Sizes, QsysAssumption
  DEF TypeOK, ResponsesFit, QsysAssumption, Achieved, UINT16_MAX
<1>3. result' = ms
  BY <1>1, <1>2
<1>4. best' \in Int /\ best' <= best /\ (ms >= MIN_RESP => ms >= best')
  BY <1>1, <1>2
<1>5. (pc = "STOP" => response_time >= best) /\ highscore >= best
  BY DEF Achieved
<1>6. highscore >= best' /\ (pc = "STOP" => response_time >= best')
  BY <1>2, <1>4, <1>5
<1> QED
  BY <1>1, <1>3, <1>4, <1>6 DEF Achieved

LEMMA AchievedByMeter ==
  ASSUME TypeOK, Achieved, ResponsesFit, Meter
  PROVE  Achieved'
<1>1. CASE Latch
  BY <1>1 DEF Meter, Achieved, Latch, Stay, keys, task
<1>2. CASE MeterArm \/ MeterRelease \/ MeterRest
  BY <1>2
  DEF Meter, Achieved, MeterArm, Arm, MeterRelease, Release, MeterRest, Rest, Move,
      keys, task
<1>3. CASE MeterRespond
  BY <1>3, AchievedByResponse DEF Meter
<1> QED
  BY <1>1, <1>2, <1>3 DEF Meter

\* Counting begins with KEY1 up, and no millisecond passes between a press and
\* the response; KEY1 is only pressed at one of the reactions.
LEMMA AchievedByTime ==
  ASSUME Achieved, Millisecond \/ Player
  PROVE  Achieved'
<1>1. CASE Millisecond
  BY <1>1
  DEF Achieved, Millisecond, Quiet, MeterMoves, DelayPasses, CountPasses, Go, GiveUp,
      Move, protocolVars, meter, keys, task, history
<1>2. CASE Player
  <2>1. UNCHANGED <<phase, ms, best, result, pc, response_time, highscore>>
    BY <1>2 DEF Player, Button, meter, task, history
  <2>2. phase = "COUNT" /\ key1' = "down" => key1 = "down" \/ ms \in Reactions
    BY <1>2 DEF Player, Button, PressKey0, PressKey1, LiftKey0, LiftKey1
  <2> QED
    BY <2>1, <2>2 DEF Achieved
<1> QED
  BY <1>1, <1>2

LEMMA AchievedBySoftware ==
  ASSUME Achieved, TypeOK, Processor \/ ReactionMeterTask \/ Console
  PROVE  Achieved'
<1>1. CASE Processor \/ Console
  BY <1>1
  DEF Achieved, Processor, Console, Interrupted, TickIsr, MeterIsr, ReadRegister,
      Resume, Switch, meter, keys, task, history
<1>2. CASE Stop
  BY <1>2 DEF Achieved, Stop, At, meter, keys, history
<1>3. CASE ReadResult
  BY <1>3, QsysAssumption
  DEF Achieved, ReadResult, ReadRegister, keys, history, Goto, QsysAssumption
<1>4. CASE Idle \/ Register \/ Ready \/ Start \/ Count \/ Show
  <2>1. /\ UNCHANGED <<phase, result, ms, key1, best, response_time, highscore>>
        /\ pc' = "STOP" => pc = "STOP"
    BY <1>4
    DEF Idle, Register, Ready, Start, Count, Show, Waits, Gets, TimesOut, Keep, Goto,
        meter, keys, task, history
  <2> QED
    BY <2>1 DEF Achieved
<1> QED
  BY <1>1, <1>2, <1>3, <1>4 DEF ReactionMeterTask

\* README.md: the highest score presented in case STOP is no better than the
\* best response the meter ever timed.  Neither impatient players nor accesses
\* of the bus that meet a pulse can change this: the tokens they lose or leave
\* over let the task read a result again, but never one nobody achieved.
THEOREM HighscoresWereAchieved ==
  ASSUME ResponsesFit PROVE Spec => []HighscoreWasAchieved
<1>1. Init => Achieved
  <2>1. MIN_RESP \in Nat
    BY QsysAssumption DEF QsysAssumption
  <2> QED
    BY <2>1 DEF Init, Achieved, ProtocolInit, ResponsesFit, UINT16_MAX
<1>2. TypeOK /\ Achieved /\ [Next]_vars => Achieved'
  <2>1. CASE UNCHANGED vars
    BY <2>1 DEF Achieved, vars, meter, keys, task, history
  <2>2. CASE Next
    BY <2>2, AchievedByMeter, AchievedByTime, AchievedBySoftware DEF Next
  <2> QED
    BY <2>1, <2>2
<1>3. Achieved => HighscoreWasAchieved
  BY DEF Achieved, HighscoreWasAchieved
<1> QED
  BY <1>1, <1>2, <1>3, Typed, PTL DEF Spec

\* README.md: nothing happens until the user lets go of KEY1: the loop of case
\* STOP is left only for a token of restart_sem, after the meter saw it.
THEOREM ScoresStayUntilRelease ==
  ASSUME PatientPlayers PROVE Spec => ScoreStaysUntilRelease
<1>1. PatientInv /\ [Next]_vars =>
        [pc = "show" /\ pc' = "IDLE" => phase # "STOP"]_vars
  <2> SUFFICES ASSUME PatientInv, Next, pc = "show", pc' = "IDLE"
               PROVE  phase # "STOP"
    BY DEF vars, task
  <2>1. ReactionMeterTask
    BY DEF Next, Meter, Millisecond, Player, Button, Processor, Interrupted, TickIsr,
           MeterIsr, Resume, Switch, Console, task
  <2>2. Gets("show", "restart_sem")
    BY <2>1
    DEF ReactionMeterTask, Idle, Register, Ready, Start, Count, ReadResult, Stop, Show,
        Waits, Gets, TimesOut, At, task
  <2>3. Consumed("restart_sem")
    BY <2>2, Names, GetsRound DEF CallOf
  <2>4. Tokens("restart_sem") \in Nat
    BY FourTokens DEF PatientInv, IInv
  <2> QED
    BY <2>3, <2>4
    DEF PatientInv, RoundInv, Matched, Open, Scoring, Releases, Coming, OneIf, Consumed
<1> QED
  BY <1>1, PatientInductive, PTL DEF Spec, ScoreStaysUntilRelease

-----------------------------------------------------------------------------
(* For patient players the program is the game of ReactionGame.            *)

\* What the stages of the game are made of.
LEMMA StageParts ==
  ASSUME PatientInv
  PROVE  /\ phase # "START" => (Open <=> (InTurn \/ pc \in {"STOP", "show"}))
         /\ pc \in {"STOP", "show", "read"} => Answered
         /\ Answered => Open /\ phase \in {"STOP", "IDLE"} /\ measured # UNMEASURED
         /\ Open /\ ~Answered => measured = UNMEASURED
         /\ ~Open => \/ phase = "IDLE"
                     \/ phase = "COUNT" /\ ms >= SLICES * SLICE_TICKS
<1> USE DEF Starts, Releases, Coming, Behind, BeforeGo, Counting, Scoring, Open,
            Answered, OneIf
<1>1. KernelInv /\ TypeOK /\ Matched /\ Together /\ Scores /\ Calls
  BY DEF PatientInv, RoundInv, IInv
<1>2. /\ Tokens("start_sem") \in Nat /\ Tokens("restart_sem") \in Nat
      /\ MIN_RESP \in Nat
  BY <1>1, FourTokens, QsysAssumption DEF QsysAssumption
<1>3. Tokens("start_sem") = OneIf(Handed("start_sem"))
  BY <1>1 DEF Tokens, Matched
<1>4. /\ phase # "START" => (Behind <=> Handed("start_sem"))
      /\ Handed("start_sem") => pc = "ready"
  BY <1>1, <1>2, <1>3, Names, UcosAssumption
  DEF UcosAssumption, Calls, CallOf, Handed
<1>5. InTurn <=> pc \in {"START", "COUNT", "read"} \/ Handed("start_sem")
  BY DEF InTurn, Handed
<1>6. phase # "START" => (Open <=> (InTurn \/ pc \in {"STOP", "show"}))
  BY <1>4, <1>5
<1>7. pc \in {"STOP", "show", "read"} => Answered
  BY <1>1 DEF Together
<1>8. Answered => Open
  BY <1>1, <1>2 DEF Matched, Together
<1>9. Answered => phase \in {"STOP", "IDLE"} /\ measured # UNMEASURED
  BY <1>1, <1>2 DEF Scores, UNMEASURED
<1>10. Open /\ ~Answered => measured = UNMEASURED
  BY <1>1 DEF Scores
<1>11. ~Open => phase = "IDLE" \/ (phase = "COUNT" /\ ms >= SLICES * SLICE_TICKS)
  BY <1>1 DEF Together
<1> HIDE DEF Open, Answered
<1> QED
  BY <1>6, <1>7, <1>8, <1>9, <1>10, <1>11

\* The same without the tokens: the stages, by the phase of the meter.
LEMMA StageIs ==
  ASSUME PatientInv
  PROVE  /\ phase \in {"START", "DELAY"} =>
              Stage = "waits" /\ pc \notin {"STOP", "show"} /\ measured = UNMEASURED
         /\ phase = "DELAY" => InTurn
         /\ phase = "COUNT" => pc \notin {"STOP", "show", "read"}
         /\ phase = "COUNT" /\ InTurn => Stage = "counts" /\ measured = UNMEASURED
         /\ phase = "COUNT" /\ ~InTurn => Stage = "home"
         /\ phase = "STOP" => /\ Stage \in {"counts", "shows"}
                              /\ measured # UNMEASURED
                              /\ InTurn \/ pc \in {"STOP", "show"}
         /\ phase = "IDLE" /\ Stage \in {"counts", "shows"} => measured # UNMEASURED
         /\ pc = "read" => Stage = "counts" /\ phase \in {"STOP", "IDLE"}
         /\ Stage \in {"home", "waits", "counts", "shows"}
<1>1. phase \in Phases
  BY DEF PatientInv, IInv, TypeOK, ProtocolTypeOK
<1>2. phase = "STOP" => Answered
  BY DEF Answered
<1> QED
  BY <1>1, <1>2, StageParts DEF Stage, InTurn, Phases

\* What the players see changes with the phase, KEY1, the task and the time.
LEMMA NothingSeen ==
  ASSUME UNCHANGED <<pc, phase, measured, key1, ms, response_time, highscore>>,
         (InTurn' <=> InTurn) \/ phase \in {"START", "DELAY"}
  PROVE  UNCHANGED Game!gameVars
<1>1. UNCHANGED Stage
  BY DEF Stage
<1> QED
  BY <1>1 DEF Game!gameVars, Clock, Held, Response, Freed, TopScore

LEMMA SameTurn ==
  ASSUME UNCHANGED <<pc, evt, stat, pendStat>>
  PROVE  InTurn' <=> InTurn
BY DEF InTurn

\* The meter: the first press in COUNT is the response, and KEY1 is seen up.
LEMMA MeterPlays ==
  ASSUME PatientInv, Meter
  PROVE  [Game!Next]_(Game!gameVars)
<1>1. UNCHANGED <<pc, evt, stat, pendStat, key0, key1, response_time, highscore>>
  BY DEF Meter, keys, kernelVars, task
<1>2. (InTurn' <=> InTurn) /\ UNCHANGED TopScore
  BY <1>1, SameTurn DEF TopScore
<1>3. CASE Latch
  BY <1>1, <1>2, <1>3, NothingSeen DEF Latch, Stay
<1>4. CASE MeterArm /\ pulse = 0
  <2>1. /\ phase = "IDLE" /\ phase' = "START" /\ key0 = "down" /\ measured' = UNMEASURED
    BY <1>4 DEF MeterArm, Arm, Move
  <2>2. Stage = "home"
    <3>1. ReactionTask \in waiting["start_sem"] /\ irq = 0
      BY <2>1 DEF PatientInv, RoundInv, Presses, KeyMoves
    <3>2. pc = "ready" /\ ~Handed("start_sem")
      BY <3>1, Names, UcosAssumption
      DEF UcosAssumption, PatientInv, RoundInv, IInv, KernelInv, WaitListExact, Calls,
          Handed, CallOf, FieldsAgree
    <3> QED
      BY <2>1, <3>2 DEF Stage, InTurn, Handed
  <2>3. Stage' = "waits"
    BY <1>1, <2>1, <2>2 DEF Stage
  <2>4. Game!Begin
    BY <1>1, <1>2, <2>1, <2>2, <2>3 DEF Game!Begin, Clock, Held, Response, Freed
  <2> QED
    BY <2>4 DEF Game!Next
<1>5. CASE MeterRelease /\ pulse = 0
  <2>1. phase = "START" /\ phase' = "DELAY" /\ measured' = measured
    BY <1>5 DEF MeterRelease, Release, Move
  <2>2. Stage = "waits" /\ Stage' = "waits"
    BY <1>1, <2>1, StageIs DEF Stage
  <2> QED
    BY <1>1, <1>2, <2>1, <2>2 DEF Game!gameVars, Clock, Held, Response, Freed
<1>6. CASE MeterRespond /\ pulse = 0
  <2>1. /\ phase = "COUNT" /\ phase' = "STOP" /\ key1 = "down" /\ measured' = ms
    BY <1>6 DEF MeterRespond, Respond, Move
  <2>2. InTurn
    <3>1. ms \in Reactions /\ key1 = "down"
      BY <2>1 DEF PatientInv, RoundInv, Presses
    <3> QED
      BY <2>1, StageParts DEF PatientInv, RoundInv, Together
  <2>3. Stage = "counts" /\ measured = UNMEASURED /\ pc \notin {"STOP", "show"}
    BY <2>1, <2>2, StageIs
  <2>4. ms # UNMEASURED
    BY Sizes DEF PatientInv, IInv, TypeOK, UNMEASURED
  <2>5. Stage' = "counts"
    BY <1>1, <1>2, <2>1, <2>2, <2>3, <2>4 DEF Stage
  <2>6. Game!Respond
    BY <1>1, <1>2, <2>1, <2>3, <2>5
    DEF Game!Respond, Game!Unanswered, Game!NONE, UNMEASURED, Clock, Held, Response, Freed
  <2> QED
    BY <2>6 DEF Game!Next
<1>7. CASE MeterRest /\ pulse = 0
  <2>1. /\ phase = "STOP" /\ phase' = "IDLE" /\ key1 = "up" /\ measured' = measured
        /\ ms' = ms
    BY <1>7 DEF MeterRest, Rest, Move
  <2>2. /\ Stage \in {"counts", "shows"} /\ measured # UNMEASURED
        /\ InTurn \/ pc \in {"STOP", "show"}
    BY <2>1, StageIs
  <2>3. Stage' = Stage
    BY <1>1, <1>2, <2>1, <2>2 DEF Stage
  <2>4. Game!Free
    BY <1>1, <1>2, <2>1, <2>2, <2>3
    DEF Game!Free, Game!NONE, UNMEASURED, Clock, Held, Response, Freed
  <2> QED
    BY <2>4 DEF Game!Next
<1> QED
  BY <1>3, <1>4, <1>5, <1>6, <1>7 DEF Meter

\* A millisecond: the signal, the count, the meter's time-out.
LEMMA MillisecondPlays ==
  ASSUME PatientInv, Millisecond
  PROVE  [Game!Next]_(Game!gameVars)
<1>1. /\ UNCHANGED <<pc, evt, stat, pendStat, key0, key1, response_time, highscore,
                     measured>>
      /\ phase = "COUNT" => key1 = "up"
      /\ ms \in Nat /\ MAX_MS \in Nat
  BY Sizes DEF Millisecond, Quiet, MeterMoves, keys, kernelVars, task, history,
               PatientInv, IInv, TypeOK
<1>2. (InTurn' <=> InTurn) /\ UNCHANGED TopScore
  BY <1>1, SameTurn DEF TopScore
<1>3. CASE phase = "DELAY" /\ Go /\ key1 = "up" /\ ms' = 0
  <2>1. phase' = "COUNT"
    BY <1>3 DEF Go, Move
  <2>2. Stage = "waits" /\ InTurn /\ pc \notin {"STOP", "show"} /\ measured = UNMEASURED
    BY <1>3, StageIs
  <2>3. Stage' = "counts"
    BY <1>1, <1>2, <2>1, <2>2 DEF Stage
  <2>4. Game!Signal
    BY <1>1, <1>2, <1>3, <2>1, <2>2, <2>3
    DEF Game!Signal, Clock, Held, Response, Freed
  <2> QED
    BY <2>4 DEF Game!Next
<1>4. CASE phase = "DELAY" /\ phase' = phase
  <2>1. Stage = "waits" /\ Stage' = "waits"
    BY <1>1, <1>4, StageIs DEF Stage
  <2> QED
    BY <1>1, <1>2, <1>4, <2>1 DEF Game!gameVars, Clock, Held, Response, Freed
<1>5. CASE phase = "COUNT" /\ phase' = phase /\ ms' = ms + 1
  <2>1. Stage' = Stage
    BY <1>1, <1>2, <1>5 DEF Stage
  <2>2. CASE InTurn
    <3>1. Stage = "counts" /\ measured = UNMEASURED
      BY <1>5, <2>2, StageIs
    <3>2. Game!Tick
      BY <1>1, <1>2, <1>5, <2>1, <3>1
      DEF Game!Tick, Game!Unanswered, Game!NONE, UNMEASURED, Clock, Held, Response, Freed
    <3> QED
      BY <3>2 DEF Game!Next
  <2>3. CASE ~InTurn
    <3>1. Stage = "home"
      BY <1>5, <2>3, StageIs
    <3> QED
      BY <1>1, <1>2, <1>5, <2>1, <3>1 DEF Game!gameVars, Clock, Held, Response, Freed
  <2> QED
    BY <2>2, <2>3
<1>6. CASE phase = "COUNT" /\ GiveUp /\ ms + 1 >= MAX_MS
  <2>1. phase' = "IDLE" /\ key1 = "up"
    BY <1>1, <1>6 DEF GiveUp, Move
  <2>2. CASE InTurn
    <3>1. Stage = "counts" /\ measured = UNMEASURED /\ pc \notin {"STOP", "show"}
      BY <1>6, <2>2, StageIs
    <3>2. Stage' = "home"
      BY <1>1, <2>1, <3>1 DEF Stage
    <3>3. ms >= TimeAllowed
      <4>1. SLICES * SLICE_TICKS \in Nat
        BY Sizes, Slices
      <4> QED
        BY <1>1, <1>6, <4>1 DEF TimeAllowed
    <3>4. Game!GiveUp
      BY <1>1, <1>2, <1>6, <2>1, <3>1, <3>2, <3>3
      DEF Game!GiveUp, Game!Unanswered, Game!GoesHome, Game!NONE, UNMEASURED, Clock,
          Held, Response, Freed
    <3> QED
      BY <3>4 DEF Game!Next
  <2>3. CASE ~InTurn
    <3>1. Stage = "home" /\ pc \notin {"STOP", "show"}
      BY <1>6, <2>3, StageIs
    <3>2. Stage' = "home"
      BY <1>1, <1>2, <2>1, <2>3, <3>1 DEF Stage
    <3> QED
      BY <1>1, <1>2, <2>1, <3>1, <3>2 DEF Game!gameVars, Clock, Held, Response, Freed
  <2> QED
    BY <2>2, <2>3
<1>7. CASE UNCHANGED meter
  BY <1>1, <1>2, <1>7, NothingSeen DEF meter
<1> QED
  BY <1>3, <1>4, <1>5, <1>6, <1>7
  DEF Millisecond, DelayPasses, CountPasses, protocolVars

\* A press in COUNT waits for the meter; any other is one of the game.
LEMMA PlayerPlays ==
  ASSUME PatientInv, Player
  PROVE  [Game!Next]_(Game!gameVars)
<1>1. /\ UNCHANGED <<pc, phase, ms, evt, stat, pendStat, response_time, highscore,
                     measured>>
      /\ \/ key1' = key1
         \/ key1 = "up" /\ key1' = "down"
         \/ key1 = "down" /\ key1' = "up"
  BY DEF Player, Button, PressKey0, PressKey1, LiftKey0, LiftKey1, meter, kernelVars,
         task, history
<1>2. /\ InTurn' <=> InTurn
      /\ UNCHANGED <<Stage, Clock, Response, Freed, TopScore>>
  <2>1. InTurn' <=> InTurn
    BY <1>1, SameTurn
  <2>2. Stage' = Stage
    BY <1>1, <2>1 DEF Stage
  <2> QED
    BY <1>1, <2>1, <2>2 DEF Clock, Response, Freed, TopScore
<1>3. CASE key1' = key1 \/ phase = "COUNT"
  <2>1. Held' <=> Held
    BY <1>1, <1>3 DEF Held
  <2> QED
    BY <1>1, <1>2, <2>1 DEF Game!gameVars, Held
<1>4. CASE key1 = "up" /\ key1' = "down" /\ phase # "COUNT"
  <2>1. Stage = "counts" => measured # UNMEASURED
    BY <1>4 DEF Stage
  <2>2. Game!Press
    BY <1>1, <1>2, <1>4, <2>1
    DEF Game!Press, Game!Unanswered, Game!NONE, UNMEASURED, Held, Response
  <2> QED
    BY <2>2 DEF Game!Next
<1>5. CASE key1 = "down" /\ key1' = "up" /\ phase # "COUNT"
  <2>1. Game!LetGo
    BY <1>1, <1>2, <1>5 DEF Game!LetGo, Held
  <2> QED
    BY <2>1 DEF Game!Next
<1> QED
  BY <1>1, <1>3, <1>4, <1>5

\* A post for anything but the start of a turn does not begin one.
LEMMA PostKeepsTurn ==
  ASSUME KernelInv, NEW e \in Events \ {"start_sem"}, Post(e), pc' = pc
  PROVE  InTurn' <=> InTurn
<1>1. CASE PostHands(e)
  <2>1. PICK t \in waiting[e] :
          /\ stat' = [stat EXCEPT ![t] = "RDY"]
          /\ pendStat' = [pendStat EXCEPT ![t] = "OK"]
          /\ UNCHANGED <<cnt, evt>>
    BY <1>1 DEF PostHands, EventTaskRdy
  <2>2. t = ReactionTask => evt[t] = e
    BY UcosAssumption
    DEF UcosAssumption, KernelInv, KernelTypeOK, WaitListExact, FieldsAgree
  <2> QED
    BY <2>1, <2>2 DEF InTurn, KernelInv, KernelTypeOK
<1>2. CASE PostCounts(e) \/ PostOverflows(e)
  BY <1>2, SameTurn DEF PostCounts, PostOverflows
<1> QED
  BY <1>1, <1>2 DEF Post

\* Interrupts and the console: what the handler announces, players saw before.
LEMMA ProcessorPlays ==
  ASSUME PatientInv, PatientPlayers, Processor \/ Console
  PROVE  UNCHANGED Game!gameVars
<1>1. /\ UNCHANGED <<pc, phase, measured, key1, ms, response_time, highscore>>
      /\ KernelInv
  BY DEF Processor, Console, Interrupted, TickIsr, MeterIsr, ReadRegister, Resume,
         Switch, meter, keys, task, history, PatientInv, IInv
<1>2. CASE Interrupted \/ Resume \/ Switch
  <2>1. UNCHANGED <<evt, stat, pendStat>>
    BY <1>2 DEF Interrupted, Resume, Switch, Dispatch
  <2> QED
    BY <1>1, <2>1, SameTurn, NothingSeen
<1>3. CASE TickIsr
  <2>1. /\ Tokens("start_sem")' = Tokens("start_sem") /\ cnt' = cnt
    BY <1>1, <1>3, Names, TickTokens DEF TickIsr, TimeTick
  <2>2. Handed("start_sem")' <=> Handed("start_sem")
    BY <1>1, <2>1, Names DEF Tokens, OneIf, KernelInv, KernelTypeOK
  <2> QED
    BY <1>1, <2>2, NothingSeen DEF InTurn, Handed
<1>4. CASE MeterIsr
  <2>1. StateRegister = phase /\ phase \in Phases
    BY <1>4 DEF MeterIsr, BusIsFree, PatientPlayers, StateRegister, PatientInv, IInv,
                TypeOK, ProtocolTypeOK
  <2>2. CASE phase \in {"START", "DELAY"}
    BY <1>1, <2>2, NothingSeen
  <2>3. CASE phase \notin {"START", "DELAY"}
    <3>1. Post(Posted[phase]) /\ Posted[phase] \in Events \ {"start_sem"}
      BY <1>4, <2>1, <2>3, Names DEF MeterIsr, Posted, Phases
    <3> QED
      BY <1>1, <3>1, PostKeepsTurn, NothingSeen
  <2> QED
    BY <2>2, <2>3
<1>5. CASE Console
  BY <1>1, <1>5, Names, PostKeepsTurn, NothingSeen DEF Console
<1> QED
  BY <1>2, <1>3, <1>4, <1>5 DEF Processor

\* The task before the score: only giving up is seen.
LEMMA TurnPlays ==
  ASSUME PatientInv, PatientPlayers, ReactionMeterTask, Idle \/ Register \/ Ready \/ Start
  PROVE  UNCHANGED Game!gameVars
<1>1. /\ UNCHANGED <<phase, measured, key1, ms, response_time, highscore>>
      /\ KernelInv /\ Calls /\ cnt["start_sem"] = 0
  BY TaskUndisturbed
  DEF Idle, Register, Ready, Start, Waits, task, PatientInv, IInv, RoundInv, Matched
<1>2. /\ pc \notin {"STOP", "show", "read"} /\ pc' \notin {"STOP", "show", "read"}
  BY DEF Idle, Register, Ready, Start, Waits, Gets, At, Goto, task
<1>3. InTurn' <=> InTurn
  <2>1. CASE Idle
    BY <1>1, <2>1, Names, UcosAssumption
    DEF UcosAssumption, Idle, At, Goto, InTurn, Calls, CallOf, kernelVars
  <2>2. CASE \/ Waits("register", "player_queue", 0) \/ Waits("ready", "start_sem", 0)
             \/ Waits("START", "start_counting_sem", 0)
    <3>1. /\ evt[ReactionTask] = NoEvent /\ NoEvent \notin Events /\ pc' = pc
          /\ stat'[ReactionTask] = "PEND"
      BY <1>1, <2>2, Names, UcosAssumption
      DEF UcosAssumption, Waits, At, Runs, InCall, PendBlocks, EventTaskWait, task,
          KernelInv, KernelTypeOK
    <3> QED
      BY <3>1, Names DEF InTurn
  <2>3. CASE Gets("register", "player_queue") /\ Goto("ready")
    <3>1. /\ pc = "register" /\ pc' = "ready" /\ evt'[ReactionTask] = NoEvent
      BY <2>3, Names, GetsRound DEF CallOf, Consumed, Goto
    <3> QED
      BY <1>1, <3>1, Names, UcosAssumption DEF UcosAssumption, InTurn, Calls, CallOf
  <2>4. CASE Gets("ready", "start_sem") /\ Goto("START")
    <3>1. Tokens("start_sem") >= 1 /\ pc' = "START"
      BY <2>4, Names, GetsRound DEF CallOf, Consumed, Goto
    <3>2. Handed("start_sem")
      BY <1>1, <3>1 DEF Tokens, OneIf
    <3> QED
      BY <3>1, <3>2 DEF InTurn, Handed
  <2>5. CASE Gets("START", "start_counting_sem") /\ Goto("COUNT")
    BY <2>5 DEF Gets, At, Goto, InTurn
  <2> QED
    BY <2>1, <2>2, <2>3, <2>4, <2>5 DEF Register, Ready, Start
<1>4. Stage' = Stage
  BY <1>1, <1>2, <1>3 DEF Stage
<1> QED
  BY <1>1, <1>2, <1>4 DEF Game!gameVars, Clock, Held, Response, Freed, TopScore

\* A slice of the counting loop is over.
LEMMA SlicePlays ==
  ASSUME PatientInv, PatientPlayers, ReactionMeterTask, TimesOut("COUNT"),
         Goto(IF time + 1 < SLICES THEN "COUNT" ELSE "IDLE"),
         UNCHANGED <<response_time, highscore>>
  PROVE  [Game!Next]_(Game!gameVars)
<1>1. /\ UNCHANGED <<phase, measured, key1, ms, response_time, highscore>>
      /\ KernelInv /\ TypeOK /\ LoopsStop /\ Calls /\ pc = "COUNT"
      /\ pulse = 0 /\ irq = 0
  BY TaskUndisturbed DEF PatientInv, IInv, RoundInv, TimesOut, At
<1>2. InTurn
  BY <1>1 DEF InTurn
<1>3. CASE pc' = "COUNT"
  BY <1>1, <1>2, <1>3, NothingSeen DEF InTurn
<1>4. CASE pc' = "IDLE" /\ time + 1 >= SLICES
  <2>1. /\ Tokens("stop_sem") = 0 /\ pendStat[ReactionTask] = "TO"
        /\ evt'[ReactionTask] = NoEvent
    BY <1>1, Names, TimesOutTokens DEF CallOf, TimesOut, KernelInv, KernelTypeOK
  <2>2. ~InTurn'
    BY <1>4, <2>1, Names, UcosAssumption DEF UcosAssumption, InTurn
  <2>3. ~Answered
    BY <1>1, <2>1 DEF PatientInv, RoundInv, Matched, Responses, Coming, Announced, OneIf,
                      Counting, Open
  <2>4. Open /\ measured = UNMEASURED
    BY <1>1, <2>3, StageParts DEF Open, Counting
  <2>5. CASE phase = "COUNT"
    <3>1. ms >= time * SLICE_TICKS + SLICE_TICKS
      BY <1>1, <2>1, <2>5 DEF PatientInv, RoundInv, Patience
    <3>2. time + 1 = SLICES /\ time \in Nat /\ SLICE_TICKS \in Nat /\ ms \in Nat
      BY <1>1, <1>4, Sizes DEF LoopsStop, TypeOK
    <3>3. SLICES * SLICE_TICKS = time * SLICE_TICKS + SLICE_TICKS
      BY <3>2, Slices
    <3>4. ms >= TimeAllowed
      <4>1. ms >= SLICES * SLICE_TICKS /\ SLICES * SLICE_TICKS \in Nat /\ MAX_MS \in Nat
        BY <3>1, <3>3, Sizes, Slices
      <4> QED
        BY <3>2, <4>1 DEF TimeAllowed
    <3>5. Stage = "counts"
      BY <1>2, <2>5, StageIs
    <3>6. Stage' = "home"
      BY <1>1, <1>4, <2>2, <2>5 DEF Stage
    <3>7. Game!GiveUp
      BY <1>1, <1>4, <2>4, <2>5, <3>4, <3>5, <3>6
      DEF Game!GiveUp, Game!Unanswered, Game!GoesHome, Game!NONE, UNMEASURED, Clock,
          Held, Response, Freed, TopScore
    <3> QED
      BY <3>7 DEF Game!Next
  <2>6. CASE phase # "COUNT"
    <3>1. phase \notin {"START", "DELAY", "COUNT"}
      BY <1>1, <2>6 DEF PatientInv, RoundInv, Together
    <3>2. Stage = "home" /\ Stage' = "home"
      BY <1>1, <1>4, <2>4, <3>1 DEF Stage
    <3> QED
      BY <1>1, <1>4, <3>2 DEF Game!gameVars, Clock, Held, Response, Freed, TopScore
  <2> QED
    BY <2>5, <2>6
<1> QED
  <2>1. time + 1 < SLICES \/ time + 1 >= SLICES
    BY <1>1, Sizes DEF TypeOK
  <2> QED
    BY <1>3, <1>4, <2>1 DEF Goto

LEMMA CountPlays ==
  ASSUME PatientInv, PatientPlayers, ReactionMeterTask, Count
  PROVE  [Game!Next]_(Game!gameVars)
<1>1. CASE TimesOut("COUNT")
  <2>1. ~Gets("COUNT", "stop_sem") /\ ~Waits("COUNT", "stop_sem", SLICE_TICKS)
    BY <1>1 DEF TimesOut, Gets, Waits
  <2> QED
    BY <1>1, <2>1, SlicePlays DEF Count
<1>2. CASE ~TimesOut("COUNT")
  <2>1. pc = "COUNT" /\ pc' \in {"COUNT", "read"} /\ UNCHANGED <<response_time, highscore>>
    BY <1>2 DEF Count, Waits, Gets, At, Goto, task
  <2>2. InTurn /\ InTurn'
    BY <2>1 DEF InTurn
  <2>3. UNCHANGED <<phase, measured, key1, ms>>
    BY TaskUndisturbed
  <2>4. Stage' = Stage
    BY <2>1, <2>2, <2>3 DEF Stage
  <2> QED
    BY <2>1, <2>3, <2>4 DEF Game!gameVars, Clock, Held, Response, Freed, TopScore
<1> QED
  BY <1>1, <1>2

\* The score, from its reading to the release.
LEMMA ScorePlays ==
  ASSUME PatientInv, PatientPlayers, ReactionMeterTask, ReadResult \/ Stop \/ Show
  PROVE  [Game!Next]_(Game!gameVars)
<1>1. /\ UNCHANGED <<phase, measured, key1, ms>>
      /\ KernelInv /\ Calls /\ TypeOK
  BY TaskUndisturbed DEF PatientInv, IInv, RoundInv
<1>2. /\ pc \in {"read", "STOP", "show"} /\ Answered
      /\ phase \in {"STOP", "IDLE"} /\ measured # UNMEASURED
  BY StageParts DEF ReadResult, Stop, Show, Waits, Gets, TimesOut, At
<1>3. CASE ReadResult
  <2>1. /\ result = measured /\ measured >= MIN_RESP /\ measured \in Int
    BY <1>2 DEF PatientInv, RoundInv, Scores
  <2>2. pc = "read" /\ pc' = "STOP" /\ response_time' = measured /\ highscore' = highscore
    BY <1>3, <2>1 DEF ReadResult, At, Goto
  <2>3. Stage = "counts" /\ Stage' = "shows"
    BY <2>2, StageIs DEF Stage
  <2>4. Game!Score
    BY <1>1, <1>2, <2>1, <2>2, <2>3
    DEF Game!Score, Game!NONE, UNMEASURED, Clock, Held, Response, Freed, TopScore
  <2> QED
    BY <2>4 DEF Game!Next
<1>4. CASE Stop
  <2>1. /\ pc = "STOP" /\ pc' = "show" /\ response_time' = response_time
        /\ highscore' = TopScore
    BY <1>4 DEF Stop, At, Goto, TopScore
  <2>2. Stage = "shows" /\ Stage' = "shows"
    BY <2>1 DEF Stage
  <2> QED
    BY <1>1, <2>1, <2>2 DEF Game!gameVars, Clock, Held, Response, Freed, TopScore
<1>5. CASE Waits("show", "restart_sem", SLICE_TICKS)
           \/ (TimesOut("show") /\ UNCHANGED <<task, history>>)
  <2>1. pc = "show" /\ UNCHANGED <<pc, response_time, highscore>>
    BY <1>5 DEF Waits, TimesOut, At, task
  <2>2. Stage = "shows" /\ Stage' = "shows"
    BY <2>1 DEF Stage
  <2> QED
    BY <1>1, <2>1, <2>2 DEF Game!gameVars, Clock, Held, Response, Freed, TopScore
<1>6. CASE Gets("show", "restart_sem") /\ Goto("IDLE")
           /\ UNCHANGED <<response_time, highscore>>
  <2>1. /\ Consumed("restart_sem") /\ pc = "show" /\ pc' = "IDLE"
    BY <1>6, Names, GetsRound DEF CallOf, Goto
  <2>2. phase = "IDLE"
    BY <1>1, <1>2, <2>1, FourTokens, StageParts
    DEF PatientInv, RoundInv, Matched, Releases, Coming, OneIf, Consumed
  <2>3. ~InTurn'
    BY <2>1, Names, UcosAssumption DEF UcosAssumption, InTurn, Consumed
  <2>4. Stage = "shows" /\ Stage' = "home"
    BY <1>1, <2>1, <2>2, <2>3 DEF Stage
  <2>5. Game!Leave
    BY <1>1, <1>6, <2>1, <2>2, <2>4
    DEF Game!Leave, Game!GoesHome, Game!NONE, UNMEASURED, Clock, Held, Response, Freed,
        TopScore
  <2> QED
    BY <2>5 DEF Game!Next
<1> QED
  BY <1>3, <1>4, <1>5, <1>6 DEF Show

LEMMA InitPlays == Init => Game!Init
<1>1. Init => /\ pc = "IDLE" /\ phase = "IDLE" /\ evt[ReactionTask] = NoEvent
              /\ key1 = "up" /\ response_time = 0 /\ highscore = UINT16_MAX
  BY Names DEF Init, ProtocolInit, KernelInit
<1>2. Init => ~InTurn
  BY <1>1, Names, UcosAssumption DEF UcosAssumption, InTurn
<1>3. Init => Stage = "home"
  BY <1>1, <1>2 DEF Stage
<1> QED
  BY <1>1, <1>3
  DEF Game!Init, Game!NONE, Game!WORST, UNMEASURED, UINT16_MAX, Clock, Held, Response,
      Freed, TopScore

\* README.md, Usage and Cheat-prevention: hardware, handler, semaphores and
\* task together are the game of ReactionGame.  Every response within the time
\* allowed becomes a score, which is the response itself; nobody is sent home
\* unless they did not respond; counting never begins while KEY1 is held; and
\* the score stays until the meter has seen KEY1 up.
THEOREM PlaysTheGame == ASSUME PatientPlayers PROVE Spec => PlaysGame
<1>1. PatientInv /\ [Next]_vars => [Game!Next]_(Game!gameVars)
  <2> SUFFICES ASSUME PatientInv, [Next]_vars PROVE [Game!Next]_(Game!gameVars)
    OBVIOUS
  <2>1. CASE UNCHANGED vars
    BY <2>1, SameTurn, NothingSeen
    DEF vars, meter, keys, kernelVars, task, history
  <2>2. CASE Processor \/ Console
    BY <2>2, ProcessorPlays
  <2>3. CASE ReactionMeterTask
    BY <2>3, TurnPlays, CountPlays, ScorePlays DEF ReactionMeterTask
  <2> QED
    BY <2>1, <2>2, <2>3, MeterPlays, MillisecondPlays, PlayerPlays DEF Next
<1> QED
  BY <1>1, InitPlays, PatientInductive, PTL DEF Spec, PlaysGame, Game!Spec

-----------------------------------------------------------------------------
(* What the program is built from: the meter of MeterProtocol and the      *)
(* kernel of UcosTasks.                                                    *)

\* Only the meter moves the wires; a read of a register at most takes a pulse
\* away, as the next clock edge would.
LEMMA MeterSteps ==
  ASSUME TypeOK, [Next]_vars
  PROVE  [ProtocolNext]_protocolVars
<1> USE DEF protocolVars, meter
<1>1. CASE Meter
  <2>1. MeterRespond => \E r \in Results : Respond(r)
    <3>1. ms % RESP_SPAN \in Results
      <4>1. ms \in Nat
        BY Sizes DEF TypeOK
      <4> QED
        BY <4>1, Sizes
    <3> QED
      BY <3>1 DEF MeterRespond
  <2> QED
    BY <1>1, <2>1
    DEF Meter, Latch, MeterArm, MeterRelease, MeterRest, ProtocolNext
<1>2. CASE Millisecond
  BY <1>2 DEF Millisecond, DelayPasses, CountPasses, ProtocolNext
<1>3. CASE MeterIsr \/ ReadResult
  BY <1>3 DEF MeterIsr, ReadResult, ReadRegister, ProtocolNext, Stay
<1>4. CASE Player \/ Interrupted \/ TickIsr \/ Resume \/ Switch \/ Console
  BY <1>4 DEF Player, Button, Interrupted, TickIsr, Resume, Switch, Console
<1>5. CASE Idle \/ Register \/ Ready \/ Start \/ Count \/ Stop \/ Show
  BY <1>5
  DEF Idle, Register, Ready, Start, Count, Stop, Show, Waits, Gets, TimesOut, Keep
<1>6. CASE UNCHANGED vars
  BY <1>6 DEF vars
<1> QED
  BY <1>1, <1>2, <1>3, <1>4, <1>5, <1>6 DEF Next, Processor, ReactionMeterTask

\* Whatever the player does and whenever the software reads its registers,
\* what happens on the wires is the protocol that module ReactionMeter
\* implements: a read may hide a step from the handler, but makes none up.
THEOREM MeterFollowsProtocol == Spec => ProtocolSpec
<1>1. Init => ProtocolInit
  BY DEF Init
<1> QED
  BY <1>1, MeterSteps, Typed, PTL DEF Spec, ProtocolSpec

\* The kernel under the program, with the time-outs the program uses: no
\* delay and no OSSemSet is among its calls.
Kernel == INSTANCE UcosTasks
            WITH Timeouts <- {0, SLICE_TICKS}, Ticks <- {}, Counts <- {},
                 credit <- Account

\* The console task never waits in the kernel.
ConsoleNeverWaits == evt[ConsoleTask] = NoEvent

\* What UcosTasks assumes of tasks and arguments holds here.
LEMMA KernelAssumption ==
  /\ IsFiniteSet(Tasks)
  /\ {0, SLICE_TICKS} \subseteq Nat /\ {} \subseteq Nat \ {0}
  /\ \A e \in Events : {} \subseteq 0..Limit[e]
<1>1. Tasks = {1, 2}
  BY QsysAssumption DEF QsysAssumption
<1>2. IsFiniteSet({1, 2})
  <2>1. {1, 2} = {1} \cup {2} /\ IsFiniteSet({1})
    BY FS_Singleton
  <2> QED
    BY <2>1, FS_AddElement
<1> QED
  BY <1>1, <1>2, Sizes

\* The three ways through a pend call of the task.
LEMMA WaitsIsKernelStep ==
  ASSUME KernelInv, NEW label, NEW e \in Events, NEW timeout \in {0, SLICE_TICKS},
         Waits(label, e, timeout)
  PROVE  Kernel!TaskBlocks(ReactionTask, e, timeout)
<1>1. TaskCalls
  BY Names DEF Waits, At, Runs, TaskCalls, InCall
<1>2. Account' = Account
  BY <1>1, PendBlocksAccount DEF Waits
<1> QED
  BY <1>2
  DEF Waits, At, InCall, Keep, schedVars, PendBlocks, EventTaskWait, Runs,
      Kernel!TaskBlocks, Kernel!Caller, Kernel!Runs, Kernel!PendBlocks,
      Kernel!EventTaskWait, Kernel!schedVars

LEMMA ReturnsIsKernelStep ==
  ASSUME KernelInv, At(pc), PendReturns, UNCHANGED schedVars
  PROVE  Kernel!TaskReturns(ReactionTask)
<1>1. cur = ReactionTask /\ cur \in Tasks /\ Runs(cur)
  BY Names DEF At, Runs
<1>2. Account' = IF pendStat[cur] = "OK"
                 THEN [Account EXCEPT ![evt[cur]] = Account[evt[cur]] - 1]
                 ELSE Account
  BY <1>1, KernelAssumption, PendReturnsAccount
<1> QED
  BY <1>1, <1>2
  DEF PendReturns, Runs, schedVars,
      Kernel!TaskReturns, Kernel!Runs, Kernel!PendReturns, Kernel!schedVars

LEMMA GetsIsKernelStep ==
  ASSUME KernelInv, NEW label, NEW e \in Events, Gets(label, e) \/ TimesOut(label)
  PROVE  Kernel!TaskTakes(ReactionTask, e) \/ Kernel!TaskReturns(ReactionTask)
<1>1. CASE ~InCall /\ PendTakes(e) /\ At(label) /\ Keep
  <2>1. Account' = [Account EXCEPT ![e] = Account[e] - 1]
    BY <1>1, KernelAssumption, PendTakesAccount
  <2> QED
    BY <1>1, <2>1
    DEF At, InCall, Keep, schedVars, PendTakes, Runs,
        Kernel!TaskTakes, Kernel!Caller, Kernel!Runs, Kernel!PendTakes, Kernel!schedVars
<1>2. CASE At(label) /\ PendReturns /\ Keep
  BY <1>2, ReturnsIsKernelStep DEF At, Keep
<1> QED
  BY <1>1, <1>2 DEF Gets, TimesOut

\* A post of the handler or of the console task.
LEMMA PostIsKernelStep ==
  ASSUME KernelInv, NEW e \in Events, Post(e), UNCHANGED schedVars,
         nesting > 0 \/ TaskCalls
  PROVE  Kernel!Posts(e)
<1>1. Account' = IF waiting[e] = {} /\ cnt[e] >= Limit[e]
                 THEN Account ELSE [Account EXCEPT ![e] = Account[e] + 1]
  BY KernelAssumption, PostAccount
<1>2. nesting > 0 \/ \E t \in Tasks : Kernel!Caller(t)
  BY DEF TaskCalls, Runs, Kernel!Caller, Kernel!Runs
<1>3. Kernel!Post(e)
  BY DEF Post, PostHands, PostCounts, PostOverflows, EventTaskRdy, IsMostUrgent,
         Kernel!Post, Kernel!PostHands, Kernel!PostCounts, Kernel!PostOverflows,
         Kernel!EventTaskRdy, Kernel!IsMostUrgent
<1> QED
  BY <1>1, <1>2, <1>3 DEF schedVars, Kernel!Posts, Kernel!schedVars

\* Interrupts and the scheduler.
LEMMA ProcessorIsKernelStep ==
  ASSUME KernelInv, Interrupted \/ TickIsr \/ Resume \/ Switch
  PROVE  Kernel!Interrupt \/ Kernel!Tick \/ Kernel!Leave \/ Kernel!Switch
<1>1. CASE Interrupted
  BY <1>1, SwitchAccount DEF Interrupted, IntEnter, Kernel!Interrupt, Kernel!IntEnter
<1>2. CASE TickIsr
  BY <1>2, TimeTickAccount
  DEF TickIsr, TimeTick, schedVars, Kernel!Tick, Kernel!TimeTick, Kernel!schedVars
<1>3. CASE Resume
  BY <1>3, SwitchAccount
  DEF Resume, IntExit, IsMostUrgent, Kernel!Leave, Kernel!IntExit, Kernel!IsMostUrgent
<1>4. CASE Switch
  BY <1>4, SwitchAccount
  DEF Switch, Dispatch, IsMostUrgent, Kernel!Switch, Kernel!Dispatch,
      Kernel!IsMostUrgent
<1> QED
  BY <1>1, <1>2, <1>3, <1>4

\* A step without the kernel.
LEMMA StutterIsKernelStep ==
  ASSUME UNCHANGED kernelVars
  PROVE  UNCHANGED Kernel!vars
BY SwitchAccount DEF kernelVars, Kernel!vars, Kernel!kernelVars

LEMMA TaskIsKernelStep ==
  ASSUME KernelInv, ReactionMeterTask
  PROVE  [Kernel!Next]_(Kernel!vars)
<1> DEFINE Call(e, timeout) ==
             \/ Kernel!TaskBlocks(ReactionTask, e, timeout)
             \/ Kernel!TaskTakes(ReactionTask, e)
             \/ Kernel!TaskReturns(ReactionTask)
<1>1. ASSUME NEW e \in Events, NEW timeout \in {0, SLICE_TICKS}, Call(e, timeout)
      PROVE  Kernel!Next
  BY <1>1, Names DEF Kernel!Next
<1> HIDE DEF Call
<1>2. ASSUME NEW label, NEW e \in Events, NEW timeout \in {0, SLICE_TICKS},
             Waits(label, e, timeout) \/ Gets(label, e) \/ TimesOut(label)
      PROVE  Call(e, timeout)
  BY <1>2, WaitsIsKernelStep, GetsIsKernelStep DEF Call
<1>3. CASE Idle \/ ReadResult \/ Stop
  BY <1>3, StutterIsKernelStep DEF Idle, ReadResult, Stop
<1>4. CASE Register
  BY <1>1, <1>2, <1>4, Names DEF Register
<1>5. CASE Ready
  BY <1>1, <1>2, <1>5, Names DEF Ready
<1>6. CASE Start
  BY <1>1, <1>2, <1>6, Names DEF Start
<1>7. CASE Count
  BY <1>1, <1>2, <1>7, Names DEF Count
<1>8. CASE Show
  BY <1>1, <1>2, <1>8, Names DEF Show
<1> QED
  BY <1>3, <1>4, <1>5, <1>6, <1>7, <1>8 DEF ReactionMeterTask

LEMMA KernelSteps ==
  ASSUME KernelInv, ConsoleNeverWaits, [Next]_vars
  PROVE  [Kernel!Next]_(Kernel!vars)
<1>1. CASE Meter \/ Millisecond \/ Player \/ UNCHANGED vars
  BY <1>1, StutterIsKernelStep DEF Meter, Millisecond, Player, Button, vars
<1>2. CASE Interrupted \/ TickIsr \/ Resume \/ Switch
  BY <1>2, ProcessorIsKernelStep DEF Kernel!Next
<1>3. CASE MeterIsr
  <2>1. CASE StateRegister \in DOMAIN Posted
    <3>1. Posted[StateRegister] \in Events
      BY <2>1, Names DEF Posted
    <3>2. Kernel!Posts(Posted[StateRegister])
      BY <1>3, <2>1, <3>1, PostIsKernelStep DEF MeterIsr
    <3> QED
      BY <3>1, <3>2 DEF Kernel!Next
  <2>2. CASE StateRegister \notin DOMAIN Posted
    BY <1>3, <2>2, StutterIsKernelStep DEF MeterIsr, kernelVars, schedVars
  <2> QED
    BY <2>1, <2>2
<1>4. CASE Console
  <2>1. TaskCalls
    BY <1>4, Names DEF Console, Runs, TaskCalls, ConsoleNeverWaits
  <2>2. Kernel!Posts("player_queue")
    BY <1>4, <2>1, Names, PostIsKernelStep DEF Console
  <2> QED
    BY <2>2, Names DEF Kernel!Next
<1>5. CASE ReactionMeterTask
  BY <1>5, TaskIsKernelStep
<1> QED
  BY <1>1, <1>2, <1>3, <1>4, <1>5 DEF Next, Processor

\* Waits are entered and left by the task that runs, which is the other one.
LEMMA ConsoleStaysOut ==
  ASSUME KernelInv, ConsoleNeverWaits, [Next]_vars
  PROVE  ConsoleNeverWaits'
<1> USE DEF ConsoleNeverWaits
<1>1. ConsoleTask # ReactionTask /\ evt \in [Tasks -> Events \cup {NoEvent}]
      /\ ConsoleTask \in Tasks
  BY Names DEF ConsoleTask, ReactionTask, KernelInv, KernelTypeOK
<1>2. CASE Meter \/ Millisecond \/ Player \/ UNCHANGED vars
  BY <1>2 DEF Meter, Millisecond, Player, Button, vars, kernelVars
<1>3. CASE Processor \/ Console
  BY <1>3
  DEF Processor, Console, Interrupted, TickIsr, TimeTick, MeterIsr, Resume, Switch,
      Dispatch, Post, PostHands, PostCounts, PostOverflows, EventTaskRdy
<1>4. CASE ReactionMeterTask
  <2>1. evt' = evt \/ \E e : evt' = [evt EXCEPT ![ReactionTask] = e]
    BY <1>4
    DEF ReactionMeterTask, Idle, Register, Ready, Start, Count, ReadResult, Stop,
        Show, Waits, Gets, TimesOut, At, Runs, PendBlocks, EventTaskWait, PendTakes,
        PendReturns, kernelVars
  <2> QED
    BY <1>1, <2>1
<1> QED
  BY <1>2, <1>3, <1>4 DEF Next

\* The program runs on the kernel as UcosTasks describes it: every step of it
\* is one operation of the kernel, called by a task that runs and is in no
\* other call or by a handler, or does not touch the kernel.  Every token put
\* into a semaphore or the queue is therefore accounted for, also when a pulse
\* or a press meets a wait that times out.
THEOREM RunsKernel == Spec => Kernel!Spec
<1>1. Init => Kernel!Init
  <2> SUFFICES ASSUME Init PROVE Kernel!Init
    OBVIOUS
  <2>1. Kernel!KernelInit
    BY DEF Init, KernelInit, IsMostUrgent, Priorities,
           Kernel!KernelInit, Kernel!IsMostUrgent, Kernel!Priorities
  <2>2. Account = [e \in Events |-> 0]
    BY InitAccount DEF Init
  <2> QED
    BY <2>1, <2>2 DEF Kernel!Init
<1>2. Init => ConsoleNeverWaits
  BY Names DEF Init, KernelInit, ConsoleNeverWaits
<1>3. IInv => KernelInv
  BY DEF IInv
<1> QED
  BY <1>1, <1>2, <1>3, ConsoleStaysOut, KernelSteps, Inductive, PTL DEF Spec, Kernel!Spec
=============================================================================
