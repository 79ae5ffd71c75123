----------------------------- MODULE RtosProofs -----------------------------
(***************************************************************************)
(* The RTOS application for every delay, time-out, and behaviour of the     *)
(* player: types, and the kernel's invariant in the composition with the   *)
(* buttons, the tick and the tasks.  Then, for players whose buttons do    *)
(* not bounce, that a score is the time of a response, and for patient     *)
(* ones that a round ends with theirs and the program is the game of       *)
(* ReactionGame.  At the end: it implements the specification of the       *)
(* kernel.                                                                 *)
(***************************************************************************)
EXTENDS RtosApp, KernelProofs

\* The counting loop stops, the turns are reset, and a delay that was drawn
\* is one of Delays.
LoopsStop ==
  /\ pc = "COUNT" => time < RESP_TIMEOUT
  /\ pc # "register" => rounds <= 3
  /\ pc \in {"delayed", "cheated", "again"} => delay \in Delays

\* The task delays only between its pend calls: no delay overwrites the
\* countdown of a wait.
DelaysBetweenCalls ==
  pc \notin {"register", "ready", "COUNT"} => evt[ReactionTask] = NoEvent

\* The inductive invariant.
IInv == TypeOK /\ KernelInv /\ LoopsStop /\ DelaysBetweenCalls

\* What buttons, handlers and task contribute to it without the kernel.
AppInv == TypeOK /\ LoopsStop

-----------------------------------------------------------------------------
\* The constants, and the names of tasks and events.
LEMMA Sizes ==
  /\ Delays \subseteq Nat \ {0} /\ RESP_TIMEOUT \in Nat \ {0}
  /\ MIN_RESP_TIME \in Nat /\ SHOW_TICKS \in Nat \ {0}
BY RtosAssumption DEF RtosAssumption

LEMMA Names ==
  /\ ReactionTask \in Tasks /\ ConsoleTask \in Tasks
  /\ ReactionTask # ConsoleTask
  /\ "start_sem" \in Events /\ "stop_sem" \in Events
  /\ "player_queue" \in Events
BY RtosAssumption DEF RtosAssumption, ReactionTask, ConsoleTask

\* The state main leaves behind.
LEMMA InitIInv == Init => IInv
<1> SUFFICES ASSUME Init PROVE IInv
  OBVIOUS
<1>1. KernelInv
  BY KernelInitInv DEF Init
<1>2. TypeOK
  BY Sizes DEF Init, TypeOK, UINT16_MAX
<1>3. LoopsStop
  BY Sizes DEF Init, LoopsStop
<1>4. DelaysBetweenCalls
  BY Names DEF Init, KernelInit, DelaysBetweenCalls
<1> QED
  BY <1>1, <1>2, <1>3, <1>4 DEF IInv

-----------------------------------------------------------------------------
\* Buttons and time.
LEMMA WorldAppInv ==
  ASSUME AppInv, Player \/ Millisecond
  PROVE  AppInv'
<1> USE DEF AppInv, TypeOK, LoopsStop, lines, task
<1>1. ASSUME NEW key \in Keys, Press(key) PROVE AppInv'
  BY <1>1 DEF Press
<1>2. ASSUME NEW key \in Keys, Lift(key) PROVE AppInv'
  BY <1>2 DEF Lift
<1>3. CASE Millisecond
  BY <1>3 DEF Millisecond
<1> QED
  BY <1>1, <1>2, <1>3 DEF Player

\* Handlers, the scheduler and the console leave the task alone.
LEMMA ProcessorAppInv ==
  ASSUME AppInv, Processor \/ Console
  PROVE  AppInv'
<1> USE DEF AppInv, TypeOK, LoopsStop, lines, task
<1>1. CASE Interrupted
  BY <1>1 DEF Interrupted
<1>2. CASE TickIsr
  BY <1>2 DEF TickIsr
<1>3. CASE IsrRead
  BY <1>3 DEF IsrRead
<1>4. CASE IsrClear
  BY <1>4 DEF IsrClear
<1>5. CASE Resume
  BY <1>5 DEF Resume
<1>6. CASE Switch
  BY <1>6 DEF Switch
<1>7. CASE Console
  BY <1>7 DEF Console
<1> QED
  BY <1>1, <1>2, <1>3, <1>4, <1>5, <1>6, <1>7 DEF Processor

\* The states of the task.
LEMMA TaskAppInv ==
  ASSUME AppInv, ReactionMeterTask
  PROVE  AppInv'
<1> USE Sizes
    DEF AppInv, TypeOK, LoopsStop, lines, task,
        Waits, Gets, TimesOut, At, Alone, Keep, Goto
<1>1. CASE Idle
  BY <1>1 DEF Idle
<1>2. CASE Register
  <2>1. UNCHANGED <<lines, pressed, time, delay, response_time, highscore>>
    BY <1>2 DEF Register
  <2>2. /\ pc = "register"
        /\ \/ pc' = pc /\ rounds' = rounds
           \/ pc' = "ready" /\ rounds' = 0
    BY <1>2 DEF Register
  <2>3. TypeOK'
    BY <2>1, <2>2
  <2>4. LoopsStop'
    BY <2>1, <2>2
  <2> QED
    BY <2>3, <2>4
<1>3. CASE Ready
  <2>1. /\ UNCHANGED <<lines, pressed, time, delay, response_time, highscore, rounds>>
        /\ pc = "ready" /\ pc' \in {"ready", "START"}
    BY <1>3 DEF Ready
  <2>2. TypeOK'
    BY <2>1
  <2>3. LoopsStop'
    BY <2>1
  <2> QED
    BY <2>2, <2>3
<1>4. CASE Start
  BY <1>4 DEF Start
<1>5. CASE Delay
  BY <1>5 DEF Delay
<1>6. CASE Delayed
  BY <1>6 DEF Delayed, BeginCount
<1>7. CASE Cheated \/ Again
  BY <1>7 DEF Cheated, Again
<1>8. CASE Count
  <2>1. UNCHANGED <<lines, pressed, delay, highscore, rounds>>
    BY <1>8 DEF Count
  <2>2. /\ pc = "COUNT"
        /\ \/ pc' = "COUNT" /\ UNCHANGED <<time, response_time>>
           \/ /\ pc' = "COUNT" /\ time' = time + 1 /\ time + 1 < RESP_TIMEOUT
              /\ UNCHANGED response_time
           \/ pc' = "IDLE" /\ time' = time + 1 /\ UNCHANGED response_time
           \/ pc' = "IDLE" /\ UNCHANGED <<time, response_time>>
           \/ pc' = "STOP" /\ time' = time /\ response_time' = time
    BY <1>8 DEF Count
  <2>3. TypeOK'
    BY <2>1, <2>2
  <2>4. LoopsStop'
    BY <2>1, <2>2
  <2> QED
    BY <2>3, <2>4
<1>9. CASE Stop
  BY <1>9 DEF Stop
<1>10. CASE Show
  BY <1>10 DEF Show
<1> QED
  BY <1>1, <1>2, <1>3, <1>4, <1>5, <1>6, <1>7, <1>8, <1>9, <1>10
  DEF ReactionMeterTask

-----------------------------------------------------------------------------
(* Every step uses the kernel as the lemmas of KernelProofs demand.        *)

\* The three ways through a pend call, and where the call is open after it.
LEMMA WaitsInv ==
  ASSUME KernelInv, NEW label \in {"register", "ready", "COUNT"},
         NEW e \in Events, NEW timeout \in Nat, Waits(label, e, timeout)
  PROVE  KernelInv' /\ DelaysBetweenCalls'
<1>1. TaskCalls
  BY Names DEF Waits, At, Runs, TaskCalls, InCall
<1>2. KernelInv'
  BY <1>1, PendBlocksInv DEF Waits, Keep
<1>3. pc' \in {"register", "ready", "COUNT"}
  BY DEF Waits, At, task
<1> QED
  BY <1>2, <1>3 DEF DelaysBetweenCalls

LEMMA GetsInv ==
  ASSUME KernelInv, NEW label, NEW e \in Events,
         Gets(label, e) \/ TimesOut(label)
  PROVE  KernelInv' /\ evt'[ReactionTask] = NoEvent
<1>1. cur = ReactionTask /\ cur \in Tasks /\ Runs(cur) /\ UNCHANGED schedVars
  BY Names DEF Gets, TimesOut, At, Runs, Keep
<1>2. (PendTakes(e) /\ ~InCall) \/ PendReturns
  BY DEF Gets, TimesOut
<1>3. KernelInv'
  BY <1>1, <1>2, PendTakesInv, PendReturnsInv
<1>4. evt \in [Tasks -> Events \cup {NoEvent}]
  BY DEF KernelInv, KernelTypeOK
<1>5. evt'[ReactionTask] = NoEvent
  BY <1>1, <1>2, <1>4, Names DEF PendTakes, PendReturns, InCall
<1> QED
  BY <1>3, <1>5

\* A delay between two calls.
LEMMA DelaysInv ==
  ASSUME KernelInv, NEW label, At(label), evt[ReactionTask] = NoEvent,
         NEW ticks \in Nat \ {0}, TimeDly(ticks), Keep
  PROVE  KernelInv' /\ evt'[ReactionTask] = NoEvent
<1>1. TaskCalls
  BY Names DEF At, Runs, TaskCalls
<1> QED
  BY <1>1, TimeDlyInv DEF Keep, TimeDly

LEMMA TaskKernelInv ==
  ASSUME IInv, ReactionMeterTask
  PROVE  KernelInv' /\ DelaysBetweenCalls'
<1> USE Names, Sizes DEF IInv
<1>1. CASE Register
  BY <1>1, WaitsInv, GetsInv DEF Register, DelaysBetweenCalls
<1>2. CASE Ready
  BY <1>2, WaitsInv, GetsInv DEF Ready, DelaysBetweenCalls
<1>3. CASE Count
  <2>1. \/ Waits("COUNT", "stop_sem", 1)
        \/ TimesOut("COUNT") \/ Gets("COUNT", "stop_sem")
    BY <1>3 DEF Count
  <2> QED
    BY <2>1, WaitsInv, GetsInv DEF DelaysBetweenCalls
<1>4. CASE \E label \in {"IDLE", "START", "delayed", "STOP", "show"} : Alone(label)
  BY <1>4, StutterInv DEF Alone, At, DelaysBetweenCalls, kernelVars
<1>5. CASE Cheated
  <2>1. 0 \in 0..Limit["stop_sem"]
    BY UcosAssumption DEF UcosAssumption
  <2>2. KernelInv'
    BY <1>5, <2>1, SemSetInv DEF Cheated, Keep
  <2> QED
    BY <1>5, <2>2 DEF Cheated, SemSet, At, Goto, DelaysBetweenCalls
<1>6. ASSUME NEW label \in {"START", "DELAY", "again", "show"}, At(label),
             NEW ticks \in Nat \ {0}, TimeDly(ticks), Keep
      PROVE  KernelInv' /\ DelaysBetweenCalls'
  <2>1. evt[ReactionTask] = NoEvent
    BY <1>6 DEF At, DelaysBetweenCalls
  <2> QED
    BY <1>6, <2>1, DelaysInv DEF DelaysBetweenCalls
<1>7. CASE Start \/ Show
  BY <1>7, <1>4, <1>6 DEF Start, Show
<1>8. CASE Delay
  BY <1>8, <1>6 DEF Delay
<1>9. CASE Again
  <2>1. delay \in Nat \ {0}
    BY <1>9 DEF Again, At, LoopsStop
  <2> QED
    BY <1>9, <2>1, <1>6 DEF Again
<1>10. CASE Idle \/ Delayed \/ Stop
  BY <1>10, <1>4 DEF Idle, Delayed, Stop
<1> QED
  BY <1>1, <1>2, <1>3, <1>5, <1>7, <1>8, <1>9, <1>10 DEF ReactionMeterTask

\* A post of the handler or of the console task leaves every call open.
LEMMA PostsInv ==
  ASSUME IInv, nesting = 0 => cur \in Tasks, NEW e \in Events, Post(e),
         UNCHANGED schedVars, UNCHANGED pc
  PROVE  KernelInv' /\ DelaysBetweenCalls'
<1>1. KernelInv'
  BY PostInv DEF IInv
<1>2. UNCHANGED evt
  BY DEF Post, PostHands, PostCounts, PostOverflows, EventTaskRdy
<1> QED
  BY <1>1, <1>2 DEF IInv, DelaysBetweenCalls

LEMMA ProcessorKernelInv ==
  ASSUME IInv, Processor \/ Console
  PROVE  KernelInv' /\ DelaysBetweenCalls'
<1> USE DEF IInv, DelaysBetweenCalls, task
<1>1. CASE Interrupted
  BY <1>1, IntEnterInv DEF Interrupted
<1>2. CASE TickIsr
  <2>1. KernelInv'
    BY <1>2, TimeTickInv DEF TickIsr
  <2> QED
    BY <1>2, <2>1 DEF TickIsr, TimeTick
<1>3. CASE IsrRead
  BY <1>3, StutterInv DEF IsrRead, kernelVars
<1>4. CASE IsrClear
  <2>1. nesting > 0 /\ UNCHANGED schedVars /\ UNCHANGED pc
    BY <1>4 DEF IsrClear
  <2>2. \/ Post("start_sem") \/ Post("stop_sem")
        \/ UNCHANGED <<cnt, waiting, evt, stat, pendStat, dly, rdy, sched>>
    BY <1>4 DEF IsrClear, ButtonIsr
  <2>3. CASE Post("start_sem") \/ Post("stop_sem")
    BY <2>1, <2>3, PostsInv, Names DEF KernelInv, KernelTypeOK
  <2>4. CASE UNCHANGED <<cnt, waiting, evt, stat, pendStat, dly, rdy, sched>>
    BY <2>1, <2>4, StutterInv DEF kernelVars, schedVars
  <2> QED
    BY <2>2, <2>3, <2>4
<1>5. CASE Resume
  BY <1>5, IntExitInv DEF Resume
<1>6. CASE Switch
  <2>1. KernelInv'
    BY <1>6, DispatchInv DEF Switch
  <2> QED
    BY <1>6, <2>1 DEF Switch, Dispatch
<1>7. CASE Console
  <2>1. cur \in Tasks /\ UNCHANGED schedVars /\ Post("player_queue") /\ UNCHANGED pc
    BY <1>7, Names DEF Console, Runs
  <2> QED
    BY <2>1, Names, PostsInv
<1> QED
  BY <1>1, <1>2, <1>3, <1>4, <1>5, <1>6, <1>7 DEF Processor

-----------------------------------------------------------------------------
\* Every step of the program, with the kernel's part and the others apart.
LEMMA StepIInv == IInv /\ [Next]_vars => IInv'
<1> SUFFICES ASSUME IInv, [Next]_vars PROVE IInv'
  OBVIOUS
<1>1. CASE Player \/ Millisecond \/ UNCHANGED vars
  <2>1. UNCHANGED kernelVars /\ UNCHANGED pc
    BY <1>1 DEF Player, Press, Lift, Millisecond, vars, task
  <2>2. KernelInv' /\ DelaysBetweenCalls'
    BY <2>1, StutterInv DEF IInv, DelaysBetweenCalls, kernelVars
  <2>3. AppInv'
    <3>1. CASE UNCHANGED vars
      BY <3>1 DEF IInv, AppInv, TypeOK, LoopsStop, vars, lines, task
    <3> QED
      BY <1>1, <3>1, WorldAppInv DEF IInv, AppInv
  <2> QED
    BY <2>2, <2>3 DEF IInv, AppInv
<1>2. CASE Processor \/ Console
  BY <1>2, ProcessorAppInv, ProcessorKernelInv DEF IInv, AppInv
<1>3. CASE ReactionMeterTask
  BY <1>3, TaskAppInv, TaskKernelInv DEF IInv, AppInv
<1> QED
  BY <1>1, <1>2, <1>3 DEF Next

\* Every state of the composed system satisfies the inductive invariant
\* (rtos_main.cpp on the kernel, with the interrupts of buttons and tick).
THEOREM Inductive == Spec => []IInv
BY InitIInv, StepIInv, PTL DEF Spec

\* Time, scores and turns keep to their ranges.
THEOREM Typed == Spec => []TypeOK
BY Inductive, PTL DEF IInv

\* The guarantees of the kernel hold in this program: its tasks and handlers
\* keep to the rules under which they were proved.
THEOREM KernelGuaranteesHold == Spec => []KernelInv
BY Inductive, PTL DEF IInv

\* rtos_main.cpp calls OSTimeDly only when no call to pend is open.
THEOREM NoDelayInsideCall == Spec => []DelaysBetweenCalls
BY Inductive, PTL DEF IInv
-----------------------------------------------------------------------------
(* Responses, with people who press one button after the other, whatever they *)
(* press and when.                                                         *)
NoBounces == "bounce" \notin Habits

\* And with people who press KEY1 only to cheat, by holding it over the end of
\* a delay, and to respond before the counting loop ends.  KEY0 and
\* names come any time.
PatientPlayers ==
  /\ Habits \subseteq {"holds", "key0", "names"}
  /\ Reactions \subseteq 0..(RESP_TIMEOUT - 1)

OneIf(b) == IF b THEN 1 ELSE 0

\* A post has ended the task's wait for stop_sem, and it has not run since.
Handed ==
  /\ evt[ReactionTask] = "stop_sem"
  /\ stat[ReactionTask] = "RDY" /\ pendStat[ReactionTask] = "OK"

\* Presses of KEY1 that are under way to the task: counted in stop_sem, in the
\* hands of the task, or captured and not yet posted.
Tokens    == cnt["stop_sem"] + OneIf(Handed)
Responses == Tokens + OneIf(RESP_KEY \in capture)

\* The port holds one press at most, the handler has read that one, and KEY1 is
\* not let go before it has been noticed.
Captures ==
  /\ capture \in {{}, {START_KEY}, {RESP_KEY}}
  /\ isr = "clear" => edge_capture = capture /\ capture # {} /\ timer = 0 /\ nesting > 0
  /\ RESP_KEY \in capture => RESP_KEY \in pressed

\* The delay ends with a tick.
DelayEnds == pc = "delayed" /\ ReactionTask \in rdy => timer = 0

\* While counting, presses are under way iff the player has responded, unless
\* they are older and the first iteration has yet to take one.
Found ==
  pc = "COUNT" =>
    \/ responded # UNMEASURED /\ Responses >= 1
    \/ responded = UNMEASURED /\ Responses = 0
    \/ /\ responded = UNMEASURED /\ time = 0 /\ evt[ReactionTask] = NoEvent
       /\ RESP_KEY \notin capture

\* With patient players the only press of KEY1 under way before the signal is
\* that of a button still held, except where cheat prevention is about to
\* forget all of them, and the handler has looked at the buttons when
\* the delay ends; after the signal there is one iff the player has responded.
Heard ==
  /\ pc \in {"START", "DELAY", "delayed", "again"} =>
       Responses \in {0, 1} /\ (Responses = 1 => RESP_KEY \in pressed)
  /\ pc = "delayed" /\ ReactionTask \in rdy /\ nesting = 0 => RESP_KEY \notin capture
  /\ pc = "COUNT" => /\ Responses = OneIf(responded # UNMEASURED)
                     /\ responded \in Reactions \cup {UNMEASURED}
  /\ pc \notin {"START", "DELAY", "delayed", "cheated", "again", "COUNT"} =>
       Responses = 0

\* The time that has passed, against the iterations of the counting loop.
Counted ==
  pc = "COUNT" =>
    /\ timer = 1 => stat[ReactionTask] = "PEND"
    /\ stat[ReactionTask] = "RDY" => ReactionTask \in rdy
    /\ stat[ReactionTask] = "PEND" => dly[ReactionTask] = 1 /\ elapsed = time + timer
    /\ evt[ReactionTask] = NoEvent => elapsed = time
    /\ pendStat[ReactionTask] = "TO" => elapsed = time + 1
    /\ elapsed \in {time, time + 1}

\* The response, against the iteration it will be found in.
Measured ==
  pc = "COUNT" /\ responded # UNMEASURED =>
    /\ responded \in {time, time + 1}
    /\ pendStat[ReactionTask] = "TO" /\ nesting = 0 /\ RESP_KEY \in capture =>
         responded = elapsed

\* Which call the task may be in; the other task never waits.
CallOf == [register |-> "player_queue", ready |-> "start_sem", COUNT |-> "stop_sem"]
Calls ==
  /\ evt[ConsoleTask] = NoEvent
  /\ evt[ReactionTask] # NoEvent => /\ pc \in DOMAIN CallOf
                                    /\ evt[ReactionTask] = CallOf[pc]

\* A score that shows is a time, if a press too many is too fast for a score.
Timed == MIN_RESP_TIME > 0 => ScoreIsTime

Responding == /\ DelayEnds /\ Counted /\ Measured /\ Found /\ Timed
              /\ PatientPlayers => Heard
RoundInv == Captures /\ Calls /\ Responding /\ elapsed \in Nat
WholeInv == IInv /\ RoundInv

-----------------------------------------------------------------------------
(* Presses under way, operation by operation of the kernel.                *)

LEMMA OnlyTasks == Tasks = {ReactionTask, ConsoleTask} /\ ReactionTask # ConsoleTask
BY RtosAssumption DEF RtosAssumption, ReactionTask, ConsoleTask

\* The task's fields, as the invariant of the kernel types them.
LEMMA FieldTypes ==
  ASSUME KernelInv
  PROVE  /\ cnt["stop_sem"] \in Nat /\ Tokens \in Nat /\ dly[ReactionTask] \in Nat
         /\ Tokens = 0 <=> cnt["stop_sem"] = 0 /\ ~Handed
         /\ stat[ReactionTask] \in {"RDY", "PEND"}
         /\ pendStat[ReactionTask] \in {"OK", "TO"}
         /\ evt[ReactionTask] = NoEvent => pendStat[ReactionTask] = "OK"
         /\ stat[ReactionTask] = "PEND" =>
              pendStat[ReactionTask] = "OK" /\ ReactionTask \notin rdy
         /\ nesting \in {0, 1} /\ NoEvent \notin Events /\ Limit["stop_sem"] >= 1
BY Names, UcosAssumption
DEF UcosAssumption, KernelInv, KernelTypeOK, FieldsAgree, ReadyExact, Tokens, OneIf

\* What no step of the hardware does to the task.
TaskFieldsStay ==
  /\ stat'[ReactionTask] = stat[ReactionTask]
  /\ pendStat'[ReactionTask] = pendStat[ReactionTask]
  /\ dly'[ReactionTask] = dly[ReactionTask]
  /\ ReactionTask \in rdy' <=> ReactionTask \in rdy

\* OSSemPost and OSQPost leave the task alone or end its wait for that event.
LEMMA PostFields ==
  ASSUME KernelInv, Calls, NEW e \in Events, Post(e)
  PROVE  /\ evt' = evt
         /\ \/ TaskFieldsStay
            \/ /\ evt[ReactionTask] = e /\ cnt' = cnt
               /\ stat'[ReactionTask] = "RDY" /\ pendStat'[ReactionTask] = "OK"
               /\ ReactionTask \in rdy'
<1>1. CASE PostHands(e)
  <2>1. PICK t \in waiting[e] :
          /\ stat' = [stat EXCEPT ![t] = "RDY"]
          /\ pendStat' = [pendStat EXCEPT ![t] = "OK"]
          /\ rdy' = rdy \cup {t}
          /\ UNCHANGED <<cnt, evt>>
    BY <1>1 DEF PostHands, EventTaskRdy
  <2>2. t = ReactionTask /\ evt[t] = e /\ t \in Tasks
    BY OnlyTasks, UcosAssumption
    DEF UcosAssumption, KernelInv, KernelTypeOK, WaitListExact, Calls
  <2> QED
    BY <2>1, <2>2 DEF KernelInv, KernelTypeOK
<1>2. CASE PostCounts(e) \/ PostOverflows(e)
  BY <1>2 DEF PostCounts, PostOverflows, TaskFieldsStay
<1> QED
  BY <1>1, <1>2 DEF Post

\* A post of stop_sem is one more press under way, another post is none.
LEMMA PostTokens ==
  ASSUME KernelInv, Calls, NEW e \in Events, Post(e)
  PROVE  /\ e # "stop_sem" => Tokens' = Tokens
         /\ e = "stop_sem" => Tokens' \in Nat /\ Tokens' >= 1
         /\ e = "stop_sem" /\ Tokens = 0 => Tokens' = 1
<1>1. CASE PostHands(e)
  <2>1. PICK t \in waiting[e] :
          /\ stat' = [stat EXCEPT ![t] = "RDY"]
          /\ pendStat' = [pendStat EXCEPT ![t] = "OK"]
          /\ UNCHANGED <<cnt, evt>>
    BY <1>1 DEF PostHands, EventTaskRdy
  <2>2. t = ReactionTask /\ evt[t] = e /\ t \in Tasks
    BY OnlyTasks, UcosAssumption
    DEF UcosAssumption, KernelInv, KernelTypeOK, WaitListExact, Calls
  <2>3. Handed' <=> e = "stop_sem"
    BY <2>1, <2>2 DEF Handed, KernelInv, KernelTypeOK
  <2>4. Handed => e = "stop_sem"
    BY <2>2 DEF Handed
  <2> QED
    BY <2>1, <2>3, <2>4, FieldTypes DEF Tokens, OneIf
<1>2. CASE PostCounts(e)
  <2>1. Handed' = Handed
    BY <1>2 DEF PostCounts, Handed
  <2>2. cnt'["stop_sem"] = IF e = "stop_sem" THEN cnt["stop_sem"] + 1 ELSE cnt["stop_sem"]
    BY <1>2, Names DEF PostCounts, KernelInv, KernelTypeOK
  <2> QED
    BY <2>1, <2>2, FieldTypes DEF Tokens, OneIf
<1>3. CASE PostOverflows(e)
  <2>1. Tokens' = Tokens
    BY <1>3 DEF PostOverflows, Tokens, Handed
  <2>2. e = "stop_sem" => cnt["stop_sem"] >= 1
    BY <1>3, FieldTypes, Names, UcosAssumption DEF UcosAssumption, PostOverflows
  <2> QED
    BY <2>1, <2>2, FieldTypes DEF Tokens, OneIf
<1> QED
  BY <1>1, <1>2, <1>3 DEF Post

\* What the kernel does in a call of the task that waits.
LEMMA WaitsTokens ==
  ASSUME KernelInv, NEW label, NEW e \in Events, NEW timeout \in Nat,
         Waits(label, e, timeout)
  PROVE  /\ Tokens' = Tokens /\ (e = "stop_sem" => Tokens = 0)
         /\ evt[ReactionTask] = NoEvent
         /\ evt'[ReactionTask] = e /\ evt'[ConsoleTask] = evt[ConsoleTask]
         /\ stat'[ReactionTask] = "PEND" /\ pendStat'[ReactionTask] = "OK"
         /\ dly'[ReactionTask] = timeout /\ ReactionTask \notin rdy'
<1>1. /\ cur = ReactionTask /\ cur \in Tasks /\ evt[cur] = NoEvent /\ cnt' = cnt
      /\ stat' = [stat EXCEPT ![cur] = "PEND"] /\ evt' = [evt EXCEPT ![cur] = e]
      /\ pendStat' = [pendStat EXCEPT ![cur] = "OK"]
      /\ dly' = [dly EXCEPT ![cur] = timeout] /\ rdy' = rdy \ {cur}
  BY Names DEF Waits, At, Runs, InCall, PendBlocks, EventTaskWait
<1>2. /\ evt'[ReactionTask] = e /\ evt'[ConsoleTask] = evt[ConsoleTask]
      /\ stat'[ReactionTask] = "PEND" /\ pendStat'[ReactionTask] = "OK"
      /\ dly'[ReactionTask] = timeout /\ ReactionTask \notin rdy'
  BY <1>1, OnlyTasks DEF KernelInv, KernelTypeOK
<1>3. ~Handed /\ ~Handed'
  BY <1>1, <1>2, Names, UcosAssumption DEF UcosAssumption, Handed
<1>4. e = "stop_sem" => cnt["stop_sem"] = 0
  BY DEF Waits, PendBlocks
<1> QED
  BY <1>1, <1>2, <1>3, <1>4 DEF Tokens, OneIf

\* And in one that returns: with the event it has taken one token of it,
\* with a time-out it has met none.
LEMMA EndsTokens ==
  ASSUME KernelInv, Calls, NEW label \in DOMAIN CallOf, CallOf[label] \in Events,
         Gets(label, CallOf[label]) \/ TimesOut(label)
  PROVE  /\ Gets(label, CallOf[label]) =>
              Tokens' = IF label = "COUNT" THEN Tokens - 1 ELSE Tokens
         /\ Gets(label, CallOf[label]) /\ label = "COUNT" => Tokens >= 1
         /\ TimesOut(label) =>
              Tokens' = Tokens /\ (label = "COUNT" => Tokens = 0)
         /\ evt'[ReactionTask] = NoEvent /\ evt'[ConsoleTask] = evt[ConsoleTask]
         /\ stat'[ReactionTask] = "RDY" /\ pendStat'[ReactionTask] = "OK"
         /\ ReactionTask \in rdy' /\ stat[ReactionTask] = "RDY"
<1>1. /\ cur = ReactionTask /\ cur \in Tasks /\ Runs(cur) /\ pc = label
      /\ NoEvent \notin Events
  BY Names, UcosAssumption DEF UcosAssumption, Gets, TimesOut, At, Runs
<1>2. stat[ReactionTask] = "RDY" /\ ReactionTask \in rdy
  BY <1>1, RunningIsReady
<1>3. CallOf[label] = "stop_sem" <=> label = "COUNT"
  BY DEF CallOf
<1>4. CASE Gets(label, CallOf[label]) /\ ~InCall /\ PendTakes(CallOf[label])
  <2>1. /\ cnt[CallOf[label]] > 0 /\ evt[ReactionTask] = NoEvent
        /\ cnt' = [cnt EXCEPT ![CallOf[label]] = @ - 1]
        /\ UNCHANGED <<evt, stat, pendStat, rdy>>
    BY <1>4 DEF PendTakes, InCall
  <2>2. ~Handed /\ ~Handed'
    BY <1>1, <2>1, Names DEF Handed
  <2>3. cnt'["stop_sem"] = IF label = "COUNT" THEN cnt["stop_sem"] - 1 ELSE cnt["stop_sem"]
    BY <1>3, <2>1, Names DEF KernelInv, KernelTypeOK
  <2>4. ~TimesOut(label)
    BY <1>4 DEF TimesOut
  <2>5. Tokens = cnt["stop_sem"] /\ Tokens' = cnt'["stop_sem"]
    <3>1. cnt'["stop_sem"] \in Int
      BY <2>3, FieldTypes
    <3> QED
      BY <2>2, <3>1, FieldTypes DEF Tokens, OneIf
  <2>6. label = "COUNT" => Tokens >= 1
    BY <1>3, <2>1, <2>5, FieldTypes
  <2>7. pendStat[ReactionTask] = "OK"
    BY <2>1, FieldTypes
  <2> QED
    BY <1>2, <2>1, <2>3, <2>4, <2>5, <2>6, <2>7
<1>5. CASE InCall /\ PendReturns
  <2>1. /\ evt[ReactionTask] = CallOf[label] /\ cnt' = cnt /\ rdy' = rdy
        /\ evt' = [evt EXCEPT ![ReactionTask] = NoEvent]
        /\ stat' = [stat EXCEPT ![ReactionTask] = "RDY"]
        /\ pendStat' = [pendStat EXCEPT ![ReactionTask] = "OK"]
    BY <1>1, <1>5 DEF InCall, Calls, PendReturns
  <2>2. /\ evt'[ReactionTask] = NoEvent /\ evt'[ConsoleTask] = evt[ConsoleTask]
        /\ stat'[ReactionTask] = "RDY" /\ pendStat'[ReactionTask] = "OK"
    BY <2>1, OnlyTasks DEF KernelInv, KernelTypeOK
  <2>3. ~Handed'
    BY <1>1, <2>2, Names DEF Handed
  <2>4. CASE Gets(label, CallOf[label])
    <3>1. pendStat[ReactionTask] = "OK" /\ ~TimesOut(label)
      BY <1>5, <2>4 DEF Gets, TimesOut
    <3>2. Handed <=> label = "COUNT"
      BY <1>2, <1>3, <2>1, <3>1 DEF Handed
    <3> QED
      BY <1>2, <2>1, <2>2, <2>3, <3>1, <3>2, FieldTypes DEF Tokens, OneIf
  <2>5. CASE TimesOut(label) /\ ~Gets(label, CallOf[label])
    <3>1. pendStat[ReactionTask] = "TO" /\ ~Handed
      BY <2>5 DEF TimesOut, Handed
    <3>2. ReactionTask \in waiting[CallOf[label]]
      BY <1>1, <2>1, <3>1 DEF KernelInv, WaitListExact
    <3>3. label = "COUNT" => cnt["stop_sem"] = 0
      BY <1>3, <3>2, FieldTypes, Names DEF KernelInv, TokensMeanNoWaiter
    <3> QED
      BY <1>2, <2>1, <2>2, <2>3, <2>5, <3>1, <3>3, FieldTypes DEF Tokens, OneIf
  <2> QED
    BY <2>4, <2>5
<1> QED
  BY <1>4, <1>5 DEF Gets, TimesOut

-----------------------------------------------------------------------------
(* The invariant of the rounds, step by step.                              *)

LEMMA Parts ==
  ASSUME WholeInv
  PROVE  /\ KernelInv /\ TypeOK /\ LoopsStop /\ DelaysBetweenCalls
         /\ Captures /\ DelayEnds /\ Counted /\ Measured /\ Calls /\ Found /\ Timed
         /\ elapsed \in Nat /\ time \in Nat /\ Tokens \in Nat
         /\ PatientPlayers => Heard
BY FieldTypes DEF WholeInv, RoundInv, Responding, IInv, TypeOK

\* A wait that timed out has met no press: one counted would have ended it.
LEMMA LateIsEmpty ==
  ASSUME WholeInv, pc = "COUNT", pendStat[ReactionTask] = "TO"
  PROVE  Tokens = 0
<1>1. evt[ReactionTask] = "stop_sem"
  BY Parts, FieldTypes DEF Calls, CallOf
<1>2. ReactionTask \in waiting["stop_sem"]
  BY <1>1, Parts, Names DEF KernelInv, WaitListExact
<1>3. cnt["stop_sem"] = 0 /\ ~Handed
  BY <1>2, Parts, FieldTypes, Names DEF KernelInv, TokensMeanNoWaiter, Handed
<1> QED
  BY <1>3, Parts, FieldTypes

\* A button moves.
LEMMA PlayerRound ==
  ASSUME WholeInv, NoBounces, Player
  PROVE  RoundInv'
<1> USE Parts DEF Responses, OneIf, Quiet
<1>1. UNCHANGED <<timer, isr, edge_capture, kernelVars, task, elapsed>>
  BY DEF Player, Press, Lift, lines, history
<1>2. UNCHANGED <<cnt, evt, stat, pendStat, dly, rdy, nesting, timer, pc, time,
                  response_time>>
  BY <1>1 DEF kernelVars, task
<1>3. Tokens' = Tokens /\ Calls' /\ elapsed' \in Nat
  BY <1>1, <1>2 DEF Tokens, Handed, Calls
<1>4. ASSUME NEW key \in Keys, Press(key) PROVE RoundInv'
  <2>1. capture = {} /\ capture' = {key} /\ pressed' = pressed \cup {key} /\ MayPress(key)
    BY <1>4 DEF Press, NoBounces
  <2>2. responded' = IF key = RESP_KEY /\ pc = "COUNT" /\ responded = UNMEASURED
                     THEN elapsed ELSE responded
    BY <1>4 DEF Press
  <2>3. CASE key = START_KEY
    <3>1. /\ responded' = responded /\ START_KEY # RESP_KEY
          /\ RESP_KEY \notin capture' /\ RESP_KEY \notin capture
          /\ RESP_KEY \in pressed' <=> RESP_KEY \in pressed
      BY <2>1, <2>2, <2>3 DEF START_KEY, RESP_KEY
    <3>2. Captures'
      BY <1>2, <2>1, <2>3, <1>1, <3>1 DEF Captures
    <3>3. DelayEnds' /\ Counted' /\ Measured' /\ Found' /\ Timed'
      BY <1>2, <1>3, <1>1, <3>1
      DEF DelayEnds, Counted, Measured, Found, Timed, ScoreIsTime
    <3>4. PatientPlayers => Heard'
      BY <1>2, <1>3, <1>1, <3>1 DEF Heard
    <3> QED
      BY <1>3, <3>2, <3>3, <3>4 DEF RoundInv, Responding
  <2>4. CASE key = RESP_KEY
    <3>1. /\ RESP_KEY \in capture' /\ RESP_KEY \notin capture
          /\ RESP_KEY \in pressed' /\ RESP_KEY \notin pressed /\ RESP_KEY # START_KEY
      BY <1>4, <2>1, <2>4 DEF Press, START_KEY, RESP_KEY
    <3>2. Captures'
      BY <1>2, <2>1, <2>4, <1>1, <3>1 DEF Captures
    <3>3. DelayEnds' /\ Counted'
      BY <1>1, <1>2 DEF DelayEnds, Counted
    <3>4. Found' /\ Timed'
      BY <1>2, <1>3, <2>2, <2>4, <3>1 DEF Found, Timed, ScoreIsTime, UNMEASURED
    <3>5. Measured'
      <4>1. CASE pc = "COUNT" /\ responded = UNMEASURED
        BY <1>1, <1>2, <2>2, <2>4, <4>1 DEF Measured, Counted
      <4>2. CASE pc = "COUNT" /\ responded # UNMEASURED
        <5>1. pendStat[ReactionTask] # "TO"
          BY <3>1, <4>2, LateIsEmpty DEF Found
        <5> QED
          BY <1>2, <2>2, <4>2, <5>1 DEF Measured
      <4> QED
        BY <1>2, <4>1, <4>2 DEF Measured
    <3>6. ASSUME PatientPlayers PROVE Heard'
      <4>1. \/ pc \in {"START", "cheated"}
            \/ pc = "COUNT" /\ responded = UNMEASURED /\ elapsed \in Reactions
        BY <2>1, <2>4, <3>1, <3>6 DEF MayPress, PatientPlayers
      <4> QED
        BY <1>2, <1>3, <2>2, <2>4, <3>1, <3>6, <4>1 DEF Heard, UNMEASURED
    <3> QED
      BY <1>3, <3>2, <3>3, <3>4, <3>5, <3>6 DEF RoundInv, Responding
  <2> QED
    BY <2>3, <2>4 DEF Keys
<1>5. ASSUME NEW key \in Keys, Lift(key) PROVE RoundInv'
  <2>1. /\ capture = {} /\ capture' = {} /\ nesting = 0 /\ responded' = responded
        /\ pressed' = pressed \ {key} /\ MayLift(key)
    BY <1>5 DEF Lift, NoBounces, lines, history
  <2>2. Captures'
    BY <1>1, <1>2, <2>1 DEF Captures
  <2>3. ASSUME PatientPlayers PROVE Heard'
    <3>1. CASE key = START_KEY
      <4>1. RESP_KEY \in pressed' <=> RESP_KEY \in pressed
        BY <2>1, <3>1 DEF START_KEY, RESP_KEY
      <4> QED
        BY <1>2, <1>3, <2>1, <2>3, <4>1 DEF Heard
    <3>2. CASE key = RESP_KEY /\ pc \in {"START", "DELAY", "delayed", "again"}
      <4>1. cnt["stop_sem"] = 0
        BY <2>1, <2>3, <3>2 DEF MayLift, PatientPlayers, START_KEY, RESP_KEY
      <4>2. ~Handed
        BY <3>2, FieldTypes, Names DEF Handed, DelaysBetweenCalls
      <4> QED
        BY <1>2, <1>3, <2>1, <2>3, <3>2, <4>1, <4>2, FieldTypes DEF Heard
    <3>3. CASE pc \notin {"START", "DELAY", "delayed", "again"}
      BY <1>2, <1>3, <2>1, <2>3, <3>3 DEF Heard
    <3> QED
      BY <3>1, <3>2, <3>3 DEF Keys
  <2>4. DelayEnds' /\ Counted' /\ Measured' /\ Found' /\ Timed'
    BY <1>1, <1>2, <1>3, <2>1 DEF DelayEnds, Counted, Measured, Found, Timed, ScoreIsTime
  <2> QED
    BY <1>3, <2>2, <2>3, <2>4 DEF RoundInv, Responding
<1> QED
  BY <1>4, <1>5 DEF Player

\* A millisecond: the counting task waits.
LEMMA MillisecondRound ==
  ASSUME WholeInv, Millisecond
  PROVE  RoundInv'
<1> USE Parts DEF Responses, OneIf
<1>1. /\ UNCHANGED <<pressed, capture, isr, edge_capture, cnt, evt, stat, pendStat, dly,
                     rdy, nesting, pc, time, response_time, responded>>
      /\ timer = 0 /\ timer' = 1 /\ nesting = 0
      /\ pc \in {"delayed", "COUNT"} => ReactionTask \notin rdy
      /\ elapsed' = IF pc = "COUNT" THEN elapsed + 1 ELSE 0
  BY DEF Millisecond, Prompt, kernelVars, task
<1>2. Tokens' = Tokens /\ Calls' /\ elapsed' \in Nat
  BY <1>1 DEF Tokens, Handed, Calls
<1>3. pc = "COUNT" => stat[ReactionTask] = "PEND" /\ pendStat[ReactionTask] = "OK"
  BY <1>1, FieldTypes DEF Counted
<1>4. stat[ReactionTask] = "PEND" => evt[ReactionTask] # NoEvent
  BY Names DEF KernelInv, FieldsAgree
<1>5. Captures' /\ DelayEnds' /\ Found' /\ Timed'
  BY <1>1, <1>2 DEF Captures, DelayEnds, Found, Timed, ScoreIsTime
<1>6. Counted' /\ Measured'
  BY <1>1, <1>3, <1>4 DEF Counted, Measured
<1>7. PatientPlayers => Heard'
  BY <1>1, <1>2 DEF Heard
<1> QED
  BY <1>2, <1>5, <1>6, <1>7 DEF RoundInv, Responding

\* Handlers are entered and left, read the port, and OS_Sched switches.
LEMMA SwitchRound ==
  ASSUME WholeInv, Interrupted \/ IsrRead \/ Resume \/ Switch
  PROVE  RoundInv'
<1> USE Parts DEF Responses, OneIf
<1>1. /\ UNCHANGED <<pressed, timer, capture, cnt, evt, stat, pendStat, dly, rdy, pc,
                     time, response_time, elapsed, responded>>
      /\ nesting' = 0 => nesting = 0 \/ capture = {}
      /\ \/ UNCHANGED <<isr, edge_capture>> /\ (isr = "clear" => nesting' > 0)
         \/ /\ isr' = "clear" /\ edge_capture' = capture /\ capture # {}
            /\ timer = 0 /\ nesting > 0 /\ nesting' = nesting
  <2>1. CASE Interrupted
    BY <2>1, FieldTypes DEF Interrupted, IntEnter, lines, task, history
  <2>2. CASE IsrRead
    BY <2>2 DEF IsrRead, kernelVars, task, history
  <2>3. CASE Resume
    BY <2>3 DEF Resume, IntExit, Pending, lines, task, history
  <2>4. CASE Switch
    BY <2>4 DEF Switch, Dispatch, lines, task, history, Captures
  <2> QED
    BY <2>1, <2>2, <2>3, <2>4
<1>2. Tokens' = Tokens /\ Calls'
  BY <1>1 DEF Tokens, Handed, Calls
<1>3. Captures'
  BY <1>1 DEF Captures
<1>4. Counted' /\ Found' /\ Timed'
  BY <1>1, <1>2 DEF Counted, Found, Timed, ScoreIsTime
<1>5. DelayEnds' /\ Measured'
  BY <1>1 DEF DelayEnds, Measured
<1>6. PatientPlayers => Heard'
  BY <1>1, <1>2 DEF Heard
<1> QED
  BY <1>1, <1>2, <1>3, <1>4, <1>5, <1>6 DEF RoundInv, Responding

\* The tick ends a delay or an iteration.
LEMMA TickRound ==
  ASSUME WholeInv, TickIsr
  PROVE  RoundInv'
<1> USE Parts DEF Responses, OneIf
<1>1. /\ UNCHANGED <<pressed, capture, isr, edge_capture, cnt, evt, nesting, pc,
                     time, response_time, elapsed, responded>>
      /\ timer = 1 /\ timer' = 0 /\ nesting > 0 /\ isr = "entry" /\ TimeTick
  BY DEF TickIsr, TimeTick, schedVars, task, history
<1>2. /\ stat'[ReactionTask] = IF dly[ReactionTask] = 1 THEN "RDY" ELSE stat[ReactionTask]
      /\ pendStat'[ReactionTask] =
           IF dly[ReactionTask] # 1 THEN pendStat[ReactionTask]
           ELSE IF stat[ReactionTask] = "PEND" THEN "TO" ELSE "OK"
      /\ dly[ReactionTask] = 1 => ReactionTask \in rdy'
      /\ ReactionTask \in rdy => ReactionTask \in rdy'
  BY <1>1, Names DEF TimeTick
<1>3. Handed' <=> Handed
  BY <1>1, <1>2, Names DEF Handed, KernelInv, KernelTypeOK, FieldsAgree
<1>4. Tokens' = Tokens /\ Calls'
  BY <1>1, <1>3 DEF Tokens, Calls
<1>5. Captures' /\ DelayEnds' /\ Found' /\ Timed' /\ (PatientPlayers => Heard')
  BY <1>1, <1>4 DEF Captures, DelayEnds, Found, Timed, ScoreIsTime, Heard
<1>6. pc = "COUNT" => /\ stat[ReactionTask] = "PEND" /\ dly[ReactionTask] = 1
                      /\ elapsed = time + 1 /\ evt[ReactionTask] # NoEvent
  BY <1>1, Names DEF Counted, KernelInv, FieldsAgree
<1>7. Counted' /\ Measured'
  BY <1>1, <1>2, <1>6 DEF Counted, Measured
<1> QED
  BY <1>1, <1>4, <1>5, <1>7 DEF RoundInv, Responding

\* The handler clears the port and posts for the button it has read.
LEMMA IsrClearRound ==
  ASSUME WholeInv, IsrClear
  PROVE  RoundInv'
<1> USE Parts DEF Responses, OneIf
<1>1. /\ UNCHANGED <<pressed, timer, edge_capture, nesting, pc, time, response_time,
                     elapsed, responded>>
      /\ nesting > 0 /\ isr = "clear" /\ isr' = "entry" /\ capture' = {} /\ timer = 0
      /\ capture = edge_capture /\ capture \in {{START_KEY}, {RESP_KEY}}
      /\ START_KEY # RESP_KEY
  BY DEF IsrClear, Captures, schedVars, task, history, START_KEY, RESP_KEY
<1>2. PICK e \in {"start_sem", "stop_sem"} :
        Post(e) /\ (e = "stop_sem" <=> RESP_KEY \in capture)
  BY <1>1 DEF IsrClear, ButtonIsr, START_KEY, RESP_KEY
<1>3. /\ Tokens = 0 \/ e = "start_sem" => Responses' = Responses
      /\ e = "stop_sem" => Responses' >= 1
      /\ Tokens' \in Nat
  BY <1>1, <1>2, PostTokens, Names
<1>4. PatientPlayers => Heard'
  <2>1. PatientPlayers /\ RESP_KEY \in capture => Tokens = 0 \/ pc = "cheated"
    BY <1>1, FieldTypes DEF Heard
  <2> QED
    BY <1>1, <1>2, <1>3, <2>1 DEF Heard
<1>5. /\ evt' = evt
      /\ \/ TaskFieldsStay
         \/ /\ evt[ReactionTask] = e /\ stat'[ReactionTask] = "RDY"
            /\ pendStat'[ReactionTask] = "OK" /\ ReactionTask \in rdy'
  BY <1>2, PostFields, Names
<1>6. Captures' /\ Timed' /\ Calls'
  BY <1>1, <1>5 DEF Captures, Timed, ScoreIsTime, Calls
<1>7. Found'
  <2>1. CASE e = "stop_sem"
    <3>1. pc = "COUNT" => responded # UNMEASURED
      BY <1>2, <2>1 DEF Found
    <3> QED
      BY <1>1, <1>3, <2>1, <3>1 DEF Found
  <2>2. CASE e = "start_sem"
    BY <1>1, <1>2, <1>3, <1>5, <2>2 DEF Found
  <2> QED
    BY <2>1, <2>2
<1>8. evt[ReactionTask] = e => evt[ReactionTask] # NoEvent
  BY Names, UcosAssumption DEF UcosAssumption
<1>9. DelayEnds'
  BY <1>1, <1>5, <1>8 DEF DelayEnds, DelaysBetweenCalls
<1>10. Counted' /\ Measured'
  BY <1>1, <1>5, <1>8 DEF Counted, Measured, TaskFieldsStay
<1> QED
  BY <1>1, <1>4, <1>6, <1>9, <1>10, <1>7 DEF RoundInv, Responding

\* The console task posts names, which only a task that registers waits for.
LEMMA ConsoleRound ==
  ASSUME WholeInv, Console
  PROVE  RoundInv'
<1> USE Parts DEF Responses, OneIf
<1>1. /\ UNCHANGED <<pressed, timer, capture, isr, edge_capture, nesting, pc, time,
                     response_time, elapsed, responded>>
      /\ Post("player_queue")
  BY DEF Console, schedVars, lines, task, history
<1>2. Tokens' = Tokens
  BY <1>1, PostTokens, Names
<1>3. /\ evt' = evt
      /\ TaskFieldsStay \/ evt[ReactionTask] = "player_queue"
  BY <1>1, PostFields, Names
<1>4. pc \in {"delayed", "COUNT"} => TaskFieldsStay
  BY <1>3, Names, UcosAssumption DEF UcosAssumption, Calls, CallOf
<1>5. Captures' /\ Found' /\ Timed' /\ Calls'
  BY <1>1, <1>2, <1>3 DEF Captures, Found, Timed, ScoreIsTime, Calls
<1>6. DelayEnds' /\ Counted' /\ Measured'
  BY <1>1, <1>3, <1>4 DEF DelayEnds, Counted, Measured, TaskFieldsStay
<1>7. PatientPlayers => Heard'
  BY <1>1, <1>2, <1>4 DEF Heard, TaskFieldsStay
<1> QED
  BY <1>1, <1>5, <1>6, <1>7 DEF RoundInv, Responding

\* What no step of the task does.
LEMMA TaskAlone ==
  ASSUME WholeInv, ReactionMeterTask
  PROVE  /\ UNCHANGED <<pressed, timer, capture, isr, edge_capture, nesting>>
         /\ nesting = 0 /\ Captures' /\ ReactionTask \in rdy
         /\ stat[ReactionTask] = "RDY" /\ dly[ReactionTask] = 0
<1> USE DEF At, Alone, Runs, Keep, schedVars, lines, Waits, Gets, TimesOut, kernelVars
<1>1. /\ UNCHANGED <<pressed, timer, capture, isr, edge_capture, nesting>>
      /\ Runs(ReactionTask)
  <2>1. CASE Idle \/ Stop
    BY <2>1 DEF Idle, Stop
  <2>2. CASE Register \/ Ready
    BY <2>2 DEF Register, Ready
  <2>3. CASE Start \/ Show
    BY <2>3 DEF Start, Show
  <2>4. CASE Delay \/ Delayed \/ Cheated \/ Again
    BY <2>4 DEF Delay, Delayed, Cheated, Again
  <2>5. CASE Count
    BY <2>5 DEF Count
  <2> QED
    BY <2>1, <2>2, <2>3, <2>4, <2>5 DEF ReactionMeterTask
<1>2. ReactionTask \in rdy /\ stat[ReactionTask] = "RDY" /\ dly[ReactionTask] = 0
  BY <1>1, Names, Parts, RunningIsReady
<1>3. Captures'
  BY <1>1, Parts DEF Captures
<1> QED
  BY <1>1, <1>2, <1>3

\* A step without the kernel, or a delay, leaves calls and tokens alone.
LEMMA NoCallRound ==
  ASSUME WholeInv, UNCHANGED <<cnt, evt, stat, pendStat>>,
         evt[ReactionTask] = NoEvent
  PROVE  Tokens' = Tokens /\ Calls'
BY Parts, Names DEF Tokens, Handed, Calls

\* The task asks for a name and for a turn.
LEMMA TurnRound ==
  ASSUME WholeInv, ReactionMeterTask, Idle \/ Register \/ Ready
  PROVE  RoundInv'
<1> USE Parts DEF Responses, OneIf, Goto
<1>1. /\ UNCHANGED <<pressed, timer, capture, isr, edge_capture, nesting>>
      /\ nesting = 0 /\ Captures'
  BY TaskAlone
<1>2. CASE Idle
  <2>1. /\ UNCHANGED <<cnt, evt, stat, pendStat, time, response_time, elapsed, responded>>
        /\ pc = "IDLE" /\ pc' \in {"register", "ready"}
    BY <1>2 DEF Idle, Alone, At, kernelVars, history
  <2>2. evt[ReactionTask] = NoEvent
    BY <2>1 DEF DelaysBetweenCalls
  <2>3. Tokens' = Tokens /\ Calls'
    BY <2>1, <2>2, NoCallRound
  <2>4. Responding'
    BY <1>1, <2>1, <2>3
    DEF Responding, DelayEnds, Counted, Measured, Found, Timed, ScoreIsTime, Heard
  <2> QED
    BY <1>1, <2>1, <2>3, <2>4 DEF RoundInv
<1>3. ASSUME NEW label \in {"register", "ready"}, Waits(label, CallOf[label], 0)
      PROVE  RoundInv'
  <2>1. /\ pc = label /\ UNCHANGED <<pc, time, response_time, elapsed, responded>>
        /\ CallOf[label] \in Events /\ label \in DOMAIN CallOf
    BY <1>3, Names DEF Waits, At, task, history, CallOf
  <2>2. /\ Tokens' = Tokens
        /\ evt'[ReactionTask] = CallOf[label] /\ evt'[ConsoleTask] = evt[ConsoleTask]
    BY <1>3, <2>1, WaitsTokens
  <2>3. Responding' /\ Calls'
    BY <1>1, <2>1, <2>2
    DEF Responding, DelayEnds, Counted, Measured, Found, Timed, ScoreIsTime, Heard,
        Calls
  <2> QED
    BY <1>1, <2>1, <2>3 DEF RoundInv
<1>4. ASSUME NEW label \in {"register", "ready"}, Gets(label, CallOf[label]),
             pc' \in {"ready", "START"},
             UNCHANGED <<time, response_time, elapsed, responded>>
      PROVE  RoundInv'
  <2>1. /\ pc = label /\ CallOf[label] \in Events /\ label \in DOMAIN CallOf
        /\ label # "COUNT"
    BY <1>4, Names DEF Gets, At, CallOf
  <2>2. /\ Tokens' = Tokens
        /\ evt'[ReactionTask] = NoEvent /\ evt'[ConsoleTask] = evt[ConsoleTask]
    BY <1>4, <2>1, EndsTokens
  <2>3. Responding' /\ Calls'
    BY <1>1, <1>4, <2>1, <2>2
    DEF Responding, DelayEnds, Counted, Measured, Found, Timed, ScoreIsTime, Heard,
        Calls
  <2> QED
    BY <1>1, <1>4, <2>3 DEF RoundInv
<1>5. CASE Register
  <2>1. CASE Waits("register", "player_queue", 0)
    BY <2>1, <1>3 DEF CallOf
  <2>2. CASE Gets("register", "player_queue") /\ pc' = "ready"
             /\ UNCHANGED <<time, response_time, history>>
    BY <2>2, <1>4 DEF CallOf, history
  <2> QED
    BY <1>5, <2>1, <2>2 DEF Register
<1>6. CASE Ready
  <2>1. CASE Waits("ready", "start_sem", 0)
    BY <2>1, <1>3 DEF CallOf
  <2>2. CASE Gets("ready", "start_sem") /\ pc' = "START"
             /\ UNCHANGED <<time, response_time, history>>
    BY <2>2, <1>4 DEF CallOf, history
  <2> QED
    BY <1>6, <2>1, <2>2 DEF Ready
<1> QED
  BY <1>2, <1>5, <1>6

\* The delay, over and over while KEY1 is held, and the signal.
LEMMA DelayRound ==
  ASSUME WholeInv, ReactionMeterTask,
         Start \/ Delay \/ Delayed \/ Cheated \/ Again
  PROVE  RoundInv'
<1> USE Parts DEF Responses, OneIf, Goto
<1>1. /\ UNCHANGED <<pressed, timer, capture, isr, edge_capture, nesting>>
      /\ nesting = 0 /\ Captures' /\ ReactionTask \in rdy
      /\ stat[ReactionTask] = "RDY" /\ dly[ReactionTask] = 0
  BY TaskAlone
<1>2. pc \in {"START", "DELAY", "delayed", "cheated", "again"} /\ cur = ReactionTask
  BY DEF Start, Delay, Delayed, Cheated, Again, At, Alone, Runs
<1>3. evt[ReactionTask] = NoEvent
  BY <1>2 DEF DelaysBetweenCalls
<1>4. CASE /\ \/ pc' \in {"START", "DELAY"} /\ pc = "START"
              \/ pc' = "cheated" /\ pc = "delayed"
           /\ UNCHANGED <<cnt, evt, stat, pendStat, response_time, time, elapsed, responded>>
  <2>1. Tokens' = Tokens /\ Calls'
    BY <1>3, <1>4, NoCallRound
  <2>2. Responding'
    BY <1>1, <1>4, <2>1
    DEF Responding, DelayEnds, Counted, Measured, Found, Timed, ScoreIsTime, Heard
  <2> QED
    BY <1>1, <1>4, <2>1, <2>2 DEF RoundInv
<1>5. CASE pc' = "delayed" /\ pc \in {"DELAY", "again"} /\ rdy' = rdy \ {cur}
           /\ UNCHANGED <<cnt, evt, stat, pendStat, response_time, time, elapsed, responded>>
  <2>1. Tokens' = Tokens /\ Calls'
    BY <1>3, <1>5, NoCallRound
  <2>2. Responding'
    BY <1>1, <1>2, <1>5, <2>1
    DEF Responding, DelayEnds, Counted, Measured, Found, Timed, ScoreIsTime, Heard
  <2> QED
    BY <1>1, <1>5, <2>1, <2>2 DEF RoundInv
<1>6. CASE pc = "cheated" /\ SemSet("stop_sem", 0) /\ pc' = "again"
           /\ UNCHANGED <<response_time, time, elapsed, responded>>
  <2>1. waiting["stop_sem"] = {}
    BY <1>3, OnlyTasks, Names, UcosAssumption
    DEF UcosAssumption, KernelInv, KernelTypeOK, WaitListExact, Calls
  <2>2. /\ cnt' = [cnt EXCEPT !["stop_sem"] = 0]
        /\ UNCHANGED <<evt, stat, pendStat>>
    BY <1>6, <2>1 DEF SemSet
  <2>3. cnt'["stop_sem"] = 0 /\ ~Handed' /\ Calls'
    BY <1>3, <1>6, <2>2, Names, UcosAssumption
    DEF UcosAssumption, Handed, Calls, KernelInv, KernelTypeOK
  <2>4. Tokens' = 0 /\ (RESP_KEY \in capture => RESP_KEY \in pressed)
    BY <1>1, <1>6, <2>3 DEF Tokens, Captures
  <2>5. Responding'
    BY <1>1, <1>6, <2>4
    DEF Responding, DelayEnds, Counted, Measured, Found, Timed, ScoreIsTime, Heard
  <2> QED
    BY <1>1, <1>6, <2>3, <2>5 DEF RoundInv
<1>7. CASE pc = "delayed" /\ UNCHANGED kernelVars /\ RESP_KEY \notin pressed /\ BeginCount
  <2>1. /\ UNCHANGED <<cnt, evt, stat, pendStat, dly, rdy>>
        /\ pc' = "COUNT" /\ time' = 0 /\ elapsed' = 0 /\ responded' = UNMEASURED
    BY <1>7 DEF kernelVars, BeginCount
  <2>2. Tokens' = Tokens /\ Calls'
    BY <1>3, <2>1, NoCallRound
  <2>3. /\ timer = 0 /\ RESP_KEY \notin capture
        /\ PatientPlayers => Tokens = 0
    BY <1>1, <1>7 DEF DelayEnds, Captures, Heard
  <2>4. pendStat[ReactionTask] = "OK"
    BY <1>3, FieldTypes
  <2>5. Responding'
    BY <1>1, <1>3, <2>1, <2>2, <2>3, <2>4
    DEF Responding, DelayEnds, Counted, Measured, Found, Timed, ScoreIsTime, Heard
  <2> QED
    BY <1>1, <2>1, <2>2, <2>5 DEF RoundInv
<1> QED
  <2>1. CASE Start
    BY <2>1, <1>4 DEF Start, At, Alone, TimeDly, kernelVars, task, history
  <2>2. CASE Delay \/ Again
    BY <2>2, <1>5 DEF Delay, Again, At, TimeDly, history
  <2>3. CASE Delayed
    BY <2>3, <1>4, <1>7 DEF Delayed, At, Alone, kernelVars, task, history
  <2>4. CASE Cheated
    BY <2>4, <1>6 DEF Cheated, At, history
  <2> QED
    BY <2>1, <2>2, <2>3, <2>4

\* An iteration of the counting loop, and its end by a response or without.
LEMMA CountRound ==
  ASSUME WholeInv, ReactionMeterTask, Count
  PROVE  RoundInv'
<1> USE Parts DEF Responses, OneIf, Goto
<1>1. /\ UNCHANGED <<pressed, timer, capture, isr, edge_capture, nesting>>
      /\ nesting = 0 /\ Captures' /\ ReactionTask \in rdy /\ dly[ReactionTask] = 0
      /\ stat[ReactionTask] = "RDY"
  BY TaskAlone
<1>2. /\ pc = "COUNT" /\ timer = 0 /\ CallOf["COUNT"] = "stop_sem"
      /\ "COUNT" \in DOMAIN CallOf /\ "stop_sem" \in Events
      /\ UNCHANGED <<elapsed, responded>>
  <2>1. pc = "COUNT" /\ UNCHANGED <<elapsed, responded>>
    BY DEF Count, Waits, Gets, TimesOut, At, history
  <2>2. timer = 0
    BY <1>1, <2>1 DEF Counted, TypeOK
  <2>3. /\ CallOf["COUNT"] = "stop_sem" /\ "COUNT" \in DOMAIN CallOf
        /\ "stop_sem" \in Events
    BY Names DEF CallOf
  <2> QED
    BY <2>1, <2>2, <2>3
<1>3. CASE Waits("COUNT", "stop_sem", 1)
  <2>1. UNCHANGED <<pc, time, response_time>>
    BY <1>3 DEF Waits, task
  <2>2. /\ Tokens' = Tokens /\ evt[ReactionTask] = NoEvent
        /\ evt'[ReactionTask] = "stop_sem" /\ evt'[ConsoleTask] = evt[ConsoleTask]
        /\ stat'[ReactionTask] = "PEND" /\ pendStat'[ReactionTask] = "OK"
        /\ dly'[ReactionTask] = 1 /\ ReactionTask \notin rdy'
    BY <1>2, <1>3, WaitsTokens
  <2>3. "stop_sem" # NoEvent /\ Tokens = 0
    BY <1>3, <1>2, Names, FieldTypes, WaitsTokens
  <2>4. Responding' /\ Calls'
    BY <1>1, <1>2, <2>1, <2>2, <2>3
    DEF Responding, DelayEnds, Counted, Measured, Found, Timed, ScoreIsTime, Heard, Calls
  <2> QED
    BY <1>1, <1>2, <2>4 DEF RoundInv
<1>4. CASE Gets("COUNT", "stop_sem")
  <2>1. /\ Tokens' = Tokens - 1 /\ Tokens >= 1
        /\ evt'[ReactionTask] = NoEvent /\ evt'[ConsoleTask] = evt[ConsoleTask]
    BY <1>2, <1>4, EndsTokens
  <2>2. time > 0 => responded # UNMEASURED
    BY <1>2, <2>1 DEF Found
  <2>3. \/ pc' = "IDLE"
        \/ pc' = "STOP" /\ response_time' = time /\ ~(time < MIN_RESP_TIME)
    BY <1>2, <1>4 DEF Count, Waits, TimesOut, Gets, InCall, PendBlocks, PendTakes
  <2>4. DelayEnds' /\ Counted' /\ Measured' /\ Found' /\ Calls'
    BY <1>1, <1>2, <2>1, <2>3 DEF DelayEnds, Counted, Measured, Found, Calls
  <2>5. Timed'
    BY <1>2, <2>2, <2>3, Sizes DEF Timed, ScoreIsTime, Measured
  <2>6. PatientPlayers => Heard'
    BY <1>1, <1>2, <2>1, <2>3 DEF Heard
  <2> QED
    BY <1>1, <1>2, <2>4, <2>5, <2>6 DEF RoundInv, Responding
<1>5. CASE TimesOut("COUNT") /\ time' = time + 1
           /\ pc' = IF time + 1 < RESP_TIMEOUT THEN "COUNT" ELSE "IDLE"
  <2>1. /\ Tokens' = Tokens /\ Tokens = 0
        /\ evt'[ReactionTask] = NoEvent /\ evt'[ConsoleTask] = evt[ConsoleTask]
        /\ stat'[ReactionTask] = "RDY" /\ pendStat'[ReactionTask] = "OK"
        /\ ReactionTask \in rdy'
    BY <1>2, <1>5, EndsTokens
  <2>2. /\ pendStat[ReactionTask] = "TO" /\ elapsed = time + 1
        /\ evt[ReactionTask] # NoEvent
    BY <1>2, <1>5 DEF TimesOut, InCall, Counted
  <2>3. responded # UNMEASURED => responded = time + 1 /\ RESP_KEY \in capture
    BY <1>1, <1>2, <2>1, <2>2 DEF Found, Measured
  <2>4. DelayEnds' /\ Counted' /\ Measured' /\ Found' /\ Calls' /\ Timed'
    BY <1>1, <1>2, <1>5, <2>1, <2>2, <2>3
    DEF DelayEnds, Counted, Measured, Found, Calls, Timed, ScoreIsTime
  <2>5. ASSUME PatientPlayers PROVE Heard'
    <3>1. responded # UNMEASURED => responded \in Reactions
      BY <1>2, <2>5 DEF Heard
    <3>2. responded # UNMEASURED => time + 1 < RESP_TIMEOUT
      BY <2>3, <2>5, <3>1, Sizes DEF PatientPlayers
    <3> QED
      BY <1>1, <1>2, <1>5, <2>1, <2>5, <3>2 DEF Heard
  <2> QED
    BY <1>1, <1>2, <2>4, <2>5 DEF RoundInv, Responding
<1> QED
  BY <1>3, <1>4, <1>5 DEF Count

\* The score is kept and shown.
LEMMA ScoreRound ==
  ASSUME WholeInv, ReactionMeterTask, Stop \/ Show
  PROVE  RoundInv'
<1> USE Parts DEF Responses, OneIf, Goto
<1>1. /\ UNCHANGED <<pressed, timer, capture, isr, edge_capture, nesting>> /\ Captures'
  BY TaskAlone
<1>2. /\ UNCHANGED <<cnt, evt, stat, pendStat, time, response_time, elapsed, responded>>
      /\ pc \in {"STOP", "show"} /\ pc' \in {"show", "IDLE"}
  BY DEF Stop, Show, Alone, At, TimeDly, kernelVars, task, history
<1>3. Tokens' = Tokens /\ Calls'
  BY <1>2, NoCallRound DEF DelaysBetweenCalls
<1>4. Responding'
  BY <1>1, <1>2, <1>3
  DEF Responding, DelayEnds, Counted, Measured, Found, Timed, ScoreIsTime, Heard
<1> QED
  BY <1>1, <1>2, <1>3, <1>4 DEF RoundInv

\* Patient players press one button after the other.
LEMMA PatientIsSound == PatientPlayers => NoBounces
BY DEF PatientPlayers, NoBounces

\* Before the first round.
LEMMA InitRound == Init => RoundInv
<1> SUFFICES ASSUME Init PROVE RoundInv
  OBVIOUS
<1>1. /\ cnt["stop_sem"] = 0 /\ ~Handed /\ Calls
  BY Names, UcosAssumption DEF UcosAssumption, Init, KernelInit, Handed, Calls
<1> QED
  BY <1>1
  DEF RoundInv, Responding, Init, Captures, Heard, DelayEnds, Counted, Measured, Found,
      Timed, ScoreIsTime, Responses, Tokens, OneIf

\* Every step of the program.
LEMMA StepRound ==
  ASSUME WholeInv, NoBounces, [Next]_vars
  PROVE  RoundInv'
<1>1. CASE UNCHANGED vars
  <2>1. UNCHANGED <<pressed, timer, capture, isr, edge_capture, cnt, evt, stat, pendStat,
                    dly, rdy, nesting, pc, time, response_time, elapsed, responded>>
    BY <1>1 DEF vars, lines, kernelVars, task, history
  <2>2. Tokens' = Tokens
    BY <2>1 DEF Tokens, Handed
  <2> QED
    BY <2>1, <2>2, Parts
    DEF RoundInv, Responding, Captures, Heard, DelayEnds, Counted, Measured, Calls, Found,
        Timed, ScoreIsTime, Responses, OneIf
<1>2. CASE ReactionMeterTask
  BY <1>2, TurnRound, DelayRound, CountRound, ScoreRound DEF ReactionMeterTask
<1>3. CASE Processor
  BY <1>3, SwitchRound, TickRound, IsrClearRound DEF Processor
<1>4. CASE Player \/ Millisecond \/ Console
  BY <1>4, PlayerRound, MillisecondRound, ConsoleRound
<1> QED
  BY <1>1, <1>2, <1>3, <1>4 DEF Next

-----------------------------------------------------------------------------
(* What follows for the properties of the application.                     *)

\* The inductive invariant of the rounds, for everybody whose buttons do not
\* bounce.
THEOREM RoundsInductive == ASSUME NoBounces PROVE Spec => []WholeInv
<1>1. Init => WholeInv
  BY InitIInv, InitRound DEF WholeInv
<1>2. WholeInv /\ [Next]_vars => WholeInv'
  BY StepIInv, StepRound DEF WholeInv
<1> QED
  BY <1>1, <1>2, PTL DEF Spec

\* README.md: accuracy of one millisecond.  The score of case STOP is the time
\* of the response or one tick less, whatever was pressed before and whenever
\* the response comes: what a press of earlier ends is too fast for a score.
THEOREM ScoresAreTimes ==
  ASSUME NoBounces, MIN_RESP_TIME > 0 PROVE Spec => []ScoreIsTime
<1>1. WholeInv => ScoreIsTime
  BY Parts DEF Timed
<1> QED
  BY <1>1, RoundsInductive, PTL

\* A task that waits for a turn in user_response finds neither semaphore
\* counted: what cheat prevention and the rounds left is taken or reset.
THEOREM NoTokensLeftOver == ASSUME PatientPlayers PROVE Spec => []NoStaleTokens
<1>1. WholeInv => NoStaleTokens
  <2> SUFFICES ASSUME WholeInv, ReactionTask \in waiting["start_sem"]
               PROVE  cnt["start_sem"] = 0 /\ cnt["stop_sem"] = 0
    BY DEF NoStaleTokens
  <2>1. cnt["start_sem"] = 0
    BY Parts, Names DEF KernelInv, KernelTypeOK, TokensMeanNoWaiter
  <2>2. evt[ReactionTask] = "start_sem" /\ evt[ReactionTask] # NoEvent
    BY Parts, Names, UcosAssumption DEF UcosAssumption, KernelInv, WaitListExact
  <2>3. pc = "ready"
    BY <2>2, Parts DEF Calls, CallOf
  <2> QED
    BY <2>1, <2>3, Parts, FieldTypes DEF Heard, Responses, OneIf
<1> QED
  BY <1>1, RoundsInductive, PatientIsSound, PTL

\* README.md: responses faster than a human are invalid.  The loop of case
\* COUNT ends before its time-out only for a press of KEY1 since the signal.
THEOREM RoundsEndWithResponses ==
  ASSUME PatientPlayers PROVE Spec => OnlyResponsesEndRounds
<1>1. WholeInv /\ [Next]_vars =>
        [pc = "COUNT" /\ pc' # "COUNT" /\ time' = time => responded # UNMEASURED]_vars
  <2> SUFFICES ASSUME WholeInv, Next, pc = "COUNT", pc' # "COUNT", time' = time
               PROVE  responded # UNMEASURED
    BY DEF vars, task
  <2>1. ReactionMeterTask
    BY DEF Next, Player, Press, Lift, Millisecond, Processor, Interrupted, TickIsr,
           IsrRead, IsrClear, Resume, Switch, Console, task
  <2>2. Count
    BY <2>1
    DEF ReactionMeterTask, Idle, Register, Ready, Start, Delay, Delayed, Cheated, Again, Stop,
        Show, Waits, Gets, At, Alone
  <2>3. Gets("COUNT", "stop_sem")
    BY <2>2, Parts DEF Count, Waits, task
  <2>4. Tokens >= 1
    BY <2>3, Parts, Names, EndsTokens DEF CallOf
  <2> QED
    BY <2>4, Parts DEF Heard, Responses, OneIf
<1> QED
  BY <1>1, RoundsInductive, PatientIsSound, PTL DEF Spec, OnlyResponsesEndRounds

-----------------------------------------------------------------------------
(* For patient players the program is the game of ReactionGame.            *)

\* What the players see changes with the task, KEY1 and the time.
LEMMA NothingSeen ==
  ASSUME UNCHANGED <<pc, pressed, elapsed, responded, response_time, highscore>>
  PROVE  UNCHANGED Game!gameVars
BY DEF Game!gameVars, Stage, Clock, Held, Response, TopScore

\* A press of KEY1 is seen when it happens; KEY0 is not seen.
LEMMA PlayerPlays ==
  ASSUME WholeInv, Player
  PROVE  [Game!Next]_(Game!gameVars)
<1>1. UNCHANGED <<pc, elapsed, response_time, highscore>> /\ elapsed # UNMEASURED
  BY Parts DEF Player, Press, Lift, task, history, UNMEASURED
<1>2. Stage' = Stage /\ TopScore' = TopScore
  BY <1>1 DEF Stage, TopScore
<1>3. PICK key \in Keys : Press(key) \/ Lift(key)
  BY DEF Player
<1>4. CASE Press(key) /\ key = RESP_KEY
  <2>1. ~Held /\ Held'
    BY <1>4 DEF Press, Held
  <2>2. CASE pc = "COUNT" /\ responded = UNMEASURED
    <3>1. Stage = "counts" /\ responded' = elapsed
      BY <1>4, <2>2 DEF Press, Stage
    <3>2. Game!Respond
      BY <1>1, <1>2, <2>1, <2>2, <3>1
      DEF Game!Respond, Game!Unanswered, Game!NONE, UNMEASURED, Clock, Response
    <3> QED
      BY <3>2 DEF Game!Next
  <2>3. CASE ~(pc = "COUNT" /\ responded = UNMEASURED)
    <3>1. responded' = responded
      BY <1>4, <2>3 DEF Press
    <3>2. Stage = "counts" => responded # UNMEASURED
      BY <2>3 DEF Stage
    <3>3. Game!Press
      BY <1>1, <1>2, <2>1, <3>1, <3>2
      DEF Game!Press, Game!Unanswered, Game!NONE, UNMEASURED, Clock, Response
    <3> QED
      BY <3>3 DEF Game!Next
  <2> QED
    BY <2>2, <2>3
<1>5. CASE Lift(key) /\ key = RESP_KEY
  <2>1. Held /\ ~Held' /\ responded' = responded
    BY <1>5 DEF Lift, Held, history
  <2>2. Game!LetGo
    BY <1>1, <1>2, <2>1 DEF Game!LetGo, Clock, Response
  <2> QED
    BY <2>2 DEF Game!Next
<1>6. CASE key # RESP_KEY
  <2>1. (Held' <=> Held) /\ responded' = responded
    BY <1>3, <1>6 DEF Press, Lift, Held, history
  <2> QED
    BY <1>1, <1>2, <2>1 DEF Game!gameVars, Clock, Held, Response
<1> QED
  BY <1>3, <1>4, <1>5, <1>6

\* A millisecond is one of the player's, until the response.
LEMMA MillisecondPlays ==
  ASSUME Millisecond
  PROVE  [Game!Next]_(Game!gameVars)
<1>1. /\ UNCHANGED <<pc, pressed, responded, response_time, highscore>>
      /\ pc = "COUNT" => elapsed' = elapsed + 1
  BY DEF Millisecond, task
<1>2. UNCHANGED <<Stage, Response, TopScore>> /\ (Held' <=> Held)
  BY <1>1 DEF Stage, Response, TopScore, Held
<1>3. CASE Stage = "counts" /\ responded = UNMEASURED
  <2>1. pc = "COUNT"
    BY <1>3 DEF Stage
  <2>2. Game!Tick
    BY <1>1, <1>2, <1>3, <2>1
    DEF Game!Tick, Game!Unanswered, Game!NONE, UNMEASURED, Clock, Response
  <2> QED
    BY <2>2 DEF Game!Next
<1>4. CASE ~(Stage = "counts" /\ responded = UNMEASURED)
  BY <1>1, <1>2, <1>4 DEF Game!gameVars, Clock, Held
<1> QED
  BY <1>3, <1>4

\* The task up to the signal.
LEMMA TurnPlays ==
  ASSUME WholeInv, ReactionMeterTask,
         Idle \/ Register \/ Ready \/ Start \/ Delay \/ Delayed \/ Cheated \/ Again
  PROVE  [Game!Next]_(Game!gameVars)
<1>1. UNCHANGED <<pressed, response_time, highscore>>
  BY TaskAlone
  DEF Idle, Register, Ready, Start, Delay, Delayed, Cheated, Again, Waits, task
<1>2. CASE Delayed /\ pc' = "COUNT"
  <2>1. /\ pc = "delayed" /\ RESP_KEY \notin pressed
        /\ elapsed' = 0 /\ responded' = UNMEASURED
    BY <1>2 DEF Delayed, Alone, At, Goto, BeginCount
  <2>2. Game!Signal
    BY <1>1, <1>2, <2>1
    DEF Game!Signal, Stage, Clock, Held, Response, TopScore
  <2> QED
    BY <2>2 DEF Game!Next
<1>3. CASE Ready /\ pc' = "START"
  <2>1. pc = "ready"
    BY <1>3 DEF Ready, Waits, Gets, At
  <2>2. Game!Begin
    BY <1>1, <1>3, <2>1 DEF Game!Begin, Stage, Clock, Held, Response, TopScore
  <2> QED
    BY <2>2 DEF Game!Next
<1>4. CASE \/ Idle \/ Register \/ (Ready /\ pc' # "START") \/ Start \/ Delay
           \/ (Delayed /\ pc' # "COUNT") \/ Cheated \/ Again
  <2>1. \/ pc \in {"IDLE", "register", "ready"} /\ pc' \in {"IDLE", "register", "ready"}
        \/ /\ pc \in {"START", "DELAY", "delayed", "cheated", "again"}
           /\ pc' \in {"START", "DELAY", "delayed", "cheated", "again"}
    BY <1>4
    DEF Idle, Register, Ready, Start, Delay, Delayed, Cheated, Again, Waits, Gets, At,
        Alone, Goto, BeginCount, task
  <2>2. Stage \in {"home", "waits"} /\ Stage' = Stage
    BY <2>1 DEF Stage
  <2> QED
    BY <1>1, <2>1, <2>2 DEF Game!gameVars, Clock, Held, Response, TopScore
<1> QED
  BY <1>2, <1>3, <1>4

\* The counting loop: the token it gets is the response, and it is not left
\* without one while there is a response.
LEMMA CountPlays ==
  ASSUME WholeInv, PatientPlayers, ReactionMeterTask, Count
  PROVE  [Game!Next]_(Game!gameVars)
<1>1. /\ UNCHANGED <<pressed, elapsed, responded, highscore>> /\ pc = "COUNT"
      /\ elapsed \in Nat /\ time \in Nat /\ RESP_TIMEOUT \in Nat
      /\ CallOf["COUNT"] = "stop_sem" /\ "COUNT" \in DOMAIN CallOf
  BY TaskAlone, Parts, Sizes, Names
  DEF Count, Waits, Gets, TimesOut, At, task, history, CallOf
<1>2. Stage = "counts"
  BY <1>1 DEF Stage
<1>3. CASE Waits("COUNT", "stop_sem", 1)
  BY <1>1, <1>3, NothingSeen DEF Waits, task
<1>4. CASE TimesOut("COUNT") /\ time' = time + 1 /\ response_time' = response_time
           /\ pc' = IF time + 1 < RESP_TIMEOUT THEN "COUNT" ELSE "IDLE"
  <2>1. CASE time + 1 < RESP_TIMEOUT
    BY <1>1, <1>4, <2>1, NothingSeen
  <2>2. CASE ~(time + 1 < RESP_TIMEOUT)
    <3>1. Tokens = 0
      BY <1>1, <1>4, Parts, Names, EndsTokens
    <3>2. pendStat[ReactionTask] = "TO" /\ elapsed = time + 1 /\ nesting = 0
      BY <1>1, <1>4, Parts, TaskAlone DEF TimesOut, Counted
    <3>3. responded # UNMEASURED => responded = time + 1 /\ responded \in Reactions
      BY <1>1, <3>1, <3>2, Parts DEF Heard, Measured, Responses, OneIf
    <3>4. responded = UNMEASURED
      BY <2>2, <3>3, <1>1 DEF PatientPlayers
    <3>5. Stage' = "home"
      BY <1>4, <2>2 DEF Stage
    <3>6. Game!GiveUp
      BY <1>1, <1>2, <1>4, <2>2, <3>2, <3>4, <3>5
      DEF Game!GiveUp, Game!Unanswered, Game!GoesHome, Game!NONE, UNMEASURED, Clock,
          Held, Response, TopScore
    <3> QED
      BY <3>6 DEF Game!Next
  <2> QED
    BY <2>1, <2>2
<1>5. CASE Gets("COUNT", "stop_sem")
  <2>1. Tokens >= 1
    BY <1>1, <1>5, Parts, Names, EndsTokens
  <2>2. responded # UNMEASURED
    BY <1>1, <2>1, Parts DEF Heard, Responses, OneIf
  <2>3. responded \in {time, time + 1}
    BY <1>1, <2>2, Parts DEF Measured
  <2>4. CASE time < MIN_RESP_TIME /\ pc' = "IDLE" /\ response_time' = response_time
    <3>1. Stage' = "home"
      BY <2>4 DEF Stage
    <3>2. responded - 1 < MIN_RESP_TIME
      BY <1>1, <2>3, <2>4, Sizes
    <3>3. Game!TooFast
      BY <1>1, <1>2, <2>2, <2>4, <3>1, <3>2
      DEF Game!TooFast, Game!GoesHome, Game!NONE, UNMEASURED, Clock, Held, Response,
          TopScore
    <3> QED
      BY <3>3 DEF Game!Next
  <2>5. CASE ~(time < MIN_RESP_TIME) /\ pc' = "STOP" /\ response_time' = time
    <3>1. Stage' = "shows"
      BY <2>5 DEF Stage
    <3>2. responded - time \in 0..1 /\ time >= MIN_RESP_TIME
      BY <1>1, <2>3, <2>5, Sizes
    <3>3. Game!Score
      BY <1>1, <1>2, <2>2, <2>5, <3>1, <3>2
      DEF Game!Score, Game!NONE, UNMEASURED, Clock, Held, Response, TopScore
    <3> QED
      BY <3>3 DEF Game!Next
  <2>6. ~TimesOut("COUNT") /\ ~Waits("COUNT", "stop_sem", 1)
    BY <1>5, Names, UcosAssumption
    DEF UcosAssumption, TimesOut, Waits, Gets, InCall, PendBlocks, PendTakes
  <2> QED
    BY <2>4, <2>5, <2>6 DEF Count, Goto
<1> QED
  BY <1>3, <1>4, <1>5 DEF Count, Goto

\* The score, until KEY1 is found released.
LEMMA ScorePlays ==
  ASSUME WholeInv, ReactionMeterTask, Stop \/ Show
  PROVE  [Game!Next]_(Game!gameVars)
<1>1. UNCHANGED <<pressed, elapsed, responded, response_time>>
  BY TaskAlone DEF Stop, Show, task, history
<1>2. CASE Stop
  <2>1. pc = "STOP" /\ pc' = "show" /\ highscore' = TopScore
    BY <1>2 DEF Stop, Alone, At, Goto, TopScore
  <2> QED
    BY <1>1, <2>1 DEF Game!gameVars, Stage, Clock, Held, Response, TopScore
<1>3. CASE Show /\ pc' = "show"
  BY <1>1, <1>3, NothingSeen DEF Show, At, Alone, Goto, task
<1>4. CASE Show /\ pc' # "show"
  <2>1. pc = "show" /\ pc' = "IDLE" /\ RESP_KEY \notin pressed /\ highscore' = highscore
    BY <1>4 DEF Show, At, Alone, Goto, task
  <2>2. Game!Leave
    BY <1>1, <2>1
    DEF Game!Leave, Game!GoesHome, Game!NONE, UNMEASURED, Stage, Clock, Held, Response,
        TopScore
  <2> QED
    BY <2>2 DEF Game!Next
<1> QED
  BY <1>2, <1>3, <1>4

LEMMA InitPlays == Init => Game!Init
BY DEF Init, Game!Init, Game!NONE, Game!WORST, UNMEASURED, UINT16_MAX, Stage, Clock, Held,
       Response, TopScore

\* README.md, Usage and Cheat-prevention: port, handler, semaphores and task
\* together are the game of ReactionGame.  A score is the response or one tick
\* less; nobody is sent home unless they did not respond or were too fast; and
\* counting never begins while KEY1 is held.
THEOREM PlaysTheGame == ASSUME PatientPlayers PROVE Spec => PlaysGame
<1>1. WholeInv /\ [Next]_vars => [Game!Next]_(Game!gameVars)
  <2> SUFFICES ASSUME WholeInv, [Next]_vars PROVE [Game!Next]_(Game!gameVars)
    OBVIOUS
  <2>1. CASE UNCHANGED vars
    BY <2>1, NothingSeen DEF vars, task, history
  <2>2. CASE Processor \/ Console
    BY <2>2, NothingSeen
    DEF Processor, Interrupted, TickIsr, IsrRead, IsrClear, Resume, Switch, Console, task,
        history
  <2>3. CASE ReactionMeterTask
    BY <2>3, TurnPlays, CountPlays, ScorePlays DEF ReactionMeterTask
  <2> QED
    BY <2>1, <2>2, <2>3, PlayerPlays, MillisecondPlays DEF Next
<1> QED
  BY <1>1, InitPlays, RoundsInductive, PatientIsSound, PTL DEF Spec, PlaysGame, Game!Spec

-----------------------------------------------------------------------------
(* What the program is built from: the kernel of UcosTasks.                *)

\* The kernel under the program, with the time-outs, delays and counts it uses.
Kernel == INSTANCE UcosTasks
            WITH Timeouts <- {0, 1}, Ticks <- Delays \cup {1, SHOW_TICKS},
                 Counts <- {0}, credit <- Account

\* The console task never waits in the kernel.
ConsoleNeverWaits == evt[ConsoleTask] = NoEvent

\* What UcosTasks assumes of tasks and arguments holds here.
LEMMA KernelAssumption ==
  /\ IsFiniteSet(Tasks)
  /\ {0, 1} \subseteq Nat /\ Delays \cup {1, SHOW_TICKS} \subseteq Nat \ {0}
  /\ \A e \in Events : {0} \subseteq 0..Limit[e]
<1>1. Tasks = {1, 2}
  BY RtosAssumption DEF RtosAssumption
<1>2. IsFiniteSet({1, 2})
  <2>1. {1, 2} = {1} \cup {2} /\ IsFiniteSet({1})
    BY FS_Singleton
  <2> QED
    BY <2>1, FS_AddElement
<1>3. \A e \in Events : Limit[e] \in Nat
  BY UcosAssumption DEF UcosAssumption
<1> QED
  BY <1>1, <1>2, <1>3, Sizes

\* The three ways through a pend call of the task.
LEMMA WaitsIsKernelStep ==
  ASSUME KernelInv, NEW label, NEW e \in Events, NEW timeout \in {0, 1},
         Waits(label, e, timeout)
  PROVE  Kernel!TaskBlocks(ReactionTask, e, timeout)
<1>1. TaskCalls
  BY Names DEF Waits, At, Runs, TaskCalls, InCall
<1>2. Account' = Account
  BY <1>1, PendBlocksAccount DEF Waits
<1> QED
  BY <1>2
  DEF Waits, At, InCall, Keep, schedVars, PendBlocks, EventTaskWait, Runs,
      Kernel!TaskBlocks, Kernel!Caller, Kernel!Runs, Kernel!PendBlocks,
      Kernel!EventTaskWait, Kernel!schedVars

LEMMA ReturnsIsKernelStep ==
  ASSUME KernelInv, At(pc), PendReturns, UNCHANGED schedVars
  PROVE  Kernel!TaskReturns(ReactionTask)
<1>1. cur = ReactionTask /\ cur \in Tasks /\ Runs(cur)
  BY Names DEF At, Runs
<1>2. Account' = IF pendStat[cur] = "OK"
                 THEN [Account EXCEPT ![evt[cur]] = Account[evt[cur]] - 1]
                 ELSE Account
  BY <1>1, KernelAssumption, PendReturnsAccount
<1> QED
  BY <1>1, <1>2
  DEF PendReturns, Runs, schedVars,
      Kernel!TaskReturns, Kernel!Runs, Kernel!PendReturns, Kernel!schedVars

LEMMA GetsIsKernelStep ==
  ASSUME KernelInv, NEW label, NEW e \in Events, Gets(label, e) \/ TimesOut(label)
  PROVE  Kernel!TaskTakes(ReactionTask, e) \/ Kernel!TaskReturns(ReactionTask)
<1>1. CASE ~InCall /\ PendTakes(e) /\ At(label) /\ Keep
  <2>1. Account' = [Account EXCEPT ![e] = Account[e] - 1]
    BY <1>1, KernelAssumption, PendTakesAccount
  <2> QED
    BY <1>1, <2>1
    DEF At, InCall, Keep, schedVars, PendTakes, Runs,
        Kernel!TaskTakes, Kernel!Caller, Kernel!Runs, Kernel!PendTakes, Kernel!schedVars
<1>2. CASE At(label) /\ PendReturns /\ Keep
  BY <1>2, ReturnsIsKernelStep DEF At, Keep
<1> QED
  BY <1>1, <1>2 DEF Gets, TimesOut

\* A post of the handler or of the console task.
LEMMA PostIsKernelStep ==
  ASSUME KernelInv, NEW e \in Events, Post(e), UNCHANGED schedVars,
         nesting > 0 \/ TaskCalls
  PROVE  Kernel!Posts(e)
<1>1. Account' = IF waiting[e] = {} /\ cnt[e] >= Limit[e]
                 THEN Account ELSE [Account EXCEPT ![e] = Account[e] + 1]
  BY KernelAssumption, PostAccount
<1>2. nesting > 0 \/ \E t \in Tasks : Kernel!Caller(t)
  BY DEF TaskCalls, Runs, Kernel!Caller, Kernel!Runs
<1>3. Kernel!Post(e)
  BY DEF Post, PostHands, PostCounts, PostOverflows, EventTaskRdy, IsMostUrgent,
         Kernel!Post, Kernel!PostHands, Kernel!PostCounts, Kernel!PostOverflows,
         Kernel!EventTaskRdy, Kernel!IsMostUrgent
<1> QED
  BY <1>1, <1>2, <1>3 DEF schedVars, Kernel!Posts, Kernel!schedVars

\* Interrupts and the scheduler.
LEMMA ProcessorIsKernelStep ==
  ASSUME KernelInv, Interrupted \/ TickIsr \/ Resume \/ Switch
  PROVE  Kernel!Interrupt \/ Kernel!Tick \/ Kernel!Leave \/ Kernel!Switch
<1>1. CASE Interrupted
  BY <1>1, SwitchAccount DEF Interrupted, IntEnter, Kernel!Interrupt, Kernel!IntEnter
<1>2. CASE TickIsr
  BY <1>2, TimeTickAccount
  DEF TickIsr, TimeTick, schedVars, Kernel!Tick, Kernel!TimeTick, Kernel!schedVars
<1>3. CASE Resume
  BY <1>3, SwitchAccount
  DEF Resume, IntExit, IsMostUrgent, Kernel!Leave, Kernel!IntExit, Kernel!IsMostUrgent
<1>4. CASE Switch
  BY <1>4, SwitchAccount
  DEF Switch, Dispatch, IsMostUrgent, Kernel!Switch, Kernel!Dispatch,
      Kernel!IsMostUrgent
<1> QED
  BY <1>1, <1>2, <1>3, <1>4

\* A step without the kernel.
LEMMA StutterIsKernelStep ==
  ASSUME UNCHANGED kernelVars
  PROVE  UNCHANGED Kernel!vars
BY SwitchAccount DEF kernelVars, Kernel!vars, Kernel!kernelVars

\* A delay of the task, which is in no call then.
LEMMA DelayIsKernelStep ==
  ASSUME KernelInv, DelaysBetweenCalls, pc \notin {"register", "ready", "COUNT"},
         At(pc), NEW ticks \in Delays \cup {1, SHOW_TICKS}, TimeDly(ticks), Keep
  PROVE  Kernel!TaskDelays(ReactionTask, ticks)
<1>1. evt[ReactionTask] = NoEvent
  BY DEF DelaysBetweenCalls
<1>2. Account' = Account
  BY TimeDlyAccount
<1> QED
  BY <1>1, <1>2
  DEF At, Runs, Keep, schedVars, TimeDly,
      Kernel!TaskDelays, Kernel!Caller, Kernel!Runs, Kernel!TimeDly, Kernel!schedVars

\* The reset of stop_sem by cheat prevention.
LEMMA SetIsKernelStep ==
  ASSUME KernelInv, DelaysBetweenCalls, At("cheated"), SemSet("stop_sem", 0), Keep
  PROVE  Kernel!TaskSets(ReactionTask, "stop_sem", 0)
<1>1. evt[ReactionTask] = NoEvent
  BY DEF DelaysBetweenCalls, At
<1>2. Account' = [Account EXCEPT !["stop_sem"] =
                    Account["stop_sem"] + (cnt'["stop_sem"] - cnt["stop_sem"])]
  BY Names, KernelAssumption, SemSetAccount
<1> QED
  BY <1>1, <1>2
  DEF At, Runs, Keep, schedVars, SemSet,
      Kernel!TaskSets, Kernel!Caller, Kernel!Runs, Kernel!SemSet, Kernel!schedVars

LEMMA TaskIsKernelStep ==
  ASSUME KernelInv, DelaysBetweenCalls, LoopsStop, ReactionMeterTask
  PROVE  [Kernel!Next]_(Kernel!vars)
<1> DEFINE Call(e, timeout) ==
             \/ Kernel!TaskBlocks(ReactionTask, e, timeout)
             \/ Kernel!TaskTakes(ReactionTask, e)
             \/ Kernel!TaskReturns(ReactionTask)
<1>1. ASSUME NEW e \in Events, NEW timeout \in {0, 1}, Call(e, timeout)
      PROVE  Kernel!Next
  BY <1>1, Names DEF Kernel!Next
<1> HIDE DEF Call
<1>2. ASSUME NEW label, NEW e \in Events, NEW timeout \in {0, 1},
             Waits(label, e, timeout) \/ Gets(label, e) \/ TimesOut(label)
      PROVE  Call(e, timeout)
  BY <1>2, WaitsIsKernelStep, GetsIsKernelStep DEF Call
<1>3. ASSUME NEW ticks \in Delays \cup {1, SHOW_TICKS}, TimeDly(ticks), Keep,
             At(pc), pc \notin {"register", "ready", "COUNT"}
      PROVE  Kernel!Next
  BY <1>3, Names, DelayIsKernelStep DEF Kernel!Next
<1>4. ASSUME NEW label, Alone(label) PROVE UNCHANGED Kernel!vars
  BY <1>4, StutterIsKernelStep DEF Alone
<1>5. CASE Idle \/ Stop
  BY <1>4, <1>5 DEF Idle, Stop
<1>6. CASE Register
  BY <1>1, <1>2, <1>6, Names DEF Register
<1>7. CASE Ready
  BY <1>1, <1>2, <1>7, Names DEF Ready
<1>8. CASE Count
  BY <1>1, <1>2, <1>8, Names DEF Count
<1>9. CASE Start
  BY <1>3, <1>4, <1>9 DEF Start, At
<1>10. CASE Delay
  BY <1>3, <1>10 DEF Delay, At
<1>11. CASE Again
  BY <1>3, <1>11 DEF Again, At, LoopsStop
<1>12. CASE Show
  BY <1>3, <1>4, <1>12 DEF Show, At
<1>13. CASE Delayed
  BY <1>4, <1>13 DEF Delayed
<1>14. CASE Cheated
  BY <1>14, Names, SetIsKernelStep DEF Cheated, Kernel!Next
<1> QED
  BY <1>5, <1>6, <1>7, <1>8, <1>9, <1>10, <1>11, <1>12, <1>13, <1>14 DEF ReactionMeterTask

LEMMA KernelSteps ==
  ASSUME IInv, ConsoleNeverWaits, [Next]_vars
  PROVE  [Kernel!Next]_(Kernel!vars)
<1> USE DEF IInv
<1>1. CASE Millisecond \/ Player \/ IsrRead \/ UNCHANGED vars
  BY <1>1, StutterIsKernelStep DEF Millisecond, Player, Press, Lift, IsrRead, vars
<1>2. CASE Interrupted \/ TickIsr \/ Resume \/ Switch
  BY <1>2, ProcessorIsKernelStep DEF Kernel!Next
<1>3. CASE IsrClear
  <2>1. ASSUME NEW e \in Events, Post(e) PROVE Kernel!Next
    <3>1. Kernel!Posts(e)
      BY <1>3, <2>1, PostIsKernelStep DEF IsrClear
    <3> QED
      BY <3>1 DEF Kernel!Next
  <2>2. CASE UNCHANGED <<cnt, waiting, evt, stat, pendStat, dly, rdy, sched>>
    BY <1>3, <2>2, StutterIsKernelStep DEF IsrClear, kernelVars, schedVars
  <2>3. \/ Post("start_sem") \/ Post("stop_sem")
        \/ UNCHANGED <<cnt, waiting, evt, stat, pendStat, dly, rdy, sched>>
    BY <1>3 DEF IsrClear, ButtonIsr, START_KEY, RESP_KEY
  <2> QED
    BY <2>1, <2>2, <2>3, Names
<1>4. CASE Console
  <2>1. TaskCalls
    BY <1>4, Names DEF Console, Runs, TaskCalls, ConsoleNeverWaits
  <2>2. Kernel!Posts("player_queue")
    BY <1>4, <2>1, Names, PostIsKernelStep DEF Console
  <2> QED
    BY <2>2, Names DEF Kernel!Next
<1>5. CASE ReactionMeterTask
  BY <1>5, TaskIsKernelStep
<1> QED
  BY <1>1, <1>2, <1>3, <1>4, <1>5 DEF Next, Processor

\* Waits are entered and left by the task that runs, which is the other one.
LEMMA ConsoleStaysOut ==
  ASSUME KernelInv, ConsoleNeverWaits, [Next]_vars
  PROVE  ConsoleNeverWaits'
<1> USE DEF ConsoleNeverWaits
<1>1. /\ ConsoleTask # ReactionTask /\ evt \in [Tasks -> Events \cup {NoEvent}]
      /\ ConsoleTask \in Tasks
  BY Names DEF KernelInv, KernelTypeOK
<1>2. CASE Millisecond \/ Player \/ UNCHANGED vars
  BY <1>2 DEF Millisecond, Player, Press, Lift, vars, kernelVars
<1>3. CASE Processor \/ Console
  BY <1>3
  DEF Processor, Console, Interrupted, TickIsr, TimeTick, IsrRead, IsrClear,
      ButtonIsr, Resume, Switch, Dispatch, Post, PostHands, PostCounts,
      PostOverflows, EventTaskRdy, kernelVars
<1>4. CASE ReactionMeterTask
  <2>1. evt' = evt \/ \E e : evt' = [evt EXCEPT ![ReactionTask] = e]
    BY <1>4
    DEF ReactionMeterTask, Idle, Register, Ready, Start, Delay, Delayed, Cheated,
        Again, Count, Stop, Show, Alone, Waits, Gets, TimesOut, At, Runs, PendBlocks,
        EventTaskWait, PendTakes, PendReturns, TimeDly, SemSet, kernelVars
  <2> QED
    BY <1>1, <2>1
<1> QED
  BY <1>2, <1>3, <1>4 DEF Next

\* The program runs on the kernel as UcosTasks describes it: every step of it
\* is one operation of the kernel, called by a task that runs and is in no
\* other call or by a handler, or does not touch the kernel.  Every token put
\* into a semaphore or the queue is therefore accounted for, also when a press
\* meets a wait that times out or the reset of cheat prevention.
THEOREM RunsKernel == Spec => Kernel!Spec
<1>1. Init => Kernel!Init
  <2> SUFFICES ASSUME Init PROVE Kernel!Init
    OBVIOUS
  <2>1. Kernel!KernelInit
    BY DEF Init, KernelInit, IsMostUrgent, Priorities,
           Kernel!KernelInit, Kernel!IsMostUrgent, Kernel!Priorities
  <2>2. Account = [e \in Events |-> 0]
    BY InitAccount DEF Init
  <2> QED
    BY <2>1, <2>2 DEF Kernel!Init
<1>2. Init => ConsoleNeverWaits
  BY Names DEF Init, KernelInit, ConsoleNeverWaits
<1>3. IInv => KernelInv
  BY DEF IInv
<1> QED
  BY <1>1, <1>2, <1>3, ConsoleStaysOut, KernelSteps, Inductive, PTL DEF Spec, Kernel!Spec
=============================================================================
