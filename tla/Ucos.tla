-------------------------------- MODULE Ucos --------------------------------
(***************************************************************************)
(* The part of the uC/OS-II kernel both applications are built on: counting *)
(* semaphores and message queues with time-outs, delays, the clock tick,   *)
(* interrupt nesting and the fixed-priority scheduler.                     *)
(*                                                                         *)
(* A task is its priority, 0 being the most urgent.  One operation of this *)
(* module is one critical section of the code; the modules that extend it  *)
(* say which task or interrupt handler performs which operation when.  A   *)
(* queue whose messages do not matter is an event whose count is the       *)
(* number of its entries: OSQPend and OSQPost then do to OSQEntries what   *)
(* OSSemPend and OSSemPost do to OSEventCnt, with another limit.           *)
(***************************************************************************)
EXTENDS Integers

CONSTANTS
  Tasks,           \* priorities of the application's tasks
  IDLE_PRIO,       \* OS_TASK_IDLE_PRIO
  Events,          \* event control blocks
  NoEvent,         \* the null event pointer
  Limit            \* 65535 for a semaphore, its size for a queue

ASSUME UcosAssumption ==
  /\ Tasks \subseteq Nat
  /\ IDLE_PRIO \in Nat
  /\ \A t \in Tasks : t < IDLE_PRIO
  /\ NoEvent \notin Events
  /\ Limit \in [Events -> Nat \ {0}]

VARIABLES
  cnt,             \* OSEventCnt, or OSQEntries of a queue
  waiting,         \* OSEventTbl: the tasks in an event's wait list
  evt,             \* OSTCBEventPtr: the event a task's pend call is about
  stat,            \* OSTCBStat: "PEND" while a task waits for an event
  pendStat,        \* OSTCBStatPend: how a wait ended, "OK" or "TO"
  dly,             \* OSTCBDly: ticks until the wait times out, 0 for never
  rdy,             \* OSRdyTbl: the tasks that can run
  cur,             \* OSPrioCur: the task that runs
  sched,           \* the tasks on their way to OS_Sched after an operation
  nesting          \* OSIntNesting

kernelVars == <<cnt, waiting, evt, stat, pendStat, dly, rdy, cur, sched, nesting>>

\* No operation but those of the scheduler changes these.
schedVars == <<cur, nesting>>

Priorities == Tasks \cup {IDLE_PRIO}

\* The most urgent member of a set of priorities (OSUnMapTbl).
IsMostUrgent(p, set) == p \in set /\ \A q \in set : p <= q

-----------------------------------------------------------------------------
(* Events: every wait list empty, every task ready, after OSStart.         *)
KernelInit ==
  /\ cnt = [e \in Events |-> 0]
  /\ waiting = [e \in Events |-> {}]
  /\ evt = [t \in Tasks |-> NoEvent]
  /\ stat = [t \in Tasks |-> "RDY"]
  /\ pendStat = [t \in Tasks |-> "OK"]
  /\ dly = [t \in Tasks |-> 0]
  /\ rdy = Priorities
  /\ IsMostUrgent(cur, Priorities)
  /\ sched = {}
  /\ nesting = 0

\* The running task blocks (OS_EventTaskWait and the lines before it).
EventTaskWait(e, timeout) ==
  /\ evt' = [evt EXCEPT ![cur] = e]
  /\ stat' = [stat EXCEPT ![cur] = "PEND"]
  /\ pendStat' = [pendStat EXCEPT ![cur] = "OK"]
  /\ dly' = [dly EXCEPT ![cur] = timeout]
  /\ waiting' = [waiting EXCEPT ![e] = @ \cup {cur}]
  /\ rdy' = rdy \ {cur}
  /\ sched' = sched \cup {cur}

\* Slip: the outcome of a wait that timed out is not rewritten.
EventTaskRdyKeepsOutcome(e) ==
  \E t \in waiting[e] :
    /\ IsMostUrgent(t, waiting[e])
    /\ dly' = [dly EXCEPT ![t] = 0]
    /\ stat' = [stat EXCEPT ![t] = "RDY"]
    /\ rdy' = rdy \cup {t}
    /\ waiting' = [waiting EXCEPT ![e] = @ \ {t}]
    /\ UNCHANGED <<cnt, evt, pendStat>>

\* The most urgent waiter is given the event, whether or not its time-out
\* has struck meanwhile: it stays in the list until it runs again.
EventTaskRdy(e) ==
  \E t \in waiting[e] :
    /\ IsMostUrgent(t, waiting[e])
    /\ dly' = [dly EXCEPT ![t] = 0]
    /\ stat' = [stat EXCEPT ![t] = "RDY"]
    /\ pendStat' = [pendStat EXCEPT ![t] = "OK"]
    /\ rdy' = rdy \cup {t}
    /\ waiting' = [waiting EXCEPT ![e] = @ \ {t}]
    /\ UNCHANGED <<cnt, evt>>

-----------------------------------------------------------------------------
(* OSSemPend and OSQPend by the running task.                              *)

\* Slip: the count is decremented without a look at it.
PendTakesBlindly(e) ==
  /\ cnt' = [cnt EXCEPT ![e] = @ - 1]
  /\ UNCHANGED <<waiting, evt, stat, pendStat, dly, rdy, sched>>

\* A token is there: the call returns at once.
PendTakes(e) ==
  /\ cnt[e] > 0
  /\ cnt' = [cnt EXCEPT ![e] = @ - 1]
  /\ UNCHANGED <<waiting, evt, stat, pendStat, dly, rdy, sched>>

\* No token: the task waits and calls OS_Sched.
PendBlocks(e, timeout) ==
  /\ cnt[e] = 0
  /\ EventTaskWait(e, timeout)
  /\ UNCHANGED cnt

Pend(e, timeout) == PendTakes(e) \/ PendBlocks(e, timeout)

\* The rest of the call, when the task runs again: a wait that timed out
\* takes the task off the wait list.  The call has succeeded iff pendStat
\* was "OK".
PendReturns ==
  /\ evt[cur] # NoEvent
  /\ waiting' = IF pendStat[cur] = "TO"
                THEN [waiting EXCEPT ![evt[cur]] = @ \ {cur}] ELSE waiting
  /\ stat' = [stat EXCEPT ![cur] = "RDY"]
  /\ pendStat' = [pendStat EXCEPT ![cur] = "OK"]
  /\ evt' = [evt EXCEPT ![cur] = NoEvent]
  /\ UNCHANGED <<cnt, dly, rdy, sched>>

\* Slip: a task that makes another ready does not call OS_Sched.
PostHandsQuietly(e) ==
  /\ waiting[e] # {}
  /\ EventTaskRdy(e)
  /\ UNCHANGED sched

\* OSSemPost and OSQPost, by the running task or by an interrupt handler
\* (whose call of OS_Sched returns at once).
PostHands(e) ==
  /\ waiting[e] # {}
  /\ EventTaskRdy(e)
  /\ sched' = IF nesting = 0 THEN sched \cup {cur} ELSE sched

PostCounts(e) ==
  /\ waiting[e] = {}
  /\ cnt[e] < Limit[e]
  /\ cnt' = [cnt EXCEPT ![e] = @ + 1]
  /\ UNCHANGED <<waiting, evt, stat, pendStat, dly, rdy, sched>>

\* OS_ERR_SEM_OVF, OS_ERR_Q_FULL: the caller is told, and never looks.
PostOverflows(e) ==
  /\ waiting[e] = {}
  /\ cnt[e] >= Limit[e]
  /\ UNCHANGED <<cnt, waiting, evt, stat, pendStat, dly, rdy, sched>>

Post(e) == PostHands(e) \/ PostCounts(e) \/ PostOverflows(e)

\* OSSemSet; refused while a task waits.
SemSet(e, n) ==
  /\ cnt' = IF cnt[e] > 0 \/ waiting[e] = {}
            THEN [cnt EXCEPT ![e] = n] ELSE cnt
  /\ UNCHANGED <<waiting, evt, stat, pendStat, dly, rdy, sched>>

\* OSTimeDly by the running task, for at least one tick.
TimeDly(ticks) ==
  /\ dly' = [dly EXCEPT ![cur] = ticks]
  /\ rdy' = rdy \ {cur}
  /\ sched' = sched \cup {cur}
  /\ UNCHANGED <<cnt, waiting, evt, stat, pendStat>>

-----------------------------------------------------------------------------
(* Interrupts and the scheduler.                                           *)

IntEnter == nesting' = nesting + 1 /\ UNCHANGED cur

\* Leaving the last handler switches to the most urgent ready task.
IntExit ==
  /\ nesting > 0
  /\ nesting' = nesting - 1
  /\ IF nesting' = 0 THEN IsMostUrgent(cur', rdy) ELSE UNCHANGED cur

\* Slip: the tick readies only tasks that sleep.
TimeTickKeepsWaiters ==
  LET over == {t \in Tasks : dly[t] = 1 /\ stat[t] = "RDY"}
  IN  /\ dly' = [t \in Tasks |-> IF dly[t] > 0 THEN dly[t] - 1 ELSE 0]
      /\ rdy' = rdy \cup over
      /\ UNCHANGED <<cnt, waiting, evt, stat, pendStat, sched>>

\* OSTimeTick.  A wait that times out leaves its task in the wait list.
TimeTick ==
  LET over == {t \in Tasks : dly[t] = 1}
  IN  /\ dly' = [t \in Tasks |-> IF dly[t] > 0 THEN dly[t] - 1 ELSE 0]
      /\ stat' = [t \in Tasks |-> IF t \in over THEN "RDY" ELSE stat[t]]
      /\ pendStat' = [t \in Tasks |->
           IF t \in over THEN IF stat[t] = "PEND" THEN "TO" ELSE "OK"
                         ELSE pendStat[t]]
      /\ rdy' = rdy \cup over
      /\ UNCHANGED <<cnt, waiting, evt, sched>>

\* OS_Sched, called by the running task.
Dispatch ==
  /\ nesting = 0
  /\ cur \in sched
  /\ sched' = sched \ {cur}
  /\ IsMostUrgent(cur', rdy)
  /\ UNCHANGED <<cnt, waiting, evt, stat, pendStat, dly, rdy, nesting>>

\* Task code runs outside handlers and outside OS_Sched.
Runs(t) == cur = t /\ nesting = 0 /\ t \notin sched
-----------------------------------------------------------------------------
(* What holds of the kernel between any two operations, whoever calls them. *)

KernelTypeOK ==
  /\ cnt \in [Events -> Nat] /\ \A e \in Events : cnt[e] <= Limit[e]
  /\ waiting \in [Events -> SUBSET Tasks]
  /\ evt \in [Tasks -> Events \cup {NoEvent}]
  /\ stat \in [Tasks -> {"RDY", "PEND"}]
  /\ pendStat \in [Tasks -> {"OK", "TO"}]
  /\ dly \in [Tasks -> Nat]
  /\ rdy \subseteq Priorities /\ IDLE_PRIO \in rdy
  /\ cur \in Priorities
  /\ sched \subseteq Tasks
  /\ nesting \in {0, 1}

\* A semaphore that counts tokens, or a queue with entries, has no task in
\* its wait list, not even one that timed out and has not run yet: a post
\* would pass the token to it over the heads of the waiting tokens.
TokensMeanNoWaiter == \A e \in Events : cnt[e] > 0 => waiting[e] = {}

\* The wait lists hold exactly the tasks whose call is still open: those
\* that wait, and those that timed out and have not run since.
WaitListExact ==
  \A e \in Events, t \in Tasks :
    t \in waiting[e] <=>
      evt[t] = e /\ (stat[t] = "PEND" \/ pendStat[t] = "TO")

\* The ready table holds exactly the tasks that neither wait nor sleep: a
\* time-out and a post of the same wait make the task ready once, and
\* leave no countdown behind that could end a later wait.
ReadyExact == \A t \in Tasks : t \in rdy <=> stat[t] = "RDY" /\ dly[t] = 0

\* Counts, wait lists and ready table say the same about every task.
TablesAgree == TokensMeanNoWaiter /\ WaitListExact /\ ReadyExact

\* Outside handlers and OS_Sched the task that runs is the most urgent of
\* those that can: no operation readies a task without rescheduling.
MostUrgentRuns == nesting = 0 /\ cur \notin sched => IsMostUrgent(cur, rdy)
=============================================================================
