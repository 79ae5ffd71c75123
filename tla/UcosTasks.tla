------------------------------ MODULE UcosTasks ------------------------------
(***************************************************************************)
(* The kernel of module Ucos under every program: tasks and interrupt      *)
(* handlers call its operations in any order the kernel admits.            *)
(***************************************************************************)
EXTENDS Ucos, FiniteSets

CONSTANTS
  Timeouts,        \* time-outs of the pend calls, 0 for none
  Ticks,           \* arguments of OSTimeDly
  Counts           \* arguments of OSSemSet

ASSUME TasksAssumption ==
  /\ IsFiniteSet(Tasks)
  /\ Timeouts \subseteq Nat
  /\ Ticks \subseteq Nat \ {0}
  /\ \A e \in Events : Counts \subseteq 0..Limit[e]

\* History: tokens put into an event less tokens that calls have returned
\* with.
VARIABLE credit

vars == <<kernelVars, credit>>

Init == KernelInit /\ credit = [e \in Events |-> 0]

-----------------------------------------------------------------------------
Caller(t) == Runs(t) /\ evt[t] = NoEvent

TaskTakes(t, e) ==
  /\ Caller(t) /\ PendTakes(e)
  /\ credit' = [credit EXCEPT ![e] = @ - 1]
  /\ UNCHANGED schedVars

TaskBlocks(t, e, timeout) ==
  /\ Caller(t) /\ PendBlocks(e, timeout)
  /\ UNCHANGED <<schedVars, credit>>

TaskReturns(t) ==
  /\ Runs(t) /\ PendReturns
  /\ credit' = IF pendStat[t] = "OK"
               THEN [credit EXCEPT ![evt[t]] = @ - 1] ELSE credit
  /\ UNCHANGED schedVars

TaskDelays(t, ticks) ==
  /\ Caller(t) /\ TimeDly(ticks)
  /\ UNCHANGED <<schedVars, credit>>

TaskSets(t, e, n) ==
  /\ Caller(t) /\ SemSet(e, n)
  /\ credit' = [credit EXCEPT ![e] = @ + (cnt'[e] - cnt[e])]
  /\ UNCHANGED schedVars

\* A post by a task or, between IntEnter and IntExit, by a handler.
Posts(e) ==
  /\ nesting > 0 \/ \E t \in Tasks : Caller(t)
  /\ Post(e)
  /\ credit' = IF waiting[e] = {} /\ cnt[e] >= Limit[e]
               THEN credit ELSE [credit EXCEPT ![e] = @ + 1]
  /\ UNCHANGED schedVars

\* The port runs its handlers with interrupts disabled: no nesting.
Interrupt ==
  /\ nesting = 0 /\ IntEnter
  /\ UNCHANGED <<cnt, waiting, evt, stat, pendStat, dly, rdy, sched, credit>>

Tick == nesting > 0 /\ TimeTick /\ UNCHANGED <<schedVars, credit>>

Leave ==
  /\ IntExit
  /\ UNCHANGED <<cnt, waiting, evt, stat, pendStat, dly, rdy, sched, credit>>

Switch == Dispatch /\ UNCHANGED credit

Next ==
  \/ \E t \in Tasks, e \in Events :
       \/ TaskTakes(t, e)
       \/ \E timeout \in Timeouts : TaskBlocks(t, e, timeout)
       \/ \E n \in Counts : TaskSets(t, e, n)
  \/ \E t \in Tasks : TaskReturns(t) \/ \E n \in Ticks : TaskDelays(t, n)
  \/ \E e \in Events : Posts(e)
  \/ Interrupt \/ Tick \/ Leave \/ Switch

Spec == Init /\ [][Next]_vars

(* The timer keeps interrupting and handlers return; a task that runs gets *)
(* processor time between interrupts and finishes the call it is in.       *)
Fairness ==
  /\ SF_vars(Tick) /\ WF_vars(Interrupt) /\ WF_vars(Leave)
  /\ SF_vars(Switch)
  /\ \A t \in Tasks : SF_vars(TaskReturns(t))

FairSpec == Spec /\ Fairness

-----------------------------------------------------------------------------
(* Properties                                                              *)

UcosTypeOK == KernelTypeOK /\ credit \in [Events -> Int]

\* Tasks that have been handed an event and have not returned with it.
Granted(e) == {t \in Tasks : evt[t] = e /\ stat[t] = "RDY" /\ pendStat[t] = "OK"}

\* No token is lost or made up, also when a post meets a wait that timed
\* out: every one is in the count or in the hands of one task.
TokensConserved == \A e \in Events : credit[e] = cnt[e] + Cardinality(Granted(e))

\* A call with a time-out, by the most urgent task, comes back.
UrgentCallReturns ==
  \A t \in Tasks : (\A u \in Tasks : t <= u) =>
    (evt[t] # NoEvent /\ dly[t] > 0 ~> evt[t] = NoEvent)
=============================================================================
