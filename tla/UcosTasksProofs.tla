--------------------------- MODULE UcosTasksProofs ---------------------------
(***************************************************************************)
(* What module UcosTasks checks for two tasks and two events holds for any *)
(* finite set of tasks, any events, limits, delays and time-outs.          *)
(***************************************************************************)
EXTENDS UcosTasks, KernelProofs

\* The inductive invariant: the kernel's own, and the account of tokens.
IInv == UcosTypeOK /\ KernelInv /\ TokensConserved

-----------------------------------------------------------------------------
\* The credit is the account of KernelProofs, before and after a step.
LEMMA IInvIff ==
  /\ IInv <=> KernelInv /\ credit = Account
  /\ IInv' <=> KernelInv' /\ credit' = Account'
<1>1. IsFiniteSet(Tasks)
  BY TasksAssumption DEF TasksAssumption
<1>2. ASSUME NEW e \in Events
      PROVE  Granted(e) = InHands(e) /\ Granted(e)' = InHands(e)'
  BY DEF Granted, InHands
<1>3. /\ credit \in [Events -> Int] => (TokensConserved <=> credit = Account)
      /\ credit' \in [Events -> Int] => (TokensConserved' <=> credit' = Account')
  BY <1>2 DEF TokensConserved, Account
<1>4. KernelInv => Account \in [Events -> Int]
  BY <1>1, AccountType DEF KernelInv, KernelTypeOK
<1>5. KernelInv' => Account' \in [Events -> Int]
  <2> SUFFICES ASSUME KernelInv', NEW e \in Events
               PROVE  cnt'[e] + Cardinality(InHands(e)') \in Int
    BY DEF Account
  <2>1. cnt'[e] \in Int /\ Cardinality(InHands(e)') \in Nat
    BY <1>1, InHandsFinite DEF KernelInv, KernelTypeOK
  <2> QED
    BY <2>1
<1>6. (KernelInv => KernelTypeOK) /\ (KernelInv' => KernelTypeOK')
  BY DEF KernelInv
<1> QED
  BY <1>3, <1>4, <1>5, <1>6 DEF IInv, UcosTypeOK

LEMMA InitIInv == Init => IInv
<1> SUFFICES ASSUME Init PROVE IInv
  OBVIOUS
<1>1. KernelInv
  BY KernelInitInv DEF Init
<1>2. credit = Account
  BY InitAccount DEF Init
<1> QED
  BY <1>1, <1>2, IInvIff

\* A call about an event: one that finds a token, one that waits, one that
\* sets a count.
LEMMA TaskIInv ==
  ASSUME IInv, NEW t \in Tasks, NEW e \in Events,
         \/ TaskTakes(t, e)
         \/ \E timeout \in Timeouts : TaskBlocks(t, e, timeout)
         \/ \E n \in Counts : TaskSets(t, e, n)
  PROVE  IInv'
<1>1. KernelInv /\ credit = Account /\ IsFiniteSet(Tasks)
  BY IInvIff, TasksAssumption DEF TasksAssumption
<1>2. TaskCalls
  BY DEF TaskTakes, TaskBlocks, TaskSets, Caller, Runs, TaskCalls
<1>3. CASE TaskTakes(t, e)
  BY <1>1, <1>3, PendTakesInv, PendTakesAccount, IInvIff DEF TaskTakes
<1>4. ASSUME NEW timeout \in Timeouts, TaskBlocks(t, e, timeout) PROVE IInv'
  <2>1. timeout \in Nat
    BY TasksAssumption DEF TasksAssumption
  <2> QED
    BY <1>1, <1>2, <1>4, <2>1, PendBlocksInv, PendBlocksAccount, IInvIff
    DEF TaskBlocks
<1>5. ASSUME NEW n \in Counts, TaskSets(t, e, n) PROVE IInv'
  <2>1. n \in 0..Limit[e] /\ n \in Nat
    BY TasksAssumption, UcosAssumption DEF TasksAssumption, UcosAssumption
  <2> QED
    BY <1>1, <1>5, <2>1, SemSetInv, SemSetAccount, IInvIff DEF TaskSets
<1> QED
  BY <1>3, <1>4, <1>5

LEMMA TaskDelaysIInv ==
  ASSUME IInv, NEW t \in Tasks, NEW ticks \in Ticks, TaskDelays(t, ticks)
  PROVE  IInv'
<1>1. /\ KernelInv /\ credit = Account /\ TaskCalls /\ ticks \in Nat \ {0}
  BY IInvIff, TasksAssumption DEF TasksAssumption, TaskDelays, Caller, Runs, TaskCalls
<1> QED
  BY <1>1, TimeDlyInv, TimeDlyAccount, IInvIff DEF TaskDelays

\* A call that has been granted its event returns with it, one that timed
\* out with nothing.
LEMMA TaskReturnsIInv ==
  ASSUME IInv, NEW t \in Tasks, TaskReturns(t)
  PROVE  IInv'
<1>1. /\ KernelInv /\ credit = Account /\ IsFiniteSet(Tasks)
      /\ cur = t /\ cur \in Tasks /\ Runs(cur)
  BY IInvIff, TasksAssumption DEF TasksAssumption, TaskReturns, Runs
<1> QED
  BY <1>1, PendReturnsInv, PendReturnsAccount, IInvIff DEF TaskReturns

\* A post: the token goes to exactly one waiter, or into the count, or the
\* poster is told that there is no room.
LEMMA PostsIInv ==
  ASSUME IInv, NEW e \in Events, Posts(e)
  PROVE  IInv'
<1>1. /\ KernelInv /\ credit = Account /\ IsFiniteSet(Tasks)
      /\ nesting = 0 => cur \in Tasks
  BY IInvIff, TasksAssumption
  DEF TasksAssumption, Posts, Caller, Runs, KernelInv, KernelTypeOK
<1> QED
  BY <1>1, PostInv, PostAccount, IInvIff DEF Posts

\* The tick, interrupt entry and exit and OS_Sched move no token.
LEMMA SwitchIInv ==
  ASSUME IInv, Interrupt \/ Tick \/ Leave \/ Switch
  PROVE  IInv'
<1>1. KernelInv /\ credit = Account
  BY IInvIff
<1>2. KernelInv'
  BY <1>1, IntEnterInv, TimeTickInv, IntExitInv, DispatchInv
  DEF Interrupt, Tick, Leave, Switch
<1>3. credit' = credit /\ Account' = Account
  BY <1>1, TimeTickAccount, SwitchAccount DEF Interrupt, Tick, Leave, Switch, Dispatch
<1> QED
  BY <1>1, <1>2, <1>3, IInvIff

-----------------------------------------------------------------------------
\* Every state the kernel reaches satisfies the inductive invariant, whatever
\* tasks and handlers call (os_sem.c, os_q.c, os_time.c, os_core.c).
THEOREM Inductive == Spec => []IInv
<1>1. Init => IInv
  BY InitIInv
<1>2. IInv /\ [Next]_vars => IInv'
  <2> SUFFICES ASSUME IInv, [Next]_vars PROVE IInv'
    OBVIOUS
  <2>1. CASE UNCHANGED vars
    <3>1. UNCHANGED kernelVars /\ UNCHANGED credit
      BY <2>1 DEF vars
    <3>2. KernelInv /\ credit = Account
      BY IInvIff
    <3>3. KernelInv' /\ Account' = Account
      BY <3>1, <3>2, StutterInv, SwitchAccount DEF kernelVars
    <3> QED
      BY <3>1, <3>2, <3>3, IInvIff
  <2>2. CASE Next
    <3>1. ASSUME NEW t \in Tasks, NEW e \in Events,
                 \/ TaskTakes(t, e)
                 \/ \E timeout \in Timeouts : TaskBlocks(t, e, timeout)
                 \/ \E n \in Counts : TaskSets(t, e, n)
          PROVE  IInv'
      BY <3>1, TaskIInv
    <3>2. ASSUME NEW t \in Tasks, TaskReturns(t) PROVE IInv'
      BY <3>2, TaskReturnsIInv
    <3>3. ASSUME NEW t \in Tasks, NEW n \in Ticks, TaskDelays(t, n) PROVE IInv'
      BY <3>3, TaskDelaysIInv
    <3>4. ASSUME NEW e \in Events, Posts(e) PROVE IInv'
      BY <3>4, PostsIInv
    <3>5. CASE Interrupt \/ Tick \/ Leave \/ Switch
      BY <3>5, SwitchIInv
    <3> QED
      BY <2>2, <3>1, <3>2, <3>3, <3>4, <3>5 DEF Next
  <2> QED
    BY <2>1, <2>2
<1> QED
  BY <1>1, <1>2, PTL DEF Spec

\* Every field of the kernel keeps to its type, and no count exceeds its
\* limit: neither a semaphore nor a queue overflows.
THEOREM Typed == Spec => []UcosTypeOK
BY Inductive, PTL DEF IInv

\* A token is never set aside while a task waits for one, wait lists hold
\* exactly the tasks with an open call, and the ready table exactly those that
\* neither wait nor sleep.
THEOREM TablesStayExact == Spec => []TablesAgree
<1>1. IInv => TablesAgree
  BY DEF IInv, KernelInv, TablesAgree
<1> QED
  BY <1>1, Inductive, PTL

\* Task code is never executed while a more urgent task could run.
THEOREM SchedulerIsPreemptive == Spec => []MostUrgentRuns
<1>1. IInv => MostUrgentRuns
  BY DEF IInv, KernelInv
<1> QED
  BY <1>1, Inductive, PTL

\* No token of any semaphore or queue is lost, duplicated or made up, in
\* particular when a post meets a wait that has just timed out.
THEOREM NoTokenLost == Spec => []TokensConserved
BY Inductive, PTL DEF IInv
=============================================================================
