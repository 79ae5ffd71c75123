---------------------------- MODULE KernelProofs ----------------------------
(***************************************************************************)
(* Every operation of the kernel, called as its users call it, preserves    *)
(* the kernel's invariant and moves tokens as its name says.  Two lemmas    *)
(* for an operation, so that the proof about a program on the kernel only   *)
(* has to say which operation each of its steps performs, and that the call *)
(* is allowed there.                                                        *)
(***************************************************************************)
EXTENDS Ucos, FiniteSetTheorems, TLAPS

\* How the fields of a task's control block go together: a task that waits
\* or has timed out is in a call, and no countdown survives a wait.
FieldsAgree ==
  \A t \in Tasks :
    /\ stat[t] = "PEND" => evt[t] # NoEvent /\ pendStat[t] = "OK"
    /\ pendStat[t] = "TO" => evt[t] # NoEvent
    /\ evt[t] # NoEvent /\ stat[t] = "RDY" => dly[t] = 0

\* The inductive invariant of the kernel.
KernelInv ==
  /\ KernelTypeOK
  /\ TokensMeanNoWaiter
  /\ WaitListExact
  /\ ReadyExact
  /\ MostUrgentRuns
  /\ FieldsAgree

\* A task calls the kernel: it runs, and is in no other call.
TaskCalls == cur \in Tasks /\ Runs(cur) /\ evt[cur] = NoEvent

-----------------------------------------------------------------------------
\* The state main leaves behind (OSSemCreate, OSStart) satisfies it.
LEMMA KernelInitInv == KernelInit => KernelInv
<1> SUFFICES ASSUME KernelInit PROVE KernelInv
  OBVIOUS
<1> USE UcosAssumption DEF UcosAssumption, KernelInit
<1>1. KernelTypeOK
  BY DEF KernelTypeOK, Priorities, IsMostUrgent
<1>2. TokensMeanNoWaiter /\ WaitListExact /\ ReadyExact
  BY DEF TokensMeanNoWaiter, WaitListExact, ReadyExact, Priorities
<1>3. MostUrgentRuns /\ FieldsAgree
  BY DEF MostUrgentRuns, FieldsAgree
<1> QED
  BY <1>1, <1>2, <1>3 DEF KernelInv

\* A running task is ready, so it neither waits nor sleeps.
LEMMA RunningIsReady ==
  ASSUME KernelInv, cur \in Tasks, Runs(cur)
  PROVE  cur \in rdy /\ stat[cur] = "RDY" /\ dly[cur] = 0
BY DEF KernelInv, ReadyExact, MostUrgentRuns, IsMostUrgent, Runs

\* Operations that change nothing but counts keep the rest: OSSemPend that
\* finds a token, OSSemPost and OSQPost that leave one, OSSemSet.
LEMMA CountingKeepsInv ==
  ASSUME KernelInv, NEW e \in Events, NEW n \in Nat, n <= Limit[e],
         waiting[e] = {} \/ n = 0,
         cnt' = [cnt EXCEPT ![e] = n],
         UNCHANGED <<waiting, evt, stat, pendStat, dly, rdy, sched>>,
         UNCHANGED schedVars
  PROVE  KernelInv'
<1> USE DEF KernelInv, schedVars
<1>1. KernelTypeOK'
  BY DEF KernelTypeOK, Priorities
<1>2. TokensMeanNoWaiter'
  BY DEF TokensMeanNoWaiter, KernelTypeOK
<1>3. WaitListExact' /\ ReadyExact' /\ FieldsAgree'
  BY DEF WaitListExact, ReadyExact, FieldsAgree
<1>4. MostUrgentRuns'
  BY DEF MostUrgentRuns, IsMostUrgent
<1> QED
  BY <1>1, <1>2, <1>3, <1>4

\* OSSemPend and OSQPend, a token being there.
LEMMA PendTakesInv ==
  ASSUME KernelInv, NEW e \in Events, PendTakes(e), UNCHANGED schedVars
  PROVE  KernelInv'
<1>1. cnt[e] \in Nat /\ cnt[e] <= Limit[e] /\ Limit[e] \in Nat /\ cnt[e] > 0
  BY UcosAssumption DEF UcosAssumption, KernelInv, KernelTypeOK, PendTakes
<1>2. waiting[e] = {}
  BY <1>1 DEF KernelInv, TokensMeanNoWaiter
<1>3. cnt[e] - 1 \in Nat /\ cnt[e] - 1 <= Limit[e]
  BY <1>1
<1>4. /\ cnt' = [cnt EXCEPT ![e] = cnt[e] - 1]
      /\ UNCHANGED <<waiting, evt, stat, pendStat, dly, rdy, sched>>
  BY DEF PendTakes
<1> QED
  BY <1>2, <1>3, <1>4, CountingKeepsInv

\* A post nobody waits for.
LEMMA PostCountsInv ==
  ASSUME KernelInv, NEW e \in Events, PostCounts(e), UNCHANGED schedVars
  PROVE  KernelInv'
<1>0. cnt[e] \in Nat /\ Limit[e] \in Nat /\ cnt[e] < Limit[e]
  BY UcosAssumption DEF UcosAssumption, KernelInv, KernelTypeOK, PostCounts
<1>1. cnt[e] + 1 \in Nat /\ cnt[e] + 1 <= Limit[e]
  BY <1>0
<1>4. /\ cnt' = [cnt EXCEPT ![e] = cnt[e] + 1]
      /\ UNCHANGED <<waiting, evt, stat, pendStat, dly, rdy, sched>>
      /\ waiting[e] = {}
  BY DEF PostCounts
<1> QED
  BY <1>1, <1>4, CountingKeepsInv

\* Nothing of the kernel changes.
LEMMA StutterInv ==
  ASSUME KernelInv, UNCHANGED kernelVars
  PROVE  KernelInv'
BY DEF KernelInv, kernelVars, KernelTypeOK, TokensMeanNoWaiter, WaitListExact,
       ReadyExact, MostUrgentRuns, IsMostUrgent, FieldsAgree, Priorities

\* OSSemSet.
LEMMA SemSetInv ==
  ASSUME KernelInv, NEW e \in Events, NEW n \in 0..Limit[e], SemSet(e, n),
         UNCHANGED schedVars
  PROVE  KernelInv'
<1>0. Limit[e] \in Nat
  BY UcosAssumption DEF UcosAssumption
<1>1. CASE cnt[e] > 0 \/ waiting[e] = {}
  <2>1. waiting[e] = {}
    BY <1>1 DEF KernelInv, TokensMeanNoWaiter
  <2>2. /\ cnt' = [cnt EXCEPT ![e] = n]
        /\ UNCHANGED <<waiting, evt, stat, pendStat, dly, rdy, sched>>
    BY <1>1 DEF SemSet
  <2>3. n \in Nat /\ n <= Limit[e]
    BY <1>0
  <2> QED
    BY <2>1, <2>2, <2>3, CountingKeepsInv
<1>2. CASE ~(cnt[e] > 0 \/ waiting[e] = {})
  BY <1>2, StutterInv DEF SemSet, kernelVars, schedVars
<1> QED
  BY <1>1, <1>2

-----------------------------------------------------------------------------
\* OSSemPend and OSQPend without a token: the caller leaves the ready table
\* and enters one wait list.
LEMMA PendBlocksInv ==
  ASSUME KernelInv, TaskCalls, NEW e \in Events, NEW timeout \in Nat,
         PendBlocks(e, timeout), UNCHANGED schedVars
  PROVE  KernelInv'
<1> USE UcosAssumption
    DEF UcosAssumption, PendBlocks, EventTaskWait, TaskCalls, schedVars
<1>1. stat[cur] = "RDY"
  BY RunningIsReady
<1>2. KernelTypeOK'
  <2>1. cur # IDLE_PRIO
    OBVIOUS
  <2> QED
    BY <2>1 DEF KernelInv, KernelTypeOK, Priorities
<1>3. TokensMeanNoWaiter'
  BY DEF KernelInv, KernelTypeOK, TokensMeanNoWaiter
<1>4. WaitListExact'
  BY <1>1 DEF KernelInv, KernelTypeOK, WaitListExact, FieldsAgree
<1>5. ReadyExact'
  BY DEF KernelInv, KernelTypeOK, ReadyExact
<1>6. MostUrgentRuns'
  BY DEF KernelInv, KernelTypeOK, MostUrgentRuns
<1>7. FieldsAgree'
  BY DEF KernelInv, KernelTypeOK, FieldsAgree
<1> QED
  BY <1>2, <1>3, <1>4, <1>5, <1>6, <1>7 DEF KernelInv

\* The end of such a call: a wait that timed out leaves the wait list.
LEMMA PendReturnsInv ==
  ASSUME KernelInv, cur \in Tasks, Runs(cur), PendReturns, UNCHANGED schedVars
  PROVE  KernelInv'
<1> USE DEF PendReturns, schedVars
<1>1. stat[cur] = "RDY" /\ dly[cur] = 0
  BY RunningIsReady
<1>2. evt[cur] \in Events
  BY DEF KernelInv, KernelTypeOK
<1>3. KernelTypeOK'
  BY <1>2 DEF KernelInv, KernelTypeOK, Priorities
<1>4. TokensMeanNoWaiter'
  BY <1>2 DEF KernelInv, KernelTypeOK, TokensMeanNoWaiter
<1>5. WaitListExact'
  BY <1>1, <1>2, UcosAssumption
  DEF UcosAssumption, KernelInv, KernelTypeOK, WaitListExact
<1>6. ReadyExact'
  BY <1>1 DEF KernelInv, KernelTypeOK, ReadyExact
<1>7. MostUrgentRuns'
  BY DEF KernelInv, MostUrgentRuns, IsMostUrgent
<1>8. FieldsAgree'
  BY <1>1 DEF KernelInv, KernelTypeOK, FieldsAgree
<1> QED
  BY <1>3, <1>4, <1>5, <1>6, <1>7, <1>8 DEF KernelInv

\* OS_EventTaskRdy and its callers: a post hands the event to a waiter.
LEMMA PostHandsInv ==
  ASSUME KernelInv, nesting = 0 => cur \in Tasks, NEW e \in Events,
         PostHands(e), UNCHANGED schedVars
  PROVE  KernelInv'
<1> USE DEF schedVars
<1>1. PICK t \in waiting[e] :
        /\ dly' = [dly EXCEPT ![t] = 0]
        /\ stat' = [stat EXCEPT ![t] = "RDY"]
        /\ pendStat' = [pendStat EXCEPT ![t] = "OK"]
        /\ rdy' = rdy \cup {t}
        /\ waiting' = [waiting EXCEPT ![e] = @ \ {t}]
        /\ UNCHANGED <<cnt, evt>>
        /\ sched' = IF nesting = 0 THEN sched \cup {cur} ELSE sched
  BY DEF PostHands, EventTaskRdy
<1>2. t \in Tasks /\ evt[t] = e
  BY DEF KernelInv, KernelTypeOK, WaitListExact
<1>3. KernelTypeOK'
  BY <1>1, <1>2 DEF KernelInv, KernelTypeOK, Priorities
<1>4. TokensMeanNoWaiter'
  BY <1>1, <1>2 DEF KernelInv, KernelTypeOK, TokensMeanNoWaiter
<1>5. WaitListExact'
  BY <1>1, <1>2 DEF KernelInv, KernelTypeOK, WaitListExact
<1>6. ReadyExact'
  BY <1>1, <1>2 DEF KernelInv, KernelTypeOK, ReadyExact
<1>7. MostUrgentRuns'
  BY <1>1 DEF KernelInv, KernelTypeOK, MostUrgentRuns, IsMostUrgent
<1>8. FieldsAgree'
  BY <1>1, <1>2 DEF KernelInv, KernelTypeOK, FieldsAgree
<1> QED
  BY <1>3, <1>4, <1>5, <1>6, <1>7, <1>8 DEF KernelInv

\* OSSemPost and OSQPost in a task or in a handler.
LEMMA PostInv ==
  ASSUME KernelInv, nesting = 0 => cur \in Tasks, NEW e \in Events,
         Post(e), UNCHANGED schedVars
  PROVE  KernelInv'
BY PostHandsInv, PostCountsInv, StutterInv
DEF Post, PostOverflows, kernelVars, schedVars

\* OSTimeDly.
LEMMA TimeDlyInv ==
  ASSUME KernelInv, TaskCalls, NEW ticks \in Nat \ {0}, TimeDly(ticks),
         UNCHANGED schedVars
  PROVE  KernelInv'
<1> USE DEF TimeDly, TaskCalls, schedVars
<1>1. KernelTypeOK'
  BY UcosAssumption DEF UcosAssumption, KernelInv, KernelTypeOK, Priorities
<1>2. TokensMeanNoWaiter' /\ WaitListExact'
  BY DEF KernelInv, TokensMeanNoWaiter, WaitListExact
<1>3. ReadyExact'
  BY DEF KernelInv, KernelTypeOK, ReadyExact
<1>4. MostUrgentRuns'
  BY DEF KernelInv, KernelTypeOK, MostUrgentRuns
<1>5. FieldsAgree'
  BY DEF KernelInv, KernelTypeOK, FieldsAgree
<1> QED
  BY <1>1, <1>2, <1>3, <1>4, <1>5 DEF KernelInv

-----------------------------------------------------------------------------
\* OSTimeTick, in a handler: waits that end stay in their wait lists.
LEMMA TimeTickInv ==
  ASSUME KernelInv, nesting > 0, TimeTick, UNCHANGED schedVars
  PROVE  KernelInv'
<1> USE DEF TimeTick, schedVars
<1>1. KernelTypeOK'
  BY DEF KernelInv, KernelTypeOK, Priorities
<1>2. TokensMeanNoWaiter'
  BY DEF KernelInv, TokensMeanNoWaiter
<1>3. ASSUME NEW t \in Tasks
      PROVE  /\ dly'[t] = IF dly[t] > 0 THEN dly[t] - 1 ELSE 0
             /\ stat'[t] = IF dly[t] = 1 THEN "RDY" ELSE stat[t]
             /\ pendStat'[t] = IF dly[t] # 1 THEN pendStat[t]
                               ELSE IF stat[t] = "PEND" THEN "TO" ELSE "OK"
             /\ t \in rdy' <=> t \in rdy \/ dly[t] = 1
             /\ dly[t] \in Nat /\ stat[t] \in {"RDY", "PEND"}
             /\ pendStat[t] \in {"OK", "TO"}
  BY DEF KernelInv, KernelTypeOK
<1>4. WaitListExact'
  BY <1>3 DEF KernelInv, WaitListExact, FieldsAgree
<1>5. ReadyExact'
  BY <1>3 DEF KernelInv, ReadyExact
<1>6. MostUrgentRuns'
  BY DEF MostUrgentRuns
<1>7. FieldsAgree'
  BY <1>3 DEF KernelInv, FieldsAgree
<1> QED
  BY <1>1, <1>2, <1>4, <1>5, <1>6, <1>7 DEF KernelInv

\* OSIntEnter, where the port admits no interrupt in a handler.
LEMMA IntEnterInv ==
  ASSUME KernelInv, nesting = 0, IntEnter,
         UNCHANGED <<cnt, waiting, evt, stat, pendStat, dly, rdy, sched>>
  PROVE  KernelInv'
BY DEF IntEnter, KernelInv, KernelTypeOK, TokensMeanNoWaiter, WaitListExact,
       ReadyExact, MostUrgentRuns, FieldsAgree, Priorities

\* OSIntExit and OS_Sched leave the most urgent task running.
LEMMA IntExitInv ==
  ASSUME KernelInv, IntExit,
         UNCHANGED <<cnt, waiting, evt, stat, pendStat, dly, rdy, sched>>
  PROVE  KernelInv'
<1> USE DEF IntExit
<1>1. nesting' = 0 /\ IsMostUrgent(cur', rdy)
  BY DEF KernelInv, KernelTypeOK
<1>2. KernelTypeOK' /\ MostUrgentRuns'
  BY <1>1 DEF KernelInv, KernelTypeOK, MostUrgentRuns, IsMostUrgent, Priorities
<1>3. TokensMeanNoWaiter' /\ WaitListExact' /\ ReadyExact' /\ FieldsAgree'
  BY DEF KernelInv, TokensMeanNoWaiter, WaitListExact, ReadyExact, FieldsAgree
<1> QED
  BY <1>2, <1>3 DEF KernelInv

LEMMA DispatchInv ==
  ASSUME KernelInv, Dispatch
  PROVE  KernelInv'
<1> USE DEF Dispatch
<1>1. KernelTypeOK' /\ MostUrgentRuns'
  BY DEF KernelInv, KernelTypeOK, MostUrgentRuns, IsMostUrgent, Priorities
<1>2. TokensMeanNoWaiter' /\ WaitListExact' /\ ReadyExact' /\ FieldsAgree'
  BY DEF KernelInv, TokensMeanNoWaiter, WaitListExact, ReadyExact, FieldsAgree
<1> QED
  BY <1>1, <1>2 DEF KernelInv
-----------------------------------------------------------------------------
(* The account of tokens: what is in the count of an event and what tasks  *)
(* have been handed and have not returned with.                            *)

InHands(e) == {t \in Tasks : evt[t] = e /\ stat[t] = "RDY" /\ pendStat[t] = "OK"}

Account == [e \in Events |-> cnt[e] + Cardinality(InHands(e))]

LEMMA InHandsFinite ==
  ASSUME IsFiniteSet(Tasks), NEW e \in Events
  PROVE  /\ IsFiniteSet(InHands(e)) /\ Cardinality(InHands(e)) \in Nat
         /\ IsFiniteSet(InHands(e)') /\ Cardinality(InHands(e)') \in Nat
<1>1. InHands(e) \in SUBSET Tasks /\ InHands(e)' \in SUBSET Tasks
  BY DEF InHands
<1>2. IsFiniteSet(InHands(e)) /\ IsFiniteSet(InHands(e)')
  BY <1>1, FS_Subset
<1> QED
  BY <1>2, FS_CardinalityType

LEMMA AccountType ==
  ASSUME IsFiniteSet(Tasks), cnt \in [Events -> Int]
  PROVE  Account \in [Events -> Int]
<1> SUFFICES ASSUME NEW e \in Events PROVE cnt[e] + Cardinality(InHands(e)) \in Int
  BY DEF Account
<1>1. cnt[e] \in Int /\ Cardinality(InHands(e)) \in Nat
  BY InHandsFinite
<1> QED
  BY <1>1

\* Nothing is counted and nobody is in a call.
LEMMA InitAccount ==
  ASSUME KernelInit
  PROVE  Account = [e \in Events |-> 0]
<1>1. ASSUME NEW e \in Events PROVE cnt[e] = 0 /\ InHands(e) = {}
  BY UcosAssumption DEF UcosAssumption, InHands, KernelInit
<1> QED
  BY <1>1, FS_EmptySet DEF Account

\* The account changes with the counts when no task is handed an event.
LEMMA CountsMoveAccount ==
  ASSUME IsFiniteSet(Tasks), cnt \in [Events -> Int], cnt' \in [Events -> Int],
         NEW e \in Events, \A d \in Events : d # e => cnt'[d] = cnt[d],
         \A d \in Events : InHands(d)' = InHands(d)
  PROVE  Account' = [Account EXCEPT ![e] = Account[e] + (cnt'[e] - cnt[e])]
<1>1. ASSUME NEW d \in Events
      PROVE  Account'[d] = IF d = e THEN Account[e] + (cnt'[e] - cnt[e])
                                    ELSE Account[d]
  <2>1. /\ Account'[d] = cnt'[d] + Cardinality(InHands(d)')
        /\ Account[d] = cnt[d] + Cardinality(InHands(d))
    BY DEF Account
  <2>2. Cardinality(InHands(d)') = Cardinality(InHands(d))
    OBVIOUS
  <2>3. ASSUME NEW k \in Nat, Account[d] = cnt[d] + k, Account'[d] = cnt'[d] + k
        PROVE  d = e => Account'[d] = Account[e] + (cnt'[e] - cnt[e])
    <3>1. cnt[e] \in Int /\ cnt'[e] \in Int
      OBVIOUS
    <3> QED
      BY <2>3, <3>1
  <2>4. Cardinality(InHands(d)) \in Nat
    BY InHandsFinite
  <2>5. d = e => Account'[d] = Account[e] + (cnt'[e] - cnt[e])
    BY <2>1, <2>2, <2>3, <2>4
  <2>6. d # e => Account'[d] = Account[d]
    BY <2>1, <2>2
  <2> QED
    BY <2>5, <2>6
<1>2. /\ Account = [d \in Events |-> Account[d]]
      /\ Account' = [d \in Events |-> Account'[d]]
  BY DEF Account
<1> QED
  BY <1>1, <1>2

\* Nobody is handed anything and nothing is counted.
LEMMA AccountStays ==
  ASSUME cnt' = cnt, \A d \in Events : InHands(d)' = InHands(d)
  PROVE  Account' = Account
BY DEF Account

\* A pend that finds a token.
LEMMA PendTakesAccount ==
  ASSUME IsFiniteSet(Tasks), KernelInv, NEW e \in Events, PendTakes(e)
  PROVE  Account' = [Account EXCEPT ![e] = Account[e] - 1]
<1>1. /\ cnt \in [Events -> Int] /\ cnt' \in [Events -> Int] /\ cnt[e] \in Int
      /\ cnt' = [cnt EXCEPT ![e] = cnt[e] - 1]
  BY DEF KernelInv, KernelTypeOK, PendTakes
<1>2. \A d \in Events : InHands(d)' = InHands(d)
  BY DEF InHands, PendTakes
<1>3. Account' = [Account EXCEPT ![e] = Account[e] + (cnt'[e] - cnt[e])]
  BY <1>1, <1>2, CountsMoveAccount
<1>4. Account[e] \in Int
  BY <1>1, AccountType
<1>5. Account[e] + (cnt'[e] - cnt[e]) = Account[e] - 1
  BY <1>1, <1>4
<1> QED
  BY <1>3, <1>5

\* A pend that waits: its caller was in no call, so had been handed nothing.
LEMMA PendBlocksAccount ==
  ASSUME KernelInv, TaskCalls, NEW e \in Events, NEW timeout, PendBlocks(e, timeout)
  PROVE  Account' = Account
<1>1. \A d \in Events : InHands(d)' = InHands(d)
  BY UcosAssumption
  DEF UcosAssumption, InHands, TaskCalls, PendBlocks, EventTaskWait, KernelInv,
      KernelTypeOK
<1> QED
  BY <1>1, AccountStays DEF PendBlocks

\* The end of a pend: the task returns with what it has been handed.
LEMMA PendReturnsAccount ==
  ASSUME IsFiniteSet(Tasks), KernelInv, cur \in Tasks, Runs(cur), PendReturns
  PROVE  /\ evt[cur] \in Events
         /\ Account' = IF pendStat[cur] = "OK"
                       THEN [Account EXCEPT ![evt[cur]] = Account[evt[cur]] - 1]
                       ELSE Account
<1>1. stat[cur] = "RDY" /\ evt[cur] \in Events /\ cnt \in [Events -> Int] /\ cnt' = cnt
  BY RunningIsReady DEF KernelInv, KernelTypeOK, PendReturns
<1>2. ASSUME NEW d \in Events
      PROVE  /\ InHands(d)' = InHands(d) \ {cur}
             /\ cur \in InHands(d) <=> d = evt[cur] /\ pendStat[cur] = "OK"
  BY <1>1, UcosAssumption
  DEF UcosAssumption, InHands, PendReturns, KernelInv, KernelTypeOK
<1>3. ASSUME NEW d \in Events
      PROVE  Account'[d] = IF d = evt[cur] /\ pendStat[cur] = "OK"
                           THEN Account[d] - 1 ELSE Account[d]
  <2>1. Cardinality(InHands(d)') = IF cur \in InHands(d)
          THEN Cardinality(InHands(d)) - 1 ELSE Cardinality(InHands(d))
    BY <1>2, InHandsFinite, FS_RemoveElement
  <2>2. /\ Account'[d] = cnt[d] + Cardinality(InHands(d)')
        /\ Account[d] = cnt[d] + Cardinality(InHands(d))
    BY <1>1 DEF Account
  <2>3. cnt[d] \in Int /\ Cardinality(InHands(d)) \in Nat
    BY <1>1, InHandsFinite
  <2> QED
    BY <1>2, <2>1, <2>2, <2>3
<1>4. /\ Account = [d \in Events |-> Account[d]]
      /\ Account' = [d \in Events |-> Account'[d]]
  BY DEF Account
<1> QED
  BY <1>1, <1>3, <1>4

\* OSTimeDly and OSSemSet.
LEMMA TimeDlyAccount ==
  ASSUME NEW ticks, TimeDly(ticks)
  PROVE  Account' = Account
<1>1. \A d \in Events : InHands(d)' = InHands(d)
  BY DEF InHands, TimeDly
<1> QED
  BY <1>1, AccountStays DEF TimeDly

LEMMA SemSetAccount ==
  ASSUME IsFiniteSet(Tasks), KernelInv, NEW e \in Events, NEW n \in Nat, SemSet(e, n)
  PROVE  Account' = [Account EXCEPT ![e] = Account[e] + (cnt'[e] - cnt[e])]
<1>1. /\ cnt \in [Events -> Int] /\ cnt' \in [Events -> Int]
      /\ \A d \in Events : d # e => cnt'[d] = cnt[d]
  BY DEF KernelInv, KernelTypeOK, SemSet
<1>2. \A d \in Events : InHands(d)' = InHands(d)
  BY DEF InHands, SemSet
<1> QED
  BY <1>1, <1>2, CountsMoveAccount

\* A post hands the token to exactly one waiter, which had been handed none,
\* or counts it, or is told that there is no room.
LEMMA PostHandsAccount ==
  ASSUME IsFiniteSet(Tasks), KernelInv, NEW e \in Events, PostHands(e)
  PROVE  Account' = [Account EXCEPT ![e] = Account[e] + 1]
<1>1. PICK t \in waiting[e] :
        /\ stat' = [stat EXCEPT ![t] = "RDY"]
        /\ pendStat' = [pendStat EXCEPT ![t] = "OK"]
        /\ UNCHANGED <<cnt, evt>>
  BY DEF PostHands, EventTaskRdy
<1>2. t \in Tasks /\ evt[t] = e /\ (stat[t] = "PEND" \/ pendStat[t] = "TO")
  BY DEF KernelInv, KernelTypeOK, WaitListExact
<1>3. ASSUME NEW d \in Events, d # e PROVE InHands(d)' = InHands(d)
  BY <1>1, <1>2, <1>3 DEF InHands, KernelInv, KernelTypeOK
<1>4. InHands(e)' = InHands(e) \cup {t} /\ t \notin InHands(e)
  BY <1>1, <1>2 DEF InHands, KernelInv, KernelTypeOK
<1>5. Cardinality(InHands(e)') = Cardinality(InHands(e)) + 1
  BY <1>4, InHandsFinite, FS_AddElement
<1>6. ASSUME NEW d \in Events
      PROVE  Account'[d] = IF d = e THEN Account[d] + 1 ELSE Account[d]
  <2>1. /\ Account'[d] = cnt[d] + Cardinality(InHands(d)')
        /\ Account[d] = cnt[d] + Cardinality(InHands(d))
    BY <1>1 DEF Account
  <2>2. cnt[d] \in Int /\ Cardinality(InHands(d)) \in Nat
    BY InHandsFinite DEF KernelInv, KernelTypeOK
  <2>3. d = e => Account'[d] = Account[d] + 1
    BY <1>5, <2>1, <2>2
  <2> QED
    BY <1>3, <2>1, <2>3
<1>7. /\ Account = [d \in Events |-> Account[d]]
      /\ Account' = [d \in Events |-> Account'[d]]
  BY DEF Account
<1> QED
  BY <1>6, <1>7

LEMMA PostAccount ==
  ASSUME IsFiniteSet(Tasks), KernelInv, NEW e \in Events, Post(e)
  PROVE  Account' = IF waiting[e] = {} /\ cnt[e] >= Limit[e]
                    THEN Account ELSE [Account EXCEPT ![e] = Account[e] + 1]
<1>1. cnt \in [Events -> Int] /\ cnt[e] \in Int /\ Limit[e] \in Int
  BY UcosAssumption DEF UcosAssumption, KernelInv, KernelTypeOK
<1>2. CASE PostHands(e)
  BY <1>2, PostHandsAccount DEF PostHands
<1>3. CASE PostCounts(e)
  <2>1. /\ cnt' = [cnt EXCEPT ![e] = cnt[e] + 1]
        /\ \A d \in Events : InHands(d)' = InHands(d)
    BY <1>3 DEF InHands, PostCounts
  <2>2. Account' = [Account EXCEPT ![e] = Account[e] + (cnt'[e] - cnt[e])]
    BY <1>1, <2>1, CountsMoveAccount
  <2>3. cnt'[e] - cnt[e] = 1 /\ ~(cnt[e] >= Limit[e])
    BY <1>1, <1>3, <2>1 DEF PostCounts
  <2> QED
    BY <2>2, <2>3
<1>4. CASE PostOverflows(e)
  <2>1. \A d \in Events : InHands(d)' = InHands(d)
    BY <1>4 DEF InHands, PostOverflows
  <2> QED
    BY <1>4, <2>1, AccountStays DEF PostOverflows
<1> QED
  BY <1>2, <1>3, <1>4 DEF Post

\* A tick ends waits, none of which had been handed anything.
LEMMA TimeTickAccount ==
  ASSUME KernelInv, TimeTick
  PROVE  Account' = Account
<1>1. ASSUME NEW d \in Events, NEW t \in Tasks
      PROVE  t \in InHands(d)' <=> t \in InHands(d)
  <2>1. /\ evt'[t] = evt[t]
        /\ stat'[t] = IF dly[t] = 1 THEN "RDY" ELSE stat[t]
        /\ pendStat'[t] = IF dly[t] # 1 THEN pendStat[t]
                          ELSE IF stat[t] = "PEND" THEN "TO" ELSE "OK"
    BY DEF TimeTick
  <2>2. /\ stat[t] \in {"RDY", "PEND"}
        /\ evt[t] # NoEvent /\ stat[t] = "RDY" => dly[t] = 0
        /\ d # NoEvent
    BY UcosAssumption DEF UcosAssumption, KernelInv, KernelTypeOK, FieldsAgree
  <2> QED
    BY <2>1, <2>2 DEF InHands
<1>2. ASSUME NEW d \in Events PROVE InHands(d)' = InHands(d)
  <2>1. InHands(d)' \subseteq Tasks /\ InHands(d) \subseteq Tasks
    BY DEF InHands
  <2> QED
    BY <1>1, <2>1
<1> QED
  BY <1>2, AccountStays DEF TimeTick

\* Whoever leaves the control blocks alone moves no token.
LEMMA SwitchAccount ==
  ASSUME UNCHANGED <<cnt, evt, stat, pendStat>>
  PROVE  Account' = Account
<1>1. \A d \in Events : InHands(d)' = InHands(d)
  BY DEF InHands
<1> QED
  BY <1>1, AccountStays
=============================================================================
