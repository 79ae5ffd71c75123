------------------------------ MODULE MsgQueue ------------------------------
(***************************************************************************)
(* The ring of messages behind a queue of uC/OS-II (os_q.c): what the      *)
(* calls do when no task waits.  The wait list is in module Ucos.          *)
(***************************************************************************)
EXTENDS Integers, Sequences

CONSTANTS
  Message,     \* pointers that are posted
  Size         \* OSQSize, MAX_MSG_AMT in both applications

ASSUME MsgQueueAssumption == Size \in Nat \ {0} /\ Message # {}

VARIABLES
  queue,       \* the OS_Q: the table, OSQIn, OSQOut as indices, OSQEntries
  msg          \* the message the latest call took

queueVars == <<queue, msg>>

Cell == 0..Size - 1

\* OSQCreate
QueueInit ==
  /\ msg \in Message
  /\ queue = [tbl |-> [i \in Cell |-> msg], in |-> 0, out |-> 0, entries |-> 0]

\* Slip: the pointer is compared before it is moved.
NextCellLate(i) == IF i = Size THEN 0 ELSE i + 1

\* Move a pointer on and wrap it at OSQEnd.
NextCell(i) == IF i + 1 = Size THEN 0 ELSE i + 1

\* Move OSQOut back, from OSQEnd if it is at OSQStart.
CellBefore(i) == IF i = 0 THEN Size - 1 ELSE i - 1

\* OSQPost
Post(m) ==
  /\ queue' = IF queue.entries >= Size THEN queue
              ELSE [tbl |-> [queue.tbl EXCEPT ![queue.in] = m],
                    in |-> NextCell(queue.in), out |-> queue.out,
                    entries |-> queue.entries + 1]
  /\ UNCHANGED msg

\* Slip: the message goes to the cell OSQOut is about to leave.
PostFrontLate(m) ==
  /\ queue' = IF queue.entries >= Size THEN queue
              ELSE [queue EXCEPT !.tbl[queue.out] = m, !.out = CellBefore(@),
                                 !.entries = @ + 1]
  /\ UNCHANGED msg

\* OSQPostFront, and OSQPostOpt with OS_POST_OPT_FRONT
PostFront(m) ==
  /\ queue' = IF queue.entries >= Size THEN queue
              ELSE [tbl |-> [queue.tbl EXCEPT ![CellBefore(queue.out)] = m],
                    in |-> queue.in, out |-> CellBefore(queue.out),
                    entries |-> queue.entries + 1]
  /\ UNCHANGED msg

\* OSQPend and OSQAccept with a message there
Take ==
  /\ queue.entries > 0
  /\ msg' = queue.tbl[queue.out]
  /\ queue' = [queue EXCEPT !.out = NextCell(@), !.entries = @ - 1]

\* OSQFlush
Flush ==
  /\ queue' = [queue EXCEPT !.in = 0, !.out = 0, !.entries = 0]
  /\ UNCHANGED msg

QueueNext == (\E m \in Message : Post(m) \/ PostFront(m)) \/ Take \/ Flush

QueueSpec == QueueInit /\ [][QueueNext]_queueVars

-----------------------------------------------------------------------------
\* Type invariant.
QueueTypeOK ==
  /\ queue \in [tbl : [Cell -> Message], in : Cell, out : Cell,
                entries : 0..Size]
  /\ msg \in Message

\* The two pointers and the count agree, although each call moves one pointer
\* and the count on its own.
PointersAgree ==
  \/ queue.in = queue.out + queue.entries
  \/ queue.in = queue.out + queue.entries - Size

\* The ring is a bounded sequence of messages: none is overwritten, skipped
\* or taken twice, wherever in the table it starts.
Cells == [i \in 1..queue.entries |->
            queue.tbl[IF queue.out + i - 1 < Size THEN queue.out + i - 1
                      ELSE queue.out + i - 1 - Size]]

Promised == INSTANCE Deque WITH content <- Cells, last <- msg

RingIsQueue == Promised!DequeSpec
=============================================================================
