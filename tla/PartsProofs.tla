----------------------------- MODULE PartsProofs -----------------------------
(***************************************************************************)
(* Proofs about the components of MCParts: the ring of messages of a       *)
(* queue, alarms, push buttons, names, displays and leds, for every size   *)
(* of table and buffer, every width of the tick counter, any number of     *)
(* buttons and keys, all responses of four digits, and all plain lines.    *)
(***************************************************************************)
EXTENDS MCParts, PrngProofs, SequenceTheorems, WellFoundedInduction, TLAPS

-----------------------------------------------------------------------------
\* The ring of messages.
Queue == [tbl : [Cell -> Message], in : Cell, out : Cell, entries : 0..Size]

\* Cell i + k of the table.
CellAt(i, k) == IF i + k < Size THEN i + k ELSE i + k - Size

QueueInv == QueueTypeOK /\ PointersAgree

\* What each call makes of the fields of the queue.
LEMMA Fields ==
  ASSUME QueueInv
  PROVE  /\ Size \in Nat /\ Size >= 1 /\ queue \in Queue /\ msg \in Message
         /\ queue.tbl \in [Cell -> Message]
         /\ queue.in \in 0..Size - 1 /\ queue.out \in 0..Size - 1
         /\ queue.entries \in 0..Size
         /\ queue.in \in Cell /\ queue.out \in Cell
         /\ \/ queue.in = queue.out + queue.entries
            \/ queue.in = queue.out + queue.entries - Size
BY MsgQueueAssumption
DEF MsgQueueAssumption, QueueInv, QueueTypeOK, PointersAgree, Queue, Cell

LEMMA PointersMove ==
  ASSUME NEW i \in Cell
  PROVE  /\ NextCell(i) \in Cell /\ CellBefore(i) \in Cell
         /\ NextCell(i) = CellAt(i, 1)
         /\ CellAt(CellBefore(i), 1) = i
BY MsgQueueAssumption
DEF MsgQueueAssumption, NextCell, CellBefore, CellAt, Cell

LEMMA PostMakes ==
  ASSUME QueueInv, NEW m \in Message, Post(m), queue.entries < Size
  PROVE  queue' = [tbl |-> [queue.tbl EXCEPT ![queue.in] = m],
                   in |-> NextCell(queue.in), out |-> queue.out,
                   entries |-> queue.entries + 1]
BY Fields DEF Post, Queue

LEMMA PostFrontMakes ==
  ASSUME QueueInv, NEW m \in Message, PostFront(m), queue.entries < Size
  PROVE  queue' = [tbl |-> [queue.tbl EXCEPT ![CellBefore(queue.out)] = m],
                   in |-> queue.in, out |-> CellBefore(queue.out),
                   entries |-> queue.entries + 1]
BY Fields DEF PostFront, Queue

LEMMA TakeMakes ==
  ASSUME QueueInv, Take
  PROVE  queue' = [tbl |-> queue.tbl, in |-> queue.in,
                   out |-> NextCell(queue.out), entries |-> queue.entries - 1]
BY Fields DEF Take, Queue

LEMMA FlushMakes ==
  ASSUME QueueInv, Flush
  PROVE  queue' = [tbl |-> queue.tbl, in |-> 0, out |-> 0, entries |-> 0]
BY Fields DEF Flush, Queue

LEMMA QueueInitInv == QueueInit => QueueInv
<1> SUFFICES ASSUME QueueInit PROVE QueueInv
  OBVIOUS
<1>1. Size \in Nat /\ Size >= 1 /\ 0 \in Cell
  BY MsgQueueAssumption DEF MsgQueueAssumption, Cell
<1>2. [i \in Cell |-> msg] \in [Cell -> Message]
  BY DEF QueueInit
<1> QED
  BY <1>1, <1>2 DEF QueueInit, QueueInv, QueueTypeOK, PointersAgree

LEMMA QueueKeeps == QueueInv /\ [QueueNext]_queueVars => QueueInv'
<1> SUFFICES ASSUME QueueInv, [QueueNext]_queueVars PROVE QueueInv'
  OBVIOUS
<1> DEFINE in == queue.in
           out == queue.out
           n == queue.entries
<1>1. /\ Size \in Nat /\ Size >= 1 /\ in \in 0..Size - 1 /\ out \in 0..Size - 1
      /\ n \in 0..Size /\ (in = out + n \/ in = out + n - Size)
      /\ in \in Cell /\ out \in Cell /\ queue.tbl \in [Cell -> Message]
      /\ msg \in Message /\ queue \in Queue
  BY Fields
<1>2. ASSUME NEW tbl \in [Cell -> Message], NEW i \in Cell, NEW o \in Cell,
             NEW e \in 0..Size, i = o + e \/ i = o + e - Size,
             queue' = [tbl |-> tbl, in |-> i, out |-> o, entries |-> e],
             msg' \in Message
      PROVE  QueueInv'
  BY <1>2 DEF QueueInv, QueueTypeOK, PointersAgree
<1> HIDE DEF in, out, n
<1>3. ASSUME UNCHANGED queueVars PROVE QueueInv'
  BY <1>3 DEF QueueInv, QueueTypeOK, PointersAgree, queueVars
<1>4. ASSUME NEW m \in Message, Post(m) PROVE QueueInv'
  <2>1. CASE n < Size
    <3>1. queue' = [tbl |-> [queue.tbl EXCEPT ![in] = m],
                    in |-> NextCell(in), out |-> out, entries |-> n + 1]
      BY <1>4, <2>1, PostMakes DEF in, out, n
    <3>2. [queue.tbl EXCEPT ![in] = m] \in [Cell -> Message]
      BY <1>1
    <3>3. n + 1 \in 0..Size /\ NextCell(in) \in Cell
      BY <1>1, <2>1, PointersMove
    <3>4. \/ NextCell(in) = out + (n + 1)
          \/ NextCell(in) = out + (n + 1) - Size
      BY <1>1, <2>1 DEF NextCell
    <3>5. msg' \in Message
      BY <1>1, <1>4 DEF Post
    <3> QED
      BY <1>1, <1>2, <3>1, <3>2, <3>3, <3>4, <3>5
  <2>2. CASE ~(n < Size)
    <3>1. UNCHANGED queueVars
      BY <1>1, <1>4, <2>2 DEF Post, queueVars, n
    <3> QED
      BY <1>3, <3>1
  <2> QED
    BY <2>1, <2>2
<1>5. ASSUME NEW m \in Message, PostFront(m) PROVE QueueInv'
  <2> DEFINE b == CellBefore(out)
  <2>1. CASE n < Size
    <3>1. queue' = [tbl |-> [queue.tbl EXCEPT ![b] = m],
                    in |-> in, out |-> b, entries |-> n + 1]
      BY <1>5, <2>1, PostFrontMakes DEF in, out, n
    <3>2. b \in Cell
      BY <1>1, PointersMove
    <3>3. [queue.tbl EXCEPT ![b] = m] \in [Cell -> Message]
      BY <1>1
    <3>4. n + 1 \in 0..Size
      BY <1>1, <2>1
    <3>5. in = b + (n + 1) \/ in = b + (n + 1) - Size
      BY <1>1, <2>1 DEF CellBefore
    <3>6. msg' \in Message
      BY <1>1, <1>5 DEF PostFront
    <3> HIDE DEF b
    <3> QED
      BY <1>1, <1>2, <3>1, <3>2, <3>3, <3>4, <3>5, <3>6
  <2>2. CASE ~(n < Size)
    <3>1. UNCHANGED queueVars
      BY <1>1, <1>5, <2>2 DEF PostFront, queueVars, n
    <3> QED
      BY <1>3, <3>1
  <2> QED
    BY <2>1, <2>2
<1>6. CASE Take
  <2>1. queue' = [tbl |-> queue.tbl, in |-> in, out |-> NextCell(out),
                  entries |-> n - 1]
    BY <1>6, TakeMakes DEF in, out, n
  <2>2. n > 0 /\ n - 1 \in 0..Size /\ NextCell(out) \in Cell
    BY <1>1, <1>6, PointersMove DEF Take, n
  <2>3. in = NextCell(out) + (n - 1) \/ in = NextCell(out) + (n - 1) - Size
    BY <1>1, <2>2 DEF NextCell
  <2>4. msg' \in Message
    BY <1>1, <1>6 DEF Take, out
  <2> QED
    BY <1>1, <1>2, <2>1, <2>2, <2>3, <2>4
<1>7. CASE Flush
  <2>1. queue' = [tbl |-> queue.tbl, in |-> 0, out |-> 0, entries |-> 0]
    BY <1>7, FlushMakes
  <2>2. 0 \in Cell /\ 0 \in 0..Size /\ 0 = 0 + 0 /\ msg' \in Message
    BY <1>1, <1>7 DEF Cell, Flush
  <2> QED
    BY <1>1, <1>2, <2>1, <2>2
<1> QED
  BY <1>3, <1>4, <1>5, <1>6, <1>7 DEF QueueNext

\* Every field of the queue keeps its type: neither pointer leaves the table
\* and the count stays within it.
THEOREM QueueTyped == QueueSpec => []QueueTypeOK
<1>1. QueueInv => QueueTypeOK
  BY DEF QueueInv
<1> QED
  BY <1>1, QueueInitInv, QueueKeeps, PTL DEF QueueSpec

\* OSQIn, OSQOut and OSQEntries never disagree.
THEOREM QueuePointersAgree == QueueSpec => []PointersAgree
<1>1. QueueInv => PointersAgree
  BY DEF QueueInv
<1> QED
  BY <1>1, QueueInitInv, QueueKeeps, PTL DEF QueueSpec

-----------------------------------------------------------------------------
\* The ring of messages is a bounded double-ended queue.
CellsOf(u) == [i \in 1..u.entries |-> u.tbl[CellAt(u.out, i - 1)]]

LEMMA CellsAreSeq ==
  ASSUME NEW u \in Queue
  PROVE  /\ CellsOf(u) \in Seq(Message) /\ Len(CellsOf(u)) = u.entries
         /\ \A i \in 1..u.entries : CellsOf(u)[i] = u.tbl[CellAt(u.out, i - 1)]
<1> DEFINE n == u.entries
<1>1. /\ Size \in Nat /\ Size >= 1 /\ n \in 0..Size /\ u.out \in 0..Size - 1
      /\ u.tbl \in [Cell -> Message]
  BY MsgQueueAssumption DEF MsgQueueAssumption, Queue, Cell
<1> DEFINE out == u.out
<1> HIDE DEF n, out
<1>2. ASSUME NEW i \in 1..n PROVE u.tbl[CellAt(out, i - 1)] \in Message
  <2>1. CellAt(out, i - 1) \in Cell
    BY <1>1 DEF CellAt, Cell, out
  <2> QED
    BY <1>1, <2>1
<1>3. CellsOf(u) \in [1..n -> Message]
  BY <1>2 DEF CellsOf, n, out
<1>4. n \in Nat
  BY <1>1
<1>5. CellsOf(u) \in Seq(Message) /\ Len(CellsOf(u)) = n
  BY <1>3, <1>4, SeqDef
<1> QED
  BY <1>5 DEF n, CellsOf

LEMMA CellsIsCellsOf == ASSUME queue \in Queue PROVE Cells = CellsOf(queue)
<1>1. Size \in Nat /\ queue.out \in 0..Size - 1 /\ queue.entries \in 0..Size
  BY MsgQueueAssumption DEF MsgQueueAssumption, Queue, Cell
<1> DEFINE out == queue.out
           n == queue.entries
<1> HIDE DEF out, n
<1>2. \A i \in 1..n : CellAt(out, i - 1) =
         IF out + i - 1 < Size THEN out + i - 1 ELSE out + i - 1 - Size
  BY <1>1 DEF CellAt, out, n
<1>3. CellsOf(queue) =
        [i \in 1..n |-> queue.tbl[IF out + i - 1 < Size THEN out + i - 1
                                  ELSE out + i - 1 - Size]]
  BY <1>2 DEF CellsOf, out, n
<1> QED
  BY <1>3 DEF Cells, out, n

\* A message behind the last one, in the cell OSQIn points at.
LEMMA CellsAppended ==
  ASSUME NEW u \in Queue, NEW r \in Queue, NEW m \in Message,
         u.entries < Size, r.entries = u.entries + 1, r.out = u.out,
         u.in = u.out + u.entries \/ u.in = u.out + u.entries - Size,
         r.tbl = [u.tbl EXCEPT ![u.in] = m]
  PROVE  CellsOf(r) = Append(CellsOf(u), m)
<1> DEFINE n == u.entries
           in == u.in
           out == u.out
           c == CellsOf(u)
           d == CellsOf(r)
<1>1. /\ Size \in Nat /\ Size >= 1 /\ n \in 0..Size - 1 /\ out \in 0..Size - 1
      /\ in \in 0..Size - 1 /\ (in = out + n \/ in = out + n - Size)
      /\ u.tbl \in [Cell -> Message] /\ Cell = 0..Size - 1
  BY MsgQueueAssumption DEF MsgQueueAssumption, Queue, Cell
<1>2. /\ c \in Seq(Message) /\ Len(c) = n
      /\ \A i \in 1..n : c[i] = u.tbl[CellAt(out, i - 1)]
  BY CellsAreSeq
<1>3. /\ d \in Seq(Message) /\ Len(d) = n + 1
      /\ \A i \in 1..n + 1 : d[i] = r.tbl[CellAt(out, i - 1)]
  BY CellsAreSeq
<1>4. r.tbl = [u.tbl EXCEPT ![in] = m]
  OBVIOUS
<1> HIDE DEF n, in, out, c, d
<1>5. /\ Append(c, m) \in Seq(Message) /\ Len(Append(c, m)) = n + 1
      /\ \A i \in 1..n : Append(c, m)[i] = c[i]
      /\ Append(c, m)[n + 1] = m
  BY <1>2, AppendProperties
<1>6. ASSUME NEW i \in 1..n + 1 PROVE d[i] = Append(c, m)[i]
  <2>1. CASE i = n + 1
    <3>1. CellAt(out, i - 1) = in
      BY <1>1, <2>1 DEF CellAt
    <3>2. r.tbl[in] = m
      BY <1>1, <1>4
    <3> QED
      BY <1>3, <1>5, <2>1, <3>1, <3>2
  <2>2. CASE i # n + 1
    <3>1. i \in 1..n
      BY <1>1, <2>2
    <3>2. CellAt(out, i - 1) # in /\ CellAt(out, i - 1) \in Cell
      BY <1>1, <3>1 DEF CellAt
    <3>3. r.tbl[CellAt(out, i - 1)] = u.tbl[CellAt(out, i - 1)]
      BY <1>1, <1>4, <3>2
    <3> QED
      BY <1>2, <1>3, <1>5, <3>1, <3>3
  <2> QED
    BY <2>1, <2>2
<1>7. d = Append(c, m)
  BY <1>3, <1>5, <1>6, SeqEqual
<1> QED
  BY <1>7 DEF c, d

\* A message before the first one.
LEMMA CellsPrepended ==
  ASSUME NEW u \in Queue, NEW r \in Queue, NEW m \in Message,
         u.entries < Size, r.entries = u.entries + 1,
         r.out = CellBefore(u.out), r.tbl = [u.tbl EXCEPT ![r.out] = m]
  PROVE  CellsOf(r) = <<m>> \o CellsOf(u)
<1> DEFINE n == u.entries
           out == u.out
           b == r.out
           c == CellsOf(u)
           d == CellsOf(r)
           e == <<m>> \o c
<1>1. /\ Size \in Nat /\ Size >= 1 /\ n \in 0..Size - 1 /\ out \in 0..Size - 1
      /\ b \in 0..Size - 1 /\ b = IF out = 0 THEN Size - 1 ELSE out - 1
      /\ u.tbl \in [Cell -> Message] /\ Cell = 0..Size - 1
  BY MsgQueueAssumption DEF MsgQueueAssumption, Queue, Cell, CellBefore
<1>2. /\ c \in Seq(Message) /\ Len(c) = n
      /\ \A i \in 1..n : c[i] = u.tbl[CellAt(out, i - 1)]
  BY CellsAreSeq
<1>3. /\ d \in Seq(Message) /\ Len(d) = n + 1
      /\ \A i \in 1..n + 1 : d[i] = r.tbl[CellAt(b, i - 1)]
  BY CellsAreSeq
<1>4. r.tbl = [u.tbl EXCEPT ![b] = m]
  OBVIOUS
<1> HIDE DEF n, out, b, c, d
<1>5. /\ e \in Seq(Message) /\ Len(e) = n + 1
      /\ \A i \in 1..n + 1 : e[i] = IF i <= 1 THEN m ELSE c[i - 1]
  <2> DEFINE s == <<m>>
  <2>1. s \in Seq(Message) /\ Len(s) = 1 /\ s[1] = m
    OBVIOUS
  <2> HIDE DEF s
  <2>2. /\ s \o c \in Seq(Message) /\ Len(s \o c) = 1 + n
        /\ \A i \in 1..1 + n : (s \o c)[i] = IF i <= 1 THEN s[i] ELSE c[i - 1]
    <3>1. /\ s \o c \in Seq(Message) /\ Len(s \o c) = Len(s) + Len(c)
          /\ \A i \in 1..Len(s) + Len(c) :
               (s \o c)[i] = IF i <= Len(s) THEN s[i] ELSE c[i - Len(s)]
      <4>1. s \in Seq(Message) /\ c \in Seq(Message)
        BY <1>2, <2>1
      <4> QED
        BY ONLY <4>1, ConcatProperties
    <3>2. Len(s) = 1 /\ Len(c) = n
      BY <1>2, <2>1
    <3> QED
      BY ONLY <3>1, <3>2
  <2>3. 1 + n = n + 1
    BY <1>1
  <2>4. \A i \in 1..n + 1 : i <= 1 => i = 1
    BY <1>1
  <2> HIDE DEF e
  <2>5. e = s \o c
    BY DEF e, s
  <2> QED
    BY <2>1, <2>2, <2>3, <2>4, <2>5
<1> HIDE DEF e
<1>6. ASSUME NEW i \in 1..n + 1 PROVE d[i] = e[i]
  <2>1. CASE i = 1
    <3>1. CellAt(b, i - 1) = b /\ b \in Cell
      BY <1>1, <2>1 DEF CellAt
    <3>2. r.tbl[b] = m
      BY <1>1, <1>4, <3>1
    <3> QED
      BY <1>3, <1>5, <2>1, <3>1, <3>2
  <2>2. CASE i # 1
    <3>1. i - 1 \in 1..n /\ ~(i <= 1)
      BY <1>1, <2>2
    <3>2. /\ CellAt(b, i - 1) = CellAt(out, (i - 1) - 1)
          /\ CellAt(b, i - 1) # b /\ CellAt(b, i - 1) \in Cell
      BY <1>1, <3>1 DEF CellAt
    <3>3. r.tbl[CellAt(b, i - 1)] = u.tbl[CellAt(b, i - 1)]
      BY <1>1, <1>4, <3>2
    <3>4. c[i - 1] = u.tbl[CellAt(out, (i - 1) - 1)]
      BY <1>2, <3>1
    <3> QED
      BY <1>3, <1>5, <3>1, <3>2, <3>3, <3>4
  <2> QED
    BY <2>1, <2>2
<1>7. d = e
  BY <1>3, <1>5, <1>6, SeqEqual
<1> QED
  BY <1>7 DEF c, d, e

\* The first message is taken.
LEMMA CellsTaken ==
  ASSUME NEW u \in Queue, NEW r \in Queue, u.entries > 0,
         r.entries = u.entries - 1, r.out = NextCell(u.out), r.tbl = u.tbl
  PROVE  /\ CellsOf(u) # <<>> /\ Head(CellsOf(u)) = u.tbl[u.out]
         /\ CellsOf(r) = Tail(CellsOf(u))
<1> DEFINE n == u.entries
           out == u.out
           b == r.out
           c == CellsOf(u)
           d == CellsOf(r)
<1>1. /\ Size \in Nat /\ Size >= 1 /\ n \in 1..Size /\ out \in 0..Size - 1
      /\ b = IF out + 1 = Size THEN 0 ELSE out + 1
  BY MsgQueueAssumption DEF MsgQueueAssumption, Queue, Cell, NextCell
<1>2. /\ c \in Seq(Message) /\ Len(c) = n
      /\ \A i \in 1..n : c[i] = u.tbl[CellAt(out, i - 1)]
  BY CellsAreSeq
<1>3. /\ d \in Seq(Message) /\ Len(d) = n - 1
      /\ \A i \in 1..n - 1 : d[i] = u.tbl[CellAt(b, i - 1)]
  BY CellsAreSeq
<1> HIDE DEF n, out, b, c, d
<1>4. c # <<>>
  BY <1>1, <1>2, EmptySeq
<1>5. /\ Head(c) = c[1] /\ Tail(c) \in Seq(Message) /\ Len(Tail(c)) = n - 1
      /\ \A i \in 1..n - 1 : Tail(c)[i] = c[i + 1]
  BY <1>2, <1>4, HeadTailProperties
<1>6. CellAt(out, 0) = out /\ 1 \in 1..n /\ 1 - 1 = 0
  BY <1>1 DEF CellAt
<1>7. Head(c) = u.tbl[out]
  BY <1>2, <1>5, <1>6
<1>8. ASSUME NEW i \in 1..n - 1 PROVE d[i] = Tail(c)[i]
  <2>1. i + 1 \in 1..n /\ CellAt(out, (i + 1) - 1) = CellAt(b, i - 1)
    BY <1>1 DEF CellAt
  <2> QED
    BY <1>2, <1>3, <1>5, <2>1
<1>9. d = Tail(c)
  BY <1>3, <1>5, <1>8, SeqEqual
<1> QED
  BY <1>4, <1>7, <1>9 DEF c, d, out

LEMMA QueueSteps ==
  QueueInv /\ QueueInv' /\ [QueueNext]_queueVars
    => [Promised!DequeNext]_(Promised!dequeVars)
<1> SUFFICES ASSUME QueueInv, QueueInv', [QueueNext]_queueVars
             PROVE  [Promised!DequeNext]_(Promised!dequeVars)
  OBVIOUS
<1> DEFINE c == CellsOf(queue)
           d == CellsOf(queue')
<1>1. /\ queue \in Queue /\ queue' \in Queue /\ msg \in Message
      /\ queue.entries \in 0..Size /\ Size \in Nat
  BY Fields DEF QueueInv, QueueTypeOK, Queue
<1>2. Cells = c
  BY <1>1, CellsIsCellsOf
<1>3. Cells' = d
  <2>1. queue'.out \in 0..Size - 1 /\ queue'.entries \in 0..Size /\ Size \in Nat
    BY <1>1 DEF Queue, Cell
  <2> DEFINE out == queue'.out
             n == queue'.entries
  <2> HIDE DEF out, n
  <2>2. \A i \in 1..n : CellAt(out, i - 1) =
           IF out + i - 1 < Size THEN out + i - 1 ELSE out + i - 1 - Size
    BY <2>1 DEF CellAt, out, n
  <2>3. d = [i \in 1..n |-> queue'.tbl[IF out + i - 1 < Size THEN out + i - 1
                                       ELSE out + i - 1 - Size]]
    BY <2>2 DEF CellsOf, out, n
  <2> QED
    BY <2>3 DEF Cells, out, n
<1>4. Len(c) = queue.entries
  BY <1>1, CellsAreSeq
<1> HIDE DEF c, d
<1>5. ASSUME UNCHANGED queueVars PROVE UNCHANGED Promised!dequeVars
  BY <1>5 DEF queueVars, Promised!dequeVars, Cells
<1>6. ASSUME NEW m \in Message, Post(m) PROVE [Promised!DequeNext]_(Promised!dequeVars)
  <2>1. CASE queue.entries < Size
    <3>1. /\ queue' = [tbl |-> [queue.tbl EXCEPT ![queue.in] = m],
                       in |-> NextCell(queue.in), out |-> queue.out,
                       entries |-> queue.entries + 1]
          /\ \/ queue.in = queue.out + queue.entries
             \/ queue.in = queue.out + queue.entries - Size
      BY <1>6, <2>1, PostMakes, Fields
    <3>2. /\ queue'.tbl = [queue.tbl EXCEPT ![queue.in] = m]
          /\ queue'.out = queue.out /\ queue'.entries = queue.entries + 1
      BY <3>1
    <3>3. d = Append(c, m)
      BY <1>1, <2>1, <3>1, <3>2, CellsAppended DEF c, d
    <3>4. msg' = msg
      BY <1>6 DEF Post
    <3>5. Promised!Append1(m) /\ UNCHANGED msg
      BY <1>2, <1>3, <1>4, <2>1, <3>3, <3>4 DEF Promised!Append1
    <3> QED
      BY <3>5 DEF Promised!DequeNext
  <2>2. CASE ~(queue.entries < Size)
    <3>1. UNCHANGED queueVars
      BY <1>1, <1>6, <2>2 DEF Post, queueVars
    <3> QED
      BY <1>5, <3>1
  <2> QED
    BY <2>1, <2>2
<1>7. ASSUME NEW m \in Message, PostFront(m)
      PROVE  [Promised!DequeNext]_(Promised!dequeVars)
  <2>1. CASE queue.entries < Size
    <3>1. queue' = [tbl |-> [queue.tbl EXCEPT ![CellBefore(queue.out)] = m],
                    in |-> queue.in, out |-> CellBefore(queue.out),
                    entries |-> queue.entries + 1]
      BY <1>7, <2>1, PostFrontMakes
    <3>2. /\ queue'.tbl = [queue.tbl EXCEPT ![queue'.out] = m]
          /\ queue'.out = CellBefore(queue.out)
          /\ queue'.entries = queue.entries + 1
      BY <3>1
    <3>3. d = <<m>> \o c
      BY <1>1, <2>1, <3>2, CellsPrepended DEF c, d
    <3>4. msg' = msg
      BY <1>7 DEF PostFront
    <3>5. Promised!Prepend1(m) /\ UNCHANGED msg
      BY <1>2, <1>3, <1>4, <2>1, <3>3, <3>4 DEF Promised!Prepend1
    <3> QED
      BY <3>5 DEF Promised!DequeNext
  <2>2. CASE ~(queue.entries < Size)
    <3>1. UNCHANGED queueVars
      BY <1>1, <1>7, <2>2 DEF PostFront, queueVars
    <3> QED
      BY <1>5, <3>1
  <2> QED
    BY <2>1, <2>2
<1>8. CASE Take
  <2>1. queue' = [tbl |-> queue.tbl, in |-> queue.in,
                  out |-> NextCell(queue.out), entries |-> queue.entries - 1]
    BY <1>8, TakeMakes
  <2>2. queue.entries > 0 /\ msg' = queue.tbl[queue.out]
    BY <1>8 DEF Take
  <2>3. /\ queue'.tbl = queue.tbl /\ queue'.out = NextCell(queue.out)
        /\ queue'.entries = queue.entries - 1
    BY <2>1
  <2>4. c # <<>> /\ Head(c) = msg' /\ d = Tail(c)
    BY <1>1, <2>2, <2>3, CellsTaken DEF c, d
  <2>5. Promised!TakeFirst
    BY <1>2, <1>3, <2>4 DEF Promised!TakeFirst
  <2> QED
    BY <2>5 DEF Promised!DequeNext
<1>9. CASE Flush
  <2>1. queue'.entries = 0
    BY <1>9, FlushMakes
  <2>2. d \in Seq(Message) /\ Len(d) = 0
    BY <1>1, <2>1, CellsAreSeq DEF d
  <2>3. d = <<>>
    BY <2>2, EmptySeq
  <2>4. msg' = msg
    BY <1>9 DEF Flush
  <2>5. Promised!Clear /\ UNCHANGED msg
    BY <1>3, <2>3, <2>4 DEF Promised!Clear
  <2> QED
    BY <2>5 DEF Promised!DequeNext
<1>10. CASE UNCHANGED queueVars
  BY <1>5, <1>10
<1> QED
  BY <1>6, <1>7, <1>8, <1>9, <1>10 DEF QueueNext

\* The ring keeps what a queue promises: messages leave in the order in which
\* they were put in, urgent ones first, none lost, doubled or overwritten,
\* for tables of every size and wherever in the table the messages start.
THEOREM QueueRefines == QueueSpec => RingIsQueue
<1>1. QueueInit => Promised!DequeInit
  <2> SUFFICES ASSUME QueueInit PROVE Promised!DequeInit
    OBVIOUS
  <2>1. QueueInv /\ queue.entries = 0 /\ msg \in Message
    BY QueueInitInv DEF QueueInit
  <2>2. Cells = CellsOf(queue) /\ queue \in Queue
    BY <2>1, Fields, CellsIsCellsOf
  <2>3. Cells \in Seq(Message) /\ Len(Cells) = 0
    BY <2>1, <2>2, CellsAreSeq
  <2> QED
    BY <2>1, <2>3, EmptySeq DEF Promised!DequeInit
<1> QED
  BY <1>1, QueueInitInv, QueueKeeps, QueueSteps, PTL
  DEF QueueSpec, RingIsQueue, Promised!DequeSpec

-----------------------------------------------------------------------------
\* The alarms.

\* The counter reaches the time of the alarm after due ticks, with the
\* roll-over that the flag announces.
Ahead == nticks + due = IF rollover THEN time + Ticks ELSE time

AlarmInv == AlarmTypeOK /\ (active => due \in 1..Ticks - 1 /\ Ahead)

LEMMA Remainder ==
  ASSUME NEW k \in 0..2 * Ticks - 1
  PROVE  k % Ticks = IF k < Ticks THEN k ELSE k - Ticks
BY AlarmsAssumption DEF AlarmsAssumption

LEMMA AlarmFacts ==
  ASSUME AlarmInv
  PROVE  /\ Ticks \in Nat /\ Ticks >= 2
         /\ nticks \in 0..Ticks - 1 /\ time \in 0..Ticks - 1
         /\ rollover \in BOOLEAN /\ due \in Int
         /\ Now = IF nticks = Ticks - 1 THEN 0 ELSE nticks + 1
<1>1. /\ Ticks \in Nat /\ Ticks >= 2
      /\ nticks \in 0..Ticks - 1 /\ time \in 0..Ticks - 1
      /\ rollover \in BOOLEAN /\ due \in Int
  BY AlarmsAssumption DEF AlarmsAssumption, AlarmInv, AlarmTypeOK
<1>2. nticks + 1 \in 0..2 * Ticks - 1
  BY <1>1
<1>3. Now = IF nticks + 1 < Ticks THEN nticks + 1 ELSE nticks + 1 - Ticks
  BY <1>1, <1>2, Remainder DEF Now
<1> QED
  BY <1>1, <1>3

LEMMA OnTime == AlarmInv => CalledOnTime
<1> SUFFICES ASSUME AlarmInv, active
             PROVE  due >= 1 /\ (Expired <=> due = 1)
  BY DEF CalledOnTime
<1>1. /\ due \in 1..Ticks - 1
      /\ nticks + due = IF rollover THEN time + Ticks ELSE time
  BY DEF AlarmInv, Ahead
<1>2. CASE rollover
  BY <1>1, <1>2, AlarmFacts DEF Expired, Flagged
<1>3. CASE ~rollover
  BY <1>1, <1>3, AlarmFacts DEF Expired, Flagged
<1> QED
  BY <1>2, <1>3

LEMMA AlarmInitInv == AlarmInit => AlarmInv
<1> SUFFICES ASSUME AlarmInit PROVE AlarmInv
  OBVIOUS
<1>1. Ticks \in Nat /\ Ticks >= 2
  BY AlarmsAssumption DEF AlarmsAssumption
<1>2. nticks \in 0..Ticks - 1 /\ time \in 0..Ticks - 1 /\ due \in Int
  BY <1>1 DEF AlarmInit
<1>3. active \in BOOLEAN /\ rollover \in BOOLEAN /\ ~active
  BY DEF AlarmInit
<1> QED
  BY <1>2, <1>3 DEF AlarmInv, AlarmTypeOK

LEMMA AlarmKeeps == AlarmInv /\ [AlarmNext]_alarmVars => AlarmInv'
<1> SUFFICES ASSUME AlarmInv, [AlarmNext]_alarmVars PROVE AlarmInv'
  OBVIOUS
<1>1. /\ Ticks \in Nat /\ Ticks >= 2
      /\ nticks \in 0..Ticks - 1 /\ time \in 0..Ticks - 1 /\ due \in Int
      /\ active \in BOOLEAN /\ rollover \in BOOLEAN
      /\ Now = IF nticks = Ticks - 1 THEN 0 ELSE nticks + 1
      /\ Now \in 0..Ticks - 1
  BY AlarmFacts DEF AlarmInv, AlarmTypeOK
<1>2. ASSUME NEW n \in Delays, AlarmStart(n) PROVE AlarmInv'
  <2> DEFINE k == n + nticks + 1
  <2>1. n \in 0..Ticks - 2 /\ k \in 0..2 * Ticks - 1
    BY <1>1, AlarmsAssumption DEF AlarmsAssumption
  <2>2. time' = IF k < Ticks THEN k ELSE k - Ticks
    BY <1>2, <2>1, Remainder DEF AlarmStart
  <2>3. /\ active' = TRUE /\ due' = n + 1 /\ nticks' = nticks
    BY <1>2 DEF AlarmStart
  <2>7. (rollover' <=> time' < nticks) /\ rollover' \in BOOLEAN
    <3>1. rollover' = (time' < nticks)
      BY <1>2 DEF AlarmStart
    <3>2. rollover' <=> time' < nticks
      BY <3>1, Zenon
    <3>3. (time' < nticks) \in BOOLEAN
      OBVIOUS
    <3> QED
      BY <3>1, <3>2, <3>3
  <2>4. time' \in 0..Ticks - 1 /\ due' \in 1..Ticks - 1
    BY <1>1, <2>1, <2>2, <2>3
  <2>5. Ahead'
    <3>1. nticks' + due' = k
      BY <1>1, <2>1, <2>3
    <3>2. CASE k < Ticks
      <4>1. time' = k /\ ~rollover'
        BY <1>1, <2>1, <2>2, <2>7, <3>2
      <4> QED
        BY <3>1, <4>1 DEF Ahead
    <3>3. CASE ~(k < Ticks)
      <4>1. time' = k - Ticks /\ rollover'
        BY <1>1, <2>1, <2>2, <2>7, <3>3
      <4>2. k = time' + Ticks
        BY <1>1, <2>1, <4>1
      <4> HIDE DEF k
      <4> QED
        BY <3>1, <4>1, <4>2 DEF Ahead
    <3> QED
      BY <3>2, <3>3
  <2>6. active' \in BOOLEAN /\ rollover' \in BOOLEAN
    BY <2>3, <2>7
  <2> HIDE DEF k
  <2> QED
    BY <1>1, <2>3, <2>4, <2>5, <2>6 DEF AlarmInv, AlarmTypeOK
<1>3. CASE AlarmStop
  BY <1>1, <1>3 DEF AlarmStop, AlarmInv, AlarmTypeOK
<1>4. ASSUME NEW n \in Delays, AltTick(n) PROVE AlarmInv'
  <2>1. nticks' = Now /\ n \in 0..Ticks - 2
    BY <1>4, AlarmsAssumption DEF AltTick, AlarmsAssumption
  <2>2. CASE active /\ Expired
    <3> DEFINE k == time + n
               next == k % Ticks
    <3>1. /\ active' <=> n # 0
          /\ active' \in BOOLEAN /\ rollover' \in BOOLEAN
          /\ rollover' <=> n # 0 /\ next < Now
      BY <1>4, <2>2 DEF AltTick, RollsOver
    <3>8. due' = n /\ time' = IF n = 0 THEN time ELSE next
      BY <1>4, <2>2 DEF AltTick
    <3>2. time = Now
      <4>1. due = 1 /\ Ahead
        BY <2>2, OnTime DEF CalledOnTime, AlarmInv
      <4> QED
        BY <1>1, <4>1 DEF Ahead
    <3>3. next = IF k < Ticks THEN k ELSE k - Ticks
      <4>1. k \in 0..2 * Ticks - 1
        BY <1>1, <2>1
      <4> QED
        BY <4>1, Remainder
    <3> HIDE DEF next
    <3>4. next \in 0..Ticks - 1
      BY <1>1, <2>1, <3>3
    <3>5. n # 0 => due' \in 1..Ticks - 1 /\ Ahead'
      <4> SUFFICES ASSUME n # 0 PROVE due' \in 1..Ticks - 1 /\ Ahead'
        OBVIOUS
      <4>1. time' = next /\ nticks' = time /\ due' = n
        BY <2>1, <3>2, <3>8
      <4>2. CASE next < time
        BY <1>1, <2>1, <3>1, <3>2, <3>3, <4>1, <4>2 DEF Ahead
      <4>3. CASE ~(next < time)
        BY <1>1, <2>1, <3>1, <3>2, <3>3, <4>1, <4>3 DEF Ahead
      <4> QED
        BY <4>2, <4>3
    <3>6. active' \in BOOLEAN /\ rollover' \in BOOLEAN /\ due' \in Int
      BY <2>1, <3>1, <3>8
    <3>7. time' \in 0..Ticks - 1
      BY <1>1, <3>4, <3>8
    <3> QED
      BY <1>1, <2>1, <3>1, <3>5, <3>6, <3>7 DEF AlarmInv, AlarmTypeOK
  <2>3. CASE ~(active /\ Expired)
    <3>1. /\ rollover' = (IF active THEN Flagged ELSE rollover)
          /\ due' = (IF active THEN due - 1 ELSE due)
          /\ active' = active /\ time' = time
      BY <1>4, <2>3 DEF AltTick
    <3>2. ASSUME active PROVE due' \in 1..Ticks - 1 /\ Ahead'
      <4>1. due \in 1..Ticks - 1 /\ Ahead /\ due # 1
        BY <2>3, <3>2, OnTime DEF CalledOnTime, AlarmInv
      <4>2. due' = due - 1
        BY <3>1, <3>2
      <4>5. rollover' <=> rollover /\ Now # 0
        BY <3>1, <3>2 DEF Flagged
      <4>3. CASE rollover
        BY <1>1, <2>1, <3>1, <4>1, <4>2, <4>3, <4>5 DEF Ahead
      <4>4. CASE ~rollover
        BY <1>1, <2>1, <3>1, <4>1, <4>2, <4>4, <4>5 DEF Ahead
      <4> QED
        BY <4>3, <4>4
    <3>3. rollover' \in BOOLEAN
      BY <1>1, <3>1 DEF Flagged
    <3> QED
      BY <1>1, <2>1, <3>1, <3>2, <3>3 DEF AlarmInv, AlarmTypeOK
  <2> QED
    BY <2>2, <2>3
<1>5. CASE UNCHANGED alarmVars
  BY <1>5 DEF alarmVars, AlarmInv, AlarmTypeOK, Ahead
<1> QED
  BY <1>2, <1>3, <1>4, <1>5 DEF AlarmNext

\* The tick counter and the times of the alarms stay 32 bits wide, whatever
\* the callbacks return.
THEOREM AlarmTyped == AlarmSpec => []AlarmTypeOK
<1>1. AlarmInv => AlarmTypeOK
  BY DEF AlarmInv
<1> QED
  BY <1>1, AlarmInitInv, AlarmKeeps, PTL DEF AlarmSpec

\* Every callback is called on the tick that was asked for, for counters of
\* every width and any sequence of starts, stops and returned delays.
THEOREM AlarmOnTime == AlarmSpec => []CalledOnTime
  BY OnTime, AlarmInitInv, AlarmKeeps, PTL DEF AlarmSpec

-----------------------------------------------------------------------------
\* The push buttons.

\* A press that is alone finds the handler idle, and is alone in it.
Alone ==
  /\ setup # "done" => handler = "idle"
  /\ ~hasty =>
       /\ handler # "idle" => \A p, r \in pin : p = r
       /\ handler = "idle" /\ setup \in {"register", "done"} =>
            \A p, r \in edge_capture : p = r
       /\ handler = "clear" => edge_capture = pin
       /\ handler = "callback" => edge_capture = {}

ButtonsInv == ButtonsTypeOK /\ NoPhantomPress /\ SlowPressesArrive /\ Alone

LEMMA ButtonsInitInv == ButtonsInit => ButtonsInv
<1> SUFFICES ASSUME ButtonsInit PROVE ButtonsInv
  OBVIOUS
<1>1. ButtonsTypeOK /\ Alone
  BY ButtonsAssumption DEF ButtonsAssumption, ButtonsInit, ButtonsTypeOK, Alone
<1>2. \A k \in PinKeys : Coming(k) = 0 /\ owed[k] = 0
  BY DEF ButtonsInit, Coming, OneIf
<1> QED
  BY <1>1, <1>2 DEF ButtonsInv, NoPhantomPress, SlowPressesArrive

LEMMA ButtonsKeeps == ButtonsInv /\ [ButtonsNext]_buttonVars => ButtonsInv'
<1> SUFFICES ASSUME ButtonsInv, [ButtonsNext]_buttonVars PROVE ButtonsInv'
  OBVIOUS
<1> USE ButtonsAssumption
    DEF ButtonsAssumption, ButtonsInv, ButtonsTypeOK, NoPhantomPress,
        SlowPressesArrive, Alone, Coming, Known, OneIf
<1>1. ASSUME NEW p \in Pins, Edge(p) PROVE ButtonsInv'
  <2>1. ButtonsTypeOK'
    BY <1>1 DEF Edge
  <2>2. Alone'
    BY <1>1 DEF Edge
  <2>3. ASSUME NEW k \in PinKeys PROVE owed'[k] = owed[k] + OneIf(k = p)
    BY <1>1 DEF Edge
  <2>4. ASSUME NEW k \in PinKeys PROVE Coming(k)' <= Coming(k) + OneIf(k = p)
    BY <1>1 DEF Edge
  <2>5. NoPhantomPress'
    <3> SUFFICES ASSUME NEW k \in PinKeys PROVE Coming(k)' <= owed'[k]
      OBVIOUS
    <3> QED
      BY <2>3, <2>4
  <2>6. SlowPressesArrive'
    <3> SUFFICES ASSUME ~hasty', NEW k \in PinKeys PROVE owed'[k] = Coming(k)'
      OBVIOUS
    <3>1. /\ ~hasty /\ handler = "idle" /\ edge_capture = {}
          /\ setup \in {"register", "done"}
      BY <1>1 DEF Edge
    <3>2. Coming(k) = 0 /\ Coming(k)' = OneIf(k = p)
      BY <1>1, <3>1 DEF Edge
    <3> QED
      BY <2>3, <3>1, <3>2
  <2> QED
    BY <2>1, <2>2, <2>5, <2>6
<1>2. CASE SetMask
  BY <1>2 DEF SetMask
<1>3. CASE SetupClears
  BY <1>3 DEF SetupClears
<1>4. CASE Registers
  BY <1>4 DEF Registers
<1>5. CASE HandlerReads
  BY <1>5 DEF HandlerReads
<1>6. CASE HandlerClears
  BY <1>6 DEF HandlerClears
<1>7. CASE CallsBack
  BY <1>7 DEF CallsBack
<1>8. CASE NewCount
  <2>1. \A k \in PinKeys : Coming(k)' = 0 /\ owed'[k] = 0
    BY <1>8 DEF NewCount
  <2>2. ButtonsTypeOK' /\ Alone'
    BY <1>8 DEF NewCount
  <2> QED
    BY <2>1, <2>2
<1>9. CASE UNCHANGED buttonVars
  BY <1>9 DEF buttonVars
<1> QED
  BY <1>1, <1>2, <1>3, <1>4, <1>5, <1>6, <1>7, <1>8, <1>9 DEF ButtonsNext

\* No semaphore is posted more often than its key is pressed, whatever is
\* pressed when.
THEOREM NothingPhantom == ButtonsSpec => []NoPhantomPress
<1>1. ButtonsInv => NoPhantomPress
  BY DEF ButtonsInv
<1> QED
  BY <1>1, ButtonsInitInv, ButtonsKeeps, PTL DEF ButtonsSpec

\* Presses that leave each other time all reach their semaphore, for any
\* number of buttons.
THEOREM SlowPressesAreHeard == ButtonsSpec => []SlowPressesArrive
<1>1. ButtonsInv => SlowPressesArrive
  BY DEF ButtonsInv
<1> QED
  BY <1>1, ButtonsInitInv, ButtonsKeeps, PTL DEF ButtonsSpec

\* The fields of the port and of the class keep to their types.
THEOREM ButtonsTyped == ButtonsSpec => []ButtonsTypeOK
<1>1. ButtonsInv => ButtonsTypeOK
  BY DEF ButtonsInv
<1> QED
  BY <1>1, ButtonsInitInv, ButtonsKeeps, PTL DEF ButtonsSpec

-----------------------------------------------------------------------------
(* Names: the one buffer of receive, read line by line.                    *)

IsNameLine(line) == line # <<>> /\ line[1] = Key

\* What the queue is to say of a line.
NameIn(line) == IF IsNameLine(line) THEN <<SubSeq(line, 3, Len(line))>> ELSE <<>>

\* What is still to come of a line of which n characters have been read.
Rest(line, n) == SubSeq(Append(line, NL), n + 1, Len(line) + 1)

\* The last cell ends every text, and only the first one says "name".
BufferEnds ==
  /\ payload[PayloadLen - 1] = Nul
  /\ \A i \in Index : payload[i] = Key => i = 0

\* The cells before at hold what has been read of the line.
Reads(line) ==
  /\ at \in 0..Len(line) /\ typing = Rest(line, at)
  /\ \A i \in 0..at - 1 : payload[i] = line[i + 1]

\* Between two lines the name in the queue is in the buffer; while one is typed
\* the queue is empty.
Between ==
  typing = <<>> =>
    /\ at = 0
    /\ Patient => \/ queued = 0 /\ typed = <<>>
                  \/ queued = 1 /\ typed = <<String(payload, 2)>>
During ==
  typing # <<>> =>
    \E line \in Lines : Reads(line) /\ (Patient => queued = 0 /\ typed = NameIn(line))

NamesInv ==
  /\ payload \in [Index -> Characters] /\ at \in Index /\ queued \in 0..MAX_MSG_AMT
  /\ rounds \in 0..4 /\ waits \in BOOLEAN /\ (~waits => rounds <= 3)
  /\ BufferEnds /\ Between /\ During
  /\ Patient => RegisteredNameWasTyped

LEMMA NameConstants ==
  /\ NL # Nul /\ Key # NL /\ Key # Nul
  /\ PayloadLen \in Nat /\ PayloadLen > 0 /\ MAX_MSG_AMT \in Nat /\ MAX_MSG_AMT > 0
  /\ Index = 0..PayloadLen - 1 /\ {Key, NL, Nul} \subseteq Characters
BY NamesAssumption DEF NamesAssumption, Index, Characters

LEMMA LineFacts ==
  ASSUME NEW line \in Lines
  PROVE  /\ line \in Seq(Characters) /\ Len(line) \in Nat
         /\ \A i \in 1..Len(line) : line[i] # NL /\ line[i] # Nul
<1>1. line \in Seq({line[i] : i \in 1..Len(line)}) /\ Len(line) \in Nat
  BY NamesAssumption DEF NamesAssumption
<1>2. {line[i] : i \in 1..Len(line)} \subseteq Characters
  BY DEF Characters
<1>3. line \in Seq(Characters)
  BY <1>1, <1>2
<1> QED
  BY <1>1, <1>3, NamesAssumption DEF NamesAssumption

\* Reading a character of a line.
LEMMA RestFacts ==
  ASSUME NEW line \in Lines, NEW n \in 0..Len(line)
  PROVE  /\ Rest(line, n) # <<>>
         /\ Head(Rest(line, n)) = IF n < Len(line) THEN line[n + 1] ELSE NL
         /\ n < Len(line) => Tail(Rest(line, n)) = Rest(line, n + 1)
         /\ n = Len(line) => Tail(Rest(line, n)) = <<>>
<1> DEFINE l == Append(line, NL)
           r == Rest(line, n)
<1>1. line \in Seq(Characters) /\ NL \in Characters /\ Len(line) \in Nat
  BY LineFacts, NameConstants
<1>2. /\ l \in Seq(Characters) /\ Len(l) = Len(line) + 1 /\ l[Len(line) + 1] = NL
      /\ \A i \in 1..Len(line) : l[i] = line[i]
  BY <1>1
<1>3. /\ r \in Seq(Characters) /\ Len(r) = Len(line) + 1 - n
      /\ \A i \in 1..Len(line) + 1 - n : r[i] = l[n + i]
  BY <1>1, <1>2 DEF Rest
<1>4. r # <<>> /\ Head(r) = r[1]
  BY <1>1, <1>3
<1>5. Head(r) = IF n < Len(line) THEN line[n + 1] ELSE NL
  BY <1>1, <1>2, <1>3, <1>4
<1>6. /\ Tail(r) \in Seq(Characters) /\ Len(Tail(r)) = Len(line) - n
      /\ \A i \in 1..Len(line) - n : Tail(r)[i] = r[i + 1]
  BY <1>1, <1>3, <1>4
<1>7. ASSUME n < Len(line) PROVE Tail(r) = Rest(line, n + 1)
  <2> DEFINE t == Rest(line, n + 1)
  <2>1. /\ t \in Seq(Characters) /\ Len(t) = Len(line) - n
        /\ \A i \in 1..Len(line) - n : t[i] = l[n + 1 + i]
    <3>1. t = SubSeq(l, n + 2, Len(line) + 1)
      BY <1>1 DEF Rest
    <3> HIDE DEF t, l
    <3> QED
      BY <1>1, <1>2, <1>7, <3>1
  <2>2. ASSUME NEW i \in 1..Len(line) - n PROVE t[i] = Tail(r)[i]
    <3>1. i + 1 \in 1..Len(line) + 1 - n /\ n + (i + 1) = n + 1 + i
      BY <1>1
    <3> QED
      BY <1>3, <1>6, <2>1, <3>1
  <2> DEFINE u == Tail(r)
  <2>3. u \in Seq(Characters) /\ Len(t) = Len(u) /\ \A i \in 1..Len(t) : t[i] = u[i]
    BY <1>1, <1>6, <2>1, <2>2
  <2> HIDE DEF t, u
  <2>4. t = u
    BY <2>1, <2>3, SeqEqual
  <2> QED
    BY <2>4 DEF t, u
<1>8. ASSUME n = Len(line) PROVE Tail(r) = <<>>
  <2> DEFINE u == Tail(r)
  <2>1. u \in Seq(Characters) /\ Len(u) = 0
    BY <1>1, <1>6, <1>8
  <2> HIDE DEF u
  <2>2. u = <<>>
    BY <2>1
  <2> QED
    BY <2>2 DEF u
<1> QED
  BY <1>4, <1>5, <1>7, <1>8

\* The text at a cell ends before the first Nul.
LEMMA StringEnds ==
  ASSUME NEW b, NEW i \in Index, NEW e \in i..PayloadLen - 1,
         b[e] = Nul, \A j \in i..e - 1 : b[j] # Nul
  PROVE  String(b, i) = [k \in 1..e - i |-> b[i + k - 1]]
<1> DEFINE ends == {j \in i..PayloadLen - 1 : b[j] = Nul}
           first == CHOOSE j \in ends : \A k \in ends : j <= k
<1>1. e \in ends /\ \A k \in ends : e <= k
  BY NameConstants
<1>2. first \in ends /\ \A k \in ends : first <= k
  BY <1>1
<1>3. first = e /\ ends # {}
  BY <1>1, <1>2, NameConstants
<1> HIDE DEF ends
<1> QED
  BY <1>3 DEF String, ends

\* Every set of numbers has a least one.
LEMMA LeastElement ==
  ASSUME NEW T, T \subseteq Nat, T # {}
  PROVE  \E x \in T : \A y \in T : x <= y
<1> DEFINE Less == OpToRel(<, Nat)
<1>1. \E x \in T : \A y \in T : ~(<<y, x>> \in Less)
  BY NatLessThanWellFounded, WFMin
<1>2. \A x, y \in Nat : y < x => <<y, x>> \in Less
  BY DEF OpToRel
<1> HIDE DEF Less
<1>3. PICK x \in T : \A y \in T : ~(<<y, x>> \in Less)
  BY <1>1
<1>4. ASSUME NEW y \in T PROVE x <= y
  <2>1. x \in Nat /\ y \in Nat /\ ~(<<y, x>> \in Less)
    BY <1>3
  <2>2. ~(y < x)
    BY <1>2, <2>1
  <2> QED
    BY <2>1, <2>2
<1> QED
  BY <1>4

\* The text at any cell ends at the first Nul, or with the buffer.
LEMMA StringOf ==
  ASSUME NEW b, NEW i \in Index
  PROVE  \E e \in i..PayloadLen :
            /\ e < PayloadLen => b[e] = Nul
            /\ \A j \in i..e - 1 : b[j] # Nul
            /\ String(b, i) = [k \in 1..e - i |-> b[i + k - 1]]
<1> DEFINE T == {j \in i..PayloadLen - 1 : b[j] = Nul}
<1>1. CASE T = {}
  <2>1. String(b, i) = [k \in 1..PayloadLen - i |-> b[i + k - 1]]
    BY <1>1 DEF String
  <2>2. PayloadLen \in i..PayloadLen /\ \A j \in i..PayloadLen - 1 : b[j] # Nul
    BY <1>1, NameConstants
  <2> QED
    BY <2>1, <2>2, NameConstants
<1>2. CASE T # {}
  <2>1. T \subseteq Nat
    BY NameConstants
  <2>2. PICK e \in T : \A y \in T : e <= y
    BY <1>2, <2>1, LeastElement
  <2>3. e \in i..PayloadLen - 1 /\ b[e] = Nul
    BY <2>2
  <2>4. ASSUME NEW j \in i..e - 1 PROVE b[j] # Nul
    <3>1. j \in i..PayloadLen - 1 /\ ~(e <= j)
      BY <2>3, NameConstants
    <3> QED
      BY <2>2, <3>1
  <2>5. e \in i..PayloadLen
    BY <2>3, NameConstants
  <2> QED
    BY <2>3, <2>4, <2>5, StringEnds
<1> QED
  BY <1>1, <1>2

\* strstr finds "name" iff the line read last begins with it.
LEMMA IsNameIff ==
  ASSUME NEW b, \A i \in Index : b[i] = Key => i = 0
  PROVE  IsName(b) <=> b[0] = Key
<1>0. 0 \in Index
  BY NameConstants
<1>1. PICK e \in 0..PayloadLen :
        /\ e < PayloadLen => b[e] = Nul
        /\ \A j \in 0..e - 1 : b[j] # Nul
        /\ String(b, 0) = [k \in 1..e - 0 |-> b[0 + k - 1]]
  BY <1>0, StringOf
<1>2. /\ DOMAIN String(b, 0) = 1..e
      /\ \A k \in 1..e : String(b, 0)[k] = b[k - 1]
  BY <1>1
<1>3. ASSUME NEW k \in DOMAIN String(b, 0), String(b, 0)[k] = Key PROVE b[0] = Key
  <2>1. k - 1 \in Index /\ b[k - 1] = Key
    BY <1>2, <1>3, NameConstants
  <2> QED
    BY <2>1
<1>4. ASSUME b[0] = Key PROVE 1 \in DOMAIN String(b, 0) /\ String(b, 0)[1] = Key
  <2>1. e >= 1
    BY <1>1, <1>4, NameConstants
  <2> QED
    BY <1>2, <1>4, <2>1
<1> QED
  BY <1>3, <1>4 DEF IsName

\* strtok ends a name at its newline.
LEMMA StrtokEnds ==
  ASSUME NEW b, NEW n \in 3..PayloadLen - 1,
         b[n] = NL, \A j \in 2..n - 1 : b[j] # NL /\ b[j] # Nul
  PROVE  Strtok(b, 2) = [b EXCEPT ![n] = Nul]
<1> DEFINE text == String(b, 2)
           start == {k \in DOMAIN text : text[k] # NL}
           ends == {k \in DOMAIN text : text[k] = NL /\ \E j \in start : j < k}
           first == CHOOSE k \in ends : \A j \in ends : k <= j
<1>1. 2 \in Index
  BY NameConstants
<1>2. PICK e \in 2..PayloadLen :
        /\ e < PayloadLen => b[e] = Nul
        /\ \A j \in 2..e - 1 : b[j] # Nul
        /\ String(b, 2) = [k \in 1..e - 2 |-> b[2 + k - 1]]
  BY <1>1, StringOf
<1>3. e > n
  BY <1>2, NameConstants
<1>4. /\ DOMAIN text = 1..e - 2
      /\ \A k \in 1..e - 2 : text[k] = b[k + 1]
  BY <1>2
<1> HIDE DEF text
<1>5. 1 \in start
  <2>1. 1 \in DOMAIN text /\ text[1] = b[2] /\ b[2] # NL
    BY <1>3, <1>4
  <2> QED
    BY <2>1
<1>6. n - 1 \in ends
  <2>1. n - 1 \in DOMAIN text /\ text[n - 1] = NL /\ 1 < n - 1
    BY <1>3, <1>4
  <2> QED
    BY <1>5, <2>1
<1>7. ASSUME NEW k \in ends PROVE n - 1 <= k
  <2>1. k \in 1..e - 2 /\ b[k + 1] = NL /\ \E j \in start : j < k
    BY <1>4
  <2>2. k >= 2
    BY <1>4, <2>1
  <2>3. ~(k + 1 \in 2..n - 1)
    BY <2>1
  <2> QED
    BY <2>1, <2>2, <2>3
<1>8. first \in ends /\ \A j \in ends : first <= j
  BY <1>6, <1>7
<1>9. first = n - 1 /\ ends # {}
  <2>1. ends \subseteq 1..e - 2
    BY <1>4
  <2> HIDE DEF ends, first
  <2>2. first <= n - 1 /\ n - 1 <= first /\ first \in 1..e - 2
    BY <1>6, <1>7, <1>8, <2>1
  <2> QED
    BY <1>6, <2>2
<1>10. Strtok(b, 2) = [b EXCEPT ![2 - 1 + first] = Nul]
  BY <1>9 DEF Strtok, text
<1> HIDE DEF first
<1>11. 2 - 1 + first = n
  BY <1>9
<1> QED
  BY <1>10, <1>11

\* A name ends up in the buffer as it was typed.
LEMMA NameStored ==
  ASSUME PlainLines, NEW line \in Lines, IsNameLine(line), NEW b \in [Index -> Characters],
         \A i \in 0..Len(line) - 1 : b[i] = line[i + 1], b[Len(line)] = NL
  PROVE  /\ Strtok(b, 2) = [b EXCEPT ![Len(line)] = Nul]
         /\ String([b EXCEPT ![Len(line)] = Nul], 2) = SubSeq(line, 3, Len(line))
<1> DEFINE n == Len(line)
           c == [b EXCEPT ![n] = Nul]
<1>1. /\ n \in 3..PayloadLen - 1 /\ line \in Seq(Characters)
      /\ \A i \in 1..n : line[i] # NL /\ line[i] # Nul
  BY LineFacts DEF PlainLines, IsNameLine
<1>2. \A j \in 2..n - 1 : b[j] # NL /\ b[j] # Nul
  <2>1. ASSUME NEW j \in 2..n - 1 PROVE b[j] # NL /\ b[j] # Nul
    <3>1. j \in 0..n - 1 /\ j + 1 \in 1..n
      BY <1>1
    <3> QED
      BY <1>1, <3>1
  <2> QED
    BY <2>1
<1>3. Strtok(b, 2) = c
  BY <1>1, <1>2, StrtokEnds
<1>4. 2 \in Index /\ n \in Index /\ n \in 2..PayloadLen - 1
  BY <1>1, NameConstants
<1>5. c[n] = Nul /\ \A j \in 0..n - 1 : c[j] = b[j]
  BY <1>4, NameConstants
<1>6. String(c, 2) = [k \in 1..n - 2 |-> c[2 + k - 1]]
  <2>1. \A j \in 2..n - 1 : c[j] # Nul
    BY <1>1, <1>2, <1>5
  <2> HIDE DEF c, n
  <2> QED
    BY <1>4, <1>5, <2>1, StringEnds
<1>7. SubSeq(line, 3, n) = [k \in 1..n - 2 |-> line[3 + k - 1]]
  BY <1>1 DEF SubSeq
<1>8. ASSUME NEW k \in 1..n - 2 PROVE c[2 + k - 1] = line[3 + k - 1]
  <2>1. 2 + k - 1 \in 0..n - 1 /\ (2 + k - 1) + 1 = 3 + k - 1
    BY <1>1
  <2> QED
    BY <1>5, <2>1
<1> HIDE DEF c, n
<1>9. String(c, 2) = SubSeq(line, 3, n)
  BY <1>6, <1>7, <1>8
<1> QED
  BY <1>3, <1>9 DEF c, n

\* The copy of the one name there is.
LEMMA CopyIsTyped ==
  ASSUME NEW b, Copies(b), typed = <<String(b, 2)>>
  PROVE  typed' = <<>> /\ RegisteredNameWasTyped'
<1> DEFINE name == String(b, 2)
<1> HIDE DEF name
<1>1. typed = <<name>> /\ typed # <<>>
  BY DEF name
<1>2. Tail(typed) = <<>> /\ Head(typed \o <<<<NL>>>>) = name
  BY <1>1
<1> QED
  BY <1>1, <1>2 DEF Copies, RegisteredNameWasTyped, name

\* A line begins.
LEMMA RestWhole == ASSUME NEW line \in Lines PROVE Rest(line, 0) = Append(line, NL)
<1> DEFINE l == Append(line, NL)
<1>1. line \in Seq(Characters) /\ NL \in Characters /\ Len(line) \in Nat
  BY LineFacts, NameConstants
<1>2. l \in Seq(Characters) /\ Len(l) = Len(line) + 1
  BY <1>1
<1> HIDE DEF l
<1>3. SubSeq(l, 1, Len(l)) = l
  BY <1>2
<1> QED
  BY <1>2, <1>3 DEF Rest, l

LEMMA NamesInitInv == NamesInit => NamesInv
<1> SUFFICES ASSUME NamesInit PROVE NamesInv
  OBVIOUS
<1> USE NameConstants DEF NamesInit
<1>1. BufferEnds
  BY DEF BufferEnds
<1>2. Between /\ During /\ RegisteredNameWasTyped
  BY DEF Between, During, RegisteredNameWasTyped
<1>3. payload \in [Index -> Characters] /\ at \in Index /\ queued \in 0..MAX_MSG_AMT
  BY DEF Characters
<1>4. rounds = 4 /\ waits = TRUE
  OBVIOUS
<1>5. waits \in BOOLEAN
  BY <1>4, Zenon
<1> HIDE DEF NamesInit
<1> QED
  BY <1>1, <1>2, <1>3, <1>4, <1>5 DEF NamesInv

\* console reads a character, within a line or at the end of it.
LEMMA ConsoleKeeps == ASSUME PlainLines, NamesInv, Console PROVE NamesInv'
<1> USE NameConstants
<1>1. typing # <<>> /\ at \in Index
  BY DEF Console, ReadsChar
<1>2. PICK line \in Lines : Reads(line) /\ (Patient => queued = 0 /\ typed = NameIn(line))
  BY <1>1 DEF NamesInv, During
<1> DEFINE n == Len(line)
<1>3. /\ line \in Seq(Characters) /\ n \in Nat /\ at \in 0..n
      /\ \A i \in 1..n : line[i] # NL /\ line[i] # Nul
      /\ \A i \in 0..at - 1 : payload[i] = line[i + 1]
      /\ payload \in [Index -> Characters]
  BY <1>2, LineFacts DEF Reads, NamesInv
<1>4. /\ \A i \in 1..n : line[i] = Key => i = 1
      /\ IsNameLine(line) => n \in 3..PayloadLen - 1
      /\ ~IsNameLine(line) => n <= PayloadLen - 2
  BY DEF PlainLines, IsNameLine
<1>5. CASE at < n
  <2>1. /\ Head(typing) = line[at + 1] /\ typing' = Rest(line, at + 1)
        /\ Head(typing) \in Characters /\ Head(typing) # NL /\ Head(typing) # Nul
    BY <1>2, <1>3, <1>5, RestFacts DEF Reads, Console, ReadsChar
  <2>2. /\ at' = at + 1 /\ payload' = [payload EXCEPT ![at] = line[at + 1]]
        /\ UNCHANGED <<queued, rounds, waits, typed, registered>>
    BY <2>1 DEF Console, ReadsChar, Stored, NextAt
  <2>3. at + 1 \in Index /\ at # PayloadLen - 1 /\ at + 1 \in 0..n
    BY <1>3, <1>4, <1>5
  <2>4. BufferEnds'
    BY <1>3, <1>4, <2>2, <2>3 DEF NamesInv, BufferEnds
  <2>5. Reads(line)'
    <3>1. ASSUME NEW i \in 0..(at + 1) - 1 PROVE payload'[i] = line[i + 1]
      <4>1. i \in Index /\ at \in Index
        BY <1>3, <2>3
      <4>2. CASE i = at
        BY <1>3, <2>2, <4>1, <4>2
      <4>3. CASE i # at
        <5>1. i \in 0..at - 1
          BY <1>3, <3>1, <4>3
        <5> QED
          BY <1>3, <2>2, <4>1, <4>3, <5>1
      <4> QED
        BY <4>2, <4>3
    <3> QED
      BY <2>1, <2>2, <2>3, <3>1 DEF Reads
  <2>6. During' /\ Between'
    BY <1>2, <1>3, <2>1, <2>2, <2>3, <2>5, RestFacts DEF During, Between
  <2>7. payload' \in [Index -> Characters] /\ (Patient => RegisteredNameWasTyped')
    BY <1>3, <2>1, <2>2 DEF NamesInv, RegisteredNameWasTyped
  <2> QED
    BY <2>2, <2>3, <2>4, <2>6, <2>7 DEF NamesInv
<1>6. CASE at = n
  <2> DEFINE b == Stored
  <2>1. Head(typing) = NL /\ typing' = <<>> /\ at' = 0 /\ b = [payload EXCEPT ![n] = NL]
    <3>1. typing = Rest(line, n) /\ n \in 0..Len(line)
      BY <1>2, <1>3, <1>6 DEF Reads
    <3>2. Head(typing) = NL /\ Tail(typing) = <<>>
      BY <1>3, <3>1, RestFacts
    <3> QED
      BY <1>6, <3>2 DEF Console, ReadsChar, NextAt, Stored
  <2>2. /\ b \in [Index -> Characters] /\ b[n] = NL
        /\ \A i \in Index : i # n => b[i] = payload[i]
    BY <1>1, <1>3, <1>6, <2>1
  <2>3. \A i \in 0..n - 1 : b[i] = line[i + 1]
    BY <1>1, <1>3, <1>6, <2>2
  <2>4. \A i \in Index : b[i] = Key => i = 0
    BY <2>2 DEF NamesInv, BufferEnds
  <2> HIDE DEF b
  <2>5. CASE IsNameLine(line)
    <3>1. IsName(b)
      <4>1. b[0] = Key
        BY <1>3, <1>4, <2>3, <2>5 DEF IsNameLine
      <4> QED
        BY <2>4, <4>1, IsNameIff
    <3> DEFINE c == [b EXCEPT ![n] = Nul]
    <3>2. payload' = c /\ String(c, 2) = SubSeq(line, 3, n)
      BY <2>1, <2>2, <2>3, <2>5, <3>1, NameStored DEF Console, ReadsChar, b
    <3>3. /\ c \in [Index -> Characters] /\ c[PayloadLen - 1] = Nul
          /\ \A i \in Index : c[i] = Key => i = 0
      BY <1>4, <2>2, <2>4, <2>5 DEF NamesInv, BufferEnds
    <3> HIDE DEF c
    <3>4. payload' \in [Index -> Characters] /\ BufferEnds'
      BY <3>2, <3>3 DEF BufferEnds
    <3>5. Patient => queued = 0 /\ typed = <<String(payload', 2)>>
      BY <1>2, <2>5, <3>2 DEF NameIn
    <3>6. CASE waits
      <4>1. Copies(payload') /\ waits' = FALSE /\ queued' = queued /\ rounds' = 0
        BY <2>1, <3>1, <3>6 DEF Console, Copies, b
      <4>2. Patient => typed' = <<>> /\ RegisteredNameWasTyped'
        BY <3>5, <4>1, CopyIsTyped
      <4>3. Between' /\ During'
        BY <2>1, <3>5, <4>1, <4>2 DEF Between, During
      <4> QED
        BY <2>1, <3>4, <4>1, <4>2, <4>3 DEF NamesInv
    <3>7. CASE ~waits
      <4>1. /\ queued' = IF queued < MAX_MSG_AMT THEN queued + 1 ELSE queued
            /\ UNCHANGED <<rounds, waits, typed, registered>>
        BY <2>1, <3>1, <3>7 DEF Console, b
      <4>2. Between'
        BY <2>1, <3>5, <4>1 DEF Between
      <4> QED
        BY <2>1, <3>4, <4>1, <4>2 DEF NamesInv, During, RegisteredNameWasTyped
    <3> QED
      BY <3>6, <3>7
  <2>6. CASE ~IsNameLine(line)
    <3>1. ~IsName(b)
      <4>1. b[0] # Key
        <5>1. CASE n = 0
          BY <2>2, <5>1
        <5>2. CASE n # 0
          BY <1>3, <2>3, <2>6, <5>2 DEF IsNameLine
        <5> QED
          BY <5>1, <5>2
      <4> QED
        BY <2>4, <4>1, IsNameIff
    <3>2. payload' = b /\ UNCHANGED <<queued, rounds, waits, typed, registered>>
      BY <2>1, <3>1 DEF Console, ReadsChar, b
    <3>3. BufferEnds'
      BY <1>3, <1>4, <2>2, <2>4, <2>6, <3>2 DEF NamesInv, BufferEnds
    <3>4. Between' /\ During'
      BY <1>2, <2>1, <2>6, <3>2 DEF Between, During, NameIn
    <3> QED
      BY <2>1, <2>2, <3>2, <3>3, <3>4 DEF NamesInv, RegisteredNameWasTyped
  <2> QED
    BY <2>5, <2>6
<1> QED
  BY <1>3, <1>5, <1>6

LEMMA NamesKeep ==
  ASSUME PlainLines, NamesInv, [NamesNext]_namesVars
  PROVE  NamesInv'
<1> USE NameConstants
<1>1. ASSUME NEW line \in Lines, Types(line) PROVE NamesInv'
  <2>1. /\ typing = <<>> /\ at = 0 /\ at' = 0 /\ typing' = Rest(line, 0)
        /\ Patient => queued = 0 /\ typed = <<>>
        /\ UNCHANGED <<payload, at, queued, rounds, waits, registered>>
    BY <1>1, RestWhole DEF Types, NamesInv, Between
  <2>2. Reads(line)'
    BY <2>1, LineFacts DEF Reads
  <2>3. Patient => queued' = 0 /\ typed' = NameIn(line)
    BY <1>1, <2>1 DEF Types, NameIn, IsNameLine
  <2>4. During' /\ Between'
    BY <2>1, <2>2, <2>3, LineFacts, RestFacts DEF During, Between
  <2> QED
    BY <2>1, <2>4 DEF NamesInv, BufferEnds, RegisteredNameWasTyped
<1>2. ASSUME Turn PROVE NamesInv'
  <2>1. /\ rounds' \in 0..4 /\ (~waits' => rounds' <= 3)
        /\ UNCHANGED <<payload, at, typing, queued, waits, typed, registered>>
    BY <1>2 DEF Turn, NamesInv
  <2>2. BufferEnds' /\ Between' /\ During' /\ (Patient => RegisteredNameWasTyped')
    BY <2>1 DEF NamesInv, BufferEnds, Between, During, Reads, RegisteredNameWasTyped
  <2> QED
    BY <2>1, <2>2 DEF NamesInv
<1>3. ASSUME Asks PROVE NamesInv'
  BY <1>3
  DEF Asks, NamesInv, BufferEnds, Between, During, Reads, RegisteredNameWasTyped
<1>4. ASSUME Takes PROVE NamesInv'
  <2>1. /\ Copies(payload) /\ queued > 0 /\ queued' = queued - 1 /\ rounds' = 0
        /\ UNCHANGED <<payload, at, typing, waits>>
    BY <1>4 DEF Takes, Copies
  <2>2. Patient => typing = <<>> /\ queued = 1 /\ typed = <<String(payload, 2)>>
    BY <2>1 DEF NamesInv, Between, During
  <2>3. Patient => typed' = <<>> /\ RegisteredNameWasTyped'
    BY <2>1, <2>2, CopyIsTyped
  <2>4. Between' /\ During'
    BY <2>1, <2>2, <2>3 DEF NamesInv, Between, During, Reads
  <2> QED
    BY <2>1, <2>3, <2>4 DEF NamesInv, BufferEnds
<1>5. ASSUME UNCHANGED namesVars PROVE NamesInv'
  BY <1>5
  DEF namesVars, NamesInv, BufferEnds, Between, During, Reads, RegisteredNameWasTyped
<1> QED
  BY <1>1, <1>2, <1>3, <1>4, <1>5, ConsoleKeeps DEF NamesNext

\* receive stores each character inside the buffer, and strstr and strcpy find
\* the end of the text there, whether or not people are patient.
THEOREM NamesTyped == ASSUME PlainLines PROVE NamesSpec => []NamesTypeOK
<1>1. NamesInv => NamesTypeOK
  BY NameConstants DEF NamesInv, NamesTypeOK, BufferEnds, TextEnds
<1> QED
  BY <1>1, NamesInitInv, NamesKeep, PTL DEF NamesSpec

\* user_register: the name that is copied is the one that was typed, when nobody
\* types while a name is in the queue.
THEOREM NamesAreThoseTyped ==
  ASSUME PlainLines, Patient PROVE NamesSpec => []RegisteredNameWasTyped
<1>1. NamesInv => RegisteredNameWasTyped
  BY DEF NamesInv
<1> QED
  BY <1>1, NamesInitInv, NamesKeep, PTL DEF NamesSpec

-----------------------------------------------------------------------------
(* Displays and leds.                                                      *)

\* No two digits look the same.
LEMMA DigitsDiffer ==
  /\ \A d \in 0..15 : Segments(d) \in {hex7seg[i] : i \in 1..16}
  /\ \A c, d \in 0..15 : Segments(c) = Segments(d) => c = d
BY DEF Segments, hex7seg

Numbers == 0..9999
Decimal(n, i) == (n \div <<1, 10, 100, 1000>>[i + 1]) % 10

LEMMA DecimalDigits ==
  ASSUME NEW n \in Numbers
  PROVE  /\ \A i \in 0..3 : Decimal(n, i) \in 0..9
         /\ n = Decimal(n, 0) + (10 * Decimal(n, 1)) + (100 * Decimal(n, 2))
                  + (1000 * Decimal(n, 3))
<1> DEFINE a == n % 10
           b == (n \div 10) % 10
           c == (n \div 100) % 10
           d == (n \div 1000) % 10
<1>1. a \in 0..9 /\ b \in 0..9 /\ c \in 0..9 /\ d \in 0..9
  BY DEF Numbers
<1>2. n = a + (10 * b) + (100 * c) + (1000 * d)
  BY DEF Numbers
<1>3. n \div 1 = n
  BY DEF Numbers
<1>4. /\ Decimal(n, 0) = a /\ Decimal(n, 1) = b
      /\ Decimal(n, 2) = c /\ Decimal(n, 3) = d
  BY <1>3 DEF Decimal
<1> HIDE DEF a, b, c, d
<1>5. ASSUME NEW i \in 0..3 PROVE Decimal(n, i) \in 0..9
  <2>1. i \in {0, 1, 2, 3}
    OBVIOUS
  <2> QED
    BY <1>1, <1>4, <2>1
<1>6. n = Decimal(n, 0) + (10 * Decimal(n, 1)) + (100 * Decimal(n, 2))
            + (1000 * Decimal(n, 3))
  BY <1>2, <1>4
<1> QED
  BY <1>5, <1>6

\* show_score and show_tries: the nibbles of the word are the decimal digits.
LEMMA BcdNibbles ==
  ASSUME NEW n \in Numbers
  PROVE  \A i \in 0..3 : Nibble(Bcd(n), i) = Decimal(n, i)
<1> DEFINE a == n % 10
           b == (n \div 10) % 10
           c == (n \div 100) % 10
           d == (n \div 1000) % 10
           w == Bcd(n)
<1>1. a \in 0..9 /\ b \in 0..9 /\ c \in 0..9 /\ d \in 0..9
  BY DEF Numbers
<1>2. w = a + (16 * b) + (256 * c) + (4096 * d)
  BY DEF Bcd
<1>3. n \div 1 = n
  BY DEF Numbers
<1>4. /\ Decimal(n, 0) = a /\ Decimal(n, 1) = b
      /\ Decimal(n, 2) = c /\ Decimal(n, 3) = d
  BY <1>3 DEF Decimal
<1> HIDE DEF a, b, c, d, w
<1>5. (w \div 1) % 16 = a
  BY <1>1, <1>2
<1>6. (w \div 16) % 16 = b
  <2>1. w \div 16 = b + (16 * c) + (256 * d)
    BY <1>1, <1>2
  <2> QED
    BY <1>1, <2>1
<1>7. (w \div 256) % 16 = c
  <2>1. w \div 256 = c + (16 * d)
    BY <1>1, <1>2
  <2> QED
    BY <1>1, <2>1
<1>8. (w \div 4096) % 16 = d
  <2>1. w \div 4096 = d
    BY <1>1, <1>2
  <2> QED
    BY <1>1, <2>1
<1>9. /\ Nibble(w, 0) = a /\ Nibble(w, 1) = b /\ Nibble(w, 2) = c /\ Nibble(w, 3) = d
  BY <1>5, <1>6, <1>7, <1>8 DEF Nibble
<1>10. \A i \in 0..3 : Nibble(w, i) = Decimal(n, i)
  BY <1>4, <1>9
<1> QED
  BY <1>10 DEF w

DisplayInv == DisplayTypeOK /\ HomeScreen

LEMMA SegmentsShow ==
  /\ "0000000" \in {hex7seg[i] : i \in 1..16}
  /\ \A data \in Nat : \A i \in 0..3 : Segments(Nibble(data, i)) \in {hex7seg[j] : j \in 1..16}
<1>1. "0000000" \in {hex7seg[i] : i \in 1..16}
  BY DEF hex7seg
<1>2. ASSUME NEW data \in Nat, NEW i \in 0..3
      PROVE  Nibble(data, i) \in 0..15
  <2>1. i \in {0, 1, 2, 3}
    OBVIOUS
  <2>2. /\ (data \div 1) % 16 \in 0..15 /\ (data \div 16) % 16 \in 0..15
        /\ (data \div 256) % 16 \in 0..15 /\ (data \div 4096) % 16 \in 0..15
    OBVIOUS
  <2> QED
    BY <2>1, <2>2 DEF Nibble
<1> QED
  BY <1>1, <1>2, DigitsDiffer

LEMMA BcdNat == \A n \in Nat : Bcd(n) \in Nat
BY DEF Bcd

LEMMA DisplayInitInv == DisplayInit => DisplayInv
<1> SUFFICES ASSUME DisplayInit PROVE DisplayInv
  OBVIOUS
<1>1. q \in [0..5 -> {hex7seg[i] : i \in 1..16}]
  BY SegmentsShow DEF DisplayInit
<1>2. HomeScreen
  BY DEF DisplayInit, HomeScreen
<1>3. /\ leds \subseteq Bits /\ lit \subseteq Bits /\ tries \in 0..255
      /\ highscore \in Responses \cup {UINT16_MAX}
      /\ phase \in {"BOOT", "IDLE", "COUNT", "STOP", "CIRCLE"} /\ count \in 0..MaxSteps
  BY DisplayAssumption DEF DisplayInit, DisplayAssumption
<1> QED
  BY <1>1, <1>2, <1>3 DEF DisplayInv, DisplayTypeOK

\* IDLE shows the home screen.
LEMMA GoHomeKeeps ==
  ASSUME DisplayInv, NEW from \in {"BOOT", "COUNT", "STOP", "CIRCLE"}, GoHome(from)
  PROVE  DisplayInv'
<1> DEFINE score == IF highscore # UINT16_MAX THEN highscore ELSE 0
           seen == tries % 100
<1>1. /\ highscore \in Responses \cup {UINT16_MAX} /\ tries \in 0..255
      /\ Responses \subseteq Numbers
  BY DisplayAssumption DEF DisplayInv, DisplayTypeOK, DisplayAssumption, Numbers
<1>2. score \in Numbers /\ seen \in 0..99 /\ seen \in Numbers
  BY <1>1 DEF Numbers
<1>3. /\ phase' = "IDLE" /\ tries' = (tries + 1) % 256
      /\ leds' = {} /\ count' = 0 /\ lit' = {} /\ highscore' = highscore
      /\ q' = [i \in 0..5 |-> IF i < 4 THEN Segments(Nibble(Bcd(score), i))
                              ELSE Segments(Nibble(Bcd(seen), i - 4))]
  <2>1. q' = [i \in 0..5 |-> IF i < 4 THEN WriteScore(Bcd(score))[i]
                             ELSE Segments(Nibble(Bcd(seen), i - 4))]
    BY DEF GoHome
  <2>2. \A i \in 0..5 : i < 4 => WriteScore(Bcd(score))[i] = Segments(Nibble(Bcd(score), i))
    BY DEF WriteScore
  <2> HIDE DEF score, seen
  <2> QED
    BY <2>1, <2>2 DEF GoHome
<1> HIDE DEF score, seen
<1>4. /\ \A i \in 0..3 : q'[i] = Segments(Nibble(Bcd(score), i))
      /\ \A i \in 4..5 : q'[i] = Segments(Nibble(Bcd(seen), i - 4))
  BY <1>3
<1>5. q' \in [0..5 -> {hex7seg[i] : i \in 1..16}]
  <2> DEFINE Glyphs == {hex7seg[i] : i \in 1..16}
  <2>1. Bcd(score) \in Nat /\ Bcd(seen) \in Nat
    <3>1. score \in Nat /\ seen \in Nat
      BY <1>2 DEF Numbers
    <3> QED
      BY <3>1, BcdNat
  <2>2. \A data \in Nat : \A i \in 0..3 : Segments(Nibble(data, i)) \in Glyphs
    BY SegmentsShow
  <2> HIDE DEF Glyphs
  <2>3. ASSUME NEW i \in 0..5 PROVE q'[i] \in Glyphs
    <3>1. CASE i \in 0..3
      BY <1>4, <2>1, <2>2, <3>1
    <3>2. CASE i \in 4..5
      <4>1. i - 4 \in 0..3
        BY <3>2
      <4> QED
        BY <1>4, <2>1, <2>2, <3>2, <4>1
    <3> QED
      BY <3>1, <3>2
  <2>4. q' \in [0..5 -> Glyphs]
    BY <1>3, <2>3
  <2> QED
    BY <2>4 DEF Glyphs
<1>6. ScoreSeen' = score
  <2>1. ASSUME NEW i \in 0..3 PROVE Digit(i)' = Decimal(score, i)
    BY <1>2, <1>4, BcdNibbles, DecimalDigits, DigitsDiffer DEF Digit
  <2> QED
    BY <1>2, <2>1, DecimalDigits DEF ScoreSeen
<1>7. TriesSeen' = seen
  <2>1. ASSUME NEW i \in 4..5 PROVE Digit(i)' = Decimal(seen, i - 4)
    <3>1. i - 4 \in 0..3
      OBVIOUS
    <3> QED
      BY <1>2, <1>4, <3>1, BcdNibbles, DecimalDigits, DigitsDiffer DEF Digit
  <2>2. Digit(4)' = Decimal(seen, 0) /\ Digit(5)' = Decimal(seen, 1)
    BY <2>1
  <2>3. seen = Decimal(seen, 0) + (10 * Decimal(seen, 1))
    <3> DEFINE d(i) == Decimal(seen, i)
    <3>1. /\ d(0) \in 0..9 /\ d(1) \in 0..9 /\ d(2) \in 0..9 /\ d(3) \in 0..9
          /\ seen = d(0) + (10 * d(1)) + (100 * d(2)) + (1000 * d(3))
      BY <1>2, DecimalDigits
    <3> HIDE DEF d
    <3>2. seen < 100
      BY <1>2
    <3>3. d(3) = 0
      BY <3>1, <3>2
    <3>4. d(2) = 0
      BY <3>1, <3>2, <3>3
    <3>5. seen = d(0) + (10 * d(1))
      BY <3>1, <3>3, <3>4
    <3> QED
      BY <3>5 DEF d
  <2> QED
    BY <2>2, <2>3 DEF TriesSeen
<1>8. HomeScreen'
  <2>1. (tries' + 255) % 256 = tries
    BY <1>1, <1>3
  <2> QED
    BY <1>3, <1>6, <1>7, <2>1 DEF HomeScreen, score, seen
<1> QED
  BY <1>1, <1>3, <1>5, <1>8, DisplayAssumption DEF DisplayInv, DisplayTypeOK, DisplayAssumption

LEMMA GlyphsWritten ==
  ASSUME NEW n \in Nat, q \in [0..5 -> {hex7seg[i] : i \in 1..16}]
  PROVE  WriteScore(Bcd(n)) \in [0..5 -> {hex7seg[i] : i \in 1..16}]
<1> DEFINE Glyphs == {hex7seg[i] : i \in 1..16}
<1>1. \A i \in 0..3 : Segments(Nibble(Bcd(n), i)) \in Glyphs
  BY BcdNat, SegmentsShow
<1> HIDE DEF Glyphs
<1>2. WriteScore(Bcd(n)) \in [0..5 -> Glyphs]
  BY <1>1 DEF WriteScore, Glyphs
<1> QED
  BY <1>2 DEF Glyphs

LEMMA DisplayKeeps == DisplayInv /\ [DisplayNext]_displayVars => DisplayInv'
<1> SUFFICES ASSUME DisplayInv, [DisplayNext]_displayVars PROVE DisplayInv'
  OBVIOUS
<1>1. /\ Responses \subseteq Nat /\ MaxSteps \in Nat /\ Bits = 0..15
      /\ q \in [0..5 -> {hex7seg[i] : i \in 1..16}] /\ DisplayTypeOK /\ HomeScreen
  BY DisplayAssumption DEF DisplayAssumption, DisplayInv, DisplayTypeOK, Bits
<1>2. ASSUME NEW from \in {"BOOT", "COUNT", "STOP", "CIRCLE"}, GoHome(from) PROVE DisplayInv'
  BY <1>2, GoHomeKeeps
<1>3. CASE Starts
  <2>1. q' \in [0..5 -> {hex7seg[i] : i \in 1..16}]
    BY <1>1, <1>3, GlyphsWritten DEF Starts, show_score
  <2> QED
    BY <1>1, <1>3, <2>1 DEF Starts, DisplayInv, DisplayTypeOK, HomeScreen
<1>4. CASE LightsLed
  <2>1. leds' \subseteq Bits /\ count' \in 0..MaxSteps
    BY <1>1, <1>4 DEF LightsLed, Shifted, DisplayTypeOK
  <2> QED
    BY <1>1, <1>4, <2>1 DEF LightsLed, DisplayInv, DisplayTypeOK, HomeScreen
<1>5. ASSUME NEW r \in Responses, Responds(r) PROVE DisplayInv'
  <2>1. q' \in [0..5 -> {hex7seg[i] : i \in 1..16}]
    BY <1>1, <1>5, GlyphsWritten DEF Responds, show_score
  <2> QED
    BY <1>1, <1>5, <2>1 DEF Responds, DisplayInv, DisplayTypeOK, HomeScreen
<1>6. CASE Turns
  <2>1. leds' \subseteq Bits /\ count' \in 0..MaxSteps
    BY <1>1, <1>6 DEF Turns, rotate_left, Shifted, DisplayTypeOK
  <2> QED
    BY <1>1, <1>6, <2>1 DEF Turns, DisplayInv, DisplayTypeOK, HomeScreen
<1>7. CASE UNCHANGED displayVars
  BY <1>1, <1>7
  DEF displayVars, DisplayInv, DisplayTypeOK, HomeScreen, ScoreSeen, TriesSeen, Digit
<1> QED
  BY <1>2, <1>3, <1>4, <1>5, <1>6, <1>7 DEF DisplayNext

\* Where the bits of leds are, when it has turned count times: either the first
\* nine are all 1, or none of the others was, and those copy what went round.
Origin(i) == (i + 9 * MaxSteps - count) % 9
Circling ==
  \/ 0..8 \subseteq lit /\ 0..8 \subseteq leds /\ (count > 0 => 9 \in leds)
  \/ /\ \A i \in 0..8 : i \in leds <=> Origin(i) \in lit
     /\ \A j \in 1..7 : 8 + j \in leds <=> j <= count /\ j - 1 \in leds

LedsInv ==
  /\ DisplayInv
  /\ phase \in {"BOOT", "IDLE"} => leds = {} /\ count = 0
  /\ phase = "COUNT" => \A i \in Bits : i \in leds <=> i < count
  /\ phase = "CIRCLE" => Circling

LEMMA Rotated ==
  ASSUME leds \subseteq Bits
  PROVE  \A i \in Int : i \in rotate_left(leds) <=> i \in Bits /\ (i - 1 \in leds \/ i + 8 \in leds)
<1>1. \A i \in leds : i \in Int
  BY DEF Bits
<1> QED
  BY <1>1 DEF rotate_left, Shifted

LEMMA TurnsCircle ==
  ASSUME Circling, leds \subseteq Bits, count \in Nat, MaxSteps \in Nat, Turns
  PROVE  Circling'
<1>1. /\ \A i \in Int : i \in leds' <=> i \in Bits /\ (i - 1 \in leds \/ i + 8 \in leds)
      /\ count' = count + 1 /\ lit' = lit
  BY Rotated DEF Turns
<1>2. \A i \in 0..8 : i \in Bits /\ i + 1 \in Bits
  BY DEF Bits
<1>3. CASE 0..8 \subseteq lit /\ 0..8 \subseteq leds
  <2>1. 0..8 \subseteq leds' /\ 9 \in leds'
    <3>1. 9 \in leds'
      BY <1>1, <1>2, <1>3
    <3>2. 0 \in leds'
      BY <1>1, <1>2, <1>3
    <3>3. \A i \in 1..8 : i \in leds'
      BY <1>1, <1>2, <1>3
    <3> QED
      BY <3>1, <3>2, <3>3
  <2> QED
    BY <1>1, <1>3, <2>1 DEF Circling
<1>4. CASE /\ \A i \in 0..8 : i \in leds <=> Origin(i) \in lit
           /\ \A j \in 1..7 : 8 + j \in leds <=> j <= count /\ j - 1 \in leds
  <2>1. \A i \in 1..8 : i \in leds' <=> i - 1 \in leds
    <3>1. ASSUME NEW i \in 1..7 PROVE i \in leds' <=> i - 1 \in leds
      BY <1>1, <1>2, <1>4
    <3>2. 8 \in leds' <=> 7 \in leds
      BY <1>1, <1>2 DEF Bits
    <3> QED
      BY <3>1, <3>2
  <2>2. 0 \in leds' <=> 8 \in leds
    BY <1>1 DEF Bits
  <2>3. ASSUME NEW j \in 2..7 PROVE 8 + j \in leds' <=> 8 + (j - 1) \in leds
    BY <1>1 DEF Bits
  <2>4. 9 \in leds' <=> 8 \in leds
    BY <1>1 DEF Bits
  <2>5. \A i \in 1..8 : Origin(i)' = Origin(i - 1)
    BY <1>1 DEF Origin
  <2>6. Origin(0)' = Origin(8)
    BY <1>1 DEF Origin
  <2>7. \A i \in 0..8 : i \in leds' <=> Origin(i)' \in lit'
    BY <1>1, <1>4, <2>1, <2>2, <2>5, <2>6
  <2>8. ASSUME NEW j \in 1..7
        PROVE  8 + j \in leds' <=> j <= count' /\ j - 1 \in leds'
    <3>1. CASE j = 1
      BY <1>1, <2>2, <2>4, <3>1
    <3>2. CASE j \in 2..7
      <4>1. 8 + j \in leds' <=> j - 1 <= count /\ (j - 1) - 1 \in leds
        BY <1>4, <2>3, <3>2
      <4>2. j - 1 \in leds' <=> (j - 1) - 1 \in leds
        BY <2>1, <3>2
      <4> QED
        BY <1>1, <3>2, <4>1, <4>2
    <3> QED
      BY <3>1, <3>2
  <2> QED
    BY <2>7, <2>8 DEF Circling
<1> QED
  BY <1>3, <1>4 DEF Circling

LEMMA LedsInitInv == DisplayInit => LedsInv
BY DisplayInitInv DEF DisplayInit, LedsInv

LEMMA LedsKeep == LedsInv /\ [DisplayNext]_displayVars => LedsInv'
<1> SUFFICES ASSUME LedsInv, [DisplayNext]_displayVars PROVE LedsInv'
  OBVIOUS
<1>1. /\ DisplayInv' /\ leds \subseteq Bits /\ count \in Nat /\ MaxSteps \in Nat
      /\ phase \in {"BOOT", "IDLE", "COUNT", "STOP", "CIRCLE"}
  <2>1. DisplayInv'
    BY DisplayKeeps DEF LedsInv
  <2>2. count \in Nat /\ MaxSteps \in Nat
    BY DisplayAssumption DEF LedsInv, DisplayInv, DisplayTypeOK, DisplayAssumption
  <2> QED
    BY <2>1, <2>2 DEF LedsInv, DisplayInv, DisplayTypeOK
<1>2. ASSUME NEW from \in {"BOOT", "COUNT", "STOP", "CIRCLE"}, GoHome(from) PROVE LedsInv'
  BY <1>1, <1>2 DEF GoHome, LedsInv
<1>3. CASE Starts
  BY <1>1, <1>3 DEF Starts, LedsInv, Bits
<1>4. CASE LightsLed
  <2>1. \A i \in Int : i \in leds' <=> i \in Bits /\ (i = 0 \/ i - 1 \in leds)
    BY <1>1, <1>4 DEF LightsLed, Shifted, Bits
  <2>2. \A i \in Bits : i \in leds' <=> i < count'
    BY <1>1, <1>4, <2>1 DEF LightsLed, LedsInv, Bits
  <2> QED
    BY <1>1, <1>4, <2>2 DEF LightsLed, LedsInv
<1>5. ASSUME NEW r \in Responses, Responds(r) PROVE LedsInv'
  <2>1. /\ leds' = leds /\ lit' = leds /\ count' = 0
        /\ \A i \in Bits : i \in leds <=> i < count
    BY <1>5 DEF Responds, LedsInv
  <2>2. Circling'
    <3>1. CASE count >= 9
      BY <1>1, <2>1, <3>1 DEF Circling, Bits
    <3>2. CASE count < 9
      <4>1. \A i \in 0..8 : Origin(i)' = i
        BY <1>1, <2>1 DEF Origin
      <4>2. \A j \in 1..7 : 8 + j \notin leds
        BY <1>1, <2>1, <3>2 DEF Bits
      <4> QED
        BY <2>1, <4>1, <4>2 DEF Circling
    <3> QED
      BY <1>1, <3>1, <3>2
  <2> QED
    BY <1>1, <1>5, <2>2 DEF Responds, LedsInv
<1>6. CASE Turns
  BY <1>1, <1>6, TurnsCircle DEF Turns, LedsInv
<1>7. CASE UNCHANGED displayVars
  BY <1>1, <1>7 DEF displayVars, LedsInv, Circling, Origin
<1> QED
  BY <1>2, <1>3, <1>4, <1>5, <1>6, <1>7 DEF DisplayNext

\* show_score and show_tries: the home screen shows tries and high score, digit by
\* digit, for every response of at most four digits.
THEOREM HomeScreenShows == DisplaySpec => []HomeScreen
<1>1. DisplayInv => HomeScreen
  BY DEF DisplayInv
<1> QED
  BY <1>1, DisplayInitInv, DisplayKeeps, PTL DEF DisplaySpec

\* rotate_left in case STOP: nine leds turn as a ring, however many were lit and
\* however often they turn, and the tenth repeats the first.
THEOREM LedsTurn == DisplaySpec => []LedsCircle
<1>1. LedsInv => LedsCircle
  <2> SUFFICES ASSUME LedsInv, phase = "CIRCLE"
               PROVE  /\ \A i \in 0..8 : i \in leds <=> Origin(i) \in lit
                      /\ count > 0 => (9 \in leds <=> 0 \in leds)
    BY DEF LedsCircle, Origin
  <2>1. Circling /\ count \in Nat /\ MaxSteps \in Nat
    BY DisplayAssumption DEF LedsInv, DisplayInv, DisplayTypeOK, DisplayAssumption
  <2>2. CASE 0..8 \subseteq lit /\ 0..8 \subseteq leds /\ (count > 0 => 9 \in leds)
    <3>1. \A i \in 0..8 : Origin(i) \in 0..8
      BY <2>1 DEF Origin
    <3> QED
      BY <2>2, <3>1
  <2>3. CASE /\ \A i \in 0..8 : i \in leds <=> Origin(i) \in lit
             /\ \A j \in 1..7 : 8 + j \in leds <=> j <= count /\ j - 1 \in leds
    BY <2>1, <2>3
  <2> QED
    BY <2>1, <2>2, <2>3 DEF Circling
<1> QED
  BY <1>1, LedsInitInv, LedsKeep, PTL DEF DisplaySpec

THEOREM DisplayTyped == DisplaySpec => []DisplayTypeOK
<1>1. DisplayInv => DisplayTypeOK
  BY DEF DisplayInv
<1> QED
  BY <1>1, DisplayInitInv, DisplayKeeps, PTL DEF DisplaySpec

-----------------------------------------------------------------------------
(* The composition.                                                        *)

\* Each component runs as its own specification says, or not at all.
LEMMA PartsObey ==
  MCSpec => /\ PrngSpec /\ DisplaySpec /\ QueueSpec
            /\ AlarmSpec /\ ButtonsSpec /\ NamesSpec
<1> DEFINE partsVars == <<part, prngVars, displayVars, queueVars, alarmVars, buttonVars, namesVars>>
<1>1. Init => /\ PrngInit /\ DisplayInit /\ QueueInit
              /\ AlarmInit /\ ButtonsInit /\ NamesInit
  BY DEF Init
<1>2. [Next]_partsVars =>
        /\ [Enabled]_prngVars /\ [DisplayNext]_displayVars /\ [QueueNext]_queueVars
        /\ [AlarmNext]_alarmVars /\ [ButtonsNext]_buttonVars /\ [NamesNext]_namesVars
  BY Zenon DEF Next
<1> QED
  BY <1>1, <1>2, PTL
  DEF MCSpec, PrngSpec, DisplaySpec, QueueSpec, AlarmSpec, ButtonsSpec, NamesSpec

\* Registers, pointers, counters and texts of all parts keep to their ranges.
THEOREM PartsTyped == MCSpec => []PartsTypeOK
<1>1. /\ PrngTypeOK /\ DisplayTypeOK /\ QueueTypeOK
      /\ AlarmTypeOK /\ ButtonsTypeOK /\ NamesTypeOK
      => PartsTypeOK
  BY DEF PartsTypeOK
<1>2. NamesSpec => []NamesTypeOK
  BY NamesTyped, LinesArePlain
<1> QED
  BY <1>1, <1>2, PartsObey, PrngTyped, DisplayTyped, QueueTyped, AlarmTyped, ButtonsTyped, PTL
==============================================================================
