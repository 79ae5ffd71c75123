------------------------------ MODULE JtagUart ------------------------------
(***************************************************************************)
(* The character device of both applications: the JTAG UART (the generated *)
(* embedded_system_jtag_uart.v) and its interrupt-driven driver            *)
(* (altera_avalon_jtag_uart_{init,read,write}.c), which getchar and printf *)
(* end in.  Two rings of BufLen characters, one per direction, stand       *)
(* between the tasks and the two FIFOs of the device; tasks that find a    *)
(* ring empty or full pend on an event flag group.                         *)
(***************************************************************************)
EXTENDS Integers, Sequences, EventFlags

CONSTANTS
  Tasks,        \* the tasks of the application
  Readers,      \* those that call read
  Writers,      \* those that call write
  Byte,         \* characters
  Messages,     \* what tasks write in one call
  Spaces,       \* sizes of the buffers that tasks read into
  BufLen,       \* ALTERA_AVALON_JTAG_UART_BUF_LEN, 2048
  FifoLen,      \* characters either FIFO of the device holds, 64
  AlmostFull,   \* free places at which the receive FIFO counts as nearly full
  AlmostEmpty,  \* characters at which the transmit FIFO counts as nearly empty
  Timeout       \* ALTERA_AVALON_JTAG_UART_DEFAULT_TIMEOUT, 10

ASSUME JtagUartAssumption ==
  /\ Readers \subseteq Tasks /\ Writers \subseteq Tasks
  /\ Byte # {} /\ Messages \subseteq Seq(Byte) \ {<<>>}
  /\ Spaces \subseteq Nat \ {0}
  /\ BufLen \in Nat /\ BufLen >= 2
  /\ FifoLen \in Nat \ {0} /\ Timeout \in Nat \ {0}
  /\ AlmostFull \in 0..FifoLen - 1 /\ AlmostEmpty \in 0..FifoLen - 1

Flag == {"READ_RDY", "WRITE_RDY", "TIMEOUT"}

VARIABLES
  \* the device
  rfifo, wfifo,     \* receive and transmit FIFO
  pause,            \* pause_irq: the host has paused behind some characters
  ac,               \* the host has been active since the bit was cleared
  \* the driver; the device's interrupt enables equal irqEnable
  rx, tx,           \* rings: rx_buf, rx_in, rx_out and tx_buf, tx_in, tx_out
  irqEnable,        \* irq_enable: subset of {"RE", "WE"}
  hostInactive,     \* host_inactive, the seconds without the host, up to Timeout
  events,           \* the flag group
  readLock, writeLock,     \* semaphores
  \* the tasks
  pc,               \* where every task is
  space, got,       \* the call of read: room left, characters copied so far
  seen, chunk,      \* read: rx_in as it saw it; characters being copied
  todo,             \* the call of write: characters left
  moved             \* write: how many of them are being copied

deviceVars == <<rfifo, wfifo, pause, ac>>
readVars == <<space, got, seen, chunk>>
writeVars == <<todo, moved>>
vars == <<deviceVars, rx, tx, irqEnable, hostInactive, events, readLock,
          writeLock, pc, readVars, writeVars>>

Least(a, b) == IF a < b THEN a ELSE b

-----------------------------------------------------------------------------
\* Rings

Slot == 0..BufLen - 1

EmptyRing == [buf |-> [i \in Slot |-> CHOOSE b \in Byte : TRUE],
              in |-> 0, out |-> 0]

Wrap(i) == i % BufLen

Fill(ring) == Wrap(ring.in - ring.out + BufLen)

Contents(ring) ==
  [i \in 1..Fill(ring) |-> ring.buf[Wrap(ring.out + i - 1)]]

\* Slip: the slot that tells a full ring from an empty one is used, too.
RoomAll(ring) == BufLen - Fill(ring)

\* Places that can be filled: one slot stays free.
Room(ring) == BufLen - 1 - Fill(ring)

\* Put characters from slot in on, without moving in.
Stored(ring, s) ==
  [ring EXCEPT !.buf =
     [i \in Slot |-> LET k == Wrap(i - ring.in + BufLen)
                     IN  IF k < Len(s) THEN s[k + 1] ELSE @[i]]]

MoveIn(ring, n) == [ring EXCEPT !.in = Wrap(@ + n)]
MoveOut(ring, n) == [ring EXCEPT !.out = Wrap(@ + n)]

\* Characters of the ring that lie in one piece from slot out on.
Available(ring) ==
  IF ring.in >= ring.out THEN ring.in - ring.out ELSE BufLen - ring.out

\* The first n of them.
Piece(ring, n) == [i \in 1..n |-> ring.buf[ring.out + i - 1]]

\* Slip: the free slot is kept only while the ring has not wrapped.
FreePieceWrapped(ring) ==
  IF ring.in < ring.out THEN ring.out - ring.in
  ELSE IF ring.out > 0 THEN BufLen - ring.in
  ELSE BufLen - 1 - ring.in

\* Free places in one piece from slot in on.
FreePiece(ring) ==
  IF ring.in < ring.out THEN ring.out - 1 - ring.in
  ELSE IF ring.out > 0 THEN BufLen - ring.in
  ELSE BufLen - 1 - ring.in

-----------------------------------------------------------------------------
\* altera_avalon_jtag_uart_init
Init ==
  /\ rfifo = <<>> /\ wfifo = <<>> /\ pause = FALSE /\ ac = FALSE
  /\ rx = EmptyRing /\ tx = EmptyRing
  /\ irqEnable = {"RE"}
  /\ hostInactive = 0
  /\ events = NewGroup(Tasks)
  /\ readLock = 1 /\ writeLock = 1
  /\ pc = [t \in Tasks |-> "idle"]
  /\ space = [t \in Tasks |-> 0]
  /\ got = [t \in Tasks |-> <<>>]
  /\ seen = 0 /\ chunk = <<>>
  /\ todo = [t \in Tasks |-> <<>>]
  /\ moved = 0

-----------------------------------------------------------------------------
\* The host, and the device at its side

taskVars == <<pc, readVars, writeVars, readLock, writeLock>>

\* The host sends a character; it does so only when there is room.
HostSends(b) ==
  /\ Len(rfifo) < FifoLen
  /\ rfifo' = Append(rfifo, b) /\ ac' = TRUE
  /\ UNCHANGED <<wfifo, pause, rx, tx, irqEnable, hostInactive, events,
                 taskVars>>

\* The host has nothing to send for now.
HostPauses ==
  /\ ac' = TRUE
  /\ pause' = (pause \/ rfifo # <<>>)
  /\ UNCHANGED <<rfifo, wfifo, rx, tx, irqEnable, hostInactive, events,
                 taskVars>>

\* The host fetches a character.
HostFetches ==
  /\ wfifo # <<>>
  /\ wfifo' = Tail(wfifo)
  /\ UNCHANGED <<rfifo, pause, ac, rx, tx, irqEnable, hostInactive, events,
                 taskVars>>

-----------------------------------------------------------------------------
\* altera_avalon_jtag_uart_irq

\* ipen_AF and ipen_AE, bits RI and WI of the control register.
ReadInterrupt ==
  "RE" \in irqEnable /\ (pause \/ FifoLen - Len(rfifo) <= AlmostFull)
WriteInterrupt ==
  "WE" \in irqEnable /\ Len(wfifo) <= AlmostEmpty

Interrupt == ReadInterrupt \/ WriteInterrupt

\* Characters the handler moves from the device to the ring.
Received ==
  IF ReadInterrupt THEN Least(Room(rx), Len(rfifo)) ELSE 0

\* Slip: the space of the FIFO is not asked for.
SentAll == IF WriteInterrupt THEN Fill(tx) ELSE 0

\* Characters the handler moves from the ring to the device.
Sent ==
  IF WriteInterrupt THEN Least(FifoLen - Len(wfifo), Fill(tx)) ELSE 0

\* Slip: the interrupt of a full ring stays enabled.
ReceiveStopsNever == FALSE

\* The ring was full at once, or became full before the FIFO was empty: no
\* more interrupts until read has made room.
ReceiveStops == ReadInterrupt /\ (Room(rx) = 0 \/ Received < Len(rfifo))

\* Slip: the interrupt is turned off when the FIFO is full.
SendStopsFull == WriteInterrupt /\ Sent = FifoLen - Len(wfifo)

\* The ring is empty and the FIFO is not full.
SendStops == WriteInterrupt /\ Sent < FifoLen - Len(wfifo)

\* Slip: what was received is not announced.
PostedNoRead == IF Sent > 0 THEN {"WRITE_RDY"} ELSE {}

\* Slip: one event serves both directions.
PostedBoth ==
  IF Received > 0 \/ Sent > 0 THEN {"READ_RDY", "WRITE_RDY"} ELSE {}

Posted == (IF Received > 0 THEN {"READ_RDY"} ELSE {})
            \cup (IF Sent > 0 THEN {"WRITE_RDY"} ELSE {})

\* One pass of the handler's loop, which ends when no interrupt is pending.
Isr ==
  /\ Interrupt
  /\ rx' = MoveIn(Stored(rx, SubSeq(rfifo, 1, Received)), Received)
  /\ rfifo' = SubSeq(rfifo, Received + 1, Len(rfifo))
  /\ pause' = (pause /\ ~(ReadInterrupt /\ Room(rx) > 0))
  /\ wfifo' = wfifo \o SubSeq(Contents(tx), 1, Sent)
  /\ tx' = MoveOut(tx, Sent)
  /\ irqEnable' = irqEnable \ ((IF ReceiveStops THEN {"RE"} ELSE {})
                                 \cup (IF SendStops THEN {"WE"} ELSE {}))
  /\ events' = IF Posted = {} THEN events ELSE FlagPost(events, Posted)
  /\ UNCHANGED <<ac, hostInactive, taskVars>>

\* Slip: the inactive host is announced once.
AlarmOnce ==
  /\ ac' = FALSE
  /\ hostInactive' = IF ac THEN 0 ELSE Least(hostInactive + 1, Timeout)
  /\ events' = IF hostInactive' >= Timeout /\ hostInactive < Timeout
               THEN FlagPost(events, {"TIMEOUT"}) ELSE events
  /\ UNCHANGED <<rfifo, wfifo, pause, rx, tx, irqEnable, taskVars>>

\* altera_avalon_jtag_uart_timeout, the alarm of every second
Alarm ==
  /\ ac' = FALSE
  /\ hostInactive' = IF ac THEN 0 ELSE Least(hostInactive + 1, Timeout)
  /\ events' = IF hostInactive' >= Timeout
               THEN FlagPost(events, {"TIMEOUT"}) ELSE events
  /\ UNCHANGED <<rfifo, wfifo, pause, rx, tx, irqEnable, taskVars>>

-----------------------------------------------------------------------------
\* altera_avalon_jtag_uart_read.  A pending interrupt comes first.

Step(t, from, to) ==
  pc[t] = from /\ ~Interrupt /\ pc' = [pc EXCEPT ![t] = to]

ReadStep(t, from, to) ==
  /\ Step(t, from, to)
  /\ UNCHANGED <<deviceVars, tx, hostInactive, writeLock, writeVars>>

ReadCall(t) ==
  /\ t \in Readers /\ ReadStep(t, "idle", "rd_lock")
  /\ \E n \in Spaces : space' = [space EXCEPT ![t] = n]
  /\ UNCHANGED <<rx, irqEnable, events, readLock, got, seen, chunk>>

ReadLock(t) ==
  /\ readLock > 0 /\ ReadStep(t, "rd_lock", "rd_copy")
  /\ readLock' = readLock - 1
  /\ UNCHANGED <<rx, irqEnable, events, readVars>>

\* Look at the ring and copy one piece of it, if there is any.
ReadCopy(t) ==
  LET n == Least(Available(rx), space[t])
  IN  /\ ReadStep(t, "rd_copy", IF n > 0 THEN "rd_out"
                                ELSE IF got[t] # <<>> THEN "rd_unlock"
                                ELSE "rd_pend")
      /\ seen' = rx.in /\ chunk' = Piece(rx, n)
      /\ UNCHANGED <<rx, irqEnable, events, readLock, space, got>>

\* Only now does the handler see the room.
ReadOut(t) ==
  LET n == Len(chunk)
  IN  /\ ReadStep(t, "rd_out", IF space[t] > n THEN "rd_copy" ELSE "rd_unlock")
      /\ got' = [got EXCEPT ![t] = @ \o chunk]
      /\ space' = [space EXCEPT ![t] = @ - n]
      /\ rx' = MoveOut(rx, n)
      /\ chunk' = <<>>
      /\ UNCHANGED <<irqEnable, events, readLock, seen>>

ReadFlags == {"READ_RDY", "TIMEOUT"}

ReadPend(t) ==
  /\ IF events.flags \cap ReadFlags # {}
     THEN ReadStep(t, "rd_pend", "rd_check") /\ events' = FlagTake(events, ReadFlags)
     ELSE ReadStep(t, "rd_pend", "rd_wait") /\ events' = FlagBlock(events, t, ReadFlags)
  /\ UNCHANGED <<rx, irqEnable, readLock, readVars>>

ReadWakes(t) ==
  /\ events.wait[t] = {} /\ ReadStep(t, "rd_wait", "rd_check")
  /\ events' = FlagResume(events, t)
  /\ UNCHANGED <<rx, irqEnable, readLock, readVars>>

\* Nothing has come since the task looked: give up.
ReadCheck(t) ==
  /\ ReadStep(t, "rd_check", IF seen = rx.in THEN "rd_unlock" ELSE "rd_copy")
  /\ UNCHANGED <<rx, irqEnable, events, readLock, readVars>>

\* Without a character the call returns -EIO here.
ReadUnlock(t) ==
  /\ ReadStep(t, "rd_unlock", IF got[t] # <<>> THEN "rd_enable" ELSE "idle")
  /\ readLock' = readLock + 1
  /\ space' = [space EXCEPT ![t] = 0] /\ seen' = 0
  /\ UNCHANGED <<rx, irqEnable, events, got, chunk>>

\* There is room now: enable the interrupt and return the characters.
ReadEnable(t) ==
  /\ ReadStep(t, "rd_enable", "idle")
  /\ irqEnable' = irqEnable \cup {"RE"}
  /\ got' = [got EXCEPT ![t] = <<>>]
  /\ UNCHANGED <<rx, events, readLock, space, seen, chunk>>

-----------------------------------------------------------------------------
\* altera_avalon_jtag_uart_write

WriteStep(t, from, to) ==
  /\ Step(t, from, to)
  /\ UNCHANGED <<deviceVars, rx, hostInactive, readLock, readVars>>

WriteCall(t) ==
  /\ t \in Writers /\ WriteStep(t, "idle", "wr_lock")
  /\ \E m \in Messages : todo' = [todo EXCEPT ![t] = m]
  /\ UNCHANGED <<tx, irqEnable, events, writeLock, moved>>

WriteLock(t) ==
  /\ writeLock > 0 /\ WriteStep(t, "wr_lock", "wr_copy")
  /\ writeLock' = writeLock - 1
  /\ UNCHANGED <<tx, irqEnable, events, writeVars>>

\* Look at the ring and fill one piece of it, if there is room.
WriteCopy(t) ==
  LET n == Least(FreePiece(tx), Len(todo[t]))
  IN  /\ WriteStep(t, "wr_copy", IF n > 0 THEN "wr_in" ELSE "wr_kick")
      /\ moved' = n /\ tx' = Stored(tx, SubSeq(todo[t], 1, n))
      /\ UNCHANGED <<irqEnable, events, writeLock, todo>>

\* Only now does the handler see the characters.
WriteIn(t) ==
  /\ WriteStep(t, "wr_in", IF moved < Len(todo[t]) THEN "wr_copy" ELSE "wr_kick")
  /\ todo' = [todo EXCEPT ![t] = SubSeq(@, moved + 1, Len(@))]
  /\ tx' = MoveIn(tx, moved) /\ moved' = 0
  /\ UNCHANGED <<irqEnable, events, writeLock>>

\* Have the handler transmit.
WriteKick(t) ==
  /\ WriteStep(t, "wr_kick", IF todo[t] # <<>> THEN "wr_pend" ELSE "wr_unlock")
  /\ irqEnable' = irqEnable \cup {"WE"}
  /\ UNCHANGED <<tx, events, writeLock, writeVars>>

WriteFlags == {"WRITE_RDY", "TIMEOUT"}

WritePend(t) ==
  /\ IF events.flags \cap WriteFlags # {}
     THEN WriteStep(t, "wr_pend", "wr_check") /\ events' = FlagTake(events, WriteFlags)
     ELSE WriteStep(t, "wr_pend", "wr_wait") /\ events' = FlagBlock(events, t, WriteFlags)
  /\ UNCHANGED <<tx, irqEnable, writeLock, writeVars>>

WriteWakes(t) ==
  /\ events.wait[t] = {} /\ WriteStep(t, "wr_wait", "wr_check")
  /\ events' = FlagResume(events, t)
  /\ UNCHANGED <<tx, irqEnable, writeLock, writeVars>>

\* A second without the host is enough to give up.
WriteCheck(t) ==
  /\ WriteStep(t, "wr_check", IF hostInactive > 0 THEN "wr_unlock" ELSE "wr_copy")
  /\ UNCHANGED <<tx, irqEnable, events, writeLock, writeVars>>

\* The call returns the number of characters written, or -EIO.
WriteUnlock(t) ==
  /\ WriteStep(t, "wr_unlock", "idle")
  /\ writeLock' = writeLock + 1
  /\ todo' = [todo EXCEPT ![t] = <<>>]
  /\ UNCHANGED <<tx, irqEnable, events, moved>>

-----------------------------------------------------------------------------
Reads(t) ==
  \/ ReadLock(t) \/ ReadCopy(t) \/ ReadOut(t) \/ ReadPend(t) \/ ReadWakes(t)
  \/ ReadCheck(t) \/ ReadUnlock(t) \/ ReadEnable(t)

Writes(t) ==
  \/ WriteLock(t) \/ WriteCopy(t) \/ WriteIn(t) \/ WriteKick(t)
  \/ WritePend(t) \/ WriteWakes(t) \/ WriteCheck(t) \/ WriteUnlock(t)

Next ==
  \/ \E b \in Byte : HostSends(b)
  \/ HostPauses
  \/ HostFetches
  \/ Isr
  \/ Alarm
  \/ \E t \in Tasks : ReadCall(t) \/ WriteCall(t) \/ Reads(t) \/ Writes(t)

\* Interrupts are served, calls that can go on do, the alarm is periodic.
\* Nothing is assumed about the host, and no task has to call again.
Fairness ==
  /\ WF_vars(Isr)
  /\ WF_vars(Alarm)
  /\ \A t \in Tasks : WF_vars(Reads(t)) /\ WF_vars(Writes(t))

Spec == Init /\ [][Next]_vars
FairSpec == Spec /\ Fairness

-----------------------------------------------------------------------------
\* Type invariant.
TypeOK ==
  /\ rfifo \in Seq(Byte) /\ Len(rfifo) <= FifoLen
  /\ wfifo \in Seq(Byte) /\ Len(wfifo) <= FifoLen
  /\ pause \in BOOLEAN /\ ac \in BOOLEAN
  /\ rx \in [buf : [Slot -> Byte], in : Slot, out : Slot]
  /\ tx \in [buf : [Slot -> Byte], in : Slot, out : Slot]
  /\ irqEnable \subseteq {"RE", "WE"}
  /\ hostInactive \in 0..Timeout
  /\ events \in GroupType(Tasks, Flag)
  /\ readLock \in {0, 1} /\ writeLock \in {0, 1}
  /\ pc \in [Tasks -> {"idle", "rd_lock", "rd_copy", "rd_out", "rd_pend",
                       "rd_wait", "rd_check", "rd_unlock", "rd_enable",
                       "wr_lock", "wr_copy", "wr_in", "wr_kick", "wr_pend",
                       "wr_wait", "wr_check", "wr_unlock"}]
  /\ space \in [Tasks -> Nat]
  /\ got \in [Tasks -> Seq(Byte)]
  /\ seen \in Slot /\ chunk \in Seq(Byte)
  /\ todo \in [Tasks -> Seq(Byte)]
  /\ moved \in Nat

InRead == {"rd_copy", "rd_out", "rd_pend", "rd_wait", "rd_check",
           "rd_unlock"}
InWrite == {"wr_copy", "wr_in", "wr_kick", "wr_pend", "wr_wait", "wr_check",
            "wr_unlock"}

\* No wake-up is lost: a task that sleeps in read sleeps before an empty
\* ring, although the handler may have filled the ring at any time between
\* the task's look at it and its wait, and another task may have consumed
\* flags of the same group.
SleepsOnlyWhenEmpty ==
  \A t \in Tasks :
    pc[t] = "rd_wait" /\ events.wait[t] # {} => Fill(rx) = 0

\* A task that sleeps in write sleeps before a full ring, and the interrupt
\* that will make room is enabled.
SleepsOnlyWhenFull ==
  \A t \in Tasks :
    pc[t] = "wr_wait" /\ events.wait[t] # {}
      => Room(tx) = 0 /\ "WE" \in irqEnable

\* No wake-up is lost in either direction (altera_avalon_jtag_uart_read.c, line
\* 161, and altera_avalon_jtag_uart_write.c, line 163).
NoLostWakeup == SleepsOnlyWhenEmpty /\ SleepsOnlyWhenFull

\* A task that slept in read and is woken by a character finds the ring
\* changed, however many passes of the handler have filled and wrapped it in
\* between: it is not told that the device has failed.  A call that finds an
\* old flag instead of sleeping has no such promise.
WokenReadGoesOn ==
  \A t \in Tasks :
    pc[t] = "rd_wait" /\ events.wait[t] = {} /\ events.rdy[t] = {"READ_RDY"}
      => seen # rx.in

\* The receive interrupt is off only while the ring is full or a call of
\* read is about to turn it on again.
ReceiveComesBack ==
  "RE" \in irqEnable \/ Room(rx) = 0
    \/ \E t \in Tasks : \/ pc[t] = "rd_enable"
                        \/ pc[t] \in InRead /\ got[t] # <<>>

\* Characters of a message do not wait in the ring for ever: either the
\* transmit interrupt is on or a call of write is about to turn it on.
SendComesBack ==
  Fill(tx) = 0 \/ "WE" \in irqEnable
    \/ \E t \in Tasks : pc[t] \in {"wr_copy", "wr_in", "wr_kick"}

\* No interrupt stays off that somebody needs: the handler and two calls turn
\* the enables off and on, each for its own reasons.
InterruptsComeBack == ReceiveComesBack /\ SendComesBack

-----------------------------------------------------------------------------
(* Either direction as a pipe, with the calls of read and write at one end *)
(* and the host at the other.                                               *)

InputPipe == Contents(rx) \o rfifo
OutputPipe == wfifo \o Contents(tx)

\* What the call of read in progress has collected; what the call of write in
\* progress has not written.
Collected ==
  IF \E t \in Tasks : pc[t] \in InRead /\ got[t] # <<>>
  THEN got[CHOOSE t \in Tasks : pc[t] \in InRead] ELSE <<>>
Offered ==
  IF \E t \in Tasks : pc[t] \in InWrite
  THEN todo[CHOOSE t \in Tasks : pc[t] \in InWrite] ELSE <<>>

In == INSTANCE BytePipe WITH
        Capacity <- FifoLen + BufLen - 1,
        in <- <<>>, pipe <- InputPipe, out <- Collected
Out == INSTANCE BytePipe WITH
        Capacity <- FifoLen + BufLen - 1,
        in <- Offered, pipe <- OutputPipe, out <- <<>>

\* From the host to the reader no character is lost, doubled or reordered,
\* whatever handler and tasks interleave.
InputIsPipe == In!PipeSpec

\* Nor from the writer to the host, also when a message takes several looks
\* at the ring and the call gives up in the middle of it.
OutputIsPipe == Out!PipeSpec

-----------------------------------------------------------------------------
\* A call of read returns once there is a character for it, in the ring or
\* in the device with the host pausing.
InputReturns ==
  \A t \in Tasks :
    (pc[t] \in InRead /\ (Fill(rx) > 0 \/ pause)) ~> (pc[t] \notin InRead)

\* A call of write returns if the host does not leave characters in the
\* device for ever.
OutputReturns ==
  ([]<><<HostFetches>>_vars \/ []<>(wfifo = <<>>))
    => \A t \in Tasks : (pc[t] \in InWrite) ~> (pc[t] \notin InWrite)

\* The driver does not leave a call hanging (altera_avalon_jtag_uart_read.c,
\* line 115, and altera_avalon_jtag_uart_write.c, line 191).
CallsReturn == InputReturns /\ OutputReturns

\* No call waits for a host that has gone.
GoneHostReleases ==
  <>[](~ac)
    => \A t \in Tasks : (pc[t] \in InRead \cup InWrite)
                          ~> (pc[t] \notin InRead \cup InWrite)
=============================================================================
