------------------------------- MODULE Alarms -------------------------------
(***************************************************************************)
(* The alarms of the HAL (alt_alarm_start.c, alt_tick.c), with which the   *)
(* driver of the JTAG UART is called every second: one alarm among those   *)
(* of the list, and a tick counter that rolls over.                        *)
(***************************************************************************)
EXTENDS Integers

CONSTANTS
  Ticks,       \* values of an alt_u32, 2^32
  Delays       \* numbers of ticks callers ask for and callbacks return

ASSUME AlarmsAssumption ==
  Ticks \in Nat \ {0, 1} /\ Delays \subseteq 0..Ticks - 2

VARIABLES
  nticks,      \* _alt_nticks
  active,      \* the alarm is in the list
  time,        \* the counter value at which it is due
  rollover,    \* the counter rolls over before that
  due          \* history: ticks until the call that was asked for

alarmVars == <<nticks, active, time, rollover, due>>

AlarmInit ==
  /\ nticks \in 0..Ticks - 1
  /\ active = FALSE /\ time = 0 /\ rollover = FALSE /\ due = 0

\* alt_alarm_start: at least n full ticks from now
AlarmStart(n) ==
  /\ ~active /\ active' = TRUE
  /\ time' = (n + nticks + 1) % Ticks
  /\ rollover' = (time' < nticks)
  /\ due' = n + 1
  /\ UNCHANGED nticks

\* alt_alarm_stop
AlarmStop ==
  /\ active /\ active' = FALSE
  /\ UNCHANGED <<nticks, time, rollover, due>>

\* ++_alt_nticks
Now == (nticks + 1) % Ticks

\* Slip: the flag is cleared by a tick that is too late.
FlaggedLate == rollover /\ nticks # 0

\* The roll-over flag as alt_tick leaves it before it compares.
Flagged == rollover /\ Now # 0

Expired == time <= Now /\ ~Flagged

\* The next call lies behind a roll-over of the counter.
RollsOver(t) == t < Now

\* alt_tick; the callback returns n, 0 to stop the alarm.
AltTick(n) ==
  /\ nticks' = Now
  /\ IF active /\ Expired
     THEN LET next == (time + n) % Ticks
          IN  /\ active' = (n # 0)
              /\ time' = IF n = 0 THEN time ELSE next
              /\ rollover' = (n # 0 /\ RollsOver(next))
              /\ due' = n
     ELSE /\ rollover' = (IF active THEN Flagged ELSE rollover)
          /\ due' = IF active THEN due - 1 ELSE due
          /\ UNCHANGED <<active, time>>

AlarmNext ==
  \/ \E n \in Delays : AlarmStart(n) \/ AltTick(n)
  \/ AlarmStop

AlarmSpec == AlarmInit /\ [][AlarmNext]_alarmVars

-----------------------------------------------------------------------------
\* Type invariant.
AlarmTypeOK ==
  /\ nticks \in 0..Ticks - 1 /\ time \in 0..Ticks - 1
  /\ active \in BOOLEAN /\ rollover \in BOOLEAN
  /\ due \in Int

\* The callback is called on the tick that was asked for, not earlier and not
\* later, wherever the counter rolls over in between.
CalledOnTime == active => due >= 1 /\ (Expired <=> due = 1)
=============================================================================
