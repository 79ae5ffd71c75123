SPECIFICATION Spec
CONSTANTS
  Tasks = {1, 2}
  IDLE_PRIO = 9
  Events <- MCEvents
  NoEvent = NoEvent
  Limit <- MCLimit
  Results <- MCWideResults
  DELAY_MS = 1
  MAX_MS = 6
  RESP_SPAN = 6
  MIN_RESP = 1
  SLICES = 2
  SLICE_TICKS = 2
  Reactions = {1, 2, 3, 5}
  Habits = {}
  BUS_RACES = FALSE
INVARIANT ScoreIsMeasurement
