SPECIFICATION FairSpec
CONSTANTS
  Tasks = {1, 2}
  IDLE_PRIO = 9
  Events <- MCEvents
  NoEvent = NoEvent
  Limit <- MCLimit
  Results <- MCResults
  DELAY_MS = 1
  MAX_MS = 6
  RESP_SPAN = 4
  MIN_RESP = 1
  SLICES = 2
  SLICE_TICKS = 2
  Reactions = {1, 3}
  Habits = {}
  BUS_RACES = FALSE
INVARIANT TypeOK
INVARIANT ScoreIsMeasurement
INVARIANT NoStaleTokens
INVARIANT ReleaseReachesTask
INVARIANT HighscoreWasAchieved
PROPERTY PlaysGame
PROPERTY ComesHome
