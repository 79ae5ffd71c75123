SPECIFICATION FairSpec
CONSTANTS
  Tasks = {1, 2}
  IDLE_PRIO = 9
  Events <- MCEvents
  NoEvent = NoEvent
  Limit <- MCLimit
  Delays = {2}
  RESP_TIMEOUT = 3
  MIN_RESP_TIME = 1
  SHOW_TICKS = 2
  Reactions = {0, 1, 2}
  Habits = {"holds"}
INVARIANT TypeOK
INVARIANT ScoreIsTime
INVARIANT NoStaleTokens
PROPERTY PlaysGame
PROPERTY ComesHome
