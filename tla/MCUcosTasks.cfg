SPECIFICATION FairSpec
CONSTANTS
  Tasks = {1, 2}
  IDLE_PRIO = 9
  Events <- MCEvents
  NoEvent = NoEvent
  Limit <- MCLimit
  Timeouts = {0, 2}
  Ticks = {1}
  Counts = {0, 1}
INVARIANT UcosTypeOK
INVARIANT TablesAgree
INVARIANT MostUrgentRuns
INVARIANT TokensConserved
PROPERTY UrgentCallReturns
