SPECIFICATION FairSpec
CONSTANTS
  MAX_DELAY = 12
  TICKS_PER_MS = 2
  MAX_REG_DELAY = 3
  RESP_SPAN = 4
  RND_MAX = 3
  RND_SEED = 1
  Shift <- MCShift
  Delays <- MCDelays
INVARIANT TypeOK
INVARIANT TickInRange
PROPERTY DelayIsFrozen
PROPERTY IrqShowsNewState
PROPERTY CountEnds
PROPERTY ImplementsProtocol
