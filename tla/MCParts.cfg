SPECIFICATION MCSpec
CONSTANTS
  Responses <- MCResponses
  MaxSteps = 20
  Message = {m1, m2}
  Size = 3
  Ticks = 8
  Delays = {0, 1, 2, 5, 6}
  Pins = {KEY0, KEY1, KEY2}
  PinKeys = {KEY0, KEY1}
  MaxOwed = 4
  Key = "name"
  NL = "NL"
  Nul = "Nul"
  Lines <- MCLines
  PayloadLen = 6
  MAX_MSG_AMT = 2
  Patient = TRUE
INVARIANTS
  PartsTypeOK
  FullPeriod
  HomeScreen
  LedsCircle
  CalledOnTime
  NoPhantomPress
  SlowPressesArrive
  RegisteredNameWasTyped
PROPERTY RingIsQueue
