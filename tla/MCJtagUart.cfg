SPECIFICATION MCSpec
CONSTANTS
  a = a
  b = b
  console = console
  player = player
  Tasks = {console, player}
  Readers = {console}
  Writers = {player}
  Byte = {a, b}
  Messages <- MCMessages
  Spaces = {2}
  BufLen = 3
  FifoLen = 2
  AlmostFull = 0
  AlmostEmpty = 1
  Timeout = 2
INVARIANTS
  TypeOK
  NoLostWakeup
  WokenReadGoesOn
  InterruptsComeBack
PROPERTIES
  InputIsPipe
  OutputIsPipe
  CallsReturn
  GoneHostReleases
