SPECIFICATION NamesSpec
CONSTANTS
  Key = "name"
  NL = "NL"
  Nul = "Nul"
  Lines <- MCLines
  PayloadLen = 6
  MAX_MSG_AMT = 2
  Patient = FALSE
INVARIANT RegisteredNameWasTyped
