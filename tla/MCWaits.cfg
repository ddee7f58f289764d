SPECIFICATION SpecWaits
CONSTANTS
  \* two sessions of up to two events, and a task to spare
  Session = {s1, s2}
  Task    = {w1, w2, w3}
  None    = none
  Limit   = 2
INVARIANTS
  DrawnInOrder
  BridgeKeepsItsWord
  ClocksHold
PROPERTY NobodyWaitsForever
CHECK_DEADLOCK FALSE
