SPECIFICATION Spec
CONSTANTS
  Scripts <- MCScripts
  Tasks = {t1}
  Tools = {k1}
  Budget = 4
  MinRoom = 2
  FlushMin = 2
  MessageLimit = 3
  MaxText = 7
  MaxFaults = 0
  MaxEnds = 0
INVARIANT EverythingIsSaid
CHECK_DEADLOCK FALSE
