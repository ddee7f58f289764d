SPECIFICATION Spec
CONSTANTS
  a1 = a1
  a2 = a2
INVARIANTS
  AgentsKnow
  
  
  FilesKept
PROPERTIES
  DecisionsStick
  OffersStay
  ServiceKept
SYMMETRY Swap
CHECK_DEADLOCK FALSE
