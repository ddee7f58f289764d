SPECIFICATION Spec
CONSTANTS
  a1 = a1
  a2 = a2
INVARIANTS
  CanvasKept
  TextKept
  ListsKept
SYMMETRY Swap
CHECK_DEADLOCK FALSE
