SPECIFICATION Spec
CONSTANTS
  g1 = g1
  g2 = g2
  Gone = Gone
  Gateway = {g1, g2}
  Poll = 3
  Delay = 1
  Clears = 4
  AfterFailure = 2
  Faults = TRUE
INVARIANTS
  TypeOK
  Fenced
  OverstaysBriefly
PROPERTIES
  NoTheft
SYMMETRY Twins
