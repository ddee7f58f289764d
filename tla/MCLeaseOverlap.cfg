SPECIFICATION Spec
CONSTANTS
  g1 = g1
  g2 = g2
  Gone = Gone
  Gateway = {g1, g2}
  Poll = 2
  Delay = 1
  Clears = 1
  AfterFailure = 1
  Faults = TRUE
INVARIANTS
  OneServes
SYMMETRY Twins
