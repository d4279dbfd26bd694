SPECIFICATION Spec
CONSTANTS
  t1 = t1
  t2 = t2
  t3 = t3
  Base = 2
  Handles <- ThreeTimers
  NoTimer = NoTimer
  Delays <- AllDelays
INVARIANTS
  Placed
PROPERTIES
  ImplementsService
