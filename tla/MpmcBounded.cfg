SPECIFICATION Spec
CONSTANTS
  LAP = 4
  Producers = {p1, p2}
  Consumers = {c1, c2}
  Capacity = 2
  CONTENTION_WINDOW = 1
  SNOOZE_LIMIT = 1
  MaxBlocks = 4
  PushLimit = 5
SYMMETRY Symmetry
INVARIANTS
  CapacityHeld
PROPERTIES
  FullVerdictIsExact
  ImplementsFifo
