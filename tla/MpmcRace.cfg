SPECIFICATION Spec
CONSTANTS
  LAP = 4
  Producers = {p1, p2}
  Consumers = {c1, c2}
  Capacity <- UNBOUNDED
  CONTENTION_WINDOW = 1
  SNOOZE_LIMIT = 1
  MaxBlocks = 4
  PushLimit = 6
SYMMETRY Symmetry
INVARIANTS
  TypeOK
  PairIsCoherent
  NextIsLinked
  WalkStaysOnChain
  WritesOwnSlot
PROPERTIES
  HeadStepsOverPublished
