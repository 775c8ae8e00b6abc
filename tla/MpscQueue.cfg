SPECIFICATION Spec
CONSTANTS
  LAP = 4
  Producers = {p1, p2}
  Consumers = {c1}
  Capacity = 3
  CONTENTION_WINDOW = 1
  MaxBlocks = 4
  PushLimit = 9
SYMMETRY Symmetry
INVARIANTS
  TypeOK
  HeadServesItsBlock
  EachValueOnce
  EveryBlockHasOneOwner
PROPERTIES
  ImplementsFifo
