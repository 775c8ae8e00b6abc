SPECIFICATION SpecOneConsumer
CONSTANTS
  LAP = 4
  Producers = {p1}
  Consumers = {c1, c2}
  Capacity <- UNBOUNDED
  CONTENTION_WINDOW = 1
  SNOOZE_LIMIT = 1
  MaxBlocks = 5
  PushLimit = 11
INVARIANTS
  DataRaceFree
  ClaimedValueStays
  EveryBlockHasOneOwner
  DropsTheUnread
PROPERTIES
  PopReturnsAlone
