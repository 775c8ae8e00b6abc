SPECIFICATION SpecProducersRun
CONSTANTS
  LAP = 4
  Producers = {p1, p2}
  Consumers = {c1}
  Capacity <- UNBOUNDED
  CONTENTION_WINDOW = 1
  SNOOZE_LIMIT = 1
  MaxBlocks = 4
  PushLimit = 7
PROPERTIES
  PushReturns
  QueueDrains
