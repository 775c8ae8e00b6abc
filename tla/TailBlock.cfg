SPECIFICATION ScheduleSpec
CONSTANTS
  LAP = 4
  Producers <- Seven
  Consumers <- Eight
  Capacity <- UNBOUNDED
  CONTENTION_WINDOW = 1
  SNOOZE_LIMIT = 1
  MaxBlocks = 5
  PushLimit = 12
CHECK_DEADLOCK FALSE
INVARIANT
  TailBlockInUse
