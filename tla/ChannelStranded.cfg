SPECIFICATION SpecFutures
CONSTANTS
  Senders = {s1, s2}
  Receivers = {r1, r2}
  Capacity <- UNBOUNDED
  SNOOZE_LIMIT = 0
  MaxItems = 2
SYMMETRY Symmetry
CHECK_DEADLOCK FALSE
INVARIANTS
  ReceiversServed
