SPECIFICATION MpscSpec
CONSTANTS
  Senders = {s1, s2}
  Receivers = {r1}
  Capacity = 2
  SNOOZE_LIMIT = 0
  MaxItems = 0
  MaxBatch = 2
SYMMETRY Symmetry
CHECK_DEADLOCK FALSE
INVARIANTS
  MpscTypeOK
  SendersServed
  ReceiversServed
  AwaitsOnlyFirst
