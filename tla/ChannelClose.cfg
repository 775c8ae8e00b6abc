SPECIFICATION Spec
CONSTANTS
  Senders = {s1, s2}
  Receivers = {r1}
  Capacity = 1
  SNOOZE_LIMIT = 1
  MaxItems = 0
SYMMETRY Symmetry
CHECK_DEADLOCK FALSE
INVARIANTS
  TypeOK
  EntriesAreOwned
  SendersServed
  CloseWakesAll
  LastHandleCloses
PROPERTIES
  ClosedMeansDrained
