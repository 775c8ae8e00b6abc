SPECIFICATION Spec
CONSTANTS
  Sleepers = {s1, s2}
  Movers = {m1, m2}
  Closer = closer
  MaxChanges = 6
SYMMETRY Symmetry
CHECK_DEADLOCK FALSE
INVARIANTS
  TypeOK
  NoStaleEntry
PROPERTIES
  WaitersAreCounted
