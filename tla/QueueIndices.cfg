SPECIFICATION Spec
CONSTANTS
  LAP = 4
  Capacity = 5
  TailLimit = 14
INVARIANTS
  ItemsBetweenCounts
PROPERTIES
  LengthIsSafe
  EmptyIsExact
