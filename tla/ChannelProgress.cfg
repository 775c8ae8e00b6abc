SPECIFICATION FairFutures
CONSTANTS
  Senders = {s1}
  Receivers = {r1, r2}
  Capacity = 1
  SNOOZE_LIMIT = 0
  MaxItems = 0
CHECK_DEADLOCK FALSE
INVARIANT
  SomeReceiverServed
PROPERTIES
  ReceiversGoOn
  SendersGoOn
