\* As many slots as greenlets.
SPECIFICATION Spec
CONSTANTS
  Greenlet = {r, g1}
  Receiver = r
  QueueSize = 2
  MaxPuts = 3
  NoItem = NoItem
INVARIANTS TypeOK InOrder NoMissedUnlock
PROPERTIES AllSent PuttersReleased
CHECK_DEADLOCK FALSE
