\* More greenlets than slots.
SPECIFICATION Spec
CONSTANTS
  Greenlet = {r, g1, g2}
  Receiver = r
  QueueSize = 1
  MaxPuts = 2
  NoItem = NoItem
PROPERTY PuttersReleased
CHECK_DEADLOCK FALSE
