\* Two controllers, one slot in each send queue.
SPECIFICATION FairSpec
CONSTANTS
  LcId = {i1, i2}
  QueueSize = 1
  MaxReplies = 1
  NoLc = NoLc
INVARIANTS TypeOK FlagsCount
PROPERTIES CountsStrikes LossNoticed SilenceNoticed EchoReaches
