CONSTANTS
  Timed = TRUE
  QueueSize = 2
  MaxFrames = 4
  MaxErrors = 2
SPECIFICATION FairSpec
INVARIANT QuietAfterDestruction
PROPERTY InOrder
PROPERTY SilenceReported
PROPERTY DestructionEnds
CHECK_DEADLOCK FALSE
