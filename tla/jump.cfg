CONSTANTS
  RecoverySteps = 2
  S1Steps = 3
  S3Steps = 3
  WindowSteps = 2
  MinDelay = 2
  MaxDelay = 3
  WarmupSteps = 4
  EpisodeSteps = 12
SPECIFICATION FairSpec
INVARIANT TakesOffOnTime
INVARIANT BonusBounded
PROPERTY NoPhantomFlight
PROPERTY ImplementsStages
PROPERTY HeldKeyJumps
