CONSTANTS
  RecoverySteps = 2
  S1Steps = 3
  S3Steps = 3
  WindowSteps = 2
  PrepSteps = 3
  WarmupSteps = 3
  EpisodeSteps = 14
SPECIFICATION Spec
INVARIANT BonusBounded
PROPERTY TakeoffSeesObstacle
PROPERTY ImplementsStages
