CONSTANTS
  NumSteps = 3
  NumIterations = 3
  SaveInterval = 2
  MaxLaunches = 2
SPECIFICATION FairSpec
INVARIANT RolloutIsTrajectory
INVARIANT ReturnsOfEpisode
INVARIANT CostsReported
INVARIANT BoundedLoss
PROPERTY TrainingEnds
CHECK_DEADLOCK FALSE
