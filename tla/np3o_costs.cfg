CONSTANTS
  NumSteps = 3
  NumIterations = 2
  SaveInterval = 1
  MaxLaunches = 1
SPECIFICATION Spec
INVARIANT LogOfEndedEpisode
CHECK_DEADLOCK FALSE
