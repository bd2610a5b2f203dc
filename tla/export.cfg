CONSTANTS
  Last = 2
  MaxPlays = 2
  MaxFaults = 2
SPECIFICATION FairSpec
INVARIANT DestWhole
PROPERTY DeploysSelected
PROPERTY NewestDeployed
CHECK_DEADLOCK FALSE
