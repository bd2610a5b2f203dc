CONSTANTS
  Policy <- MCPolicy
  RlGoal <- MCRlGoal
  PolicyOf <- MCPolicyOf
  PolicyTorque <- MCPolicyTorque
  MaxFoldRamp = 3
  StandRamp = 2
  Settle = 3
  StandTorque = 1
  TorqueLimit = 2
SPECIFICATION FairSpec
INVARIANT StoodBeforeLeaving
INVARIANT NaNOnlyOnEmptyRamp
PROPERTY NeverDropped
PROPERTY ImplementsPosture
PROPERTY LoopSurvivesGoals
PROPERTY StandsUp
PROPERTY LoweringCompletes
PROPERTY DownIsReached
