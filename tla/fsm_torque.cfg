CONSTANTS
  Policy <- MCPolicy
  RlGoal <- MCRlGoal
  PolicyOf <- MCPolicyOf
  PolicyTorque <- MCPolicyTorque
  MaxFoldRamp = 3
  StandRamp = 2
  Settle = 3
  StandTorque = 1
  TorqueLimit = 2
SPECIFICATION Spec
INVARIANT TorqueLimited
