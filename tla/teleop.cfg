CONSTANTS
  Drill <- MCDrill
  Depth = 2
SPECIFICATION FairSpec
PROPERTY HandsetObeyed
PROPERTY NeverArmedAlone
PROPERTY FallsSilent
PROPERTY HeldTogglesOnce
