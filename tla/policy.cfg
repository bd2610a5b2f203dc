CONSTANTS
  History = 3
  PolicyTypes = {"np3o", "ppo"}
  MaxActivations = 3
SPECIFICATION FairSpec
INVARIANT TypeOK
INVARIANT HistoryHeals
PROPERTY CommandHeals
PROPERTY EventuallyFresh
