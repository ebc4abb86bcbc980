SPECIFICATION FairSpec
CONSTANTS
  Targets <- MCTargets
  IdBits = 3
  MaxDevices = 3
INVARIANTS
  SyncInv
  ResultIsHonest
  NoStrayUpdate
  ColumnsAreSeparate
  MatchesPath
  ChainIsFound
PROPERTY WalkReturns
