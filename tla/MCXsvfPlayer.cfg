SPECIFICATION Spec
CONSTANTS
  Sizes = {1, 2}
  Unit = 2
  Repeats = {0, 1}
  Counts = {0, 2}
  AddrMasks <- AddrChoice
  DataMasks <- DataChoice
  GoStates <- FileStates
  Found <- FoundStates
INVARIANTS
  SyncInv
  TryIsExact
  RetryIsFresh
  VerdictIsHonest
PROPERTIES
  XsdrincCounts
