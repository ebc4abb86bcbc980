SPECIFICATION Spec
CONSTANTS
  Lengths = {0, 2, 9}
  Regs <- ScanRegs
  Params = {"TDO"}
  ArrayRegs <- DataOnly
  ArrayLengths = {9}
  EndStates <- FileEnds
  RunStates <- QuietRuns
  GoStates <- FileStates
  TckCounts = {1}
  Found <- FoundStates
  Width = 12
  Micro = 2
  Lens <- ByteLens
  HexNumbers <- SixDigits
  OtherNumbers <- SomeNumbers
  Given <- SomeGiven
  Decimals <- ThreeDigits
  Exponents <- SomeExps
  Abandons = TRUE
INVARIANTS
  TypeOK
  BeliefIsDevice
  ScanIsExact
  OnlyScansShift
  ScansKeepTheirColumn
  ComparisonIsAsked
  NumbersAreRead
