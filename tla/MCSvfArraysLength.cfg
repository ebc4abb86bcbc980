SPECIFICATION Spec
CONSTANTS
  Lengths = {1, 9}
  Regs <- DataAndTail
  Params = {"TDO", "MASK"}
  ArrayRegs <- DataAndTail
  ArrayLengths = {}
  EndStates <- IdleOnly
  RunStates <- IdleOnly
  GoStates <- IdleOnly
  TckCounts = {0}
  Found <- ResetOnly
  Width = 12
  Micro = 2
  Lens = {}
  HexNumbers = {}
  OtherNumbers = {}
  Given = {}
  Decimals = {}
  Exponents = {}
  Abandons = FALSE
INVARIANTS
  ReadsInBounds
