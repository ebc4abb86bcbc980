SPECIFICATION FairSpec
CONSTANTS
  s = s
  t = t
  Blocks = 2
  Sum <- TwoSums
  Retry_block = 2
  Retry_crc = 2
  MaxRx = 3
  ZERO = ZERO
  BAD = BAD
INVARIANTS
  JumpIsSafe
  VerdictIsHonest
PROPERTIES
  UploadEnds
