SPECIFICATION FairSpec
CONSTANTS
  f32c = f32c
  other = other
  NONE = NONE
  Pieces = 2
  Blocks = 2
  Files <- OneFile
  F32C = f32c
INVARIANTS
  CardInv
  SaveAnswerIsHonest
  OledReadyElsewhere
PROPERTIES
  NothingTwice
  RequestsEnd
