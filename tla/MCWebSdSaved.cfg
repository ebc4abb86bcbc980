SPECIFICATION Spec
CONSTANTS
  f32c = f32c
  other = other
  NONE = NONE
  Pieces = 1
  Blocks = 1
  Files <- OneFile
  F32C = f32c
INVARIANT SavedNotPlayed
