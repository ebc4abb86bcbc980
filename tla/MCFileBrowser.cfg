SPECIFICATION BrowserSpec
CONSTANTS
  Names = {1, 2, 3, 4}
  NameLen <- Lengths
  Bins = {3}
  LineN = 2
  HoldMax = 15
  RepeatFrom = 8
  KeySets <- OneKey
  FirstCard <- Card
  MaxChanges = 1
  MaxDepth = 2
  NewNames = {4}
  WebPaths <- Asked
  COVERED = COVERED
  NONE = NONE
INVARIANTS
  ListingIsDirectory
  CursorInv
  ScreenIsTrue
PROPERTIES
  ChosenWasLit
