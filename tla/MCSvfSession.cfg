SPECIFICATION FairSpec
CONSTANTS
  a = a
  b = b
  Clients <- TwoClients
  Pieces <- ThreeAndTwo
  Breaks = TRUE
  Overlaps = TRUE
  Scans = TRUE
  AllocFails = TRUE
  Buffered = FALSE
INVARIANTS
  DoneIsHonest
  PlayedContiguous
  BufferIsLive
  LeftTidy
  UndisturbedBelief
PROPERTIES
  EveryUploadAnswered
