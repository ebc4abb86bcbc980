SPECIFICATION FairSpec
CONSTANTS
  a = a
  b = b
  Clients <- TwoClients
  Pieces <- ThreeAndTwo
  Breaks = TRUE
  Overlaps = FALSE
  Scans = FALSE
  AllocFails = FALSE
  Buffered = FALSE
INVARIANTS
  NoLeak
