SPECIFICATION Spec
SYMMETRY Symmetry
CONSTANTS
  Proxies = {p1,p2}
  None = None
  Length = 6
  MinSplit = 2
  MaxRead = 2
  Linux = FALSE
  MaxThreads = 4
  MaxFaults = 0
  MaxCrashes = 0
  MaxSaves = 1
INVARIANTS CompleteMeansWhole
