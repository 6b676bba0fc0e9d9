SPECIFICATION Spec
SYMMETRY Symmetry
CONSTANTS
  Proxies = {p1,p2}
  None = None
  Length = 4
  MinSplit = 1
  MaxRead = 2
  Linux = FALSE
  MaxThreads = 4
  MaxFaults = 0
  MaxCrashes = 1
  MaxSaves = 2
INVARIANTS ResumeAccounted
PROPERTY ImplementsFileDownload
