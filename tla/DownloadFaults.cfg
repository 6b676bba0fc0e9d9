SPECIFICATION FairSpec
CONSTANTS
  Proxies = {p1,p2}
  None = None
  Length = 5
  MinSplit = 2
  MaxRead = 2
  Linux = TRUE
  MaxThreads = 4
  MaxFaults = 1
  MaxCrashes = 0
  MaxSaves = 1
INVARIANTS TypeOK Accounted Exclusive NoOrphan RangesBounded SomeoneStays
PROPERTY Terminates
