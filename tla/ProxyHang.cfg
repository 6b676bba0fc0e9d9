SPECIFICATION FairSpec
CHECK_DEADLOCK FALSE
CONSTANTS
  Proxies = {p1,p2}
  None = None
  Tasks = 3
  Downloaded <- SecondDownloaded
  MaxRanges = 1
  MaxSplits = 1
  MaxFaults = 0
PROPERTY Exits
