SPECIFICATION FairSpec
CHECK_DEADLOCK FALSE
CONSTANTS
  Proxies = {p1, p2}
  None = None
  Tasks = 4
  Downloaded <- SecondDownloaded
  MaxRanges = 2
  MaxSplits = 1
  MaxFaults = 1
INVARIANTS NoLostRange AllStarted
PROPERTIES OnlyOnce TasksRunOut ExitsAlone
