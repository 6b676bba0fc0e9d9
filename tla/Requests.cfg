SPECIFICATION Spec
CONSTANTS
  Proxies = {p1,p2}
  None = None
  Lengths <- ThreeFiles
  File = "part1"
  Starts <- ThreeRanges
  MaxExpiries = 2
  MaxFaults = 2
INVARIANTS AsksOwnOffset StoredRight
PROPERTY AllFetched
