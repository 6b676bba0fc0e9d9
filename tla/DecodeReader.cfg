SPECIFICATION Spec
CONSTANTS
  Sizes = {4, 8}
  Lengths = {3}
  Distances = {1, 3}
  Gaps = {0, 2}
  Blocks = {1, 2}
  Resets = {TRUE, FALSE}
  Reads = {1, 3}
  MaxQueue = 2
  Abandon = FALSE
  MaxStream = 5
  MaxFilters = 2
  MaxFiles = 2
INVARIANTS WindowHoldsStream OutputRight EndsComplete NoFalseInvalid
PROPERTY ReadProgresses
