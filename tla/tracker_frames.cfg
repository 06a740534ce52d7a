SPECIFICATION Spec
CONSTANTS
  Labels = {face, person}
  MaxTimeLost = 2
  MaxNew = 1
  MaxId = 3
  MaxFrame = 7
INVARIANTS IdsUnique StateMatchesList
PROPERTIES ReturnsInTime GraceKept
CHECK_DEADLOCK FALSE
