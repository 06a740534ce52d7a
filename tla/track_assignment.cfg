SPECIFICATION Spec
CONSTANTS
  MaxRows = 3
  MaxCols = 2
  Costs = {0, 1, 3, 5}
  Limit = 4
INVARIANTS RowsAccounted PaysLeast WalkIsShort Optimal
PROPERTIES Advances Ends
