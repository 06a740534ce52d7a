\* The signal may come at any moment.
SPECIFICATION PipelineSpec
CONSTANTS
  NumNodes = 2
  Capacity = 1
  Downstream <- Chain
  InitMayFail = {}
INVARIANTS
  AlwaysJoined
\* The program stops when main has deleted the last node.
CHECK_DEADLOCK FALSE
