\* The signal may come at any moment, any Init may fail.
SPECIFICATION FairPipelineSpec
CONSTANTS
  NumNodes = 3
  Capacity = 1
  Downstream <- Chain
  InitMayFail = {1, 2, 3}
INVARIANTS
  SourcesJoined
PROPERTIES
  KeepsSourceContract
  ExitsOrHangs
\* The program stops when main has deleted the last node.
CHECK_DEADLOCK FALSE
