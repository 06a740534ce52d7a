\* Four nodes as in thread_tbl, any Init may fail.
SPECIFICATION Spec
CONSTANTS
  NumNodes = 4
  Capacity = 1
  Downstream <- Chain
  InitMayFail = {1, 2, 3, 4}
INVARIANTS
  NeverNodeReleased
PROPERTIES
  MgrLifetime
  NodeLifetime
  NeverRunsAgain
\* The program stops when main has deleted the last node.
CHECK_DEADLOCK FALSE
