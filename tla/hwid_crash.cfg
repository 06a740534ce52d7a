SPECIFICATION FairSpec
CONSTANTS
  p1 = p1
  p2 = p2
  a = a
  b = b
  c = c
  ivps = ivps
  Procs = {p1, p2}
  Threads = {a, b, c}
  ProcOf <- MCProcOf
  Pids = {100, 200}
  Kinds = {ivps}
  Count <- MCCount
  None = None
  Dead = Dead
INVARIANTS OneOwner InitAlone
PROPERTY MutexMoves
