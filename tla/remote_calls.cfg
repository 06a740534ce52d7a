SPECIFICATION FairSpec
CONSTANTS
  Threads = {a, b}
  Handles = {h1}
  MaxSize = 1
  None = None
  MaxRetries = 1
  MaxCalls = 1
INVARIANTS HandlesAccounted OwnOptions HonestResult
PROPERTY CallsEnd
