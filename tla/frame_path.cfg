SPECIFICATION FairSpec
CONSTANTS
  MaxFrames = 3
  Capacity = 2
  Bufs = 3
  Codes = {7, 8}
INVARIANTS MappedOnlyForRuntime GroupIdleAtDestroy LostOnlyAtEncoder EpisodesAccounted
PROPERTY ExitDone
