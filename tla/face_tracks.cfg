\* Two tracks, two pool threads, a queue of one; ages up to four frames.
SPECIFICATION FairSpec
CONSTANTS
  t1 = t1
  t2 = t2
  w1 = w1
  w2 = w2
  Tracks <- MCTracks
  Workers <- MCWorkers
  NoJob = NoJob
  MaxQueue = 1
  ReappearWithin = 2
  PruneFrames = 1
  InflightMaxFrames = 3
INVARIANTS
  InflightAccounted
  ReportedOnce
PROPERTIES
  GoneTrackForgotten
\* The plugin stops when it is shut down, or waits for a job that threw.
CHECK_DEADLOCK FALSE
