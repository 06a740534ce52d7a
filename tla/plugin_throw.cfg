\* Three closures, two pool threads, a queue of one.
SPECIFICATION FairSpec
CONSTANTS
  j1 = j1
  j2 = j2
  j3 = j3
  w1 = w1
  w2 = w2
  Jobs <- MCJobs
  NoJob = NoJob
  Workers <- MCWorkers
  MaxQueue = 1
PROPERTIES
  ShutdownAlwaysCalled
\* The host stops when the pool has been joined.
CHECK_DEADLOCK FALSE
