SPECIFICATION FairSpec
CONSTANTS
  PartitionCount = 2
  RecordsPerWorker = 2
  MinWorkers = 1
  MaxWorkers = 2
  PerUnit = 2
  NLocal = 0
  MaxEpochs = 2
  MaxRecords = 3
  MaxSessions = 3
  MaxUnanswered = 2
\* The last session ends.
CHECK_DEADLOCK FALSE
INVARIANTS
  CommittedProcessed
  EpochComplete
  CaughtUp
PROPERTIES
  NeverBack
  SessionEnds
