SPECIFICATION Spec
CONSTANTS
  W = 9
  ByteBits = 3
  IntBits = 4
  Tables <- MCTables
  AvroHeader <- Header
  AvroBlock <- Block
  AvroRead <- ReadContainer
  Readers = {r1, r2}
  Partitions = {0, 1}
  PerUnit = 2
  MaxEpochs = 1
  Samples <- MCSamples
  SnapBase = 10
  MaxRecords = 4
  MaxRuns = 2
INVARIANTS
  ContainersReadBack
  PublishedTables
  SnapshotsScan
  SinkFaithful
PROPERTIES
  WrittenOnce
