SPECIFICATION Spec
CONSTANTS
  MinMatch = 2
  MatchLimit = 4
  EndLiterals = 2
  NibbleMax = 3
  UnitMax = 4
  MaxDistance = 8
  HashSize = 4
  PageRows = 2
  W = 5
  VarintBase = 4
  Magic = Magic
  RowWidth = 2
  BroadcastThreshold = 6
  Partitions = 2
  RowgroupRows = 3
  Tables <- MCTables
  Queries <- MCQueries
  StatementOf <- MCStatement
  OpenFile <- Opened
  Panics <- PredPanics
  RowsWhere <- EvalPred
  Cells <- Gather
  Threads = {t1, t2}
SYMMETRY Alike
INVARIANTS
  AnswerExact
  FailsOnlyInvalid
  PrunedFilesHoldNothing
  ExchangeComplete
