SPECIFICATION Spec
CONSTANTS
  W = 4
  FlatKeys = 4
  Sample = 2
  Lanes = 2
  MaxDepth = 2
  BlockRows = 3
  KeyBits = 3
  MaxHits = 2
  Tables <- MCTables
  Statements <- MCStatements
  Understood <- Understand
INVARIANTS
  Reclustered
  PrunedBlocksHoldNothing
  ReadAsWritten
  ResultExact
