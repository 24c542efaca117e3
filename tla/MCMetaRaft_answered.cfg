SPECIFICATION FairSpec
CONSTANTS
  Nodes = {n1, n2}
  NoNode = NoNode
  Puts = {p1}
  NoPut = NoPut
  Keys = {k1}
  Contenders = {n1, n2}
  MaxTerm = 2
  MaxBallots = 1
  MaxBeats = 1
  MaxInFlight = 1
  Epochs = {2}
  Victims = {n1}
\* The bounds on terms, ballots, heartbeats and calls are all used up in the end.
CHECK_DEADLOCK FALSE
PROPERTIES
  EpochFence
  PutAnswered
