SPECIFICATION Spec
CONSTANTS
  Nodes = {n1, n2, n3}
  NoNode = NoNode
  Puts = {p1, p2}
  NoPut = NoPut
  Keys = {k1}
  Contenders = {n1}
  MaxTerm = 1
  MaxBallots = 1
  MaxBeats = 0
  MaxInFlight = 1
  Epochs = {}
  Victims = {}
SYMMETRY Symmetry
\* The bounds on terms, ballots, heartbeats and calls are all used up in the end.
CHECK_DEADLOCK FALSE
INVARIANTS
  OneHistory
  AckedOnMajority
