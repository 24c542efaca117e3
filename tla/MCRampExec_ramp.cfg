SPECIFICATION FairSpec
CONSTANTS
  Morsels = {m1, m2}
  NoMorsel = NoMorsel
  Locals = {l1, l2}
  Workers = {w1, w2}
  Unblocker = Unblocker
  Expected = 2
  Mortal = {w1}
\* A query ends, or waits for ever once a morsel is lost.
CHECK_DEADLOCK FALSE
INVARIANTS
  OnePlace
PROPERTIES
  PoolSpec
  QueryReturns
  WorkersReleased
