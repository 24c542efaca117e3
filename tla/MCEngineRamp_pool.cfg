SPECIFICATION Spec
CONSTANTS
  NTasks = 4
  Threads = {t1, t2, t3}
SYMMETRY Symmetry
\* The query ends.
CHECK_DEADLOCK FALSE
PROPERTY PoolSpec
