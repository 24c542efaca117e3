SPECIFICATION Spec
CONSTANTS
  n1 = n1
  n2 = n2
  j1 = j1
  c1 = c1
  c2 = c2
  o1 = o1
  o2 = o2
  o3 = o3
  r1 = r1
  Self = n1
  Initial <- MCInitial
  Joiners = {j1}
  NoOne = NoOne
  Calls = {c1, c2}
  Others = {o1, o2, o3}
  Candidates = {n2}
  Requests = {r1}
  OpOf <- MemberOps
  OtherTerms = {2}
  MaxFailures = 1
  MaxTerm = 2
  MaxIndex = 1
  MaxCrashes = 2
  MaxInFlight = 2
\* The bounds on terms, crashes and calls are all used up in the end.
CHECK_DEADLOCK FALSE
INVARIANTS
  FilesLoad
  AppliedSurvives
  ReignsOnce
  VoteKept
  PeersOnce
