SPECIFICATION FairSpec
CONSTANTS
  Tasks = {t1}
  Candidates = {k1, k2}
  Eligible = {k1, k2}
  Rank <- AnyRank
  NoCandidate = NoCandidate
  TaskOf <- OneTask
  Repos = {r1}
  RepoOf <- OneRepo
  Calls = {c1, c2, c3}
  NoCall = NoCall
  MaxUserActions = 1
  MaxCrashes = 1
INVARIANTS
  OneRequestPerTask
  ApprovedIsMerged
  CleanedOrReported
PROPERTIES
  ImplementsDecision
  RequestsEnd
CHECK_DEADLOCK FALSE
