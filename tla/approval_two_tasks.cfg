SPECIFICATION Spec
CONSTANTS
  Tasks = {t1, t2}
  Candidates = {k1, k2}
  Eligible = {k1, k2}
  Rank <- AnyRank
  NoCandidate = NoCandidate
  TaskOf <- OneEach
  Repos = {r1}
  RepoOf <- OneRepo
  Calls = {c1, c2}
  NoCall = NoCall
  MaxUserActions = 0
  MaxCrashes = 0
INVARIANTS
  MergedOntoBase
CHECK_DEADLOCK FALSE
