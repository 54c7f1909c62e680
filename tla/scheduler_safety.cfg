SPECIFICATION FairSpec
CONSTANTS
  JobIds = {1, 2}
  NoJob = NoJob
  Priorities = {50, 75}
  AgentCounts = {0}
  Configs <- SlotsOrOff
  MaxBoots = 3
  MaxEdits = 1
  MaxActive = 2
  ListLimit = 1
INVARIANTS
  TypeOK
  RegistryMatchesTable
  ConcurrencyLimit
  NoLostWakeup
  RetryLineage
  PositionsAgree
PROPERTIES
  TerminalIsFinal
  CancellationIsHonoured
  QueueSurvives
  ImplementsLifecycle
  QueuedJobsProgress
  CancellationTakesEffect
CHECK_DEADLOCK FALSE
