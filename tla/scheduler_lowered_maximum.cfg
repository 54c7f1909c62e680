SPECIFICATION FairSpec
CONSTANTS
  JobIds = {1, 2}
  NoJob = NoJob
  Priorities = {50}
  AgentCounts = {0, 3}
  Configs <- LoweredMaximum
  MaxBoots = 2
  MaxEdits = 1
  MaxActive = 2
  ListLimit = 2
PROPERTIES
  QueuedJobsProgress
CHECK_DEADLOCK FALSE
