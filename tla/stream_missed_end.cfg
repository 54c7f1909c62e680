SPECIFICATION Spec
CONSTANTS
  EventLimit = 6
  PageLimit = 6
  NoSession = NoSession
  MaxEvents = 6
  MaxRestarts = 1
  MaxDrops = 0
INVARIANTS
  QuietViewIsAlwaysCurrent
CHECK_DEADLOCK FALSE
