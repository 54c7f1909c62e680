SPECIFICATION FairSpec
CONSTANTS
  EventLimit = 3
  PageLimit = 2
  NoSession = NoSession
  MaxEvents = 7
  MaxRestarts = 1
  MaxDrops = 1
INVARIANTS
  StreamIsContiguous
  SeenEventsAreShown
  QuietViewIsCurrent
  SessionEndsAsJob
PROPERTIES
  EndIsShown
CHECK_DEADLOCK FALSE
