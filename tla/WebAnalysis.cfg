CONSTANTS
  JobIds = {1, 2}
  Concurrency = 1
  MaxStarts = 2
  MaxErrors = 1
  MaxRestarts = 1
SPECIFICATION DialogSpec
INVARIANTS
  BusyIsFollowed
PROPERTIES
  BusyEnds
CHECK_DEADLOCK FALSE
