CONSTANTS
  MaxJobs = 3
  Concurrency = 1
  Retries = 1
  History = 1
SPECIFICATION Spec
INVARIANTS
  Bookkeeping
  NoIdleWorker
  NoOvertaking
PROPERTIES
  EverySubmissionSettles
  ImplementsJobs
CHECK_DEADLOCK FALSE
