CONSTANTS
  MaxJobs = 2
  Concurrency = 2
  Retries = 0
  History = 1
  MaxStaged = 2
  Scans = {scan}
  Found = {}
  NoFile = NoFile
  Blank = Blank
  NoSession = NoSession
SPECIFICATION Spec
INVARIANTS
  WorkersAreSupervised
  StagedFilesAreOwned
  SessionMatchesLive
PROPERTIES
  LiveChangesOnSuccess
CHECK_DEADLOCK FALSE
