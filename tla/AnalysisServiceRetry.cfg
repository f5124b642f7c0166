CONSTANTS
  MaxJobs = 1
  Concurrency = 1
  Retries = 1
  History = 1
  MaxStaged = 1
  Scans = {}
  Earlier = earlier
  Leftovers = {NoFile, earlier}
  MaxCrashes = 1
  Found = {earlier}
  NoFile = NoFile
  Blank = Blank
  NoSession = NoSession
SPECIFICATION RSpec
PROPERTIES
  GraphIsNeverLost
  EverySubmissionSettles
CHECK_DEADLOCK FALSE
