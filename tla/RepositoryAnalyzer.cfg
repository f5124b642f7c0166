CONSTANTS
  ts1 = ts1
  ts2 = ts2
  py = py
  manifest = manifest
  readme = readme
  web = web
  api = api
  Files <- MCFiles
  Regions = {web, api}
  RegionOf <- MCRegionOf
  Manifests = {manifest}
  Registered <- MCRegistered
  Sources <- MCSources
  Bounded = {"typescript"}
  References <- MCReferences
  Routes = {ts2, py}
  MaxEdits = 1
  MaxScans = 2
  MaxMishaps = 2
SPECIFICATION Spec
INVARIANTS
  DepthIsEarned
  OneFaultCostsOneAnalyser
  UnchangedSourcesAreCurrent
  StagesTellTheOutcome
  WorkspaceIsThereForItsReaders
PROPERTIES
  EveryAnalysisEnds
CHECK_DEADLOCK FALSE
