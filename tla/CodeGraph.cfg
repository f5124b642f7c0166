\* Programs whose calls are resolved, built and accepted, and given facts that are built and stored.
SPECIFICATION CSpec
CONSTANTS
  None = None
  MaxImports = 2
  PythonPrograms <- MCPythonPrograms
  JavaPrograms <- MCJavaPrograms
  GoPrograms <- MCGoPrograms
  TypeScriptPrograms <- MCTypeScriptPrograms
  Handed <- MCHanded
  Unaddressable <- MCUnaddressable
  Parameters = {":id", "<id>", "123"}
  StandardLibrary = {"os"}
  Inputs <- MCInputs
  Stored <- MCStored
  Databases = {"new", "empty", "written"}
  MaxBuilds = 2
  MaxWrites = 2
  MaxInterruptions = 1
INVARIANTS
  NearestDeclarationIsBound
  CallsFollowImports
  NothingFoundGoesUnsaid
  ContributionsAreAccepted
  OrderOfAnalysersIsImmaterial
  AcceptedGraphsAreStored
PROPERTIES
  ReplacedAsAWhole
CHECK_DEADLOCK FALSE
