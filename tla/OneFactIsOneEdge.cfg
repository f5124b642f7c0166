\* Given facts alone: a resolver may find one relationship twice at one place.
SPECIFICATION CSpec
CONSTANTS
  None = None
  MaxImports = 2
  PythonPrograms = {}
  JavaPrograms = {}
  GoPrograms = {}
  TypeScriptPrograms = {}
  Handed = {}
  Unaddressable <- MCUnaddressable
  Parameters = {":id", "<id>", "123"}
  StandardLibrary = {"os"}
  Inputs <- MCInputs
  Stored = {}
  Databases = {"new"}
  MaxBuilds = 1
  MaxWrites = 0
  MaxInterruptions = 0
INVARIANT OneFactIsOneEdge
CHECK_DEADLOCK FALSE
