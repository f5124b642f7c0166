CONSTANTS
  Declared <- MCDeclared
  GroupOf <- MCGroupOf
  Pinned <- MCPinned
  Cap <- MCCap
  CoreCap <- MCCoreCap
  FloorFacts = 2
  RecoveryFacts = 3
  SupportingCap = 1
  Tier = 20
  Cost <- MCCost
  Contexts <- MCContexts
  Questions <- MCQuestions
SPECIFICATION ProjectSpec
INVARIANTS
  EveryFamilyIsHeard
  TheBudgetIsUsed
CHECK_DEADLOCK FALSE
