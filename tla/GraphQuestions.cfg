CONSTANTS
  N = 4
  MaxEdges = 5
  Repositories <- MCRepositories
SPECIFICATION Spec
INVARIANTS
  CyclesAreTheComponents
  WalksFindEveryNodeOnce
PROPERTIES
  EveryQuestionIsAnswered
CHECK_DEADLOCK FALSE
