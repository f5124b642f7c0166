CONSTANTS
  Facts = {f1, f2}
  Missed = {f2}
  MaxTier = 2
  MaxText = 1
  MaxLines = 1
  NoEvidence = NoEvidence
SPECIFICATION Spec
INVARIANTS
  LeavingStopsTheModel
  ReaderIsNotBlamed
  EndsWithTerminalFrame
PROPERTIES
  ImplementsGroundedAnswer
  EveryStreamEnds
CHECK_DEADLOCK FALSE
