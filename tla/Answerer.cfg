CONSTANTS
  Facts = {f1, f2}
  Missed = {f2}
  MaxTier = 3
  MaxText = 2
SPECIFICATION Spec
INVARIANTS
  ReturnedIsSound
PROPERTIES
  ReturnedWithItsEvidence
CHECK_DEADLOCK FALSE
