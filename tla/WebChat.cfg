CONSTANTS
  Subjects = {repository, symbol}
  Repository = repository
  MaxIds = 4
  MaxVisits = 2
SPECIFICATION Spec
INVARIANTS
  EveryStreamCanBeStopped
  OneSubjectPerConversation
CHECK_DEADLOCK FALSE
