SPECIFICATION Spec
CONSTANTS
  MaxClients = 3
  MaxExecutions = 3
  MaxBranches = 2
  MaxFailures = 1
  Faults <- LateTrouble
INVARIANTS TreeIsSound OwnConversation RemembersLineage AnswerIsFresh RunLogIdsDistinct
CHECK_DEADLOCK FALSE
