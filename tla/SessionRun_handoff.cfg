SPECIFICATION FairSpec
CONSTANTS
  MaxPrompts = 2
  MaxExecutions = 3
  LeaseTTL = 2
  StartGrace = 1
  Faults <- OperatorFaults
INVARIANTS NoStrandedPrompt PromptJournaledOnce
PROPERTY PromptsServed
CHECK_DEADLOCK FALSE
