SPECIFICATION FairSpec
CONSTANTS
  MaxPrompts = 1
  MaxExecutions = 2
  LeaseTTL = 2
  StartGrace = 1
  Faults <- AllFaults
INVARIANTS ConsumedWasJournaled
PROPERTY LeaseAlwaysLapses
CHECK_DEADLOCK FALSE
