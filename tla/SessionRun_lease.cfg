SPECIFICATION Spec
CONSTANTS
  MaxPrompts = 2
  MaxExecutions = 3
  LeaseTTL = 2
  StartGrace = 1
  Faults <- LeaseKeepingFaults
INVARIANTS OneWriter SeqsUnique LiveLeaseIsRunning
PROPERTY OnlyOwnerDropsLease
CHECK_DEADLOCK FALSE
