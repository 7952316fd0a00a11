SPECIFICATION Spec
CONSTANTS
  a = a
  b = b
  c = c
  tick1 = tick1
  fire = fire
  LeaseTTL = 1
  StartGrace = 1
  Tasks <- ChainTasks
  DependsOn <- Chain
  Ticks <- OneTick
  Launcher = fire
  TurnStops <- EndTurn
  MaxCrashes = 1
  Faults <- TimelyFaults
INVARIANTS NoWorkOnFailed SuccessIsRecorded
CHECK_DEADLOCK FALSE
