SPECIFICATION Spec
CONSTANTS
  a = a
  b = b
  c = c
  tick1 = tick1
  fire = fire
  LeaseTTL = 1
  StartGrace = 1
  Tasks <- JoinTasks
  DependsOn <- Join
  Ticks <- OneTick
  Launcher = fire
  TurnStops <- EndTurn
  MaxCrashes = 0
  Faults <- OverlapFaults
INVARIANTS LaunchedOnce PromptedInOrder ClaimedAtOnce
PROPERTY KeepsPromise
SYMMETRY EitherBranch
CHECK_DEADLOCK FALSE
