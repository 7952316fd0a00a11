SPECIFICATION Spec
CONSTANTS
  a = a
  b = b
  c = c
  tick1 = tick1
  fire = fire
  LeaseTTL = 1
  StartGrace = 1
  Tasks <- SoloTasks
  DependsOn <- Solo
  Ticks <- OneTick
  Launcher = fire
  TurnStops <- Success
  MaxCrashes = 0
  Faults <- Reliable
INVARIANTS FinishedTaskSucceeds
CHECK_DEADLOCK FALSE
