SPECIFICATION FairSpec
CONSTANTS
  tick1 = tick1
  tick2 = tick2
  caller1 = caller1
  operator1 = operator1
  operator2 = operator2
  often = often
  seldom = seldom
  onhand = onhand
  Defs <- ThreeDefs
  NextAfter <- Calendar
  Ticks <- TwoTicks
  Callers <- OneCaller
  Operators <- OneOperator
  MaxTime = 2
  MaxEdits = 1
  MaxCrashes = 1
  Faults <- LaunchFaults
INVARIANT DocKnowsRuns
PROPERTIES SlotOnce FiresAsDefined DueIsConsumed
CHECK_DEADLOCK FALSE
