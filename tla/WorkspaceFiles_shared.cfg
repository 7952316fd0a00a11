SPECIFICATION MCSpec
CONSTANTS
  s1 = s1
  s2 = s2
  notes = notes
  shipped = shipped
  i1 = i1
  i2 = i2
  Sessions <- TwoSessions
  Readers <- OneReader
  Files <- TwoFiles
  Shipped <- OneShipped
  Installers <- TwoInstallers
  Forced <- SecondForced
  MaxEdits = 1
  Faults <- HandledFaults
INVARIANTS OneInWorkspace EditsStay TagsStay DoneHoldsNothing
PROPERTIES InstallIsWhole KillFrees
CHECK_DEADLOCK FALSE
