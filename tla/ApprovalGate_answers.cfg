SPECIFICATION FairSpec
CONSTANTS
  same = same
  different = different
  write = write
  person = person
  relay = relay
  Inputs <- TwoInputs
  InputOf <- ThreeCalls
  ToolOf <- TheTool
  Gated <- AllGated
  People <- OnePerson
  Relays <- OneRelay
  Faults <- AllButTwins
INVARIANTS AllowedByPerson TranscriptAgrees NothingLingers
PROPERTIES AllAnswered OnlyOwnDeadline
CHECK_DEADLOCK FALSE
