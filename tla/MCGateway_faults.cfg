\* Two concurrent requests, everything may fail, the process may die.
SPECIFICATION GatewaySpec
CONSTANTS
  Texts <- MCTexts
  Decisions <- MCDecisions
  Attr <- MCAttr
  Candidate <- MCCandidate
  Envelopes <- GatewayEnvelopes
  MinChars = 8
  EdgeLines = 1
  MarkerLength = 5
  MarkerUnits = 5
  Calls = {q1, q2}
  Inputs <- AllInputs
  Faults = {"parse", "planner", "reducer", "store", "serialize", "metrics", "upstream", "crash"}
INVARIANTS
  GatewayTypeOK
  HandlersOnTrack
  OnlyWholeRewritings
  WireIsAccounted
  SavingsCoverTheWire
PROPERTIES
  ImplementsProxy
CHECK_DEADLOCK FALSE
