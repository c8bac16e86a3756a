\* The optimizer may fail at any step; the databases of metrics and the upstream work.
SPECIFICATION GatewaySpec
CONSTANTS
  Texts <- MCTexts
  Decisions <- MCDecisions
  Attr <- MCAttr
  Candidate <- MCCandidate
  Envelopes <- GatewayEnvelopes
  MinChars = 8
  EdgeLines = 1
  MarkerLength = 5
  MarkerUnits = 5
  Calls = {q1, q2}
  Inputs <- DecodedInputs
  Faults = {"parse", "planner", "reducer", "store", "serialize"}
PROPERTIES
  FailsOpen
CHECK_DEADLOCK FALSE
