\* No faults at all.
SPECIFICATION GatewaySpec
CONSTANTS
  Texts <- MCTexts
  Decisions <- MCDecisions
  Attr <- MCAttr
  Candidate <- MCCandidate
  Envelopes <- GatewayEnvelopes
  MinChars = 8
  EdgeLines = 1
  MarkerLength = 5
  MarkerUnits = 5
  Calls = {q1, q2}
  Inputs <- AllInputs
  Faults = {}
INVARIANTS
  MalformedIsForwarded
CHECK_DEADLOCK FALSE
