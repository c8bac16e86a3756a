\* A metrics INSERT may fail.
SPECIFICATION GatewaySpec
CONSTANTS
  Texts <- MCTexts
  Decisions <- MCDecisions
  Attr <- MCAttr
  Candidate <- MCCandidate
  Envelopes <- GatewayEnvelopes
  MinChars = 8
  EdgeLines = 1
  MarkerLength = 5
  MarkerUnits = 5
  Calls = {q1, q2}
  Inputs <- OneOfEach
  Faults = {"metrics"}
INVARIANTS
  UnsupportedIsForwarded
CHECK_DEADLOCK FALSE
