\* Two calls that interleave, with every fault and a crash.
SPECIFICATION EngineSpec
CONSTANTS
  Texts <- MCTexts
  Decisions <- MCDecisions
  Attr <- MCAttr
  Candidate <- MCCandidate
  Calls = {c1, c2}
  Envelopes <- Conversations
  MinChars = 8
  EdgeLines = 1
  MarkerLength = 5
  MarkerUnits = 5
  Faults = {"planner", "reducer", "store"}
INVARIANTS
  EngineTypeOK
  CallsOnTrack
  ResultIsWholeRewriting
CHECK_DEADLOCK FALSE
