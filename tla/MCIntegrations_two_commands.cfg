\* Two commands at a time on one root, with the same gateway URL; nothing fails.
SPECIFICATION Spec
CONSTANTS
  Urls = {"gw1"}
  OwnUrls = {"own1", "own2"}
  ProviderIds = {"router", "other"}
  Notes = {"n0", "n1"}
  Lines = {"key", "x", "y"}
  OpenAiLines = {"key"}
  Nothing = Nothing
  Processes = {p1, p2}
  MaxEdits = 0
  EditsOf <- NoEdits
  Faults = {}
  Roots <- CodexRoot
INVARIANTS
  UserTextKept
CHECK_DEADLOCK FALSE
