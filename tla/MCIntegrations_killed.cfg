\* A process may be killed; nothing else goes wrong.
SPECIFICATION Spec
CONSTANTS
  Urls = {"gw1"}
  OwnUrls = {"own1", "own2"}
  ProviderIds = {"router", "other"}
  Notes = {"n0", "n1"}
  Lines = {"key", "x", "y"}
  OpenAiLines = {"key"}
  Nothing = Nothing
  Processes = {p1}
  MaxEdits = 1
  EditsOf <- NoEdits
  Faults = {"kill"}
  Roots <- PlainRoot
INVARIANTS
  CodexIsTransactional
CHECK_DEADLOCK FALSE
