\* The user appends a line to a .env that TOKEN manages; nothing goes wrong.
SPECIFICATION Spec
CONSTANTS
  Urls = {"gw1"}
  OwnUrls = {"own1", "own2"}
  ProviderIds = {"router", "other"}
  Notes = {"n0", "n1"}
  Lines = {"key", "x", "y"}
  OpenAiLines = {"key"}
  Nothing = Nothing
  Processes = {p1}
  MaxEdits = 1
  EditsOf <- Appends
  Faults = {}
  Roots <- OpenRoot
INVARIANTS
  LinesStayApart
CHECK_DEADLOCK FALSE
