\* Installs and uninstalls in any order, edits between them, failing writes, kills.
SPECIFICATION Spec
CONSTANTS
  Urls = {"gw1", "gw2"}
  OwnUrls = {"own1", "own2"}
  ProviderIds = {"router", "other"}
  Notes = {"n0", "n1"}
  Lines = {"key", "x", "y"}
  OpenAiLines = {"key"}
  Nothing = Nothing
  Processes = {p1}
  MaxEdits = 1
  EditsOf <- Edits
  Faults = {"write", "kill"}
  Roots <- ManyRoots
INVARIANTS
  IntegrationsTypeOK
  UserTextKept
  OwnUrlSurvivesFailures
  NeverStuckInDrift
  UninstallRestores
CHECK_DEADLOCK FALSE
