\* One request over every payload of the palettes, through each adapter; the
\* live run against every provider; the next certification matrix.
SPECIFICATION ProtocolsSpec
CONSTANTS
  Texts <- MCTexts
  Decisions <- MCDecisions
  Attr <- MCAttr
  Candidate <- MCCandidate
  Calls = {c1}
  Envelopes = {}
  MinChars = 8
  EdgeLines = 1
  MarkerLength = 5
  MarkerUnits = 5
  Faults = {}
  Registrations <- MCRegistrations
  Paths <- MCPaths
  PayloadsFor <- MCPayloads
  Marker = "duplicate"
  HardCap = 3000
  MaxRequests = 4
  MaxTokens = 2
  InputRate = 40
  CacheWriteRate = 50
  CacheReadRate = 1
  OutputRate = 200
  Size <- MCSize
  Budgets = {0, 600, 1300, 2500, 3001}
  TokenLimits = {0, 2, 3}
  SeedContents <- MCSeedContents
  Usages <- MCUsages
  NewEntries <- MCNewEntries
  NewGenerations <- MCNewGenerations
  NewProfiles <- MCNewProfiles
  NewRecords <- MCNewRecords
  MaxAdded = 2
INVARIANTS
  OriginalsRestorePayload
  SentParsesAsDecided
  EveryTextWasPlanned
  SignedAndCitedUntouched
  ActiveItemUntouched
  SpendStaysInBudget
  CandidateIsEarned
  ReportBacksVerdict
  FrameworkWithinPolicy
PROPERTIES
  CertificationDoesNotSpread
  DecisionIsStable
CHECK_DEADLOCK FALSE
