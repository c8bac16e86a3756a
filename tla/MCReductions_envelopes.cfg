\* One call over every small envelope, no faults; the text reducers on long lines
\* and on short logs.
SPECIFICATION ReductionsSpec
CONSTANTS
  Texts <- MCTexts
  Decisions <- MCDecisions
  Attr <- MCAttr
  Candidate <- MCCandidate
  Calls = {c1}
  Envelopes <- AllEnvelopes
  MinChars = 8
  EdgeLines = 1
  MarkerLength = 5
  MarkerUnits = 5
  Faults = {}
  Originals <- MCOriginals
  MinWords = 2
  MinTextChars = 40
  Edge = 1
  Anchors <- MCAnchors
  Guards <- MCGuards
  RefWord = "[TOKEN_REF:r]"
INVARIANTS
  ProtectedContextUntouched
  ReplacedTextRecoverable
  DuplicateMarkersResolve
  OptimizedIsCheaper
  ResultIsWholeRewriting
  RunsReadBack
  NoNewPhrase
  OrderIsKept
  CriticalLinesStay
PROPERTY
  ReductionEnds
CHECK_DEADLOCK FALSE
