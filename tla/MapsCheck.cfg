CONSTANTS
  Backends <- MCBackends
  MaxOrgResults = 3
  FetchMaxRetries = 2
SPECIFICATION MapsSpec
INVARIANTS
  ClosedIsUnanimous
PROPERTIES
  RefusalsTripTheBreaker
  LoopsGoForward
  CheckAnswers
CHECK_DEADLOCK FALSE
