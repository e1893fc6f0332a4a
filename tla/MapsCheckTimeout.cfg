CONSTANTS
  Backends <- MCBackends
  MaxOrgResults = 3
  FetchMaxRetries = 2
SPECIFICATION MapsSpec
PROPERTY TimeoutIsAnError
CHECK_DEADLOCK FALSE
