\* Three calls of one https URL: the keys of the singleflight group are independent.
CONSTANTS
  Callers = {c1, c2, c3}
  Urls = {"https"}
  HttpsUrls = {"https"}
SPECIFICATION FetcherSpec
INVARIANTS
  VerdictIsEarned
  FlightsHaveWaiters
PROPERTIES
  EveryCallReturns
CHECK_DEADLOCK FALSE
