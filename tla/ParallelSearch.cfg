CONSTANTS
  Providers = 3
  Results <- MCResults
SPECIFICATION SearchSpec
INVARIANTS
  MergeIgnoresTiming
  EntriesStayPaired
CHECK_DEADLOCK FALSE
