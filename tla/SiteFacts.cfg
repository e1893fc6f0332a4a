CONSTANTS
  Labels = {"rental desk", "reception"}
  DepartmentalLabels = {"rental desk"}
  MaxPhoneLabelAncestor = 4
  MaxBranchCandidates = 2
  PageNodes <- MCPageNodes
  MaxPages = 2
  MaxNodes = 3
SPECIFICATION SiteSpec
INVARIANTS
  VerdictsAgree
  PagesAreExtracted
  AccumulatesAllReadings
  CityLocalWins
  VenueKeepsItsSlot
PROPERTIES
  TextOnlyFillsGaps
CHECK_DEADLOCK FALSE
