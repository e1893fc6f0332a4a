\* Two phone numbers, two addresses of different length, poison verdicts and
\* the coordinates; the website makes a card worth a medium confidence.
CONSTANTS
  Fields = {"phone", "website", "address"}
  FillFields = {"coords"}
  Values <- MCValues
  Length <- MCLength
  Absent = Absent
SPECIFICATION ResolverSpec
INVARIANTS
  ResolverTypeOK
  StrongestOfferWins
  PoisonVerdictIsExported
  ConfidenceIsEarned
  ConflictsAreReal
  LongestSiteAddressStays
PROPERTIES
  VerdictsAreFinal
  ImplementsSourcePriority
\* One Enrich call ends.
CHECK_DEADLOCK FALSE
