CONSTANTS
  Fields = {"phone", "website", "hours"}
  FillFields = {}
  Values <- MCValues
  Length <- MCLength
  Absent = Absent
  SocialPhones = {"whatsapp"}
  ProxyPhones = {"proxy"}
  Seeds <- MCSeeds
  Cards <- MCCards
  Snippets <- MCSnippets
  SearchFacts <- MCSearchFacts
  Pages <- MCPages
SPECIFICATION EnrichSpec
INVARIANTS
  ProxyOnlyFromBlindRender
  ClosedVerdictStands
  RenderSkippedIsExact
  SkipsRestOnTrust
PROPERTIES
  CallsAreMerges
CHECK_DEADLOCK FALSE
