\* A contacts page whose raw HTML was not fetched, rendered without its widget.
CONSTANTS
  Fields = {"phone", "website", "hours"}
  FillFields = {}
  Values <- MCValues
  Length <- MCLength
  Absent = Absent
  SocialPhones = {"whatsapp"}
  ProxyPhones = {"proxy"}
  Seeds <- MCSeeds
  Cards <- MCCards
  Snippets <- MCSnippets
  SearchFacts <- MCSearchFacts
  Pages <- MCPages
SPECIFICATION EnrichSpec
INVARIANT
  NeverLaundered
CHECK_DEADLOCK FALSE
