CONSTANTS
  Positions = {1, 2, 3}
  Limit = 2
  Items <- MCItems
  TTL = 2
  PromotionTTL = 1
  None = None
  Expired = Expired
SPECIFICATION CacheSpec
INVARIANTS
  TiersDisagreeBriefly
  CancelledNeverDurable
  AnswersOwnItem
PROPERTIES
  BatchEnds
