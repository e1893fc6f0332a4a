CONSTANTS
  Positions = {1, 2, 3}
  Limit = 2
  Items <- MCSeededItems
  TTL = 2
  PromotionTTL = 1
  None = None
  Expired = Expired
SPECIFICATION CacheSpec
INVARIANT SeedIsIdentity
