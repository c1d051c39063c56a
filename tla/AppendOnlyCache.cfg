SPECIFICATION Spec
CONSTANTS
  Pages = {1, 2, 3, 4}
  MaxSpace = 4
  limit = 2
INVARIANTS TypeOK CacheBounded CacheTrue OffersFit
