\* The hot list and four other lists, two of which share a key, two readers and two changes.
CONSTANTS
  r1 = r1  r2 = r2
  Token <- Pieces
  Query <- Lists
  Reader = {r1, r2}
  MaxChanges = 2
  None = None
SPECIFICATION MCSpec
INVARIANTS
  HotStaleForAReason
  MixedByOwnersOnly
PROPERTY
  CachesCatchUp
