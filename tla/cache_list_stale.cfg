\* The instance of cache.cfg with one change.
CONSTANTS
  r1 = r1  r2 = r2
  Token <- Pieces
  Query <- Lists
  Reader = {r1, r2}
  MaxChanges = 1
  None = None
SPECIFICATION MCSpec
INVARIANTS
  ListStaleForAReason
