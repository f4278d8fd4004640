\* Two blocks and a listing, two writers, an eviction, a clear and restarts through a migration.
CONSTANTS
  b1 = b1
  b2 = b2
  l1 = l1
  w1 = w1
  w2 = w2
  None = None
  BlockKeys = {b1, b2}
  ListingKeys = {l1}
  Writers = {w1, w2}
  Lengths = {1, 2}
  Limit = 3
  OldLayout = {b1, b2}
  MaxPuts = 3
  MaxStarts = 3
  MaxClears = 1
SPECIFICATION Spec
INVARIANT TypeOK
INVARIANT Accounted
INVARIANT WithinBudget
INVARIANT OldBlocksFound
SYMMETRY CacheSymm
CHECK_DEADLOCK FALSE
