\* Three readers of two files, one of them larger than a block, with failures and rate limits.
CONSTANTS
  r1 = r1
  r2 = r2
  r3 = r3
  f1 = f1
  f2 = f2
  Readers = {r1, r2, r3}
  Handles = {f1, f2}
  Large = {f2}
  Size <- SizeOdd
  Claimed <- ClaimedMore
  BlockUnits = 2
  Chunk = 2
  Spans <- SpanTwo
  MaxCached = 1
  Slots = 1
  Attempts = 2
  Waits = {1, 2}
  MaxFaults = 2
  MaxReads = 3
SPECIFICATION Spec
INVARIANT TypeOK
INVARIANT OneFetcher
INVARIANT DownloadWhole
INVARIANT TransfersEnd
INVARIANT WindowHonoured
SYMMETRY ReadSymm
CONSTRAINT ReadBound
CHECK_DEADLOCK FALSE
