\* One folder with two links and no bound but on changes: readers are let go, listings catch up.
CONSTANTS
  A = A
  B = B
  x1 = x1
  x2 = x2
  a1 = a1
  a2 = a2
  c1 = c1
  c2 = c2
  None = None
  Folders = {A}
  Root = A
  Links = {x1, x2}
  Lives = {a1}
  Fetches = {c1}
  MaxChanges = 2
  Initial <- InitialA
  Persisted <- PersistedEmpty
SPECIFICATION FairSpec
 
PROPERTY ListingsCatchUp
