\* Two folders and a link, two changes of the drive, two fetches, up to the known races.
CONSTANTS
  A = A
  B = B
  x1 = x1
  x2 = x2
  a1 = a1
  a2 = a2
  c1 = c1
  c2 = c2
  None = None
  Folders = {A, B}
  Root = A
  Links = {x1}
  Lives = {a1, a2}
  Fetches = {c1, c2}
  MaxChanges = 2
  Initial <- InitialA
  Persisted <- PersistedEmpty
SPECIFICATION Spec
INVARIANT TypeOK
INVARIANT OneFetchPerFolder
INVARIANT OwnChangesShown
 
 
INVARIANT PersistedAgrees
SYMMETRY Symm
CONSTRAINT FolderBound
VIEW ListingView
