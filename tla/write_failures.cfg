\* Every way an upload, a move and a trash request can fail, and every way a mount ends.
CONSTANTS
  f1 = f1
  f2 = f2
  f3 = f3
  doc = doc
  bak = bak
  new = new
  tmp = tmp
  None = None
  Files = {f1, f2}
  Names = {doc, bak, tmp}
  Excluded = {tmp}
  Delayed = {doc, bak}
  MaxUploads = 1
  MaxLinks = 2
  MaxSaves = 1
  Outcomes = {"ok", "noReadback", "transient", "refused", "late"}
  MetaFails = TRUE
  InitialName = doc
SPECIFICATION Spec
INVARIANT TypeOK
 
INVARIANT NothingStranded
SYMMETRY FileSymmetry
CONSTRAINT NoRaceYet
PROPERTY TakenByOne
