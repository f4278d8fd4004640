\* Past every race that loses nothing, with uploads that fail for a time, and the unmount.
CONSTANTS
  f1 = f1
  f2 = f2
  f3 = f3
  doc = doc
  bak = bak
  new = new
  tmp = tmp
  None = None
  Files = {f1, f2}
  Names = {doc, tmp}
  Excluded = {tmp}
  Delayed = {doc}
  MaxUploads = 1
  MaxLinks = 2
  MaxSaves = 2
  Outcomes = {"ok", "transient"}
  MetaFails = FALSE
  InitialName = doc
SPECIFICATION Spec
 
INVARIANT NothingStranded
INVARIANT ExcludedStaysLocal
SYMMETRY FileSymmetry
CONSTRAINT NoLossYet
VIEW LossView
