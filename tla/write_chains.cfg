\* No failures, mounted throughout: three files with a save each, so that a rename over the
\* target of a rename links a wait chain, or two files with one save under three names that upload.
CONSTANTS
  f1 = f1
  f2 = f2
  f3 = f3
  doc = doc
  bak = bak
  new = new
  tmp = tmp
  None = None
  Files = {f1, f2, f3}
  Names = {doc, bak, new, tmp}
  Excluded = {tmp}
  Delayed = {doc, bak, new}
  MaxUploads = 2
  MaxLinks = 3
  MaxSaves = 3
  Outcomes = {"ok"}
  MetaFails = FALSE
  InitialName = doc
SPECIFICATION Spec
 
 
INVARIANT OwnedByRelease
SYMMETRY ChainSymmetry
CONSTRAINT ChainBound
