\* An unmount that the daemon does not start itself.
CONSTANTS
  f1 = f1
  f2 = f2
  f3 = f3
  doc = doc
  bak = bak
  new = new
  tmp = tmp
  None = None
  Files = {f1}
  Names = {doc}
  Excluded = {}
  Delayed = {doc}
  MaxUploads = 1
  MaxLinks = 2
  MaxSaves = 1
  Outcomes = {"ok"}
  MetaFails = FALSE
  InitialName = doc
SPECIFICATION Spec
INVARIANT UnmountLosesNothing
