\* Progress while mounted, with one slot and uploads that fail for a time.
CONSTANTS
  f1 = f1
  f2 = f2
  f3 = f3
  doc = doc
  bak = bak
  new = new
  tmp = tmp
  None = None
  Files = {f1, f2}
  Names = {doc, tmp}
  Excluded = {tmp}
  Delayed = {doc}
  MaxUploads = 1
  MaxLinks = 2
  MaxSaves = 1
  Outcomes = {"ok", "transient"}
  MetaFails = FALSE
  InitialName = doc
SPECIFICATION MountedSpec
PROPERTY ReleasesReturn
PROPERTY SavesSettle
