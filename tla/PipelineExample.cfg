SPECIFICATION FairSpec
CONSTANTS
  Gops = 5
  Cap <- McCap
  Reads <- McExample
  Manifests = 0
  ManifestLen <- McShort
  InitialLen = 1
  MaxLen = 3
  MayFail = FALSE
  MayCancel = FALSE
PROPERTIES
  WriterReturns
CHECK_DEADLOCK FALSE
