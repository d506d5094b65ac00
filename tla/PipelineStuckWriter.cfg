SPECIFICATION FairSpec
CONSTANTS
  Gops = 3
  Cap <- McCap
  Reads <- McAll
  Manifests = 0
  ManifestLen <- McShort
  InitialLen = 1
  MaxLen = 3
  MayFail = TRUE
  MayCancel = FALSE
PROPERTIES
  WriterReturns
CHECK_DEADLOCK FALSE
