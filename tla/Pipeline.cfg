SPECIFICATION FairSpec
CONSTANTS
  Gops = 3
  Cap <- McCap
  Reads <- McAll
  Manifests = 3
  ManifestLen <- McLen
  InitialLen = 1
  MaxLen = 3
  MayFail = TRUE
  MayCancel = TRUE
INVARIANTS
  TypeOK
  InStep
  ClosedWhenOver
  ManifestFollows
PROPERTIES
  WriterReturnsIfCalm
  ChannelsClose
CHECK_DEADLOCK FALSE
