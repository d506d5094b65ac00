SPECIFICATION Spec
CONSTANTS
  Track <- McTrack
  Video <- McVideo
  Inputs <- MixedInputs
INVARIANTS
  NothingDropped
  InitCoversGop
  GopsKept
CHECK_DEADLOCK FALSE
