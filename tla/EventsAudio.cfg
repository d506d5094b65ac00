SPECIFICATION Spec
CONSTANTS
  Track <- McTrack
  Video <- McVideo
  Inputs <- MixedInputs
INVARIANTS
  OneEventPerGop
CHECK_DEADLOCK FALSE
