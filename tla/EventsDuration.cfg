SPECIFICATION Spec
CONSTANTS
  Track <- McTrack
  Video <- McVideo
  Inputs <- MixedInputs
INVARIANTS
  DurationAsLive
CHECK_DEADLOCK FALSE
