SPECIFICATION Spec
CONSTANTS
  Track <- WideTrack
  Video <- McVideo
  Inputs <- GoInputs
INVARIANTS
  OneEventPerGop
CHECK_DEADLOCK FALSE
