SPECIFICATION Spec
CONSTANTS
  Track <- McTrack
  Remap <- McSame
  MoofLen <- McMoof
  PrefixLen <- McPrefix
  Streams <- FaultyStreams
  BoxParts = 1
  MaxFlushes = 1
INVARIANTS
  CutIsDelivered
CHECK_DEADLOCK FALSE
