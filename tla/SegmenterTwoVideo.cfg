SPECIFICATION Spec
CONSTANTS
  Track <- McTrack
  Remap <- McSame
  MoofLen <- McMoof
  PrefixLen <- McPrefix
  Streams <- TwoVideoStreams
  BoxParts = 2
  MaxFlushes = 1
INVARIANTS
  VideoStartsWithKeyframe
CHECK_DEADLOCK FALSE
