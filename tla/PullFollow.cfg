SPECIFICATION Spec
CONSTANTS
  Track <- McTrack
  Remap <- McSame
  MoofLen <- McMoof
  PrefixLen <- McPrefix
  Streams <- FollowStreams
INVARIANT
  EachSampleOnce
CHECK_DEADLOCK FALSE
