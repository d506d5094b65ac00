SPECIFICATION Spec
CONSTANTS
  Track <- McTrack
  Remap <- McSame
  MoofLen <- McMoof
  PrefixLen <- McPrefix
  Streams <- PullStreams
INVARIANT
  EachSampleOnce
CHECK_DEADLOCK FALSE
