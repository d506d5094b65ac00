SPECIFICATION CallerSpec
CONSTANTS
  Track <- McTrack
  Remap <- McSwap
  MoofLen <- McMoof
  PrefixLen <- McPrefix
  Streams <- LargeMdat
  BoxParts = 2
  MaxFlushes = 1
PROPERTY
  PushImplementsPull
CHECK_DEADLOCK FALSE
