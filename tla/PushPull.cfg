SPECIFICATION CallerSpec
CONSTANTS
  Track <- McTrack
  Remap <- McSwap
  MoofLen <- McMoof
  PrefixLen <- McPrefix
  Streams <- PairedStreams
  BoxParts = 2
  MaxFlushes = 1
PROPERTIES
  PushImplementsPull
  EverySampleDelivered
CHECK_DEADLOCK FALSE
