SPECIFICATION Spec
CONSTANTS
  Track <- McTrack
  Remap <- McSwap
  MoofLen <- McMoof
  PrefixLen <- McPrefix
  Streams <- SegmenterStreams
  BoxParts = 2
  MaxFlushes = 1
INVARIANTS
  TypeOK
  InOrder
  GapFree
  NumbersConsecutive
  KeyframePerGop
  AudioSpans
  IndexDescribesBytes
  NothingLeftToRead
CHECK_DEADLOCK FALSE
