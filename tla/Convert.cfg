SPECIFICATION Spec
CONSTANTS
  Track <- McTrack
  Remap <- McSame
  MoofLen <- McMoof
  PrefixLen <- McPrefix
  C2paLen = 25
  Jobs <- McJobs
INVARIANTS
  TypeOK
  ChunksResolved
  SamplesWrittenOnce
  GopsCutByTime
  OffsetsPointAtSamples
  ReadsBack
  SkewKept
  RecordedRanges
  PartialIsRefused
\* A conversion ends.
CHECK_DEADLOCK FALSE
