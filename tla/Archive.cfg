SPECIFICATION ArchiveSpec
CONSTANTS
  Track <- McTrack
  Remap <- McSame
  MoofLen <- McMoof
  PrefixLen <- McPrefix
  C2paLen = 25
  Jobs <- ArchiveJobs
  Extra <- ArchiveExtra
  CutUpTo = 250
INVARIANTS
  ChunksResolved
  SamplesWrittenOnce
  GopsCutByTime
  OffsetsPointAtSamples
  ReadsBack
  SkewKept
  RecordedRanges
  PartialIsRefused
  ArchiveTypeOK
  CompleteIsRead
  ScanMatchesUnwrap
  NothingTorn
  SeekMatchesScan
  M4sHeaderPoints
  SameAsDirect
\* A scan ends.
CHECK_DEADLOCK FALSE
