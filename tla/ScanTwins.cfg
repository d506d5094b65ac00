SPECIFICATION ArchiveSpec
CONSTANTS
  Track <- McTrack
  Remap <- McSame
  MoofLen <- McMoof
  PrefixLen <- McPrefix
  C2paLen = 25
  Jobs <- ArchiveJobs
  Extra <- ArchiveExtra
  CutUpTo = 250
INVARIANT TwinsAccept
CHECK_DEADLOCK FALSE
