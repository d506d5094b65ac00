SPECIFICATION Spec
CONSTANTS
  Track <- McTrack
  Remap <- McSame
  MoofLen <- McMoof
  PrefixLen <- McPrefix
  C2paLen = 25
  Jobs <- McJobs
INVARIANT EveryMoofDeclared
CHECK_DEADLOCK FALSE
