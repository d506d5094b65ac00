SPECIFICATION Spec
CONSTANTS
  Programs <- McPrograms
  FileSize = 4
  DataSize = 2
INVARIANTS
  TypeOK
  ReadsAreWhatWasAsked
  OutputInOrder
  OneSideAtATime
PROPERTY
  WorkerReturns
\* The conversion ends.
CHECK_DEADLOCK FALSE
