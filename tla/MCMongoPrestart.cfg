SPECIFICATION Spec
CONSTANTS
  MaxRuns = 2
  MaxFailures = 3
\* After the last run nothing may be left to do.
CHECK_DEADLOCK FALSE
INVARIANTS
  TypeOK
  ReportIsTrue
  NothingLeftRunning
PROPERTIES
  OneFailureKeepsData
  CollectEnds
