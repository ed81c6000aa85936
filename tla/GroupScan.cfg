SPECIFICATION ScanSpec
CONSTANTS
  MaxPid = 4
  Leader = 2
INVARIANT EmptyMeansGone
CHECK_DEADLOCK FALSE
