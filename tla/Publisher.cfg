SPECIFICATION MCFairSpec
CONSTANTS
  a = a  b = b  c = c
  Paths = {a, b, c}
  Requests <- MCRequests
  Workers = {w1, w2}
  MaxPrior = 1
  None = None
INVARIANTS SuccessIsDurable StoppedQueueStaysStopped RefusalIsJustified
PROPERTIES MetadataComesLast 
CHECK_DEADLOCK FALSE
