SPECIFICATION ScheduleSpec
CONSTANTS
  Requests <- MCRequests
  Durations = {1, 6}
  MaxTime = 1
  MaxMs = 15
  None = None
INVARIANTS OwnedOnce CriticalPathIsLongest 
CHECK_DEADLOCK FALSE
