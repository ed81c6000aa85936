SPECIFICATION Spec
CONSTANTS
  w1 = w1  w2 = w2  w3 = w3  first = first  second = second
  Writers = {w1, w2, w3}
  Processes = {first, second}
  Process <- Threads
  Pid <- SamePid
  Guarded = {w1, w2}
  MaxAttempts = 2
  None = None
INVARIANTS DestinationIsComplete ResultIsTrue
  TemporariesAreOwned
PROPERTY CancellationIsFinal
CHECK_DEADLOCK FALSE
