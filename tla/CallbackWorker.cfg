SPECIFICATION FairSpec
CONSTANTS
  Streams = {stdout, stderr}
  BufferCount = 2
  MaxChunks = 3
INVARIANTS DeliveredInOrder BuffersConserved FinishedMeansDelivered
PROPERTY ClosedWorkerEnds
