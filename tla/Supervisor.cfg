SPECIFICATION MCFairSpec
CONSTANTS
  Outputs = {stdout}
  CallbackOutputs = {stdout}
  Consumers = {stderr}
  Descendants = {d1}
  Chunks = 1
  InputChunks = 1
  PipeCapacity = 1
  BufferCount = 1
  Child = child
  None = None
INVARIANTS  SuccessIsComplete FreeBufferWakes
PROPERTY CleanupIsBounded
CHECK_DEADLOCK FALSE
