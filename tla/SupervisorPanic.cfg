SPECIFICATION CooperativeSpec
CONSTANTS
  Outputs = {stdout}
  CallbackOutputs = {stdout}
  Consumers = {}
  Descendants = {}
  Chunks = 3
  InputChunks = 0
  PipeCapacity = 1
  BufferCount = 2
  Child = child
  None = None
PROPERTY CompletionWakesSupervisor
CHECK_DEADLOCK FALSE
