SPECIFICATION Spec
CONSTANTS
  g = g
  u = u
  Derivations = {g, u}
  Graph = {g}
  Required = {g}
  Known = {g, u}
  Ids = {1, 2}
  Streams <- Contradictions
  MaxNodes = 1
  ChannelCapacity = 2
  Rebuild = FALSE
  MaxRecords = 5
  None = None
  Conflict = Conflict
INVARIANT ConflictStaysRejected
CHECK_DEADLOCK FALSE
