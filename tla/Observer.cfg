SPECIFICATION FairSpec
CONSTANTS
  g = g
  u = u
  Derivations = {g, u}
  Graph = {g}
  Required = {g}
  Known = {g, u}
  Ids = {1, 2}
  Streams <- AllStreams
  MaxNodes = 1
  ChannelCapacity = 1
  Rebuild = FALSE
  MaxRecords = 4
  None = None
  Conflict = Conflict
INVARIANTS VerdictIsReported BudgetsConserved CountsAgree
PROPERTIES LiveComesBetween TeardownEnds
CHECK_DEADLOCK FALSE
