SPECIFICATION MCSpec
CONSTANTS
  NoPath = NoPath
  NoDrv = NoDrv
  Scalar = Scalar
  EmptyName = EmptyName
  LongName = LongName
  MaxNodes = 3
  MaxRetained = 22
  ContainerCost = 1
  Requests <- MCRequests
  Configs <- MCConfigs
  Flake <- MCFlake
  AppContexts <- MCAppContexts
  Size <- MCSize
  Concurrency = 2
  BatchSize = 2
  MaxRoots = 3
  MaxMemory = 4
  World <- MCWorld
  Stores <- MCStores
  Caches <- MCCaches
  Remote <- MCRemote
  Documents <- MCDocuments
INVARIANTS OrderIsIrrelevant SuccessIsRealized  FailureIsExplained ReportedWorkSurvives PhasesBalance StreamIsExact
