SPECIFICATION FairSpec
CONSTANTS
  Pip = 2
  NTasks = 3
  Nexts <- Chain
  WorkerNum <- OneTwoOne
  ThreadMode = {}
  MaxItems = 2
  Bound <- Two3
  PipeCapacity = 1
  RestartMax <- Second3
  MaxErrors <- Second3
  NonBlocking = {}
  EarlyReturn = {}
  Stoppable = {}
  MayStopTree = FALSE
  MayInterrupt = FALSE
INVARIANTS NeverStuck LastWorkerAlone TreeInv
PROPERTIES ImplementsDataStream CleansOnlyEnds TreeEnds
