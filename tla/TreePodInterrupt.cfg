SPECIFICATION FairSpec
CONSTANTS
  Pip = 2
  NTasks = 2
  Nexts <- Pair
  WorkerNum <- OneTwo
  ThreadMode = {}
  MaxItems = 2
  Bound <- Zero2
  PipeCapacity = 6
  RestartMax <- Zero2
  MaxErrors <- Zero2
  NonBlocking = {}
  EarlyReturn = {}
  Stoppable = {}
  MayStopTree = FALSE
  MayInterrupt = TRUE
PROPERTIES JoinMakesSureOfExit
