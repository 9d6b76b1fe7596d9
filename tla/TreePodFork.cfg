SPECIFICATION FairSpec
CONSTANTS
  Pip = 2
  NTasks = 3
  Nexts <- Fork
  WorkerNum <- InlineTwoOne
  ThreadMode = {2}
  MaxItems = 2
  Bound <- Zero3
  PipeCapacity = 6
  RestartMax <- Zero3
  MaxErrors <- First3
  NonBlocking = {}
  EarlyReturn = {}
  Stoppable = {3}
  MayStopTree = TRUE
  MayInterrupt = FALSE
PROPERTIES TreeEnds
