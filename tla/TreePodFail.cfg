SPECIFICATION FairSpec
CONSTANTS
  Pip = 2
  NTasks = 2
  Nexts <- Pair
  WorkerNum <- OneTwo
  ThreadMode = {}
  MaxItems = 2
  Bound <- Zero2
  PipeCapacity = 1
  RestartMax <- Zero2
  MaxErrors <- Second2
  NonBlocking = {2}
  EarlyReturn = {2}
  Stoppable = {}
  MayStopTree = FALSE
  MayInterrupt = FALSE
INVARIANTS KillIsHarmless EndMeansAllReceived
PROPERTIES WorkersStop
