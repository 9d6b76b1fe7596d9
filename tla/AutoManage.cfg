\* Two tasks registered twice in all, a pool of two processes, two cleaners; end_task
\* and close at any time.
SPECIFICATION FairSpec
CONSTANTS
  Ids = {a, b}
  Cleaners = {c1, c2}
  PoolSize = 2
  MaxRuns = 2
  None = None
INVARIANTS NoConcurrentRuns LiveTaskIsListed ClosedMeansOver
PROPERTIES EveryTaskFinishes CloseReturns ImplementsLifecycle
