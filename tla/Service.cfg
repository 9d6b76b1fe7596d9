\* One timed task, two request threads that serve two requests, one SIGINT at any time.
SPECIFICATION FairSpec
CONSTANTS
    TimingTasks = {t1}
    Interval <- Intervals
    RunImmediate = {t1}
    Threads = {h1, h2}
    Requests = {1, 2}
    NoBody = {2}
    MaxInterrupts = 1
INVARIANTS ServesOwnRequests AnsweredOnce
PROPERTIES ServiceEnds
CHECK_DEADLOCK FALSE
