\* Three bytes with newlines anywhere, every kind of call, one broken response.
SPECIFICATION FairSpec
CONSTANTS
    MaxSize = 3
    Calls <- MCCalls
    MaxDrops = 1
INVARIANTS ReadsExactly StoppedMeansAllRead
PROPERTY ClientStops
CHECK_DEADLOCK FALSE
