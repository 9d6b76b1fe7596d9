SPECIFICATION FairSpec
CONSTANTS
  k1 = k1
  k2 = k2
  s1 = s1
  s2 = s2
  r1 = r1
  r2 = r2
  Keys = {k1, k2}
  Senders = {s1, s2}
  Receivers = {r1, r2}
  Scenarios <- MCScenarios
  TimeoutReads = 2
  MaxKills = 1
  MaxExpiries = 1
CHECK_DEADLOCK FALSE
INVARIANTS QueueBounded EndMeansTaken
PROPERTIES EveryReceiverEnds SenderReturns
