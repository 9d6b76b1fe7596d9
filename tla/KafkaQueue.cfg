SPECIFICATION FairSpec
CONSTANTS
  t1 = t1
  j1 = j1
  j2 = j2
  Jobs = {j1, j2}
  Topics = {t1}
  Job <- MCJob
  Parts <- MCParts
  AskSets <- MCAskSets
  Options <- MCOptions
  MaxLost = 1
  MaxCrash = 1
  MaxRequests = 1
INVARIANTS ReturnedMeansDelivered CommittedIsProcessed EndMeansProcessed
PROPERTIES EverythingProcessed
