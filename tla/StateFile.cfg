SPECIFICATION Spec
CONSTANTS
  NItems = 5
  SaveStep = 2
  MaxRuns = 3
INVARIANTS SafeToResume CompleteRunHandlesAll
CHECK_DEADLOCK FALSE
