SPECIFICATION Spec
CONSTANTS
  Procs <- MCProcs
  counter = counter
  default = default
  last = last
  a = a
  b = b
  Keys = {counter, default, last}
  Subs = {a, b}
  OpsOn <- MCOpsOn
  Readonly = {3}
  MaxOps = 3
INVARIANTS OneStatePerName CountersExact OneDefault
SYMMETRY SubSymmetry
CHECK_DEADLOCK FALSE
