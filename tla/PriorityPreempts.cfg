\* Priority: a started process goes before a higher one back from I/O.
CONSTANTS
  p1 = p1
  p2 = p2
  p3 = p3
  Proc = {p1, p2}
  NONE = NONE
  WORD = 1
  Policies = {"Priority"}
  priority <- MCpriority
  burst_time <- MCburst
  IoCosts = {1}
  Cores = {c1}
  IoBound = {p2}
  EndlessSets = {{}}
  MaxSlices = 3
  FullSlice = 2
  ShortSlices = {1}
SPECIFICATION Spec
PROPERTIES HighestPriorityFirst
