\* Liveness: 2 cores, 2 processes that may both do I/O.
CONSTANTS
  p1 = p1
  p2 = p2
  p3 = p3
  Proc = {p1, p2}
  NONE = NONE
  WORD = 1
  Policies = {"FCFS", "RR"}
  priority <- MCpriority
  burst_time <- MCburst
  IoCosts = {1}
  Cores = {c1, c2}
  IoBound = {p1, p2}
  EndlessSets = {{}}
  MaxSlices = 2
  FullSlice = 2
  ShortSlices = {1}
SPECIFICATION FairSpec
PROPERTIES EveryRunReturns BlockedIsServed
