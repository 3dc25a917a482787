\* Two core clocks: a process that migrates ends before it ran.
CONSTANTS
  p1 = p1
  p2 = p2
  p3 = p3
  Proc = {p1, p2}
  NONE = NONE
  WORD = 64
  Policies = {"RR"}
  priority <- MCpriority
  burst_time <- MCburst
  IoCosts = {1}
  Cores = {c1, c2}
  IoBound = {}
  EndlessSets = {{}}
  MaxSlices = 2
  FullSlice = 2
  ShortSlices = {1}
SPECIFICATION Spec
INVARIANTS TurnaroundCoversCpu
