\* One core under Round Robin, no I/O: its times, with a program that may never end.
CONSTANTS
  p1 = p1
  p2 = p2
  p3 = p3
  Proc = {p1, p2, p3}
  NONE = NONE
  WORD = 32
  Policies = {"RR"}
  priority <- MCpriority
  burst_time <- MCburst
  IoCosts = {1}
  Cores = {c1}
  IoBound = {}
  EndlessSets = {{}, {p1}}
  MaxSlices = 2
  FullSlice = 2
  ShortSlices = {1}
SPECIFICATION FairSpec
INVARIANTS TurnaroundSplits ReportAddsUp
PROPERTIES OthersFinish
