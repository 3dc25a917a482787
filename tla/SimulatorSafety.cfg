\* Control only (WORD = 1): 2 cores, 3 processes, every policy.
CONSTANTS
  p1 = p1
  p2 = p2
  p3 = p3
  Proc = {p1, p2, p3}
  NONE = NONE
  WORD = 1
  Policies = {"FCFS", "SJN", "RR", "Priority"}
  priority <- MCpriority
  burst_time <- MCburst
  IoCosts = {1}
  Cores = {c1, c2}
  IoBound = {p1, p3}
  EndlessSets = {{}}
  MaxSlices = 2
  FullSlice = 2
  ShortSlices = {1}
SPECIFICATION Spec
SYMMETRY CoreSymmetry
INVARIANTS IInv TypeOK ExclusiveOwnership NoLostProcess FinishedCounted PcbOutlivesManager FcfsNonPreemptive
PROPERTIES ListStableWhileScanned BestReadyFirst ImplementsLifecycle
