\* All covered programs of four instructions, words of 6 bits, quanta below and above the depth.
CONSTANTS
  zero = zero
  t0 = t0
  t1 = t1
  HALF = 8
  Register = {zero, t0, t1}
  ZERO = zero
  Address = {0, 1}
  Programs <- MCPrograms
  Quanta = {1, 2, 7}
  InitialMemory <- MCMemory
  LIMIT = 5
SPECIFICATION PipelineSpec
INVARIANTS PipelineTypeOK StagesInData SliceLength BlockedByPrint
PROPERTIES ImplementsInstructionSet
