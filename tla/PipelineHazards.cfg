\* A store before a write of its register, and END behind a branch that is taken.
CONSTANTS
  zero = zero
  t0 = t0
  t1 = t1
  HALF = 8
  Register = {zero, t0, t1}
  ZERO = zero
  Address = {0, 1}
  Programs <- MCHazards
  Quanta = {7}
  InitialMemory <- MCMemory
  LIMIT = 5
SPECIFICATION PipelineSpec
PROPERTIES ImplementsInstructionSet
