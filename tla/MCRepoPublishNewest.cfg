SPECIFICATION Spec
CONSTANTS
  KwinOf <- MCKwinOf
  Keep = 2
  MaxRuns = 4
INVARIANTS
  NewestKept
CHECK_DEADLOCK FALSE
