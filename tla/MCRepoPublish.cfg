SPECIFICATION Spec
CONSTANTS
  KwinOf <- MCKwinOf
  Keep = 2
  MaxRuns = 4
INVARIANTS
  TypeOK
  PublishedServed
CHECK_DEADLOCK FALSE
