SPECIFICATION Spec
CONSTANTS
  LastMinor = 2
  Runs = {r1, r2}
  MaxFailures = 2
INVARIANTS
  TypeOK
  NeverAhead
PROPERTIES
  MergesStayBehind
  EventuallyProposed
