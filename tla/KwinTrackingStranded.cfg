SPECIFICATION Spec
CONSTANTS
  LastMinor = 2
  Runs = {r1}
  MaxFailures = 1
PROPERTIES
  IssueLeadsToPull
