SPECIFICATION ResumedSpec
CONSTANTS
  p1 = p1
  p2 = p2
  p3 = p3
  o1 = o1
  o2 = o2
  None = None
  Procs = {p1}
  Outcomes = {o1}
  MaxCrashes = 1
  Calls <- MCRetry
PROPERTIES
  RetryCompletes
