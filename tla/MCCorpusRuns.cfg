SPECIFICATION FairStoreSpec
CONSTANTS
  d1 = d1
  d2 = d2
  s1 = s1
  s2 = s2
  s3 = s3
  None = None
  Sources = {s1, s2, s3}
  Order <- MCOrder
  Text <- MCText
  Grade <- MCGrade
  Tranche <- MCSingles
  Runs <- MCThreeRuns
  Overlap = FALSE
  MaxCrashes = 1
CHECK_DEADLOCK FALSE
INVARIANTS SharedBytesKept DependentsInvalidated RevokedStays
PROPERTY RunsComplete
