SPECIFICATION Spec
CONSTANTS
  Processes = {p1}
  Candidates = {c1}
  Outcomes = {"refuting", "supporting"}
  Usage = {1}
  Estimate = 1
  MaxTokens = 5
  MaxCalls = 5
  MaxRounds = 1
  MaxAttempts = 2
  MaxFaults = 0
  MaxCommands = 0
  a = a
  b = b
  p1 = p1
  c1 = c1
  g1 = g1
  Reviewers = {a, b}
  Sources = {}
  Obligations = {g1}
  Terms = {k1, k2}
  k1 = k1
  k2 = k2
  MaxDecisions = 4
  o1 = o1
  o2 = o2
  o3 = o3
  Openers = {o1, o2, o3}
  Asked = {"allowed", "prohibited", "takedown", "restore", "hold", "release", "request"}
  Moments = {1, 2}
  MaxRows = 5
  MaxActs = 1
  MaxTroubles = 1
  q1 = q1
  q2 = q2
  Parties = {q1, q2}
  Bodies = {"x", "y"}
  Parses = {"t"}
  RecordCeiling = 4
  MaxVisits = 3
  MaxDeaths = 1
  MaxChanges = 1
SYMMETRY MCSymmetry
INVARIANTS WarrantsEarned GrantedOnce ErasureSound CandidatesAccounted
CHECK_DEADLOCK FALSE
