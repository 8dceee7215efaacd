SPECIFICATION Spec
CONSTANTS
  d1 = d1
  d2 = d2
  s1 = s1
  s2 = s2
  s3 = s3
  None = None
  Sources = {s1, s2, s3}
  Order <- MCOrder
  Text <- MCText
  Grade <- MCGrade
  Tranche <- MCRevised
  Runs <- MCTwoRuns
  Overlap = TRUE
  MaxCrashes = 1
  p1 = p1
  p2 = p2
  x1 = x1
  c1 = c1
  c2 = c2
  f1 = f1
  f2 = f2
  f3 = f3
  FetchRuns = {f1, f2, f3}
  Documents = 2
  MaxTogether = 2
  Processes = {p1, p2}
  Candidates = {c1, c2}
  Outcomes = {"refuting", "supporting"}
  Usage = {1}
  Estimate = 1
  MaxTokens = 6
  MaxCalls = 6
  MaxRounds = 2
  MaxAttempts = 2
  MaxFaults = 1
  MaxCommands = 1
  Proposals = {x1}
  Proofs = {z1, z2, z3}
  Names = {"n"}
  RepairAttempts = 3
  MaxRequests = 2
  MaxFindings = 2
  u1 = u1
  u2 = u2
  u3 = u3
  Unreadable = Unreadable
  Queries = 2
  Providers <- MCProviders
  Pages = 2
  Items = {"i", "j"}
  Sizes = {0, 1, 2}
  SweepRequests = 4
  SweepBytes = 3
  SweepPerRequest = 2
  SweepCandidates = 3
  Targets = {u1, u2, u3}
  OnList = {u1, u2}
  References <- MCReferences
  MaxFollowed = 1
  Hosts <- MCHosts
  BodySizes = {0, 1, 2}
  BatchBytes = 3
  BatchPerUrl = 2
  Hypotheses = {y1, y2, y3}
  Signatures = {"s"}
  MaxIterations = 4
  MaxModelCalls = 6
  StagnationWindow = 2
  PerIteration = 2
  IterationTokens = 2
  CallEstimate = 1
  CallUsage = {1, 2}
  Window = 1
  MaxLaunches = 2
  y1 = y1
  y2 = y2
  y3 = y3
  z1 = z1
  z2 = z2
  z3 = z3
  w1 = w1
  w2 = w2
  Sessions = {w1, w2}
  Entries <- MCEntries
  Instants = {1}
  MaxRecords = 3
  i1 = i1
  i2 = i2
  Ingestions = {i1, i2}
  Corpus = {1, 2}
  Vectors = {"u", "v"}
  TokenCounts = {1, 2}
  PerCallReserve = 2
  MaxInputTokens = 3
  MaxCost = 3
  Rate = 1
  MaxEmbedCalls = 2
  MaxWithdrawals = 1
SYMMETRY MCSymmetry
INVARIANTS
  ServicesTypeOK
  ServedByRight
  AskedOnce
  RoundsLinked
  StrandedOnlyByFault
  RepairHasNoLineage
  WrittenChecksOut
  SessionAccounted
PROPERTIES
  RunKept
CHECK_DEADLOCK FALSE
