SPECIFICATION Spec
CONSTANTS
  None = None
  Nil = Nil
  t1 = t1
  t2 = t2
  b1 = b1
  c1 = c1
  c2 = c2
  r1 = r1
  g1 = g1
  g2 = g2
  Times = {t1, t2}
  Lists <- MCLists
  MaxActions = 7
  MaxRunDeaths = 2
  Fields <- MCFields
  Limits <- MCLimits
  MaxTotalCost = 4
  Policed = TRUE
  Primary = "main"
  Fallback = "spare"
  Requests <- MCRequests
  Reserves <- MCReserves
  Uses <- MCUses
  MaxAttempts = 4
  MaxRestarts = 2
  Branches = {b1}
  Texts = {"x"}
  Outputs = {"x", "y"}
  MaxTurns = 5
  MaxToolRuns = 2
  MaxRepairs = 2
  ActivationTokens = 1
  UsageOfCall = {0, 1, 3}
  CallReserve = 2
  MaxCallAttempts = 5
  MaxCallTokens = 6
  MaxLives = 3
  Commands = {c1, c2}
  Resumes = {r1}
  Contents = {"x", "y"}
  Witnesses <- MCWitnesses
  Decompositions <- MCDecompositions
  ExtentValues <- MCExtentValues
  Unsupplied = Unsupplied
  Unanswered = Unanswered
  SeedCycle = 2
  MaxHalves = 14
  MAX_DENSE_ORDER = 5
  MAX_ROOT_ENUMERATION = 100
  MAX_ISOLATION_STEPS = 6
  MAX_REFINEMENT_STEPS = 3
INVARIANTS
  CampaignsTypeOK
  SummaryStands
  BudgetBinds
  LadderClimbed
  ExportCloses
  CallsWithinBudget
  LedgerReadable
  SpectraExact
PROPERTIES
  PrivateUnlessRun
CHECK_DEADLOCK FALSE
