SPECIFICATION FairSpec
CONSTANTS
  g1 = g1
  g2 = g2
  a1 = a1
  a2 = a2
  None = None
  Plans <- MCQuestionPlans
  Registered <- MCRegistered
  PaidKinds <- MCPaidKinds
  PlannerIsPaid = FALSE
  Generations = {g1}
  Answers = {a1, a2}
  MaxActions = 3
  MaxCrashes = 0
PROPERTIES
  EveryQuestionAnswered
