SPECIFICATION Spec
CONSTANTS
  p = p
  t = t
  v0 = v0
  v1 = v1
  NumStages = 2
  StageBudget <- MCStageBudget
  Budgets <- MCBudgets
  Unlimited = Unlimited
  Components <- MCComponents
  Values <- MCValues
  Missing = Missing
  Targets <- MCTargets
  StageSeed <- MCStageSeed
  Seeds <- OneSeed
  Digests <- MCDigests
  None = None
  MaxLives = 3
INVARIANT FailureIsLast
CHECK_DEADLOCK FALSE
