SPECIFICATION FairSpec
CONSTANTS
  p = p
  t = t
  v0 = v0
  v1 = v1
  NumStages = 2
  StageBudget <- MCStageBudget
  Budgets <- OneBudget
  Unlimited = Unlimited
  Components <- MCComponents
  Values <- MCValues
  Missing = Missing
  Targets <- MCTargets
  StageSeed <- MCStageSeed
  Seeds <- MCSeeds
  Digests <- MCDigests
  None = None
  MaxLives = 2
INVARIANTS TypeOK BudgetRespected MemoryMatchesCheckpoint
  FrozenRespected AnnouncedIsDurable
PROPERTY StopsAfterFailure ImplementsLedger RunTerminates
CHECK_DEADLOCK FALSE
