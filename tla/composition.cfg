SPECIFICATION Spec
CONSTANTS
  a = a
  b = b
  Values <- MCValues
  SeedValue = a
  Compositions <- MCCompositions
  Engines <- MCEngines
  RawResults <- MCRawResults
  VoteScores <- MCVoteScores
  Digests <- MCDigests
  None = None
  MaxSteps = 2
  MaxSlices = 3
INVARIANTS TypeOK CheckpointIsChain LineageSound BudgetIsSumOfRuns
PROPERTY NoStepRepeated AnswerIsKept
