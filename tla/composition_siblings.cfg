SPECIFICATION Spec
CONSTANTS
  a = a
  b = b
  Values <- MCValues
  SeedValue = a
  Compositions <- MCParallel
  Engines <- MCEngines
  RawResults <- MCRawResults
  VoteScores <- MCVoteScores
  Digests <- MCDigests
  None = None
  MaxSteps = 1
  MaxSlices = 2
INVARIANT SiblingsShareParent
