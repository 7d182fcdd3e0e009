SPECIFICATION Spec
CONSTANTS
  seed = seed
  better = better
  d1 = d1
  d2 = d2
  Candidates <- MCCandidates
  Seed = seed
  Digests <- MCDigests
  None = None
  MaxLives = 3
INVARIANT AnswerIsFinal
CHECK_DEADLOCK FALSE
