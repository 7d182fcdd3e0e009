SPECIFICATION Spec
CONSTANTS
  t1 = t1
  t2 = t2
  c1 = c1
  raw = raw
  bad = bad
  x = x
  y = y
  Calls <- MCCalls
  Candidates <- MCCandidates
  Normalized <- MCNormalized
  Characters <- MCCharacters
  Cases <- MCCases
  MaxLength = 2
  MaxInvocations = 2
  None = None
SYMMETRY Symmetry
INVARIANTS TypeOK KeptWasReturned FoundIsOwn PolicyRespected BlamedRightly
CHECK_DEADLOCK FALSE
