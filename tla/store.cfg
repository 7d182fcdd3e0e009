SPECIFICATION Spec
CONSTANTS
  d1 = d1
  d2 = d2
  Digests <- MCDigests
  None = None
  MaxStep = 2
  MaxRuns = 2
  MaxLives = 3
INVARIANT TypeOK ManifestNeverAhead AcknowledgedIsDurable
PROPERTY ImplementsAtomicStore
CHECK_DEADLOCK FALSE
