SPECIFICATION FairSpec
CONSTANTS
  t1 = t1
  t2 = t2
  t3 = t3
  l1 = l1
  l2 = l2
  s1 = s1
  Tasks <- MCTasks
  Loops <- MCLoops
  Makings <- MCUnmixed
  MaxConcurrency <- MCConcurrency
  Unlimited = Unlimited
  NumScopes = 2
  Slots <- MCSlots
  SlotOf <- MCSlotOf
  None = None
INVARIANTS TypeOK CapacityAccounted ScopeIsolated ScopeRestored
PROPERTY EveryCallEnds
CHECK_DEADLOCK FALSE
