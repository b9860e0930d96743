CONSTANTS
  l1 = l1
  l2 = l2
  Lookups <- TwoLookups
  StoreErrors = FALSE
  MaxBoundaries = 1
  MaxCalls = 2
  MaxExpiries = 0
  MaxRestarts = 1
CHECK_DEADLOCK FALSE
SPECIFICATION Spec
INVARIANT OlderEntriesAreStale
