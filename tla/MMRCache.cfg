CONSTANTS
  l1 = l1
  l2 = l2
  Lookups <- TwoLookups
  StoreErrors = TRUE
  MaxBoundaries = 2
  MaxCalls = 2
  MaxExpiries = 1
  MaxRestarts = 1
CHECK_DEADLOCK FALSE
SPECIFICATION FairSpec
INVARIANTS SingleFlight HitsAreOfThisMatch FallsBack
PROPERTY LookupsReturn
