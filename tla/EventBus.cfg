SPECIFICATION FairSpec
CONSTANTS
  s1 = s1  s2 = s2
  goal = goal  clock = clock  AnyType = AnyType
  Publishers = {p1, p2}
  Subscribers = {s1, s2}
  Types = {goal, clock}
  SubType <- MCSubType
  MinCert <- MCMinCert
  Events <- MCEvents
  Capacity = 1
  MaxPublish = 3
INVARIANTS NoMissedEvent CancelIsPrompt OnlyOverlappingPublishPanics
  StopDrains
PROPERTIES StopReturns BroadcastSpec
CHECK_DEADLOCK FALSE
