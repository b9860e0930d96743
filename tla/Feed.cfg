SPECIFICATION MCSpec
CONSTANTS
  g1 = g1
  Guids = {g1, g2}
  NoGuid = NoGuid
  MaxDials = 4
  MaxReconnects = 3
INVARIANTS
  TokenIsKept
  CapturesAreWhole
  PlayersOfTheMatch
  SubscribersKeepUp
PROPERTIES
  ReconnectHappens
  RestartNamesTheMatchLeft
CHECK_DEADLOCK FALSE
