CONSTANTS
  g1 = g1
  g2 = g2
  a = a
  b = b
  NoGuid = NoGuid
  Guids <- TwoMatches
  Players <- OnePlayer
  Packets <- MatchPackets
  StoreErrors <- NoErrors
  MaxRowid = 2
  MaxScore = 1
  Clocks <- LateClock
  EndWinners <- NoTeam
SPECIFICATION MCSpec
INVARIANT UpsertReturnsOwnRow
