CONSTANTS
  g1 = g1
  g2 = g2
  a = a
  b = b
  NoGuid = NoGuid
  Guids <- TwoMatches
  Players <- TwoPlayers
  Packets <- AllPackets
  StoreErrors <- Errors
  MaxRowid = 2
  MaxScore = 1
  Clocks <- BothClocks
  EndWinners <- BlueOrNone
SYMMETRY Symmetric
SPECIFICATION MCSpec
INVARIANTS
  OwnDataOnly
  OpenIsCurrent
  ForfeitIsALead
PROPERTIES
  JournalSpec
  LiveTouchesKept
  RosterKeptInPlay
