SPECIFICATION MCSpec
CONSTANTS
  IDs = {"a", "b", "c", "x"}
  Dirs <- SomeDirs
  PerSecond = 2
  SessionTime = 3
  MaxMatches = 2
  MaxSaved = 2
  g1 = g1
  g2 = g2
  g3 = g3
  NoGuid = NoGuid
  me = me
  p = p
  q = q
  Guids <- ThreeMatches
  Players <- ThreePlayers
  Unstable <- OneUnstable
  Past <- OneRecorded
  Games <- TwoGames
  QueueSize = 1
  Replays = {r1, r2}
  PlayTime = 5
  Window = 4
INVARIANTS
  RequiredFirst
  RefusesOnlyTheUnsound
  SessionsKeepEveryMatch
  LiveAgreesWithSaved
  AnswersAreFresh
  OnlyUploadedAreRemoved
  ReplaysMeetTheirMatch
PROPERTY ErrorsAreRetried
CHECK_DEADLOCK FALSE
