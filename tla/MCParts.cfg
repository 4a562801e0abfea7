SPECIFICATION PartsSpec
CONSTANTS
  Step = 10
  Epsilon = 1
  MaxSteps = 2
  MaxDebt = 32
  Grain = 3
  MaxTime = 54
  MaxBack = 1
  MaxInputs = 1
  Keys = {a, b, c}
  Limit = 1
  Period = 3
  MaxKeys = 2
  MaxElapsed = 7
  Budget = 5
  CloseBytes = 1
  PongBytes = 1
  Sizes = {1, 2}
  Encodings = {1, 3}
  MaxMessages = 4
  MaxPongs = 1
  Check = 1
  Interval = 5
  Timeout = 2
  Lifetime = 16
  MaxMissed = 2
  Tanks = {b1, b2, r1}
  Blues = {b1, b2}
  Mines = {m1}
  Shells = {s1, s2}
  Drums = {d1}
  RoundTime = 1
  ScoreLimit = 2
  MaxLives = 1
INVARIANTS
  InputsOnTime
  OverloadIsEarned
  RefusedOnlyWhenFull
  QueuedIsExact
  ServerStaysListed
  ListingCatchesUp
  ResultIsFair
  LifeKillsAreFresh
  BlastsOnce
PROPERTIES
  OneTickPerCallback
  PeerReadsAPrefix
\* a socket, a battle and the model's time come to their ends
CHECK_DEADLOCK FALSE
