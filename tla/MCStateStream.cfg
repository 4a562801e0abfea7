SPECIFICATION MCSpec
CONSTANTS
  Clients = {a, b}
  First = a
  MaxBatch = 1
  MaxFulls = 1
  MaxRounds = 2
  MaxTicks = 1
  MaxIdle = 0
  MaxEvents = 1
  MaxScenes = 3
  MaxMoves = 1
INVARIANTS
  HeardIsCurrent
PROPERTIES
  FollowsTheRoom
  EverybodySeesTheBattle
CHECK_DEADLOCK FALSE
