SPECIFICATION FairSpec
CONSTANTS
  Pages = {a, b}
  Creator = a
  Places = 2
  MaxAttempts = 2
  MaxFaults = 1
  MaxEpochs = 2
  MaxMoves = 1
INVARIANTS
  ConnectedHasSeat
PROPERTIES
  ForgottenIsReleased
  EveryJoinSettles
CHECK_DEADLOCK FALSE
