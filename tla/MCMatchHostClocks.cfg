SPECIFICATION FairSpec
CONSTANTS
  Conn = {c1, c2}
  NoConn = NoConn
  MaxPlayers = 2
  TeamSlots = 1
  MaxParticipants = 3
  EmptyGrace = 1
  ClientTimeout = 1
  MaxUnacked = 1
  MaxInputLag = 0
  MaxSteps = 1
  RoomIdle = 2
  RoomLife = 2
  BattleOverrun = 1
  MaxIds = 2
  MaxRounds = 1
INVARIANTS
  NoReservationCutShort
PROPERTIES
  SeatsKeptForGrace
  
  EveryRoomEnds
CHECK_DEADLOCK FALSE
