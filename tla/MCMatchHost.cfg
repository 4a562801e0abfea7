SPECIFICATION Spec
CONSTANTS
  Conn = {c1, c2}
  NoConn = NoConn
  MaxPlayers = 2
  TeamSlots = 1
  MaxParticipants = 2
  EmptyGrace = 1
  ClientTimeout = 0
  MaxUnacked = 0
  MaxInputLag = 0
  MaxSteps = 1
  RoomIdle = 1
  RoomLife = 2
  BattleOverrun = 1
  MaxIds = 3
  MaxRounds = 2
SYMMETRY Connections
INVARIANTS
  OneSocketPerSeat
  HostIsConnected
PROPERTIES
  StartBuildsRound
  
\* a disposed room is over
CHECK_DEADLOCK FALSE
