SPECIFICATION Spec
CONSTANTS
  Socket = {s1, s2}
  MaxSockets = 2
  Code = {c1, c2}
  NoCode = NoCode
  MaxRooms = 2
  Inbox = 1
  MaxInstances = 2
SYMMETRY Interchangeable
INVARIANTS
  FriendsMeet
  ServedIsHeld
  RoomsKeepTime
  ListedCanBeJoined
PROPERTIES
  OneRoomAtATime
\* the server may be closed
CHECK_DEADLOCK FALSE
