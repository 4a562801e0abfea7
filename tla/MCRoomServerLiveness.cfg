SPECIFICATION FairSpec
CONSTANTS
  Socket = {s1, s2}
  MaxSockets = 1
  Code = {c1}
  NoCode = NoCode
  MaxRooms = 1
  Inbox = 1
  MaxInstances = 1
PROPERTIES
  
  CloseCompletes
\* the server may be closed
CHECK_DEADLOCK FALSE
