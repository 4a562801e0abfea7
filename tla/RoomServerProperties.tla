------------------------ MODULE RoomServerProperties -------------------------
(***************************************************************************)
(* What the room server promises the players of a code and its operator.   *)
(***************************************************************************)
EXTENDS RoomServer

served(s) == step[s] \in {"open", "sending"}

\* Friends who use the same code meet: two sockets that were let in under one code, and that
\* nobody is closing, play in the same room, whatever rooms of that code ended meanwhile.
FriendsMeet ==
  \A s, o \in Socket :
    served(s) /\ served(o) /\ {s, o} \cap told = {} /\ wants[s] = wants[o]
      => asked[s] = asked[o]

\* A socket that is being served is held by its room or is told to close: no client is left
\* connected to a room that forgot it.
ServedIsHeld ==
  \A s \in Socket :
    served(s) /\ s \notin told => linked(s) /\ s \in session[asked[s]].sockets

\* A room with sockets or a match has a deadline, so it notices slow sockets, silent players
\* and the end of its match.
RoomsKeepTime ==
  \A i \in Instance :
    session[i].sockets # {} \/ session[i].host = "alive" => session[i].armed

\* The public list names only rooms that have players and can be joined.
ListedCanBeJoined ==
  \A c \in listed : registry[c] # NoRoom /\ session[registry[c]].joined # {}

\* Through tasks, inboxes and locks, the server keeps the plain promise of CodeRooms: one
\* room per code at a time, entered only while the code has it, given up only when empty.
place[s \in Socket] ==
  IF \E i \in Instance : s \in session[i].sockets
  THEN CHOOSE i \in Instance : s \in session[i].sockets
  ELSE NoRoom

CR == INSTANCE CodeRooms WITH current <- registry, used <- 1..made
OneRoomAtATime == CR!Spec

\* A socket whose handshake was answered is let in, refused or lost: it does not wait for
\* ever, though the rooms it asks end under it.
SocketsAreAnswered ==
  \A s \in Socket : step[s] = "upgrading" ~> step[s] \in {"open", "reporting", "gone"}

\* Server::close comes to its end and leaves no socket behind.
CloseCompletes ==
  stopping ~> terminated /\ \A s \in Socket : step[s] \in {"new", "gone"}
=============================================================================
