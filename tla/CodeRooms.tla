------------------------------ MODULE CodeRooms ------------------------------
(***************************************************************************)
(* What RoomServer promises, without tasks, inboxes or locks: a code has   *)
(* at most one room at a time, always a new one; a socket enters only the  *)
(* room its code has at that moment; and a room is given up only when      *)
(* nobody is in it, so nobody is ever in a room that its code has left.    *)
(***************************************************************************)
CONSTANTS Socket, Code, Instance, NoRoom

VARIABLES
  current,  \* the room of every code, or NoRoom
  used,     \* rooms that codes have or had
  place     \* the room every socket is in, or NoRoom

vars == <<current, used, place>>

Init ==
  /\ current = [c \in Code |-> NoRoom]
  /\ used = {}
  /\ place = [s \in Socket |-> NoRoom]

Inside(i) == {s \in Socket : place[s] = i}

\* A code without a room gets one that no code had before.
Open(c) ==
  /\ current[c] = NoRoom
  /\ \E i \in Instance \ used :
       /\ current' = [current EXCEPT ![c] = i]
       /\ used' = used \cup {i}
  /\ UNCHANGED place

\* A socket enters the room its code has now.
Enter(s, c) ==
  /\ current[c] # NoRoom
  /\ place[s] = NoRoom
  /\ place' = [place EXCEPT ![s] = current[c]]
  /\ UNCHANGED <<current, used>>

\* Sockets of one room leave it.
Exit(i) ==
  /\ i # NoRoom
  /\ \E S \in SUBSET Inside(i) :
       place' = [s \in Socket |-> IF s \in S THEN NoRoom ELSE place[s]]
  /\ UNCHANGED <<current, used>>

\* A code gives up its room, in which nobody is.
Close(c) ==
  /\ current[c] # NoRoom
  /\ Inside(current[c]) = {}
  /\ current' = [current EXCEPT ![c] = NoRoom]
  /\ UNCHANGED <<used, place>>

Next ==
  \/ \E c \in Code : Open(c) \/ Close(c)
  \/ \E s \in Socket, c \in Code : Enter(s, c)
  \/ \E i \in Instance : Exit(i)

Spec == Init /\ [][Next]_vars
=============================================================================
