----------------------------- MODULE RoomServer ------------------------------
(***************************************************************************)
(* Rooms and their sockets as concurrent tasks: server.rs (reserve, admit, *)
(* serve_socket, close), room_task.rs and the ends of socket.rs, all in    *)
(* crates/server/src.                                                      *)
(*                                                                         *)
(* A room is a task with a bounded inbox; the registry, a map under a      *)
(* lock, names the room of a code.  A socket is a task too: it queues an   *)
(* Open, waits for the room's answer, and at its end reports to the room.  *)
(* Rooms are numbered by `next_instance`.  An action is what a task does   *)
(* between two points where others can run: a critical section of the      *)
(* registry's lock, one turn of a room, a message put in an inbox.         *)
(*                                                                         *)
(* Samples for the monitor, which only read, are left out.                 *)
(***************************************************************************)
EXTENDS RoomSession, Sequences

CONSTANTS
  Code,         \* room codes
  NoCode,       \* the code of a socket or room that is not there yet
  MaxRooms,     \* max_rooms: rooms of the server
  Inbox,        \* ROOM_INBOX: commands queued for one room
  MaxInstances  \* bound of the model: rooms ever created

ASSUME ServerAssumption ==
  /\ IsFiniteSet(Socket) /\ IsFiniteSet(Code) /\ NoCode \notin Code
  /\ {MaxSockets, MaxRooms, Inbox, MaxInstances} \subseteq Nat \ {0}

VARIABLES
  \* the server
  registry,   \* the room of every code, or NoRoom
  made,       \* rooms created so far
  listed,     \* codes in the public catalog
  \* the rooms
  code,       \* their codes
  task,       \* where their tasks are
  inbox,      \* their queued commands
  session,    \* their sessions
  count,      \* `connections`: open sockets as the registry sees them
  reset,      \* the answer to a Reset: "none", "held" in `resets`, or "done"
  \* the sockets
  step,       \* where their tasks are
  wants,      \* the codes they ask for
  asked,      \* the rooms they last queued an Open with
  reply,      \* the answers to it
  told,       \* the sockets whose closing has begun (SocketState::closing)
  \* Server::close
  closer,     \* where it is
  toReset,    \* rooms it still has to send a Reset
  awaited     \* rooms whose answers it waits for

rooms == <<code, task, inbox, session, count, reset>>
sockets == <<step, wants, asked, reply, told>>
closing == <<closer, toReset, awaited>>
vars == <<registry, made, listed, rooms, sockets, closing>>

Instance == 1..MaxInstances
NoRoom == 0

Command == [kind: {"open", "text", "closed"}, from: Socket] \cup {[kind |-> "reset"]}
Open(s) == [kind |-> "open", from |-> s]
Text(s) == [kind |-> "text", from |-> s]
Closed(s) == [kind |-> "closed", from |-> s]
Reset == [kind |-> "reset"]

\* Where a socket's task is: before the handshake; waiting for the upgrade, which succeeds
\* or fails; waiting for the room's answer; about to ask again; moving frames; sending one
\* to the room; closing; about to report its end; over.
Step == {"new", "upgrading", "lost", "asking", "again", "open", "sending", "closing",
         "reporting", "gone"}

TypeOK ==
  /\ registry \in [Code -> Instance \cup {NoRoom}]
  /\ made \in 0..MaxInstances
  /\ listed \subseteq Code
  /\ code \in [Instance -> Code \cup {NoCode}]
  /\ task \in [Instance -> {"none", "select", "turned", "leaving", "draining", "over"}]
  /\ inbox \in [Instance -> Seq(Command)]
  /\ \A i \in Instance : Len(inbox[i]) <= Inbox
  /\ session \in [Instance -> Session]
  /\ \A i \in Instance : Cardinality(session[i].sockets) <= MaxSockets
  /\ count \in [Instance -> 0..MaxSockets]
  /\ reset \in [Instance -> {"none", "held", "done"}]
  /\ step \in [Socket -> Step]
  /\ wants \in [Socket -> Code \cup {NoCode}]
  /\ asked \in [Socket -> Instance \cup {NoRoom}]
  /\ reply \in [Socket -> {"none", "accepted", "full", "ended"}]
  /\ told \subseteq Socket
  /\ closer \in {"serving", "stopping", "resetting", "grace", "terminated"}
  /\ toReset \subseteq Instance
  /\ awaited \subseteq Instance

Init ==
  /\ registry = [c \in Code |-> NoRoom]
  /\ made = 0
  /\ listed = {}
  /\ code = [i \in Instance |-> NoCode]
  /\ task = [i \in Instance |-> "none"]
  /\ inbox = [i \in Instance |-> <<>>]
  /\ session = [i \in Instance |-> NewSession]
  /\ count = [i \in Instance |-> 0]
  /\ reset = [i \in Instance |-> "none"]
  /\ step = [s \in Socket |-> "new"]
  /\ wants = [s \in Socket |-> NoCode]
  /\ asked = [s \in Socket |-> NoRoom]
  /\ reply = [s \in Socket |-> "none"]
  /\ told = {}
  /\ closer = "serving"
  /\ toReset = {}
  /\ awaited = {}

-----------------------------------------------------------------------------
\* The registry and inboxes.

registered == {c \in Code : registry[c] # NoRoom}
stopping == closer # "serving"
terminated == closer = "terminated"

\* A room's inbox takes commands until the room has left the registry.
InboxOpen(i) == i # NoRoom /\ task[i] \in {"select", "turned", "leaving"}
HasSpace(i) == Len(inbox[i]) < Inbox

\* mutant: senders wait for a room that has left
SendsToOpen(i, m) ==
  InboxOpen(i) /\ HasSpace(i) /\ inbox' = [inbox EXCEPT ![i] = Append(@, m)]

\* `room.send(command).await`: waits for space; the command is lost if the inbox is closed.
Sends(i, m) ==
  IF InboxOpen(i)
  THEN HasSpace(i) /\ inbox' = [inbox EXCEPT ![i] = Append(@, m)]
  ELSE UNCHANGED inbox

\* room_capacity: a full room, or no place for a new one.  (A server that has created all
\* the rooms of the model refuses further ones as if other codes had taken the places.)
Refused(c) ==
  IF registry[c] # NoRoom
  THEN count[registry[c]] >= MaxSockets
  ELSE Cardinality(registered) >= MaxRooms \/ stopping \/ made = MaxInstances

\* reserve, under the registry's lock: room_capacity, then an Open in the inbox of the
\* code's room, which is created when there is none or the registered one's inbox has
\* closed.  Given up when the inbox is full.
Joins(s, c, i) ==
  /\ registry[c] = i
  /\ InboxOpen(i)
  /\ HasSpace(i)
  /\ inbox' = [inbox EXCEPT ![i] = Append(@, Open(s))]
  /\ UNCHANGED <<registry, made, code, task>>

\* mutant: a room whose inbox is full is replaced like one whose inbox is closed
CreatesWhenBusy(s, c, i) ==
  /\ ~(InboxOpen(registry[c]) /\ HasSpace(registry[c]))
  /\ i = made + 1 /\ i \in Instance
  /\ made' = i
  /\ registry' = [registry EXCEPT ![c] = i]
  /\ code' = [code EXCEPT ![i] = c]
  /\ task' = [task EXCEPT ![i] = "select"]
  /\ inbox' = [inbox EXCEPT ![i] = <<Open(s)>>]

Creates(s, c, i) ==
  /\ ~InboxOpen(registry[c])
  /\ i = made + 1 /\ i \in Instance
  /\ made' = i
  /\ registry' = [registry EXCEPT ![c] = i]
  /\ code' = [code EXCEPT ![i] = c]
  /\ task' = [task EXCEPT ![i] = "select"]
  /\ inbox' = [inbox EXCEPT ![i] = <<Open(s)>>]

Reserves(s, c) ==
  /\ ~Refused(c)
  /\ \E i \in Instance :
       /\ Joins(s, c, i) \/ Creates(s, c, i)
       /\ asked' = [asked EXCEPT ![s] = i]
  /\ reply' = [reply EXCEPT ![s] = "none"]

ReserveFails(c) ==
  /\ Refused(c) \/ (InboxOpen(registry[c]) /\ ~HasSpace(registry[c]))
  /\ UNCHANGED <<registry, made, code, task, inbox, asked, reply>>

Goes(s, to) == step' = [step EXCEPT ![s] = to]

-----------------------------------------------------------------------------
\* A socket's task.

\* upgrade: the handshake is answered once the socket's Open is queued.
Upgrade(s) ==
  /\ step[s] = "new"
  /\ \E c \in Code :
       /\ wants' = [wants EXCEPT ![s] = c]
       /\ \/ Reserves(s, c) /\ Goes(s, "upgrading")
          \/ ReserveFails(c) /\ Goes(s, "gone")
  /\ UNCHANGED <<listed, session, count, reset, told, closing>>

\* The handshake completes and the socket is served, or its connection is gone already.
Upgraded(s) ==
  /\ step[s] = "upgrading"
  /\ Goes(s, "asking") \/ Goes(s, "lost")
  /\ UNCHANGED <<registry, made, listed, rooms, wants, asked, reply, told, closing>>

\* A socket lost in the handshake has to report its end if its room took it.
Lost(s) ==
  /\ step[s] = "lost"
  /\ reply[s] # "none"
  /\ Goes(s, IF reply[s] = "accepted" THEN "reporting" ELSE "gone")
  /\ UNCHANGED <<registry, made, listed, rooms, wants, asked, reply, told, closing>>

\* serve_socket and admit: the room took the socket, refuses it (which closes it), or ended
\* before the socket's turn came.
Answered(s) ==
  /\ step[s] = "asking"
  /\ reply[s] # "none"
  /\ Goes(s, IF reply[s] = "ended" THEN "again" ELSE "open")
  /\ told' = IF reply[s] = "full" THEN told \cup {s} ELSE told
  /\ UNCHANGED <<registry, made, listed, rooms, wants, asked, reply, closing>>

\* mutant: a refused socket keeps trying
AgainUntilTaken(s) ==
  /\ step[s] = "again"
  /\ Reserves(s, wants[s]) /\ Goes(s, "asking")
  /\ UNCHANGED <<listed, session, count, reset, wants, told, closing>>

\* admit's loop: the code is tried again; a refusal closes the socket.
Again(s) ==
  /\ step[s] = "again"
  /\ \/ Reserves(s, wants[s]) /\ Goes(s, "asking") /\ UNCHANGED told
     \/ ReserveFails(wants[s]) /\ Goes(s, "open") /\ told' = told \cup {s}
  /\ UNCHANGED <<listed, session, count, reset, wants, closing>>

\* The socket has a link to the room that accepted it.
linked(s) == reply[s] = "accepted"

\* run: a frame of the client is read, and goes to the room.  The task waits in `send` while
\* the inbox is full, and notices nothing else.
Read(s) ==
  /\ step[s] = "open"
  /\ linked(s)
  /\ Goes(s, "sending")
  /\ UNCHANGED <<registry, made, listed, rooms, wants, asked, reply, told, closing>>

Forward(s) ==
  /\ step[s] = "sending"
  /\ Sends(asked[s], Text(s))
  /\ Goes(s, "open")
  /\ UNCHANGED <<registry, made, listed, code, task, session, count, reset, wants, asked,
                 reply, told, closing>>

\* SocketHandle::send of the room to a socket whose queue is full: it closes itself.
SlowReader(s) ==
  /\ step[s] \in {"open", "sending"}
  /\ \E i \in Instance : s \in session[i].joined
  /\ s \notin told
  /\ told' = told \cup {s}
  /\ UNCHANGED <<registry, made, listed, rooms, step, wants, asked, reply, closing>>

\* run: the queued close is sent, and no frame is forwarded any more.
StartClosing(s) ==
  /\ step[s] = "open"
  /\ s \in told
  /\ Goes(s, "closing")
  /\ UNCHANGED <<registry, made, listed, rooms, wants, asked, reply, told, closing>>

Ends(s) ==
  /\ Goes(s, IF linked(s) THEN "reporting" ELSE "gone")
  /\ told' = told \cup {s}
  /\ UNCHANGED <<registry, made, listed, rooms, wants, asked, reply, closing>>

\* The client closes, or the connection drops or breaks the protocol.
Drop(s) == step[s] = "open" /\ Ends(s)

\* The close is answered, or has taken CLOSE_TIMEOUT.
FinishClosing(s) == step[s] = "closing" /\ Ends(s)

\* `stopped`: the server cuts what is left.
Cut(s) == step[s] \in {"open", "closing"} /\ terminated /\ Ends(s)

\* The end of the socket is reported to the room it was admitted to.
Report(s) ==
  /\ step[s] = "reporting"
  /\ Sends(asked[s], Closed(s))
  /\ Goes(s, "gone")
  /\ UNCHANGED <<registry, made, listed, code, task, session, count, reset, wants, asked,
                 reply, told, closing>>

-----------------------------------------------------------------------------
\* A room's task.

\* mutant: sockets the session drops are not closed
TurnsSilently(i, r) ==
  /\ session' = [session EXCEPT ![i] = r]
  /\ task' = [task EXCEPT ![i] = "turned"]
  /\ UNCHANGED told

\* A turn of room i leaves its session as r; the sockets it dropped are told to close.
Turns(i, r) ==
  /\ session' = [session EXCEPT ![i] = r]
  /\ task' = [task EXCEPT ![i] = "turned"]
  /\ told' = told \cup (session[i].sockets \ r.sockets)

\* mutant: the catalog hears only from hosts, not of a room that ended without one
ListsHosted(i, r) ==
  \/ r.host # "none"
     /\ listed' = IF r.joined = {} THEN listed \ {code[i]} ELSE listed \cup {code[i]}
  \/ r.host = "none" /\ UNCHANGED listed

\* The catalog hears of a room whose players change or that ends, and otherwise when its
\* lobby changes or its heartbeat is due.
Lists(i, r) ==
  \/ listed' = IF r.joined = {} THEN listed \ {code[i]} ELSE listed \cup {code[i]}
  \/ r.joined = session[i].joined /\ ~r.ended /\ UNCHANGED listed

\* The timer is due, which comes before the inbox.
Timer(i) ==
  /\ task[i] = "select"
  /\ session[i].armed
  /\ \E r \in OnTimer(session[i]) : Turns(i, r) /\ Lists(i, r)
  /\ UNCHANGED <<registry, made, code, inbox, count, reset, step, wants, asked, reply,
                 closing>>

\* handle(Open): the session takes the socket, or it is full.
HandleOpen(i, s) ==
  LET full == Full(session[i])
  IN  /\ Turns(i, IF full THEN session[i] ELSE Accept(session[i], s))
      /\ reply' = [reply EXCEPT ![s] = IF full THEN "full" ELSE "accepted"]
      /\ UNCHANGED <<listed, reset>>

HandleText(i, s) ==
  /\ \E r \in Messages(session[i], s) : Turns(i, r) /\ Lists(i, r)
  /\ UNCHANGED <<reply, reset>>

HandleClosed(i, s) ==
  /\ \E r \in Closes(session[i], s) : Turns(i, r) /\ Lists(i, r)
  /\ UNCHANGED <<reply, reset>>

HandleReset(i) ==
  /\ Turns(i, ResetBy(session[i]))
  /\ Lists(i, ResetBy(session[i]))
  /\ reset' = [reset EXCEPT ![i] = "held"]
  /\ UNCHANGED reply

Receive(i) ==
  /\ task[i] = "select"
  /\ inbox[i] # <<>>
  /\ inbox' = [inbox EXCEPT ![i] = Tail(@)]
  /\ LET m == Head(inbox[i])
     IN  \/ m.kind = "open" /\ HandleOpen(i, m.from)
         \/ m.kind = "text" /\ HandleText(i, m.from)
         \/ m.kind = "closed" /\ HandleClosed(i, m.from)
         \/ m.kind = "reset" /\ HandleReset(i)
  /\ UNCHANGED <<registry, made, code, count, step, wants, asked, closing>>

\* The end of a turn: the socket count is published, and an ended session breaks the loop.
Publish(i) ==
  /\ task[i] = "turned"
  /\ count' = [count EXCEPT ![i] = Cardinality(session[i].sockets)]
  /\ task' = [task EXCEPT ![i] = IF session[i].ended THEN "leaving" ELSE "select"]
  /\ session' = [session EXCEPT ![i].ended = FALSE]
  /\ UNCHANGED <<registry, made, listed, code, inbox, reset, sockets, closing>>

\* Under the registry's lock: the room leaves it and closes its inbox.
Leave(i) ==
  /\ task[i] = "leaving"
  /\ task' = [task EXCEPT ![i] = "draining"]
  /\ registry' = [c \in Code |-> IF c = code[i] /\ registry[c] = i THEN NoRoom ELSE registry[c]]
  /\ UNCHANGED <<made, listed, code, inbox, session, count, reset, sockets, closing>>

Queued(i, m) == \E k \in DOMAIN inbox[i] : inbox[i][k] = m

\* What is left in the inbox: Opens are to try the code again, resets are done.  The session
\* goes with the task.
Drain(i) ==
  /\ task[i] = "draining"
  /\ task' = [task EXCEPT ![i] = "over"]
  /\ reply' = [s \in Socket |-> IF Queued(i, Open(s)) THEN "ended" ELSE reply[s]]
  /\ reset' = [reset EXCEPT ![i] = IF @ = "held" \/ Queued(i, Reset) THEN "done" ELSE @]
  /\ inbox' = [inbox EXCEPT ![i] = <<>>]
  /\ session' = [session EXCEPT ![i] = NewSession]
  /\ count' = [count EXCEPT ![i] = 0]
  /\ UNCHANGED <<registry, made, listed, code, step, wants, asked, told, closing>>

-----------------------------------------------------------------------------
\* Server::close.

\* `stopping` is set before the registry is read.
Stop ==
  /\ closer = "serving"
  /\ closer' = "stopping"
  /\ UNCHANGED <<registry, made, listed, rooms, sockets, toReset, awaited>>

\* The rooms of the registry, under its lock.
Snapshot ==
  /\ closer = "stopping"
  /\ closer' = "resetting"
  /\ toReset' = {registry[c] : c \in registered}
  /\ UNCHANGED <<registry, made, listed, rooms, sockets, awaited>>

\* The rooms get a Reset one after the other, in any order; one that ended is not awaited.
SendReset(i) ==
  /\ closer = "resetting"
  /\ i \in toReset
  /\ Sends(i, Reset)
  /\ toReset' = toReset \ {i}
  /\ awaited' = IF InboxOpen(i) THEN awaited \cup {i} ELSE awaited
  /\ UNCHANGED <<registry, made, listed, code, task, session, count, reset, sockets, closer>>

\* Every Reset is answered; clients get a grace to finish closing.
ResetsDone ==
  /\ closer = "resetting"
  /\ toReset = {}
  /\ \A i \in awaited : reset[i] = "done"
  /\ closer' = "grace"
  /\ awaited' = {}
  /\ UNCHANGED <<registry, made, listed, rooms, sockets, toReset>>

\* No socket is left, or the grace is over.
Terminate ==
  /\ closer = "grace"
  /\ closer' = "terminated"
  /\ UNCHANGED <<registry, made, listed, rooms, sockets, toReset, awaited>>

-----------------------------------------------------------------------------
\* Time.

\* A socket takes longer than JOIN_TIMEOUT_MS to join.
Overdue(i, s) ==
  /\ s \in session[i].sockets \ (session[i].joined \cup session[i].overdue)
  /\ session' = [session EXCEPT ![i] = Waits(@, s)]
  /\ UNCHANGED <<registry, made, listed, code, task, inbox, count, reset, sockets, closing>>

\* A listing expires or makes room for a newer one (RoomCatalog::prune, update).
Unlist(c) ==
  /\ c \in listed
  /\ listed' = listed \ {c}
  /\ UNCHANGED <<registry, made, rooms, sockets, closing>>

SocketNext(s) ==
  \/ Upgrade(s) \/ Upgraded(s) \/ Lost(s) \/ Answered(s) \/ Again(s)
  \/ Read(s) \/ Forward(s) \/ SlowReader(s)
  \/ StartClosing(s) \/ Drop(s) \/ FinishClosing(s) \/ Cut(s) \/ Report(s)

RoomNext(i) == Timer(i) \/ Receive(i) \/ Publish(i) \/ Leave(i) \/ Drain(i)

CloserNext ==
  Stop \/ Snapshot \/ (\E i \in Instance : SendReset(i)) \/ ResetsDone \/ Terminate

Next ==
  \/ \E s \in Socket : SocketNext(s)
  \/ \E i \in Instance : RoomNext(i)
  \/ CloserNext
  \/ \E i \in Instance, s \in Socket : Overdue(i, s)
  \/ \E c \in Code : Unlist(c)

Spec == Init /\ [][Next]_vars

\* Fairness.  Every task runs when it can and deadlines fall due; nothing is assumed of
\* clients, which may neither send nor close.  A room's timer, once due, goes before its
\* inbox, but its deadline is at least a millisecond ahead, so the inbox is received from as
\* well, and a room finishes its turns.  A handshake has its own limits, and a closing takes
\* at most CLOSE_TIMEOUT.  A socket takes a stop and its queued close before it reads again,
\* and a batch it reads is finite.  Senders get space in an inbox in their order of arrival.
FairSpec ==
  /\ Spec
  /\ \A i \in Instance :
       /\ SF_vars(Timer(i)) /\ SF_vars(Receive(i)) /\ SF_vars(SendReset(i))
       /\ WF_vars(Publish(i) \/ Leave(i) \/ Drain(i))
  /\ \A s \in Socket :
       /\ WF_vars(Upgraded(s) \/ Lost(s) \/ Answered(s) \/ Again(s))
       /\ SF_vars(StartClosing(s) \/ FinishClosing(s) \/ Cut(s))
       /\ SF_vars(Forward(s) \/ Report(s))
       /\ \A i \in Instance : WF_vars(Overdue(i, s))
  /\ WF_vars(Snapshot \/ ResetsDone \/ Terminate)
=============================================================================
