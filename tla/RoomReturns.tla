---------------------------- MODULE RoomReturns ----------------------------
(***************************************************************************)
(* How pages keep their seat (core/src/net/client.rs, the connection; the  *)
(* seats of match_host.rs; the sockets and saved seats of the shells).  A  *)
(* page joins a room, is given a token by the welcome, and comes back with *)
(* it over new sockets after losses, crashes of the server, reloads and    *)
(* visits from a copy of its tab.                                          *)
(***************************************************************************)
EXTENDS Naturals, Sequences, FiniteSets, SequencesExt

CONSTANTS
  Pages,       \* the pages
  Creator,     \* the page that creates the room; the others join it
  Places,      \* MAX_PLAYERS
  MaxAttempts, \* the sockets that fit into RECONNECT_WINDOW_MS
  MaxFaults,   \* bound: sockets that break or are dropped
  MaxEpochs,   \* bound: lives of the room
  MaxMoves     \* bound: what players do (leave, rejoin, reload, copy the tab)

ASSUME ConstantsAssumption ==
  /\ Creator \in Pages
  /\ {Places, MaxAttempts, MaxEpochs} \subseteq Nat \ {0} /\ {MaxFaults, MaxMoves} \subseteq Nat

VARIABLES
  pages,  \* the clients, by page
  saved,  \* the seats in storage, by page
  links,  \* the sockets, in the order they were opened
  room,   \* the host: epoch, seats, tokens issued; crashed: how its last life ended
  moves,  \* what players did so far
  faults  \* the sockets that broke or were dropped so far

vars == <<pages, saved, links, room, moves, faults>>

None == 0
NoSeat == [token |-> None, epoch |-> None]

-----------------------------------------------------------------------------
(* Pages and their sockets.                                                *)

\* new, with the seat in storage.
NewPage(seat) ==
  [choice |-> "none", token |-> seat.token, epoch |-> seat.epoch, socket |-> None,
   connected |-> FALSE, retrying |-> FALSE, started |-> FALSE, attempt |-> 0, ended |-> "no"]

\* The join of the page p.
JoinOf(p) == [type |-> "join", choice |-> p.choice, token |-> p.token, epoch |-> p.epoch]

\* A socket of the page q: up and down are the messages on their way, open
\* says whether the page holds its end, and hosted whether the host does.
NewLink(q, p) == [page |-> q, up |-> <<JoinOf(p)>>, down |-> <<>>, open |-> TRUE, hosted |-> TRUE]

Closed(code) == [type |-> "closed", code |-> code]

\* open: the page q, p from now on, opens a socket, which sends the join.
Opens(q, p) ==
  pages' = [pages EXCEPT ![q] = [p EXCEPT !.socket = Len(links) + 1]]

\* stop: the sockets when the page p lets go of its own, whose events it drops
\* from then on (is_current).
Released(p) ==
  IF p.socket = None THEN links ELSE [links EXCEPT ![p.socket].open = FALSE, ![p.socket].down = <<>>]

Stopped(p) == [p EXCEPT !.socket = None, !.connected = FALSE, !.retrying = FALSE]

\* connect
Connect(q, p, choice) ==
  LET fresh == [Stopped(p) EXCEPT !.choice = choice, !.ended = "no", !.started = FALSE,
                                  !.attempt = 0] IN
  /\ Opens(q, fresh)
  /\ links' = Append(Released(p), NewLink(q, fresh))

-----------------------------------------------------------------------------
Init ==
  /\ pages = [q \in Pages |-> NewPage(NoSeat)]
  /\ saved = [q \in Pages |-> NoSeat]
  /\ links = <<>>
  /\ room = [epoch |-> 1, seats |-> {}, issued |-> 0, crashed |-> FALSE]
  /\ moves = 0 /\ faults = 0

\* The player creates or joins the room.
Enter(q) ==
  /\ pages[q].choice = "none"
  /\ Connect(q, pages[q], IF q = Creator /\ pages[q].token = None THEN "create" ELSE "existing")
  /\ UNCHANGED <<saved, room, moves, faults>>

Move == moves < MaxMoves /\ moves' = moves + 1 /\ UNCHANGED faults
Fault == faults < MaxFaults /\ faults' = faults + 1

\* leave
Leave(q) ==
  /\ Move /\ pages[q].connected
  /\ links' = [Released(pages[q]) EXCEPT ![pages[q].socket].up = Append(@, [type |-> "leave"])]
  /\ pages' = [pages EXCEPT ![q] = [Stopped(@) EXCEPT !.token = None, !.epoch = None, !.ended = "left"]]
  /\ saved' = [saved EXCEPT ![q] = NoSeat]
  /\ UNCHANGED room

\* rejoin, after an ending that offers it.
Rejoin(q) ==
  /\ Move /\ pages[q].ended \in {"lost", "rejected", "seat-expired", "other-tab"}
  /\ Connect(q, pages[q], "existing")
  /\ UNCHANGED <<saved, room>>

\* The page is loaded again, or is a copy of another tab with its storage.
Reload(q) ==
  /\ Move
  /\ \E from \in Pages :
       /\ saved' = [saved EXCEPT ![q] = saved[from]]
       /\ pages' = [pages EXCEPT ![q] = NewPage(saved[from])]
  /\ links' = Released(pages[q])
  /\ UNCHANGED room

-----------------------------------------------------------------------------
(* What a page hears.                                                      *)

\* fail
Fails(q, p, cause) ==
  /\ pages' = [pages EXCEPT ![q] = [Stopped(p) EXCEPT !.ended = cause]]
  /\ links' = Released(p)

HearWelcome(q, p, m) ==
  /\ pages' = [pages EXCEPT ![q] = [p EXCEPT !.token = m.token, !.epoch = m.epoch, !.connected = TRUE,
                                             !.started = FALSE, !.attempt = 0]]
  /\ saved' = [saved EXCEPT ![q] = [token |-> m.token, epoch |-> m.epoch]]
  /\ links' = [links EXCEPT ![p.socket].down = Tail(@)]

Forgetting(p) == [p EXCEPT !.token = None, !.epoch = None]

\* A refused join; a seat that has expired is forgotten.
HearError(q, p, m) ==
  IF m.code = "seat-expired"
    THEN Fails(q, Forgetting(p), "seat-expired") /\ saved' = [saved EXCEPT ![q] = NoSeat]
    ELSE Fails(q, p, IF m.code = "room-gone" THEN "room-ended" ELSE "rejected") /\ UNCHANGED saved

HearReset(q, p) ==
  Fails(q, Forgetting(p), "room-ended") /\ saved' = [saved EXCEPT ![q] = NoSeat]

\* socket_closed: the seat is in another tab, or refused, or the page tries
\* again until its time is over.
HearClosed(q, p, m) ==
  /\ UNCHANGED saved
  /\ \/ m.code = 4001 /\ Fails(q, p, "other-tab")
     \/ m.code = 1008 /\ Fails(q, p, "rejected")
     \/ /\ m.code \notin {4001, 1008} /\ p.started
        /\ Fails(q, p, "lost")
     \/ /\ m.code \notin {4001, 1008} /\ p.attempt < MaxAttempts
        /\ pages' = [pages EXCEPT ![q] = [p EXCEPT !.socket = None, !.connected = FALSE,
                                                   !.retrying = TRUE, !.started = TRUE]]
        /\ links' = Released(p)

\* The next event of the page's current socket.
Hear(q) ==
  LET p == pages[q] IN
  /\ p.socket # None /\ links[p.socket].down # <<>>
  /\ LET m == Head(links[p.socket].down) IN
       \/ m.type = "welcome" /\ HearWelcome(q, p, m)
       \/ m.type = "error" /\ HearError(q, p, m)
       \/ m.type = "room-reset" /\ HearReset(q, p)
       \/ m.type = "closed" /\ HearClosed(q, p, m)
  /\ UNCHANGED <<room, moves, faults>>

\* (Mutant: a page tries again once.)
RetryOnce(q) ==
  LET p == [pages[q] EXCEPT !.retrying = FALSE, !.attempt = @ + 1] IN
  /\ pages[q].retrying /\ pages[q].attempt = 0 /\ Opens(q, p)
  /\ links' = Append(links, NewLink(q, p))
  /\ UNCHANGED <<saved, room, moves, faults>>

\* poll: the backoff is over.
Retry(q) ==
  LET p == [pages[q] EXCEPT !.retrying = FALSE, !.attempt = @ + 1] IN
  /\ pages[q].retrying /\ Opens(q, p)
  /\ links' = Append(links, NewLink(q, p))
  /\ UNCHANGED <<saved, room, moves, faults>>

ToldClosed(s) == links[s].down # <<>> /\ Last(links[s].down).type = "closed"

\* The socket breaks, also when the page closes it for its silence; the page
\* hears of it.
Break(s) ==
  /\ Fault /\ links[s].open /\ ~ToldClosed(s)
  /\ links' = [links EXCEPT ![s].down = <<Closed(1006)>>, ![s].open = FALSE]
  /\ UNCHANGED <<pages, saved, room, moves>>

-----------------------------------------------------------------------------
(* The host.                                                               *)

\* The sockets when the host sends messages on s after these; it reaches
\* only a page that holds its end.
Sent(socks, s, messages) ==
  [socks EXCEPT ![s].down = IF socks[s].open THEN @ \o messages ELSE @]

\* The host closes s with a code: it knows the socket no more.
HostCloses(socks, s, messages, code) ==
  [Sent(socks, s, Append(messages, Closed(code))) EXCEPT ![s].hosted = FALSE, ![s].up = <<>>]

SeatOf(token) == {seat \in room.seats : seat.token = token}

Read(s) == [links EXCEPT ![s].up = Tail(@)]

\* error: a join is refused.
Refuses(s, code) ==
  /\ links' = HostCloses(Read(s), s, <<[type |-> "error", code |-> code]>>, 1008)
  /\ UNCHANGED room

Welcome(token) == [type |-> "welcome", token |-> token, epoch |-> room.epoch]

\* A new seat for the socket s.
Seats(s) ==
  LET token == room.issued + 1 IN
  /\ room' = [room EXCEPT !.issued = token,
                          !.seats = @ \cup {[token |-> token, page |-> links[s].page, conn |-> s]}]
  /\ links' = Sent(Read(s), s, <<Welcome(token)>>)

\* (Mutant: the socket that held the seat before is not closed.)
TakesOverOpen(s, seat) ==
  /\ room' = [room EXCEPT !.seats = (@ \ {seat}) \cup {[seat EXCEPT !.conn = s]}]
  /\ links' = Sent(Read(s), s, <<Welcome(seat.token)>>)

\* The seat of the join's token; a socket that held it before is closed.
TakesOver(s, seat) ==
  /\ room' = [room EXCEPT !.seats = (@ \ {seat}) \cup {[seat EXCEPT !.conn = s]}]
  /\ LET closed == IF seat.conn = None THEN Read(s) ELSE HostCloses(Read(s), seat.conn, <<>>, 4001) IN
       links' = Sent(closed, s, <<Welcome(seat.token)>>)

\* (Mutant: a seat that waits for its player is reported as expired.)
JoinOnlyConnected(s, m) ==
  LET found == IF m.token = None THEN {} ELSE {seat \in SeatOf(m.token) : seat.conn # None} IN
  IF found # {} THEN \E seat \in found : TakesOver(s, seat)
  ELSE IF m.choice = "create" /\ m.epoch = None /\ room.seats # {} THEN Refuses(s, "room-exists")
  ELSE IF m.choice = "existing" /\ room.seats = {} THEN Refuses(s, "room-gone")
  ELSE IF m.token # None /\ m.epoch = room.epoch THEN Refuses(s, "seat-expired")
  ELSE IF Cardinality(room.seats) >= Places THEN Refuses(s, "room-full")
  ELSE Seats(s)

\* join
Join(s, m) ==
  LET found == IF m.token = None THEN {} ELSE SeatOf(m.token) IN
  IF found # {} THEN \E seat \in found : TakesOver(s, seat)
  ELSE IF m.choice = "create" /\ m.epoch = None /\ room.seats # {} THEN Refuses(s, "room-exists")
  ELSE IF m.choice = "existing" /\ room.seats = {} THEN Refuses(s, "room-gone")
  ELSE IF m.token # None /\ m.epoch = room.epoch THEN Refuses(s, "seat-expired")
  ELSE IF Cardinality(room.seats) >= Places THEN Refuses(s, "room-full")
  ELSE Seats(s)

\* The next room of this code.
NextRoom(crashed) ==
  room' = [room EXCEPT !.epoch = @ + 1, !.seats = {}, !.crashed = crashed]

\* leave; the last seat's ends the room.
Departs(s) ==
  LET rest == {seat \in room.seats : seat.conn # s} IN
  /\ links' = HostCloses(Read(s), s, <<>>, 1000)
  /\ IF rest = {} /\ room.seats # {} THEN NextRoom(FALSE) ELSE room' = [room EXCEPT !.seats = rest]

Receive(s) ==
  /\ links[s].hosted /\ links[s].up # <<>>
  /\ LET m == Head(links[s].up) IN
       \/ m.type = "join" /\ Join(s, m)
       \/ m.type = "leave" /\ room.epoch < MaxEpochs /\ Departs(s)
  /\ UNCHANGED <<pages, saved, moves, faults>>

\* disconnect: the host misses a socket.
LinkLost(s) ==
  /\ links[s].hosted /\ ~links[s].open
  /\ links' = [links EXCEPT ![s].hosted = FALSE, ![s].up = <<>>]
  /\ room' = [room EXCEPT !.seats = {IF seat.conn = s THEN [seat EXCEPT !.conn = None] ELSE seat : seat \in @}]
  /\ UNCHANGED <<pages, saved, moves, faults>>

\* A seat's grace is over; with the last seat's the room ends (empty_since_ms).
Expire ==
  /\ \E seat \in room.seats :
       /\ seat.conn = None
       /\ IF room.seats # {seat} THEN room' = [room EXCEPT !.seats = @ \ {seat}]
          ELSE room.epoch < MaxEpochs /\ NextRoom(FALSE)
  /\ UNCHANGED <<pages, saved, links, moves, faults>>

\* A client that shows no sign of consuming the state is dropped.
Stale(s) ==
  /\ Fault /\ links[s].hosted /\ \E seat \in room.seats : seat.conn = s
  /\ links' = HostCloses(links, s, <<>>, 4002)
  /\ room' = [room EXCEPT !.seats = {IF seat.conn = s THEN [seat EXCEPT !.conn = None] ELSE seat : seat \in @}]
  /\ UNCHANGED <<pages, saved, moves>>

\* dispose, for its age, its idle time, an overload or a failure of the host:
\* every player is told, and every socket closed.
RoomEnds ==
  /\ room.epoch < MaxEpochs /\ room.seats # {}
  /\ NextRoom(FALSE)
  /\ links' = [s \in DOMAIN links |->
                 IF ~links[s].hosted THEN links[s]
                 ELSE LET told == \E seat \in room.seats : seat.conn = s IN
                      HostCloses(links, s, IF told THEN <<[type |-> "room-reset"]>> ELSE <<>>, 1012)[s]]
  /\ UNCHANGED <<pages, saved, moves, faults>>

\* The server crashes: nobody is told.
Crash ==
  /\ room.epoch < MaxEpochs
  /\ NextRoom(TRUE)
  /\ links' = [s \in DOMAIN links |->
                 IF ~links[s].hosted THEN links[s]
                 ELSE [links[s] EXCEPT !.hosted = FALSE, !.open = FALSE, !.up = <<>>,
                                       !.down = IF links[s].open THEN <<Closed(1006)>> ELSE @]]
  /\ UNCHANGED <<pages, saved, moves, faults>>

Next ==
  \/ \E q \in Pages : Enter(q) \/ Leave(q) \/ Rejoin(q) \/ Reload(q) \/ Hear(q) \/ Retry(q)
  \/ \E s \in DOMAIN links : Break(s) \/ Receive(s) \/ LinkLost(s) \/ Stale(s)
  \/ Expire \/ RoomEnds \/ Crash

Spec == Init /\ [][Next]_vars

\* Events reach their page, backoffs end, and the host reads what it is sent.
FairSpec ==
  /\ Spec
  /\ \A q \in Pages : WF_vars(Hear(q)) /\ WF_vars(Retry(q))
  /\ WF_vars(\E s \in DOMAIN links : Receive(s))
=============================================================================
