---------------------------- MODULE StateStream ----------------------------
(***************************************************************************)
(* The state stream of a room (core/src/net/match_host.rs, replication.rs) *)
(* and the mirrors its clients keep of it (client.rs).  The host numbers   *)
(* the scenes it publishes in a round.  A baseline carries a whole scene;  *)
(* a frame carries the difference to the next scene, for all clients, and  *)
(* the events in between.  Clients hide, open their menu, prepare an       *)
(* arena, lose the connection and come back while frames are on their way. *)
(***************************************************************************)
EXTENDS Naturals, Sequences, FiniteSets

CONSTANTS
  Clients,    \* the clients of the room
  MaxBatch,   \* MAX_BATCH_FRAMES
  MaxFulls,   \* MAX_RESYNCS_PER_SECOND
  MaxRounds,  \* bound: rounds started
  MaxTicks,   \* bound: ticks of a round
  MaxIdle,    \* bound: batches of a round that are sent although no tick was due
  MaxEvents,  \* bound: events of a round
  MaxScenes,  \* bound: the simulation's scenes, for the changes that tanks' new drivers make
  MaxMoves    \* bound: what players do (hide, pause, ask, lose the connection)

ASSUME ConstantsAssumption ==
  /\ {MaxBatch, MaxFulls} \subseteq Nat \ {0}
  /\ {MaxRounds, MaxTicks, MaxIdle, MaxEvents, MaxScenes, MaxMoves} \subseteq Nat

VARIABLES
  room,       \* phase, round, tick; world: the simulation's scene; stepping: in a callback;
              \* idle: batches sent without a tick
  stream,     \* seq and previous, the last scene published; sent and cursor, the last event
              \* that is in a frame and the last there is; frames of the next batch
  seats,      \* by client: joined, suspended, watching, baseline, fulls
  up, down,   \* the messages on their way from and to each client
  pages,      \* the clients
  published,  \* auxiliary: the scenes published in each round; the first has number 0
  skipped,    \* auxiliary: the clients that missed a batch since their last baseline
  moves       \* what players did so far

links == <<up, down>>
vars == <<room, stream, seats, links, pages, published, skipped, moves>>

Mixed == 0  \* no scene: a difference was applied to another scene than it was made from
Smaller(a, b) == IF a < b THEN a ELSE b

-----------------------------------------------------------------------------
(* The host's stream.                                                      *)

\* capture_frame: the stream s with a frame to the room's scene.
Captured(s) ==
  [s EXCEPT !.seq = @ + 1, !.previous = room'.world, !.sent = s.cursor,
            !.frames = Append(@, [seq |-> s.seq + 1, tick |-> room'.tick, base |-> s.previous,
                                  scene |-> room'.world, from |-> s.sent + 1, to |-> s.cursor])]

\* send_full first publishes what changed since the last frame; outside a
\* battle nobody is sent that frame.
Current(s) ==
  IF s.previous = room'.world THEN s
  ELSE IF room'.phase = "playing" THEN Captured(s)
  ELSE [Captured(s) EXCEPT !.frames = <<>>]

\* The baseline of the stream s.
Full(s) ==
  [type |-> "full", round |-> room'.round, tick |-> room'.tick, seq |-> s.seq,
   cursor |-> s.cursor, scene |-> s.previous]

\* The messages on their way to the client c after these; none reach a page
\* that has lost its connection.
Sent(c, messages) == IF pages[c].connected THEN down[c] \o messages ELSE down[c]

Lobby == [type |-> "lobby", round |-> room'.round, phase |-> room'.phase]
Welcome == [type |-> "welcome"]
Control == [type |-> "control", round |-> room'.round]

\* Auxiliary: what is published when the stream becomes s.
Publishes(s) ==
  published' = IF s.seq > stream.seq THEN [published EXCEPT ![room.round] = Append(@, s.previous)]
               ELSE published

-----------------------------------------------------------------------------
(* The page of a client.                                                   *)

NewPage ==
  [connected |-> FALSE, ended |-> "no", hidden |-> FALSE, menu |-> FALSE,
   round |-> 0, phase |-> "lobby",
   ready |-> 0,          \* the round whose arena is ready (ready_round)
   preparing |-> 0,      \* the round whose arena is being prepared
   control |-> FALSE,    \* control is known
   requested |-> FALSE,  \* requested_full
   \* the mirror:
   needsFull |-> TRUE, mirrored |-> 0, seq |-> 0, tick |-> 0, scene |-> 0, cursor |-> 0]

HasMirror(p) == p.mirrored # 0

Suspend(p, watch) == [type |-> "suspend", round |-> p.round, watch |-> watch]
Resume(p) == [type |-> "resume", round |-> p.round]
Resync(p) == [type |-> "resync", round |-> p.round]

\* The page c becomes p and sends messages, if its socket is open.
PageDoes(c, p, messages) ==
  /\ pages' = [pages EXCEPT ![c] = p]
  /\ up' = [up EXCEPT ![c] = IF p.connected THEN @ \o messages ELSE @]

\* request_full: the messages it sends; requested is TRUE after it.
RequestFull(p) == IF p.requested THEN <<>> ELSE <<Resync(p)>>

\* prepare
StartsPreparing(p) == p.preparing = 0 /\ HasMirror(p) /\ p.control
Prepare(c, p) ==
  IF StartsPreparing(p)
    THEN PageDoes(c, [p EXCEPT !.preparing = p.round], <<Suspend(p, FALSE)>>)
    ELSE PageDoes(c, p, <<>>)

-----------------------------------------------------------------------------
Init ==
  /\ room = [phase |-> "lobby", round |-> 0, tick |-> 0, world |-> 0, stepping |-> FALSE, idle |-> 0]
  /\ stream = [seq |-> 0, previous |-> 0, sent |-> 0, cursor |-> 0, frames |-> <<>>]
  /\ seats = [c \in Clients |-> [joined |-> FALSE, suspended |-> FALSE, watching |-> FALSE,
                                 baseline |-> 0, fulls |-> 0]]
  /\ up = [c \in Clients |-> <<>>] /\ down = [c \in Clients |-> <<>>]
  /\ pages = [c \in Clients |-> NewPage]
  /\ published = <<>> /\ skipped = {} /\ moves = 0

Built == room.round > 0

\* A seat's tank may change hands, which may change the scene.
Handed == {room.world} \cup IF Built /\ room.world < MaxScenes THEN {room.world + 1} ELSE {}

-----------------------------------------------------------------------------
(* Clients come and go.                                                    *)

\* The player opens the page, or the page connects again (join).
Join(c) ==
  /\ ~room.stepping /\ ~pages[c].connected /\ pages[c].ended = "no"
  /\ \E w \in Handed, events \in IF Built THEN {0, 1} ELSE {0} :
       /\ stream.cursor + events <= MaxEvents
       /\ room' = [room EXCEPT !.world = w]
       /\ LET s == Current([stream EXCEPT !.cursor = @ + events]) IN
            /\ stream' = IF Built THEN s ELSE stream
            /\ Publishes(stream')
            /\ seats' = [seats EXCEPT ![c] = [joined |-> TRUE, suspended |-> FALSE, watching |-> FALSE,
                                              baseline |-> stream'.seq, fulls |-> 0]]
            /\ down' = [down EXCEPT ![c] = <<Welcome, Lobby>> \o IF Built THEN <<Control, Full(s)>> ELSE <<>>]
  /\ up' = [up EXCEPT ![c] = <<>>]
  /\ pages' = [pages EXCEPT ![c].connected = TRUE]
  /\ skipped' = skipped \ {c}
  /\ UNCHANGED moves

\* The page loses its connection.
LoseLink(c) ==
  /\ pages[c].connected /\ moves < MaxMoves
  /\ pages' = [pages EXCEPT ![c].connected = FALSE]
  /\ down' = [down EXCEPT ![c] = <<>>]
  /\ moves' = moves + 1
  /\ UNCHANGED <<room, stream, seats, up, published, skipped>>

\* The host misses the connection, or its session closed it (disconnect).
LinkLost(c) ==
  /\ ~room.stepping /\ seats[c].joined /\ ~pages[c].connected
  /\ \E w \in Handed : room' = [room EXCEPT !.world = w]
  /\ seats' = [seats EXCEPT ![c].joined = FALSE]
  /\ up' = [up EXCEPT ![c] = <<>>]
  /\ UNCHANGED <<stream, down, pages, published, skipped, moves>>

-----------------------------------------------------------------------------
(* What the player does.                                                   *)

Move(c) ==
  /\ pages[c].connected /\ moves < MaxMoves
  /\ moves' = moves + 1
  /\ UNCHANGED <<room, stream, seats, down, published, skipped>>

\* set_hidden
Hide(c) ==
  /\ Move(c) /\ ~pages[c].hidden
  /\ PageDoes(c, [pages[c] EXCEPT !.hidden = TRUE], <<Suspend(pages[c], FALSE)>>)

\* A page shown in a battle resumes it, or watches it from a new baseline
\* behind its menu.
Show(c) ==
  /\ pages[c].hidden
  /\ LET p == [pages[c] EXCEPT !.hidden = FALSE] IN
     IF p.phase # "playing" THEN PageDoes(c, p, <<>>)
     ELSE IF ~p.menu THEN PageDoes(c, p, <<Resume(p)>>)
     ELSE PageDoes(c, [p EXCEPT !.requested = TRUE], <<Suspend(p, TRUE)>> \o RequestFull(p))
  /\ UNCHANGED <<room, stream, seats, down, published, skipped, moves>>

\* pause: the battle goes on behind the menu.
Pause(c) ==
  /\ Move(c) /\ pages[c].phase = "playing" /\ ~pages[c].menu
  /\ PageDoes(c, [pages[c] EXCEPT !.menu = TRUE], <<Suspend(pages[c], TRUE)>>)

\* resume: the menu is closed, or a bot has the tank of a player who is there.
GetBack(c) ==
  /\ Move(c) /\ pages[c].ready = pages[c].round /\ pages[c].phase = "playing"
  /\ pages[c].menu \/ ~pages[c].hidden
  /\ PageDoes(c, [pages[c] EXCEPT !.menu = FALSE], <<Resume(pages[c])>>)

\* (Mutant: an arena of a round gone by is not followed by the round's own.)
ArenaPreparedOnce(c) ==
  /\ pages[c].preparing # 0 /\ pages[c].ended = "no"
  /\ LET current == pages[c].preparing = pages[c].round
         p == [pages[c] EXCEPT !.preparing = 0] IN
     IF current /\ p.control THEN PageDoes(c, [p EXCEPT !.ready = p.round], <<Resume(p)>>)
     ELSE PageDoes(c, p, <<>>)
  /\ UNCHANGED <<room, stream, seats, down, published, skipped, moves>>

\* arena_prepared
ArenaPrepared(c) ==
  /\ pages[c].preparing # 0 /\ pages[c].ended = "no"
  /\ LET current == pages[c].preparing = pages[c].round
         p == [pages[c] EXCEPT !.preparing = 0] IN
     IF current /\ p.control THEN PageDoes(c, [p EXCEPT !.ready = p.round], <<Resume(p)>>)
     ELSE IF ~current /\ p.connected THEN Prepare(c, p) ELSE PageDoes(c, p, <<>>)
  /\ UNCHANGED <<room, stream, seats, down, published, skipped, moves>>

-----------------------------------------------------------------------------
(* What the page hears.                                                    *)

\* (Mutant: frames apply on a baseline of any number.)
GapInEventsOnly(p, f) == p.needsFull \/ f.tick < p.tick \/ (f.to > p.cursor /\ f.from > p.cursor + 1)

\* apply_snapshot refuses a frame.
Gap(p, f) ==
  \/ p.needsFull
  \/ f.seq # p.seq + 1
  \/ f.tick < p.tick
  \/ f.to > p.cursor /\ f.from > p.cursor + 1

\* apply_snapshot: the page after a frame; nothing is read after a gap.
Applied(p, f) ==
  IF Gap(p, f) THEN [p EXCEPT !.needsFull = TRUE]
  ELSE [p EXCEPT !.seq = f.seq, !.tick = f.tick, !.cursor = IF f.to > @ THEN f.to ELSE @,
                 !.scene = IF @ = f.base THEN f.scene ELSE Mixed]

\* The page after a batch, frame by frame.
AppliedAll(p, frames) ==
  LET after[i \in 0..Len(frames)] == IF i = 0 THEN p ELSE Applied(after[i - 1], frames[i]) IN
  after[Len(frames)]

HearWelcome(c, p) ==
  PageDoes(c, [p EXCEPT !.needsFull = TRUE, !.requested = FALSE, !.control = FALSE], <<>>)

HearLobby(c, p, m) ==
  PageDoes(c, [p EXCEPT !.round = m.round, !.phase = m.phase,
                        !.needsFull = @ \/ m.round # p.round,
                        !.control = @ /\ m.round = p.round,
                        !.menu = @ /\ m.phase # "results"], <<>>)

\* Control of another round is left out.
HearControl(c, p, m) == PageDoes(c, [p EXCEPT !.control = @ \/ m.round = p.round], <<>>)

\* fail: the page gives up, and closes its socket.
Fail(c, p, cause) == PageDoes(c, [p EXCEPT !.ended = cause, !.connected = FALSE], <<>>)

\* A baseline of another round than the lobby's cannot be read (Outdated).
HearFull(c, p, m) ==
  IF m.round # p.round THEN Fail(c, p, "outdated")
  ELSE LET q == [p EXCEPT !.requested = FALSE, !.needsFull = FALSE, !.mirrored = m.round, !.seq = m.seq,
                          !.tick = m.tick, !.scene = m.scene, !.cursor = m.cursor] IN
       IF p.ready # p.round THEN Prepare(c, q) ELSE PageDoes(c, q, <<>>)

HearBatch(c, p, m) ==
  IF Len(m.frames) > MaxBatch THEN Fail(c, p, "outdated")
  ELSE IF m.round # p.round THEN PageDoes(c, p, <<>>)
  ELSE LET q == AppliedAll(p, m.frames) IN
       IF q.needsFull THEN PageDoes(c, [q EXCEPT !.requested = TRUE], RequestFull(q))
       ELSE PageDoes(c, q, <<>>)

\* The next message from the host.
Hear(c) ==
  /\ down[c] # <<>>
  /\ LET m == Head(down[c]) IN
       \/ m.type = "welcome" /\ HearWelcome(c, pages[c])
       \/ m.type = "lobby" /\ HearLobby(c, pages[c], m)
       \/ m.type = "control" /\ HearControl(c, pages[c], m)
       \/ m.type = "full" /\ HearFull(c, pages[c], m)
       \/ m.type = "batch" /\ HearBatch(c, pages[c], m)
       \/ m.type = "closed" /\ Fail(c, pages[c], "rejected")
  /\ down' = [down EXCEPT ![c] = IF pages'[c].connected THEN Tail(@) ELSE <<>>]
  /\ UNCHANGED <<room, stream, seats, published, skipped, moves>>

-----------------------------------------------------------------------------
(* The host hears a client.                                                *)

\* suspend
HostSuspends(c, m) ==
  /\ seats' = [seats EXCEPT ![c].suspended = TRUE, ![c].watching = m.watch]
  /\ UNCHANGED <<stream, down, published, skipped>>

\* send_full_limited, for a seat that is seat by now: a second may have passed
\* since the last baseline was counted.
SendFullLimited(c, seat) ==
  \E fulls \in {1, seat.fulls + 1} :
    IF fulls > MaxFulls
      THEN /\ seats' = [seats EXCEPT ![c] = [seat EXCEPT !.joined = FALSE]]
           /\ down' = [down EXCEPT ![c] = Sent(c, <<[type |-> "closed"]>>)]
           /\ UNCHANGED <<stream, published, skipped>>
      ELSE LET s == Current(stream) IN
           /\ seats' = [seats EXCEPT ![c] = [seat EXCEPT !.fulls = fulls,
                                                         !.baseline = IF Built THEN s.seq ELSE @]]
           /\ stream' = IF Built THEN s ELSE stream
           /\ Publishes(stream')
           /\ down' = IF Built THEN [down EXCEPT ![c] = Sent(c, <<Full(s)>>)] ELSE down
           /\ skipped' = IF Built THEN skipped \ {c} ELSE skipped

\* The next message of a client; one about another round is dropped.
Receive(c) ==
  /\ ~room.stepping /\ seats[c].joined /\ up[c] # <<>>
  /\ up' = [up EXCEPT ![c] = Tail(@)]
  /\ LET m == Head(up[c]) IN
       \/ m.round # room.round /\ UNCHANGED <<room, stream, seats, down, published, skipped>>
       \/ /\ m.round = room.round
          /\ \E w \in Handed :
               (m.type = "resync" => w = room.world) /\ room' = [room EXCEPT !.world = w]
          /\ \/ m.type = "suspend" /\ HostSuspends(c, m)
             \/ m.type = "resume" /\ SendFullLimited(c, [seats[c] EXCEPT !.suspended = FALSE,
                                                                        !.watching = FALSE])
             \/ m.type = "resync" /\ SendFullLimited(c, seats[c])
  /\ UNCHANGED <<pages, moves>>

-----------------------------------------------------------------------------
(* Rounds and ticks.                                                       *)

Joined == {c \in Clients : seats[c].joined}

\* start: a new stream, whose first baseline everybody gets.
Start ==
  /\ ~room.stepping /\ room.phase # "playing" /\ Joined # {} /\ room.round < MaxRounds
  /\ room' = [room EXCEPT !.phase = "playing", !.round = @ + 1, !.tick = 0, !.idle = 0, !.world = @ + 1]
  /\ stream' = [seq |-> 0, previous |-> room'.world, sent |-> 0, cursor |-> 0, frames |-> <<>>]
  /\ seats' = [c \in Clients |-> [seats[c] EXCEPT !.baseline = 0]]
  /\ down' = [c \in Clients |-> IF c \in Joined THEN Sent(c, <<Lobby, Control, Full(stream')>>) ELSE down[c]]
  /\ published' = Append(published, <<room'.world>>) /\ skipped' = skipped \ Joined
  /\ UNCHANGED <<up, pages, moves>>

\* One tick of a callback; deaths, respawns and new players get a frame of
\* their own.
Step ==
  /\ room.phase = "playing" /\ room.tick < MaxTicks
  /\ room' = [room EXCEPT !.tick = @ + 1, !.world = @ + 1, !.stepping = TRUE]
  /\ \E events \in {0, 1}, lifecycle \in BOOLEAN :
       /\ stream.cursor + events <= MaxEvents
       /\ LET s == [stream EXCEPT !.cursor = @ + events] IN
            stream' = IF lifecycle THEN Captured(s) ELSE s
       /\ Publishes(stream')
  /\ UNCHANGED <<seats, links, pages, skipped, moves>>

\* The stream when its batch is sent: the newest tick and all events are in it.
Complete(s) ==
  IF s.frames = <<>> \/ s.frames[Len(s.frames)].tick # room'.tick \/ s.sent # s.cursor
    THEN Captured(s) ELSE s

Batch(c, frames) ==
  [type |-> "batch", round |-> room.round, frames |-> frames, broken |-> c \in skipped]

\* At most MaxBatch frames go into a message.
Batches(c, frames) ==
  [k \in 1..((Len(frames) + MaxBatch - 1) \div MaxBatch) |->
     Batch(c, SubSeq(frames, (k - 1) * MaxBatch + 1, Smaller(k * MaxBatch, Len(frames))))]

\* (Mutant: a client is sent the frames its baseline shows.)
UnseenAll(frames, seat) == frames

\* The frames a client's baseline does not show yet: frames are in sequence
\* order, so those it shows come first (partition_point).
Unseen(frames, seat) ==
  LET seen == Cardinality({i \in DOMAIN frames : frames[i].seq <= seat.baseline}) IN
  SubSeq(frames, seen + 1, Len(frames))

Streamed == {c \in Joined : ~seats[c].suspended \/ seats[c].watching}

\* broadcast_snapshot, and what follows it.
Broadcast(more) ==
  LET s == Complete(stream) IN
  /\ stream' = [s EXCEPT !.frames = <<>>]
  /\ Publishes(s)
  /\ down' = [c \in Clients |->
                IF c \in Streamed THEN Sent(c, Batches(c, Unseen(s.frames, seats[c])) \o more)
                ELSE IF c \in Joined THEN Sent(c, more) ELSE down[c]]
  /\ skipped' = skipped \cup (Clients \ Streamed)

\* The end of a callback, which may have had no tick to step.
EndCallback ==
  /\ room.phase = "playing" /\ (room.stepping \/ room.idle < MaxIdle)
  /\ room' = [room EXCEPT !.stepping = FALSE, !.idle = @ + IF room.stepping THEN 0 ELSE 1]
  /\ Broadcast(<<>>)
  /\ UNCHANGED <<seats, up, pages, moves>>

\* finish: the last batch and then the results.
Finish ==
  /\ ~room.stepping /\ room.phase = "playing"
  /\ room' = [room EXCEPT !.phase = "results"]
  /\ Broadcast(<<Lobby>>)
  /\ UNCHANGED <<seats, up, pages, moves>>

Next ==
  \/ \E c \in Clients :
       \/ Join(c) \/ LoseLink(c) \/ LinkLost(c)
       \/ Hide(c) \/ Show(c) \/ Pause(c) \/ GetBack(c) \/ ArenaPrepared(c)
       \/ Hear(c) \/ Receive(c)
  \/ Start \/ Step \/ EndCallback \/ Finish

Spec == Init /\ [][Next]_vars

\* Messages arrive, arenas get ready, and the host ends its callbacks.
Fairness ==
  /\ \A c \in Clients : WF_vars(Hear(c)) /\ SF_vars(Receive(c)) /\ WF_vars(ArenaPrepared(c))
  /\ WF_vars(EndCallback)

FairSpec == Spec /\ Fairness
=============================================================================
