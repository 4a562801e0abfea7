------------------------------ MODULE MatchHost ------------------------------
(***************************************************************************)
(* The authoritative room host, crates/core/src/net/match_host.rs: who     *)
(* holds a seat, over which connection, who is the lobby host, which round *)
(* runs, and when the room ends.                                           *)
(*                                                                         *)
(* The host is a passive object: the room's task calls receive, disconnect *)
(* or advance, one at a time, so each handler is one action.  Player ids   *)
(* are the numbers 1, 2, ... in the order `token()` drew them; the vector  *)
(* `seats` only grows at its end and loses elements in place, so its order *)
(* is the order of the ids.  Every time stamp is kept as the time since    *)
(* it, saturated at the bound it is compared with.                         *)
(*                                                                         *)
(* Left to other modules: rate windows, the state stream a join, a resume  *)
(* or a batch feeds (StateStream), and the queue of inputs of a seat.      *)
(***************************************************************************)
EXTENDS Integers, FiniteSets

CONSTANTS
  Conn,            \* connections the runtime may pass to the host
  NoConn,          \* a seat's connection when it is None
  MaxPlayers,      \* MAX_PLAYERS: seats of a room, reserved ones included
  TeamSlots,       \* TEAM_SLOTS: seats of one team
  MaxParticipants, \* MAX_PARTICIPANTS: players one round's scoreboard counts
  EmptyGrace,      \* EMPTY_GRACE_MS, of an empty room and of an away seat
  ClientTimeout,   \* CLIENT_TIMEOUT_MS: silence after which a client is dropped
  MaxUnacked,      \* MAX_UNACKNOWLEDGED_TICKS
  MaxInputLag,     \* MAX_INPUT_LAG_TICKS of an accepted input
  MaxSteps,        \* MAX_STEPS_PER_BATCH: ticks one timer callback may step
  RoomIdle,        \* ROOM_IDLE_MS outside play
  RoomLife,        \* MAX_ROOM_MS
  BattleOverrun,   \* MAX_BATTLE_OVERRUN_MS
  MaxIds,          \* bound of the model: player ids ever drawn
  MaxRounds        \* bound of the model: rounds ever started

ASSUME ConstantsAssumption ==
  /\ NoConn \notin Conn
  /\ IsFiniteSet(Conn)
  /\ {MaxPlayers, TeamSlots, MaxParticipants, EmptyGrace, ClientTimeout,
      MaxUnacked, MaxInputLag, MaxSteps, RoomIdle, RoomLife,
      BattleOverrun, MaxIds, MaxRounds} \subseteq Nat
  /\ TeamSlots > 0
  \* 8 players, 6 slots a team: a room that is not full has a free slot
  /\ MaxPlayers <= 2 * TeamSlots

VARIABLES
  seats,        \* the players that hold a seat
  seat,         \* their seats: connection, team slot, suspension, away time
  clients,      \* the connections that joined
  client,       \* their players, silence and unacknowledged ticks
  issued,       \* how many player ids have been drawn
  host,         \* host_id; Nobody is the empty string
  phase,        \* the room's phase
  round,        \* round_id
  built,        \* `simulation` is Some
  participants, \* players on the running round's scoreboard
  emptyFor,     \* time since empty_since_ms; NotCounting is None
  idleFor,      \* time since active_ms
  age,          \* time since created_ms
  reason        \* dispose_reason; Open while the room is not disposed

vars == <<seats, seat, clients, client, issued, host, phase, round, built,
          participants, emptyFor, idleFor, age, reason>>

Ids == 1..MaxIds
Nobody == 0
NotCounting == -1
Open == "open"
Team == {"blue", "red"}
Slot == 0..(TeamSlots - 1)
AnyTeam == "auto"
Opponent(t) == IF t = "blue" THEN "red" ELSE "blue"

SeatRec ==
  [conn: Conn \cup {NoConn}, team: Team, slot: Slot, suspended: BOOLEAN,
   watching: BOOLEAN, driving: BOOLEAN, away: NotCounting..EmptyGrace]

ClientRec ==
  [player: Ids \cup {Nobody}, quiet: 0..(ClientTimeout + 1), lag: 0..(MaxUnacked + 1)]

\* What `seat` and `client` hold for players and connections that are not there.
FreeSeat ==
  [conn |-> NoConn, team |-> "blue", slot |-> 0, suspended |-> FALSE,
   watching |-> FALSE, driving |-> FALSE, away |-> NotCounting]
NoClient == [player |-> Nobody, quiet |-> 0, lag |-> 0]

TypeOK ==
  /\ seats \subseteq Ids
  /\ seat \in [Ids -> SeatRec]
  /\ clients \subseteq Conn
  /\ client \in [Conn -> ClientRec]
  /\ issued \in 0..MaxIds
  /\ host \in Ids \cup {Nobody}
  /\ phase \in {"Lobby", "Playing", "Results"}
  /\ round \in 0..MaxRounds
  /\ built \in BOOLEAN
  /\ participants \subseteq Ids
  /\ emptyFor \in NotCounting..EmptyGrace
  /\ idleFor \in 0..RoomIdle
  /\ age \in 0..(RoomLife + BattleOverrun)
  /\ reason \in {Open, "empty", "expired", "overload"}

disposed == reason # Open
playing == phase = "Playing"

Init ==
  /\ seats = {}
  /\ seat = [i \in Ids |-> FreeSeat]
  /\ clients = {}
  /\ client = [c \in Conn |-> NoClient]
  /\ issued = 0
  /\ host = Nobody
  /\ phase = "Lobby"
  /\ round = 0
  /\ built = FALSE
  /\ participants = {}
  /\ emptyFor = 0
  /\ idleFor = 0
  /\ age = 0
  /\ reason = Open

-----------------------------------------------------------------------------
(* Helpers of the handlers.                                                *)

Smaller(x, y) == IF x <= y THEN x ELSE y

\* The first of a set of players in seat order, if any.
First(S) ==
  IF S = {} THEN Nobody ELSE CHOOSE i \in S : \A j \in S : i <= j

player(c) == client[c].player

\* free_slot: the slots of a team nobody but `except` holds.
\* (Mutant: a seat whose player is away is not counted.)
FreeSlotsOfAway(t, except) ==
  {s \in Slot : ~\E i \in seats \ except :
     seat[i].team = t /\ seat[i].slot = s /\ seat[i].conn # NoConn}
FreeSlots(t, except) ==
  {s \in Slot : ~\E i \in seats \ except : seat[i].team = t /\ seat[i].slot = s}
LowestSlot(S) == CHOOSE s \in S : \A r \in S : s <= r

\* auto_team: the side with fewer seats, blue on a tie.
TeamSize(t, except) == Cardinality({i \in seats \ except : seat[i].team = t})
AutoTeam(except) ==
  IF TeamSize("blue", except) <= TeamSize("red", except) THEN "blue" ELSE "red"

\* What create_multiplayer_simulation accepts: few enough seats, no slot held twice.
RosterValid(S, s) ==
  /\ Cardinality(S) <= MaxPlayers
  /\ \A i, j \in S : (s[i].team = s[j].team /\ s[i].slot = s[j].slot) => i = j

\* A client heard from: its silence ends, and it acknowledges up to `seen` ticks ago.
Heard(c, seen) ==
  [client EXCEPT ![c] = [@ EXCEPT !.quiet = 0, !.lag = Smaller(client[c].lag, seen)]]
NothingNew == MaxUnacked + 1

(***************************************************************************)
(* disconnect, for a set of connections at once (a stale client is dropped *)
(* by `advance` one by one, to the same end): their seats stay reserved,   *)
(* stand-ins take over their tanks, and the host's authority passes on.    *)
(***************************************************************************)
\* (Mutants: the seat keeps its connection; its grace is not started.)
SeatsStillBound(D) ==
  [i \in Ids |->
     IF i \in seats /\ seat[i].conn \in D
       THEN [seat[i] EXCEPT !.away = 0, !.driving = FALSE]
       ELSE seat[i]]
SeatsNotCounting(D) ==
  [i \in Ids |->
     IF i \in seats /\ seat[i].conn \in D
       THEN [seat[i] EXCEPT !.conn = NoConn, !.driving = FALSE]
       ELSE seat[i]]
SeatsWithout(D) ==
  [i \in Ids |->
     IF i \in seats /\ seat[i].conn \in D
       THEN [seat[i] EXCEPT !.conn = NoConn, !.away = 0, !.driving = FALSE]
       ELSE seat[i]]
ClientsWithout(D) == [c \in Conn |-> IF c \in D THEN NoClient ELSE client[c]]
\* (Mutant: the heir need not be connected.)
HostWithoutLook(D) ==
  IF host \in {player(c) : c \in D} THEN First(seats \ {host}) ELSE host
HostWithout(D) ==
  IF host \in {player(c) : c \in D}
    THEN First({i \in seats : seat[i].conn \notin D \cup {NoConn}})
    ELSE host
EmptyForWithout(D) == IF D # {} /\ clients \subseteq D THEN 0 ELSE emptyFor

Drop(D) ==
  /\ clients' = clients \ D
  /\ client' = ClientsWithout(D)
  /\ host' = HostWithout(D)
  /\ emptyFor' = EmptyForWithout(D)

\* The seats R released of a seating s.
SeatsReleased(s, R) == [i \in Ids |-> IF i \in R THEN FreeSeat ELSE s[i]]

\* dispose: every connection is sent room-reset and closed, everything is let go.
Dispose(why) ==
  /\ reason' = why
  /\ seats' = {}
  /\ seat' = [i \in Ids |-> FreeSeat]
  /\ clients' = {}
  /\ client' = [c \in Conn |-> NoClient]
  /\ participants' = {}
  /\ built' = FALSE

\* start, for the seats S, s and the clients k: a round with everyone who is there.
SeatsStarted(S, s) ==
  [i \in Ids |->
     IF i \in S
       THEN [s[i] EXCEPT !.driving = s[i].conn # NoConn /\ ~s[i].suspended]
       ELSE s[i]]
ClientsStarted(k) == [c \in Conn |-> [k[c] EXCEPT !.lag = 0]]
Begin(S, s, k) ==
  /\ round < MaxRounds
  /\ round' = round + 1
  /\ seat' = SeatsStarted(S, s)
  /\ client' = ClientsStarted(k)
  /\ participants' = S
  /\ built' = TRUE
  /\ phase' = "Playing"
  /\ idleFor' = 0

-----------------------------------------------------------------------------
(***************************************************************************)
(* join.  A refused join is answered with an error and changes nothing, so *)
(* only accepted ones are actions; their guards are the refusals.  `epoch` *)
(* is the room epoch the request names: none, this room's or another's.    *)
(***************************************************************************)
NoToken == Nobody
JoinRequest ==
  [token: Ids \cup {NoToken}, epoch: {"none", "this", "other"},
   create: BOOLEAN, existing: BOOLEAN, team: Team \cup {AnyTeam}]

creates(r) == r.create /\ r.token \notin seats /\ r.epoch = "none"

\* The side a request gets: its own, or the smaller one that has room.
Side(want) ==
  IF want # AnyTeam THEN want
  ELSE IF FreeSlots(AutoTeam({}), {}) = {} THEN Opponent(AutoTeam({})) ELSE AutoTeam({})

RoundFull == Cardinality(participants) >= MaxParticipants

Admissible(c, r) ==
  /\ ~disposed
  /\ c \notin clients
  /\ r.token \notin seats
  /\ creates(r) => seats = {}                                  \* room-exists
  /\ ~(r.existing /\ seats = {})                              \* room-gone
  /\ ~(r.token # NoToken /\ r.epoch = "this")                 \* seat-expired
  /\ Cardinality(seats) < MaxPlayers                           \* room-full
  /\ ~RoundFull                                               \* round-full
  /\ FreeSlots(Side(r.team), {}) # {}                          \* team-full
  /\ issued < MaxIds

NewSeat(c, side) ==
  [conn |-> c, team |-> side, slot |-> LowestSlot(FreeSlots(side, {})),
   suspended |-> FALSE, watching |-> FALSE, driving |-> built, away |-> NotCounting]

Seated(c, p) ==
  /\ clients' = clients \cup {c}
  /\ emptyFor' = NotCounting
  /\ host' = IF host = Nobody THEN p ELSE host

\* A new seat, in the lobby or in a tank of the running round.
Join(c, r) ==
  LET p == issued + 1 IN
  /\ Admissible(c, r)
  /\ ~creates(r)
  /\ issued' = p
  /\ seats' = seats \cup {p}
  /\ seat' = [seat EXCEPT ![p] = NewSeat(c, Side(r.team))]
  /\ client' = [client EXCEPT ![c] = [player |-> p, quiet |-> 0, lag |-> 0]]
  /\ participants' = IF built THEN participants \cup {p} ELSE participants
  /\ idleFor' = 0
  /\ Seated(c, p)
  /\ UNCHANGED <<phase, round, built, age, reason>>

\* The first join of a created room starts its round at once.
Create(c, r) ==
  LET p == issued + 1 IN
  /\ Admissible(c, r)
  /\ creates(r)
  /\ issued' = p
  /\ seats' = seats \cup {p}
  /\ Begin(seats', [seat EXCEPT ![p] = NewSeat(c, Side(r.team))],
           [client EXCEPT ![c] = [player |-> p, quiet |-> 0, lag |-> 0]])
  /\ Seated(c, p)
  /\ UNCHANGED <<age, reason>>

\* A join with the token of a seat takes the seat over, from its old socket if any.
Reclaim(c, p) ==
  LET old == seat[p].conn IN
  /\ ~disposed
  /\ c \notin clients
  /\ p \in seats
  /\ clients' = (clients \ {old}) \cup {c}
  /\ client' = [k \in Conn |->
                  IF k = c THEN [player |-> p, quiet |-> 0, lag |-> 0]
                  ELSE IF k = old THEN NoClient ELSE client[k]]
  /\ seat' = [seat EXCEPT ![p] =
               [@ EXCEPT !.conn = c, !.away = NotCounting, !.suspended = FALSE,
                         !.watching = FALSE, !.driving = built]]
  /\ emptyFor' = NotCounting
  /\ host' = IF host = Nobody THEN p ELSE host
  /\ idleFor' = 0
  /\ UNCHANGED <<seats, issued, phase, round, built, participants, age, reason>>

-----------------------------------------------------------------------------
(***************************************************************************)
(* The other messages of a joined connection.  One that names another      *)
(* round is dropped and changes nothing.                                   *)
(***************************************************************************)

\* ping: acknowledges the tick it shows, at most the current one.
Ping(c, seen) ==
  /\ c \in clients
  /\ client' = Heard(c, seen)
  /\ UNCHANGED <<seats, seat, clients, issued, host, phase, round, built,
                 participants, emptyFor, idleFor, age, reason>>

\* input: one a driving seat's controls accept acknowledges its tick; resync, and an
\* input that is not accepted, only end the silence.
Input(c, seen) ==
  /\ c \in clients
  /\ playing /\ built /\ seat[player(c)].driving
  /\ seen <= MaxInputLag
  /\ client' = Heard(c, seen)
  /\ UNCHANGED <<seats, seat, clients, issued, host, phase, round, built,
                 participants, emptyFor, idleFor, age, reason>>

Resync(c) ==
  /\ c \in clients
  /\ client' = Heard(c, NothingNew)
  /\ UNCHANGED <<seats, seat, clients, issued, host, phase, round, built,
                 participants, emptyFor, idleFor, age, reason>>

\* Choices are locked during a round.
ChoicesOpen == ~playing

\* choose: a team and its lowest free slot, unless the team is full.
Choose(c, want) ==
  LET p == player(c)
      side == IF want = AnyTeam THEN AutoTeam({p}) ELSE want
      free == FreeSlots(side, {p})
  IN
  /\ c \in clients
  /\ ChoicesOpen
  /\ client' = Heard(c, NothingNew)
  /\ \/ /\ free = {}
        /\ UNCHANGED <<seat, idleFor>>
     \/ /\ free # {}
        /\ seat' = [seat EXCEPT ![p] = [@ EXCEPT !.team = side, !.slot = LowestSlot(free)]]
        /\ idleFor' = 0
  /\ UNCHANGED <<seats, clients, issued, host, phase, round, built, participants,
                 emptyFor, age, reason>>

Settings(c) ==
  /\ c \in clients
  /\ player(c) = host /\ ~playing
  /\ client' = Heard(c, NothingNew)
  /\ idleFor' = 0
  /\ UNCHANGED <<seats, seat, clients, issued, host, phase, round, built,
                 participants, emptyFor, age, reason>>

\* start: a roster the simulation rejects loses the old round and the sender's connection.
Start(c) ==
  /\ c \in clients
  /\ player(c) = host /\ ~playing
  /\ IF RosterValid(seats, seat)
       THEN /\ Begin(seats, seat, Heard(c, NothingNew))
            /\ UNCHANGED <<clients, host, emptyFor>>
       ELSE /\ round < MaxRounds
            /\ round' = round + 1
            /\ participants' = {}
            /\ built' = FALSE
            /\ seat' = SeatsWithout({c})
            /\ Drop({c})
            /\ UNCHANGED <<phase, idleFor>>
  /\ UNCHANGED <<seats, issued, age, reason>>

End(c) ==
  /\ c \in clients
  /\ player(c) = host /\ playing
  /\ client' = Heard(c, NothingNew)
  /\ phase' = "Results"
  /\ idleFor' = 0
  /\ UNCHANGED <<seats, seat, clients, issued, host, round, built, participants,
                 emptyFor, age, reason>>

Suspend(c, watch) ==
  /\ c \in clients
  /\ client' = Heard(c, NothingNew)
  /\ seat' = [seat EXCEPT ![player(c)] =
               [@ EXCEPT !.suspended = TRUE, !.watching = watch, !.driving = FALSE]]
  /\ UNCHANGED <<seats, clients, issued, host, phase, round, built, participants,
                 emptyFor, idleFor, age, reason>>

\* resume; one too many within a second ends the connection, after it took effect.
Resume(c, flooded) ==
  LET p == player(c) IN
  /\ c \in clients
  /\ IF flooded
       THEN /\ seat' = [SeatsWithout({c}) EXCEPT
                          ![p] = [@ EXCEPT !.suspended = FALSE, !.watching = FALSE]]
            /\ Drop({c})
       ELSE /\ seat' = [seat EXCEPT
                          ![p] = [@ EXCEPT !.suspended = FALSE, !.watching = FALSE,
                                           !.driving = built]]
            /\ client' = Heard(c, 0)
            /\ UNCHANGED <<clients, host, emptyFor>>
  /\ UNCHANGED <<seats, issued, phase, round, built, participants, idleFor, age, reason>>

\* leave: the seat is released at once; the last one to go ends the room.
Leave(c) ==
  LET p == player(c) IN
  /\ c \in clients
  /\ host' = HostWithout({c})
  /\ emptyFor' = EmptyForWithout({c})
  /\ IF seats = {p}
       THEN Dispose("empty")
       ELSE /\ seats' = seats \ {p}
            /\ seat' = SeatsReleased(SeatsWithout({c}), {p})
            /\ clients' = clients \ {c}
            /\ client' = ClientsWithout({c})
            /\ participants' = IF built THEN participants \cup {p} ELSE participants
            /\ UNCHANGED <<built, reason>>
  /\ UNCHANGED <<issued, phase, round, idleFor, age>>

\* The socket closed, or a message of it was refused: malformed, too frequent, a second
\* join, a choice in play, a command only the host may give.
Disconnect(c) ==
  /\ c \in clients
  /\ seat' = SeatsWithout({c})
  /\ Drop({c})
  /\ UNCHANGED <<seats, issued, phase, round, built, participants, idleFor, age, reason>>

-----------------------------------------------------------------------------
(* advance, the host timer.                                                *)

\* (Mutant: a room has no longest life.)
ExpiresIdle == emptyFor >= EmptyGrace \/ (~playing /\ idleFor >= RoomIdle)
Expires ==
  \/ emptyFor >= EmptyGrace
  \/ age >= RoomLife + (IF playing THEN BattleOverrun ELSE 0)
  \/ ~playing /\ idleFor >= RoomIdle

\* Seats whose reconnect grace ran out.  (Mutant: one unit early.)
AwayEarly == {i \in seats : seat[i].away + 1 >= EmptyGrace}
Away == {i \in seats : seat[i].away >= EmptyGrace}

\* Clients that went silent or stopped consuming state; a suspended seat gets no state,
\* unless its player watches.
\* (Mutant: also a hidden one.)
StaleWhoever ==
  {c \in clients : client[c].quiet > ClientTimeout \/ client[c].lag > MaxUnacked}
Stale ==
  {c \in clients :
     \/ client[c].quiet > ClientTimeout
     \/ /\ ~(seat[player(c)].suspended /\ ~seat[player(c)].watching)
        /\ client[c].lag > MaxUnacked}

AdvanceExpired ==
  /\ ~disposed
  /\ Expires
  /\ Dispose("expired")
  /\ UNCHANGED <<issued, host, phase, round, emptyFor, idleFor, age>>

\* The fixed-step clock fell too far behind (FixedStepClock::advance).
AdvanceOverload ==
  /\ ~disposed
  /\ ~Expires
  /\ playing
  /\ host' = HostWithout(Stale)
  /\ emptyFor' = EmptyForWithout(Stale)
  /\ Dispose("overload")
  /\ UNCHANGED <<issued, phase, round, idleFor, age>>

\* n ticks are stepped; a bot takes over from the `silent` players, whose last input is
\* BOT_TAKEOVER_MS old; and the battle may be over.
Advance(n, silent, over) ==
  /\ ~disposed
  /\ ~Expires
  /\ n > 0 => playing
  /\ n = 0 => silent = {} /\ ~over
  /\ silent \subseteq {i \in seats : seat[i].driving /\ seat[i].conn \notin Stale}
  /\ seats' = seats \ Away
  /\ seat' = LET kept == SeatsReleased(SeatsWithout(Stale), Away) IN
             [i \in Ids |-> IF i \in silent THEN [kept[i] EXCEPT !.driving = FALSE]
                                            ELSE kept[i]]
  /\ clients' = clients \ Stale
  /\ client' = [c \in Conn |->
                  IF c \in clients \ Stale
                    THEN [client[c] EXCEPT !.lag = Smaller(@ + n, MaxUnacked + 1)]
                    ELSE NoClient]
  /\ host' = HostWithout(Stale)
  /\ emptyFor' = EmptyForWithout(Stale)
  /\ participants' = IF built THEN participants \cup Away ELSE participants
  /\ phase' = IF over THEN "Results" ELSE phase
  /\ idleFor' = IF over THEN 0 ELSE idleFor
  /\ UNCHANGED <<issued, round, built, age, reason>>

\* Time passes between two calls.
Older(t, bound) == IF t = NotCounting THEN t ELSE Smaller(t + 1, bound)
Tick ==
  /\ ~disposed
  /\ seat' = [i \in Ids |-> [seat[i] EXCEPT !.away = Older(@, EmptyGrace)]]
  /\ client' = [c \in Conn |->
                  IF c \in clients
                    THEN [client[c] EXCEPT !.quiet = Smaller(@ + 1, ClientTimeout + 1)]
                    ELSE client[c]]
  /\ emptyFor' = Older(emptyFor, EmptyGrace)
  /\ idleFor' = Smaller(idleFor + 1, RoomIdle)
  /\ age' = Smaller(age + 1, RoomLife + BattleOverrun)
  /\ UNCHANGED <<seats, clients, issued, host, phase, round, built, participants, reason>>

-----------------------------------------------------------------------------
Timer ==
  \/ AdvanceExpired
  \/ AdvanceOverload
  \/ \E n \in 0..MaxSteps, silent \in SUBSET seats, over \in BOOLEAN :
        Advance(n, silent, over)

Next ==
  \/ \E c \in Conn, r \in JoinRequest : Join(c, r)
  \/ \E c \in Conn, r \in JoinRequest : Create(c, r)
  \/ \E c \in Conn, p \in Ids : Reclaim(c, p)
  \/ \E c \in Conn, seen \in 0..MaxUnacked : Ping(c, seen)
  \/ \E c \in Conn, seen \in 0..MaxInputLag : Input(c, seen)
  \/ \E c \in Conn : Resync(c)
  \/ \E c \in Conn, want \in Team \cup {AnyTeam} : Choose(c, want)
  \/ \E c \in Conn : Settings(c)
  \/ \E c \in Conn : Start(c)
  \/ \E c \in Conn : End(c)
  \/ \E c \in Conn, watch \in BOOLEAN : Suspend(c, watch)
  \/ \E c \in Conn, flooded \in BOOLEAN : Resume(c, flooded)
  \/ \E c \in Conn : Leave(c)
  \/ \E c \in Conn : Disconnect(c)
  \/ Timer
  \/ Tick

Spec == Init /\ [][Next]_vars

\* The room's task keeps a timer armed until the host is disposed, and time passes.
FairSpec == Spec /\ WF_vars(Timer) /\ WF_vars(Tick)
=============================================================================
