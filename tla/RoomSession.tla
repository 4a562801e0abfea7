----------------------------- MODULE RoomSession -----------------------------
(***************************************************************************)
(* The session of one room, crates/server/src/session.rs: the sockets a    *)
(* room holds, the match host they play on, and the room's timer.          *)
(*                                                                         *)
(* A session is plain synchronous state that the room's task calls, so it  *)
(* is a record, and each operation gives the set of records it may end in. *)
(* Which one is the match host's doing.  The host appears by its contract, *)
(* the trait RoomHost of host.rs: a call may close connections, seat the   *)
(* caller, or end the match, and it may panic.  (MatchHost models the host *)
(* itself.)                                                                *)
(***************************************************************************)
EXTENDS Integers, FiniteSets

CONSTANTS
  Socket,     \* connections; one that comes back is another
  MaxSockets  \* MAX_PENDING_CONNECTIONS: open sockets of a room, joined or not

Session ==
  [host: {"none", "alive", "disposed"},
   sockets: SUBSET Socket,   \* open sockets, and of these
   joined: SUBSET Socket,    \* the ones that have been welcomed to a seat
   overdue: SUBSET Socket,   \* the ones that JOIN_TIMEOUT_MS has passed for
   armed: BOOLEAN,           \* deadline_ms is Some
   ended: BOOLEAN]           \* the session stopped and its task must end

NewSession ==
  [host |-> "none", sockets |-> {}, joined |-> {}, overdue |-> {},
   armed |-> FALSE, ended |-> FALSE]

\* `forget` for every socket of D; the host is told and ignores the ones it does not know.
Without(r, D) ==
  [r EXCEPT !.sockets = @ \ D, !.joined = @ \ D, !.overdue = @ \ D]

\* mutant: sockets that have not joined are left when the room stops
StoppedLeaking(r) == [Without(r, r.joined) EXCEPT !.armed = FALSE, !.ended = TRUE]

\* stop: no timer, no sockets, and the task is told to end.
Stopped(r) == [Without(r, r.sockets) EXCEPT !.armed = FALSE, !.ended = TRUE]

\* The host disposed of the match: it closes its clients, and the sockets that have not
\* joined stay until the room stops or a new match starts.
Disposed(r) == [Without(r, r.joined) EXCEPT !.host = "disposed"]

\* What a call that leaves r may come to: r, the end of the match (also after a panic, when
\* the host is disposed of), or a host so broken that the session drops it and stops.
Calls(r) ==
  IF r.host = "alive"
  THEN {r, Disposed(r), [Stopped(r) EXCEPT !.host = "none"]}
  ELSE {r}

Full(r) == Cardinality(r.sockets) >= MaxSockets

\* accept: a socket that finds no match, or one that is over, starts a new one.
Accept(r, s) ==
  [r EXCEPT !.sockets = @ \cup {s}, !.host = "alive", !.armed = TRUE]

\* A join seats its socket; a player who comes back replaces the seat's old socket.
Welcomes(r, s) ==
  UNION {Calls([Without(r, D) EXCEPT !.joined = @ \cup {s}]) :
           D \in {{}} \cup {{o} : o \in r.joined}}

\* message: a bad one, or one a disposed host gets, closes the socket; otherwise the host
\* may do nothing, seat the sender, or close it (leave and fatal errors).
Messages(r, s) ==
  IF s \notin r.sockets THEN {r}
  ELSE Calls(Without(r, {s}))
         \cup (IF r.host = "alive" THEN Calls(r) ELSE {})
         \cup (IF r.host = "alive" /\ s \notin r.joined THEN Welcomes(r, s) ELSE {})

\* closed and failed: the socket's task is over.
Closes(r, s) == IF s \in r.sockets THEN Calls(Without(r, {s})) ELSE {r}

\* reset: the match is ended and the room stopped, also when the host fails in it.
ResetBy(r) == Stopped(Disposed(r))

\* mutant: a match nobody has joined is given no timer
RearmedForPlayers(r) ==
  IF r.host # "alive" THEN Stopped(r) ELSE [r EXCEPT !.armed = r.joined # {}]

\* The end of on_timer: the next deadline while a match runs, otherwise the room stops.
Rearmed(r) == IF r.host = "alive" THEN [r EXCEPT !.armed = TRUE] ELSE Stopped(r)

\* on_timer: sockets that took too long to join are dropped, and the host advances: it may
\* drop clients that fell silent and end the match.
OnTimer(r) ==
  LET t == Without([r EXCEPT !.armed = FALSE], r.overdue \ r.joined)
  IN  {Rearmed(u) : u \in UNION {Calls(Without(t, D)) : D \in SUBSET t.joined}}

\* Time passes: sockets that are slow to join become overdue.
Waits(r, s) == [r EXCEPT !.overdue = @ \cup {s}]
=============================================================================
