------------------------- MODULE MatchHostProperties -------------------------
(***************************************************************************)
(* What MatchHost promises the players of a room.                          *)
(***************************************************************************)
EXTENDS MatchHost

connected(i) == seat[i].conn # NoConn

\* One socket per seat and one seat per socket: the `connection` of every seat and the
\* `player_id` of every client point at each other, through takeovers, drops of several
\* clients at once and departures.  ("Never grant two sockets authority for one seat.")
OneSocketPerSeat ==
  /\ \A c \in clients : player(c) \in seats /\ seat[player(c)].conn = c
  /\ \A i \in seats : connected(i) => seat[i].conn \in clients /\ player(seat[i].conn) = i

\* Whenever anyone is connected, exactly one connected player is the host, whoever left,
\* went stale or was taken over: a room with players can always be started or ended.
HostIsConnected ==
  ~disposed => IF clients = {} THEN host = Nobody ELSE host \in seats /\ connected(host)

\* Every reservation has a deadline running exactly while nobody is connected to it, and
\* the room's own grace runs exactly while nobody is connected at all: no seat and no room
\* can be kept for ever by a lost socket, and none expires under a connected player.
GraceRuns ==
  ~disposed =>
    /\ \A i \in seats : connected(i) <=> seat[i].away = NotCounting
    /\ clients = {} <=> emptyFor # NotCounting

\* No reservation outlives the room: an empty room has waited at most as long as every
\* seat in it, so when the room's grace ends no seat still had time to return.
NoReservationCutShort ==
  ~disposed /\ emptyFor # NotCounting => \A i \in seats : seat[i].away >= emptyFor

-----------------------------------------------------------------------------
\* Authority passes only when the host's connection is gone, and then to the earliest
\* seated player still connected: a newcomer or a returning former host never takes it.
HandoverInJoinOrder ==
  [][~disposed' /\ host' # host =>
       IF host = Nobody THEN clients = {} /\ clients' # {}
       ELSE /\ host \notin seats' \/ seat'[host].conn = NoConn
            /\ host' = First({i \in seats' : seat'[i].conn # NoConn})]_vars

\* A seat is kept for the whole grace: it is given up only by its connected player, or
\* EmptyGrace after its connection was lost, or with the whole room.
SeatsKeptForGrace ==
  [][~disposed' => \A i \in seats \ seats' : connected(i) \/ seat[i].away = EmptyGrace]_vars

\* A round that starts is a battle that can be played: the host's start never costs the
\* room its simulation or the host their connection.
StartBuildsRound ==
  [][round' # round => built' /\ phase' = "Playing" /\ clients \subseteq clients']_vars

\* The timer never drops a player behind the menu or with a hidden tab because they do
\* not acknowledge state: the host sends them none.
HiddenNotDroppedForLag ==
  [][(\E n \in 0..MaxSteps, silent \in SUBSET seats, over \in BOOLEAN :
        Advance(n, silent, over)) =>
       \A c \in clients : seat[player(c)].suspended /\ ~seat[player(c)].watching
                          /\ client[c].quiet <= ClientTimeout => c \in clients']_vars

-----------------------------------------------------------------------------
\* Every room ends, whatever its players do: battles and idle lobbies have deadlines.
EveryRoomEnds == <>disposed
=============================================================================
