--------------------------- MODULE MatchHostProofs ---------------------------
(***************************************************************************)
(* Proofs about MatchHost, for every number of connections, players, slots *)
(* and rounds, and every length of the timeouts.                           *)
(***************************************************************************)
EXTENDS MatchHostProperties, FiniteSetTheorems, WellFoundedInduction, TLAPS

-----------------------------------------------------------------------------
(* Lemmas about the helpers.                                               *)

\* A non-empty set of naturals has a least element.
LEMMA LeastElement ==
  ASSUME NEW S \in SUBSET Nat, S # {}
  PROVE  \E i \in S : \A j \in S : i <= j
<1>1. PICK i \in S : \A j \in S : ~(<<j, i>> \in OpToRel(<, Nat))
  BY WFMin, NatLessThanWellFounded
<1>2. OpToRel(<, Nat) = {ss \in Nat \X Nat : ss[1] < ss[2]}
  BY Zenon DEF OpToRel
<1>3. ASSUME NEW j \in S
      PROVE  i <= j
  <2>1. i \in Nat /\ j \in Nat /\ <<j, i>> \in Nat \X Nat
    OBVIOUS
  <2>2. <<j, i>> \notin {ss \in Nat \X Nat : ss[1] < ss[2]}
    BY <1>1, <1>2, Zenon
  <2>3. ~(j < i)
    BY <2>1, <2>2
  <2>4. QED
    BY <2>1, <2>3
<1>4. QED
  BY <1>3

\* First picks a member of the set of players it is given, if there is one.
LEMMA FirstIsMember ==
  ASSUME NEW S \in SUBSET Ids
  PROVE  /\ S = {} => First(S) = Nobody
         /\ S # {} => First(S) \in S
<1>1. S \in SUBSET Nat
  BY DEF Ids
<1>2. S # {} => \E i \in S : \A j \in S : i <= j
  BY <1>1, LeastElement
<1>3. QED
  BY <1>2 DEF First

\* LowestSlot picks one of the free slots it is given.
LEMMA LowestSlotIsMember ==
  ASSUME NEW S \in SUBSET Slot, S # {}
  PROVE  LowestSlot(S) \in S
<1>1. S \in SUBSET Nat
  BY DEF Slot
<1>2. \E i \in S : \A j \in S : i <= j
  BY <1>1, LeastElement
<1>3. QED
  BY <1>2 DEF LowestSlot

\* The bounds are natural numbers.
LEMMA Bounds ==
  /\ MaxPlayers \in Nat /\ TeamSlots \in Nat /\ MaxParticipants \in Nat
  /\ EmptyGrace \in Nat /\ ClientTimeout \in Nat /\ MaxUnacked \in Nat
  /\ MaxInputLag \in Nat /\ MaxSteps \in Nat /\ RoomIdle \in Nat /\ RoomLife \in Nat
  /\ BattleOverrun \in Nat /\ MaxIds \in Nat /\ MaxRounds \in Nat
BY ConstantsAssumption

-----------------------------------------------------------------------------
(* Type correctness.                                                       *)

\* What stands for a seat and a client that are not there is well formed.
LEMMA NullRecords == FreeSeat \in SeatRec /\ NoClient \in ClientRec
<1>1. /\ 0 \in Slot /\ "blue" \in Team /\ NotCounting \in NotCounting..EmptyGrace
      /\ NoConn \in Conn \cup {NoConn}
  BY ConstantsAssumption, Bounds DEF Slot, Team, NotCounting
<1>2. FreeSeat \in SeatRec
  BY <1>1 DEF FreeSeat, SeatRec
<1>3. NoClient \in ClientRec
  BY Bounds DEF NoClient, ClientRec
<1>4. QED
  BY <1>2, <1>3

\* A seat with one field replaced is a seat.
LEMMA SeatField ==
  ASSUME NEW s \in SeatRec
  PROVE  /\ \A k \in Conn \cup {NoConn} : [s EXCEPT !.conn = k] \in SeatRec
         /\ \A t \in Team : [s EXCEPT !.team = t] \in SeatRec
         /\ \A x \in Slot : [s EXCEPT !.slot = x] \in SeatRec
         /\ \A b \in BOOLEAN : /\ [s EXCEPT !.suspended = b] \in SeatRec
                              /\ [s EXCEPT !.watching = b] \in SeatRec
                              /\ [s EXCEPT !.driving = b] \in SeatRec
         /\ \A a \in NotCounting..EmptyGrace : [s EXCEPT !.away = a] \in SeatRec
BY DEF SeatRec

\* A seat whose connection is replaced.
LEMMA SeatLost ==
  ASSUME NEW s \in SeatRec, NEW k \in Conn \cup {NoConn}, NEW a \in NotCounting..EmptyGrace,
         NEW d \in BOOLEAN
  PROVE  [s EXCEPT !.conn = k, !.away = a, !.driving = d] \in SeatRec
<1>1. [[[s EXCEPT !.conn = k] EXCEPT !.away = a] EXCEPT !.driving = d] \in SeatRec
  BY SeatField, Zenon
<1>2. [s EXCEPT !.conn = k, !.away = a, !.driving = d] =
        [[[s EXCEPT !.conn = k] EXCEPT !.away = a] EXCEPT !.driving = d]
  OBVIOUS
<1>3. QED
  BY <1>1, <1>2, Zenon

\* A seat moved to another slot.
LEMMA SeatMoved ==
  ASSUME NEW s \in SeatRec, NEW t \in Team, NEW x \in Slot
  PROVE  [s EXCEPT !.team = t, !.slot = x] \in SeatRec
<1>1. [[s EXCEPT !.team = t] EXCEPT !.slot = x] \in SeatRec
  BY SeatField, Zenon
<1>2. [s EXCEPT !.team = t, !.slot = x] =
        [[s EXCEPT !.team = t] EXCEPT !.slot = x]
  OBVIOUS
<1>3. QED
  BY <1>1, <1>2, Zenon

\* A seat suspended or resumed while its controls are left alone.
LEMMA SeatUnwatched ==
  ASSUME NEW s \in SeatRec, NEW b \in BOOLEAN, NEW w \in BOOLEAN
  PROVE  [s EXCEPT !.suspended = b, !.watching = w] \in SeatRec
<1>1. [[s EXCEPT !.suspended = b] EXCEPT !.watching = w] \in SeatRec
  BY SeatField, Zenon
<1>2. [s EXCEPT !.suspended = b, !.watching = w] =
        [[s EXCEPT !.suspended = b] EXCEPT !.watching = w]
  OBVIOUS
<1>3. QED
  BY <1>1, <1>2, Zenon

\* A seat suspended or resumed with its controls.
LEMMA SeatSuspended ==
  ASSUME NEW s \in SeatRec, NEW b \in BOOLEAN, NEW w \in BOOLEAN, NEW d \in BOOLEAN
  PROVE  [s EXCEPT !.suspended = b, !.watching = w, !.driving = d] \in SeatRec
<1>1. [[[s EXCEPT !.suspended = b] EXCEPT !.watching = w] EXCEPT !.driving = d] \in SeatRec
  BY SeatField, Zenon
<1>2. [s EXCEPT !.suspended = b, !.watching = w, !.driving = d] =
        [[[s EXCEPT !.suspended = b] EXCEPT !.watching = w] EXCEPT !.driving = d]
  OBVIOUS
<1>3. QED
  BY <1>1, <1>2, Zenon

\* A seat taken over.
LEMMA SeatReclaimed ==
  ASSUME NEW s \in SeatRec, NEW k \in Conn, NEW d \in BOOLEAN
  PROVE  [s EXCEPT !.conn = k, !.away = NotCounting, !.suspended = FALSE,
                   !.watching = FALSE, !.driving = d] \in SeatRec
<1>1. [[s EXCEPT !.conn = k] EXCEPT !.away = NotCounting] \in SeatRec
  <2>1. NotCounting \in NotCounting..EmptyGrace
    BY Bounds DEF NotCounting
  <2>2. QED
    BY <2>1, SeatField, Zenon
<1>2. \A r \in SeatRec :
        [r EXCEPT !.suspended = FALSE, !.watching = FALSE, !.driving = d] \in SeatRec
  BY SeatSuspended
<1>3. [[[s EXCEPT !.conn = k] EXCEPT !.away = NotCounting] EXCEPT
         !.suspended = FALSE, !.watching = FALSE, !.driving = d] \in SeatRec
  BY <1>1, <1>2, Zenon
<1>4. [s EXCEPT !.conn = k, !.away = NotCounting, !.suspended = FALSE,
                !.watching = FALSE, !.driving = d] =
      [[[s EXCEPT !.conn = k] EXCEPT !.away = NotCounting] EXCEPT
         !.suspended = FALSE, !.watching = FALSE, !.driving = d]
  OBVIOUS
<1>5. QED
  BY <1>3, <1>4, Zenon

\* So does hearing from a client, and stepping ticks it has not acknowledged.
LEMMA ClientUpdates ==
  ASSUME NEW k \in ClientRec, NEW n \in Nat
  PROVE  /\ [k EXCEPT !.quiet = 0, !.lag = Smaller(k.lag, n)] \in ClientRec
         /\ [k EXCEPT !.lag = Smaller(@ + n, MaxUnacked + 1)] \in ClientRec
         /\ [k EXCEPT !.quiet = Smaller(@ + n, ClientTimeout + 1)] \in ClientRec
         /\ [k EXCEPT !.lag = 0] \in ClientRec
         /\ NoClient \in ClientRec
<1>1. \A r \in ClientRec : [r EXCEPT !.quiet = 0] \in ClientRec
  BY Bounds DEF ClientRec
<1>2. [[k EXCEPT !.quiet = 0] EXCEPT !.lag = Smaller(k.lag, n)] \in ClientRec
  <2>1. k.lag \in 0..(MaxUnacked + 1) /\ Smaller(k.lag, n) \in 0..(MaxUnacked + 1)
    BY Bounds DEF ClientRec, Smaller
  <2>2. \A r \in ClientRec, l \in 0..(MaxUnacked + 1) : [r EXCEPT !.lag = l] \in ClientRec
    BY DEF ClientRec
  <2>3. QED
    BY <1>1, <2>1, <2>2, Zenon
<1>3. [k EXCEPT !.quiet = 0, !.lag = Smaller(k.lag, n)] =
        [[k EXCEPT !.quiet = 0] EXCEPT !.lag = Smaller(k.lag, n)]
  OBVIOUS
<1>4. [k EXCEPT !.lag = Smaller(@ + n, MaxUnacked + 1)] \in ClientRec
  BY Bounds DEF ClientRec, Smaller
<1>5. [k EXCEPT !.quiet = Smaller(@ + n, ClientTimeout + 1)] \in ClientRec
  BY Bounds DEF ClientRec, Smaller
<1>6. [k EXCEPT !.lag = 0] \in ClientRec /\ NoClient \in ClientRec
  BY Bounds DEF ClientRec, NoClient
<1>7. QED
  BY <1>2, <1>3, <1>4, <1>5, <1>6

\* Dropping connections keeps every type.
LEMMA DropTypes ==
  ASSUME TypeOK, NEW D \in SUBSET clients
  PROVE  /\ SeatsWithout(D) \in [Ids -> SeatRec]
         /\ ClientsWithout(D) \in [Conn -> ClientRec]
         /\ HostWithout(D) \in Ids \cup {Nobody}
         /\ EmptyForWithout(D) \in NotCounting..EmptyGrace
<1>1. SeatsWithout(D) \in [Ids -> SeatRec]
  <2> SUFFICES ASSUME NEW i \in Ids
               PROVE  SeatsWithout(D)[i] \in SeatRec
    BY DEF SeatsWithout
  <2>1. seat[i] \in SeatRec
    BY DEF TypeOK
  <2>2. [seat[i] EXCEPT !.conn = NoConn, !.away = 0, !.driving = FALSE] \in SeatRec
    <3>1. 0 \in NotCounting..EmptyGrace
      BY Bounds DEF NotCounting
    <3>2. QED
      BY <2>1, <3>1, SeatLost, Zenon
  <2>3. QED
    BY <2>1, <2>2 DEF SeatsWithout
<1>2. ClientsWithout(D) \in [Conn -> ClientRec]
  BY ClientUpdates DEF ClientsWithout, TypeOK
<1>3. HostWithout(D) \in Ids \cup {Nobody}
  <2>1. {i \in seats : seat[i].conn \notin D \cup {NoConn}} \in SUBSET Ids
    BY DEF TypeOK
  <2>2. First({i \in seats : seat[i].conn \notin D \cup {NoConn}}) \in Ids \cup {Nobody}
    BY <2>1, FirstIsMember
  <2>3. QED
    BY <2>2 DEF HostWithout, TypeOK
<1>4. EmptyForWithout(D) \in NotCounting..EmptyGrace
  BY Bounds DEF EmptyForWithout, TypeOK, NotCounting
<1>5. QED
  BY <1>1, <1>2, <1>3, <1>4

\* Hearing from a client keeps its record well formed.
LEMMA HeardType ==
  ASSUME TypeOK, NEW c \in Conn, NEW seen \in Nat
  PROVE  Heard(c, seen) \in [Conn -> ClientRec]
<1>1. client[c] \in ClientRec
  BY DEF TypeOK
<1>2. [client[c] EXCEPT !.quiet = 0, !.lag = Smaller(client[c].lag, seen)] \in ClientRec
  BY <1>1, ClientUpdates
<1>3. QED
  BY <1>2 DEF Heard, TypeOK

\* A seat handed out by join is well formed.
LEMMA NewSeatType ==
  ASSUME TypeOK, NEW c \in Conn, NEW want \in Team \cup {AnyTeam},
         FreeSlots(Side(want), {}) # {}
  PROVE  NewSeat(c, Side(want)) \in SeatRec
<1>1. Side(want) \in Team
  BY DEF Side, AutoTeam, Opponent, Team, AnyTeam
<1>2. FreeSlots(Side(want), {}) \in SUBSET Slot
  BY DEF FreeSlots
<1>3. LowestSlot(FreeSlots(Side(want), {})) \in Slot
  BY <1>2, LowestSlotIsMember
<1>4. NotCounting \in NotCounting..EmptyGrace
  BY Bounds DEF NotCounting
<1>5. QED
  BY <1>1, <1>3, <1>4 DEF NewSeat, SeatRec, TypeOK

\* A round begins with well formed seats and clients.
LEMMA StartedTypes ==
  ASSUME NEW S \in SUBSET Ids, NEW s \in [Ids -> SeatRec], NEW k \in [Conn -> ClientRec]
  PROVE  /\ SeatsStarted(S, s) \in [Ids -> SeatRec]
         /\ ClientsStarted(k) \in [Conn -> ClientRec]
<1>1. SeatsStarted(S, s) \in [Ids -> SeatRec]
  <2> SUFFICES ASSUME NEW i \in Ids
               PROVE  SeatsStarted(S, s)[i] \in SeatRec
    BY DEF SeatsStarted
  <2>1. (s[i].conn # NoConn /\ ~s[i].suspended) \in BOOLEAN
    OBVIOUS
  <2>2. s[i] \in SeatRec
    OBVIOUS
  <2>3. [s[i] EXCEPT !.driving = s[i].conn # NoConn /\ ~s[i].suspended] \in SeatRec
    BY <2>1, <2>2, SeatField, Zenon
  <2>4. QED
    BY <2>2, <2>3 DEF SeatsStarted
<1>2. ClientsStarted(k) \in [Conn -> ClientRec]
  <2> SUFFICES ASSUME NEW c \in Conn
               PROVE  [k[c] EXCEPT !.lag = 0] \in ClientRec
    BY DEF ClientsStarted
  <2>1. QED
    BY Bounds, ClientUpdates
<1>3. QED
  BY <1>1, <1>2

\* Every step of a room whose clients are players of it keeps every type.
LEMMA TypeStep ==
  ASSUME TypeOK, OneSocketPerSeat, [Next]_vars
  PROVE  TypeOK'
<1>a. FreeSeat \in SeatRec /\ NoClient \in ClientRec
  BY NullRecords
<1>b. ASSUME NEW why \in {"empty", "expired", "overload"}, Dispose(why)
      PROVE  /\ seats' \subseteq Ids /\ seat' \in [Ids -> SeatRec]
             /\ clients' \subseteq Conn /\ client' \in [Conn -> ClientRec]
             /\ participants' \subseteq Ids /\ built' \in BOOLEAN
             /\ reason' \in {Open, "empty", "expired", "overload"}
  BY <1>a, <1>b DEF Dispose
<1>1. ASSUME NEW c \in Conn, NEW r \in JoinRequest, Join(c, r)
      PROVE  TypeOK'
  <2>1. issued + 1 \in Ids
    BY <1>1, Bounds DEF Join, Admissible, TypeOK, Ids
  <2>2. NewSeat(c, Side(r.team)) \in SeatRec
    BY <1>1, NewSeatType DEF Join, Admissible, JoinRequest
  <2>3. seat' \in [Ids -> SeatRec]
    BY <1>1, <2>1, <2>2 DEF Join, TypeOK
  <2>4. [player |-> issued + 1, quiet |-> 0, lag |-> 0] \in ClientRec
    BY <2>1, Bounds DEF ClientRec
  <2>5. client' \in [Conn -> ClientRec]
    BY <1>1, <2>4 DEF Join, TypeOK
  <2>6. /\ issued' \in 0..MaxIds /\ seats' \subseteq Ids /\ participants' \subseteq Ids
        /\ idleFor' \in 0..RoomIdle
    BY <1>1, <2>1, Bounds DEF Join, TypeOK, Ids
  <2>7. /\ clients' \subseteq Conn /\ host' \in Ids \cup {Nobody}
        /\ emptyFor' \in NotCounting..EmptyGrace
    BY <1>1, <2>1, Bounds DEF Join, Seated, TypeOK, NotCounting
  <2>8. QED
    BY <1>1, <2>3, <2>5, <2>6, <2>7 DEF Join, TypeOK
<1>2. ASSUME NEW c \in Conn, NEW r \in JoinRequest, Create(c, r)
      PROVE  TypeOK'
  <2> DEFINE s == [seat EXCEPT ![issued + 1] = NewSeat(c, Side(r.team))]
             k == [client EXCEPT ![c] = [player |-> issued + 1, quiet |-> 0, lag |-> 0]]
  <2>1. issued + 1 \in Ids
    BY <1>2, Bounds DEF Create, Admissible, TypeOK, Ids
  <2>2. NewSeat(c, Side(r.team)) \in SeatRec
    BY <1>2, NewSeatType DEF Create, Admissible, JoinRequest
  <2>3. s \in [Ids -> SeatRec]
    BY <2>1, <2>2 DEF TypeOK
  <2>4. [player |-> issued + 1, quiet |-> 0, lag |-> 0] \in ClientRec
    BY <2>1, Bounds DEF ClientRec
  <2>5. k \in [Conn -> ClientRec]
    BY <2>4 DEF TypeOK
  <2>6. /\ issued' \in 0..MaxIds /\ seats' \in SUBSET Ids
    BY <1>2, <2>1, Bounds DEF Create, TypeOK, Ids
  <2>7. /\ clients' \subseteq Conn /\ host' \in Ids \cup {Nobody}
        /\ emptyFor' \in NotCounting..EmptyGrace
    BY <1>2, <2>1, Bounds DEF Create, Seated, TypeOK, NotCounting
  <2>8. Begin(seats', s, k)
    BY <1>2 DEF Create
  <2> HIDE DEF s, k
  <2>9. /\ seat' \in [Ids -> SeatRec] /\ client' \in [Conn -> ClientRec]
    BY <2>3, <2>5, <2>6, <2>8, StartedTypes DEF Begin
  <2>10. /\ round' \in 0..MaxRounds /\ participants' \subseteq Ids /\ built' \in BOOLEAN
         /\ phase' \in {"Lobby", "Playing", "Results"} /\ idleFor' \in 0..RoomIdle
    BY <2>6, <2>8, Bounds DEF Begin, TypeOK
  <2>11. age' = age /\ reason' = reason
    BY <1>2 DEF Create
  <2>12. QED
    BY <2>6, <2>7, <2>9, <2>10, <2>11 DEF TypeOK
<1>3. ASSUME NEW c \in Conn, NEW p \in Ids, Reclaim(c, p)
      PROVE  TypeOK'
  <2>1. seat[p] \in SeatRec /\ built \in BOOLEAN
    BY DEF TypeOK
  <2>2. [seat[p] EXCEPT !.conn = c, !.away = NotCounting, !.suspended = FALSE,
                        !.watching = FALSE, !.driving = built] \in SeatRec
    BY <2>1, SeatReclaimed, Zenon
  <2>3. seat' \in [Ids -> SeatRec]
    BY <1>3, <2>2 DEF Reclaim, TypeOK
  <2>4. [player |-> p, quiet |-> 0, lag |-> 0] \in ClientRec
    BY Bounds DEF ClientRec
  <2>5. client' \in [Conn -> ClientRec]
    BY <1>3, <2>4, <1>a DEF Reclaim, TypeOK
  <2>6. /\ clients' \subseteq Conn /\ host' \in Ids \cup {Nobody}
        /\ emptyFor' \in NotCounting..EmptyGrace /\ idleFor' \in 0..RoomIdle
    BY <1>3, Bounds DEF Reclaim, TypeOK, NotCounting
  <2>7. QED
    BY <1>3, <2>3, <2>5, <2>6 DEF Reclaim, TypeOK
<1>4. ASSUME NEW c \in Conn, NEW seen \in 0..MaxUnacked, Ping(c, seen)
      PROVE  TypeOK'
  BY <1>4, HeardType, Bounds DEF Ping, TypeOK
<1>5. ASSUME NEW c \in Conn, NEW seen \in 0..MaxInputLag, Input(c, seen)
      PROVE  TypeOK'
  BY <1>5, HeardType, Bounds DEF Input, TypeOK
<1>c. NothingNew \in Nat
  BY Bounds DEF NothingNew
<1>6. ASSUME NEW c \in Conn, Resync(c)
      PROVE  TypeOK'
  BY <1>6, <1>c, HeardType DEF Resync, TypeOK
<1>7. ASSUME NEW c \in Conn, NEW want \in Team \cup {AnyTeam}, Choose(c, want)
      PROVE  TypeOK'
  <2> DEFINE side == IF want = AnyTeam THEN AutoTeam({player(c)}) ELSE want
             free == FreeSlots(side, {player(c)})
  <2>1. /\ c \in clients
        /\ client' = Heard(c, NothingNew)
        /\ \/ seat' = seat /\ idleFor' = idleFor
           \/ /\ free # {}
              /\ seat' = [seat EXCEPT ![player(c)] =
                           [@ EXCEPT !.team = side, !.slot = LowestSlot(free)]]
              /\ idleFor' = 0
    BY <1>7 DEF Choose
  <2>2. client' \in [Conn -> ClientRec]
    BY <2>1, <1>c, HeardType
  <2>3. side \in Team
    BY DEF AutoTeam, Team
  <2>4. free \in SUBSET Slot
    BY DEF FreeSlots
  <2>5. free # {} => LowestSlot(free) \in Slot
    BY <2>4, LowestSlotIsMember
  <2> HIDE DEF side, free
  <2>6. ASSUME NEW i \in Ids, free # {}
        PROVE  [seat[i] EXCEPT !.team = side, !.slot = LowestSlot(free)] \in SeatRec
    <3>1. seat[i] \in SeatRec
      BY DEF TypeOK
    <3>2. QED
      BY <3>1, <2>3, <2>5, <2>6, SeatMoved, Zenon
  <2>7. seat' \in [Ids -> SeatRec]
    <3>1. seat \in [Ids -> SeatRec]
      BY DEF TypeOK
    <3>2. CASE seat' = seat
      BY <3>1, <3>2
    <3>3. CASE seat' # seat
      <4> DEFINE n == [seat[player(c)] EXCEPT !.team = side, !.slot = LowestSlot(free)]
      <4>1. player(c) \in Ids => n \in SeatRec
        BY <2>1, <2>6, <3>3
      <4>2. seat' = [seat EXCEPT ![player(c)] = n]
        BY <2>1, <3>3
      <4> HIDE DEF n
      <4> QED
        BY <3>1, <4>1, <4>2
    <3> QED
      BY <3>2, <3>3
  <2>8. idleFor' \in 0..RoomIdle
    BY <2>1, Bounds DEF TypeOK
  <2>9. QED
    BY <1>7, <2>2, <2>7, <2>8 DEF Choose, TypeOK
<1>8. ASSUME NEW c \in Conn, Settings(c)
      PROVE  TypeOK'
  <2>1. client' \in [Conn -> ClientRec] /\ idleFor' \in 0..RoomIdle
    BY <1>8, <1>c, HeardType, Bounds DEF Settings
  <2>2. QED
    BY <1>8, <2>1 DEF Settings, TypeOK
<1>d. ASSUME NEW D \in SUBSET clients, Drop(D)
      PROVE  /\ clients' \subseteq Conn /\ client' \in [Conn -> ClientRec]
             /\ host' \in Ids \cup {Nobody} /\ emptyFor' \in NotCounting..EmptyGrace
  BY <1>d, DropTypes DEF Drop, TypeOK
<1>9. ASSUME NEW c \in Conn, Start(c)
      PROVE  TypeOK'
  <2>1. CASE RosterValid(seats, seat)
    <3>1. /\ Begin(seats, seat, Heard(c, NothingNew))
          /\ UNCHANGED <<clients, host, emptyFor, seats, issued, age, reason>>
      BY <1>9, <2>1 DEF Start
    <3>2. Heard(c, NothingNew) \in [Conn -> ClientRec]
      BY <1>c, HeardType
    <3>3. /\ seat' \in [Ids -> SeatRec] /\ client' \in [Conn -> ClientRec]
      BY <3>1, <3>2, StartedTypes DEF Begin, TypeOK
    <3>4. /\ round' \in 0..MaxRounds /\ participants' \subseteq Ids /\ built' \in BOOLEAN
          /\ phase' \in {"Lobby", "Playing", "Results"} /\ idleFor' \in 0..RoomIdle
      BY <3>1, Bounds DEF Begin, TypeOK
    <3>5. QED
      BY <3>1, <3>3, <3>4 DEF TypeOK
  <2>2. CASE ~RosterValid(seats, seat)
    <3>1. /\ c \in clients /\ Drop({c}) /\ seat' = SeatsWithout({c})
          /\ round < MaxRounds /\ round' = round + 1 /\ participants' = {}
          /\ built' = FALSE
          /\ UNCHANGED <<phase, idleFor, seats, issued, age, reason>>
      BY <1>9, <2>2 DEF Start
    <3>2. seat' \in [Ids -> SeatRec]
      BY <3>1, DropTypes
    <3>3. /\ clients' \subseteq Conn /\ client' \in [Conn -> ClientRec]
          /\ host' \in Ids \cup {Nobody} /\ emptyFor' \in NotCounting..EmptyGrace
      BY <3>1, <1>d
    <3>4. round' \in 0..MaxRounds
      BY <3>1, Bounds DEF TypeOK
    <3>5. QED
      BY <3>1, <3>2, <3>3, <3>4 DEF TypeOK
  <2>3. QED
    BY <2>1, <2>2
<1>10. ASSUME NEW c \in Conn, End(c)
       PROVE  TypeOK'
  <2>1. client' \in [Conn -> ClientRec] /\ idleFor' \in 0..RoomIdle
    BY <1>10, <1>c, HeardType, Bounds DEF End
  <2>2. QED
    BY <1>10, <2>1 DEF End, TypeOK
<1>11. ASSUME NEW c \in Conn, NEW watch \in BOOLEAN, Suspend(c, watch)
       PROVE  TypeOK'
  <2>1. client' \in [Conn -> ClientRec]
    BY <1>11, <1>c, HeardType DEF Suspend
  <2>2. ASSUME NEW i \in Ids
        PROVE  [seat[i] EXCEPT !.suspended = TRUE, !.watching = watch,
                               !.driving = FALSE] \in SeatRec
    <3>1. seat[i] \in SeatRec
      BY DEF TypeOK
    <3>2. QED
      BY <3>1, SeatSuspended, Zenon
  <2>3. seat' \in [Ids -> SeatRec]
    BY <1>11, <2>2 DEF Suspend, TypeOK
  <2>4. QED
    BY <1>11, <2>1, <2>3 DEF Suspend, TypeOK
<1>12. ASSUME NEW c \in Conn, NEW flooded \in BOOLEAN, Resume(c, flooded)
       PROVE  TypeOK'
  <2>1. /\ c \in clients
        /\ UNCHANGED <<seats, issued, phase, round, built, participants, idleFor,
                       age, reason>>
    BY <1>12 DEF Resume
  <2>2. CASE flooded
    <3>1. /\ Drop({c})
          /\ seat' = [SeatsWithout({c}) EXCEPT
                       ![player(c)] = [@ EXCEPT !.suspended = FALSE, !.watching = FALSE]]
      BY <1>12, <2>2 DEF Resume
    <3>2. SeatsWithout({c}) \in [Ids -> SeatRec]
      BY <2>1, DropTypes
    <3>3. ASSUME NEW i \in Ids
          PROVE  [SeatsWithout({c})[i] EXCEPT !.suspended = FALSE, !.watching = FALSE]
                   \in SeatRec
      <4>1. SeatsWithout({c})[i] \in SeatRec
        BY <3>2
      <4>2. QED
        BY <4>1, SeatUnwatched, Zenon
    <3>4. seat' \in [Ids -> SeatRec]
      BY <3>1, <3>2, <3>3
    <3>5. QED
      BY <2>1, <3>1, <3>4, <1>d DEF TypeOK
  <2>3. CASE ~flooded
    <3>1. /\ client' = Heard(c, 0)
          /\ UNCHANGED <<clients, host, emptyFor>>
          /\ seat' = [seat EXCEPT
                       ![player(c)] = [@ EXCEPT !.suspended = FALSE, !.watching = FALSE,
                                                !.driving = built]]
      BY <1>12, <2>3 DEF Resume
    <3>2. client' \in [Conn -> ClientRec]
      BY <3>1, HeardType
    <3>3. ASSUME NEW i \in Ids
          PROVE  [seat[i] EXCEPT !.suspended = FALSE, !.watching = FALSE,
                                 !.driving = built] \in SeatRec
      <4>1. seat[i] \in SeatRec /\ built \in BOOLEAN
        BY DEF TypeOK
      <4>2. QED
        BY <4>1, SeatSuspended, Zenon
    <3>4. seat' \in [Ids -> SeatRec]
      BY <3>1, <3>3 DEF TypeOK
    <3>5. QED
      BY <2>1, <3>1, <3>2, <3>4 DEF TypeOK
  <2>4. QED
    BY <2>2, <2>3
<1>13. ASSUME NEW c \in Conn, Leave(c)
       PROVE  TypeOK'
  <2>1. /\ c \in clients /\ host' = HostWithout({c}) /\ emptyFor' = EmptyForWithout({c})
        /\ UNCHANGED <<issued, phase, round, idleFor, age>>
    BY <1>13 DEF Leave
  <2>2. host' \in Ids \cup {Nobody} /\ emptyFor' \in NotCounting..EmptyGrace
    BY <2>1, DropTypes
  <2>3. CASE seats = {player(c)}
    BY <1>13, <2>1, <2>2, <2>3, <1>b DEF Leave, TypeOK
  <2>4. CASE seats # {player(c)}
    <3>1. /\ seats' = seats \ {player(c)}
          /\ seat' = SeatsReleased(SeatsWithout({c}), {player(c)})
          /\ clients' = clients \ {c}
          /\ client' = ClientsWithout({c})
          /\ participants' = IF built THEN participants \cup {player(c)} ELSE participants
          /\ UNCHANGED <<built, reason>>
      BY <1>13, <2>4 DEF Leave
    <3>2. seat' \in [Ids -> SeatRec] /\ client' \in [Conn -> ClientRec]
      BY <2>1, <3>1, DropTypes, <1>a DEF SeatsReleased
    <3>3. participants' \subseteq Ids
      <4>1. player(c) \in seats
        BY <2>1 DEF OneSocketPerSeat
      <4>2. QED
        BY <3>1, <4>1 DEF TypeOK
    <3>4. QED
      BY <2>1, <2>2, <3>1, <3>2, <3>3 DEF TypeOK
  <2>5. QED
    BY <2>3, <2>4
<1>14. ASSUME NEW c \in Conn, Disconnect(c)
       PROVE  TypeOK'
  <2>1. seat' \in [Ids -> SeatRec]
    BY <1>14, DropTypes DEF Disconnect
  <2>2. QED
    BY <1>14, <2>1, <1>d DEF Disconnect, TypeOK
<1>e. Stale \in SUBSET clients
  BY DEF Stale
<1>15. ASSUME AdvanceExpired
       PROVE  TypeOK'
  BY <1>15, <1>b DEF AdvanceExpired, TypeOK
<1>16. ASSUME AdvanceOverload
       PROVE  TypeOK'
  <2>1. host' \in Ids \cup {Nobody} /\ emptyFor' \in NotCounting..EmptyGrace
    BY <1>16, <1>e, DropTypes DEF AdvanceOverload
  <2>2. QED
    BY <1>16, <2>1, <1>b DEF AdvanceOverload, TypeOK
<1>17. ASSUME NEW n \in 0..MaxSteps, NEW silent \in SUBSET seats, NEW over \in BOOLEAN,
              Advance(n, silent, over)
       PROVE  TypeOK'
  <2>1. host' \in Ids \cup {Nobody} /\ emptyFor' \in NotCounting..EmptyGrace
    BY <1>17, <1>e, DropTypes DEF Advance
  <2>2. seat' \in [Ids -> SeatRec]
    <3> DEFINE kept == SeatsReleased(SeatsWithout(Stale), Away)
    <3>1. kept \in [Ids -> SeatRec]
      BY <1>e, <1>a, DropTypes DEF SeatsReleased
    <3>2. seat' = [i \in Ids |-> IF i \in silent THEN [kept[i] EXCEPT !.driving = FALSE]
                                                ELSE kept[i]]
      BY <1>17 DEF Advance
    <3> HIDE DEF kept
    <3>3. ASSUME NEW i \in Ids
          PROVE  [kept[i] EXCEPT !.driving = FALSE] \in SeatRec
      <4>1. kept[i] \in SeatRec
        BY <3>1
      <4>2. QED
        BY <4>1, SeatField, Zenon
    <3>4. QED
      BY <3>1, <3>2, <3>3
  <2>3. client' \in [Conn -> ClientRec]
    <3>1. client' = [c \in Conn |->
                      IF c \in clients \ Stale
                        THEN [client[c] EXCEPT !.lag = Smaller(@ + n, MaxUnacked + 1)]
                        ELSE NoClient]
      BY <1>17 DEF Advance
    <3>2. ASSUME NEW c \in Conn
          PROVE  [client[c] EXCEPT !.lag = Smaller(@ + n, MaxUnacked + 1)] \in ClientRec
      <4>1. client[c] \in ClientRec /\ n \in Nat
        BY Bounds DEF TypeOK
      <4>2. QED
        BY <4>1, ClientUpdates
    <3>3. QED
      BY <3>1, <3>2, <1>a
  <2>4. /\ seats' \subseteq Ids /\ clients' \subseteq Conn /\ participants' \subseteq Ids
        /\ phase' \in {"Lobby", "Playing", "Results"} /\ idleFor' \in 0..RoomIdle
    BY <1>17, Bounds DEF Advance, Away, TypeOK
  <2>5. QED
    BY <1>17, <2>1, <2>2, <2>3, <2>4 DEF Advance, TypeOK
<1>18. ASSUME Tick
       PROVE  TypeOK'
  <2>1. \A t \in NotCounting..EmptyGrace : Older(t, EmptyGrace) \in NotCounting..EmptyGrace
    BY Bounds DEF Older, Smaller, NotCounting
  <2>2. seat' \in [Ids -> SeatRec]
    <3>1. ASSUME NEW i \in Ids
          PROVE  [seat[i] EXCEPT !.away = Older(seat[i].away, EmptyGrace)] \in SeatRec
      <4>1. seat[i] \in SeatRec /\ seat[i].away \in NotCounting..EmptyGrace
        BY DEF TypeOK, SeatRec
      <4>2. QED
        BY <2>1, <4>1, SeatField, Zenon
    <3>2. QED
      BY <1>18, <3>1 DEF Tick
  <2>3. client' \in [Conn -> ClientRec]
    <3>1. ASSUME NEW c \in Conn
          PROVE  [client[c] EXCEPT !.quiet = Smaller(@ + 1, ClientTimeout + 1)] \in ClientRec
      BY Bounds, ClientUpdates DEF TypeOK
    <3>2. client' = [c \in Conn |->
                      IF c \in clients
                        THEN [client[c] EXCEPT !.quiet = Smaller(@ + 1, ClientTimeout + 1)]
                        ELSE client[c]]
      BY <1>18 DEF Tick
    <3>3. QED
      BY <3>1, <3>2 DEF TypeOK
  <2>4. emptyFor' \in NotCounting..EmptyGrace
    BY <1>18, <2>1 DEF Tick, TypeOK
  <2>5. idleFor' \in 0..RoomIdle /\ age' \in 0..(RoomLife + BattleOverrun)
    BY <1>18, Bounds DEF Tick, TypeOK, Smaller
  <2>6. QED
    BY <1>18, <2>2, <2>3, <2>4, <2>5 DEF Tick, TypeOK
<1>19. CASE UNCHANGED vars
  BY <1>19 DEF vars, TypeOK
<1>20. QED
  BY <1>1, <1>2, <1>3, <1>4, <1>5, <1>6, <1>7, <1>8, <1>9, <1>10, <1>11, <1>12, <1>13,
     <1>14, <1>15, <1>16, <1>17, <1>18, <1>19 DEF Next, Timer

-----------------------------------------------------------------------------
(***************************************************************************)
(* What a step does to the seats' connections, the host and the clocks.    *)
(* Sixteen handlers come down to four kinds of steps; every invariant      *)
(* below follows from those.                                               *)
(***************************************************************************)

\* Nobody comes or goes; time may pass.
Keeps ==
  \E older \in BOOLEAN :
    LET now(t) == IF older THEN Older(t, EmptyGrace) ELSE t IN
    /\ UNCHANGED <<seats, clients, issued, host, reason>>
    /\ \A c \in clients : client'[c].player = client[c].player
    /\ \A i \in seats : seat'[i].conn = seat[i].conn /\ seat'[i].away = now(seat[i].away)
    /\ emptyFor' = now(emptyFor)

\* The connections D are dropped, and the seats R are given up.
Drops(D, R) ==
  /\ D \subseteq clients /\ R \subseteq seats
  /\ \A i \in R : seat[i].conn \in D \/ seat[i].away = EmptyGrace
  /\ clients' = clients \ D /\ seats' = seats \ R
  /\ \A c \in clients \ D : client'[c].player = client[c].player
  /\ \A i \in seats \ R :
        IF seat[i].conn \in D
          THEN seat'[i].conn = NoConn /\ seat'[i].away = 0
          ELSE seat'[i].conn = seat[i].conn /\ seat'[i].away = seat[i].away
  /\ host' = HostWithout(D)
  /\ emptyFor' = EmptyForWithout(D)
  /\ UNCHANGED <<issued, reason>>

\* The connection c seats the player p, in a new seat or in place of the connection old.
Seats(c, p, old) ==
  /\ ~disposed
  /\ c \in Conn \ clients /\ p \in Ids
  /\ IF p \in seats THEN old = seat[p].conn /\ issued' = issued
     ELSE old = NoConn /\ issued' = p /\ issued' = issued + 1
  /\ clients' = (clients \ {old}) \cup {c} /\ seats' = seats \cup {p}
  /\ client'[c].player = p
  /\ seat'[p].conn = c /\ seat'[p].away = NotCounting
  /\ \A k \in clients \ {old} : client'[k].player = client[k].player
  /\ \A i \in seats \ {p} : seat'[i].conn = seat[i].conn /\ seat'[i].away = seat[i].away
  /\ host' = IF host = Nobody THEN p ELSE host
  /\ emptyFor' = NotCounting
  /\ reason' = reason

\* The room is disposed.
Ends ==
  /\ ~disposed /\ disposed'
  /\ seats' = {} /\ clients' = {}
  /\ issued' = issued

Moves ==
  \/ Keeps
  \/ \E D \in SUBSET clients, R \in SUBSET seats : Drops(D, R)
  \/ \E c \in Conn, p \in Ids, old \in Conn \cup {NoConn} : Seats(c, p, old)
  \/ Ends

\* What makes the binding of sockets and seats inductive: the ids of seats have been
\* drawn, so that a new player never gets the seat of another, and nobody is left in a
\* disposed room.
SeatsInv ==
  /\ OneSocketPerSeat
  /\ seats \subseteq 1..issued
  /\ disposed => clients = {} /\ seats = {}

\* Hearing from a client leaves every client its player.
LEMMA HeardPlayer ==
  ASSUME TypeOK, NEW c \in Conn, NEW seen \in Nat, NEW k \in Conn
  PROVE  Heard(c, seen)[k].player = client[k].player
BY DEF Heard, TypeOK, ClientRec

\* The start of a round leaves every client its player and every seat its connection.
LEMMA StartedPlayers ==
  ASSUME NEW S \in SUBSET Ids, NEW s \in [Ids -> SeatRec], NEW k \in [Conn -> ClientRec]
  PROVE  /\ \A c \in Conn : ClientsStarted(k)[c].player = k[c].player
         /\ \A i \in Ids : /\ SeatsStarted(S, s)[i].conn = s[i].conn
                           /\ SeatsStarted(S, s)[i].away = s[i].away
<1>1. ASSUME NEW c \in Conn
      PROVE  ClientsStarted(k)[c].player = k[c].player
  BY DEF ClientsStarted, ClientRec
<1>2. ASSUME NEW i \in Ids
      PROVE  /\ SeatsStarted(S, s)[i].conn = s[i].conn
             /\ SeatsStarted(S, s)[i].away = s[i].away
  <2>1. s[i] \in SeatRec
    OBVIOUS
  <2>2. \A b \in BOOLEAN : /\ [s[i] EXCEPT !.driving = b].conn = s[i].conn
                           /\ [s[i] EXCEPT !.driving = b].away = s[i].away
    BY <2>1 DEF SeatRec
  <2>3. (s[i].conn # NoConn /\ ~s[i].suspended) \in BOOLEAN
    OBVIOUS
  <2>4. QED
    BY <2>2, <2>3, Zenon DEF SeatsStarted
<1>3. QED
  BY <1>1, <1>2

\* Dropping connections takes exactly them from the seats that had them.
LEMMA DropSockets ==
  ASSUME TypeOK, NEW D \in SUBSET clients
  PROVE  /\ \A c \in Conn \ D : ClientsWithout(D)[c] = client[c]
         /\ \A i \in seats :
              IF seat[i].conn \in D
                THEN SeatsWithout(D)[i].conn = NoConn /\ SeatsWithout(D)[i].away = 0
                ELSE SeatsWithout(D)[i] = seat[i]
<1>1. ASSUME NEW i \in seats
      PROVE  IF seat[i].conn \in D
               THEN SeatsWithout(D)[i].conn = NoConn /\ SeatsWithout(D)[i].away = 0
               ELSE SeatsWithout(D)[i] = seat[i]
  <2>1. i \in Ids /\ seat[i] \in SeatRec
    BY DEF TypeOK
  <2>2. /\ [seat[i] EXCEPT !.conn = NoConn, !.away = 0, !.driving = FALSE].conn = NoConn
        /\ [seat[i] EXCEPT !.conn = NoConn, !.away = 0, !.driving = FALSE].away = 0
    BY <2>1 DEF SeatRec
  <2>3. QED
    BY <2>1, <2>2 DEF SeatsWithout
<1>2. QED
  BY <1>1 DEF ClientsWithout

\* Every step of the room is of one of the four kinds.
LEMMA StepKinds ==
  ASSUME TypeOK, SeatsInv, [Next]_vars
  PROVE  Moves
<1>a. NothingNew \in Nat /\ MaxUnacked \in Nat /\ MaxInputLag \in Nat
  BY Bounds DEF NothingNew
<1>b. issued \in Nat /\ seats \in SUBSET Ids /\ ~(NoConn \in clients)
  BY ConstantsAssumption DEF TypeOK
\* a connection is that of its seat's player
<1>c. ASSUME NEW c \in clients
      PROVE  c \in Conn /\ player(c) \in seats /\ seat[player(c)].conn = c /\ ~disposed
  BY DEF SeatsInv, OneSocketPerSeat, TypeOK
\* a message that moves nobody
<1>d. ASSUME UNCHANGED <<seats, clients, issued, host, reason, emptyFor>>,
             \A c \in clients : client'[c].player = client[c].player,
             \A i \in seats : seat'[i].conn = seat[i].conn /\ seat'[i].away = seat[i].away
      PROVE  Moves
  BY <1>d DEF Moves, Keeps
\* one that is only heard
<1>e. ASSUME NEW c \in clients, NEW seen \in Nat, client' = Heard(c, seen),
             UNCHANGED <<seats, seat, clients, issued, host, reason, emptyFor>>
      PROVE  Moves
  <2>1. \A k \in clients : client'[k].player = client[k].player
    BY <1>e, HeardPlayer DEF TypeOK
  <2>2. QED
    BY <1>d, <1>e, <2>1
\* one connection is dropped
<1>f. ASSUME NEW c \in clients, Drop({c}),
             \A i \in seats : /\ seat'[i].conn = SeatsWithout({c})[i].conn
                              /\ seat'[i].away = SeatsWithout({c})[i].away,
             UNCHANGED <<seats, issued, reason>>
      PROVE  Moves
  <2>1. \A k \in clients \ {c} : client'[k].player = client[k].player
    BY <1>f, DropSockets DEF Drop, TypeOK
  <2>2. \A i \in seats :
          IF seat[i].conn \in {c}
            THEN seat'[i].conn = NoConn /\ seat'[i].away = 0
            ELSE seat'[i].conn = seat[i].conn /\ seat'[i].away = seat[i].away
    BY <1>f, DropSockets
  <2>3. Drops({c}, {})
    BY <1>f, <2>1, <2>2 DEF Drop, Drops
  <2>4. QED
    BY <2>3 DEF Moves
\* the room is disposed
<1>g. ASSUME NEW why, Dispose(why), why # Open, issued' = issued, ~disposed
      PROVE  Moves
  BY <1>g DEF Dispose, disposed, Ends, Moves
<1>1. ASSUME NEW c \in Conn, NEW r \in JoinRequest, Join(c, r)
      PROVE  Moves
  <2>1. /\ c \in Conn \ clients /\ issued + 1 \in Ids /\ ~disposed /\ reason' = reason
        /\ issued' = issued + 1 /\ seats' = seats \cup {issued + 1}
        /\ host' = IF host = Nobody THEN issued + 1 ELSE host
        /\ emptyFor' = NotCounting
    BY <1>1, <1>b, Bounds DEF Join, Admissible, Seated, Ids, TypeOK
  <2>2. issued + 1 \notin seats
    BY <1>b DEF SeatsInv
  <2>3. /\ clients' = (clients \ {NoConn}) \cup {c}
        /\ client'[c].player = issued + 1
        /\ seat'[issued + 1].conn = c /\ seat'[issued + 1].away = NotCounting
        /\ \A k \in clients \ {NoConn} : client'[k].player = client[k].player
        /\ \A i \in seats \ {issued + 1} : seat'[i] = seat[i]
    BY <1>1, <1>b, <2>1, <2>2 DEF Join, Seated, NewSeat, TypeOK
  <2>4. Seats(c, issued + 1, NoConn)
    BY <2>1, <2>2, <2>3 DEF Seats
  <2>5. QED
    BY <2>1, <2>4 DEF Moves
<1>2. ASSUME NEW c \in Conn, NEW r \in JoinRequest, Create(c, r)
      PROVE  Moves
  <2> DEFINE s == [seat EXCEPT ![issued + 1] = NewSeat(c, Side(r.team))]
             k == [client EXCEPT ![c] = [player |-> issued + 1, quiet |-> 0, lag |-> 0]]
  <2>1. /\ c \in Conn \ clients /\ issued + 1 \in Ids /\ ~disposed /\ reason' = reason
        /\ issued' = issued + 1 /\ seats' = seats \cup {issued + 1}
        /\ host' = IF host = Nobody THEN issued + 1 ELSE host
        /\ emptyFor' = NotCounting
    BY <1>2, <1>b, Bounds DEF Create, Admissible, Seated, Ids, TypeOK
  <2>2. issued + 1 \notin seats
    BY <1>b DEF SeatsInv
  <2>3. /\ s \in [Ids -> SeatRec]
        /\ s[issued + 1].conn = c /\ s[issued + 1].away = NotCounting
        /\ \A i \in seats : s[i] = seat[i]
    <3>1. NewSeat(c, Side(r.team)) \in SeatRec
      BY <1>2, NewSeatType DEF Create, Admissible, JoinRequest
    <3>2. QED
      BY <2>1, <2>2, <3>1 DEF TypeOK, NewSeat
  <2>4. /\ k \in [Conn -> ClientRec] /\ k[c].player = issued + 1
        /\ \A j \in clients : k[j].player = client[j].player
    <3>1. [player |-> issued + 1, quiet |-> 0, lag |-> 0] \in ClientRec
      BY <2>1, Bounds DEF ClientRec
    <3>2. QED
      BY <2>1, <3>1 DEF TypeOK
  <2>5. clients' = (clients \ {NoConn}) \cup {c} /\ Begin(seats', s, k)
    BY <1>2, <1>b DEF Create, Seated
  <2> HIDE DEF s, k
  <2>6. /\ seat' = SeatsStarted(seats', s) /\ client' = ClientsStarted(k)
    BY <2>5 DEF Begin
  <2>7. /\ client'[c].player = issued + 1
        /\ seat'[issued + 1].conn = c /\ seat'[issued + 1].away = NotCounting
        /\ \A j \in clients : client'[j].player = client[j].player
        /\ \A i \in seats : seat'[i].conn = seat[i].conn /\ seat'[i].away = seat[i].away
    <3>1. seats' \in SUBSET Ids
      BY <2>1, <1>b
    <3>2. /\ \A j \in Conn : client'[j].player = k[j].player
          /\ \A i \in Ids : seat'[i].conn = s[i].conn /\ seat'[i].away = s[i].away
      BY <2>3, <2>4, <2>6, <3>1, StartedPlayers
    <3>3. QED
      BY <2>1, <2>3, <2>4, <3>2, <1>b DEF TypeOK
  <2>8. Seats(c, issued + 1, NoConn)
    BY <2>1, <2>2, <2>5, <2>7 DEF Seats
  <2>9. QED
    BY <2>1, <2>8 DEF Moves
<1>3. ASSUME NEW c \in Conn, NEW p \in Ids, Reclaim(c, p)
      PROVE  Moves
  <2>1. /\ c \in Conn \ clients /\ p \in seats /\ ~disposed /\ reason' = reason
        /\ clients' = (clients \ {seat[p].conn}) \cup {c}
        /\ seats' = seats \cup {p} /\ issued' = issued
        /\ host' = IF host = Nobody THEN p ELSE host
        /\ emptyFor' = NotCounting
    BY <1>3 DEF Reclaim
  <2>2. /\ client'[c].player = p
        /\ \A k \in clients \ {seat[p].conn} : client'[k].player = client[k].player
    BY <1>3, <2>1 DEF Reclaim, TypeOK
  <2>3. seat[p] \in SeatRec /\ seat[p].conn \in Conn \cup {NoConn}
    BY DEF TypeOK, SeatRec
  <2>4. /\ seat'[p].conn = c /\ seat'[p].away = NotCounting
        /\ \A i \in seats \ {p} : seat'[i] = seat[i]
    BY <1>3, <2>1, <2>3 DEF Reclaim, TypeOK, SeatRec
  <2>5. Seats(c, p, seat[p].conn)
    BY <2>1, <2>2, <2>4 DEF Seats
  <2>6. QED
    BY <2>3, <2>5 DEF Moves
<1>4. ASSUME NEW c \in Conn, NEW seen \in 0..MaxUnacked, Ping(c, seen)
      PROVE  Moves
  BY <1>4, <1>a, <1>e DEF Ping
<1>5. ASSUME NEW c \in Conn, NEW seen \in 0..MaxInputLag, Input(c, seen)
      PROVE  Moves
  BY <1>5, <1>a, <1>e DEF Input
<1>6. ASSUME NEW c \in Conn, Resync(c)
      PROVE  Moves
  BY <1>6, <1>a, <1>e DEF Resync
<1>7. ASSUME NEW c \in Conn, NEW want \in Team \cup {AnyTeam}, Choose(c, want)
      PROVE  Moves
  <2>1. /\ c \in clients /\ client' = Heard(c, NothingNew)
        /\ UNCHANGED <<clients, seats, issued, host, emptyFor, reason>>
    BY <1>7 DEF Choose
  <2>2. \A k \in clients : client'[k].player = client[k].player
    BY <2>1, <1>a, HeardPlayer DEF TypeOK
  <2>3. ASSUME NEW i \in Ids
        PROVE  \A t, x : /\ [seat[i] EXCEPT !.team = t, !.slot = x].conn = seat[i].conn
                         /\ [seat[i] EXCEPT !.team = t, !.slot = x].away = seat[i].away
    BY DEF TypeOK, SeatRec
  <2>4. \/ seat' = seat
        \/ \E t, x : seat' = [seat EXCEPT ![player(c)] = [@ EXCEPT !.team = t, !.slot = x]]
    BY <1>7 DEF Choose
  <2>5. \A i \in seats : seat'[i].conn = seat[i].conn /\ seat'[i].away = seat[i].away
    <3>1. CASE seat' = seat
      BY <3>1
    <3>2. ASSUME NEW t, NEW x,
                 seat' = [seat EXCEPT ![player(c)] = [@ EXCEPT !.team = t, !.slot = x]]
          PROVE  \A i \in seats : seat'[i].conn = seat[i].conn /\ seat'[i].away = seat[i].away
      BY <2>3, <3>2 DEF TypeOK
    <3>3. QED
      BY <2>4, <3>1, <3>2
  <2>6. QED
    BY <2>1, <2>2, <2>5, <1>d
<1>8. ASSUME NEW c \in Conn, Settings(c)
      PROVE  Moves
  BY <1>8, <1>a, <1>e DEF Settings
<1>9. ASSUME NEW c \in Conn, Start(c)
      PROVE  Moves
  <2>1. CASE RosterValid(seats, seat)
    <3>1. /\ seat' = SeatsStarted(seats, seat)
          /\ client' = ClientsStarted(Heard(c, NothingNew))
          /\ UNCHANGED <<clients, seats, issued, host, emptyFor, reason>>
      BY <1>9, <2>1 DEF Start, Begin
    <3>2. /\ Heard(c, NothingNew) \in [Conn -> ClientRec]
          /\ \A k \in Conn : Heard(c, NothingNew)[k].player = client[k].player
      BY <1>a, HeardType, HeardPlayer
    <3>3. /\ \A k \in clients : client'[k].player = client[k].player
          /\ \A i \in seats : seat'[i].conn = seat[i].conn /\ seat'[i].away = seat[i].away
      BY <3>1, <3>2, StartedPlayers DEF TypeOK
    <3>4. QED
      BY <3>1, <3>3, <1>d
  <2>2. CASE ~RosterValid(seats, seat)
    BY <1>9, <2>2, <1>f DEF Start
  <2>3. QED
    BY <2>1, <2>2
<1>10. ASSUME NEW c \in Conn, End(c)
       PROVE  Moves
  BY <1>10, <1>a, <1>e DEF End
<1>11. ASSUME NEW c \in Conn, NEW watch \in BOOLEAN, Suspend(c, watch)
       PROVE  Moves
  <2>1. /\ c \in clients /\ client' = Heard(c, NothingNew)
        /\ UNCHANGED <<clients, seats, issued, host, emptyFor, reason>>
    BY <1>11 DEF Suspend
  <2>2. \A k \in clients : client'[k].player = client[k].player
    BY <2>1, <1>a, HeardPlayer DEF TypeOK
  <2>3. ASSUME NEW i \in Ids
        PROVE  /\ [seat[i] EXCEPT !.suspended = TRUE, !.watching = watch,
                                  !.driving = FALSE].conn = seat[i].conn
               /\ [seat[i] EXCEPT !.suspended = TRUE, !.watching = watch,
                                  !.driving = FALSE].away = seat[i].away
    BY DEF TypeOK, SeatRec
  <2>4. \A i \in seats : seat'[i].conn = seat[i].conn /\ seat'[i].away = seat[i].away
    BY <1>11, <2>3 DEF Suspend, TypeOK
  <2>5. QED
    BY <2>1, <2>2, <2>4, <1>d
<1>12. ASSUME NEW c \in Conn, NEW flooded \in BOOLEAN, Resume(c, flooded)
       PROVE  Moves
  <2>1. CASE flooded
    <3>1. /\ c \in clients /\ Drop({c})
          /\ seat' = [SeatsWithout({c}) EXCEPT
                        ![player(c)] = [@ EXCEPT !.suspended = FALSE, !.watching = FALSE]]
          /\ UNCHANGED <<seats, issued, reason>>
      BY <1>12, <2>1 DEF Resume
    <3>2. SeatsWithout({c}) \in [Ids -> SeatRec]
      BY <3>1, DropTypes
    <3>3. ASSUME NEW i \in Ids
          PROVE  /\ [SeatsWithout({c})[i] EXCEPT !.suspended = FALSE, !.watching = FALSE].conn
                      = SeatsWithout({c})[i].conn
                 /\ [SeatsWithout({c})[i] EXCEPT !.suspended = FALSE, !.watching = FALSE].away
                      = SeatsWithout({c})[i].away
      BY <3>2 DEF SeatRec
    <3>4. \A i \in seats : /\ seat'[i].conn = SeatsWithout({c})[i].conn
                           /\ seat'[i].away = SeatsWithout({c})[i].away
      BY <3>1, <3>2, <3>3 DEF TypeOK
    <3>5. QED
      BY <3>1, <3>4, <1>f
  <2>2. CASE ~flooded
    <3>1. /\ c \in clients /\ client' = Heard(c, 0)
          /\ seat' = [seat EXCEPT ![player(c)] =
                        [@ EXCEPT !.suspended = FALSE, !.watching = FALSE, !.driving = built]]
          /\ UNCHANGED <<clients, seats, issued, host, emptyFor, reason>>
      BY <1>12, <2>2 DEF Resume
    <3>2. \A k \in clients : client'[k].player = client[k].player
      BY <3>1, HeardPlayer DEF TypeOK
    <3>3. ASSUME NEW i \in Ids
          PROVE  /\ [seat[i] EXCEPT !.suspended = FALSE, !.watching = FALSE,
                                    !.driving = built].conn = seat[i].conn
                 /\ [seat[i] EXCEPT !.suspended = FALSE, !.watching = FALSE,
                                    !.driving = built].away = seat[i].away
      BY DEF TypeOK, SeatRec
    <3>4. \A i \in seats : seat'[i].conn = seat[i].conn /\ seat'[i].away = seat[i].away
      BY <3>1, <3>3 DEF TypeOK
    <3>5. QED
      BY <3>1, <3>2, <3>4, <1>d
  <2>3. QED
    BY <2>1, <2>2
<1>13. ASSUME NEW c \in Conn, Leave(c)
       PROVE  Moves
  <2>1. CASE seats = {player(c)}
    BY <1>13, <2>1, <1>c, <1>g DEF Leave, Open
  <2>2. CASE seats # {player(c)}
    <3>1. /\ c \in clients
          /\ seats' = seats \ {player(c)}
          /\ seat' = SeatsReleased(SeatsWithout({c}), {player(c)})
          /\ clients' = clients \ {c} /\ client' = ClientsWithout({c})
          /\ host' = HostWithout({c}) /\ emptyFor' = EmptyForWithout({c})
          /\ UNCHANGED <<issued, reason>>
      BY <1>13, <2>2 DEF Leave
    <3>2. \A k \in clients \ {c} : client'[k].player = client[k].player
      BY <3>1, DropSockets DEF TypeOK
    <3>3. \A i \in seats \ {player(c)} : seat'[i] = SeatsWithout({c})[i]
      BY <3>1 DEF SeatsReleased, TypeOK
    <3>4. \A i \in seats \ {player(c)} :
            IF seat[i].conn \in {c}
              THEN seat'[i].conn = NoConn /\ seat'[i].away = 0
              ELSE seat'[i].conn = seat[i].conn /\ seat'[i].away = seat[i].away
      <4>1. {c} \in SUBSET clients
        BY <3>1
      <4>2. QED
        BY <3>3, <4>1, DropSockets
    <3>5. {c} \in SUBSET clients /\ {player(c)} \in SUBSET seats /\ seat[player(c)].conn = c
      BY <3>1, <1>c
    <3>6. Drops({c}, {player(c)})
      BY <3>1, <3>2, <3>4, <3>5 DEF Drops
    <3>7. QED
      BY <3>5, <3>6 DEF Moves
  <2>3. QED
    BY <2>1, <2>2
<1>14. ASSUME NEW c \in Conn, Disconnect(c)
       PROVE  Moves
  BY <1>14, <1>f DEF Disconnect
<1>15. ASSUME AdvanceExpired
       PROVE  Moves
  BY <1>15, <1>g DEF AdvanceExpired, Open
<1>16. ASSUME AdvanceOverload
       PROVE  Moves
  BY <1>16, <1>g DEF AdvanceOverload, Open
<1>17. ASSUME NEW n \in 0..MaxSteps, NEW silent \in SUBSET seats, NEW over \in BOOLEAN,
              Advance(n, silent, over)
       PROVE  Moves
  <2> DEFINE kept == SeatsReleased(SeatsWithout(Stale), Away)
  <2>1. Stale \in SUBSET clients /\ Away \in SUBSET seats
    BY DEF Stale, Away
  <2>2. /\ clients' = clients \ Stale /\ seats' = seats \ Away
        /\ UNCHANGED <<issued, reason>>
        /\ host' = HostWithout(Stale) /\ emptyFor' = EmptyForWithout(Stale)
        /\ seat' = [i \in Ids |-> IF i \in silent THEN [kept[i] EXCEPT !.driving = FALSE]
                                                 ELSE kept[i]]
        /\ client' = [c \in Conn |->
                       IF c \in clients \ Stale
                         THEN [client[c] EXCEPT !.lag = Smaller(@ + n, MaxUnacked + 1)]
                         ELSE NoClient]
    BY <1>17 DEF Advance
  <2>3. ASSUME NEW c \in clients \ Stale
        PROVE  client'[c].player = client[c].player
    <3>1. client[c] \in ClientRec /\ c \in Conn
      BY DEF TypeOK
    <3>2. QED
      BY <2>2, <3>1 DEF ClientRec
  <2>4. ASSUME NEW i \in Ids
        PROVE  seat'[i].conn = kept[i].conn /\ seat'[i].away = kept[i].away
    <3>1. kept[i] \in SeatRec
      BY <2>1, NullRecords, DropTypes DEF SeatsReleased
    <3>2. /\ [kept[i] EXCEPT !.driving = FALSE].conn = kept[i].conn
          /\ [kept[i] EXCEPT !.driving = FALSE].away = kept[i].away
      BY <3>1 DEF SeatRec
    <3> HIDE DEF kept
    <3>3. QED
      BY <2>2, <3>2
  <2>5. \A i \in seats \ Away : /\ seat'[i].conn = SeatsWithout(Stale)[i].conn
                                /\ seat'[i].away = SeatsWithout(Stale)[i].away
    BY <2>4 DEF SeatsReleased, TypeOK
  <2>6. \A i \in Away : seat[i].away = EmptyGrace
    <3>1. ASSUME NEW i \in Away
          PROVE  seat[i].away = EmptyGrace
      <4>1. seat[i].away \in NotCounting..EmptyGrace /\ seat[i].away >= EmptyGrace
        BY DEF Away, TypeOK, SeatRec
      <4>2. QED
        BY <4>1, Bounds DEF NotCounting
    <3>2. QED
      BY <3>1
  <2>7. \A i \in seats \ Away :
          IF seat[i].conn \in Stale
            THEN seat'[i].conn = NoConn /\ seat'[i].away = 0
            ELSE seat'[i].conn = seat[i].conn /\ seat'[i].away = seat[i].away
    BY <2>1, <2>5, DropSockets
  <2>8. Drops(Stale, Away)
    BY <2>1, <2>2, <2>3, <2>6, <2>7 DEF Drops
  <2>9. QED
    BY <2>1, <2>8 DEF Moves
<1>18. ASSUME Tick
       PROVE  Moves
  <2>1. UNCHANGED <<clients, seats, issued, host, reason>>
        /\ emptyFor' = Older(emptyFor, EmptyGrace)
    BY <1>18 DEF Tick
  <2>2. ASSUME NEW i \in seats
        PROVE  seat'[i].conn = seat[i].conn /\ seat'[i].away = Older(seat[i].away, EmptyGrace)
    <3>1. seat[i] \in SeatRec /\ i \in Ids
      BY DEF TypeOK
    <3>2. \A a : /\ [seat[i] EXCEPT !.away = a].conn = seat[i].conn
                 /\ [seat[i] EXCEPT !.away = a].away = a
      BY <3>1 DEF SeatRec
    <3>3. seat'[i] = [seat[i] EXCEPT !.away = Older(seat[i].away, EmptyGrace)]
      BY <1>18, <3>1 DEF Tick
    <3>4. QED
      BY <3>2, <3>3
  <2>3. ASSUME NEW c \in clients
        PROVE  client'[c].player = client[c].player
    <3>1. client[c] \in ClientRec /\ c \in Conn
      BY DEF TypeOK
    <3>2. QED
      BY <1>18, <3>1 DEF Tick, ClientRec
  <2>4. QED
    BY <2>1, <2>2, <2>3 DEF Moves, Keeps
<1>19. CASE UNCHANGED vars
  BY <1>19, <1>d DEF vars
<1>20. QED
  BY <1>1, <1>2, <1>3, <1>4, <1>5, <1>6, <1>7, <1>8, <1>9, <1>10, <1>11, <1>12, <1>13,
     <1>14, <1>15, <1>16, <1>17, <1>18, <1>19 DEF Next, Timer

-----------------------------------------------------------------------------
(* What the four kinds of steps preserve.                                  *)

\* An absence is counted exactly while there is one, of a player and of everyone; when
\* nobody is left, nobody has been away for less time than the room has been empty.
\* While somebody is there, the host is a connected player.
Authority ==
  ~disposed =>
    IF clients = {} THEN host = Nobody ELSE host \in seats /\ connected(host)
Clocks ==
  /\ \A i \in seats : connected(i) <=> seat[i].away = NotCounting
  /\ ~disposed => (clients = {} <=> emptyFor # NotCounting)
  /\ ~disposed /\ emptyFor # NotCounting => \A i \in seats : seat[i].away >= emptyFor

\* Ageing starts or ends no absence, and keeps the order of two.
LEMMA OlderKeepsOrder ==
  ASSUME NEW s \in NotCounting..EmptyGrace, NEW t \in NotCounting..EmptyGrace
  PROVE  /\ Older(s, EmptyGrace) = NotCounting <=> s = NotCounting
         /\ s >= t => Older(s, EmptyGrace) >= Older(t, EmptyGrace)
BY Bounds DEF Older, NotCounting, Smaller

\* The binding of sockets and seats is kept by all of them.
LEMMA BindingKept ==
  ASSUME TypeOK, SeatsInv, Clocks, Moves
  PROVE  SeatsInv'
<1>a. NoConn \notin clients /\ issued \in Nat
  BY ConstantsAssumption DEF TypeOK
<1>1. CASE Keeps
  <2>1. /\ UNCHANGED <<seats, clients, issued, reason>>
        /\ \A c \in clients : client'[c].player = client[c].player
        /\ \A i \in seats : seat'[i].conn = seat[i].conn
    BY <1>1 DEF Keeps
  <2>2. ASSUME NEW c \in clients
        PROVE  client'[c].player \in seats /\ seat'[client'[c].player].conn = c
    <3>1. client[c].player \in seats /\ seat[client[c].player].conn = c
      BY DEF SeatsInv, OneSocketPerSeat, player
    <3>2. QED
      BY <2>1, <3>1
  <2>3. ASSUME NEW i \in seats, seat'[i].conn # NoConn
        PROVE  seat'[i].conn \in clients /\ client'[seat'[i].conn].player = i
    <3>1. seat[i].conn \in clients /\ client[seat[i].conn].player = i
      BY <2>1, <2>3 DEF SeatsInv, OneSocketPerSeat, connected, player
    <3>2. QED
      BY <2>1, <3>1
  <2>4. OneSocketPerSeat'
    BY <2>1, <2>2, <2>3 DEF OneSocketPerSeat, connected, player
  <2>5. QED
    BY <2>1, <2>4 DEF SeatsInv, disposed
<1>2. ASSUME NEW D \in SUBSET clients, NEW R \in SUBSET seats, Drops(D, R)
      PROVE  SeatsInv'
  <2>1. \A i \in R : seat[i].conn \in D \cup {NoConn}
    BY <1>2, Bounds DEF Drops, Clocks, connected, NotCounting
  <2>2. ASSUME NEW c \in clients'
        PROVE  player(c)' \in seats' /\ seat'[player(c)'].conn = c
    <3>1. c \in clients \ D /\ client'[c].player = client[c].player
      BY <1>2 DEF Drops
    <3>2. client[c].player \in seats \ R /\ seat[client[c].player].conn = c
      <4>1. client[c].player \in seats /\ seat[client[c].player].conn = c
        BY <3>1 DEF SeatsInv, OneSocketPerSeat, player
      <4>2. c \notin D \cup {NoConn}
        BY <1>a, <3>1
      <4>3. QED
        BY <2>1, <4>1, <4>2
    <3>3. QED
      BY <1>2, <3>1, <3>2 DEF Drops, player
  <2>3. ASSUME NEW i \in seats', connected(i)'
        PROVE  seat'[i].conn \in clients' /\ client'[seat'[i].conn].player = i
    <3>1. i \in seats \ R /\ seat[i].conn \notin D /\ seat'[i].conn = seat[i].conn
      BY <1>2, <2>3 DEF Drops, connected
    <3>2. seat[i].conn \in clients /\ client[seat[i].conn].player = i
      BY <2>3, <3>1 DEF SeatsInv, OneSocketPerSeat, connected, player
    <3>3. QED
      BY <1>2, <3>1, <3>2 DEF Drops
  <2>4. seats' \subseteq 1..issued' /\ (disposed' => clients' = {} /\ seats' = {})
    BY <1>2 DEF Drops, SeatsInv, disposed
  <2>5. QED
    BY <2>2, <2>3, <2>4 DEF SeatsInv, OneSocketPerSeat, player
<1>3. ASSUME NEW c \in Conn, NEW p \in Ids, NEW old \in Conn \cup {NoConn}, Seats(c, p, old)
      PROVE  SeatsInv'
  <2>1. ASSUME NEW k \in clients \ {old}
        PROVE  client'[k].player \in seats \ {p} /\ seat'[client'[k].player].conn = k
    <3>1. client[k].player \in seats /\ seat[client[k].player].conn = k
      BY DEF SeatsInv, OneSocketPerSeat, player
    <3>2. client[k].player # p
      BY <1>3, <3>1 DEF Seats
    <3>3. QED
      BY <1>3, <3>1, <3>2 DEF Seats
  <2>2. ASSUME NEW i \in seats \ {p}, seat'[i].conn # NoConn
        PROVE  seat'[i].conn \in clients \ {old} /\ client'[seat'[i].conn].player = i
    <3>1. seat'[i].conn = seat[i].conn
      BY <1>3 DEF Seats
    <3>2. seat[i].conn \in clients /\ client[seat[i].conn].player = i
      BY <2>2, <3>1 DEF SeatsInv, OneSocketPerSeat, connected, player
    <3>3. ASSUME seat[i].conn = old
          PROVE  FALSE
      <4>1. old # NoConn /\ p \in seats /\ old = seat[p].conn
        BY <1>3, <2>2, <3>1, <3>3 DEF Seats
      <4>2. client[old].player = p
        BY <4>1 DEF SeatsInv, OneSocketPerSeat, connected, player
      <4>3. QED
        BY <3>2, <3>3, <4>2
    <3>4. QED
      BY <1>3, <3>1, <3>2, <3>3 DEF Seats
  <2>3. /\ clients' = (clients \ {old}) \cup {c} /\ seats' = seats \cup {p}
        /\ client'[c].player = p /\ seat'[p].conn = c
    BY <1>3 DEF Seats
  <2>4. OneSocketPerSeat'
    BY <2>1, <2>2, <2>3 DEF OneSocketPerSeat, connected, player
  <2>5. seats' \subseteq 1..issued'
    BY <1>3, <1>a DEF Seats, SeatsInv, Ids
  <2>6. QED
    BY <1>3, <2>4, <2>5 DEF Seats, SeatsInv, disposed
<1>4. CASE Ends
  BY <1>4, <1>a DEF Ends, SeatsInv, OneSocketPerSeat
<1>5. QED
  BY <1>1, <1>2, <1>3, <1>4 DEF Moves

\* So are the absences counted.
LEMMA ClocksKept ==
  ASSUME TypeOK, SeatsInv, Clocks, Moves
  PROVE  Clocks'
<1>a. /\ NoConn \notin clients /\ NoConn \notin Conn /\ NotCounting = -1 /\ EmptyGrace \in Nat
      /\ emptyFor \in NotCounting..EmptyGrace
      /\ \A i \in seats : seat[i].away \in NotCounting..EmptyGrace
  BY Bounds, ConstantsAssumption DEF TypeOK, NotCounting, SeatRec
<1>1. CASE Keeps
  <2>1. PICK older \in BOOLEAN :
          /\ \A i \in seats : seat'[i].away =
                                IF older THEN Older(seat[i].away, EmptyGrace) ELSE seat[i].away
          /\ emptyFor' = IF older THEN Older(emptyFor, EmptyGrace) ELSE emptyFor
    BY <1>1 DEF Keeps
  <2>2. /\ UNCHANGED <<seats, clients, reason>>
        /\ \A i \in seats : seat'[i].conn = seat[i].conn
    BY <1>1 DEF Keeps
  <2>3. /\ \A i \in seats : /\ seat'[i].away = NotCounting <=> seat[i].away = NotCounting
                            /\ seat[i].away >= emptyFor => seat'[i].away >= emptyFor'
        /\ emptyFor' = NotCounting <=> emptyFor = NotCounting
    BY <1>a, <2>1, OlderKeepsOrder
  <2>4. QED
    BY <2>2, <2>3 DEF Clocks, connected, disposed
<1>2. ASSUME NEW D \in SUBSET clients, NEW R \in SUBSET seats, Drops(D, R)
      PROVE  Clocks'
  <2>1. /\ clients' = clients \ D /\ seats' = seats \ R /\ reason' = reason
        /\ emptyFor' = EmptyForWithout(D)
        /\ \A i \in seats \ R :
             IF seat[i].conn \in D
               THEN seat'[i].conn = NoConn /\ seat'[i].away = 0
               ELSE seat'[i].conn = seat[i].conn /\ seat'[i].away = seat[i].away
    BY <1>2 DEF Drops
  <2>2. \A i \in seats' : connected(i)' <=> seat'[i].away = NotCounting
    BY <1>a, <2>1 DEF Clocks, connected
  <2>3. ~disposed' => (clients' = {} <=> emptyFor' # NotCounting)
    BY <1>a, <2>1 DEF Clocks, EmptyForWithout, disposed
  <2>4. ASSUME ~disposed', emptyFor' # NotCounting, NEW i \in seats'
        PROVE  seat'[i].away >= emptyFor'
    <3>1. i \in seats \ R /\ ~disposed /\ clients \ D = {}
      BY <2>1, <2>3, <2>4 DEF disposed
    <3>2. seat[i].conn \in D \/ seat[i].conn = NoConn
      BY <3>1 DEF SeatsInv, OneSocketPerSeat, connected
    <3>3. seat'[i].away >= 0
      BY <1>a, <2>1, <3>1, <3>2 DEF Clocks, connected
    <3>4. CASE D # {}
      BY <2>1, <3>1, <3>3, <3>4 DEF EmptyForWithout
    <3>5. CASE D = {}
      BY <2>1, <2>4, <3>1, <3>5 DEF EmptyForWithout, Clocks
    <3>6. QED
      BY <3>4, <3>5
  <2>5. QED
    BY <2>2, <2>3, <2>4 DEF Clocks
<1>3. ASSUME NEW c \in Conn, NEW p \in Ids, NEW old \in Conn \cup {NoConn}, Seats(c, p, old)
      PROVE  Clocks'
  BY <1>3, <1>a DEF Seats, Clocks, connected
<1>4. CASE Ends
  BY <1>4 DEF Ends, Clocks
<1>5. QED
  BY <1>1, <1>2, <1>3, <1>4 DEF Moves

\* And so is the host's authority.
LEMMA AuthorityKept ==
  ASSUME TypeOK, SeatsInv, Clocks, Authority, Moves
  PROVE  Authority'
<1>a. NoConn \notin clients /\ NoConn \notin Conn /\ seats \in SUBSET Ids
  BY ConstantsAssumption DEF TypeOK
<1>1. CASE Keeps
  BY <1>1 DEF Keeps, Authority, connected, disposed
<1>2. ASSUME NEW D \in SUBSET clients, NEW R \in SUBSET seats, Drops(D, R)
      PROVE  Authority'
  <2> DEFINE rest == {i \in seats : seat[i].conn \notin D \cup {NoConn}}
  <2>1. /\ clients' = clients \ D /\ seats' = seats \ R /\ reason' = reason
        /\ host' = HostWithout(D)
        /\ \A i \in seats \ R :
             IF seat[i].conn \in D THEN seat'[i].conn = NoConn
                                   ELSE seat'[i].conn = seat[i].conn
    BY <1>2 DEF Drops
  <2>2. \A i \in R : seat[i].conn \in D \cup {NoConn}
    BY <1>2, Bounds DEF Drops, Clocks, connected, NotCounting
  <2>3. \A i \in rest : i \in seats' /\ connected(i)'
    BY <2>1, <2>2 DEF connected
  <2>4. rest \in SUBSET Ids /\ (rest = {} <=> clients \ D = {})
    <3>1. ASSUME NEW i \in rest
          PROVE  seat[i].conn \in clients \ D
      BY DEF SeatsInv, OneSocketPerSeat, connected
    <3>2. ASSUME NEW c \in clients \ D
          PROVE  player(c) \in rest
      BY <1>a DEF SeatsInv, OneSocketPerSeat
    <3>3. QED
      BY <3>1, <3>2, <1>a
  <2>5. CASE host \in {player(c) : c \in D}
    <3>1. host' = First(rest)
      BY <2>1, <2>5 DEF HostWithout
    <3> HIDE DEF rest
    <3>2. IF rest = {} THEN host' = Nobody ELSE host' \in rest
      BY <2>4, <3>1, FirstIsMember
    <3>3. QED
      BY <2>1, <2>3, <2>4, <3>2 DEF Authority
  <2>6. CASE host \notin {player(c) : c \in D}
    <3>1. host' = host
      BY <2>1, <2>6 DEF HostWithout
    <3>2. ASSUME ~disposed, clients # {}
          PROVE  host \in rest
      <4>1. host \in seats /\ connected(host)
        BY <3>2 DEF Authority
      <4>2. seat[host].conn \in clients /\ player(seat[host].conn) = host
        BY <4>1 DEF SeatsInv, OneSocketPerSeat
      <4>3. QED
        BY <2>6, <4>1, <4>2 DEF connected
    <3>3. QED
      BY <2>1, <2>3, <2>4, <3>1, <3>2 DEF Authority, disposed
  <2>7. QED
    BY <2>5, <2>6
<1>3. ASSUME NEW c \in Conn, NEW p \in Ids, NEW old \in Conn \cup {NoConn}, Seats(c, p, old)
      PROVE  Authority'
  <2>1. /\ ~disposed /\ clients' # {} /\ seats' = seats \cup {p}
        /\ host' = IF host = Nobody THEN p ELSE host
        /\ seat'[p].conn = c /\ c # NoConn
        /\ \A i \in seats \ {p} : seat'[i].conn = seat[i].conn
    BY <1>3, <1>a DEF Seats
  <2>2. CASE host = Nobody
    BY <2>1, <2>2 DEF Authority, connected
  <2>3. CASE host # Nobody
    <3>1. host \in seats /\ connected(host)
      BY <2>1, <2>3 DEF Authority
    <3>2. QED
      BY <2>1, <2>3, <3>1 DEF Authority, connected
  <2>4. QED
    BY <2>2, <2>3
<1>4. CASE Ends
  BY <1>4 DEF Ends, Authority
<1>5. QED
  BY <1>1, <1>2, <1>3, <1>4 DEF Moves

-----------------------------------------------------------------------------
(* The theorems.                                                           *)

\* The inductive invariant: it says no more of the roster than its type.
RoomInv == TypeOK /\ SeatsInv /\ Clocks /\ Authority

LEMMA RoomInvInit == Init => RoomInv
<1> SUFFICES ASSUME Init
             PROVE  RoomInv
  OBVIOUS
<1>1. TypeOK
  <2>1. seat \in [Ids -> SeatRec] /\ client \in [Conn -> ClientRec]
    BY NullRecords DEF Init
  <2>2. /\ issued \in 0..MaxIds /\ round \in 0..MaxRounds /\ idleFor \in 0..RoomIdle
        /\ age \in 0..(RoomLife + BattleOverrun) /\ emptyFor \in NotCounting..EmptyGrace
    BY Bounds DEF Init, NotCounting
  <2>3. QED
    BY <2>1, <2>2 DEF Init, TypeOK
<1>2. seats = {} /\ clients = {} /\ host = Nobody /\ emptyFor = 0
  BY DEF Init
<1>3. SeatsInv
  BY <1>2 DEF SeatsInv, OneSocketPerSeat
<1>4. Clocks
  BY <1>2 DEF Clocks, NotCounting
<1>5. Authority
  BY <1>2 DEF Authority
<1>6. QED
  BY <1>1, <1>3, <1>4, <1>5 DEF RoomInv

LEMMA RoomInvStep == RoomInv /\ [Next]_vars => RoomInv'
<1> SUFFICES ASSUME RoomInv, [Next]_vars
             PROVE  RoomInv'
  OBVIOUS
<1>1. TypeOK'
  BY TypeStep DEF RoomInv, SeatsInv
<1>2. Moves
  BY StepKinds DEF RoomInv
<1>3. SeatsInv' /\ Clocks' /\ Authority'
  BY <1>2, BindingKept, ClocksKept, AuthorityKept DEF RoomInv
<1>4. QED
  BY <1>1, <1>3 DEF RoomInv

LEMMA RoomInvariant == Spec => []RoomInv
BY RoomInvInit, RoomInvStep, PTL DEF Spec

\* Every variable keeps its type: ids stay within those drawn, a seat's team slot is one
\* of its team's, and no time stamp leaves the range it is compared in.
THEOREM TypeCorrect == Spec => []TypeOK
<1>1. RoomInv => TypeOK
  BY DEF RoomInv
<1>2. QED
  BY <1>1, RoomInvariant, PTL

\* Takeovers, simultaneous drops, departures and late joins in any order never leave two
\* sockets with one seat, a socket with none, or a seat bound to a socket that is gone.
THEOREM SocketsBound == Spec => []OneSocketPerSeat
<1>1. RoomInv => OneSocketPerSeat
  BY DEF RoomInv, SeatsInv
<1>2. QED
  BY <1>1, RoomInvariant, PTL

\* A room that has players always has a connected host to start or end its battle.
THEOREM AlwaysAHost == Spec => []HostIsConnected
<1>1. RoomInv => HostIsConnected
  BY DEF RoomInv, Authority, HostIsConnected
<1>2. QED
  BY <1>1, RoomInvariant, PTL

\* Reconnect graces run exactly while their players are away.
THEOREM GraceExact == Spec => []GraceRuns
<1>1. RoomInv => GraceRuns
  BY DEF RoomInv, Clocks, GraceRuns
<1>2. QED
  BY <1>1, RoomInvariant, PTL

\* When an empty room is disposed, every seat in it has used up its own grace.
THEOREM RoomOutlivesSeats == Spec => []NoReservationCutShort
<1>1. RoomInv => NoReservationCutShort
  BY DEF RoomInv, Clocks, NoReservationCutShort
<1>2. QED
  BY <1>1, RoomInvariant, PTL

\* A seat is given up only by its connected player, by the end of its grace, or with the
\* whole room.
THEOREM ReservationsHonoured == Spec => SeatsKeptForGrace
<1>1. ASSUME RoomInv, [Next]_vars, ~disposed', NEW i \in seats \ seats'
      PROVE  connected(i) \/ seat[i].away = EmptyGrace
  <2>1. Moves
    BY <1>1, StepKinds DEF RoomInv
  <2>2. PICK D \in SUBSET clients, R \in SUBSET seats : Drops(D, R)
    BY <1>1, <2>1 DEF Moves, Keeps, Seats, Ends
  <2>3. i \in R /\ (seat[i].conn \in D \/ seat[i].away = EmptyGrace)
    BY <2>2 DEF Drops
  <2>4. NoConn \notin clients
    BY <1>1, ConstantsAssumption DEF RoomInv, TypeOK
  <2>5. QED
    BY <2>3, <2>4 DEF connected
<1>2. RoomInv /\ [Next]_vars =>
        [~disposed' => \A i \in seats \ seats' : connected(i) \/ seat[i].away = EmptyGrace]_vars
  BY <1>1
<1>3. QED
  BY <1>2, RoomInvariant, PTL DEF Spec, SeatsKeptForGrace

\* The host changes only when nobody was there before, or when the host's connection is
\* gone, to the earliest seated player still connected.
THEOREM HandoverOrdered == Spec => HandoverInJoinOrder
<1> DEFINE Handover ==
      ~disposed' /\ host' # host =>
        IF host = Nobody THEN clients = {} /\ clients' # {}
        ELSE /\ host \notin seats' \/ seat'[host].conn = NoConn
             /\ host' = First({i \in seats' : seat'[i].conn # NoConn})
<1>1. ASSUME RoomInv, [Next]_vars, ~disposed', host' # host
      PROVE  Handover
  <2>1. Moves /\ SeatsInv /\ Clocks /\ Authority /\ TypeOK
    BY <1>1, StepKinds DEF RoomInv
  <2>a. NoConn \notin clients /\ Nobody \notin seats
    BY <2>1, ConstantsAssumption DEF TypeOK, Nobody, Ids
  <2>2. ASSUME NEW D \in SUBSET clients, NEW R \in SUBSET seats, Drops(D, R)
        PROVE  /\ host # Nobody
               /\ host \notin seats' \/ seat'[host].conn = NoConn
               /\ host' = First({i \in seats' : seat'[i].conn # NoConn})
    <3>1. PICK c \in D : host = player(c)
      BY <1>1, <2>2 DEF Drops, HostWithout
    <3>2. host \in seats /\ seat[host].conn = c
      BY <2>1, <3>1 DEF SeatsInv, OneSocketPerSeat
    <3>3. host # Nobody
      BY <2>a, <3>2
    <3>4. host \notin seats' \/ seat'[host].conn = NoConn
      BY <2>2, <3>1, <3>2 DEF Drops
    <3>5. \A i \in R : seat[i].conn \in D \cup {NoConn}
      BY <2>1, <2>2, Bounds DEF Drops, Clocks, connected, NotCounting
    <3>6. {i \in seats : seat[i].conn \notin D \cup {NoConn}} =
            {i \in seats' : seat'[i].conn # NoConn}
      BY <2>2, <3>5 DEF Drops
    <3>7. host' = First({i \in seats : seat[i].conn \notin D \cup {NoConn}})
      BY <2>2, <3>1 DEF Drops, HostWithout
    <3>8. QED
      BY <3>3, <3>4, <3>6, <3>7, Zenon
  <2>3. ASSUME NEW c \in Conn, NEW p \in Ids, NEW old \in Conn \cup {NoConn},
               Seats(c, p, old)
        PROVE  host = Nobody /\ clients = {} /\ clients' # {}
    <3>1. host = Nobody /\ ~disposed /\ clients' # {}
      BY <1>1, <2>3 DEF Seats
    <3>2. QED
      BY <2>1, <2>a, <3>1 DEF Authority
  <2>4. ~Keeps /\ ~Ends
    BY <1>1 DEF Keeps, Ends
  <2>5. CASE \E D \in SUBSET clients, R \in SUBSET seats : Drops(D, R)
    BY <2>2, <2>5
  <2>6. CASE \E c \in Conn, p \in Ids, old \in Conn \cup {NoConn} : Seats(c, p, old)
    BY <2>3, <2>6
  <2>7. QED
    BY <2>1, <2>4, <2>5, <2>6 DEF Moves
<1>2. RoomInv /\ [Next]_vars => [Handover]_vars
  BY <1>1
<1> HIDE DEF Handover
<1>3. HandoverInJoinOrder <=> [][Handover]_vars
  BY DEF HandoverInJoinOrder, Handover
<1>4. QED
  BY <1>2, <1>3, RoomInvariant, PTL DEF Spec

-----------------------------------------------------------------------------
(* Rosters.                                                                *)

\* A room never seats more players than it has places, nor two in one slot, so that the
\* simulation accepts its roster whenever the host starts.
RosterInv == RosterValid(seats, seat)

\* Dropping connections leaves every seat its slot.
LEMMA DropSlots ==
  ASSUME TypeOK, NEW D, NEW i \in seats
  PROVE  SeatsWithout(D)[i].team = seat[i].team /\ SeatsWithout(D)[i].slot = seat[i].slot
<1>1. i \in Ids /\ seat[i] \in SeatRec
  BY DEF TypeOK
<1>2. CASE seat[i].conn \in D
  <2>1. SeatsWithout(D)[i] = [seat[i] EXCEPT !.conn = NoConn, !.away = 0, !.driving = FALSE]
    BY <1>1, <1>2 DEF SeatsWithout
  <2> QED
    BY <1>1, <2>1 DEF SeatRec
<1>3. CASE seat[i].conn \notin D
  BY <1>1, <1>3 DEF SeatsWithout
<1> QED
  BY <1>2, <1>3

\* So does the start of a round.
LEMMA StartedSlots ==
  ASSUME NEW S, NEW s \in [Ids -> SeatRec], NEW i \in Ids
  PROVE  SeatsStarted(S, s)[i].team = s[i].team /\ SeatsStarted(S, s)[i].slot = s[i].slot
<1>1. s[i] \in SeatRec
  OBVIOUS
<1>2. CASE i \in S
  <2>1. SeatsStarted(S, s)[i] = [s[i] EXCEPT !.driving = s[i].conn # NoConn /\ ~s[i].suspended]
    BY <1>2 DEF SeatsStarted
  <2> QED
    BY <1>1, <2>1 DEF SeatRec
<1>3. CASE i \notin S
  BY <1>3 DEF SeatsStarted
<1> QED
  BY <1>2, <1>3

\* A room has finitely many seats.
LEMMA FiniteSeats ==
  ASSUME TypeOK
  PROVE  IsFiniteSet(seats) /\ Cardinality(seats) \in Nat
<1>1. 1 \in Int /\ MaxIds \in Int
  BY Bounds
<1>2. IsFiniteSet(Ids)
  BY <1>1, FS_Interval DEF Ids
<1> QED
  BY <1>2, FS_Subset, FS_CardinalityType DEF TypeOK

\* Seats that are given up or keep their slots leave the roster valid.
LEMMA RosterKept ==
  ASSUME TypeOK, RosterInv, seats' \subseteq seats,
         \A i \in seats' : seat'[i].team = seat[i].team /\ seat'[i].slot = seat[i].slot
  PROVE  RosterInv'
<1>1. IsFiniteSet(seats) /\ MaxPlayers \in Nat
  BY Bounds, FiniteSeats
<1>2. /\ Cardinality(seats') <= Cardinality(seats)
      /\ Cardinality(seats) \in Nat /\ Cardinality(seats') \in Nat
  BY <1>1, FS_Subset, FS_CardinalityType
<1>3. Cardinality(seats') <= MaxPlayers
  BY <1>1, <1>2 DEF RosterInv, RosterValid
<1> QED
  BY <1>3 DEF RosterInv, RosterValid

\* So does a newcomer in a free slot of a room that is not full.
LEMMA RosterGrows ==
  ASSUME TypeOK, RosterInv, Cardinality(seats) < MaxPlayers,
         NEW p \in Ids \ seats, seats' = seats \cup {p},
         \A i \in seats : seat'[i].team = seat[i].team /\ seat'[i].slot = seat[i].slot,
         seat'[p].slot \in FreeSlots(seat'[p].team, {})
  PROVE  RosterInv'
<1>1. IsFiniteSet(seats) /\ MaxPlayers \in Nat
  BY Bounds, FiniteSeats
<1>2. Cardinality(seats') = Cardinality(seats) + 1 /\ Cardinality(seats) \in Nat
  BY <1>1, FS_AddElement, FS_CardinalityType
<1>3. Cardinality(seats') <= MaxPlayers
  BY <1>1, <1>2
<1>4. \A i \in seats : ~(seat[i].team = seat'[p].team /\ seat[i].slot = seat'[p].slot)
  BY DEF FreeSlots
<1> QED
  BY <1>3, <1>4 DEF RosterInv, RosterValid

\* A newcomer's seat is in a free slot of its side.
LEMMA NewcomersSlot ==
  ASSUME TypeOK, NEW c \in Conn, NEW r \in JoinRequest, Admissible(c, r),
         NEW s, s = [seat EXCEPT ![issued + 1] = NewSeat(c, Side(r.team))]
  PROVE  /\ issued + 1 \in Ids /\ s \in [Ids -> SeatRec]
         /\ s[issued + 1].slot \in FreeSlots(s[issued + 1].team, {})
         /\ \A i \in Ids \ {issued + 1} : s[i] = seat[i]
<1> DEFINE p == issued + 1
           n == NewSeat(c, Side(r.team))
<1>1. p \in Ids /\ r.team \in Team \cup {AnyTeam}
  BY Bounds DEF TypeOK, Ids, Admissible, JoinRequest
<1>2. n \in SeatRec
  BY <1>1, NewSeatType DEF Admissible
<1>3. LowestSlot(FreeSlots(Side(r.team), {})) \in FreeSlots(Side(r.team), {})
  <2>1. FreeSlots(Side(r.team), {}) \in SUBSET Slot
    BY DEF FreeSlots
  <2> QED
    BY <2>1, LowestSlotIsMember DEF Admissible
<1>4. n.slot \in FreeSlots(n.team, {})
  BY <1>3 DEF NewSeat
<1>5. seat \in [Ids -> SeatRec] /\ s = [seat EXCEPT ![p] = n]
  BY DEF TypeOK
<1> HIDE DEF n, p
<1>6. p \in Ids /\ s \in [Ids -> SeatRec] /\ s[p] = n /\ \A i \in Ids \ {p} : s[i] = seat[i]
  BY <1>1, <1>2, <1>5
<1> QED
  BY <1>4, <1>6 DEF p

LEMMA RosterStep == RoomInv /\ RosterInv /\ [Next]_vars => RosterInv'
<1> SUFFICES ASSUME RoomInv, RosterInv, [Next]_vars
             PROVE  RosterInv'
  OBVIOUS
<1>1. /\ TypeOK /\ OneSocketPerSeat /\ seats \subseteq 1..issued /\ seats \subseteq Ids
      /\ seat \in [Ids -> SeatRec] /\ issued \in Nat
  BY DEF RoomInv, SeatsInv, TypeOK
<1>2. \A c \in clients : c \in Conn /\ player(c) \in seats /\ player(c) \in Ids
  BY <1>1 DEF OneSocketPerSeat, TypeOK
<1> DEFINE same == \A i \in seats' : seat'[i].team = seat[i].team /\ seat'[i].slot = seat[i].slot
<1>3. ASSUME seats' \subseteq seats, same
      PROVE  RosterInv'
  BY <1>1, <1>3, RosterKept
\* newcomers
<1>4. ASSUME NEW c \in Conn, NEW r \in JoinRequest, Join(c, r)
      PROVE  RosterInv'
  <2> DEFINE p == issued + 1
  <2>1. /\ Admissible(c, r) /\ seats' = seats \cup {p}
        /\ seat' = [seat EXCEPT ![issued + 1] = NewSeat(c, Side(r.team))]
    BY <1>4 DEF Join
  <2>2. p \notin seats /\ Cardinality(seats) < MaxPlayers
    BY <1>1, <2>1 DEF Admissible
  <2>3. /\ p \in Ids /\ seat'[p].slot \in FreeSlots(seat'[p].team, {})
        /\ \A i \in Ids \ {p} : seat'[i] = seat[i]
    BY <1>1, <2>1, NewcomersSlot
  <2> HIDE DEF p
  <2> QED
    BY <1>1, <2>1, <2>2, <2>3, RosterGrows
<1>5. ASSUME NEW c \in Conn, NEW r \in JoinRequest, Create(c, r)
      PROVE  RosterInv'
  <2> DEFINE p == issued + 1
             s == [seat EXCEPT ![issued + 1] = NewSeat(c, Side(r.team))]
  <2>1. Admissible(c, r) /\ seats' = seats \cup {p} /\ seat' = SeatsStarted(seats', s)
    BY <1>5 DEF Create, Begin
  <2>2. p \notin seats /\ Cardinality(seats) < MaxPlayers
    BY <1>1, <2>1 DEF Admissible
  <2>3. /\ p \in Ids /\ s \in [Ids -> SeatRec] /\ s[p].slot \in FreeSlots(s[p].team, {})
        /\ \A i \in Ids \ {p} : s[i] = seat[i]
    BY <1>1, <2>1, NewcomersSlot
  <2> HIDE DEF p, s
  <2>4. \A i \in Ids : seat'[i].team = s[i].team /\ seat'[i].slot = s[i].slot
    BY <2>1, <2>3, StartedSlots
  <2>5. /\ \A i \in seats : seat'[i].team = seat[i].team /\ seat'[i].slot = seat[i].slot
        /\ seat'[p].slot \in FreeSlots(seat'[p].team, {})
    BY <1>1, <2>2, <2>3, <2>4
  <2> QED
    BY <1>1, <2>1, <2>2, <2>3, <2>5, RosterGrows
\* a player changes sides
<1>6. ASSUME NEW c \in Conn, NEW want \in Team \cup {AnyTeam}, Choose(c, want)
      PROVE  RosterInv'
  <2> DEFINE p == player(c)
             side == IF want = AnyTeam THEN AutoTeam({p}) ELSE want
             free == FreeSlots(side, {p})
  <2>1. /\ c \in clients /\ seats' = seats
        /\ \/ seat' = seat
           \/ free # {} /\ seat' = [seat EXCEPT ![p] = [@ EXCEPT !.team = side, !.slot = LowestSlot(free)]]
    BY <1>6 DEF Choose
  <2>2. CASE seat' = seat
    BY <1>3, <2>1, <2>2
  <2>3. CASE seat' # seat
    <3>1. free # {} /\ free \in SUBSET Slot
      BY <2>1, <2>3 DEF FreeSlots
    <3> DEFINE x == LowestSlot(free)
    <3>2. x \in free
      BY <3>1, LowestSlotIsMember
    <3>3. \A i \in seats \ {p} : ~(seat[i].team = side /\ seat[i].slot = x)
      BY <3>2 DEF FreeSlots
    <3>4. p \in Ids /\ p \in seats /\ seat[p] \in SeatRec
      BY <1>1, <1>2, <2>1
    <3> HIDE DEF p, side, x
    <3>5. seat' = [seat EXCEPT ![p] = [seat[p] EXCEPT !.team = side, !.slot = x]]
      BY <2>1, <2>3 DEF x
    <3>6. /\ seat'[p].team = side /\ seat'[p].slot = x
          /\ \A i \in seats \ {p} : seat'[i] = seat[i]
      BY <1>1, <3>4, <3>5 DEF SeatRec
    <3> QED
      BY <2>1, <3>3, <3>4, <3>6 DEF RosterInv, RosterValid
  <2> QED
    BY <2>2, <2>3
\* everybody else keeps the slot
<1>7. ASSUME NEW c \in Conn, NEW p \in Ids, Reclaim(c, p)
      PROVE  seats' \subseteq seats /\ same
  <2>1. /\ seats' = seats /\ p \in seats
        /\ seat' = [seat EXCEPT ![p] =
               [@ EXCEPT !.conn = c, !.away = NotCounting, !.suspended = FALSE,
                         !.watching = FALSE, !.driving = built]]
    BY <1>7 DEF Reclaim
  <2> QED
    BY <1>1, <2>1 DEF SeatRec
<1>8. ASSUME NEW c \in Conn, Start(c)
      PROVE  seats' \subseteq seats /\ same
  <2>1. seats' = seats /\ (seat' = SeatsStarted(seats, seat) \/ seat' = SeatsWithout({c}))
    BY <1>8 DEF Start, Begin
  <2> QED
    BY <1>1, <2>1, StartedSlots, DropSlots
<1>9. ASSUME NEW c \in Conn, NEW watch \in BOOLEAN, Suspend(c, watch)
      PROVE  seats' \subseteq seats /\ same
  <2>1. /\ seats' = seats
        /\ seat' = [seat EXCEPT ![player(c)] =
                      [@ EXCEPT !.suspended = TRUE, !.watching = watch, !.driving = FALSE]]
    BY <1>9 DEF Suspend
  <2> QED
    BY <1>1, <2>1 DEF SeatRec
<1>10. ASSUME NEW c \in Conn, NEW flooded \in BOOLEAN, Resume(c, flooded)
       PROVE  seats' \subseteq seats /\ same
  <2> DEFINE p == player(c)
  <2>1. /\ seats' = seats /\ p \in seats
        /\ \/ seat' = [SeatsWithout({c}) EXCEPT ![p] = [@ EXCEPT !.suspended = FALSE, !.watching = FALSE]]
           \/ seat' = [seat EXCEPT ![p] = [@ EXCEPT !.suspended = FALSE, !.watching = FALSE,
                                                    !.driving = built]]
    BY <1>2, <1>10 DEF Resume
  <2>2. \A i \in seats : /\ SeatsWithout({c})[i].team = seat[i].team
                         /\ SeatsWithout({c})[i].slot = seat[i].slot
    BY <1>1, DropSlots
  <2>3. SeatsWithout({c}) \in [Ids -> SeatRec]
    BY <1>1, <1>2, <1>10, DropTypes DEF Resume
  <2> DEFINE w == SeatsWithout({c})
  <2> HIDE DEF w, p
  <2>4. CASE seat' = [w EXCEPT ![p] = [@ EXCEPT !.suspended = FALSE, !.watching = FALSE]]
    <3>1. \A i \in seats : seat'[i].team = w[i].team /\ seat'[i].slot = w[i].slot
      BY <1>1, <2>3, <2>4 DEF w, SeatRec
    <3> QED
      BY <2>1, <2>2, <3>1 DEF w
  <2>5. CASE seat' = [seat EXCEPT ![p] = [@ EXCEPT !.suspended = FALSE, !.watching = FALSE,
                                                   !.driving = built]]
    BY <1>1, <2>1, <2>5 DEF SeatRec
  <2> QED
    BY <2>1, <2>4, <2>5 DEF w
<1>11. ASSUME NEW c \in Conn, Leave(c)
       PROVE  seats' \subseteq seats /\ same
  <2>1. \/ seats' = {}
        \/ /\ seats' = seats \ {player(c)}
           /\ seat' = SeatsReleased(SeatsWithout({c}), {player(c)})
    BY <1>11 DEF Leave, Dispose
  <2>2. ASSUME NEW i \in seats'
        PROVE  i \in seats /\ seat'[i] = SeatsWithout({c})[i]
    BY <1>1, <2>1 DEF SeatsReleased
  <2>3. \A i \in seats : /\ SeatsWithout({c})[i].team = seat[i].team
                         /\ SeatsWithout({c})[i].slot = seat[i].slot
    BY <1>1, DropSlots
  <2> QED
    BY <2>2, <2>3
<1>12. ASSUME NEW c \in Conn, Disconnect(c)
       PROVE  seats' \subseteq seats /\ same
  BY <1>1, <1>12, DropSlots DEF Disconnect
<1>13. ASSUME AdvanceExpired \/ AdvanceOverload
       PROVE  seats' \subseteq seats /\ same
  BY <1>13 DEF AdvanceExpired, AdvanceOverload, Dispose
<1>14. ASSUME NEW n \in 0..MaxSteps, NEW silent \in SUBSET seats, NEW over \in BOOLEAN,
              Advance(n, silent, over)
       PROVE  seats' \subseteq seats /\ same
  <2> DEFINE kept == SeatsReleased(SeatsWithout(Stale), Away)
  <2>1. /\ seats' = seats \ Away
        /\ seat' = [i \in Ids |-> IF i \in silent THEN [kept[i] EXCEPT !.driving = FALSE] ELSE kept[i]]
    BY <1>14 DEF Advance
  <2>2. ASSUME NEW i \in seats'
        PROVE  seat'[i].team = seat[i].team /\ seat'[i].slot = seat[i].slot
    <3>1. i \in Ids /\ i \in seats /\ i \notin Away
      BY <1>1, <2>1, <2>2
    <3>2. kept[i] = SeatsWithout(Stale)[i]
      BY <3>1 DEF SeatsReleased
    <3>3. kept[i] \in SeatRec
      <4>1. SeatsWithout(Stale) \in [Ids -> SeatRec]
        BY <1>1, DropTypes DEF Stale
      <4> QED
        BY <3>1, <3>2, <4>1
    <3>4. kept[i].team = seat[i].team /\ kept[i].slot = seat[i].slot
      BY <1>1, <3>1, <3>2, DropSlots
    <3>5. seat'[i] = kept[i] \/ seat'[i] = [kept[i] EXCEPT !.driving = FALSE]
      BY <2>1, <3>1
    <3> HIDE DEF kept
    <3> QED
      BY <3>3, <3>4, <3>5 DEF SeatRec
  <2> QED
    BY <2>1, <2>2
<1>15. ASSUME Tick
       PROVE  seats' \subseteq seats /\ same
  <2>1. seats' = seats /\ seat' = [i \in Ids |-> [seat[i] EXCEPT !.away = Older(@, EmptyGrace)]]
    BY <1>15 DEF Tick
  <2> QED
    BY <1>1, <2>1 DEF SeatRec
<1>16. ASSUME UNCHANGED <<seats, seat>>
       PROVE  seats' \subseteq seats /\ same
  BY <1>16
<1>17. ASSUME NEW c \in Conn,
              \/ \E seen \in 0..MaxUnacked : Ping(c, seen)
              \/ \E seen \in 0..MaxInputLag : Input(c, seen)
              \/ Resync(c) \/ Settings(c) \/ End(c)
       PROVE  seats' \subseteq seats /\ same
  BY <1>16, <1>17 DEF Ping, Input, Resync, Settings, End
<1> HIDE DEF same
<1>18. CASE UNCHANGED vars
  BY <1>3, <1>16, <1>18 DEF vars
<1>19. CASE Timer
  BY <1>3, <1>13, <1>14, <1>19 DEF Timer
<1>20. CASE Next
  BY <1>3, <1>4, <1>5, <1>6, <1>7, <1>8, <1>9, <1>10, <1>11, <1>12, <1>15, <1>17, <1>19, <1>20 DEF Next
<1> QED
  BY <1>18, <1>20

\* A round that starts is a battle that can be played, whoever joined, moved to another
\* slot, left or came back before: the roster is one that create_multiplayer_simulation
\* accepts.
THEOREM RoundsCanBePlayed == Spec => StartBuildsRound
<1>1. Init => RosterInv
  BY Bounds, FS_EmptySet DEF Init, RosterInv, RosterValid
<1>2. Spec => [](RoomInv /\ RosterInv)
  BY <1>1, RoomInvInit, RoomInvStep, RosterStep, PTL DEF Spec
<1>3. ASSUME RosterInv, Next, round' # round
      PROVE  built' /\ phase' = "Playing" /\ clients \subseteq clients'
  <2>1. CASE \E c \in Conn, r \in JoinRequest : Create(c, r)
    BY <2>1 DEF Create, Begin, Seated
  <2>2. CASE \E c \in Conn : Start(c)
    BY <1>3, <2>2 DEF Start, Begin, RosterInv
  <2> QED
    BY <1>3, <2>1, <2>2 DEF Next, Join, Reclaim, Ping, Input, Resync, Choose, Settings, End, Suspend,
                            Resume, Leave, Disconnect, Timer, AdvanceExpired, AdvanceOverload, Advance, Tick
<1>4. RosterInv /\ [Next]_vars =>
        [round' # round => built' /\ phase' = "Playing" /\ clients \subseteq clients']_vars
  BY <1>3
<1> QED
  BY <1>2, <1>4, PTL DEF Spec, StartBuildsRound

\* The timer drops a client behind the menu or with a hidden tab for its silence only.
THEOREM NobodyHiddenIsDropped == Spec => HiddenNotDroppedForLag
<1> DEFINE Left ==
      (\E n \in 0..MaxSteps, silent \in SUBSET seats, over \in BOOLEAN : Advance(n, silent, over)) =>
        \A c \in clients : seat[player(c)].suspended /\ ~seat[player(c)].watching
                           /\ client[c].quiet <= ClientTimeout => c \in clients'
<1>1. TypeOK => Left
  <2> SUFFICES ASSUME TypeOK, NEW c \in clients, seat[player(c)].suspended, ~seat[player(c)].watching,
                      client[c].quiet <= ClientTimeout,
                      clients' = clients \ Stale
               PROVE  c \in clients'
    BY DEF Advance
  <2>1. client[c].quiet \in Nat
    BY Bounds DEF TypeOK, ClientRec
  <2> QED
    BY <2>1, Bounds DEF Stale
<1> HIDE DEF Left
<1>2. HiddenNotDroppedForLag <=> [][Left]_vars
  BY DEF HiddenNotDroppedForLag, Left
<1> QED
  BY <1>1, <1>2, TypeCorrect, PTL DEF Spec
=============================================================================
