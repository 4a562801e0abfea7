------------------------- MODULE StateStreamProofs --------------------------
(***************************************************************************)
(* Proofs about a room's state stream.                                     *)
(***************************************************************************)
EXTENDS StateStreamProperties, FiniteSetTheorems, WellFoundedInduction, TLAPS

-----------------------------------------------------------------------------
(* Types.                                                                  *)

Phases == {"lobby", "playing", "results"}
Rooms == [phase : Phases, round : Nat, tick : Nat, world : Nat, stepping : BOOLEAN, idle : Nat]
Frames == [seq : Nat, tick : Nat, base : Nat, scene : Nat, from : Nat, to : Nat]
Streams == [seq : Nat, previous : Nat, sent : Nat, cursor : Nat, frames : Seq(Frames)]
Seats == [joined : BOOLEAN, suspended : BOOLEAN, watching : BOOLEAN, baseline : Nat, fulls : Nat]
Pages ==
  [connected : BOOLEAN, ended : {"no", "outdated", "rejected"}, hidden : BOOLEAN, menu : BOOLEAN,
   round : Nat, phase : Phases, ready : Nat, preparing : Nat, control : BOOLEAN, requested : BOOLEAN,
   needsFull : BOOLEAN, mirrored : Nat, seq : Nat, tick : Nat, scene : Nat, cursor : Nat]

Lobbies == [type : {"lobby"}, round : Nat, phase : Phases]
Fulls == [type : {"full"}, round : Nat, tick : Nat, seq : Nat, cursor : Nat, scene : Nat]
BatchesSent == [type : {"batch"}, round : Nat, frames : Seq(Frames), broken : BOOLEAN]
Others == [type : {"welcome"}] \cup [type : {"control"}, round : Nat] \cup [type : {"closed"}]
Messages == Lobbies \cup Fulls \cup BatchesSent \cup Others

Requests == [type : {"suspend"}, round : Nat, watch : BOOLEAN] \cup [type : {"resume", "resync"}, round : Nat]

TypeOK ==
  /\ room \in Rooms
  /\ stream \in Streams
  /\ seats \in [Clients -> Seats]
  /\ up \in [Clients -> Seq(Requests)]
  /\ down \in [Clients -> Seq(Messages)]
  /\ pages \in [Clients -> Pages]
  /\ published \in Seq(Seq(Nat))
  /\ skipped \subseteq Clients
  /\ moves \in Nat

\* What a message of a type carries.
LEMMA MessageKinds ==
  ASSUME NEW m \in Messages
  PROVE  /\ m.type \in {"lobby", "full", "batch", "welcome", "control", "closed"}
         /\ m.type = "lobby" => m \in Lobbies
         /\ m.type = "full" => m \in Fulls
         /\ m.type = "batch" => m \in BatchesSent
         /\ m.type = "control" => m \in [type : {"control"}, round : Nat]
<1>1. CASE m \in Lobbies
  BY <1>1 DEF Lobbies
<1>2. CASE m \in Fulls
  BY <1>2 DEF Fulls
<1>3. CASE m \in BatchesSent
  BY <1>3 DEF BatchesSent
<1>4. CASE m \in Others
  BY <1>4 DEF Others
<1> QED BY <1>1, <1>2, <1>3, <1>4 DEF Messages

LEMMA RequestKinds ==
  ASSUME NEW m \in Requests
  PROVE  /\ m.type \in {"suspend", "resume", "resync"}
         /\ m.round \in Nat
         /\ m.type = "suspend" => m.watch \in BOOLEAN
BY DEF Requests

-----------------------------------------------------------------------------
(* The stream and what the host sends, whichever room and page it is for.   *)

\* The frame that capture_frame appends to the stream s.
NewFrame(s) ==
  [seq |-> s.seq + 1, tick |-> room'.tick, base |-> s.previous,
   scene |-> room'.world, from |-> s.sent + 1, to |-> s.cursor]

LEMMA CapturedTyped ==
  ASSUME NEW s \in Streams, room' \in Rooms
  PROVE  /\ NewFrame(s) \in Frames
         /\ Captured(s) = [seq |-> s.seq + 1, previous |-> room'.world, sent |-> s.cursor,
                           cursor |-> s.cursor, frames |-> Append(s.frames, NewFrame(s))]
         /\ Captured(s) \in Streams
<1>1. NewFrame(s) \in Frames
  BY DEF NewFrame, Frames, Streams, Rooms
<1>2. Captured(s) = [s EXCEPT !.seq = @ + 1, !.previous = room'.world, !.sent = s.cursor,
                              !.frames = Append(@, NewFrame(s))]
  BY DEF Captured, NewFrame
<1>3. Captured(s) = [seq |-> s.seq + 1, previous |-> room'.world, sent |-> s.cursor,
                     cursor |-> s.cursor, frames |-> Append(s.frames, NewFrame(s))]
  BY <1>2 DEF Streams
<1>4. Append(s.frames, NewFrame(s)) \in Seq(Frames)
  BY <1>1 DEF Streams
<1>5. /\ s.seq + 1 \in Nat /\ room'.world \in Nat /\ s.cursor \in Nat
  BY DEF Streams, Rooms
<1>6. Captured(s) \in Streams
  BY <1>3, <1>4, <1>5 DEF Streams
<1> QED BY <1>1, <1>3, <1>6

LEMMA CurrentTyped ==
  ASSUME NEW s \in Streams, room' \in Rooms
  PROVE  /\ Current(s) \in Streams
         /\ Current(s).previous = room'.world
         /\ Current(s).cursor = s.cursor
         /\ Full(Current(s)) \in Fulls
<1>1. Captured(s) \in Streams
  BY CapturedTyped
<1>a. ASSUME NEW q, Captured(s) = [seq |-> s.seq + 1, previous |-> room'.world, sent |-> s.cursor,
                                   cursor |-> s.cursor, frames |-> q]
      PROVE  Captured(s).previous = room'.world /\ Captured(s).cursor = s.cursor
  BY <1>a
<1>2. Captured(s).previous = room'.world /\ Captured(s).cursor = s.cursor
  BY <1>a, CapturedTyped
<1>3. ASSUME NEW t \in Streams
      PROVE  /\ [t EXCEPT !.frames = <<>>] \in Streams
             /\ [t EXCEPT !.frames = <<>>].previous = t.previous
             /\ [t EXCEPT !.frames = <<>>].cursor = t.cursor
  <2>1. [t EXCEPT !.frames = <<>>]
          = [seq |-> t.seq, previous |-> t.previous, sent |-> t.sent, cursor |-> t.cursor, frames |-> <<>>]
    BY DEF Streams
  <2>2. <<>> \in Seq(Frames)
    OBVIOUS
  <2> QED BY <2>1, <2>2 DEF Streams
<1>4. /\ Current(s) \in Streams
      /\ Current(s).previous = room'.world
      /\ Current(s).cursor = s.cursor
  BY <1>1, <1>2, <1>3 DEF Current
<1>5. ASSUME NEW u \in Streams PROVE Full(u) \in Fulls
  BY DEF Full, Fulls, Streams, Rooms
<1> QED BY <1>4, <1>5

LEMMA ShortSequences ==
  ASSUME NEW S
  PROVE  /\ <<>> \in Seq(S)
         /\ \A x \in S : <<x>> \in Seq(S)
         /\ \A x, y, z \in S : <<x, y, z>> \in Seq(S)
         /\ \A w, x, y, z \in S : <<w, x, y, z>> \in Seq(S)
OBVIOUS

LEMMA ConcatTyped ==
  ASSUME NEW S, NEW q \in Seq(S), NEW r \in Seq(S)
  PROVE  q \o r \in Seq(S)
OBVIOUS

LEMMA SentIsSent ==
  ASSUME NEW S, NEW c \in Clients, NEW q \in Seq(S), down[c] \in Seq(S)
  PROVE  Sent(c, q) \in Seq(S)
BY DEF Sent

-----------------------------------------------------------------------------
(* The page, whichever it is.                                              *)

LEMMA PageDoesTyped ==
  ASSUME NEW c \in Clients, NEW p \in Pages, NEW q \in Seq(Requests), PageDoes(c, p, q),
         pages \in [Clients -> Pages], up \in [Clients -> Seq(Requests)]
  PROVE  pages' \in [Clients -> Pages] /\ up' \in [Clients -> Seq(Requests)]
<1>1. up[c] \o q \in Seq(Requests)
  OBVIOUS
<1> QED BY <1>1 DEF PageDoes

LEMMA RequestsTyped ==
  ASSUME NEW p \in Pages
  PROVE  /\ \A watch \in BOOLEAN : Suspend(p, watch) \in Requests
         /\ Resume(p) \in Requests /\ Resync(p) \in Requests
         /\ RequestFull(p) \in Seq(Requests)
<1>1. Suspend(p, TRUE) \in Requests /\ Suspend(p, FALSE) \in Requests
  BY DEF Suspend, Requests, Pages
<1>2. Resume(p) \in Requests /\ Resync(p) \in Requests
  BY DEF Resume, Resync, Requests, Pages
<1>3. RequestFull(p) \in Seq(Requests)
  BY <1>2, ShortSequences DEF RequestFull
<1>4. \A watch \in BOOLEAN : Suspend(p, watch) \in Requests
  BY <1>1
<1> QED BY <1>2, <1>3, <1>4

LEMMA PrepareTyped ==
  ASSUME NEW c \in Clients, NEW p \in Pages, Prepare(c, p),
         pages \in [Clients -> Pages], up \in [Clients -> Seq(Requests)]
  PROVE  pages' \in [Clients -> Pages] /\ up' \in [Clients -> Seq(Requests)]
<1>1. [p EXCEPT !.preparing = p.round] \in Pages
  BY DEF Pages
<1>2. <<Suspend(p, FALSE)>> \in Seq(Requests) /\ <<>> \in Seq(Requests)
  BY RequestsTyped, ShortSequences
<1> QED BY <1>1, <1>2, PageDoesTyped, Zenon DEF Prepare

LEMMA AppliedTyped ==
  ASSUME NEW p \in Pages, NEW f \in Frames
  PROVE  Applied(p, f) \in Pages
<1>1. [p EXCEPT !.needsFull = TRUE] \in Pages
  BY DEF Pages
<1>2. ASSUME NEW cursor \in Nat, NEW scene \in Nat
      PROVE  [p EXCEPT !.seq = f.seq, !.tick = f.tick, !.cursor = cursor, !.scene = scene] \in Pages
  BY DEF Pages, Frames
<1> DEFINE cursor == IF f.to > p.cursor THEN f.to ELSE p.cursor
<1> DEFINE scene == IF p.scene = f.base THEN f.scene ELSE Mixed
<1>3. cursor \in Nat
  BY DEF Pages, Frames
<1>4. scene \in Nat
  BY DEF Pages, Frames, Mixed
<1>5. Applied(p, f) = IF Gap(p, f) THEN [p EXCEPT !.needsFull = TRUE]
                      ELSE [p EXCEPT !.seq = f.seq, !.tick = f.tick, !.cursor = cursor, !.scene = scene]
  BY DEF Applied, Pages
<1> HIDE DEF cursor, scene
<1>6. CASE Gap(p, f)
  BY <1>1, <1>5, <1>6
<1>7. CASE ~Gap(p, f)
  BY <1>2, <1>3, <1>4, <1>5, <1>7
<1> QED BY <1>6, <1>7

-----------------------------------------------------------------------------
(* A batch, frame by frame.                                                *)

\* A set of natural numbers that is not empty has a least element.
LEMMA LeastNumber ==
  ASSUME NEW S, S \subseteq Nat, S # {}
  PROVE  \E m \in S : \A k \in S : m <= k
<1>1. PICK m \in S : \A k \in S : ~(<<k, m>> \in OpToRel(<, Nat))
  BY NatLessThanWellFounded, WFMin
<1>2. \A k \in S : ~(k < m)
  BY <1>1 DEF OpToRel
<1> QED BY <1>2

\* g holds the page p after each of the first n frames.
After(g, p, frames, n) == g = [i \in 0..n |-> IF i = 0 THEN p ELSE Applied(g[i - 1], frames[i])]

LEMMA AfterExists ==
  ASSUME NEW p \in Pages, NEW frames \in Seq(Frames), NEW n \in 0..Len(frames)
  PROVE  \E g : After(g, p, frames, n)
<1> DEFINE missing == {k \in 0..Len(frames) : ~\E g : After(g, p, frames, k)}
<1>1. SUFFICES ASSUME missing # {} PROVE FALSE
  OBVIOUS
<1>2. missing \subseteq Nat
  OBVIOUS
<1>3. PICK m \in missing : \A k \in missing : m <= k
  BY <1>1, <1>2, LeastNumber
<1>4. m # 0
  <2>1. [i \in 0..0 |-> p][0] = p
    OBVIOUS
  <2>2. After([i \in 0..0 |-> p], p, frames, 0)
    BY DEF After
  <2> QED BY <1>3, <2>2
<1>5. m - 1 \in 0..Len(frames) /\ m - 1 \notin missing /\ m \in 1..Len(frames)
  BY <1>3, <1>4
<1>6. PICK g : After(g, p, frames, m - 1)
  BY <1>5
<1> DEFINE h == [i \in 0..m |-> IF i = m THEN Applied(g[m - 1], frames[m]) ELSE g[i]]
<1>7. h = [i \in 0..m |-> IF i = 0 THEN p ELSE Applied(h[i - 1], frames[i])]
  <2>1. SUFFICES ASSUME NEW i \in 0..m
                 PROVE  h[i] = IF i = 0 THEN p ELSE Applied(h[i - 1], frames[i])
    BY Zenon
  <2>2. CASE i = m
    <3>1. h[i] = Applied(g[m - 1], frames[m])
      BY <2>2
    <3>2. h[i - 1] = g[m - 1]
      BY <1>5, <2>2
    <3> QED BY <1>4, <2>2, <3>1, <3>2
  <2>3. CASE i # m
    <3>1. i \in 0..(m - 1) /\ h[i] = g[i]
      BY <1>5, <2>3
    <3>2. g[i] = IF i = 0 THEN p ELSE Applied(g[i - 1], frames[i])
      BY <1>6, <3>1 DEF After
    <3>3. i # 0 => i - 1 \in 0..m /\ i - 1 # m
      BY <1>5, <2>3
    <3>4. i # 0 => h[i - 1] = g[i - 1]
      BY <3>3
    <3> QED BY <3>1, <3>2, <3>4
  <2> QED BY <2>2, <2>3
<1> HIDE DEF h
<1>8. After(h, p, frames, m)
  BY <1>7 DEF After
<1> QED BY <1>3, <1>8

\* The page that hears a batch applies one frame after the other.
LEMMA AppliedOneByOne ==
  ASSUME NEW p \in Pages, NEW frames \in Seq(Frames)
  PROVE  \E g \in [0..Len(frames) -> Pages] :
           /\ g[0] = p
           /\ \A i \in 1..Len(frames) : g[i] = Applied(g[i - 1], frames[i])
           /\ AppliedAll(p, frames) = g[Len(frames)]
<1> DEFINE g == CHOOSE g : After(g, p, frames, Len(frames))
<1>1. After(g, p, frames, Len(frames))
  BY AfterExists
<1>2. AppliedAll(p, frames) = g[Len(frames)]
  BY DEF AppliedAll, After
<1> HIDE DEF g
<1>3. /\ g[0] = p
      /\ \A i \in 1..Len(frames) : g[i] = Applied(g[i - 1], frames[i])
      /\ g = [i \in 0..Len(frames) |-> g[i]]
  BY <1>1 DEF After
<1>4. \A i \in 0..Len(frames) : g[i] \in Pages
  <2> DEFINE wrong == {i \in 0..Len(frames) : g[i] \notin Pages}
  <2>1. SUFFICES ASSUME wrong # {} PROVE FALSE
    OBVIOUS
  <2>2. wrong \subseteq Nat
    OBVIOUS
  <2>3. PICK m \in wrong : \A k \in wrong : m <= k
    BY <2>1, <2>2, LeastNumber
  <2>4. m # 0
    BY <1>3, <2>3
  <2>5. m \in 1..Len(frames) /\ m - 1 \in 0..Len(frames) /\ m - 1 \notin wrong /\ frames[m] \in Frames
    BY <2>3, <2>4
  <2>6. Applied(g[m - 1], frames[m]) \in Pages
    BY <2>5, AppliedTyped
  <2> QED BY <1>3, <2>3, <2>5, <2>6
<1>5. g \in [0..Len(frames) -> Pages]
  BY <1>3, <1>4
<1> QED BY <1>2, <1>3, <1>5

LEMMA AppliedAllTyped ==
  ASSUME NEW p \in Pages, NEW frames \in Seq(Frames)
  PROVE  AppliedAll(p, frames) \in Pages
<1>1. PICK g \in [0..Len(frames) -> Pages] : AppliedAll(p, frames) = g[Len(frames)]
  BY AppliedOneByOne
<1> QED BY <1>1

-----------------------------------------------------------------------------
(* Every step keeps the types.                                             *)

LEMMA InitTyped == Init => TypeOK
<1> SUFFICES ASSUME Init PROVE TypeOK
  OBVIOUS
<1>1. room \in Rooms /\ stream \in Streams
  BY DEF Init, Rooms, Streams, Phases
<1>2. seats \in [Clients -> Seats]
  BY DEF Init, Seats
<1>3. up \in [Clients -> Seq(Requests)] /\ down \in [Clients -> Seq(Messages)]
  BY ShortSequences DEF Init
<1>4. NewPage \in Pages
  BY DEF NewPage, Pages, Phases
<1>5. pages \in [Clients -> Pages]
  BY <1>4 DEF Init
<1>6. published \in Seq(Seq(Nat)) /\ skipped \subseteq Clients /\ moves \in Nat
  BY DEF Init
<1> QED BY <1>1, <1>2, <1>3, <1>5, <1>6 DEF TypeOK

\* What the host publishes are scenes.
LEMMA PublishesTyped ==
  ASSUME TypeOK, NEW t \in Streams, Publishes(t)
  PROVE  published' \in Seq(Seq(Nat))
<1>1. published \in Seq(Seq(Nat)) /\ t.previous \in Nat
  BY DEF TypeOK, Streams
<1>2. \A r \in DOMAIN published : Append(published[r], t.previous) \in Seq(Nat)
  BY <1>1
<1>3. ASSUME NEW r PROVE [published EXCEPT ![r] = Append(@, t.previous)] \in Seq(Seq(Nat))
  <2>1. published \in [1..Len(published) -> Seq(Nat)] /\ Len(published) \in Nat
    BY <1>1
  <2>2. [published EXCEPT ![r] = Append(@, t.previous)] \in [1..Len(published) -> Seq(Nat)]
    BY <1>2, <2>1
  <2> QED BY <2>1, <2>2
<1> QED BY <1>1, <1>3 DEF Publishes

\* Nothing is built before the first round, and a seat's scene is a scene.
LEMMA HandedTyped ==
  ASSUME room \in Rooms, NEW w \in Handed
  PROVE  w \in Nat
BY DEF Handed, Rooms, Built

LEMMA EventsTyped ==
  ASSUME stream \in Streams, NEW events \in {0, 1}
  PROVE  /\ [stream EXCEPT !.cursor = @ + events] \in Streams
         /\ [stream EXCEPT !.cursor = @ + events].seq = stream.seq
         /\ [stream EXCEPT !.cursor = @ + events].previous = stream.previous
         /\ [stream EXCEPT !.cursor = @ + events].sent = stream.sent
         /\ [stream EXCEPT !.cursor = @ + events].cursor = stream.cursor + events
         /\ [stream EXCEPT !.cursor = @ + events].frames = stream.frames
<1>1. [stream EXCEPT !.cursor = @ + events]
        = [seq |-> stream.seq, previous |-> stream.previous, sent |-> stream.sent,
           cursor |-> stream.cursor + events, frames |-> stream.frames]
  BY DEF Streams
<1>2. stream.cursor + events \in Nat
  BY DEF Streams
<1> QED BY <1>1, <1>2 DEF Streams

LEMMA HostMessagesTyped ==
  ASSUME room' \in Rooms
  PROVE  Welcome \in Messages /\ Lobby \in Messages /\ Control \in Messages
         /\ [type |-> "closed"] \in Messages
BY DEF Messages, Others, Lobbies, Welcome, Lobby, Control, Rooms

LEMMA JoinTyped ==
  ASSUME TypeOK, NEW c \in Clients, Join(c)
  PROVE  TypeOK'
<1>1. PICK w \in Handed, events \in {0, 1} :
        /\ room' = [room EXCEPT !.world = w]
        /\ LET s == Current([stream EXCEPT !.cursor = @ + events]) IN
             /\ stream' = IF Built THEN s ELSE stream
             /\ Publishes(stream')
             /\ seats' = [seats EXCEPT ![c] = [joined |-> TRUE, suspended |-> FALSE, watching |-> FALSE,
                                               baseline |-> stream'.seq, fulls |-> 0]]
             /\ down' = [down EXCEPT ![c] = <<Welcome, Lobby>> \o IF Built THEN <<Control, Full(s)>> ELSE <<>>]
  BY DEF Join
<1>2. room \in Rooms /\ stream \in Streams
  BY DEF TypeOK
<1>3. room' \in Rooms
  BY <1>1, <1>2, HandedTyped DEF Rooms
<1> DEFINE s0 == [stream EXCEPT !.cursor = @ + events]
<1> DEFINE s == Current(s0)
<1>4. s0 \in Streams
  BY <1>2, EventsTyped
<1> HIDE DEF s0
<1>5. s \in Streams /\ Full(s) \in Messages
  BY <1>3, <1>4, CurrentTyped DEF Messages
<1>6. /\ stream' = IF Built THEN s ELSE stream
      /\ seats' = [seats EXCEPT ![c] = [joined |-> TRUE, suspended |-> FALSE, watching |-> FALSE,
                                        baseline |-> stream'.seq, fulls |-> 0]]
      /\ down' = [down EXCEPT ![c] = <<Welcome, Lobby>> \o IF Built THEN <<Control, Full(s)>> ELSE <<>>]
  BY <1>1 DEF s0
<1> HIDE DEF s
<1>7. stream' \in Streams
  BY <1>2, <1>5, <1>6
<1>8. published' \in Seq(Seq(Nat))
  BY <1>1, <1>7, PublishesTyped
<1>9. seats' \in [Clients -> Seats]
  BY <1>6, <1>7 DEF TypeOK, Seats, Streams
<1>10. <<Welcome, Lobby>> \o (IF Built THEN <<Control, Full(s)>> ELSE <<>>) \in Seq(Messages)
  BY <1>3, <1>5, HostMessagesTyped
<1>11. down' \in [Clients -> Seq(Messages)]
  BY <1>6, <1>10 DEF TypeOK
<1>12. up' \in [Clients -> Seq(Requests)]
  BY ShortSequences DEF TypeOK, Join
<1>13. ASSUME NEW p \in Pages PROVE [p EXCEPT !.connected = TRUE] \in Pages
  BY DEF Pages
<1>14. pages' \in [Clients -> Pages]
  BY <1>13 DEF TypeOK, Join
<1>15. skipped' \subseteq Clients /\ moves' \in Nat
  BY DEF TypeOK, Join
<1> QED BY <1>3, <1>7, <1>8, <1>9, <1>11, <1>12, <1>14, <1>15 DEF TypeOK

LEMMA LinksTyped ==
  ASSUME TypeOK, NEW c \in Clients, LoseLink(c) \/ LinkLost(c)
  PROVE  TypeOK'
<1>1. ASSUME NEW p \in Pages PROVE [p EXCEPT !.connected = FALSE] \in Pages
  BY DEF Pages
<1>2. ASSUME NEW s \in Seats PROVE [s EXCEPT !.joined = FALSE] \in Seats
  BY DEF Seats
<1>3. CASE LoseLink(c)
  <2>1. pages' \in [Clients -> Pages]
    BY <1>1, <1>3 DEF TypeOK, LoseLink
  <2>2. down' \in [Clients -> Seq(Messages)]
    BY <1>3, ShortSequences DEF TypeOK, LoseLink
  <2> QED BY <1>3, <2>1, <2>2 DEF TypeOK, LoseLink
<1>4. CASE LinkLost(c)
  <2>1. seats' \in [Clients -> Seats]
    BY <1>2, <1>4 DEF TypeOK, LinkLost
  <2>2. room' \in Rooms
    <3>1. PICK w \in Handed : room' = [room EXCEPT !.world = w]
      BY <1>4 DEF LinkLost
    <3> QED BY <3>1, HandedTyped DEF TypeOK, Rooms
  <2>3. up' \in [Clients -> Seq(Requests)]
    BY <1>4, ShortSequences DEF TypeOK, LinkLost
  <2> QED BY <1>4, <2>1, <2>2, <2>3 DEF TypeOK, LinkLost
<1> QED BY <1>3, <1>4

\* What the player does changes the page and what it asks for.
PlayerDoes(c) == Hide(c) \/ Show(c) \/ Pause(c) \/ GetBack(c) \/ ArenaPrepared(c)

LEMMA PlayerTyped ==
  ASSUME TypeOK, NEW c \in Clients, PlayerDoes(c)
  PROVE  TypeOK'
<1>1. pages[c] \in Pages /\ pages \in [Clients -> Pages] /\ up \in [Clients -> Seq(Requests)]
  BY DEF TypeOK
<1>2. /\ UNCHANGED <<room, stream, seats, down, published, skipped>>
      /\ moves' \in Nat
  BY DEF TypeOK, PlayerDoes, Hide, Show, Pause, GetBack, ArenaPrepared, Move
<1>3. SUFFICES pages' \in [Clients -> Pages] /\ up' \in [Clients -> Seq(Requests)]
  BY <1>2 DEF TypeOK
<1>4. CASE Hide(c)
  <2>1. ASSUME NEW p \in Pages
        PROVE  [p EXCEPT !.hidden = TRUE] \in Pages /\ <<Suspend(p, FALSE)>> \in Seq(Requests)
    BY RequestsTyped, ShortSequences DEF Pages
  <2> QED BY <1>1, <1>4, <2>1, PageDoesTyped DEF Hide
<1>5. CASE Show(c)
  <2> DEFINE p == [pages[c] EXCEPT !.hidden = FALSE]
  <2> DEFINE q == [p EXCEPT !.requested = TRUE]
  <2>1. p \in Pages
    BY <1>1 DEF Pages
  <2>2. \/ PageDoes(c, p, <<>>)
        \/ PageDoes(c, p, <<Resume(p)>>)
        \/ PageDoes(c, q, <<Suspend(p, TRUE)>> \o RequestFull(p))
    BY <1>5, Zenon DEF Show
  <2> HIDE DEF p
  <2>3. q \in Pages
    BY <2>1 DEF Pages
  <2>4. /\ <<>> \in Seq(Requests)
        /\ <<Resume(p)>> \in Seq(Requests)
        /\ <<Suspend(p, TRUE)>> \in Seq(Requests)
    BY <2>1, RequestsTyped, ShortSequences
  <2>5. <<Suspend(p, TRUE)>> \o RequestFull(p) \in Seq(Requests)
    <3>1. RequestFull(p) \in Seq(Requests)
      BY <2>1, RequestsTyped
    <3> QED BY <2>4, <3>1, ConcatTyped
  <2> HIDE DEF q
  <2> QED BY <1>1, <2>1, <2>2, <2>3, <2>4, <2>5, PageDoesTyped
<1>6. CASE Pause(c)
  <2>1. ASSUME NEW p \in Pages
        PROVE  [p EXCEPT !.menu = TRUE] \in Pages /\ <<Suspend(p, TRUE)>> \in Seq(Requests)
    BY RequestsTyped, ShortSequences DEF Pages
  <2> QED BY <1>1, <1>6, <2>1, PageDoesTyped DEF Pause
<1>7. CASE GetBack(c)
  <2>1. ASSUME NEW p \in Pages
        PROVE  [p EXCEPT !.menu = FALSE] \in Pages /\ <<Resume(p)>> \in Seq(Requests)
    BY RequestsTyped, ShortSequences DEF Pages
  <2> QED BY <1>1, <1>7, <2>1, PageDoesTyped DEF GetBack
<1>8. CASE ArenaPrepared(c)
  <2> DEFINE p == [pages[c] EXCEPT !.preparing = 0]
  <2> DEFINE q == [p EXCEPT !.ready = p.round]
  <2>1. p \in Pages
    BY <1>1 DEF Pages
  <2>2. PageDoes(c, q, <<Resume(p)>>) \/ Prepare(c, p) \/ PageDoes(c, p, <<>>)
    BY <1>8, Zenon DEF ArenaPrepared
  <2> HIDE DEF p
  <2>3. q \in Pages
    BY <2>1 DEF Pages
  <2>4. <<>> \in Seq(Requests) /\ <<Resume(p)>> \in Seq(Requests)
    BY <2>1, RequestsTyped, ShortSequences
  <2> HIDE DEF q
  <2> QED BY <1>1, <2>1, <2>2, <2>3, <2>4, PageDoesTyped, PrepareTyped
<1> QED BY <1>4, <1>5, <1>6, <1>7, <1>8 DEF PlayerDoes

\* The page after a message that it does not take as a baseline or a batch.
PageAfter(p, m) ==
  CASE m.type = "welcome" -> [p EXCEPT !.needsFull = TRUE, !.requested = FALSE, !.control = FALSE]
    [] m.type = "lobby"   -> [p EXCEPT !.round = m.round, !.phase = m.phase,
                                       !.needsFull = @ \/ m.round # p.round,
                                       !.control = @ /\ m.round = p.round,
                                       !.menu = @ /\ m.phase # "results"]
    [] m.type = "control" -> [p EXCEPT !.control = @ \/ m.round = p.round]
    [] OTHER              -> p

\* The mirror after a baseline.
Rebased(p, m) ==
  [p EXCEPT !.requested = FALSE, !.needsFull = FALSE, !.mirrored = m.round, !.seq = m.seq,
            !.tick = m.tick, !.scene = m.scene, !.cursor = m.cursor]

LEMMA PageAfterTyped ==
  ASSUME NEW p \in Pages, NEW m \in Messages
  PROVE  /\ PageAfter(p, m) \in Pages
         /\ m.type = "full" => Rebased(p, m) \in Pages
         /\ \A cause \in {"outdated", "rejected"} :
              [p EXCEPT !.ended = cause, !.connected = FALSE] \in Pages
         /\ [p EXCEPT !.requested = TRUE] \in Pages
         /\ [p EXCEPT !.preparing = p.round] \in Pages
<1>1. PageAfter(p, m) \in Pages
  <2>1. CASE m.type = "welcome"
    BY <2>1 DEF PageAfter, Pages
  <2>2. CASE m.type = "lobby"
    <3>1. m.round \in Nat /\ m.phase \in Phases
      BY <2>2, MessageKinds DEF Lobbies
    <3> QED BY <2>2, <3>1 DEF PageAfter, Pages
  <2>3. CASE m.type = "control"
    BY <2>3 DEF PageAfter, Pages
  <2>4. CASE m.type \notin {"welcome", "lobby", "control"}
    BY <2>4 DEF PageAfter
  <2> QED BY <2>1, <2>2, <2>3, <2>4
<1>2. ASSUME m.type = "full" PROVE Rebased(p, m) \in Pages
  <2>1. m \in Fulls
    BY <1>2, MessageKinds
  <2> QED BY <2>1 DEF Rebased, Pages, Fulls
<1>3. ASSUME NEW cause \in {"outdated", "rejected"}
      PROVE  [p EXCEPT !.ended = cause, !.connected = FALSE] \in Pages
  BY DEF Pages
<1>4. [p EXCEPT !.requested = TRUE] \in Pages
  BY DEF Pages
<1>5. [p EXCEPT !.preparing = p.round] \in Pages
  BY DEF Pages
<1> QED BY <1>1, <1>2, <1>3, <1>4, <1>5

\* What a page makes of the message m: it gives up, takes m as a baseline of
\* its round or as a batch of its round, or only follows the lobby.
GivesUp(c, p, m) ==
  \E cause \in {"outdated", "rejected"} : PageDoes(c, [p EXCEPT !.ended = cause, !.connected = FALSE], <<>>)
TakesFull(c, p, m) ==
  /\ m.type = "full" /\ m.round = p.round
  /\ \/ PageDoes(c, Rebased(p, m), <<>>)
     \/ PageDoes(c, [Rebased(p, m) EXCEPT !.preparing = Rebased(p, m).round],
                 <<Suspend(Rebased(p, m), FALSE)>>)
TakesBatch(c, p, m) ==
  /\ m.type = "batch" /\ m.round = p.round
  /\ LET q == AppliedAll(p, m.frames) IN
     \/ PageDoes(c, q, <<>>)
     \/ PageDoes(c, [q EXCEPT !.requested = TRUE], RequestFull(q))
FollowsLobby(c, p, m) ==
  /\ m.type # "full" /\ (m.type = "batch" => m.round # p.round)
  /\ PageDoes(c, PageAfter(p, m), <<>>)

Takes(c, p, m) == GivesUp(c, p, m) \/ TakesFull(c, p, m) \/ TakesBatch(c, p, m) \/ FollowsLobby(c, p, m)

HearsBy(c, p, m) ==
  \/ m.type = "welcome" /\ HearWelcome(c, p)
  \/ m.type = "lobby" /\ HearLobby(c, p, m)
  \/ m.type = "control" /\ HearControl(c, p, m)
  \/ m.type = "full" /\ HearFull(c, p, m)
  \/ m.type = "batch" /\ HearBatch(c, p, m)
  \/ m.type = "closed" /\ Fail(c, p, "rejected")

LEMMA HearCases ==
  ASSUME NEW c \in Clients, Hear(c)
  PROVE  Takes(c, pages[c], Head(down[c]))
<1>0. HearsBy(c, pages[c], Head(down[c]))
  BY DEF Hear, HearsBy
<1>1. SUFFICES ASSUME NEW p, NEW m, HearsBy(c, p, m) PROVE Takes(c, p, m)
  BY <1>0
<1>2. CASE m.type = "welcome" /\ HearWelcome(c, p)
  BY <1>2 DEF HearWelcome, FollowsLobby, PageAfter, Takes
<1>3. CASE m.type = "lobby" /\ HearLobby(c, p, m)
  BY <1>3 DEF HearLobby, FollowsLobby, PageAfter, Takes
<1>4. CASE m.type = "control" /\ HearControl(c, p, m)
  BY <1>4 DEF HearControl, FollowsLobby, PageAfter, Takes
<1>5. CASE m.type = "full" /\ HearFull(c, p, m)
  <2>1. CASE m.round # p.round
    BY <1>5, <2>1 DEF HearFull, Fail, GivesUp, Takes
  <2>2. CASE m.round = p.round
    <3>1. Prepare(c, Rebased(p, m)) \/ PageDoes(c, Rebased(p, m), <<>>)
      BY <1>5, <2>2, Zenon DEF HearFull, Rebased
    <3> QED BY <1>5, <2>2, <3>1, Zenon DEF Prepare, TakesFull, Takes
  <2> QED BY <2>1, <2>2
<1>6. CASE m.type = "batch" /\ HearBatch(c, p, m)
  <2>1. CASE Len(m.frames) > MaxBatch
    BY <1>6, <2>1 DEF HearBatch, Fail, GivesUp, Takes
  <2>2. CASE ~(Len(m.frames) > MaxBatch) /\ m.round # p.round
    <3>1. PageAfter(p, m) = p
      BY <1>6 DEF PageAfter
    <3> QED BY <1>6, <2>2, <3>1 DEF HearBatch, FollowsLobby, Takes
  <2>3. CASE ~(Len(m.frames) > MaxBatch) /\ m.round = p.round
    BY <1>6, <2>3, Zenon DEF HearBatch, TakesBatch, Takes
  <2> QED BY <2>1, <2>2, <2>3
<1>7. CASE m.type = "closed" /\ Fail(c, p, "rejected")
  BY <1>7 DEF Fail, GivesUp, Takes
<1> QED BY <1>1, <1>2, <1>3, <1>4, <1>5, <1>6, <1>7 DEF HearsBy

LEMMA HearTyped ==
  ASSUME TypeOK, NEW c \in Clients, Hear(c)
  PROVE  TypeOK'
<1> DEFINE p == pages[c]
<1> DEFINE m == Head(down[c])
<1>1. /\ p \in Pages /\ pages \in [Clients -> Pages] /\ up \in [Clients -> Seq(Requests)]
      /\ m \in Messages
  BY DEF TypeOK, Hear
<1>2. GivesUp(c, p, m) \/ TakesFull(c, p, m) \/ TakesBatch(c, p, m) \/ FollowsLobby(c, p, m)
  BY HearCases, Zenon DEF Takes
<1>3. /\ UNCHANGED <<room, stream, seats, published, skipped, moves>>
      /\ down' = [down EXCEPT ![c] = IF pages'[c].connected THEN Tail(@) ELSE <<>>]
  BY DEF Hear
<1> HIDE DEF p, m
<1>4. <<>> \in Seq(Requests)
  BY ShortSequences
<1>5. pages' \in [Clients -> Pages] /\ up' \in [Clients -> Seq(Requests)]
  <2>1. CASE GivesUp(c, p, m)
    BY <1>1, <1>4, <2>1, PageAfterTyped, PageDoesTyped DEF GivesUp
  <2>2. CASE TakesFull(c, p, m)
    <3>1. Rebased(p, m) \in Pages
      BY <1>1, <2>2, PageAfterTyped DEF TakesFull
    <3>2. [Rebased(p, m) EXCEPT !.preparing = Rebased(p, m).round] \in Pages
      BY <1>1, <3>1, PageAfterTyped
    <3>3. <<Suspend(Rebased(p, m), FALSE)>> \in Seq(Requests)
      BY <3>1, RequestsTyped, ShortSequences
    <3> QED BY <1>1, <1>4, <2>2, <3>1, <3>2, <3>3, PageDoesTyped, Zenon DEF TakesFull
  <2>3. CASE TakesBatch(c, p, m)
    <3>1. m.frames \in Seq(Frames)
      BY <1>1, <2>3, MessageKinds DEF TakesBatch, BatchesSent
    <3>2. AppliedAll(p, m.frames) \in Pages
      BY <1>1, <3>1, AppliedAllTyped
    <3>3. [AppliedAll(p, m.frames) EXCEPT !.requested = TRUE] \in Pages
      BY <1>1, <3>2, PageAfterTyped
    <3>4. RequestFull(AppliedAll(p, m.frames)) \in Seq(Requests)
      BY <3>2, RequestsTyped
    <3> QED BY <1>1, <1>4, <2>3, <3>2, <3>3, <3>4, PageDoesTyped, Zenon DEF TakesBatch
  <2>4. CASE FollowsLobby(c, p, m)
    BY <1>1, <1>4, <2>4, PageAfterTyped, PageDoesTyped DEF FollowsLobby
  <2> QED BY <1>2, <2>1, <2>2, <2>3, <2>4
<1>6. down' \in [Clients -> Seq(Messages)]
  <2>1. down[c] # <<>> /\ down[c] \in Seq(Messages)
    BY DEF Hear, TypeOK
  <2>2. Tail(down[c]) \in Seq(Messages) /\ <<>> \in Seq(Messages)
    BY <2>1
  <2> QED BY <1>3, <2>2 DEF TypeOK
<1> QED BY <1>3, <1>5, <1>6 DEF TypeOK

-----------------------------------------------------------------------------
(* How a batch goes out.                                                   *)

LEMMA SubSeqTyped ==
  ASSUME NEW S, NEW q \in Seq(S), NEW i \in Nat \ {0}, NEW j \in Nat, j <= Len(q)
  PROVE  /\ SubSeq(q, i, j) \in Seq(S)
         /\ Len(SubSeq(q, i, j)) = IF i <= j THEN j - i + 1 ELSE 0
         /\ \A k \in 1..(j - i + 1) : SubSeq(q, i, j)[k] = q[i + k - 1]
OBVIOUS

\* The frames a client has not seen are some of the frames.
LEMMA UnseenTyped ==
  ASSUME NEW S, NEW frames \in Seq(S), NEW seat
  PROVE  Unseen(frames, seat) \in Seq(S)
<1> DEFINE shown == {i \in DOMAIN frames : frames[i].seq <= seat.baseline}
<1>1. shown \subseteq 1..Len(frames)
  OBVIOUS
<1>2. IsFiniteSet(1..Len(frames))
  BY FS_Interval
<1>3. Cardinality(shown) \in Nat
  BY <1>1, <1>2, FS_Subset, FS_CardinalityType
<1>4. Unseen(frames, seat) = SubSeq(frames, Cardinality(shown) + 1, Len(frames))
  BY DEF Unseen
<1> HIDE DEF shown
<1> QED BY <1>3, <1>4, SubSeqTyped

\* How many messages a batch makes, with n frames.
Chunks(n) == (n + MaxBatch - 1) \div MaxBatch

LEMMA ChunkCount ==
  ASSUME NEW n \in Nat
  PROVE  /\ MaxBatch \in Nat \ {0}
         /\ Chunks(n) \in Nat
         /\ n <= Chunks(n) * MaxBatch /\ Chunks(n) * MaxBatch < n + MaxBatch
<1>1. MaxBatch \in Nat \ {0}
  BY ConstantsAssumption DEF ConstantsAssumption
<1>2. ASSUME NEW a \in Nat, NEW b \in Nat \ {0}
      PROVE  a \div b \in Nat /\ b * (a \div b) <= a /\ a < b * (a \div b) + b
  OBVIOUS
<1> QED BY <1>1, <1>2 DEF Chunks

LEMMA ChunkBounds ==
  ASSUME NEW n \in Nat, NEW k \in 1..Chunks(n)
  PROVE  /\ (k - 1) * MaxBatch \in Nat
         /\ (k - 1) * MaxBatch < n
         /\ k * MaxBatch = (k - 1) * MaxBatch + MaxBatch
         /\ k < Chunks(n) => k * MaxBatch < n
<1>1. ASSUME NEW a \in Nat, NEW m \in Nat PROVE a * m \in Nat /\ (a + 1) * m = a * m + m
  OBVIOUS
<1>2. ASSUME NEW a \in Nat, NEW b \in Nat, NEW m \in Nat, a <= b PROVE a * m <= b * m
  <2>1. b - a \in Nat /\ b = a + (b - a)
    BY <1>2
  <2>2. ASSUME NEW d \in Nat PROVE (a + d) * m = a * m + d * m
    OBVIOUS
  <2>3. b * m = a * m + (b - a) * m
    BY <2>1, <2>2
  <2>4. a * m \in Nat /\ (b - a) * m \in Nat
    BY <1>1, <2>1
  <2> QED BY <2>3, <2>4
<1>3. MaxBatch \in Nat \ {0} /\ Chunks(n) \in Nat
  BY ChunkCount
<1>4. k - 1 \in Nat /\ (k - 1) + 1 = k /\ k <= Chunks(n)
  BY <1>3
<1>5. /\ (k - 1) * MaxBatch \in Nat /\ k * MaxBatch = (k - 1) * MaxBatch + MaxBatch
      /\ Chunks(n) * MaxBatch \in Nat
  BY <1>1, <1>3, <1>4
<1>6. k * MaxBatch <= Chunks(n) * MaxBatch
  BY <1>2, <1>3, <1>4
<1>7. (k - 1) * MaxBatch < n
  BY <1>3, <1>5, <1>6, ChunkCount
<1>8. ASSUME k < Chunks(n) PROVE k * MaxBatch < n
  <2>1. k + 1 <= Chunks(n) /\ k + 1 \in Nat /\ k \in Nat
    BY <1>3, <1>8
  <2>2. (k + 1) * MaxBatch <= Chunks(n) * MaxBatch
    BY <1>2, <1>3, <2>1
  <2>3. (k + 1) * MaxBatch = k * MaxBatch + MaxBatch /\ k * MaxBatch \in Nat
    BY <1>1, <1>3, <2>1
  <2> QED BY <1>3, <1>5, <2>2, <2>3, ChunkCount
<1> QED BY <1>5, <1>7, <1>8

\* The frames of the k-th message of a batch.
Chunk(frames, k) == SubSeq(frames, (k - 1) * MaxBatch + 1, Smaller(k * MaxBatch, Len(frames)))

\* Each message of a batch carries some of its frames; the first comes right
\* after those of the message before it.
LEMMA ChunkFrames ==
  ASSUME NEW S, NEW frames \in Seq(S), NEW k \in 1..Chunks(Len(frames))
  PROVE  LET first == (k - 1) * MaxBatch + 1
             last == Smaller(k * MaxBatch, Len(frames)) IN
         /\ first \in 1..Len(frames) /\ last \in first..Len(frames)
         /\ k = 1 => first = 1
         /\ k > 1 => first = Smaller((k - 1) * MaxBatch, Len(frames)) + 1
         /\ k = Chunks(Len(frames)) => last = Len(frames)
         /\ Chunk(frames, k) \in Seq(S) /\ Len(Chunk(frames, k)) = last - first + 1
         /\ \A j \in 1..(last - first + 1) : Chunk(frames, k)[j] = frames[first + j - 1]
<1> DEFINE n == Len(frames)
<1> DEFINE before == (k - 1) * MaxBatch
<1> DEFINE last == Smaller(k * MaxBatch, n)
<1>1. n \in Nat /\ MaxBatch \in Nat \ {0}
  BY ChunkCount
<1>2. before \in Nat /\ before < n /\ k * MaxBatch = before + MaxBatch
  BY ChunkBounds
<1>3. last \in (before + 1)..n
  BY <1>1, <1>2 DEF Smaller
<1>4. k = 1 => before = 0
  BY <1>1
<1>5. before = Smaller(before, n)
  BY <1>1, <1>2 DEF Smaller
<1>6. k = Chunks(n) => last = n
  BY <1>1, <1>2, ChunkCount DEF Smaller
<1>7. Chunk(frames, k) = SubSeq(frames, before + 1, last)
  BY DEF Chunk
<1> HIDE DEF before, last
<1>8. /\ Chunk(frames, k) \in Seq(S) /\ Len(Chunk(frames, k)) = last - (before + 1) + 1
      /\ \A j \in 1..(last - (before + 1) + 1) : Chunk(frames, k)[j] = frames[before + 1 + j - 1]
  BY <1>1, <1>2, <1>3, <1>7, SubSeqTyped, SMTT(30)
<1>9. ASSUME NEW first, first = before + 1, NEW end, end = last
      PROVE  /\ first \in 1..n /\ end \in first..n
             /\ k = 1 => first = 1
             /\ k > 1 => first = Smaller(before, n) + 1
             /\ k = Chunks(n) => end = n
             /\ Chunk(frames, k) \in Seq(S) /\ Len(Chunk(frames, k)) = end - first + 1
             /\ \A j \in 1..(end - first + 1) : Chunk(frames, k)[j] = frames[first + j - 1]
  <2>1. first \in 1..n /\ end \in first..n
    BY <1>1, <1>2, <1>3, <1>9
  <2>2. first = Smaller(before, n) + 1 /\ (k = 1 => first = 1)
    BY <1>4, <1>5, <1>9
  <2> QED BY <1>6, <1>8, <1>9, <2>1, <2>2
<1> QED BY <1>9 DEF before, last

\* What is sent of some frames.
LEMMA BatchesAre ==
  ASSUME NEW S, NEW frames \in Seq(S), NEW c
  PROVE  /\ Batches(c, frames) = [k \in 1..Chunks(Len(frames)) |-> Batch(c, Chunk(frames, k))]
         /\ DOMAIN Batches(c, frames) = 1..Chunks(Len(frames))
         /\ Len(Batches(c, frames)) = Chunks(Len(frames))
         /\ \A k \in 1..Chunks(Len(frames)) : /\ Batches(c, frames)[k] = Batch(c, Chunk(frames, k))
                                              /\ Chunk(frames, k) \in Seq(S)
<1>1. Batches(c, frames) = [k \in 1..Chunks(Len(frames)) |-> Batch(c, Chunk(frames, k))]
  BY DEF Batches, Chunks, Chunk
<1>2. Chunks(Len(frames)) \in Nat
  BY ChunkCount
<1>3. \A k \in 1..Chunks(Len(frames)) : Chunk(frames, k) \in Seq(S)
  BY ChunkFrames
<1> QED BY <1>1, <1>2, <1>3

LEMMA BatchesTyped ==
  ASSUME TypeOK, NEW frames \in Seq(Frames), NEW c
  PROVE  Batches(c, frames) \in Seq(Messages)
<1>1. \A k \in 1..Chunks(Len(frames)) : Batch(c, Chunk(frames, k)) \in Messages
  <2>1. SUFFICES ASSUME NEW k \in 1..Chunks(Len(frames)) PROVE Batch(c, Chunk(frames, k)) \in BatchesSent
    BY DEF Messages
  <2>2. Chunk(frames, k) \in Seq(Frames)
    BY BatchesAre
  <2> QED BY <2>2 DEF TypeOK, Rooms, Batch, BatchesSent
<1>2. Chunks(Len(frames)) \in Nat
  BY ChunkCount
<1> QED BY <1>1, <1>2, BatchesAre

-----------------------------------------------------------------------------
(* The host's steps keep the types.                                        *)

LEMMA FullLimitedTyped ==
  ASSUME TypeOK, room' \in Rooms, NEW c \in Clients, NEW seat \in Seats, SendFullLimited(c, seat)
  PROVE  /\ seats' \in [Clients -> Seats] /\ stream' \in Streams /\ published' \in Seq(Seq(Nat))
         /\ down' \in [Clients -> Seq(Messages)] /\ skipped' \subseteq Clients
<1>1. PICK fulls \in {1, seat.fulls + 1} :
        IF fulls > MaxFulls
          THEN /\ seats' = [seats EXCEPT ![c] = [seat EXCEPT !.joined = FALSE]]
               /\ down' = [down EXCEPT ![c] = Sent(c, <<[type |-> "closed"]>>)]
               /\ UNCHANGED <<stream, published, skipped>>
          ELSE LET s == Current(stream) IN
               /\ seats' = [seats EXCEPT ![c] = [seat EXCEPT !.fulls = fulls,
                                                             !.baseline = IF Built THEN s.seq ELSE @]]
               /\ stream' = IF Built THEN s ELSE stream
               /\ Publishes(stream')
               /\ down' = IF Built THEN [down EXCEPT ![c] = Sent(c, <<Full(s)>>)] ELSE down
               /\ skipped' = IF Built THEN skipped \ {c} ELSE skipped
  BY DEF SendFullLimited
<1>2. /\ stream \in Streams /\ published \in Seq(Seq(Nat)) /\ skipped \subseteq Clients
      /\ seats \in [Clients -> Seats] /\ down \in [Clients -> Seq(Messages)]
  BY DEF TypeOK
<1>3. CASE fulls > MaxFulls
  <2>1. [seat EXCEPT !.joined = FALSE] \in Seats
    BY DEF Seats
  <2>2. <<[type |-> "closed"]>> \in Seq(Messages)
    BY HostMessagesTyped, ShortSequences
  <2>3. Sent(c, <<[type |-> "closed"]>>) \in Seq(Messages)
    BY <1>2, <2>2, SentIsSent
  <2> QED BY <1>1, <1>2, <1>3, <2>1, <2>3
<1>4. CASE ~(fulls > MaxFulls)
  <2> DEFINE s == Current(stream)
  <2>1. s \in Streams /\ Full(s) \in Messages
    BY <1>2, CurrentTyped DEF Messages
  <2>2. /\ seats' = [seats EXCEPT ![c] = [seat EXCEPT !.fulls = fulls, !.baseline = IF Built THEN s.seq ELSE @]]
        /\ stream' = IF Built THEN s ELSE stream
        /\ Publishes(stream')
        /\ down' = IF Built THEN [down EXCEPT ![c] = Sent(c, <<Full(s)>>)] ELSE down
        /\ skipped' = IF Built THEN skipped \ {c} ELSE skipped
    BY <1>1, <1>4
  <2> HIDE DEF s
  <2>3. stream' \in Streams /\ skipped' \subseteq Clients
    BY <1>2, <2>1, <2>2
  <2>4. published' \in Seq(Seq(Nat))
    BY <2>2, <2>3, PublishesTyped
  <2>5. <<Full(s)>> \in Seq(Messages)
    BY <2>1, ShortSequences
  <2>6. Sent(c, <<Full(s)>>) \in Seq(Messages)
    BY <1>2, <2>5, SentIsSent
  <2>7. down' \in [Clients -> Seq(Messages)]
    BY <1>2, <2>2, <2>6
  <2>8. fulls \in Nat /\ s.seq \in Nat /\ seat.baseline \in Nat
    BY <2>1 DEF Seats, Streams
  <2>9. ASSUME NEW b \in Nat PROVE [seat EXCEPT !.fulls = fulls, !.baseline = b] \in Seats
    BY <2>8 DEF Seats
  <2>10. [seat EXCEPT !.fulls = fulls, !.baseline = IF Built THEN s.seq ELSE seat.baseline] \in Seats
    BY <2>8, <2>9
  <2>11. seats' \in [Clients -> Seats]
    BY <1>2, <2>2, <2>10
  <2> QED BY <2>3, <2>4, <2>7, <2>11
<1> QED BY <1>3, <1>4

LEMMA ReceiveTyped ==
  ASSUME TypeOK, NEW c \in Clients, Receive(c)
  PROVE  TypeOK'
<1> DEFINE m == Head(up[c])
<1>1. /\ room \in Rooms /\ stream \in Streams /\ published \in Seq(Seq(Nat)) /\ skipped \subseteq Clients
      /\ seats \in [Clients -> Seats] /\ down \in [Clients -> Seq(Messages)]
  BY DEF TypeOK
<1>2. up[c] # <<>> /\ up[c] \in Seq(Requests)
  BY DEF Receive, TypeOK
<1>3. m \in Requests /\ Tail(up[c]) \in Seq(Requests)
  BY <1>2
<1>4. up' \in [Clients -> Seq(Requests)] /\ pages' \in [Clients -> Pages] /\ moves' \in Nat
  BY <1>3 DEF Receive, TypeOK
<1>5. \/ UNCHANGED <<room, stream, seats, down, published, skipped>>
      \/ /\ \E w \in Handed : room' = [room EXCEPT !.world = w]
         /\ \/ m.type = "suspend" /\ HostSuspends(c, m)
            \/ SendFullLimited(c, [seats[c] EXCEPT !.suspended = FALSE, !.watching = FALSE])
            \/ SendFullLimited(c, seats[c])
  BY Zenon DEF Receive
<1> HIDE DEF m
<1>6. CASE UNCHANGED <<room, stream, seats, down, published, skipped>>
  BY <1>4, <1>6 DEF TypeOK
<1>7. CASE /\ \E w \in Handed : room' = [room EXCEPT !.world = w]
           /\ \/ m.type = "suspend" /\ HostSuspends(c, m)
              \/ SendFullLimited(c, [seats[c] EXCEPT !.suspended = FALSE, !.watching = FALSE])
              \/ SendFullLimited(c, seats[c])
  <2>1. room' \in Rooms
    <3>1. PICK w \in Handed : room' = [room EXCEPT !.world = w]
      BY <1>7
    <3> QED BY <1>1, <3>1, HandedTyped DEF Rooms
  <2>2. CASE m.type = "suspend" /\ HostSuspends(c, m)
    <3>1. m.watch \in BOOLEAN
      BY <1>3, <2>2, RequestKinds
    <3>2. seats' = [seats EXCEPT ![c] = [seats[c] EXCEPT !.suspended = TRUE, !.watching = m.watch]]
      BY <1>1, <2>2 DEF HostSuspends
    <3>3. ASSUME NEW s \in Seats PROVE [s EXCEPT !.suspended = TRUE, !.watching = m.watch] \in Seats
      BY <3>1 DEF Seats
    <3>4. seats' \in [Clients -> Seats]
      BY <1>1, <3>2, <3>3
    <3> QED BY <1>1, <1>4, <2>1, <2>2, <3>4 DEF TypeOK, HostSuspends
  <2>3. ASSUME NEW seat \in Seats, SendFullLimited(c, seat) PROVE TypeOK'
    BY <1>4, <2>1, <2>3, FullLimitedTyped DEF TypeOK
  <2>4. seats[c] \in Seats
    BY <1>1
  <2>5. ASSUME NEW s \in Seats PROVE [s EXCEPT !.suspended = FALSE, !.watching = FALSE] \in Seats
    BY DEF Seats
  <2> QED BY <1>7, <2>2, <2>3, <2>4, <2>5
<1> QED BY <1>5, <1>6, <1>7

\* The room in a new round, in a tick, at the end of a callback and of a round.
LEMMA RoomsTyped ==
  ASSUME NEW r \in Rooms
  PROVE  /\ [r EXCEPT !.phase = "playing", !.round = @ + 1, !.tick = 0, !.idle = 0, !.world = @ + 1] \in Rooms
         /\ [r EXCEPT !.tick = @ + 1, !.world = @ + 1, !.stepping = TRUE] \in Rooms
         /\ [r EXCEPT !.stepping = FALSE, !.idle = @ + IF r.stepping THEN 0 ELSE 1] \in Rooms
         /\ [r EXCEPT !.phase = "results"] \in Rooms
<1>a. /\ r.round + 1 \in Nat /\ r.world + 1 \in Nat /\ r.tick + 1 \in Nat
      /\ r.idle + (IF r.stepping THEN 0 ELSE 1) \in Nat
  BY DEF Rooms
<1>b. ASSUME NEW a \in Nat, NEW b \in Nat
      PROVE  /\ [r EXCEPT !.phase = "playing", !.round = a, !.tick = 0, !.idle = 0, !.world = b] \in Rooms
             /\ [r EXCEPT !.tick = a, !.world = b, !.stepping = TRUE] \in Rooms
             /\ [r EXCEPT !.stepping = FALSE, !.idle = a] \in Rooms
  <2>1. [r EXCEPT !.phase = "playing", !.round = a, !.tick = 0, !.idle = 0, !.world = b] \in Rooms
    BY DEF Rooms, Phases
  <2>2. [r EXCEPT !.tick = a, !.world = b, !.stepping = TRUE] \in Rooms
    BY DEF Rooms
  <2>3. [r EXCEPT !.stepping = FALSE, !.idle = a] \in Rooms
    BY DEF Rooms
  <2> QED BY <2>1, <2>2, <2>3
<1>1. [r EXCEPT !.phase = "playing", !.round = @ + 1, !.tick = 0, !.idle = 0, !.world = @ + 1] \in Rooms
  BY <1>a, <1>b
<1>2. [r EXCEPT !.tick = @ + 1, !.world = @ + 1, !.stepping = TRUE] \in Rooms
  BY <1>a, <1>b
<1>3. [r EXCEPT !.stepping = FALSE, !.idle = @ + IF r.stepping THEN 0 ELSE 1] \in Rooms
  BY <1>a, <1>b
<1>4. [r EXCEPT !.phase = "results"] \in Rooms
  BY DEF Rooms, Phases
<1> QED BY <1>1, <1>2, <1>3, <1>4

LEMMA StartTyped ==
  ASSUME TypeOK, Start
  PROVE  TypeOK'
<1>1. /\ room \in Rooms /\ stream \in Streams /\ published \in Seq(Seq(Nat)) /\ skipped \subseteq Clients
      /\ seats \in [Clients -> Seats] /\ down \in [Clients -> Seq(Messages)]
  BY DEF TypeOK
<1>2. room' \in Rooms
  BY <1>1, RoomsTyped DEF Start
<1>3. stream' \in Streams
  <2>1. stream' = [seq |-> 0, previous |-> room'.world, sent |-> 0, cursor |-> 0, frames |-> <<>>]
    BY DEF Start
  <2>2. room'.world \in Nat /\ <<>> \in Seq(Frames)
    BY <1>2 DEF Rooms
  <2> QED BY <2>1, <2>2 DEF Streams
<1>4. Full(stream') \in Messages
  BY <1>2, <1>3 DEF Full, Messages, Fulls, Rooms, Streams
<1>5. <<Lobby, Control, Full(stream')>> \in Seq(Messages)
  BY <1>2, <1>4, HostMessagesTyped
<1>6. \A c \in Clients : Sent(c, <<Lobby, Control, Full(stream')>>) \in Seq(Messages)
  BY <1>1, <1>5, SentIsSent
<1>7. down' \in [Clients -> Seq(Messages)]
  BY <1>1, <1>6 DEF Start
<1>8. ASSUME NEW s \in Seats PROVE [s EXCEPT !.baseline = 0] \in Seats
  BY DEF Seats
<1>9. seats' \in [Clients -> Seats]
  BY <1>1, <1>8 DEF Start
<1>10. published' \in Seq(Seq(Nat))
  <2>1. <<room'.world>> \in Seq(Nat)
    BY <1>2 DEF Rooms
  <2> QED BY <1>1, <2>1 DEF Start
<1> QED BY <1>1, <1>2, <1>3, <1>7, <1>9, <1>10 DEF TypeOK, Start

LEMMA StepTyped ==
  ASSUME TypeOK, Step
  PROVE  TypeOK'
<1>1. room \in Rooms /\ stream \in Streams
  BY DEF TypeOK
<1>2. room' \in Rooms
  BY <1>1, RoomsTyped DEF Step
<1>3. PICK events \in {0, 1} : LET s == [stream EXCEPT !.cursor = @ + events] IN
        stream' = Captured(s) \/ stream' = s
  BY DEF Step
<1>4. stream' \in Streams
  BY <1>1, <1>2, <1>3, EventsTyped, CapturedTyped
<1>5. Publishes(stream')
  BY DEF Step
<1>6. published' \in Seq(Seq(Nat))
  BY <1>4, <1>5, PublishesTyped
<1> QED BY <1>2, <1>4, <1>6 DEF TypeOK, Step, links

LEMMA CompleteTyped ==
  ASSUME NEW s \in Streams, room' \in Rooms
  PROVE  Complete(s) \in Streams /\ (Complete(s) = s \/ Complete(s) = Captured(s))
BY CapturedTyped DEF Complete

LEMMA BroadcastTyped ==
  ASSUME TypeOK, room' \in Rooms, NEW more \in Seq(Messages), Broadcast(more)
  PROVE  /\ stream' \in Streams /\ published' \in Seq(Seq(Nat))
         /\ down' \in [Clients -> Seq(Messages)] /\ skipped' \subseteq Clients
<1> DEFINE s == Complete(stream)
<1>1. s \in Streams
  BY CompleteTyped DEF TypeOK
<1>2. /\ stream' = [s EXCEPT !.frames = <<>>]
      /\ Publishes(s)
      /\ down' = [c \in Clients |->
                    IF c \in Streamed THEN Sent(c, Batches(c, Unseen(s.frames, seats[c])) \o more)
                    ELSE IF c \in Joined THEN Sent(c, more) ELSE down[c]]
      /\ skipped' = skipped \cup (Clients \ Streamed)
  BY DEF Broadcast
<1> HIDE DEF s
<1>3. stream' \in Streams
  BY <1>1, <1>2, ShortSequences DEF Streams
<1>4. published' \in Seq(Seq(Nat))
  BY <1>1, <1>2, PublishesTyped
<1>5. ASSUME NEW c \in Clients
      PROVE  /\ Sent(c, Batches(c, Unseen(s.frames, seats[c])) \o more) \in Seq(Messages)
             /\ Sent(c, more) \in Seq(Messages) /\ down[c] \in Seq(Messages)
  <2>1. s.frames \in Seq(Frames)
    BY <1>1 DEF Streams
  <2>2. Batches(c, Unseen(s.frames, seats[c])) \in Seq(Messages)
    BY <2>1, UnseenTyped, BatchesTyped
  <2>3. Batches(c, Unseen(s.frames, seats[c])) \o more \in Seq(Messages)
    BY <2>2, ConcatTyped
  <2>4. down[c] \in Seq(Messages)
    BY DEF TypeOK
  <2> QED BY <2>3, <2>4, SentIsSent
<1>6. down' \in [Clients -> Seq(Messages)]
  BY <1>2, <1>5
<1>7. skipped' \subseteq Clients
  BY <1>2 DEF TypeOK
<1> QED BY <1>3, <1>4, <1>6, <1>7

LEMMA CallbackTyped ==
  ASSUME TypeOK, EndCallback \/ Finish
  PROVE  TypeOK'
<1>1. CASE EndCallback
  <2>1. room' \in Rooms
    BY <1>1, RoomsTyped DEF TypeOK, EndCallback
  <2>2. <<>> \in Seq(Messages) /\ Broadcast(<<>>)
    BY <1>1 DEF EndCallback
  <2> QED BY <1>1, <2>1, <2>2, BroadcastTyped DEF TypeOK, EndCallback
<1>2. CASE Finish
  <2>1. room' \in Rooms
    BY <1>2, RoomsTyped DEF TypeOK, Finish
  <2>2. <<Lobby>> \in Seq(Messages) /\ Broadcast(<<Lobby>>)
    BY <1>2, <2>1, HostMessagesTyped, ShortSequences DEF Finish
  <2> QED BY <1>2, <2>1, <2>2, BroadcastTyped DEF TypeOK, Finish
<1> QED BY <1>1, <1>2

LEMMA NextTyped == TypeOK /\ [Next]_vars => TypeOK'
<1> SUFFICES ASSUME TypeOK, [Next]_vars PROVE TypeOK'
  OBVIOUS
<1>1. CASE UNCHANGED vars
  BY <1>1 DEF TypeOK, vars, links
<1>2. CASE Next
  <2>1. ASSUME NEW c \in Clients,
               Join(c) \/ LoseLink(c) \/ LinkLost(c) \/ PlayerDoes(c) \/ Hear(c) \/ Receive(c)
        PROVE  TypeOK'
    BY <2>1, JoinTyped, LinksTyped, PlayerTyped, HearTyped, ReceiveTyped
  <2> QED BY <1>2, <2>1, StartTyped, StepTyped, CallbackTyped DEF Next, PlayerDoes
<1> QED BY <1>1, <1>2

\* Whatever the clients and bounds, the stream's state has its types: every frame and message is
\* what its readers take it for.
THEOREM TypeCorrect == Spec => []TypeOK
<1>1. Init => TypeOK
  BY InitTyped
<1>2. TypeOK /\ [Next]_vars => TypeOK'
  BY NextTyped
<1> QED BY <1>1, <1>2, PTL DEF Spec

-----------------------------------------------------------------------------
(* What is published is what frames, messages and mirrors show.            *)

\* The frames of the round r: each leads from one published scene to the next.
FramesOf(pub, r) ==
  {f \in Frames : /\ r \in DOMAIN pub /\ f.seq \in DOMAIN pub[r] /\ f.seq + 1 \in DOMAIN pub[r]
                  /\ f.base = pub[r][f.seq] /\ f.scene = pub[r][f.seq + 1]}

\* The number seq of the round r has the scene scene.
Shows(pub, r, seq, scene) ==
  /\ r \in DOMAIN pub /\ seq + 1 \in DOMAIN pub[r] /\ scene = pub[r][seq + 1]

\* The messages that say nothing else than what is published.
MessagesOf(pub) ==
  {m \in Messages : /\ m.type = "lobby" => m.round <= Len(pub)
                    /\ m.type = "full" => Shows(pub, m.round, m.seq, m.scene)
                    /\ m.type = "batch" => m.frames \in Seq(FramesOf(pub, m.round))}

\* The last scene published is the stream's, and so are the frames to be sent.
StreamOf(s, pub) ==
  pub # <<>> =>
    /\ Len(pub[Len(pub)]) = s.seq + 1 /\ Shows(pub, Len(pub), s.seq, s.previous)
    /\ s.frames \in Seq(FramesOf(pub, Len(pub)))

\* m may come before n: lobbies tell of later and later rounds, and a
\* baseline is of no earlier scene of its round than what came before it.
Precedes(m, n) ==
  /\ (m.type = "lobby" /\ n.type = "lobby") => m.round <= n.round
  /\ (m.type = "full" /\ n.type = "full" /\ m.round = n.round) => m.seq <= n.seq
  /\ (m.type = "batch" /\ n.type = "full" /\ m.round = n.round) =>
       \A j \in 1..Len(m.frames) : m.frames[j].seq <= n.seq

Ordered(q) == \A i, j \in 1..Len(q) : i < j => Precedes(q[i], q[j])

\* The message m takes the page p back to no earlier round or scene.
Ahead(p, m) ==
  /\ m.type = "lobby" => p.round <= m.round
  /\ (m.type = "full" /\ m.round = p.mirrored) => p.seq <= m.seq

\* The mirror of the page p shows what is published.
PageOf(p, pub) ==
  /\ p.mirrored <= p.round /\ p.round <= Len(pub)
  /\ IF p.mirrored = 0 THEN p.seq = 0 /\ p.scene = 0 /\ p.needsFull
     ELSE Shows(pub, p.mirrored, p.seq, p.scene)
  /\ ~p.needsFull => p.mirrored = p.round

QueueOf(p, q, pub) ==
  /\ q \in Seq(MessagesOf(pub)) /\ Ordered(q)
  /\ \A i \in 1..Len(q) : Ahead(p, q[i])

FollowInv ==
  /\ room.round = Len(published) /\ (room.phase = "playing" => Built)
  /\ StreamOf(stream, published)
  /\ \A c \in Clients : PageOf(pages[c], published) /\ QueueOf(pages[c], down[c], published)

\* What is published stays.
Grows(pub, pub2) ==
  /\ Len(pub) <= Len(pub2)
  /\ \A r \in DOMAIN pub : \A n \in DOMAIN pub[r] : n \in DOMAIN pub2[r] /\ pub2[r][n] = pub[r][n]

LEMMA GrowsFacts ==
  ASSUME NEW pub \in Seq(Seq(Nat)), NEW pub2 \in Seq(Seq(Nat)), Grows(pub, pub2)
  PROVE  /\ \A r, n, x : Shows(pub, r, n, x) => Shows(pub2, r, n, x)
         /\ \A r : FramesOf(pub, r) \subseteq FramesOf(pub2, r)
         /\ MessagesOf(pub) \subseteq MessagesOf(pub2)
         /\ \A p \in Pages : PageOf(p, pub) => PageOf(p, pub2)
<1>1. DOMAIN pub \subseteq DOMAIN pub2
  BY DEF Grows
<1>2. \A r, n, x : Shows(pub, r, n, x) => Shows(pub2, r, n, x)
  BY <1>1 DEF Shows, Grows
<1>3. \A r : FramesOf(pub, r) \subseteq FramesOf(pub2, r)
  BY <1>1 DEF FramesOf, Grows
<1>4. ASSUME NEW m \in MessagesOf(pub) PROVE m \in MessagesOf(pub2)
  <2>1. m \in Messages
    BY DEF MessagesOf
  <2>2. m.type = "lobby" => m.round <= Len(pub2)
    <3>1. SUFFICES ASSUME m.type = "lobby" PROVE m.round <= Len(pub2)
      OBVIOUS
    <3>2. m.round \in Nat
      BY <2>1, <3>1, MessageKinds DEF Lobbies
    <3>3. m.round <= Len(pub)
      BY <3>1 DEF MessagesOf
    <3> QED BY <3>2, <3>3 DEF Grows
  <2>3. m.type = "full" => Shows(pub2, m.round, m.seq, m.scene)
    BY <1>2 DEF MessagesOf
  <2>4. m.type = "batch" => m.frames \in Seq(FramesOf(pub2, m.round))
    <3>1. SUFFICES ASSUME m.type = "batch" PROVE m.frames \in Seq(FramesOf(pub2, m.round))
      OBVIOUS
    <3>2. m.frames \in Seq(FramesOf(pub, m.round))
      BY <3>1 DEF MessagesOf
    <3> QED BY <1>3, <3>2
  <2> QED BY <2>1, <2>2, <2>3, <2>4 DEF MessagesOf
<1>5. ASSUME NEW p \in Pages, PageOf(p, pub) PROVE PageOf(p, pub2)
  <2>1. p.round \in Nat /\ Len(pub) \in Nat /\ Len(pub2) \in Nat
    BY DEF Pages
  <2> QED BY <1>2, <1>5, <2>1 DEF PageOf, Grows
<1> QED BY <1>2, <1>3, <1>4, <1>5

LEMMA GrowsItself ==
  ASSUME NEW pub \in Seq(Seq(Nat))
  PROVE  Grows(pub, pub)
BY DEF Grows

\* A scene more in the last round.
LEMMA OneMoreScene ==
  ASSUME NEW pub \in Seq(Seq(Nat)), pub # <<>>, NEW x \in Nat,
         NEW pub2, pub2 = [pub EXCEPT ![Len(pub)] = Append(@, x)]
  PROVE  /\ pub2 \in Seq(Seq(Nat)) /\ Len(pub2) = Len(pub) /\ pub2 # <<>>
         /\ Len(pub) \in DOMAIN pub /\ pub2[Len(pub)] = Append(pub[Len(pub)], x)
         /\ Grows(pub, pub2)
<1>1. Len(pub) \in DOMAIN pub /\ pub[Len(pub)] \in Seq(Nat)
  OBVIOUS
<1>2. Append(pub[Len(pub)], x) \in Seq(Nat)
  BY <1>1
<1>3. pub2 \in Seq(Seq(Nat)) /\ Len(pub2) = Len(pub) /\ pub2 # <<>>
  BY <1>1, <1>2
<1>4. pub2[Len(pub)] = Append(pub[Len(pub)], x)
  BY <1>1
<1>5. \A r \in DOMAIN pub : r # Len(pub) => pub2[r] = pub[r]
  OBVIOUS
<1>6. Grows(pub, pub2)
  <2>1. ASSUME NEW r \in DOMAIN pub, NEW n \in DOMAIN pub[r]
        PROVE  n \in DOMAIN pub2[r] /\ pub2[r][n] = pub[r][n]
    <3>1. CASE r = Len(pub)
      BY <1>1, <1>4, <2>1, <3>1
    <3>2. CASE r # Len(pub)
      BY <1>5, <2>1, <3>2
    <3> QED BY <3>1, <3>2
  <2> QED BY <1>3, <2>1 DEF Grows
<1> QED BY <1>1, <1>3, <1>4, <1>6

\* How the stream goes on: it stays at its scene, or a frame leads to the next.
GoesOn(s, t) ==
  \/ t.seq = s.seq /\ t.previous = s.previous /\ (t.frames = s.frames \/ t.frames = <<>>)
  \/ \E f \in Frames :
       /\ t.seq = s.seq + 1 /\ f.seq = s.seq + 1 /\ f.base = s.previous /\ f.scene = t.previous
       /\ t.frames = Append(s.frames, f) \/ t.frames = <<>>

LEMMA PublishedGrows ==
  ASSUME TypeOK, FollowInv, published # <<>>, NEW t \in Streams, GoesOn(stream, t), Publishes(t)
  PROVE  /\ StreamOf(t, published') /\ Grows(published, published') /\ Len(published') = Len(published)
         /\ published' # <<>>
         /\ \/ published' = published
            \/ published' = [published EXCEPT ![Len(published)] = Append(@, t.previous)]
<1> DEFINE r == Len(published)
<1>1. /\ published \in Seq(Seq(Nat)) /\ stream \in Streams /\ room.round = r
      /\ StreamOf(stream, published)
  BY DEF TypeOK, FollowInv
<1>2. stream.seq \in Nat /\ t.seq \in Nat /\ t.previous \in Nat
  BY <1>1 DEF Streams
<1>3. CASE t.seq = stream.seq /\ t.previous = stream.previous /\ (t.frames = stream.frames \/ t.frames = <<>>)
  <2>1. published' = published
    BY <1>2, <1>3 DEF Publishes
  <2>2. StreamOf(t, published)
    BY <1>1, <1>3, ShortSequences DEF StreamOf
  <2> QED BY <1>1, <2>1, <2>2, GrowsItself
<1>4. ASSUME NEW f \in Frames,
             t.seq = stream.seq + 1, f.seq = stream.seq + 1, f.base = stream.previous, f.scene = t.previous,
             t.frames = Append(stream.frames, f) \/ t.frames = <<>>
      PROVE  /\ StreamOf(t, published') /\ Grows(published, published') /\ Len(published') = r
             /\ published' # <<>> /\ published' = [published EXCEPT ![r] = Append(@, t.previous)]
  <2>1. published' = [published EXCEPT ![r] = Append(@, t.previous)]
    BY <1>1, <1>2, <1>4 DEF Publishes
  <2>2. /\ published' \in Seq(Seq(Nat)) /\ Len(published') = r /\ published' # <<>>
        /\ r \in DOMAIN published /\ published'[r] = Append(published[r], t.previous)
        /\ Grows(published, published')
    BY <1>1, <1>2, <2>1, OneMoreScene
  <2>3. /\ Len(published[r]) = stream.seq + 1 /\ stream.previous = published[r][stream.seq + 1]
        /\ stream.frames \in Seq(FramesOf(published, r)) /\ published[r] \in Seq(Nat)
    BY <1>1, <2>2 DEF StreamOf, Shows
  <2>a. ASSUME NEW q \in Seq(Nat), NEW n \in Nat, Len(q) = n + 1, NEW x \in Nat
        PROVE  /\ Len(Append(q, x)) = n + 2 /\ Append(q, x)[n + 2] = x /\ Append(q, x)[n + 1] = q[n + 1]
               /\ DOMAIN Append(q, x) = 1..(n + 2)
    BY <2>a
  <2> DEFINE q2 == published'[r]
  <2>4. /\ Len(q2) = stream.seq + 2 /\ q2[stream.seq + 2] = t.previous
        /\ q2[stream.seq + 1] = stream.previous /\ DOMAIN q2 = 1..(stream.seq + 2)
    <3> DEFINE q1 == published[r]
    <3>1. q2 = Append(q1, t.previous) /\ Len(q1) = stream.seq + 1 /\ q1 \in Seq(Nat)
          /\ q1[stream.seq + 1] = stream.previous
      BY <2>2, <2>3
    <3> HIDE DEF q1, q2
    <3> QED BY <1>2, <2>a, <3>1
  <2>b. r \in DOMAIN published'
    BY <2>2
  <2> HIDE DEF q2
  <2>5. f \in FramesOf(published', r)
    <3>1. f.seq = stream.seq + 1 /\ f.seq + 1 = stream.seq + 2
      BY <1>2, <1>4
    <3>2. f.seq \in DOMAIN q2 /\ f.seq + 1 \in DOMAIN q2 /\ f.base = q2[f.seq] /\ f.scene = q2[f.seq + 1]
      BY <1>2, <1>4, <2>4, <3>1
    <3> QED BY <2>b, <3>2 DEF FramesOf, q2
  <2>6. stream.frames \in Seq(FramesOf(published', r))
    <3>1. FramesOf(published, r) \subseteq FramesOf(published', r)
      BY <1>1, <2>2, GrowsFacts
    <3> QED BY <2>3, <3>1
  <2>7. t.frames \in Seq(FramesOf(published', r))
    <3>1. ASSUME NEW S, NEW q \in Seq(S), NEW x \in S PROVE Append(q, x) \in Seq(S) /\ <<>> \in Seq(S)
      OBVIOUS
    <3> QED BY <1>4, <2>5, <2>6, <3>1
  <2>8. Shows(published', r, t.seq, t.previous) /\ Len(published'[r]) = t.seq + 1
    <3>1. t.seq + 1 = stream.seq + 2
      BY <1>2, <1>4
    <3>2. t.seq + 1 \in DOMAIN q2 /\ q2[t.seq + 1] = t.previous /\ Len(q2) = t.seq + 1
      BY <1>2, <2>4, <3>1
    <3> QED BY <2>b, <3>2 DEF Shows, q2
  <2> QED BY <2>1, <2>2, <2>7, <2>8 DEF StreamOf
<1> QED BY <1>3, <1>4 DEF GoesOn

LEMMA CapturedGoesOn ==
  ASSUME NEW s \in Streams, room' \in Rooms
  PROVE  /\ GoesOn(s, s) /\ GoesOn(s, Captured(s)) /\ GoesOn(s, Current(s)) /\ GoesOn(s, Complete(s))
         /\ GoesOn(s, [Complete(s) EXCEPT !.frames = <<>>])
<1> DEFINE f == NewFrame(s)
<1>1. f \in Frames /\ Captured(s) \in Streams
  BY CapturedTyped
<1>2. f.seq = s.seq + 1 /\ f.base = s.previous /\ f.scene = room'.world
  BY DEF NewFrame
<1>3. ASSUME NEW q, NEW t,
             t = [seq |-> s.seq + 1, previous |-> room'.world, sent |-> s.cursor, cursor |-> s.cursor, frames |-> q]
      PROVE  t.seq = s.seq + 1 /\ t.previous = room'.world /\ t.frames = q
  BY <1>3
<1>4. /\ Captured(s).seq = s.seq + 1 /\ Captured(s).previous = room'.world
      /\ Captured(s).frames = Append(s.frames, f)
  BY <1>3, CapturedTyped
<1> HIDE DEF f
<1>5. ASSUME NEW t \in Streams
      PROVE  LET u == [t EXCEPT !.frames = <<>>] IN
             u.seq = t.seq /\ u.previous = t.previous /\ u.frames = <<>>
  BY DEF Streams
<1>6. GoesOn(s, s) /\ GoesOn(s, [s EXCEPT !.frames = <<>>])
  BY <1>5 DEF GoesOn
<1>7. GoesOn(s, Captured(s)) /\ GoesOn(s, [Captured(s) EXCEPT !.frames = <<>>])
  BY <1>1, <1>2, <1>4, <1>5 DEF GoesOn
<1> QED BY <1>6, <1>7 DEF Current, Complete

\* n tells of the last round and, as a baseline, of its last scene.
Newest(n, pub) ==
  /\ n.type = "lobby" => n.round = Len(pub)
  /\ n.type = "full" => n.round = Len(pub) /\ n.seq + 1 = Len(pub[n.round])

LEMMA LastIndex ==
  ASSUME NEW S, NEW q \in Seq(S), NEW i \in Nat, NEW k \in Nat, i + 1 \in DOMAIN q, k + 1 = Len(q)
  PROVE  i <= k
<1>1. i + 1 <= Len(q) /\ Len(q) \in Nat
  OBVIOUS
<1> QED BY <1>1

\* Whatever is newest may come after any message and to any page.
LEMMA NewestComesLast ==
  ASSUME NEW pub \in Seq(Seq(Nat)), NEW m \in MessagesOf(pub), NEW n \in MessagesOf(pub), Newest(n, pub),
         NEW p \in Pages, PageOf(p, pub)
  PROVE  Precedes(m, n) /\ Ahead(p, n)
<1>1. m \in Messages /\ n \in Messages
  BY DEF MessagesOf
<1>2. (m.type = "lobby" /\ n.type = "lobby") => m.round <= n.round
  BY DEF MessagesOf, Newest
<1>3. ASSUME m.type = "full", n.type = "full", m.round = n.round PROVE m.seq <= n.seq
  <2>1. m.seq \in Nat /\ n.seq \in Nat
    BY <1>1, <1>3, MessageKinds DEF Fulls
  <2>2. n.round \in DOMAIN pub /\ m.seq + 1 \in DOMAIN pub[n.round]
    BY <1>3 DEF MessagesOf, Shows
  <2>3. pub[n.round] \in Seq(Nat)
    BY <2>2
  <2>4. n.seq + 1 = Len(pub[n.round])
    BY <1>3 DEF Newest
  <2>5. m.round = n.round
    BY <1>3
  <2> QED BY <2>1, <2>2, <2>3, <2>4, <2>5, LastIndex
<1>4. ASSUME m.type = "batch", n.type = "full", m.round = n.round, NEW j \in 1..Len(m.frames)
      PROVE  m.frames[j].seq <= n.seq
  <2>1. m.frames[j] \in FramesOf(pub, n.round)
    BY <1>4 DEF MessagesOf
  <2>2. /\ n.round \in DOMAIN pub /\ m.frames[j].seq \in Nat /\ n.seq \in Nat
        /\ m.frames[j].seq + 1 \in DOMAIN pub[n.round]
    BY <1>1, <1>4, <2>1, MessageKinds DEF FramesOf, Frames, Fulls
  <2>3. pub[n.round] \in Seq(Nat)
    BY <2>2
  <2>4. n.seq + 1 = Len(pub[n.round])
    BY <1>4 DEF Newest
  <2> QED BY <2>2, <2>3, <2>4, LastIndex
<1>5. n.type = "lobby" => p.round <= n.round
  BY DEF PageOf, Newest
<1>6. ASSUME n.type = "full", n.round = p.mirrored PROVE p.seq <= n.seq
  <2>1. n.round \in Nat /\ n.seq \in Nat /\ p.seq \in Nat /\ n.round \in DOMAIN pub
    BY <1>1, <1>6, MessageKinds DEF Fulls, Pages, MessagesOf, Shows
  <2>2. n.round # 0
    BY <2>1
  <2>3. p.seq + 1 \in DOMAIN pub[n.round] /\ pub[n.round] \in Seq(Nat)
    BY <1>6, <2>1, <2>2 DEF PageOf, Shows
  <2> QED BY <1>6, <2>1, <2>3 DEF Newest
<1> QED BY <1>2, <1>3, <1>4, <1>5, <1>6 DEF Precedes, Ahead

\* What is newest may be sent after all there is.
LEMMA NewestMaySend ==
  ASSUME NEW pub \in Seq(Seq(Nat)), NEW p \in Pages, PageOf(p, pub), NEW q, QueueOf(p, q, pub),
         NEW more \in Seq(MessagesOf(pub)), \A i \in 1..Len(more) : Newest(more[i], pub)
  PROVE  QueueOf(p, q \o more, pub)
<1> DEFINE r == q \o more
<1>1. q \in Seq(MessagesOf(pub)) /\ Ordered(q) /\ \A i \in 1..Len(q) : Ahead(p, q[i])
  BY DEF QueueOf
<1>2. /\ r \in Seq(MessagesOf(pub)) /\ Len(r) = Len(q) + Len(more)
      /\ \A i \in 1..Len(q) : r[i] = q[i]
      /\ \A i \in 1..Len(r) : i > Len(q) => i - Len(q) \in 1..Len(more) /\ r[i] = more[i - Len(q)]
      /\ Len(q) \in Nat
  BY <1>1
<1> HIDE DEF r
<1>3. \A i \in 1..Len(r) : i > Len(q) => Newest(r[i], pub)
  BY <1>2
<1>4. ASSUME NEW i \in 1..Len(r), NEW j \in 1..Len(r), i < j PROVE Precedes(r[i], r[j])
  <2>1. r[i] \in MessagesOf(pub) /\ r[j] \in MessagesOf(pub)
    BY <1>2
  <2>2. CASE j > Len(q)
    BY <1>3, <2>1, <2>2, NewestComesLast
  <2>3. CASE ~(j > Len(q))
    <3>1. i \in 1..Len(q) /\ j \in 1..Len(q)
      BY <1>2, <1>4, <2>3
    <3> QED BY <1>1, <1>2, <1>4, <3>1 DEF Ordered
  <2> QED BY <2>2, <2>3
<1>5. ASSUME NEW i \in 1..Len(r) PROVE Ahead(p, r[i])
  <2>1. r[i] \in MessagesOf(pub)
    BY <1>2
  <2>2. CASE i > Len(q)
    BY <1>3, <2>1, <2>2, NewestComesLast
  <2>3. CASE ~(i > Len(q))
    <3>1. i \in 1..Len(q)
      BY <1>2, <2>3
    <3> QED BY <1>1, <1>2, <3>1
  <2> QED BY <2>2, <2>3
<1> QED BY <1>2, <1>4, <1>5 DEF QueueOf, Ordered, r

LEMMA EmptyQueue ==
  ASSUME NEW p, NEW pub
  PROVE  QueueOf(p, <<>>, pub)
BY DEF QueueOf, Ordered

LEMMA QueueGrows ==
  ASSUME NEW pub \in Seq(Seq(Nat)), NEW pub2 \in Seq(Seq(Nat)), Grows(pub, pub2), NEW p, NEW q, QueueOf(p, q, pub)
  PROVE  QueueOf(p, q, pub2)
<1>1. MessagesOf(pub) \subseteq MessagesOf(pub2)
  BY GrowsFacts
<1> QED BY <1>1 DEF QueueOf

\* The pages p and q show the same.
SameMirror(p, q) ==
  /\ p.round = q.round /\ p.mirrored = q.mirrored /\ p.seq = q.seq /\ p.scene = q.scene
  /\ p.needsFull = q.needsFull

LEMMA SameMirrorFollows ==
  ASSUME NEW p, NEW q, SameMirror(p, q), NEW pub
  PROVE  /\ PageOf(p, pub) <=> PageOf(q, pub)
         /\ \A messages : QueueOf(p, messages, pub) <=> QueueOf(q, messages, pub)
BY DEF SameMirror, PageOf, QueueOf, Ahead

\* What the host does: it publishes scenes or nothing, and sends what is newest
\* and batches of frames, or drops what is on its way.
Sends(c, more) ==
  /\ more \in Seq(MessagesOf(published')) /\ \A i \in 1..Len(more) : Newest(more[i], published')
  /\ down'[c] \in {down[c], <<>>, more, down[c] \o more}

LEMMA HostKeepsFollowing ==
  ASSUME TypeOK, TypeOK', FollowInv,
         Grows(published, published'), StreamOf(stream', published'),
         room'.round = Len(published'), room'.phase = "playing" => room'.round > 0,
         \A c \in Clients : SameMirror(pages[c], pages'[c]) /\ \E more : Sends(c, more)
  PROVE  FollowInv'
<1>1. published \in Seq(Seq(Nat)) /\ published' \in Seq(Seq(Nat))
  BY DEF TypeOK
<1>2. ASSUME NEW c \in Clients
      PROVE  PageOf(pages'[c], published') /\ QueueOf(pages'[c], down'[c], published')
  <2>1. pages[c] \in Pages
    BY DEF TypeOK
  <2>2. PageOf(pages[c], published')
    BY <1>1, <2>1, GrowsFacts DEF FollowInv
  <2>3. QueueOf(pages[c], down[c], published')
    BY <1>1, QueueGrows DEF FollowInv
  <2>4. PICK more : Sends(c, more)
    OBVIOUS
  <2>5. more \in Seq(MessagesOf(published')) /\ \A i \in 1..Len(more) : Newest(more[i], published')
    BY <2>4 DEF Sends
  <2>6. QueueOf(pages[c], down[c] \o more, published')
    BY <1>1, <2>1, <2>2, <2>3, <2>5, NewestMaySend
  <2>7. QueueOf(pages[c], <<>>, published')
    BY EmptyQueue
  <2>8. QueueOf(pages[c], more, published')
    <3>1. QueueOf(pages[c], <<>> \o more, published')
      BY <1>1, <2>1, <2>2, <2>5, <2>7, NewestMaySend
    <3>2. <<>> \o more = more
      BY <2>5
    <3> QED BY <3>1, <3>2
  <2>9. QueueOf(pages[c], down'[c], published')
    BY <2>3, <2>4, <2>6, <2>7, <2>8 DEF Sends
  <2> QED BY <2>2, <2>9, SameMirrorFollows
<1> QED BY <1>2 DEF FollowInv, Built

\* What the mirrors show, as FollowedStream sees it, and its steps.
Views == [c \in Clients |-> [round |-> pages[c].mirrored, seq |-> pages[c].seq, scene |-> pages[c].scene]]
Follows == Followed!Next \/ UNCHANGED <<published, Views>>

LEMMA ViewsStay ==
  ASSUME \A c \in Clients : SameMirror(pages[c], pages'[c])
  PROVE  Views' = Views
BY DEF Views, SameMirror

LEMMA PublishingIsPublish ==
  ASSUME TypeOK, published # <<>>, \A c \in Clients : SameMirror(pages[c], pages'[c]),
         NEW x \in Nat, published' = [published EXCEPT ![Len(published)] = Append(@, x)]
  PROVE  Followed!Next
<1> DEFINE r == Len(published)
<1> DEFINE q == published[r]
<1>1. published \in Seq(Seq(Nat))
  BY DEF TypeOK
<1>2. /\ Len(published') = r /\ r \in DOMAIN published /\ published'[r] = Append(q, x)
      /\ q \in Seq(Nat)
  BY <1>1, OneMoreScene
<1>3. Len(Append(q, x)) = Len(q) + 1 /\ Append(q, x)[Len(q) + 1] = x
  BY <1>2
<1>4. Len(published'[r]) = Len(q) + 1 /\ published'[r][Len(q) + 1] = x
  BY <1>2, <1>3
<1>5. published' = [published EXCEPT ![r] = Append(@, published'[r][Len(q) + 1])]
  BY <1>4
<1>6. Views' = Views
  BY ViewsStay
<1>7. Followed!Publish
  BY <1>2, <1>4, <1>5, <1>6 DEF Followed!Publish, Views
<1> QED BY <1>7 DEF Followed!Next

\* The steps of the host that publish for a stream t that goes on.
LEMMA HostFollows ==
  ASSUME TypeOK, TypeOK', FollowInv, published # <<>>,
         NEW t \in Streams, GoesOn(stream, t), Publishes(t),
         stream' = t \/ stream' = [t EXCEPT !.frames = <<>>],
         room'.round = room.round,
         \A c \in Clients : SameMirror(pages[c], pages'[c]) /\ \E more : Sends(c, more)
  PROVE  FollowInv' /\ Follows
<1>1. /\ StreamOf(t, published') /\ Grows(published, published') /\ Len(published') = Len(published)
      /\ \/ published' = published
         \/ published' = [published EXCEPT ![Len(published)] = Append(@, t.previous)]
  BY PublishedGrows
<1>2. StreamOf(stream', published')
  <2>1. [t EXCEPT !.frames = <<>>].seq = t.seq /\ [t EXCEPT !.frames = <<>>].previous = t.previous
        /\ [t EXCEPT !.frames = <<>>].frames = <<>>
    BY DEF Streams
  <2> QED BY <1>1, <2>1, ShortSequences DEF StreamOf
<1>3. room'.round = Len(published') /\ Len(published) \in Nat /\ Len(published) # 0
  BY <1>1 DEF FollowInv, TypeOK
<1>4. FollowInv'
  BY <1>1, <1>2, <1>3, HostKeepsFollowing
<1>5. CASE published' = published
  BY <1>4, <1>5, ViewsStay DEF Follows
<1>6. CASE published' = [published EXCEPT ![Len(published)] = Append(@, t.previous)]
  <2>1. t.previous \in Nat
    BY DEF Streams
  <2> QED BY <1>4, <1>6, <2>1, PublishingIsPublish DEF Follows
<1> QED BY <1>1, <1>4, <1>5, <1>6

\* The steps that publish nothing and leave the stream alone.
LEMMA QuietFollows ==
  ASSUME TypeOK, TypeOK', FollowInv, UNCHANGED <<stream, published>>, room'.round = room.round,
         room'.phase = "playing" => room.phase = "playing",
         \A c \in Clients : SameMirror(pages[c], pages'[c]) /\ \E more : Sends(c, more)
  PROVE  FollowInv' /\ Follows
<1>1. published \in Seq(Seq(Nat))
  BY DEF TypeOK
<1>2. Grows(published, published')
  BY <1>1, GrowsItself
<1>3. /\ StreamOf(stream', published') /\ room'.round = Len(published')
      /\ room'.phase = "playing" => room'.round > 0
  BY DEF FollowInv, Built
<1>4. FollowInv'
  BY <1>2, <1>3, HostKeepsFollowing
<1> QED BY <1>4, ViewsStay DEF Follows

\* Nothing newest to send.
LEMMA SendsNothing ==
  ASSUME NEW c, down'[c] = down[c] \/ down'[c] = <<>>
  PROVE  \E more : Sends(c, more)
<1>1. Sends(c, <<>>)
  BY ShortSequences DEF Sends
<1> QED BY <1>1

LEMMA SameMirrors ==
  ASSUME NEW p \in Pages
  PROVE  /\ SameMirror(p, p)
         /\ \A b \in BOOLEAN : /\ SameMirror(p, [p EXCEPT !.connected = b])
                               /\ SameMirror(p, [p EXCEPT !.hidden = b]) /\ SameMirror(p, [p EXCEPT !.menu = b])
                               /\ SameMirror(p, [p EXCEPT !.requested = b])
         /\ \A n \in Nat : SameMirror(p, [p EXCEPT !.preparing = n]) /\ SameMirror(p, [p EXCEPT !.ready = n])
         /\ \A e \in {"outdated", "rejected"} : SameMirror(p, [p EXCEPT !.ended = e, !.connected = FALSE])
<1>1. \A b \in BOOLEAN : /\ SameMirror(p, [p EXCEPT !.connected = b])
                         /\ SameMirror(p, [p EXCEPT !.hidden = b]) /\ SameMirror(p, [p EXCEPT !.menu = b])
                         /\ SameMirror(p, [p EXCEPT !.requested = b])
  BY DEF SameMirror, Pages
<1>2. \A n \in Nat : SameMirror(p, [p EXCEPT !.preparing = n]) /\ SameMirror(p, [p EXCEPT !.ready = n])
  BY DEF SameMirror, Pages
<1>3. \A e \in {"outdated", "rejected"} : SameMirror(p, [p EXCEPT !.ended = e, !.connected = FALSE])
  BY DEF SameMirror, Pages
<1> QED BY <1>1, <1>2, <1>3 DEF SameMirror

LEMMA SameMirrorChain ==
  ASSUME NEW p, NEW q, NEW r, SameMirror(p, q), SameMirror(q, r)
  PROVE  SameMirror(p, r)
BY DEF SameMirror

LEMMA LinksFollow ==
  ASSUME TypeOK, TypeOK', FollowInv, NEW c \in Clients, LoseLink(c) \/ LinkLost(c)
  PROVE  FollowInv' /\ Follows
<1>1. \A d \in Clients : pages[d] \in Pages
  BY DEF TypeOK
<1>2. \A d \in Clients : SameMirror(pages[d], pages'[d])
  <2>1. pages' = pages \/ pages' = [pages EXCEPT ![c].connected = FALSE]
    BY DEF LoseLink, LinkLost
  <2>2. pages' = pages \/ pages' = [pages EXCEPT ![c] = [pages[c] EXCEPT !.connected = FALSE]]
    BY <2>1
  <2>3. \A d \in Clients : SameMirror(pages[d], pages[d])
    BY <1>1, SameMirrors
  <2>4. SameMirror(pages[c], [pages[c] EXCEPT !.connected = FALSE])
    BY <1>1, SameMirrors
  <2>5. pages \in [Clients -> Pages]
    BY DEF TypeOK
  <2> QED BY <2>2, <2>3, <2>4, <2>5
<1>3. \A d \in Clients : down'[d] = down[d] \/ down'[d] = <<>>
  BY DEF TypeOK, LoseLink, LinkLost
<1>4. room'.round = room.round /\ room'.phase = room.phase /\ UNCHANGED <<stream, published>>
  <2>1. CASE LoseLink(c)
    BY <2>1 DEF LoseLink
  <2>2. CASE LinkLost(c)
    <3>1. PICK w : room' = [room EXCEPT !.world = w]
      BY <2>2 DEF LinkLost
    <3> QED BY <2>2, <3>1 DEF LinkLost, TypeOK, Rooms
  <2> QED BY <2>1, <2>2
<1>5. \A d \in Clients : \E more : Sends(d, more)
  BY <1>3, SendsNothing
<1> QED BY <1>2, <1>4, <1>5, QuietFollows

LEMMA PlayerMirrors ==
  ASSUME TypeOK, NEW c \in Clients, PlayerDoes(c)
  PROVE  \A d \in Clients : SameMirror(pages[d], pages'[d])
<1>1. pages[c] \in Pages /\ pages \in [Clients -> Pages]
  BY DEF TypeOK
<1>2. SUFFICES \E p : pages' = [pages EXCEPT ![c] = p] /\ SameMirror(pages[c], p)
  BY <1>1 DEF SameMirror
<1>3. CASE Hide(c) \/ Pause(c) \/ GetBack(c)
  BY <1>1, <1>3, SameMirrors DEF Hide, Pause, GetBack, PageDoes
<1>4. CASE Show(c)
  <2> DEFINE p == [pages[c] EXCEPT !.hidden = FALSE]
  <2> DEFINE q == [p EXCEPT !.requested = TRUE]
  <2>1. pages' = [pages EXCEPT ![c] = p] \/ pages' = [pages EXCEPT ![c] = q]
    BY <1>4 DEF Show, PageDoes
  <2>2. p \in Pages /\ SameMirror(pages[c], p)
    BY <1>1, SameMirrors DEF Pages
  <2> HIDE DEF p
  <2>3. SameMirror(p, q)
    BY <2>2, SameMirrors
  <2> HIDE DEF q
  <2> QED BY <2>1, <2>2, <2>3, SameMirrorChain
<1>5. CASE ArenaPrepared(c)
  <2> DEFINE p == [pages[c] EXCEPT !.preparing = 0]
  <2> DEFINE q == [p EXCEPT !.ready = p.round]
  <2> DEFINE r == [p EXCEPT !.preparing = p.round]
  <2>1. pages' \in {[pages EXCEPT ![c] = p], [pages EXCEPT ![c] = q], [pages EXCEPT ![c] = r]}
    BY <1>5 DEF ArenaPrepared, PageDoes, Prepare
  <2>2. p \in Pages /\ SameMirror(pages[c], p)
    BY <1>1, SameMirrors DEF Pages
  <2> HIDE DEF p
  <2>3. p.round \in Nat
    BY <2>2 DEF Pages
  <2>4. SameMirror(p, q) /\ SameMirror(p, r)
    BY <2>2, <2>3, SameMirrors
  <2> HIDE DEF q, r
  <2> QED BY <2>1, <2>2, <2>4, SameMirrorChain
<1> QED BY <1>3, <1>4, <1>5 DEF PlayerDoes

LEMMA PlayerFollows ==
  ASSUME TypeOK, TypeOK', FollowInv, NEW c \in Clients, PlayerDoes(c)
  PROVE  FollowInv' /\ Follows
<1>1. UNCHANGED <<room, stream, down, published>>
  BY DEF PlayerDoes, Hide, Show, Pause, GetBack, ArenaPrepared, Move
<1>2. \A d \in Clients : \E more : Sends(d, more)
  BY <1>1, SendsNothing
<1> QED BY <1>1, <1>2, PlayerMirrors, QuietFollows

\* What the host sends with no frames in it is newest.
NewestMessages == {m \in MessagesOf(published') : Newest(m, published')}

LEMMA FullIsNewest ==
  ASSUME room' \in Rooms, published' \in Seq(Seq(Nat)), published' # <<>>, room'.round = Len(published'),
         NEW t \in Streams, StreamOf(t, published')
  PROVE  Full(t) \in NewestMessages
<1> DEFINE m == Full(t)
<1>1. m \in Fulls
  BY DEF Full, Fulls, Streams, Rooms
<1>2. m.type = "full" /\ m.round = Len(published') /\ m.seq = t.seq /\ m.scene = t.previous
  BY DEF Full
<1>3. Shows(published', Len(published'), t.seq, t.previous) /\ Len(published'[Len(published')]) = t.seq + 1
  BY DEF StreamOf
<1> HIDE DEF m
<1>4. m \in MessagesOf(published')
  BY <1>1, <1>2, <1>3 DEF MessagesOf, Messages
<1>5. Newest(m, published')
  BY <1>2, <1>3 DEF Newest
<1> QED BY <1>4, <1>5 DEF NewestMessages, m

LEMMA OthersAreNewest ==
  ASSUME room' \in Rooms, published' \in Seq(Seq(Nat)), room'.round = Len(published')
  PROVE  /\ Lobby \in NewestMessages /\ Welcome \in NewestMessages /\ Control \in NewestMessages
         /\ [type |-> "closed"] \in NewestMessages
<1>1. Lobby.type = "lobby" /\ Lobby.round = Len(published')
  BY DEF Lobby
<1>2. Welcome.type = "welcome" /\ Control.type = "control" /\ [type |-> "closed"].type = "closed"
  BY DEF Welcome, Control
<1>3. Welcome \in Messages /\ Lobby \in Messages /\ Control \in Messages
      /\ [type |-> "closed"] \in Messages
  BY HostMessagesTyped
<1>4. Len(published') \in Nat
  OBVIOUS
<1> QED BY <1>1, <1>2, <1>3, <1>4 DEF NewestMessages, MessagesOf, Newest

LEMMA SendsNewest ==
  ASSUME NEW c, NEW more \in Seq(NewestMessages),
         down'[c] \in {more, Sent(c, more)}
  PROVE  \E q : Sends(c, q)
<1>1. more \in Seq(MessagesOf(published')) /\ \A i \in 1..Len(more) : Newest(more[i], published')
  BY DEF NewestMessages
<1>2. Sends(c, more)
  BY <1>1 DEF Sends, Sent
<1> QED BY <1>2

LEMMA JoinFollows ==
  ASSUME TypeOK, TypeOK', FollowInv, NEW c \in Clients, Join(c)
  PROVE  FollowInv' /\ Follows
<1>1. PICK w \in Handed, events \in {0, 1} :
        /\ room' = [room EXCEPT !.world = w]
        /\ LET s == Current([stream EXCEPT !.cursor = @ + events]) IN
             /\ stream' = IF Built THEN s ELSE stream
             /\ Publishes(stream')
             /\ down' = [down EXCEPT ![c] = <<Welcome, Lobby>> \o IF Built THEN <<Control, Full(s)>> ELSE <<>>]
  BY DEF Join
<1>2. /\ room \in Rooms /\ room' \in Rooms /\ stream \in Streams /\ published \in Seq(Seq(Nat))
      /\ stream' \in Streams /\ published' \in Seq(Seq(Nat)) /\ pages \in [Clients -> Pages]
      /\ down \in [Clients -> Seq(Messages)]
  BY DEF TypeOK
<1>3. room'.round = room.round /\ room'.phase = room.phase /\ room.round = Len(published)
  BY <1>1, <1>2 DEF Rooms, FollowInv
<1> DEFINE s0 == [stream EXCEPT !.cursor = @ + events]
<1> DEFINE s == Current(s0)
<1>4. s0 \in Streams /\ s0.seq = stream.seq /\ s0.previous = stream.previous /\ s0.frames = stream.frames
  BY <1>2, EventsTyped
<1>5. /\ stream' = IF Built THEN s ELSE stream
      /\ Publishes(stream')
      /\ down' = [down EXCEPT ![c] = <<Welcome, Lobby>> \o IF Built THEN <<Control, Full(s)>> ELSE <<>>]
  BY <1>1
<1> HIDE DEF s0
<1>6. GoesOn(stream, s)
  <2>1. GoesOn(s0, s)
    BY <1>2, <1>4, CapturedGoesOn
  <2> QED BY <1>4, <2>1 DEF GoesOn
<1> HIDE DEF s
<1>7. \A d \in Clients : SameMirror(pages[d], pages'[d])
  <2>1. pages' = [pages EXCEPT ![c] = [pages[c] EXCEPT !.connected = TRUE]]
    BY DEF Join
  <2>2. \A d \in Clients : SameMirror(pages[d], pages[d])
    BY <1>2, SameMirrors
  <2>3. SameMirror(pages[c], [pages[c] EXCEPT !.connected = TRUE])
    BY <1>2, SameMirrors
  <2> QED BY <1>2, <2>1, <2>2, <2>3
<1>8. \A d \in Clients : d # c => \E more : Sends(d, more)
  BY <1>2, <1>5, SendsNothing
<1>9. CASE Built
  <2>1. published # <<>>
    BY <1>2, <1>3, <1>9 DEF Built
  <2>2. stream' = s
    BY <1>5, <1>9
  <2>3. /\ StreamOf(stream', published') /\ Len(published') = Len(published) /\ published' # <<>>
    BY <1>2, <1>5, <1>6, <2>1, <2>2, PublishedGrows
  <2>4. Full(stream') \in NewestMessages
    BY <1>2, <1>3, <2>3, FullIsNewest
  <2>5. <<Welcome, Lobby>> \in Seq(NewestMessages) /\ <<Control, Full(stream')>> \in Seq(NewestMessages)
    <3>1. Welcome \in NewestMessages /\ Lobby \in NewestMessages /\ Control \in NewestMessages
      BY <1>2, <1>3, <2>3, OthersAreNewest
    <3> QED BY <2>4, <3>1
  <2>6. /\ down'[c] = <<Welcome, Lobby>> \o <<Control, Full(stream')>>
        /\ <<Welcome, Lobby>> \o <<Control, Full(stream')>> \in Seq(NewestMessages)
    BY <1>2, <1>5, <1>9, <2>2, <2>5, ConcatTyped
  <2>7. \E more : Sends(c, more)
    BY <2>6, SendsNewest
  <2> QED BY <1>2, <1>3, <1>5, <1>6, <1>7, <1>8, <2>1, <2>2, <2>7, HostFollows
<1>10. CASE ~Built
  <2>1. stream' = stream /\ published' = published
    BY <1>2, <1>5, <1>10 DEF Publishes, Streams
  <2>2. <<Welcome, Lobby>> \in Seq(NewestMessages)
    <3>1. Welcome \in NewestMessages /\ Lobby \in NewestMessages
      BY <1>2, <1>3, <2>1, OthersAreNewest
    <3> QED BY <3>1
  <2>3. down'[c] = <<Welcome, Lobby>>
    BY <1>2, <1>5, <1>10
  <2>4. \E more : Sends(c, more)
    BY <2>2, <2>3, SendsNewest
  <2> QED BY <1>3, <1>7, <1>8, <2>1, <2>4, QuietFollows
<1> QED BY <1>9, <1>10

LEMMA FullLimitedFollows ==
  ASSUME TypeOK, TypeOK', FollowInv, NEW c \in Clients, NEW seat, SendFullLimited(c, seat), UNCHANGED pages,
         room'.round = room.round, room'.phase = room.phase
  PROVE  FollowInv' /\ Follows
<1> DEFINE s == Current(stream)
<1>1. \/ /\ down' = [down EXCEPT ![c] = Sent(c, <<[type |-> "closed"]>>)]
         /\ UNCHANGED <<stream, published>>
      \/ ~Built /\ stream' = stream /\ Publishes(stream') /\ down' = down
      \/ /\ Built /\ stream' = s /\ Publishes(stream')
         /\ down' = [down EXCEPT ![c] = Sent(c, <<Full(s)>>)]
  BY DEF SendFullLimited
<1>2. /\ room \in Rooms /\ room' \in Rooms /\ stream \in Streams /\ published \in Seq(Seq(Nat))
      /\ stream' \in Streams /\ published' \in Seq(Seq(Nat)) /\ pages \in [Clients -> Pages]
      /\ down \in [Clients -> Seq(Messages)] /\ room.round = Len(published)
  BY DEF TypeOK, FollowInv
<1>3. \A d \in Clients : SameMirror(pages[d], pages'[d])
  BY <1>2, SameMirrors
<1>4. \A d \in Clients : d # c => \E more : Sends(d, more)
  BY <1>1, <1>2, SendsNothing
<1>5. GoesOn(stream, s)
  BY <1>2, CapturedGoesOn
<1> HIDE DEF s
<1>6. CASE /\ down' = [down EXCEPT ![c] = Sent(c, <<[type |-> "closed"]>>)]
           /\ UNCHANGED <<stream, published>>
  <2>1. [type |-> "closed"] \in NewestMessages
    BY <1>2, <1>6, OthersAreNewest
  <2>2. \E more : Sends(c, more)
    BY <1>2, <1>6, <2>1, SendsNewest, ShortSequences
  <2> QED BY <1>3, <1>4, <1>6, <2>2, QuietFollows
<1>7. CASE ~Built /\ stream' = stream /\ Publishes(stream') /\ down' = down
  <2>1. published' = published
    BY <1>2, <1>7 DEF Publishes, Streams
  <2>2. \A d \in Clients : \E more : Sends(d, more)
    BY <1>7, SendsNothing
  <2> QED BY <1>3, <1>7, <2>1, <2>2, QuietFollows
<1>8. CASE /\ Built /\ stream' = s /\ Publishes(stream')
           /\ down' = [down EXCEPT ![c] = Sent(c, <<Full(s)>>)]
  <2>1. published # <<>>
    BY <1>2, <1>8 DEF Built
  <2>2. StreamOf(stream', published') /\ Len(published') = Len(published) /\ published' # <<>>
    BY <1>2, <1>5, <1>8, <2>1, PublishedGrows
  <2>3. Full(s) \in NewestMessages
    BY <1>2, <1>8, <2>2, FullIsNewest
  <2>4. \E more : Sends(c, more)
    BY <1>2, <1>8, <2>3, SendsNewest, ShortSequences
  <2> QED BY <1>2, <1>3, <1>4, <1>5, <1>8, <2>1, <2>4, HostFollows
<1> QED BY <1>1, <1>6, <1>7, <1>8

LEMMA ReceiveFollows ==
  ASSUME TypeOK, TypeOK', FollowInv, NEW c \in Clients, Receive(c)
  PROVE  FollowInv' /\ Follows
<1> DEFINE m == Head(up[c])
<1>1. \/ UNCHANGED <<room, stream, seats, down, published, skipped>>
      \/ /\ \E w \in Handed : room' = [room EXCEPT !.world = w]
         /\ \/ m.type = "suspend" /\ HostSuspends(c, m)
            \/ SendFullLimited(c, [seats[c] EXCEPT !.suspended = FALSE, !.watching = FALSE])
            \/ SendFullLimited(c, seats[c])
  BY Zenon DEF Receive
<1>2. UNCHANGED pages /\ pages \in [Clients -> Pages] /\ room \in Rooms
  BY DEF Receive, TypeOK
<1>3. \A d \in Clients : SameMirror(pages[d], pages'[d])
  BY <1>2, SameMirrors
<1> HIDE DEF m
<1>4. room'.round = room.round /\ room'.phase = room.phase
  BY <1>1, <1>2 DEF Rooms
<1>5. CASE UNCHANGED <<stream, down, published>>
  <2>1. \A d \in Clients : \E more : Sends(d, more)
    BY <1>5, SendsNothing
  <2> QED BY <1>3, <1>4, <1>5, <2>1, QuietFollows
<1>6. ASSUME NEW seat, SendFullLimited(c, seat) PROVE FollowInv' /\ Follows
  BY <1>2, <1>4, <1>6, FullLimitedFollows
<1> QED BY <1>1, <1>5, <1>6 DEF HostSuspends

LEMMA StartFollows ==
  ASSUME TypeOK, TypeOK', FollowInv, Start
  PROVE  FollowInv' /\ Follows
<1>1. /\ room \in Rooms /\ room' \in Rooms /\ published \in Seq(Seq(Nat)) /\ stream' \in Streams
      /\ published' \in Seq(Seq(Nat)) /\ pages \in [Clients -> Pages]
      /\ down \in [Clients -> Seq(Messages)] /\ room.round = Len(published)
  BY DEF TypeOK, FollowInv
<1> DEFINE w == room'.world
<1>2. /\ published' = Append(published, <<w>>) /\ UNCHANGED pages
      /\ stream' = [seq |-> 0, previous |-> w, sent |-> 0, cursor |-> 0, frames |-> <<>>]
      /\ down' = [c \in Clients |-> IF c \in Joined THEN Sent(c, <<Lobby, Control, Full(stream')>>) ELSE down[c]]
  BY DEF Start
<1>3. room'.round = room.round + 1
  <2>1. room' = [room EXCEPT !.phase = "playing", !.round = @ + 1, !.tick = 0, !.idle = 0, !.world = @ + 1]
    BY DEF Start
  <2> QED BY <1>1, <2>1 DEF Rooms
<1>4. w \in Nat
  BY <1>1 DEF Rooms
<1> HIDE DEF w
<1>5. <<w>> \in Seq(Nat) /\ Len(<<w>>) = 1 /\ <<w>>[1] = w /\ DOMAIN <<w>> = 1..1
  BY <1>4
<1>6. /\ Len(published') = Len(published) + 1 /\ published' # <<>>
      /\ published'[Len(published')] = <<w>> /\ Len(published') \in DOMAIN published'
      /\ Len(published) \in Nat
      /\ \A r \in DOMAIN published : r \in DOMAIN published' /\ published'[r] = published[r]
  BY <1>1, <1>2, <1>5, SMTT(30)
<1>7. Grows(published, published')
  BY <1>6 DEF Grows
<1>8. stream'.seq = 0 /\ stream'.previous = w /\ stream'.frames = <<>>
  BY <1>2
<1>9. StreamOf(stream', published')
  BY <1>5, <1>6, <1>8, ShortSequences DEF StreamOf, Shows
<1>10. room'.round = Len(published') /\ room'.round > 0
  BY <1>1, <1>3, <1>6
<1>11. \A c \in Clients : SameMirror(pages[c], pages'[c])
  BY <1>1, <1>2, SameMirrors
<1>12. <<Lobby, Control, Full(stream')>> \in Seq(NewestMessages)
  <2>1. Full(stream') \in NewestMessages
    BY <1>1, <1>6, <1>9, <1>10, FullIsNewest
  <2>2. Lobby \in NewestMessages /\ Control \in NewestMessages
    BY <1>1, <1>10, OthersAreNewest
  <2> QED BY <2>1, <2>2
<1>13. \A c \in Clients : \E more : Sends(c, more)
  <2>1. ASSUME NEW c \in Clients PROVE \E more : Sends(c, more)
    <3>1. CASE c \in Joined
      BY <1>2, <1>12, <3>1, SendsNewest
    <3>2. CASE c \notin Joined
      BY <1>2, <3>2, SendsNothing
    <3> QED BY <3>1, <3>2
  <2> QED BY <2>1
<1>14. FollowInv'
  BY <1>7, <1>9, <1>10, <1>11, <1>13, HostKeepsFollowing
<1>15. Followed!NewRound
  <2>1. Head(published'[Len(published')]) = w
    BY <1>5, <1>6
  <2>2. Views' = Views
    BY <1>11, ViewsStay
  <2> QED BY <1>2, <1>6, <2>1, <2>2 DEF Followed!NewRound, Views
<1> QED BY <1>14, <1>15 DEF Follows, Followed!Next

LEMMA StepFollows ==
  ASSUME TypeOK, TypeOK', FollowInv, Step
  PROVE  FollowInv' /\ Follows
<1>1. /\ room \in Rooms /\ room' \in Rooms /\ stream \in Streams /\ stream' \in Streams
      /\ pages \in [Clients -> Pages] /\ published \in Seq(Seq(Nat))
  BY DEF TypeOK
<1>2. UNCHANGED <<pages, down>> /\ Publishes(stream') /\ room.phase = "playing"
  BY DEF Step, links
<1>3. room'.round = room.round
  BY <1>1 DEF Step, Rooms
<1>4. published # <<>>
  BY <1>2 DEF FollowInv, Built
<1>5. GoesOn(stream, stream')
  <2>1. PICK events \in {0, 1} : LET s == [stream EXCEPT !.cursor = @ + events] IN
          stream' = Captured(s) \/ stream' = s
    BY DEF Step
  <2> DEFINE s == [stream EXCEPT !.cursor = @ + events]
  <2>2. s \in Streams /\ s.seq = stream.seq /\ s.previous = stream.previous /\ s.frames = stream.frames
    BY <1>1, EventsTyped
  <2>3. stream' = Captured(s) \/ stream' = s
    BY <2>1
  <2> HIDE DEF s
  <2>4. GoesOn(s, stream')
    BY <1>1, <2>2, <2>3, CapturedGoesOn
  <2> QED BY <2>2, <2>4 DEF GoesOn
<1>6. \A c \in Clients : SameMirror(pages[c], pages'[c]) /\ \E more : Sends(c, more)
  BY <1>1, <1>2, SameMirrors, SendsNothing
<1> QED BY <1>1, <1>2, <1>3, <1>4, <1>5, <1>6, HostFollows

LEMMA BroadcastFollows ==
  ASSUME TypeOK, TypeOK', FollowInv, NEW more \in Seq(NewestMessages), Broadcast(more), room.phase = "playing",
         room'.round = room.round, UNCHANGED pages
  PROVE  FollowInv' /\ Follows
<1> DEFINE s == Complete(stream)
<1>1. /\ room \in Rooms /\ room' \in Rooms /\ stream \in Streams /\ stream' \in Streams
      /\ pages \in [Clients -> Pages] /\ published \in Seq(Seq(Nat)) /\ room.round = Len(published)
      /\ published' \in Seq(Seq(Nat))
  BY DEF TypeOK, FollowInv
<1>2. s \in Streams /\ GoesOn(stream, s)
  BY <1>1, CompleteTyped, CapturedGoesOn
<1>3. /\ stream' = [s EXCEPT !.frames = <<>>]
      /\ Publishes(s)
      /\ down' = [c \in Clients |->
                    IF c \in Streamed THEN Sent(c, Batches(c, Unseen(s.frames, seats[c])) \o more)
                    ELSE IF c \in Joined THEN Sent(c, more) ELSE down[c]]
  BY DEF Broadcast
<1> HIDE DEF s
<1>4. published # <<>>
  BY DEF FollowInv, Built
<1>5. StreamOf(s, published') /\ Len(published') = Len(published) /\ published' # <<>>
  BY <1>2, <1>3, <1>4, PublishedGrows
<1>6. s.frames \in Seq(FramesOf(published', room.round))
  BY <1>1, <1>5 DEF StreamOf
<1>7. ASSUME NEW c \in Clients
      PROVE  Batches(c, Unseen(s.frames, seats[c])) \o more \in Seq(NewestMessages)
  <2> DEFINE u == Unseen(s.frames, seats[c])
  <2>1. u \in Seq(FramesOf(published', room.round))
    BY <1>6, UnseenTyped
  <2> HIDE DEF u
  <2>2. /\ Len(Batches(c, u)) = Chunks(Len(u)) /\ DOMAIN Batches(c, u) = 1..Chunks(Len(u))
        /\ Batches(c, u) = [k \in 1..Chunks(Len(u)) |-> Batch(c, Chunk(u, k))]
        /\ \A k \in 1..Chunks(Len(u)) : Chunk(u, k) \in Seq(FramesOf(published', room.round))
        /\ Chunks(Len(u)) \in Nat
    <3>1. Len(u) \in Nat
      BY <2>1
    <3>2. Chunks(Len(u)) \in Nat
      BY <3>1, ChunkCount
    <3>3. ASSUME NEW S, NEW v \in Seq(S)
          PROVE  /\ Len(Batches(c, v)) = Chunks(Len(v)) /\ DOMAIN Batches(c, v) = 1..Chunks(Len(v))
                 /\ Batches(c, v) = [k \in 1..Chunks(Len(v)) |-> Batch(c, Chunk(v, k))]
                 /\ \A k \in 1..Chunks(Len(v)) : Chunk(v, k) \in Seq(S)
      BY BatchesAre
    <3> QED BY <2>1, <3>2, <3>3
  <2>3. ASSUME NEW f \in Seq(FramesOf(published', room.round))
        PROVE  Batch(c, f) \in NewestMessages
    <3>1. f \in Seq(Frames)
      BY DEF FramesOf
    <3>2. Batch(c, f) \in BatchesSent
      BY <1>1, <3>1 DEF Batch, BatchesSent, Rooms
    <3>3. Batch(c, f).type = "batch" /\ Batch(c, f).round = room.round /\ Batch(c, f).frames = f
      BY DEF Batch
    <3> QED BY <3>2, <3>3 DEF NewestMessages, MessagesOf, Messages, Newest
  <2>4. Batches(c, u) \in Seq(NewestMessages)
    BY <2>2, <2>3
  <2>5. Batches(c, u) \o more \in Seq(NewestMessages)
    BY <2>4, ConcatTyped
  <2> QED BY <2>5 DEF u
<1>8. ASSUME NEW c \in Clients PROVE \E q : Sends(c, q)
  BY <1>3, <1>7, SendsNewest, SendsNothing
<1>9. \A c \in Clients : SameMirror(pages[c], pages'[c])
  BY <1>1, SameMirrors
<1> QED BY <1>2, <1>3, <1>4, <1>8, <1>9, HostFollows

LEMMA CallbackFollows ==
  ASSUME TypeOK, TypeOK', FollowInv, EndCallback \/ Finish
  PROVE  FollowInv' /\ Follows
<1>1. room \in Rooms /\ room' \in Rooms /\ published' \in Seq(Seq(Nat)) /\ published \in Seq(Seq(Nat))
  BY DEF TypeOK
<1>2. room'.round = room.round /\ room.phase = "playing" /\ UNCHANGED pages
  BY <1>1 DEF EndCallback, Finish, Rooms
<1>3. CASE EndCallback
  <2>1. Broadcast(<<>>) /\ <<>> \in Seq(NewestMessages)
    BY <1>3, ShortSequences DEF EndCallback
  <2> QED BY <1>2, <2>1, BroadcastFollows
<1>4. CASE Finish
  <2>1. Broadcast(<<Lobby>>)
    BY <1>4 DEF Finish
  <2>2. Len(published') = Len(published)
    <3>1. Publishes(Complete(stream))
      BY <2>1 DEF Broadcast
    <3>2. stream \in Streams /\ Complete(stream) \in Streams /\ GoesOn(stream, Complete(stream))
      BY <1>1, CompleteTyped, CapturedGoesOn DEF TypeOK
    <3>3. published # <<>>
      BY <1>2 DEF FollowInv, Built
    <3> QED BY <3>1, <3>2, <3>3, PublishedGrows
  <2>3. Lobby \in NewestMessages
    BY <1>1, <1>2, <2>2, OthersAreNewest DEF FollowInv
  <2>4. <<Lobby>> \in Seq(NewestMessages)
    BY <2>3, ShortSequences
  <2> QED BY <1>2, <2>1, <2>4, BroadcastFollows
<1> QED BY <1>3, <1>4

\* A page whose mirror goes on follows the room.
LEMMA MirrorFollows ==
  ASSUME TypeOK, UNCHANGED published, NEW c \in Clients, NEW p \in Pages, pages' = [pages EXCEPT ![c] = p],
         PageOf(pages[c], published), PageOf(p, published),
         \/ p.mirrored > pages[c].mirrored
         \/ p.mirrored = pages[c].mirrored /\ p.seq >= pages[c].seq
  PROVE  Follows
<1> DEFINE o == pages[c]
<1> DEFINE view(x) == [round |-> x.mirrored, seq |-> x.seq, scene |-> x.scene]
<1>1. o \in Pages /\ pages \in [Clients -> Pages]
  BY DEF TypeOK
<1>2. Views' = [Views EXCEPT ![c] = view(p)] /\ Views[c] = view(o) /\ Views'[c] = view(p)
  BY <1>1 DEF Views
<1>3. CASE p.mirrored = o.mirrored /\ p.seq = o.seq
  <2>1. p.scene = o.scene
    BY <1>3 DEF PageOf, Shows
  <2>2. view(p) = view(o)
    BY <1>3, <2>1
  <2>3. Views' = Views
    BY <1>2, <2>2 DEF Views
  <2> QED BY <2>3 DEF Follows
<1>4. CASE ~(p.mirrored = o.mirrored /\ p.seq = o.seq)
  <2>1. p.mirrored \in Nat /\ p.seq \in Nat /\ o.mirrored \in Nat /\ o.seq \in Nat
    BY <1>1 DEF Pages
  <2>2. p.mirrored # 0
    BY <1>4, <2>1 DEF PageOf
  <2>3. Shows(published, p.mirrored, p.seq, p.scene)
    BY <2>2 DEF PageOf
  <2>4. p.mirrored > o.mirrored \/ (p.mirrored = o.mirrored /\ p.seq > o.seq)
    BY <1>4, <2>1
  <2>5. view(p).round = p.mirrored /\ view(p).seq = p.seq /\ view(p).scene = p.scene
        /\ view(o).round = o.mirrored /\ view(o).seq = o.seq
    OBVIOUS
  <2> HIDE DEF view
  <2>6. Followed!Genuine(view(p)) /\ Followed!Later(view(o), view(p))
    BY <2>3, <2>4, <2>5 DEF Followed!Genuine, Followed!Later, Shows
  <2>7. Views' = [Views EXCEPT ![c] = Views'[c]] /\ Followed!Genuine(Views'[c])
        /\ Followed!Later(Views[c], Views'[c])
    BY <1>2, <2>6
  <2>8. Followed!Follow(c)
    BY <2>7 DEF Followed!Follow, Views
  <2> QED BY <2>8 DEF Follows, Followed!Next
<1> QED BY <1>3, <1>4

\* What a frame of the page's round does to its mirror.
LEMMA FrameFollows ==
  ASSUME NEW pub \in Seq(Seq(Nat)), NEW p \in Pages, PageOf(p, pub), NEW f \in FramesOf(pub, p.round)
  PROVE  LET q == Applied(p, f) IN
         /\ q \in Pages /\ PageOf(q, pub) /\ q.round = p.round /\ q.mirrored = p.mirrored
         /\ q.connected = p.connected
         /\ q.seq = p.seq \/ (q.seq = f.seq /\ f.seq > p.seq /\ p.mirrored = p.round)
<1> DEFINE q == Applied(p, f)
<1>1. f \in Frames /\ q \in Pages
  BY AppliedTyped DEF FramesOf
<1>2. CASE Gap(p, f)
  <2>1. q = [p EXCEPT !.needsFull = TRUE]
    BY <1>2 DEF Applied
  <2>2. q.round = p.round /\ q.mirrored = p.mirrored /\ q.seq = p.seq /\ q.scene = p.scene /\ q.needsFull
        /\ q.connected = p.connected
    BY <2>1 DEF Pages
  <2> QED BY <1>1, <2>2 DEF PageOf
<1>3. CASE ~Gap(p, f)
  <2> DEFINE cursor == IF f.to > p.cursor THEN f.to ELSE p.cursor
  <2> DEFINE scene == IF p.scene = f.base THEN f.scene ELSE Mixed
  <2>1. ~p.needsFull /\ f.seq = p.seq + 1
    BY <1>3 DEF Gap
  <2>2. p.mirrored = p.round /\ Shows(pub, p.mirrored, p.seq, p.scene)
    BY <2>1 DEF PageOf
  <2>3. /\ p.mirrored \in DOMAIN pub /\ p.scene = pub[p.mirrored][p.seq + 1]
        /\ f.seq + 1 \in DOMAIN pub[p.mirrored] /\ f.base = pub[p.mirrored][f.seq]
        /\ f.scene = pub[p.mirrored][f.seq + 1]
    BY <2>2 DEF Shows, FramesOf
  <2>4. scene = f.scene
    BY <2>1, <2>3
  <2>5. q = [p EXCEPT !.seq = f.seq, !.tick = f.tick, !.cursor = cursor, !.scene = scene]
    BY <1>3 DEF Applied, Pages
  <2> HIDE DEF cursor, scene
  <2>6. q.round = p.round /\ q.mirrored = p.mirrored /\ q.seq = f.seq /\ q.scene = f.scene
        /\ q.needsFull = p.needsFull /\ q.connected = p.connected
    BY <2>4, <2>5 DEF Pages
  <2>7. Shows(pub, q.mirrored, q.seq, q.scene) /\ q.mirrored # 0
    BY <2>3, <2>6 DEF Shows
  <2>8. f.seq > p.seq
    <3>1. p.seq \in Nat
      BY DEF Pages
    <3> QED BY <2>1, <3>1
  <2> QED BY <1>1, <2>2, <2>6, <2>7, <2>8 DEF PageOf
<1> QED BY <1>2, <1>3

\* What a batch of the page's round does to its mirror.
LEMMA BatchFollows ==
  ASSUME NEW pub \in Seq(Seq(Nat)), NEW p \in Pages, PageOf(p, pub), NEW frames \in Seq(FramesOf(pub, p.round))
  PROVE  LET q == AppliedAll(p, frames) IN
         /\ q \in Pages /\ PageOf(q, pub) /\ q.round = p.round /\ q.mirrored = p.mirrored
         /\ q.connected = p.connected
         /\ \/ q.seq = p.seq
            \/ q.seq > p.seq /\ p.mirrored = p.round /\ \E j \in 1..Len(frames) : q.seq = frames[j].seq
<1>1. frames \in Seq(Frames)
  BY DEF FramesOf
<1>2. PICK g \in [0..Len(frames) -> Pages] :
        /\ g[0] = p
        /\ \A i \in 1..Len(frames) : g[i] = Applied(g[i - 1], frames[i])
        /\ AppliedAll(p, frames) = g[Len(frames)]
  BY <1>1, AppliedOneByOne
<1> DEFINE Good(i) ==
      /\ PageOf(g[i], pub) /\ g[i].round = p.round /\ g[i].mirrored = p.mirrored
      /\ g[i].connected = p.connected
      /\ \/ g[i].seq = p.seq
         \/ g[i].seq > p.seq /\ p.mirrored = p.round /\ \E j \in 1..Len(frames) : g[i].seq = frames[j].seq
<1>3. Good(0)
  BY <1>2
<1>4. ASSUME NEW i \in 1..Len(frames), Good(i - 1) PROVE Good(i)
  <2>1. i - 1 \in 0..Len(frames) /\ g[i - 1] \in Pages /\ frames[i] \in FramesOf(pub, g[i - 1].round)
    BY <1>2, <1>4
  <2>2. LET q == g[i] IN
         /\ q \in Pages /\ PageOf(q, pub) /\ q.round = g[i - 1].round /\ q.mirrored = g[i - 1].mirrored
         /\ q.connected = g[i - 1].connected
         /\ \/ q.seq = g[i - 1].seq
            \/ q.seq = frames[i].seq /\ frames[i].seq > g[i - 1].seq /\ g[i - 1].mirrored = g[i - 1].round
    BY <1>2, <1>4, <2>1, FrameFollows
  <2>3. g[i].seq \in Nat /\ g[i - 1].seq \in Nat /\ p.seq \in Nat
    BY <2>1, <2>2 DEF Pages
  <2> QED BY <1>4, <2>2, <2>3
<1> HIDE DEF Good
<1>5. \A i \in 0..Len(frames) : Good(i)
  <2> DEFINE bad == {i \in 0..Len(frames) : ~Good(i)}
  <2>1. SUFFICES ASSUME bad # {} PROVE FALSE
    OBVIOUS
  <2>2. bad \subseteq Nat
    OBVIOUS
  <2>3. PICK m \in bad : \A k \in bad : m <= k
    BY <2>1, <2>2, LeastNumber
  <2>4. m # 0
    BY <1>3, <2>3
  <2>5. m \in 1..Len(frames) /\ m - 1 \in 0..Len(frames) /\ m - 1 \notin bad
    BY <2>3, <2>4
  <2> QED BY <1>4, <2>3, <2>5
<1>6. Len(frames) \in 0..Len(frames) /\ g[Len(frames)] \in Pages
  BY <1>1
<1>7. Good(Len(frames))
  BY <1>5, <1>6
<1> QED BY <1>2, <1>6, <1>7 DEF Good

\* What is left to hear when the page has become p.
LEMMA RestFollows ==
  ASSUME NEW pub, NEW p, NEW q, q \in Seq(MessagesOf(pub)), q # <<>>, Ordered(q),
         \A n \in MessagesOf(pub) : \A i \in 2..Len(q) : n = q[i] => Ahead(p, n)
  PROVE  QueueOf(p, Tail(q), pub)
<1> DEFINE t == Tail(q)
<1>1. /\ t \in Seq(MessagesOf(pub)) /\ Len(t) = Len(q) - 1 /\ Len(q) \in Nat \ {0}
      /\ \A i \in 1..Len(t) : t[i] = q[i + 1] /\ i + 1 \in 2..Len(q) /\ q[i + 1] \in MessagesOf(pub)
  OBVIOUS
<1> HIDE DEF t
<1>2. \A i \in 1..Len(t) : Ahead(p, t[i])
  BY <1>1
<1>3. ASSUME NEW i \in 1..Len(t), NEW j \in 1..Len(t), i < j PROVE Precedes(t[i], t[j])
  <2>1. i + 1 \in 1..Len(q) /\ j + 1 \in 1..Len(q) /\ i + 1 < j + 1
    BY <1>1, <1>3
  <2> QED BY <1>1, <2>1 DEF Ordered
<1> QED BY <1>1, <1>2, <1>3 DEF QueueOf, Ordered, t

LEMMA HearFollows ==
  ASSUME TypeOK, TypeOK', FollowInv, NEW c \in Clients, Hear(c)
  PROVE  FollowInv' /\ Follows
<1> DEFINE p == pages[c]
<1> DEFINE q == down[c]
<1> DEFINE m == Head(q)
<1>1. /\ pages \in [Clients -> Pages] /\ p \in Pages /\ published \in Seq(Seq(Nat))
      /\ down \in [Clients -> Seq(Messages)]
  BY DEF TypeOK
<1>2. /\ UNCHANGED <<room, stream, published>> /\ q # <<>>
      /\ down' = [down EXCEPT ![c] = IF pages'[c].connected THEN Tail(@) ELSE <<>>]
  BY DEF Hear
<1>3. PageOf(p, published) /\ QueueOf(p, q, published)
  BY DEF FollowInv
<1>4. /\ q \in Seq(MessagesOf(published)) /\ Ordered(q) /\ Len(q) \in Nat \ {0} /\ m = q[1]
      /\ m \in MessagesOf(published) /\ m \in Messages /\ Ahead(p, m)
      /\ \A i \in 2..Len(q) : Precedes(m, q[i]) /\ Ahead(p, q[i])
  <2>1. q \in Seq(MessagesOf(published)) /\ Ordered(q) /\ \A i \in 1..Len(q) : Ahead(p, q[i])
    BY <1>3 DEF QueueOf
  <2>2. Len(q) \in Nat \ {0} /\ m = q[1] /\ m \in MessagesOf(published)
    BY <1>2, <2>1
  <2>3. m \in Messages /\ Ahead(p, m)
    BY <2>1, <2>2 DEF MessagesOf
  <2>4. \A i \in 2..Len(q) : Precedes(m, q[i]) /\ Ahead(p, q[i])
    BY <2>1, <2>2 DEF Ordered
  <2> QED BY <2>1, <2>2, <2>3, <2>4
<1>5. GivesUp(c, p, m) \/ TakesFull(c, p, m) \/ TakesBatch(c, p, m) \/ FollowsLobby(c, p, m)
  BY HearCases, Zenon DEF Takes
<1>a. ASSUME NEW n \in Pages PROVE n.round \in Nat /\ n.mirrored \in Nat /\ n.seq \in Nat
  BY DEF Pages
<1> HIDE DEF p, q, m
<1>b. p.round \in Nat /\ p.mirrored \in Nat /\ p.seq \in Nat
  BY <1>1, <1>a
<1>6. ASSUME NEW n \in Pages, pages' = [pages EXCEPT ![c] = n], PageOf(n, published),
             n.connected => \A i \in 2..Len(q) : Ahead(n, q[i]),
             \/ n.mirrored > p.mirrored
             \/ n.mirrored = p.mirrored /\ n.seq >= p.seq
      PROVE  FollowInv' /\ Follows
  <2>1. Follows
    BY <1>1, <1>2, <1>3, <1>6, MirrorFollows DEF p
  <2>2. QueueOf(n, down'[c], published)
    <3>1. CASE ~n.connected
      BY <1>1, <1>2, <1>6, <3>1, EmptyQueue
    <3>2. CASE n.connected
      <4>1. QueueOf(n, Tail(q), published)
        BY <1>2, <1>4, <1>6, <3>2, RestFollows
      <4>2. down'[c] = Tail(q)
        BY <1>1, <1>2, <1>6, <3>2 DEF q
      <4> QED BY <4>1, <4>2
    <3> QED BY <3>1, <3>2
  <2>3. \A d \in Clients : d # c => pages'[d] = pages[d] /\ down'[d] = down[d]
    BY <1>1, <1>2, <1>6
  <2>4. pages'[c] = n
    BY <1>1, <1>6
  <2>5. ASSUME NEW d \in Clients
        PROVE  PageOf(pages'[d], published) /\ QueueOf(pages'[d], down'[d], published)
    BY <1>6, <2>2, <2>3, <2>4 DEF FollowInv
  <2> QED BY <1>2, <2>1, <2>5 DEF FollowInv, Built
<1>7. ASSUME NEW n \in Pages, SameMirror(p, n), pages' = [pages EXCEPT ![c] = n]
      PROVE  FollowInv' /\ Follows
  <2>1. PageOf(n, published)
    BY <1>3, <1>7, SameMirrorFollows
  <2>2. \A i \in 2..Len(q) : Ahead(n, q[i])
    BY <1>4, <1>7 DEF SameMirror, Ahead
  <2>3. n.mirrored = p.mirrored /\ n.seq >= p.seq
    BY <1>1, <1>7 DEF SameMirror, Pages
  <2> QED BY <1>6, <1>7, <2>1, <2>2, <2>3
<1>8. CASE GivesUp(c, p, m)
  <2>1. PICK cause \in {"outdated", "rejected"} :
          pages' = [pages EXCEPT ![c] = [p EXCEPT !.ended = cause, !.connected = FALSE]]
    BY <1>8 DEF GivesUp, PageDoes
  <2>2. [p EXCEPT !.ended = cause, !.connected = FALSE] \in Pages
    BY <1>1, <1>4, PageAfterTyped
  <2> QED BY <1>1, <1>7, <2>1, <2>2, SameMirrors
<1>9. CASE TakesFull(c, p, m)
  <2> DEFINE n == Rebased(p, m)
  <2> DEFINE o == [n EXCEPT !.preparing = n.round]
  <2>1. pages' = [pages EXCEPT ![c] = n] \/ pages' = [pages EXCEPT ![c] = o]
    BY <1>9 DEF TakesFull, PageDoes
  <2>2. m.type = "full" /\ m.round = p.round /\ m \in Fulls
    BY <1>4, <1>9, MessageKinds DEF TakesFull
  <2>3. n \in Pages
    BY <1>1, <1>4, <2>2, PageAfterTyped
  <2>4. n.round = p.round /\ n.mirrored = m.round /\ n.seq = m.seq /\ n.scene = m.scene /\ ~n.needsFull
    BY <1>1 DEF Rebased, Pages
  <2> HIDE DEF n
  <2>5. o \in Pages /\ SameMirror(n, o)
    <3>1. n.round \in Nat
      BY <2>3 DEF Pages
    <3> QED BY <1>4, <2>3, <3>1, PageAfterTyped, SameMirrors
  <2> HIDE DEF o
  <2>6. Shows(published, m.round, m.seq, m.scene)
    BY <1>4, <2>2 DEF MessagesOf
  <2>7. m.round \in 1..Len(published) /\ m.round \in Nat /\ m.seq \in Nat
    BY <1>1, <2>2, <2>6, SMTT(30) DEF Shows, Fulls
  <2>8. PageOf(n, published)
    BY <2>2, <2>4, <2>6, <2>7 DEF PageOf
  <2>9. \A i \in 2..Len(q) : Ahead(n, q[i])
    BY <1>4, <2>2, <2>4 DEF Ahead, Precedes
  <2>10. n.mirrored > p.mirrored \/ (n.mirrored = p.mirrored /\ n.seq >= p.seq)
    <3>1. p.mirrored \in Nat /\ p.seq \in Nat /\ p.mirrored <= m.round
      BY <1>1, <1>3, <2>2 DEF PageOf, Pages
    <3>2. m.round = p.mirrored => p.seq <= m.seq
      BY <1>4, <2>2 DEF Ahead
    <3> QED BY <2>4, <2>7, <3>1, <3>2
  <2>11. PageOf(o, published) /\ o.mirrored = n.mirrored /\ o.seq = n.seq
    BY <2>5, <2>8, SameMirrorFollows DEF SameMirror
  <2>12. \A i \in 2..Len(q) : Ahead(o, q[i])
    BY <2>5, <2>9 DEF SameMirror, Ahead
  <2> QED BY <1>6, <2>1, <2>3, <2>5, <2>8, <2>9, <2>10, <2>11, <2>12
<1>10. CASE TakesBatch(c, p, m)
  <2> DEFINE n == AppliedAll(p, m.frames)
  <2> DEFINE o == [n EXCEPT !.requested = TRUE]
  <2>1. pages' = [pages EXCEPT ![c] = n] \/ pages' = [pages EXCEPT ![c] = o]
    BY <1>10 DEF TakesBatch, PageDoes
  <2>2. m.type = "batch" /\ m.round = p.round /\ m.frames \in Seq(FramesOf(published, p.round))
    BY <1>4, <1>10 DEF TakesBatch, MessagesOf
  <2>3. /\ n \in Pages /\ PageOf(n, published) /\ n.round = p.round /\ n.mirrored = p.mirrored
        /\ \/ n.seq = p.seq
           \/ n.seq > p.seq /\ p.mirrored = p.round /\ \E j \in 1..Len(m.frames) : n.seq = m.frames[j].seq
    BY <1>1, <1>3, <2>2, BatchFollows
  <2> HIDE DEF n
  <2>4. ASSUME NEW i \in 2..Len(q) PROVE Ahead(n, q[i])
    <3>1. Precedes(m, q[i]) /\ Ahead(p, q[i])
      BY <1>4
    <3>2. q[i].type = "lobby" => n.round <= q[i].round
      BY <2>3, <3>1 DEF Ahead
    <3>3. ASSUME q[i].type = "full", q[i].round = n.mirrored PROVE n.seq <= q[i].seq
      <4>1. CASE n.seq = p.seq
        BY <2>3, <3>1, <3>3, <4>1 DEF Ahead
      <4>2. CASE p.mirrored = p.round /\ \E j \in 1..Len(m.frames) : n.seq = m.frames[j].seq
        BY <2>2, <2>3, <3>1, <3>3, <4>2 DEF Precedes
      <4> QED BY <2>3, <4>1, <4>2
    <3> QED BY <3>2, <3>3 DEF Ahead
  <2>5. o \in Pages /\ SameMirror(n, o)
    BY <1>4, <2>3, PageAfterTyped, SameMirrors
  <2> HIDE DEF o
  <2>6. PageOf(o, published) /\ o.mirrored = n.mirrored /\ o.seq = n.seq
    BY <2>3, <2>5, SameMirrorFollows DEF SameMirror
  <2>7. \A i \in 2..Len(q) : Ahead(o, q[i])
    BY <2>4, <2>5 DEF SameMirror, Ahead
  <2>8. n.mirrored = p.mirrored /\ n.seq >= p.seq
    <3>1. n.seq \in Nat
      BY <1>a, <2>3
    <3> QED BY <1>b, <2>3, <3>1
  <2> QED BY <1>6, <2>1, <2>3, <2>4, <2>5, <2>6, <2>7, <2>8
<1>11. CASE FollowsLobby(c, p, m)
  <2> DEFINE n == PageAfter(p, m)
  <2>1. pages' = [pages EXCEPT ![c] = n] /\ m.type # "full"
    BY <1>11 DEF FollowsLobby, PageDoes
  <2>2. n \in Pages
    BY <1>1, <1>4, PageAfterTyped
  <2>3. n.mirrored = p.mirrored /\ n.seq = p.seq /\ n.scene = p.scene
    BY <1>1 DEF PageAfter, Pages
  <2>4. n.round = IF m.type = "lobby" THEN m.round ELSE p.round
    BY <1>1 DEF PageAfter, Pages
  <2>5. p.needsFull => n.needsFull
    BY <1>1 DEF PageAfter, Pages
  <2>6. ~n.needsFull => n.round = p.round
    BY <1>1 DEF PageAfter, Pages
  <2> HIDE DEF n
  <2>7. n.round \in Nat /\ p.round \in Nat /\ p.round <= n.round /\ n.round <= Len(published)
    <3>1. n.round \in Nat
      BY <1>a, <2>2
    <3>2. m.type = "lobby" => p.round <= m.round /\ m.round <= Len(published)
      BY <1>4 DEF Ahead, MessagesOf
    <3>3. p.round <= Len(published)
      BY <1>3 DEF PageOf
    <3> QED BY <1>b, <2>4, <3>1, <3>2, <3>3
  <2>8. PageOf(n, published)
    <3>1. p.mirrored <= n.round
      BY <1>3, <1>b, <2>7 DEF PageOf
    <3> QED BY <1>3, <2>3, <2>5, <2>6, <2>7, <3>1 DEF PageOf
  <2>9. ASSUME NEW i \in 2..Len(q) PROVE Ahead(n, q[i])
    BY <1>4, <2>3, <2>4 DEF Ahead, Precedes
  <2>10. n.seq >= p.seq
    BY <1>1, <2>3 DEF Pages
  <2> QED BY <1>6, <2>1, <2>2, <2>3, <2>8, <2>9, <2>10
<1> QED BY <1>5, <1>8, <1>9, <1>10, <1>11

LEMMA InitFollows ==
  ASSUME Init
  PROVE  FollowInv /\ Followed!Init
<1>1. published = <<>> /\ room.round = 0 /\ room.phase = "lobby" /\ stream.frames = <<>>
  BY DEF Init
<1>2. ASSUME NEW c \in Clients
      PROVE  /\ PageOf(pages[c], published) /\ QueueOf(pages[c], down[c], published)
             /\ pages[c].mirrored = 0 /\ pages[c].seq = 0 /\ pages[c].scene = 0
  <2>1. pages[c] = NewPage /\ down[c] = <<>>
    BY DEF Init
  <2>2. /\ NewPage.mirrored = 0 /\ NewPage.seq = 0 /\ NewPage.scene = 0 /\ NewPage.round = 0
        /\ NewPage.needsFull
    BY DEF NewPage
  <2>3. PageOf(pages[c], published)
    BY <1>1, <2>1, <2>2 DEF PageOf
  <2> QED BY <2>1, <2>2, <2>3, EmptyQueue
<1>3. FollowInv
  BY <1>1, <1>2 DEF FollowInv, StreamOf
<1>4. Followed!Init
  BY <1>1, <1>2 DEF Followed!Init, Followed!NoView
<1> QED BY <1>3, <1>4

LEMMA NextFollows ==
  ASSUME TypeOK, TypeOK', FollowInv, [Next]_vars
  PROVE  FollowInv' /\ Follows
<1>1. CASE UNCHANGED vars
  <2>1. UNCHANGED <<room, stream, down, pages, published>>
    BY <1>1 DEF vars, links
  <2>2. FollowInv'
    BY <2>1 DEF FollowInv, Built
  <2>3. Views' = Views
    BY <2>1 DEF Views
  <2> QED BY <2>1, <2>2, <2>3 DEF Follows
<1>2. CASE Next
  <2>1. ASSUME NEW c \in Clients,
               Join(c) \/ LoseLink(c) \/ LinkLost(c) \/ PlayerDoes(c) \/ Hear(c) \/ Receive(c)
        PROVE  FollowInv' /\ Follows
    BY <2>1, JoinFollows, LinksFollow, PlayerFollows, HearFollows, ReceiveFollows
  <2> QED BY <1>2, <2>1, StartFollows, StepFollows, CallbackFollows DEF Next, PlayerDoes
<1> QED BY <1>1, <1>2

\* Whatever is lost, late or skipped, every mirror shows what was published under its number and never
\* goes back: the stream with its frames, baselines and lobbies implements FollowedStream.
THEOREM FollowsAlways == Spec => FollowsTheRoom
<1>1. Init => TypeOK /\ FollowInv /\ Followed!Init
  BY InitTyped, InitFollows
<1>2. TypeOK /\ FollowInv /\ [Next]_vars => TypeOK' /\ FollowInv' /\ Follows
  BY NextTyped, NextFollows
<1>3. Follows => [Followed!Next]_<<published, [c \in Clients |-> [round |-> pages[c].mirrored, seq |-> pages[c].seq, scene |-> pages[c].scene]]>>
  BY DEF Follows, Views
<1> QED BY <1>1, <1>2, <1>3, PTL DEF Spec, FollowsTheRoom, Followed!Spec

-----------------------------------------------------------------------------
(* Whoever misses no batch hears all there is.                             *)

\* How far something has come: the scene's number, its tick and the events.
Marks == [seq : Nat, tick : Nat, events : Nat]
FrameMark(f) == [seq |-> f.seq, tick |-> f.tick, events |-> f.to]
FullMark(m) == [seq |-> m.seq, tick |-> m.tick, events |-> m.cursor]
PageMark(p) == [seq |-> p.seq, tick |-> p.tick, events |-> p.cursor]

\* The frame f applies to what has come to mark.
Continues(mark, f) ==
  /\ f.seq = mark.seq + 1 /\ mark.tick <= f.tick
  /\ f.from <= mark.events + 1 /\ mark.events <= f.to

\* The frames apply one after the other.
Links(mark, frames) ==
  \A j \in 1..Len(frames) : Continues(IF j = 1 THEN mark ELSE FrameMark(frames[j - 1]), frames[j])
EndOf(mark, frames) == IF frames = <<>> THEN mark ELSE FrameMark(frames[Len(frames)])

\* How far the page p has come with the first i messages of q.
Reached(p, q, i) ==
  IF i = 0 THEN PageMark(p)
  ELSE IF q[i].type = "full" THEN FullMark(q[i]) ELSE FrameMark(q[i].frames[Len(q[i].frames)])

\* The message m is a batch of the round that applies to what has come to mark.
GoodBatch(mark, m, round) ==
  m.type = "batch" /\ m.round = round /\ m.frames # <<>> /\ Links(mark, m.frames)

\* All messages after the k-th of q are batches that apply to it, or to the page if k is 0.
Chained(p, q, k, round) ==
  /\ IF k = 0 THEN p.mirrored = round /\ ~p.needsFull
     ELSE q[k].type = "full" /\ q[k].round = round
  /\ \A i \in (k + 1)..Len(q) : GoodBatch(Reached(p, q, i - 1), q[i], round)

\* The frames of the stream s that the seat has yet to get lead on to its end.
LeadsOn(mark, s, seat, tick) ==
  LET left == Unseen(s.frames, seat)
      end == EndOf(mark, left) IN
  /\ Links(mark, left)
  /\ end.seq = s.seq /\ end.tick <= tick /\ s.sent <= end.events /\ end.events <= s.cursor

Hears(p, q, s, seat, round, tick) ==
  \E k \in 0..Len(q) : Chained(p, q, k, round) /\ LeadsOn(Reached(p, q, Len(q)), s, seat, tick)

InTouch(c) == c \notin skipped /\ seats[c].joined /\ pages[c].connected /\ pages[c].ended = "no"

HeardInv ==
  /\ stream.sent <= stream.cursor
  /\ \A c \in Clients : seats[c].joined => seats[c].baseline <= stream.seq
  /\ room.phase = "playing" =>
       \A c \in Clients : InTouch(c) => Hears(pages[c], down[c], stream, seats[c], room.round, room.tick)

LEMMA MarksTyped ==
  /\ \A f \in Frames : /\ FrameMark(f) \in Marks
                       /\ FrameMark(f).seq = f.seq /\ FrameMark(f).tick = f.tick /\ FrameMark(f).events = f.to
  /\ \A m \in Fulls : /\ FullMark(m) \in Marks
                      /\ FullMark(m).seq = m.seq /\ FullMark(m).tick = m.tick /\ FullMark(m).events = m.cursor
  /\ \A p \in Pages : /\ PageMark(p) \in Marks
                      /\ PageMark(p).seq = p.seq /\ PageMark(p).tick = p.tick /\ PageMark(p).events = p.cursor
BY DEF Marks, FrameMark, FullMark, PageMark, Frames, Fulls, Pages

\* What has come when frames that apply were applied.
LEMMA EndTyped ==
  ASSUME NEW mark \in Marks, NEW frames \in Seq(Frames)
  PROVE  EndOf(mark, frames) \in Marks
<1>1. CASE frames = <<>>
  BY <1>1 DEF EndOf
<1>2. CASE frames # <<>>
  <2>1. frames[Len(frames)] \in Frames
    BY <1>2
  <2> QED BY <1>2, <2>1, MarksTyped DEF EndOf
<1> QED BY <1>1, <1>2

LEMMA LinksOneMore ==
  ASSUME NEW mark \in Marks, NEW frames \in Seq(Frames), Links(mark, frames),
         NEW f \in Frames, Continues(EndOf(mark, frames), f)
  PROVE  /\ Links(mark, Append(frames, f))
         /\ EndOf(mark, Append(frames, f)) = FrameMark(f)
<1> DEFINE q == Append(frames, f)
<1> DEFINE n == Len(frames)
<1>1. /\ n \in Nat /\ Len(q) = n + 1 /\ q[n + 1] = f /\ q # <<>>
      /\ \A j \in 1..n : q[j] = frames[j]
      /\ frames = <<>> <=> n = 0
  OBVIOUS
<1> HIDE DEF q, n
<1>2. ASSUME NEW j \in 1..Len(q) PROVE Continues(IF j = 1 THEN mark ELSE FrameMark(q[j - 1]), q[j])
  <2>1. CASE j \in 1..n
    <3>1. q[j] = frames[j] /\ (j # 1 => j - 1 \in 1..n)
      BY <1>1, <2>1
    <3>2. j # 1 => q[j - 1] = frames[j - 1]
      BY <1>1, <3>1
    <3>3. Continues(IF j = 1 THEN mark ELSE FrameMark(frames[j - 1]), frames[j])
      BY <2>1 DEF Links, n
    <3> QED BY <3>1, <3>2, <3>3
  <2>2. CASE j = n + 1
    <3>1. CASE n = 0
      BY <1>1, <2>2, <3>1 DEF EndOf
    <3>2. CASE n # 0
      <4>1. j # 1 /\ j - 1 = n /\ n \in 1..n
        BY <1>1, <2>2, <3>2
      <4>2. q[j - 1] = frames[n]
        BY <1>1, <4>1
      <4>3. EndOf(mark, frames) = FrameMark(frames[n])
        BY <1>1, <3>2 DEF EndOf, n
      <4> QED BY <1>1, <2>2, <4>1, <4>2, <4>3
    <3> QED BY <3>1, <3>2
  <2> QED BY <1>1, <2>1, <2>2
<1>3. Links(mark, q)
  BY <1>2 DEF Links
<1>4. EndOf(mark, q) = FrameMark(f)
  BY <1>1 DEF EndOf
<1> QED BY <1>3, <1>4 DEF q

-----------------------------------------------------------------------------
(* What is unseen.                                                         *)

LEMMA SameSequence ==
  ASSUME NEW S, NEW q \in Seq(S), NEW r \in Seq(S), Len(q) = Len(r), \A i \in 1..Len(q) : q[i] = r[i]
  PROVE  q = r
OBVIOUS

\* The end of a sequence with an element more.
LEMMA SubSeqAppend ==
  ASSUME NEW S, NEW q \in Seq(S), NEW f \in S, NEW k \in 0..Len(q)
  PROVE  SubSeq(Append(q, f), k + 1, Len(q) + 1) = Append(SubSeq(q, k + 1, Len(q)), f)
<1> DEFINE n == Len(q)
<1> DEFINE r == Append(q, f)
<1> DEFINE a == SubSeq(r, k + 1, n + 1)
<1> DEFINE b == SubSeq(q, k + 1, n)
<1>1. /\ n \in Nat /\ k \in 0..n /\ n - k \in Nat
      /\ r \in Seq(S) /\ Len(r) = n + 1 /\ r[n + 1] = f /\ \A i \in 1..n : r[i] = q[i]
  OBVIOUS
<1> HIDE DEF r
<1>2. /\ a \in Seq(S) /\ Len(a) = n + 1 - (k + 1) + 1
      /\ \A i \in 1..(n + 1 - (k + 1) + 1) : a[i] = r[k + 1 + i - 1]
  BY <1>1, SubSeqTyped
<1>3. /\ b \in Seq(S) /\ Len(b) = IF k + 1 <= n THEN n - (k + 1) + 1 ELSE 0
      /\ \A i \in 1..(n - (k + 1) + 1) : b[i] = q[k + 1 + i - 1]
  BY <1>1, SubSeqTyped
<1> HIDE DEF a, b, n
<1>4. n + 1 - (k + 1) + 1 = n - k + 1 /\ n - (k + 1) + 1 = n - k /\ n - k + 1 \in Nat
  BY <1>1
<1>5. Len(a) = n - k + 1 /\ \A i \in 1..(n - k + 1) : a[i] = r[k + i]
  <2>1. \A i \in 1..(n - k + 1) : k + 1 + i - 1 = k + i
    BY <1>1
  <2> QED BY <1>2, <1>4, <2>1
<1>6. Len(b) = n - k /\ \A i \in 1..(n - k) : b[i] = q[k + i]
  <2>1. \A i \in 1..(n - k) : k + 1 + i - 1 = k + i
    BY <1>1
  <2>2. (IF k + 1 <= n THEN n - k ELSE 0) = n - k
    BY <1>1
  <2> QED BY <1>3, <1>4, <2>1, <2>2
<1>7. ASSUME NEW m \in Nat, Len(b) = m
      PROVE  /\ Append(b, f) \in Seq(S) /\ Len(Append(b, f)) = m + 1
             /\ \A i \in 1..m : Append(b, f)[i] = b[i]
             /\ Append(b, f)[m + 1] = f
  BY <1>3, <1>7
<1>8. /\ Append(b, f) \in Seq(S) /\ Len(Append(b, f)) = n - k + 1
      /\ \A i \in 1..(n - k) : Append(b, f)[i] = b[i]
      /\ Append(b, f)[n - k + 1] = f
  BY <1>1, <1>6, <1>7
<1>9. ASSUME NEW i \in 1..(n - k + 1) PROVE a[i] = Append(b, f)[i]
  <2>1. CASE i \in 1..(n - k)
    <3>1. k + i \in 1..n
      BY <1>1, <2>1
    <3> QED BY <1>1, <1>5, <1>6, <1>8, <2>1, <3>1
  <2>2. CASE i = n - k + 1
    <3>1. k + i = n + 1
      BY <1>1, <2>2
    <3> QED BY <1>1, <1>5, <1>8, <2>2, <3>1
  <2>3. i \in 1..(n - k) \/ i = n - k + 1
    <3>1. ASSUME NEW d \in Nat PROVE \A j \in 1..(d + 1) : j \in 1..d \/ j = d + 1
      OBVIOUS
    <3>2. n - k \in Nat
      BY <1>1
    <3> QED BY <3>1, <3>2
  <2> QED BY <2>1, <2>2, <2>3
<1>10. a = Append(b, f)
  <2>1. Len(a) = Len(Append(b, f)) /\ \A i \in 1..Len(a) : a[i] = Append(b, f)[i]
    BY <1>5, <1>8, <1>9
  <2>2. a \in Seq(S) /\ Append(b, f) \in Seq(S)
    BY <1>2, <1>8
  <2> HIDE DEF a, b
  <2> QED BY <2>1, <2>2, SameSequence
<1> QED BY <1>10 DEF a, b, n, r

LEMMA UnseenFacts ==
  ASSUME NEW frames \in Seq(Frames), NEW seat \in Seats
  PROVE  /\ (\A i \in 1..Len(frames) : frames[i].seq <= seat.baseline) => Unseen(frames, seat) = <<>>
         /\ \A f \in Frames : ~(f.seq <= seat.baseline) =>
              Unseen(Append(frames, f), seat) = Append(Unseen(frames, seat), f)
<1> DEFINE n == Len(frames)
<1> DEFINE shown(q) == {i \in DOMAIN q : q[i].seq <= seat.baseline}
<1>0. n \in Nat /\ DOMAIN frames = 1..n
  OBVIOUS
<1>1. /\ shown(frames) \subseteq 1..n /\ IsFiniteSet(1..n) /\ Cardinality(1..n) = n
      /\ Cardinality(shown(frames)) \in 0..n
  <2>1. IsFiniteSet(1..n) /\ Cardinality(1..n) = n
    BY <1>0, FS_Interval
  <2>2. shown(frames) \subseteq 1..n
    BY <1>0
  <2>3. /\ Cardinality(shown(frames)) <= Cardinality(1..n)
        /\ Cardinality(shown(frames)) \in Nat
    BY <2>1, <2>2, FS_Subset, FS_CardinalityType
  <2> QED BY <1>0, <2>1, <2>2, <2>3
<1>2. \A q : Unseen(q, seat) = SubSeq(q, Cardinality(shown(q)) + 1, Len(q))
  BY DEF Unseen
<1>3. ASSUME \A i \in 1..n : frames[i].seq <= seat.baseline
      PROVE  Unseen(frames, seat) = <<>>
  <2>1. shown(frames) = 1..n
    BY <1>0, <1>3
  <2>2. Unseen(frames, seat) = SubSeq(frames, n + 1, n)
    BY <1>1, <1>2, <2>1
  <2> QED BY <1>0, <2>2
<1>4. ASSUME NEW f \in Frames, ~(f.seq <= seat.baseline)
      PROVE  Unseen(Append(frames, f), seat) = Append(Unseen(frames, seat), f)
  <2> DEFINE q == Append(frames, f)
  <2>1. Len(q) = n + 1 /\ DOMAIN q = 1..(n + 1) /\ q[n + 1] = f /\ \A i \in 1..n : q[i] = frames[i]
    OBVIOUS
  <2>2. shown(q) = shown(frames)
    BY <1>0, <1>4, <2>1
  <2>3. ASSUME NEW k \in 0..n
        PROVE  SubSeq(q, k + 1, n + 1) = Append(SubSeq(frames, k + 1, n), f)
    BY SubSeqAppend
  <2>4. Unseen(q, seat) = SubSeq(q, Cardinality(shown(frames)) + 1, n + 1)
    BY <1>2, <2>1, <2>2
  <2> HIDE DEF shown
  <2> QED BY <1>1, <1>2, <2>3, <2>4
<1> QED BY <1>3, <1>4

\* Only its baseline tells what a seat has not seen.
LEMMA UnseenByBaseline ==
  ASSUME NEW frames, NEW seat, NEW seat2, seat.baseline = seat2.baseline
  PROVE  Unseen(frames, seat) = Unseen(frames, seat2)
BY DEF Unseen

-----------------------------------------------------------------------------
(* What the host does to what is left to hear.                             *)

\* How the stream goes from s to t: events come, and perhaps a frame.
Extends(s, t) ==
  \E u \in Streams :
    /\ u.seq = s.seq /\ u.sent = s.sent /\ u.frames = s.frames /\ s.cursor <= u.cursor
    /\ t = u \/ t = Captured(u)

LEMMA LeadsFurther ==
  ASSUME NEW mark \in Marks, NEW s \in Streams, NEW t, NEW seat \in Seats, NEW tick \in Nat,
         LeadsOn(mark, s, seat, tick), Extends(s, t), seat.baseline <= s.seq,
         room' \in Rooms, tick <= room'.tick
  PROVE  LeadsOn(mark, t, seat, room'.tick)
<1>1. PICK u \in Streams :
        /\ u.seq = s.seq /\ u.sent = s.sent /\ u.frames = s.frames /\ s.cursor <= u.cursor
        /\ t = u \/ t = Captured(u)
  BY DEF Extends
<1> DEFINE left == Unseen(s.frames, seat)
<1> DEFINE end == EndOf(mark, left)
<1>2. /\ Links(mark, left)
      /\ end.seq = s.seq /\ end.tick <= tick /\ s.sent <= end.events /\ end.events <= s.cursor
  BY DEF LeadsOn
<1>3. left \in Seq(Frames) /\ end \in Marks
  BY UnseenTyped, EndTyped DEF Streams
<1>4. /\ s.seq \in Nat /\ s.sent \in Nat /\ s.cursor \in Nat /\ u.cursor \in Nat /\ room'.tick \in Nat
      /\ end.seq \in Nat /\ end.tick \in Nat /\ end.events \in Nat /\ seat.baseline \in Nat
  BY <1>3 DEF Streams, Rooms, Marks, Seats
<1>5. CASE t = u
  <2>1. /\ end.seq = t.seq /\ end.tick <= room'.tick /\ t.sent <= end.events /\ end.events <= t.cursor
    BY <1>1, <1>2, <1>4, <1>5
  <2> QED BY <1>1, <1>2, <1>5, <2>1 DEF LeadsOn
<1>6. CASE t = Captured(u)
  <2> DEFINE f == NewFrame(u)
  <2>1. f \in Frames
    BY CapturedTyped
  <2>2. /\ f.seq = s.seq + 1 /\ f.tick = room'.tick /\ f.from = s.sent + 1 /\ f.to = u.cursor
    BY <1>1 DEF NewFrame
  <2> HIDE DEF f
  <2>a. ASSUME NEW q, NEW v, v = [seq |-> u.seq + 1, previous |-> room'.world, sent |-> u.cursor,
                                  cursor |-> u.cursor, frames |-> q]
        PROVE  v.seq = u.seq + 1 /\ v.sent = u.cursor /\ v.cursor = u.cursor /\ v.frames = q
    BY <2>a
  <2>3. /\ t.frames = Append(s.frames, f) /\ t.seq = s.seq + 1 /\ t.sent = u.cursor /\ t.cursor = u.cursor
    <3>1. Captured(u) = [seq |-> u.seq + 1, previous |-> room'.world, sent |-> u.cursor,
                         cursor |-> u.cursor, frames |-> Append(u.frames, f)]
      BY CapturedTyped DEF f
    <3>2. t.seq = u.seq + 1 /\ t.sent = u.cursor /\ t.cursor = u.cursor /\ t.frames = Append(u.frames, f)
      BY <1>6, <2>a, <3>1
    <3> QED BY <1>1, <3>2
  <2>4. ~(f.seq <= seat.baseline)
    BY <1>4, <2>2
  <2>5. Unseen(t.frames, seat) = Append(left, f)
    <3>1. s.frames \in Seq(Frames)
      BY DEF Streams
    <3> QED BY <2>1, <2>3, <2>4, <3>1, UnseenFacts
  <2> HIDE DEF left, end
  <2>6. Continues(end, f)
    BY <1>1, <1>2, <1>4, <2>2 DEF Continues
  <2>7. Links(mark, Append(left, f)) /\ EndOf(mark, Append(left, f)) = FrameMark(f)
    BY <1>2, <1>3, <2>1, <2>6, LinksOneMore DEF end
  <2>8. FrameMark(f).seq = t.seq /\ FrameMark(f).tick = room'.tick /\ FrameMark(f).events = t.cursor
        /\ t.sent = t.cursor
    BY <2>1, <2>2, <2>3, MarksTyped
  <2> QED BY <1>4, <2>3, <2>5, <2>7, <2>8 DEF LeadsOn
<1> QED BY <1>1, <1>5, <1>6

\* What the page has come to with messages that chain.
LEMMA ReachedTyped ==
  ASSUME NEW p \in Pages, NEW q \in Seq(Messages), NEW k \in 0..Len(q), NEW round,
         Chained(p, q, k, round), NEW i \in k..Len(q)
  PROVE  Reached(p, q, i) \in Marks
<1>1. CASE i = 0
  BY <1>1, MarksTyped DEF Reached
<1>2. CASE i # 0
  <2>1. i \in 1..Len(q) /\ q[i] \in Messages /\ (i = k \/ i \in (k + 1)..Len(q))
    BY <1>2
  <2>2. CASE q[i].type = "full"
    <3>1. q[i] \in Fulls
      BY <2>1, <2>2, MessageKinds
    <3> QED BY <1>2, <2>2, <3>1, MarksTyped DEF Reached
  <2>3. CASE q[i].type # "full"
    <3>1. q[i].type = "batch" /\ q[i].frames # <<>>
      BY <1>2, <2>1, <2>3 DEF Chained, GoodBatch
    <3>2. q[i].frames \in Seq(Frames)
      BY <2>1, <3>1, MessageKinds DEF BatchesSent
    <3>3. q[i].frames[Len(q[i].frames)] \in Frames
      BY <3>1, <3>2
    <3> QED BY <1>2, <2>3, <3>3, MarksTyped DEF Reached
  <2> QED BY <2>2, <2>3
<1> QED BY <1>1, <1>2

LEMMA HearsFurther ==
  ASSUME NEW p \in Pages, NEW q \in Seq(Messages), NEW s \in Streams, NEW t, NEW seat \in Seats,
         NEW round, NEW tick \in Nat, Hears(p, q, s, seat, round, tick), Extends(s, t),
         seat.baseline <= s.seq, room' \in Rooms, tick <= room'.tick
  PROVE  Hears(p, q, t, seat, round, room'.tick)
<1>1. PICK k \in 0..Len(q) :
        Chained(p, q, k, round) /\ LeadsOn(Reached(p, q, Len(q)), s, seat, tick)
  BY DEF Hears
<1>2. Len(q) \in k..Len(q)
  OBVIOUS
<1>3. Reached(p, q, Len(q)) \in Marks
  BY <1>1, <1>2, ReachedTyped
<1>4. LeadsOn(Reached(p, q, Len(q)), t, seat, room'.tick)
  BY <1>1, <1>3, LeadsFurther
<1> QED BY <1>1, <1>4 DEF Hears

\* A baseline is heard whatever came before.
LEMMA HearsFull ==
  ASSUME NEW p, NEW q \in Seq(Messages), q # <<>>, NEW m, m = q[Len(q)],
         NEW s \in Streams, NEW seat, NEW tick \in Nat,
         m.type = "full", m.seq = s.seq, m.cursor = s.cursor, m.tick = tick, s.sent <= s.cursor,
         Unseen(s.frames, seat) = <<>>
  PROVE  Hears(p, q, s, seat, m.round, tick)
<1>1. Len(q) \in 0..Len(q) /\ Len(q) # 0 /\ Len(q) \in Nat
  OBVIOUS
<1>2. Chained(p, q, Len(q), m.round)
  <2>1. \A i \in (Len(q) + 1)..Len(q) : FALSE
    BY <1>1
  <2> QED BY <1>1, <2>1 DEF Chained
<1>3. Reached(p, q, Len(q)) = FullMark(m)
  BY <1>1 DEF Reached
<1>4. LeadsOn(FullMark(m), s, seat, tick)
  <2>1. FullMark(m).seq = s.seq /\ FullMark(m).tick = tick /\ FullMark(m).events = s.cursor
    BY DEF FullMark
  <2>2. Links(FullMark(m), <<>>) /\ EndOf(FullMark(m), <<>>) = FullMark(m)
    BY DEF Links, EndOf
  <2>3. s.cursor \in Nat
    BY DEF Streams
  <2> QED BY <2>1, <2>2, <2>3 DEF LeadsOn
<1> QED BY <1>1, <1>2, <1>3, <1>4 DEF Hears

\* What is unseen goes out in batches that lead on as its frames do.
LEMMA LinksInParts ==
  ASSUME NEW mark \in Marks, NEW left \in Seq(Frames), Links(mark, left), NEW k \in 1..Chunks(Len(left))
  PROVE  /\ Chunk(left, k) \in Seq(Frames) /\ Chunk(left, k) # <<>>
         /\ k = 1 => Links(mark, Chunk(left, k))
         /\ k > 1 => /\ k - 1 \in 1..Chunks(Len(left))
                     /\ Links(FrameMark(Chunk(left, k - 1)[Len(Chunk(left, k - 1))]), Chunk(left, k))
         /\ k = Chunks(Len(left)) => Chunk(left, k)[Len(Chunk(left, k))] = left[Len(left)]
<1> DEFINE n == Chunks(Len(left))
<1> DEFINE first(i) == (i - 1) * MaxBatch + 1
<1> DEFINE last(i) == Smaller(i * MaxBatch, Len(left))
<1>1. n \in Nat /\ Len(left) \in Nat
  BY ChunkCount
<1>2. ASSUME NEW i \in 1..n
      PROVE  /\ first(i) \in 1..Len(left) /\ last(i) \in first(i)..Len(left)
             /\ i = 1 => first(i) = 1
             /\ i > 1 => first(i) = last(i - 1) + 1
             /\ i = n => last(i) = Len(left)
             /\ Chunk(left, i) \in Seq(Frames) /\ Len(Chunk(left, i)) = last(i) - first(i) + 1
             /\ \A j \in 1..(last(i) - first(i) + 1) : Chunk(left, i)[j] = left[first(i) + j - 1]
  BY ChunkFrames
<1> HIDE DEF first, last, n
<1>3. ASSUME NEW i \in 1..n
      PROVE  /\ Chunk(left, i) \in Seq(Frames) /\ Chunk(left, i) # <<>>
             /\ Len(Chunk(left, i)) \in Nat \ {0}
             /\ Chunk(left, i)[Len(Chunk(left, i))] = left[last(i)]
             /\ Chunk(left, i)[1] = left[first(i)]
  <2> DEFINE c == Chunk(left, i)
  <2>1. /\ c \in Seq(Frames) /\ Len(c) = last(i) - first(i) + 1
        /\ \A j \in 1..(last(i) - first(i) + 1) : c[j] = left[first(i) + j - 1]
        /\ first(i) \in Nat /\ last(i) \in Nat /\ first(i) <= last(i)
    BY <1>1, <1>2
  <2>2. Len(c) \in 1..(last(i) - first(i) + 1) /\ first(i) + Len(c) - 1 = last(i)
    BY <2>1
  <2>3. c[Len(c)] = left[last(i)]
    BY <2>1, <2>2
  <2>4. c[1] = left[first(i)]
    <3>1. 1 \in 1..(last(i) - first(i) + 1) /\ first(i) + 1 - 1 = first(i)
      BY <2>1
    <3> QED BY <2>1, <3>1
  <2>5. c # <<>>
    BY <2>1, <2>2
  <2> HIDE DEF c
  <2>6. Len(c) \in Nat \ {0}
    BY <2>1, <2>2
  <2> QED BY <2>1, <2>3, <2>4, <2>5, <2>6 DEF c
<1>4. ASSUME NEW i \in 1..n, NEW j \in 2..Len(Chunk(left, i))
      PROVE  Continues(FrameMark(Chunk(left, i)[j - 1]), Chunk(left, i)[j])
  <2> DEFINE c == Chunk(left, i)
  <2> DEFINE x == first(i) + j - 1
  <2>1. /\ Len(c) = last(i) - first(i) + 1
        /\ \A y \in 1..(last(i) - first(i) + 1) : c[y] = left[first(i) + y - 1]
        /\ first(i) \in 1..Len(left) /\ last(i) \in first(i)..Len(left)
    BY <1>2
  <2>2. j \in 1..(last(i) - first(i) + 1) /\ j - 1 \in 1..(last(i) - first(i) + 1)
    BY <1>1, <2>1
  <2>3. x \in 2..Len(left) /\ first(i) + (j - 1) - 1 = x - 1
    BY <1>1, <2>1, <2>2
  <2>4. c[j] = left[x] /\ c[j - 1] = left[x - 1]
    BY <2>1, <2>2, <2>3
  <2> HIDE DEF x, c
  <2>5. x \in 1..Len(left) /\ x # 1
    BY <1>1, <2>3
  <2>6. Continues(IF x = 1 THEN mark ELSE FrameMark(left[x - 1]), left[x])
    BY <2>5 DEF Links
  <2> QED BY <2>4, <2>5, <2>6 DEF c
<1>5. ASSUME NEW i \in 1..n, NEW m, Continues(m, left[first(i)])
      PROVE  Links(m, Chunk(left, i))
  <2>1. SUFFICES ASSUME NEW j \in 1..Len(Chunk(left, i))
                 PROVE  Continues(IF j = 1 THEN m ELSE FrameMark(Chunk(left, i)[j - 1]), Chunk(left, i)[j])
    BY DEF Links
  <2>2. CASE j = 1
    BY <1>3, <1>5, <2>2
  <2>3. CASE j # 1
    <3>1. j \in 2..Len(Chunk(left, i))
      BY <1>3, <2>3
    <3> QED BY <1>4, <2>3, <3>1
  <2> QED BY <2>2, <2>3
<1>6. k \in 1..n
  BY DEF n
<1>7. k = 1 => Links(mark, Chunk(left, k))
  <2>1. SUFFICES ASSUME k = 1 PROVE Links(mark, Chunk(left, k))
    OBVIOUS
  <2>2. first(k) = 1 /\ 1 \in 1..Len(left)
    BY <1>2, <1>6, <2>1
  <2>3. Continues(mark, left[1])
    BY <2>2 DEF Links
  <2> QED BY <1>5, <1>6, <2>2, <2>3
<1>8. ASSUME k > 1
      PROVE  /\ k - 1 \in 1..n
             /\ Links(FrameMark(Chunk(left, k - 1)[Len(Chunk(left, k - 1))]), Chunk(left, k))
  <2>1. k - 1 \in 1..n
    BY <1>1, <1>6, <1>8
  <2>2. first(k) = last(k - 1) + 1 /\ first(k) \in 1..Len(left) /\ last(k - 1) \in 1..Len(left)
    <3>1. first(k - 1) \in 1..Len(left) /\ last(k - 1) \in first(k - 1)..Len(left)
      BY <1>2, <2>1
    <3>2. last(k - 1) \in 1..Len(left)
      BY <1>1, <3>1
    <3> QED BY <1>2, <1>6, <1>8, <3>2
  <2>3. Continues(FrameMark(left[last(k - 1)]), left[first(k)])
    <3>1. first(k) # 1 /\ first(k) - 1 = last(k - 1)
      BY <1>1, <2>2
    <3>2. Continues(IF first(k) = 1 THEN mark ELSE FrameMark(left[first(k) - 1]), left[first(k)])
      BY <2>2 DEF Links
    <3> QED BY <3>1, <3>2
  <2>4. Chunk(left, k - 1)[Len(Chunk(left, k - 1))] = left[last(k - 1)]
    BY <1>3, <2>1
  <2> QED BY <1>5, <1>6, <2>1, <2>3, <2>4
<1>9. k = n => Chunk(left, k)[Len(Chunk(left, k))] = left[Len(left)]
  BY <1>2, <1>3, <1>6
<1> QED BY <1>3, <1>6, <1>7, <1>8, <1>9 DEF n

\* What the frames of the stream lead on to is heard when they are sent.
LEMMA HearsBatches ==
  ASSUME TypeOK, NEW p \in Pages, NEW q \in Seq(Messages), NEW s \in Streams, NEW seat \in Seats, NEW c,
         NEW tick \in Nat, Hears(p, q, s, seat, room.round, tick)
  PROVE  Hears(p, q \o Batches(c, Unseen(s.frames, seat)), [s EXCEPT !.frames = <<>>], seat, room.round, tick)
<1> DEFINE left == Unseen(s.frames, seat)
<1> DEFINE b == Batches(c, left)
<1> DEFINE n == Chunks(Len(left))
<1> DEFINE t == [s EXCEPT !.frames = <<>>]
<1> DEFINE r == q \o b
<1>1. PICK k \in 0..Len(q) :
        Chained(p, q, k, room.round) /\ LeadsOn(Reached(p, q, Len(q)), s, seat, tick)
  BY DEF Hears
<1> DEFINE mark == Reached(p, q, Len(q))
<1>2. mark \in Marks
  <2>1. Len(q) \in k..Len(q)
    OBVIOUS
  <2> QED BY <1>1, <2>1, ReachedTyped
<1>3. /\ Links(mark, left) /\ EndOf(mark, left).seq = s.seq /\ EndOf(mark, left).tick <= tick
      /\ s.sent <= EndOf(mark, left).events /\ EndOf(mark, left).events <= s.cursor
  BY <1>1 DEF LeadsOn
<1>4. left \in Seq(Frames)
  BY UnseenTyped DEF Streams
<1>5. t.seq = s.seq /\ t.sent = s.sent /\ t.cursor = s.cursor /\ t.frames = <<>>
  BY DEF Streams
<1> HIDE DEF mark, left, t
<1>6. n \in Nat /\ b \in Seq(Messages) /\ Len(b) = n
      /\ \A j \in 1..n : b[j] = Batch(c, Chunk(left, j))
  <2>1. Len(left) \in Nat
    BY <1>4
  <2> QED BY <1>4, <2>1, ChunkCount, BatchesAre, BatchesTyped
<1>7. n = 0 <=> left = <<>>
  <2>1. Len(left) \in Nat /\ MaxBatch \in Nat \ {0} /\ n \in Nat /\ Len(left) <= n * MaxBatch /\ n * MaxBatch < Len(left) + MaxBatch
    BY <1>4, ChunkCount
  <2> HIDE DEF n
  <2>2. ASSUME n = 0 PROVE Len(left) = 0
    <3>1. n * MaxBatch = 0
      BY <2>1, <2>2
    <3> QED BY <2>1, <3>1
  <2>3. ASSUME Len(left) = 0 PROVE n = 0
    <3>1. ASSUME NEW x \in Nat, NEW y \in Nat, x * y < y PROVE x = 0
      <4>1. ASSUME NEW z \in Nat PROVE (z + 1) * y = z * y + y /\ z * y \in Nat
        OBVIOUS
      <4>2. CASE x # 0
        <5>1. x - 1 \in Nat /\ (x - 1) + 1 = x
          BY <4>2
        <5>2. x * y = (x - 1) * y + y /\ (x - 1) * y \in Nat
          BY <4>1, <5>1
        <5> QED BY <3>1, <5>2
      <4> QED BY <4>2
    <3>2. n * MaxBatch < MaxBatch
      BY <2>1, <2>3
    <3> QED BY <2>1, <3>1, <3>2
  <2> QED BY <1>4, <2>2, <2>3
<1> HIDE DEF b, n
<1>8. /\ r \in Seq(Messages) /\ Len(r) = Len(q) + n /\ Len(q) \in Nat
      /\ \A i \in 1..Len(q) : r[i] = q[i]
      /\ \A j \in 1..n : r[Len(q) + j] = b[j]
  <2>1. ASSUME NEW S, NEW x \in Seq(S), NEW y \in Seq(S), NEW l \in Nat, Len(y) = l
        PROVE  /\ x \o y \in Seq(S) /\ Len(x \o y) = Len(x) + l /\ Len(x) \in Nat
               /\ \A i \in 1..Len(x) : (x \o y)[i] = x[i]
               /\ \A j \in 1..l : (x \o y)[Len(x) + j] = y[j]
    BY <2>1
  <2> QED BY <1>6, <2>1
<1> HIDE DEF r
<1>9. \A i \in 0..Len(q) : Reached(p, r, i) = Reached(p, q, i)
  BY <1>8 DEF Reached
<1>10. ASSUME NEW j \in 1..n
       PROVE  /\ r[Len(q) + j].type = "batch" /\ r[Len(q) + j].round = room.round
              /\ r[Len(q) + j].frames = Chunk(left, j)
  <2>1. r[Len(q) + j] = Batch(c, Chunk(left, j))
    <3>1. r[Len(q) + j] = b[j]
      BY <1>8
    <3> QED BY <1>6, <3>1
  <2>2. \A f : Batch(c, f).type = "batch" /\ Batch(c, f).round = room.round /\ Batch(c, f).frames = f
    BY DEF Batch
  <2> QED BY <2>1, <2>2
<1>11. ASSUME NEW j \in 1..n
       PROVE  Reached(p, r, Len(q) + j) = FrameMark(Chunk(left, j)[Len(Chunk(left, j))])
  <2>1. Len(q) + j # 0
    BY <1>8
  <2> QED BY <1>10, <2>1 DEF Reached
<1>12. ASSUME NEW j \in 1..n
       PROVE  GoodBatch(Reached(p, r, Len(q) + j - 1), r[Len(q) + j], room.round)
  <2>0. j \in 1..Chunks(Len(left))
    BY DEF n
  <2>1. /\ Chunk(left, j) # <<>> /\ (j = 1 => Links(mark, Chunk(left, j)))
        /\ j > 1 => /\ j - 1 \in 1..n
                    /\ Links(FrameMark(Chunk(left, j - 1)[Len(Chunk(left, j - 1))]), Chunk(left, j))
    BY <1>2, <1>3, <1>4, <2>0, LinksInParts DEF n
  <2>2. CASE j = 1
    <3>1. Reached(p, r, Len(q) + j - 1) = mark
      <4>1. Len(q) + j - 1 = Len(q) /\ Len(q) \in 0..Len(q)
        BY <1>8, <2>2
      <4> QED BY <1>9, <4>1 DEF mark
    <3> QED BY <1>10, <2>1, <2>2, <3>1 DEF GoodBatch
  <2>3. CASE j # 1
    <3>1. j > 1 /\ Len(q) + j - 1 = Len(q) + (j - 1)
      BY <1>8, <2>3
    <3>2. Reached(p, r, Len(q) + j - 1) = FrameMark(Chunk(left, j - 1)[Len(Chunk(left, j - 1))])
      BY <1>11, <2>1, <3>1
    <3> QED BY <1>10, <2>1, <3>1, <3>2 DEF GoodBatch
  <2> QED BY <2>2, <2>3
<1>13. Chained(p, r, k, room.round)
  <2>1. IF k = 0 THEN p.mirrored = room.round /\ ~p.needsFull
        ELSE r[k].type = "full" /\ r[k].round = room.round
    <3>1. k # 0 => r[k] = q[k]
      BY <1>8
    <3> QED BY <1>1, <3>1 DEF Chained
  <2>2. ASSUME NEW i \in (k + 1)..Len(r) PROVE GoodBatch(Reached(p, r, i - 1), r[i], room.round)
    <3>1. CASE i <= Len(q)
      <4>1. i \in (k + 1)..Len(q) /\ i \in 1..Len(q) /\ i - 1 \in 0..Len(q)
        BY <1>8, <3>1
      <4>2. GoodBatch(Reached(p, q, i - 1), q[i], room.round)
        BY <1>1, <4>1 DEF Chained
      <4> QED BY <1>8, <1>9, <4>1, <4>2
    <3>2. CASE ~(i <= Len(q))
      <4>1. i - Len(q) \in 1..n /\ Len(q) + (i - Len(q)) = i /\ Len(q) + (i - Len(q)) - 1 = i - 1
        <5>1. ASSUME NEW x \in Nat, NEW y \in Nat, NEW z \in (k + 1)..(x + y), ~(z <= x)
              PROVE  z - x \in 1..y /\ x + (z - x) = z /\ x + (z - x) - 1 = z - 1
          BY <5>1
        <5>2. Len(q) \in Nat /\ n \in Nat /\ i \in (k + 1)..(Len(q) + n)
          BY <1>6, <1>8
        <5> QED BY <3>2, <5>1, <5>2
      <4> QED BY <1>12, <4>1
    <3> QED BY <3>1, <3>2
  <2> QED BY <2>1, <2>2 DEF Chained
<1>14. Reached(p, r, Len(r)) = EndOf(mark, left)
  <2>1. CASE n = 0
    <3>1. Len(r) = Len(q) /\ Len(q) \in 0..Len(q) /\ left = <<>>
      BY <1>7, <1>8, <2>1
    <3> QED BY <1>9, <3>1 DEF EndOf, mark
  <2>2. CASE n # 0
    <3>1. n \in 1..n /\ Len(r) = Len(q) + n /\ left # <<>>
      BY <1>6, <1>7, <1>8, <2>2
    <3>2. Chunk(left, n)[Len(Chunk(left, n))] = left[Len(left)]
      BY <1>2, <1>3, <1>4, <3>1, LinksInParts DEF n
    <3> QED BY <1>11, <3>1, <3>2 DEF EndOf
  <2> QED BY <2>1, <2>2
<1>15. Unseen(t.frames, seat) = <<>>
  <2>1. <<>> \in Seq(Frames) /\ \A i \in 1..Len(<<>>) : <<>>[i].seq <= seat.baseline
    OBVIOUS
  <2> QED BY <1>5, <2>1, UnseenFacts
<1>16. LeadsOn(EndOf(mark, left), t, seat, tick)
  <2>1. Links(EndOf(mark, left), <<>>) /\ EndOf(EndOf(mark, left), <<>>) = EndOf(mark, left)
    BY DEF Links, EndOf
  <2> QED BY <1>3, <1>5, <1>15, <2>1 DEF LeadsOn
<1>17. k \in 0..Len(r)
  BY <1>6, <1>8
<1>18. Hears(p, r, t, seat, room.round, tick)
  BY <1>13, <1>14, <1>16, <1>17 DEF Hears
<1> QED BY <1>18 DEF r, b, left, t

-----------------------------------------------------------------------------
(* What a page makes of what it hears.                                     *)

\* A frame that continues what has come is taken.
LEMMA FrameApplies ==
  ASSUME NEW p \in Pages, NEW f \in Frames, ~p.needsFull, Continues(PageMark(p), f)
  PROVE  LET q == Applied(p, f) IN
         /\ q \in Pages /\ ~q.needsFull /\ q.mirrored = p.mirrored
         /\ PageMark(q) = FrameMark(f)
<1> DEFINE q == Applied(p, f)
<1> DEFINE cursor == IF f.to > p.cursor THEN f.to ELSE p.cursor
<1> DEFINE scene == IF p.scene = f.base THEN f.scene ELSE Mixed
<1>1. /\ p.seq \in Nat /\ p.tick \in Nat /\ p.cursor \in Nat
      /\ f.seq \in Nat /\ f.tick \in Nat /\ f.from \in Nat /\ f.to \in Nat
  BY DEF Pages, Frames
<1>2. f.seq = p.seq + 1 /\ p.tick <= f.tick /\ f.from <= p.cursor + 1 /\ p.cursor <= f.to
  BY DEF Continues, PageMark
<1>3. ~Gap(p, f)
  BY <1>1, <1>2 DEF Gap
<1>4. q = [p EXCEPT !.seq = f.seq, !.tick = f.tick, !.cursor = cursor, !.scene = scene]
  BY <1>3 DEF Applied, Pages
<1>5. cursor = f.to
  BY <1>1, <1>2
<1> HIDE DEF cursor, scene
<1>6. q.seq = f.seq /\ q.tick = f.tick /\ q.cursor = f.to /\ q.mirrored = p.mirrored /\ q.needsFull = p.needsFull
  BY <1>4, <1>5 DEF Pages
<1>7. q \in Pages
  BY AppliedTyped
<1> HIDE DEF q
<1>8. PageMark(q) = FrameMark(f)
  BY <1>6 DEF PageMark, FrameMark
<1> QED BY <1>6, <1>7, <1>8 DEF q

\* A batch that leads on from the mirror is taken to its end.
LEMMA BatchApplies ==
  ASSUME NEW p \in Pages, NEW frames \in Seq(Frames), frames # <<>>, ~p.needsFull, Links(PageMark(p), frames)
  PROVE  LET q == AppliedAll(p, frames) IN
         /\ q \in Pages /\ ~q.needsFull /\ q.mirrored = p.mirrored
         /\ PageMark(q) = FrameMark(frames[Len(frames)])
<1>1. PICK g \in [0..Len(frames) -> Pages] :
        /\ g[0] = p
        /\ \A i \in 1..Len(frames) : g[i] = Applied(g[i - 1], frames[i])
        /\ AppliedAll(p, frames) = g[Len(frames)]
  BY AppliedOneByOne
<1> DEFINE Good(i) ==
      /\ ~g[i].needsFull /\ g[i].mirrored = p.mirrored
      /\ PageMark(g[i]) = IF i = 0 THEN PageMark(p) ELSE FrameMark(frames[i])
<1>2. Good(0)
  BY <1>1
<1>3. ASSUME NEW i \in 1..Len(frames), Good(i - 1) PROVE Good(i)
  <2>1. i - 1 \in 0..Len(frames) /\ g[i - 1] \in Pages /\ frames[i] \in Frames /\ i # 0 /\ (i - 1 = 0 <=> i = 1)
    BY <1>1
  <2>2. Continues(IF i = 1 THEN PageMark(p) ELSE FrameMark(frames[i - 1]), frames[i])
    BY DEF Links
  <2>3. Continues(PageMark(g[i - 1]), frames[i])
    BY <1>3, <2>1, <2>2
  <2>4. LET q == Applied(g[i - 1], frames[i]) IN
        /\ ~q.needsFull /\ q.mirrored = g[i - 1].mirrored /\ PageMark(q) = FrameMark(frames[i])
    BY <1>3, <2>1, <2>3, FrameApplies
  <2> QED BY <1>1, <1>3, <2>1, <2>4
<1> HIDE DEF Good
<1>4. \A i \in 0..Len(frames) : Good(i)
  <2> DEFINE bad == {i \in 0..Len(frames) : ~Good(i)}
  <2>1. SUFFICES ASSUME bad # {} PROVE FALSE
    OBVIOUS
  <2>2. bad \subseteq Nat
    OBVIOUS
  <2>3. PICK m \in bad : \A k \in bad : m <= k
    BY <2>1, <2>2, LeastNumber
  <2>4. m # 0
    BY <1>2, <2>3
  <2>5. m \in 1..Len(frames) /\ m - 1 \in 0..Len(frames) /\ m - 1 \notin bad
    BY <2>3, <2>4
  <2> QED BY <1>3, <2>3, <2>5
<1>5. Len(frames) \in 0..Len(frames) /\ Len(frames) # 0 /\ g[Len(frames)] \in Pages
  BY <1>1
<1>6. Good(Len(frames))
  BY <1>4, <1>5
<1> QED BY <1>1, <1>5, <1>6 DEF Good

\* No frame ends a page or its connection.
LEMMA AppliedKeeps ==
  ASSUME NEW p \in Pages, NEW frames \in Seq(Frames)
  PROVE  AppliedAll(p, frames).ended = p.ended /\ AppliedAll(p, frames).connected = p.connected
<1>1. PICK g \in [0..Len(frames) -> Pages] :
        /\ g[0] = p
        /\ \A i \in 1..Len(frames) : g[i] = Applied(g[i - 1], frames[i])
        /\ AppliedAll(p, frames) = g[Len(frames)]
  BY AppliedOneByOne
<1>2. ASSUME NEW q \in Pages, NEW f PROVE Applied(q, f).ended = q.ended /\ Applied(q, f).connected = q.connected
  BY DEF Applied, Pages
<1>3. \A i \in 0..Len(frames) : g[i].ended = p.ended /\ g[i].connected = p.connected
  <2> DEFINE bad == {i \in 0..Len(frames) : ~(g[i].ended = p.ended /\ g[i].connected = p.connected)}
  <2>1. SUFFICES ASSUME bad # {} PROVE FALSE
    OBVIOUS
  <2>2. bad \subseteq Nat
    OBVIOUS
  <2>3. PICK m \in bad : \A k \in bad : m <= k
    BY <2>1, <2>2, LeastNumber
  <2>4. m # 0
    BY <1>1, <2>3
  <2>5. m \in 1..Len(frames) /\ m - 1 \in 0..Len(frames) /\ m - 1 \notin bad
    BY <2>3, <2>4
  <2> QED BY <1>1, <1>2, <2>3, <2>5
<1>4. Len(frames) \in 0..Len(frames)
  OBVIOUS
<1> QED BY <1>1, <1>3, <1>4

\* p and q show the same, and are connected alike.
SameSight(p, q) ==
  /\ p.mirrored = q.mirrored /\ p.needsFull = q.needsFull
  /\ p.seq = q.seq /\ p.tick = q.tick /\ p.cursor = q.cursor
  /\ p.connected = q.connected /\ p.ended = q.ended

LEMMA SameSightHears ==
  ASSUME NEW p, NEW p2, SameSight(p, p2), NEW q, NEW s, NEW seat, NEW round, NEW tick,
         Hears(p, q, s, seat, round, tick)
  PROVE  Hears(p2, q, s, seat, round, tick)
<1>1. PageMark(p) = PageMark(p2)
  BY DEF SameSight, PageMark
<1>2. \A i : Reached(p, q, i) = Reached(p2, q, i)
  BY <1>1 DEF Reached
<1>3. \A k : Chained(p, q, k, round) => Chained(p2, q, k, round)
  BY <1>2 DEF SameSight, Chained
<1> QED BY <1>2, <1>3 DEF Hears

\* The page after the message m, when it goes on: it has a new baseline, the
\* frames of a batch of its round, or what it had.
Sees(p, m, n) ==
  /\ m.type = "full" => ~n.needsFull /\ n.mirrored = m.round /\ PageMark(n) = FullMark(m)
  /\ (m.type = "batch" /\ m.round = p.round) =>
       LET q == AppliedAll(p, m.frames) IN
       n.needsFull = q.needsFull /\ n.mirrored = q.mirrored /\ PageMark(n) = PageMark(q)

LEMMA HearSees ==
  ASSUME TypeOK, NEW c \in Clients, Hear(c)
  PROVE  pages'[c].ended = "no" => /\ pages[c].ended = "no" /\ pages[c].connected = pages'[c].connected
                                   /\ Sees(pages[c], Head(down[c]), pages'[c])
<1> DEFINE p == pages[c]
<1> DEFINE m == Head(down[c])
<1>1. /\ p \in Pages /\ pages \in [Clients -> Pages] /\ m \in Messages /\ pages'[c] \in Pages
  <2>1. TypeOK'
    BY HearTyped
  <2> QED BY <2>1 DEF TypeOK, Hear
<1>2. GivesUp(c, p, m) \/ TakesFull(c, p, m) \/ TakesBatch(c, p, m) \/ FollowsLobby(c, p, m)
  BY HearCases, Zenon DEF Takes
<1>a. ASSUME NEW n, NEW q, PageDoes(c, n, q) PROVE pages'[c] = n
  BY <1>1, <1>a DEF PageDoes
<1> HIDE DEF p, m
<1>3. CASE GivesUp(c, p, m)
  <2>1. PICK cause \in {"outdated", "rejected"} : pages'[c] = [p EXCEPT !.ended = cause, !.connected = FALSE]
    BY <1>3, <1>a DEF GivesUp
  <2>2. pages'[c].ended # "no"
    BY <1>1, <2>1 DEF Pages
  <2> QED BY <2>2
<1>4. CASE TakesFull(c, p, m)
  <2> DEFINE n == Rebased(p, m)
  <2>1. pages'[c] = n \/ pages'[c] = [n EXCEPT !.preparing = n.round]
    BY <1>4, <1>a DEF TakesFull
  <2>2. m.type = "full" /\ m \in Fulls
    BY <1>1, <1>4, MessageKinds DEF TakesFull
  <2>3. n \in Pages
    BY <1>1, <2>2, PageAfterTyped
  <2>4. /\ n.mirrored = m.round /\ n.seq = m.seq /\ n.tick = m.tick /\ n.cursor = m.cursor /\ ~n.needsFull
        /\ n.ended = p.ended /\ n.connected = p.connected
    BY <1>1 DEF Rebased, Pages
  <2> HIDE DEF n
  <2>5. /\ pages'[c].mirrored = m.round /\ pages'[c].seq = m.seq /\ pages'[c].tick = m.tick
        /\ pages'[c].cursor = m.cursor /\ ~pages'[c].needsFull /\ pages'[c].ended = p.ended
        /\ pages'[c].connected = p.connected
    BY <2>1, <2>3, <2>4 DEF Pages
  <2>6. PageMark(pages'[c]) = FullMark(m)
    BY <2>5 DEF PageMark, FullMark
  <2> QED BY <2>2, <2>5, <2>6 DEF Sees, p, m
<1>5. CASE TakesBatch(c, p, m)
  <2> DEFINE n == AppliedAll(p, m.frames)
  <2>1. pages'[c] = n \/ pages'[c] = [n EXCEPT !.requested = TRUE]
    BY <1>5, <1>a DEF TakesBatch
  <2>2. m.type = "batch" /\ m.frames \in Seq(Frames)
    BY <1>1, <1>5, MessageKinds DEF TakesBatch, BatchesSent
  <2>3. n \in Pages
    BY <1>1, <2>2, AppliedAllTyped
  <2>4. n.ended = p.ended /\ n.connected = p.connected
    BY <1>1, <2>2, AppliedKeeps
  <2> HIDE DEF n
  <2>5. /\ pages'[c].mirrored = n.mirrored /\ pages'[c].seq = n.seq /\ pages'[c].tick = n.tick
        /\ pages'[c].cursor = n.cursor /\ pages'[c].needsFull = n.needsFull /\ pages'[c].ended = n.ended
        /\ pages'[c].connected = n.connected
    BY <2>1, <2>3 DEF Pages
  <2>6. PageMark(pages'[c]) = PageMark(n)
    BY <2>5 DEF PageMark
  <2> QED BY <2>2, <2>4, <2>5, <2>6 DEF Sees, n, p, m
<1>6. CASE FollowsLobby(c, p, m)
  <2>1. pages'[c] = PageAfter(p, m) /\ m.type # "full" /\ (m.type = "batch" => m.round # p.round)
    BY <1>6, <1>a DEF FollowsLobby
  <2>2. PageAfter(p, m).ended = p.ended /\ PageAfter(p, m).connected = p.connected
    BY <1>1 DEF PageAfter, Pages
  <2> QED BY <2>1, <2>2 DEF Sees, p, m
<1> QED BY <1>2, <1>3, <1>4, <1>5, <1>6

\* What a page hears of the messages is what it has yet to hear after the first.
LEMMA HearsOn ==
  ASSUME NEW p \in Pages, ~p.needsFull => p.mirrored = p.round, NEW n \in Pages,
         NEW q \in Seq(Messages), q # <<>>, Sees(p, Head(q), n),
         NEW s, NEW seat, NEW round, NEW tick, Hears(p, q, s, seat, round, tick)
  PROVE  Hears(n, Tail(q), s, seat, round, tick)
<1> DEFINE t == Tail(q)
<1>1. PICK k \in 0..Len(q) :
        Chained(p, q, k, round) /\ LeadsOn(Reached(p, q, Len(q)), s, seat, tick)
  BY DEF Hears
<1>2. /\ Len(q) \in Nat \ {0} /\ Head(q) = q[1] /\ q[1] \in Messages /\ Len(t) = Len(q) - 1
      /\ t \in Seq(Messages) /\ \A i \in 1..Len(t) : t[i] = q[i + 1]
  OBVIOUS
<1> HIDE DEF t
<1>3. \A i \in 1..Len(t) : Reached(n, t, i) = Reached(p, q, i + 1)
  <2>1. SUFFICES ASSUME NEW i \in 1..Len(t) PROVE Reached(n, t, i) = Reached(p, q, i + 1)
    OBVIOUS
  <2>2. i # 0 /\ i + 1 # 0 /\ t[i] = q[i + 1]
    BY <1>2
  <2> QED BY <2>2 DEF Reached
<1>4. ASSUME NEW j \in 0..Len(t), k <= j + 1,
             IF j = 0 THEN n.mirrored = round /\ ~n.needsFull ELSE t[j].type = "full" /\ t[j].round = round,
             j = 0 => Reached(n, t, 0) = Reached(p, q, 1)
      PROVE  Hears(n, t, s, seat, round, tick)
  <2>1. \A i \in 0..Len(t) : i >= j => Reached(n, t, i) = Reached(p, q, i + 1)
    BY <1>2, <1>3, <1>4
  <2>2. ASSUME NEW i \in (j + 1)..Len(t) PROVE GoodBatch(Reached(n, t, i - 1), t[i], round)
    <3>1. i \in 1..Len(t) /\ i - 1 \in 0..Len(t) /\ i - 1 >= j /\ i - 1 + 1 = i /\ i + 1 - 1 = i
          /\ i + 1 \in (k + 1)..Len(q)
      BY <1>2, <1>4
    <3>2. GoodBatch(Reached(p, q, i + 1 - 1), q[i + 1], round)
      BY <1>1, <3>1 DEF Chained
    <3>3. Reached(n, t, i - 1) = Reached(p, q, i)
      BY <2>1, <3>1
    <3> QED BY <1>2, <3>1, <3>2, <3>3
  <2>3. Chained(n, t, j, round)
    BY <1>4, <2>2 DEF Chained
  <2>4. Reached(n, t, Len(t)) = Reached(p, q, Len(q))
    <3>1. Len(t) \in 0..Len(t) /\ Len(t) >= j /\ Len(t) + 1 = Len(q)
      BY <1>2
    <3> QED BY <2>1, <3>1
  <2> QED BY <1>1, <2>3, <2>4 DEF Hears
<1>5. CASE k > 1
  <2>1. k - 1 \in 0..Len(t) /\ k - 1 \in 1..Len(t) /\ k - 1 # 0 /\ k - 1 + 1 = k /\ k <= k - 1 + 1
    BY <1>2, <1>5
  <2>2. t[k - 1].type = "full" /\ t[k - 1].round = round
    BY <1>1, <1>2, <2>1 DEF Chained
  <2>3. Hears(n, t, s, seat, round, tick)
    BY <1>4, <2>1, <2>2
  <2> QED BY <2>3 DEF t
<1>6. ASSUME k <= 1, n.mirrored = round /\ ~n.needsFull, PageMark(n) = Reached(p, q, 1)
      PROVE  Hears(n, t, s, seat, round, tick)
  <2>1. 0 \in 0..Len(t) /\ k <= 0 + 1
    BY <1>2, <1>6
  <2>2. Reached(n, t, 0) = Reached(p, q, 1)
    BY <1>6 DEF Reached
  <2> QED BY <1>4, <1>6, <2>1, <2>2
<1>7. CASE k = 1
  <2>1. q[1].type = "full" /\ q[1].round = round
    BY <1>1, <1>7 DEF Chained
  <2>2. ~n.needsFull /\ n.mirrored = round /\ PageMark(n) = FullMark(q[1])
    BY <1>2, <2>1 DEF Sees
  <2>3. Reached(p, q, 1) = FullMark(q[1])
    BY <2>1 DEF Reached
  <2>4. Hears(n, t, s, seat, round, tick)
    BY <1>6, <1>7, <2>2, <2>3
  <2> QED BY <2>4 DEF t
<1>8. CASE k = 0
  <2>1. p.mirrored = round /\ ~p.needsFull
    BY <1>1, <1>8 DEF Chained
  <2>2. GoodBatch(Reached(p, q, 1 - 1), q[1], round)
    <3>1. 1 \in (k + 1)..Len(q)
      BY <1>2, <1>8
    <3> QED BY <1>1, <3>1 DEF Chained
  <2>3. q[1].type = "batch" /\ q[1].round = round /\ q[1].frames # <<>> /\ Links(PageMark(p), q[1].frames)
    BY <2>2 DEF GoodBatch, Reached
  <2>4. q[1].frames \in Seq(Frames)
    BY <1>2, <2>3, MessageKinds DEF BatchesSent
  <2> DEFINE a == AppliedAll(p, q[1].frames)
  <2>5. ~a.needsFull /\ a.mirrored = p.mirrored /\ PageMark(a) = FrameMark(q[1].frames[Len(q[1].frames)])
    BY <2>1, <2>3, <2>4, BatchApplies
  <2>6. n.needsFull = a.needsFull /\ n.mirrored = a.mirrored /\ PageMark(n) = PageMark(a)
    BY <1>2, <2>1, <2>3 DEF Sees
  <2> HIDE DEF a
  <2>7. Reached(p, q, 1) = FrameMark(q[1].frames[Len(q[1].frames)])
    BY <2>3 DEF Reached
  <2>8. Hears(n, t, s, seat, round, tick)
    BY <1>6, <1>8, <2>1, <2>5, <2>6, <2>7
  <2> QED BY <2>8 DEF t
<1> QED BY <1>5, <1>7, <1>8

-----------------------------------------------------------------------------
(* Every step keeps what is heard.                                         *)

\* For a client that was in touch before, to whom nothing new was sent.
LEMMA StillHears ==
  ASSUME TypeOK, TypeOK', HeardInv, NEW c \in Clients, InTouch(c), SameSight(pages[c], pages'[c]),
         down'[c] = down[c], seats'[c].baseline = seats[c].baseline, room.phase = "playing",
         room'.round = room.round, Extends(stream, stream'), room.tick <= room'.tick
  PROVE  Hears(pages'[c], down'[c], stream', seats'[c], room'.round, room'.tick)
<1>1. /\ pages[c] \in Pages /\ down[c] \in Seq(Messages) /\ stream \in Streams /\ seats[c] \in Seats
      /\ seats'[c] \in Seats /\ room.tick \in Nat /\ room' \in Rooms
  BY DEF TypeOK, Rooms
<1>2. /\ Hears(pages[c], down[c], stream, seats[c], room.round, room.tick)
      /\ seats[c].baseline <= stream.seq
  BY DEF HeardInv, InTouch
<1>3. Hears(pages[c], down[c], stream', seats[c], room.round, room'.tick)
  BY <1>1, <1>2, HearsFurther
<1>4. Hears(pages'[c], down[c], stream', seats[c], room.round, room'.tick)
  BY <1>3, SameSightHears
<1>5. Unseen(stream'.frames, seats[c]) = Unseen(stream'.frames, seats'[c])
  BY UnseenByBaseline
<1> QED BY <1>4, <1>5 DEF Hears, LeadsOn

\* What the events and frames of a step make of the stream.
LEMMA ExtendsFacts ==
  ASSUME NEW s \in Streams, NEW t, Extends(s, t), room' \in Rooms
  PROVE  /\ t \in Streams /\ s.seq <= t.seq
         /\ s.sent <= s.cursor => t.sent <= t.cursor
<1>1. PICK u \in Streams :
        /\ u.seq = s.seq /\ u.sent = s.sent /\ u.frames = s.frames /\ s.cursor <= u.cursor
        /\ t = u \/ t = Captured(u)
  BY DEF Extends
<1>2. s.seq \in Nat /\ s.sent \in Nat /\ s.cursor \in Nat /\ u.cursor \in Nat /\ u.seq \in Nat
  BY DEF Streams
<1>3. CASE t = u
  BY <1>1, <1>2, <1>3
<1>4. CASE t = Captured(u)
  <2>1. Captured(u) \in Streams
    BY CapturedTyped
  <2>a. ASSUME NEW q, NEW v, v = [seq |-> u.seq + 1, previous |-> room'.world, sent |-> u.cursor,
                                  cursor |-> u.cursor, frames |-> q]
        PROVE  v.seq = u.seq + 1 /\ v.sent = u.cursor /\ v.cursor = u.cursor
    BY <2>a
  <2>2. Captured(u) = [seq |-> u.seq + 1, previous |-> room'.world, sent |-> u.cursor,
                       cursor |-> u.cursor, frames |-> Append(u.frames, NewFrame(u))]
    BY CapturedTyped
  <2>3. t.seq = u.seq + 1 /\ t.sent = u.cursor /\ t.cursor = u.cursor
    BY <1>4, <2>a, <2>2
  <2> QED BY <1>1, <1>2, <1>4, <2>1, <2>3
<1> QED BY <1>1, <1>3, <1>4

\* t is no earlier than s, and is sent no event it does not have.
Advances(s, t) == s.seq <= t.seq /\ (s.sent <= s.cursor => t.sent <= t.cursor)

LEMMA StreamsAdvance ==
  ASSUME NEW s \in Streams, room' \in Rooms
  PROVE  /\ Advances(s, s) /\ Advances(s, Current(s)) /\ Advances(s, Complete(s))
         /\ Advances(s, [Complete(s) EXCEPT !.frames = <<>>])
         /\ Extends(s, s) /\ Extends(s, Complete(s))
         /\ room'.phase = "playing" => Extends(s, Current(s))
<1>1. /\ s.seq \in Nat /\ s.sent \in Nat /\ s.cursor \in Nat /\ Captured(s) \in Streams
  BY CapturedTyped DEF Streams
<1>2. Extends(s, s) /\ Extends(s, Captured(s))
  BY <1>1 DEF Extends
<1>3. Advances(s, s) /\ Advances(s, Captured(s))
  BY <1>1, <1>2, ExtendsFacts DEF Advances
<1>4. ASSUME NEW t \in Streams, Advances(s, t) PROVE Advances(s, [t EXCEPT !.frames = <<>>])
  <2>1. /\ [t EXCEPT !.frames = <<>>].seq = t.seq /\ [t EXCEPT !.frames = <<>>].sent = t.sent
        /\ [t EXCEPT !.frames = <<>>].cursor = t.cursor
    BY DEF Streams
  <2> QED BY <1>4, <2>1 DEF Advances
<1>5. Complete(s) = s \/ Complete(s) = Captured(s)
  BY CompleteTyped
<1>6. Current(s) = s \/ Current(s) = Captured(s) \/ Current(s) = [Captured(s) EXCEPT !.frames = <<>>]
  BY DEF Current
<1>7. room'.phase = "playing" => Current(s) = s \/ Current(s) = Captured(s)
  BY DEF Current
<1> QED BY <1>1, <1>2, <1>3, <1>4, <1>5, <1>6, <1>7

\* The client was sent the baseline of the stream, and nothing after it.
FreshFull(c) ==
  /\ down'[c] # <<>> /\ down'[c][Len(down'[c])] = Full(stream')
  /\ seats'[c].baseline = stream'.seq

LEMMA FreshHears ==
  ASSUME TypeOK', FollowInv', room'.phase = "playing", NEW c \in Clients, FreshFull(c), stream'.sent <= stream'.cursor
  PROVE  Hears(pages'[c], down'[c], stream', seats'[c], room'.round, room'.tick)
<1>1. /\ stream' \in Streams /\ down'[c] \in Seq(Messages) /\ seats'[c] \in Seats /\ room' \in Rooms
      /\ published' \in Seq(Seq(Nat))
  BY DEF TypeOK
<1>2. /\ stream'.frames \in Seq(FramesOf(published', Len(published')))
      /\ Len(published'[Len(published')]) = stream'.seq + 1 /\ Len(published') \in DOMAIN published'
  <2>1. published' # <<>>
    BY <1>1 DEF FollowInv, Built
  <2> QED BY <2>1 DEF FollowInv, StreamOf, Shows
<1>3. ASSUME NEW i \in 1..Len(stream'.frames) PROVE stream'.frames[i].seq <= seats'[c].baseline
  <2>1. stream'.frames[i] \in FramesOf(published', Len(published'))
    BY <1>2
  <2>2. stream'.frames[i].seq \in Nat /\ stream'.frames[i].seq + 1 \in DOMAIN published'[Len(published')]
    BY <2>1 DEF FramesOf, Frames
  <2>3. published'[Len(published')] \in Seq(Nat) /\ stream'.seq \in Nat
    BY <1>1, <1>2 DEF Streams
  <2>4. ASSUME NEW q \in Seq(Nat), NEW x \in Nat, NEW y \in Nat, x + 1 \in DOMAIN q, Len(q) = y + 1 PROVE x <= y
    BY <2>4
  <2>5. stream'.frames[i].seq <= stream'.seq
    BY <1>2, <2>2, <2>3, <2>4
  <2> QED BY <2>5 DEF FreshFull
<1>4. Unseen(stream'.frames, seats'[c]) = <<>>
  <2>1. stream'.frames \in Seq(Frames)
    BY <1>1 DEF Streams
  <2> QED BY <1>1, <1>3, <2>1, UnseenFacts
<1> DEFINE m == Full(stream')
<1>5. m.type = "full" /\ m.round = room'.round /\ m.seq = stream'.seq /\ m.cursor = stream'.cursor /\ m.tick = room'.tick
  BY DEF Full
<1>6. down'[c] # <<>> /\ m = down'[c][Len(down'[c])]
  BY DEF FreshFull
<1>7. room'.tick \in Nat
  BY <1>1 DEF Rooms
<1> HIDE DEF m
<1>8. Hears(pages'[c], down'[c], stream', seats'[c], m.round, room'.tick)
  BY <1>1, <1>4, <1>5, <1>6, <1>7, HearsFull
<1> QED BY <1>5, <1>8

\* The client was there before, and nothing but frames to come is new to it.
Stays(c) ==
  /\ InTouch(c) /\ SameSight(pages[c], pages'[c])
  /\ down'[c] = down[c] /\ seats'[c].baseline = seats[c].baseline

\* What a step has to do to every client to keep it in touch.
LEMMA KeepsInTouch ==
  ASSUME TypeOK, TypeOK', FollowInv', HeardInv, room'.phase = "playing" => room.phase = "playing",
         room'.round = room.round, room.tick <= room'.tick, Advances(stream, stream'),
         room'.phase = "playing" => Extends(stream, stream'),
         \A c \in Clients : seats'[c].joined =>
           \/ seats'[c].baseline = stream'.seq
           \/ seats[c].joined /\ seats'[c].baseline = seats[c].baseline,
         room'.phase = "playing" => \A c \in Clients : InTouch(c)' => Stays(c) \/ FreshFull(c)
  PROVE  HeardInv'
<1>1. stream'.sent <= stream'.cursor
  BY DEF HeardInv, Advances
<1>2. ASSUME NEW c \in Clients, seats'[c].joined PROVE seats'[c].baseline <= stream'.seq
  <2>1. stream'.seq \in Nat /\ stream.seq \in Nat /\ stream.seq <= stream'.seq /\ seats[c].baseline \in Nat
    BY DEF TypeOK, Streams, Seats, Advances
  <2>2. seats[c].joined => seats[c].baseline <= stream.seq
    BY DEF HeardInv
  <2> QED BY <1>2, <2>1, <2>2
<1>3. ASSUME room'.phase = "playing", NEW c \in Clients, InTouch(c)'
      PROVE  Hears(pages'[c], down'[c], stream', seats'[c], room'.round, room'.tick)
  <2>1. CASE Stays(c)
    BY <1>3, <2>1, StillHears DEF Stays
  <2>2. CASE FreshFull(c)
    BY <1>1, <1>3, <2>2, FreshHears
  <2> QED BY <1>3, <2>1, <2>2
<1> QED BY <1>1, <1>2, <1>3 DEF HeardInv

LEMMA JoinHeard ==
  ASSUME TypeOK, TypeOK', FollowInv, FollowInv', HeardInv, NEW c \in Clients, Join(c)
  PROVE  HeardInv'
<1>1. PICK w \in Handed, events \in {0, 1} :
        /\ room' = [room EXCEPT !.world = w]
        /\ LET s == Current([stream EXCEPT !.cursor = @ + events]) IN
             /\ stream' = IF Built THEN s ELSE stream
             /\ down' = [down EXCEPT ![c] = <<Welcome, Lobby>> \o IF Built THEN <<Control, Full(s)>> ELSE <<>>]
        /\ seats' = [seats EXCEPT ![c] = [joined |-> TRUE, suspended |-> FALSE, watching |-> FALSE,
                                          baseline |-> stream'.seq, fulls |-> 0]]
  BY DEF Join
<1>2. /\ room \in Rooms /\ room' \in Rooms /\ stream \in Streams /\ pages \in [Clients -> Pages]
      /\ down \in [Clients -> Seq(Messages)] /\ seats \in [Clients -> Seats]
  BY DEF TypeOK
<1>3. room'.round = room.round /\ room'.phase = room.phase /\ room'.tick = room.tick
  BY <1>1, <1>2 DEF Rooms
<1> DEFINE s0 == [stream EXCEPT !.cursor = @ + events]
<1> DEFINE s == Current(s0)
<1>4. /\ s0 \in Streams /\ s0.seq = stream.seq /\ s0.sent = stream.sent
      /\ s0.frames = stream.frames /\ s0.cursor = stream.cursor + events
  BY <1>2, EventsTyped
<1>5. /\ stream' = IF Built THEN s ELSE stream
      /\ down' = [down EXCEPT ![c] = <<Welcome, Lobby>> \o IF Built THEN <<Control, Full(s)>> ELSE <<>>]
  BY <1>1
<1> HIDE DEF s0
<1>6. stream.sent \in Nat /\ stream.cursor \in Nat /\ stream.cursor <= s0.cursor
  BY <1>2, <1>4 DEF Streams
<1>7. Advances(stream, s) /\ Advances(stream, stream)
  <2>1. Advances(s0, s)
    BY <1>2, <1>4, StreamsAdvance
  <2>2. stream.sent <= stream.cursor => s0.sent <= s0.cursor
    <3>1. ASSUME NEW a \in Nat, NEW b \in Nat, NEW d \in Nat, a <= b, b <= d PROVE a <= d
      BY <3>1
    <3>2. s0.cursor \in Nat
      BY <1>4 DEF Streams
    <3> QED BY <1>4, <1>6, <3>1, <3>2
  <2>3. Advances(stream, stream)
    BY <1>2, StreamsAdvance
  <2> QED BY <1>4, <2>1, <2>2, <2>3 DEF Advances
<1>8. room'.phase = "playing" => Extends(stream, s)
  <2>1. room'.phase = "playing" => s = s0 \/ s = Captured(s0)
    BY DEF Current
  <2> QED BY <1>4, <1>6, <2>1 DEF Extends
<1>9. /\ seats'[c].baseline = stream'.seq
      /\ \A d \in Clients : d # c => seats'[d] = seats[d] /\ down'[d] = down[d]
  BY <1>1, <1>2
<1>10. \A d \in Clients : d # c => pages'[d] = pages[d] /\ (d \notin skipped' => d \notin skipped)
  BY <1>2 DEF Join
<1> HIDE DEF s
<1>11. room'.phase = "playing" => Built
  BY <1>3 DEF FollowInv
<1>12. ASSUME NEW d \in Clients, d # c, InTouch(d)' PROVE Stays(d)
  BY <1>9, <1>10, <1>12 DEF Stays, InTouch, SameSight
<1>13. Built => FreshFull(c)
  <2>1. ASSUME Built PROVE down'[c] = <<Welcome, Lobby>> \o <<Control, Full(stream')>>
    BY <1>2, <1>5, <2>1
  <2>2. ASSUME NEW x, NEW y, NEW z, NEW m
        PROVE  LET q == <<x, y>> \o <<z, m>> IN q # <<>> /\ q[Len(q)] = m
    OBVIOUS
  <2> QED BY <1>9, <2>1, <2>2 DEF FreshFull
<1>14. \A d \in Clients : seats'[d].joined =>
         \/ seats'[d].baseline = stream'.seq
         \/ seats[d].joined /\ seats'[d].baseline = seats[d].baseline
  BY <1>9
<1>15. Advances(stream, stream') /\ (room'.phase = "playing" => Extends(stream, stream'))
  BY <1>5, <1>7, <1>8, <1>11
<1>16. room.tick <= room'.tick
  BY <1>2, <1>3 DEF Rooms
<1> QED BY <1>3, <1>11, <1>12, <1>13, <1>14, <1>15, <1>16, KeepsInTouch

LEMMA LinksHeard ==
  ASSUME TypeOK, TypeOK', FollowInv', HeardInv, NEW c \in Clients, LoseLink(c) \/ LinkLost(c)
  PROVE  HeardInv'
<1>1. /\ room \in Rooms /\ room' \in Rooms /\ stream \in Streams /\ pages \in [Clients -> Pages]
      /\ down \in [Clients -> Seq(Messages)] /\ seats \in [Clients -> Seats]
  BY DEF TypeOK
<1>2. room'.round = room.round /\ room'.phase = room.phase /\ room'.tick = room.tick
  <2>1. CASE LoseLink(c)
    BY <2>1 DEF LoseLink
  <2>2. CASE LinkLost(c)
    <3>1. PICK w : room' = [room EXCEPT !.world = w]
      BY <2>2 DEF LinkLost
    <3> QED BY <1>1, <3>1 DEF Rooms
  <2> QED BY <2>1, <2>2
<1>3. UNCHANGED <<stream, skipped>>
  BY DEF LoseLink, LinkLost
<1>4. \A d \in Clients : d # c => pages'[d] = pages[d] /\ down'[d] = down[d] /\ seats'[d] = seats[d]
  BY <1>1 DEF LoseLink, LinkLost
<1>5. \A d \in Clients : seats'[d].joined => seats[d].joined /\ seats'[d].baseline = seats[d].baseline
  <2>1. \A d \in Clients : seats[d] \in Seats
    BY <1>1
  <2>2. seats' = seats \/ seats' = [seats EXCEPT ![c] = [seats[c] EXCEPT !.joined = FALSE]]
    BY DEF LoseLink, LinkLost
  <2> QED BY <1>1, <2>1, <2>2 DEF Seats
<1>6. ~InTouch(c)'
  <2>1. CASE LoseLink(c)
    <3>1. pages' = [pages EXCEPT ![c] = [pages[c] EXCEPT !.connected = FALSE]]
      BY <2>1 DEF LoseLink
    <3>2. pages'[c].connected = FALSE
      BY <1>1, <3>1 DEF Pages
    <3> QED BY <3>2 DEF InTouch
  <2>2. CASE LinkLost(c)
    <3>1. seats' = [seats EXCEPT ![c] = [seats[c] EXCEPT !.joined = FALSE]]
      BY <2>2 DEF LinkLost
    <3>2. seats'[c].joined = FALSE
      BY <1>1, <3>1 DEF Seats
    <3> QED BY <3>2 DEF InTouch
  <2> QED BY <2>1, <2>2
<1>7. ASSUME NEW d \in Clients, InTouch(d)' PROVE Stays(d)
  BY <1>3, <1>4, <1>6, <1>7 DEF Stays, InTouch, SameSight
<1>8. Advances(stream, stream') /\ Extends(stream, stream')
  BY <1>1, <1>3, StreamsAdvance
<1>9. room.tick <= room'.tick
  BY <1>1, <1>2 DEF Rooms
<1> QED BY <1>2, <1>5, <1>7, <1>8, <1>9, KeepsInTouch

\* Nothing the player does takes the mirror anywhere.
LEMMA PlayerSights ==
  ASSUME TypeOK, NEW c \in Clients, PlayerDoes(c)
  PROVE  \A d \in Clients : SameSight(pages[d], pages'[d])
<1>1. pages[c] \in Pages /\ pages \in [Clients -> Pages]
  BY DEF TypeOK
<1>2. SUFFICES \E p : pages' = [pages EXCEPT ![c] = p] /\ SameSight(pages[c], p)
  BY <1>1 DEF SameSight
<1>3. ASSUME NEW p \in Pages
      PROVE  /\ \A b \in BOOLEAN : /\ SameSight(p, [p EXCEPT !.hidden = b]) /\ SameSight(p, [p EXCEPT !.menu = b])
                                   /\ SameSight(p, [p EXCEPT !.requested = b])
             /\ \A n \in Nat : SameSight(p, [p EXCEPT !.preparing = n]) /\ SameSight(p, [p EXCEPT !.ready = n])
  BY DEF SameSight, Pages
<1>4. ASSUME NEW p, NEW q, NEW r, SameSight(p, q), SameSight(q, r) PROVE SameSight(p, r)
  BY <1>4 DEF SameSight
<1>5. CASE Hide(c) \/ Pause(c) \/ GetBack(c)
  BY <1>1, <1>3, <1>5 DEF Hide, Pause, GetBack, PageDoes
<1>6. CASE Show(c)
  <2> DEFINE p == [pages[c] EXCEPT !.hidden = FALSE]
  <2> DEFINE q == [p EXCEPT !.requested = TRUE]
  <2>1. pages' = [pages EXCEPT ![c] = p] \/ pages' = [pages EXCEPT ![c] = q]
    BY <1>6 DEF Show, PageDoes
  <2>2. p \in Pages
    BY <1>1 DEF Pages
  <2>3. SameSight(pages[c], p)
    BY <1>1, <1>3
  <2> HIDE DEF p
  <2>4. SameSight(p, q)
    BY <1>3, <2>2
  <2> HIDE DEF q
  <2> QED BY <1>4, <2>1, <2>3, <2>4
<1>7. CASE ArenaPrepared(c)
  <2> DEFINE p == [pages[c] EXCEPT !.preparing = 0]
  <2> DEFINE q == [p EXCEPT !.ready = p.round]
  <2> DEFINE r == [p EXCEPT !.preparing = p.round]
  <2>1. pages' \in {[pages EXCEPT ![c] = p], [pages EXCEPT ![c] = q], [pages EXCEPT ![c] = r]}
    BY <1>7 DEF ArenaPrepared, PageDoes, Prepare
  <2>2. p \in Pages
    BY <1>1 DEF Pages
  <2>3. SameSight(pages[c], p)
    BY <1>1, <1>3
  <2> HIDE DEF p
  <2>4. p.round \in Nat
    BY <2>2 DEF Pages
  <2>5. SameSight(p, q) /\ SameSight(p, r)
    BY <1>3, <2>2, <2>4
  <2> HIDE DEF q, r
  <2> QED BY <1>4, <2>1, <2>3, <2>5
<1> QED BY <1>5, <1>6, <1>7 DEF PlayerDoes

LEMMA PlayerHeard ==
  ASSUME TypeOK, TypeOK', FollowInv', HeardInv, NEW c \in Clients, PlayerDoes(c)
  PROVE  HeardInv'
<1>1. UNCHANGED <<room, stream, seats, down, skipped>>
  BY DEF PlayerDoes, Hide, Show, Pause, GetBack, ArenaPrepared, Move
<1>2. \A d \in Clients : SameSight(pages[d], pages'[d])
  BY PlayerSights
<1>3. \A d \in Clients : InTouch(d)' => Stays(d)
  BY <1>1, <1>2 DEF InTouch, Stays, SameSight
<1>4. stream \in Streams /\ room' \in Rooms /\ room.tick \in Nat
  BY DEF TypeOK, Rooms
<1>5. Advances(stream, stream') /\ Extends(stream, stream')
  BY <1>1, <1>4, StreamsAdvance
<1>6. room.tick <= room'.tick
  BY <1>1, <1>4
<1> QED BY <1>1, <1>3, <1>5, <1>6, KeepsInTouch

LEMMA FullLimitedHeard ==
  ASSUME TypeOK, TypeOK', FollowInv, FollowInv', HeardInv, NEW c \in Clients, NEW seat \in Seats,
         SendFullLimited(c, seat), seat.baseline = seats[c].baseline, seats[c].joined,
         UNCHANGED pages, room'.round = room.round, room'.phase = room.phase, room'.tick = room.tick
  PROVE  HeardInv'
<1> DEFINE s == Current(stream)
<1>1. PICK fulls \in {1, seat.fulls + 1} :
        IF fulls > MaxFulls
          THEN /\ seats' = [seats EXCEPT ![c] = [seat EXCEPT !.joined = FALSE]]
               /\ UNCHANGED <<stream, skipped>>
               /\ down' = [down EXCEPT ![c] = Sent(c, <<[type |-> "closed"]>>)]
          ELSE /\ seats' = [seats EXCEPT ![c] = [seat EXCEPT !.fulls = fulls, !.baseline = IF Built THEN s.seq ELSE @]]
               /\ stream' = IF Built THEN s ELSE stream
               /\ down' = IF Built THEN [down EXCEPT ![c] = Sent(c, <<Full(s)>>)] ELSE down
               /\ skipped' = IF Built THEN skipped \ {c} ELSE skipped
  BY DEF SendFullLimited
<1>2. /\ room \in Rooms /\ room' \in Rooms /\ stream \in Streams /\ pages \in [Clients -> Pages]
      /\ down \in [Clients -> Seq(Messages)] /\ seats \in [Clients -> Seats]
  BY DEF TypeOK
<1>3. /\ Advances(stream, s) /\ Advances(stream, stream) /\ Extends(stream, stream)
      /\ room'.phase = "playing" => Extends(stream, s)
  BY <1>2, StreamsAdvance
<1> HIDE DEF s
<1>4. room'.phase = "playing" => Built
  BY DEF FollowInv
<1>5. Advances(stream, stream') /\ (room'.phase = "playing" => Extends(stream, stream'))
  BY <1>1, <1>3, <1>4
<1>6. \A d \in Clients : d # c => seats'[d] = seats[d] /\ down'[d] = down[d]
  BY <1>1, <1>2
<1>7. \A d \in Clients : d # c /\ d \notin skipped' => d \notin skipped
  BY <1>1
<1>8. ASSUME NEW d \in Clients, d # c, InTouch(d)' PROVE Stays(d)
  BY <1>6, <1>7, <1>8 DEF Stays, InTouch, SameSight
<1>9. room.tick <= room'.tick
  BY <1>2 DEF Rooms
<1>10. CASE fulls > MaxFulls
  <2>1. seats'[c] = [seat EXCEPT !.joined = FALSE]
    BY <1>1, <1>2, <1>10
  <2>2. ~seats'[c].joined
    BY <2>1 DEF Seats
  <2>3. ~InTouch(c)'
    BY <2>2 DEF InTouch
  <2> QED BY <1>5, <1>6, <1>8, <1>9, <2>2, <2>3, KeepsInTouch
<1>11. CASE ~(fulls > MaxFulls)
  <2>1. seats'[c] = [seat EXCEPT !.fulls = fulls, !.baseline = IF Built THEN s.seq ELSE @]
    BY <1>1, <1>2, <1>11
  <2>2. seats'[c].baseline = IF Built THEN s.seq ELSE seat.baseline
    BY <2>1 DEF Seats
  <2>3. CASE Built
    <3>1. stream' = s /\ seats'[c].baseline = stream'.seq
      BY <1>1, <1>11, <2>2, <2>3
    <3>2. down'[c] = Sent(c, <<Full(stream')>>)
      BY <1>1, <1>2, <1>11, <2>3, <3>1
    <3>3. pages[c].connected => FreshFull(c)
      <4>1. ASSUME NEW S, NEW q \in Seq(S), NEW m PROVE q \o <<m>> # <<>> /\ (q \o <<m>>)[Len(q \o <<m>>)] = m
        OBVIOUS
      <4>2. pages[c].connected => down'[c] = down[c] \o <<Full(stream')>>
        BY <3>2 DEF Sent
      <4>3. down[c] \in Seq(Messages)
        BY <1>2
      <4> QED BY <3>1, <4>1, <4>2, <4>3 DEF FreshFull
    <3>4. InTouch(c)' => pages[c].connected
      BY DEF InTouch
    <3> QED BY <1>5, <1>6, <1>8, <1>9, <3>1, <3>3, <3>4, KeepsInTouch
  <2>4. CASE ~Built
    <3>1. seats'[c].baseline = seats[c].baseline
      BY <2>2, <2>4
    <3> QED BY <1>4, <1>5, <1>6, <1>9, <2>4, <3>1, KeepsInTouch
  <2> QED BY <2>3, <2>4
<1> QED BY <1>10, <1>11

LEMMA ReceiveHeard ==
  ASSUME TypeOK, TypeOK', FollowInv, FollowInv', HeardInv, NEW c \in Clients, Receive(c)
  PROVE  HeardInv'
<1> DEFINE m == Head(up[c])
<1>1. \/ UNCHANGED <<room, stream, seats, down, published, skipped>>
      \/ /\ \E w \in Handed : room' = [room EXCEPT !.world = w]
         /\ \/ HostSuspends(c, m)
            \/ SendFullLimited(c, [seats[c] EXCEPT !.suspended = FALSE, !.watching = FALSE])
            \/ SendFullLimited(c, seats[c])
  BY Zenon DEF Receive
<1>2. /\ room \in Rooms /\ room' \in Rooms /\ stream \in Streams /\ pages \in [Clients -> Pages]
      /\ down \in [Clients -> Seq(Messages)] /\ seats \in [Clients -> Seats]
      /\ UNCHANGED pages /\ seats[c].joined
  BY DEF TypeOK, Receive
<1> HIDE DEF m
<1>3. room'.round = room.round /\ room'.phase = room.phase /\ room'.tick = room.tick
  BY <1>1, <1>2 DEF Rooms
<1>4. CASE UNCHANGED <<stream, down, skipped>> /\ \A d \in Clients :
              seats'[d].joined = seats[d].joined /\ seats'[d].baseline = seats[d].baseline
  <2>1. \A d \in Clients : InTouch(d)' => Stays(d)
    BY <1>2, <1>4 DEF InTouch, Stays, SameSight
  <2>2. Advances(stream, stream') /\ Extends(stream, stream')
    BY <1>2, <1>4, StreamsAdvance
  <2>3. room.tick <= room'.tick
    BY <1>2, <1>3 DEF Rooms
  <2> QED BY <1>3, <1>4, <2>1, <2>2, <2>3, KeepsInTouch
<1>5. CASE HostSuspends(c, m)
  <2>1. seats' = [seats EXCEPT ![c] = [seats[c] EXCEPT !.suspended = TRUE, !.watching = m.watch]]
    BY <1>2, <1>5 DEF HostSuspends
  <2>2. ASSUME NEW s \in Seats
        PROVE  LET t == [s EXCEPT !.suspended = TRUE, !.watching = m.watch] IN
               t.joined = s.joined /\ t.baseline = s.baseline
    BY DEF Seats
  <2>3. ASSUME NEW d \in Clients PROVE seats'[d].joined = seats[d].joined /\ seats'[d].baseline = seats[d].baseline
    <3>1. d # c => seats'[d] = seats[d]
      BY <1>2, <2>1
    <3>2. seats'[c].joined = seats[c].joined /\ seats'[c].baseline = seats[c].baseline
      BY <1>2, <2>1, <2>2
    <3> QED BY <3>1, <3>2
  <2> QED BY <1>4, <1>5, <2>3 DEF HostSuspends
<1>6. ASSUME NEW seat \in Seats, SendFullLimited(c, seat), seat.baseline = seats[c].baseline PROVE HeardInv'
  BY <1>2, <1>3, <1>6, FullLimitedHeard
<1>7. ASSUME NEW s \in Seats
      PROVE  LET t == [s EXCEPT !.suspended = FALSE, !.watching = FALSE] IN t \in Seats /\ t.baseline = s.baseline
  BY DEF Seats
<1>8. seats[c] \in Seats
  BY <1>2
<1> QED BY <1>1, <1>4, <1>5, <1>6, <1>7, <1>8

LEMMA StartHeard ==
  ASSUME TypeOK, TypeOK', FollowInv', Start
  PROVE  HeardInv'
<1>1. /\ seats' = [c \in Clients |-> [seats[c] EXCEPT !.baseline = 0]]
      /\ stream' = [seq |-> 0, previous |-> room'.world, sent |-> 0, cursor |-> 0, frames |-> <<>>]
      /\ down' = [c \in Clients |-> IF c \in Joined THEN Sent(c, <<Lobby, Control, Full(stream')>>) ELSE down[c]]
      /\ UNCHANGED pages
  BY DEF Start
<1>2. stream'.seq = 0 /\ stream'.sent <= stream'.cursor
  BY <1>1
<1>3. ASSUME NEW c \in Clients PROVE seats'[c].baseline = 0 /\ seats'[c].joined = seats[c].joined
  <2>1. seats[c] \in Seats /\ seats'[c] = [seats[c] EXCEPT !.baseline = 0]
    BY <1>1 DEF TypeOK
  <2> QED BY <2>1 DEF Seats
<1>4. ASSUME NEW c \in Clients, InTouch(c)' PROVE FreshFull(c)
  <2>1. seats[c].joined /\ pages[c].connected
    BY <1>1, <1>3, <1>4 DEF InTouch
  <2>2. down'[c] = down[c] \o <<Lobby, Control, Full(stream')>>
    BY <1>1, <2>1 DEF Joined, Sent
  <2>3. ASSUME NEW S, NEW q \in Seq(S), NEW x, NEW y, NEW m
        PROVE  LET r == q \o <<x, y, m>> IN r # <<>> /\ r[Len(r)] = m
    OBVIOUS
  <2>4. down[c] \in Seq(Messages)
    BY DEF TypeOK
  <2> QED BY <1>2, <1>3, <2>2, <2>3, <2>4 DEF FreshFull
<1>5. ASSUME room'.phase = "playing", NEW c \in Clients, InTouch(c)'
      PROVE  Hears(pages'[c], down'[c], stream', seats'[c], room'.round, room'.tick)
  BY <1>2, <1>4, <1>5, FreshHears
<1>6. \A c \in Clients : seats'[c].joined => seats'[c].baseline <= stream'.seq
  BY <1>2, <1>3
<1> QED BY <1>2, <1>5, <1>6 DEF HeardInv

LEMMA StepHeard ==
  ASSUME TypeOK, TypeOK', FollowInv', HeardInv, Step
  PROVE  HeardInv'
<1>1. /\ room \in Rooms /\ room' \in Rooms /\ stream \in Streams
  BY DEF TypeOK
<1>2. UNCHANGED <<pages, down, seats, skipped>> /\ room.phase = "playing"
  BY DEF Step, links
<1>3. room' = [room EXCEPT !.tick = @ + 1, !.world = @ + 1, !.stepping = TRUE]
  BY DEF Step
<1>4. room'.round = room.round /\ room.tick <= room'.tick
  BY <1>1, <1>3 DEF Rooms
<1>5. Extends(stream, stream')
  <2>1. PICK events \in {0, 1} : LET s == [stream EXCEPT !.cursor = @ + events] IN
          stream' = Captured(s) \/ stream' = s
    BY DEF Step
  <2> DEFINE s == [stream EXCEPT !.cursor = @ + events]
  <2>2. /\ s \in Streams /\ s.seq = stream.seq /\ s.sent = stream.sent /\ s.frames = stream.frames
        /\ s.cursor = stream.cursor + events
    BY <1>1, EventsTyped
  <2>3. stream' = Captured(s) \/ stream' = s
    BY <2>1
  <2> HIDE DEF s
  <2>4. stream.cursor <= s.cursor
    BY <1>1, <2>2 DEF Streams
  <2> QED BY <2>2, <2>3, <2>4 DEF Extends
<1>6. Advances(stream, stream')
  BY <1>1, <1>5, ExtendsFacts DEF Advances
<1>7. \A c \in Clients : InTouch(c)' => Stays(c)
  BY <1>2 DEF InTouch, Stays, SameSight
<1> QED BY <1>2, <1>4, <1>5, <1>6, <1>7, KeepsInTouch

LEMMA BroadcastHeard ==
  ASSUME TypeOK, TypeOK', HeardInv, NEW more, Broadcast(more), UNCHANGED <<seats, pages>>,
         room'.phase = "playing" => more = <<>> /\ room.phase = "playing",
         room'.round = room.round, room'.tick = room.tick
  PROVE  HeardInv'
<1> DEFINE s == Complete(stream)
<1>1. /\ room \in Rooms /\ room' \in Rooms /\ stream \in Streams /\ pages \in [Clients -> Pages]
      /\ down \in [Clients -> Seq(Messages)] /\ seats \in [Clients -> Seats] /\ room.tick \in Nat
  BY DEF TypeOK, Rooms
<1>2. /\ stream' = [s EXCEPT !.frames = <<>>]
      /\ down' = [c \in Clients |->
                    IF c \in Streamed THEN Sent(c, Batches(c, Unseen(s.frames, seats[c])) \o more)
                    ELSE IF c \in Joined THEN Sent(c, more) ELSE down[c]]
      /\ skipped' = skipped \cup (Clients \ Streamed)
  BY DEF Broadcast
<1>3. s \in Streams /\ Extends(stream, s) /\ Advances(stream, stream')
  BY <1>1, <1>2, CompleteTyped, StreamsAdvance
<1> HIDE DEF s
<1>4. stream'.sent <= stream'.cursor
  BY <1>3 DEF HeardInv, Advances
<1>5. ASSUME NEW c \in Clients, seats'[c].joined PROVE seats'[c].baseline <= stream'.seq
  <2>1. seats[c].baseline <= stream.seq
    BY <1>5 DEF HeardInv
  <2>2. seats[c].baseline \in Nat /\ stream.seq \in Nat /\ stream'.seq \in Nat /\ stream.seq <= stream'.seq
    BY <1>1, <1>3 DEF TypeOK, Seats, Streams, Advances
  <2> QED BY <2>1, <2>2
<1>6. ASSUME room'.phase = "playing", NEW c \in Clients, InTouch(c)'
      PROVE  Hears(pages'[c], down'[c], stream', seats'[c], room'.round, room'.tick)
  <2> DEFINE b == Batches(c, Unseen(s.frames, seats[c]))
  <2>1. c \in Streamed /\ InTouch(c)
    BY <1>2, <1>6 DEF InTouch
  <2>2. Hears(pages[c], down[c], stream, seats[c], room.round, room.tick) /\ seats[c].baseline <= stream.seq
    BY <1>6, <2>1 DEF HeardInv, InTouch
  <2>3. pages[c] \in Pages /\ down[c] \in Seq(Messages) /\ seats[c] \in Seats /\ room.tick <= room'.tick
    BY <1>1
  <2>4. Hears(pages[c], down[c], s, seats[c], room.round, room'.tick)
    BY <1>1, <1>3, <2>2, <2>3, HearsFurther
  <2>5. Hears(pages[c], down[c] \o b, stream', seats[c], room.round, room'.tick)
    BY <1>1, <1>2, <1>3, <2>3, <2>4, HearsBatches
  <2>6. down'[c] = down[c] \o b
    <3>1. down'[c] = down[c] \o (b \o <<>>)
      BY <1>2, <1>6, <2>1 DEF Sent, InTouch
    <3>2. b \in Seq(Messages)
      <4>1. s.frames \in Seq(Frames)
        BY <1>3 DEF Streams
      <4> QED BY <4>1, UnseenTyped, BatchesTyped
    <3> HIDE DEF b
    <3>3. b \o <<>> = b
      BY <3>2
    <3> QED BY <3>1, <3>3
  <2> QED BY <2>5, <2>6
<1> QED BY <1>4, <1>5, <1>6 DEF HeardInv

LEMMA CallbackHeard ==
  ASSUME TypeOK, TypeOK', HeardInv, EndCallback \/ Finish
  PROVE  HeardInv'
<1>1. room \in Rooms /\ room' \in Rooms
  BY DEF TypeOK
<1>2. room'.round = room.round /\ room'.tick = room.tick /\ UNCHANGED <<seats, pages>> /\ room.phase = "playing"
  BY <1>1 DEF EndCallback, Finish, Rooms
<1>3. CASE EndCallback
  BY <1>2, <1>3, BroadcastHeard DEF EndCallback
<1>4. CASE Finish
  <2>1. room'.phase = "results"
    BY <1>1, <1>4 DEF Finish, Rooms
  <2> QED BY <1>2, <1>4, <2>1, BroadcastHeard DEF Finish
<1> QED BY <1>3, <1>4

LEMMA HearHeard ==
  ASSUME TypeOK, TypeOK', FollowInv, HeardInv, NEW c \in Clients, Hear(c)
  PROVE  HeardInv'
<1>1. /\ pages \in [Clients -> Pages] /\ pages' \in [Clients -> Pages]
      /\ down \in [Clients -> Seq(Messages)]
  BY DEF TypeOK
<1>2. /\ UNCHANGED <<room, stream, seats, skipped>> /\ down[c] # <<>>
      /\ down' = [down EXCEPT ![c] = IF pages'[c].connected THEN Tail(@) ELSE <<>>]
  BY DEF Hear
<1>3. \A d \in Clients : d # c => pages'[d] = pages[d] /\ down'[d] = down[d]
  <2>1. \E n : pages' = [pages EXCEPT ![c] = n]
    BY HearCases, Zenon DEF Takes, GivesUp, TakesFull, TakesBatch, FollowsLobby, PageDoes
  <2> QED BY <1>1, <1>2, <2>1
<1>4. ASSUME InTouch(c)' PROVE pages[c].connected /\ down'[c] = Tail(down[c])
  <2>1. pages'[c].connected
    BY <1>4 DEF InTouch
  <2>2. pages[c].connected
    <3>1. pages[c].connected = pages'[c].connected
      BY <1>4, HearSees DEF InTouch
    <3> QED BY <2>1, <3>1
  <2> QED BY <1>1, <1>2, <2>1, <2>2
<1>5. ASSUME room'.phase = "playing", NEW d \in Clients, InTouch(d)'
      PROVE  Hears(pages'[d], down'[d], stream', seats'[d], room'.round, room'.tick)
  <2>1. CASE d # c
    BY <1>2, <1>3, <1>5, <2>1 DEF HeardInv, InTouch
  <2>2. CASE d = c
    <3>1. pages'[c].ended = "no"
      BY <1>5, <2>2 DEF InTouch
    <3>2. pages[c].ended = "no" /\ Sees(pages[c], Head(down[c]), pages'[c])
      BY <3>1, HearSees
    <3>3. InTouch(c)
      BY <1>2, <1>4, <1>5, <2>2, <3>2 DEF InTouch
    <3>4. Hears(pages[c], down[c], stream, seats[c], room.round, room.tick)
      BY <1>2, <1>5, <3>3 DEF HeardInv
    <3>5. ~pages[c].needsFull => pages[c].mirrored = pages[c].round
      BY DEF FollowInv, PageOf
    <3>6. pages[c] \in Pages /\ pages'[c] \in Pages /\ down[c] \in Seq(Messages)
      BY <1>1
    <3>7. Hears(pages'[c], Tail(down[c]), stream, seats[c], room.round, room.tick)
      BY <1>2, <3>2, <3>4, <3>5, <3>6, HearsOn
    <3> QED BY <1>2, <1>4, <1>5, <2>2, <3>7
  <2> QED BY <2>1, <2>2
<1> QED BY <1>2, <1>5 DEF HeardInv

LEMMA NextHeard ==
  ASSUME TypeOK, TypeOK', FollowInv, FollowInv', HeardInv, [Next]_vars
  PROVE  HeardInv'
<1>1. CASE UNCHANGED vars
  <2>1. UNCHANGED <<room, stream, seats, down, pages, skipped>>
    BY <1>1 DEF vars, links
  <2> QED BY <2>1 DEF HeardInv, InTouch
<1>2. CASE Next
  <2>1. ASSUME NEW c \in Clients,
               Join(c) \/ LoseLink(c) \/ LinkLost(c) \/ PlayerDoes(c) \/ Hear(c) \/ Receive(c)
        PROVE  HeardInv'
    BY <2>1, JoinHeard, LinksHeard, PlayerHeard, HearHeard, ReceiveHeard
  <2> QED BY <1>2, <2>1, StartHeard, StepHeard, CallbackHeard DEF Next, PlayerDoes
<1> QED BY <1>1, <1>2

LEMMA InitHeard ==
  ASSUME Init
  PROVE  HeardInv
<1>1. stream.sent = 0 /\ stream.cursor = 0 /\ room.phase = "lobby" /\ \A c \in Clients : ~seats[c].joined
  BY DEF Init
<1> QED BY <1>1 DEF HeardInv

\* Who has heard all that was sent is at the end of the stream.
LEMMA HeardIsEnough ==
  ASSUME TypeOK, FollowInv, HeardInv
  PROVE  HeardIsCurrent
<1>1. SUFFICES ASSUME room.phase = "playing", stream.frames = <<>>, stream.sent = stream.cursor,
                      NEW c \in Clients \ skipped,
                      seats[c].joined, pages[c].connected, pages[c].ended = "no", down[c] = <<>>
               PROVE  /\ pages[c].mirrored = room.round /\ ~pages[c].needsFull
                      /\ pages[c].seq = stream.seq /\ pages[c].cursor = stream.cursor
                      /\ pages[c].scene = stream.previous
  BY DEF HeardIsCurrent
<1>2. /\ pages[c] \in Pages /\ stream \in Streams /\ seats[c] \in Seats /\ published \in Seq(Seq(Nat))
      /\ room.round = Len(published) /\ Built
  BY <1>1 DEF TypeOK, FollowInv
<1>3. Hears(pages[c], <<>>, stream, seats[c], room.round, room.tick)
  BY <1>1 DEF HeardInv, InTouch
<1>4. /\ pages[c].mirrored = room.round /\ ~pages[c].needsFull
      /\ LeadsOn(PageMark(pages[c]), stream, seats[c], room.tick)
  <2>1. PICK k \in 0..Len(<<>>) :
          /\ Chained(pages[c], <<>>, k, room.round)
          /\ LeadsOn(Reached(pages[c], <<>>, Len(<<>>)), stream, seats[c], room.tick)
    BY <1>3 DEF Hears
  <2>2. k = 0 /\ Len(<<>>) = 0
    OBVIOUS
  <2> QED BY <2>1, <2>2 DEF Chained, Reached
<1>5. Unseen(stream.frames, seats[c]) = <<>>
  <2>1. <<>> \in Seq(Frames) /\ \A i \in 1..Len(<<>>) : <<>>[i].seq <= seats[c].baseline
    OBVIOUS
  <2> QED BY <1>1, <1>2, <2>1, UnseenFacts
<1>6. /\ PageMark(pages[c]).seq = stream.seq
      /\ stream.sent <= PageMark(pages[c]).events /\ PageMark(pages[c]).events <= stream.cursor
  BY <1>4, <1>5 DEF LeadsOn, EndOf
<1>7. pages[c].seq = stream.seq /\ pages[c].cursor = stream.cursor
  <2>1. stream.sent <= pages[c].cursor /\ pages[c].cursor <= stream.cursor /\ pages[c].seq = stream.seq
    BY <1>6 DEF PageMark
  <2>2. pages[c].cursor \in Nat /\ stream.cursor \in Nat
    BY <1>2 DEF Pages, Streams
  <2> QED BY <1>1, <2>1, <2>2
<1>8. pages[c].scene = stream.previous
  <2>1. Shows(published, Len(published), stream.seq, stream.previous)
    BY <1>2 DEF FollowInv, StreamOf, Built
  <2>2. Shows(published, pages[c].mirrored, pages[c].seq, pages[c].scene)
    BY <1>2, <1>4 DEF FollowInv, PageOf, Built
  <2> QED BY <1>2, <1>4, <1>7, <2>1, <2>2 DEF Shows
<1> QED BY <1>4, <1>7, <1>8

\* Whoever misses no batch loses nothing: between callbacks, with all messages heard, such a client
\* shows the newest scene and has every event, whatever came, went and was captured in between.
THEOREM HeardAlways == Spec => []HeardIsCurrent
<1>1. Init => TypeOK /\ FollowInv /\ HeardInv
  BY InitTyped, InitFollows, InitHeard
<1>2. TypeOK /\ FollowInv /\ HeardInv /\ [Next]_vars => TypeOK' /\ FollowInv' /\ HeardInv'
  BY NextTyped, NextFollows, NextHeard
<1>3. TypeOK /\ FollowInv /\ HeardInv => HeardIsCurrent
  BY HeardIsEnough
<1> QED BY <1>1, <1>2, <1>3, PTL DEF Spec

=============================================================================
