------------------------- MODULE RoomReturnsProofs -------------------------
(***************************************************************************)
(* What a page and its room may rely on, for every page, every number of   *)
(* places, attempts, faults, moves and lives of the room.                  *)
(***************************************************************************)
EXTENDS RoomReturnsProperties, TLAPS, SequenceTheorems

-----------------------------------------------------------------------------
(* Types.                                                                  *)

Entrances == {"none", "create", "existing"}
Endings == {"no", "left", "lost", "rejected", "seat-expired", "room-ended", "other-tab"}
Refusals == {"room-exists", "room-gone", "seat-expired", "room-full"}

Asked ==
  [type: {"join"}, choice: Entrances, token: Nat, epoch: Nat] \cup [type: {"leave"}]

News ==
  [type: {"welcome"}, token: Nat, epoch: Nat] \cup [type: {"error"}, code: Refusals]
    \cup [type: {"room-reset"}] \cup [type: {"closed"}, code: Nat]

Page ==
  [choice: Entrances, token: Nat, epoch: Nat, socket: Nat, connected: BOOLEAN, retrying: BOOLEAN,
   started: BOOLEAN, attempt: Nat, ended: Endings]

Link == [page: Pages, up: Seq(Asked), down: Seq(News), open: BOOLEAN, hosted: BOOLEAN]

Seat == [token: Nat, page: Pages, conn: Nat]

TypeInv ==
  /\ pages \in [Pages -> Page]
  /\ saved \in [Pages -> [token: Nat, epoch: Nat]]
  /\ links \in Seq(Link)
  /\ room \in [epoch: Nat, seats: SUBSET Seat, issued: Nat, crashed: BOOLEAN]

-----------------------------------------------------------------------------
(* The inductive invariant.                                                *)

\* The messages of a sequence.
Within(seq) == {seq[i] : i \in 1..Len(seq)}

\* The messages on their way over the socket s.
Up(s) == Within(links[s].up)
Down(s) == Within(links[s].down)

\* The host has not read the join of the socket s.
Unread(s) == \E m \in Up(s) : m.type = "join"

\* A seat of this token is bound to the socket s.
Holds(s, token) == \E seat \in room.seats : seat.token = token /\ seat.conn = s

\* No seat has the token, nor will have it: the next token is a new one.
Over(token) == token <= room.issued /\ (token # None => SeatOf(token) = {})

\* What ends a page's room for it.
IsBad(m) == m.type = "room-reset" \/ (m.type = "error" /\ m.code \in {"seat-expired", "room-gone"})

BadNews(s) == \E m \in Down(s) : IsBad(m)

OnlyCloses(s) == \A m \in Down(s) : m.type = "closed"

\* A socket both hold has not been closed, one the page lost brings nothing but
\* that; the join is the first message, and answered once; a welcome holds until
\* the page is told otherwise.
LinkInv(s) ==
  /\ links[s].open /\ links[s].hosted => \A m \in Down(s) : m.type # "closed"
  /\ ~links[s].open => OnlyCloses(s)
  /\ \A i \in 1..Len(links[s].up) : links[s].up[i].type = "join" => i = 1
  /\ Unread(s) => OnlyCloses(s)
  /\ BadNews(s) => ~links[s].hosted
  /\ \A m \in Down(s) : m.type = "welcome" =>
       m.token \in 1..room.issued /\ (Holds(s, m.token) \/ ToldClosed(s))

\* No socket is bound to two seats.
BoundOnce(seats) ==
  \A a, b \in seats : a.conn # None /\ a.conn = b.conn => a = b

\* A seat has a token that was issued, and a socket the host has and has answered.
SeatInv ==
  /\ \A seat \in room.seats :
       /\ seat.token \in 1..room.issued
       /\ seat.conn # None =>
            seat.conn \in 1..Len(links) /\ links[seat.conn].hosted /\ ~Unread(seat.conn)
  /\ BoundOnce(room.seats)

\* The socket s of the page q is its own, alive, or dead with the news on its way.
SocketInv(s, q) ==
  /\ s \in 1..Len(links) /\ links[s].page = q
  /\ pages[q].ended = "no"
  /\ links[s].open \/ ToldClosed(s)
  /\ \A m \in Up(s) : m.type = "join" /\ m.token = pages[q].token
  /\ BadNews(s) => Over(pages[q].token) /\ \A m \in Down(s) : m.type = "welcome" => Over(m.token)

PageInv(q) ==
  /\ saved[q].token <= room.issued /\ pages[q].token <= room.issued
  /\ pages[q].retrying => pages[q].ended = "no" /\ pages[q].socket = None
  /\ pages[q].connected => pages[q].socket # None
  /\ pages[q].ended \in {"seat-expired", "room-ended"} => Over(pages[q].token)
  /\ pages[q].socket # None => SocketInv(pages[q].socket, q)

\* ConnectedHasSeat, of a page.
SeatedInv(q) ==
  pages[q].connected =>
    Holds(pages[q].socket, pages[q].token) \/ ToldClosed(pages[q].socket)

Inv ==
  /\ TypeInv
  /\ SeatInv
  /\ \A s \in 1..Len(links) : LinkInv(s)
  /\ \A q \in Pages : PageInv(q) /\ SeatedInv(q)

-----------------------------------------------------------------------------
(* Sequences of messages.                                                  *)

LEMMA WithinEmpty == Within(<<>>) = {}
BY DEF Within

LEMMA WithinOfOne ==
  ASSUME NEW S, NEW m \in S
  PROVE  /\ <<m>> \in Seq(S) /\ <<m>> # <<>>
         /\ Within(<<m>>) = {m} /\ Last(<<m>>) = m
<1>1. <<m>> \in Seq(S) /\ Len(<<m>>) = 1 /\ <<m>>[1] = m /\ DOMAIN <<m>> = 1..1 /\ <<m>> # <<>>
  OBVIOUS
<1> QED
  BY <1>1 DEF Within, Last

LEMMA WithinOfSeq ==
  ASSUME NEW S, NEW seq \in Seq(S)
  PROVE  /\ Len(seq) \in Nat /\ (seq = <<>> <=> Len(seq) = 0)
         /\ \A i \in 1..Len(seq) : seq[i] \in Within(seq)
         /\ \A m \in Within(seq) : m \in S /\ \E i \in 1..Len(seq) : m = seq[i]
<1>1. Len(seq) \in Nat /\ DOMAIN seq = 1..Len(seq) /\ \A i \in 1..Len(seq) : seq[i] \in S
  BY LenProperties, ElementOfSeq
<1>2. seq = <<>> <=> Len(seq) = 0
  BY EmptySeq
<1> QED
  BY <1>1, <1>2 DEF Within

LEMMA WithinOfConcat ==
  ASSUME NEW S, NEW a \in Seq(S), NEW b \in Seq(S)
  PROVE  /\ a \o b \in Seq(S)
         /\ \A m : m \in Within(a \o b) <=> m \in Within(a) \/ m \in Within(b)
         /\ b # <<>> => a \o b # <<>> /\ Last(a \o b) = Last(b)
<1> DEFINE ab == a \o b
<1>1. ab \in Seq(S) /\ Len(ab) = Len(a) + Len(b)
  BY ConcatProperties
<1>2. \A i \in 1..Len(a) + Len(b) : ab[i] = IF i <= Len(a) THEN a[i] ELSE b[i - Len(a)]
  BY ConcatProperties
<1> HIDE DEF ab
<1>3. /\ Len(a) \in Nat /\ \A i \in 1..Len(a) : a[i] \in Within(a)
      /\ \A m \in Within(a) : \E i \in 1..Len(a) : m = a[i]
  BY WithinOfSeq
<1>4. /\ Len(b) \in Nat /\ (b = <<>> <=> Len(b) = 0) /\ \A i \in 1..Len(b) : b[i] \in Within(b)
      /\ \A m \in Within(b) : \E i \in 1..Len(b) : m = b[i]
  BY WithinOfSeq
<1>5. /\ (ab = <<>> <=> Len(ab) = 0) /\ \A i \in 1..Len(ab) : ab[i] \in Within(ab)
      /\ \A m \in Within(ab) : \E i \in 1..Len(ab) : m = ab[i]
  BY <1>1, WithinOfSeq
<1>6. ASSUME NEW m \in Within(ab) PROVE m \in Within(a) \/ m \in Within(b)
  <2>1. PICK i \in 1..Len(a) + Len(b) : m = ab[i]
    BY <1>1, <1>5
  <2>2. CASE i <= Len(a)
    BY <1>2, <1>3, <2>1, <2>2
  <2>3. CASE ~(i <= Len(a))
    <3>1. i - Len(a) \in 1..Len(b) /\ m = b[i - Len(a)]
      BY <1>2, <1>3, <1>4, <2>1, <2>3
    <3> QED
      BY <1>4, <3>1
  <2> QED
    BY <2>2, <2>3
<1>7. \A i \in 1..Len(a) : i \in 1..Len(ab) /\ ab[i] = a[i]
  BY <1>1, <1>2, <1>3, <1>4
<1>8. \A i \in 1..Len(b) : Len(a) + i \in 1..Len(ab) /\ ab[Len(a) + i] = b[i]
  <2>1. SUFFICES ASSUME NEW i \in 1..Len(b)
                 PROVE  Len(a) + i \in 1..Len(ab) /\ ab[Len(a) + i] = b[i]
    OBVIOUS
  <2>2. Len(a) + i \in 1..Len(a) + Len(b) /\ ~(Len(a) + i <= Len(a)) /\ Len(a) + i - Len(a) = i
    BY <1>3, <1>4
  <2> QED
    BY <1>1, <1>2, <2>2
<1>9. b # <<>> => ab # <<>> /\ Last(ab) = Last(b)
  BY <1>1, <1>3, <1>4, <1>5, <1>8 DEF Last
<1>10. \A m \in Within(a) : m \in Within(ab)
  BY <1>3, <1>5, <1>7
<1>11. \A m \in Within(b) : m \in Within(ab)
  <2>1. SUFFICES ASSUME NEW m \in Within(b) PROVE m \in Within(ab)
    OBVIOUS
  <2>2. PICK i \in 1..Len(b) : m = b[i]
    BY <1>4
  <2>3. Len(a) + i \in 1..Len(ab) /\ ab[Len(a) + i] = b[i]
    BY <1>8
  <2> QED
    BY <1>5, <2>2, <2>3
<1> QED
  BY <1>1, <1>6, <1>9, <1>10, <1>11 DEF ab

LEMMA WithinOfTail ==
  ASSUME NEW S, NEW seq \in Seq(S), seq # <<>>
  PROVE  /\ Head(seq) \in Within(seq) /\ Head(seq) = seq[1]
         /\ Tail(seq) \in Seq(S) /\ Len(Tail(seq)) = Len(seq) - 1
         /\ \A i \in 1..Len(Tail(seq)) : Tail(seq)[i] = seq[i + 1]
         /\ \A m \in Within(Tail(seq)) : m \in Within(seq) /\ \E i \in 2..Len(seq) : m = seq[i]
         /\ Last(seq) # Head(seq) => Tail(seq) # <<>> /\ Last(Tail(seq)) = Last(seq)
<1> DEFINE rest == Tail(seq)
<1>1. /\ Len(seq) \in Nat /\ Len(seq) > 0 /\ \A i \in 1..Len(seq) : seq[i] \in Within(seq)
  BY WithinOfSeq
<1>2. rest \in Seq(S) /\ Len(rest) = Len(seq) - 1 /\ \A i \in 1..Len(rest) : rest[i] = seq[i + 1]
  BY HeadTailProperties
<1>3. Head(seq) = seq[1]
  OBVIOUS
<1> HIDE DEF rest
<1>4. /\ (rest = <<>> <=> Len(rest) = 0)
      /\ \A m \in Within(rest) : \E i \in 1..Len(rest) : m = rest[i]
  BY <1>2, WithinOfSeq
<1>5. \A m \in Within(rest) : m \in Within(seq) /\ \E i \in 2..Len(seq) : m = seq[i]
  BY <1>1, <1>2, <1>4
<1>6. Last(seq) # Head(seq) => rest # <<>> /\ Last(rest) = Last(seq)
  BY <1>1, <1>2, <1>3, <1>4 DEF Last
<1> QED
  BY <1>1, <1>2, <1>3, <1>5, <1>6 DEF rest

-----------------------------------------------------------------------------
(* What the host does to a socket.                                         *)

\* A socket before and after the host has sent messages on it, has closed it with
\* a code, and has read a message of it.
SentOn(before, after, ms) ==
  /\ after.page = before.page /\ after.open = before.open /\ after.hosted = before.hosted
  /\ after.up = before.up
  /\ after.down = IF before.open THEN before.down \o ms ELSE before.down

ClosedBy(before, after, ms, code) ==
  /\ after.page = before.page /\ after.open = before.open /\ after.hosted = FALSE
  /\ after.up = <<>>
  /\ after.down = IF before.open THEN before.down \o Append(ms, Closed(code)) ELSE before.down

ReadOf(before, after) ==
  /\ after.page = before.page /\ after.open = before.open /\ after.hosted = before.hosted
  /\ after.up = Tail(before.up) /\ after.down = before.down

\* The sockets with one of them replaced.
LEMMA Replaced ==
  ASSUME NEW socks \in Seq(Link), NEW s \in 1..Len(socks), NEW l \in Link
  PROVE  LET after == [socks EXCEPT ![s] = l] IN
         /\ after \in Seq(Link) /\ Len(after) = Len(socks)
         /\ after[s] = l
         /\ \A r \in 1..Len(socks) : r # s => after[r] = socks[r]
<1>1. /\ [socks EXCEPT ![s] = l] \in Seq(Link) /\ Len([socks EXCEPT ![s] = l]) = Len(socks)
      /\ \A j \in 1..Len(socks) : [socks EXCEPT ![s] = l][j] = IF j = s THEN l ELSE socks[j]
  BY ExceptSeq
<1> QED
  BY <1>1

LEMMA SentIs ==
  ASSUME NEW socks \in Seq(Link), NEW s \in 1..Len(socks), NEW ms \in Seq(News)
  PROVE  LET after == Sent(socks, s, ms) IN
         /\ after \in Seq(Link) /\ Len(after) = Len(socks)
         /\ SentOn(socks[s], after[s], ms)
         /\ \A r \in 1..Len(socks) : r # s => after[r] = socks[r]
<1> DEFINE l == [socks[s] EXCEPT !.down = IF socks[s].open THEN @ \o ms ELSE @]
<1>1. socks[s] \in Link
  BY ElementOfSeq
<1>2. socks[s].down \o ms \in Seq(News)
  BY <1>1, ConcatProperties DEF Link
<1>3. l \in Link
  BY <1>1, <1>2 DEF Link
<1>4. Sent(socks, s, ms) = [socks EXCEPT ![s] = l]
  BY <1>1 DEF Sent, Link
<1>5. SentOn(socks[s], l, ms)
  BY <1>1 DEF Link, SentOn
<1> HIDE DEF l
<1>6. LET after == Sent(socks, s, ms) IN
      /\ after \in Seq(Link) /\ Len(after) = Len(socks) /\ after[s] = l
      /\ \A r \in 1..Len(socks) : r # s => after[r] = socks[r]
  BY <1>3, <1>4, Replaced
<1> QED
  BY <1>5, <1>6

LEMMA HostClosesIs ==
  ASSUME NEW socks \in Seq(Link), NEW s \in 1..Len(socks), NEW ms \in Seq(News), NEW code \in Nat
  PROVE  LET after == HostCloses(socks, s, ms, code) IN
         /\ after \in Seq(Link) /\ Len(after) = Len(socks)
         /\ ClosedBy(socks[s], after[s], ms, code)
         /\ \A r \in 1..Len(socks) : r # s => after[r] = socks[r]
<1> DEFINE sent == Sent(socks, s, Append(ms, Closed(code)))
           l == [sent[s] EXCEPT !.hosted = FALSE, !.up = <<>>]
<1>1. Closed(code) \in News
  BY DEF Closed, News
<1>2. Append(ms, Closed(code)) \in Seq(News)
  BY <1>1, AppendProperties
<1>3. /\ sent \in Seq(Link) /\ Len(sent) = Len(socks)
      /\ SentOn(socks[s], sent[s], Append(ms, Closed(code)))
      /\ \A r \in 1..Len(socks) : r # s => sent[r] = socks[r]
  BY <1>2, SentIs
<1>4. sent[s] \in Link /\ socks[s] \in Link
  BY <1>3, ElementOfSeq
<1>5. <<>> \in Seq(Asked)
  BY EmptySeq
<1> HIDE DEF sent
<1>6. l \in Link
  BY <1>4, <1>5 DEF Link
<1>7. [[sent EXCEPT ![s].hosted = FALSE] EXCEPT ![s].up = <<>>] = [sent EXCEPT ![s] = l]
  BY <1>3, <1>4, LenProperties DEF Link
<1>8. HostCloses(socks, s, ms, code) = [sent EXCEPT ![s] = l]
  BY <1>7 DEF HostCloses, sent
<1>9. ClosedBy(socks[s], l, ms, code)
  BY <1>3, <1>4 DEF Link, SentOn, ClosedBy
<1> HIDE DEF l
<1>10. LET after == HostCloses(socks, s, ms, code) IN
       /\ after \in Seq(Link) /\ Len(after) = Len(socks) /\ after[s] = l
       /\ \A r \in 1..Len(socks) : r # s => after[r] = socks[r]
  BY <1>3, <1>6, <1>8, Replaced
<1> QED
  BY <1>9, <1>10

LEMMA ReadIs ==
  ASSUME links \in Seq(Link), NEW s \in 1..Len(links), links[s].up # <<>>
  PROVE  /\ Read(s) \in Seq(Link) /\ Len(Read(s)) = Len(links)
         /\ ReadOf(links[s], Read(s)[s])
         /\ \A r \in 1..Len(links) : r # s => Read(s)[r] = links[r]
<1> DEFINE l == [links[s] EXCEPT !.up = Tail(@)]
<1>1. links[s] \in Link
  BY ElementOfSeq
<1>2. Tail(links[s].up) \in Seq(Asked)
  BY <1>1, HeadTailProperties DEF Link
<1>3. l \in Link
  BY <1>1, <1>2 DEF Link
<1>4. Read(s) = [links EXCEPT ![s] = l]
  BY <1>1 DEF Read, Link
<1>5. ReadOf(links[s], l)
  BY <1>1 DEF Link, ReadOf
<1> HIDE DEF l
<1>6. /\ Read(s) \in Seq(Link) /\ Len(Read(s)) = Len(links) /\ Read(s)[s] = l
      /\ \A r \in 1..Len(links) : r # s => Read(s)[r] = links[r]
  BY <1>3, <1>4, Replaced
<1> QED
  BY <1>5, <1>6

-----------------------------------------------------------------------------
(* What a step of the host leaves a page.                                  *)

\* A step that ends the room for whoever listens on s, if it is told that.
EndsFor(s) ==
  /\ \A q \in Pages : pages[q].socket = s => Over(pages[q].token)'
  /\ \A m \in Down(s)' : m.type = "welcome" => Over(m.token)'

\* A page that is connected over s stays so or is told.
LinkStep(s) ==
  /\ links'[s].page = links[s].page
  /\ links[s].open \/ ToldClosed(s) => links'[s].open \/ ToldClosed(s)'
  /\ \A m \in Up(s)' : m \in Up(s)
  /\ \A t \in Nat : Holds(s, t) /\ (links[s].open \/ ToldClosed(s)) => Holds(s, t)' \/ ToldClosed(s)'
  /\ ToldClosed(s) => ToldClosed(s)'
  /\ BadNews(s)' =>
       (BadNews(s) /\ \A m \in Down(s)' : m.type = "welcome" => m \in Down(s)) \/ EndsFor(s)

HostStep ==
  /\ room.issued <= room'.issued
  /\ \A t \in Nat : Over(t) => Over(t)'
  /\ Len(links') = Len(links)
  /\ \A s \in 1..Len(links) : LinkStep(s)

LEMMA PagesKeep ==
  ASSUME Inv, TypeInv', UNCHANGED <<pages, saved>>, HostStep
  PROVE  \A q \in Pages : PageInv(q)' /\ SeatedInv(q)'
<1> USE DEF None
<1>1. ASSUME NEW q \in Pages
      PROVE  PageInv(q)' /\ SeatedInv(q)'
  <2>0. PICK s : s = pages[q].socket
    OBVIOUS
  <2>1. pages'[q] = pages[q] /\ saved'[q] = saved[q] /\ pages[q] \in Page /\ PageInv(q)
    BY DEF Inv, TypeInv
  <2>2. /\ pages[q].token \in Nat /\ saved[q].token \in Nat /\ s \in Nat
        /\ room.issued \in Nat /\ room'.issued \in Nat /\ room.issued <= room'.issued
    BY <2>0, <2>1 DEF Inv, TypeInv, Page, HostStep
  <2>3. Over(pages[q].token) => Over(pages[q].token)'
    BY <2>1, <2>2 DEF HostStep
  <2>4. ASSUME s # None PROVE SocketInv(s, q)'
    <3>1. SocketInv(s, q) /\ s \in 1..Len(links) /\ LinkStep(s) /\ LinkInv(s)
      BY <2>0, <2>1, <2>4 DEF PageInv, SocketInv, HostStep, Inv
    <3>2. s \in 1..Len(links') /\ links'[s].page = q /\ pages'[q].ended = "no"
      BY <2>1, <3>1 DEF SocketInv, LinkStep, HostStep
    <3>3. links'[s].open \/ ToldClosed(s)'
      BY <3>1 DEF SocketInv, LinkStep
    <3>4. \A m \in Up(s)' : m.type = "join" /\ m.token = pages'[q].token
      BY <2>1, <3>1 DEF SocketInv, LinkStep
    <3>5. ASSUME BadNews(s)'
          PROVE  Over(pages[q].token)' /\ \A m \in Down(s)' : m.type = "welcome" => Over(m.token)'
      <4>1. CASE EndsFor(s)
        BY <2>0, <4>1 DEF EndsFor
      <4>2. CASE BadNews(s) /\ \A m \in Down(s)' : m.type = "welcome" => m \in Down(s)
        <5>1. Over(pages[q].token) /\ \A m \in Down(s) : m.type = "welcome" => Over(m.token)
          BY <3>1, <4>2 DEF SocketInv
        <5>2. \A m \in Down(s) : m.type = "welcome" => m.token \in Nat
          BY <2>2, <3>1 DEF LinkInv
        <5> QED
          BY <2>3, <4>2, <5>1, <5>2 DEF HostStep
      <4> QED
        BY <3>1, <3>5, <4>1, <4>2 DEF LinkStep
    <3> QED
      BY <2>1, <3>2, <3>3, <3>4, <3>5 DEF SocketInv
  <2>5. PageInv(q)'
    BY <2>0, <2>1, <2>2, <2>3, <2>4 DEF PageInv
  <2>6. ASSUME pages[q].connected
        PROVE  Holds(s, pages[q].token)' \/ ToldClosed(s)'
    <3>1. Holds(s, pages[q].token) \/ ToldClosed(s)
      BY <2>0, <2>6 DEF Inv, SeatedInv
    <3>2. SocketInv(s, q)
      BY <2>0, <2>1, <2>6 DEF PageInv
    <3>3. LinkStep(s) /\ (links[s].open \/ ToldClosed(s))
      BY <3>2 DEF SocketInv, HostStep
    <3> QED
      BY <2>2, <3>1, <3>3 DEF LinkStep
  <2> QED
    BY <2>0, <2>1, <2>5, <2>6 DEF SeatedInv
<1> QED
  BY <1>1

\* A token that is over stays so when the seats' tokens are old or new ones.
LEMMA OverStays ==
  ASSUME TypeInv, room'.issued \in Nat, room.issued <= room'.issued,
         \A seat \in room'.seats :
           (\E old \in room.seats : old.token = seat.token) \/ seat.token > room.issued
  PROVE  \A t \in Nat : Over(t) => Over(t)'
<1>1. room.issued \in Nat
  BY DEF TypeInv
<1>2. SUFFICES ASSUME NEW t \in Nat, Over(t) PROVE Over(t)'
  OBVIOUS
<1>3. t <= room'.issued
  BY <1>1, <1>2 DEF Over
<1>4. ASSUME t # None, NEW seat \in room'.seats, seat.token = t PROVE FALSE
  <2>1. ~(seat.token > room.issued)
    BY <1>1, <1>2, <1>4 DEF Over
  <2>2. SeatOf(t) = {}
    BY <1>2, <1>4 DEF Over
  <2> QED
    BY <1>4, <2>1, <2>2 DEF SeatOf
<1> QED
  BY <1>3, <1>4 DEF Over, SeatOf

\* A socket the step leaves alone.
LEMMA LinkUntouched ==
  ASSUME TypeInv, NEW s \in 1..Len(links), LinkInv(s), links'[s] = links[s],
         room'.issued \in Nat, room.issued <= room'.issued,
         \A t \in Nat : Holds(s, t) => Holds(s, t)'
  PROVE  LinkInv(s)' /\ LinkStep(s)
<1>1. /\ Up(s)' = Up(s) /\ Down(s)' = Down(s) /\ (ToldClosed(s)' <=> ToldClosed(s))
      /\ (Unread(s)' <=> Unread(s)) /\ (BadNews(s)' <=> BadNews(s)) /\ (OnlyCloses(s)' <=> OnlyCloses(s))
  BY DEF Up, Down, ToldClosed, Unread, BadNews, OnlyCloses
<1>2. room.issued \in Nat
  BY DEF TypeInv
<1>3. LinkInv(s)'
  BY <1>1, <1>2 DEF LinkInv
<1>4. LinkStep(s)
  BY <1>1 DEF LinkStep
<1> QED
  BY <1>3, <1>4

\* A socket that breaks, that the host misses, or that a crash takes.
LEMMA LinkBroken ==
  ASSUME TypeInv, TypeInv', NEW s \in 1..Len(links), s \in 1..Len(links'), LinkInv(s),
         links'[s].page = links[s].page, ~links'[s].open,
         links'[s].down = IF links[s].open THEN <<Closed(1006)>> ELSE links[s].down,
         links'[s].up \in {links[s].up, <<>>}
  PROVE  LinkInv(s)' /\ LinkStep(s)
<1>1. Closed(1006) \in News /\ Closed(1006).type = "closed"
  BY DEF Closed, News
<1>2. OnlyCloses(s)' /\ (links[s].open => ToldClosed(s)') /\ (ToldClosed(s) => ToldClosed(s)')
  <2>1. CASE links[s].open
    BY <1>1, <2>1, WithinOfOne DEF OnlyCloses, Down, ToldClosed
  <2>2. CASE ~links[s].open
    BY <2>2 DEF LinkInv, OnlyCloses, Down, ToldClosed
  <2> QED
    BY <2>1, <2>2
<1>3. ~BadNews(s)' /\ \A m \in Down(s)' : m.type # "welcome"
  BY <1>2 DEF BadNews, OnlyCloses, IsBad
<1>4. Within(<<>>) = {} /\ Len(<<>>) = 0
  BY WithinEmpty
<1>5. /\ \A m \in Up(s)' : m \in Up(s)
      /\ \A i \in 1..Len(links'[s].up) : links'[s].up[i].type = "join" => i = 1
  <2>1. CASE links'[s].up = links[s].up
    BY <2>1 DEF Up, LinkInv
  <2>2. CASE links'[s].up = <<>>
    BY <1>4, <2>2 DEF Up
  <2> QED
    BY <2>1, <2>2
<1>6. LinkInv(s)'
  BY <1>2, <1>3, <1>5 DEF LinkInv
<1>7. LinkStep(s)
  BY <1>2, <1>3, <1>5 DEF LinkStep
<1> QED
  BY <1>6, <1>7

\* A socket the host closes, after it has sent ms.
LEMMA LinkClosed ==
  ASSUME TypeInv, NEW s \in 1..Len(links), LinkInv(s), links[s].hosted,
         NEW ms \in Seq(News), NEW code \in Nat,
         ClosedBy(links[s], links'[s], ms, code),
         room'.issued \in Nat, room.issued <= room'.issued,
         \A m \in Within(ms) : m.type # "welcome",
         (\E m \in Within(ms) : IsBad(m)) =>
           /\ \A q \in Pages : pages[q].socket = s => Over(pages[q].token)'
           /\ \A m \in Down(s) : m.type = "welcome" => Over(m.token)'
  PROVE  LinkInv(s)' /\ LinkStep(s)
<1> DEFINE end == <<Closed(code)>>
           all == ms \o end
<1>1. links[s] \in Link /\ room.issued \in Nat
  BY ElementOfSeq DEF TypeInv
<1>2. /\ links'[s].page = links[s].page /\ links'[s].open = links[s].open
      /\ links'[s].hosted = FALSE /\ links'[s].up = <<>>
      /\ links'[s].down = IF links[s].open THEN links[s].down \o Append(ms, Closed(code)) ELSE links[s].down
      /\ links[s].down \in Seq(News)
  BY <1>1 DEF Link, ClosedBy
<1>3. Closed(code) \in News /\ Closed(code).type = "closed"
  BY DEF Closed, News
<1>4. /\ end \in Seq(News) /\ end # <<>> /\ Within(end) = {Closed(code)} /\ Last(end) = Closed(code)
  BY <1>3, WithinOfOne
<1> HIDE DEF end
<1>5. /\ all \in Seq(News) /\ all # <<>> /\ Last(all) = Closed(code)
      /\ \A m : m \in Within(all) <=> m \in Within(ms) \/ m = Closed(code)
  BY <1>4, WithinOfConcat
<1>6. Append(ms, Closed(code)) = all
  BY <1>3, AppendIsConcat DEF end
<1> HIDE DEF all
<1>7. /\ links[s].down \o all # <<>> /\ Last(links[s].down \o all) = Closed(code)
      /\ \A m : m \in Within(links[s].down \o all) <=> m \in Down(s) \/ m \in Within(all)
  BY <1>2, <1>5, WithinOfConcat DEF Down
<1>8. links[s].open => ToldClosed(s)'
  BY <1>2, <1>3, <1>6, <1>7 DEF ToldClosed
<1>9. \A m \in Down(s)' : m \in Down(s) \/ (m \in Within(ms) /\ m.type # "welcome") \/ m = Closed(code)
  BY <1>2, <1>5, <1>6, <1>7 DEF Down
<1>10. ~links[s].open => /\ Down(s)' = Down(s) /\ (ToldClosed(s)' <=> ToldClosed(s))
                         /\ (OnlyCloses(s)' <=> OnlyCloses(s))
  BY <1>2 DEF Down, ToldClosed, OnlyCloses
<1>11. Up(s)' = {} /\ Len(links'[s].up) = 0
  BY <1>2, WithinEmpty DEF Up
<1>12. \A m \in Down(s)' : m.type = "welcome" => m \in Down(s)
  BY <1>3, <1>9
<1>13. LinkInv(s)'
  <2>1. ~links'[s].open => OnlyCloses(s)'
    BY <1>2, <1>10 DEF LinkInv
  <2>2. ~Unread(s)'
    BY <1>11 DEF Unread
  <2>3. ASSUME NEW m \in Down(s)', m.type = "welcome"
        PROVE  m.token \in 1..room'.issued /\ ToldClosed(s)'
    <3>1. m \in Down(s) /\ m.token \in 1..room'.issued
      BY <1>1, <1>12, <2>3 DEF LinkInv
    <3>2. links[s].open
      BY <2>3, <3>1 DEF LinkInv, OnlyCloses
    <3> QED
      BY <1>8, <3>1, <3>2
  <2> QED
    BY <1>2, <1>11, <2>1, <2>2, <2>3 DEF LinkInv
<1>14. ASSUME BadNews(s)' PROVE EndsFor(s)
  <2>1. ~BadNews(s)
    BY DEF LinkInv
  <2>2. PICK m \in Down(s)' : IsBad(m)
    BY <1>14 DEF BadNews
  <2>3. m \in Within(ms)
    BY <1>3, <1>9, <2>1, <2>2 DEF BadNews, IsBad
  <2> QED
    BY <1>12, <2>2, <2>3 DEF EndsFor
<1>15. ToldClosed(s) => ToldClosed(s)'
  BY <1>8, <1>10
<1>16. LinkStep(s)
  BY <1>2, <1>8, <1>11, <1>14, <1>15 DEF LinkStep
<1> QED
  BY <1>13, <1>16

\* A socket on which the host reads the join and answers it with a welcome.
LEMMA LinkWelcomed ==
  ASSUME TypeInv, TypeInv', SeatInv, NEW s \in 1..Len(links), LinkInv(s), links[s].hosted,
         links[s].up # <<>>, Head(links[s].up).type = "join",
         NEW m \in News, m.type = "welcome", Holds(s, m.token)', m.token \in 1..room'.issued,
         NEW read, ReadOf(links[s], read), NEW ms, ms = <<m>>, SentOn(read, links'[s], ms)
  PROVE  LinkInv(s)' /\ LinkStep(s) /\ ~Unread(s)' /\ links'[s].hosted
<1>1. links[s] \in Link /\ s # None
  BY ElementOfSeq DEF TypeInv, None
<1>2. /\ links'[s].page = links[s].page /\ links'[s].open = links[s].open
      /\ links'[s].hosted = links[s].hosted /\ links'[s].up = Tail(links[s].up)
      /\ links'[s].down = IF links[s].open THEN links[s].down \o <<m>> ELSE links[s].down
      /\ links[s].down \in Seq(News) /\ links[s].up \in Seq(Asked)
  BY <1>1 DEF Link, ReadOf, SentOn
<1>3. /\ Head(links[s].up) \in Up(s)
      /\ Len(links'[s].up) = Len(links[s].up) - 1 /\ Len(links[s].up) \in Nat
      /\ \A i \in 1..Len(links'[s].up) : links'[s].up[i] = links[s].up[i + 1]
      /\ \A k \in Up(s)' : k \in Up(s) /\ \E i \in 2..Len(links[s].up) : k = links[s].up[i]
  BY <1>2, WithinOfTail, LenProperties DEF Up
<1>4. Unread(s)
  BY <1>3 DEF Unread
<1>5. /\ OnlyCloses(s) /\ (links[s].open => \A k \in Down(s) : k.type # "closed")
      /\ \A t \in Nat : ~Holds(s, t)
  BY <1>1, <1>4 DEF LinkInv, SeatInv, Holds
<1>6. <<m>> \in Seq(News) /\ <<m>> # <<>> /\ Within(<<m>>) = {m} /\ Last(<<m>>) = m
  BY WithinOfOne
<1>7. \A k : k \in Within(links[s].down \o <<m>>) <=> k \in Down(s) \/ k = m
  BY <1>2, <1>6, WithinOfConcat DEF Down
<1>8. \A k \in Down(s)' : k \in Down(s) \/ (k = m /\ links[s].open)
  BY <1>2, <1>7 DEF Down
<1>9. ~BadNews(s)'
  BY <1>5, <1>8 DEF BadNews, OnlyCloses, IsBad
<1>10. ~links[s].open => (ToldClosed(s)' <=> ToldClosed(s))
  BY <1>2 DEF ToldClosed
<1>11. links[s].open => ~ToldClosed(s)
  <2>1. SUFFICES ASSUME links[s].open, ToldClosed(s) PROVE FALSE
    OBVIOUS
  <2>2. /\ Len(links[s].down) \in Nat /\ Len(links[s].down) # 0
        /\ links[s].down[Len(links[s].down)].type = "closed"
    BY <1>2, <2>1, WithinOfSeq DEF ToldClosed, Last
  <2>3. links[s].down[Len(links[s].down)] \in Down(s)
    BY <1>2, <2>2, WithinOfSeq DEF Down
  <2> QED
    BY <1>5, <2>1, <2>2, <2>3
<1>12. ~Unread(s)'
  BY <1>3 DEF Unread, LinkInv
<1>13. LinkInv(s)'
  <2>1. links'[s].open /\ links'[s].hosted => \A k \in Down(s)' : k.type # "closed"
    BY <1>2, <1>5, <1>8
  <2>2. ~links'[s].open => OnlyCloses(s)'
    BY <1>2, <1>5, <1>8 DEF OnlyCloses
  <2>3. ASSUME NEW i \in 1..Len(links'[s].up), links'[s].up[i].type = "join" PROVE i = 1
    <3>1. i + 1 \in 1..Len(links[s].up) /\ links[s].up[i + 1].type = "join" /\ i + 1 # 1
      BY <1>3, <2>3
    <3> QED
      BY <3>1 DEF LinkInv
  <2>4. \A k \in Down(s)' : k.type = "welcome" => k.token \in 1..room'.issued /\ Holds(s, k.token)'
    BY <1>5, <1>8 DEF OnlyCloses
  <2> QED
    BY <1>9, <1>12, <2>1, <2>2, <2>3, <2>4 DEF LinkInv
<1>14. LinkStep(s)
  BY <1>2, <1>3, <1>5, <1>9, <1>10, <1>11 DEF LinkStep
<1> QED
  BY <1>2, <1>12, <1>13, <1>14

-----------------------------------------------------------------------------
(* The steps of the host.                                                  *)

Rooms == [epoch: Nat, seats: SUBSET Seat, issued: Nat, crashed: BOOLEAN]

HostKeeps == TypeInv' /\ SeatInv' /\ (\A s \in 1..Len(links') : LinkInv(s)') /\ HostStep

\* What is left to show of a step of the host: its seats have tokens that are old or
\* newly issued, and sockets it has and has answered, and every socket is in order.
LEMMA HostKeepsFrom ==
  ASSUME Inv, UNCHANGED <<pages, saved>>, TypeInv', Len(links') = Len(links),
         room.issued <= room'.issued, BoundOnce(room'.seats),
         \A seat \in room'.seats :
           /\ \/ \E old \in room.seats : old.token = seat.token
              \/ seat.token \in room.issued + 1..room'.issued
           /\ seat.conn # None =>
                seat.conn \in 1..Len(links) /\ links'[seat.conn].hosted /\ ~Unread(seat.conn)',
         \A s \in 1..Len(links) : LinkInv(s)' /\ LinkStep(s)
  PROVE  HostKeeps
<1>1. room.issued \in Nat /\ room'.issued \in Nat /\ \A seat \in room'.seats : seat.token \in Nat
  BY DEF Inv, TypeInv, Seat
<1>2. \A seat \in room'.seats :
        (\E old \in room.seats : old.token = seat.token) \/ seat.token > room.issued
  BY <1>1
<1>3. \A t \in Nat : Over(t) => Over(t)'
  BY <1>1, <1>2, OverStays DEF Inv
<1>4. SeatInv'
  <2>1. \A seat \in room'.seats : seat.token \in 1..room'.issued
    BY <1>1 DEF Inv, SeatInv
  <2> QED
    BY <2>1 DEF SeatInv
<1> QED
  BY <1>3, <1>4 DEF HostKeeps, HostStep

\* Seats of the room stay in order on a socket the step leaves alone.
LEMMA SeatsUndisturbed ==
  ASSUME Inv, NEW seat \in room.seats, seat.conn # None,
         links'[seat.conn] = links[seat.conn]
  PROVE  seat.conn \in 1..Len(links) /\ links'[seat.conn].hosted /\ ~Unread(seat.conn)'
<1>1. PICK s : s = seat.conn
  OBVIOUS
<1>2. s \in 1..Len(links) /\ links[s].hosted /\ ~Unread(s)
  BY <1>1 DEF Inv, SeatInv
<1>3. ~Unread(s)'
  BY <1>1, <1>2 DEF Unread, Up
<1> QED
  BY <1>1, <1>2, <1>3

LEMMA RefusesKeeps ==
  ASSUME Inv, UNCHANGED <<pages, saved>>, NEW s \in 1..Len(links), links[s].hosted,
         links[s].up # <<>>, Head(links[s].up).type = "join",
         NEW code \in Refusals, Refuses(s, code),
         code \in {"seat-expired", "room-gone"} =>
           (Head(links[s].up).token # None => SeatOf(Head(links[s].up).token) = {})
  PROVE  HostKeeps
<1> DEFINE error == [type |-> "error", code |-> code]
           ms == <<error>>
<1>1. TypeInv /\ LinkInv(s) /\ links \in Seq(Link) /\ links[s] \in Link /\ s # None
  BY ElementOfSeq DEF Inv, TypeInv, None
<1>2. error \in News /\ error.type = "error" /\ error.code = code
  BY DEF News
<1>3. ms \in Seq(News) /\ Within(ms) = {error}
  BY <1>2, WithinOfOne
<1>4. /\ Read(s) \in Seq(Link) /\ Len(Read(s)) = Len(links)
      /\ ReadOf(links[s], Read(s)[s])
      /\ \A r \in 1..Len(links) : r # s => Read(s)[r] = links[r]
  BY <1>1, ReadIs
<1>5. links' = HostCloses(Read(s), s, ms, 1008) /\ room' = room
  BY DEF Refuses
<1> HIDE DEF ms, error
<1>6. /\ links' \in Seq(Link) /\ Len(links') = Len(links)
      /\ ClosedBy(Read(s)[s], links'[s], ms, 1008)
      /\ \A r \in 1..Len(links) : r # s => links'[r] = links[r]
  <2>1. PICK socks \in Seq(Link) : socks = Read(s)
    BY <1>4
  <2>2. s \in 1..Len(socks) /\ links' = HostCloses(socks, s, ms, 1008) /\ 1008 \in Nat
    BY <1>4, <1>5, <2>1
  <2>3. /\ links' \in Seq(Link) /\ Len(links') = Len(socks)
        /\ ClosedBy(socks[s], links'[s], ms, 1008)
        /\ \A r \in 1..Len(socks) : r # s => links'[r] = socks[r]
    BY <1>3, <2>2, HostClosesIs
  <2> QED
    BY <1>4, <2>1, <2>3
<1>7. ClosedBy(links[s], links'[s], ms, 1008)
  BY <1>4, <1>6 DEF ReadOf, ClosedBy
<1>8. TypeInv'
  BY <1>1, <1>5, <1>6 DEF TypeInv
<1>9. /\ room.issued \in Nat /\ room'.issued = room.issued /\ room'.seats = room.seats
      /\ \A t : Over(t)' <=> Over(t)
      /\ \A r, t : Holds(r, t) => Holds(r, t)'
  BY <1>1, <1>5 DEF TypeInv, Over, SeatOf, Holds
<1>10. Head(links[s].up) \in Up(s) /\ Unread(s)
  BY <1>1, WithinOfTail DEF Up, Unread, Link
<1>11. LinkInv(s)' /\ LinkStep(s)
  <2>1. \A m \in Within(ms) : m.type # "welcome"
    BY <1>2, <1>3
  <2>2. \A m \in Down(s) : m.type # "welcome"
    BY <1>1, <1>10 DEF LinkInv, OnlyCloses
  <2>3. ASSUME IsBad(error), NEW q \in Pages, pages[q].socket = s PROVE Over(pages[q].token)'
    <3>1. Head(links[s].up).token = pages[q].token /\ pages[q].token <= room.issued
      BY <1>1, <1>10, <2>3 DEF Inv, PageInv, SocketInv
    <3>2. code \in {"seat-expired", "room-gone"}
      BY <1>2, <2>3 DEF IsBad
    <3> QED
      BY <1>9, <3>1, <3>2 DEF Over
  <2>4. PICK k \in Seq(News) : k = ms /\ ClosedBy(links[s], links'[s], k, 1008)
    BY <1>3, <1>7
  <2>5. /\ room'.issued \in Nat /\ room.issued <= room'.issued /\ 1008 \in Nat
        /\ \A m \in Within(k) : m.type # "welcome"
        /\ \A m \in Down(s) : m.type = "welcome" => Over(m.token)'
    BY <1>9, <2>1, <2>2, <2>4
  <2>6. (\E m \in Within(k) : IsBad(m)) => \A q \in Pages : pages[q].socket = s => Over(pages[q].token)'
    BY <1>3, <2>3, <2>4
  <2> QED
    BY <1>1, <2>4, <2>5, <2>6, LinkClosed
<1>12. ASSUME NEW r \in 1..Len(links), r # s PROVE LinkInv(r)' /\ LinkStep(r)
  <2>1. LinkInv(r) /\ links'[r] = links[r]
    BY <1>1, <1>6, <1>9, <1>12 DEF Inv
  <2>2. /\ room'.issued \in Nat /\ room.issued <= room'.issued
        /\ \A t \in Nat : Holds(r, t) => Holds(r, t)'
    BY <1>1, <1>6, <1>9, <1>12
  <2> QED
    BY <1>1, <2>1, <2>2, LinkUntouched
<1>13. ASSUME NEW seat \in room'.seats, seat.conn # None
       PROVE  seat.conn \in 1..Len(links) /\ links'[seat.conn].hosted /\ ~Unread(seat.conn)'
  <2>1. seat.conn # s /\ seat \in room.seats /\ seat.conn \in 1..Len(links)
    BY <1>9, <1>10, <1>13 DEF Inv, SeatInv
  <2> QED
    BY <1>6, <1>13, <2>1, SeatsUndisturbed
<1>14. BoundOnce(room'.seats)
  BY <1>9 DEF Inv, SeatInv
<1> QED
  BY <1>6, <1>8, <1>9, <1>11, <1>12, <1>13, <1>14, HostKeepsFrom

LEMMA SeatsKeeps ==
  ASSUME Inv, UNCHANGED <<pages, saved>>, NEW s \in 1..Len(links), links[s].hosted,
         links[s].up # <<>>, Head(links[s].up).type = "join", Seats(s)
  PROVE  HostKeeps
<1>1. TypeInv /\ LinkInv(s) /\ SeatInv /\ links \in Seq(Link) /\ links[s] \in Link /\ s \in Nat
  BY ElementOfSeq DEF Inv, TypeInv
<1>2. PICK token : token = room.issued + 1
  OBVIOUS
<1>3. PICK new : new = [token |-> token, page |-> links[s].page, conn |-> s]
  OBVIOUS
<1>4. PICK m : m = Welcome(token)
  OBVIOUS
<1>0. PICK ms : ms = <<m>>
  OBVIOUS
<1>5. room.issued \in Nat /\ token \in Nat /\ token > room.issued /\ room.epoch \in Nat /\ room \in Rooms
  BY <1>1, <1>2 DEF TypeInv, Rooms
<1>6. new \in Seat /\ new.token = token /\ new.conn = s
  BY <1>1, <1>3, <1>5 DEF Seat, Link
<1>7. m \in News /\ m.type = "welcome" /\ m.token = token
  BY <1>4, <1>5 DEF News, Welcome
<1>8. room' = [room EXCEPT !.issued = token, !.seats = @ \cup {new}]
  BY <1>2, <1>3 DEF Seats
<1>9. room' \in Rooms /\ room'.issued = token /\ room'.seats = room.seats \cup {new}
  BY <1>5, <1>6, <1>8 DEF Rooms
<1>10. /\ Read(s) \in Seq(Link) /\ Len(Read(s)) = Len(links)
       /\ ReadOf(links[s], Read(s)[s])
       /\ \A r \in 1..Len(links) : r # s => Read(s)[r] = links[r]
  BY <1>1, ReadIs
<1>11. links' = Sent(Read(s), s, ms)
  BY <1>0, <1>2, <1>4 DEF Seats
<1>12. ms \in Seq(News)
  BY <1>0, <1>7, WithinOfOne
<1>13. /\ links' \in Seq(Link) /\ Len(links') = Len(links)
       /\ SentOn(Read(s)[s], links'[s], ms)
       /\ \A r \in 1..Len(links) : r # s => links'[r] = links[r]
  <2>1. s \in 1..Len(Read(s))
    BY <1>10
  <2>2. /\ Sent(Read(s), s, ms) \in Seq(Link) /\ Len(Sent(Read(s), s, ms)) = Len(Read(s))
        /\ SentOn(Read(s)[s], Sent(Read(s), s, ms)[s], ms)
        /\ \A r \in 1..Len(Read(s)) : r # s => Sent(Read(s), s, ms)[r] = Read(s)[r]
    BY <1>10, <1>12, <2>1, SentIs
  <2> QED
    BY <1>10, <1>11, <2>2
<1>14. TypeInv'
  BY <1>1, <1>9, <1>13 DEF TypeInv, Rooms
<1>15. /\ \A r, t : Holds(r, t) => Holds(r, t)'
       /\ Holds(s, token)'
  BY <1>6, <1>9 DEF Holds
<1>16. LinkInv(s)' /\ LinkStep(s) /\ ~Unread(s)' /\ links'[s].hosted
  <2>1. PICK read : read = Read(s)[s]
    OBVIOUS
  <2>2. ReadOf(links[s], read) /\ SentOn(read, links'[s], ms)
    BY <1>10, <1>13, <2>1
  <2>3. Holds(s, m.token)' /\ m.token \in 1..room'.issued
    BY <1>5, <1>6, <1>7, <1>9 DEF Holds
  <2> QED
    BY <1>0, <1>1, <1>7, <1>14, <2>2, <2>3, LinkWelcomed
<1>17. ASSUME NEW r \in 1..Len(links), r # s PROVE LinkInv(r)' /\ LinkStep(r)
  <2>1. LinkInv(r) /\ links'[r] = links[r]
    BY <1>1, <1>5, <1>9, <1>13, <1>15, <1>17 DEF Inv
  <2>2. /\ room'.issued \in Nat /\ room.issued <= room'.issued
        /\ \A t \in Nat : Holds(r, t) => Holds(r, t)'
    BY <1>1, <1>5, <1>9, <1>13, <1>15, <1>17
  <2> QED
    BY <1>1, <2>1, <2>2, LinkUntouched
<1>18. ASSUME NEW seat \in room'.seats
       PROVE  /\ \/ \E old \in room.seats : old.token = seat.token
                 \/ seat.token \in room.issued + 1..room'.issued
              /\ seat.conn # None =>
                   seat.conn \in 1..Len(links) /\ links'[seat.conn].hosted /\ ~Unread(seat.conn)'
  <2>1. CASE seat = new
    BY <1>2, <1>5, <1>6, <1>9, <1>16, <2>1
  <2>2. CASE seat \in room.seats /\ seat.conn # s
    <3>1. seat.conn # None => seat.conn \in 1..Len(links)
      BY <1>1, <2>2 DEF SeatInv
    <3> QED
      BY <1>13, <2>2, <3>1, SeatsUndisturbed
  <2>3. CASE seat \in room.seats /\ seat.conn = s
    BY <1>16, <2>3
  <2> QED
    BY <1>9, <2>1, <2>2, <2>3
<1>19. BoundOnce(room'.seats)
  <2>1. Unread(s)
    BY <1>1, WithinOfTail DEF Unread, Up, Link
  <2>2. \A seat \in room.seats : seat.conn # s
    BY <1>1, <1>16, <2>1 DEF SeatInv, None
  <2> QED
    BY <1>1, <1>6, <1>9, <2>2 DEF SeatInv, BoundOnce
<1> QED
  BY <1>5, <1>9, <1>13, <1>14, <1>16, <1>17, <1>18, <1>19, HostKeepsFrom

LEMMA TakesOverKeeps ==
  ASSUME Inv, UNCHANGED <<pages, saved>>, NEW s \in 1..Len(links), links[s].hosted,
         links[s].up # <<>>, Head(links[s].up).type = "join",
         NEW seat \in room.seats, TakesOver(s, seat)
  PROVE  HostKeeps
<1>1. /\ TypeInv /\ LinkInv(s) /\ SeatInv /\ links \in Seq(Link) /\ links[s] \in Link /\ s \in Nat /\ s # None
      /\ seat \in Seat
  BY ElementOfSeq DEF Inv, TypeInv, None
<1>2. PICK old : old = seat.conn
  OBVIOUS
<1>3. PICK new : new = [seat EXCEPT !.conn = s]
  OBVIOUS
<1>4. PICK m : m = Welcome(seat.token)
  OBVIOUS
<1>0. PICK ms : ms = <<m>>
  OBVIOUS
<1>5. room.issued \in Nat /\ room.epoch \in Nat /\ room \in Rooms /\ seat.token \in 1..room.issued
  BY <1>1 DEF TypeInv, Rooms, SeatInv
<1>6. new \in Seat /\ new.token = seat.token /\ new.conn = s
  BY <1>1, <1>3 DEF Seat
<1>7. m \in News /\ m.type = "welcome" /\ m.token = seat.token
  BY <1>4, <1>5 DEF News, Welcome
<1>8. room' = [room EXCEPT !.seats = (@ \ {seat}) \cup {new}]
  BY <1>3 DEF TakesOver
<1>9. /\ room' \in Rooms /\ room'.issued = room.issued
      /\ room'.seats = (room.seats \ {seat}) \cup {new}
  BY <1>5, <1>6, <1>8 DEF Rooms
<1>10. /\ Read(s) \in Seq(Link) /\ Len(Read(s)) = Len(links)
       /\ ReadOf(links[s], Read(s)[s])
       /\ \A r \in 1..Len(links) : r # s => Read(s)[r] = links[r]
  BY <1>1, ReadIs
<1>11. Unread(s)
  BY <1>1, WithinOfTail DEF Unread, Up, Link
<1>12. old # s /\ (old # None => old \in 1..Len(links) /\ links[old].hosted)
  BY <1>1, <1>2, <1>11 DEF SeatInv
<1>13. PICK closed : closed = IF old = None THEN Read(s) ELSE HostCloses(Read(s), old, <<>>, 4001)
  OBVIOUS
<1>14. PICK none \in Seq(News) : none = <<>> /\ Within(none) = {}
  BY EmptySeq, WithinEmpty
<1>15. /\ closed \in Seq(Link) /\ Len(closed) = Len(links)
       /\ closed[s] = Read(s)[s]
       /\ old # None => ClosedBy(links[old], closed[old], none, 4001)
       /\ \A r \in 1..Len(links) : r # s /\ r # old => closed[r] = links[r]
  <2>1. CASE old = None
    BY <1>10, <1>13, <2>1
  <2>2. CASE old # None
    <3>1. closed = HostCloses(Read(s), old, none, 4001)
      BY <1>13, <1>14, <2>2
    <3>2. /\ closed \in Seq(Link) /\ Len(closed) = Len(Read(s))
          /\ ClosedBy(Read(s)[old], closed[old], none, 4001)
          /\ \A r \in 1..Len(Read(s)) : r # old => closed[r] = Read(s)[r]
      <4>1. PICK before \in Seq(Link) : before = Read(s) /\ old \in 1..Len(before)
        BY <1>10, <1>12, <2>2
      <4>2. /\ HostCloses(before, old, none, 4001) \in Seq(Link)
            /\ Len(HostCloses(before, old, none, 4001)) = Len(before)
            /\ ClosedBy(before[old], HostCloses(before, old, none, 4001)[old], none, 4001)
            /\ \A r \in 1..Len(before) : r # old => HostCloses(before, old, none, 4001)[r] = before[r]
        BY <4>1, HostClosesIs
      <4> QED
        BY <3>1, <4>1, <4>2
    <3> QED
      BY <1>10, <1>12, <2>2, <3>2
  <2> QED
    BY <2>1, <2>2
<1>16. links' = Sent(closed, s, ms)
  BY <1>0, <1>2, <1>4, <1>13 DEF TakesOver
<1>17. ms \in Seq(News)
  BY <1>0, <1>7, WithinOfOne
<1>18. /\ links' \in Seq(Link) /\ Len(links') = Len(links)
       /\ SentOn(closed[s], links'[s], ms)
       /\ \A r \in 1..Len(links) : r # s => links'[r] = closed[r]
  <2>1. s \in 1..Len(closed)
    BY <1>15
  <2>2. /\ Sent(closed, s, ms) \in Seq(Link) /\ Len(Sent(closed, s, ms)) = Len(closed)
        /\ SentOn(closed[s], Sent(closed, s, ms)[s], ms)
        /\ \A r \in 1..Len(closed) : r # s => Sent(closed, s, ms)[r] = closed[r]
    <3>1. closed \in Seq(Link)
      BY <1>15
    <3> QED
      BY <1>17, <2>1, <3>1, SentIs
  <2> QED
    BY <1>15, <1>16, <2>2
<1>19. TypeInv'
  BY <1>1, <1>9, <1>18 DEF TypeInv, Rooms
<1>20. /\ \A r, t : Holds(r, t) /\ r # old => Holds(r, t)'
       /\ Holds(s, seat.token)'
  BY <1>2, <1>6, <1>9 DEF Holds
<1>21. LinkInv(s)' /\ LinkStep(s) /\ ~Unread(s)' /\ links'[s].hosted
  <2>1. PICK read : read = Read(s)[s]
    OBVIOUS
  <2>2. ReadOf(links[s], read) /\ SentOn(read, links'[s], ms)
    BY <1>10, <1>15, <1>18, <2>1
  <2>3. Holds(s, m.token)' /\ m.token \in 1..room'.issued
    BY <1>5, <1>6, <1>7, <1>9 DEF Holds
  <2> QED
    BY <1>0, <1>1, <1>7, <1>19, <2>2, <2>3, LinkWelcomed
<1>22. ASSUME old # None PROVE LinkInv(old)' /\ LinkStep(old)
  <2>1. ClosedBy(links[old], links'[old], none, 4001)
    BY <1>12, <1>15, <1>18, <1>22
  <2>2. LinkInv(old)
    BY <1>12, <1>22 DEF Inv
  <2> QED
    <3>1. /\ old \in 1..Len(links) /\ links[old].hosted /\ 4001 \in Nat
          /\ room'.issued \in Nat /\ room.issued <= room'.issued
          /\ \A k \in Within(none) : k.type # "welcome" /\ ~IsBad(k)
      BY <1>5, <1>9, <1>12, <1>14, <1>22
    <3> QED
      BY <1>1, <2>1, <2>2, <3>1, LinkClosed
<1>23. ASSUME NEW r \in 1..Len(links), r # s, r # old PROVE LinkInv(r)' /\ LinkStep(r)
  <2>1. LinkInv(r) /\ links'[r] = links[r]
    BY <1>1, <1>5, <1>9, <1>15, <1>18, <1>20, <1>23 DEF Inv
  <2>2. /\ room'.issued \in Nat /\ room.issued <= room'.issued
        /\ \A t \in Nat : Holds(r, t) => Holds(r, t)'
    BY <1>1, <1>5, <1>9, <1>15, <1>18, <1>20, <1>23
  <2> QED
    BY <1>1, <2>1, <2>2, LinkUntouched
<1>24. ASSUME NEW other \in room'.seats
       PROVE  /\ \E before \in room.seats : before.token = other.token
              /\ other.conn # None =>
                   other.conn \in 1..Len(links) /\ links'[other.conn].hosted /\ ~Unread(other.conn)'
  <2>1. CASE other = new
    BY <1>6, <1>21, <2>1
  <2>2. CASE other \in room.seats /\ other.conn # s /\ other.conn # old
    <3>1. other.conn # None => other.conn \in 1..Len(links)
      BY <1>1, <2>2 DEF SeatInv
    <3> QED
      BY <1>15, <1>18, <2>2, <3>1, SeatsUndisturbed
  <2>3. CASE other \in room.seats /\ other.conn = s
    BY <1>21, <2>3
  <2>4. CASE other \in room.seats /\ other # seat /\ other.conn = old
    BY <1>1, <1>2, <2>4 DEF SeatInv, BoundOnce
  <2> QED
    BY <1>9, <2>1, <2>2, <2>3, <2>4
<1>25. BoundOnce(room'.seats)
  <2>1. \A other \in room.seats : other.conn # s
    BY <1>1, <1>11 DEF SeatInv, None
  <2> QED
    BY <1>1, <1>6, <1>9, <2>1 DEF SeatInv, BoundOnce
<1> QED
  <2>1. Len(links') = Len(links) /\ room.issued <= room'.issued
    BY <1>5, <1>9, <1>18
  <2>2. \A r \in 1..Len(links) : LinkInv(r)' /\ LinkStep(r)
    <3>1. SUFFICES ASSUME NEW r \in 1..Len(links) PROVE LinkInv(r)' /\ LinkStep(r)
      OBVIOUS
    <3>2. CASE r = s
      BY <1>21, <3>2
    <3>3. CASE r = old
      BY <1>1, <1>22, <3>3 DEF None
    <3> QED
      BY <1>23, <3>2, <3>3
  <2> QED
    BY <1>19, <1>24, <1>25, <2>1, <2>2, HostKeepsFrom

LEMMA JoinKeeps ==
  ASSUME Inv, UNCHANGED <<pages, saved>>, NEW s \in 1..Len(links), links[s].hosted,
         links[s].up # <<>>, Head(links[s].up).type = "join", Join(s, Head(links[s].up))
  PROVE  HostKeeps
<1> DEFINE m == Head(links[s].up)
           found == IF m.token = None THEN {} ELSE SeatOf(m.token)
<1>1. \/ \E seat \in found : TakesOver(s, seat)
      \/ Refuses(s, "room-exists") \/ Refuses(s, "room-full")
      \/ found = {} /\ (Refuses(s, "room-gone") \/ Refuses(s, "seat-expired"))
      \/ Seats(s)
  BY DEF Join
<1>2. ASSUME NEW seat \in found, TakesOver(s, seat) PROVE HostKeeps
  <2>1. seat \in room.seats
    BY DEF SeatOf
  <2> QED
    BY <1>2, <2>1, TakesOverKeeps
<1>3. ASSUME NEW code \in {"room-exists", "room-full"}, Refuses(s, code) PROVE HostKeeps
  <2>1. code \in Refusals /\ code \notin {"seat-expired", "room-gone"}
    BY DEF Refusals
  <2> QED
    BY <1>3, <2>1, RefusesKeeps
<1>4. ASSUME found = {}, NEW code \in {"room-gone", "seat-expired"}, Refuses(s, code) PROVE HostKeeps
  <2>1. code \in Refusals /\ (m.token # None => SeatOf(m.token) = {})
    BY <1>4 DEF Refusals
  <2> QED
    BY <1>4, <2>1, RefusesKeeps
<1>5. CASE Seats(s)
  BY <1>5, SeatsKeeps
<1> QED
  BY <1>1, <1>2, <1>3, <1>4, <1>5

\* The next room has no seats, and tokens are never issued again.
LEMMA NextRoomIs ==
  ASSUME TypeInv, NEW crashed \in BOOLEAN, NextRoom(crashed)
  PROVE  /\ room' \in Rooms /\ room'.seats = {} /\ room'.issued = room.issued
         /\ room.issued \in Nat /\ BoundOnce(room'.seats)
<1>1. room \in Rooms /\ room.epoch + 1 \in Nat
  BY DEF TypeInv, Rooms
<1>2. PICK none \in SUBSET Seat : none = {}
  OBVIOUS
<1>3. PICK epoch \in Nat : epoch = room.epoch + 1
  BY <1>1
<1>4. room' = [room EXCEPT !.epoch = epoch, !.seats = none, !.crashed = crashed]
  BY <1>2, <1>3 DEF NextRoom
<1>5. room' \in Rooms /\ room'.seats = none /\ room'.issued = room.issued /\ room.issued \in Nat
  BY <1>1, <1>4 DEF Rooms
<1> QED
  BY <1>2, <1>5 DEF BoundOnce

\* The room without the seats of a socket.
LEMMA RestIs ==
  ASSUME Inv, NEW s, room' = [room EXCEPT !.seats = {seat \in room.seats : seat.conn # s}]
  PROVE  /\ room' \in Rooms /\ room'.issued = room.issued /\ room.issued \in Nat
         /\ room'.seats = {seat \in room.seats : seat.conn # s} /\ BoundOnce(room'.seats)
         /\ \A r, t : Holds(r, t) /\ r # s => Holds(r, t)'
<1>1. room \in Rooms /\ BoundOnce(room.seats)
  BY DEF Inv, TypeInv, Rooms, SeatInv
<1>2. /\ room' \in Rooms /\ room'.issued = room.issued /\ room.issued \in Nat
      /\ room'.seats = {seat \in room.seats : seat.conn # s}
  BY <1>1 DEF Rooms
<1> QED
  BY <1>1, <1>2 DEF BoundOnce, Holds

\* The room whose host misses a socket.
LEMMA MissedIs ==
  ASSUME Inv, NEW s \in 1..Len(links),
         room' = [room EXCEPT !.seats =
                    {IF seat.conn = s THEN [seat EXCEPT !.conn = None] ELSE seat : seat \in @}]
  PROVE  /\ room' \in Rooms /\ room'.issued = room.issued /\ room.issued \in Nat
         /\ BoundOnce(room'.seats)
         /\ \A seat \in room'.seats :
              /\ \E old \in room.seats : old.token = seat.token
              /\ seat.conn # None => seat \in room.seats /\ seat.conn # s
         /\ \A r, t : Holds(r, t) /\ r # s => Holds(r, t)'
<1> DEFINE Missed(seat) == IF seat.conn = s THEN [seat EXCEPT !.conn = None] ELSE seat
<1>1. room \in Rooms /\ room.seats \subseteq Seat /\ BoundOnce(room.seats) /\ s # None
  BY DEF Inv, TypeInv, Rooms, SeatInv, None
<1>2. \A seat \in room.seats :
        /\ Missed(seat) \in Seat /\ Missed(seat).token = seat.token
        /\ Missed(seat).conn # None => Missed(seat) = seat /\ seat.conn # s
        /\ seat.conn # s => Missed(seat) = seat
  BY <1>1 DEF Seat, None
<1>3. /\ room' = [room EXCEPT !.seats = {Missed(seat) : seat \in room.seats}]
      /\ {Missed(seat) : seat \in room.seats} \in SUBSET Seat
  BY <1>2
<1> HIDE DEF Missed
<1>4. /\ room' \in Rooms /\ room'.issued = room.issued /\ room.issued \in Nat
      /\ room'.seats = {Missed(seat) : seat \in room.seats}
  BY <1>1, <1>3 DEF Rooms
<1>5. \A seat \in room'.seats :
        /\ \E old \in room.seats : old.token = seat.token
        /\ seat.conn # None => seat \in room.seats /\ seat.conn # s
  BY <1>2, <1>4
<1>6. BoundOnce(room'.seats)
  BY <1>1, <1>5 DEF BoundOnce
<1>7. ASSUME NEW r, NEW t, Holds(r, t), r # s PROVE Holds(r, t)'
  <2>1. PICK seat \in room.seats : seat.token = t /\ seat.conn = r
    BY <1>7 DEF Holds
  <2>2. seat \in room'.seats
    BY <1>2, <1>4, <1>7, <2>1
  <2> QED
    BY <2>1, <2>2 DEF Holds
<1> QED
  BY <1>4, <1>5, <1>6, <1>7

\* The host closes a socket, of a page it told nothing else, and keeps at most the
\* seats that are not bound to it.
LEMMA DropsKeeps ==
  ASSUME Inv, UNCHANGED <<pages, saved>>, NEW s \in 1..Len(links), links[s].hosted,
         links' \in Seq(Link), Len(links') = Len(links),
         \/ \E code \in Nat : ClosedBy(links[s], links'[s], <<>>, code)
         \/ /\ ~links[s].open /\ ~links'[s].open /\ links'[s].page = links[s].page
            /\ links'[s].down = links[s].down /\ links'[s].up = <<>>,
         \A r \in 1..Len(links) : r # s => links'[r] = links[r],
         room' \in Rooms, room'.issued = room.issued, BoundOnce(room'.seats),
         \A seat \in room'.seats :
           /\ \E old \in room.seats : old.token = seat.token
           /\ seat.conn # None => seat \in room.seats /\ seat.conn # s,
         \A r, t : Holds(r, t) /\ r # s => Holds(r, t)'
  PROVE  HostKeeps
<1>1. /\ TypeInv /\ LinkInv(s) /\ SeatInv /\ room.issued \in Nat
      /\ room'.issued \in Nat /\ room.issued <= room'.issued
  BY DEF Inv, TypeInv, Rooms
<1>2. TypeInv'
  BY <1>1 DEF TypeInv, Rooms
<1>3. LinkInv(s)' /\ LinkStep(s)
  <2>1. ASSUME NEW code \in Nat, ClosedBy(links[s], links'[s], <<>>, code)
        PROVE  LinkInv(s)' /\ LinkStep(s)
    <3>1. PICK none \in Seq(News) : none = <<>> /\ Within(none) = {}
      BY EmptySeq, WithinEmpty
    <3>2. ClosedBy(links[s], links'[s], none, code)
      BY <2>1, <3>1
    <3>3. \A k \in Within(none) : k.type # "welcome" /\ ~IsBad(k)
      BY <3>1
    <3> QED
      BY <1>1, <3>2, <3>3, LinkClosed
  <2>2. ASSUME ~links[s].open, ~links'[s].open, links'[s].page = links[s].page,
               links'[s].down = links[s].down, links'[s].up = <<>>
        PROVE  LinkInv(s)' /\ LinkStep(s)
    <3>1. s \in 1..Len(links') /\ links'[s].up \in {links[s].up, <<>>}
      BY <2>2
    <3>2. links'[s].down = IF links[s].open THEN <<Closed(1006)>> ELSE links[s].down
      BY <2>2
    <3> QED
      BY <1>1, <1>2, <2>2, <3>1, <3>2, LinkBroken
  <2> QED
    BY <2>1, <2>2
<1>4. ASSUME NEW r \in 1..Len(links), r # s PROVE LinkInv(r)' /\ LinkStep(r)
  <2>1. LinkInv(r) /\ links'[r] = links[r] /\ \A t \in Nat : Holds(r, t) => Holds(r, t)'
    BY <1>4 DEF Inv
  <2> QED
    BY <1>1, <2>1, LinkUntouched
<1>5. ASSUME NEW seat \in room'.seats, seat.conn # None
      PROVE  seat.conn \in 1..Len(links) /\ links'[seat.conn].hosted /\ ~Unread(seat.conn)'
  <2>1. seat \in room.seats /\ seat.conn # s /\ seat.conn \in 1..Len(links)
    BY <1>1, <1>5 DEF SeatInv
  <2> QED
    BY <1>5, <2>1, SeatsUndisturbed
<1> QED
  BY <1>1, <1>2, <1>3, <1>4, <1>5, HostKeepsFrom

LEMMA DepartsKeeps ==
  ASSUME Inv, UNCHANGED <<pages, saved>>, NEW s \in 1..Len(links), links[s].hosted,
         links[s].up # <<>>, Departs(s)
  PROVE  HostKeeps
<1> DEFINE rest == {seat \in room.seats : seat.conn # s}
<1>1. TypeInv /\ links \in Seq(Link)
  BY DEF Inv, TypeInv
<1>2. PICK none \in Seq(News) : none = <<>>
  BY EmptySeq
<1>3. PICK read \in Seq(Link) :
        /\ read = Read(s) /\ Len(read) = Len(links) /\ ReadOf(links[s], read[s])
        /\ \A r \in 1..Len(links) : r # s => read[r] = links[r]
  BY <1>1, ReadIs
<1>4. links' = HostCloses(read, s, none, 1000)
  BY <1>2, <1>3 DEF Departs
<1>5. /\ links' \in Seq(Link) /\ Len(links') = Len(links)
      /\ ClosedBy(read[s], links'[s], none, 1000)
      /\ \A r \in 1..Len(links) : r # s => links'[r] = read[r]
  <2>1. s \in 1..Len(read) /\ 1000 \in Nat
    BY <1>3
  <2>2. /\ HostCloses(read, s, none, 1000) \in Seq(Link)
        /\ Len(HostCloses(read, s, none, 1000)) = Len(read)
        /\ ClosedBy(read[s], HostCloses(read, s, none, 1000)[s], none, 1000)
        /\ \A r \in 1..Len(read) : r # s => HostCloses(read, s, none, 1000)[r] = read[r]
    BY <2>1, HostClosesIs
  <2> QED
    BY <1>3, <1>4, <2>2
<1>6. ClosedBy(links[s], links'[s], <<>>, 1000)
  BY <1>2, <1>3, <1>5 DEF ReadOf, ClosedBy
<1>7. /\ room' \in Rooms /\ room'.issued = room.issued /\ BoundOnce(room'.seats)
      /\ \A seat \in room'.seats : seat \in room.seats /\ seat.conn # s
      /\ \A r, t : Holds(r, t) /\ r # s => Holds(r, t)'
  <2>1. CASE rest = {} /\ room.seats # {}
    <3>1. NextRoom(FALSE)
      BY <2>1 DEF Departs
    <3>2. \A r, t : Holds(r, t) => r = s
      BY <2>1 DEF Holds
    <3> QED
      BY <1>1, <3>1, <3>2, NextRoomIs
  <2>2. CASE ~(rest = {} /\ room.seats # {})
    <3>1. room' = [room EXCEPT !.seats = rest]
      BY <2>2 DEF Departs
    <3> QED
      BY <3>1, RestIs
  <2> QED
    BY <2>1, <2>2
<1> QED
  BY <1>3, <1>5, <1>6, <1>7, DropsKeeps

LEMMA LinkLostKeeps ==
  ASSUME Inv, NEW s \in 1..Len(links), LinkLost(s)
  PROVE  HostKeeps
<1> DEFINE l == [links[s] EXCEPT !.hosted = FALSE, !.up = <<>>]
<1>1. TypeInv /\ links \in Seq(Link) /\ links[s] \in Link
  BY ElementOfSeq DEF Inv, TypeInv
<1>2. links[s].hosted /\ ~links[s].open /\ UNCHANGED <<pages, saved>>
  BY DEF LinkLost
<1>3. <<>> \in Seq(Asked)
  BY EmptySeq
<1>4. /\ l \in Link /\ l.open = links[s].open /\ l.page = links[s].page
      /\ l.down = links[s].down /\ l.up = <<>>
  BY <1>1, <1>3 DEF Link
<1>5. links' = [links EXCEPT ![s] = l]
  BY <1>1 DEF LinkLost, Link
<1> HIDE DEF l
<1>6. /\ links' \in Seq(Link) /\ Len(links') = Len(links) /\ links'[s] = l
      /\ \A r \in 1..Len(links) : r # s => links'[r] = links[r]
  BY <1>1, <1>4, <1>5, Replaced
<1>7. /\ room' \in Rooms /\ room'.issued = room.issued /\ BoundOnce(room'.seats)
      /\ \A seat \in room'.seats :
           /\ \E old \in room.seats : old.token = seat.token
           /\ seat.conn # None => seat \in room.seats /\ seat.conn # s
      /\ \A r, t : Holds(r, t) /\ r # s => Holds(r, t)'
  BY MissedIs DEF LinkLost
<1> QED
  BY <1>2, <1>4, <1>6, <1>7, DropsKeeps

LEMMA StaleKeeps ==
  ASSUME Inv, NEW s \in 1..Len(links), Stale(s)
  PROVE  HostKeeps
<1>1. TypeInv /\ links \in Seq(Link) /\ 4002 \in Nat
  BY DEF Inv, TypeInv
<1>2. links[s].hosted /\ UNCHANGED <<pages, saved>>
  BY DEF Stale
<1>3. PICK none \in Seq(News) : none = <<>>
  BY EmptySeq
<1>4. links' = HostCloses(links, s, none, 4002)
  BY <1>3 DEF Stale
<1>5. /\ links' \in Seq(Link) /\ Len(links') = Len(links)
      /\ ClosedBy(links[s], links'[s], none, 4002)
      /\ \A r \in 1..Len(links) : r # s => links'[r] = links[r]
  BY <1>1, <1>4, HostClosesIs
<1>6. /\ room' \in Rooms /\ room'.issued = room.issued /\ BoundOnce(room'.seats)
      /\ \A seat \in room'.seats :
           /\ \E old \in room.seats : old.token = seat.token
           /\ seat.conn # None => seat \in room.seats /\ seat.conn # s
      /\ \A r, t : Holds(r, t) /\ r # s => Holds(r, t)'
  BY MissedIs DEF Stale
<1>7. ClosedBy(links[s], links'[s], <<>>, 4002)
  BY <1>3, <1>5
<1> QED
  BY <1>1, <1>2, <1>5, <1>6, <1>7, DropsKeeps

LEMMA ExpireKeeps ==
  ASSUME Inv, Expire
  PROVE  HostKeeps
<1>1. PICK gone \in room.seats :
        /\ gone.conn = None
        /\ IF room.seats # {gone} THEN room' = [room EXCEPT !.seats = @ \ {gone}]
           ELSE NextRoom(FALSE)
  BY DEF Expire
<1>2. TypeInv /\ UNCHANGED <<pages, saved, links>> /\ room \in Rooms /\ SeatInv
  BY DEF Expire, Inv, TypeInv, Rooms
<1>3. /\ room' \in Rooms /\ room'.issued = room.issued /\ room.issued \in Nat
      /\ room'.seats = room.seats \ {gone}
  <2>1. CASE room.seats # {gone}
    BY <1>1, <1>2, <2>1 DEF Rooms
  <2>2. CASE room.seats = {gone}
    BY <1>1, <1>2, <2>2, NextRoomIs
  <2> QED
    BY <2>1, <2>2
<1>4. TypeInv' /\ BoundOnce(room'.seats) /\ room.issued <= room'.issued
  BY <1>2, <1>3 DEF TypeInv, Rooms, SeatInv, BoundOnce
<1>5. ASSUME NEW s \in 1..Len(links) PROVE LinkInv(s)' /\ LinkStep(s)
  <2>1. s # None
    BY DEF None
  <2>2. \A t : Holds(s, t) => Holds(s, t)'
    BY <1>1, <1>3, <2>1 DEF Holds
  <2> QED
    BY <1>2, <1>3, <1>4, <2>2, LinkUntouched DEF Inv
<1>6. ASSUME NEW seat \in room'.seats
      PROVE  /\ \E old \in room.seats : old.token = seat.token
             /\ seat.conn # None =>
                  seat.conn \in 1..Len(links) /\ links'[seat.conn].hosted /\ ~Unread(seat.conn)'
  BY <1>2, <1>3, SeatsUndisturbed
<1> QED
  BY <1>2, <1>4, <1>5, <1>6, HostKeepsFrom

LEMMA BreakKeeps ==
  ASSUME Inv, NEW s \in 1..Len(links), Break(s)
  PROVE  HostKeeps
<1>0. PICK told : told = <<Closed(1006)>>
  OBVIOUS
<1> DEFINE l == [links[s] EXCEPT !.down = told, !.open = FALSE]
<1>1. /\ TypeInv /\ LinkInv(s) /\ SeatInv /\ links \in Seq(Link) /\ links[s] \in Link
      /\ room.issued \in Nat
  BY ElementOfSeq DEF Inv, TypeInv
<1>2. links[s].open /\ UNCHANGED <<pages, saved, room>>
  BY DEF Break
<1>3. told \in Seq(News)
  <2>1. Closed(1006) \in News
    BY DEF Closed, News
  <2> QED
    BY <1>0, <2>1, WithinOfOne
<1>4. /\ l \in Link /\ ~l.open /\ l.page = links[s].page /\ l.hosted = links[s].hosted
      /\ l.down = told /\ l.up = links[s].up
  BY <1>1, <1>3 DEF Link
<1>5. links' = [links EXCEPT ![s] = l]
  <2>1. links' = [links EXCEPT ![s].down = told, ![s].open = FALSE]
    BY <1>0 DEF Break
  <2> QED
    BY <1>1, <2>1, LenProperties DEF Link
<1> HIDE DEF l
<1>6. /\ links' \in Seq(Link) /\ Len(links') = Len(links) /\ links'[s] = l
      /\ \A r \in 1..Len(links) : r # s => links'[r] = links[r]
  BY <1>1, <1>4, <1>5, Replaced
<1>7. TypeInv' /\ BoundOnce(room'.seats)
  BY <1>1, <1>2, <1>6 DEF TypeInv, SeatInv
<1>8. LinkInv(s)' /\ LinkStep(s)
  <2>1. /\ s \in 1..Len(links') /\ links'[s].up \in {links[s].up, <<>>}
        /\ links'[s].down = IF links[s].open THEN <<Closed(1006)>> ELSE links[s].down
    BY <1>0, <1>2, <1>4, <1>6
  <2> QED
    BY <1>1, <1>4, <1>6, <1>7, <2>1, LinkBroken
<1>9. ASSUME NEW r \in 1..Len(links), r # s PROVE LinkInv(r)' /\ LinkStep(r)
  <2>1. \A t \in Nat : Holds(r, t) => Holds(r, t)'
    BY <1>2 DEF Holds
  <2> QED
    BY <1>1, <1>2, <1>6, <1>9, <2>1, LinkUntouched DEF Inv
<1>10. ASSUME NEW seat \in room'.seats, seat.conn # None
       PROVE  seat.conn \in 1..Len(links) /\ links'[seat.conn].hosted /\ ~Unread(seat.conn)'
  <2>1. PICK r : r = seat.conn
    OBVIOUS
  <2>2. r \in 1..Len(links) /\ links[r].hosted /\ ~Unread(r)
    BY <1>1, <1>2, <1>10, <2>1 DEF SeatInv
  <2>3. links'[r].hosted = links[r].hosted /\ links'[r].up = links[r].up
    <3>1. CASE r = s
      BY <1>4, <1>6, <3>1
    <3>2. CASE r # s
      BY <1>6, <2>2, <3>2
    <3> QED
      BY <3>1, <3>2
  <2>4. ~Unread(r)'
    BY <2>2, <2>3 DEF Unread, Up
  <2> QED
    BY <2>1, <2>2, <2>3, <2>4
<1>11. room.issued <= room'.issued /\ room'.seats = room.seats
  BY <1>1, <1>2
<1> QED
  BY <1>2, <1>6, <1>7, <1>8, <1>9, <1>10, <1>11, HostKeepsFrom

\* A step that ends the room: it touches only the sockets the host has.
LEMMA EndsKeeps ==
  ASSUME Inv, UNCHANGED <<pages, saved>>, links' \in Seq(Link), Len(links') = Len(links),
         NEW crashed \in BOOLEAN, NextRoom(crashed),
         \A s \in 1..Len(links) : ~links[s].hosted => links'[s] = links[s],
         \A s \in 1..Len(links) : links[s].hosted => LinkInv(s)' /\ LinkStep(s)
  PROVE  HostKeeps
<1>1. /\ room' \in Rooms /\ room'.seats = {} /\ room'.issued = room.issued
      /\ room.issued \in Nat /\ BoundOnce(room'.seats) /\ TypeInv /\ SeatInv
  BY NextRoomIs DEF Inv
<1>2. TypeInv'
  BY <1>1 DEF TypeInv, Rooms
<1>3. ASSUME NEW s \in 1..Len(links), ~links[s].hosted PROVE LinkInv(s)' /\ LinkStep(s)
  <2>1. s # None
    BY DEF None
  <2>2. \A t \in Nat : ~Holds(s, t)
    BY <1>1, <1>3, <2>1 DEF SeatInv, Holds
  <2> QED
    BY <1>1, <1>3, <2>2, LinkUntouched DEF Inv
<1>4. \A s \in 1..Len(links) : LinkInv(s)' /\ LinkStep(s)
  BY <1>3
<1> QED
  BY <1>1, <1>2, <1>4, HostKeepsFrom

\* Sockets given one by one.
LEMMA EachReplaced ==
  ASSUME TypeInv, links' \in [1..Len(links) -> Link]
  PROVE  links' \in Seq(Link) /\ Len(links') = Len(links)
<1>1. Len(links) \in Nat
  BY LenProperties DEF TypeInv
<1> QED
  BY <1>1

LEMMA RoomEndsKeeps ==
  ASSUME Inv, RoomEnds
  PROVE  HostKeeps
<1> DEFINE reset == [type |-> "room-reset"]
           told(s) == \E seat \in room.seats : seat.conn = s
           ms(s) == IF told(s) THEN <<reset>> ELSE <<>>
<1>1. /\ TypeInv /\ links \in Seq(Link) /\ DOMAIN links = 1..Len(links) /\ 1012 \in Nat
      /\ UNCHANGED <<pages, saved>> /\ NextRoom(FALSE)
  <2>1. TypeInv /\ links \in Seq(Link) /\ 1012 \in Nat
    BY DEF Inv, TypeInv
  <2>2. UNCHANGED <<pages, saved>> /\ NextRoom(FALSE)
    BY DEF RoomEnds
  <2> QED
    BY <2>1, <2>2, LenProperties
<1>2. \A s \in 1..Len(links) :
        ms(s) \in Seq(News) /\ \A m \in Within(ms(s)) : m.type # "welcome"
  <2>1. reset \in News /\ reset.type # "welcome"
    BY DEF News
  <2>2. <<reset>> \in Seq(News) /\ Within(<<reset>>) = {reset}
    BY <2>1, WithinOfOne
  <2>3. <<>> \in Seq(News) /\ Within(<<>>) = {}
    BY EmptySeq, WithinEmpty
  <2> QED
    BY <2>1, <2>2, <2>3
<1>3. links' = [s \in 1..Len(links) |->
                  IF ~links[s].hosted THEN links[s] ELSE HostCloses(links, s, ms(s), 1012)[s]]
  BY <1>1 DEF RoomEnds
<1> HIDE DEF ms
<1>4. ASSUME NEW s \in 1..Len(links)
      PROVE  /\ HostCloses(links, s, ms(s), 1012)[s] \in Link
             /\ ClosedBy(links[s], HostCloses(links, s, ms(s), 1012)[s], ms(s), 1012)
  <2>1. PICK k \in Seq(News) : k = ms(s)
    BY <1>2
  <2>2. PICK after \in Seq(Link) :
          /\ after = HostCloses(links, s, k, 1012) /\ Len(after) = Len(links)
          /\ ClosedBy(links[s], after[s], k, 1012)
    BY <1>1, HostClosesIs
  <2>3. after[s] \in Link
    BY <2>2, ElementOfSeq
  <2> QED
    BY <2>1, <2>2, <2>3
<1>5. /\ links' \in [1..Len(links) -> Link]
      /\ \A s \in 1..Len(links) : ~links[s].hosted => links'[s] = links[s]
      /\ \A s \in 1..Len(links) : links[s].hosted => ClosedBy(links[s], links'[s], ms(s), 1012)
  <2>1. \A s \in 1..Len(links) : links[s] \in Link
    BY <1>1, ElementOfSeq
  <2> QED
    BY <1>3, <1>4, <2>1
<1>6. links' \in Seq(Link) /\ Len(links') = Len(links)
  BY <1>1, <1>5, EachReplaced
<1>7. /\ room' \in Rooms /\ room'.seats = {} /\ room'.issued = room.issued /\ room.issued \in Nat
  BY <1>1, NextRoomIs
<1>8. ASSUME NEW s \in 1..Len(links), links[s].hosted PROVE LinkInv(s)' /\ LinkStep(s)
  <2>1. PICK k \in Seq(News) : k = ms(s) /\ \A m \in Within(k) : m.type # "welcome"
    BY <1>2
  <2>2. ClosedBy(links[s], links'[s], k, 1012) /\ LinkInv(s)
    BY <1>5, <1>8, <2>1 DEF Inv
  <2>3. \A q \in Pages : pages[q].socket = s => Over(pages[q].token)'
    BY <1>1, <1>7 DEF Inv, PageInv, Over, SeatOf
  <2>4. \A m \in Down(s) : m.type = "welcome" => Over(m.token)'
    BY <1>7, <2>2 DEF LinkInv, Over, SeatOf
  <2>5. room'.issued \in Nat /\ room.issued <= room'.issued
    BY <1>7
  <2> QED
    BY <1>1, <1>8, <2>1, <2>2, <2>3, <2>4, <2>5, LinkClosed
<1> QED
  BY <1>1, <1>5, <1>6, <1>8, EndsKeeps

LEMMA CrashKeeps ==
  ASSUME Inv, Crash
  PROVE  HostKeeps
<1> DEFINE told == <<Closed(1006)>>
           lost(l) == [l EXCEPT !.hosted = FALSE, !.open = FALSE, !.up = <<>>,
                                !.down = IF l.open THEN told ELSE @]
<1>1. /\ TypeInv /\ links \in Seq(Link) /\ DOMAIN links = 1..Len(links)
      /\ UNCHANGED <<pages, saved>> /\ NextRoom(TRUE)
  BY LenProperties DEF Crash, Inv, TypeInv
<1>2. told \in Seq(News) /\ <<>> \in Seq(Asked)
  <2>1. Closed(1006) \in News
    BY DEF Closed, News
  <2> QED
    BY <2>1, WithinOfOne, EmptySeq
<1>3. links' = [s \in 1..Len(links) |-> IF ~links[s].hosted THEN links[s] ELSE lost(links[s])]
  BY <1>1 DEF Crash
<1> HIDE DEF told
<1>4. \A l \in Link :
        /\ lost(l) \in Link /\ lost(l).page = l.page /\ ~lost(l).open /\ lost(l).up = <<>>
        /\ lost(l).down = IF l.open THEN told ELSE l.down
  BY <1>2 DEF Link
<1> HIDE DEF lost
<1>5. \A s \in 1..Len(links) : links[s] \in Link
  BY <1>1, ElementOfSeq
<1>6. /\ links' \in [1..Len(links) -> Link]
      /\ \A s \in 1..Len(links) : ~links[s].hosted => links'[s] = links[s]
      /\ \A s \in 1..Len(links) : links[s].hosted => links'[s] = lost(links[s])
  BY <1>3, <1>4, <1>5
<1>7. links' \in Seq(Link) /\ Len(links') = Len(links)
  BY <1>1, <1>6, EachReplaced
<1>8. TypeInv'
  BY <1>1, <1>7, NextRoomIs DEF TypeInv, Rooms
<1>9. ASSUME NEW s \in 1..Len(links), links[s].hosted PROVE LinkInv(s)' /\ LinkStep(s)
  <2>1. /\ LinkInv(s) /\ s \in 1..Len(links')
        /\ links'[s].page = links[s].page /\ ~links'[s].open
        /\ links'[s].down = IF links[s].open THEN <<Closed(1006)>> ELSE links[s].down
        /\ links'[s].up \in {links[s].up, <<>>}
    BY <1>4, <1>5, <1>6, <1>7, <1>9 DEF Inv, told
  <2> QED
    BY <1>1, <1>8, <2>1, LinkBroken
<1> QED
  BY <1>1, <1>6, <1>7, <1>9, EndsKeeps

LEMMA ReceiveKeeps ==
  ASSUME Inv, NEW s \in 1..Len(links), Receive(s)
  PROVE  HostKeeps
<1>1. links[s].hosted /\ links[s].up # <<>> /\ UNCHANGED <<pages, saved>>
  BY DEF Receive
<1>2. CASE Head(links[s].up).type = "join" /\ Join(s, Head(links[s].up))
  BY <1>1, <1>2, JoinKeeps
<1>3. CASE Departs(s)
  BY <1>1, <1>3, DepartsKeeps
<1> QED
  BY <1>2, <1>3 DEF Receive

LEMMA HostKeepsInv ==
  ASSUME Inv, UNCHANGED <<pages, saved>>, HostKeeps
  PROVE  Inv'
<1>1. TypeInv' /\ HostStep
  BY DEF HostKeeps
<1>2. \A q \in Pages : PageInv(q)' /\ SeatedInv(q)'
  BY <1>1, PagesKeep
<1> QED
  BY <1>2 DEF Inv, HostKeeps

-----------------------------------------------------------------------------
(* The steps of a page.                                                    *)

\* A socket before and after its page has let it go.
LetGo(before, after) ==
  /\ after.page = before.page /\ after.hosted = before.hosted
  /\ after.up = before.up \/ after.up = Append(before.up, [type |-> "leave"])
  /\ ~after.open /\ after.down = <<>>

LEMMA ReleasedIs ==
  ASSUME TypeInv, NEW p \in Page, p.socket # None => p.socket \in 1..Len(links)
  PROVE  /\ Released(p) \in Seq(Link) /\ Len(Released(p)) = Len(links)
         /\ p.socket # None => LetGo(links[p.socket], Released(p)[p.socket])
                               /\ Released(p)[p.socket].up = links[p.socket].up
         /\ \A r \in 1..Len(links) : r # p.socket => Released(p)[r] = links[r]
<1>1. CASE p.socket = None
  BY <1>1 DEF Released, TypeInv
<1>2. CASE p.socket # None
  <2>1. PICK s : s = p.socket
    OBVIOUS
  <2>2. PICK none \in Seq(News) : none = <<>>
    BY EmptySeq
  <2> DEFINE l == [links[s] EXCEPT !.open = FALSE, !.down = none]
  <2>3. s \in 1..Len(links) /\ links \in Seq(Link) /\ links[s] \in Link /\ DOMAIN links = 1..Len(links)
    BY <1>2, <2>1, ElementOfSeq, LenProperties DEF TypeInv
  <2>4. l \in Link /\ LetGo(links[s], l) /\ l.up = links[s].up
    BY <2>2, <2>3 DEF Link, LetGo
  <2>5. Released(p) = [links EXCEPT ![s].open = FALSE, ![s].down = none]
    BY <1>2, <2>1, <2>2 DEF Released
  <2>6. Released(p) = [links EXCEPT ![s] = l]
    BY <2>3, <2>5 DEF Link
  <2> HIDE DEF l
  <2>7. LET after == [links EXCEPT ![s] = l] IN
        /\ after \in Seq(Link) /\ Len(after) = Len(links) /\ after[s] = l
        /\ \A r \in 1..Len(links) : r # s => after[r] = links[r]
    BY <2>3, <2>4, Replaced
  <2> QED
    BY <2>1, <2>4, <2>6, <2>7
<1> QED
  BY <1>1, <1>2

LEMMA LetGoKeeps ==
  ASSUME TypeInv, NEW s \in 1..Len(links), LinkInv(s), LetGo(links[s], links'[s]), links'[s] \in Link
  PROVE  LinkInv(s)' /\ (Unread(s)' => Unread(s)) /\ links'[s].hosted = links[s].hosted
<1>1. links[s] \in Link /\ links[s].up \in Seq(Asked)
  <2>1. links[s] \in Link
    BY ElementOfSeq DEF TypeInv
  <2> QED
    BY <2>1 DEF Link
<1>2. Down(s)' = {}
  BY WithinEmpty DEF LetGo, Down
<1>3. /\ \A m \in Up(s)' : m \in Up(s) \/ m.type = "leave"
      /\ \A i \in 1..Len(links'[s].up) : links'[s].up[i].type = "join" => i = 1
  <2>1. CASE links'[s].up = links[s].up
    BY <2>1 DEF Up, LinkInv
  <2>2. CASE links'[s].up = Append(links[s].up, [type |-> "leave"])
    <3>1. PICK leave \in Asked : leave = [type |-> "leave"] /\ leave.type = "leave"
      <4>1. [type |-> "leave"] \in Asked
        BY DEF Asked
      <4> QED
        BY <4>1
    <3>2. /\ Len(links[s].up) \in Nat /\ Len(links'[s].up) = Len(links[s].up) + 1
          /\ \A i \in 1..Len(links[s].up) : links'[s].up[i] = links[s].up[i]
          /\ links'[s].up[Len(links[s].up) + 1] = leave
      BY <1>1, <2>2, <3>1, AppendProperties, LenProperties
    <3>3. ASSUME NEW m \in Up(s)' PROVE m \in Up(s) \/ m.type = "leave"
      <4>1. PICK i \in 1..Len(links'[s].up) : m = links'[s].up[i]
        BY DEF Up, Within
      <4>2. CASE i \in 1..Len(links[s].up)
        BY <3>2, <4>1, <4>2 DEF Up, Within
      <4>3. CASE i = Len(links[s].up) + 1
        BY <3>1, <3>2, <4>1, <4>3
      <4> QED
        BY <3>2, <4>2, <4>3
    <3>4. ASSUME NEW i \in 1..Len(links'[s].up), links'[s].up[i].type = "join" PROVE i = 1
      <4>1. i # Len(links[s].up) + 1
        BY <3>1, <3>2, <3>4
      <4>2. i \in 1..Len(links[s].up)
        BY <3>2, <4>1
      <4>3. links[s].up[i].type = "join"
        BY <3>2, <3>4, <4>2
      <4> QED
        BY <4>2, <4>3 DEF LinkInv
    <3> QED
      BY <3>3, <3>4
  <2> QED
    BY <2>1, <2>2 DEF LetGo
<1>4. Unread(s)' => Unread(s)
  BY <1>3 DEF Unread
<1>5. LinkInv(s)'
  BY <1>2, <1>3 DEF LinkInv, BadNews, OnlyCloses, LetGo
<1> QED
  BY <1>4, <1>5 DEF LetGo

\* What is left to show of a step of the page q: its own socket, a new one, and q
\* itself are in order.
LEMMA PageKeepsInv ==
  ASSUME Inv, TypeInv', NEW q \in Pages, room' = room, Len(links) <= Len(links'),
         \A r \in Pages : r # q => pages'[r] = pages[r] /\ saved'[r] = saved[r],
         \A s \in 1..Len(links) : s # pages[q].socket => links'[s] = links[s],
         \A s \in 1..Len(links) : s = pages[q].socket =>
           LinkInv(s)' /\ (Unread(s)' => Unread(s)) /\ links'[s].hosted = links[s].hosted,
         \A s \in 1..Len(links') : s > Len(links) => LinkInv(s)',
         PageInv(q)', SeatedInv(q)'
  PROVE  Inv'
<1>1. /\ TypeInv /\ SeatInv /\ room.issued \in Nat /\ Len(links) \in Nat /\ Len(links') \in Nat
      /\ \A t : Over(t)' <=> Over(t)
      /\ \A r, t : Holds(r, t)' <=> Holds(r, t)
  BY LenProperties DEF Inv, TypeInv, Over, SeatOf, Holds
<1>2. ASSUME NEW s \in 1..Len(links), s # pages[q].socket PROVE LinkInv(s)'
  BY <1>1, <1>2, LinkUntouched DEF Inv
<1>3. ASSUME NEW s \in 1..Len(links') PROVE LinkInv(s)'
  BY <1>1, <1>2, <1>3
<1>4. ASSUME NEW seat \in room'.seats
      PROVE  /\ seat.token \in 1..room'.issued
             /\ seat.conn # None =>
                  seat.conn \in 1..Len(links') /\ links'[seat.conn].hosted /\ ~Unread(seat.conn)'
  <2>1. PICK s : s = seat.conn
    OBVIOUS
  <2>2. /\ seat.token \in 1..room.issued
        /\ s # None => s \in 1..Len(links) /\ links[s].hosted /\ ~Unread(s)
    BY <1>1, <2>1 DEF SeatInv
  <2>3. ASSUME s # None PROVE links'[s].hosted /\ ~Unread(s)' /\ s \in 1..Len(links')
    <3>1. CASE s = pages[q].socket
      BY <1>1, <2>2, <2>3, <3>1
    <3>2. CASE s # pages[q].socket
      BY <1>1, <2>2, <2>3, <3>2 DEF Unread, Up
    <3> QED
      BY <3>1, <3>2
  <2> QED
    BY <2>1, <2>2, <2>3
<1>5. SeatInv'
  BY <1>1, <1>4 DEF SeatInv
<1>6. ASSUME NEW r \in Pages, r # q PROVE PageInv(r)' /\ SeatedInv(r)'
  <2>1. PICK s : s = pages[r].socket
    OBVIOUS
  <2>2. PageInv(r) /\ SeatedInv(r) /\ pages'[r] = pages[r] /\ saved'[r] = saved[r]
    BY <1>6 DEF Inv
  <2>3. ASSUME s # None
        PROVE  /\ s \in 1..Len(links) /\ links'[s] = links[s] /\ SocketInv(s, r)
               /\ (ToldClosed(s)' <=> ToldClosed(s))
    <3>1. s \in 1..Len(links) /\ links[s].page = r /\ SocketInv(s, r)
      BY <2>1, <2>2, <2>3 DEF PageInv, SocketInv
    <3>2. s # pages[q].socket
      BY <1>6, <2>3, <3>1 DEF Inv, PageInv, SocketInv
    <3> QED
      BY <3>1, <3>2 DEF ToldClosed
  <2>4. s # None => SocketInv(s, r)'
    BY <1>1, <2>2, <2>3 DEF SocketInv, Up, Down, BadNews
  <2>5. PageInv(r)'
    BY <1>1, <2>1, <2>2, <2>4 DEF PageInv
  <2>6. SeatedInv(r)'
    <3>1. SUFFICES ASSUME pages[r].connected
                   PROVE  Holds(s, pages[r].token)' \/ ToldClosed(s)'
      BY <2>1, <2>2 DEF SeatedInv
    <3>2. s # None
      BY <2>1, <2>2, <3>1 DEF PageInv
    <3> QED
      BY <1>1, <2>1, <2>2, <2>3, <3>1, <3>2 DEF SeatedInv
  <2> QED
    BY <2>5, <2>6
<1> QED
  BY <1>3, <1>5, <1>6 DEF Inv

\* A page that stops: it lets go of its socket, if it has one.
LEMMA StopKeeps ==
  ASSUME Inv, NEW q \in Pages, NEW p \in Page, NEW seat \in [token: Nat, epoch: Nat],
         pages' = [pages EXCEPT ![q] = p], saved' = [saved EXCEPT ![q] = seat], room' = room,
         links' \in Seq(Link), Len(links') = Len(links),
         \A s \in 1..Len(links) : s # pages[q].socket => links'[s] = links[s],
         \A s \in 1..Len(links) : s = pages[q].socket => LetGo(links[s], links'[s]),
         p.socket = None, ~p.connected, p.retrying => p.ended = "no",
         p.token <= room.issued, seat.token <= room.issued,
         p.ended \in {"seat-expired", "room-ended"} => Over(p.token)
  PROVE  Inv'
<1>1. TypeInv /\ Len(links) \in Nat
  BY LenProperties DEF Inv, TypeInv
<1>2. /\ pages'[q] = p /\ saved'[q] = seat
      /\ \A r \in Pages : r # q => pages'[r] = pages[r] /\ saved'[r] = saved[r]
  BY <1>1 DEF TypeInv
<1>3. TypeInv'
  BY <1>1 DEF TypeInv
<1>4. ASSUME NEW s \in 1..Len(links), s = pages[q].socket
      PROVE  LinkInv(s)' /\ (Unread(s)' => Unread(s)) /\ links'[s].hosted = links[s].hosted
  <2>1. links'[s] \in Link
    BY ElementOfSeq
  <2> QED
    BY <1>1, <1>4, <2>1, LetGoKeeps DEF Inv
<1>5. PageInv(q)' /\ SeatedInv(q)'
  <2>1. Over(p.token) => Over(p.token)'
    BY DEF Over, SeatOf
  <2> QED
    BY <1>2, <2>1 DEF PageInv, SeatedInv
<1>6. \A s \in 1..Len(links') : s > Len(links) => LinkInv(s)'
  BY <1>1
<1> QED
  BY <1>1, <1>2, <1>3, <1>4, <1>5, <1>6, PageKeepsInv

\* A page that opens a socket, after it has let go of the one it had.
LEMMA OpenKeeps ==
  ASSUME Inv, NEW q \in Pages, NEW p \in Page, NEW socks \in Seq(Link), Len(socks) = Len(links),
         \A s \in 1..Len(links) : s # pages[q].socket => socks[s] = links[s],
         \A s \in 1..Len(links) : s = pages[q].socket => LetGo(links[s], socks[s]),
         Opens(q, p), links' = Append(socks, NewLink(q, p)), UNCHANGED <<saved, room>>,
         ~p.connected, ~p.retrying, p.ended = "no", p.token = pages[q].token
  PROVE  Inv'
<1> DEFINE join == JoinOf(p)
           after == [p EXCEPT !.socket = Len(links) + 1]
<1>1. TypeInv /\ Len(links) \in Nat /\ PageInv(q)
  BY LenProperties DEF Inv, TypeInv
<1>2. PICK n \in Nat : n = Len(links) + 1 /\ n # None
  BY <1>1 DEF None
<1>3. join \in Asked /\ join.type = "join" /\ join.token = p.token
  BY DEF JoinOf, Asked, Page
<1> HIDE DEF join
<1>4. <<join>> \in Seq(Asked) /\ Within(<<join>>) = {join} /\ Len(<<join>>) = 1
  BY <1>3, WithinOfOne
<1>5. <<>> \in Seq(News) /\ Within(<<>>) = {}
  BY EmptySeq, WithinEmpty
<1>6. PICK l \in Link :
        /\ l = NewLink(q, p) /\ l.page = q /\ l.up = <<join>> /\ l.down = <<>>
        /\ l.open /\ l.hosted
  <2>1. NewLink(q, p) \in Link
    BY <1>4, <1>5 DEF NewLink, Link, join
  <2> QED
    BY <2>1 DEF NewLink, join
<1>7. /\ links' \in Seq(Link) /\ Len(links') = n /\ links'[n] = l
      /\ \A s \in 1..Len(links) : links'[s] = socks[s]
  BY <1>1, <1>2, <1>6, AppendProperties
<1>8. /\ after \in Page /\ after.socket = n /\ after.token = pages[q].token /\ ~after.connected
      /\ ~after.retrying /\ after.ended = "no"
  BY <1>2 DEF Page
<1>9. pages' = [pages EXCEPT ![q] = after]
  BY DEF Opens
<1> HIDE DEF after
<1>10. /\ pages'[q] = after /\ TypeInv'
       /\ \A r \in Pages : r # q => pages'[r] = pages[r] /\ saved'[r] = saved[r]
  BY <1>1, <1>7, <1>8, <1>9 DEF TypeInv
<1>11. Up(n)' = {join} /\ Down(n)' = {} /\ Len(links'[n].up) = 1
  BY <1>4, <1>5, <1>6, <1>7 DEF Up, Down
<1>12. LinkInv(n)'
  BY <1>6, <1>7, <1>11 DEF LinkInv, OnlyCloses, BadNews
<1>13. PageInv(q)' /\ SeatedInv(q)'
  <2>1. SocketInv(n, q)'
    BY <1>2, <1>3, <1>6, <1>7, <1>8, <1>10, <1>11 DEF SocketInv, BadNews
  <2> QED
    BY <1>1, <1>8, <1>10, <2>1 DEF PageInv, SeatedInv
<1>14. ASSUME NEW s \in 1..Len(links), s = pages[q].socket
       PROVE  LinkInv(s)' /\ (Unread(s)' => Unread(s)) /\ links'[s].hosted = links[s].hosted
  <2>1. links'[s] \in Link /\ LetGo(links[s], links'[s])
    BY <1>7, <1>14, ElementOfSeq
  <2> QED
    BY <1>1, <1>14, <2>1, LetGoKeeps DEF Inv
<1>15. \A s \in 1..Len(links') : s > Len(links) => LinkInv(s)'
  BY <1>1, <1>2, <1>7, <1>12
<1>16. Len(links) <= Len(links') /\ \A s \in 1..Len(links) : s # pages[q].socket => links'[s] = links[s]
  BY <1>1, <1>2, <1>7
<1> QED
  BY <1>10, <1>13, <1>14, <1>15, <1>16, PageKeepsInv

\* What is known of a page, and of the sockets when it lets go of its own.
LEMMA PageIs ==
  ASSUME Inv, NEW q \in Pages
  PROVE  /\ TypeInv /\ pages[q] \in Page /\ PageInv(q) /\ SeatedInv(q)
         /\ saved[q] \in [token: Nat, epoch: Nat] /\ saved[q].token <= room.issued
         /\ pages[q].token \in Nat /\ pages[q].token <= room.issued
         /\ pages[q].socket # None => pages[q].socket \in 1..Len(links)
BY DEF Inv, TypeInv, PageInv, SocketInv, Page

LEMMA PageReleases ==
  ASSUME Inv, NEW q \in Pages, NEW p \in Page, p.socket = pages[q].socket
  PROVE  /\ Released(p) \in Seq(Link) /\ Len(Released(p)) = Len(links)
         /\ \A s \in 1..Len(links) : s # pages[q].socket => Released(p)[s] = links[s]
         /\ \A s \in 1..Len(links) : s = pages[q].socket =>
              LetGo(links[s], Released(p)[s]) /\ Released(p)[s].up = links[s].up
<1>1. TypeInv /\ (p.socket # None => p.socket \in 1..Len(links))
  BY PageIs
<1>2. \A s \in 1..Len(links) : s # None
  BY DEF None
<1> QED
  BY <1>1, <1>2, ReleasedIs

LEMMA ConnectKeeps ==
  ASSUME Inv, NEW q \in Pages, NEW choice \in Entrances, Connect(q, pages[q], choice),
         UNCHANGED <<saved, room>>
  PROVE  Inv'
<1>1. PICK p : p = [Stopped(pages[q]) EXCEPT !.choice = choice, !.ended = "no", !.started = FALSE,
                                              !.attempt = 0]
  OBVIOUS
<1>2. PICK old \in Page : old = pages[q]
  BY PageIs
<1>3. Stopped(old) \in Page /\ Stopped(old).token = old.token /\ ~Stopped(old).connected /\ ~Stopped(old).retrying
  BY DEF Stopped, Page, None
<1>4. /\ p \in Page /\ p.token = pages[q].token /\ ~p.connected /\ ~p.retrying /\ p.ended = "no"
  BY <1>1, <1>2, <1>3 DEF Page, Endings
<1>5. Opens(q, p) /\ links' = Append(Released(old), NewLink(q, p))
  BY <1>1, <1>2 DEF Connect
<1>6. /\ Released(old) \in Seq(Link) /\ Len(Released(old)) = Len(links)
      /\ \A s \in 1..Len(links) : s # pages[q].socket => Released(old)[s] = links[s]
      /\ \A s \in 1..Len(links) : s = pages[q].socket => LetGo(links[s], Released(old)[s])
  BY <1>2, PageReleases
<1> QED
  BY <1>4, <1>5, <1>6, OpenKeeps

LEMMA EnterKeeps ==
  ASSUME Inv, NEW q \in Pages, Enter(q)
  PROVE  Inv'
<1>1. PICK choice \in Entrances : Connect(q, pages[q], choice)
  BY DEF Enter, Entrances
<1> QED
  BY <1>1, ConnectKeeps DEF Enter

LEMMA RejoinKeeps ==
  ASSUME Inv, NEW q \in Pages, Rejoin(q)
  PROVE  Inv'
<1>1. "existing" \in Entrances /\ Connect(q, pages[q], "existing")
  BY DEF Rejoin, Entrances
<1> QED
  BY <1>1, ConnectKeeps DEF Rejoin

LEMMA RetryKeeps ==
  ASSUME Inv, NEW q \in Pages, Retry(q)
  PROVE  Inv'
<1>1. PICK p : p = [pages[q] EXCEPT !.retrying = FALSE, !.attempt = @ + 1]
  OBVIOUS
<1>2. pages[q].retrying /\ Opens(q, p) /\ links' = Append(links, NewLink(q, p)) /\ UNCHANGED <<saved, room>>
  BY <1>1 DEF Retry
<1>3. PICK old \in Page :
        old = pages[q] /\ old.ended = "no" /\ old.socket = None /\ ~old.connected
  BY <1>2, PageIs DEF PageInv
<1>4. /\ p \in Page /\ p.token = pages[q].token /\ ~p.connected /\ ~p.retrying /\ p.ended = "no"
  <2>1. PICK n \in Nat : n = old.attempt + 1
    BY DEF Page
  <2>2. p = [old EXCEPT !.retrying = FALSE, !.attempt = n]
    BY <1>1, <1>3, <2>1
  <2> QED
    BY <1>3, <2>2 DEF Page
<1>5. links \in Seq(Link) /\ \A s \in 1..Len(links) : s # pages[q].socket
  BY <1>3 DEF Inv, TypeInv, None
<1> QED
  BY <1>2, <1>4, <1>5, OpenKeeps

LEMMA NoSeatIs ==
  NoSeat \in [token: Nat, epoch: Nat] /\ NoSeat.token = 0
BY DEF NoSeat, None

LEMMA LeaveKeeps ==
  ASSUME Inv, NEW q \in Pages, Leave(q)
  PROVE  Inv'
<1>1. PICK s : s = pages[q].socket
  OBVIOUS
<1>2. PICK old \in Page : old = pages[q] /\ old.connected
  BY PageIs DEF Leave
<1>3. s \in 1..Len(links) /\ SocketInv(s, q) /\ TypeInv /\ room.issued \in Nat
  BY <1>1, <1>2, PageIs DEF PageInv, TypeInv, SocketInv
<1>4. PICK p \in Page :
        /\ p = [Stopped(old) EXCEPT !.token = None, !.epoch = None, !.ended = "left"]
        /\ p.socket = None /\ ~p.connected /\ ~p.retrying /\ p.token = 0 /\ p.ended = "left"
  <2>1. Stopped(old) \in Page /\ Stopped(old).socket = None /\ ~Stopped(old).connected /\ ~Stopped(old).retrying
    BY DEF Stopped, Page, None
  <2> DEFINE stopped == Stopped(old)
  <2> HIDE DEF stopped
  <2>2. LET p == [stopped EXCEPT !.token = None, !.epoch = None, !.ended = "left"] IN
        /\ p \in Page /\ p.socket = None /\ ~p.connected /\ ~p.retrying /\ p.token = 0
        /\ p.ended = "left"
    BY <2>1 DEF Page, Endings, None, stopped
  <2> QED
    BY <2>2 DEF stopped
<1>5. PICK seat \in [token: Nat, epoch: Nat] : seat = NoSeat /\ seat.token = 0
  BY NoSeatIs
<1>6. pages' = [pages EXCEPT ![q] = p] /\ saved' = [saved EXCEPT ![q] = seat] /\ room' = room
  BY <1>2, <1>4, <1>5 DEF Leave
<1>7. PICK socks \in Seq(Link) :
        /\ socks = Released(old) /\ Len(socks) = Len(links)
        /\ \A r \in 1..Len(links) : r # s => socks[r] = links[r]
        /\ LetGo(links[s], socks[s]) /\ socks[s].up = links[s].up
  BY <1>1, <1>2, <1>3, PageReleases
<1>8. PICK leave \in Asked : leave = [type |-> "leave"]
  <2>1. [type |-> "leave"] \in Asked
    BY DEF Asked
  <2> QED
    BY <2>1
<1> DEFINE l == [socks[s] EXCEPT !.up = Append(@, leave)]
<1>9. socks[s] \in Link /\ s \in 1..Len(socks)
  BY <1>3, <1>7, ElementOfSeq
<1>10. l \in Link /\ LetGo(links[s], l)
  <2>1. Append(socks[s].up, leave) \in Seq(Asked)
    BY <1>9, AppendProperties DEF Link
  <2> QED
    BY <1>7, <1>8, <1>9, <2>1 DEF Link, LetGo
<1>11. links' = [socks EXCEPT ![s] = l]
  <2>1. links' = [socks EXCEPT ![s].up = Append(@, leave)]
    BY <1>1, <1>2, <1>7, <1>8 DEF Leave
  <2> QED
    BY <1>9, <2>1 DEF Link
<1> HIDE DEF l
<1>12. /\ links' \in Seq(Link) /\ Len(links') = Len(links) /\ links'[s] = l
       /\ \A r \in 1..Len(links) : r # s => links'[r] = links[r]
  BY <1>7, <1>9, <1>10, <1>11, Replaced
<1>13. /\ p.token <= room.issued /\ seat.token <= room.issued
       /\ p.ended \notin {"seat-expired", "room-ended"}
  BY <1>3, <1>4, <1>5
<1> QED
  BY <1>1, <1>4, <1>6, <1>10, <1>12, <1>13, StopKeeps

LEMMA ReloadKeeps ==
  ASSUME Inv, NEW q \in Pages, Reload(q)
  PROVE  Inv'
<1>1. PICK from \in Pages :
        saved' = [saved EXCEPT ![q] = saved[from]] /\ pages' = [pages EXCEPT ![q] = NewPage(saved[from])]
  BY DEF Reload
<1>2. PICK old \in Page : old = pages[q]
  BY PageIs
<1>3. PICK seat \in [token: Nat, epoch: Nat] : seat = saved[from] /\ seat.token <= room.issued
  BY PageIs
<1>4. PICK p \in Page :
        /\ p = NewPage(seat) /\ p.socket = None /\ ~p.connected /\ ~p.retrying
        /\ p.token = seat.token /\ p.ended = "no"
  <2>1. /\ NewPage(seat) \in Page /\ NewPage(seat).socket = None /\ ~NewPage(seat).connected
        /\ ~NewPage(seat).retrying /\ NewPage(seat).token = seat.token /\ NewPage(seat).ended = "no"
    BY DEF NewPage, Page, Entrances, Endings, None
  <2> QED
    BY <2>1
<1>5. links' = Released(old) /\ room' = room
  BY <1>2 DEF Reload
<1>6. /\ Released(old) \in Seq(Link) /\ Len(Released(old)) = Len(links)
      /\ \A s \in 1..Len(links) : s # pages[q].socket => Released(old)[s] = links[s]
      /\ \A s \in 1..Len(links) : s = pages[q].socket => LetGo(links[s], Released(old)[s])
  BY <1>2, PageReleases
<1> QED
  BY <1>1, <1>3, <1>4, <1>5, <1>6, StopKeeps

\* A page that fails: its room is over for it only if it was told so.
LEMMA FailsKeeps ==
  ASSUME Inv, NEW q \in Pages, NEW p \in Page, NEW cause \in Endings, Fails(q, p, cause), room' = room,
         p.socket = pages[q].socket, p.token <= room.issued,
         NEW seat \in [token: Nat, epoch: Nat], saved' = [saved EXCEPT ![q] = seat],
         seat.token <= room.issued,
         cause \in {"seat-expired", "room-ended"} => Over(p.token)
  PROVE  Inv'
<1>1. PICK after \in Page :
        /\ after = [Stopped(p) EXCEPT !.ended = cause]
        /\ after.socket = None /\ ~after.connected /\ ~after.retrying
        /\ after.token = p.token /\ after.ended = cause
  <2>1. /\ Stopped(p) \in Page /\ Stopped(p).socket = None /\ ~Stopped(p).connected
        /\ ~Stopped(p).retrying /\ Stopped(p).token = p.token
    BY DEF Stopped, Page, None
  <2> DEFINE stopped == Stopped(p)
  <2> HIDE DEF stopped
  <2>2. LET after == [stopped EXCEPT !.ended = cause] IN
        /\ after \in Page /\ after.socket = None /\ ~after.connected /\ ~after.retrying
        /\ after.token = p.token /\ after.ended = cause
    BY <2>1 DEF Page, stopped
  <2> QED
    BY <2>2 DEF stopped
<1>2. pages' = [pages EXCEPT ![q] = after] /\ links' = Released(p)
  BY <1>1 DEF Fails
<1>3. /\ Released(p) \in Seq(Link) /\ Len(Released(p)) = Len(links)
      /\ \A s \in 1..Len(links) : s # pages[q].socket => Released(p)[s] = links[s]
      /\ \A s \in 1..Len(links) : s = pages[q].socket => LetGo(links[s], Released(p)[s])
  BY PageReleases
<1> QED
  BY <1>1, <1>2, <1>3, StopKeeps

-----------------------------------------------------------------------------
(* What a page hears.                                                      *)

LEMMA HearWelcomeKeeps ==
  ASSUME Inv, NEW q \in Pages, pages[q].socket # None, links[pages[q].socket].down # <<>>,
         NEW m, m = Head(links[pages[q].socket].down), m.type = "welcome",
         HearWelcome(q, pages[q], m), room' = room
  PROVE  Inv'
<1>1. PICK s : s = pages[q].socket
  OBVIOUS
<1>2. PICK old \in Page : old = pages[q] /\ PageInv(q)
  BY PageIs
<1>3. /\ s \in 1..Len(links) /\ SocketInv(s, q) /\ LinkInv(s) /\ TypeInv /\ room.issued \in Nat
      /\ s # None /\ links[s] \in Link /\ links[s].down \in Seq(News) /\ links[s].up \in Seq(Asked)
  <2>1. s \in 1..Len(links) /\ SocketInv(s, q) /\ TypeInv /\ room.issued \in Nat /\ s # None
    BY <1>1, <1>2, PageIs DEF PageInv, TypeInv, SocketInv
  <2>2. links[s] \in Link
    BY <2>1, ElementOfSeq DEF TypeInv
  <2> QED
    BY <2>1, <2>2 DEF Inv, Link
<1>4. PICK rest \in Seq(News) :
        /\ rest = Tail(links[s].down) /\ m \in Down(s)
        /\ \A n \in Within(rest) : n \in Down(s)
        /\ Last(links[s].down) # m => rest # <<>> /\ Last(rest) = Last(links[s].down)
  BY <1>1, <1>3, WithinOfTail DEF Down
<1>5. /\ m.token \in 1..room.issued /\ m.token \in Nat /\ m.epoch \in Nat
      /\ Holds(s, m.token) \/ ToldClosed(s)
      /\ ~OnlyCloses(s) /\ ~Unread(s) /\ links[s].open
  <2>1. m \in News
    BY <1>3, <1>4, WithinOfSeq DEF Down
  <2>2. m.epoch \in Nat
    BY <2>1 DEF News
  <2>3. m.token \in 1..room.issued /\ (Holds(s, m.token) \/ ToldClosed(s))
    BY <1>3, <1>4 DEF LinkInv
  <2>4. ~OnlyCloses(s)
    BY <1>4 DEF OnlyCloses
  <2>5. ~Unread(s) /\ links[s].open
    <3>1. (Unread(s) => OnlyCloses(s)) /\ (~links[s].open => OnlyCloses(s))
      BY <1>3 DEF LinkInv
    <3> QED
      BY <2>4, <3>1
  <2>6. m.token \in Nat
    BY <1>3, <2>3
  <2> QED
    BY <2>2, <2>3, <2>4, <2>5, <2>6
<1> DEFINE l == [links[s] EXCEPT !.down = rest]
           p == [old EXCEPT !.token = m.token, !.epoch = m.epoch, !.connected = TRUE,
                            !.started = FALSE, !.attempt = 0]
           seat == [token |-> m.token, epoch |-> m.epoch]
<1>6. /\ l \in Link /\ l.page = links[s].page /\ l.open = links[s].open
      /\ l.hosted = links[s].hosted /\ l.up = links[s].up /\ l.down = rest
  BY <1>3 DEF Link
<1>7. links' = [links EXCEPT ![s] = l]
  <2>1. links' = [links EXCEPT ![s].down = rest]
    BY <1>1, <1>4 DEF HearWelcome
  <2> QED
    BY <1>3, <2>1 DEF Link
<1>8. /\ p \in Page /\ p.token = m.token /\ p.connected /\ p.socket = s
      /\ p.retrying = old.retrying /\ p.ended = old.ended
  BY <1>1, <1>2, <1>5 DEF Page
<1>9. pages' = [pages EXCEPT ![q] = p] /\ saved' = [saved EXCEPT ![q] = seat]
  BY <1>1, <1>2 DEF HearWelcome
<1>10. seat \in [token: Nat, epoch: Nat] /\ seat.token = m.token
  BY <1>5
<1> HIDE DEF l, p, seat
<1>11. /\ links' \in Seq(Link) /\ Len(links') = Len(links) /\ links'[s] = l
       /\ \A r \in 1..Len(links) : r # s => links'[r] = links[r]
  <2>1. links \in Seq(Link)
    BY <1>3 DEF TypeInv
  <2> QED
    BY <1>3, <1>6, <1>7, <2>1, Replaced
<1>12. /\ TypeInv' /\ pages'[q] = p /\ saved'[q] = seat
       /\ \A r \in Pages : r # q => pages'[r] = pages[r] /\ saved'[r] = saved[r]
  BY <1>3, <1>8, <1>9, <1>10, <1>11 DEF TypeInv
<1>13. /\ Up(s)' = Up(s) /\ \A n \in Down(s)' : n \in Down(s)
       /\ (ToldClosed(s) => ToldClosed(s)')
       /\ \A t : Holds(s, t)' <=> Holds(s, t)
       /\ \A t : Over(t)' <=> Over(t)
  <2>1. Up(s)' = Up(s) /\ Down(s)' = Within(rest)
    BY <1>6, <1>11 DEF Up, Down
  <2>2. ToldClosed(s) => ToldClosed(s)'
    BY <1>4, <1>6, <1>11 DEF ToldClosed
  <2> QED
    BY <1>4, <2>1, <2>2 DEF Holds, Over, SeatOf
<1>14. Unread(s)' <=> Unread(s)
  BY <1>13 DEF Unread
<1>15. BadNews(s)' => BadNews(s)
  BY <1>13 DEF BadNews
<1>16. LinkInv(s)'
  <2>1. \A i \in 1..Len(links'[s].up) : links'[s].up[i].type = "join" => i = 1
    BY <1>3, <1>6, <1>11 DEF LinkInv
  <2>2. \A n \in Down(s)' : n.type = "welcome" =>
          n.token \in 1..room'.issued /\ (Holds(s, n.token)' \/ ToldClosed(s)')
    BY <1>3, <1>13 DEF LinkInv
  <2>3. links'[s].open /\ links'[s].hosted => \A n \in Down(s)' : n.type # "closed"
    BY <1>3, <1>6, <1>11, <1>13 DEF LinkInv
  <2>4. links'[s].open /\ ~Unread(s)'
    BY <1>5, <1>6, <1>11, <1>14
  <2>5. BadNews(s)' => ~links'[s].hosted
    BY <1>3, <1>6, <1>11, <1>15 DEF LinkInv
  <2> QED
    BY <2>1, <2>2, <2>3, <2>4, <2>5 DEF LinkInv
<1>17. SocketInv(s, q)'
  <2>1. (\A n \in Up(s) : n.type = "join" /\ n.token = pages[q].token)'
    BY <1>3, <1>5, <1>13 DEF SocketInv, Unread
  <2>2. (BadNews(s) => Over(pages[q].token) /\ \A n \in Down(s) : n.type = "welcome" => Over(n.token))'
    <3>1. SUFFICES ASSUME BadNews(s)'
                   PROVE  Over(m.token) /\ \A n \in Down(s)' : n.type = "welcome" => Over(n.token)
      BY <1>8, <1>12, <1>13
    <3> QED
      BY <1>3, <1>4, <1>13, <1>15, <3>1 DEF SocketInv
  <2>3. (s \in 1..Len(links) /\ links[s].page = q /\ pages[q].ended = "no" /\ links[s].open)'
    BY <1>2, <1>3, <1>5, <1>6, <1>8, <1>11, <1>12 DEF SocketInv
  <2> QED
    BY <2>1, <2>2, <2>3 DEF SocketInv
<1>18. PageInv(q)'
  <2>1. saved'[q].token <= room'.issued /\ pages'[q].token <= room'.issued
    <3>1. room.issued \in Nat /\ m.token \in 1..room.issued
      BY <1>3, <1>5
    <3>2. m.token <= room.issued
      BY <3>1
    <3> QED
      BY <1>8, <1>10, <1>12, <3>2
  <2>2. pages'[q].ended = "no" /\ ~pages'[q].retrying /\ pages'[q].socket = s
    BY <1>1, <1>2, <1>3, <1>8, <1>12 DEF PageInv, SocketInv
  <2> QED
    BY <1>3, <1>17, <2>1, <2>2 DEF PageInv
<1>19. SeatedInv(q)'
  BY <1>5, <1>8, <1>12, <1>13 DEF SeatedInv
<1>20. /\ Len(links) <= Len(links') /\ \A r \in 1..Len(links') : r > Len(links) => LinkInv(r)'
       /\ \A r \in 1..Len(links) : r # pages[q].socket => links'[r] = links[r]
  <2>1. Len(links) \in Nat
    BY <1>3, LenProperties DEF TypeInv
  <2> QED
    BY <1>1, <1>11, <2>1
<1>21. \A r \in 1..Len(links) : r = pages[q].socket =>
         LinkInv(r)' /\ (Unread(r)' => Unread(r)) /\ links'[r].hosted = links[r].hosted
  BY <1>1, <1>6, <1>11, <1>14, <1>16
<1> QED
  BY <1>12, <1>18, <1>19, <1>20, <1>21, PageKeepsInv

\* The next message of a page's socket; the room is over for the page that is told so.
LEMMA HeardIs ==
  ASSUME Inv, NEW q \in Pages, pages[q].socket # None, links[pages[q].socket].down # <<>>,
         NEW m, m = Head(links[pages[q].socket].down)
  PROVE  m \in News /\ (IsBad(m) => Over(pages[q].token))
<1>1. PICK s : s = pages[q].socket
  OBVIOUS
<1>2. /\ s \in 1..Len(links) /\ SocketInv(s, q) /\ links[s] \in Link
  <2>1. s \in 1..Len(links) /\ SocketInv(s, q) /\ TypeInv
    BY <1>1, PageIs DEF PageInv
  <2> QED
    BY <2>1, ElementOfSeq DEF TypeInv
<1>3. links[s].down \in Seq(News) /\ links[s].down # <<>> /\ m = Head(links[s].down)
  BY <1>1, <1>2 DEF Link
<1>4. m \in Down(s) /\ m \in News
  BY <1>3, WithinOfTail, WithinOfSeq DEF Down
<1> QED
  BY <1>2, <1>4 DEF SocketInv, BadNews

LEMMA ForgettingIs ==
  ASSUME NEW p \in Page
  PROVE  /\ Forgetting(p) \in Page /\ Forgetting(p).socket = p.socket /\ Forgetting(p).token = 0
         /\ Forgetting(p).ended = p.ended
BY DEF Forgetting, Page, None

\* A page that keeps its seat in storage, or forgets it.
LEMMA StorageIs ==
  ASSUME Inv, NEW q \in Pages
  PROVE  /\ UNCHANGED saved => saved' = [saved EXCEPT ![q] = saved[q]]
         /\ room.issued \in Nat
         /\ NoSeat \in [token: Nat, epoch: Nat] /\ NoSeat.token <= room.issued
         /\ Over(0)
<1>1. saved \in [Pages -> [token: Nat, epoch: Nat]] /\ room.issued \in Nat
  BY DEF Inv, TypeInv
<1>2. saved = [saved EXCEPT ![q] = saved[q]]
  BY <1>1
<1>3. NoSeat.token <= room.issued
  BY <1>1, NoSeatIs
<1> QED
  BY <1>1, <1>2, <1>3, NoSeatIs DEF Over, None

LEMMA HearErrorKeeps ==
  ASSUME Inv, NEW q \in Pages, pages[q].socket # None, links[pages[q].socket].down # <<>>,
         NEW m, m = Head(links[pages[q].socket].down), m.type = "error",
         HearError(q, pages[q], m), room' = room
  PROVE  Inv'
<1>1. PICK p \in Page : p = pages[q] /\ p.token <= room.issued
  BY PageIs
<1>2. PICK seat \in [token: Nat, epoch: Nat] : seat = saved[q] /\ seat.token <= room.issued
  BY PageIs
<1>3. CASE m.code = "seat-expired"
  <2>1. PICK f \in Page : f = Forgetting(p) /\ f.socket = p.socket /\ f.token = 0
    BY ForgettingIs
  <2>2. Fails(q, f, "seat-expired") /\ saved' = [saved EXCEPT ![q] = NoSeat]
    BY <1>1, <1>3, <2>1 DEF HearError
  <2>3. "seat-expired" \in Endings
    BY DEF Endings
  <2>4. f.token <= room.issued /\ Over(f.token)
    BY <2>1, StorageIs
  <2> QED
    BY <1>1, <2>1, <2>2, <2>3, <2>4, StorageIs, FailsKeeps
<1>4. CASE m.code # "seat-expired"
  <2>1. PICK cause \in {"room-ended", "rejected"} :
          /\ cause = (IF m.code = "room-gone" THEN "room-ended" ELSE "rejected")
          /\ Fails(q, p, cause) /\ UNCHANGED saved
    BY <1>1, <1>4 DEF HearError
  <2>2. cause \in Endings
    BY DEF Endings
  <2>3. cause = "room-ended" => IsBad(m)
    BY <2>1 DEF IsBad
  <2>4. cause \in {"seat-expired", "room-ended"} => Over(p.token)
    BY <1>1, <2>1, <2>3, HeardIs
  <2>5. saved' = [saved EXCEPT ![q] = seat]
    BY <1>2, <2>1, StorageIs
  <2> QED
    BY <1>1, <1>2, <2>1, <2>2, <2>4, <2>5, FailsKeeps
<1> QED
  BY <1>3, <1>4

LEMMA HearResetKeeps ==
  ASSUME Inv, NEW q \in Pages, HearReset(q, pages[q]), room' = room
  PROVE  Inv'
<1>1. PICK p \in Page : p = pages[q]
  BY PageIs
<1>2. PICK f \in Page : f = Forgetting(p) /\ f.socket = p.socket /\ f.token = 0
  BY ForgettingIs
<1>3. Fails(q, f, "room-ended") /\ saved' = [saved EXCEPT ![q] = NoSeat]
  BY <1>1, <1>2 DEF HearReset
<1>4. "room-ended" \in Endings
  BY DEF Endings
<1>5. f.token <= room.issued /\ Over(f.token)
  BY <1>2, StorageIs
<1> QED
  BY <1>1, <1>2, <1>3, <1>4, <1>5, StorageIs, FailsKeeps

LEMMA HearClosedKeeps ==
  ASSUME Inv, NEW q \in Pages, pages[q].socket # None, NEW m, HearClosed(q, pages[q], m), room' = room
  PROVE  Inv'
<1>1. PICK p \in Page : p = pages[q] /\ p.token <= room.issued
  BY PageIs
<1>2. PICK seat \in [token: Nat, epoch: Nat] : seat = saved[q] /\ seat.token <= room.issued
  BY PageIs
<1>3. saved' = [saved EXCEPT ![q] = seat]
  BY <1>2, StorageIs DEF HearClosed
<1>4. ASSUME NEW cause \in {"other-tab", "rejected", "lost"}, Fails(q, p, cause) PROVE Inv'
  <2>1. cause \in Endings /\ cause \notin {"seat-expired", "room-ended"}
    BY DEF Endings
  <2> QED
    BY <1>1, <1>2, <1>3, <1>4, <2>1, FailsKeeps
<1>5. ASSUME NEW after, links' = Released(p), pages' = [pages EXCEPT ![q] = after],
             after = [p EXCEPT !.socket = None, !.connected = FALSE, !.retrying = TRUE, !.started = TRUE]
      PROVE  Inv'
  <2>1. p.ended = "no"
    BY <1>1, PageIs DEF PageInv, SocketInv
  <2>2. /\ after \in Page /\ after.socket = None /\ ~after.connected /\ after.token = p.token
        /\ after.ended = "no"
    BY <1>5, <2>1 DEF Page, None
  <2>3. /\ Released(p) \in Seq(Link) /\ Len(Released(p)) = Len(links)
        /\ \A s \in 1..Len(links) : s # pages[q].socket => Released(p)[s] = links[s]
        /\ \A s \in 1..Len(links) : s = pages[q].socket => LetGo(links[s], Released(p)[s])
    BY <1>1, PageReleases
  <2> QED
    BY <1>1, <1>2, <1>3, <1>5, <2>2, <2>3, StopKeeps
<1> QED
  BY <1>1, <1>4, <1>5 DEF HearClosed

LEMMA HearKeeps ==
  ASSUME Inv, NEW q \in Pages, Hear(q)
  PROVE  Inv'
<1>1. PICK m : m = Head(links[pages[q].socket].down)
  OBVIOUS
<1>2. /\ pages[q].socket # None /\ links[pages[q].socket].down # <<>> /\ room' = room
      /\ \/ m.type = "welcome" /\ HearWelcome(q, pages[q], m)
         \/ m.type = "error" /\ HearError(q, pages[q], m)
         \/ m.type = "room-reset" /\ HearReset(q, pages[q])
         \/ m.type = "closed" /\ HearClosed(q, pages[q], m)
  BY <1>1 DEF Hear
<1> QED
  BY <1>1, <1>2, HearWelcomeKeeps, HearErrorKeeps, HearResetKeeps, HearClosedKeeps

-----------------------------------------------------------------------------
(* The theorems.                                                           *)

LEMMA InvInit == Init => Inv
<1>1. SUFFICES ASSUME Init PROVE Inv
  OBVIOUS
<1> DEFINE fresh == NewPage(NoSeat)
<1>2. /\ fresh \in Page /\ fresh.token = 0 /\ ~fresh.retrying /\ ~fresh.connected
      /\ fresh.socket = None /\ fresh.ended = "no"
  BY DEF NewPage, NoSeat, None, Page, Entrances, Endings
<1> HIDE DEF fresh
<1>3. pages = [q \in Pages |-> fresh] /\ saved = [q \in Pages |-> NoSeat] /\ links = <<>>
  BY <1>1 DEF Init, fresh
<1>4. room.epoch = 1 /\ room.seats = {} /\ room.issued = 0 /\ links \in Seq(Link) /\ Len(links) = 0
  BY <1>1, <1>3 DEF Init
<1>5. TypeInv
  <2>1. room \in [epoch: Nat, seats: SUBSET Seat, issued: Nat, crashed: BOOLEAN]
    BY <1>1 DEF Init
  <2> QED
    BY <1>2, <1>3, <1>4, <2>1, NoSeatIs DEF TypeInv
<1>6. SeatInv
  BY <1>4 DEF SeatInv, BoundOnce
<1>7. \A q \in Pages : PageInv(q) /\ SeatedInv(q)
  BY <1>2, <1>3, <1>4, NoSeatIs DEF PageInv, SeatedInv
<1> QED
  BY <1>4, <1>5, <1>6, <1>7 DEF Inv

LEMMA HostStepsLeavePages ==
  /\ \A s : Break(s) \/ Receive(s) \/ LinkLost(s) \/ Stale(s) => UNCHANGED <<pages, saved>>
  /\ Expire \/ RoomEnds \/ Crash => UNCHANGED <<pages, saved>>
<1>1. \A s : Break(s) => UNCHANGED <<pages, saved>>
  BY DEF Break
<1>2. \A s : Receive(s) => UNCHANGED <<pages, saved>>
  BY DEF Receive
<1>3. \A s : LinkLost(s) => UNCHANGED <<pages, saved>>
  BY DEF LinkLost
<1>4. \A s : Stale(s) => UNCHANGED <<pages, saved>>
  BY DEF Stale
<1>5. Expire \/ RoomEnds \/ Crash => UNCHANGED <<pages, saved>>
  BY DEF Expire, RoomEnds, Crash
<1> QED
  BY <1>1, <1>2, <1>3, <1>4, <1>5

\* A step that changes nothing.
LEMMA StutterKeeps ==
  ASSUME Inv, UNCHANGED vars
  PROVE  Inv'
<1>1. UNCHANGED <<pages, saved, links, room>>
  BY DEF vars
<1>2. TypeInv' /\ SeatInv'
  BY <1>1 DEF Inv, TypeInv, SeatInv, BoundOnce, Unread, Up
<1>3. \A s \in 1..Len(links) : LinkInv(s)'
  BY <1>1 DEF Inv, LinkInv, Unread, Up, Down, OnlyCloses, BadNews, Holds, ToldClosed
<1>4. \A q \in Pages : PageInv(q)'
  BY <1>1 DEF Inv, PageInv, SocketInv, Over, SeatOf, ToldClosed, Up, Down, BadNews
<1>5. \A q \in Pages : SeatedInv(q)'
  BY <1>1 DEF Inv, SeatedInv, Holds, ToldClosed
<1> QED
  BY <1>1, <1>2, <1>3, <1>4, <1>5 DEF Inv

LEMMA InvNext == Inv /\ [Next]_vars => Inv'
<1>1. SUFFICES ASSUME Inv, [Next]_vars PROVE Inv'
  OBVIOUS
<1>2. DOMAIN links = 1..Len(links)
  BY LenProperties DEF Inv, TypeInv
<1>3. CASE UNCHANGED vars
  BY <1>1, <1>3, StutterKeeps
<1>4. ASSUME NEW q \in Pages, Enter(q) \/ Leave(q) \/ Rejoin(q) \/ Reload(q) \/ Hear(q) \/ Retry(q)
      PROVE  Inv'
  BY <1>1, <1>4, EnterKeeps, LeaveKeeps, RejoinKeeps, ReloadKeeps, HearKeeps, RetryKeeps
<1>5. ASSUME NEW s \in 1..Len(links), Break(s) \/ Receive(s) \/ LinkLost(s) \/ Stale(s) PROVE Inv'
  <2>1. HostKeeps
    BY <1>1, <1>5, BreakKeeps, ReceiveKeeps, LinkLostKeeps, StaleKeeps
  <2>2. UNCHANGED <<pages, saved>>
    BY <1>5, HostStepsLeavePages
  <2> QED
    BY <1>1, <2>1, <2>2, HostKeepsInv
<1>6. CASE Expire \/ RoomEnds \/ Crash
  <2>1. HostKeeps
    BY <1>1, <1>6, ExpireKeeps, RoomEndsKeeps, CrashKeeps
  <2>2. UNCHANGED <<pages, saved>>
    BY <1>6, HostStepsLeavePages
  <2> QED
    BY <1>1, <2>1, <2>2, HostKeepsInv
<1> QED
  BY <1>1, <1>2, <1>3, <1>4, <1>5, <1>6 DEF Next

\* The invariant holds in every state the pages and their room reach.
THEOREM ReturnsInvariant == Spec => []Inv
BY InvInit, InvNext, PTL DEF Spec

\* A page that shows itself connected (client.rs, `connected`) has its seat, and the
\* seat is bound to the page's own socket, or the news that it has not is on its way.
THEOREM ConnectedAlways == Spec => []ConnectedHasSeat
<1>1. Inv => ConnectedHasSeat
  BY DEF Inv, SeatedInv, Holds, ConnectedHasSeat
<1> QED
  BY <1>1, ReturnsInvariant, PTL

\* A step of a page.
PageStep(q) == Enter(q) \/ Leave(q) \/ Rejoin(q) \/ Reload(q) \/ Hear(q) \/ Retry(q)

\* A page's step replaces that page.
LEMMA PageStepIs ==
  ASSUME NEW q \in Pages, PageStep(q)
  PROVE  \E p : pages' = [pages EXCEPT ![q] = p]
<1> DEFINE Becomes == \E p : pages' = [pages EXCEPT ![q] = p]
<1>1. \A p, choice : Connect(q, p, choice) => Becomes
  BY DEF Connect, Opens
<1>2. \A p, cause : Fails(q, p, cause) => Becomes
  BY DEF Fails
<1>3. Leave(q) => Becomes
  BY DEF Leave
<1>4. Reload(q) => Becomes
  BY DEF Reload
<1>5. Retry(q) => Becomes
  BY DEF Retry, Opens
<1>6. \A p, m : HearWelcome(q, p, m) => Becomes
  BY DEF HearWelcome
<1>7. \A p, m : HearClosed(q, p, m) => (\E k, cause : Fails(q, k, cause)) \/ Becomes
  BY DEF HearClosed
<1>8. \A p, m : HearError(q, p, m) => \E k, cause : Fails(q, k, cause)
  BY DEF HearError
<1>9. \A p : HearReset(q, p) => \E k, cause : Fails(q, k, cause)
  BY DEF HearReset
<1> HIDE DEF Becomes
<1>10. Hear(q) => Becomes
  BY <1>2, <1>6, <1>7, <1>8, <1>9 DEF Hear
<1>11. Becomes
  BY <1>1, <1>3, <1>4, <1>5, <1>10 DEF PageStep, Enter, Rejoin
<1> QED
  BY <1>11 DEF Becomes

\* A page whose step ends its room had a token that no seat has.
LEMMA EndsWhenOver ==
  ASSUME Inv, NEW q \in Pages, PageStep(q), pages'[q].ended \in {"seat-expired", "room-ended"}
  PROVE  Over(pages[q].token)
<1>1. PICK p \in Page : p = pages[q] /\ DOMAIN pages = Pages /\ PageInv(q)
  BY PageIs DEF TypeInv
<1>2. /\ Stopped(p) \in Page /\ Forgetting(p) \in Page
      /\ \A k \in Page : Stopped(k) \in Page
  BY ForgettingIs DEF Stopped, Page, None
<1>3. \A k \in Page : \A cause : Fails(q, k, cause) => pages'[q].ended = cause
  BY <1>1, <1>2 DEF Fails, Page
<1>4. ASSUME NEW choice \in Entrances, Connect(q, p, choice) PROVE FALSE
  <2>1. PICK stopped \in Page : stopped = Stopped(p)
    BY <1>2
  <2> DEFINE fresh == [stopped EXCEPT !.choice = choice, !.ended = "no", !.started = FALSE, !.attempt = 0]
  <2>2. fresh \in Page /\ fresh.ended = "no"
    BY DEF Page, Endings
  <2> HIDE DEF fresh
  <2>3. Opens(q, fresh)
    BY <1>4, <2>1 DEF Connect, fresh
  <2>4. pages'[q].ended = "no"
    BY <1>1, <2>2, <2>3 DEF Opens, Page
  <2> QED
    BY <2>4
<1>5. ~Leave(q) /\ ~Reload(q) /\ ~Enter(q) /\ ~Rejoin(q)
  <2>1. ASSUME Leave(q) PROVE FALSE
    BY <1>1, <1>2, <2>1 DEF Leave, Page
  <2>2. ASSUME Reload(q) PROVE FALSE
    BY <1>1, <2>2 DEF Reload, NewPage
  <2>3. ASSUME Enter(q) PROVE FALSE
    <3>1. PICK choice \in Entrances : Connect(q, p, choice)
      BY <1>1, <2>3 DEF Enter, Entrances
    <3> QED
      BY <1>4, <3>1
  <2>4. ASSUME Rejoin(q) PROVE FALSE
    BY <1>1, <1>4, <2>4 DEF Rejoin, Entrances
  <2> QED
    BY <2>1, <2>2, <2>3, <2>4
<1>6. CASE Hear(q)
  <2>1. PICK m : m = Head(links[pages[q].socket].down)
    OBVIOUS
  <2>2. /\ pages[q].socket # None /\ links[pages[q].socket].down # <<>>
        /\ \/ m.type = "welcome" /\ HearWelcome(q, p, m)
           \/ m.type = "error" /\ HearError(q, p, m)
           \/ m.type = "room-reset" /\ HearReset(q, p)
           \/ m.type = "closed" /\ HearClosed(q, p, m)
    BY <1>1, <1>6, <2>1 DEF Hear
  <2>3. p.ended = "no"
    BY <1>1, <2>2 DEF PageInv, SocketInv
  <2>4. ASSUME HearWelcome(q, p, m) PROVE FALSE
    <3> DEFINE k == [p EXCEPT !.token = m.token, !.epoch = m.epoch, !.connected = TRUE,
                              !.started = FALSE, !.attempt = 0]
    <3>1. k.ended = "no"
      BY <2>3 DEF Page
    <3>2. pages' = [pages EXCEPT ![q] = k]
      BY <2>4 DEF HearWelcome
    <3> HIDE DEF k
    <3>3. pages'[q].ended = "no"
      BY <1>1, <3>1, <3>2
    <3> QED
      BY <3>3
  <2>5. ASSUME HearClosed(q, p, m) PROVE FALSE
    <3> DEFINE k == [p EXCEPT !.socket = None, !.connected = FALSE, !.retrying = TRUE, !.started = TRUE]
    <3>1. k.ended = "no"
      BY <2>3 DEF Page
    <3>2. \/ pages' = [pages EXCEPT ![q] = k]
          \/ \E cause \in {"other-tab", "rejected", "lost"} : Fails(q, p, cause)
      BY <2>5 DEF HearClosed
    <3> HIDE DEF k
    <3>3. pages' = [pages EXCEPT ![q] = k] => pages'[q].ended = "no"
      BY <1>1, <3>1
    <3> QED
      BY <1>3, <3>2, <3>3
  <2>6. CASE m.type = "error" /\ HearError(q, p, m)
    BY <1>2, <1>3, <2>1, <2>2, <2>6, HeardIs DEF HearError, IsBad
  <2>7. CASE m.type = "room-reset"
    BY <2>1, <2>2, <2>7, HeardIs DEF IsBad
  <2> QED
    BY <2>2, <2>4, <2>5, <2>6, <2>7
<1>7. CASE Retry(q)
  <2>1. pages'[q].ended = p.ended
    BY <1>1, <1>7 DEF Retry, Opens, Page
  <2> QED
    BY <1>1, <2>1 DEF PageInv
<1> QED
  BY <1>5, <1>6, <1>7 DEF PageStep

\* A page that was told its seat expired or its room ended leaves no reservation
\* behind under its token: the seat it forgets (client.rs, `fail`) no longer exists,
\* so nobody is kept out by a seat nobody can claim.
THEOREM ReleasedAlways == Spec => ForgottenIsReleased
<1>1. ASSUME Inv, [Next]_vars, NEW q \in Pages, pages[q].token # None,
             pages'[q].ended \in {"seat-expired", "room-ended"}
      PROVE  SeatOf(pages[q].token) = {}
  <2>1. pages \in [Pages -> Page] /\ PageInv(q)
    BY <1>1, PageIs DEF TypeInv
  <2>2. CASE pages'[q] = pages[q]
    BY <1>1, <2>1, <2>2 DEF PageInv, Over
  <2>3. ASSUME NEW r \in Pages, PageStep(r) PROVE SeatOf(pages[q].token) = {}
    <3>1. CASE r = q
      BY <1>1, <2>3, <3>1, EndsWhenOver DEF Over
    <3>2. CASE r # q
      BY <2>1, <2>2, <2>3, <3>2, PageStepIs
    <3> QED
      BY <3>1, <3>2
  <2>4. UNCHANGED pages \/ \E r \in Pages : PageStep(r)
    <3>1. UNCHANGED vars => UNCHANGED pages
      BY DEF vars
    <3>2. \A s : Break(s) \/ Receive(s) \/ LinkLost(s) \/ Stale(s) => UNCHANGED pages
      BY HostStepsLeavePages
    <3> QED
      BY <1>1, <3>1, <3>2, HostStepsLeavePages DEF Next, PageStep
  <2> QED
    BY <2>2, <2>3, <2>4
<1>2. Inv /\ [Next]_vars =>
        [\A q \in Pages :
           (pages[q].token # None /\ pages'[q].ended \in {"seat-expired", "room-ended"}) =>
             SeatOf(pages[q].token) = {}]_vars
  BY <1>1
<1> QED
  BY <1>2, ReturnsInvariant, PTL DEF Spec, ForgottenIsReleased
=============================================================================
