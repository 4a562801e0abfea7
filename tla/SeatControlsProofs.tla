------------------------- MODULE SeatControlsProofs -------------------------
(***************************************************************************)
(* The promises of a seat's controls, for every lease, queue, lag and lead *)
(* limit, every delay of the host and of the messages, and every change of *)
(* hands of the tank.                                                      *)
(***************************************************************************)
EXTENDS SeatControlsProperties, TLAPS, NaturalsInduction, WellFoundedInduction

Control == [epoch: Nat, life: Nat, driver: {"human", "bot", "idle"}]

Message ==
  [type: {"input"}, epoch: Nat, seq: Nat, observed: Nat, asked: Nat, fire: BOOLEAN,
   actions: Seq(Nat), life: Nat]
  \cup {[type |-> "suspend"], [type |-> "resume"]}

\* An input on the seat's side.
Queueable ==
  [tick: Nat, arrival: Nat, received: Nat, seq: Nat, fire: BOOLEAN, actions: Seq(Nat), life: Nat,
   asked: Nat]

TankOK(t) ==
  t \in [life: Nat, alive: BOOLEAN, driver: {"human", "bot", "idle"}, away: BOOLEAN, bot: BOOLEAN]

\* The types of a seat's fields; the actions and acknowledgements are of no account here.
SeatOK(s) ==
  /\ DOMAIN s = {"epoch", "life", "alive", "suspended", "input", "arrival", "waiting", "lastSeq",
                 "received", "leaseFrom", "actions", "ack"}
  /\ s.epoch \in Nat /\ s.life \in Nat /\ s.alive \in BOOLEAN /\ s.suspended \in BOOLEAN
  /\ s.input \in Queueable \cup {None} /\ s.arrival \in Nat
  /\ s.waiting \in Seq(Queueable)
  /\ s.received \in Nat /\ s.leaseFrom \in Nat

ClockInv ==
  /\ now \in Nat /\ tick \in Nat /\ left \in Int
  /\ Idle <= left /\ left <= now - tick /\ tick <= now

LinksInv ==
  /\ announced \in Control
  /\ linked \in BOOLEAN
  /\ told \in Seq(Control)
  /\ inbox \in Seq(Message)
  /\ client \in [connected: BOOLEAN, hidden: BOOLEAN, seq: Nat, control: Control \cup {None}, asked: Nat]

\* The seat knows who drives its tank.
DriverInv(s, t) == t.driver = IF s.suspended THEN StandIn ELSE "human"

\* Between callbacks the seat knows its tank's life.
SettledInv == left = Idle => seat.life = tank.life /\ seat.alive = tank.alive /\ command = None

\* Whatever names an epoch is of it or of an earlier one, and an epoch is of one life.
MeansLife(m, s) == m.epoch <= s.epoch /\ (m.epoch = s.epoch => m.life = s.life)

EpochInv ==
  /\ MeansLife(announced, seat)
  /\ announced.epoch = seat.epoch => announced.driver = tank.driver
  /\ client.control # None => MeansLife(client.control, seat)
  /\ \A k \in 1..Len(told) : MeansLife(told[k], seat)
  /\ \A k \in 1..Len(inbox) : inbox[k].type = "input" => MeansLife(inbox[k], seat)

\* The inputs a seat holds are for the life it is in.
LifeInv(s) ==
  /\ \A k \in 1..Len(s.waiting) : s.waiting[k].life = s.life
  /\ s.input # None => s.input.life = s.life

\* They start in their time, and leases end in theirs.
InTime(w, s) ==
  /\ w.arrival <= w.tick /\ w.tick <= w.arrival + MaxLead
  /\ Smaller(w.asked, w.arrival + MaxLead) <= w.tick
  /\ w.arrival <= now + 1
  /\ w.received <= s.received

TimesInv(s, n) ==
  /\ \A k \in 1..Len(s.waiting) : InTime(s.waiting[k], s)
  /\ s.input # None => s.arrival <= n /\ Smaller(s.input.asked, s.arrival + MaxLead) <= n
  /\ s.received <= now
  /\ s.leaseFrom <= s.received + MaxLead

ControlsInv ==
  /\ ClockInv /\ LinksInv /\ TankOK(tank) /\ SeatOK(seat)
  /\ DriverInv(seat, tank) /\ SettledInv /\ EpochInv /\ LifeInv(seat) /\ TimesInv(seat, tick)
  /\ InputsDriveTheirLife /\ InputsKeepTheirTime /\ PlayerKnowsDriver

-----------------------------------------------------------------------------
(* The operations of a seat.                                               *)

\* A seat after a new epoch holds no input.
NewLife(s, u) ==
  /\ SeatOK(u)
  /\ u.epoch = s.epoch + 1
  /\ u.input = None /\ u.waiting = <<>>
  /\ u.leaseFrom = s.leaseFrom /\ u.received = s.received

LEMMA NewEpochIs ==
  ASSUME NEW s, SeatOK(s)
  PROVE  /\ NewLife(s, NewEpoch(s))
         /\ NewEpoch(s).life = s.life /\ NewEpoch(s).alive = s.alive
         /\ NewEpoch(s).suspended = s.suspended
BY DEF NewEpoch, SeatOK, NewLife

LEMMA TakesLifeIs ==
  ASSUME NEW s, SeatOK(s), NEW t, TankOK(t)
  PROVE  /\ SeatOK(TakesLife(s, t))
         /\ TakesLife(s, t).life = t.life /\ TakesLife(s, t).alive = t.alive
         /\ TakesLife(s, t).epoch = s.epoch /\ TakesLife(s, t).suspended = s.suspended
         /\ TakesLife(s, t).received = s.received /\ TakesLife(s, t).leaseFrom = s.leaseFrom
BY DEF TakesLife, SeatOK, TankOK

LEMMA RefreshedIs ==
  ASSUME NEW s, SeatOK(s), NEW t, TankOK(t)
  PROVE  /\ SeatOK(Refreshed(s, t))
         /\ Refreshed(s, t).life = t.life /\ Refreshed(s, t).alive = t.alive
         /\ Refreshed(s, t).suspended = s.suspended
         /\ Refreshed(s, t) = s \/ NewLife(s, Refreshed(s, t))
<1> DEFINE u == TakesLife(s, t)
<1>1. /\ SeatOK(u) /\ u.life = t.life /\ u.alive = t.alive /\ u.epoch = s.epoch
      /\ u.suspended = s.suspended /\ u.received = s.received /\ u.leaseFrom = s.leaseFrom
  BY TakesLifeIs
<1> HIDE DEF u
<1>2. /\ NewLife(u, NewEpoch(u)) /\ NewEpoch(u).life = u.life /\ NewEpoch(u).alive = u.alive
      /\ NewEpoch(u).suspended = u.suspended
  BY <1>1, NewEpochIs
<1>3. NewLife(s, NewEpoch(u)) /\ SeatOK(NewEpoch(u))
  BY <1>1, <1>2 DEF NewLife
<1>4. Refreshed(s, t) = IF s.life = t.life /\ s.alive = t.alive THEN s ELSE NewEpoch(u)
  BY DEF Refreshed, u
<1>5. QED
  BY <1>1, <1>2, <1>3, <1>4

LEMMA DrivenIs ==
  ASSUME NEW t, TankOK(t), NEW d \in {"human", "bot", "idle"}
  PROVE  TankOK(Driven(t, d)) /\ Driven(t, d).driver = d /\ Driven(t, d).alive = t.alive
<1>1. t.alive \in BOOLEAN /\ t.life + 1 \in Nat /\ t.bot \in BOOLEAN /\ t.away \in BOOLEAN
  BY DEF TankOK
<1>2. CASE d = "bot" /\ ~t.bot
  <2>1. Driven(t, d) = [t EXCEPT !.driver = d, !.away = TRUE, !.bot = TRUE, !.life = @ + 1]
    BY <1>2 DEF Driven
  <2>2. QED
    BY <1>1, <2>1 DEF TankOK
<1>3. CASE ~(d = "bot" /\ ~t.bot) /\ d # "bot" /\ t.away
  <2>1. Driven(t, d) = [t EXCEPT !.driver = d, !.away = FALSE, !.bot = FALSE, !.life = @ + 1]
    BY <1>3 DEF Driven
  <2>2. QED
    BY <1>1, <2>1 DEF TankOK
<1>4. CASE ~(d = "bot" /\ ~t.bot) /\ ~(d # "bot" /\ t.away)
  <2>1. Driven(t, d) = [t EXCEPT !.driver = d]
    BY <1>4 DEF Driven
  <2>2. QED
    BY <1>1, <2>1 DEF TankOK
<1>5. QED
  BY <1>2, <1>3, <1>4

LEMMA StandInIs == StandIn \in {"bot", "idle"}
BY DEF StandIn

\* A seat that is suspended, or that was.
LEMMA SuspendedIs ==
  ASSUME NEW s, SeatOK(s), NEW t, TankOK(t), DriverInv(s, t)
  PROVE  /\ SeatOK(Suspended(s, t)) /\ TankOK(SuspendedTank(s, t))
         /\ Suspended(s, t).suspended
         /\ DriverInv(Suspended(s, t), SuspendedTank(s, t))
         /\ \/ s.suspended /\ Suspended(s, t) = s /\ SuspendedTank(s, t) = t
            \/ /\ NewLife(s, Suspended(s, t))
               /\ Suspended(s, t).life = SuspendedTank(s, t).life
               /\ Suspended(s, t).alive = SuspendedTank(s, t).alive
<1>1. CASE s.suspended
  BY <1>1 DEF Suspended, SuspendedTank
<1>2. CASE ~s.suspended
  <2> DEFINE r == [s EXCEPT !.suspended = TRUE]
             d == SuspendedTank(s, t)
             u == TakesLife(r, d)
  <2>1. /\ SeatOK(r) /\ r.suspended /\ r.epoch = s.epoch
        /\ r.received = s.received /\ r.leaseFrom = s.leaseFrom
    BY DEF SeatOK
  <2>2. TankOK(d) /\ d.driver = StandIn
    BY <1>2, DrivenIs, StandInIs DEF SuspendedTank
  <2> HIDE DEF r, d
  <2>3. /\ SeatOK(u) /\ u.life = d.life /\ u.alive = d.alive /\ u.epoch = s.epoch
        /\ u.suspended /\ u.received = s.received /\ u.leaseFrom = s.leaseFrom
    BY <2>1, <2>2, TakesLifeIs
  <2>4. Suspended(s, t) = NewEpoch(u)
    BY <1>2 DEF Suspended, r, d, u
  <2> HIDE DEF u
  <2>5. /\ NewLife(u, NewEpoch(u)) /\ NewEpoch(u).life = u.life /\ NewEpoch(u).alive = u.alive
        /\ NewEpoch(u).suspended = u.suspended
    BY <2>3, NewEpochIs
  <2>6. NewLife(s, NewEpoch(u)) /\ SeatOK(NewEpoch(u))
    BY <2>3, <2>5 DEF NewLife
  <2>7. d = SuspendedTank(s, t)
    BY DEF d
  <2>8. QED
    BY <2>2, <2>3, <2>4, <2>5, <2>6, <2>7 DEF DriverInv
<1>3. QED
  BY <1>1, <1>2

\* A seat whose player is back.
LEMMA ResumedIs ==
  ASSUME NEW s, SeatOK(s), NEW t, TankOK(t), now \in Nat
  PROVE  /\ SeatOK(Resumed(s, t)) /\ TankOK(ResumedTank(t))
         /\ DriverInv(Resumed(s, t), ResumedTank(t))
         /\ Resumed(s, t).epoch = s.epoch + 1
         /\ Resumed(s, t).input = None /\ Resumed(s, t).waiting = <<>>
         /\ Resumed(s, t).received = now /\ Resumed(s, t).leaseFrom = now
         /\ Resumed(s, t).life = ResumedTank(t).life
         /\ Resumed(s, t).alive = ResumedTank(t).alive
<1> DEFINE r == [s EXCEPT !.suspended = FALSE, !.received = now, !.leaseFrom = now]
           d == ResumedTank(t)
           u == TakesLife(r, d)
<1>1. /\ SeatOK(r) /\ ~r.suspended /\ r.epoch = s.epoch
      /\ r.received = now /\ r.leaseFrom = now
  BY DEF SeatOK
<1>2. TankOK(d) /\ d.driver = "human"
  BY DrivenIs DEF ResumedTank
<1> HIDE DEF r, d
<1>3. /\ SeatOK(u) /\ u.life = d.life /\ u.alive = d.alive /\ u.epoch = s.epoch
      /\ ~u.suspended /\ u.received = now /\ u.leaseFrom = now
  BY <1>1, <1>2, TakesLifeIs
<1>4. Resumed(s, t) = NewEpoch(u)
  BY DEF Resumed, r, d, u
<1> HIDE DEF u
<1>5. /\ NewLife(u, NewEpoch(u)) /\ NewEpoch(u).life = u.life /\ NewEpoch(u).alive = u.alive
      /\ NewEpoch(u).suspended = u.suspended
  BY <1>3, NewEpochIs
<1>6. d = ResumedTank(t)
  BY DEF d
<1>7. QED
  BY <1>2, <1>3, <1>4, <1>5, <1>6 DEF NewLife, DriverInv

\* What becomes of a seat within its epoch.
SameLife(s, u) ==
  /\ SeatOK(u)
  /\ u.epoch = s.epoch /\ u.life = s.life /\ u.alive = s.alive /\ u.suspended = s.suspended

\* A seat of which only the actions and acknowledgements changed.
SameButActions(s, u) ==
  /\ SameLife(s, u)
  /\ u.input = s.input /\ u.arrival = s.arrival /\ u.waiting = s.waiting
  /\ u.received = s.received /\ u.leaseFrom = s.leaseFrom

LEMMA ActionsAreApart ==
  ASSUME NEW s, SeatOK(s), NEW n, LifeInv(s), TimesInv(s, n), NEW u, SameButActions(s, u)
  PROVE  LifeInv(u) /\ TimesInv(u, n)
BY DEF LifeInv, TimesInv, InTime, SameButActions, SameLife

LEMMA ActionsChange ==
  ASSUME NEW s, SeatOK(s), NEW n
  PROVE  /\ SameButActions(s, Unexpired(s))
         /\ SameButActions(s, [s EXCEPT !.actions = <<>>])
         /\ SameButActions(s, Drive(s, n))
BY DEF Unexpired, Drive, SeatOK, SameButActions, SameLife

\* How many waiting inputs are due: a prefix of them.
LEMMA DueCountIs ==
  ASSUME NEW w \in Seq(Queueable), NEW n \in Nat
  PROVE  /\ DueCount(w, n) \in 0..Len(w)
         /\ \A j \in 1..DueCount(w, n) : w[j].tick <= n
<1> DEFINE NotDue == {k \in Nat : k < Len(w) /\ w[k + 1].tick > n}
           S == NotDue \cup {Len(w)}
<1>1. S \subseteq Nat /\ S # {}
  OBVIOUS
<1>2. PICK k \in S : \A m \in S : ~(<<m, k>> \in OpToRel(<, Nat))
  BY <1>1, NatLessThanWellFounded, WFMin
<1>3. \A m \in S : m \in Nat /\ k \in Nat /\ ~(m < k)
  <2>1. SUFFICES ASSUME NEW m \in S PROVE m \in Nat /\ k \in Nat /\ ~(m < k)
    OBVIOUS
  <2>2. m \in Nat /\ k \in Nat
    BY <1>1, <1>2, <2>1
  <2>3. ~(m < k)
    BY <1>2, <2>1, <2>2 DEF OpToRel
  <2>4. QED
    BY <2>2, <2>3
<1>4. k \in 0..Len(w) /\ (k < Len(w) => w[k + 1].tick > n)
  <2>1. Len(w) \in S /\ Len(w) \in Nat
    OBVIOUS
  <2>2. k \in Nat /\ ~(Len(w) < k)
    BY <1>3, <2>1
  <2>3. k = Len(w) \/ (k < Len(w) /\ w[k + 1].tick > n)
    BY <1>2
  <2>4. QED
    BY <2>1, <2>2, <2>3
<1>5. \A j \in 1..k : w[j].tick <= n
  <2>1. SUFFICES ASSUME NEW j \in 1..k PROVE w[j].tick <= n
    OBVIOUS
  <2>2. j \in Nat /\ j - 1 \in Nat /\ j - 1 < k /\ (j - 1) + 1 = j /\ j \in 1..Len(w)
    BY <1>4, <2>1
  <2>3. j - 1 \notin S
    BY <1>3, <2>2
  <2>4. ~(w[(j - 1) + 1].tick > n)
    BY <1>4, <2>2, <2>3
  <2>5. w[j].tick \in Nat
    <3>1. w[j] \in Queueable
      BY <2>2
    <3>2. QED
      BY <3>1 DEF Queueable
  <2>6. QED
    BY <2>2, <2>4, <2>5
<1>6. QED
  BY <1>4, <1>5 DEF DueCount

\* The latest of the lease starts is one of them.
LEMMA LeaseStartIs ==
  ASSUME NEW from \in Nat, NEW q \in Seq(Queueable), NEW B \in Nat, from <= B,
         \A k \in 1..Len(q) : /\ q[k].arrival <= q[k].tick
                              /\ q[k].received + q[k].tick - q[k].arrival <= B
  PROVE  LeaseStart(from, q) \in Nat /\ LeaseStart(from, q) <= B
<1> DEFINE S == {from} \cup {w.received + w.tick - w.arrival : w \in Range(q)}
           T == {B - x : x \in S}
<1>1. \A k \in 1..Len(q) : q[k].received + q[k].tick - q[k].arrival \in 0..B
  <2>1. SUFFICES ASSUME NEW k \in 1..Len(q)
                 PROVE  q[k].received + q[k].tick - q[k].arrival \in 0..B
    OBVIOUS
  <2>2. q[k] \in Queueable
    OBVIOUS
  <2>3. q[k].received \in Nat /\ q[k].tick \in Nat /\ q[k].arrival \in Nat
    BY <2>2 DEF Queueable
  <2>4. /\ q[k].arrival <= q[k].tick
        /\ q[k].received + q[k].tick - q[k].arrival <= B
    BY <2>1
  <2>5. \A r, n, m \in Nat : m <= n /\ r + n - m <= B => r + n - m \in 0..B
    OBVIOUS
  <2>6. QED
    BY <2>3, <2>4, <2>5
<1>2. \A w \in Range(q) : w.received + w.tick - w.arrival \in 0..B
  BY <1>1 DEF Range
<1>3. S \subseteq 0..B /\ S # {}
  BY <1>2
<1> HIDE DEF S
<1>4. T \subseteq Nat /\ T # {}
  <2>1. \A x \in S : B - x \in Nat
    BY <1>3
  <2>2. QED
    BY <1>3, <2>1
<1>5. PICK m \in T : \A l \in T : ~(<<l, m>> \in OpToRel(<, Nat))
  BY <1>4, NatLessThanWellFounded, WFMin
<1>6. PICK x \in S : m = B - x
  BY <1>5
<1>7. \A y \in S : x >= y
  <2>1. SUFFICES ASSUME NEW y \in S PROVE x >= y
    OBVIOUS
  <2>2. x \in 0..B /\ y \in 0..B /\ B - y \in T /\ B - y \in Nat /\ B - x \in Nat
    BY <1>3, <1>6
  <2>3. ~(B - y < B - x)
    BY <1>5, <1>6, <2>2 DEF OpToRel
  <2>4. QED
    BY <2>2, <2>3
<1>8. Max(S) \in S
  BY <1>7 DEF Max
<1>9. LeaseStart(from, q) = Max(S)
  BY DEF LeaseStart, S
<1>10. Max(S) \in 0..B
  BY <1>3, <1>8
<1>11. QED
  BY <1>9, <1>10

\* What is in time stays so.
LEMMA TimesLater ==
  ASSUME NEW s, SeatOK(s), MaxLead \in Nat, NEW m \in Nat, NEW n \in Nat, m <= n, TimesInv(s, m)
  PROVE  TimesInv(s, n)
<1>1. CASE s.input = None
  BY <1>1 DEF TimesInv
<1>2. CASE s.input # None
  <2>1. s.input \in Queueable /\ s.arrival \in Nat
    BY <1>2 DEF SeatOK
  <2>2. Smaller(s.input.asked, s.arrival + MaxLead) \in Nat
    BY <2>1 DEF Smaller, Queueable
  <2>3. QED
    BY <1>2, <2>1, <2>2 DEF TimesInv
<1>3. QED
  BY <1>1, <1>2

\* Inputs that take over were for this life and are in their time.
LEMMA TakenOverIs ==
  ASSUME NEW s, SeatOK(s), NEW n \in Nat, LifeInv(s), now \in Nat, MaxLead \in Nat,
         NEW m \in Nat, m <= n, TimesInv(s, m)
  PROVE  /\ SameLife(s, TakenOver(s, n))
         /\ LifeInv(TakenOver(s, n)) /\ TimesInv(TakenOver(s, n), n)
<1> DEFINE w == s.waiting
           k == DueCount(s.waiting, n)
           due == SubSeq(w, 1, k)
           rest == SubSeq(w, k + 1, Len(w))
           u == TakenOver(s, n)
<1>1. w \in Seq(Queueable) /\ Len(w) \in Nat
  BY DEF SeatOK
<1>2. k \in 0..Len(w) /\ \A j \in 1..k : w[j].tick <= n
  BY <1>1, DueCountIs
<1> HIDE DEF k
<1>3. \A j \in 1..Len(w) : /\ w[j] \in Queueable /\ InTime(w[j], s) /\ w[j].life = s.life
                           /\ w[j].tick \in Nat /\ w[j].arrival \in Nat /\ w[j].received \in Nat
  <2>1. \A j \in 1..Len(w) : w[j] \in Queueable
    BY <1>1
  <2>2. \A j \in 1..Len(w) : w[j].tick \in Nat /\ w[j].arrival \in Nat /\ w[j].received \in Nat
    BY <2>1 DEF Queueable
  <2>3. \A j \in 1..Len(w) : InTime(w[j], s) /\ w[j].life = s.life
    BY DEF LifeInv, TimesInv
  <2>4. QED
    BY <2>1, <2>2, <2>3
<1>4. s.received \in Nat /\ s.leaseFrom \in Nat /\ s.arrival \in Nat
      /\ s.received <= now /\ s.leaseFrom <= s.received + MaxLead
  BY DEF SeatOK, TimesInv
<1>5. CASE k = 0
  <2>1. u = s
    BY <1>5 DEF TakenOver, k
  <2>2. TimesInv(s, n)
    BY TimesLater
  <2>3. QED
    BY <2>1, <2>2 DEF SameLife
<1>6. CASE k # 0
  <2>1. k \in 1..Len(w)
    BY <1>1, <1>2, <1>6
  <2>2. /\ due \in Seq(Queueable) /\ Len(due) = k
        /\ \A j \in 1..k : due[j] = w[j]
    BY <1>1, <2>1
  <2>3. /\ rest \in Seq(Queueable) /\ Len(rest) = Len(w) - k
        /\ \A j \in 1..Len(rest) : j + k \in 1..Len(w) /\ rest[j] = w[j + k]
    BY <1>1, <2>1
  <2> HIDE DEF due, rest
  <2>4. \A j \in 1..Len(due) :
          /\ due[j].arrival <= due[j].tick
          /\ due[j].received + due[j].tick - due[j].arrival <= s.received + MaxLead
    <3>1. SUFFICES ASSUME NEW j \in 1..k
                   PROVE  /\ w[j].arrival <= w[j].tick
                          /\ w[j].received + w[j].tick - w[j].arrival <= s.received + MaxLead
      BY <2>2
    <3>2. /\ InTime(w[j], s)
          /\ w[j].tick \in Nat /\ w[j].arrival \in Nat /\ w[j].received \in Nat
      BY <1>2, <1>3, <3>1
    <3>3. QED
      BY <1>4, <3>2 DEF InTime
  <2>5. LeaseStart(s.leaseFrom, due) \in Nat /\ LeaseStart(s.leaseFrom, due) <= s.received + MaxLead
    BY <1>4, <2>2, <2>4, LeaseStartIs, SMTT(30)
  <2>6. u = [s EXCEPT !.waiting = rest, !.input = w[k], !.arrival = w[k].arrival,
                      !.leaseFrom = LeaseStart(@, due), !.actions = @ \o ActionsOf(due)]
    BY <1>6 DEF TakenOver, k, due, rest
  <2>7. w[k] \in Queueable /\ w[k].arrival \in Nat
    BY <1>3, <2>1
  <2>8. /\ u.waiting = rest /\ u.input = w[k] /\ u.arrival = w[k].arrival
        /\ u.leaseFrom = LeaseStart(s.leaseFrom, due) /\ u.received = s.received
        /\ u.epoch = s.epoch /\ u.life = s.life /\ u.alive = s.alive /\ u.suspended = s.suspended
        /\ DOMAIN u = DOMAIN s
    BY <2>6 DEF SeatOK
  <2> HIDE DEF u
  <2>9. SameLife(s, u)
    BY <2>3, <2>5, <2>7, <2>8 DEF SeatOK, SameLife
  <2>10. LifeInv(u)
    BY <1>3, <2>1, <2>3, <2>8 DEF LifeInv
  <2>11. TimesInv(u, n)
    <3>1. \A j \in 1..Len(rest) : InTime(rest[j], u)
      BY <1>3, <2>3, <2>8 DEF InTime
    <3>2. InTime(w[k], s) /\ w[k].tick <= n /\ w[k].tick \in Nat /\ w[k].asked \in Nat
      BY <1>2, <1>3, <2>1, SMTT(30) DEF Queueable
    <3>3. u.arrival <= n /\ Smaller(u.input.asked, u.arrival + MaxLead) <= n
      <4>1. Smaller(w[k].asked, w[k].arrival + MaxLead) \in Nat
        BY <2>7, <3>2 DEF Smaller
      <4>2. QED
        BY <2>7, <2>8, <3>2, <4>1 DEF InTime
    <3>4. QED
      BY <1>4, <2>5, <2>8, <3>1, <3>3 DEF TimesInv
  <2>12. QED
    BY <2>9, <2>10, <2>11 DEF u
<1>7. QED
  BY <1>5, <1>6

\* An input that is accepted starts in its time.
LEMMA AcceptedIs ==
  ASSUME NEW s, SeatOK(s), NEW i \in Message, i.type = "input", i.life = s.life,
         LifeInv(s), now \in Nat, MaxLead \in Nat, NEW n, TimesInv(s, n)
  PROVE  /\ SameLife(s, Accepted(s, i))
         /\ LifeInv(Accepted(s, i)) /\ TimesInv(Accepted(s, i), n)
<1> DEFINE start == StartTick(s, i)
           wanted == IF i.asked = 0 THEN ArrivalTick ELSE i.asked
           clamped == Larger(ArrivalTick, Smaller(wanted, ArrivalTick + MaxLead))
           w == [tick |-> start, arrival |-> ArrivalTick, received |-> now, seq |-> i.seq,
                 fire |-> i.fire, actions |-> i.actions, life |-> i.life, asked |-> i.asked]
           u == Accepted(s, i)
<1>1. /\ i.asked \in Nat /\ i.seq \in Nat /\ i.fire \in BOOLEAN /\ i.actions \in Seq(Nat)
      /\ i.life \in Nat
  BY DEF Message
<1>2. s.waiting \in Seq(Queueable) /\ Len(s.waiting) \in Nat
      /\ s.received \in Nat /\ s.received <= now /\ s.leaseFrom <= s.received + MaxLead
  BY DEF SeatOK, TimesInv
<1>3. /\ clamped \in Nat /\ ArrivalTick <= clamped /\ clamped <= ArrivalTick + MaxLead
      /\ Smaller(i.asked, ArrivalTick + MaxLead) <= clamped
      /\ Smaller(i.asked, ArrivalTick + MaxLead) \in Nat
  BY <1>1 DEF ArrivalTick, Larger, Smaller
<1>4. ArrivalTick = now + 1
  BY DEF ArrivalTick
<1> HIDE DEF clamped
<1>5. /\ start \in Nat /\ ArrivalTick <= start /\ start <= ArrivalTick + MaxLead
      /\ Smaller(i.asked, ArrivalTick + MaxLead) <= start
  <2>1. CASE s.waiting = <<>>
    <3>1. start = clamped
      BY <2>1 DEF StartTick, clamped
    <3>2. QED
      BY <1>3, <3>1
  <2>2. CASE s.waiting # <<>>
    <3> DEFINE last == s.waiting[Len(s.waiting)]
    <3>1. start = Larger(clamped, last.tick)
      BY <2>2 DEF StartTick, clamped, Last
    <3>2. Len(s.waiting) \in 1..Len(s.waiting)
      BY <1>2, <2>2
    <3>3. last \in Queueable /\ InTime(last, s)
      BY <1>2, <3>2 DEF TimesInv
    <3>4. last.tick \in Nat /\ last.arrival \in Nat /\ last.tick <= now + 1 + MaxLead
      BY <3>3, SMTT(30) DEF Queueable, InTime
    <3> HIDE DEF last
    <3>5. QED
      BY <1>3, <1>4, <3>1, <3>4 DEF Larger
  <2>3. QED
    BY <2>1, <2>2
<1> HIDE DEF start
<1>6. w \in Queueable /\ w.life = s.life /\ w.received = now
  BY <1>1, <1>4, <1>5 DEF Queueable
<1>7. w.tick = start /\ w.arrival = ArrivalTick /\ w.asked = i.asked
  OBVIOUS
<1>8. u = [s EXCEPT !.lastSeq = i.seq, !.received = now, !.leaseFrom = now,
                    !.waiting = Append(@, w)]
  BY DEF Accepted, start
<1> HIDE DEF w
<1>9. /\ u.waiting = Append(s.waiting, w) /\ u.input = s.input /\ u.arrival = s.arrival
      /\ u.leaseFrom = now /\ u.received = now
      /\ u.epoch = s.epoch /\ u.life = s.life /\ u.alive = s.alive /\ u.suspended = s.suspended
      /\ DOMAIN u = DOMAIN s
  BY <1>8 DEF SeatOK
<1> HIDE DEF u
<1>10. /\ u.waiting \in Seq(Queueable) /\ Len(u.waiting) = Len(s.waiting) + 1
       /\ \A k \in 1..Len(u.waiting) :
            (k \in 1..Len(s.waiting) /\ u.waiting[k] = s.waiting[k]) \/ u.waiting[k] = w
  BY <1>2, <1>6, <1>9
<1>11. SameLife(s, u)
  BY <1>9, <1>10 DEF SeatOK, SameLife
<1>12. LifeInv(u)
  BY <1>6, <1>9, <1>10 DEF LifeInv
<1>13. TimesInv(u, n)
  <2>1. InTime(w, u)
    BY <1>4, <1>5, <1>6, <1>7, <1>9 DEF InTime
  <2>2. \A k \in 1..Len(s.waiting) : InTime(s.waiting[k], u)
    <3>1. \A k \in 1..Len(s.waiting) : s.waiting[k].received \in Nat
      <4>1. \A k \in 1..Len(s.waiting) : s.waiting[k] \in Queueable
        BY <1>2
      <4>2. QED
        BY <4>1 DEF Queueable
    <3>2. QED
      BY <1>2, <1>9, <3>1 DEF TimesInv, InTime
  <2>3. QED
    BY <1>9, <1>10, <2>1, <2>2 DEF TimesInv
<1>14. QED
  BY <1>11, <1>12, <1>13 DEF u

-----------------------------------------------------------------------------
(* The steps.                                                              *)

LEMMA ConstantsAre ==
  /\ Lease \in Nat /\ MaxLead \in Nat /\ MaxSteps \in Nat /\ MaxSteps > 0
  /\ Leads \subseteq Nat
BY ConstantsAssumption

\* What the parts of the invariant are called together.
LEMMA InvParts ==
  ASSUME ControlsInv
  PROVE  /\ ClockInv /\ LinksInv /\ TankOK(tank) /\ SeatOK(seat)
         /\ DriverInv(seat, tank) /\ SettledInv /\ EpochInv /\ LifeInv(seat) /\ TimesInv(seat, tick)
         /\ InputsDriveTheirLife /\ InputsKeepTheirTime /\ PlayerKnowsDriver
BY DEF ControlsInv

\* No step gives an epoch a second meaning.
Unambiguous == announced'.epoch = announced.epoch => announced' = announced

\* Whatever an epoch meant, it means in a later state of the seat.
Later(s, u) == u.epoch > s.epoch \/ (u.epoch = s.epoch /\ u.life = s.life)

LEMMA MeansLater ==
  ASSUME NEW s, SeatOK(s), NEW u, SeatOK(u), Later(s, u), NEW m, m.epoch \in Nat, MeansLife(m, s)
  PROVE  MeansLife(m, u)
BY DEF Later, MeansLife, SeatOK

\* A seat without inputs keeps all times.
Empty(u) ==
  /\ u.input = None /\ u.waiting = <<>>
  /\ u.received <= now /\ u.leaseFrom <= u.received + MaxLead

LEMMA EmptyKeeps ==
  ASSUME NEW u, Empty(u), NEW n
  PROVE  LifeInv(u) /\ TimesInv(u, n)
BY DEF Empty, LifeInv, TimesInv

LEMMA ControlsInit == Init => ControlsInv
<1> SUFFICES ASSUME Init PROVE ControlsInv
  OBVIOUS
<1>1. TankOK(tank) /\ tank.driver = "human" /\ now = 0 /\ tick = 0 /\ left = Idle
  BY ConstantsAssumption DEF Init, NewTank, TankOK
<1>2. /\ SeatOK(seat) /\ seat.life = tank.life /\ seat.alive = tank.alive /\ ~seat.suspended
      /\ seat.epoch = 1 /\ seat.received = 0 /\ seat.leaseFrom = 0
      /\ seat.input = None /\ seat.waiting = <<>>
  BY <1>1 DEF Init, NewSeat, SeatOK, TankOK
<1>3. Empty(seat)
  BY <1>1, <1>2, ConstantsAre DEF Empty
<1>4. announced = ControlOf(seat, tank) /\ announced \in Control
  BY <1>1, <1>2 DEF Init, ControlOf, Control, TankOK, SeatOK
<1>5. /\ told = <<>> /\ inbox = <<>> /\ linked = TRUE /\ command = None
      /\ client \in [connected: BOOLEAN, hidden: BOOLEAN, seq: Nat, control: Control \cup {None},
                     asked: Nat]
      /\ client.control = announced
  BY <1>4 DEF Init
<1>6. ClockInv /\ LinksInv
  BY <1>1, <1>4, <1>5 DEF ClockInv, LinksInv, Idle
<1>7. DriverInv(seat, tank) /\ SettledInv
  BY <1>1, <1>2, <1>5 DEF DriverInv, SettledInv
<1>8. EpochInv
  BY <1>2, <1>4, <1>5 DEF EpochInv, MeansLife, ControlOf, SeatOK
<1>9. LifeInv(seat) /\ TimesInv(seat, tick)
  BY <1>3, EmptyKeeps
<1>10. InputsDriveTheirLife /\ InputsKeepTheirTime /\ PlayerKnowsDriver
  BY <1>4, <1>5 DEF InputsDriveTheirLife, InputsKeepTheirTime, PlayerKnowsDriver
<1>11. QED
  BY <1>1, <1>2, <1>6, <1>7, <1>8, <1>9, <1>10 DEF ControlsInv

\* The client and the links change: the host and its clock do not.
LEMMA ClientKeeps ==
  ASSUME ControlsInv, UNCHANGED <<clock, host, command>>, LinksInv',
         client'.control # None => MeansLife(client'.control, seat),
         \A k \in 1..Len(told') : MeansLife(told'[k], seat),
         \A k \in 1..Len(inbox') : inbox'[k].type = "input" => MeansLife(inbox'[k], seat)
  PROVE  ControlsInv' /\ Unambiguous
<1>1. UNCHANGED <<now, tick, left, tank, seat, linked, announced, command>>
  BY DEF clock, host
<1>2. /\ ClockInv' /\ TankOK(tank)' /\ SeatOK(seat)' /\ DriverInv(seat, tank)' /\ SettledInv'
      /\ LifeInv(seat)' /\ TimesInv(seat, tick)'
      /\ InputsDriveTheirLife' /\ InputsKeepTheirTime' /\ PlayerKnowsDriver'
  BY <1>1, InvParts DEF ClockInv, TankOK, SeatOK, DriverInv, SettledInv, LifeInv, TimesInv, InTime,
       InputsDriveTheirLife, InputsKeepTheirTime, PlayerKnowsDriver, ControlOf
<1>3. EpochInv'
  BY <1>1, InvParts DEF EpochInv, MeansLife
<1>4. QED
  BY <1>1, <1>2, <1>3 DEF ControlsInv, Unambiguous

\* A message goes on its way.
LEMMA SendKeeps ==
  ASSUME ControlsInv, NEW m \in Message, m.type = "input" => MeansLife(m, seat),
         inbox' = Append(inbox, m)
  PROVE  /\ inbox' \in Seq(Message)
         /\ \A k \in 1..Len(inbox') : inbox'[k].type = "input" => MeansLife(inbox'[k], seat)
<1>1. inbox \in Seq(Message)
  BY InvParts DEF LinksInv
<1>2. /\ inbox' \in Seq(Message)
      /\ \A k \in 1..Len(inbox') : (k \in 1..Len(inbox) /\ inbox'[k] = inbox[k]) \/ inbox'[k] = m
  BY <1>1
<1>3. \A k \in 1..Len(inbox) : inbox[k].type = "input" => MeansLife(inbox[k], seat)
  BY InvParts DEF EpochInv
<1>4. QED
  BY <1>2, <1>3

LEMMA SendInputKeeps ==
  ASSUME ControlsInv, SendInput
  PROVE  ControlsInv' /\ Unambiguous
<1>1. PICK press \in Presses : \E asked \in {0} \cup {tick + lead : lead \in Leads} :
        LET seq == client.seq + 1 IN
        /\ inbox' = Append(inbox,
             [type |-> "input", epoch |-> client.control.epoch, seq |-> seq, observed |-> tick,
              asked |-> asked, fire |-> press = "fire",
              actions |-> IF press = "action" THEN <<seq>> ELSE <<>>,
              life |-> client.control.life])
        /\ client' = [client EXCEPT !.seq = seq]
  BY DEF SendInput
<1>2. PICK asked \in {0} \cup {tick + lead : lead \in Leads} :
        LET seq == client.seq + 1 IN
        /\ inbox' = Append(inbox,
             [type |-> "input", epoch |-> client.control.epoch, seq |-> seq, observed |-> tick,
              asked |-> asked, fire |-> press = "fire",
              actions |-> IF press = "action" THEN <<seq>> ELSE <<>>,
              life |-> client.control.life])
        /\ client' = [client EXCEPT !.seq = seq]
  BY <1>1
<1> DEFINE m == [type |-> "input", epoch |-> client.control.epoch, seq |-> client.seq + 1,
                 observed |-> tick, asked |-> asked, fire |-> press = "fire",
                 actions |-> IF press = "action" THEN <<client.seq + 1>> ELSE <<>>,
                 life |-> client.control.life]
<1>3. client.control # None /\ UNCHANGED <<clock, host, command, told>>
  BY DEF SendInput, Drives, history
<1>4. /\ client \in [connected: BOOLEAN, hidden: BOOLEAN, seq: Nat, control: Control \cup {None}, asked: Nat]
      /\ told \in Seq(Control) /\ tick \in Nat
      /\ MeansLife(client.control, seat)
      /\ \A k \in 1..Len(told) : MeansLife(told[k], seat)
  BY <1>3, InvParts DEF LinksInv, ClockInv, EpochInv
<1>5. client.control \in Control /\ client.seq + 1 \in Nat
  BY <1>3, <1>4
<1>6. asked \in Nat
  BY <1>2, <1>4, ConstantsAre
<1>7. (IF press = "action" THEN <<client.seq + 1>> ELSE <<>>) \in Seq(Nat)
  BY <1>5
<1>8. m \in Message
  BY <1>4, <1>5, <1>6, <1>7 DEF Message, Control
<1>9. MeansLife(m, seat)
  BY <1>4 DEF MeansLife
<1>10. inbox' = Append(inbox, m)
  BY <1>2
<1> HIDE DEF m
<1>11. /\ inbox' \in Seq(Message)
       /\ \A k \in 1..Len(inbox') : inbox'[k].type = "input" => MeansLife(inbox'[k], seat)
  BY <1>8, <1>9, <1>10, SendKeeps
<1>12. client'.control = client.control
       /\ client' \in [connected: BOOLEAN, hidden: BOOLEAN, seq: Nat, control: Control \cup {None}, asked: Nat]
  BY <1>2, <1>4, <1>5
<1>13. LinksInv'
  BY <1>3, <1>4, <1>11, <1>12, InvParts DEF LinksInv, host
<1>14. QED
  BY <1>3, <1>4, <1>11, <1>12, <1>13, ClientKeeps

\* A message that is not an input.
LEMMA AskKeeps ==
  ASSUME ControlsInv, NEW c \in Control \cup {None}, c # None => MeansLife(c, seat),
         NEW kind \in {"suspend", "resume"},
         inbox' \in {inbox, Append(inbox, [type |-> kind])},
         client' \in [connected: BOOLEAN, hidden: BOOLEAN, seq: Nat, control: {c}, asked: Nat],
         told' \in Seq(Control), \A k \in 1..Len(told') : MeansLife(told'[k], seat),
         UNCHANGED <<clock, host, command>>
  PROVE  ControlsInv' /\ Unambiguous
<1>1. /\ inbox \in Seq(Message) /\ announced \in Control /\ linked \in BOOLEAN
      /\ \A k \in 1..Len(inbox) : inbox[k].type = "input" => MeansLife(inbox[k], seat)
  BY InvParts DEF EpochInv, LinksInv
<1>2. [type |-> kind] \in Message /\ [type |-> kind].type # "input"
  BY DEF Message
<1>3. /\ inbox' \in Seq(Message)
      /\ \A k \in 1..Len(inbox') : inbox'[k].type = "input" => MeansLife(inbox'[k], seat)
  BY <1>1, <1>2, SendKeeps
<1>4. LinksInv'
  BY <1>1, <1>3 DEF LinksInv, host
<1>5. client'.control = c
  OBVIOUS
<1>6. QED
  BY <1>3, <1>4, <1>5, ClientKeeps

LEMMA ClientStepsKeep ==
  ASSUME ControlsInv, HearControl \/ Hide \/ Show \/ LoseLink
  PROVE  ControlsInv' /\ Unambiguous
<1>1. /\ client \in [connected: BOOLEAN, hidden: BOOLEAN, seq: Nat, control: Control \cup {None}, asked: Nat]
      /\ told \in Seq(Control) /\ now \in Nat
      /\ client.control # None => MeansLife(client.control, seat)
      /\ \A k \in 1..Len(told) : MeansLife(told[k], seat)
      /\ client.control \in Control \cup {None}
  BY InvParts DEF LinksInv, ClockInv, EpochInv
<1>2. CASE HearControl
  <2> DEFINE control == Head(told)
             asks == control.driver # "human" /\ ~client.hidden /\ now - client.asked > RetryAfter
  <2>1. /\ told # <<>> /\ told' = Tail(told)
        /\ client' = [client EXCEPT !.control = control, !.asked = IF asks THEN now ELSE @]
        /\ inbox' \in {inbox, Append(inbox, [type |-> "resume"])}
        /\ UNCHANGED <<clock, host, command>>
    BY <1>2 DEF HearControl, history
  <2>2. control \in Control /\ MeansLife(control, seat)
    <3>1. 1 \in 1..Len(told) /\ control = told[1]
      BY <1>1, <2>1
    <3>2. QED
      BY <1>1, <3>1
  <2>3. told' \in Seq(Control) /\ \A k \in 1..Len(told') : MeansLife(told'[k], seat)
    <3>1. /\ told' \in Seq(Control)
          /\ \A k \in 1..Len(told') : k + 1 \in 1..Len(told) /\ told'[k] = told[k + 1]
      BY <1>1, <2>1
    <3>2. QED
      BY <1>1, <3>1
  <2> HIDE DEF control
  <2>4. client' \in [connected: BOOLEAN, hidden: BOOLEAN, seq: Nat, control: {control}, asked: Nat]
    BY <1>1, <2>1
  <2>5. QED
    BY <2>1, <2>2, <2>3, <2>4, AskKeeps
<1>3. CASE Hide
  <2>1. /\ client' \in [connected: BOOLEAN, hidden: BOOLEAN, seq: Nat, control: {client.control}, asked: Nat]
        /\ inbox' = Append(inbox, [type |-> "suspend"])
        /\ UNCHANGED <<clock, host, command, told>>
    BY <1>1, <1>3 DEF Hide
  <2>2. QED
    BY <1>1, <2>1, AskKeeps
<1>4. CASE Show
  <2>1. /\ client' \in [connected: BOOLEAN, hidden: BOOLEAN, seq: Nat, control: {client.control}, asked: Nat]
        /\ inbox' = Append(inbox, [type |-> "resume"])
        /\ UNCHANGED <<clock, host, command, told>>
    BY <1>1, <1>4 DEF Show, history
  <2>2. QED
    BY <1>1, <2>1, AskKeeps
<1>5. CASE LoseLink
  <2>1. /\ client' \in [connected: BOOLEAN, hidden: BOOLEAN, seq: Nat, control: {None}, asked: Nat]
        /\ UNCHANGED <<clock, host, command, inbox>> /\ told' = <<>>
    BY <1>1, <1>5 DEF LoseLink
  <2>2. told' \in Seq(Control) /\ Len(told') = 0
    BY <2>1
  <2>3. QED
    BY <2>1, <2>2, AskKeeps
<1>6. QED
  BY <1>2, <1>3, <1>4, <1>5

\* A connected player is told what it does not know.
LEMMA AnnounceIs ==
  ASSUME ControlsInv, NEW s, NEW t, SeatOK(s), TankOK(t), s.life = t.life, Later(seat, s),
         s.epoch = seat.epoch => t.driver = tank.driver,
         linked, Announce(s, t)
  PROVE  /\ announced' = ControlOf(s, t) /\ announced' \in Control
         /\ MeansLife(announced', s) /\ announced'.driver = t.driver
         /\ told' \in Seq(Control) /\ \A k \in 1..Len(told') : MeansLife(told'[k], s)
         /\ Unambiguous
<1> DEFINE c == ControlOf(s, t)
<1>1. /\ announced \in Control /\ told \in Seq(Control) /\ SeatOK(seat)
      /\ MeansLife(announced, seat) /\ (announced.epoch = seat.epoch => announced.driver = tank.driver)
      /\ \A k \in 1..Len(told) : MeansLife(told[k], seat)
  BY InvParts DEF LinksInv, EpochInv
<1>2. c \in Control /\ MeansLife(c, s) /\ c.driver = t.driver /\ c.epoch = s.epoch /\ c.life = t.life
  BY DEF ControlOf, Control, SeatOK, TankOK, MeansLife
<1>3. \A k \in 1..Len(told) : MeansLife(told[k], s)
  <2>1. \A k \in 1..Len(told) : told[k].epoch \in Nat
    <3>1. \A k \in 1..Len(told) : told[k] \in Control
      BY <1>1
    <3>2. QED
      BY <3>1 DEF Control
  <2>2. QED
    BY <1>1, <2>1, MeansLater
<1>4. announced' = c /\ (announced' = announced \/ announced # c)
      /\ told' \in {told, Append(told, c)}
  BY DEF Announce
<1> HIDE DEF c
<1>5. told' \in Seq(Control) /\ \A k \in 1..Len(told') : MeansLife(told'[k], s)
  <2>1. CASE told' = told
    BY <1>1, <1>3, <2>1
  <2>2. CASE told' = Append(told, c)
    <3>1. /\ told' \in Seq(Control)
          /\ \A k \in 1..Len(told') : (k \in 1..Len(told) /\ told'[k] = told[k]) \/ told'[k] = c
      BY <1>1, <1>2, <2>2
    <3>2. QED
      BY <1>2, <1>3, <3>1
  <2>3. QED
    BY <1>4, <2>1, <2>2
<1>6. announced.epoch = c.epoch => announced = c
  <2>1. SUFFICES ASSUME announced.epoch = c.epoch PROVE announced = c
    OBVIOUS
  <2>2. s.epoch \in Nat /\ seat.epoch \in Nat /\ announced.epoch \in Nat
    BY <1>1 DEF SeatOK, Control
  <2>3. s.epoch = seat.epoch /\ s.life = seat.life
    BY <1>1, <1>2, <2>1, <2>2 DEF Later, MeansLife
  <2>4. announced.life = c.life /\ announced.driver = c.driver
    BY <1>1, <1>2, <2>1, <2>3 DEF MeansLife
  <2>5. QED
    BY <1>1, <1>2, <2>1, <2>4 DEF Control
<1>7. QED
  BY <1>2, <1>4, <1>5, <1>6 DEF Unambiguous, c

\* The next message of the connection is taken from its queue.
LEMMA TailKeeps ==
  ASSUME ControlsInv, inbox # <<>>, inbox' = Tail(inbox), NEW s, SeatOK(s), Later(seat, s)
  PROVE  /\ inbox' \in Seq(Message) /\ Head(inbox) \in Message
         /\ Head(inbox).type = "input" => MeansLife(Head(inbox), seat)
         /\ \A k \in 1..Len(inbox') : inbox'[k].type = "input" => MeansLife(inbox'[k], s)
<1>1. /\ inbox \in Seq(Message) /\ SeatOK(seat)
      /\ \A k \in 1..Len(inbox) : inbox[k].type = "input" => MeansLife(inbox[k], seat)
  BY InvParts DEF LinksInv, EpochInv
<1>2. /\ inbox' \in Seq(Message) /\ Head(inbox) = inbox[1] /\ 1 \in 1..Len(inbox)
      /\ \A k \in 1..Len(inbox') : k + 1 \in 1..Len(inbox) /\ inbox'[k] = inbox[k + 1]
  BY <1>1
<1>3. \A k \in 1..Len(inbox) : inbox[k] \in Message
  BY <1>1
<1>4. \A k \in 1..Len(inbox) : inbox[k].type = "input" => inbox[k].epoch \in Nat
  BY <1>3 DEF Message
<1>5. \A k \in 1..Len(inbox) : inbox[k].type = "input" => MeansLife(inbox[k], s)
  BY <1>1, <1>4, MeansLater
<1>6. QED
  BY <1>1, <1>2, <1>3, <1>5

\* The client, whatever the host does to the seat.
LEMMA ClientKnows ==
  ASSUME ControlsInv, NEW s, SeatOK(s), Later(seat, s)
  PROVE  client.control # None => MeansLife(client.control, s)
<1>1. SeatOK(seat) /\ client.control \in Control \cup {None}
      /\ (client.control # None => MeansLife(client.control, seat))
  BY InvParts DEF LinksInv, EpochInv
<1>2. client.control # None => client.control.epoch \in Nat
  BY <1>1 DEF Control
<1>3. QED
  BY <1>1, <1>2, MeansLater

\* The seat is suspended or resumed by a message.
LEMMA ChangeHandsKeeps ==
  ASSUME ControlsInv, left = Idle, linked, UNCHANGED <<clock, linked, client, history>>,
         inbox # <<>>, inbox' = Tail(inbox),
         SeatOK(seat'), TankOK(tank'), DriverInv(seat', tank'), Later(seat, seat'),
         seat'.life = tank'.life, seat'.alive = tank'.alive,
         seat'.epoch = seat.epoch => tank'.driver = tank.driver,
         LifeInv(seat'), TimesInv(seat', tick),
         Announce(seat', tank')
  PROVE  ControlsInv' /\ Unambiguous
<1>1. UNCHANGED <<now, tick, left, linked, client, command>>
  BY DEF clock, history
<1>2. /\ announced' = ControlOf(seat', tank') /\ announced' \in Control
      /\ MeansLife(announced', seat') /\ announced'.driver = tank'.driver
      /\ told' \in Seq(Control) /\ \A k \in 1..Len(told') : MeansLife(told'[k], seat')
      /\ Unambiguous
  BY AnnounceIs
<1>3. /\ inbox' \in Seq(Message)
      /\ \A k \in 1..Len(inbox') : inbox'[k].type = "input" => MeansLife(inbox'[k], seat')
  BY TailKeeps
<1>4. client.control # None => MeansLife(client.control, seat')
  BY ClientKnows
<1>5. command = None
  BY InvParts DEF SettledInv
<1>6. ClockInv' /\ LinksInv'
  BY <1>1, <1>2, <1>3, InvParts DEF ClockInv, LinksInv
<1>7. TankOK(tank)' /\ SeatOK(seat)' /\ DriverInv(seat, tank)' /\ LifeInv(seat)'
  BY DEF TankOK, SeatOK, DriverInv, LifeInv, StandIn
<1>8. TimesInv(seat, tick)'
  BY <1>1 DEF TimesInv, InTime
<1>9. SettledInv' /\ EpochInv'
  BY <1>1, <1>2, <1>3, <1>4, <1>5 DEF SettledInv, EpochInv, MeansLife
<1>10. InputsDriveTheirLife' /\ InputsKeepTheirTime' /\ PlayerKnowsDriver'
  BY <1>1, <1>2, <1>5 DEF InputsDriveTheirLife, InputsKeepTheirTime, PlayerKnowsDriver, ControlOf
<1>11. QED
  BY <1>2, <1>6, <1>7, <1>8, <1>9, <1>10 DEF ControlsInv

LEMMA ReceiveKeeps ==
  ASSUME ControlsInv, Receive
  PROVE  ControlsInv' /\ Unambiguous
<1> DEFINE message == Head(inbox)
           s == Refreshed(seat, tank)
<1>1. /\ linked /\ left = Idle /\ inbox # <<>> /\ inbox' = Tail(inbox)
      /\ UNCHANGED <<clock, linked, client, history>>
  BY DEF Receive
<1>2. /\ SeatOK(seat) /\ TankOK(tank) /\ DriverInv(seat, tank)
      /\ seat.life = tank.life /\ seat.alive = tank.alive
      /\ LifeInv(seat) /\ TimesInv(seat, tick) /\ now \in Nat /\ command = None
  BY <1>1, InvParts DEF SettledInv, ClockInv
<1>3. CASE message.type = "suspend" /\ tank' = SuspendedTank(seat, tank) /\ seat' = Suspended(seat, tank)
           /\ Announce(seat', tank')
  <2>1. /\ SeatOK(seat') /\ TankOK(tank') /\ DriverInv(seat', tank')
        /\ \/ seat' = seat /\ tank' = tank
           \/ NewLife(seat, seat') /\ seat'.life = tank'.life /\ seat'.alive = tank'.alive
    BY <1>2, <1>3, SuspendedIs
  <2>2. CASE seat' = seat /\ tank' = tank
    BY <1>1, <1>2, <1>3, <2>1, <2>2, ChangeHandsKeeps DEF Later
  <2>3. CASE NewLife(seat, seat') /\ seat'.life = tank'.life /\ seat'.alive = tank'.alive
    <3>1. Later(seat, seat') /\ seat'.epoch # seat.epoch
      BY <1>2, <2>3 DEF NewLife, Later, SeatOK
    <3>2. Empty(seat')
      BY <1>2, <2>3 DEF NewLife, Empty, TimesInv
    <3>3. LifeInv(seat') /\ TimesInv(seat', tick)
      BY <3>2, EmptyKeeps
    <3>4. QED
      BY <1>1, <1>3, <2>1, <2>3, <3>1, <3>3, ChangeHandsKeeps
  <2>4. QED
    BY <2>1, <2>2, <2>3
<1>4. CASE message.type = "resume" /\ tank' = ResumedTank(tank) /\ seat' = Resumed(seat, tank)
           /\ Announce(seat', tank')
  <2>1. /\ SeatOK(seat') /\ TankOK(tank') /\ DriverInv(seat', tank')
        /\ seat'.epoch = seat.epoch + 1 /\ seat'.input = None /\ seat'.waiting = <<>>
        /\ seat'.received = now /\ seat'.leaseFrom = now
        /\ seat'.life = tank'.life /\ seat'.alive = tank'.alive
    BY <1>2, <1>4, ResumedIs
  <2>2. Later(seat, seat') /\ seat'.epoch # seat.epoch
    BY <1>2, <2>1 DEF Later, SeatOK
  <2>3. Empty(seat')
    BY <1>2, <2>1, ConstantsAre DEF Empty
  <2>4. LifeInv(seat') /\ TimesInv(seat', tick)
    BY <2>3, EmptyKeeps
  <2>5. QED
    BY <1>1, <1>4, <2>1, <2>2, <2>4, ChangeHandsKeeps
<1>5. CASE /\ message.type = "input"
           /\ seat' = IF Acceptable(Unexpired(s), tank, message)
                        THEN Accepted(Unexpired(s), message) ELSE Unexpired(s)
           /\ UNCHANGED <<tank, announced, told>>
  <2> DEFINE u == Unexpired(s)
  <2>1. s = seat
    BY <1>2 DEF Refreshed
  <2>2. SameButActions(seat, u)
    BY <1>2, <2>1, ActionsChange
  <2>3. SameLife(seat, u) /\ SeatOK(u) /\ LifeInv(u) /\ TimesInv(u, tick)
    BY <1>2, <2>2, ActionsAreApart DEF SameButActions, SameLife
  <2> HIDE DEF u
  <2>4. message \in Message /\ MeansLife(message, seat)
    BY <1>1, <1>2, <1>5, TailKeeps DEF Later
  <2>5. SameLife(seat, seat') /\ SeatOK(seat') /\ LifeInv(seat') /\ TimesInv(seat', tick)
    <3>1. CASE Acceptable(u, tank, message)
      <4>1. message.epoch = u.epoch
        BY <3>1 DEF Acceptable
      <4>2. message.life = u.life
        BY <2>3, <2>4, <4>1 DEF MeansLife, SameLife
      <4>3. seat' = Accepted(u, message)
        BY <1>5, <3>1 DEF u
      <4>4. SameLife(u, seat') /\ LifeInv(seat') /\ TimesInv(seat', tick)
        BY <1>2, <1>5, <2>3, <2>4, <4>2, <4>3, AcceptedIs, ConstantsAre
      <4>5. QED
        BY <2>3, <4>4 DEF SameLife
    <3>2. CASE ~Acceptable(u, tank, message)
      BY <1>5, <2>3, <3>2 DEF u
    <3>3. QED
      BY <3>1, <3>2
  <2>6. Later(seat, seat')
    BY <2>5 DEF SameLife, Later
  <2>7. /\ inbox' \in Seq(Message)
        /\ \A k \in 1..Len(inbox') : inbox'[k].type = "input" => MeansLife(inbox'[k], seat')
    BY <1>1, <2>5, <2>6, TailKeeps
  <2>8. UNCHANGED <<now, tick, left, linked, client, command, tank, announced, told>>
    BY <1>1, <1>5 DEF clock, history
  <2>9. ClockInv' /\ LinksInv'
    BY <2>7, <2>8, InvParts DEF ClockInv, LinksInv
  <2>10. TankOK(tank)' /\ SeatOK(seat)' /\ DriverInv(seat, tank)' /\ LifeInv(seat)'
    BY <1>2, <2>5, <2>8 DEF TankOK, SeatOK, DriverInv, LifeInv, StandIn, SameLife
  <2>11. TimesInv(seat, tick)'
    BY <2>5, <2>8 DEF TimesInv, InTime
  <2>12. SettledInv'
    BY <1>2, <2>5, <2>8 DEF SettledInv, SameLife
  <2>13. EpochInv'
    BY <2>5, <2>7, <2>8, InvParts DEF EpochInv, MeansLife, SameLife
  <2>14. InputsDriveTheirLife' /\ InputsKeepTheirTime' /\ PlayerKnowsDriver'
    BY <1>2, <2>5, <2>8, InvParts
       DEF InputsDriveTheirLife, InputsKeepTheirTime, PlayerKnowsDriver, ControlOf, SameLife
  <2>15. QED
    BY <2>8, <2>9, <2>10, <2>11, <2>12, <2>13, <2>14 DEF ControlsInv, Unambiguous
<1>6. QED
  BY <1>3, <1>4, <1>5 DEF Receive

\* Whatever was said of the seat's epochs holds of the seat later.
LEMMA HeardLater ==
  ASSUME ControlsInv, NEW s, SeatOK(s), Later(seat, s)
  PROVE  /\ MeansLife(announced, s)
         /\ \A k \in 1..Len(told) : MeansLife(told[k], s)
         /\ \A k \in 1..Len(inbox) : inbox[k].type = "input" => MeansLife(inbox[k], s)
<1>1. /\ announced \in Control /\ told \in Seq(Control) /\ inbox \in Seq(Message) /\ SeatOK(seat)
      /\ MeansLife(announced, seat)
      /\ \A k \in 1..Len(told) : MeansLife(told[k], seat)
      /\ \A k \in 1..Len(inbox) : inbox[k].type = "input" => MeansLife(inbox[k], seat)
  BY InvParts DEF LinksInv, EpochInv
<1>2. /\ \A k \in 1..Len(told) : told[k] \in Control
      /\ \A k \in 1..Len(inbox) : inbox[k] \in Message
  BY <1>1
<1>3. announced.epoch \in Nat /\ \A k \in 1..Len(told) : told[k].epoch \in Nat
  BY <1>1, <1>2 DEF Control
<1>4. \A k \in 1..Len(inbox) : inbox[k].type = "input" => inbox[k].epoch \in Nat
  BY <1>2 DEF Message
<1>5. MeansLife(announced, s)
  BY <1>1, <1>3, MeansLater
<1>6. \A k \in 1..Len(told) : MeansLife(told[k], s)
  BY <1>1, <1>3, MeansLater
<1>7. \A k \in 1..Len(inbox) : inbox[k].type = "input" => MeansLife(inbox[k], s)
  BY <1>1, <1>4, MeansLater
<1>8. QED
  BY <1>5, <1>6, <1>7

LEMMA LinkLostKeeps ==
  ASSUME ControlsInv, LinkLost
  PROVE  ControlsInv' /\ Unambiguous
<1>1. /\ left = Idle /\ ~linked' /\ linked' \in BOOLEAN /\ inbox' = <<>>
      /\ tank' = SuspendedTank(seat, tank) /\ seat' = Suspended(seat, tank)
      /\ UNCHANGED <<now, tick, left, announced, told, client, command>>
  BY DEF LinkLost, clock, history
<1>2. /\ SeatOK(seat) /\ TankOK(tank) /\ DriverInv(seat, tank)
      /\ seat.life = tank.life /\ seat.alive = tank.alive
      /\ LifeInv(seat) /\ TimesInv(seat, tick) /\ now \in Nat /\ command = None
      /\ announced.epoch = seat.epoch => announced.driver = tank.driver
      /\ announced \in Control /\ MeansLife(announced, seat)
  BY <1>1, InvParts DEF SettledInv, ClockInv, EpochInv, LinksInv
<1>3. /\ SeatOK(seat') /\ TankOK(tank') /\ DriverInv(seat', tank')
      /\ \/ seat' = seat /\ tank' = tank
         \/ NewLife(seat, seat') /\ seat'.life = tank'.life /\ seat'.alive = tank'.alive
  BY <1>1, <1>2, SuspendedIs
<1>4. /\ Later(seat, seat') /\ seat'.life = tank'.life /\ seat'.alive = tank'.alive
      /\ LifeInv(seat') /\ TimesInv(seat', tick)
      /\ announced.epoch = seat'.epoch => announced.driver = tank'.driver
  <2>1. CASE seat' = seat /\ tank' = tank
    BY <1>2, <2>1 DEF Later
  <2>2. CASE NewLife(seat, seat') /\ seat'.life = tank'.life /\ seat'.alive = tank'.alive
    <3>1. Later(seat, seat') /\ announced.epoch # seat'.epoch
      BY <1>2, <2>2 DEF NewLife, Later, SeatOK, Control, MeansLife
    <3>2. Empty(seat')
      BY <1>2, <2>2 DEF NewLife, Empty, TimesInv
    <3>3. LifeInv(seat') /\ TimesInv(seat', tick)
      BY <3>2, EmptyKeeps
    <3>4. QED
      BY <2>2, <3>1, <3>3
  <2>3. QED
    BY <1>3, <2>1, <2>2
<1>5. /\ MeansLife(announced, seat') /\ \A k \in 1..Len(told) : MeansLife(told[k], seat')
      /\ client.control # None => MeansLife(client.control, seat')
  BY <1>3, <1>4, HeardLater, ClientKnows
<1>6. ClockInv' /\ LinksInv'
  BY <1>1, InvParts DEF ClockInv, LinksInv
<1>7. TankOK(tank)' /\ SeatOK(seat)' /\ DriverInv(seat, tank)' /\ LifeInv(seat)'
  BY <1>3, <1>4 DEF TankOK, SeatOK, DriverInv, LifeInv, StandIn
<1>8. TimesInv(seat, tick)'
  BY <1>1, <1>4 DEF TimesInv, InTime
<1>9. SettledInv' /\ EpochInv'
  BY <1>1, <1>2, <1>4, <1>5 DEF SettledInv, EpochInv, MeansLife
<1>10. InputsDriveTheirLife' /\ InputsKeepTheirTime' /\ PlayerKnowsDriver'
  BY <1>1, <1>2 DEF InputsDriveTheirLife, InputsKeepTheirTime, PlayerKnowsDriver
<1>11. QED
  BY <1>1, <1>6, <1>7, <1>8, <1>9, <1>10 DEF ControlsInv, Unambiguous

LEMMA RejoinKeeps ==
  ASSUME ControlsInv, Rejoin
  PROVE  ControlsInv' /\ Unambiguous
<1>1. /\ left = Idle /\ linked' = TRUE /\ inbox' = <<>>
      /\ tank' = ResumedTank(tank) /\ seat' = Resumed(seat, tank)
      /\ announced' = ControlOf(seat', tank') /\ told' = <<announced'>>
      /\ client' = [client EXCEPT !.connected = TRUE]
      /\ UNCHANGED <<now, tick, left, command>>
  BY DEF Rejoin, clock, history
<1>2. /\ SeatOK(seat) /\ TankOK(tank) /\ now \in Nat /\ command = None
      /\ announced \in Control /\ MeansLife(announced, seat)
      /\ client \in [connected: BOOLEAN, hidden: BOOLEAN, seq: Nat, control: Control \cup {None},
                     asked: Nat]
  BY <1>1, InvParts DEF SettledInv, ClockInv, EpochInv, LinksInv
<1>3. /\ SeatOK(seat') /\ TankOK(tank') /\ DriverInv(seat', tank')
      /\ seat'.epoch = seat.epoch + 1 /\ seat'.input = None /\ seat'.waiting = <<>>
      /\ seat'.received = now /\ seat'.leaseFrom = now
      /\ seat'.life = tank'.life /\ seat'.alive = tank'.alive
  BY <1>1, <1>2, ResumedIs
<1>4. Later(seat, seat')
  BY <1>2, <1>3 DEF Later, SeatOK
<1>5. Empty(seat')
  BY <1>2, <1>3, ConstantsAre DEF Empty
<1>6. LifeInv(seat') /\ TimesInv(seat', tick)
  BY <1>5, EmptyKeeps
<1>7. /\ announced' \in Control /\ announced'.epoch = seat'.epoch /\ announced'.life = seat'.life
      /\ announced'.driver = tank'.driver
  BY <1>1, <1>3 DEF ControlOf, Control, SeatOK, TankOK
<1>8. MeansLife(announced', seat')
  BY <1>3, <1>7 DEF MeansLife, SeatOK
<1>9. told' \in Seq(Control) /\ \A k \in 1..Len(told') : MeansLife(told'[k], seat')
  BY <1>1, <1>7, <1>8
<1>10. client.control # None => MeansLife(client.control, seat')
  BY <1>3, <1>4, ClientKnows
<1>11. client'.control = client.control
       /\ client' \in [connected: BOOLEAN, hidden: BOOLEAN, seq: Nat, control: Control \cup {None},
                       asked: Nat]
  BY <1>1, <1>2
<1>12. ClockInv' /\ LinksInv'
  BY <1>1, <1>7, <1>9, <1>11, InvParts DEF ClockInv, LinksInv
<1>13. TankOK(tank)' /\ SeatOK(seat)' /\ DriverInv(seat, tank)' /\ LifeInv(seat)'
  BY <1>3, <1>6 DEF TankOK, SeatOK, DriverInv, LifeInv, StandIn
<1>14. TimesInv(seat, tick)'
  BY <1>1, <1>6 DEF TimesInv, InTime
<1>15. SettledInv' /\ EpochInv'
  BY <1>1, <1>2, <1>3, <1>7, <1>8, <1>9, <1>10, <1>11 DEF SettledInv, EpochInv, MeansLife
<1>16. InputsDriveTheirLife' /\ InputsKeepTheirTime' /\ PlayerKnowsDriver'
  BY <1>1, <1>2 DEF InputsDriveTheirLife, InputsKeepTheirTime, PlayerKnowsDriver, ControlOf
<1>17. Unambiguous
  BY <1>2, <1>3, <1>7 DEF Unambiguous, MeansLife, SeatOK, Control
<1>18. QED
  BY <1>12, <1>13, <1>14, <1>15, <1>16, <1>17 DEF ControlsInv

\* The host's time and its callbacks.
LEMMA ClockKeeps ==
  ASSUME ControlsInv, Begin \/ Pass
  PROVE  ControlsInv' /\ Unambiguous
<1>1. /\ now \in Nat /\ tick \in Nat /\ tick <= now /\ left = Idle
      /\ UNCHANGED <<tick, tank, seat, linked, announced, inbox, told, client, command>>
      /\ command = None
  BY InvParts DEF Begin, Pass, ClockInv, host, links, history, SettledInv
<1>2. now' \in Nat /\ now <= now' /\ ClockInv'
  <2>1. CASE Begin
    <3>1. now' = now /\ left' = Smaller(now - tick, MaxSteps)
      BY <2>1 DEF Begin
    <3>2. QED
      BY <1>1, <3>1, ConstantsAre DEF ClockInv, Smaller, Idle
  <2>2. CASE Pass
    <3>1. now' = now + 1 /\ left' = left
      BY <2>2 DEF Pass
    <3>2. QED
      BY <1>1, <3>1 DEF ClockInv, Idle
  <2>3. QED
    BY <2>1, <2>2
<1>3. /\ LinksInv' /\ TankOK(tank)' /\ SeatOK(seat)' /\ DriverInv(seat, tank)' /\ SettledInv'
      /\ EpochInv' /\ LifeInv(seat)'
  BY <1>1, InvParts
     DEF LinksInv, TankOK, SeatOK, DriverInv, SettledInv, EpochInv, MeansLife, LifeInv, StandIn
<1>4. TimesInv(seat, tick)'
  <2>1. TimesInv(seat, tick) /\ SeatOK(seat)
    BY InvParts
  <2>2. \A k \in 1..Len(seat.waiting) : seat.waiting[k].arrival \in Nat
    <3>1. \A k \in 1..Len(seat.waiting) : seat.waiting[k] \in Queueable
      BY <2>1 DEF SeatOK
    <3>2. QED
      BY <3>1 DEF Queueable
  <2>3. \A k \in 1..Len(seat.waiting) : InTime(seat.waiting[k], seat)'
    BY <1>1, <1>2, <2>1, <2>2 DEF InTime, TimesInv
  <2>4. seat'.received <= now' /\ seat'.leaseFrom <= seat'.received + MaxLead
    BY <1>1, <1>2, <2>1 DEF TimesInv, SeatOK
  <2>5. QED
    BY <1>1, <2>1, <2>3, <2>4 DEF TimesInv
<1>5. PlayerKnowsDriver'
  BY <1>1, InvParts DEF PlayerKnowsDriver, ControlOf
<1>6. InputsDriveTheirLife' /\ InputsKeepTheirTime'
  BY <1>1 DEF InputsDriveTheirLife, InputsKeepTheirTime
<1>7. QED
  BY <1>1, <1>2, <1>3, <1>4, <1>5, <1>6 DEF ControlsInv, Unambiguous

\* The seat takes notice of what became of its tank.
LEMMA RefreshKeeps ==
  ASSUME ControlsInv, NEW s, s = Refreshed(seat, tank)
  PROVE  /\ SeatOK(s) /\ s.life = tank.life /\ s.alive = tank.alive /\ s.suspended = seat.suspended
         /\ Later(seat, s) /\ DriverInv(s, tank) /\ LifeInv(s) /\ TimesInv(s, tick)
         /\ s.received = seat.received
         /\ announced.epoch = s.epoch => announced.driver = tank.driver
<1>1. /\ SeatOK(seat) /\ TankOK(tank) /\ DriverInv(seat, tank)
      /\ LifeInv(seat) /\ TimesInv(seat, tick)
      /\ announced.epoch = seat.epoch => announced.driver = tank.driver
      /\ announced \in Control /\ MeansLife(announced, seat)
  BY InvParts DEF EpochInv, LinksInv
<1>2. /\ SeatOK(s) /\ s.life = tank.life /\ s.alive = tank.alive /\ s.suspended = seat.suspended
      /\ s = seat \/ NewLife(seat, s)
  BY <1>1, RefreshedIs
<1>3. DriverInv(s, tank)
  BY <1>1, <1>2 DEF DriverInv
<1>4. CASE s = seat
  BY <1>1, <1>2, <1>3, <1>4 DEF Later
<1>5. CASE NewLife(seat, s)
  <2>1. Later(seat, s) /\ announced.epoch # s.epoch
    BY <1>1, <1>5 DEF NewLife, Later, SeatOK, Control, MeansLife
  <2>2. Empty(s) /\ s.received = seat.received
    BY <1>1, <1>5 DEF NewLife, Empty, TimesInv
  <2>3. LifeInv(s) /\ TimesInv(s, tick)
    BY <2>2, EmptyKeeps
  <2>4. QED
    BY <1>2, <1>3, <2>1, <2>2, <2>3
<1>6. QED
  BY <1>2, <1>4, <1>5

LEMMA EndKeeps ==
  ASSUME ControlsInv, End
  PROVE  ControlsInv' /\ Unambiguous
<1>1. /\ left = 0 /\ left' = Idle /\ seat' = Refreshed(seat, tank) /\ Announce(seat', tank)
      /\ command' = None
      /\ UNCHANGED <<now, tick, tank, linked, inbox, client>>
  BY DEF End
<1>2. /\ SeatOK(seat') /\ seat'.life = tank.life /\ seat'.alive = tank.alive
      /\ Later(seat, seat') /\ DriverInv(seat', tank) /\ LifeInv(seat') /\ TimesInv(seat', tick)
      /\ announced.epoch = seat'.epoch => announced.driver = tank.driver
  BY <1>1, RefreshKeeps
<1>3. TankOK(tank)
  BY InvParts
<1>4. /\ announced' \in Control /\ MeansLife(announced', seat')
      /\ announced'.epoch = seat'.epoch => announced'.driver = tank.driver
      /\ linked => announced' = ControlOf(seat', tank)
      /\ told' \in Seq(Control) /\ \A k \in 1..Len(told') : MeansLife(told'[k], seat')
      /\ Unambiguous
  <2>1. CASE linked
    BY <1>1, <1>2, <1>3, <2>1, AnnounceIs
  <2>2. CASE ~linked
    <3>1. announced' = announced /\ told' = told
      BY <1>1, <2>2 DEF Announce
    <3>2. announced \in Control /\ told \in Seq(Control)
      BY InvParts DEF LinksInv
    <3>3. MeansLife(announced, seat') /\ \A k \in 1..Len(told) : MeansLife(told[k], seat')
      BY <1>2, HeardLater
    <3>4. QED
      BY <1>2, <2>2, <3>1, <3>2, <3>3 DEF Unambiguous
  <2>3. QED
    BY <2>1, <2>2
<1>5. /\ client.control # None => MeansLife(client.control, seat')
      /\ \A k \in 1..Len(inbox) : inbox[k].type = "input" => MeansLife(inbox[k], seat')
  BY <1>2, ClientKnows, HeardLater
<1>6. ClockInv' /\ LinksInv'
  BY <1>1, <1>4, InvParts DEF ClockInv, LinksInv, Idle
<1>7. TankOK(tank)' /\ SeatOK(seat)' /\ DriverInv(seat, tank)' /\ LifeInv(seat)'
  BY <1>1, <1>2, <1>3 DEF TankOK, SeatOK, DriverInv, LifeInv, StandIn
<1>8. TimesInv(seat, tick)'
  BY <1>1, <1>2 DEF TimesInv, InTime
<1>9. SettledInv' /\ EpochInv'
  BY <1>1, <1>2, <1>4, <1>5 DEF SettledInv, EpochInv, MeansLife
<1>10. InputsDriveTheirLife' /\ InputsKeepTheirTime' /\ PlayerKnowsDriver'
  BY <1>1, <1>4 DEF InputsDriveTheirLife, InputsKeepTheirTime, PlayerKnowsDriver, ControlOf
<1>11. QED
  BY <1>4, <1>6, <1>7, <1>8, <1>9, <1>10 DEF ControlsInv

\* The simulation kills a tank or brings it back; it does not change its driver.
LEMMA SimulatedIs ==
  ASSUME NEW t, TankOK(t), NEW u \in Simulated(t)
  PROVE  TankOK(u) /\ u.driver = t.driver
<1>1. t.life + 1 \in Nat /\ t.driver \in {"human", "bot", "idle"}
      /\ t.away \in BOOLEAN /\ t.bot \in BOOLEAN /\ t.life \in Nat
  BY DEF TankOK
<1>2. CASE u = t
  BY <1>2
<1>3. CASE u = [t EXCEPT !.alive = FALSE, !.life = @ + 1]
  BY <1>1, <1>3 DEF TankOK
<1>4. CASE u = [t EXCEPT !.alive = TRUE]
  BY <1>1, <1>4 DEF TankOK
<1>5. QED
  BY <1>2, <1>3, <1>4 DEF Simulated

\* The seat and the tank once a silent player's tank has gone to a stand-in.
Silent(u) == ~u.suspended /\ now - u.received >= BotTakeover
Minded(u) == IF Silent(u) THEN Suspended(u, tank) ELSE u
MindedTank(u) == IF Silent(u) THEN SuspendedTank(u, tank) ELSE tank

LEMMA MindedIs ==
  ASSUME ControlsInv, NEW u, u = Refreshed(seat, tank), NEW s, s = Minded(u),
         NEW t, t = MindedTank(u)
  PROVE  /\ SeatOK(s) /\ TankOK(t) /\ DriverInv(s, t) /\ s.life = t.life
         /\ Later(seat, s) /\ LifeInv(s) /\ TimesInv(s, tick)
         /\ announced.epoch = s.epoch => announced.driver = t.driver
<1>1. /\ SeatOK(u) /\ u.life = tank.life /\ u.alive = tank.alive /\ u.suspended = seat.suspended
      /\ Later(seat, u) /\ DriverInv(u, tank) /\ LifeInv(u) /\ TimesInv(u, tick)
      /\ announced.epoch = u.epoch => announced.driver = tank.driver
  BY RefreshKeeps
<1>2. TankOK(tank) /\ SeatOK(seat) /\ announced \in Control
  BY InvParts DEF LinksInv
<1>3. CASE ~Silent(u)
  BY <1>1, <1>2, <1>3 DEF Minded, MindedTank
<1>4. CASE Silent(u)
  <2>1. s = Suspended(u, tank) /\ t = SuspendedTank(u, tank) /\ ~u.suspended
    BY <1>4 DEF Minded, MindedTank, Silent
  <2>2. /\ SeatOK(s) /\ TankOK(t) /\ DriverInv(s, t) /\ NewLife(u, s) /\ s.life = t.life
    BY <1>1, <1>2, <2>1, SuspendedIs
  <2>3. MeansLife(announced, u)
    BY <1>1, HeardLater
  <2>4. Later(seat, s) /\ announced.epoch # s.epoch
    BY <1>1, <1>2, <2>2, <2>3, SMTT(30) DEF NewLife, Later, SeatOK, Control, MeansLife
  <2>5. Empty(s)
    BY <1>1, <2>2 DEF NewLife, Empty, TimesInv
  <2>6. LifeInv(s) /\ TimesInv(s, tick)
    BY <2>5, EmptyKeeps
  <2>7. QED
    BY <2>2, <2>4, <2>6
<1>5. QED
  BY <1>3, <1>4

\* What a tick does to the seat, and the command its inputs give.
LEMMA TickIs ==
  ASSUME StepTick, NEW s, s = Minded(Refreshed(seat, tank)),
         NEW t, t = MindedTank(Refreshed(seat, tank)),
         NEW due, due = Unexpired(TakenOver(s, tick'))
  PROVE  /\ left > 0 /\ left' = left - 1 /\ tick' = tick + 1
         /\ tank' \in Simulated(t)
         /\ UNCHANGED <<now, linked, announced, inbox, told, client>>
         /\ \/ seat' = s /\ command' = None
            \/ seat' = [due EXCEPT !.actions = <<>>] /\ command' = None
            \/ /\ ~s.suspended /\ t.driver # "bot" /\ t.alive /\ Leased(due)
               /\ seat' = Drive(due, tick') /\ command' = Held(due, t, tick')
BY DEF StepTick, Minded, MindedTank, Silent, links

LEMMA StepTickKeeps ==
  ASSUME ControlsInv, StepTick
  PROVE  ControlsInv' /\ Unambiguous
<1>1. PICK s : s = Minded(Refreshed(seat, tank))
  OBVIOUS
<1>2. PICK t : t = MindedTank(Refreshed(seat, tank))
  OBVIOUS
<1>3. PICK n : n = tick + 1
  OBVIOUS
<1>4. PICK taken : taken = TakenOver(s, n)
  OBVIOUS
<1>5. PICK due : due = Unexpired(taken)
  OBVIOUS
<1>6. /\ left > 0 /\ left' = left - 1 /\ tick' = n
      /\ tank' \in Simulated(t)
      /\ UNCHANGED <<now, linked, announced, inbox, told, client>>
      /\ \/ seat' = s /\ command' = None
         \/ seat' = [due EXCEPT !.actions = <<>>] /\ command' = None
         \/ /\ ~s.suspended /\ t.driver # "bot" /\ t.alive /\ Leased(due)
            /\ seat' = Drive(due, n) /\ command' = Held(due, t, n)
  <2>1. tick' = n
    BY <1>3 DEF StepTick
  <2>2. due = Unexpired(TakenOver(s, tick'))
    BY <1>4, <1>5, <2>1
  <2>3. QED
    BY <1>1, <1>2, <2>1, <2>2, TickIs
<1>7. /\ SeatOK(s) /\ TankOK(t) /\ DriverInv(s, t) /\ s.life = t.life
      /\ Later(seat, s) /\ LifeInv(s) /\ TimesInv(s, tick)
      /\ announced.epoch = s.epoch => announced.driver = t.driver
  BY <1>1, <1>2, MindedIs
<1>8. /\ now \in Nat /\ tick \in Nat /\ n \in Nat /\ tick <= n /\ left \in Int /\ left <= now - tick
  BY <1>3, InvParts DEF ClockInv
<1>9. SameLife(s, taken) /\ LifeInv(taken) /\ TimesInv(taken, n)
  BY <1>4, <1>7, <1>8, ConstantsAre, TakenOverIs
<1>10. SameLife(s, due) /\ LifeInv(due) /\ TimesInv(due, n)
  <2>1. SeatOK(taken) /\ SameButActions(taken, due)
    BY <1>5, <1>9, ActionsChange DEF SameLife
  <2>2. LifeInv(due) /\ TimesInv(due, n)
    BY <1>9, <2>1, ActionsAreApart
  <2>3. QED
    BY <1>9, <2>1, <2>2 DEF SameLife, SameButActions
<1>11. SameLife(s, seat') /\ LifeInv(seat') /\ TimesInv(seat', n)
       /\ (command' # None => seat'.received = due.received)
  <2>1. SeatOK(due)
    BY <1>10 DEF SameLife
  <2>2. CASE seat' = s /\ command' = None
    <3>1. TimesInv(s, n)
      BY <1>7, <1>8, ConstantsAre, TimesLater
    <3>2. QED
      BY <1>7, <2>2, <3>1 DEF SameLife
  <2>3. CASE SameButActions(due, seat')
    <3>1. LifeInv(seat') /\ TimesInv(seat', n)
      BY <1>10, <2>1, <2>3, ActionsAreApart
    <3>2. QED
      BY <1>10, <2>3, <3>1 DEF SameLife, SameButActions
  <2>4. QED
    BY <1>6, <2>1, <2>2, <2>3, ActionsChange
<1>12. TankOK(tank') /\ tank'.driver = t.driver
  BY <1>6, <1>7, SimulatedIs
<1>13. SeatOK(seat') /\ Later(seat, seat') /\ seat'.epoch = s.epoch /\ seat'.suspended = s.suspended
  BY <1>7, <1>11 DEF SameLife, Later
<1>14. /\ MeansLife(announced, seat') /\ \A k \in 1..Len(told) : MeansLife(told[k], seat')
       /\ client.control # None => MeansLife(client.control, seat')
       /\ \A k \in 1..Len(inbox) : inbox[k].type = "input" => MeansLife(inbox[k], seat')
  BY <1>13, ClientKnows, HeardLater
<1>15. left' \in Int /\ left' >= 0 /\ left' # Idle /\ left' <= now - n
  BY <1>3, <1>6, <1>8 DEF Idle
<1>16. ClockInv' /\ LinksInv'
  <2>1. ClockInv'
    BY <1>6, <1>8, <1>15 DEF ClockInv, Idle
  <2>2. LinksInv'
    BY <1>6, InvParts DEF LinksInv
  <2>3. QED
    BY <2>1, <2>2
<1>17. TankOK(tank)' /\ SeatOK(seat)' /\ DriverInv(seat, tank)' /\ LifeInv(seat)'
  BY <1>7, <1>11, <1>12, <1>13 DEF TankOK, SeatOK, DriverInv, LifeInv, StandIn
<1>18. TimesInv(seat, tick)'
  BY <1>6, <1>11 DEF TimesInv, InTime
<1>19. SettledInv' /\ PlayerKnowsDriver'
  BY <1>15 DEF SettledInv, PlayerKnowsDriver
<1>20. EpochInv'
  <2>1. announced'.epoch = seat'.epoch => announced'.driver = tank'.driver
    BY <1>6, <1>7, <1>12, <1>13
  <2>2. QED
    BY <1>6, <1>14, <2>1 DEF EpochInv, MeansLife
<1>21. InputsDriveTheirLife' /\ InputsKeepTheirTime'
  <2>1. CASE command' = None
    BY <2>1 DEF InputsDriveTheirLife, InputsKeepTheirTime
  <2>2. CASE command' # None
    <3>1. /\ ~s.suspended /\ t.driver # "bot" /\ t.alive /\ Leased(due)
          /\ seat' = Drive(due, n) /\ command' = Held(due, t, n)
      BY <1>6, <2>2
    <3>2. /\ command'.alive = t.alive /\ command'.driver = t.driver /\ command'.life = t.life
          /\ command'.meant = due.input.life /\ command'.tick = n
          /\ command'.arrival = due.arrival /\ command'.asked = due.input.asked
      BY <3>1 DEF Held
    <3>3. t.driver = "human"
      BY <1>7, <3>1 DEF DriverInv
    <3>4. due.input # None /\ now - due.leaseFrom < Lease
      BY <3>1 DEF Leased
    <3>5. due.input.life = t.life
      BY <1>7, <1>10, <3>4 DEF LifeInv, SameLife
    <3>6. InputsDriveTheirLife'
      BY <3>1, <3>2, <3>3, <3>5 DEF InputsDriveTheirLife
    <3>7. due.arrival <= n /\ Smaller(due.input.asked, due.arrival + MaxLead) <= n
      BY <1>10, <3>4 DEF TimesInv
    <3>8. n >= due.arrival
      BY <1>8, <1>10, <3>7 DEF SameLife, SeatOK
    <3>9. n >= Smaller(due.input.asked, due.arrival + MaxLead)
      BY <3>7
    <3>10. now < due.received + Lease + MaxLead
      <4>1. due.leaseFrom <= due.received + MaxLead /\ due.leaseFrom \in Nat /\ due.received \in Nat
        BY <1>10 DEF TimesInv, SameLife, SeatOK
      <4>2. QED
        BY <1>8, <3>4, <4>1, ConstantsAre
    <3>11. now' < seat'.received + Lease + MaxLead
      BY <1>6, <1>11, <2>2, <3>10
    <3>12. InputsKeepTheirTime'
      BY <3>2, <3>8, <3>9, <3>11 DEF InputsKeepTheirTime, Smaller
    <3>13. QED
      BY <3>6, <3>12
  <2>3. QED
    BY <2>1, <2>2
<1>22. QED
  BY <1>6, <1>16, <1>17, <1>18, <1>19, <1>20, <1>21 DEF ControlsInv, Unambiguous

LEMMA ControlsNext == ControlsInv /\ [Next]_vars => ControlsInv' /\ Unambiguous
<1>1. SUFFICES ASSUME ControlsInv, [Next]_vars PROVE ControlsInv' /\ Unambiguous
  OBVIOUS
<1>2. CASE UNCHANGED vars
  <2>1. UNCHANGED <<clock, host, command, inbox, told, client>>
    BY <1>2 DEF vars, links, history
  <2>2. LinksInv'
    BY <1>1, <2>1, InvParts DEF LinksInv, host
  <2>3. EpochInv
    BY <1>1, InvParts
  <2>4. QED
    BY <1>1, <2>1, <2>2, <2>3, ClientKeeps DEF EpochInv
<1>3. CASE Next
  BY <1>1, <1>3, SendInputKeeps, ClientStepsKeep, ReceiveKeeps, LinkLostKeeps, RejoinKeeps,
     ClockKeeps, StepTickKeeps, EndKeeps DEF Next
<1>4. QED
  BY <1>1, <1>2, <1>3

LEMMA ControlsAlways == Spec => []ControlsInv
<1>1. ControlsInv /\ [Next]_vars => ControlsInv'
  BY ControlsNext
<1>2. QED
  BY <1>1, ControlsInit, PTL DEF Spec

-----------------------------------------------------------------------------
(* The promises.                                                           *)

\* An input never moves a tank that is dead, that somebody else drives, or
\* that lives another life than its player meant (command,
\* core/src/net/player_controls.rs), however late the input arrives.
THEOREM LivesAlways == Spec => []InputsDriveTheirLife
<1>1. ControlsInv => InputsDriveTheirLife
  BY InvParts
<1>2. QED
  BY <1>1, ControlsAlways, PTL

\* No input drives a tick before the first it could have driven or before the
\* one it asked for, nor one after the lease of a player who has fallen silent.
THEOREM TimesAlways == Spec => []InputsKeepTheirTime
<1>1. ControlsInv => InputsKeepTheirTime
  BY InvParts
<1>2. QED
  BY <1>1, ControlsAlways, PTL

\* Between callbacks a connected player has been told which life of the tank is
\* driven by whom (send_control).
THEOREM DriverAlways == Spec => []PlayerKnowsDriver
<1>1. ControlsInv => PlayerKnowsDriver
  BY InvParts
<1>2. QED
  BY <1>1, ControlsAlways, PTL

\* A control epoch never means a second life or a second driver, for any
\* sequence of deaths, respawns, stand-ins and returns.
THEOREM EpochsAlways == Spec => EpochsAreUnambiguous
<1>1. ControlsInv /\ [Next]_vars => [announced'.epoch = announced.epoch => announced' = announced]_vars
  BY ControlsNext DEF Unambiguous
<1>2. QED
  BY <1>1, ControlsAlways, PTL DEF Spec, EpochsAreUnambiguous

\* A press of fire that a newer input overtook within its tick still fires
\* (command).
THEOREM FireAlways == Spec => PressesFire
<1> DEFINE Heeds ==
      (command' # None /\ left' # left)
        => \A k \in 1..Len(seat.waiting) :
             (seat.waiting[k].fire /\ seat.waiting[k].tick <= tick') => command'.fires
<1>1. ControlsInv /\ [Next]_vars => [Heeds]_vars
  <2>1. SUFFICES ASSUME ControlsInv, Next, command' # None, left' # left,
                        NEW k \in 1..Len(seat.waiting), seat.waiting[k].fire,
                        seat.waiting[k].tick <= tick'
                 PROVE  command'.fires
    OBVIOUS
  <2>2. StepTick
    <3>1. left = Idle => command = None
      BY <2>1, InvParts DEF SettledInv
    <3>2. QED
      BY <2>1, <3>1 DEF Next, SendInput, HearControl, Hide, Show, LoseLink, Receive, LinkLost, Rejoin,
           Begin, Pass, End, clock, history
  <2>3. PICK s : s = Minded(Refreshed(seat, tank))
    OBVIOUS
  <2>4. PICK t : t = MindedTank(Refreshed(seat, tank))
    OBVIOUS
  <2>5. PICK due : due = Unexpired(TakenOver(s, tick'))
    OBVIOUS
  <2>6. command' = Held(due, t, tick')
    BY <2>1, <2>2, <2>3, <2>4, <2>5, TickIs
  <2>7. command'.fires = Fires(due, tick')
    BY <2>6 DEF Held
  <2>8. QED
    BY <2>1, <2>7 DEF Fires
<1>2. QED
  BY <1>1, ControlsAlways, PTL DEF Spec, PressesFire
=============================================================================
