-------------------------- MODULE SeatTanksProofs --------------------------
(***************************************************************************)
(* Proofs that kills and scores go to whoever drove, for any players,      *)
(* slots, teams, rounds and lives.                                         *)
(***************************************************************************)
EXTENDS SeatTanksProperties, FiniteSetTheorems, TLAPS

-----------------------------------------------------------------------------
(* The inductive invariant.                                                *)

Person == Players \cup {Nobody}

Seat ==
  [slot : Slots, tank : Slots \cup {NoTank}, out : BOOLEAN, away : BOOLEAN, kills : Nat, deaths : Nat]

Tank ==
  [player : Person, human : BOOLEAN, bot : BOOLEAN, away : BOOLEAN, driver : {"human", "bot"},
   life : Nat \ {0}, alive : BOOLEAN, kills : Nat, deaths : Nat]

Score == [kills : Nat, deaths : Nat]

SeatsTyped ==
  /\ phase \in {"lobby", "playing", "results", "failed"} /\ round \in Nat
  /\ phase = "playing" => Built
  /\ Seated \subseteq Players /\ \A p \in Seated : seats[p] \in Seat

TanksTyped ==
  /\ DOMAIN tanks = IF Built THEN Slots ELSE {}
  /\ DOMAIN drivers = DOMAIN tanks /\ DOMAIN lived = DOMAIN tanks
  /\ \A s \in DOMAIN tanks : tanks[s] \in Tank /\ drivers[s] \in Seq(Person) /\ lived[s] \subseteq Nat
  /\ DOMAIN owners \subseteq (DOMAIN tanks) \X Nat

ScoresTyped ==
  /\ DOMAIN participants \subseteq Players
  /\ \A p \in DOMAIN participants : participants[p] \in Score
  /\ earned \in [Players -> [kills : Nat, sure : Nat, deaths : Nat]]

TypeOK == SeatsTyped /\ TanksTyped /\ ScoresTyped

\* A tank has a driver exactly as its flags say.
Sound(t) ==
  /\ t.human <=> t.player # Nobody
  /\ t.bot <=> (t.driver = "bot")
  /\ t.away <=> (t.human /\ t.bot)
  /\ t.human \/ t.bot

\* A seat has its slot to itself, and a tank from the first round on.
SeatsInv ==
  /\ \A p, q \in Seated : seats[p].slot = seats[q].slot => p = q
  /\ \A p \in Seated : seats[p].tank = NoTank <=> ~Built
  /\ \A s \in DOMAIN tanks : Sound(tanks[s])

\* In play, seats and tanks know each other.  Between battles they need not.
InPlay ==
  phase = "playing" =>
    /\ \A p \in Seated :
         /\ seats[p].tank = seats[p].slot
         /\ tanks[seats[p].tank].player = p
         /\ tanks[seats[p].tank].away <=> seats[p].away
    /\ \A s \in Slots : tanks[s].player # Nobody =>
         tanks[s].player \in Seated /\ seats[tanks[s].player].tank = s

\* The drivers known of the tank t are those of its lives, the last one of
\* them its present driver.
Chronicles(known, t) == Len(known) = t.life /\ known[t.life] = Driver(t)

\* The owners are the drivers of lives that were, and of every life that saw
\* the end of a tick with a player at the controls.
LivesInv ==
  /\ \A s \in DOMAIN tanks : Chronicles(drivers[s], tanks[s])
  /\ \A k \in DOMAIN owners : k[2] \in 1..Len(drivers[k[1]]) /\ owners[k] = drivers[k[1]][k[2]]
  /\ \A s \in DOMAIN tanks : \A l \in lived[s] :
       l \in 1..Len(drivers[s]) /\ (drivers[s][l] # Nobody => <<s, l>> \in DOMAIN owners)

\* Whoever drives or drove in this round is on its scoreboard, and who is not
\* has earned no kill.
OnBoard ==
  /\ \A s \in DOMAIN tanks :
       /\ tanks[s].player \in DOMAIN participants \cup {Nobody}
       /\ \A l \in 1..Len(drivers[s]) : drivers[s][l] \in DOMAIN participants \cup {Nobody}
  /\ \A p \in Players \ DOMAIN participants : earned[p].kills = 0 /\ earned[p].sure = 0

RoundInv ==
  /\ TypeOK /\ SeatsInv /\ InPlay /\ LivesInv /\ OnBoard
  /\ ScoreIsShown /\ KillsAreCredited

-----------------------------------------------------------------------------
(* Tanks that change drivers.                                              *)

LEMMA NoTankIsNoSlot == NoTank \notin Slots
BY ConstantsAssumption

LEMMA NobodyIsNoPlayer == Nobody \notin Players
BY ConstantsAssumption

\* A driver changes only with the life.
Advances(t, u) == u.life >= t.life /\ (u.life = t.life => Driver(u) = Driver(t))

\* Only the player of a tank that no bot drives drives it.
LEMMA WhoDrives ==
  ASSUME NEW t \in Tank, Sound(t)
  PROVE  /\ Driver(t) = IF t.bot THEN Nobody ELSE t.player
         /\ Driver(t) \in Person
         /\ Driver(t) \in {t.player, Nobody}
BY DEF Tank, Sound, Driver, Person

\* A stand-in takes the tank over in a life of its own.
LEMMA ToBotIsSound ==
  ASSUME NEW t \in Tank, Sound(t)
  PROVE  /\ ToBot(t) \in Tank /\ Sound(ToBot(t)) /\ Advances(t, ToBot(t))
         /\ ToBot(t).player = t.player /\ (ToBot(t).away <=> t.human)
         /\ ToBot(t).alive = t.alive
<1>1. /\ t.life \in Nat \ {0} /\ t.life + 1 \in Nat \ {0}
      /\ t.human \in BOOLEAN /\ t.bot \in BOOLEAN /\ t.away \in BOOLEAN
  <2>1. t.life \in Nat \ {0} /\ t.human \in BOOLEAN /\ t.bot \in BOOLEAN /\ t.away \in BOOLEAN
    BY DEF Tank
  <2> QED
    BY <2>1
<1>2. CASE t.human /\ ~t.bot
  <2> DEFINE u == [t EXCEPT !.driver = "bot", !.away = TRUE, !.bot = TRUE, !.life = @ + 1,
                            !.kills = 0, !.deaths = 0]
  <2>1. ToBot(t) = u
    BY <1>2 DEF ToBot
  <2>2. u \in Tank
    BY <1>1 DEF Tank
  <2>3. /\ u.player = t.player /\ u.human = t.human /\ u.bot = TRUE /\ u.away = TRUE
        /\ u.driver = "bot" /\ u.life = t.life + 1 /\ u.alive = t.alive
    BY DEF Tank
  <2>4. Sound(u) /\ Advances(t, u)
    BY <1>1, <1>2, <2>3 DEF Sound, Advances
  <2> QED
    BY <1>2, <2>1, <2>2, <2>3, <2>4
<1>3. CASE ~(t.human /\ ~t.bot)
  <2> DEFINE u == [t EXCEPT !.driver = "bot"]
  <2>1. ToBot(t) = u
    BY <1>3 DEF ToBot
  <2>2. u \in Tank
    BY DEF Tank
  <2>3. /\ u.player = t.player /\ u.human = t.human /\ u.bot = t.bot /\ u.away = t.away
        /\ u.driver = "bot" /\ u.life = t.life /\ u.alive = t.alive
    BY DEF Tank
  <2>4. t.bot /\ t.driver = "bot" /\ (t.away <=> t.human)
    BY <1>3 DEF Sound
  <2>5. Sound(u) /\ Driver(u) = Driver(t)
    BY <2>3, <2>4 DEF Sound, Driver
  <2> QED
    BY <1>1, <2>1, <2>2, <2>3, <2>4, <2>5 DEF Advances
<1> QED
  BY <1>2, <1>3

\* So does the player who takes it back.
LEMMA ToPlayerIsSound ==
  ASSUME NEW t \in Tank, Sound(t), t.human
  PROVE  /\ ToPlayer(t) \in Tank /\ Sound(ToPlayer(t)) /\ Advances(t, ToPlayer(t))
         /\ ToPlayer(t).player = t.player /\ ~ToPlayer(t).away
<1>1. /\ t.life \in Nat \ {0} /\ t.life + 1 \in Nat \ {0}
      /\ t.human \in BOOLEAN /\ t.bot \in BOOLEAN /\ t.away \in BOOLEAN
  <2>1. t.life \in Nat \ {0} /\ t.human \in BOOLEAN /\ t.bot \in BOOLEAN /\ t.away \in BOOLEAN
    BY DEF Tank
  <2> QED
    BY <2>1
<1>2. CASE t.away
  <2> DEFINE u == [t EXCEPT !.driver = "human", !.away = FALSE, !.bot = FALSE, !.life = @ + 1]
  <2>1. ToPlayer(t) = u
    BY <1>2 DEF ToPlayer
  <2>2. u \in Tank
    BY <1>1 DEF Tank
  <2>3. /\ u.player = t.player /\ u.human = t.human /\ u.bot = FALSE /\ u.away = FALSE
        /\ u.driver = "human" /\ u.life = t.life + 1
    BY DEF Tank
  <2>4. Sound(u) /\ Advances(t, u)
    BY <1>1, <2>3 DEF Sound, Advances
  <2> QED
    BY <2>1, <2>2, <2>3, <2>4
<1>3. CASE ~t.away
  <2> DEFINE u == [t EXCEPT !.driver = "human"]
  <2>1. ToPlayer(t) = u
    BY <1>3 DEF ToPlayer
  <2>2. u \in Tank
    BY DEF Tank
  <2>3. /\ u.player = t.player /\ u.human = t.human /\ u.bot = t.bot /\ u.away = t.away
        /\ u.driver = "human" /\ u.life = t.life
    BY DEF Tank
  <2>4. ~t.bot /\ t.driver = "human"
    BY <1>3 DEF Sound, Tank
  <2>5. Sound(u) /\ Driver(u) = Driver(t)
    BY <1>3, <2>3, <2>4 DEF Sound, Driver
  <2> QED
    BY <1>1, <1>3, <2>1, <2>2, <2>3, <2>5 DEF Advances
<1> QED
  BY <1>2, <1>3

\* Another player's, or nobody's, life begins.
LEMMA ReassignedIsSound ==
  ASSUME NEW t \in Tank, NEW p \in Person
  PROVE  /\ Reassigned(t, p) \in Tank /\ Sound(Reassigned(t, p))
         /\ Reassigned(t, p).life = t.life + 1 /\ Advances(t, Reassigned(t, p))
         /\ Reassigned(t, p).player = p /\ ~Reassigned(t, p).away
         /\ Reassigned(t, p).kills = 0 /\ Reassigned(t, p).deaths = 0
<1> DEFINE u == Reassigned(t, p)
<1>1. t.life \in Nat \ {0} /\ t.life + 1 \in Nat \ {0}
  <2>1. t.life \in Nat \ {0}
    BY DEF Tank
  <2> QED
    BY <2>1
<1>2. u \in Tank
  <2>1. (p # Nobody) \in BOOLEAN /\ (p = Nobody) \in BOOLEAN
    OBVIOUS
  <2> QED
    BY <1>1, <2>1, Zenon DEF Tank, Reassigned
<1>3. /\ u.player = p /\ u.human = (p # Nobody) /\ u.bot = (p = Nobody) /\ u.away = FALSE
      /\ u.driver = (IF p = Nobody THEN "bot" ELSE "human") /\ u.life = t.life + 1
      /\ u.kills = 0 /\ u.deaths = 0
  BY DEF Tank, Reassigned
<1>4. Advances(t, u)
  BY <1>1, <1>3 DEF Advances
<1>5. Sound(u)
  <2>1. CASE p = Nobody
    <3>1. u.human = FALSE /\ u.bot = TRUE /\ u.driver = "bot"
      BY <1>3, <2>1
    <3> QED
      BY <1>3, <2>1, <3>1 DEF Sound
  <2>2. CASE p # Nobody
    <3>1. u.human = TRUE /\ u.bot = FALSE /\ u.driver = "human"
      BY <1>3, <2>2
    <3> QED
      BY <1>3, <2>2, <3>1 DEF Sound
  <2> QED
    BY <2>1, <2>2
<1> QED
  BY <1>2, <1>3, <1>4, <1>5

LEMMA AdvancesFurther ==
  ASSUME NEW t \in Tank, NEW u \in Tank, NEW v \in Tank, Advances(t, u), Advances(u, v)
  PROVE  Advances(t, v)
<1>1. t.life \in Nat /\ u.life \in Nat /\ v.life \in Nat
  BY DEF Tank
<1> QED
  BY <1>1 DEF Advances

LEMMA StayingAdvances ==
  ASSUME NEW t \in Tank
  PROVE  Advances(t, t)
BY DEF Tank, Advances

-----------------------------------------------------------------------------
(* The drivers of lives.                                                   *)

\* d knows the drivers that known knows, of the tanks in D.
Extends(d, known, D) ==
  \A s \in D : \A i \in 1..Len(known[s]) : i \in 1..Len(d[s]) /\ d[s][i] = known[s][i]

\* The lives d knows more than known are driven as the tanks ts are.
NewLives(d, known, ts) ==
  \A s \in DOMAIN ts : \A i \in 1..Len(d[s]) : i \in 1..Len(known[s]) \/ d[s][i] = Driver(ts[s])

LEMMA ConcatTyped ==
  ASSUME NEW S, NEW q \in Seq(S), NEW r \in Seq(S), NEW d, d = q \o r
  PROVE  /\ d \in Seq(S) /\ Len(d) = Len(q) + Len(r)
         /\ \A i \in 1..Len(q) : d[i] = q[i]
         /\ \A i \in 1..Len(r) : d[Len(q) + i] = r[i]
OBVIOUS

LEMMA Repeated ==
  ASSUME NEW S, NEW n \in Nat, NEW x \in S
  PROVE  LET r == [k \in 1..n |-> x] IN r \in Seq(S) /\ Len(r) = n /\ \A i \in 1..n : r[i] = x
OBVIOUS

\* The drivers known of the tank u, continued to its present life.
Longer(known, u) == known \o [k \in 1..(u.life - Len(known)) |-> Driver(u)]

LEMMA Continued ==
  ASSUME NEW known \in Seq(Person), NEW u \in Tank, Sound(u), Len(known) <= u.life,
         Len(known) = u.life => known[u.life] = Driver(u)
  PROVE  LET d == Longer(known, u) IN
         /\ d \in Seq(Person) /\ Chronicles(d, u)
         /\ \A i \in 1..Len(known) : i \in 1..Len(d) /\ d[i] = known[i]
         /\ \A i \in 1..Len(d) : i \in 1..Len(known) \/ d[i] = Driver(u)
<1> DEFINE n == u.life - Len(known)
           r == [k \in 1..n |-> Driver(u)]
           d == known \o r
<1>1. u.life \in Nat \ {0} /\ Len(known) \in Nat
  BY DEF Tank
<1>2. n \in Nat /\ Len(known) + n = u.life
  BY <1>1
<1>3. Driver(u) \in Person
  BY WhoDrives
<1> HIDE DEF n
<1>4. r \in Seq(Person) /\ Len(r) = n /\ \A i \in 1..n : r[i] = Driver(u)
  BY <1>2, <1>3, Repeated
<1> HIDE DEF r
<1>5. /\ d \in Seq(Person) /\ Len(d) = u.life
      /\ \A i \in 1..Len(known) : d[i] = known[i]
      /\ \A i \in 1..n : d[Len(known) + i] = Driver(u)
  <2>1. /\ d \in Seq(Person) /\ Len(d) = Len(known) + Len(r)
        /\ \A i \in 1..Len(known) : d[i] = known[i]
        /\ \A i \in 1..Len(r) : d[Len(known) + i] = r[i]
    <3>1. known \in Seq(Person) /\ r \in Seq(Person) /\ d = known \o r
      BY <1>4
    <3> HIDE DEF d
    <3> QED
      BY <3>1, ConcatTyped
  <2> HIDE DEF d
  <2> QED
    BY <1>2, <1>4, <2>1
<1> HIDE DEF d
<1>6. ASSUME NEW i \in 1..u.life
      PROVE  i \in 1..Len(known) \/ d[i] = Driver(u)
  <2>1. CASE i > Len(known)
    <3>1. i - Len(known) \in 1..n /\ Len(known) + (i - Len(known)) = i
      BY <1>1, <1>2, <2>1
    <3> QED
      BY <1>5, <3>1
  <2>2. CASE ~(i > Len(known))
    BY <1>1, <2>2
  <2> QED
    BY <2>1, <2>2
<1>7. d[u.life] = Driver(u)
  <2>1. CASE Len(known) = u.life
    BY <1>1, <1>5, <2>1
  <2>2. CASE Len(known) # u.life
    <3>1. u.life \in 1..u.life /\ u.life \notin 1..Len(known)
      BY <1>1, <2>2
    <3> QED
      BY <1>6, <3>1
  <2> QED
    BY <2>1, <2>2
<1>8. \A i \in 1..Len(known) : i \in 1..u.life
  BY <1>1
<1>9. /\ d \in Seq(Person) /\ Chronicles(d, u)
      /\ \A i \in 1..Len(known) : i \in 1..Len(d) /\ d[i] = known[i]
      /\ \A i \in 1..Len(d) : i \in 1..Len(known) \/ d[i] = Driver(u)
  BY <1>5, <1>6, <1>7, <1>8 DEF Chronicles
<1> QED
  BY <1>9 DEF d, r, n, Longer

\* The chronicle of all tanks, when they come to have the lives of ts.
LEMMA LivesGoOn ==
  ASSUME NEW known, NEW old, NEW ts,
         \A s \in DOMAIN ts :
           /\ known[s] \in Seq(Person) /\ old[s] \in Tank /\ Chronicles(known[s], old[s])
           /\ ts[s] \in Tank /\ Sound(ts[s]) /\ Advances(old[s], ts[s])
  PROVE  LET d == WithLives(known, ts) IN
         /\ DOMAIN d = DOMAIN ts
         /\ \A s \in DOMAIN ts : d[s] \in Seq(Person) /\ Chronicles(d[s], ts[s])
         /\ Extends(d, known, DOMAIN ts) /\ NewLives(d, known, ts)
<1> DEFINE d == WithLives(known, ts)
<1>1. DOMAIN d = DOMAIN ts
  BY DEF WithLives
<1>2. ASSUME NEW s \in DOMAIN ts
      PROVE  /\ d[s] \in Seq(Person) /\ Chronicles(d[s], ts[s])
             /\ \A i \in 1..Len(known[s]) : i \in 1..Len(d[s]) /\ d[s][i] = known[s][i]
             /\ \A i \in 1..Len(d[s]) : i \in 1..Len(known[s]) \/ d[s][i] = Driver(ts[s])
  <2>1. d[s] = Longer(known[s], ts[s])
    BY DEF WithLives, Longer
  <2>2. Len(known[s]) <= ts[s].life /\ (Len(known[s]) = ts[s].life => known[s][ts[s].life] = Driver(ts[s]))
    <3>1. old[s].life \in Nat /\ ts[s].life \in Nat
      BY DEF Tank
    <3> QED
      BY <3>1 DEF Chronicles, Advances
  <2>3. known[s] \in Seq(Person) /\ ts[s] \in Tank /\ Sound(ts[s])
    OBVIOUS
  <2> HIDE DEF d
  <2> QED
    BY <2>1, <2>2, <2>3, Continued
<1> HIDE DEF d
<1>3. /\ DOMAIN d = DOMAIN ts
      /\ \A s \in DOMAIN ts : d[s] \in Seq(Person) /\ Chronicles(d[s], ts[s])
      /\ Extends(d, known, DOMAIN ts) /\ NewLives(d, known, ts)
  BY <1>1, <1>2, Zenon DEF Extends, NewLives
<1> QED
  BY <1>3 DEF d

\* A round's first lives.
LEMMA LivesBegin ==
  ASSUME NEW ts, \A s \in DOMAIN ts : ts[s] \in Tank /\ Sound(ts[s]), NEW known,
         \A s \in DOMAIN ts : known[s] = <<>>
  PROVE  LET d == WithLives(known, ts) IN
         /\ DOMAIN d = DOMAIN ts
         /\ \A s \in DOMAIN ts : d[s] \in Seq(Person) /\ Chronicles(d[s], ts[s])
         /\ NewLives(d, known, ts)
<1> DEFINE d == WithLives(known, ts)
<1>1. DOMAIN d = DOMAIN ts
  BY DEF WithLives
<1>2. ASSUME NEW s \in DOMAIN ts
      PROVE  /\ d[s] \in Seq(Person) /\ Chronicles(d[s], ts[s])
             /\ \A i \in 1..Len(d[s]) : i \in 1..Len(known[s]) \/ d[s][i] = Driver(ts[s])
  <2>1. d[s] = Longer(known[s], ts[s])
    BY DEF WithLives, Longer
  <2>2. known[s] \in Seq(Person) /\ Len(known[s]) = 0
    <3>1. known[s] = <<>>
      OBVIOUS
    <3>2. <<>> \in Seq(Person) /\ Len(<<>>) = 0
      OBVIOUS
    <3> QED
      BY <3>1, <3>2
  <2>3. ts[s] \in Tank /\ Sound(ts[s]) /\ ts[s].life \in Nat \ {0}
    BY DEF Tank
  <2>4. Len(known[s]) <= ts[s].life /\ Len(known[s]) # ts[s].life
    BY <2>2, <2>3
  <2> HIDE DEF d
  <2> QED
    BY <2>1, <2>2, <2>3, <2>4, Continued
<1> HIDE DEF d
<1>3. /\ DOMAIN d = DOMAIN ts
      /\ \A s \in DOMAIN ts : d[s] \in Seq(Person) /\ Chronicles(d[s], ts[s])
      /\ NewLives(d, known, ts)
  BY <1>1, <1>2, Zenon DEF NewLives
<1> QED
  BY <1>3 DEF d

LEMMA ExtendsFurther ==
  ASSUME NEW D, NEW e, NEW d, NEW known, Extends(e, d, D), Extends(d, known, D)
  PROVE  Extends(e, known, D)
BY DEF Extends

-----------------------------------------------------------------------------
(* Owners and drivers, as the round goes on.                               *)

OwnersOf(known, own) ==
  \A k \in DOMAIN own : k[2] \in 1..Len(known[k[1]]) /\ own[k] = known[k[1]][k[2]]

\* A longer chronicle says the same of the owners there are.
LEMMA OwnersStay ==
  ASSUME TanksTyped, OwnersOf(drivers, owners), NEW d, Extends(d, drivers, DOMAIN tanks)
  PROVE  OwnersOf(d, owners)
<1>1. ASSUME NEW k \in DOMAIN owners
      PROVE  k[2] \in 1..Len(d[k[1]]) /\ owners[k] = d[k[1]][k[2]]
  <2>1. k[1] \in DOMAIN tanks
    BY DEF TanksTyped
  <2>2. k[2] \in 1..Len(drivers[k[1]]) /\ owners[k] = drivers[k[1]][k[2]]
    BY DEF OwnersOf
  <2> QED
    BY <2>1, <2>2 DEF Extends
<1> QED
  BY <1>1 DEF OwnersOf

\* remember_owner adds who drives now.
LEMMA OwnersGoOn ==
  ASSUME TanksTyped, OwnersOf(drivers, owners), NEW d, Extends(d, drivers, DOMAIN tanks),
         NEW ts, NEW S \in SUBSET DOMAIN tanks,
         \A s \in DOMAIN tanks : ts[s] \in Tank /\ Sound(ts[s]) /\ Chronicles(d[s], ts[s])
  PROVE  LET own == Remembered(ts, S) IN
         /\ DOMAIN owners \subseteq DOMAIN own
         /\ DOMAIN own \subseteq (DOMAIN tanks) \X Nat
         /\ OwnersOf(d, own)
         /\ \A s \in S : Driver(ts[s]) # Nobody => <<s, ts[s].life>> \in DOMAIN own
<1> DEFINE own == Remembered(ts, S)
           new == {<<s, ts[s].life>> : s \in {q \in S : ts[q].player # Nobody /\ ~ts[q].away}}
<1>1. DOMAIN own = DOMAIN owners \cup new
  BY DEF Remembered
<1>2. \A k \in DOMAIN own : own[k] = IF k \in DOMAIN owners THEN owners[k] ELSE ts[k[1]].player
  BY DEF Remembered
<1> HIDE DEF own
<1>3. ASSUME NEW s \in DOMAIN tanks
      PROVE  /\ ts[s].life \in Nat \ {0} /\ ts[s].life \in 1..Len(d[s])
             /\ d[s][ts[s].life] = Driver(ts[s])
             /\ Driver(ts[s]) # Nobody <=> (ts[s].player # Nobody /\ ~ts[s].away)
             /\ Driver(ts[s]) # Nobody => Driver(ts[s]) = ts[s].player
  <2>1. ts[s] \in Tank /\ Sound(ts[s]) /\ Chronicles(d[s], ts[s])
    OBVIOUS
  <2>2. ts[s].life \in Nat \ {0}
    BY <2>1 DEF Tank
  <2>3. Driver(ts[s]) = IF ts[s].bot THEN Nobody ELSE ts[s].player
    BY <2>1, WhoDrives
  <2>4. ts[s].life \in 1..Len(d[s]) /\ d[s][ts[s].life] = Driver(ts[s])
    BY <2>1, <2>2 DEF Chronicles
  <2> QED
    BY <2>1, <2>2, <2>3, <2>4 DEF Sound
<1>4. ASSUME NEW k \in new
      PROVE  /\ k \in (DOMAIN tanks) \X Nat
             /\ k[2] \in 1..Len(d[k[1]]) /\ ts[k[1]].player = d[k[1]][k[2]]
  <2>1. PICK s \in S : k = <<s, ts[s].life>> /\ ts[s].player # Nobody /\ ~ts[s].away
    OBVIOUS
  <2>2. s \in DOMAIN tanks /\ k[1] = s /\ k[2] = ts[s].life
    BY <2>1
  <2>3. ts[s].life \in Nat
    BY <2>2, <1>3
  <2> QED
    BY <1>3, <2>1, <2>2, <2>3
<1>5. OwnersOf(d, owners)
  BY OwnersStay
<1>6. OwnersOf(d, own)
  BY <1>1, <1>2, <1>4, <1>5 DEF OwnersOf
<1>7. DOMAIN own \subseteq (DOMAIN tanks) \X Nat
  BY <1>1, <1>4 DEF TanksTyped
<1>8. \A s \in S : Driver(ts[s]) # Nobody => <<s, ts[s].life>> \in DOMAIN own
  BY <1>1, <1>3
<1> QED
  BY <1>1, <1>6, <1>7, <1>8 DEF own

\* A step in which tanks change drivers, and nobody kills.
LEMMA DriversChange ==
  ASSUME TypeOK, SeatsInv, LivesInv, OnBoard,
         DOMAIN tanks' = DOMAIN tanks, round' = round,
         \A s \in DOMAIN tanks :
           /\ tanks'[s] \in Tank /\ Sound(tanks'[s]) /\ Advances(tanks[s], tanks'[s])
           /\ tanks'[s].player \in DOMAIN participants' \cup {Nobody},
         drivers' = WithLives(drivers, tanks'), lived' = lived, earned' = earned,
         DOMAIN participants \subseteq DOMAIN participants',
         owners' = owners \/ \E S \in SUBSET DOMAIN tanks : owners' = Remembered(tanks', S)
  PROVE  TanksTyped' /\ LivesInv' /\ OnBoard' /\ \A s \in DOMAIN tanks' : Sound(tanks'[s])
<1>1. TanksTyped /\ OwnersOf(drivers, owners)
  BY DEF TypeOK, LivesInv, OwnersOf
<1>2. /\ DOMAIN drivers' = DOMAIN tanks
      /\ \A s \in DOMAIN tanks : drivers'[s] \in Seq(Person) /\ Chronicles(drivers'[s], tanks'[s])
      /\ Extends(drivers', drivers, DOMAIN tanks) /\ NewLives(drivers', drivers, tanks')
  BY <1>1, LivesGoOn DEF LivesInv, TanksTyped
<1>3. /\ DOMAIN owners \subseteq DOMAIN owners'
      /\ DOMAIN owners' \subseteq (DOMAIN tanks) \X Nat
      /\ OwnersOf(drivers', owners')
  <2>1. CASE owners' = owners
    BY <1>1, <1>2, <2>1, OwnersStay DEF TanksTyped
  <2>2. CASE \E S \in SUBSET DOMAIN tanks : owners' = Remembered(tanks', S)
    <3>1. PICK S \in SUBSET DOMAIN tanks : owners' = Remembered(tanks', S)
      BY <2>2
    <3> QED
      BY <1>1, <1>2, <3>1, OwnersGoOn
  <2> QED
    BY <2>1, <2>2
<1>4. TanksTyped'
  BY <1>1, <1>2, <1>3 DEF TanksTyped, Built
<1>5. LivesInv'
  <2>1. ASSUME NEW s \in DOMAIN tanks, NEW l \in lived[s]
        PROVE  l \in 1..Len(drivers'[s]) /\ (drivers'[s][l] # Nobody => <<s, l>> \in DOMAIN owners')
    <3>1. l \in 1..Len(drivers[s]) /\ (drivers[s][l] # Nobody => <<s, l>> \in DOMAIN owners)
      BY DEF LivesInv
    <3>2. l \in 1..Len(drivers'[s]) /\ drivers'[s][l] = drivers[s][l]
      BY <1>2, <3>1 DEF Extends
    <3> QED
      BY <1>3, <3>1, <3>2
  <2> QED
    BY <1>2, <1>3, <2>1 DEF LivesInv, OwnersOf
<1>6. OnBoard'
  <2>1. ASSUME NEW s \in DOMAIN tanks, NEW l \in 1..Len(drivers'[s])
        PROVE  drivers'[s][l] \in DOMAIN participants' \cup {Nobody}
    <3>1. CASE l \in 1..Len(drivers[s])
      <4>1. drivers'[s][l] = drivers[s][l]
        BY <1>2, <3>1 DEF Extends
      <4>2. drivers[s][l] \in DOMAIN participants \cup {Nobody}
        BY <3>1 DEF OnBoard
      <4> QED
        BY <4>1, <4>2
    <3>2. CASE l \notin 1..Len(drivers[s])
      <4>1. drivers'[s][l] = Driver(tanks'[s])
        BY <1>2, <3>2 DEF NewLives
      <4>2. Driver(tanks'[s]) \in {tanks'[s].player, Nobody}
        BY WhoDrives
      <4> QED
        BY <4>1, <4>2
    <3> QED
      BY <3>1, <3>2
  <2>2. \A p \in Players \ DOMAIN participants' : earned'[p].kills = 0 /\ earned'[p].sure = 0
    BY DEF OnBoard
  <2> QED
    BY <2>1, <2>2 DEF OnBoard
<1> QED
  BY <1>4, <1>5, <1>6

-----------------------------------------------------------------------------
(* Seats come and go.                                                      *)

\* What the invariant says of a room whose round is built.
LEMMA BuiltRound ==
  ASSUME RoundInv, Built
  PROVE  /\ DOMAIN tanks = Slots
         /\ \A p \in Seated : seats[p].tank \in Slots
         /\ \A s \in Slots : tanks[s] \in Tank /\ Sound(tanks[s])
         /\ \A p \in Seated : p \in DOMAIN participants /\ participants[p] = ScoreOf(seats[p])
<1>1. DOMAIN tanks = Slots
  BY DEF RoundInv, TypeOK, TanksTyped
<1>2. ASSUME NEW p \in Seated
      PROVE  seats[p].tank \in Slots
  <2>1. seats[p].tank \in Slots \cup {NoTank} /\ seats[p].tank # NoTank
    BY DEF RoundInv, TypeOK, SeatsTyped, SeatsInv, Seat
  <2> QED
    BY <2>1
<1>3. \A s \in Slots : tanks[s] \in Tank /\ Sound(tanks[s])
  BY <1>1 DEF RoundInv, TypeOK, TanksTyped, SeatsInv
<1>4. \A p \in Seated : p \in DOMAIN participants /\ participants[p] = ScoreOf(seats[p])
  BY DEF RoundInv, ScoreIsShown
<1> QED
  BY <1>1, <1>2, <1>3, <1>4

LEMMA JoinRoundKeeps ==
  ASSUME RoundInv, NEW p \in Players, NEW s \in Slots, JoinRound(p, s)
  PROVE  RoundInv'
<1> DEFINE u == Reassigned(tanks[s], p)
           seat == [NewSeat(s) EXCEPT !.tank = s]
<1>1. /\ DOMAIN tanks = Slots
      /\ \A q \in Seated : seats[q].tank \in Slots
      /\ \A r \in Slots : tanks[r] \in Tank /\ Sound(tanks[r])
      /\ \A q \in Seated : q \in DOMAIN participants /\ participants[q] = ScoreOf(seats[q])
  BY BuiltRound DEF JoinRound
<1>2. /\ u \in Tank /\ Sound(u) /\ Advances(tanks[s], u)
      /\ u.player = p /\ ~u.away /\ u.kills = 0 /\ u.deaths = 0
  BY <1>1, ReassignedIsSound DEF Person
<1> HIDE DEF u
<1>3. /\ DOMAIN tanks' = Slots /\ tanks'[s] = u
      /\ \A r \in Slots : r # s => tanks'[r] = tanks[r]
  BY <1>1 DEF JoinRound, u
<1>4. /\ seat \in Seat /\ seat.slot = s /\ seat.tank = s /\ seat.away = FALSE
      /\ seat.kills = 0 /\ seat.deaths = 0
  BY DEF NewSeat, Seat
<1> HIDE DEF seat
<1>5. /\ Seated' = Seated \cup {p} /\ seats'[p] = seat
      /\ \A q \in Seated : q # p /\ seats'[q] = seats[q]
  <2>1. seats' = Also(seats, p, seat) /\ p \notin Seated
    BY DEF JoinRound, seat
  <2> QED
    BY <2>1 DEF Also, Seated
<1>6. /\ DOMAIN participants' = DOMAIN participants \cup {p} /\ participants'[p] = NoScore
      /\ \A q \in DOMAIN participants : q # p /\ participants'[q] = participants[q]
  <2>1. participants' = Also(participants, p, NoScore) /\ p \notin DOMAIN participants
    BY DEF JoinRound
  <2> QED
    BY <2>1 DEF Also
<1>7. /\ Built /\ phase' = phase /\ round' = round /\ lived' = lived /\ earned' = earned
      /\ p \notin DOMAIN participants /\ \A q \in Seated : seats[q].slot # s
      /\ drivers' = WithLives(drivers, tanks') /\ owners' = Remembered(tanks', {s})
  BY DEF JoinRound, FreeSlot
<1>8. TanksTyped' /\ LivesInv' /\ OnBoard' /\ \A r \in DOMAIN tanks' : Sound(tanks'[r])
  <2>1. ASSUME NEW r \in DOMAIN tanks
        PROVE  /\ tanks'[r] \in Tank /\ Sound(tanks'[r]) /\ Advances(tanks[r], tanks'[r])
               /\ tanks'[r].player \in DOMAIN participants' \cup {Nobody}
    <3>1. CASE r = s
      BY <1>2, <1>3, <1>6, <3>1
    <3>2. CASE r # s
      <4>1. tanks[r].player \in DOMAIN participants \cup {Nobody}
        BY DEF RoundInv, OnBoard
      <4> QED
        BY <1>1, <1>3, <1>6, <3>2, <4>1, StayingAdvances
    <3> QED
      BY <3>1, <3>2
  <2>2. {s} \in SUBSET DOMAIN tanks
    BY <1>1
  <2>3. TypeOK /\ SeatsInv /\ LivesInv /\ OnBoard
    BY DEF RoundInv
  <2>4. DOMAIN tanks' = DOMAIN tanks /\ DOMAIN participants \subseteq DOMAIN participants'
    BY <1>1, <1>3, <1>6
  <2> QED
    BY <1>7, <2>1, <2>2, <2>3, <2>4, DriversChange
<1>9. SeatsTyped'
  BY <1>4, <1>5, <1>7 DEF RoundInv, TypeOK, SeatsTyped, Built, Seated
<1>10. ScoresTyped'
  <2>1. NoScore \in Score
    BY DEF NoScore, Score
  <2> QED
    BY <1>6, <1>7, <2>1 DEF RoundInv, TypeOK, ScoresTyped
<1>11. SeatsInv'
  <2>1. \A q \in Seated' : seats'[q].tank # NoTank /\ Built'
    BY <1>1, <1>4, <1>5, <1>7, NoTankIsNoSlot DEF Built
  <2>2. \A q, r \in Seated' : seats'[q].slot = seats'[r].slot => q = r
    BY <1>4, <1>5, <1>7 DEF RoundInv, SeatsInv
  <2> QED
    BY <1>8, <2>1, <2>2 DEF SeatsInv
<1>12. InPlay'
  <2>1. SUFFICES ASSUME phase = "playing"
                 PROVE  /\ \A q \in Seated' :
                             /\ seats'[q].tank = seats'[q].slot
                             /\ tanks'[seats'[q].tank].player = q
                             /\ tanks'[seats'[q].tank].away <=> seats'[q].away
                        /\ \A r \in Slots : tanks'[r].player # Nobody =>
                             tanks'[r].player \in Seated' /\ seats'[tanks'[r].player].tank = r
    BY <1>7 DEF InPlay
  <2>2. ASSUME NEW q \in Seated
        PROVE  /\ seats[q].tank = seats[q].slot /\ seats[q].tank # s
               /\ tanks[seats[q].tank].player = q
               /\ tanks[seats[q].tank].away <=> seats[q].away
    BY <1>7, <2>1 DEF RoundInv, InPlay
  <2>3. \A r \in Slots : tanks[r].player # Nobody =>
           tanks[r].player \in Seated /\ seats[tanks[r].player].tank = r
    BY <2>1 DEF RoundInv, InPlay
  <2> QED
    BY <1>1, <1>2, <1>3, <1>4, <1>5, <2>2, <2>3
<1>13. ScoreIsShown'
  <2>1. ScoreOf(seat) = NoScore /\ ScoreOf(u) = NoScore
    BY <1>2, <1>4 DEF ScoreOf, NoScore
  <2>2. ASSUME NEW q \in Seated, phase = "playing", ~seats[q].away
        PROVE  ScoreOf(tanks'[seats[q].tank]) = ScoreOf(seats[q])
    <3>1. seats[q].tank # s
      BY <1>7, <2>2 DEF RoundInv, InPlay
    <3> QED
      BY <1>1, <1>3, <2>2, <3>1 DEF RoundInv, ScoreIsShown
  <2> QED
    BY <1>1, <1>3, <1>4, <1>5, <1>6, <1>7, <2>1, <2>2 DEF ScoreIsShown
<1>14. KillsAreCredited'
  <2>1. participants'[p].kills = 0 /\ earned[p].sure = 0 /\ earned[p].kills = 0
    BY <1>6, <1>7 DEF NoScore, RoundInv, OnBoard
  <2>2. participants'[p].kills \in earned[p].sure..earned[p].kills
    BY <2>1
  <2> QED
    BY <1>6, <1>7, <2>2 DEF RoundInv, KillsAreCredited
<1> QED
  BY <1>8, <1>9, <1>10, <1>11, <1>12, <1>13, <1>14 DEF RoundInv, TypeOK

\* A step that leaves tanks and scores alone.
LEMMA TanksStay ==
  ASSUME RoundInv, UNCHANGED <<round, tanks, owners, participants, history>>
  PROVE  /\ TanksTyped' /\ ScoresTyped' /\ LivesInv' /\ OnBoard' /\ KillsAreCredited'
         /\ (\A s \in DOMAIN tanks : Sound(tanks[s]))'
<1>1. /\ round' = round /\ tanks' = tanks /\ owners' = owners /\ participants' = participants
      /\ drivers' = drivers /\ lived' = lived /\ earned' = earned
  BY DEF history
<1>2. TanksTyped' /\ ScoresTyped'
  BY <1>1 DEF RoundInv, TypeOK, TanksTyped, ScoresTyped, Built
<1>3. LivesInv' /\ OnBoard'
  BY <1>1 DEF RoundInv, LivesInv, OnBoard
<1>4. KillsAreCredited'
  BY <1>1 DEF RoundInv, KillsAreCredited
<1>5. (\A s \in DOMAIN tanks : Sound(tanks[s]))'
  BY <1>1 DEF RoundInv, SeatsInv
<1> QED
  BY <1>2, <1>3, <1>4, <1>5

LEMMA JoinLobbyKeeps ==
  ASSUME RoundInv, NEW p \in Players, NEW s \in Slots, JoinLobby(p, s)
  PROVE  RoundInv'
<1> DEFINE seat == NewSeat(s)
<1>1. /\ p \notin Seated /\ (\A q \in Seated : seats[q].slot # s) /\ ~Built
      /\ seats' = Also(seats, p, seat)
      /\ phase' = phase /\ round' = round /\ tanks' = tanks /\ participants' = participants
  BY DEF JoinLobby, FreeSlot
<1>2. seat \in Seat /\ seat.slot = s /\ seat.tank = NoTank
  BY DEF NewSeat, Seat
<1> HIDE DEF seat
<1>3. /\ Seated' = Seated \cup {p} /\ seats'[p] = seat
      /\ \A q \in Seated : q # p /\ seats'[q] = seats[q]
  BY <1>1 DEF Also, Seated
<1>4. /\ TanksTyped' /\ ScoresTyped' /\ LivesInv' /\ OnBoard' /\ KillsAreCredited'
      /\ (\A r \in DOMAIN tanks : Sound(tanks[r]))'
  BY TanksStay DEF JoinLobby
<1>5. ~Built' /\ phase' # "playing"
  BY <1>1 DEF RoundInv, TypeOK, SeatsTyped, Built
<1>6. SeatsTyped'
  BY <1>1, <1>2, <1>3, <1>5 DEF RoundInv, TypeOK, SeatsTyped
<1>7. SeatsInv'
  <2>1. \A q, r \in Seated' : seats'[q].slot = seats'[r].slot => q = r
    BY <1>1, <1>2, <1>3 DEF RoundInv, SeatsInv
  <2>2. \A q \in Seated' : seats'[q].tank = NoTank
    BY <1>1, <1>2, <1>3 DEF RoundInv, SeatsInv
  <2> QED
    BY <1>4, <1>5, <2>1, <2>2 DEF SeatsInv
<1> QED
  BY <1>4, <1>5, <1>6, <1>7 DEF RoundInv, TypeOK, InPlay, ScoreIsShown

LEMMA ChooseKeeps ==
  ASSUME RoundInv, NEW p \in Players, NEW s \in Slots, Choose(p, s)
  PROVE  RoundInv'
<1>1. /\ p \in Seated /\ phase # "playing" /\ (\A q \in Seated : seats[q].slot # s)
      /\ seats' = [seats EXCEPT ![p].slot = s]
      /\ phase' = phase /\ round' = round /\ tanks' = tanks /\ participants' = participants
  BY DEF Choose, FreeSlot
<1>2. \A q \in Seated : seats[q] \in Seat
  BY DEF RoundInv, TypeOK, SeatsTyped
<1>3. /\ Seated' = Seated
      /\ \A q \in Seated : q # p => seats'[q] = seats[q]
      /\ seats'[p] \in Seat /\ seats'[p].slot = s /\ seats'[p].tank = seats[p].tank
      /\ seats'[p].kills = seats[p].kills /\ seats'[p].deaths = seats[p].deaths
  BY <1>1, <1>2 DEF Seated, Seat
<1>4. /\ TanksTyped' /\ ScoresTyped' /\ LivesInv' /\ OnBoard' /\ KillsAreCredited'
      /\ (\A r \in DOMAIN tanks : Sound(tanks[r]))'
  BY TanksStay DEF Choose
<1>5. SeatsTyped'
  BY <1>1, <1>3 DEF RoundInv, TypeOK, SeatsTyped, Built
<1>6. SeatsInv'
  <2>1. \A q, r \in Seated' : seats'[q].slot = seats'[r].slot => q = r
    BY <1>1, <1>3 DEF RoundInv, SeatsInv
  <2>2. \A q \in Seated' : seats'[q].tank = NoTank <=> ~Built'
    BY <1>1, <1>3 DEF RoundInv, SeatsInv, Built
  <2> QED
    BY <1>4, <2>1, <2>2 DEF SeatsInv
<1>7. ScoreIsShown'
  <2>1. \A q \in Seated : ScoreOf(seats'[q]) = ScoreOf(seats[q])
    BY <1>3 DEF ScoreOf
  <2> QED
    BY <1>1, <1>3, <2>1 DEF RoundInv, ScoreIsShown, Built
<1> QED
  BY <1>1, <1>4, <1>5, <1>6, <1>7 DEF RoundInv, TypeOK, InPlay

LEMMA PhaseKeeps ==
  ASSUME RoundInv, phase' \in {"results", "failed"},
         UNCHANGED <<round, seats, tanks, owners, participants, history>>
  PROVE  RoundInv'
<1>1. round' = round /\ seats' = seats /\ tanks' = tanks /\ participants' = participants
  OBVIOUS
<1>2. /\ TanksTyped' /\ ScoresTyped' /\ LivesInv' /\ OnBoard' /\ KillsAreCredited'
      /\ (\A r \in DOMAIN tanks : Sound(tanks[r]))'
  BY TanksStay
<1>3. SeatsTyped'
  BY <1>1 DEF RoundInv, TypeOK, SeatsTyped, Built, Seated
<1>4. SeatsInv'
  BY <1>1, <1>2 DEF RoundInv, SeatsInv, Built, Seated
<1>5. InPlay' /\ ScoreIsShown'
  BY <1>1 DEF RoundInv, InPlay, ScoreIsShown, Built, Seated
<1> QED
  BY <1>2, <1>3, <1>4, <1>5 DEF RoundInv, TypeOK

\* A seat given up leaves its score on the scoreboard, and its tank to a bot.
LEMMA ReleaseKeeps ==
  ASSUME RoundInv, NEW p \in Players, Release(p)
  PROVE  RoundInv'
<1>1. /\ p \in Seated /\ seats' = Without(seats, p)
      /\ phase' = phase /\ round' = round /\ owners' = owners /\ lived' = lived /\ earned' = earned
  BY DEF Release
<1>2. /\ Seated' = Seated \ {p}
      /\ \A q \in Seated' : seats'[q] = seats[q]
  BY <1>1 DEF Without, Seated
<1>3. SeatsTyped'
  BY <1>1, <1>2 DEF RoundInv, TypeOK, SeatsTyped, Built
<1>4. CASE ~Built
  <2>1. UNCHANGED <<round, tanks, owners, participants, history>>
    <3>1. seats[p].tank = NoTank
      BY <1>1, <1>4 DEF RoundInv, SeatsInv
    <3> QED
      BY <3>1 DEF Release, history
  <2>2. /\ TanksTyped' /\ ScoresTyped' /\ LivesInv' /\ OnBoard' /\ KillsAreCredited'
        /\ (\A r \in DOMAIN tanks : Sound(tanks[r]))'
    BY <2>1, TanksStay
  <2>3. ~Built' /\ phase' # "playing"
    BY <1>1, <1>4 DEF Built, RoundInv, TypeOK, SeatsTyped
  <2>4. SeatsInv'
    BY <1>1, <1>2, <1>4, <2>2, <2>3 DEF RoundInv, SeatsInv
  <2> QED
    BY <1>3, <2>2, <2>3, <2>4 DEF RoundInv, TypeOK, InPlay, ScoreIsShown
<1>5. CASE Built
  <2> DEFINE s == seats[p].tank
             u == Reassigned(IF seats[p].away THEN tanks[s] ELSE ToBot(tanks[s]), Nobody)
  <2>1. /\ DOMAIN tanks = Slots
        /\ \A q \in Seated : seats[q].tank \in Slots
        /\ \A r \in Slots : tanks[r] \in Tank /\ Sound(tanks[r])
        /\ \A q \in Seated : q \in DOMAIN participants /\ participants[q] = ScoreOf(seats[q])
    BY <1>5, BuiltRound
  <2>2. s \in Slots /\ s # NoTank
    BY <1>1, <2>1, NoTankIsNoSlot
  <2>3. /\ tanks' = [tanks EXCEPT ![s] = u]
        /\ participants' = Also(participants, p, ScoreOf(seats[p]))
        /\ drivers' = WithLives(drivers, tanks')
    BY <2>2 DEF Release
  <2> HIDE DEF s
  <2>4. u \in Tank /\ Sound(u) /\ Advances(tanks[s], u) /\ u.player = Nobody /\ ~u.away
    <3> DEFINE t == IF seats[p].away THEN tanks[s] ELSE ToBot(tanks[s])
    <3>1. t \in Tank /\ Advances(tanks[s], t)
      <4>1. ToBot(tanks[s]) \in Tank /\ Advances(tanks[s], ToBot(tanks[s]))
        BY <2>1, <2>2, ToBotIsSound
      <4>2. Advances(tanks[s], tanks[s])
        BY <2>1, <2>2, StayingAdvances
      <4> QED
        BY <2>1, <2>2, <4>1, <4>2
    <3> HIDE DEF t
    <3>2. LET v == Reassigned(t, Nobody) IN
          v \in Tank /\ Sound(v) /\ Advances(t, v) /\ v.player = Nobody /\ ~v.away
      BY <3>1, ReassignedIsSound DEF Person
    <3>3. Advances(tanks[s], Reassigned(t, Nobody))
      BY <2>1, <2>2, <3>1, <3>2, AdvancesFurther
    <3> QED
      BY <3>2, <3>3 DEF t
  <2> HIDE DEF u
  <2>5. /\ DOMAIN tanks' = Slots /\ tanks'[s] = u
        /\ \A r \in Slots : r # s => tanks'[r] = tanks[r]
    BY <2>1, <2>2, <2>3
  <2>6. DOMAIN participants' = DOMAIN participants
        /\ \A q \in DOMAIN participants : participants'[q] = participants[q]
    BY <1>1, <2>1, <2>3 DEF Also
  <2>7. TanksTyped' /\ LivesInv' /\ OnBoard' /\ \A r \in DOMAIN tanks' : Sound(tanks'[r])
    <3>1. ASSUME NEW r \in DOMAIN tanks
          PROVE  /\ tanks'[r] \in Tank /\ Sound(tanks'[r]) /\ Advances(tanks[r], tanks'[r])
                 /\ tanks'[r].player \in DOMAIN participants' \cup {Nobody}
      <4>1. CASE r = s
        BY <2>4, <2>5, <4>1
      <4>2. CASE r # s
        <5>1. tanks[r].player \in DOMAIN participants \cup {Nobody}
          BY DEF RoundInv, OnBoard
        <5> QED
          BY <2>1, <2>5, <2>6, <4>2, <5>1, StayingAdvances
      <4> QED
        BY <4>1, <4>2
    <3>2. TypeOK /\ SeatsInv /\ LivesInv /\ OnBoard
      BY DEF RoundInv
    <3>3. DOMAIN tanks' = DOMAIN tanks /\ DOMAIN participants \subseteq DOMAIN participants'
      BY <2>1, <2>5, <2>6
    <3> QED
      BY <1>1, <2>3, <3>1, <3>2, <3>3, DriversChange
  <2>8. ScoresTyped'
    BY <1>1, <2>6 DEF RoundInv, TypeOK, ScoresTyped
  <2>9. SeatsInv'
    BY <1>1, <1>2, <2>7 DEF RoundInv, SeatsInv, Built
  <2>10. phase = "playing" => \A q \in Seated' : seats[q].tank # s
    BY <1>1, <1>2 DEF RoundInv, InPlay, SeatsInv, s
  <2>11. InPlay'
    <3>1. SUFFICES ASSUME phase = "playing"
                   PROVE  /\ \A q \in Seated' :
                               /\ seats'[q].tank = seats'[q].slot
                               /\ tanks'[seats'[q].tank].player = q
                               /\ tanks'[seats'[q].tank].away <=> seats'[q].away
                          /\ \A r \in Slots : tanks'[r].player # Nobody =>
                               tanks'[r].player \in Seated' /\ seats'[tanks'[r].player].tank = r
      BY <1>1 DEF InPlay
    <3>2. \A q \in Seated :
            /\ seats[q].tank = seats[q].slot
            /\ tanks[seats[q].tank].player = q
            /\ tanks[seats[q].tank].away <=> seats[q].away
      BY <3>1 DEF RoundInv, InPlay
    <3>3. \A r \in Slots : tanks[r].player # Nobody =>
             tanks[r].player \in Seated /\ seats[tanks[r].player].tank = r
      BY <3>1 DEF RoundInv, InPlay
    <3>4. \A q \in Seated' : /\ seats'[q].tank = seats'[q].slot
                             /\ tanks'[seats'[q].tank].player = q
                             /\ tanks'[seats'[q].tank].away <=> seats'[q].away
      BY <1>2, <2>1, <2>5, <2>10, <3>1, <3>2
    <3>5. ASSUME NEW r \in Slots, tanks'[r].player # Nobody
          PROVE  tanks'[r].player \in Seated' /\ seats'[tanks'[r].player].tank = r
      <4>1. r # s /\ tanks'[r] = tanks[r]
        BY <2>4, <2>5, <3>5
      <4>2. tanks[r].player # p
        BY <3>3, <3>5, <4>1 DEF s
      <4> QED
        BY <1>2, <3>3, <3>5, <4>1, <4>2
    <3> QED
      BY <3>4, <3>5
  <2>12. ScoreIsShown'
    <3>1. \A q \in Seated' : q \in DOMAIN participants' /\ participants'[q] = ScoreOf(seats'[q])
      BY <1>2, <2>1, <2>6
    <3>2. ASSUME NEW q \in Seated', phase = "playing", ~seats[q].away
          PROVE  ScoreOf(tanks'[seats[q].tank]) = ScoreOf(seats[q])
      <4>1. seats[q].tank # s /\ q \in Seated
        BY <1>2, <2>10, <3>2
      <4> QED
        BY <2>1, <2>5, <3>2, <4>1 DEF RoundInv, ScoreIsShown
    <3> QED
      BY <1>1, <1>2, <3>1, <3>2 DEF ScoreIsShown
  <2>13. KillsAreCredited'
    BY <1>1, <2>6 DEF RoundInv, KillsAreCredited
  <2> QED
    BY <1>3, <2>7, <2>8, <2>9, <2>11, <2>12, <2>13 DEF RoundInv, TypeOK
<1> QED
  BY <1>4, <1>5

-----------------------------------------------------------------------------
(* Players go and come back.                                               *)

\* A step that changes who drives the tank of a seat.
LEMMA SeatChanges ==
  ASSUME RoundInv, NEW p \in Seated,
         Seated' = Seated, \A q \in Seated : q # p => seats'[q] = seats[q],
         seats'[p] \in Seat, seats'[p].slot = seats[p].slot, seats'[p].tank = seats[p].tank,
         ScoreOf(seats'[p]) = ScoreOf(seats[p]),
         DOMAIN tanks' = DOMAIN tanks,
         \A r \in DOMAIN tanks : r # seats[p].tank => tanks'[r] = tanks[r],
         Built => LET t == tanks[seats[p].tank]
                      u == tanks'[seats[p].tank] IN
                  /\ u \in Tank /\ Sound(u) /\ Advances(t, u) /\ u.player = t.player
                  /\ phase = "playing" =>
                       /\ u.away <=> seats'[p].away
                       /\ ~u.away => ScoreOf(u) = ScoreOf(seats[p]),
         drivers' = WithLives(drivers, tanks'),
         UNCHANGED <<phase, round, owners, participants, lived, earned>>
  PROVE  RoundInv'
<1> DEFINE s == seats[p].tank
<1>1. /\ phase' = phase /\ round' = round /\ owners' = owners /\ participants' = participants
      /\ lived' = lived /\ earned' = earned /\ (Built' <=> Built)
  BY DEF Built
<1>2. /\ SeatsTyped' /\ ScoresTyped' /\ KillsAreCredited'
  <2>1. SeatsTyped'
    BY <1>1 DEF RoundInv, TypeOK, SeatsTyped
  <2>2. ScoresTyped' /\ KillsAreCredited'
    BY <1>1 DEF RoundInv, TypeOK, ScoresTyped, KillsAreCredited
  <2> QED
    BY <2>1, <2>2
<1>3. /\ TypeOK /\ SeatsInv /\ LivesInv /\ OnBoard
      /\ DOMAIN tanks = IF Built THEN Slots ELSE {}
  BY DEF RoundInv, TypeOK, TanksTyped
<1>4. TanksTyped' /\ LivesInv' /\ OnBoard' /\ \A r \in DOMAIN tanks' : Sound(tanks'[r])
  <2>1. ASSUME NEW r \in DOMAIN tanks
        PROVE  /\ tanks'[r] \in Tank /\ Sound(tanks'[r]) /\ Advances(tanks[r], tanks'[r])
               /\ tanks'[r].player \in DOMAIN participants' \cup {Nobody}
    <3>1. Built /\ tanks[r].player \in DOMAIN participants' \cup {Nobody}
      BY <1>1, <1>3 DEF OnBoard
    <3>2. CASE r = s
      BY <3>1, <3>2
    <3>3. CASE r # s
      <4>1. tanks'[r] = tanks[r] /\ tanks[r] \in Tank /\ Sound(tanks[r])
        BY <1>3, <3>3 DEF TypeOK, TanksTyped, SeatsInv
      <4> QED
        BY <3>1, <4>1, StayingAdvances
    <3> QED
      BY <3>2, <3>3
  <2> QED
    BY <1>1, <1>3, <2>1, DriversChange
<1>5. SeatsInv'
  <2>1. \A q, r \in Seated' : seats'[q].slot = seats'[r].slot => q = r
    BY <1>3 DEF SeatsInv
  <2>2. \A q \in Seated' : seats'[q].tank = NoTank <=> ~Built'
    BY <1>1, <1>3 DEF SeatsInv
  <2> QED
    BY <1>4, <2>1, <2>2 DEF SeatsInv
<1>6. ASSUME phase = "playing"
      PROVE  /\ Built /\ s \in Slots /\ tanks'[s].player = p /\ DOMAIN tanks' = Slots
             /\ tanks'[s].away <=> seats'[p].away
             /\ ~seats'[p].away => ScoreOf(tanks'[s]) = ScoreOf(seats'[p])
             /\ \A q \in Seated : /\ seats[q].tank = seats[q].slot
                                  /\ seats[q].tank \in Slots
                                  /\ tanks[seats[q].tank].player = q
                                  /\ tanks[seats[q].tank].away <=> seats[q].away
                                  /\ q # p => seats[q].tank # s
  <2>1. Built
    BY <1>6 DEF RoundInv, TypeOK, SeatsTyped
  <2>2. \A q \in Seated : seats[q].tank \in Slots
    BY <2>1, BuiltRound
  <2>3. \A q \in Seated : /\ seats[q].tank = seats[q].slot
                          /\ tanks[seats[q].tank].player = q
                          /\ tanks[seats[q].tank].away <=> seats[q].away
    BY <1>6 DEF RoundInv, InPlay
  <2>4. \A q \in Seated : q # p => seats[q].tank # s
    BY <1>3, <2>3 DEF SeatsInv
  <2> QED
    BY <1>3, <1>6, <2>1, <2>2, <2>3, <2>4
<1> HIDE DEF s
<1>7. InPlay'
  <2>1. SUFFICES ASSUME phase = "playing"
                 PROVE  /\ \A q \in Seated :
                             /\ seats'[q].tank = seats'[q].slot
                             /\ tanks'[seats'[q].tank].player = q
                             /\ tanks'[seats'[q].tank].away <=> seats'[q].away
                        /\ \A r \in Slots : tanks'[r].player # Nobody =>
                             tanks'[r].player \in Seated /\ seats'[tanks'[r].player].tank = r
    BY <1>1 DEF InPlay
  <2>2. ASSUME NEW q \in Seated
        PROVE  /\ seats'[q].tank = seats'[q].slot
               /\ tanks'[seats'[q].tank].player = q
               /\ tanks'[seats'[q].tank].away <=> seats'[q].away
    <3>1. CASE q = p
      BY <1>6, <2>1, <3>1 DEF s
    <3>2. CASE q # p
      <4>1. seats'[q] = seats[q] /\ seats[q].tank # s /\ seats[q].tank \in DOMAIN tanks
        BY <1>6, <2>1, <3>2
      <4>2. tanks'[seats[q].tank] = tanks[seats[q].tank]
        BY <4>1 DEF s
      <4> QED
        BY <1>6, <2>1, <4>1, <4>2
    <3> QED
      BY <3>1, <3>2
  <2>3. ASSUME NEW r \in Slots, tanks'[r].player # Nobody
        PROVE  tanks'[r].player \in Seated /\ seats'[tanks'[r].player].tank = r
    <3>1. CASE r = s
      BY <1>6, <2>1, <3>1 DEF s
    <3>2. CASE r # s
      <4>1. tanks'[r] = tanks[r]
        BY <1>6, <2>1, <3>2 DEF s
      <4>2. tanks[r].player \in Seated /\ seats[tanks[r].player].tank = r
        BY <2>1, <2>3, <4>1 DEF RoundInv, InPlay
      <4> QED
        BY <4>1, <4>2, <3>2 DEF s
    <3> QED
      BY <3>1, <3>2
  <2> QED
    BY <2>2, <2>3
<1>8. ScoreIsShown'
  <2>1. ASSUME NEW q \in Seated, Built
        PROVE  q \in DOMAIN participants /\ participants[q] = ScoreOf(seats'[q])
    BY <2>1 DEF RoundInv, ScoreIsShown
  <2>2. ASSUME NEW q \in Seated, phase = "playing", ~seats'[q].away
        PROVE  ScoreOf(tanks'[seats'[q].tank]) = ScoreOf(seats'[q])
    <3>1. CASE q = p
      BY <1>6, <2>2, <3>1 DEF s
    <3>2. CASE q # p
      <4>1. seats'[q] = seats[q] /\ seats[q].tank # s /\ seats[q].tank \in DOMAIN tanks
        BY <1>6, <2>2, <3>2
      <4>2. tanks'[seats[q].tank] = tanks[seats[q].tank]
        BY <4>1 DEF s
      <4> QED
        BY <2>2, <4>1, <4>2 DEF RoundInv, ScoreIsShown
    <3> QED
      BY <3>1, <3>2
  <2> QED
    BY <1>1, <2>1, <2>2 DEF ScoreIsShown
<1> QED
  BY <1>2, <1>4, <1>5, <1>7, <1>8 DEF RoundInv, TypeOK

LEMMA GoAwayKeeps ==
  ASSUME RoundInv, NEW p \in Players, GoAway(p)
  PROVE  RoundInv'
<1> DEFINE s == seats[p].tank
<1>1. /\ p \in Seated /\ drivers' = WithLives(drivers, tanks')
      /\ seats' = [seats EXCEPT ![p].out = TRUE, ![p].away = s # NoTank]
      /\ tanks' = IF s # NoTank /\ ~seats[p].away THEN [tanks EXCEPT ![s] = ToBot(@)] ELSE tanks
      /\ UNCHANGED <<phase, round, owners, participants, lived, earned>>
  BY DEF GoAway
<1>2. seats[p] \in Seat
  BY <1>1 DEF RoundInv, TypeOK, SeatsTyped
<1>3. /\ Seated' = Seated /\ \A q \in Seated : q # p => seats'[q] = seats[q]
      /\ seats'[p] = [seats[p] EXCEPT !.out = TRUE, !.away = s # NoTank]
  BY <1>1 DEF Seated
<1>4. /\ seats'[p] \in Seat /\ seats'[p].slot = seats[p].slot /\ seats'[p].tank = s
      /\ ScoreOf(seats'[p]) = ScoreOf(seats[p]) /\ (seats'[p].away <=> s # NoTank)
  <2>1. (s # NoTank) \in BOOLEAN
    OBVIOUS
  <2> QED
    BY <1>2, <1>3, <2>1 DEF Seat, ScoreOf
<1>5. DOMAIN tanks' = DOMAIN tanks /\ \A r \in DOMAIN tanks : r # s => tanks'[r] = tanks[r]
  BY <1>1
<1>6. ASSUME Built
      PROVE  LET t == tanks[s]
                 u == tanks'[s] IN
             /\ u \in Tank /\ Sound(u) /\ Advances(t, u) /\ u.player = t.player
             /\ phase = "playing" =>
                  /\ u.away <=> seats'[p].away
                  /\ ~u.away => ScoreOf(u) = ScoreOf(seats[p])
  <2>1. /\ s \in Slots /\ s # NoTank /\ s \in DOMAIN tanks
        /\ tanks[s] \in Tank /\ Sound(tanks[s])
    BY <1>1, <1>6, BuiltRound, NoTankIsNoSlot
  <2>2. phase = "playing" => tanks[s].player = p /\ (tanks[s].away <=> seats[p].away)
    BY <1>1 DEF RoundInv, InPlay
  <2>3. tanks[s].human <=> tanks[s].player # Nobody
    BY <2>1 DEF Sound
  <2>4. p # Nobody
    BY NobodyIsNoPlayer
  <2>5. seats'[p].away
    BY <1>4, <2>1
  <2> HIDE DEF s
  <2>6. CASE seats[p].away
    <3>1. tanks'[s] = tanks[s]
      BY <1>1, <2>6
    <3> QED
      BY <2>1, <2>2, <2>5, <2>6, <3>1, StayingAdvances
  <2>7. CASE ~seats[p].away
    <3>1. tanks'[s] = ToBot(tanks[s])
      BY <1>1, <2>1, <2>7
    <3>2. LET u == ToBot(tanks[s]) IN
          /\ u \in Tank /\ Sound(u) /\ Advances(tanks[s], u)
          /\ u.player = tanks[s].player /\ (u.away <=> tanks[s].human)
      BY <2>1, ToBotIsSound
    <3> QED
      BY <2>2, <2>3, <2>4, <2>5, <3>1, <3>2
  <2> QED
    BY <2>6, <2>7
<1> QED
  BY <1>1, <1>3, <1>4, <1>5, <1>6, SeatChanges

LEMMA ComeBackKeeps ==
  ASSUME RoundInv, NEW p \in Players, ComeBack(p)
  PROVE  RoundInv'
<1> DEFINE s == seats[p].tank
           u == [ToPlayer(tanks[s]) EXCEPT !.kills = seats[p].kills, !.deaths = seats[p].deaths]
<1>1. /\ p \in Seated /\ drivers' = WithLives(drivers, tanks')
      /\ s # NoTank => tanks[s].human
      /\ seats' = [seats EXCEPT ![p].out = FALSE, ![p].away = FALSE]
      /\ tanks' = IF s # NoTank THEN [tanks EXCEPT ![s] = u] ELSE tanks
      /\ UNCHANGED <<phase, round, owners, participants, lived, earned>>
  BY DEF ComeBack
<1>2. seats[p] \in Seat
  BY <1>1 DEF RoundInv, TypeOK, SeatsTyped
<1>3. /\ Seated' = Seated /\ \A q \in Seated : q # p => seats'[q] = seats[q]
      /\ seats'[p] = [seats[p] EXCEPT !.out = FALSE, !.away = FALSE]
  BY <1>1 DEF Seated
<1>4. /\ seats'[p] \in Seat /\ seats'[p].slot = seats[p].slot /\ seats'[p].tank = s
      /\ ScoreOf(seats'[p]) = ScoreOf(seats[p]) /\ ~seats'[p].away
  BY <1>2, <1>3 DEF Seat, ScoreOf
<1>5. DOMAIN tanks' = DOMAIN tanks /\ \A r \in DOMAIN tanks : r # s => tanks'[r] = tanks[r]
  BY <1>1
<1>6. ASSUME Built
      PROVE  /\ tanks'[s] \in Tank /\ Sound(tanks'[s]) /\ Advances(tanks[s], tanks'[s])
             /\ tanks'[s].player = tanks[s].player
             /\ phase = "playing" =>
                  /\ tanks'[s].away <=> seats'[p].away
                  /\ ~tanks'[s].away => ScoreOf(tanks'[s]) = ScoreOf(seats[p])
  <2>1. /\ s \in Slots /\ s # NoTank /\ s \in DOMAIN tanks
        /\ tanks[s] \in Tank /\ Sound(tanks[s]) /\ tanks[s].human
    BY <1>1, <1>6, BuiltRound, NoTankIsNoSlot
  <2>2. tanks'[s] = u
    BY <1>1, <2>1
  <2> DEFINE v == ToPlayer(tanks[s])
  <2>3. /\ v \in Tank /\ Sound(v) /\ Advances(tanks[s], v)
        /\ v.player = tanks[s].player /\ ~v.away
    BY <2>1, ToPlayerIsSound
  <2>4. seats[p].kills \in Nat /\ seats[p].deaths \in Nat
    BY <1>2 DEF Seat
  <2> HIDE DEF v
  <2>5. /\ u \in Tank /\ Sound(u) /\ Driver(u) = Driver(v)
        /\ u.life = v.life /\ u.player = v.player /\ u.away = v.away
        /\ u.kills = seats[p].kills /\ u.deaths = seats[p].deaths
    <3>1. u = [v EXCEPT !.kills = seats[p].kills, !.deaths = seats[p].deaths]
      BY DEF v
    <3> HIDE DEF u
    <3> QED
      BY <2>3, <2>4, <3>1 DEF Tank, Sound, Driver, Person
  <2> HIDE DEF u, s
  <2>6. Advances(tanks[s], u)
    BY <2>3, <2>5 DEF Advances
  <2>7. ScoreOf(u) = ScoreOf(seats[p])
    BY <2>5 DEF ScoreOf
  <2> QED
    BY <1>4, <2>2, <2>3, <2>5, <2>6, <2>7
<1> QED
  BY <1>1, <1>3, <1>4, <1>5, <1>6, SeatChanges

-----------------------------------------------------------------------------
(* A round starts.                                                         *)

LEMMA FirstTankIsSound ==
  ASSUME NEW p \in Seated, p \in Players, seats[p] \in Seat
  PROVE  LET t == FirstTank(p) IN
         /\ t \in Tank /\ Sound(t) /\ t.player = p /\ (t.away <=> seats[p].out)
         /\ ~seats[p].out => t.life = 1 /\ Driver(t) = p
         /\ ~t.away => t.kills = 0 /\ t.deaths = 0
<1> DEFINE t == PlayersTank(p)
<1>1. p # Nobody
  BY NobodyIsNoPlayer
<1>2. /\ t \in Tank /\ t.player = p /\ t.human = TRUE /\ t.bot = FALSE /\ t.away = FALSE
      /\ t.driver = "human" /\ t.life = 1 /\ t.kills = 0 /\ t.deaths = 0
  <2>1. FillBot \in Tank
    BY DEF FillBot, Tank, Person
  <2>2. FillBot.life = 1 /\ FillBot.kills = 0 /\ FillBot.deaths = 0 /\ FillBot.away = FALSE
    BY DEF FillBot
  <2>3. t = [FillBot EXCEPT !.player = p, !.human = TRUE, !.bot = FALSE, !.driver = "human"]
    BY DEF PlayersTank
  <2>4. p \in Person
    BY DEF Person
  <2> HIDE DEF t
  <2> QED
    BY <2>1, <2>2, <2>3, <2>4 DEF Tank
<1>3. Sound(t) /\ Driver(t) = p
  BY <1>1, <1>2 DEF Sound, Driver
<1> HIDE DEF t
<1>4. LET u == ToBot(t) IN u \in Tank /\ Sound(u) /\ u.player = p /\ u.away
  BY <1>2, <1>3, ToBotIsSound
<1>5. CASE seats[p].out
  BY <1>4, <1>5 DEF FirstTank, t
<1>6. CASE ~seats[p].out
  BY <1>2, <1>3, <1>6 DEF FirstTank, t
<1> QED
  BY <1>5, <1>6

LEMMA FillBotIsSound == FillBot \in Tank /\ Sound(FillBot) /\ FillBot.player = Nobody
BY DEF FillBot, Tank, Sound, Person

LEMMA StartKeeps ==
  ASSUME RoundInv, Start
  PROVE  RoundInv'
<1> DEFINE holder(s) == {p \in Seated : seats[p].slot = s}
<1>1. /\ phase' = "playing" /\ round' = round + 1 /\ round \in Nat
      /\ tanks' = [s \in Slots |-> IF holder(s) = {} THEN FillBot
                                   ELSE FirstTank(CHOOSE q \in holder(s) : TRUE)]
      /\ seats' = [p \in Seated |-> [seats[p] EXCEPT !.tank = seats[p].slot, !.away = seats[p].out,
                                                     !.kills = 0, !.deaths = 0]]
      /\ owners' = FirstOwners(tanks')
      /\ participants' = [p \in Seated |-> NoScore]
      /\ drivers' = WithLives([s \in Slots |-> <<>>], tanks')
      /\ lived' = [s \in Slots |-> {}]
      /\ earned' = [p \in Players |-> NothingEarned]
  BY DEF Start, RoundInv, TypeOK, SeatsTyped
<1>2. /\ Seated \subseteq Players /\ \A p \in Seated : seats[p] \in Seat
      /\ \A p, q \in Seated : seats[p].slot = seats[q].slot => p = q
  BY DEF RoundInv, TypeOK, SeatsTyped, SeatsInv
<1>3. Built' /\ round' \in Nat
  <2>1. \A n \in Nat : n + 1 > 0 /\ n + 1 \in Nat
    OBVIOUS
  <2> DEFINE n == round + 1
  <2>2. n > 0 /\ n \in Nat /\ round' = n
    BY <1>1, <2>1
  <2> HIDE DEF n
  <2> QED
    BY <2>2 DEF Built
<1>4. Seated' = Seated
  BY <1>1 DEF Seated
<1>5. ASSUME NEW p \in Seated
      PROVE  /\ seats'[p] \in Seat /\ seats'[p].slot = seats[p].slot /\ seats'[p].tank = seats[p].slot
             /\ (seats'[p].away <=> seats[p].out) /\ seats'[p].kills = 0 /\ seats'[p].deaths = 0
             /\ seats[p].slot \in Slots
  <2>1. seats'[p] = [seats[p] EXCEPT !.tank = seats[p].slot, !.away = seats[p].out,
                                     !.kills = 0, !.deaths = 0]
    BY <1>1
  <2>2. seats[p] \in Seat
    BY <1>2
  <2>3. seats[p].slot \in Slots /\ seats[p].out \in BOOLEAN
    BY <2>2 DEF Seat
  <2>4. seats'[p] \in Seat
    <3>1. seats'[p] = [slot |-> seats[p].slot, tank |-> seats[p].slot, out |-> seats[p].out,
                       away |-> seats[p].out, kills |-> 0, deaths |-> 0]
      BY <2>1, <2>2 DEF Seat
    <3> QED
      BY <2>3, <3>1 DEF Seat
  <2>5. /\ seats'[p].slot = seats[p].slot /\ seats'[p].tank = seats[p].slot
        /\ seats'[p].away = seats[p].out /\ seats'[p].kills = 0 /\ seats'[p].deaths = 0
    BY <2>1, <2>2 DEF Seat
  <2> QED
    BY <2>3, <2>4, <2>5
<1>6. ASSUME NEW p \in Seated
      PROVE  LET t == tanks'[seats[p].slot] IN
             /\ t \in Tank /\ Sound(t) /\ t.player = p /\ (t.away <=> seats[p].out)
             /\ ~seats[p].out => t.life = 1 /\ Driver(t) = p
             /\ ~t.away => t.kills = 0 /\ t.deaths = 0
  <2>1. holder(seats[p].slot) = {p}
    BY <1>2
  <2>2. (CHOOSE q \in holder(seats[p].slot) : TRUE) = p
    BY <2>1
  <2> HIDE DEF holder
  <2>3. tanks'[seats[p].slot] = FirstTank(p)
    BY <1>1, <1>5, <2>1, <2>2
  <2> QED
    BY <1>2, <2>3, FirstTankIsSound
<1>7. ASSUME NEW s \in Slots, ~\E p \in Seated : seats[p].slot = s
      PROVE  tanks'[s] \in Tank /\ Sound(tanks'[s]) /\ tanks'[s].player = Nobody
  <2>1. holder(s) = {}
    BY <1>7
  <2> HIDE DEF holder
  <2>2. tanks'[s] = FillBot
    BY <1>1, <2>1
  <2> QED
    BY <2>2, FillBotIsSound
<1>8. DOMAIN tanks' = Slots
  BY <1>1
<1>9. ASSUME NEW s \in Slots
      PROVE  /\ tanks'[s] \in Tank /\ Sound(tanks'[s])
             /\ tanks'[s].player # Nobody =>
                  tanks'[s].player \in Seated /\ seats'[tanks'[s].player].tank = s
  <2>1. CASE \E p \in Seated : seats[p].slot = s
    <3>1. PICK p \in Seated : seats[p].slot = s
      BY <2>1
    <3> QED
      BY <1>5, <1>6, <3>1
  <2>2. CASE ~\E p \in Seated : seats[p].slot = s
    BY <1>7, <2>2
  <2> QED
    BY <2>1, <2>2
<1> HIDE DEF holder
<1>10. /\ DOMAIN drivers' = Slots
       /\ \A s \in Slots : drivers'[s] \in Seq(Person) /\ Chronicles(drivers'[s], tanks'[s])
       /\ \A s \in Slots : \A i \in 1..Len(drivers'[s]) : drivers'[s][i] = Driver(tanks'[s])
  <2> DEFINE known == [s \in Slots |-> <<>>]
  <2>1. \A s \in DOMAIN tanks' : known[s] = <<>>
    BY <1>8
  <2>2. \A s \in DOMAIN tanks' : tanks'[s] \in Tank /\ Sound(tanks'[s])
    BY <1>8, <1>9
  <2>3. drivers' = WithLives(known, tanks')
    BY <1>1
  <2> HIDE DEF known
  <2>4. /\ DOMAIN drivers' = DOMAIN tanks'
        /\ \A s \in DOMAIN tanks' : drivers'[s] \in Seq(Person) /\ Chronicles(drivers'[s], tanks'[s])
        /\ NewLives(drivers', known, tanks')
    BY <2>1, <2>2, <2>3, LivesBegin
  <2>5. ASSUME NEW s \in Slots, NEW i \in 1..Len(drivers'[s])
        PROVE  drivers'[s][i] = Driver(tanks'[s])
    <3>1. i \notin 1..Len(known[s])
      BY <1>8, <2>1
    <3> QED
      BY <1>8, <2>4, <3>1 DEF NewLives
  <2> QED
    BY <1>8, <2>4, <2>5
<1>11. ASSUME NEW k \in DOMAIN owners'
       PROVE  /\ k \in Slots \X Nat
              /\ k[2] \in 1..Len(drivers'[k[1]]) /\ owners'[k] = drivers'[k[1]][k[2]]
  <2>1. PICK p \in {q \in Seated : ~seats[q].out} : k = <<seats[p].slot, 1>>
    BY <1>1 DEF FirstOwners
  <2>2. owners'[k] = tanks'[k[1]].player
    BY <1>1 DEF FirstOwners
  <2>3. k[1] = seats[p].slot /\ k[2] = 1 /\ k[1] \in Slots /\ k \in Slots \X Nat
    BY <1>5, <2>1
  <2>4. tanks'[k[1]].player = p /\ tanks'[k[1]].life = 1 /\ Driver(tanks'[k[1]]) = p
    BY <1>6, <2>1, <2>3
  <2>5. Len(drivers'[k[1]]) = 1 /\ drivers'[k[1]][1] = p
    BY <1>10, <2>3, <2>4 DEF Chronicles
  <2> QED
    BY <2>2, <2>3, <2>4, <2>5
<1>12. TanksTyped'
  BY <1>1, <1>3, <1>8, <1>9, <1>10, <1>11 DEF TanksTyped
<1>13. LivesInv'
  BY <1>1, <1>8, <1>10, <1>11 DEF LivesInv
<1>14. DOMAIN participants' = Seated /\ \A p \in Seated : participants'[p] = NoScore
  BY <1>1
<1>15. \A p \in Players : earned'[p] = NothingEarned
  BY <1>1
<1>16. OnBoard'
  <2>1. \A s \in Slots : Driver(tanks'[s]) \in {tanks'[s].player, Nobody}
    BY <1>9, WhoDrives
  <2>2. \A s \in Slots : tanks'[s].player \in Seated \cup {Nobody}
    BY <1>9
  <2>3. \A p \in Players : earned'[p].kills = 0 /\ earned'[p].sure = 0
    BY <1>15 DEF NothingEarned
  <2> QED
    BY <1>8, <1>10, <1>14, <2>1, <2>2, <2>3 DEF OnBoard
<1>17. SeatsTyped'
  BY <1>1, <1>2, <1>3, <1>4, <1>5 DEF SeatsTyped
<1>18. ScoresTyped'
  <2>1. NoScore \in Score /\ NothingEarned \in [kills : Nat, sure : Nat, deaths : Nat]
    BY DEF NoScore, Score, NothingEarned
  <2> QED
    BY <1>1, <1>2, <1>14, <2>1 DEF ScoresTyped
<1>19. SeatsInv'
  <2>1. \A p, q \in Seated : seats'[p].slot = seats'[q].slot => p = q
    BY <1>2, <1>5
  <2>2. \A p \in Seated : seats'[p].tank # NoTank
    BY <1>5, NoTankIsNoSlot
  <2> QED
    BY <1>3, <1>4, <1>8, <1>9, <2>1, <2>2 DEF SeatsInv
<1>20. InPlay'
  BY <1>4, <1>5, <1>6, <1>9 DEF InPlay
<1>21. ScoreIsShown'
  <2>1. ASSUME NEW p \in Seated
        PROVE  /\ participants'[p] = ScoreOf(seats'[p])
               /\ ~seats'[p].away => ScoreOf(tanks'[seats'[p].tank]) = ScoreOf(seats'[p])
    BY <1>5, <1>6, <1>14 DEF ScoreOf, NoScore
  <2> QED
    BY <1>4, <1>14, <2>1 DEF ScoreIsShown
<1>22. KillsAreCredited'
  <2>1. ASSUME NEW p \in Seated
        PROVE  participants'[p].kills \in earned'[p].sure..earned'[p].kills
    <3>1. p \in Players /\ participants'[p].kills = 0 /\ earned'[p].sure = 0 /\ earned'[p].kills = 0
      BY <1>2, <1>14, <1>15 DEF NoScore, NothingEarned
    <3> QED
      BY <3>1
  <2> QED
    BY <1>14, <2>1 DEF KillsAreCredited
<1> QED
  BY <1>12, <1>13, <1>16, <1>17, <1>18, <1>19, <1>20, <1>21, <1>22 DEF RoundInv, TypeOK

-----------------------------------------------------------------------------
(* A tick.                                                                 *)

\* A bot stands in for the players who are silent.
LEMMA BeforeIsSound ==
  ASSUME RoundInv, phase = "playing", NEW silent \in SUBSET Seated,
         NEW before, before = StandIns(silent)
  PROVE  /\ \A s \in Slots :
              /\ before[s] \in Tank /\ Sound(before[s]) /\ Advances(tanks[s], before[s])
              /\ before[s].player = tanks[s].player
         /\ \A p \in Seated : before[seats[p].tank].away <=> (seats[p].away \/ p \in silent)
<1>1. Built
  BY DEF RoundInv, TypeOK, SeatsTyped
<1>2. /\ DOMAIN tanks = Slots
      /\ \A q \in Seated : seats[q].tank \in Slots
      /\ \A r \in Slots : tanks[r] \in Tank /\ Sound(tanks[r])
  BY <1>1, BuiltRound
<1>3. ASSUME NEW s \in Slots
      PROVE  /\ before[s] \in Tank /\ Sound(before[s]) /\ Advances(tanks[s], before[s])
             /\ before[s].player = tanks[s].player
             /\ before[s].away <=> IF \E p \in silent : seats[p].tank = s THEN tanks[s].human
                                   ELSE tanks[s].away
  <2>1. CASE \E p \in silent : seats[p].tank = s
    <3>1. before[s] = ToBot(tanks[s])
      BY <2>1 DEF StandIns
    <3> QED
      BY <1>2, <2>1, <3>1, ToBotIsSound
  <2>2. CASE ~\E p \in silent : seats[p].tank = s
    <3>1. before[s] = tanks[s]
      BY <2>2 DEF StandIns
    <3> QED
      BY <1>2, <2>2, <3>1, StayingAdvances
  <2> QED
    BY <2>1, <2>2
<1>4. ASSUME NEW p \in Seated
      PROVE  before[seats[p].tank].away <=> (seats[p].away \/ p \in silent)
  <2>1. /\ tanks[seats[p].tank].player = p /\ (tanks[seats[p].tank].away <=> seats[p].away)
        /\ seats[p].tank \in Slots
    BY <1>2 DEF RoundInv, InPlay
  <2>2. \A q \in Seated : seats[q].tank = seats[p].tank => q = p
    BY DEF RoundInv, InPlay, SeatsInv
  <2>3. p # Nobody
    BY NobodyIsNoPlayer DEF RoundInv, TypeOK, SeatsTyped
  <2>4. tanks[seats[p].tank].human /\ (tanks[seats[p].tank].away => tanks[seats[p].tank].human)
    BY <1>2, <2>1, <2>3 DEF Sound
  <2> QED
    BY <1>3, <2>1, <2>2, <2>4
<1> QED
  BY <1>3, <1>4

\* A kill, a death or a respawn changes no driver.
LEMMA StruckIsSound ==
  ASSUME NEW t \in Tank, Sound(t), NEW u,
         u.human = t.human, u.bot = t.bot, u.driver = t.driver,
         u.player = t.player, u.away = t.away, u.life >= t.life
  PROVE  Sound(u) /\ Driver(u) = Driver(t) /\ Advances(t, u)
BY DEF Sound, Driver, Advances

LEMMA CountedIsNat ==
  ASSUME NEW D \in SUBSET Slots, NEW T \in SUBSET D
  PROVE  IsFiniteSet(T) /\ Cardinality(T) \in Nat
<1>1. IsFiniteSet(Slots) /\ T \in SUBSET Slots
  BY ConstantsAssumption
<1>2. IsFiniteSet(T)
  BY <1>1, FS_Subset
<1> QED
  BY <1>2, FS_CardinalityType

LEMMA FewerCount ==
  ASSUME NEW D \in SUBSET Slots, NEW T \in SUBSET D, NEW U \in SUBSET T
  PROVE  Cardinality(U) <= Cardinality(T)
BY CountedIsNat, FS_Subset

LEMMA AfterIsSound ==
  ASSUME NEW ts, \A s \in Slots : ts[s] \in Tank /\ Sound(ts[s]),
         NEW deaths, DOMAIN deaths \subseteq Slots, NEW back
  PROVE  LET after == Respawned(ts, deaths, back) IN
         \A s \in Slots :
           /\ after[s] \in Tank /\ Sound(after[s]) /\ Driver(after[s]) = Driver(ts[s])
           /\ Advances(ts[s], after[s])
           /\ after[s].player = ts[s].player /\ after[s].away = ts[s].away
<1> DEFINE after == Respawned(ts, deaths, back)
<1> SUFFICES ASSUME NEW s \in Slots
             PROVE  /\ after[s] \in Tank /\ Sound(after[s]) /\ Driver(after[s]) = Driver(ts[s])
                    /\ Advances(ts[s], after[s])
                    /\ after[s].player = ts[s].player /\ after[s].away = ts[s].away
  OBVIOUS
<1> DEFINE i == IfSo(s \in DOMAIN deaths)
           k == KillsOf(deaths, s)
           a == (ts[s].alive /\ s \notin DOMAIN deaths) \/ s \in back
<1>1. i \in {0, 1} /\ a \in BOOLEAN
  BY DEF IfSo
<1>2. k \in Nat
  <2>1. {v \in DOMAIN deaths : v # s /\ deaths[v].owner = s} \in SUBSET DOMAIN deaths
    OBVIOUS
  <2> QED
    BY <2>1, CountedIsNat DEF KillsOf
<1>3. ts[s] \in Tank /\ Sound(ts[s])
  OBVIOUS
<1>4. /\ after[s] \in Tank /\ after[s].life = ts[s].life + i
      /\ after[s].human = ts[s].human /\ after[s].bot = ts[s].bot /\ after[s].driver = ts[s].driver
      /\ after[s].player = ts[s].player /\ after[s].away = ts[s].away
  <2> DEFINE t == ts[s]
  <2>1. after[s] = [Killed(ts, deaths)[s] EXCEPT !.alive = @ \/ s \in back]
    BY DEF Respawned
  <2>2. Killed(ts, deaths)[s] =
          [t EXCEPT !.alive = @ /\ s \notin DOMAIN deaths, !.life = @ + i, !.deaths = @ + i,
                    !.kills = @ + k]
    BY DEF Killed
  <2>3. t \in Tank
    BY <1>3
  <2> HIDE DEF i, k, after, t
  <2>4. after[s] = [t EXCEPT !.alive = a, !.life = t.life + i, !.deaths = t.deaths + i,
                             !.kills = t.kills + k]
    BY <2>1, <2>2, <2>3 DEF Tank, t
  <2>5. t.life + i \in Nat \ {0} /\ t.deaths + i \in Nat /\ t.kills + k \in Nat
    <3>1. t.life \in Nat \ {0} /\ t.deaths \in Nat /\ t.kills \in Nat
      BY <2>3 DEF Tank
    <3> QED
      BY <1>1, <1>2, <3>1
  <2> HIDE DEF a
  <2>6. after[s] \in Tank
    BY <1>1, <2>3, <2>4, <2>5 DEF Tank
  <2>7. /\ after[s].life = t.life + i
        /\ after[s].human = t.human /\ after[s].bot = t.bot /\ after[s].driver = t.driver
        /\ after[s].player = t.player /\ after[s].away = t.away
    BY <2>3, <2>4 DEF Tank
  <2> QED
    BY <2>6, <2>7 DEF t
<1> HIDE DEF after, a, i, k
<1>5. after[s].life >= ts[s].life
  <2>1. ts[s].life \in Nat
    BY <1>3 DEF Tank
  <2> QED
    BY <1>1, <1>4, <2>1
<1> QED
  BY <1>3, <1>4, <1>5, StruckIsSound

\* The tank of a seat shows its score.
LEMMA ShownIsSound ==
  ASSUME NEW ts, \A s \in Slots : ts[s] \in Tank /\ Sound(ts[s]),
         NEW ss, \A p \in DOMAIN ss : ss[p] \in Seat
  PROVE  LET shown == Shown(ts, ss) IN
         /\ DOMAIN shown = Slots
         /\ \A s \in Slots :
              /\ shown[s] \in Tank /\ Sound(shown[s]) /\ Driver(shown[s]) = Driver(ts[s])
              /\ Advances(ts[s], shown[s])
              /\ shown[s].player = ts[s].player /\ shown[s].away = ts[s].away
         /\ \A p \in DOMAIN ss :
              (ss[p].tank \in Slots /\ ~ts[ss[p].tank].away
                /\ \A q \in DOMAIN ss : ss[q].tank = ss[p].tank => q = p)
                => ScoreOf(shown[ss[p].tank]) = ScoreOf(ss[p])
<1> DEFINE shown == Shown(ts, ss)
           mine(s) == {p \in DOMAIN ss : ss[p].tank = s}
           seat(s) == ss[CHOOSE p \in mine(s) : TRUE]
<1>1. DOMAIN shown = Slots
  BY DEF Shown
<1>2. ASSUME NEW s \in Slots
      PROVE  shown[s] = IF mine(s) = {} \/ ts[s].away THEN ts[s]
                        ELSE [ts[s] EXCEPT !.kills = seat(s).kills, !.deaths = seat(s).deaths]
  BY DEF Shown
<1>3. ASSUME NEW s \in Slots, mine(s) # {}
      PROVE  seat(s).kills \in Nat /\ seat(s).deaths \in Nat
  <2>1. (CHOOSE p \in mine(s) : TRUE) \in DOMAIN ss
    BY <1>3
  <2>2. seat(s) \in Seat
    BY <2>1
  <2> HIDE DEF seat
  <2> QED
    BY <2>2 DEF Seat
<1>4. ASSUME NEW p \in DOMAIN ss, ss[p].tank \in Slots, ~ts[ss[p].tank].away,
             \A q \in DOMAIN ss : ss[q].tank = ss[p].tank => q = p
      PROVE  ScoreOf(shown[ss[p].tank]) = ScoreOf(ss[p])
  <2> DEFINE s == ss[p].tank
  <2>1. mine(s) = {p}
    BY <1>4
  <2>2. seat(s) = ss[p]
    BY <2>1
  <2>3. shown[s] = [ts[s] EXCEPT !.kills = ss[p].kills, !.deaths = ss[p].deaths]
    <3>1. s \in Slots /\ ~ts[s].away /\ mine(s) # {}
      BY <1>4, <2>1
    <3> HIDE DEF shown, s, mine, seat
    <3>2. shown[s] = [ts[s] EXCEPT !.kills = seat(s).kills, !.deaths = seat(s).deaths]
      BY <1>2, <3>1
    <3> QED
      BY <2>2, <3>2
  <2>4. ts[s] \in Tank
    BY <1>4
  <2> HIDE DEF shown, s, mine, seat
  <2>5. shown[s].kills = ss[p].kills /\ shown[s].deaths = ss[p].deaths
    BY <2>3, <2>4 DEF Tank
  <2> QED
    BY <2>5 DEF ScoreOf, s
<1> HIDE DEF mine, seat
<1>5. ASSUME NEW s \in Slots
      PROVE  /\ shown[s] \in Tank /\ Sound(shown[s]) /\ Driver(shown[s]) = Driver(ts[s])
             /\ Advances(ts[s], shown[s])
             /\ shown[s].player = ts[s].player /\ shown[s].away = ts[s].away
  <2>1. ts[s] \in Tank /\ Sound(ts[s]) /\ ts[s].life >= ts[s].life
    BY DEF Tank
  <2>2. CASE mine(s) = {} \/ ts[s].away
    BY <1>2, <2>1, <2>2, StayingAdvances
  <2>3. CASE ~(mine(s) = {} \/ ts[s].away)
    <3> DEFINE t == ts[s]
               k == seat(s).kills
               d == seat(s).deaths
    <3>1. t \in Tank /\ k \in Nat /\ d \in Nat
      BY <1>3, <2>1, <2>3
    <3>2. shown[s] = [t EXCEPT !.kills = k, !.deaths = d]
      BY <1>2, <2>3
    <3> HIDE DEF shown, t, k, d
    <3>3. shown[s] \in Tank
      BY <3>1, <3>2 DEF Tank
    <3>4. /\ shown[s].life = t.life
          /\ shown[s].human = t.human /\ shown[s].bot = t.bot /\ shown[s].driver = t.driver
          /\ shown[s].player = t.player /\ shown[s].away = t.away
      BY <3>1, <3>2 DEF Tank
    <3> QED
      BY <2>1, <3>3, <3>4, StruckIsSound DEF t
  <2> QED
    BY <2>2, <2>3
<1> QED
  BY <1>1, <1>4, <1>5

\* What is fired is of a life that was or is.
LEMMA DeathsAre ==
  ASSUME NEW ts, NEW deaths \in DeathsInTick(ts)
  PROVE  /\ DOMAIN deaths \subseteq Slots
         /\ \A v \in DOMAIN deaths :
              /\ deaths[v].owner \in Slots
              /\ \/ deaths[v].life \in lived[deaths[v].owner]
                 \/ deaths[v].life = ts[deaths[v].owner].life
<1>1. PICK victims \in SUBSET {s \in Slots : ts[s].alive} : deaths \in [victims -> Shots(ts)]
  BY DEF DeathsInTick
<1>2. DOMAIN deaths = victims /\ \A v \in victims : deaths[v] \in Shots(ts)
  BY <1>1
<1> QED
  BY <1>1, <1>2 DEF Shots

\* The kills a tick credits are some of those made, and all of those of lives that saw
\* the end of a tick.
LEMMA CreditsAreEarned ==
  ASSUME TypeOK, LivesInv, Built,
         NEW known, Extends(known, drivers, Slots), NEW ts,
         NEW deaths, DOMAIN deaths \subseteq Slots,
         \A v \in DOMAIN deaths : deaths[v].owner \in Slots,
         NEW p \in Players
  PROVE  /\ Cardinality(KillersOf(known, deaths, p)) \in Nat
         /\ Cardinality(SureOf(known, deaths, p)) \in Nat
         /\ Credits(ts, deaths, p) \in Nat
         /\ Cardinality(SureOf(known, deaths, p)) <= Credits(ts, deaths, p)
         /\ Credits(ts, deaths, p) <= Cardinality(KillersOf(known, deaths, p))
         /\ Credits(ts, deaths, p) # 0 => Cardinality(KillersOf(known, deaths, p)) # 0
<1> DEFINE killers == {v \in DOMAIN deaths :
                         deaths[v].owner # v /\ known[deaths[v].owner][deaths[v].life] = p}
           lives == {v \in killers : deaths[v].life \in lived[deaths[v].owner]}
           credited == {v \in DOMAIN deaths : OwnerOf(ts, deaths, v) = p}
<1>0. killers = KillersOf(known, deaths, p) /\ lives = SureOf(known, deaths, p)
  BY DEF KillersOf, SureOf
<1>1. p # Nobody
  BY NobodyIsNoPlayer
<1>2. DOMAIN tanks = Slots /\ DOMAIN owners \subseteq Slots \X Nat
  BY DEF TypeOK, TanksTyped
<1>3. ASSUME NEW v \in credited
      PROVE  v \in killers
  <2> DEFINE k == <<deaths[v].owner, deaths[v].life>>
  <2>1. k \in DOMAIN owners /\ deaths[v].owner # v /\ owners[k] = p
    BY <1>1 DEF OwnerOf
  <2>2. k[1] = deaths[v].owner /\ k[2] = deaths[v].life
    OBVIOUS
  <2> HIDE DEF k
  <2>3. k[2] \in 1..Len(drivers[k[1]]) /\ drivers[k[1]][k[2]] = p
    BY <2>1 DEF LivesInv
  <2>4. known[k[1]][k[2]] = p
    BY <2>2, <2>3 DEF Extends
  <2> QED
    BY <2>1, <2>2, <2>4
<1>4. ASSUME NEW v \in lives
      PROVE  v \in credited
  <2> DEFINE s == deaths[v].owner
             l == deaths[v].life
  <2>1. s \in Slots /\ l \in lived[s] /\ known[s][l] = p /\ s # v
    OBVIOUS
  <2>2. l \in 1..Len(drivers[s]) /\ (drivers[s][l] # Nobody => <<s, l>> \in DOMAIN owners)
    BY <1>2, <2>1 DEF LivesInv
  <2>3. drivers[s][l] = p
    BY <2>1, <2>2 DEF Extends
  <2>4. <<s, l>> \in DOMAIN owners
    BY <1>1, <2>2, <2>3
  <2>5. owners[<<s, l>>] = p
    <3> DEFINE k == <<s, l>>
    <3>1. k[1] = s /\ k[2] = l
      OBVIOUS
    <3>2. owners[k] = drivers[k[1]][k[2]]
      BY <2>4 DEF LivesInv
    <3> QED
      BY <2>3, <3>1, <3>2
  <2> QED
    BY <2>1, <2>4, <2>5 DEF OwnerOf
<1>5. killers \in SUBSET DOMAIN deaths /\ credited \in SUBSET killers /\ lives \in SUBSET credited
  BY <1>3, <1>4
<1>6. /\ lives \in SUBSET DOMAIN deaths /\ credited \in SUBSET DOMAIN deaths
      /\ DOMAIN deaths \in SUBSET Slots
  BY <1>5
<1>7. Credits(ts, deaths, p) = Cardinality(credited)
  BY DEF Credits
<1> HIDE DEF killers, lives, credited
<1>8. /\ Cardinality(killers) \in Nat /\ Cardinality(lives) \in Nat /\ Cardinality(credited) \in Nat
  BY <1>5, <1>6, CountedIsNat
<1>9. Cardinality(lives) <= Cardinality(credited) /\ Cardinality(credited) <= Cardinality(killers)
  BY <1>5, <1>6, FewerCount
<1>10. Cardinality(credited) # 0 => Cardinality(killers) # 0
  BY <1>8, <1>9
<1> QED
  BY <1>0, <1>7, <1>8, <1>9, <1>10

LEMMA TickKeeps ==
  ASSUME RoundInv, Tick
  PROVE  RoundInv'
<1>1. PICK silent \in SUBSET {p \in Seated : ~seats[p].away},
           back \in SUBSET {s \in Slots : ~tanks[s].alive} :
        LET before == StandIns(silent)
            known == WithLives(drivers, before) IN
        \E deaths \in DeathsInTick(before) :
          LET after == Respawned(before, deaths, back)
              scored == SeatsAfter(after, Taken(silent), deaths) IN
            /\ seats' = scored
            /\ participants' = [p \in DOMAIN participants |->
                                  IF p \in Seated THEN ScoreOf(scored[p]) ELSE DepartedAfter(after, deaths, p)]
            /\ tanks' = Shown(after, scored)
            /\ owners' = Remembered(tanks', {seats[p].tank : p \in Seated})
            /\ drivers' = WithLives(known, tanks')
            /\ earned' = EarnedAfter(before, known, deaths)
            /\ lived' = [s \in Slots |-> lived[s] \cup {tanks'[s].life}]
  BY ZenonT(30) DEF Tick
<1> DEFINE before == StandIns(silent)
           known == WithLives(drivers, before)
<1>2. PICK deaths \in DeathsInTick(before) :
        LET after == Respawned(before, deaths, back)
            scored == SeatsAfter(after, Taken(silent), deaths) IN
        /\ seats' = scored
        /\ participants' = [p \in DOMAIN participants |->
                              IF p \in Seated THEN ScoreOf(scored[p]) ELSE DepartedAfter(after, deaths, p)]
        /\ tanks' = Shown(after, scored)
        /\ owners' = Remembered(tanks', {seats[p].tank : p \in Seated})
        /\ drivers' = WithLives(known, tanks')
        /\ earned' = EarnedAfter(before, known, deaths)
        /\ lived' = [s \in Slots |-> lived[s] \cup {tanks'[s].life}]
  BY <1>1
<1> DEFINE after == Respawned(before, deaths, back)
<1>3. /\ seats' = SeatsAfter(after, Taken(silent), deaths)
      /\ participants' = [p \in DOMAIN participants |->
                            IF p \in Seated THEN ScoreOf(seats'[p]) ELSE DepartedAfter(after, deaths, p)]
      /\ tanks' = Shown(after, seats')
      /\ owners' = Remembered(tanks', {seats[p].tank : p \in Seated})
      /\ drivers' = WithLives(known, tanks')
      /\ earned' = EarnedAfter(before, known, deaths)
      /\ lived' = [s \in Slots |-> lived[s] \cup {tanks'[s].life}]
  BY <1>2
<1>4. phase = "playing" /\ phase' = phase /\ round' = round /\ Built /\ Built'
  BY DEF Tick, RoundInv, TypeOK, SeatsTyped, Built
<1>5. /\ TypeOK /\ SeatsInv /\ InPlay /\ LivesInv /\ OnBoard
      /\ Seated \subseteq Players
      /\ DOMAIN tanks = Slots
      /\ \A q \in Seated : seats[q] \in Seat /\ seats[q].tank \in Slots
      /\ \A r \in Slots : tanks[r] \in Tank /\ Sound(tanks[r])
      /\ \A q \in Seated : q \in DOMAIN participants /\ participants[q] = ScoreOf(seats[q])
  BY <1>4, BuiltRound DEF RoundInv, TypeOK, SeatsTyped
<1>6. ASSUME NEW p \in Seated
      PROVE  /\ seats[p].tank = seats[p].slot /\ tanks[seats[p].tank].player = p
             /\ \A q \in Seated : seats[q].tank = seats[p].tank => q = p
  BY <1>4, <1>5 DEF InPlay, SeatsInv
<1>7. /\ \A s \in Slots :
           /\ before[s] \in Tank /\ Sound(before[s]) /\ Advances(tanks[s], before[s])
           /\ before[s].player = tanks[s].player
      /\ \A p \in Seated : before[seats[p].tank].away <=> (seats[p].away \/ p \in silent)
  <2>1. silent \in SUBSET Seated /\ RoundInv /\ phase = "playing"
    BY <1>4
  <2> HIDE DEF before
  <2>2. \A b : b = StandIns(silent) =>
          /\ \A s \in Slots :
               /\ b[s] \in Tank /\ Sound(b[s]) /\ Advances(tanks[s], b[s])
               /\ b[s].player = tanks[s].player
          /\ \A p \in Seated : b[seats[p].tank].away <=> (seats[p].away \/ p \in silent)
    BY <2>1, BeforeIsSound
  <2> QED
    BY <2>2 DEF before
<1>8. DOMAIN before = Slots
  BY DEF StandIns
<1> HIDE DEF before
<1>9. /\ DOMAIN deaths \subseteq Slots
      /\ \A v \in DOMAIN deaths :
           /\ deaths[v].owner \in Slots
           /\ \/ deaths[v].life \in lived[deaths[v].owner]
              \/ deaths[v].life = before[deaths[v].owner].life
  BY DeathsAre
<1>10. \A s \in Slots :
         /\ after[s] \in Tank /\ Sound(after[s]) /\ Driver(after[s]) = Driver(before[s])
         /\ Advances(before[s], after[s])
         /\ after[s].player = before[s].player /\ after[s].away = before[s].away
  BY <1>7, <1>9, AfterIsSound
<1> HIDE DEF after
<1>11. /\ DOMAIN known = Slots
       /\ \A s \in Slots : known[s] \in Seq(Person) /\ Chronicles(known[s], before[s])
       /\ Extends(known, drivers, Slots) /\ NewLives(known, drivers, before)
  <2>1. \A s \in DOMAIN before :
          /\ drivers[s] \in Seq(Person) /\ tanks[s] \in Tank /\ Chronicles(drivers[s], tanks[s])
          /\ before[s] \in Tank /\ Sound(before[s]) /\ Advances(tanks[s], before[s])
    BY <1>5, <1>7, <1>8 DEF TypeOK, TanksTyped, LivesInv
  <2> QED
    BY <1>8, <2>1, LivesGoOn
<1> HIDE DEF known
<1>12. ASSUME NEW p \in Players
       PROVE  /\ Cardinality(KillersOf(known, deaths, p)) \in Nat
              /\ Cardinality(SureOf(known, deaths, p)) \in Nat
              /\ Credits(after, deaths, p) \in Nat
              /\ Cardinality(SureOf(known, deaths, p)) <= Credits(after, deaths, p)
              /\ Credits(after, deaths, p) <= Cardinality(KillersOf(known, deaths, p))
              /\ Credits(after, deaths, p) # 0 => Cardinality(KillersOf(known, deaths, p)) # 0
  BY <1>4, <1>5, <1>9, <1>11, CreditsAreEarned
<1>13. Seated' = Seated
  BY <1>3 DEF SeatsAfter, Taken, Seated
<1>14. ASSUME NEW p \in Seated
       PROVE  /\ seats'[p] \in Seat /\ seats'[p].slot = seats[p].slot /\ seats'[p].tank = seats[p].tank
              /\ (seats'[p].away <=> (seats[p].away \/ p \in silent))
              /\ seats'[p].kills = seats[p].kills + Credits(after, deaths, p)
  <2> DEFINE t == Taken(silent)[p]
             d == IfSo(Victim(after, deaths, t.tank))
             k == Credits(after, deaths, p)
  <2>1. seats[p] \in Seat /\ k \in Nat /\ d \in Nat
    BY <1>5, <1>12 DEF IfSo
  <2>2. t = [seats[p] EXCEPT !.away = @ \/ p \in silent] /\ DOMAIN Taken(silent) = Seated
    BY DEF Taken
  <2>3. seats'[p] = [t EXCEPT !.deaths = @ + d, !.kills = @ + k]
    BY <1>3, <2>2 DEF SeatsAfter
  <2> HIDE DEF d, k
  <2>4. /\ t \in Seat /\ t.slot = seats[p].slot /\ t.tank = seats[p].tank
        /\ (t.away <=> (seats[p].away \/ p \in silent)) /\ t.kills = seats[p].kills
    BY <2>1, <2>2 DEF Seat
  <2> HIDE DEF t
  <2>5. t.deaths + d \in Nat /\ t.kills + k \in Nat
    <3>1. t.deaths \in Nat /\ t.kills \in Nat
      BY <2>4 DEF Seat
    <3> QED
      BY <2>1, <3>1
  <2>6. seats'[p] = [t EXCEPT !.deaths = t.deaths + d, !.kills = t.kills + k]
    BY <2>3
  <2>7. seats'[p] \in Seat
    BY <2>4, <2>5, <2>6 DEF Seat
  <2>8. /\ seats'[p].slot = t.slot /\ seats'[p].tank = t.tank /\ seats'[p].away = t.away
        /\ seats'[p].kills = t.kills + k
    BY <2>4, <2>6 DEF Seat
  <2> QED
    BY <2>4, <2>7, <2>8 DEF k
<1>15. /\ DOMAIN tanks' = Slots
       /\ \A s \in Slots :
            /\ tanks'[s] \in Tank /\ Sound(tanks'[s]) /\ Driver(tanks'[s]) = Driver(before[s])
            /\ Advances(before[s], tanks'[s])
            /\ tanks'[s].player = tanks[s].player /\ tanks'[s].away = before[s].away
       /\ \A p \in Seated : ~seats'[p].away => ScoreOf(tanks'[seats[p].tank]) = ScoreOf(seats'[p])
  <2> DEFINE ss == seats'
  <2>1. tanks' = Shown(after, ss)
    BY <1>3
  <2>2. DOMAIN ss = Seated /\ \A p \in DOMAIN ss : ss[p] \in Seat /\ ss[p].tank = seats[p].tank
    BY <1>13, <1>14 DEF Seated
  <2>3. \A p \in DOMAIN ss : ss[p].away <=> (seats[p].away \/ p \in silent)
    BY <1>13, <1>14 DEF Seated
  <2> HIDE DEF ss
  <2>4. \A s \in Slots : after[s] \in Tank /\ Sound(after[s])
    BY <1>10
  <2>5. /\ DOMAIN tanks' = Slots
        /\ \A s \in Slots :
             /\ tanks'[s] \in Tank /\ Sound(tanks'[s]) /\ Driver(tanks'[s]) = Driver(after[s])
             /\ Advances(after[s], tanks'[s])
             /\ tanks'[s].player = after[s].player /\ tanks'[s].away = after[s].away
        /\ \A p \in DOMAIN ss :
             (ss[p].tank \in Slots /\ ~after[ss[p].tank].away
               /\ \A q \in DOMAIN ss : ss[q].tank = ss[p].tank => q = p)
               => ScoreOf(tanks'[ss[p].tank]) = ScoreOf(ss[p])
    BY <2>1, <2>2, <2>4, ShownIsSound
  <2>6. ASSUME NEW s \in Slots
        PROVE  Advances(before[s], tanks'[s])
    BY <1>7, <1>10, <2>5, AdvancesFurther
  <2>7. ASSUME NEW p \in Seated, ~ss[p].away
        PROVE  ScoreOf(tanks'[seats[p].tank]) = ScoreOf(ss[p])
    <3>1. seats[p].tank \in Slots /\ ss[p].tank = seats[p].tank /\ p \in DOMAIN ss
      BY <1>5, <2>2
    <3>2. ~after[seats[p].tank].away
      BY <1>7, <1>10, <2>3, <2>7, <3>1
    <3>3. \A q \in DOMAIN ss : ss[q].tank = ss[p].tank => q = p
      BY <1>6, <2>2, <3>1
    <3> QED
      BY <2>5, <3>1, <3>2, <3>3
  <2> QED
    BY <1>7, <1>10, <2>5, <2>6, <2>7 DEF ss
<1>16. /\ DOMAIN drivers' = Slots
       /\ \A s \in Slots : drivers'[s] \in Seq(Person) /\ Chronicles(drivers'[s], tanks'[s])
       /\ Extends(drivers', known, Slots) /\ NewLives(drivers', known, tanks')
       /\ Extends(drivers', drivers, Slots)
  <2>1. \A s \in DOMAIN tanks' :
          /\ known[s] \in Seq(Person) /\ before[s] \in Tank /\ Chronicles(known[s], before[s])
          /\ tanks'[s] \in Tank /\ Sound(tanks'[s]) /\ Advances(before[s], tanks'[s])
    BY <1>7, <1>11, <1>15
  <2>2. /\ DOMAIN drivers' = Slots
        /\ \A s \in Slots : drivers'[s] \in Seq(Person) /\ Chronicles(drivers'[s], tanks'[s])
        /\ Extends(drivers', known, Slots) /\ NewLives(drivers', known, tanks')
    BY <1>3, <1>15, <2>1, LivesGoOn
  <2> QED
    BY <1>11, <2>2, ExtendsFurther
<1>17. /\ DOMAIN owners \subseteq DOMAIN owners'
       /\ DOMAIN owners' \subseteq Slots \X Nat
       /\ OwnersOf(drivers', owners')
       /\ \A p \in Seated : Driver(tanks'[seats[p].tank]) # Nobody =>
            <<seats[p].tank, tanks'[seats[p].tank].life>> \in DOMAIN owners'
  <2> DEFINE S == {seats[p].tank : p \in Seated}
  <2>1. S \in SUBSET DOMAIN tanks /\ \A p \in Seated : seats[p].tank \in S
    BY <1>5
  <2>2. owners' = Remembered(tanks', S)
    BY <1>3
  <2> HIDE DEF S
  <2>3. TanksTyped /\ OwnersOf(drivers, owners)
    BY <1>5 DEF TypeOK, LivesInv, OwnersOf
  <2>4. \A s \in DOMAIN tanks : tanks'[s] \in Tank /\ Sound(tanks'[s]) /\ Chronicles(drivers'[s], tanks'[s])
    BY <1>5, <1>15, <1>16
  <2>5. Extends(drivers', drivers, DOMAIN tanks)
    BY <1>5, <1>16
  <2>6. /\ DOMAIN owners \subseteq DOMAIN owners'
        /\ DOMAIN owners' \subseteq (DOMAIN tanks) \X Nat
        /\ OwnersOf(drivers', owners')
        /\ \A s \in S : Driver(tanks'[s]) # Nobody => <<s, tanks'[s].life>> \in DOMAIN owners'
    BY <2>1, <2>2, <2>3, <2>4, <2>5, OwnersGoOn
  <2> QED
    BY <1>5, <2>1, <2>6
<1>18. ASSUME NEW s \in Slots
       PROVE  /\ tanks'[s].life \in Nat \ {0} /\ tanks'[s].life \in 1..Len(drivers'[s])
              /\ drivers'[s][tanks'[s].life] = Driver(tanks'[s])
  <2>1. tanks'[s].life \in Nat \ {0}
    BY <1>15 DEF Tank
  <2> QED
    BY <1>16, <2>1 DEF Chronicles
<1>19. TanksTyped'
  <2>1. \A s \in Slots : lived'[s] \subseteq Nat
    <3>1. \A s \in Slots : lived[s] \subseteq Nat
      BY <1>5 DEF TypeOK, TanksTyped
    <3> QED
      BY <1>3, <1>18, <3>1
  <2>2. DOMAIN lived' = Slots
    BY <1>3
  <2> QED
    BY <1>4, <1>15, <1>16, <1>17, <2>1, <2>2 DEF TanksTyped
<1>20. LivesInv'
  <2>1. ASSUME NEW s \in Slots, NEW l \in lived'[s]
        PROVE  l \in 1..Len(drivers'[s]) /\ (drivers'[s][l] # Nobody => <<s, l>> \in DOMAIN owners')
    <3>1. CASE l \in lived[s]
      <4>1. l \in 1..Len(drivers[s]) /\ (drivers[s][l] # Nobody => <<s, l>> \in DOMAIN owners)
        BY <1>5, <3>1 DEF LivesInv
      <4>2. l \in 1..Len(drivers'[s]) /\ drivers'[s][l] = drivers[s][l]
        BY <1>16, <4>1 DEF Extends
      <4> QED
        BY <1>17, <4>1, <4>2
    <3>2. CASE l = tanks'[s].life
      <4>1. SUFFICES ASSUME Driver(tanks'[s]) # Nobody
                     PROVE  <<s, l>> \in DOMAIN owners'
        BY <1>18, <3>2
      <4>2. tanks[s].player # Nobody
        BY <1>15, <4>1, WhoDrives
      <4>3. PICK p \in Seated : seats[p].tank = s
        BY <1>4, <1>5, <4>2 DEF InPlay
      <4> QED
        BY <1>17, <3>2, <4>1, <4>3
    <3> QED
      BY <1>3, <2>1, <3>1, <3>2
  <2> QED
    BY <1>15, <1>16, <1>17, <2>1 DEF LivesInv, OwnersOf
<1>21. DOMAIN participants' = DOMAIN participants
  BY <1>3
<1>22. \A s \in Slots : tanks[s].player \in DOMAIN participants \cup {Nobody}
  BY <1>5 DEF OnBoard
<1>23. ASSUME NEW s \in Slots, NEW i \in 1..Len(known[s])
       PROVE  known[s][i] \in DOMAIN participants \cup {Nobody}
  <2>1. CASE i \in 1..Len(drivers[s])
    <3>1. known[s][i] = drivers[s][i]
      BY <1>11, <2>1 DEF Extends
    <3> QED
      BY <1>5, <2>1, <3>1 DEF OnBoard
  <2>2. CASE i \notin 1..Len(drivers[s])
    <3>1. known[s][i] = Driver(before[s])
      BY <1>8, <1>11, <2>2 DEF NewLives
    <3>2. Driver(before[s]) \in {tanks[s].player, Nobody}
      BY <1>7, WhoDrives
    <3> QED
      BY <1>22, <3>1, <3>2
  <2> QED
    BY <2>1, <2>2
<1>24. ASSUME NEW s \in Slots, NEW i \in 1..Len(drivers'[s])
       PROVE  drivers'[s][i] \in DOMAIN participants \cup {Nobody}
  <2>1. CASE i \in 1..Len(known[s])
    <3>1. drivers'[s][i] = known[s][i]
      BY <1>16, <2>1 DEF Extends
    <3> QED
      BY <1>23, <2>1, <3>1
  <2>2. CASE i \notin 1..Len(known[s])
    <3>1. drivers'[s][i] = Driver(tanks'[s])
      BY <1>15, <1>16, <2>2 DEF NewLives
    <3>2. Driver(tanks'[s]) \in {tanks[s].player, Nobody}
      BY <1>15, WhoDrives
    <3> QED
      BY <1>22, <3>1, <3>2
  <2> QED
    BY <2>1, <2>2
<1> DEFINE killers(p) == KillersOf(known, deaths, p)
           lives(p) == SureOf(known, deaths, p)
           lost(p) == {v \in DOMAIN deaths : Driver(before[v]) = p}
<1>25. ASSUME NEW p \in Players
       PROVE  earned'[p] = [earned[p] EXCEPT !.kills = @ + Cardinality(killers(p)),
                                             !.sure = @ + Cardinality(lives(p)),
                                             !.deaths = @ + Cardinality(lost(p))]
  BY <1>3 DEF EarnedAfter
<1>26. earned \in [Players -> [kills : Nat, sure : Nat, deaths : Nat]]
  BY <1>5 DEF TypeOK, ScoresTyped
<1>27. ASSUME NEW p \in Players \ DOMAIN participants
       PROVE  killers(p) = {}
  <2>1. SUFFICES ASSUME NEW v \in killers(p)
                 PROVE  FALSE
    OBVIOUS
  <2> DEFINE s == deaths[v].owner
             l == deaths[v].life
  <2>2. s \in Slots /\ known[s][l] = p /\ (l \in lived[s] \/ l = before[s].life)
    BY <1>9 DEF KillersOf
  <2>3. l \in 1..Len(known[s])
    <3>1. CASE l \in lived[s]
      <4>1. l \in 1..Len(drivers[s])
        BY <1>5, <2>2, <3>1 DEF LivesInv
      <4> QED
        BY <1>11, <2>2, <4>1 DEF Extends
    <3>2. CASE l = before[s].life
      <4>1. before[s].life \in Nat \ {0}
        BY <1>7, <2>2 DEF Tank
      <4> QED
        BY <1>11, <2>2, <3>2, <4>1 DEF Chronicles
    <3> QED
      BY <2>2, <3>1, <3>2
  <2>4. p # Nobody
    BY NobodyIsNoPlayer
  <2> HIDE DEF s, l
  <2> QED
    BY <1>23, <2>2, <2>3, <2>4
<1>28. ASSUME NEW p \in Players
       PROVE  /\ Cardinality(killers(p)) \in Nat /\ Cardinality(lives(p)) \in Nat
              /\ Cardinality(lost(p)) \in Nat /\ Credits(after, deaths, p) \in Nat
              /\ Cardinality(lives(p)) <= Credits(after, deaths, p)
              /\ Credits(after, deaths, p) <= Cardinality(killers(p))
  <2>1. lost(p) \in SUBSET DOMAIN deaths
    OBVIOUS
  <2>2. Cardinality(lost(p)) \in Nat
    BY <1>9, <2>1, CountedIsNat
  <2> QED
    BY <1>12, <2>2
<1>29. ASSUME NEW p \in Players \ DOMAIN participants
       PROVE  Cardinality(killers(p)) = 0 /\ Cardinality(lives(p)) = 0
  <2>1. killers(p) = {} /\ lives(p) = {}
    BY <1>27 DEF SureOf
  <2> QED
    BY <2>1, FS_EmptySet
<1> HIDE DEF killers, lives, lost
<1>30. ASSUME NEW p \in Players
       PROVE  /\ earned'[p] \in [kills : Nat, sure : Nat, deaths : Nat]
              /\ earned'[p].kills = earned[p].kills + Cardinality(killers(p))
              /\ earned'[p].sure = earned[p].sure + Cardinality(lives(p))
  <2> DEFINE e == earned[p]
             k == Cardinality(killers(p))
             l == Cardinality(lives(p))
             d == Cardinality(lost(p))
  <2>1. e \in [kills : Nat, sure : Nat, deaths : Nat] /\ k \in Nat /\ l \in Nat /\ d \in Nat
    BY <1>26, <1>28
  <2>2. earned'[p] = [e EXCEPT !.kills = @ + k, !.sure = @ + l, !.deaths = @ + d]
    BY <1>25
  <2> HIDE DEF e, k, l, d
  <2>3. e.kills + k \in Nat /\ e.sure + l \in Nat /\ e.deaths + d \in Nat
    <3>1. e.kills \in Nat /\ e.sure \in Nat /\ e.deaths \in Nat
      BY <2>1
    <3> QED
      BY <2>1, <3>1
  <2>4. /\ earned'[p] \in [kills : Nat, sure : Nat, deaths : Nat]
        /\ earned'[p].kills = e.kills + k /\ earned'[p].sure = e.sure + l
    <3>1. earned'[p] = [kills |-> e.kills + k, sure |-> e.sure + l, deaths |-> e.deaths + d]
      BY <2>1, <2>2
    <3> QED
      BY <2>3, <3>1
  <2> QED
    BY <2>4 DEF e, k, l
<1>31. OnBoard'
  <2>1. ASSUME NEW p \in Players \ DOMAIN participants
        PROVE  earned'[p].kills = 0 /\ earned'[p].sure = 0
    <3>1. earned[p].kills = 0 /\ earned[p].sure = 0
      BY <1>5 DEF OnBoard
    <3> QED
      BY <1>29, <1>30, <3>1
  <2> QED
    BY <1>15, <1>21, <1>22, <1>24, <2>1 DEF OnBoard
<1>32. ASSUME NEW p \in DOMAIN participants
       PROVE  /\ p \in Players
              /\ participants[p] \in Score /\ participants'[p] \in Score
              /\ participants'[p].kills = participants[p].kills + Credits(after, deaths, p)
              /\ p \in Seated => participants'[p] = ScoreOf(seats'[p])
  <2>1. p \in Players /\ participants[p] \in Score
    BY <1>5 DEF TypeOK, ScoresTyped
  <2> DEFINE c == Credits(after, deaths, p)
  <2>2. c \in Nat
    BY <1>28, <2>1
  <2>3. CASE p \in Seated
    <3>1. participants'[p] = ScoreOf(seats'[p]) /\ participants[p] = ScoreOf(seats[p])
      BY <1>3, <1>5, <2>3
    <3>2. seats'[p] \in Seat /\ seats'[p].kills = seats[p].kills + c
      BY <1>14, <2>3
    <3> QED
      BY <2>1, <2>3, <3>1, <3>2 DEF ScoreOf, Score, Seat
  <2>4. CASE p \notin Seated
    <3>1. participants'[p] = [participants[p] EXCEPT !.kills = @ + c]
      BY <1>3, <2>4 DEF DepartedAfter
    <3> HIDE DEF c
    <3>2. participants[p].kills + c \in Nat
      <4>1. participants[p].kills \in Nat
        BY <2>1 DEF Score
      <4> QED
        BY <2>2, <4>1
    <3>3. participants'[p] = [kills |-> participants[p].kills + c, deaths |-> participants[p].deaths]
      BY <2>1, <3>1 DEF Score
    <3> QED
      BY <2>1, <2>4, <3>2, <3>3 DEF Score, c
  <2> QED
    BY <2>3, <2>4
<1>33. ScoresTyped'
  <2>1. DOMAIN earned' = Players
    BY <1>3 DEF EarnedAfter
  <2>2. earned' = [p \in Players |-> earned'[p]]
    BY <1>3 DEF EarnedAfter
  <2>3. earned' \in [Players -> [kills : Nat, sure : Nat, deaths : Nat]]
    BY <1>30, <2>2
  <2> QED
    BY <1>21, <1>32, <2>3 DEF ScoresTyped
<1>34. KillsAreCredited'
  <2>1. ASSUME NEW p \in DOMAIN participants
        PROVE  participants'[p].kills \in earned'[p].sure..earned'[p].kills
    <3> DEFINE x == participants[p].kills
               c == Credits(after, deaths, p)
               k == Cardinality(killers(p))
               l == Cardinality(lives(p))
    <3>1. p \in Players /\ x \in Nat
      BY <1>32 DEF Score
    <3>2. earned[p].kills \in Nat /\ earned[p].sure \in Nat
      BY <1>26, <3>1
    <3>3. x \in earned[p].sure..earned[p].kills
      BY DEF RoundInv, KillsAreCredited
    <3>4. c \in Nat /\ k \in Nat /\ l \in Nat /\ l <= c /\ c <= k
      BY <1>28, <3>1
    <3>5. /\ participants'[p].kills = x + c
          /\ earned'[p].kills = earned[p].kills + k /\ earned'[p].sure = earned[p].sure + l
      BY <1>30, <1>32, <3>1
    <3> HIDE DEF x, c, k, l
    <3>6. x + c \in (earned[p].sure + l)..(earned[p].kills + k)
      BY <3>1, <3>2, <3>3, <3>4
    <3> QED
      BY <3>5, <3>6
  <2> QED
    BY <1>21, <2>1 DEF KillsAreCredited
<1>35. SeatsTyped'
  <2>1. round' \in Nat
    BY <1>4, <1>5 DEF TypeOK, SeatsTyped
  <2> QED
    BY <1>4, <1>5, <1>13, <1>14, <2>1 DEF SeatsTyped
<1>36. SeatsInv'
  <2>1. \A p, q \in Seated' : seats'[p].slot = seats'[q].slot => p = q
    BY <1>5, <1>13, <1>14 DEF SeatsInv
  <2>2. \A p \in Seated' : seats'[p].tank # NoTank
    BY <1>5, <1>13, <1>14, NoTankIsNoSlot
  <2> QED
    BY <1>4, <1>15, <2>1, <2>2 DEF SeatsInv
<1>37. InPlay'
  <2>1. ASSUME NEW p \in Seated
        PROVE  /\ seats'[p].tank = seats'[p].slot
               /\ tanks'[seats'[p].tank].player = p
               /\ tanks'[seats'[p].tank].away <=> seats'[p].away
    BY <1>5, <1>6, <1>7, <1>14, <1>15
  <2>2. ASSUME NEW s \in Slots, tanks'[s].player # Nobody
        PROVE  tanks'[s].player \in Seated /\ seats'[tanks'[s].player].tank = s
    <3>1. tanks[s].player \in Seated /\ seats[tanks[s].player].tank = s
      BY <1>4, <1>5, <1>15, <2>2 DEF InPlay
    <3> QED
      BY <1>14, <1>15, <3>1
  <2> QED
    BY <1>13, <2>1, <2>2 DEF InPlay
<1>38. ScoreIsShown'
  BY <1>5, <1>13, <1>14, <1>15, <1>21, <1>32 DEF ScoreIsShown
<1> QED
  BY <1>19, <1>20, <1>31, <1>33, <1>34, <1>35, <1>36, <1>37, <1>38 DEF RoundInv, TypeOK

-----------------------------------------------------------------------------
(* The theorems.                                                           *)

LEMMA BeginsSound == Init => RoundInv
<1> SUFFICES ASSUME Init
             PROVE  RoundInv
  OBVIOUS
<1>1. /\ phase = "lobby" /\ round = 0 /\ ~Built
      /\ seats = <<>> /\ tanks = <<>> /\ owners = <<>> /\ participants = <<>>
      /\ drivers = <<>> /\ lived = <<>> /\ earned = [p \in Players |-> NothingEarned]
  BY DEF Init, Built
<1>2. /\ Seated = {} /\ DOMAIN tanks = {} /\ DOMAIN owners = {} /\ DOMAIN participants = {}
      /\ DOMAIN drivers = {} /\ DOMAIN lived = {}
  BY <1>1 DEF Seated
<1>3. /\ earned \in [Players -> [kills : Nat, sure : Nat, deaths : Nat]]
      /\ \A p \in Players : earned[p].kills = 0 /\ earned[p].sure = 0
  BY <1>1 DEF NothingEarned
<1>4. TypeOK
  BY <1>1, <1>2, <1>3 DEF TypeOK, SeatsTyped, TanksTyped, ScoresTyped
<1>5. SeatsInv /\ InPlay /\ LivesInv /\ OnBoard /\ ScoreIsShown /\ KillsAreCredited
  BY <1>1, <1>2, <1>3 DEF SeatsInv, InPlay, LivesInv, OnBoard, ScoreIsShown, KillsAreCredited
<1> QED
  BY <1>4, <1>5 DEF RoundInv

LEMMA StaysSound == RoundInv /\ [Next]_vars => RoundInv'
<1> SUFFICES ASSUME RoundInv, [Next]_vars
             PROVE  RoundInv'
  OBVIOUS
<1>1. CASE \E p \in Players, s \in Slots : JoinRound(p, s) \/ JoinLobby(p, s) \/ Choose(p, s)
  BY <1>1, JoinRoundKeeps, JoinLobbyKeeps, ChooseKeeps
<1>2. CASE \E p \in Players : Release(p) \/ GoAway(p) \/ ComeBack(p)
  BY <1>2, ReleaseKeeps, GoAwayKeeps, ComeBackKeeps
<1>3. CASE \E p \in Players : Fail(p)
  BY <1>3, PhaseKeeps DEF Fail
<1>4. CASE Start
  BY <1>4, StartKeeps
<1>5. CASE Finish
  BY <1>5, PhaseKeeps DEF Finish
<1>6. CASE Tick
  BY <1>6, TickKeeps
<1>7. CASE UNCHANGED vars
  BY <1>7 DEF vars, RoundInv, TypeOK, SeatsTyped, TanksTyped, ScoresTyped, SeatsInv, InPlay, LivesInv,
              OnBoard, ScoreIsShown, KillsAreCredited, Seated, Built
<1> QED
  BY <1>1, <1>2, <1>3, <1>4, <1>5, <1>6, <1>7 DEF Next

\* The seats, the tanks and the scoreboard hold together: every tank's flags
\* say who drives it, in play each seat and its tank know each other
\* (match_host.rs, multiplayer_simulation.rs), and what is credited is so
\* for a reason.
THEOREM RoundHoldsTogether == Spec => []RoundInv
<1> QED
  BY BeginsSound, StaysSound, PTL DEF Spec

\* remember_owner never credits anybody for a life that somebody else drove,
\* whatever players come, go, are replaced by bots and come back.
THEOREM NobodyElseIsCredited == Spec => []OwnersDrove
<1>1. RoundInv => OwnersDrove
  BY DEF RoundInv, LivesInv, OwnersDrove
<1> QED
  BY <1>1, RoundHoldsTogether, PTL

\* drain_events credits a player every kill of a life that saw the end of a
\* tick, be the player dead, out or gone by then, and never one not made.
THEOREM EveryKillIsCredited == Spec => []KillsAreCredited
<1>1. RoundInv => KillsAreCredited
  BY DEF RoundInv
<1> QED
  BY <1>1, RoundHoldsTogether, PTL

\* The scoreboard, the seats and, in play, the tanks show one score
\* (drain_events, restore_score).
THEOREM OneScoreIsShown == Spec => []ScoreIsShown
<1>1. RoundInv => ScoreIsShown
  BY DEF RoundInv
<1> QED
  BY <1>1, RoundHoldsTogether, PTL

\* A battle in play never fails: the tank of a seat is its player's as long
\* as the battle lasts, so that resume panics only between battles.
THEOREM BattlesDoNotFail == Spec => [][phase = "playing" => phase' # "failed"]_vars
<1>1. RoundInv /\ [Next]_vars => [phase = "playing" => phase' # "failed"]_vars
  <2> SUFFICES ASSUME RoundInv, Next, phase = "playing", phase' = "failed"
               PROVE  FALSE
    BY DEF vars
  <2>1. PICK p \in Players : Fail(p)
    BY DEF Next, JoinRound, JoinLobby, Choose, Release, GoAway, ComeBack, Start, Finish, Tick
  <2>2. p \in Seated /\ ~tanks[seats[p].tank].human /\ seats[p].tank \in Slots
    BY <2>1, BuiltRound DEF Fail, RoundInv, TypeOK, SeatsTyped
  <2>3. tanks[seats[p].tank].player = p /\ Sound(tanks[seats[p].tank])
    BY <2>2, BuiltRound DEF RoundInv, InPlay, TypeOK, SeatsTyped
  <2> QED
    BY <2>1, <2>2, <2>3, NobodyIsNoPlayer DEF Sound
<1> QED
  BY <1>1, RoundHoldsTogether, PTL DEF Spec
=============================================================================
