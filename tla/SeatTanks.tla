----------------------------- MODULE SeatTanks -----------------------------
(***************************************************************************)
(* The tanks of a room's rounds, the seats that drive them, and the score  *)
(* (core/src/net/match_host.rs, multiplayer_simulation.rs) of a room with  *)
(* bots.  Every slot of a round has a tank, driven by the seat that has    *)
(* the slot, by a bot standing in for its player, or by a fill bot.  A     *)
(* kill is credited to whoever drove the killer's tank in the life that    *)
(* fired, which may be over by then, as may that player's seat.            *)
(***************************************************************************)
EXTENDS Integers, Sequences, FiniteSets

CONSTANTS
  Players,    \* players, one seat each
  Slots,      \* the slots of the teams
  Team,       \* the team of each slot
  Nobody,     \* no player
  MaxRounds,  \* bound: rounds started
  MaxLife     \* bound: lives of a tank in a round

NoTank == 0  \* no slot

ASSUME ConstantsAssumption ==
  /\ IsFiniteSet(Players) /\ IsFiniteSet(Slots) /\ Nobody \notin Players
  /\ DOMAIN Team = Slots /\ NoTank \notin Slots
  /\ MaxRounds \in Nat /\ MaxLife \in Nat

VARIABLES
  phase,         \* "lobby", "playing" or "results"
  round,         \* rounds started
  seats,         \* the seats taken: slot, tank, out, away, kills, deaths
  tanks,         \* the simulation's tanks, by slot; none before the first round
  owners,        \* owners: who drove which life of which tank
  participants,  \* the scoreboard: kills and deaths of everybody in the round
  drivers,       \* auxiliary: who really drove each life of each tank
  lived,         \* auxiliary: the lives of each tank that saw the end of a tick
  earned         \* auxiliary: the kills each player really made, those of them that no
                 \* life's first tick made, and the deaths

vars == <<phase, round, seats, tanks, owners, participants, drivers, lived, earned>>
history == <<drivers, lived, earned>>

Seated == DOMAIN seats
Built == round > 0
NoScore == [kills |-> 0, deaths |-> 0]
NothingEarned == [kills |-> 0, sure |-> 0, deaths |-> 0]
ScoreOf(seat) == [kills |-> seat.kills, deaths |-> seat.deaths]

\* f with x mapped to y as well.
Also(f, x, y) == [k \in DOMAIN f \cup {x} |-> IF k = x THEN y ELSE f[k]]
Without(f, x) == [k \in DOMAIN f \ {x} |-> f[k]]

-----------------------------------------------------------------------------
(* The tanks.                                                              *)

FillBot == [player |-> Nobody, human |-> FALSE, bot |-> TRUE, away |-> FALSE, driver |-> "bot",
            life |-> 1, alive |-> TRUE, kills |-> 0, deaths |-> 0]

PlayersTank(p) ==
  [FillBot EXCEPT !.player = p, !.human = TRUE, !.bot = FALSE, !.driver = "human"]

\* set_driver(Bot): a bot stands in for the player, in a life and with a score
\* of its own.
ToBot(t) ==
  IF t.human /\ ~t.bot
    THEN [t EXCEPT !.driver = "bot", !.away = TRUE, !.bot = TRUE, !.life = @ + 1,
                   !.kills = 0, !.deaths = 0]
    ELSE [t EXCEPT !.driver = "bot"]

\* set_driver(Human): the player's tank comes back.  A tank that is nobody's
\* refuses, and resume panics.
ToPlayer(t) ==
  IF t.away THEN [t EXCEPT !.driver = "human", !.away = FALSE, !.bot = FALSE, !.life = @ + 1]
  ELSE [t EXCEPT !.driver = "human"]

\* reassign_tank: a slot's tank starts a fresh life and score with a player
\* (or, for Nobody, a fill bot).
Reassigned(t, p) ==
  [t EXCEPT !.player = p, !.human = p # Nobody, !.bot = p = Nobody, !.away = FALSE,
            !.driver = IF p = Nobody THEN "bot" ELSE "human",
            !.life = @ + 1, !.alive = TRUE, !.kills = 0, !.deaths = 0]

\* (Mutant: a stand-in's lives are the player's.)
RememberedAlways(ts, S) ==
  LET new == {<<s, ts[s].life>> : s \in {q \in S : ts[q].player # Nobody}} IN
  [k \in DOMAIN owners \cup new |-> IF k \in DOMAIN owners THEN owners[k] ELSE ts[k[1]].player]

\* remember_owner, of the tanks in the slots S.
Remembered(ts, S) ==
  LET new == {<<s, ts[s].life>> : s \in {q \in S : ts[q].player # Nobody /\ ~ts[q].away}} IN
  [k \in DOMAIN owners \cup new |-> IF k \in DOMAIN owners THEN owners[k] ELSE ts[k[1]].player]

\* Auxiliary: who drives a tank's present life.
Driver(t) == IF t.human /\ t.driver = "human" THEN t.player ELSE Nobody

\* Auxiliary: known, with the lives begun since by the tanks ts.
WithLives(known, ts) ==
  [s \in DOMAIN ts |->
    known[s] \o [k \in 1..(ts[s].life - Len(known[s])) |-> Driver(ts[s])]]

-----------------------------------------------------------------------------
Init ==
  /\ phase = "lobby" /\ round = 0
  /\ seats = <<>> /\ tanks = <<>> /\ owners = <<>> /\ participants = <<>>
  /\ drivers = <<>> /\ lived = <<>> /\ earned = [p \in Players |-> NothingEarned]

IfSo(condition) == IF condition THEN 1 ELSE 0

\* The bound on the lives of a tank, one more for those who come and go after
\* the battle.
LivesBounded == \A s \in DOMAIN tanks' : tanks'[s].life <= MaxLife + IfSo(phase = "results")

FreeSlot(s) == \A p \in Seated : seats[p].slot # s

-----------------------------------------------------------------------------
(* Seats come and go.                                                      *)

NewSeat(s) == [slot |-> s, tank |-> NoTank, out |-> FALSE, away |-> FALSE, kills |-> 0, deaths |-> 0]

\* A player joins a room whose round is built, in play or over: the slot's
\* tank becomes theirs (seat_tank, set_participant, drain_events).
JoinRound(p, s) ==
  /\ p \notin Seated /\ p \notin DOMAIN participants /\ FreeSlot(s)
  /\ Built /\ phase # "failed"
  /\ tanks' = [tanks EXCEPT ![s] = Reassigned(@, p)]
  /\ seats' = Also(seats, p, [NewSeat(s) EXCEPT !.tank = s])
  /\ owners' = Remembered(tanks', {s})
  /\ participants' = Also(participants, p, NoScore)
  /\ LivesBounded
  /\ drivers' = WithLives(drivers, tanks')
  /\ UNCHANGED <<phase, round, lived, earned>>

\* A player joins the room's first lobby.
JoinLobby(p, s) ==
  /\ p \notin Seated /\ FreeSlot(s) /\ ~Built
  /\ seats' = Also(seats, p, NewSeat(s))
  /\ UNCHANGED <<phase, round, tanks, owners, participants, history>>

\* choose
Choose(p, s) ==
  /\ p \in Seated /\ phase \in {"lobby", "results"} /\ s # seats[p].slot /\ FreeSlot(s)
  /\ seats' = [seats EXCEPT ![p].slot = s]
  /\ UNCHANGED <<phase, round, tanks, owners, participants, history>>

\* release: the seat is given up, by a player who leaves or one who was out
\* too long; its tank goes to a fill bot and its score stays on the scoreboard.
Release(p) ==
  /\ p \in Seated /\ phase # "failed"
  /\ seats' = Without(seats, p)
  /\ IF seats[p].tank = NoTank
       THEN UNCHANGED <<tanks, participants, drivers>>
       ELSE /\ tanks' = [tanks EXCEPT ![seats[p].tank] =
                            Reassigned(IF seats[p].away THEN @ ELSE ToBot(@), Nobody)]
            /\ participants' = Also(participants, p, ScoreOf(seats[p]))
            /\ drivers' = WithLives(drivers, tanks')
  /\ LivesBounded
  /\ UNCHANGED <<phase, round, owners, lived, earned>>

-----------------------------------------------------------------------------
(* Players go and come back.                                               *)

\* suspend, or the connection is lost.
GoAway(p) ==
  /\ p \in Seated /\ ~seats[p].out /\ phase # "failed"
  /\ seats' = [seats EXCEPT ![p].out = TRUE, ![p].away = seats[p].tank # NoTank]
  /\ IF seats[p].tank # NoTank /\ ~seats[p].away
       THEN tanks' = [tanks EXCEPT ![seats[p].tank] = ToBot(@)] ELSE UNCHANGED tanks
  /\ LivesBounded
  /\ drivers' = WithLives(drivers, tanks')
  /\ UNCHANGED <<phase, round, owners, participants, lived, earned>>

\* (Mutant: the tank comes back with its stand-in's score.)
ComeBackUnrestored(p) ==
  /\ p \in Seated /\ phase # "failed"
  /\ seats[p].tank # NoTank => tanks[seats[p].tank].human
  /\ seats' = [seats EXCEPT ![p].out = FALSE, ![p].away = FALSE]
  /\ IF seats[p].tank # NoTank
       THEN tanks' = [tanks EXCEPT ![seats[p].tank] = ToPlayer(@)] ELSE UNCHANGED tanks
  /\ LivesBounded
  /\ drivers' = WithLives(drivers, tanks')
  /\ UNCHANGED <<phase, round, owners, participants, lived, earned>>

\* resume, or the player joins again: the tank comes back and shows the
\* player's score (restore_score).
ComeBack(p) ==
  /\ p \in Seated /\ phase # "failed"
  /\ seats[p].tank # NoTank => tanks[seats[p].tank].human
  /\ seats' = [seats EXCEPT ![p].out = FALSE, ![p].away = FALSE]
  /\ IF seats[p].tank # NoTank
       THEN tanks' = [tanks EXCEPT ![seats[p].tank] =
                        [ToPlayer(@) EXCEPT !.kills = seats[p].kills, !.deaths = seats[p].deaths]]
       ELSE UNCHANGED tanks
  /\ LivesBounded
  /\ drivers' = WithLives(drivers, tanks')
  /\ UNCHANGED <<phase, round, owners, participants, lived, earned>>

\* resume panics on a tank that is no player's, and the room ends.
Fail(p) ==
  /\ p \in Seated /\ phase # "failed"
  /\ seats[p].tank # NoTank /\ ~tanks[seats[p].tank].human
  /\ phase' = "failed"
  /\ UNCHANGED <<round, seats, tanks, owners, participants, history>>

-----------------------------------------------------------------------------
(* Rounds.                                                                 *)

\* The tank a seat starts a round with: a stand-in has that of a player who is out.
FirstTank(p) == IF seats[p].out THEN ToBot(PlayersTank(p)) ELSE PlayersTank(p)

\* (Mutant: the owners of a round are kept for the next.)
FirstOwnersKept(ts) == Remembered(ts, {seats[p].slot : p \in Seated})

\* The owners of the first lives of a round with the tanks ts.
FirstOwners(ts) ==
  [k \in {<<seats[p].slot, 1>> : p \in {q \in Seated : ~seats[q].out}} |-> ts[k[1]].player]

\* start: every slot gets a tank.
Start ==
  /\ phase \in {"lobby", "results"} /\ Seated # {} /\ round < MaxRounds
  /\ phase' = "playing" /\ round' = round + 1
  /\ LET holder(s) == {p \in Seated : seats[p].slot = s} IN
       tanks' = [s \in Slots |-> IF holder(s) = {} THEN FillBot
                                 ELSE FirstTank(CHOOSE q \in holder(s) : TRUE)]
  /\ seats' = [p \in Seated |-> [seats[p] EXCEPT !.tank = seats[p].slot, !.away = seats[p].out,
                                                 !.kills = 0, !.deaths = 0]]
  /\ owners' = FirstOwners(tanks')
  /\ participants' = [p \in Seated |-> NoScore]
  /\ drivers' = WithLives([s \in Slots |-> <<>>], tanks')
  /\ lived' = [s \in Slots |-> {}]
  /\ earned' = [p \in Players |-> NothingEarned]

\* finish
Finish ==
  /\ phase = "playing" /\ phase' = "results"
  /\ UNCHANGED <<round, seats, tanks, owners, participants, history>>

-----------------------------------------------------------------------------
(* A tick of the battle.                                                   *)

\* What may be shot or mined in a tick of the tanks ts: the shots still about,
\* of lives that are over or the present one.
Shots(ts) ==
  {shot \in [owner : Slots, life : 1..MaxLife] :
     shot.life \in lived[shot.owner] \/ (shot.life = ts[shot.owner].life /\ ts[shot.owner].alive)}

\* The deaths a tick may bring: which shot killed each victim, an enemy's or
\* its own.
DeathsInTick(ts) ==
  {deaths \in UNION {[victims -> Shots(ts)] : victims \in SUBSET {s \in Slots : ts[s].alive}} :
     \A v \in DOMAIN deaths : Team[deaths[v].owner] # Team[v] \/ deaths[v].owner = v}

KillsOf(deaths, s) == Cardinality({v \in DOMAIN deaths : v # s /\ deaths[v].owner = s})

\* The simulation's tanks after the deaths: a kill counts for the killer's
\* tank, whoever drives it now.
Killed(ts, deaths) ==
  [s \in Slots |->
     [ts[s] EXCEPT !.alive = @ /\ s \notin DOMAIN deaths,
                   !.life = @ + IfSo(s \in DOMAIN deaths), !.deaths = @ + IfSo(s \in DOMAIN deaths),
                   !.kills = @ + KillsOf(deaths, s)]]

\* The tanks back in battle among those after the deaths.
Respawned(ts, deaths, back) ==
  [s \in Slots |-> [Killed(ts, deaths)[s] EXCEPT !.alive = @ \/ s \in back]]

\* The player the death of the tank v is credited to, if any; owners do not
\* know a life in its first tick.
OwnerOf(ts, deaths, v) ==
  LET d == deaths[v] IN
  IF <<d.owner, d.life>> \in DOMAIN owners /\ d.owner # v THEN owners[<<d.owner, d.life>>] ELSE Nobody

\* Whether the player whose tank is s lost it.
Victim(ts, deaths, s) == s \in DOMAIN deaths /\ ~ts[s].away

Credits(ts, deaths, p) == Cardinality({v \in DOMAIN deaths : OwnerOf(ts, deaths, v) = p})

\* drain_events: the seats after the deaths.
SeatsAfter(ts, ss, deaths) ==
  [p \in DOMAIN ss |->
     [ss[p] EXCEPT !.deaths = @ + IfSo(Victim(ts, deaths, ss[p].tank)),
                   !.kills = @ + Credits(ts, deaths, p)]]

\* Players who left are credited on the scoreboard.
DepartedAfter(ts, deaths, p) == [participants[p] EXCEPT !.kills = @ + Credits(ts, deaths, p)]

\* Auxiliary: the victims of the lives p drove, and those of them no life's
\* first tick made.
KillersOf(known, deaths, p) ==
  {v \in DOMAIN deaths : deaths[v].owner # v /\ known[deaths[v].owner][deaths[v].life] = p}
SureOf(known, deaths, p) ==
  {v \in KillersOf(known, deaths, p) : deaths[v].life \in lived[deaths[v].owner]}

\* Auxiliary: what the deaths are to those who really drove.
EarnedAfter(ts, known, deaths) ==
  [p \in Players |->
     [earned[p] EXCEPT
        !.kills = @ + Cardinality(KillersOf(known, deaths, p)),
        !.sure = @ + Cardinality(SureOf(known, deaths, p)),
        !.deaths = @ + Cardinality({v \in DOMAIN deaths : Driver(ts[v]) = p})]]

\* The tanks as the seats' controls and the score leave them.
Shown(ts, ss) ==
  [s \in Slots |->
     LET mine == {p \in DOMAIN ss : ss[p].tank = s} IN
     IF mine = {} \/ ts[s].away THEN ts[s]
     ELSE LET seat == ss[CHOOSE p \in mine : TRUE] IN
          [ts[s] EXCEPT !.kills = seat.kills, !.deaths = seat.deaths]]

\* Bots take over the tanks of the players who fell silent, and their seats.
StandIns(silent) ==
  [s \in Slots |-> IF \E p \in silent : seats[p].tank = s THEN ToBot(tanks[s]) ELSE tanks[s]]
Taken(silent) == [p \in Seated |-> [seats[p] EXCEPT !.away = @ \/ p \in silent]]

\* One tick: bots take over the tanks of silent players, tanks respawn and
\* die, and then the deaths are credited.
Tick ==
  /\ phase = "playing"
  /\ \E silent \in SUBSET {p \in Seated : ~seats[p].away},
        back \in SUBSET {s \in Slots : ~tanks[s].alive} :
       LET before == StandIns(silent)
           known == WithLives(drivers, before) IN
       \E deaths \in DeathsInTick(before) :
         LET after == Respawned(before, deaths, back)
             scored == SeatsAfter(after, Taken(silent), deaths) IN
           /\ seats' = scored
           /\ participants' = [p \in DOMAIN participants |->
                                 IF p \in Seated THEN ScoreOf(scored[p]) ELSE DepartedAfter(after, deaths, p)]
           /\ tanks' = Shown(after, scored)
           /\ owners' = Remembered(tanks', {seats[p].tank : p \in Seated})
           /\ drivers' = WithLives(known, tanks')
           /\ earned' = EarnedAfter(before, known, deaths)
           /\ lived' = [s \in Slots |-> lived[s] \cup {tanks'[s].life}]
  /\ LivesBounded
  /\ UNCHANGED <<phase, round>>

Next ==
  \/ \E p \in Players, s \in Slots : JoinRound(p, s) \/ JoinLobby(p, s) \/ Choose(p, s)
  \/ \E p \in Players : Release(p) \/ GoAway(p) \/ ComeBack(p) \/ Fail(p)
  \/ Start \/ Finish \/ Tick

Spec == Init /\ [][Next]_vars
=============================================================================
