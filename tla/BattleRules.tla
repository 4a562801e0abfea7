---------------------------- MODULE BattleRules -----------------------------
(***************************************************************************)
(* The rules of a team battle (crates/core/src/sim): the round clock, the  *)
(* scores and the winner, kills and whom they are credited to, and blasts  *)
(* that set off mines and drums, which set off others.                     *)
(*                                                                         *)
(* Where things are, and how much damage they take, is left to chance; a   *)
(* hit here is one that destroys what may be destroyed.  The calls a blast *)
(* makes one after the other, each of which may be a blast, are a stack of *)
(* work.  A tick goes from its clock to tanks and to blasts.               *)
(***************************************************************************)
EXTENDS BattleState, SequencesExt

round == <<phase, overtime, winner, time, scores>>
tanks == <<alive, life, kills, lifeKills, fresh, appeared>>
field == <<shots, standing, work, blasts>>
vars == <<round, tanks, field, stage>>

team(t) == IF t \in Blues THEN "Blue" ELSE "Red"

Init ==
  /\ phase = "Playing" /\ overtime = FALSE /\ winner = "none"
  /\ time = RoundTime /\ scores = [k \in Teams |-> 0]
  /\ alive = [t \in Tanks |-> TRUE] /\ life = [t \in Tanks |-> 0]
  /\ kills = [t \in Tanks |-> 0] /\ lifeKills = [t \in Tanks |-> 0]
  /\ fresh = [t \in Tanks |-> 0] /\ appeared = [t \in Tanks |-> 0]
  /\ shots = [x \in {} |-> 0] /\ standing = Drums /\ work = <<>>
  /\ blasts = [x \in Mines \cup Drums |-> 0]
  /\ stage = "tanks"

-----------------------------------------------------------------------------
(* The round.                                                              *)

Finish(k) == phase' = "Results" /\ winner' = k

\* (Mutant: kills count after the round is decided.)
AwardAlways(victim, killer) ==
  IF victim = killer THEN UNCHANGED <<phase, winner, scores>>
  ELSE /\ scores' = [scores EXCEPT ![killer] = @ + 1]
       /\ IF overtime \/ scores'[killer] >= ScoreLimit
            THEN Finish(killer)
            ELSE UNCHANGED <<phase, winner>>

\* award_kill
Award(victim, killer) ==
  IF victim = killer \/ phase # "Playing" THEN UNCHANGED <<phase, winner, scores>>
  ELSE /\ scores' = [scores EXCEPT ![killer] = @ + 1]
       /\ IF overtime \/ scores'[killer] >= ScoreLimit
            THEN Finish(killer)
            ELSE UNCHANGED <<phase, winner>>

\* The clock of the round runs, but in overtime.
Clock ==
  /\ stage = "blasts" /\ work = <<>> /\ phase = "Playing"
  /\ time' = IF overtime THEN time ELSE IF time > 0 THEN time - 1 ELSE 0
  /\ IF overtime \/ time' > 0 THEN UNCHANGED <<overtime, phase, winner>>
     ELSE IF scores["Blue"] = scores["Red"]
       THEN overtime' = TRUE /\ UNCHANGED <<phase, winner>>
       ELSE /\ Finish(IF scores["Blue"] > scores["Red"] THEN "Blue" ELSE "Red")
            /\ UNCHANGED overtime
  /\ stage' = IF phase' = "Playing" THEN "tanks" ELSE "over"
  /\ UNCHANGED <<scores, tanks, field>>

\* The player ends the battle between two ticks: nobody has won.
EndBattle ==
  /\ stage = "blasts" /\ work = <<>> /\ phase = "Playing"
  /\ phase' = "Results" /\ winner' = "none" /\ stage' = "over"
  /\ UNCHANGED <<overtime, time, scores, tanks, field>>

-----------------------------------------------------------------------------
(* Tanks act, then shells and mines.                                       *)

\* A destroyed tank is back.
Respawn(t) ==
  /\ stage = "tanks" /\ ~alive[t]
  /\ alive' = [alive EXCEPT ![t] = TRUE]
  /\ lifeKills' = [lifeKills EXCEPT ![t] = 0]
  /\ fresh' = [fresh EXCEPT ![t] = 0]
  /\ appeared' = [appeared EXCEPT ![t] = @ + 1]
  /\ UNCHANGED <<round, life, kills, field, stage>>

\* A tank fires a shell or lays a mine.
Launch(t, x) ==
  /\ stage = "tanks" /\ alive[t] /\ x \notin DOMAIN shots
  /\ LET shot == [owner |-> t, life |-> life[t], appeared |-> appeared[t]] IN
       shots' = [y \in {x} \cup DOMAIN shots |-> IF y = x THEN shot ELSE shots[y]]
  /\ blasts' = IF x \in Mines THEN [blasts EXCEPT ![x] = 0] ELSE blasts
  /\ UNCHANGED <<round, tanks, standing, work, stage>>

TanksDone ==
  /\ stage = "tanks" /\ stage' = "blasts"
  /\ UNCHANGED <<round, tanks, field>>

Job(kind, x, by) == [kind |-> kind, on |-> x, by |-> by]

Without(gone) == Restrict(shots, DOMAIN shots \ gone)

\* A shell strikes a tank, a drum, off which it may bounce, or a mine, or is a
\* rocket and bursts, or is spent on nothing.
Strike(s) ==
  LET by == shots[s] IN
  /\ stage = "blasts" /\ work = <<>> /\ s \in DOMAIN shots \cap Shells
  /\ \/ /\ \/ \E t \in Tanks : t # by.owner /\ alive[t] /\ work' = <<Job("hit", t, by)>>
           \/ work' \in {<<>>, <<Job("blast", s, by)>>}
        /\ shots' = Without({s})
     \/ /\ \E d \in standing : work' = <<Job("drum", d, by)>>
        /\ shots' \in {shots, Without({s})}
     \/ \E m \in DOMAIN shots \cap Mines :
          work' = <<Job("blast", m, by)>> /\ shots' = Without({s, m})
  /\ UNCHANGED <<round, tanks, standing, blasts, stage>>

\* Two shells meet: both teams are hurt, each by the other's.
Intercept(s, o) ==
  /\ stage = "blasts" /\ work = <<>> /\ {s, o} \subseteq DOMAIN shots \cap Shells
  /\ team(shots[s].owner) # team(shots[o].owner)
  /\ \E near \in SUBSET {t \in Tanks : alive[t]} :
       LET enemyShot(t) == IF team(shots[s].owner) # team(t) THEN shots[s] ELSE shots[o] IN
       work' = SetToSeq({Job("hit", t, enemyShot(t)) : t \in near})
  /\ shots' = Without({s, o})
  /\ UNCHANGED <<round, tanks, standing, blasts, stage>>

\* An enemy comes near an armed mine, or its time is over.
StepMine(m) ==
  /\ stage = "blasts" /\ work = <<>> /\ m \in DOMAIN shots \cap Mines
  /\ \/ /\ \E t \in Tanks : alive[t] /\ team(t) # team(shots[m].owner)
        /\ work' = <<Job("blast", m, shots[m])>>
     \/ UNCHANGED work
  /\ shots' = Without({m})
  /\ UNCHANGED <<round, tanks, standing, blasts, stage>>

-----------------------------------------------------------------------------
(* Hits and blasts.                                                        *)

Doing(kind) == work # <<>> /\ Head(work).kind = kind

\* (Mutant: a tank comes back with the number of its last life.)
FallenSameLife(t) == alive' = [alive EXCEPT ![t] = FALSE] /\ UNCHANGED life

Fallen(t) ==
  /\ alive' = [alive EXCEPT ![t] = FALSE]
  /\ life' = [life EXCEPT ![t] = @ + 1]

\* A tank is destroyed, its killer credited and the score counted.
Destroy(t, by) ==
  LET killed  == by.owner # t /\ team(by.owner) # team(t)
      current == alive[by.owner] /\ by.life = life[by.owner]
      plus(f, due) == IF due THEN [f EXCEPT ![by.owner] = @ + 1] ELSE f
  IN
  /\ Fallen(t)
  /\ kills' = plus(kills, killed)
  /\ lifeKills' = plus(lifeKills, killed /\ current)
  /\ fresh' = plus(fresh, killed /\ by.appeared = appeared[by.owner])
  /\ Award(team(t), team(by.owner))
  /\ UNCHANGED <<overtime, time, appeared>>

\* damage_tank: a wreck and a comrade take no damage.
Hit ==
  LET t == Head(work).on
      by == Head(work).by
      immune == ~alive[t] \/ (team(t) = team(by.owner) /\ t # by.owner)
  IN
  /\ Doing("hit")
  /\ IF immune \/ life[t] = MaxLives THEN UNCHANGED <<round, tanks>> ELSE Destroy(t, by)
  /\ work' = Tail(work)
  /\ UNCHANGED <<shots, standing, blasts, stage>>

\* (Mutant: a drum stands until its blast is over.)
DrumBreaksLater ==
  LET d == Head(work).on
      blast == IF d \in standing THEN <<Job("blast", d, Head(work).by)>> ELSE <<>>
  IN
  /\ Doing("drum")
  /\ work' = blast \o Tail(work)
  /\ UNCHANGED <<round, tanks, shots, standing, blasts, stage>>

\* damage_cover: a drum that stood goes off before anything else happens.
DrumBreaks ==
  LET d == Head(work).on
      blast == IF d \in standing THEN <<Job("blast", d, Head(work).by)>> ELSE <<>>
  IN
  /\ Doing("drum")
  /\ standing' = standing \ {d}
  /\ work' = blast \o Tail(work)
  /\ UNCHANGED <<round, tanks, shots, blasts, stage>>

\* explode: mines within reach are taken before any of them goes off, then
\* tanks are hit, then drums, all in the name of who set off the first one.
Explode ==
  LET x == Head(work).on
      jobs(kind, set) == SetToSeq({Job(kind, y, Head(work).by) : y \in set})
  IN
  /\ Doing("blast")
  /\ blasts' = IF x \in DOMAIN blasts THEN [blasts EXCEPT ![x] = @ + 1] ELSE blasts
  /\ \E mines \in SUBSET (DOMAIN shots \cap Mines),
        hit \in SUBSET {t \in Tanks : alive[t]}, drums \in SUBSET standing :
       /\ shots' = Without(mines)
       /\ work' = jobs("blast", mines) \o jobs("hit", hit) \o jobs("drum", drums)
                    \o Tail(work)
  /\ UNCHANGED <<round, tanks, standing, stage>>

Next ==
  \/ Clock \/ EndBattle \/ TanksDone
  \/ \E t \in Tanks : Respawn(t) \/ \E x \in Mines \cup Shells : Launch(t, x)
  \/ \E s, o \in Shells : Intercept(s, o)
  \/ \E s \in Shells : Strike(s)
  \/ \E m \in Mines : StepMine(m)
  \/ Hit \/ DrumBreaks \/ Explode

Spec == Init /\ [][Next]_vars
=============================================================================
