-------------------------- MODULE BattleRulesProofs --------------------------
(***************************************************************************)
(* What the rules of a battle promise, for every arena, roster, round time *)
(* and score limit, and for every chain of blasts.                         *)
(***************************************************************************)
EXTENDS BattleRules, TLAPS, FiniteSetTheorems

\* What decides a round is well formed, and nobody has won one that is played.
RoundInv ==
  /\ phase \in {"Playing", "Results"}
  /\ overtime \in BOOLEAN
  /\ winner \in Teams \cup {"none"}
  /\ scores \in [Teams -> Nat]
  /\ phase = "Playing" => winner = "none"

FairInv == RoundInv /\ ResultIsFair

LEMMA FairInit == Init => FairInv
<1>1. ScoreLimit \in Nat /\ 0 < ScoreLimit
  BY BattleAssumption
<1>2. ASSUME Init PROVE FairInv
  <2>1. /\ phase = "Playing" /\ winner = "none" /\ overtime = FALSE
        /\ scores = [k \in Teams |-> 0]
    BY <1>2 DEF Init
  <2>2. /\ scores \in [Teams -> Nat] /\ \A k \in Teams : scores[k] < ScoreLimit
    BY <1>1, <2>1
  <2> QED
    BY <2>1, <2>2 DEF FairInv, RoundInv, ResultIsFair
<1> QED
  BY <1>2

\* A kill counts for a team of the round, and wins it at the limit or in
\* overtime only by putting that team ahead.
LEMMA AwardKeepsFair ==
  ASSUME FairInv, NEW victim \in Teams, NEW killer \in Teams,
         Award(victim, killer), UNCHANGED overtime
  PROVE  FairInv'
<1> USE DEF FairInv, RoundInv
<1>0. ScoreLimit \in Nat /\ 0 < ScoreLimit
  BY BattleAssumption
<1>1. CASE victim = killer \/ phase # "Playing"
  <2>1. UNCHANGED <<phase, winner, scores, overtime>>
    BY <1>1 DEF Award
  <2> QED
    BY <2>1 DEF ResultIsFair, other
<1>2. CASE ~(victim = killer \/ phase # "Playing")
  <2>1. /\ phase = "Playing" /\ winner = "none"
        /\ scores' = [scores EXCEPT ![killer] = @ + 1]
        /\ IF overtime \/ scores'[killer] >= ScoreLimit
             THEN Finish(killer) ELSE UNCHANGED <<phase, winner>>
    BY <1>2 DEF Award
  <2>2. /\ scores["Blue"] \in Nat /\ scores["Red"] \in Nat
        /\ scores["Blue"] < ScoreLimit /\ scores["Red"] < ScoreLimit
        /\ overtime => scores["Blue"] = scores["Red"]
    BY <2>1 DEF ResultIsFair, Teams
  <2>3. /\ scores' \in [Teams -> Nat]
        /\ scores'[killer] = scores[killer] + 1
        /\ other(killer) \in Teams /\ other(killer) # killer
        /\ scores'[other(killer)] = scores[other(killer)]
    BY <2>1, <2>2 DEF Teams, other
  <2>4. CASE overtime \/ scores'[killer] >= ScoreLimit
    <3>1. phase' = "Results" /\ winner' = killer
      BY <2>1, <2>4 DEF Finish
    <3>2. scores'[killer] > scores'[other(killer)]
      BY <1>0, <2>2, <2>3, <2>4 DEF Teams, other
    <3> QED
      BY <2>3, <3>1, <3>2 DEF ResultIsFair, other
  <2>5. CASE ~(overtime \/ scores'[killer] >= ScoreLimit)
    <3>1. UNCHANGED <<phase, winner, overtime>> /\ ~overtime
      BY <2>1, <2>5
    <3>2. \A k \in Teams : scores'[k] < ScoreLimit
      BY <1>0, <2>2, <2>3, <2>5 DEF Teams, other
    <3> QED
      BY <2>1, <2>3, <3>1, <3>2 DEF ResultIsFair
  <2> QED
    BY <2>4, <2>5
<1> QED
  BY <1>1, <1>2

\* Time runs out on the team behind, and otherwise on neither.
LEMMA ClockKeepsFair == FairInv /\ Clock => FairInv'
<1> SUFFICES ASSUME FairInv, Clock PROVE FairInv'
  OBVIOUS
<1> USE DEF FairInv, RoundInv
<1>1. /\ phase = "Playing" /\ winner = "none" /\ UNCHANGED scores
      /\ scores["Blue"] \in Nat /\ scores["Red"] \in Nat
      /\ \A k \in Teams : scores[k] < ScoreLimit
      /\ overtime => scores["Blue"] = scores["Red"]
  BY DEF Clock, ResultIsFair, Teams
<1>2. CASE UNCHANGED <<overtime, phase, winner>>
  BY <1>1, <1>2 DEF ResultIsFair
<1>3. CASE scores["Blue"] = scores["Red"] /\ overtime' = TRUE /\ UNCHANGED <<phase, winner>>
  BY <1>1, <1>3 DEF ResultIsFair
<1>4. CASE /\ scores["Blue"] # scores["Red"] /\ UNCHANGED overtime
           /\ Finish(IF scores["Blue"] > scores["Red"] THEN "Blue" ELSE "Red")
  <2>1. phase' = "Results" /\ winner' \in Teams
    BY <1>4 DEF Finish, Teams
  <2>2. scores'[winner'] > scores'[other(winner')]
    BY <1>1, <1>4 DEF Finish, other
  <2> QED
    BY <1>1, <1>4, <2>1, <2>2 DEF ResultIsFair, other
<1> QED
  BY <1>2, <1>3, <1>4 DEF Clock

LEMMA FairNext == FairInv /\ [Next]_vars => FairInv'
<1> SUFFICES ASSUME FairInv, [Next]_vars PROVE FairInv'
  OBVIOUS
<1>1. ASSUME UNCHANGED round PROVE FairInv'
  BY <1>1 DEF FairInv, RoundInv, ResultIsFair, round, other
<1>2. CASE Clock
  BY <1>2, ClockKeepsFair
<1>3. CASE EndBattle
  <2>1. phase' = "Results" /\ winner' = "none" /\ UNCHANGED <<overtime, scores>>
    BY <1>3 DEF EndBattle
  <2> QED
    BY <2>1 DEF FairInv, RoundInv, ResultIsFair
<1>4. CASE Hit
  <2>1. CASE UNCHANGED <<round, tanks>>
    BY <2>1, <1>1
  <2>2. CASE Destroy(Head(work).on, Head(work).by)
    <3>1. /\ UNCHANGED overtime
          /\ Award(team(Head(work).on), team(Head(work).by.owner))
      BY <2>2 DEF Destroy
    <3>2. team(Head(work).on) \in Teams /\ team(Head(work).by.owner) \in Teams
      BY DEF team, Teams
    <3> QED
      BY <3>1, <3>2, AwardKeepsFair
  <2> QED
    BY <1>4, <2>1, <2>2 DEF Hit
<1>5. CASE UNCHANGED vars
  BY <1>1, <1>5 DEF vars
<1>6. CASE \/ \E t \in Tanks : Respawn(t) \/ \E x \in Mines \cup Shells : Launch(t, x)
           \/ TanksDone \/ DrumBreaks \/ Explode
  BY <1>1, <1>6 DEF Respawn, Launch, TanksDone, DrumBreaks, Explode
<1>7. CASE \/ \E s, o \in Shells : Intercept(s, o)
           \/ \E s \in Shells : Strike(s)
           \/ \E m \in Mines : StepMine(m)
  BY <1>1, <1>7 DEF Intercept, Strike, StepMine
<1> QED
  BY <1>2, <1>3, <1>4, <1>5, <1>6, <1>7 DEF Next

\* The round is decided by the score, whatever hits and blasts were under way
\* when it was (match_state.rs, award_kill and tick_match).
THEOREM RoundsAreFair == Spec => []ResultIsFair
<1>1. FairInv => ResultIsFair
  BY DEF FairInv
<1> QED
  BY FairInit, FairNext, <1>1, PTL DEF Spec

-----------------------------------------------------------------------------
(* Lives and blasts.                                                       *)

Ordnance == [owner : Tanks, life : Nat, appeared : Nat]
Targets == Tanks \cup Mines \cup Shells \cup Drums
Jobs == [kind : {"hit", "drum", "blast"}, on : Targets, by : Ordnance]

FieldTypes ==
  /\ alive \in [Tanks -> BOOLEAN]
  /\ life \in [Tanks -> Nat] /\ appeared \in [Tanks -> Nat]
  /\ lifeKills \in [Tanks -> Nat] /\ fresh \in [Tanks -> Nat]
  /\ blasts \in [Mines \cup Drums -> Nat]
  /\ standing \subseteq Drums
  /\ DOMAIN shots \subseteq Mines \cup Shells
  /\ \A x \in DOMAIN shots : shots[x] \in Ordnance
  /\ work \in Seq(Jobs)
  /\ \A k \in 1..Len(work) : work[k].kind = "hit" => work[k].on \in Tanks
  /\ stage = "tanks" => work = <<>>

\* What was fired names a life the tank has had, and the life it lives only if
\* it was fired since the tank appeared.
Dated(by) ==
  /\ by.life <= life[by.owner] /\ by.appeared <= appeared[by.owner]
  /\ alive[by.owner] => (by.life = life[by.owner] <=> by.appeared = appeared[by.owner])
  /\ ~alive[by.owner] => by.life < life[by.owner]

LivesInv ==
  /\ \A x \in DOMAIN shots : Dated(shots[x])
  /\ \A k \in 1..Len(work) : Dated(work[k].by)
  /\ LifeKillsAreFresh

\* It has not gone off: it lies on the field or stands.
Whole(x) == x \in DOMAIN shots \/ x \in standing

\* Something is about to go off, and no job twice.
Due(jobs, x) == \E k \in 1..Len(jobs) : jobs[k].kind = "blast" /\ jobs[k].on = x
Once(jobs) ==
  \A j, k \in 1..Len(jobs) :
    jobs[j].kind = "blast" /\ jobs[k].kind = "blast" /\ jobs[j].on = jobs[k].on => j = k

\* What is about to go off is gone from the field, and goes off once.
BlastsInv ==
  /\ Once(work)
  /\ \A x \in Targets : Due(work, x) => ~Whole(x)
  /\ \A x \in Mines \cup Drums : Whole(x) \/ Due(work, x) => blasts[x] = 0
  /\ BlastsOnce

FieldInv == FieldTypes /\ LivesInv /\ BlastsInv

\* A set becomes a sequence that has each of its elements once.
LEMMA SetToSeqIs ==
  ASSUME NEW S, IsFiniteSet(S)
  PROVE  /\ SetToSeq(S) \in Seq(S)
         /\ \A j, k \in 1..Len(SetToSeq(S)) : SetToSeq(S)[j] = SetToSeq(S)[k] => j = k
         /\ \A k \in 1..Len(SetToSeq(S)) : SetToSeq(S)[k] \in S
<1>1. Cardinality(S) \in Nat /\ ExistsBijection(1..Cardinality(S), S)
  BY FS_CardinalityType
<1>2. PICK f : f \in Bijection(1..Cardinality(S), S)
  BY <1>1 DEF ExistsBijection
<1>3. f \in [1..Cardinality(S) -> S] /\ IsInjective(f)
  BY <1>2 DEF Bijection, Injection, IsInjective
<1>4. SetToSeq(S) \in [1..Cardinality(S) -> S] /\ IsInjective(SetToSeq(S))
  BY <1>3 DEF SetToSeq
<1>5. SetToSeq(S) \in Seq(S) /\ DOMAIN SetToSeq(S) = 1..Len(SetToSeq(S))
  BY <1>1, <1>4
<1>6. QED
  BY <1>4, <1>5 DEF IsInjective

\* Jobs of one kind, one for each target, each in somebody's name.
LEMMA JobsAre ==
  ASSUME NEW set, IsFiniteSet(set), set \subseteq Targets, NEW kind \in {"hit", "drum", "blast"},
         NEW by \in [set -> Ordnance], NEW S, S = {Job(kind, y, by[y]) : y \in set},
         NEW jobs, jobs = SetToSeq(S)
  PROVE  /\ jobs \in Seq(Jobs)
         /\ \A k \in 1..Len(jobs) : /\ jobs[k].kind = kind /\ jobs[k].on \in set
                                    /\ jobs[k].by = by[jobs[k].on]
         /\ Once(jobs)
<1>1. IsFiniteSet(S)
  <2> DEFINE f == [y \in set |-> Job(kind, y, by[y])]
  <2>1. f \in Surjection(set, S)
    BY DEF Surjection
  <2>2. QED
    BY <2>1, FS_Surjection
<1>2. /\ jobs \in Seq(S)
      /\ \A j, k \in 1..Len(jobs) : jobs[j] = jobs[k] => j = k
      /\ \A k \in 1..Len(jobs) : jobs[k] \in S
  BY <1>1, SetToSeqIs
<1>3. \A y \in set : Job(kind, y, by[y]) \in Jobs
  BY DEF Job, Jobs
<1>4. S \subseteq Jobs
  BY <1>3
<1>5. \A s \in S : /\ s.kind = kind /\ s.on \in set /\ s.by = by[s.on]
                   /\ s = Job(kind, s.on, by[s.on])
  BY DEF Job
<1>6. \A k \in 1..Len(jobs) :
        /\ jobs[k].kind = kind /\ jobs[k].on \in set /\ jobs[k].by = by[jobs[k].on]
        /\ jobs[k] = Job(kind, jobs[k].on, by[jobs[k].on])
  BY <1>2, <1>5
<1>7. jobs \in Seq(Jobs)
  BY <1>2, <1>4
<1>8. Once(jobs)
  BY <1>2, <1>6 DEF Once
<1>9. QED
  BY <1>6, <1>7, <1>8

LEMMA NamedJobs ==
  ASSUME NEW set, IsFiniteSet(set), set \subseteq Targets, NEW kind \in {"hit", "drum", "blast"},
         NEW by \in Ordnance, NEW jobs, jobs = SetToSeq({Job(kind, y, by) : y \in set})
  PROVE  /\ jobs \in Seq(Jobs) /\ Once(jobs)
         /\ \A k \in 1..Len(jobs) : jobs[k].kind = kind /\ jobs[k].on \in set /\ jobs[k].by = by
<1> DEFINE names == [y \in set |-> by]
<1>1. names \in [set -> Ordnance] /\ \A y \in set : names[y] = by
  OBVIOUS
<1> HIDE DEF names
<1>2. {Job(kind, y, by) : y \in set} = {Job(kind, y, names[y]) : y \in set}
  BY <1>1
<1>3. QED
  BY <1>1, <1>2, JobsAre

\* Jobs done one list after the other.
Apart(u, v) == \A x \in Targets : ~(Due(u, x) /\ Due(v, x))
Joined(u, v, w) ==
  /\ w \in Seq(Jobs) /\ Once(w)
  /\ \A x : Due(w, x) => Due(u, x) \/ Due(v, x)
  /\ \A k \in 1..Len(w) : \/ \E j \in 1..Len(u) : w[k] = u[j]
                          \/ \E j \in 1..Len(v) : w[k] = v[j]

LEMMA InTurn ==
  ASSUME NEW u, u \in Seq(Jobs), NEW v, v \in Seq(Jobs), Once(u), Once(v), Apart(u, v),
         NEW w, w = u \o v
  PROVE  Joined(u, v, w)
<1>1. /\ w \in Seq(Jobs) /\ Len(w) = Len(u) + Len(v) /\ Len(u) \in Nat /\ Len(v) \in Nat
      /\ \A k \in 1..Len(w) : w[k] = IF k <= Len(u) THEN u[k] ELSE v[k - Len(u)]
  OBVIOUS
<1>2. \A k \in 1..Len(w) : \/ k \in 1..Len(u) /\ w[k] = u[k]
                           \/ k - Len(u) \in 1..Len(v) /\ w[k] = v[k - Len(u)]
  BY <1>1
<1>3. \A x : Due(w, x) => Due(u, x) \/ Due(v, x)
  BY <1>2 DEF Due
<1>4. \A k \in 1..Len(w) : w[k].on \in Targets
  <2>1. \A k \in 1..Len(w) : w[k] \in Jobs
    BY <1>1
  <2>2. QED
    BY <2>1 DEF Jobs
<1>5. Once(w)
  <2>1. SUFFICES ASSUME NEW j \in 1..Len(w), NEW k \in 1..Len(w), w[j].kind = "blast",
                        w[k].kind = "blast", w[j].on = w[k].on
                 PROVE  j = k
    BY DEF Once
  <2>2. CASE j \in 1..Len(u) /\ w[j] = u[j] /\ k \in 1..Len(u) /\ w[k] = u[k]
    BY <2>1, <2>2 DEF Once
  <2>3. CASE /\ j - Len(u) \in 1..Len(v) /\ w[j] = v[j - Len(u)]
             /\ k - Len(u) \in 1..Len(v) /\ w[k] = v[k - Len(u)]
    <3>1. j - Len(u) = k - Len(u)
      BY <2>1, <2>3 DEF Once
    <3>2. QED
      BY <1>1, <2>1, <3>1
  <2>4. CASE \/ /\ j \in 1..Len(u) /\ w[j] = u[j]
                /\ k - Len(u) \in 1..Len(v) /\ w[k] = v[k - Len(u)]
             \/ /\ k \in 1..Len(u) /\ w[k] = u[k]
                /\ j - Len(u) \in 1..Len(v) /\ w[j] = v[j - Len(u)]
    <3>1. Due(u, w[j].on) /\ Due(v, w[j].on)
      BY <2>1, <2>4 DEF Due
    <3>2. QED
      BY <1>4, <2>1, <3>1 DEF Apart
  <2>5. QED
    BY <1>2, <2>1, <2>2, <2>3, <2>4
<1>6. QED
  BY <1>1, <1>2, <1>3, <1>5 DEF Joined

\* What is left when the first job is taken.
LEMMA RestIs ==
  ASSUME NEW w \in Seq(Jobs), w # <<>>, Once(w)
  PROVE  /\ Head(w) = w[1] /\ 1 \in 1..Len(w) /\ Head(w) \in Jobs
         /\ Tail(w) \in Seq(Jobs) /\ Once(Tail(w))
         /\ \A x : Due(Tail(w), x) => Due(w, x)
         /\ Head(w).kind = "blast" => Due(w, Head(w).on) /\ ~Due(Tail(w), Head(w).on)
         /\ \A k \in 1..Len(Tail(w)) : k + 1 \in 1..Len(w) /\ Tail(w)[k] = w[k + 1]
<1>1. /\ Head(w) = w[1] /\ 1 \in 1..Len(w) /\ Head(w) \in Jobs
      /\ Tail(w) \in Seq(Jobs)
      /\ \A k \in 1..Len(Tail(w)) : k + 1 \in 1..Len(w) /\ Tail(w)[k] = w[k + 1]
  OBVIOUS
<1>2. Once(Tail(w))
  <2>1. SUFFICES ASSUME NEW j \in 1..Len(Tail(w)), NEW k \in 1..Len(Tail(w)),
                        Tail(w)[j].kind = "blast", Tail(w)[k].kind = "blast",
                        Tail(w)[j].on = Tail(w)[k].on
                 PROVE  j = k
    BY DEF Once
  <2>2. j + 1 = k + 1
    BY <1>1, <2>1 DEF Once
  <2>3. QED
    BY <2>2
<1>3. \A x : Due(Tail(w), x) => Due(w, x)
  BY <1>1 DEF Due
<1>4. Head(w).kind = "blast" => Due(w, Head(w).on) /\ ~Due(Tail(w), Head(w).on)
  <2>1. SUFFICES ASSUME Head(w).kind = "blast" PROVE Due(w, Head(w).on) /\ ~Due(Tail(w), Head(w).on)
    OBVIOUS
  <2>2. Due(w, Head(w).on)
    BY <1>1, <2>1 DEF Due
  <2>3. ASSUME NEW k \in 1..Len(Tail(w)), Tail(w)[k].kind = "blast", Tail(w)[k].on = Head(w).on
        PROVE  FALSE
    <3>1. 1 = k + 1
      BY <1>1, <2>1, <2>3 DEF Once
    <3>2. QED
      BY <3>1
  <2>4. QED
    BY <2>2, <2>3 DEF Due
<1>5. QED
  BY <1>1, <1>2, <1>3, <1>4

-----------------------------------------------------------------------------
(* Steps of tanks, shells and blasts.                                      *)

\* The arena's parts are finite and apart.
LEMMA ArenaIs ==
  /\ \A set \in SUBSET Tanks : IsFiniteSet(set) /\ set \subseteq Targets
  /\ \A set \in SUBSET Mines : IsFiniteSet(set) /\ set \subseteq Targets
  /\ \A set \in SUBSET Drums : IsFiniteSet(set) /\ set \subseteq Targets
  /\ \A x \in Mines \cup Shells : x \notin Drums
  /\ \A x \in Shells : x \notin Mines \cup Drums
<1>1. \A S : IsFiniteSet(S) => \A set \in SUBSET S : IsFiniteSet(set)
  BY FS_Subset
<1>2. QED
  BY <1>1, BattleAssumption DEF Targets

LEMMA FieldInit == Init => FieldInv
<1>1. SUFFICES ASSUME Init PROVE FieldInv
  OBVIOUS
<1>2. /\ work = <<>> /\ DOMAIN shots = {} /\ standing = Drums
      /\ blasts = [x \in Mines \cup Drums |-> 0]
  BY <1>1 DEF Init
<1>3. Len(work) = 0
  BY <1>2
<1>4. FieldTypes
  BY <1>1, <1>2 DEF Init, FieldTypes
<1>5. LivesInv
  BY <1>1, <1>2, <1>3 DEF Init, LivesInv, LifeKillsAreFresh
<1>6. BlastsInv
  BY <1>2, <1>3 DEF BlastsInv, Once, Due, BlastsOnce
<1>7. QED
  BY <1>4, <1>5, <1>6 DEF FieldInv

\* Nothing happens to tanks, shots and blasts.
LEMMA FieldStays ==
  ASSUME FieldInv, UNCHANGED <<tanks, field>>, stage' = "tanks" => work = <<>>
  PROVE  FieldInv'
BY DEF FieldInv, FieldTypes, LivesInv, BlastsInv, LifeKillsAreFresh, BlastsOnce, Dated, Whole,
       tanks, field

\* A shot or a mine does something: what goes off leaves the field.
LEMMA ShotsKeepField ==
  ASSUME FieldInv, UNCHANGED <<tanks, standing, blasts, stage>>, work = <<>>, stage = "blasts",
         DOMAIN shots' \subseteq DOMAIN shots, \A x \in DOMAIN shots' : shots'[x] = shots[x],
         work' \in Seq(Jobs), Once(work'),
         \A k \in 1..Len(work') : work'[k].kind = "hit" => work'[k].on \in Tanks,
         \A k \in 1..Len(work') : Dated(work'[k].by),
         \A x \in Targets : Due(work', x) => x \in DOMAIN shots /\ x \notin DOMAIN shots'
  PROVE  FieldInv'
<1>1. UNCHANGED <<alive, life, kills, lifeKills, fresh, appeared, standing, blasts, stage>>
  BY DEF tanks
<1>2. FieldTypes /\ LivesInv /\ BlastsInv
  BY DEF FieldInv
<1>3. FieldTypes'
  BY <1>1, <1>2 DEF FieldTypes
<1>4. LivesInv'
  <2>1. \A x \in DOMAIN shots' : Dated(shots'[x])
    BY <1>2 DEF LivesInv
  <2>2. QED
    BY <1>1, <1>2, <2>1 DEF LivesInv, Dated, LifeKillsAreFresh
<1>5. BlastsInv'
  <2>1. \A x \in Targets : Due(work', x) => x \notin standing
    BY <1>2, ArenaIs DEF FieldTypes
  <2>2. \A x \in Targets : Whole(x)' => Whole(x)
    BY <1>1 DEF Whole
  <2>3. \A x \in Targets : Due(work', x) => Whole(x) /\ ~Whole(x)'
    BY <1>1, <2>1 DEF Whole
  <2>4. Mines \cup Drums \subseteq Targets
    BY DEF Targets
  <2>5. \A x \in Mines \cup Drums : Whole(x)' \/ Due(work', x) => blasts'[x] = 0
    BY <1>1, <1>2, <2>2, <2>3, <2>4 DEF BlastsInv
  <2>6. BlastsOnce'
    BY <1>1, <1>2 DEF BlastsInv, BlastsOnce
  <2>7. QED
    BY <2>3, <2>5, <2>6 DEF BlastsInv
<1>6. QED
  BY <1>3, <1>4, <1>5 DEF FieldInv

\* One job is begun, or none.
LEMMA OneJobKeepsField ==
  ASSUME FieldInv, UNCHANGED <<tanks, standing, blasts, stage>>, work = <<>>, stage = "blasts",
         DOMAIN shots' \subseteq DOMAIN shots, \A x \in DOMAIN shots' : shots'[x] = shots[x],
         NEW kind \in {"hit", "drum", "blast"}, NEW x \in Targets, NEW s \in DOMAIN shots,
         kind = "hit" => x \in Tanks,
         kind = "blast" => x \in DOMAIN shots /\ x \notin DOMAIN shots',
         work' \in {<<>>, <<Job(kind, x, shots[s])>>}
  PROVE  FieldInv'
<1> DEFINE job == Job(kind, x, shots[s])
<1>1. FieldTypes /\ LivesInv
  BY DEF FieldInv
<1>2. job \in Jobs /\ job.kind = kind /\ job.on = x /\ job.by = shots[s] /\ Dated(shots[s])
  BY <1>1 DEF Job, Jobs, FieldTypes, LivesInv
<1> HIDE DEF job
<1>3. work' \in Seq(Jobs) /\ Len(work') \in {0, 1} /\ \A k \in 1..Len(work') : k = 1 /\ work'[k] = job
  <2>1. CASE work' = <<>>
    BY <2>1
  <2>2. CASE work' = <<job>>
    BY <1>2, <2>2
  <2>3. QED
    BY <2>1, <2>2 DEF job
<1>4. Once(work')
  BY <1>3 DEF Once
<1>5. \A y \in Targets : Due(work', y) => kind = "blast" /\ y = x
  BY <1>2, <1>3 DEF Due
<1>6. \A k \in 1..Len(work') : Dated(work'[k].by)
  BY <1>2, <1>3
<1>7. \A k \in 1..Len(work') : work'[k].kind = "hit" => work'[k].on \in Tanks
  BY <1>2, <1>3
<1>8. QED
  BY <1>3, <1>4, <1>5, <1>6, <1>7, ShotsKeepField

\* The shots that are left.
LEMMA WithoutIs ==
  ASSUME NEW gone
  PROVE  /\ DOMAIN Without(gone) = DOMAIN shots \ gone
         /\ \A x \in DOMAIN Without(gone) : Without(gone)[x] = shots[x]
         /\ \A x \in gone : x \notin DOMAIN Without(gone)
BY DEF Without, Restrict

LEMMA StrikeKeepsField ==
  ASSUME FieldInv, NEW s \in Shells, Strike(s)
  PROVE  FieldInv'
<1>1. /\ stage = "blasts" /\ work = <<>> /\ s \in DOMAIN shots
      /\ UNCHANGED <<tanks, standing, blasts, stage>>
  BY DEF Strike
<1>2. FieldTypes
  BY DEF FieldInv
<1>3. CASE shots' = Without({s}) /\ \E t \in Tanks : work' = <<Job("hit", t, shots[s])>>
  <2>1. PICK t \in Tanks : work' = <<Job("hit", t, shots[s])>>
    BY <1>3
  <2>2. t \in Targets
    BY DEF Targets
  <2>3. DOMAIN shots' \subseteq DOMAIN shots /\ \A x \in DOMAIN shots' : shots'[x] = shots[x]
    BY <1>3, WithoutIs
  <2>4. QED
    BY <1>1, <2>1, <2>2, <2>3, OneJobKeepsField
<1>4. CASE shots' = Without({s}) /\ work' \in {<<>>, <<Job("blast", s, shots[s])>>}
  <2>1. s \in Targets
    BY DEF Targets
  <2>2. /\ DOMAIN shots' \subseteq DOMAIN shots /\ \A x \in DOMAIN shots' : shots'[x] = shots[x]
        /\ s \notin DOMAIN shots'
    BY <1>4, WithoutIs
  <2>3. QED
    BY <1>1, <1>4, <2>1, <2>2, OneJobKeepsField
<1>5. CASE /\ \E d \in standing : work' = <<Job("drum", d, shots[s])>>
           /\ shots' \in {shots, Without({s})}
  <2>1. PICK d \in standing : work' = <<Job("drum", d, shots[s])>>
    BY <1>5
  <2>2. d \in Targets
    BY <1>2 DEF FieldTypes, Targets
  <2>3. DOMAIN shots' \subseteq DOMAIN shots /\ \A x \in DOMAIN shots' : shots'[x] = shots[x]
    BY <1>5, WithoutIs
  <2>4. QED
    BY <1>1, <2>1, <2>2, <2>3, OneJobKeepsField
<1>6. CASE \E m \in DOMAIN shots \cap Mines :
             work' = <<Job("blast", m, shots[s])>> /\ shots' = Without({s, m})
  <2>1. PICK m \in DOMAIN shots \cap Mines :
          work' = <<Job("blast", m, shots[s])>> /\ shots' = Without({s, m})
    BY <1>6
  <2>2. m \in Targets
    BY <2>1 DEF Targets
  <2>3. /\ DOMAIN shots' \subseteq DOMAIN shots /\ \A x \in DOMAIN shots' : shots'[x] = shots[x]
        /\ m \notin DOMAIN shots'
    BY <2>1, WithoutIs
  <2>4. QED
    BY <1>1, <2>1, <2>2, <2>3, OneJobKeepsField
<1>7. QED
  BY <1>3, <1>4, <1>5, <1>6 DEF Strike

LEMMA StepMineKeepsField ==
  ASSUME FieldInv, NEW m \in Mines, StepMine(m)
  PROVE  FieldInv'
<1>1. /\ stage = "blasts" /\ work = <<>> /\ m \in DOMAIN shots
      /\ UNCHANGED <<tanks, standing, blasts, stage>>
      /\ shots' = Without({m}) /\ work' \in {<<>>, <<Job("blast", m, shots[m])>>}
  BY DEF StepMine
<1>2. m \in Targets
  BY DEF Targets
<1>3. /\ DOMAIN shots' \subseteq DOMAIN shots /\ \A x \in DOMAIN shots' : shots'[x] = shots[x]
      /\ m \notin DOMAIN shots'
  BY <1>1, WithoutIs
<1>4. QED
  BY <1>1, <1>2, <1>3, OneJobKeepsField

LEMMA InterceptKeepsField ==
  ASSUME FieldInv, NEW s \in Shells, NEW o \in Shells, Intercept(s, o)
  PROVE  FieldInv'
<1> DEFINE enemyShot(t) == IF team(shots[s].owner) # team(t) THEN shots[s] ELSE shots[o]
<1>1. /\ stage = "blasts" /\ work = <<>> /\ s \in DOMAIN shots /\ o \in DOMAIN shots
      /\ shots' = Without({s, o})
      /\ UNCHANGED <<tanks, standing, blasts, stage>>
  BY DEF Intercept
<1>2. PICK near \in SUBSET {t \in Tanks : alive[t]} :
        work' = SetToSeq({Job("hit", t, enemyShot(t)) : t \in near})
  BY DEF Intercept
<1> DEFINE by == [t \in near |-> enemyShot(t)]
<1>3. FieldTypes /\ LivesInv
  BY DEF FieldInv
<1>4. \A t : enemyShot(t) \in Ordnance /\ Dated(enemyShot(t))
  BY <1>1, <1>3 DEF FieldTypes, LivesInv
<1> HIDE DEF enemyShot
<1>5. by \in [near -> Ordnance] /\ \A t \in near : by[t] = enemyShot(t)
  BY <1>4
<1> HIDE DEF by
<1>6. {Job("hit", t, enemyShot(t)) : t \in near} = {Job("hit", t, by[t]) : t \in near}
  BY <1>5
<1>7. near \in SUBSET Tanks
  BY <1>2
<1>8. IsFiniteSet(near) /\ near \subseteq Targets
  BY <1>7, ArenaIs
<1>9. /\ work' \in Seq(Jobs) /\ Once(work')
      /\ \A k \in 1..Len(work') : /\ work'[k].kind = "hit" /\ work'[k].on \in near
                                  /\ work'[k].by = by[work'[k].on]
  BY <1>2, <1>5, <1>6, <1>8, JobsAre
<1>10. \A k \in 1..Len(work') : Dated(work'[k].by) /\ work'[k].on \in Tanks
  BY <1>4, <1>5, <1>7, <1>9
<1>11. \A x \in Targets : ~Due(work', x)
  BY <1>9 DEF Due
<1>12. DOMAIN shots' \subseteq DOMAIN shots /\ \A x \in DOMAIN shots' : shots'[x] = shots[x]
  BY <1>1, WithoutIs, ZenonT(40)
<1>13. QED
  BY <1>1, <1>9, <1>10, <1>11, <1>12, ShotsKeepField

\* A tank is back with a life in which it has fired nothing.
LEMMA RespawnKeepsField ==
  ASSUME FieldInv, NEW t \in Tanks, Respawn(t)
  PROVE  FieldInv'
<1>1. /\ ~alive[t] /\ alive' = [alive EXCEPT ![t] = TRUE]
      /\ lifeKills' = [lifeKills EXCEPT ![t] = 0] /\ fresh' = [fresh EXCEPT ![t] = 0]
      /\ appeared' = [appeared EXCEPT ![t] = @ + 1]
      /\ UNCHANGED <<life, shots, standing, work, blasts, stage>>
  BY DEF Respawn, field
<1>2. FieldTypes /\ LivesInv /\ BlastsInv
  BY DEF FieldInv
<1>3. FieldTypes'
  BY <1>1, <1>2 DEF FieldTypes
<1>4. ASSUME NEW by \in Ordnance, Dated(by)
      PROVE  Dated(by)'
  <2>1. by.owner \in Tanks /\ by.life \in Nat /\ by.appeared \in Nat
    BY <1>4 DEF Ordnance
  <2>2. /\ alive \in [Tanks -> BOOLEAN] /\ life \in [Tanks -> Nat] /\ appeared \in [Tanks -> Nat]
    BY <1>2 DEF FieldTypes
  <2>3. CASE by.owner = t
    <3>1. alive'[t] /\ appeared'[t] = appeared[t] + 1 /\ life'[t] = life[t]
      BY <1>1, <2>2
    <3>2. by.life < life[t] /\ by.appeared <= appeared[t] /\ life[t] \in Nat /\ appeared[t] \in Nat
      BY <1>1, <1>4, <2>2, <2>3 DEF Dated
    <3>3. QED
      BY <2>1, <2>3, <3>1, <3>2 DEF Dated
  <2>4. CASE by.owner # t
    <3>1. /\ alive'[by.owner] = alive[by.owner] /\ appeared'[by.owner] = appeared[by.owner]
          /\ life'[by.owner] = life[by.owner]
      BY <1>1, <2>1, <2>2, <2>4
    <3>2. QED
      BY <1>4, <3>1 DEF Dated
  <2>5. QED
    BY <2>3, <2>4
<1>5. \A x \in DOMAIN shots : Dated(shots[x])'
  BY <1>1, <1>2, <1>4 DEF FieldTypes, LivesInv
<1>6. \A k \in 1..Len(work) : Dated(work[k].by)'
  <2>1. \A k \in 1..Len(work) : work[k] \in Jobs
    BY <1>2 DEF FieldTypes
  <2>2. \A k \in 1..Len(work) : work[k].by \in Ordnance
    BY <2>1 DEF Jobs
  <2>3. QED
    BY <1>1, <1>2, <1>4, <2>2 DEF LivesInv
<1>7. LifeKillsAreFresh'
  BY <1>1, <1>2 DEF LifeKillsAreFresh, LivesInv, FieldTypes
<1>8. LivesInv'
  BY <1>1, <1>5, <1>6, <1>7 DEF LivesInv
<1>9. BlastsInv'
  BY <1>1, <1>2 DEF BlastsInv, BlastsOnce, Whole
<1>10. QED
  BY <1>3, <1>8, <1>9 DEF FieldInv

\* What is fired is of the life the tank lives.
LEMMA LaunchKeepsField ==
  ASSUME FieldInv, NEW t \in Tanks, NEW x \in Mines \cup Shells, Launch(t, x)
  PROVE  FieldInv'
<1> DEFINE by == [owner |-> t, life |-> life[t], appeared |-> appeared[t]]
<1>1. /\ stage = "tanks" /\ alive[t] /\ x \notin DOMAIN shots
      /\ shots' = [y \in {x} \cup DOMAIN shots |-> IF y = x THEN by ELSE shots[y]]
      /\ blasts' = IF x \in Mines THEN [blasts EXCEPT ![x] = 0] ELSE blasts
      /\ UNCHANGED <<alive, life, lifeKills, fresh, appeared, standing, work, stage>>
  BY DEF Launch, tanks
<1>2. FieldTypes /\ LivesInv /\ BlastsInv /\ work = <<>>
  BY <1>1 DEF FieldInv, FieldTypes
<1>3. by \in Ordnance /\ Dated(by)
  BY <1>1, <1>2 DEF FieldTypes, Ordnance, Dated
<1> HIDE DEF by
<1>4. /\ DOMAIN shots' = {x} \cup DOMAIN shots /\ shots'[x] = by
      /\ \A y \in DOMAIN shots : shots'[y] = shots[y]
  BY <1>1
<1>5. /\ blasts' \in [Mines \cup Drums -> Nat] /\ (x \in Mines => blasts'[x] = 0)
      /\ \A y \in Mines \cup Drums : y # x => blasts'[y] = blasts[y]
  BY <1>1, <1>2 DEF FieldTypes
<1>6. FieldTypes'
  BY <1>1, <1>2, <1>3, <1>4, <1>5 DEF FieldTypes
<1>7. LivesInv'
  <2>1. \A y \in DOMAIN shots' : Dated(shots'[y])
    BY <1>2, <1>3, <1>4 DEF LivesInv
  <2>2. \A y \in DOMAIN shots' : Dated(shots[y])'
    BY <1>1, <2>1 DEF Dated
  <2>3. \A k \in 1..Len(work) : Dated(work[k].by)'
    BY <1>1, <1>2 DEF LivesInv, Dated
  <2>4. LifeKillsAreFresh'
    BY <1>1, <1>2 DEF LivesInv, LifeKillsAreFresh
  <2>5. QED
    BY <1>1, <2>2, <2>3, <2>4 DEF LivesInv
<1>8. BlastsInv'
  <2>1. work' = <<>> /\ Len(work') = 0
    BY <1>1, <1>2
  <2>2. Once(work') /\ \A y \in Targets : ~Due(work', y)
    BY <2>1 DEF Once, Due
  <2>3. \A y \in Mines \cup Drums : Whole(y)' => blasts'[y] = 0
    <3>1. SUFFICES ASSUME NEW y \in Mines \cup Drums, Whole(y)' PROVE blasts'[y] = 0
      OBVIOUS
    <3>2. CASE y = x
      BY <1>5, <3>1, <3>2, ArenaIs
    <3>3. CASE y # x
      <4>1. Whole(y)
        BY <1>1, <1>4, <3>1, <3>3 DEF Whole
      <4>2. QED
        BY <1>2, <1>5, <3>1, <3>3, <4>1 DEF BlastsInv
    <3>4. QED
      BY <3>2, <3>3
  <2>4. BlastsOnce'
    <3>1. \A y \in Mines \cup Drums : blasts'[y] = 0 \/ blasts'[y] = blasts[y]
      BY <1>1, <1>2 DEF FieldTypes
    <3>2. \A y \in Mines \cup Drums : blasts[y] <= 1
      BY <1>2 DEF BlastsInv, BlastsOnce, FieldTypes
    <3>3. \A y \in Mines \cup Drums : blasts'[y] <= 1
      BY <3>1, <3>2
    <3>4. QED
      BY <1>5, <3>3 DEF BlastsOnce
  <2>5. Mines \cup Drums \subseteq Targets
    BY DEF Targets
  <2>6. QED
    BY <2>2, <2>3, <2>4, <2>5 DEF BlastsInv
<1>9. QED
  BY <1>6, <1>7, <1>8 DEF FieldInv

\* A tank is destroyed: what it fired is of a life that is over, and who
\* destroyed it gets a kill for its life only by what it fired in it.
LEMMA DestroyKeepsLives ==
  ASSUME FieldTypes, LivesInv, NEW t \in Tanks, alive[t], NEW by \in Ordnance, Dated(by),
         Destroy(t, by), UNCHANGED shots, NEW rest \in Seq(Jobs),
         \A k \in 1..Len(rest) : Dated(rest[k].by), work' = rest
  PROVE  /\ alive' \in [Tanks -> BOOLEAN] /\ life' \in [Tanks -> Nat] /\ appeared' \in [Tanks -> Nat]
         /\ lifeKills' \in [Tanks -> Nat] /\ fresh' \in [Tanks -> Nat]
         /\ LivesInv'
<1> DEFINE killed == by.owner # t /\ team(by.owner) # team(t)
           current == alive[by.owner] /\ by.life = life[by.owner]
           same == by.appeared = appeared[by.owner]
<1>1. /\ alive' = [alive EXCEPT ![t] = FALSE] /\ life' = [life EXCEPT ![t] = @ + 1]
      /\ lifeKills' = IF killed /\ current THEN [lifeKills EXCEPT ![by.owner] = @ + 1] ELSE lifeKills
      /\ fresh' = IF killed /\ same THEN [fresh EXCEPT ![by.owner] = @ + 1] ELSE fresh
      /\ appeared' = appeared
  BY DEF Destroy, Fallen
<1>2. /\ alive \in [Tanks -> BOOLEAN] /\ life \in [Tanks -> Nat] /\ appeared \in [Tanks -> Nat]
      /\ lifeKills \in [Tanks -> Nat] /\ fresh \in [Tanks -> Nat]
  BY DEF FieldTypes
<1>3. by.owner \in Tanks
  BY DEF Ordnance
<1>4. alive[by.owner] => (current <=> same)
  BY DEF Dated
<1>5. /\ alive' \in [Tanks -> BOOLEAN] /\ life' \in [Tanks -> Nat] /\ appeared' \in [Tanks -> Nat]
      /\ ~alive'[t] /\ life'[t] = life[t] + 1
      /\ \A u \in Tanks : u # t => alive'[u] = alive[u] /\ life'[u] = life[u]
  BY <1>1, <1>2, SMTT(30)
<1> HIDE DEF killed, current, same
<1>6. lifeKills' \in [Tanks -> Nat] /\ fresh' \in [Tanks -> Nat]
  <2>1. ASSUME NEW f \in [Tanks -> Nat] PROVE [f EXCEPT ![by.owner] = @ + 1] \in [Tanks -> Nat]
    BY <1>3
  <2>2. \/ lifeKills' = lifeKills
        \/ lifeKills' = [lifeKills EXCEPT ![by.owner] = @ + 1]
    BY <1>1
  <2>3. \/ fresh' = fresh
        \/ fresh' = [fresh EXCEPT ![by.owner] = @ + 1]
    BY <1>1
  <2>4. QED
    BY <1>2, <2>1, <2>2, <2>3
<1>7. ASSUME NEW r \in Ordnance, Dated(r)
      PROVE  Dated(r)'
  <2>1. r.owner \in Tanks /\ r.life \in Nat /\ r.appeared \in Nat
    BY <1>7 DEF Ordnance
  <2>2. CASE r.owner = t
    <3>1. r.life <= life[t] /\ life[t] \in Nat /\ r.appeared <= appeared[t]
      BY <1>2, <1>7, <2>2 DEF Dated
    <3>2. r.life < life'[t] /\ r.life <= life'[t]
      BY <1>5, <2>1, <3>1
    <3>3. QED
      BY <1>1, <1>5, <2>2, <3>1, <3>2 DEF Dated
  <2>3. CASE r.owner # t
    <3>1. /\ alive'[r.owner] = alive[r.owner] /\ life'[r.owner] = life[r.owner]
          /\ appeared'[r.owner] = appeared[r.owner]
      BY <1>1, <1>5, <2>1, <2>3
    <3>2. QED
      BY <1>7, <3>1 DEF Dated
  <2>4. QED
    BY <2>2, <2>3
<1>8. \A x \in DOMAIN shots : Dated(shots[x])'
  BY <1>7 DEF FieldTypes, LivesInv
<1>9. \A k \in 1..Len(rest) : Dated(rest[k].by)'
  <2>1. \A k \in 1..Len(rest) : rest[k] \in Jobs
    OBVIOUS
  <2>2. \A k \in 1..Len(rest) : rest[k].by \in Ordnance
    BY <2>1 DEF Jobs
  <2>3. QED
    BY <1>7, <2>2
<1>10. LifeKillsAreFresh'
  <2>1. SUFFICES ASSUME NEW u \in Tanks, alive'[u] PROVE lifeKills'[u] = fresh'[u]
    BY DEF LifeKillsAreFresh
  <2>2. alive[u] /\ lifeKills[u] = fresh[u]
    BY <1>5, <2>1 DEF LivesInv, LifeKillsAreFresh
  <2>3. CASE u = by.owner
    <3>1. current <=> same
      BY <1>4, <2>2, <2>3
    <3>2. QED
      BY <1>1, <1>2, <1>3, <2>2, <2>3, <3>1
  <2>4. CASE u # by.owner
    <3>1. lifeKills'[u] = lifeKills[u] /\ fresh'[u] = fresh[u]
      BY <1>1, <1>2, <1>3, <2>1, <2>4
    <3>2. QED
      BY <2>2, <3>1
  <2>5. QED
    BY <2>3, <2>4
<1>11. LivesInv'
  BY <1>8, <1>9, <1>10 DEF LivesInv
<1>12. QED
  BY <1>5, <1>6, <1>11

\* A job that destroys nothing on the field is done.
LEMMA RestKeepsBlasts ==
  ASSUME FieldTypes, BlastsInv, UNCHANGED <<shots, standing, blasts>>, work # <<>>, work' = Tail(work)
  PROVE  BlastsInv'
<1>1. /\ Once(work') /\ \A x : Due(work', x) => Due(work, x)
  BY RestIs DEF FieldTypes, BlastsInv
<1>2. QED
  BY <1>1 DEF BlastsInv, BlastsOnce, Whole

LEMMA HitKeepsField ==
  ASSUME FieldInv, Hit
  PROVE  FieldInv'
<1> DEFINE job == Head(work)
           immune == ~alive[job.on] \/ (team(job.on) = team(job.by.owner) /\ job.on # job.by.owner)
<1>1. /\ work # <<>> /\ job.kind = "hit" /\ work' = Tail(work)
      /\ UNCHANGED <<shots, standing, blasts, stage>>
      /\ UNCHANGED tanks \/ (alive[job.on] /\ Destroy(job.on, job.by))
  BY DEF Hit, Doing
<1>2. FieldTypes /\ LivesInv /\ BlastsInv
  BY DEF FieldInv
<1>3. /\ job = work[1] /\ 1 \in 1..Len(work) /\ job \in Jobs
      /\ Tail(work) \in Seq(Jobs)
      /\ \A k \in 1..Len(Tail(work)) : k + 1 \in 1..Len(work) /\ Tail(work)[k] = work[k + 1]
  BY <1>1, <1>2, RestIs DEF FieldTypes, BlastsInv
<1>4. job.on \in Tanks /\ job.by \in Ordnance /\ Dated(job.by)
  <2>1. job.on \in Tanks
    BY <1>1, <1>2, <1>3 DEF FieldTypes
  <2>2. job.by \in Ordnance
    BY <1>3 DEF Jobs
  <2>3. Dated(job.by)
    BY <1>2, <1>3 DEF LivesInv
  <2>4. QED
    BY <2>1, <2>2, <2>3
<1>5. \A k \in 1..Len(work') : Dated(work'[k].by) /\ (work'[k].kind = "hit" => work'[k].on \in Tanks)
  BY <1>1, <1>2, <1>3 DEF FieldTypes, LivesInv
<1>6. BlastsInv'
  BY <1>1, <1>2, RestKeepsBlasts
<1>7. stage' # "tanks"
  BY <1>1, <1>2 DEF FieldTypes
<1> HIDE DEF job
<1>8. /\ alive' \in [Tanks -> BOOLEAN] /\ life' \in [Tanks -> Nat] /\ appeared' \in [Tanks -> Nat]
      /\ lifeKills' \in [Tanks -> Nat] /\ fresh' \in [Tanks -> Nat]
      /\ LivesInv'
  <2>1. CASE UNCHANGED tanks
    <3>1. UNCHANGED <<alive, life, lifeKills, fresh, appeared>>
      BY <2>1 DEF tanks
    <3>2. QED
      BY <1>1, <1>2, <1>5, <3>1 DEF FieldTypes, LivesInv, LifeKillsAreFresh, Dated
  <2>2. CASE alive[job.on] /\ Destroy(job.on, job.by)
    BY <1>1, <1>2, <1>3, <1>4, <1>5, <2>2, DestroyKeepsLives
  <2>3. QED
    BY <1>1, <2>1, <2>2
<1>9. FieldTypes'
  BY <1>1, <1>2, <1>3, <1>5, <1>7, <1>8 DEF FieldTypes
<1>10. QED
  BY <1>6, <1>8, <1>9 DEF FieldInv

\* A drum that stood goes off once: it stands no more.
LEMMA DrumBreaksKeepsField ==
  ASSUME FieldInv, DrumBreaks
  PROVE  FieldInv'
<1> DEFINE d == Head(work).on
           by == Head(work).by
           blast == IF d \in standing THEN <<Job("blast", d, by)>> ELSE <<>>
<1>1. /\ work # <<>> /\ Head(work).kind = "drum" /\ work' = blast \o Tail(work)
      /\ standing' = standing \ {d}
      /\ UNCHANGED <<alive, life, lifeKills, fresh, appeared, shots, blasts, stage>>
  BY DEF DrumBreaks, Doing, tanks
<1>2. FieldTypes /\ LivesInv /\ BlastsInv
  BY DEF FieldInv
<1>3. /\ Head(work) = work[1] /\ 1 \in 1..Len(work) /\ Head(work) \in Jobs
      /\ Tail(work) \in Seq(Jobs) /\ Once(Tail(work))
      /\ \A x : Due(Tail(work), x) => Due(work, x)
      /\ \A k \in 1..Len(Tail(work)) : k + 1 \in 1..Len(work) /\ Tail(work)[k] = work[k + 1]
  BY <1>1, <1>2, RestIs DEF FieldTypes, BlastsInv
<1>4. d \in Targets /\ by \in Ordnance /\ Dated(by)
  <2>1. d \in Targets /\ by \in Ordnance
    BY <1>3 DEF Jobs
  <2>2. Dated(by)
    BY <1>2, <1>3 DEF LivesInv
  <2>3. QED
    BY <2>1, <2>2
<1> HIDE DEF d, by
<1> DEFINE job == Job("blast", d, by)
<1>5. job \in Jobs /\ job.kind = "blast" /\ job.on = d /\ job.by = by
  BY <1>4 DEF Job, Jobs
<1> HIDE DEF job
<1>6. /\ blast \in Seq(Jobs) /\ Once(blast)
      /\ \A x : Due(blast, x) => x = d /\ d \in standing
      /\ \A k \in 1..Len(blast) : blast[k] = job
  <2>1. CASE d \in standing
    <3>1. blast = <<job>>
      BY <2>1 DEF job
    <3> HIDE DEF blast
    <3>2. blast \in Seq(Jobs) /\ Len(blast) = 1 /\ blast[1] = job
      BY <1>5, <3>1
    <3>3. QED
      BY <1>5, <2>1, <3>2 DEF Once, Due
  <2>2. CASE d \notin standing
    <3>1. blast = <<>>
      BY <2>2
    <3> HIDE DEF blast
    <3>2. blast \in Seq(Jobs) /\ Len(blast) = 0
      BY <3>1
    <3>3. QED
      BY <3>2 DEF Once, Due
  <2>3. QED
    BY <2>1, <2>2
<1> HIDE DEF blast
<1>7. Apart(blast, Tail(work))
  BY <1>2, <1>3, <1>6 DEF BlastsInv, Whole, Apart
<1>8. /\ work' \in Seq(Jobs) /\ Once(work')
      /\ \A x : Due(work', x) => Due(blast, x) \/ Due(Tail(work), x)
      /\ \A k \in 1..Len(work') : \/ \E j \in 1..Len(blast) : work'[k] = blast[j]
                                  \/ \E j \in 1..Len(Tail(work)) : work'[k] = Tail(work)[j]
  <2>1. Joined(blast, Tail(work), work')
    BY <1>1, <1>3, <1>6, <1>7, InTurn
  <2>2. QED
    BY <2>1 DEF Joined
<1>9. \A k \in 1..Len(work') : \/ work'[k] = job
                               \/ \E j \in 1..Len(work) : work'[k] = work[j]
  BY <1>3, <1>6, <1>8
<1>10. stage' # "tanks"
  BY <1>1, <1>2 DEF FieldTypes
<1>11. FieldTypes'
  <2>1. \A k \in 1..Len(work') : work'[k].kind = "hit" => work'[k].on \in Tanks
    BY <1>2, <1>5, <1>9 DEF FieldTypes
  <2>2. QED
    BY <1>1, <1>2, <1>8, <1>10, <2>1 DEF FieldTypes
<1>12. LivesInv'
  <2>1. \A k \in 1..Len(work') : Dated(work'[k].by)
    BY <1>2, <1>4, <1>5, <1>9 DEF LivesInv
  <2>2. \A k \in 1..Len(work') : Dated(work[k].by)'
    BY <1>1, <2>1 DEF Dated
  <2>3. \A x \in DOMAIN shots' : Dated(shots[x])'
    BY <1>1, <1>2 DEF LivesInv, Dated
  <2>4. LifeKillsAreFresh'
    BY <1>1, <1>2 DEF LivesInv, LifeKillsAreFresh
  <2>5. QED
    BY <2>2, <2>3, <2>4 DEF LivesInv
<1>13. BlastsInv'
  <2>1. \A x \in Targets : Due(work', x) => (x = d /\ d \in standing) \/ (Due(work, x) /\ ~Whole(x))
    BY <1>2, <1>3, <1>6, <1>8 DEF BlastsInv
  <2>2. \A x \in Targets : Due(work', x) => ~Whole(x)'
    <3>1. d \in standing => d \notin DOMAIN shots
      BY <1>2, ArenaIs DEF FieldTypes
    <3>2. QED
      BY <1>1, <2>1, <3>1 DEF Whole
  <2>3. \A x : Whole(x)' => Whole(x)
    BY <1>1 DEF Whole
  <2>4. Mines \cup Drums \subseteq Targets
    BY DEF Targets
  <2>5. \A x \in Mines \cup Drums : Whole(x)' \/ Due(work', x) => blasts'[x] = 0
    <3>1. \A x \in Mines \cup Drums : Whole(x)' \/ Due(work', x) => Whole(x) \/ Due(work, x)
      BY <2>1, <2>3, <2>4 DEF Whole
    <3>2. QED
      BY <1>1, <1>2, <3>1 DEF BlastsInv
  <2>6. BlastsOnce'
    BY <1>1, <1>2 DEF BlastsInv, BlastsOnce
  <2>7. QED
    BY <1>8, <2>2, <2>5, <2>6 DEF BlastsInv
<1>14. QED
  BY <1>11, <1>12, <1>13 DEF FieldInv

\* A blast: the mines it takes go off, then it hits tanks, then drums.
LEMMA ExplodeKeepsField ==
  ASSUME FieldInv, Explode
  PROVE  FieldInv'
<1> DEFINE x == Head(work).on
           by == Head(work).by
<1>1. /\ work # <<>> /\ Head(work).kind = "blast"
      /\ blasts' = IF x \in DOMAIN blasts THEN [blasts EXCEPT ![x] = @ + 1] ELSE blasts
      /\ UNCHANGED <<alive, life, lifeKills, fresh, appeared, standing, stage>>
  BY DEF Explode, Doing, tanks
<1>2. FieldTypes /\ LivesInv /\ BlastsInv
  BY DEF FieldInv
<1>3. /\ Head(work) = work[1] /\ 1 \in 1..Len(work) /\ Head(work) \in Jobs
      /\ Tail(work) \in Seq(Jobs) /\ Once(Tail(work))
      /\ \A y : Due(Tail(work), y) => Due(work, y)
      /\ Due(work, x) /\ ~Due(Tail(work), x)
      /\ \A k \in 1..Len(Tail(work)) : k + 1 \in 1..Len(work) /\ Tail(work)[k] = work[k + 1]
  BY <1>1, <1>2, RestIs DEF FieldTypes, BlastsInv
<1>4. x \in Targets /\ by \in Ordnance /\ Dated(by)
  <2>1. x \in Targets /\ by \in Ordnance
    BY <1>3 DEF Jobs
  <2>2. Dated(by)
    BY <1>2, <1>3 DEF LivesInv
  <2>3. QED
    BY <2>1, <2>2
<1>5. PICK mines \in SUBSET (DOMAIN shots \cap Mines) :
        \E hit \in SUBSET {t \in Tanks : alive[t]} : \E drums \in SUBSET standing :
          /\ shots' = Without(mines)
          /\ work' = SetToSeq({Job("blast", y, by) : y \in mines})
                       \o SetToSeq({Job("hit", y, by) : y \in hit})
                       \o SetToSeq({Job("drum", y, by) : y \in drums}) \o Tail(work)
  BY DEF Explode
<1>6. PICK hit \in SUBSET {t \in Tanks : alive[t]} : \E drums \in SUBSET standing :
          /\ shots' = Without(mines)
          /\ work' = SetToSeq({Job("blast", y, by) : y \in mines})
                       \o SetToSeq({Job("hit", y, by) : y \in hit})
                       \o SetToSeq({Job("drum", y, by) : y \in drums}) \o Tail(work)
  BY <1>5
<1>7. PICK drums \in SUBSET standing :
          /\ shots' = Without(mines)
          /\ work' = SetToSeq({Job("blast", y, by) : y \in mines})
                       \o SetToSeq({Job("hit", y, by) : y \in hit})
                       \o SetToSeq({Job("drum", y, by) : y \in drums}) \o Tail(work)
  BY <1>6
<1> DEFINE rest == Tail(work)
<1> HIDE DEF x, by, rest
<1>8. PICK a : a = SetToSeq({Job("blast", y, by) : y \in mines})
  OBVIOUS
<1>9. PICK b : b = SetToSeq({Job("hit", y, by) : y \in hit})
  OBVIOUS
<1>10. PICK c : c = SetToSeq({Job("drum", y, by) : y \in drums})
  OBVIOUS
<1>11. work' = a \o b \o c \o rest
  BY <1>7, <1>8, <1>9, <1>10 DEF rest
<1>12. /\ a \in Seq(Jobs) /\ Once(a)
       /\ \A k \in 1..Len(a) : a[k].kind = "blast" /\ a[k].on \in mines /\ a[k].by = by
  <2>1. IsFiniteSet(mines) /\ mines \subseteq Targets
    BY <1>5, ArenaIs
  <2>2. QED
    BY <1>4, <1>8, <2>1, NamedJobs
<1>13. /\ b \in Seq(Jobs) /\ Once(b)
       /\ \A k \in 1..Len(b) : b[k].kind = "hit" /\ b[k].on \in hit /\ b[k].by = by
  <2>1. IsFiniteSet(hit) /\ hit \subseteq Targets
    BY <1>6, ArenaIs
  <2>2. QED
    BY <1>4, <1>9, <2>1, NamedJobs
<1>14. /\ c \in Seq(Jobs) /\ Once(c)
       /\ \A k \in 1..Len(c) : c[k].kind = "drum" /\ c[k].on \in drums /\ c[k].by = by
  <2>1. IsFiniteSet(drums) /\ drums \subseteq Targets
    BY <1>2, <1>7, ArenaIs DEF FieldTypes
  <2>2. QED
    BY <1>4, <1>10, <2>1, NamedJobs
<1>15. /\ \A y : ~Due(b, y) /\ ~Due(c, y)
       /\ \A y : Due(a, y) => y \in mines
  BY <1>12, <1>13, <1>14 DEF Due
<1>16. /\ rest \in Seq(Jobs) /\ Once(rest) /\ ~Due(rest, x)
       /\ \A y : Due(rest, y) => Due(work, y)
       /\ \A k \in 1..Len(rest) : \E j \in 1..Len(work) : rest[k] = work[j]
  BY <1>3 DEF rest, x
<1>17. Apart(a, b) /\ \A u : Apart(u, c)
  BY <1>15 DEF Apart
<1>18. PICK ab : ab = a \o b
  OBVIOUS
<1>19. Joined(a, b, ab)
  BY <1>12, <1>13, <1>17, <1>18, InTurn
<1>20. PICK abc : abc = ab \o c
  OBVIOUS
<1>21. Joined(ab, c, abc)
  <2>1. ab \in Seq(Jobs) /\ Once(ab)
    BY <1>19 DEF Joined
  <2>2. QED
    BY <1>14, <1>17, <1>20, <2>1, InTurn
<1>22. work' = abc \o rest
  BY <1>11, <1>18, <1>20
<1>23. Joined(abc, rest, work') /\ \A y : Due(work', y) => Due(a, y) \/ Due(rest, y)
  <2>1. abc \in Seq(Jobs) /\ Once(abc) /\ \A y : Due(abc, y) => Due(a, y)
    BY <1>15, <1>19, <1>21 DEF Joined
  <2>2. Apart(abc, rest)
    BY <1>2, <1>5, <1>15, <1>16, <2>1 DEF BlastsInv, Whole, Apart
  <2>3. Joined(abc, rest, work')
    BY <1>16, <1>22, <2>1, <2>2, InTurn
  <2>4. QED
    BY <2>1, <2>3 DEF Joined
<1>24. \A k \in 1..Len(abc) : abc[k].by = by /\ (abc[k].kind = "hit" => abc[k].on \in hit)
  <2>1. \A k \in 1..Len(ab) : ab[k].by = by /\ (ab[k].kind = "hit" => ab[k].on \in hit)
    BY <1>12, <1>13, <1>19, SMTT(30) DEF Joined
  <2>2. QED
    BY <1>14, <1>21, <2>1 DEF Joined
<1>25. \A k \in 1..Len(work') :
         \/ work'[k].by = by /\ (work'[k].kind = "hit" => work'[k].on \in hit)
         \/ \E j \in 1..Len(work) : work'[k] = work[j]
  BY <1>16, <1>23, <1>24 DEF Joined
<1>26. DOMAIN shots' = DOMAIN shots \ mines /\ \A y \in DOMAIN shots' : shots'[y] = shots[y]
  BY <1>7, WithoutIs
<1>27. blasts' \in [Mines \cup Drums -> Nat] /\ stage' # "tanks"
       /\ \A y \in Mines \cup Drums : blasts'[y] = IF y = x THEN blasts[y] + 1 ELSE blasts[y]
  <2>1. blasts \in [Mines \cup Drums -> Nat]
    BY <1>2 DEF FieldTypes
  <2>2. blasts' = IF x \in DOMAIN blasts THEN [blasts EXCEPT ![x] = @ + 1] ELSE blasts
    BY <1>1 DEF x
  <2>3. stage' # "tanks"
    BY <1>1, <1>2 DEF FieldTypes
  <2>4. QED
    BY <2>1, <2>2, <2>3
<1>28. FieldTypes'
  <2>1. \A k \in 1..Len(work') : work'[k].kind = "hit" => work'[k].on \in Tanks
    BY <1>2, <1>6, <1>25, ZenonT(40) DEF FieldTypes
  <2>2. QED
    BY <1>1, <1>2, <1>23, <1>26, <1>27, <2>1 DEF FieldTypes, Joined
<1>29. LivesInv'
  <2>1. \A k \in 1..Len(work') : Dated(work'[k].by)
    BY <1>2, <1>4, <1>25 DEF LivesInv
  <2>2. \A k \in 1..Len(work') : Dated(work[k].by)'
    BY <1>1, <2>1 DEF Dated
  <2>3. \A y \in DOMAIN shots' : Dated(shots'[y])
    BY <1>2, <1>26 DEF LivesInv
  <2>4. \A y \in DOMAIN shots' : Dated(shots[y])'
    BY <1>1, <2>3 DEF Dated
  <2>5. LifeKillsAreFresh'
    BY <1>1, <1>2 DEF LivesInv, LifeKillsAreFresh
  <2>6. QED
    BY <2>2, <2>4, <2>5 DEF LivesInv
<1>30. BlastsInv'
  <2>1. \A y \in Targets : Due(work, y) => ~Whole(y)
    BY <1>2 DEF BlastsInv
  <2>2. ~Whole(x) /\ Due(work, x)
    BY <1>3, <1>4, <2>1 DEF x
  <2>3. \A y : Whole(y)' => Whole(y) /\ y \notin mines
    BY <1>1, <1>26, <1>2, <1>5, ArenaIs DEF Whole, FieldTypes
  <2>4. \A y \in Targets : Due(work', y) => ~Whole(y)'
    BY <1>15, <1>16, <1>23, <2>1, <2>3
  <2>5. \A y \in mines : Whole(y)
    BY <1>5 DEF Whole
  <2>6. \A y \in Mines \cup Drums :
          Whole(y)' \/ Due(work', y) => y # x /\ (Whole(y) \/ Due(work, y))
    BY <1>15, <1>16, <1>23, <2>2, <2>3, <2>5
  <2>7. \A y \in Mines \cup Drums : Whole(y)' \/ Due(work', y) => blasts'[y] = 0
    BY <1>2, <1>27, <2>6 DEF BlastsInv
  <2>8. BlastsOnce'
    <3>1. \A y \in Mines \cup Drums : blasts[y] <= 1 /\ (y = x => blasts[y] = 0)
      BY <1>2, <2>2 DEF BlastsInv, BlastsOnce, FieldTypes
    <3>2. \A y \in Mines \cup Drums : blasts'[y] <= 1
      BY <1>27, <3>1
    <3>3. QED
      BY <1>27, <3>2 DEF BlastsOnce
  <2>9. QED
    BY <1>23, <2>4, <2>7, <2>8 DEF BlastsInv, Joined
<1>31. QED
  BY <1>28, <1>29, <1>30 DEF FieldInv

LEMMA FieldNext == FieldInv /\ [Next]_vars => FieldInv'
<1>1. SUFFICES ASSUME FieldInv, [Next]_vars PROVE FieldInv'
  OBVIOUS
<1>2. stage = "tanks" => work = <<>>
  BY <1>1 DEF FieldInv, FieldTypes
<1>3. CASE UNCHANGED vars
  BY <1>1, <1>2, <1>3, FieldStays DEF vars
<1>4. CASE Clock \/ EndBattle \/ TanksDone
  BY <1>1, <1>4, FieldStays DEF Clock, EndBattle, TanksDone
<1>5. CASE \E t \in Tanks : Respawn(t) \/ \E x \in Mines \cup Shells : Launch(t, x)
  BY <1>1, <1>5, RespawnKeepsField, LaunchKeepsField
<1>6. CASE \/ \E s, o \in Shells : Intercept(s, o)
           \/ \E s \in Shells : Strike(s)
           \/ \E m \in Mines : StepMine(m)
  BY <1>1, <1>6, InterceptKeepsField, StrikeKeepsField, StepMineKeepsField
<1>7. CASE Hit \/ DrumBreaks \/ Explode
  BY <1>1, <1>7, HitKeepsField, DrumBreaksKeepsField, ExplodeKeepsField
<1>8. QED
  BY <1>1, <1>3, <1>4, <1>5, <1>6, <1>7 DEF Next

\* The kills of a life are those of what was fired in it, however late a shell
\* or a mine of an earlier life destroys somebody (damage.rs).
THEOREM LivesAreFresh == Spec => []LifeKillsAreFresh
<1>1. FieldInv => LifeKillsAreFresh
  BY DEF FieldInv, LivesInv
<1>2. QED
  BY <1>1, FieldInit, FieldNext, PTL DEF Spec

\* No mine and no drum goes off twice, however blasts set each other off
\* (damage.rs).
THEOREM BlastsAreOnce == Spec => []BlastsOnce
<1>1. FieldInv => BlastsOnce
  BY DEF FieldInv, BlastsInv
<1>2. QED
  BY <1>1, FieldInit, FieldNext, PTL DEF Spec
=============================================================================
