----------------------------- MODULE BattleState -----------------------------
(* The arena and the state of a battle, and what its rules promise the       *)
(* players (crates/core/src/sim).                                            *)
EXTENDS Integers, FiniteSets

CONSTANTS
  Tanks,         \* the tanks of a battle
  Blues,         \* those of the Blue team; the others are Red
  Mines, Shells, \* bound: what may lie and fly at once
  Drums,         \* the fuel drums of the arena
  RoundTime,     \* ROUND_TIME, in ticks of the round clock
  ScoreLimit,    \* SCORE_LIMIT
  MaxLives       \* bound: deaths of a tank

\* A battle has as many tanks, mines, shells and drums as its vectors hold.
ASSUME BattleAssumption ==
  /\ RoundTime \in Nat /\ ScoreLimit \in Nat \ {0} /\ Blues \subseteq Tanks
  /\ IsFiniteSet(Tanks) /\ IsFiniteSet(Mines) /\ IsFiniteSet(Drums)
  /\ Mines \cap Shells = {} /\ (Mines \cup Shells) \cap Drums = {}

VARIABLES
  phase, overtime, winner, time, scores,  \* match_state
  alive, life, kills, lifeKills,          \* of each tank
  shots,     \* who fired each shell in flight and laid each mine, and in which life
  standing,  \* drums that stand
  stage,     \* how far the tick has come
  work,      \* the hits and blasts the code has begun and not done
  fresh,     \* auxiliary: enemies each tank destroyed by what it fired since it appeared
  appeared,  \* auxiliary: how often each tank did
  blasts     \* auxiliary: how often each drum and each mine laid went off

Teams == {"Blue", "Red"}
other(k) == IF k = "Blue" THEN "Red" ELSE "Blue"

-----------------------------------------------------------------------------
\* The round is decided by the score: a winner is ahead, whatever was still in
\* flight or under way when it won, and while nobody has won no team has the
\* score for it and overtime finds the teams level (match_state.rs).
ResultIsFair ==
  /\ winner # "none" => scores[winner] > scores[other(winner)]
  /\ phase = "Playing" => /\ \A k \in Teams : scores[k] < ScoreLimit
                          /\ overtime => scores["Blue"] = scores["Red"]

\* "Old ordnance counts toward the round, never toward a replacement life"
\* (damage.rs): the kills of a life are those of what was fired in it.
LifeKillsAreFresh == \A t \in Tanks : alive[t] => lifeKills[t] = fresh[t]

\* "drums and chains are exactly-once" (damage.rs): nothing goes off twice,
\* however blasts set each other off.
BlastsOnce == \A x \in DOMAIN blasts : blasts[x] <= 1
=============================================================================
