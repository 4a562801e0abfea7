---------------------- MODULE FixedStepClockProperties ----------------------
(* What the host's fixed-step clock promises the simulation and its players. *)
EXTENDS FixedStepClock

\* The state is well formed: times are natural numbers, and a callback steps
\* at most the ticks of one batch.
TypeOK ==
  /\ now \in Nat /\ last \in Nat /\ debt \in Nat /\ tick \in Nat /\ alarm \in Nat /\ reached \in Nat
  /\ left \in Idle..MaxSteps
  /\ overloaded \in BOOLEAN /\ late \in BOOLEAN /\ prompt \in BOOLEAN
  /\ inputs \in SUBSET [stamp : Nat, counted : Nat]

\* A stall never silently drops simulation ticks: what was stepped and what is
\* still owed add up to the time that passed, which a clock set back does not
\* add to, but for the rounding each tick forgives.
TimeAccounted ==
  /\ reached <= tick * Step + debt
  /\ tick * Step + debt <= reached + tick * Epsilon

\* A batch never applies input retroactively: the tick an input is stamped with
\* is stepped only by a callback that counts time past the input's arrival,
\* however many ticks were owed when it arrived, but for that rounding.
InputNotRetroactive ==
  \A i \in inputs : tick >= i.stamp => last + tick * Epsilon > i.counted

\* The stamp is the next tick due: a step after an input arrived, its tick is
\* stepped by the time the host has paid what it owes.
InputNotDelayed ==
  \A i \in inputs : (left = Idle /\ ~overloaded /\ ~Due /\ last >= i.counted + Step)
                      => tick >= i.stamp

\* An input drives the next tick due after it, never one due before it
\* arrived, however late the callbacks come.
InputsOnTime == InputNotRetroactive /\ InputNotDelayed

\* Rooms end for overload only when a callback came more than a whole batch
\* late: lesser delays, one after the other, never add up to a debt beyond
\* MaxDebt.
OverloadIsEarned == overloaded => late

\* A round's timer fires as its next tick falls due: a callback on time steps
\* one tick, so none is empty or doubled (server/src/session.rs, schedule).
OneTickPerCallback == [][(End /\ prompt) => left = MaxSteps - 1]_vars
=============================================================================
