--------------------------- MODULE FixedStepClock ---------------------------
(***************************************************************************)
(* The host's fixed-step clock (core/src/net/fixed_step_clock.rs): elapsed *)
(* time is owed to the simulation and paid in ticks of one step.  A timer  *)
(* callback pays at most MaxSteps ticks, a debt beyond MaxDebt ends the    *)
(* room, and an input is stamped with the first tick due after it arrived. *)
(*                                                                         *)
(* The timer is armed for the next tick, rounded up to the grain of the    *)
(* machine clock (server/src/session.rs, schedule), but may fire late, and *)
(* the machine clock may be set back.  Times are in a unit of which Step,  *)
(* Epsilon and Grain are multiples; the code's times are floating point.   *)
(***************************************************************************)
EXTENDS Integers, FiniteSets

CONSTANTS
  Step,        \* SIMULATION_STEP_MS
  Epsilon,     \* CLOCK_EPSILON_MS, what rounding may hide
  MaxSteps,    \* MAX_STEPS_PER_BATCH
  MaxDebt,     \* MAX_TICK_DEBT_MS
  Grain,       \* a millisecond, the resolution of the machine clock
  MaxTime,     \* bound: the time the model runs for
  MaxBack,     \* bound: how far the machine clock may step back, in grains
  MaxInputs    \* bound: inputs that arrive

ASSUME ClockAssumption ==
  /\ Step \in Nat \ {0}
  /\ Epsilon \in Nat /\ Epsilon < Step
  /\ MaxSteps \in Nat \ {0}
  /\ MaxDebt \in Nat /\ (MaxSteps + 1) * Step <= MaxDebt
  /\ Grain \in Nat \ {0} /\ Grain + Epsilon <= Step
  /\ MaxTime \in Nat /\ MaxBack \in Nat /\ MaxInputs \in Nat

VARIABLES
  now,         \* what the machine clock reads
  last,        \* last_ms, the latest time the clock has counted
  debt,        \* debt_ms, time owed to the simulation
  tick,        \* the last tick stepped
  left,        \* ticks the running callback may still step; Idle between callbacks
  overloaded,  \* advance returned false: the room has ended
  alarm,       \* when the host timer is armed for
  reached,     \* auxiliary: the latest time a callback was called at
  late,        \* auxiliary: a callback counted more than MaxSteps ticks of time
  prompt,      \* auxiliary: the timer was armed in time, and fires on time
  inputs       \* auxiliary: what arrived when, and the tick it was stamped with

clock == <<last, debt, tick>>
timer == <<left, overloaded, alarm>>
history == <<reached, late, prompt>>
vars == <<now, clock, timer, history, inputs>>

Idle == -1

Larger(a, b) == IF a > b THEN a ELSE b

-----------------------------------------------------------------------------
(* The clock's answers at a time t.                                        *)

Owed(t) == debt + Larger(t - last, 0)

\* (Mutant: input drives the next tick stepped, although it was due before.)
ArrivalTickNext(t) == tick + 1

ArrivalTick(t) == tick + (Owed(t) + Epsilon) \div Step + 1

\* BATCH_TICKS is one, so the interval of the timer is a step.
UntilNextBatch(t) == Larger(Step - Owed(t), 0)

RoundedUp(t) == ((t + Grain - 1) \div Grain) * Grain

\* (Mutant: a grid of the timer's own, an interval from each callback.)
WaitOnGrid(t) == RoundedUp(Step)

\* How long the timer is armed for: a grain at least.
Wait(t) == Larger(RoundedUp(UntilNextBatch(t)), Grain)

Init ==
  /\ now = 0 /\ last = 0 /\ debt = 0 /\ tick = 0
  /\ left = Idle /\ overloaded = FALSE
  /\ alarm = Wait(now)
  /\ reached = 0 /\ late = FALSE /\ prompt = TRUE
  /\ inputs = {}

-----------------------------------------------------------------------------
(* The machine clock.                                                      *)

\* Time passes, while a callback runs too.
Pass ==
  /\ now + Grain <= MaxTime
  /\ now' = now + Grain
  /\ UNCHANGED <<clock, timer, history, inputs>>

\* The machine clock is set back; the timer runs on.
StepBack ==
  /\ left = Idle
  /\ \E d \in 1..MaxBack :
       /\ now >= d * Grain
       /\ now' = now - d * Grain
       /\ alarm' = Larger(alarm - d * Grain, 0)
  /\ prompt' = FALSE
  /\ UNCHANGED <<clock, left, overloaded, reached, late, inputs>>

-----------------------------------------------------------------------------
(* advance, a step of the loop at a time.                                  *)

\* The time since the last callback is added to the debt.
Collect ==
  /\ debt' = Owed(now)
  /\ last' = Larger(last, now)

\* (Mutant: a room ends as soon as one batch cannot pay its debt.)
OverloadBatch(owed) == owed > MaxSteps * Step + Epsilon

Overload(owed) == owed > MaxDebt + Epsilon

\* The timer fires.
Begin ==
  /\ left = Idle /\ overloaded = FALSE
  /\ now >= alarm
  /\ Collect
  /\ overloaded' = Overload(debt')
  /\ left' = IF overloaded' THEN Idle ELSE MaxSteps
  /\ reached' = Larger(reached, now)
  /\ late' = (late \/ now - last > MaxSteps * Step)
  /\ prompt' = (prompt /\ now = alarm)
  /\ UNCHANGED <<now, tick, alarm, inputs>>

Due == debt + Epsilon >= Step

PayStep == debt' = Larger(debt - Step, 0)

\* One tick is stepped and paid for.
StepTick ==
  /\ left > 0 /\ Due
  /\ tick' = tick + 1
  /\ PayStep
  /\ left' = left - 1
  /\ UNCHANGED <<now, last, overloaded, alarm, history, inputs>>

\* The batch is over; the timer is armed again.
End ==
  /\ left # Idle
  /\ left = 0 \/ ~Due
  /\ left' = Idle
  /\ alarm' = now + Wait(now)
  /\ prompt' = (now >= last /\ Owed(now) + Epsilon < Step)
  /\ UNCHANGED <<now, clock, overloaded, reached, late, inputs>>

-----------------------------------------------------------------------------
(* Inputs.                                                                 *)

\* An input arrives between two callbacks and is stamped.
Receive ==
  /\ left = Idle /\ overloaded = FALSE
  /\ Cardinality(inputs) < MaxInputs
  /\ inputs' = inputs \cup
       {[stamp |-> ArrivalTick(now), counted |-> Larger(last, now)]}
  /\ UNCHANGED <<now, clock, timer, history>>

Callback == Begin \/ StepTick \/ End

Next == Pass \/ StepBack \/ Callback \/ Receive

Spec == Init /\ [][Next]_vars
=============================================================================
