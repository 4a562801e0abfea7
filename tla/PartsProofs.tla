---------------------------- MODULE PartsProofs ----------------------------
(***************************************************************************)
(* Proofs about the parts of a server that run on their own, for every     *)
(* value of their constants: the clock of a room (FixedStepClock), the     *)
(* output of a socket (SocketPump), the request counters (RateLimit) and   *)
(* the announcements to the directory (Announcements).                     *)
(***************************************************************************)
EXTENDS FixedStepClockProperties, SocketPumpState, RateLimitState, AnnouncementsState, TLAPS,
        SequenceTheorems, WellFoundedInduction

SP == INSTANCE SocketPump
RL == INSTANCE RateLimit
AN == INSTANCE Announcements

-----------------------------------------------------------------------------
(* Arithmetic.                                                             *)

\* The constants are natural numbers.
LEMMA Naturals ==
  /\ Step \in Nat /\ Step > 0
  /\ Epsilon \in Nat /\ Epsilon < Step
  /\ MaxSteps \in Nat /\ MaxSteps > 0
  /\ MaxDebt \in Nat
  /\ Grain \in Nat /\ Grain > 0
BY ClockAssumption

\* Whole numbers of steps compare as the numbers do.
LEMMA StepsCompare ==
  ASSUME NEW a \in Int, NEW b \in Int, a * Step < b * Step
  PROVE  a < b
<1>1. SUFFICES ASSUME b <= a PROVE FALSE
  OBVIOUS
<1>2. (a - b) * Step >= 0
  BY <1>1, Naturals
<1>3. QED
  BY <1>2, Naturals

LEMMA StepsKeepOrder ==
  ASSUME NEW a \in Int, NEW b \in Int, a <= b
  PROVE  a * Step <= b * Step
<1>1. (b - a) * Step >= 0
  BY Naturals
<1>2. QED
  BY <1>1, Naturals

\* The whole steps in a time, and what is left of it.
LEMMA WholeSteps ==
  ASSUME NEW t \in Nat
  PROVE  /\ t \div Step \in Nat
         /\ (t \div Step) * Step <= t
         /\ t < (t \div Step) * Step + Step
BY Naturals

LEMMA LargerIsEither ==
  ASSUME NEW a \in Int, NEW b \in Int
  PROVE  /\ Larger(a, b) \in {a, b}
         /\ a <= Larger(a, b) /\ b <= Larger(a, b)
BY DEF Larger

-----------------------------------------------------------------------------
(* Time.                                                                   *)

\* What the simulation was given and is owed is the time counted.
TimeInv ==
  /\ TypeOK
  /\ reached = last
  /\ TimeAccounted

\* The time owed at any time is a natural number, and not less than the debt.
LEMMA OwedIsNatural ==
  ASSUME TypeOK, NEW t \in Nat
  PROVE  /\ Owed(t) \in Nat
         /\ Owed(t) = debt + Larger(last, t) - last
         /\ Larger(last, t) \in Nat
BY DEF TypeOK, Owed, Larger

LEMMA WaitIsNatural ==
  ASSUME TypeOK, NEW t \in Nat
  PROVE  Wait(t) \in Nat
<1>1. UntilNextBatch(t) \in Nat
  BY OwedIsNatural, Naturals DEF UntilNextBatch, Larger
<1>2. RoundedUp(UntilNextBatch(t)) \in Int
  BY <1>1, Naturals DEF RoundedUp
<1>3. QED
  BY <1>2, Naturals DEF Wait, Larger

LEMMA ArrivalTickIsNatural ==
  ASSUME TypeOK, NEW t \in Nat
  PROVE  ArrivalTick(t) \in Nat
<1>1. Owed(t) + Epsilon \in Nat
  BY OwedIsNatural, Naturals
<1>2. (Owed(t) + Epsilon) \div Step \in Nat
  BY <1>1, WholeSteps
<1>3. QED
  BY <1>2 DEF TypeOK, ArrivalTick

LEMMA TimeInit == Init => TimeInv
<1>1. SUFFICES ASSUME Init PROVE TimeInv
  OBVIOUS
<1>2. alarm \in Nat
  <2>1. UntilNextBatch(0) = Step
    BY <1>1, Naturals DEF Init, UntilNextBatch, Owed, Larger
  <2>2. RoundedUp(Step) \in Int
    BY Naturals DEF RoundedUp
  <2>3. QED
    BY <1>1, <2>1, <2>2, Naturals DEF Init, Wait, Larger
<1>3. left \in Idle..MaxSteps
  BY <1>1, Naturals DEF Init, Idle
<1>4. TypeOK
  BY <1>1, <1>2, <1>3 DEF Init, TypeOK
<1>5. tick * Step = 0 /\ tick * Epsilon = 0
  BY <1>1, Naturals DEF Init
<1>6. QED
  BY <1>1, <1>4, <1>5 DEF Init, TimeInv, TimeAccounted

LEMMA TimeNext == TimeInv /\ [Next]_vars => TimeInv'
<1>1. SUFFICES ASSUME TimeInv, [Next]_vars PROVE TimeInv'
  OBVIOUS
<1>2. TypeOK /\ TimeAccounted /\ reached = last
  BY <1>1 DEF TimeInv
<1>3. CASE Pass
  BY <1>2, <1>3, Naturals DEF TimeInv, TypeOK, TimeAccounted, Pass, clock, timer, history
<1>4. CASE StepBack
  <2>1. PICK d \in 1..MaxBack : /\ now >= d * Grain
                               /\ now' = now - d * Grain
                               /\ alarm' = Larger(alarm - d * Grain, 0)
    BY <1>4 DEF StepBack
  <2>2. d * Grain \in Nat
    BY Naturals, ClockAssumption
  <2>3. now' \in Nat /\ alarm' \in Nat
    BY <1>2, <2>1, <2>2 DEF TypeOK, Larger
  <2>4. QED
    BY <1>2, <1>4, <2>3 DEF TimeInv, TypeOK, TimeAccounted, StepBack, clock
<1>5. CASE Begin
  <2>1. /\ debt' = debt + (last' - last) /\ debt' \in Nat
        /\ last' = Larger(last, now) /\ last' \in Nat
        /\ tick' = tick
    BY <1>2, <1>5, OwedIsNatural DEF Begin, Collect, TypeOK
  <2>2. reached' = last'
    BY <1>2, <1>5, <2>1 DEF Begin
  <2>3. TypeOK'
    BY <1>2, <1>5, <2>1, <2>2, Naturals DEF TypeOK, Begin, Idle, Overload
  <2>4. tick * Step \in Nat /\ tick * Epsilon \in Nat
    BY <1>2, Naturals DEF TypeOK
  <2>5. TimeAccounted'
    <3>1. /\ last <= tick * Step + debt
          /\ tick * Step + debt <= last + tick * Epsilon
      BY <1>2 DEF TimeAccounted
    <3>2. /\ last' <= tick * Step + debt'
          /\ tick * Step + debt' <= last' + tick * Epsilon
      BY <1>2, <2>1, <2>4, <3>1 DEF TypeOK
    <3>3. QED
      BY <2>1, <2>2, <3>2 DEF TimeAccounted
  <2>6. QED
    BY <2>2, <2>3, <2>5 DEF TimeInv
<1>6. CASE StepTick
  <2>1. TypeOK'
    BY <1>2, <1>6, Naturals DEF TypeOK, StepTick, PayStep, Larger, Idle, history
  <2> DEFINE d == Larger(debt - Step, 0)
  <2>2. d \in Nat /\ debt <= d + Step /\ d + Step <= debt + Epsilon
    BY <1>2, <1>6, Naturals DEF TypeOK, StepTick, Due, Larger
  <2>3. /\ debt' = d
        /\ tick' = tick + 1
        /\ last' = last /\ reached' = reached
    BY <1>6 DEF StepTick, PayStep, history
  <2> HIDE DEF d
  <2>4. /\ (tick + 1) * Step = tick * Step + Step
        /\ (tick + 1) * Epsilon = tick * Epsilon + Epsilon
        /\ tick * Step \in Nat /\ tick * Epsilon \in Nat
    BY <1>2, Naturals DEF TypeOK
  <2>5. /\ reached <= (tick + 1) * Step + d
        /\ (tick + 1) * Step + d <= reached + (tick + 1) * Epsilon
    BY <1>2, <2>2, <2>4, Naturals DEF TypeOK, TimeAccounted
  <2>6. TimeAccounted'
    BY <2>3, <2>5 DEF TimeAccounted
  <2>7. QED
    BY <1>2, <2>1, <2>3, <2>6 DEF TimeInv
<1>7. CASE End
  <2>1. alarm' \in Nat
    BY <1>2, <1>7, WaitIsNatural DEF End, TypeOK
  <2>2. QED
    BY <1>2, <1>7, <2>1, Naturals DEF TimeInv, TypeOK, TimeAccounted, End, Idle, clock
<1>8. CASE Receive
  <2>1. ArrivalTick(now) \in Nat /\ Larger(last, now) \in Nat
    BY <1>2, ArrivalTickIsNatural, OwedIsNatural DEF TypeOK
  <2>2. QED
    BY <1>2, <1>8, <2>1, Naturals DEF TimeInv, TypeOK, TimeAccounted, Receive, clock, timer, history
<1>9. CASE UNCHANGED vars
  BY <1>2, <1>9 DEF TimeInv, TypeOK, TimeAccounted, vars, clock, timer, history
<1>10. QED
  BY <1>1, <1>3, <1>4, <1>5, <1>6, <1>7, <1>8, <1>9 DEF Next, Callback

\* The clock's state is well formed.
THEOREM TypeCorrect == Spec => []TypeOK
<1>1. TimeInv => TypeOK
  BY DEF TimeInv
<1>2. QED
  BY <1>1, TimeInit, TimeNext, PTL DEF Spec

\* No time is lost or invented, however late callbacks come and however often
\* the machine clock is set back.
THEOREM TimeIsAccounted == Spec => []TimeAccounted
<1>1. TimeInv => TimeAccounted
  BY DEF TimeInv
<1>2. QED
  BY <1>1, TimeInit, TimeNext, PTL DEF Spec

-----------------------------------------------------------------------------
(* Inputs.                                                                 *)

\* The tick before an input's stamp is due, with what arrived before it, and
\* its own is not.
StampInv ==
  \A i \in inputs :
    /\ i.stamp * Step - Step + last <= tick * Step + debt + Epsilon + i.counted
    /\ tick * Step + debt + Epsilon + i.counted
         < i.stamp * Step + last + tick * Epsilon

LEMMA StampInit == Init => StampInv
BY DEF Init, StampInv

\* A stamp is the first whole step past the time owed.
LEMMA StampOfArrival ==
  ASSUME TypeOK
  PROVE  LET s == ArrivalTick(now)
             c == Larger(last, now)
         IN  /\ s * Step - Step + last <= tick * Step + debt + Epsilon + c
             /\ tick * Step + debt + Epsilon + c < s * Step + last + tick * Epsilon
<1> DEFINE owed == Owed(now) + Epsilon
           q == owed \div Step
           c == Larger(last, now)
<1>1. /\ now \in Nat /\ last \in Nat /\ debt \in Nat /\ tick \in Nat
  BY DEF TypeOK
<1>2. /\ owed \in Nat /\ c \in Nat
      /\ owed + last = debt + c + Epsilon
  BY <1>1, OwedIsNatural, Naturals
<1>3. q \in Nat /\ q * Step <= owed /\ owed < q * Step + Step
  BY <1>2, WholeSteps
<1>4. ArrivalTick(now) = tick + q + 1
  BY DEF ArrivalTick
<1> HIDE DEF owed, q, c
<1>5. /\ (tick + q + 1) * Step = tick * Step + q * Step + Step
      /\ tick * Step \in Nat /\ q * Step \in Nat /\ tick * Epsilon \in Nat
  BY <1>1, <1>3, Naturals
<1>6. /\ tick * Step + q * Step + last <= tick * Step + debt + Epsilon + c
      /\ tick * Step + debt + Epsilon + c
           < tick * Step + q * Step + Step + last + tick * Epsilon
  BY <1>1, <1>2, <1>3, <1>5, Naturals
<1>7. QED
  BY <1>1, <1>2, <1>3, <1>4, <1>5, <1>6, Naturals DEF c

\* An input's stamp and its time of arrival are natural numbers.
LEMMA InputFields ==
  ASSUME TypeOK, NEW i \in inputs
  PROVE  i.stamp \in Nat /\ i.counted \in Nat
BY DEF TypeOK

LEMMA StampNext == TypeOK /\ StampInv /\ [Next]_vars => StampInv'
<1>1. SUFFICES ASSUME TypeOK, StampInv, [Next]_vars PROVE StampInv'
  OBVIOUS
<1>2. /\ now \in Nat /\ last \in Nat /\ debt \in Nat /\ tick \in Nat
      /\ tick * Step \in Nat /\ tick * Epsilon \in Nat
  BY <1>1, Naturals DEF TypeOK
<1>3. CASE Pass
  BY <1>1, <1>3 DEF StampInv, Pass, clock
<1>4. CASE StepBack
  BY <1>1, <1>4 DEF StampInv, StepBack, clock
<1>5. CASE Begin
  <2> DEFINE d == Owed(now)
             l == Larger(last, now)
  <2>1. d \in Nat /\ l \in Nat /\ d = debt + l - last
    BY <1>1, <1>2, OwedIsNatural
  <2>2. debt' = d /\ last' = l /\ tick' = tick /\ inputs' = inputs
    BY <1>5 DEF Begin, Collect
  <2> HIDE DEF d, l
  <2>3. ASSUME NEW i \in inputs
        PROVE  /\ i.stamp * Step - Step + l <= tick * Step + d + Epsilon + i.counted
               /\ tick * Step + d + Epsilon + i.counted
                    < i.stamp * Step + l + tick * Epsilon
    <3>1. /\ i.stamp * Step - Step + last <= tick * Step + debt + Epsilon + i.counted
          /\ tick * Step + debt + Epsilon + i.counted
               < i.stamp * Step + last + tick * Epsilon
      BY <1>1, <2>3 DEF StampInv
    <3>2. i.counted \in Nat /\ i.stamp * Step \in Nat
      BY <1>1, <2>3, InputFields, Naturals
    <3>3. QED
      BY <1>2, <2>1, <3>1, <3>2, Naturals
  <2>4. QED
    BY <2>2, <2>3 DEF StampInv
<1>6. CASE StepTick
  <2> DEFINE d == Larger(debt - Step, 0)
  <2>1. d \in Nat /\ debt <= d + Step /\ d + Step <= debt + Epsilon
    BY <1>2, <1>6, Naturals DEF StepTick, Due, Larger
  <2>2. debt' = d /\ last' = last /\ tick' = tick + 1 /\ inputs' = inputs
    BY <1>6 DEF StepTick, PayStep
  <2> HIDE DEF d
  <2>3. /\ (tick + 1) * Step = tick * Step + Step
        /\ (tick + 1) * Epsilon = tick * Epsilon + Epsilon
    BY <1>2, Naturals
  <2>4. ASSUME NEW i \in inputs
        PROVE  /\ i.stamp * Step - Step + last
                    <= (tick + 1) * Step + d + Epsilon + i.counted
               /\ (tick + 1) * Step + d + Epsilon + i.counted
                    < i.stamp * Step + last + (tick + 1) * Epsilon
    <3>1. /\ i.stamp * Step - Step + last <= tick * Step + debt + Epsilon + i.counted
          /\ tick * Step + debt + Epsilon + i.counted
               < i.stamp * Step + last + tick * Epsilon
      BY <1>1, <2>4 DEF StampInv
    <3>2. i.counted \in Nat /\ i.stamp * Step \in Nat
      BY <1>1, <2>4, InputFields, Naturals
    <3>3. QED
      BY <1>2, <2>1, <2>3, <3>1, <3>2, Naturals
  <2>5. QED
    BY <2>2, <2>4 DEF StampInv
<1>7. CASE End
  BY <1>1, <1>7 DEF StampInv, End, clock
<1>8. CASE Receive
  <2> DEFINE new == [stamp |-> ArrivalTick(now), counted |-> Larger(last, now)]
  <2>1. /\ inputs' = inputs \cup {new}
        /\ last' = last /\ debt' = debt /\ tick' = tick
    BY <1>8 DEF Receive, clock
  <2>2. /\ new.stamp * Step - Step + last <= tick * Step + debt + Epsilon + new.counted
        /\ tick * Step + debt + Epsilon + new.counted
             < new.stamp * Step + last + tick * Epsilon
    BY <1>1, StampOfArrival
  <2> HIDE DEF new
  <2>3. QED
    BY <1>1, <2>1, <2>2 DEF StampInv
<1>9. CASE UNCHANGED vars
  BY <1>1, <1>9 DEF StampInv, vars, clock
<1>10. QED
  BY <1>1, <1>3, <1>4, <1>5, <1>6, <1>7, <1>8, <1>9 DEF Next, Callback

\* A tick that was stepped was paid for.
LEMMA StampMeansLater == TypeOK /\ StampInv => InputNotRetroactive
<1>1. SUFFICES ASSUME TypeOK, StampInv, NEW i \in inputs, tick >= i.stamp
               PROVE  last + tick * Epsilon > i.counted
  BY DEF InputNotRetroactive
<1>2. /\ i.stamp \in Nat /\ i.counted \in Nat
      /\ last \in Nat /\ debt \in Nat /\ tick \in Nat
  BY <1>1, InputFields DEF TypeOK
<1>3. i.stamp * Step <= tick * Step
  BY <1>1, <1>2, StepsKeepOrder
<1>4. tick * Step + debt + Epsilon + i.counted < i.stamp * Step + last + tick * Epsilon
  BY <1>1 DEF StampInv
<1>5. i.stamp * Step \in Nat /\ tick * Step \in Nat /\ tick * Epsilon \in Nat
  BY <1>2, Naturals
<1>6. QED
  BY <1>2, <1>3, <1>4, <1>5, Naturals

\* A clock that owes less than a step has stepped the tick an input was
\* stamped with, once a step has passed.
LEMMA StampMeansNext == TypeOK /\ StampInv => InputNotDelayed
<1>1. SUFFICES ASSUME TypeOK, StampInv, NEW i \in inputs,
                      ~Due, last >= i.counted + Step
               PROVE  tick >= i.stamp
  BY DEF InputNotDelayed
<1>2. /\ i.stamp \in Nat /\ i.counted \in Nat
      /\ last \in Nat /\ debt \in Nat /\ tick \in Nat
  BY <1>1, InputFields DEF TypeOK
<1>3. i.stamp * Step - Step + last <= tick * Step + debt + Epsilon + i.counted
  BY <1>1 DEF StampInv
<1>4. debt + Epsilon < Step
  BY <1>1, <1>2, Naturals DEF Due
<1>5. /\ i.stamp * Step \in Nat /\ tick * Step \in Nat
      /\ (tick + 1) * Step = tick * Step + Step
  BY <1>2, Naturals
<1>6. i.stamp * Step < (tick + 1) * Step
  BY <1>1, <1>2, <1>3, <1>4, <1>5, Naturals
<1>7. i.stamp < tick + 1
  BY <1>2, <1>6, StepsCompare
<1>8. QED
  BY <1>2, <1>7

LEMMA StampsHold == Spec => []StampInv
BY TypeCorrect, StampInit, StampNext, PTL DEF Spec

\* However late callbacks are, an input drives no tick due before it arrived.
LEMMA InputsNotRetroactive == Spec => []InputNotRetroactive
BY TypeCorrect, StampsHold, StampMeansLater, PTL

\* ... and drives the first tick due after it.
LEMMA InputsNotDelayed == Spec => []InputNotDelayed
BY TypeCorrect, StampsHold, StampMeansNext, PTL

\* An input drives the next tick due after it, never one due before it arrived
\* (fixed_step_clock.rs, arrival_tick), however late the callbacks come.
THEOREM InputsAreOnTime == Spec => []InputsOnTime
<1>1. InputNotRetroactive /\ InputNotDelayed => InputsOnTime
  BY DEF InputsOnTime
<1> QED
  BY InputsNotRetroactive, InputsNotDelayed, <1>1, PTL

-----------------------------------------------------------------------------
(* Overload.                                                               *)

\* While every callback comes in time, a batch can pay what is owed, and has
\* paid it when it ends.
PaidInv ==
  /\ overloaded => late
  /\ (~late /\ left = Idle) => debt + Epsilon < Step
  /\ (~late /\ left # Idle) => debt + Epsilon < left * Step + Step

LEMMA PaidInit == Init => PaidInv
BY Naturals DEF Init, PaidInv

LEMMA PaidNext == TypeOK /\ PaidInv /\ [Next]_vars => PaidInv'
<1>1. SUFFICES ASSUME TypeOK, PaidInv, [Next]_vars PROVE PaidInv'
  OBVIOUS
<1>2. /\ now \in Nat /\ last \in Nat /\ debt \in Nat /\ left \in Int
      /\ left # Idle => left \in 0..MaxSteps
  BY <1>1, Naturals DEF TypeOK, Idle
<1>3. CASE Pass
  BY <1>1, <1>3 DEF PaidInv, Pass, clock, timer, history
<1>4. CASE StepBack
  BY <1>1, <1>4 DEF PaidInv, StepBack, clock
<1>5. CASE Begin
  <2> DEFINE d == Owed(now)
  <2>1. d \in Nat /\ debt' = d
    BY <1>1, <1>5, OwedIsNatural DEF Begin, Collect, TypeOK
  <2>2. CASE late'
    BY <1>5, <2>2 DEF PaidInv, Begin
  <2>3. CASE ~late'
    <3>1. MaxSteps * Step \in Nat
      BY Naturals
    <3>2. ~late /\ left = Idle /\ ~(now - last > MaxSteps * Step)
      BY <1>5, <2>3 DEF Begin
    <3>3. ~late /\ left = Idle /\ now - last <= MaxSteps * Step
      BY <1>2, <3>2, <3>1
    <3>4. debt + Epsilon < Step
      BY <1>1, <3>3 DEF PaidInv
    <3>5. d = debt \/ d = debt + (now - last)
      BY <1>2 DEF Owed, Larger
    <3>6. d + Epsilon < MaxSteps * Step + Step
      BY <1>2, <2>1, <3>3, <3>4, <3>1, <3>5, Naturals
    <3>7. MaxSteps * Step + Step <= MaxDebt
      BY ClockAssumption
    <3>8. ~Overload(d)
      BY <2>1, <3>1, <3>6, <3>7, Naturals DEF Overload
    <3> HIDE DEF d
    <3>9. overloaded' = FALSE /\ left' = MaxSteps
      BY <1>5, <2>1, <3>8 DEF Begin
    <3>10. MaxSteps # Idle
      BY Naturals DEF Idle
    <3>11. QED
      BY <2>1, <3>6, <3>9, <3>10 DEF PaidInv
  <2>4. QED
    BY <2>2, <2>3
<1>6. CASE StepTick
  <2> DEFINE d == Larger(debt - Step, 0)
  <2>1. /\ d \in Nat
        /\ d + Epsilon < Step \/ d + Step = debt
    BY <1>2, Naturals DEF Larger
  <2>2. /\ debt' = d /\ left' = left - 1 /\ left \in 1..MaxSteps
        /\ left - 1 # Idle /\ late' = late /\ overloaded' = overloaded
    BY <1>2, <1>6, Naturals DEF StepTick, PayStep, history, Idle
  <2> HIDE DEF d
  <2>3. /\ (left - 1) * Step = left * Step - Step
        /\ (left - 1) * Step \in Nat
    BY <2>2, Naturals
  <2>4. ~late => d + Epsilon < (left - 1) * Step + Step
    <3>1. SUFFICES ASSUME ~late PROVE d + Epsilon < (left - 1) * Step + Step
      OBVIOUS
    <3>2. left # Idle
      BY <2>2, Naturals DEF Idle
    <3>3. debt + Epsilon < left * Step + Step
      BY <1>1, <3>1, <3>2 DEF PaidInv
    <3>4. QED
      BY <1>2, <2>1, <2>2, <2>3, <3>3, Naturals
  <2>5. QED
    BY <1>1, <2>2, <2>4 DEF PaidInv
<1>7. CASE End
  <2>1. ~late => debt + Epsilon < Step
    <3>1. SUFFICES ASSUME ~late, Due PROVE debt + Epsilon < Step
      BY <1>2, Naturals DEF Due
    <3>2. left = 0 /\ left # Idle
      BY <1>7, <3>1 DEF End, Idle
    <3>3. debt + Epsilon < left * Step + Step
      BY <1>1, <3>1, <3>2 DEF PaidInv
    <3>4. QED
      BY <3>2, <3>3, Naturals
  <2>2. QED
    BY <1>1, <1>7, <2>1 DEF PaidInv, End, clock
<1>8. CASE Receive
  BY <1>1, <1>8 DEF PaidInv, Receive, clock, timer, history
<1>9. CASE UNCHANGED vars
  BY <1>1, <1>9 DEF PaidInv, vars, clock, timer, history
<1>10. QED
  BY <1>1, <1>3, <1>4, <1>5, <1>6, <1>7, <1>8, <1>9 DEF Next, Callback

\* Delays each batch can absorb never end a room.
THEOREM OverloadsAreEarned == Spec => []OverloadIsEarned
<1>1. PaidInv => OverloadIsEarned
  BY DEF PaidInv, OverloadIsEarned
<1>2. QED
  BY <1>1, TypeCorrect, PaidInit, PaidNext, PTL DEF Spec
-----------------------------------------------------------------------------
(* Ticks on time.                                                          *)

\* While the timer keeps its promise, what will be owed when it fires is a
\* step and less than a grain more: enough for one tick, and what that tick
\* leaves is not yet due.
PromptInv ==
  prompt =>
    /\ (left = Idle /\ ~overloaded) =>
         /\ last <= alarm
         /\ Step <= debt + (alarm - last)
         /\ debt + (alarm - last) < Step + Grain
    /\ left # Idle =>
         \/ left = MaxSteps /\ Step <= debt /\ debt < Step + Grain
         \/ left = MaxSteps - 1 /\ debt < Grain

\* Rounding up adds less than a grain.
LEMMA RoundsUp ==
  ASSUME NEW t \in Nat
  PROVE  /\ RoundedUp(t) \in Nat
         /\ t <= RoundedUp(t) /\ RoundedUp(t) < t + Grain
<1>1. t + Grain - 1 \in Nat
  BY Naturals
<1> DEFINE u == t + Grain - 1
           q == u \div Grain
<1>2. q \in Nat /\ q * Grain <= u /\ u < q * Grain + Grain
  BY <1>1, Naturals
<1>3. q * Grain \in Nat
  BY <1>2, Naturals
<1>4. RoundedUp(t) = q * Grain
  BY DEF RoundedUp
<1> HIDE DEF q
<1>5. QED
  BY <1>2, <1>3, <1>4, Naturals

\* A timer armed before a step is owed fires within a grain of it.
LEMMA WaitsForAStep ==
  ASSUME TypeOK, NEW t \in Nat, last <= t, Owed(t) < Step
  PROVE  /\ last <= t + Wait(t)
         /\ Step <= debt + (t + Wait(t) - last)
         /\ debt + (t + Wait(t) - last) < Step + Grain
<1>1. last \in Nat /\ debt \in Nat
  BY DEF TypeOK
<1>2. Owed(t) = debt + (t - last)
  BY <1>1 DEF Owed, Larger
<1> DEFINE rest == Step - (debt + (t - last))
<1>3. rest \in Nat /\ rest > 0 /\ UntilNextBatch(t) = rest
  BY <1>1, <1>2, Naturals DEF UntilNextBatch, Larger
<1>4. RoundedUp(rest) \in Nat /\ rest <= RoundedUp(rest) /\ RoundedUp(rest) < rest + Grain
  BY <1>3, RoundsUp
<1>5. Wait(t) \in Nat /\ rest <= Wait(t) /\ Wait(t) < rest + Grain
  BY <1>3, <1>4, Naturals DEF Wait, Larger
<1>6. QED
  BY <1>1, <1>3, <1>5, Naturals

LEMMA PromptInit == Init => PromptInv
<1>1. SUFFICES ASSUME Init PROVE PromptInv
  OBVIOUS
<1>2. TypeOK /\ now = 0 /\ last = 0 /\ debt = 0 /\ left = Idle /\ alarm = 0 + Wait(0)
  <2>1. TypeOK
    BY <1>1, TimeInit DEF TimeInv
  <2>2. Wait(0) \in Nat
    BY <2>1, WaitIsNatural
  <2>3. QED
    BY <1>1, <2>1, <2>2 DEF Init
<1>3. Owed(0) < Step
  BY <1>2, Naturals DEF Owed, Larger
<1>4. /\ last <= 0 + Wait(0)
      /\ Step <= debt + (0 + Wait(0) - last)
      /\ debt + (0 + Wait(0) - last) < Step + Grain
  BY <1>2, <1>3, WaitsForAStep
<1>5. Wait(0) \in Nat
  BY <1>2, WaitIsNatural
<1>6. QED
  BY <1>2, <1>4, <1>5, Naturals DEF PromptInv

LEMMA PromptNext == TypeOK /\ PromptInv /\ [Next]_vars => PromptInv'
<1>1. SUFFICES ASSUME TypeOK, PromptInv, [Next]_vars PROVE PromptInv'
  OBVIOUS
<1>2. /\ now \in Nat /\ last \in Nat /\ debt \in Nat /\ left \in Int /\ alarm \in Nat
      /\ left # Idle => left \in 0..MaxSteps
      /\ prompt \in BOOLEAN
  BY <1>1, Naturals DEF TypeOK, Idle
<1>3. CASE Pass
  BY <1>1, <1>3 DEF PromptInv, Pass, clock, timer, history
<1>4. CASE StepBack
  BY <1>4 DEF PromptInv, StepBack
<1>5. CASE Begin
  <2>1. SUFFICES ASSUME prompt' PROVE PromptInv'
    BY DEF PromptInv
  <2>2. prompt /\ now = alarm /\ left = Idle /\ ~overloaded
    BY <1>5, <2>1 DEF Begin
  <2>3. /\ last <= now /\ Step <= debt + (now - last) /\ debt + (now - last) < Step + Grain
    BY <1>1, <2>2 DEF PromptInv
  <2>4. debt' = debt + (now - last)
    BY <1>2, <1>5, <2>3 DEF Begin, Collect, Owed, Larger
  <2>5. overloaded' \/ left' = MaxSteps
    BY <1>5 DEF Begin
  <2>6. overloaded' => left' = Idle
    BY <1>5 DEF Begin
  <2>7. MaxSteps # Idle
    BY Naturals DEF Idle
  <2>8. QED
    BY <2>3, <2>4, <2>5, <2>6, <2>7 DEF PromptInv
<1>6. CASE StepTick
  <2>1. /\ left > 0 /\ Due /\ left' = left - 1 /\ prompt' = prompt
        /\ debt' = Larger(debt - Step, 0)
    BY <1>6 DEF StepTick, PayStep, history
  <2>2. left # Idle /\ left' # Idle
    BY <1>2, <2>1 DEF Idle
  <2>3. SUFFICES ASSUME prompt PROVE left' = MaxSteps - 1 /\ debt' < Grain
    BY <2>1, <2>2 DEF PromptInv
  <2>4. ~(left = MaxSteps - 1 /\ debt < Grain)
    BY <1>2, <2>1, ClockAssumption DEF Due
  <2>5. left = MaxSteps /\ Step <= debt /\ debt < Step + Grain
    BY <1>1, <2>2, <2>3, <2>4 DEF PromptInv
  <2>6. QED
    BY <1>2, <2>1, <2>5, Naturals DEF Larger
<1>7. CASE End
  <2>1. SUFFICES ASSUME prompt' PROVE PromptInv'
    BY DEF PromptInv
  <2>2. /\ now >= last /\ Owed(now) + Epsilon < Step
        /\ left' = Idle /\ last' = last /\ debt' = debt /\ alarm' = now + Wait(now)
    BY <1>7, <2>1 DEF End, clock
  <2>3. Owed(now) \in Nat
    BY <1>1, <1>2, OwedIsNatural
  <2>4. Owed(now) < Step /\ last <= now
    BY <1>2, <2>2, <2>3, Naturals
  <2>5. /\ last <= now + Wait(now)
        /\ Step <= debt + (now + Wait(now) - last)
        /\ debt + (now + Wait(now) - last) < Step + Grain
    BY <1>1, <1>2, <2>4, WaitsForAStep
  <2>6. Wait(now) \in Nat
    BY <1>1, <1>2, WaitIsNatural
  <2>7. QED
    BY <1>2, <2>2, <2>5, <2>6, Naturals DEF PromptInv
<1>8. CASE Receive
  BY <1>1, <1>8 DEF PromptInv, Receive, clock, timer, history
<1>9. CASE UNCHANGED vars
  BY <1>1, <1>9 DEF PromptInv, vars, clock, timer, history
<1>10. QED
  BY <1>1, <1>3, <1>4, <1>5, <1>6, <1>7, <1>8, <1>9 DEF Next, Callback

\* A callback that comes on time steps one tick.
THEOREM OneTickEach == Spec => OneTickPerCallback
<1> DEFINE OneTick == (End /\ prompt) => left = MaxSteps - 1
<1>1. TypeOK /\ PromptInv /\ [Next]_vars => [OneTick]_vars
  <2>1. SUFFICES ASSUME TypeOK, PromptInv, End, prompt PROVE left = MaxSteps - 1
    OBVIOUS
  <2>2. left # Idle /\ (left = 0 \/ ~Due) /\ debt \in Nat
    BY <2>1 DEF End, TypeOK
  <2>3. ~(left = MaxSteps /\ Step <= debt)
    BY <2>2, Naturals DEF Due
  <2>4. QED
    BY <2>1, <2>2, <2>3 DEF PromptInv
<1>2. QED
  BY <1>1, TypeCorrect, PromptInit, PromptNext, PTL DEF Spec, OneTickPerCallback

\* A set of natural numbers has a least element.
LEMMA LeastNumber ==
  ASSUME NEW S, S \subseteq Nat, S # {}
  PROVE  \E m \in S : \A k \in S : m <= k
<1>1. \E m \in S : \A k \in S : ~(<<k, m>> \in OpToRel(<, Nat))
  BY NatLessThanWellFounded, WFMin
<1>2. PICK m \in S : \A k \in S : ~(<<k, m>> \in OpToRel(<, Nat))
  BY <1>1
<1>3. \A k \in S : ~(k < m)
  BY <1>2 DEF OpToRel
<1>4. QED
  BY <1>3

-----------------------------------------------------------------------------
(* What a peer reads.                                                      *)

Items == [kind : {"message"}, n : Nat, bytes : Nat] \cup {SP!CloseItem}

LEMMA ItemFields ==
  ASSUME NEW item \in Items
  PROVE  /\ item.kind \in {"message", "close"} /\ item.n \in Nat /\ item.bytes \in Nat
         /\ item.kind = "close" => item.bytes = 0
BY DEF Items, SP!CloseItem

\* The part of the types the argument needs.
Types ==
  /\ call \in [at : {"idle", "reserve", "refuse", "queue", "close"}, bytes : Nat]
  /\ sent \in Nat /\ message \in Nat /\ pending \in Nat
  /\ closing \in BOOLEAN /\ asked \in BOOLEAN /\ closeSent \in BOOLEAN /\ peerClosed \in BOOLEAN
  /\ channel \in Seq(Items)

\* The room is in the middle of sending a message it has counted.
Sending == call.at \in {"reserve", "refuse", "queue"}

\* What the task has yet to take follows on what it has encoded.  A close is
\* the last item, and once the room has begun it no message comes.
Follows ==
  /\ \A i \in 1..Len(channel) : channel[i].kind = "message" => channel[i].n = message + i
  /\ \A i \in 1..Len(channel) : channel[i].kind = "close" => closing /\ call.at = "idle" /\ i = Len(channel)
  /\ closing => call.at \in {"idle", "close"}
  /\ call.at = "close" => closing
  /\ ~closing => sent = message + Len(channel) + (IF Sending THEN 1 ELSE 0)

\* The task still takes messages: it has neither given one up nor closed.
Taking == pump = "running" /\ ~asked /\ ~closeSent

OrderInv ==
  /\ Types
  /\ asked => ~closeSent
  /\ Taking => Follows

LEMMA OrderInit == SP!Init => OrderInv
<1>1. SUFFICES ASSUME SP!Init PROVE OrderInv
  OBVIOUS
<1>2. channel \in Seq(Items) /\ Len(channel) = 0
  BY <1>1 DEF SP!Init
<1>3. call \in [at : {"idle", "reserve", "refuse", "queue", "close"}, bytes : Nat] /\ call.at = "idle"
  BY <1>1 DEF SP!Init, SP!Idle
<1>4. Types
  BY <1>1, <1>2, <1>3 DEF SP!Init, Types
<1>5. Follows
  BY <1>1, <1>2, <1>3 DEF SP!Init, Follows, Sending
<1>6. QED
  BY <1>1, <1>4, <1>5 DEF SP!Init, OrderInv

\* Whether a frame fits or not, what is left is well typed.
LEMMA AppendedTypes ==
  ASSUME pending \in Nat, NEW reserved, NEW encoded \in Nat, SP!Appended(reserved, encoded)
  PROVE  asked' \in BOOLEAN /\ pending' \in Nat
<1> DEFINE fits == SP!Fits(encoded - reserved) \/ encoded <= reserved
<1>1. CASE fits
  <2>1. pending' = pending + encoded /\ asked' = FALSE
    BY <1>1 DEF SP!Appended
  <2>2. pending + encoded \in Nat
    OBVIOUS
  <2>3. QED
    BY <2>1, <2>2
<1>2. CASE ~fits
  <2>1. pending' = pending /\ asked' = TRUE
    BY <1>2 DEF SP!Appended
  <2>2. QED
    BY <2>1
<1>3. QED
  BY <1>1, <1>2

LEMMA RoomKeepsOrder == OrderInv /\ SP!Room => OrderInv'
<1>1. SUFFICES ASSUME OrderInv, SP!Room PROVE OrderInv'
  OBVIOUS
<1>2. Types /\ (Taking => Follows)
  BY <1>1 DEF OrderInv
<1>3. CASE SP!BeginSend
  <2>1. Types'
    BY <1>2, <1>3, SocketAssumption DEF Types, SP!BeginSend, SP!task
  <2>2. Taking' => Follows'
    BY <1>2, <1>3 DEF Types, SP!BeginSend, SP!task, Taking, Follows, Sending
  <2>3. QED
    BY <1>1, <1>3, <2>1, <2>2 DEF OrderInv, SP!BeginSend, SP!task
<1>4. CASE SP!Reserve
  <2>1. Types'
    BY <1>2, <1>4 DEF Types, SP!Reserve, SP!task
  <2>2. call'.at \in {"queue", "refuse"} /\ call.at = "reserve"
    BY <1>2, <1>4 DEF Types, SP!Reserve
  <2>3. Taking' => Follows'
    BY <1>2, <1>4, <2>2 DEF Types, SP!Reserve, SP!task, Taking, Follows, Sending
  <2>4. QED
    BY <1>1, <1>4, <2>1, <2>3 DEF OrderInv, SP!Reserve, SP!task
<1>5. CASE SP!Enqueue
  <2> DEFINE item == [kind |-> "message", n |-> sent, bytes |-> call.bytes]
  <2>1. item \in Items
    BY <1>2 DEF Types, Items
  <2>2. Types'
    BY <1>2, <1>5, <2>1 DEF Types, SP!Enqueue, SP!task, SP!Idle
  <2>3. ASSUME Taking' PROVE Follows'
    <3>1. Follows /\ ~closing /\ sent = message + Len(channel) + 1
      BY <1>2, <1>5, <2>3 DEF Types, SP!Enqueue, SP!task, Taking, Follows, Sending
    <3>2. channel' = Append(channel, item)
      BY <1>5, <2>3 DEF SP!Enqueue, SP!task, Taking
    <3>3. /\ Len(channel') = Len(channel) + 1
          /\ channel'[Len(channel) + 1] = item
          /\ \A i \in 1..Len(channel) : channel'[i] = channel[i]
      BY <1>2, <2>1, <3>2 DEF Types
    <3>4. Len(channel) \in Nat
      BY <1>2 DEF Types
    <3>5. message' = message /\ sent' = sent /\ closing' = closing /\ call' = SP!Idle
      BY <1>5 DEF SP!Enqueue, SP!task
    <3> HIDE DEF item
    <3>6. item.kind = "message" /\ item.n = sent
      BY DEF item
    <3>7. \A i \in 1..Len(channel) : channel[i].kind # "close"
      BY <3>1 DEF Follows
    <3>8. ~closing' /\ call'.at = "idle" /\ ~Sending'
      BY <3>1, <3>5 DEF SP!Idle, Sending
    <3>9. \A i \in 1..Len(channel') : channel'[i].kind = "message" /\ channel'[i].n = message' + i
      <4>1. SUFFICES ASSUME NEW i \in 1..Len(channel')
                     PROVE  channel'[i].kind = "message" /\ channel'[i].n = message' + i
        OBVIOUS
      <4>2. CASE i = Len(channel) + 1
        BY <1>2, <3>1, <3>3, <3>4, <3>5, <3>6, <4>2 DEF Types
      <4>3. CASE i \in 1..Len(channel)
        <5>1. channel[i] \in Items
          BY <1>2, <4>3 DEF Types
        <5>2. channel[i].kind = "message"
          BY <3>7, <4>3, <5>1, ItemFields
        <5>3. QED
          BY <3>1, <3>3, <3>5, <4>3, <5>2 DEF Follows
      <4>4. QED
        BY <3>3, <3>4, <4>1, <4>2, <4>3
    <3>10. sent' = message' + Len(channel')
      BY <1>2, <3>1, <3>3, <3>4, <3>5 DEF Types
    <3>11. \A i \in 1..Len(channel') : channel'[i].kind # "close"
      BY <3>9
    <3>12. \A i \in 1..Len(channel') :
             channel'[i].kind = "message" => channel'[i].n = message' + i
      BY <3>9, Zenon
    <3>13. \A i \in 1..Len(channel') : channel'[i].kind = "close"
             => closing' /\ call'.at = "idle" /\ i = Len(channel')
      BY <3>11, Zenon
    <3>14. closing' => call'.at \in {"idle", "close"}
      BY <3>8, Zenon
    <3>15. call'.at = "close" => closing'
      BY <3>8
    <3>16. ~closing' => sent' = message' + Len(channel') + (IF Sending' THEN 1 ELSE 0)
      <4>1. message' + Len(channel') \in Nat
        BY <1>2, <3>3, <3>4, <3>5 DEF Types
      <4>2. QED
        BY <3>8, <3>10, <4>1
    <3>17. QED
      BY <3>12, <3>13, <3>14, <3>15, <3>16, Zenon DEF Follows, Sending
  <2>4. QED
    BY <1>1, <1>5, <2>2, <2>3 DEF OrderInv, SP!Enqueue, SP!task
<1>6. CASE SP!BeginClose
  <2>1. Types'
    BY <1>2, <1>6 DEF Types, SP!BeginClose, SP!task, SP!Idle
  <2>2. Taking' => Follows'
    BY <1>2, <1>6 DEF Types, SP!BeginClose, SP!task, Taking, Follows, Sending, SP!Idle
  <2>3. QED
    BY <1>1, <1>6, <2>1, <2>2 DEF OrderInv, SP!BeginClose, SP!task
<1>7. CASE SP!EnqueueClose
  <2>1. SP!CloseItem \in Items
    BY DEF SP!CloseItem, Items
  <2>2. Types'
    BY <1>2, <1>7, <2>1 DEF Types, SP!EnqueueClose, SP!task, SP!Idle
  <2>3. ASSUME Taking' PROVE Follows'
    <3>1. Follows /\ closing /\ call.at = "close"
      BY <1>2, <1>7, <2>3 DEF SP!EnqueueClose, SP!task, Taking, Follows
    <3>2. channel' = Append(channel, SP!CloseItem)
      BY <1>7, <2>3 DEF SP!EnqueueClose, SP!task, Taking
    <3>3. /\ Len(channel') = Len(channel) + 1
          /\ channel'[Len(channel) + 1] = SP!CloseItem
          /\ \A i \in 1..Len(channel) : channel'[i] = channel[i]
          /\ Len(channel) \in Nat
      BY <1>2, <2>1, <3>2 DEF Types
    <3>4. message' = message /\ closing' /\ call'.at = "idle"
      BY <1>7, <3>1 DEF SP!EnqueueClose, SP!task, SP!Idle
    <3>5. \A i \in 1..Len(channel) : channel[i].kind # "close"
      BY <3>1 DEF Follows
    <3>6. SP!CloseItem.kind = "close"
      BY DEF SP!CloseItem
    <3>7. QED
      BY <3>1, <3>3, <3>4, <3>5, <3>6 DEF Follows
  <2>4. QED
    BY <1>1, <1>7, <2>2, <2>3 DEF OrderInv, SP!EnqueueClose, SP!task
<1>8. QED
  BY <1>1, <1>3, <1>4, <1>5, <1>6, <1>7 DEF SP!Room

\* The frame at the head of the channel is the next message.
LEMMA TakesTheNext ==
  ASSUME OrderInv, SP!Take
  PROVE  OrderInv' /\ message' \in {message, message + 1}
<1> DEFINE item == Head(channel)
<1>1. Types /\ Follows /\ ~closeSent /\ ~asked /\ pump = "running"
  BY DEF OrderInv, SP!Take, SP!Turns, Taking
<1>2. /\ channel \in Seq(Items) /\ channel # <<>> /\ channel' = Tail(channel)
      /\ closing' = closing /\ call' = call /\ sent' = sent /\ closeSent' = closeSent
      /\ peerClosed' = peerClosed /\ pump' = pump
  BY <1>1 DEF Types, SP!Take, SP!room
<1>3. /\ Len(channel) \in Nat /\ Len(channel) > 0 /\ item = channel[1] /\ item \in Items
      /\ channel' \in Seq(Items) /\ Len(channel') = Len(channel) - 1
      /\ \A i \in 1..Len(channel') : channel'[i] = channel[i + 1]
  BY <1>2
<1>4. CASE item.kind = "message"
  <2>1. item.n = message + 1
    BY <1>1, <1>3, <1>4 DEF Follows
  <2>2. PICK encoded \in Encodings : SP!Appended(item.bytes, encoded)
    BY <1>4 DEF SP!Take
  <2>3. message' = IF asked' THEN message ELSE item.n
    BY <1>4 DEF SP!Take
  <2>4. asked' \in BOOLEAN /\ pending' \in Nat
    BY <1>1, <2>2, SocketAssumption, AppendedTypes DEF Types
  <2> HIDE DEF item
  <2>5. message' \in {message, message + 1} /\ (~asked' => message' = message + 1)
    BY <2>1, <2>3, <2>4
  <2>6. Types'
    BY <1>1, <1>2, <1>3, <2>4, <2>5 DEF Types
  <2>7. ASSUME Taking' PROVE Follows'
    <3>1. message' = message + 1 /\ Sending' = Sending
      BY <1>2, <2>5, <2>7 DEF Taking, Sending
    <3>2. \A i \in 1..Len(channel') : i + 1 \in 1..Len(channel) /\ channel'[i] = channel[i + 1]
      BY <1>3
    <3>3. \A i \in 1..Len(channel') : channel'[i].kind = "message" => channel'[i].n = message' + i
      <4>1. SUFFICES ASSUME NEW i \in 1..Len(channel'), channel'[i].kind = "message"
                     PROVE  channel'[i].n = message' + i
        OBVIOUS
      <4>2. channel[i + 1].n = message + (i + 1)
        BY <1>1, <3>2, <4>1 DEF Follows
      <4>3. QED
        BY <1>1, <1>3, <3>1, <3>2, <4>1, <4>2 DEF Types
    <3>4. \A i \in 1..Len(channel') :
            channel'[i].kind = "close" => closing' /\ call'.at = "idle" /\ i = Len(channel')
      <4>1. SUFFICES ASSUME NEW i \in 1..Len(channel'), channel'[i].kind = "close"
                     PROVE  closing' /\ call'.at = "idle" /\ i = Len(channel')
        OBVIOUS
      <4>2. closing /\ call.at = "idle" /\ i + 1 = Len(channel)
        BY <1>1, <3>2, <4>1 DEF Follows
      <4>3. i \in Nat /\ Len(channel') \in Nat
        BY <1>3, <4>1
      <4>4. i = Len(channel')
        BY <1>3, <4>2, <4>3
      <4>5. QED
        BY <1>1, <1>2, <4>2, <4>4 DEF Types
    <3>5. ~closing' => sent' = message' + Len(channel') + (IF Sending' THEN 1 ELSE 0)
      <4>1. SUFFICES ASSUME ~closing' PROVE sent' = message' + Len(channel') + (IF Sending' THEN 1 ELSE 0)
        OBVIOUS
      <4>2. sent = message + Len(channel) + (IF Sending THEN 1 ELSE 0)
        BY <1>1, <1>2, <4>1 DEF Follows
      <4>3. QED
        BY <1>1, <1>2, <1>3, <3>1, <4>2 DEF Types
    <3>6. QED
      BY <1>1, <1>2, <3>3, <3>4, <3>5 DEF Follows
  <2>8. QED
    BY <1>1, <1>2, <2>5, <2>6, <2>7 DEF OrderInv
<1>5. CASE item.kind = "close"
  <2>1. asked' /\ asked' \in BOOLEAN /\ pending' = pending /\ message' = message
    BY <1>5 DEF SP!Take
  <2>2. Types'
    BY <1>1, <1>2, <1>3, <2>1 DEF Types
  <2>3. QED
    BY <1>1, <1>2, <2>1, <2>2 DEF OrderInv, Taking
<1>6. QED
  BY <1>3, <1>4, <1>5, ItemFields

LEMMA TaskKeepsOrder == OrderInv /\ SP!Task => OrderInv'
<1>1. SUFFICES ASSUME OrderInv, SP!Task PROVE OrderInv'
  OBVIOUS
<1>2. Types /\ (Taking => Follows) /\ (asked => ~closeSent)
  BY <1>1 DEF OrderInv
<1>3. CASE SP!SendClose
  <2>1. pending' \in Nat
    BY <1>2, <1>3, SocketAssumption DEF SP!SendClose, Types
  <2>2. QED
    BY <1>2, <1>3, <2>1 DEF SP!SendClose, OrderInv, Types, Taking, SP!room
<1>4. CASE SP!Take
  BY <1>1, <1>4, TakesTheNext
<1>5. CASE SP!Write
  <2>1. pending' \in Nat
    BY <1>2, <1>5 DEF SP!Write, Types
  <2>2. QED
    BY <1>2, <1>5, <2>1 DEF SP!Write, OrderInv, Types, Taking, Follows, Sending, SP!room
<1>6. CASE SP!Ping
  <2>1. asked' \in BOOLEAN /\ pending' \in Nat
    BY <1>2, <1>6, SocketAssumption, AppendedTypes DEF SP!Ping, Types
  <2>2. ~asked
    BY <1>6 DEF SP!Ping, SP!Turns
  <2>3. QED
    BY <1>2, <1>6, <2>1, <2>2 DEF SP!Ping, OrderInv, Types, Taking, Follows, Sending, SP!room
<1>7. CASE SP!PeerCloses
  BY <1>2, <1>7 DEF SP!PeerCloses, OrderInv, Types, Taking, SP!Turns, Follows, Sending, SP!room
<1>8. CASE SP!Break
  BY <1>2, <1>8 DEF SP!Break, OrderInv, Types, Taking, SP!room
<1>9. CASE SP!End
  <2>1. Types'
    BY <1>2, <1>9 DEF SP!End, Types, SP!room
  <2>2. QED
    BY <1>2, <1>9, <2>1 DEF SP!End, OrderInv, Taking, SP!room
<1>10. QED
  BY <1>1, <1>3, <1>4, <1>5, <1>6, <1>7, <1>8, <1>9 DEF SP!Task

LEMMA OrderNext == OrderInv /\ [SP!Next]_(SP!vars) => OrderInv'
<1>1. CASE UNCHANGED SP!vars
  BY <1>1 DEF SP!vars, SP!room, SP!task, OrderInv, Types, Taking, Follows, Sending
<1>2. QED
  BY <1>1, RoomKeepsOrder, TaskKeepsOrder DEF SP!Next

\* Messages reach the peer without a gap, and nothing follows the close.
THEOREM PrefixRead == SP!Spec => PeerReadsAPrefix
<1> DEFINE InOrder ==
      /\ message' \in {message, message + 1}
      /\ closeSent => closeSent' /\ message' = message /\ pending' <= pending
<1>1. OrderInv /\ [SP!Next]_(SP!vars) => [InOrder]_output
  <2>1. SUFFICES ASSUME OrderInv, SP!Next PROVE InOrder
    BY DEF SP!vars, SP!task, output
  <2>2. Types /\ (asked => ~closeSent)
    BY <2>1 DEF OrderInv
  <2>3. CASE SP!Room
    BY <2>2, <2>3 DEF SP!Room, SP!BeginSend, SP!Reserve, SP!Enqueue, SP!BeginClose, SP!EnqueueClose, SP!task, Types
  <2>4. CASE SP!Take
    BY <2>1, <2>4, TakesTheNext DEF SP!Take
  <2>5. CASE SP!SendClose \/ SP!Break \/ SP!End \/ SP!PeerCloses
    BY <2>2, <2>5 DEF SP!SendClose, SP!Break, SP!End, SP!PeerCloses, Types
  <2>6. CASE SP!Write
    BY <2>2, <2>6 DEF SP!Write, Types
  <2>7. CASE SP!Ping
    BY <2>2, <2>7 DEF SP!Ping
  <2>8. QED
    BY <2>1, <2>3, <2>4, <2>5, <2>6, <2>7 DEF SP!Next, SP!Task
<1>2. QED
  BY <1>1, OrderInit, OrderNext, PTL DEF SP!Spec, PeerReadsAPrefix
-----------------------------------------------------------------------------
(* Bytes that wait in the channel.                                         *)

\* f[i] is the bytes of the first i items, for i up to n.
Totals(f, items, n) ==
  f = [i \in 0..n |-> IF i = 0 THEN 0 ELSE f[i - 1] + items[i].bytes]

\* Totals are natural numbers, and there is one way to count.
LEMMA TotalsAgree ==
  ASSUME NEW items \in Seq(Items), NEW n \in 0..Len(items),
         NEW f, Totals(f, items, n), NEW g, Totals(g, items, n)
  PROVE  f[n] \in Nat /\ f[n] = g[n]
<1>1. n \in Nat /\ \A i \in 1..n : items[i].bytes \in Nat
  <2>1. Len(items) \in Nat /\ \A i \in 1..Len(items) : items[i] \in Items
    OBVIOUS
  <2>2. QED
    BY <2>1, ItemFields
<1>2. /\ f[0] = 0 /\ \A i \in 1..n : f[i] = f[i - 1] + items[i].bytes
      /\ g[0] = 0 /\ \A i \in 1..n : g[i] = g[i - 1] + items[i].bytes
  BY <1>1 DEF Totals
<1> DEFINE wrong == {i \in 0..n : ~(f[i] \in Nat /\ f[i] = g[i])}
<1>3. SUFFICES ASSUME n \in wrong PROVE FALSE
  BY <1>1
<1>4. wrong \subseteq Nat
  OBVIOUS
<1>5. PICK m \in wrong : \A k \in wrong : m <= k
  BY <1>3, <1>4, LeastNumber
<1>6. m \in 1..n
  BY <1>1, <1>2, <1>5
<1>7. m - 1 \in 0..n /\ m - 1 \notin wrong
  BY <1>1, <1>5, <1>6
<1>8. f[m - 1] \in Nat /\ f[m - 1] = g[m - 1]
  BY <1>7
<1>9. f[m] \in Nat /\ f[m] = g[m]
  BY <1>1, <1>2, <1>6, <1>8, SMTT(30)
<1>10. QED
  BY <1>5, <1>9

LEMMA TotalsExist ==
  ASSUME NEW items \in Seq(Items)
  PROVE  \E f : Totals(f, items, Len(items))
<1> DEFINE uncounted == {n \in 0..Len(items) : ~\E f : Totals(f, items, n)}
<1>1. Len(items) \in Nat
  OBVIOUS
<1>2. SUFFICES ASSUME Len(items) \in uncounted PROVE FALSE
  BY <1>1
<1>3. uncounted \subseteq Nat
  OBVIOUS
<1>4. PICK m \in uncounted : \A k \in uncounted : m <= k
  BY <1>2, <1>3, LeastNumber
<1>5. m \in 0..Len(items)
  BY <1>4
<1>6. CASE m = 0
  <2>1. Totals([i \in 0..0 |-> 0], items, 0)
    BY DEF Totals
  <2>2. QED
    BY <1>4, <1>6, <2>1
<1>7. CASE m # 0
  <2>1. m - 1 \in 0..Len(items) /\ m - 1 \notin uncounted
    BY <1>1, <1>4, <1>5, <1>7
  <2>2. PICK f : Totals(f, items, m - 1)
    BY <2>1
  <2> DEFINE g == [i \in 0..m |-> IF i = m THEN f[m - 1] + items[m].bytes ELSE f[i]]
  <2>3. Totals(g, items, m)
    <3>1. ASSUME NEW i \in 0..m
          PROVE  g[i] = IF i = 0 THEN 0 ELSE g[i - 1] + items[i].bytes
      <4>1. CASE i = m
        BY <1>5, <1>7, <3>1, <4>1
      <4>2. CASE i = 0
        <5>1. f[0] = 0
          BY <1>5, <1>7, <2>2 DEF Totals
        <5>2. QED
          BY <1>5, <1>7, <4>2, <5>1
      <4>3. CASE i # m /\ i # 0
        <5>1. i \in 0..(m - 1) /\ i - 1 \in 0..(m - 1)
          BY <1>5, <1>7, <3>1, <4>3
        <5>2. f[i] = f[i - 1] + items[i].bytes
          BY <2>2, <4>3, <5>1 DEF Totals
        <5>3. QED
          BY <1>5, <4>3, <5>1, <5>2
      <4>4. QED
        BY <4>1, <4>2, <4>3
    <3>2. g = [i \in 0..m |-> g[i]]
      OBVIOUS
    <3> HIDE DEF g
    <3>3. QED
      BY <3>1, <3>2 DEF Totals
  <2>4. QED
    BY <1>4, <2>3
<1>8. QED
  BY <1>6, <1>7

\* However its items are counted, they make what waits.
LEMMA WaitingIsTotal ==
  ASSUME NEW items \in Seq(Items)
  PROVE  /\ Waiting(items) \in Nat
         /\ \A f : Totals(f, items, Len(items)) => Waiting(items) = f[Len(items)]
<1> DEFINE total == CHOOSE f : Totals(f, items, Len(items))
<1>1. Totals(total, items, Len(items))
  BY TotalsExist
<1>2. Waiting(items) = total[Len(items)]
  BY DEF Waiting, Totals
<1>3. Len(items) \in 0..Len(items)
  OBVIOUS
<1> HIDE DEF total
<1>4. QED
  BY <1>1, <1>2, <1>3, TotalsAgree
LEMMA NothingWaits == Waiting(<<>>) = 0
<1>1. Totals([i \in 0..0 |-> 0], <<>>, 0)
  BY DEF Totals
<1>2. <<>> \in Seq(Items) /\ Len(<<>>) = 0
  OBVIOUS
<1>3. Waiting(<<>>) = [i \in 0..0 |-> 0][0]
  BY <1>1, <1>2, WaitingIsTotal
<1>4. QED
  BY <1>3

LEMMA WaitingAfterAppend ==
  ASSUME NEW items \in Seq(Items), NEW item \in Items
  PROVE  Waiting(Append(items, item)) = Waiting(items) + item.bytes
<1> DEFINE more == Append(items, item)
           n == Len(items)
<1>1. /\ n \in Nat /\ more \in Seq(Items) /\ Len(more) = n + 1
      /\ more[n + 1] = item /\ \A i \in 1..n : more[i] = items[i]
  OBVIOUS
<1>2. PICK f : Totals(f, items, n)
  BY TotalsExist
<1>3. Waiting(items) = f[n]
  BY <1>2, WaitingIsTotal
<1> DEFINE g == [i \in 0..(n + 1) |-> IF i = n + 1 THEN f[n] + item.bytes ELSE f[i]]
<1>4. f[0] = 0 /\ \A i \in 1..n : f[i] = f[i - 1] + items[i].bytes
  BY <1>1, <1>2 DEF Totals
<1> HIDE DEF more, n
<1>5. Totals(g, more, n + 1)
  <2>1. ASSUME NEW i \in 0..(n + 1)
        PROVE  g[i] = IF i = 0 THEN 0 ELSE g[i - 1] + more[i].bytes
    <3>1. CASE i = n + 1
      BY <1>1, <3>1
    <3>2. CASE i = 0
      BY <1>1, <1>4, <3>2
    <3>3. CASE i \in 1..n
      <4>1. f[i] = f[i - 1] + items[i].bytes /\ more[i] = items[i]
        BY <1>1, <1>4, <3>3
      <4>2. QED
        BY <1>1, <3>3, <4>1
    <3>4. QED
      BY <1>1, <3>1, <3>2, <3>3
  <2>2. g = [i \in 0..(n + 1) |-> g[i]]
    OBVIOUS
  <2> HIDE DEF g
  <2>3. QED
    BY <2>1, <2>2 DEF Totals
<1>6. Waiting(more) = g[n + 1]
  <2> HIDE DEF g
  <2>1. QED
    BY <1>1, <1>5, WaitingIsTotal
<1>7. g[n + 1] = f[n] + item.bytes
  BY <1>1
<1>8. QED
  BY <1>3, <1>6, <1>7 DEF more, n

LEMMA WaitingAfterTail ==
  ASSUME NEW items \in Seq(Items), items # <<>>
  PROVE  Waiting(items) = Head(items).bytes + Waiting(Tail(items))
<1> DEFINE rest == Tail(items)
           n == Len(rest)
           first == Head(items).bytes
<1>1. /\ n \in Nat /\ rest \in Seq(Items) /\ Len(items) = n + 1
      /\ Head(items) = items[1] /\ items[1] \in Items /\ \A i \in 1..n : rest[i] = items[i + 1]
  OBVIOUS
<1>2. PICK f : Totals(f, rest, n)
  BY <1>1, TotalsExist
<1>3. Waiting(rest) = f[n] /\ f[n] \in Nat /\ first \in Nat
  BY <1>1, <1>2, WaitingIsTotal, ItemFields
<1>4. f[0] = 0 /\ \A i \in 1..n : f[i] = f[i - 1] + rest[i].bytes
  BY <1>1, <1>2 DEF Totals
<1> DEFINE g == [i \in 0..(n + 1) |-> IF i = 0 THEN 0 ELSE first + f[i - 1]]
<1>5. \A i \in 0..n : f[i] \in Nat
  <2> SUFFICES ASSUME NEW i \in 0..n PROVE f[i] \in Nat
    OBVIOUS
  <2> DEFINE h == [k \in 0..i |-> f[k]]
  <2>1. \A k \in 0..i : k # 0 => f[k] = f[k - 1] + rest[k].bytes
    BY <1>1, <1>4
  <2>2. Totals(h, rest, i)
    <3>1. h = [k \in 0..i |-> IF k = 0 THEN 0 ELSE h[k - 1] + rest[k].bytes]
      BY <1>1, <1>4, <2>1
    <3> HIDE DEF h
    <3>2. QED
      BY <3>1 DEF Totals
  <2>3. h[i] = f[i]
    BY <1>1
  <2> HIDE DEF h, rest, n
  <2>4. h[i] \in Nat
    BY <1>1, <2>2, TotalsAgree DEF n
  <2>5. QED
    BY <2>3, <2>4
<1> HIDE DEF rest, n
<1>6. Totals(g, items, n + 1)
  <2>1. ASSUME NEW i \in 0..(n + 1)
        PROVE  g[i] = IF i = 0 THEN 0 ELSE g[i - 1] + items[i].bytes
    <3>1. CASE i = 0
      BY <1>1, <3>1
    <3>2. CASE i = 1
      <4>1. g[i] = first + f[0] /\ g[i - 1] = 0
        BY <1>1, <3>2
      <4>2. items[i].bytes = first
        BY <1>1, <3>2
      <4>3. QED
        BY <1>3, <1>4, <3>2, <4>1, <4>2
    <3>3. CASE i \in 2..(n + 1)
      <4>1. i - 1 \in 1..n /\ i - 1 - 1 \in 0..n /\ rest[i - 1] = items[i]
        BY <1>1, <3>3
      <4>2. f[i - 1] = f[i - 1 - 1] + rest[i - 1].bytes /\ f[i - 1 - 1] \in Nat
        BY <1>4, <1>5, <4>1
      <4>3. rest[i - 1].bytes \in Nat
        <5>1. rest[i - 1] \in Items
          BY <1>1, <4>1
        <5>2. QED
          BY <5>1, ItemFields
      <4>4. g[i] = first + f[i - 1] /\ g[i - 1] = first + f[i - 1 - 1]
        BY <1>1, <3>3, <4>1
      <4> HIDE DEF g, first
      <4>5. QED
        BY <1>3, <3>3, <4>1, <4>2, <4>3, <4>4
    <3>4. QED
      BY <1>1, <3>1, <3>2, <3>3
  <2>2. g = [i \in 0..(n + 1) |-> g[i]]
    OBVIOUS
  <2> HIDE DEF g
  <2>3. QED
    BY <2>1, <2>2 DEF Totals
<1>7. Waiting(items) = g[n + 1]
  <2> HIDE DEF g
  <2>1. QED
    BY <1>1, <1>6, WaitingIsTotal
<1>8. g[n + 1] = first + f[n]
  BY <1>1
<1>9. QED
  BY <1>3, <1>7, <1>8 DEF rest, n
-----------------------------------------------------------------------------
(* The counter.                                                            *)

\* The counter is exact while the task runs, covers what is reserved when it
\* is gone, and is within the budget until a close frame is sent.
CountInv ==
  /\ queued \in Nat
  /\ pump = "running" => queued = Reserved + pending + Waiting(channel)
  /\ Reserved <= queued
  /\ closeSent => queued <= Budget + CloseBytes
  /\ ~closeSent => queued <= Budget

LEMMA CountInit == SP!Init => CountInv
BY NothingWaits, SocketAssumption DEF SP!Init, CountInv, Reserved, SP!Idle

\* What the counter is made of are natural numbers.
LEMMA CountTypes ==
  ASSUME Types
  PROVE  /\ Reserved \in Nat /\ pending \in Nat /\ Waiting(channel) \in Nat
         /\ call.bytes \in Nat
         /\ Budget \in Nat /\ CloseBytes \in Nat /\ PongBytes \in Nat /\ Encodings \subseteq Nat
<1>1. Waiting(channel) \in Nat
  BY WaitingIsTotal DEF Types
<1>2. call.bytes \in Nat /\ pending \in Nat
  BY DEF Types
<1>3. QED
  BY <1>1, <1>2, SocketAssumption DEF Reserved

LEMMA RoomKeepsCount ==
  ASSUME Types, CountInv, SP!Room
  PROVE  CountInv'
<1>1. /\ Reserved \in Nat /\ pending \in Nat /\ Waiting(channel) \in Nat
      /\ call.bytes \in Nat /\ Budget \in Nat /\ CloseBytes \in Nat
  BY CountTypes
<1>2. pump' = pump /\ pending' = pending /\ closeSent' = closeSent
  BY DEF SP!Room, SP!BeginSend, SP!Reserve, SP!Enqueue, SP!BeginClose, SP!EnqueueClose, SP!task
<1>3. CASE SP!BeginSend
  <2>1. /\ Reserved = 0 /\ Reserved' = 0 /\ queued' = queued /\ channel' = channel
    BY <1>3 DEF SP!BeginSend, Reserved
  <2>2. QED
    BY <1>2, <2>1 DEF CountInv
<1>4. CASE SP!Reserve
  <2>1. Reserved = 0 /\ channel' = channel /\ call.at = "reserve"
    BY <1>4 DEF SP!Reserve, Reserved
  <2>2. CASE SP!Fits(call.bytes)
    <3>1. queued' = queued + call.bytes /\ call' = [call EXCEPT !.at = "queue"]
      BY <1>4, <2>2 DEF SP!Reserve
    <3>2. Reserved' = call.bytes
      BY <3>1 DEF Reserved, Types
    <3>3. queued + call.bytes <= Budget
      BY <2>2 DEF SP!Fits
    <3>4. QED
      BY <1>1, <1>2, <2>1, <3>1, <3>2, <3>3 DEF CountInv
  <2>3. CASE ~SP!Fits(call.bytes)
    <3>1. queued' = queued /\ call' = [call EXCEPT !.at = "refuse"]
      BY <1>4, <2>3 DEF SP!Reserve
    <3>2. Reserved' = 0
      BY <3>1 DEF Reserved, Types
    <3>3. QED
      BY <1>2, <2>1, <3>1, <3>2 DEF CountInv
  <2>4. QED
    BY <2>2, <2>3
<1>5. CASE SP!Enqueue
  <2>1. Reserved = call.bytes /\ Reserved' = 0
    BY <1>5 DEF SP!Enqueue, Reserved, SP!Idle
  <2>2. CASE pump # "gone"
    <3> DEFINE item == [kind |-> "message", n |-> sent, bytes |-> call.bytes]
    <3>1. queued' = queued /\ channel' = Append(channel, item)
      BY <1>5, <2>2 DEF SP!Enqueue
    <3>2. item \in Items /\ channel \in Seq(Items) /\ item.bytes = call.bytes
      BY DEF Types, Items
    <3> HIDE DEF item
    <3>3. Waiting(channel') = Waiting(channel) + call.bytes
      BY <3>1, <3>2, WaitingAfterAppend
    <3>4. QED
      BY <1>1, <1>2, <2>1, <3>1, <3>3 DEF CountInv
  <2>3. CASE pump = "gone"
    <3>1. queued' = queued - call.bytes
      BY <1>5, <2>3 DEF SP!Enqueue
    <3>2. QED
      BY <1>1, <1>2, <2>1, <2>3, <3>1 DEF CountInv
  <2>4. QED
    BY <2>2, <2>3
<1>6. CASE SP!BeginClose
  <2>1. /\ Reserved = 0 /\ Reserved' = 0 /\ queued' = queued /\ channel' = channel
    BY <1>6 DEF SP!BeginClose, Reserved, SP!Idle
  <2>2. QED
    BY <1>2, <2>1 DEF CountInv
<1>7. CASE SP!EnqueueClose
  <2>1. /\ Reserved = 0 /\ Reserved' = 0 /\ queued' = queued
        /\ channel' \in {channel, Append(channel, SP!CloseItem)}
    BY <1>7 DEF SP!EnqueueClose, Reserved, SP!Idle
  <2>2. Waiting(channel') = Waiting(channel)
    <3>1. SP!CloseItem \in Items /\ SP!CloseItem.bytes = 0 /\ channel \in Seq(Items)
      BY DEF SP!CloseItem, Items, Types
    <3>2. Waiting(Append(channel, SP!CloseItem)) = Waiting(channel)
      BY <1>1, <3>1, WaitingAfterAppend
    <3>3. QED
      BY <2>1, <3>2
  <2>3. QED
    BY <1>2, <2>1, <2>2 DEF CountInv
<1>8. QED
  BY <1>3, <1>4, <1>5, <1>6, <1>7 DEF SP!Room

\* A frame in place of what was reserved for it keeps the counter exact.
LEMMA AppendedCounts ==
  ASSUME Types, CountInv, pump = "running", ~closeSent,
         NEW reserved \in Nat, NEW encoded \in Nat, NEW rest \in Nat,
         Waiting(channel) = reserved + rest,
         SP!Appended(reserved, encoded)
  PROVE  /\ queued' \in Nat /\ queued' = Reserved + pending' + rest
         /\ Reserved <= queued' /\ queued' <= Budget
<1>1. /\ Reserved \in Nat /\ pending \in Nat /\ Budget \in Nat /\ queued \in Nat
      /\ queued = Reserved + pending + (reserved + rest) /\ queued <= Budget
  BY CountTypes DEF CountInv
<1> DEFINE fits == SP!Fits(encoded - reserved) \/ encoded <= reserved
<1>2. CASE fits
  <2>1. pending' = pending + encoded /\ queued' = queued + encoded - reserved
    BY <1>2 DEF SP!Appended
  <2>2. queued' <= Budget
    BY <1>1, <1>2, <2>1 DEF SP!Fits
  <2>3. QED
    BY <1>1, <2>1, <2>2
<1>3. CASE ~fits
  <2>1. pending' = pending /\ queued' = queued - reserved
    BY <1>3 DEF SP!Appended
  <2>2. QED
    BY <1>1, <2>1
<1>4. QED
  BY <1>2, <1>3

LEMMA TaskKeepsCount ==
  ASSUME OrderInv, CountInv, SP!Task
  PROVE  CountInv'
<1>1. Types /\ (asked => ~closeSent)
  BY DEF OrderInv
<1>2. /\ Reserved \in Nat /\ pending \in Nat /\ Waiting(channel) \in Nat
      /\ Budget \in Nat /\ CloseBytes \in Nat /\ PongBytes \in Nat /\ Encodings \subseteq Nat
  BY <1>1, CountTypes
<1>3. Reserved' = Reserved
  BY DEF SP!Task, SP!SendClose, SP!Take, SP!Write, SP!Ping, SP!PeerCloses, SP!Break, SP!End, SP!room, Reserved
<1>4. CASE SP!SendClose
  <2>1. /\ pump = "running" /\ pump' = pump /\ asked /\ closeSent' = TRUE /\ channel' = channel
        /\ pending' = pending + CloseBytes /\ queued' = queued + CloseBytes
    BY <1>4 DEF SP!SendClose
  <2>2. QED
    BY <1>1, <1>2, <1>3, <2>1 DEF CountInv
<1>5. CASE SP!Take
  <2> DEFINE item == Head(channel)
  <2>1. /\ pump = "running" /\ pump' = pump /\ ~closeSent /\ closeSent' = closeSent
        /\ channel # <<>> /\ channel' = Tail(channel)
    BY <1>5 DEF SP!Take, SP!Turns
  <2>2. channel \in Seq(Items) /\ item \in Items /\ Tail(channel) \in Seq(Items)
    BY <1>1, <2>1 DEF Types
  <2>3. item.bytes \in Nat
    BY <2>2, ItemFields
  <2>4. Waiting(channel) = item.bytes + Waiting(channel') /\ Waiting(channel') \in Nat
    BY <2>1, <2>2, WaitingAfterTail, WaitingIsTotal
  <2>5. CASE item.kind = "message"
    <3>1. PICK encoded \in Encodings : SP!Appended(item.bytes, encoded)
      BY <1>5, <2>5 DEF SP!Take
    <3> HIDE DEF item
    <3>2. encoded \in Nat
      BY <1>2
    <3> DEFINE rest == Waiting(channel')
    <3>3. rest \in Nat /\ Waiting(channel) = item.bytes + rest
      BY <2>4
    <3> HIDE DEF rest
    <3>4. /\ queued' \in Nat /\ queued' = Reserved + pending' + rest
          /\ Reserved <= queued' /\ queued' <= Budget
      BY <1>1, <2>1, <2>3, <3>1, <3>2, <3>3, AppendedCounts
    <3>5. QED
      BY <1>3, <2>1, <3>4 DEF CountInv, rest
  <2>6. CASE item.kind = "close"
    <3>1. queued' = queued /\ pending' = pending
      BY <1>5, <2>6 DEF SP!Take
    <3>2. item.bytes = 0
      BY <2>2, <2>6, ItemFields
    <3>3. QED
      BY <1>2, <1>3, <2>1, <2>4, <3>1, <3>2 DEF CountInv
  <2>7. QED
    BY <1>5, <2>5, <2>6 DEF SP!Take
<1>6. CASE SP!Write
  <2>1. PICK count \in 1..pending : pending' = pending - count /\ queued' = queued - count
    BY <1>6 DEF SP!Write
  <2>2. pump = "running" /\ pump' = pump /\ closeSent' = closeSent /\ channel' = channel
    BY <1>6 DEF SP!Write, SP!Turns
  <2>3. QED
    BY <1>2, <1>3, <2>1, <2>2 DEF CountInv
<1>7. CASE SP!Ping
  <2>1. /\ pump = "running" /\ pump' = pump /\ ~closeSent /\ closeSent' = closeSent
        /\ channel' = channel /\ SP!Appended(0, PongBytes)
    BY <1>7 DEF SP!Ping, SP!Turns
  <2> DEFINE rest == Waiting(channel)
  <2>2. rest \in Nat /\ Waiting(channel) = 0 + rest
    BY <1>2
  <2> HIDE DEF rest
  <2>3. /\ queued' \in Nat /\ queued' = Reserved + pending' + rest
        /\ Reserved <= queued' /\ queued' <= Budget
    BY <1>1, <1>2, <2>1, <2>2, AppendedCounts
  <2>4. QED
    BY <1>3, <2>1, <2>3 DEF CountInv, rest
<1>8. CASE SP!PeerCloses
  <2>1. UNCHANGED <<queued, channel, pump, pending, closeSent>>
    BY <1>8 DEF SP!PeerCloses
  <2>2. QED
    BY <1>3, <2>1 DEF CountInv
<1>9. CASE SP!Break \/ SP!End
  <2>1. UNCHANGED <<queued, closeSent>> /\ pump' # "running"
    BY <1>9 DEF SP!Break, SP!End
  <2>2. QED
    BY <1>3, <2>1 DEF CountInv
<1>10. QED
  BY <1>4, <1>5, <1>6, <1>7, <1>8, <1>9 DEF SP!Task

LEMMA CountNext == OrderInv /\ CountInv /\ [SP!Next]_(SP!vars) => CountInv'
<1>1. CASE UNCHANGED SP!vars
  BY <1>1 DEF SP!vars, SP!room, SP!task, CountInv, Reserved
<1>2. QED
  BY <1>1, RoomKeepsCount, TaskKeepsCount DEF SP!Next, OrderInv

\* The counter neither leaks nor wraps, and only a close frame goes beyond the
\* budget: the room's reservations and the task's writes never disagree.
THEOREM CountIsExact == SP!Spec => []QueuedIsExact
<1>1. Types /\ CountInv => QueuedIsExact
  BY CountTypes DEF CountInv, QueuedIsExact
<1>2. OrderInv => Types
  BY DEF OrderInv
<1>3. QED
  BY <1>1, <1>2, OrderInit, OrderNext, CountInit, CountNext, PTL DEF SP!Spec

-----------------------------------------------------------------------------
(* The request counters.                                                   *)

\* oldest_start_ms is never later than a window begins: a table whose oldest
\* window is not over has none that is.
WindowsInv ==
  /\ nowMs \in 0..MaxElapsed
  /\ oldest \in Nat
  /\ windows \in [DOMAIN windows -> [start : Nat, count : Nat]]
  /\ \A k \in DOMAIN windows : oldest <= windows[k].start
  /\ RL!RefusedOnlyWhenFull

\* The code finds the earliest start with min().
LEMMA OldestIsEarliest ==
  ASSUME NEW table, table \in [DOMAIN table -> [start : Nat, count : Nat]]
  PROVE  /\ RL!OldestOf(table) \in Nat
         /\ \A k \in DOMAIN table : RL!OldestOf(table) <= table[k].start
<1>1. CASE DOMAIN table = {}
  BY <1>1, RateLimitAssumption DEF RL!OldestOf, RL!Never
<1>2. CASE DOMAIN table # {}
  <2> DEFINE Starts == {table[k].start : k \in DOMAIN table}
             Earliest(t) == \A k \in DOMAIN table : t <= table[k].start
  <2>1. Starts # {} /\ Starts \subseteq Nat
    BY <1>2
  <2>2. PICK t \in Starts : \A u \in Starts : t <= u
    BY <2>1, LeastNumber
  <2>3. Earliest(t)
    BY <2>2
  <2>4. RL!OldestOf(table) = CHOOSE u \in Starts : Earliest(u)
    BY <1>2 DEF RL!OldestOf
  <2>5. RL!OldestOf(table) \in Starts /\ Earliest(RL!OldestOf(table))
    BY <2>2, <2>3, <2>4
  <2>6. QED
    BY <2>1, <2>5
<1>3. QED
  BY <1>1, <1>2

\* What a sweep leaves is running.
LEMMA SweptIsLive ==
  /\ DOMAIN RL!Swept \subseteq DOMAIN windows
  /\ RL!Swept = [k \in DOMAIN RL!Swept |-> windows[k]]
  /\ \A k \in DOMAIN RL!Swept : RL!Live(RL!Swept[k].start)
BY DEF RL!Swept, RL!Restrict

LEMMA WindowsInit == RL!Init => WindowsInv
<1>1. SUFFICES ASSUME RL!Init PROVE WindowsInv
  OBVIOUS
<1>2. DOMAIN windows = {}
  BY <1>1 DEF RL!Init
<1>3. QED
  BY <1>1, <1>2, RateLimitAssumption DEF RL!Init, WindowsInv, RL!RefusedOnlyWhenFull, RL!Never

LEMMA WindowsNext == WindowsInv /\ [RL!Next]_(RL!vars) => WindowsInv'
<1>1. SUFFICES ASSUME WindowsInv, [RL!Next]_(RL!vars) PROVE WindowsInv'
  OBVIOUS
<1>2. CASE RL!Elapse
  BY <1>1, <1>2, RateLimitAssumption DEF WindowsInv, RL!Elapse, RL!RefusedOnlyWhenFull
<1>3. ASSUME NEW k \in Keys, RL!Again(k) PROVE WindowsInv'
  <2> DEFINE w == IF RL!Live(windows[k].start) THEN windows[k] ELSE RL!Opened
  <2>1. /\ k \in DOMAIN windows
        /\ windows' = [windows EXCEPT ![k] = RL!Counted(w)]
        /\ oldest' = oldest /\ nowMs' = nowMs /\ ~refused'
    BY <1>3 DEF RL!Again
  <2>2. w \in [start : Nat, count : Nat] /\ oldest <= w.start
    <3>1. CASE RL!Live(windows[k].start)
      BY <1>1, <2>1, <3>1 DEF WindowsInv
    <3>2. CASE ~RL!Live(windows[k].start)
      BY <1>1, <2>1, <3>2, RateLimitAssumption DEF WindowsInv, RL!Live, RL!Opened
    <3>3. QED
      BY <3>1, <3>2
  <2>3. RL!Counted(w) \in [start : Nat, count : Nat] /\ RL!Counted(w).start = w.start
    BY <2>2, RateLimitAssumption DEF RL!Counted, RL!Earlier
  <2> HIDE DEF w
  <2>4. windows' \in [DOMAIN windows' -> [start : Nat, count : Nat]]
    BY <1>1, <2>1, <2>3 DEF WindowsInv
  <2>5. \A q \in DOMAIN windows' : oldest <= windows'[q].start
    BY <1>1, <2>1, <2>2, <2>3 DEF WindowsInv
  <2>6. QED
    BY <1>1, <2>1, <2>4, <2>5 DEF WindowsInv, RL!RefusedOnlyWhenFull
<1>4. ASSUME NEW k \in Keys, RL!Fresh(k) PROVE WindowsInv'
  <2> DEFINE sweeps == RL!Full(windows) /\ ~RL!NothingExpired
             table  == IF sweeps THEN RL!Swept ELSE windows
             start  == IF sweeps THEN RL!OldestOf(RL!Swept) ELSE oldest
  <2>1. table \in [DOMAIN table -> [start : Nat, count : Nat]]
    BY <1>1, SweptIsLive DEF WindowsInv
  <2>2. start \in Nat /\ \A q \in DOMAIN table : start <= table[q].start
    <3>1. CASE sweeps
      BY <2>1, <3>1, OldestIsEarliest
    <3>2. CASE ~sweeps
      BY <1>1, <3>2 DEF WindowsInv
    <3>3. QED
      BY <3>1, <3>2
  <2>3. nowMs' = nowMs
    BY <1>4 DEF RL!Fresh
  <2>4. CASE RL!Full(table)
    <3>1. windows' = table /\ oldest' = start
      BY <1>4, <2>4 DEF RL!Fresh
    <3>2. \A q \in DOMAIN table : RL!Live(table[q].start)
      <4>1. CASE sweeps
        BY <4>1, SweptIsLive
      <4>2. CASE ~sweeps
        <5>1. RL!NothingExpired
          BY <2>4, <4>2
        <5>2. QED
          BY <1>1, <4>2, <5>1, RateLimitAssumption DEF RL!NothingExpired, RL!Live, WindowsInv
      <4>3. QED
        BY <4>1, <4>2
    <3>3. RL!Full(windows')
      BY <2>4, <3>1
    <3> HIDE DEF table, start, sweeps
    <3>4. \A q \in DOMAIN windows' : windows'[q].start + Period > nowMs'
      BY <2>3, <3>1, <3>2 DEF RL!Live
    <3>5. RL!RefusedOnlyWhenFull'
      BY <3>3, <3>4 DEF RL!RefusedOnlyWhenFull, RL!Live
    <3>6. QED
      BY <1>1, <2>1, <2>2, <2>3, <3>1, <3>5 DEF WindowsInv
  <2>5. CASE ~RL!Full(table)
    <3> DEFINE w == RL!Counted(RL!Opened)
    <3>1. /\ windows' = [q \in DOMAIN table \cup {k} |-> IF q = k THEN w ELSE table[q]]
          /\ oldest' = RL!Earlier(start, nowMs)
          /\ ~refused'
      BY <1>4, <2>5 DEF RL!Fresh
    <3>2. w.start = nowMs /\ w \in [start : Nat, count : Nat]
      BY <1>1, RateLimitAssumption DEF RL!Counted, RL!Opened, RL!Earlier, WindowsInv
    <3> HIDE DEF table, start, w, sweeps
    <3>3. oldest' \in Nat /\ oldest' <= start /\ oldest' <= nowMs
      BY <1>1, <2>2, <3>1 DEF WindowsInv, RL!Earlier
    <3>4. /\ windows' \in [DOMAIN windows' -> [start : Nat, count : Nat]]
          /\ \A q \in DOMAIN windows' : oldest' <= windows'[q].start
      BY <1>1, <2>1, <2>2, <3>1, <3>2, <3>3 DEF WindowsInv
    <3>5. QED
      BY <1>1, <2>3, <3>1, <3>3, <3>4 DEF WindowsInv, RL!RefusedOnlyWhenFull
  <2>6. QED
    BY <2>4, <2>5
<1>5. CASE UNCHANGED RL!vars
  BY <1>1, <1>5 DEF WindowsInv, RL!vars, RL!RefusedOnlyWhenFull, RL!Full, RL!Live
<1>6. QED
  BY <1>1, <1>2, <1>3, <1>4, <1>5 DEF RL!Next, RL!Allow

\* A newcomer is refused only while the table is full of keys inside their
\* windows.
THEOREM NewcomersRefusedOnlyWhenFull == RL!Spec => []RefusedOnlyWhenFull
<1>1. WindowsInv => RefusedOnlyWhenFull
  <2>1. RL!Full(windows) => Full(windows)
    BY DEF RL!Full, Full, RL!Cardinality, Cardinality
  <2>2. QED
    BY <2>1 DEF WindowsInv, RL!RefusedOnlyWhenFull, RL!Live, RefusedOnlyWhenFull, Live
<1>2. QED
  BY <1>1, WindowsInit, WindowsNext, PTL DEF RL!Spec

-----------------------------------------------------------------------------
(* The announcements to the directory.                                     *)

\* How long ago the last announcement was accepted when the loop is about to
\* announce again, after m announcements went missing.
LongestWait(m) == Interval + Check + m * (Timeout + Check)

AnnouncedTypes ==
  /\ rooms \in AN!Lists
  /\ checkIn \in 0..Check
  /\ put \in [rooms : AN!Lists \cup {"none"}, age : 0..Timeout, there : BOOLEAN]
  /\ accepted \in [rooms : AN!Lists \cup {"none"}, age : Nat]
  /\ entry \in [rooms : AN!Lists \cup {"none"}, age : Nat]
  /\ astray \subseteq AN!Lists
  /\ missed \in 0..MaxMissed

\* A row is seen after its announcement began and before it was accepted; the
\* next one begins within LongestWait(missed) of that, or is under way since.
ListedInv ==
  /\ AnnouncedTypes
  /\ AN!known(put) /\ put.there => AN!known(entry) /\ entry.age <= put.age
  /\ AN!known(accepted) =>
       /\ AN!known(entry) /\ entry.age <= accepted.age + Timeout
       /\ IF AN!known(put) THEN accepted.age <= LongestWait(missed) + put.age
                        ELSE accepted.age + checkIn <= LongestWait(missed)

LEMMA WaitGrows ==
  ASSUME NEW m \in 0..MaxMissed
  PROVE  /\ LongestWait(m) \in Nat
         /\ Interval + Check <= LongestWait(m)
         /\ LongestWait(m + 1) = LongestWait(m) + Timeout + Check
         /\ LongestWait(m) + 2 * Timeout <= Lifetime
<1> DEFINE step == Timeout + Check
<1>1. step \in Nat /\ m \in Nat /\ MaxMissed \in Nat /\ m <= MaxMissed
  BY AnnounceAssumption
<1>2. m * step \in Nat /\ (m + 1) * step = m * step + step
  BY <1>1
<1>3. m * step <= MaxMissed * step
  <2>1. (MaxMissed - m) * step >= 0
    BY <1>1
  <2>2. QED
    BY <1>1, <2>1
<1>4. Interval + Check + MaxMissed * step + 2 * Timeout <= Lifetime
  BY AnnounceAssumption
<1>5. LongestWait(m) = Interval + Check + m * step /\ LongestWait(m + 1) = Interval + Check + (m + 1) * step
  BY DEF LongestWait
<1>6. MaxMissed * step \in Nat
  BY <1>1
<1> DEFINE a == m * step
           b == MaxMissed * step
<1>7. a \in Nat /\ b \in Nat /\ a <= b /\ LongestWait(m) = Interval + Check + a
      /\ LongestWait(m + 1) = Interval + Check + (a + step) /\ Interval + Check + b + 2 * Timeout <= Lifetime
  BY <1>2, <1>3, <1>4, <1>5, <1>6
<1> HIDE DEF a, b
<1>8. QED
  BY <1>7, AnnounceAssumption

LEMMA ListedInit == AN!Init => ListedInv
BY AnnounceAssumption
   DEF AN!Init, ListedInv, AnnouncedTypes, AN!Lists, AN!Stored, AN!Nothing, AN!NoPut, AN!known

LEMMA ListedBounded ==
  ASSUME ListedInv, AN!known(accepted)
  PROVE  accepted.age <= Lifetime /\ entry.age <= Lifetime
<1>1. missed \in 0..MaxMissed
  BY DEF ListedInv, AnnouncedTypes
<1>2. /\ LongestWait(missed) \in Nat
      /\ LongestWait(missed) + 2 * Timeout <= Lifetime
  BY <1>1, WaitGrows
<1>3. accepted.age <= LongestWait(missed) + Timeout
  BY <1>2, AnnounceAssumption DEF ListedInv, AnnouncedTypes
<1>4. QED
  BY <1>2, <1>3, AnnounceAssumption DEF ListedInv, AnnouncedTypes

LEMMA ListedNext == ListedInv /\ [AN!Next]_(AN!vars) => ListedInv'
<1>1. SUFFICES ASSUME ListedInv, [AN!Next]_(AN!vars) PROVE ListedInv'
  OBVIOUS
<1>2. AnnouncedTypes
  BY <1>1 DEF ListedInv
<1>3. /\ LongestWait(missed) \in Nat /\ Interval + Check <= LongestWait(missed)
      /\ missed < MaxMissed => LongestWait(missed + 1) = LongestWait(missed) + Timeout + Check
  BY <1>2, WaitGrows DEF AnnouncedTypes
<1>4. CASE AN!Change
  BY <1>1, <1>4 DEF AN!Change, ListedInv, AnnouncedTypes, AN!known, LongestWait
<1>5. CASE AN!Wake
  <2>1. /\ rooms' = rooms /\ accepted' = accepted /\ entry' = entry /\ astray' = astray /\ missed' = missed
        /\ checkIn' \in {Check, checkIn} /\ ~AN!known(put)
        /\ put' = IF AN!UpToDate THEN AN!NoPut ELSE [rooms |-> rooms, age |-> 0, there |-> FALSE]
    BY <1>5 DEF AN!Wake
  <2>2. AnnouncedTypes'
    BY <1>2, <2>1, AnnounceAssumption DEF AnnouncedTypes, AN!NoPut
  <2>3. CASE AN!UpToDate
    <3>1. ~AN!known(put') /\ (AN!known(accepted) => accepted.age + checkIn' <= LongestWait(missed))
      BY <1>1, <1>2, <1>3, <2>1, <2>3, AnnounceAssumption
         DEF AN!UpToDate, AN!NoPut, AN!known, AnnouncedTypes, ListedInv
    <3>2. QED
      BY <1>1, <2>1, <2>2, <3>1 DEF ListedInv, AN!known, LongestWait
  <2>4. CASE ~AN!UpToDate
    <3>1. put' = [rooms |-> rooms, age |-> 0, there |-> FALSE] /\ AN!known(put')
      BY <1>2, <2>1, <2>4 DEF AN!known, AnnouncedTypes, AN!Lists
    <3>2. AN!known(accepted) => accepted.age <= LongestWait(missed) + 0
      BY <1>1, <1>2, <1>3, <2>1 DEF ListedInv, AnnouncedTypes
    <3>3. QED
      BY <1>1, <2>1, <2>2, <3>1, <3>2 DEF ListedInv, AN!known, LongestWait
  <2>5. QED
    BY <2>3, <2>4
<1>6. CASE AN!Arrive
  <2>1. /\ rooms' = rooms /\ accepted' = accepted /\ astray' = astray /\ missed' = missed /\ checkIn' = checkIn
        /\ AN!known(put) /\ put' = [put EXCEPT !.there = TRUE] /\ entry' = AN!Stored(put.rooms)
    BY <1>6 DEF AN!Arrive
  <2>2. /\ put'.rooms = put.rooms /\ put'.age = put.age
        /\ entry'.age = 0 /\ entry'.rooms = put.rooms
    BY <1>2, <2>1 DEF AnnouncedTypes, AN!Stored
  <2>3. AnnouncedTypes'
    BY <1>2, <2>1 DEF AnnouncedTypes, AN!Stored
  <2>4. QED
    BY <1>1, <1>2, <2>1, <2>2, <2>3, AnnounceAssumption
       DEF ListedInv, AnnouncedTypes, AN!known, LongestWait
<1>7. CASE AN!Answer
  <2>1. /\ rooms' = rooms /\ entry' = entry /\ astray' = astray /\ missed' = 0 /\ checkIn' = checkIn
        /\ AN!known(put) /\ put.there /\ put' = AN!NoPut /\ accepted' = AN!Stored(put.rooms)
    BY <1>7 DEF AN!Answer
  <2>2. AnnouncedTypes'
    BY <1>2, <2>1, AnnounceAssumption DEF AnnouncedTypes, AN!Stored, AN!NoPut
  <2>3. accepted'.age = 0 /\ ~AN!known(put') /\ entry.age <= Timeout /\ AN!known(entry)
    BY <1>1, <1>2, <2>1, AnnounceAssumption
       DEF ListedInv, AnnouncedTypes, AN!Stored, AN!NoPut, AN!known
  <2>4. LongestWait(0) \in Nat /\ Interval + Check <= LongestWait(0)
    BY WaitGrows, AnnounceAssumption
  <2>5. checkIn <= LongestWait(0)
    BY <1>2, <2>4, AnnounceAssumption DEF AnnouncedTypes
  <2>6. QED
    BY <1>2, <2>1, <2>2, <2>3, <2>5, AnnounceAssumption
       DEF ListedInv, AnnouncedTypes, AN!known, LongestWait
<1>8. CASE AN!GiveUp
  <2>1. /\ rooms' = rooms /\ entry' = entry /\ accepted' = accepted /\ missed' = missed + 1 /\ checkIn' = checkIn
        /\ AN!known(put) /\ missed < MaxMissed /\ put' = AN!NoPut
        /\ astray' \in {astray, astray \cup {put.rooms}}
    BY <1>8 DEF AN!GiveUp
  <2>2. AnnouncedTypes'
    BY <1>2, <2>1, AnnounceAssumption DEF AnnouncedTypes, AN!NoPut, AN!known
  <2>3. ~AN!known(put')
    BY <2>1 DEF AN!NoPut, AN!known
  <2>4. AN!known(accepted) => accepted.age + checkIn <= LongestWait(missed + 1)
    BY <1>1, <1>2, <1>3, <2>1, AnnounceAssumption DEF ListedInv, AnnouncedTypes
  <2>5. QED
    BY <1>1, <2>1, <2>2, <2>3, <2>4 DEF ListedInv, AN!known, LongestWait
<1>9. CASE AN!ArriveLate
  <2>1. /\ rooms' = rooms /\ accepted' = accepted /\ missed' = missed /\ checkIn' = checkIn /\ put' = put
        /\ astray' \subseteq astray
    BY <1>9 DEF AN!ArriveLate, AN!loop
  <2>2. PICK list \in astray : entry' = AN!Stored(list)
    BY <1>9 DEF AN!ArriveLate
  <2>3. entry'.age = 0 /\ entry'.rooms \in AN!Lists
    BY <1>2, <2>2 DEF AnnouncedTypes, AN!Stored
  <2>4. AnnouncedTypes'
    BY <1>2, <2>1, <2>2 DEF AnnouncedTypes, AN!Stored
  <2>5. QED
    BY <1>1, <1>2, <2>1, <2>3, <2>4, AnnounceAssumption
       DEF ListedInv, AnnouncedTypes, AN!known, LongestWait, AN!Lists
<1>10. CASE AN!Second
  <2>1. /\ rooms' = rooms /\ missed' = missed /\ astray' = astray
        /\ put' = AN!Older(put) /\ accepted' = AN!Older(accepted) /\ entry' = AN!Older(entry)
        /\ IF AN!known(put) THEN put.age < Timeout ELSE checkIn > 0
        /\ checkIn' = IF checkIn > 0 THEN checkIn - 1 ELSE 0
    BY <1>10 DEF AN!Second
  <2>2. Timeout <= Lifetime /\ Timeout \in Nat /\ Lifetime \in Nat
    BY WaitGrows, AnnounceAssumption
  <2>3. put'.rooms = put.rooms /\ put'.there = put.there /\ (AN!known(put) => put'.age = put.age + 1)
        /\ put' \in [rooms : AN!Lists \cup {"none"}, age : 0..Timeout, there : BOOLEAN]
    BY <1>2, <2>1, <2>2 DEF AnnouncedTypes, AN!Older, AN!Aged, AN!MaxAge, AN!known
  <2>4. accepted'.rooms = accepted.rooms
        /\ (AN!known(accepted) => accepted'.age = accepted.age + 1)
        /\ accepted' \in [rooms : AN!Lists \cup {"none"}, age : Nat]
    BY <1>1, <1>2, <2>1, <2>2, ListedBounded
       DEF AnnouncedTypes, AN!Older, AN!Aged, AN!MaxAge, AN!known
  <2>5. entry'.rooms = entry.rooms
        /\ entry' \in [rooms : AN!Lists \cup {"none"}, age : Nat]
        /\ (AN!known(entry) => entry'.age <= entry.age + 1)
    BY <1>2, <2>1, <2>2 DEF AnnouncedTypes, AN!Older, AN!Aged, AN!MaxAge, AN!known
  <2>6. AnnouncedTypes'
    BY <1>2, <2>1, <2>3, <2>4, <2>5, AnnounceAssumption DEF AnnouncedTypes
  <2>7. AN!known(put)' = AN!known(put) /\ AN!known(accepted)' = AN!known(accepted) /\ AN!known(entry)' = AN!known(entry)
    BY <2>3, <2>4, <2>5 DEF AN!known
  <2>8. (AN!known(put) /\ put.there) => AN!known(entry) /\ entry'.age <= put'.age
    BY <1>1, <1>2, <2>3, <2>5, AnnounceAssumption DEF ListedInv, AnnouncedTypes
  <2>9. ASSUME AN!known(accepted)
        PROVE  /\ AN!known(entry) /\ entry'.age <= accepted'.age + Timeout
               /\ AN!known(put) => accepted'.age <= LongestWait(missed) + put'.age
               /\ ~AN!known(put) => accepted'.age + checkIn' <= LongestWait(missed)
    <3>1. AN!known(entry) /\ entry'.age <= accepted'.age + Timeout
      BY <1>1, <1>2, <2>2, <2>4, <2>5, <2>9 DEF ListedInv, AnnouncedTypes
    <3>2. AN!known(put) => accepted'.age <= LongestWait(missed) + put'.age
      BY <1>1, <1>2, <1>3, <2>3, <2>4, <2>9, AnnounceAssumption DEF ListedInv, AnnouncedTypes
    <3>3. ~AN!known(put) => accepted'.age + checkIn' <= LongestWait(missed)
      BY <1>1, <1>2, <1>3, <2>1, <2>4, <2>9, AnnounceAssumption DEF ListedInv, AnnouncedTypes
    <3>4. QED
      BY <3>1, <3>2, <3>3
  <2>10. QED
    BY <2>1, <2>3, <2>6, <2>7, <2>8, <2>9 DEF ListedInv, LongestWait
<1>11. CASE UNCHANGED AN!vars
  BY <1>1, <1>11 DEF AN!vars, AN!loop, ListedInv, AnnouncedTypes, AN!known, LongestWait
<1>12. QED
  BY <1>1, <1>4, <1>5, <1>6, <1>7, <1>8, <1>9, <1>10, <1>11 DEF AN!Next

\* A server that is up never drops out of the directory, as long as no more
\* than MaxMissed announcements go missing in a row.
THEOREM StaysListed == AN!Spec => []ServerStaysListed
<1>1. ListedInv => ServerStaysListed
  BY ListedBounded DEF ListedInv, AN!known, ServerStaysListed, known
<1>2. QED
  BY <1>1, ListedInit, ListedNext, PTL DEF AN!Spec
-----------------------------------------------------------------------------
(* The list catches up.                                                    *)

\* How long things have been steady while the row is not what the server
\* lists: an announcement of other rooms began after the last change; one that
\* was answered leaves at most its timeout on the clock; and the loop announces
\* again an interval and a check after that.
BehindInv ==
  /\ steady \in Nat
  /\ AN!known(put) /\ put.rooms # rooms => steady <= put.age
  /\ AN!known(put) /\ put.there /\ entry.rooms # rooms => steady <= put.age
  /\ AN!known(put) /\ ~put.there /\ entry.rooms # rooms =>
       steady <= Interval + Check + Timeout + put.age
  /\ ~AN!known(put) /\ entry.rooms # rooms =>
       /\ steady <= Timeout + Interval + Check - checkIn
       /\ AN!known(accepted) /\ accepted.rooms = rooms => steady <= Timeout + accepted.age

CatchInv == ListedInv /\ BehindInv

LEMMA BehindInit == AN!Init => BehindInv
BY AnnounceAssumption DEF AN!Init, BehindInv, AN!Stored, AN!Nothing, AN!NoPut, AN!known

LEMMA BehindNext ==
  ASSUME ListedInv, BehindInv, [AN!Next]_(AN!vars)
  PROVE  BehindInv'
<1>1. AnnouncedTypes
  BY DEF ListedInv
<1>2. /\ rooms \in AN!Lists /\ checkIn \in 0..Check /\ steady \in Nat
      /\ put.age \in 0..Timeout /\ put.there \in BOOLEAN
      /\ accepted.age \in Nat
  BY <1>1 DEF AnnouncedTypes, BehindInv
<1>3. /\ Check \in Nat \ {0} /\ Interval \in Nat \ {0} /\ Timeout \in Nat \ {0}
      /\ Lifetime \in Nat
  BY AnnounceAssumption
<1>4. CASE steady' = 0 /\ put'.age \in 0..Timeout /\ checkIn' \in 0..Check /\ accepted'.age \in Nat
  <2>1. put'.age \in Nat /\ accepted'.age \in Nat /\ checkIn' \in 0..Check
    BY <1>3, <1>4
  <2>2. Check \in Nat /\ Interval \in Nat /\ Timeout \in Nat
    BY <1>3
  <2>3. 0 <= put'.age /\ 0 <= Interval + Check + Timeout + put'.age
    BY <2>1, <2>2
  <2>4. 0 <= Timeout + Interval + Check - checkIn'
    <3>1. \A c \in 0..Check : 0 <= Timeout + Interval + Check - c
      BY <2>2
    <3>2. QED
      BY <2>1, <3>1
  <2>5. 0 <= Timeout + accepted'.age
    BY <2>1, <2>2
  <2>6. QED
    BY <1>4, <2>3, <2>4, <2>5 DEF BehindInv
<1>5. CASE AN!Change \/ AN!GiveUp \/ AN!ArriveLate
  <2>1. steady' = 0 /\ checkIn' = checkIn /\ accepted' = accepted /\ put' \in {put, AN!NoPut}
    BY <1>5 DEF AN!Change, AN!GiveUp, AN!ArriveLate, AN!loop
  <2>2. put'.age \in 0..Timeout
    BY <1>2, <1>3, <2>1 DEF AN!NoPut
  <2>3. QED
    BY <1>2, <1>4, <2>1, <2>2
<1>6. CASE AN!Wake
  <2>1. /\ rooms' = rooms /\ accepted' = accepted /\ entry' = entry /\ steady' = steady
        /\ checkIn' \in {Check, checkIn} /\ ~AN!known(put)
        /\ checkIn' = Check \/ checkIn' = checkIn
        /\ put' = IF AN!UpToDate THEN AN!NoPut ELSE [rooms |-> rooms, age |-> 0, there |-> FALSE]
    BY <1>6 DEF AN!Wake
  <2>2. CASE AN!UpToDate
    <3>1. ~AN!known(put')
      BY <2>1, <2>2 DEF AN!NoPut, AN!known
    <3>2. AN!known(accepted) /\ accepted.rooms = rooms /\ accepted.age < Interval
      BY <2>2 DEF AN!UpToDate
    <3>3. entry.rooms # rooms =>
            /\ steady <= Timeout + accepted.age
            /\ steady <= Timeout + Interval + Check - checkIn'
      <4>1. entry.rooms # rooms =>
              /\ steady <= Timeout + accepted.age
              /\ steady <= Timeout + Interval + Check - checkIn
        BY <2>1, <3>2 DEF BehindInv
      <4>2. entry.rooms # rooms => steady <= Timeout + Interval + Check - Check
        BY <1>2, <1>3, <3>2, <4>1
      <4>3. QED
        BY <2>1, <4>1, <4>2
    <3>4. QED
      BY <1>2, <2>1, <3>1, <3>3 DEF BehindInv
  <2>3. CASE ~AN!UpToDate
    <3>1. put'.rooms = rooms /\ put'.age = 0 /\ put'.there = FALSE /\ AN!known(put')
      BY <1>2, <2>1, <2>3 DEF AN!known, AN!Lists
    <3>2. entry.rooms # rooms => steady <= Interval + Check + Timeout
      BY <1>2, <1>3, <2>1 DEF BehindInv
    <3>3. entry'.rooms # rooms' => steady' <= Interval + Check + Timeout + put'.age
      BY <1>2, <1>3, <2>1, <3>1, <3>2
    <3>4. QED
      BY <1>2, <2>1, <3>1, <3>3 DEF BehindInv
  <2>4. QED
    BY <2>2, <2>3
<1>7. CASE AN!Arrive
  <2>1. /\ rooms' = rooms /\ steady' = steady /\ AN!known(put) /\ ~put.there
        /\ put' = [put EXCEPT !.there = TRUE] /\ entry' = AN!Stored(put.rooms)
    BY <1>7 DEF AN!Arrive
  <2>2. put'.rooms = put.rooms /\ put'.age = put.age /\ put'.there = TRUE
        /\ entry'.rooms = put.rooms
    BY <1>1, <2>1 DEF AnnouncedTypes, AN!Stored
  <2>3. QED
    BY <1>2, <1>3, <2>1, <2>2 DEF BehindInv, AN!known
<1>8. CASE AN!Answer
  <2>1. /\ rooms' = rooms /\ entry' = entry /\ checkIn' = checkIn /\ steady' = steady
        /\ AN!known(put) /\ put.there /\ put' = AN!NoPut /\ accepted' = AN!Stored(put.rooms)
    BY <1>8 DEF AN!Answer
  <2>2. ~AN!known(put') /\ accepted'.age = 0
    BY <2>1 DEF AN!NoPut, AN!Stored, AN!known
  <2>3. entry.rooms # rooms => steady <= Timeout
    BY <1>2, <1>3, <2>1 DEF BehindInv
  <2>4. QED
    BY <1>2, <1>3, <2>1, <2>2, <2>3 DEF BehindInv, AN!known
<1>9. CASE AN!Second
  <2>1. /\ rooms' = rooms
        /\ put' = AN!Older(put) /\ accepted' = AN!Older(accepted) /\ entry' = AN!Older(entry)
        /\ IF AN!known(put) THEN put.age < Timeout ELSE checkIn > 0
        /\ checkIn' = IF checkIn > 0 THEN checkIn - 1 ELSE 0
        /\ steady' = AN!Aged(steady)
    BY <1>9 DEF AN!Second
  <2>2. Timeout <= Lifetime
    BY WaitGrows, AnnounceAssumption
  <2>3. steady' \in Nat /\ steady' <= steady + 1
    BY <1>2, <1>3, <2>1 DEF AN!Aged, AN!MaxAge
  <2>4. put'.rooms = put.rooms /\ put'.there = put.there
        /\ (AN!known(put) => put'.age = put.age + 1)
    BY <1>1, <1>2, <1>3, <2>1, <2>2 DEF AnnouncedTypes, AN!Older, AN!Aged, AN!MaxAge, AN!known
  <2>5. accepted'.rooms = accepted.rooms
        /\ (AN!known(accepted) => accepted'.age = accepted.age + 1)
    BY <1>1, <1>2, <1>3, <2>1, ListedBounded
       DEF AnnouncedTypes, AN!Older, AN!Aged, AN!MaxAge, AN!known
  <2>6. entry'.rooms = entry.rooms
    BY <1>1, <2>1 DEF AnnouncedTypes, AN!Older, AN!known
  <2>7. AN!known(put)' = AN!known(put) /\ AN!known(accepted)' = AN!known(accepted)
    BY <2>4, <2>5 DEF AN!known
  <2>8. ~AN!known(put) => checkIn' = checkIn - 1
    BY <1>2, <2>1
  <2>9. QED
    BY <1>2, <1>3, <2>1, <2>3, <2>4, <2>5, <2>6, <2>7, <2>8 DEF BehindInv
<1>10. CASE UNCHANGED AN!vars
  BY <1>10 DEF AN!vars, AN!loop, BehindInv, AN!known
<1>11. QED
  BY <1>5, <1>6, <1>7, <1>8, <1>9, <1>10 DEF AN!Next

\* Whatever was lost, or arrived late and out of order, the directory lists
\* the rooms of the server once things have been steady for an interval, a
\* check and two timeouts.
THEOREM CatchesUp == AN!Spec => []ListingCatchesUp
<1>1. AN!Init => CatchInv
  BY ListedInit, BehindInit DEF CatchInv
<1>2. CatchInv /\ [AN!Next]_(AN!vars) => CatchInv'
  BY ListedNext, BehindNext DEF CatchInv
<1>3. CatchInv => ListingCatchesUp
  BY AnnounceAssumption DEF CatchInv, ListedInv, AnnouncedTypes, BehindInv, ListingCatchesUp
<1>4. QED
  BY <1>1, <1>2, <1>3, PTL DEF AN!Spec
=============================================================================
