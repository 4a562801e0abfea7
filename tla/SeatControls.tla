---------------------------- MODULE SeatControls ----------------------------
(***************************************************************************)
(* The controls of one player's seat in a round                            *)
(* (core/src/net/player_controls.rs): inputs travel to the host, wait for  *)
(* their tick, drive the seat's tank while their lease lasts, and die with *)
(* the control epoch they were sent under.  The tank dies and respawns in  *)
(* the simulation; a silent, hidden or disconnected player's tank goes to  *)
(* a bot that stands in, and comes back with the player.                   *)
(*                                                                         *)
(* Time is counted in ticks.  The host steps the ticks it owes in batches, *)
(* as late as it likes; the tick an input is stamped with is then the one  *)
(* after the time it arrives (FixedStepClock).  Messages travel in order   *)
(* and are lost with their connection.                                     *)
(***************************************************************************)
EXTENDS Integers, Sequences, SequencesExt

CONSTANTS
  Lease,         \* INPUT_LEASE_MS, in ticks
  BotTakeover,   \* BOT_TAKEOVER_MS, in ticks
  MaxActions,    \* MAX_QUEUED_ACTIONS
  MaxWaiting,    \* MAX_WAITING_INPUTS
  MaxLag,        \* MAX_INPUT_LAG_TICKS
  MaxLead,       \* MAX_INPUT_LEAD_TICKS
  MaxSteps,      \* MAX_STEPS_PER_BATCH
  MaxOwed,       \* ticks the host may owe before the room ends (MAX_TICK_DEBT_MS)
  RetryAfter,    \* RESUME_RETRY_MS, in ticks
  HumansOnly,    \* the room has no bots: nobody stands in for its players
  Pilot,         \* the seat is a pilot's: its tank shows a bot's name from the start
  Presses,       \* what an input may carry: "none", a press of "fire", an "action"
  Leads,         \* bound: how far ahead of its last tick the client's inputs ask to start
  MaxTime,       \* bound: the ticks the model runs for
  MaxInputs,     \* bound: inputs the player sends
  MaxDeaths,     \* bound: deaths of the tank
  MaxAway        \* bound: times the player hides or disconnects

ASSUME ConstantsAssumption ==
  /\ Lease \in Nat \ {0} /\ BotTakeover \in Nat /\ Lease <= BotTakeover
  /\ MaxActions \in Nat /\ MaxWaiting \in Nat
  /\ MaxLag \in Nat /\ MaxLead \in Nat
  /\ MaxSteps \in Nat \ {0} /\ MaxOwed \in Nat
  /\ RetryAfter \in Nat /\ RetryAfter < BotTakeover
  /\ HumansOnly \in BOOLEAN /\ Pilot \in BOOLEAN
  /\ Presses \subseteq {"none", "fire", "action"} /\ Leads \subseteq Nat \ {0}
  /\ MaxTime \in Nat /\ MaxInputs \in Nat /\ MaxDeaths \in Nat /\ MaxAway \in Nat

VARIABLES
  now,       \* the time, in ticks
  tick,      \* the last tick stepped
  left,      \* ticks the running callback still steps; Idle between callbacks
  tank,      \* the seat's tank in the simulation
  seat,      \* PlayerControls
  linked,    \* the seat has a connection
  announced, \* control_key: what this connection was last told
  inbox,     \* messages on their way to the host
  told,      \* control messages on their way to the client
  client,    \* the player's client
  command,   \* what the seat's controls did in the last tick
  performed, \* auxiliary: the input whose action was performed last
  deaths,    \* auxiliary: deaths so far
  absences   \* auxiliary: times the player hid or lost its connection so far

clock == <<now, tick, left>>
host == <<tank, seat, linked, announced>>
links == <<inbox, told>>
history == <<command, performed, deaths, absences>>
vars == <<clock, host, links, client, history>>

Idle == -1
None == [none |-> TRUE]

Smaller(a, b) == IF a < b THEN a ELSE b
Larger(a, b) == IF a > b THEN a ELSE b

-----------------------------------------------------------------------------
(* The tank.                                                               *)

\* away: a stand-in has the player's tank (away_player); bot: the tank shows a
\* bot's name, a pilot's from the start.
NewTank == [life |-> 1, alive |-> TRUE, driver |-> "human", away |-> FALSE, bot |-> Pilot]

\* set_driver: a player's tank starts a life of its own whenever it changes
\* hands; a pilot's only changes its driver.
Driven(t, driver) ==
  IF driver = "bot" /\ ~t.bot
    THEN [t EXCEPT !.driver = driver, !.away = TRUE, !.bot = TRUE, !.life = @ + 1]
  ELSE IF driver # "bot" /\ t.away
    THEN [t EXCEPT !.driver = driver, !.away = FALSE, !.bot = FALSE, !.life = @ + 1]
  ELSE [t EXCEPT !.driver = driver]

\* What stands in for a player who is not there.
StandIn == IF HumansOnly THEN "idle" ELSE "bot"

\* What a tick of the simulation may do to the tank: nothing, kill it, or
\* bring it back.
Simulated(t) ==
  {t} \cup (IF t.alive THEN {[t EXCEPT !.alive = FALSE, !.life = @ + 1]}
                       ELSE {[t EXCEPT !.alive = TRUE]})

-----------------------------------------------------------------------------
(* The seat.                                                               *)

NoAck == [seq |-> 0, applied |-> 0, arrival |-> 0]

\* (Mutant: inputs that wait for their tick survive into the next epoch.)
NewEpochKeepsWaiting(s) ==
  [s EXCEPT !.epoch = @ + 1, !.input = None, !.actions = <<>>, !.lastSeq = 0, !.ack = NoAck]

NewEpoch(s) ==
  [s EXCEPT !.epoch = @ + 1, !.input = None, !.waiting = <<>>, !.actions = <<>>,
            !.lastSeq = 0, !.ack = NoAck]

TakesLife(s, t) == [s EXCEPT !.life = t.life, !.alive = t.alive]

\* refresh_life: a death or a respawn starts a new epoch.
Refreshed(s, t) ==
  IF s.life = t.life /\ s.alive = t.alive THEN s ELSE NewEpoch(TakesLife(s, t))

\* suspend: the tank and the seat after it.
SuspendedTank(s, t) == IF s.suspended THEN t ELSE Driven(t, StandIn)

\* (Mutant: the stand-in drives under the player's epoch.)
SuspendedInEpoch(s, t) ==
  IF s.suspended THEN s
  ELSE TakesLife([s EXCEPT !.suspended = TRUE], SuspendedTank(s, t))

Suspended(s, t) ==
  IF s.suspended THEN s
  ELSE NewEpoch(TakesLife([s EXCEPT !.suspended = TRUE], SuspendedTank(s, t)))

\* resume: the tank and the seat after it.
ResumedTank(t) == Driven(t, "human")

Resumed(s, t) ==
  NewEpoch(TakesLife([s EXCEPT !.suspended = FALSE, !.received = now, !.leaseFrom = now],
                     ResumedTank(t)))

\* expire_actions
Unexpired(s) == [s EXCEPT !.actions = SelectSeq(@, LAMBDA a : now - a.received < Lease)]

\* The actions queued, those of waiting inputs included.
Queued(s) == FoldSeq(LAMBDA w, n : n + Len(w.actions), Len(s.actions), s.waiting)

NewSeat(t) ==
  [epoch |-> 1, life |-> t.life, alive |-> t.alive, suspended |-> FALSE,
   input |-> None, arrival |-> 0, waiting |-> <<>>, lastSeq |-> 0,
   received |-> now, leaseFrom |-> now, actions |-> <<>>, ack |-> NoAck]

-----------------------------------------------------------------------------
(* What the client is told.                                                *)

ControlOf(s, t) == [epoch |-> s.epoch, life |-> t.life, driver |-> t.driver]

\* (Mutant: only a change of driver is announced.)
AnnounceDriver(s, t) ==
  LET control == ControlOf(s, t) IN
  IF linked /\ announced.driver # control.driver
    THEN announced' = control /\ told' = IF client.connected THEN Append(told, control) ELSE told
    ELSE UNCHANGED <<announced, told>>

\* send_control: a connection is told what it was not told last.
Announce(s, t) ==
  LET control == ControlOf(s, t) IN
  IF linked /\ announced # control
    THEN announced' = control /\ told' = IF client.connected THEN Append(told, control) ELSE told
    ELSE UNCHANGED <<announced, told>>

-----------------------------------------------------------------------------
Init ==
  /\ now = 0 /\ tick = 0 /\ left = Idle
  /\ tank = NewTank
  /\ seat = NewSeat(tank)
  /\ linked = TRUE
  /\ announced = ControlOf(seat, tank)
  /\ inbox = <<>> /\ told = <<>>
  /\ client = [connected |-> TRUE, hidden |-> FALSE, seq |-> 0, control |-> announced,
               asked |-> 0]
  /\ command = None /\ performed = 0 /\ deaths = 0 /\ absences = 0

-----------------------------------------------------------------------------
(* The client.                                                             *)

Drives == client.connected /\ ~client.hidden /\ client.control # None /\ client.control.driver = "human"

\* collect: what is held, the action clicked since the last input, and the
\* tick the client predicts it from.  The life is the one the client means.
SendInput ==
  /\ Drives /\ client.seq < MaxInputs
  /\ \E press \in Presses, asked \in {0} \cup {tick + lead : lead \in Leads} :
       LET seq == client.seq + 1 IN
       /\ inbox' = Append(inbox,
            [type |-> "input", epoch |-> client.control.epoch, seq |-> seq, observed |-> tick,
             asked |-> asked, fire |-> press = "fire",
             actions |-> IF press = "action" THEN <<seq>> ELSE <<>>,
             life |-> client.control.life])
       /\ client' = [client EXCEPT !.seq = seq]
  /\ UNCHANGED <<clock, host, told, history>>

\* The client hears who drives its tank.  While it is shown it asks for a tank
\* that somebody else has, unless it just did.
HearControl ==
  /\ told # <<>>
  /\ told' = Tail(told)
  /\ LET control == Head(told)
         asks == control.driver # "human" /\ ~client.hidden /\ now - client.asked > RetryAfter IN
       /\ client' = [client EXCEPT !.control = control, !.asked = IF asks THEN now ELSE @]
       /\ inbox' = IF asks THEN Append(inbox, [type |-> "resume"]) ELSE inbox
  /\ UNCHANGED <<clock, host, history>>

\* set_hidden
Hide ==
  /\ client.connected /\ ~client.hidden /\ absences < MaxAway
  /\ client' = [client EXCEPT !.hidden = TRUE]
  /\ inbox' = Append(inbox, [type |-> "suspend"])
  /\ absences' = absences + 1
  /\ UNCHANGED <<clock, host, told, command, performed, deaths>>

Show ==
  /\ client.connected /\ client.hidden
  /\ client' = [client EXCEPT !.hidden = FALSE, !.asked = now]
  /\ inbox' = Append(inbox, [type |-> "resume"])
  /\ UNCHANGED <<clock, host, told, history>>

\* The client loses its connection; what was on its way to it is lost.
LoseLink ==
  /\ client.connected /\ absences < MaxAway
  /\ client' = [client EXCEPT !.connected = FALSE, !.control = None]
  /\ absences' = absences + 1
  /\ told' = <<>>
  /\ UNCHANGED <<clock, host, inbox, command, performed, deaths>>

-----------------------------------------------------------------------------
(* The host between its callbacks.                                         *)

\* The tick the host's clock gives a message that arrives now.
ArrivalTick == now + 1

\* When an input starts: when it asks to, but never before it arrived, nor
\* too far ahead, nor before the input queued in front of it.
StartTick(s, input) ==
  LET wanted == IF input.asked = 0 THEN ArrivalTick ELSE input.asked
      clamped == Larger(ArrivalTick, Smaller(wanted, ArrivalTick + MaxLead)) IN
  IF s.waiting = <<>> THEN clamped ELSE Larger(clamped, Last(s.waiting).tick)

\* accept_input_at takes an input of this epoch, newer than the last and not
\* too late, that fits in the queues.
Acceptable(s, t, input) ==
  /\ ~s.suspended /\ t.alive /\ t.driver = "human"
  /\ input.epoch = s.epoch /\ input.seq > s.lastSeq
  /\ tick - input.observed <= MaxLag
  /\ Queued(s) + Len(input.actions) <= MaxActions
  /\ Len(s.waiting) < MaxWaiting

Accepted(s, input) ==
  [s EXCEPT !.lastSeq = input.seq, !.received = now, !.leaseFrom = now,
            !.waiting = Append(@, [tick |-> StartTick(s, input), arrival |-> ArrivalTick,
                                   received |-> now, seq |-> input.seq, fire |-> input.fire,
                                   actions |-> input.actions, life |-> input.life,
                                   asked |-> input.asked])]

\* The next message of the seat's connection.  (An input past the rate limit
\* is refused like any other.)
Receive ==
  /\ linked /\ left = Idle /\ inbox # <<>>
  /\ inbox' = Tail(inbox)
  /\ LET message == Head(inbox)
         s == Refreshed(seat, tank) IN
       \/ /\ message.type = "input"
          /\ seat' = IF Acceptable(Unexpired(s), tank, message)
                       THEN Accepted(Unexpired(s), message) ELSE Unexpired(s)
          /\ UNCHANGED <<tank, announced, told>>
       \/ /\ message.type = "suspend"
          /\ tank' = SuspendedTank(seat, tank)
          /\ seat' = Suspended(seat, tank)
          /\ Announce(seat', tank')
       \/ /\ message.type = "resume"
          /\ tank' = ResumedTank(tank)
          /\ seat' = Resumed(seat, tank)
          /\ Announce(seat', tank')
  /\ UNCHANGED <<clock, linked, client, history>>

\* The host hears that the connection is gone (disconnect).
LinkLost ==
  /\ linked /\ left = Idle /\ ~client.connected
  /\ linked' = FALSE
  /\ inbox' = <<>>
  /\ tank' = SuspendedTank(seat, tank)
  /\ seat' = Suspended(seat, tank)
  /\ UNCHANGED <<clock, announced, told, client, history>>

\* The player joins again on a new connection, which takes the seat over if
\* the host has not missed the old one yet.
Rejoin ==
  /\ left = Idle /\ ~client.connected
  /\ linked' = TRUE
  /\ inbox' = <<>>
  /\ tank' = ResumedTank(tank)
  /\ seat' = Resumed(seat, tank)
  /\ announced' = ControlOf(seat', tank')
  /\ told' = <<announced'>>
  /\ client' = [client EXCEPT !.connected = TRUE]
  /\ UNCHANGED <<clock, history>>

-----------------------------------------------------------------------------
(* The host's callback steps the ticks it owes.                            *)

Begin ==
  /\ left = Idle
  /\ left' = Smaller(now - tick, MaxSteps)
  /\ UNCHANGED <<now, tick, host, links, client, history>>

\* How many of the waiting inputs are due by tick n: those in front of the
\* first that is not.
DueCount(waiting, n) ==
  CHOOSE k \in 0..Len(waiting) :
    /\ \A j \in 1..k : waiting[j].tick <= n
    /\ k < Len(waiting) => waiting[k + 1].tick > n

\* The actions of inputs that take over, each with the time it was received.
ActionsOf(inputs) ==
  FoldLeft(LAMBDA all, w : all \o [k \in DOMAIN w.actions |-> [seq |-> w.actions[k], received |-> w.received]],
           <<>>, inputs)

\* When inputs that take over start the lease: one that had to wait keeps its
\* whole lease for its start.
LeaseStart(from, inputs) ==
  Max({from} \cup {w.received + w.tick - w.arrival : w \in Range(inputs)})

\* (Mutant: an input starts its lease when it takes over, however late the host
\* is.)
TakenOverLate(s, n) ==
  LET k == DueCount(s.waiting, n) IN
  IF k = 0 THEN s
  ELSE [s EXCEPT !.waiting = SubSeq(@, k + 1, Len(@)), !.input = s.waiting[k],
                 !.arrival = s.waiting[k].arrival, !.leaseFrom = now,
                 !.actions = @ \o ActionsOf(SubSeq(s.waiting, 1, k))]

\* The inputs due by tick n take over, the newest last; the actions of all of
\* them are queued.
TakenOver(s, n) ==
  LET k == DueCount(s.waiting, n)
      due == SubSeq(s.waiting, 1, k) IN
  IF k = 0 THEN s
  ELSE [s EXCEPT !.waiting = SubSeq(@, k + 1, Len(@)), !.input = s.waiting[k],
                 !.arrival = s.waiting[k].arrival, !.leaseFrom = LeaseStart(@, due),
                 !.actions = @ \o ActionsOf(due)]

\* (Mutant: only the newest of the inputs due in a tick fires.)
FiresNewest(s, n) == s.input.fire

\* A press of fire that was overtaken in this very tick still fires.
Fires(s, n) ==
  \/ s.input.fire
  \/ \E k \in 1..Len(seat.waiting) : seat.waiting[k].tick <= n /\ seat.waiting[k].fire

Leased(s) == s.input # None /\ now - s.leaseFrom < Lease

\* What a leased input does to the seat: it is acknowledged in the tick it
\* takes over, and one action is performed.
Drive(s, n) ==
  [s EXCEPT !.ack = IF @.seq # s.input.seq
                      THEN [seq |-> s.input.seq, applied |-> n, arrival |-> s.arrival] ELSE @,
            !.actions = IF @ = <<>> THEN @ ELSE Tail(@)]

Held(s, t, n) ==
  [seq |-> s.input.seq, meant |-> s.input.life, asked |-> s.input.asked, arrival |-> s.arrival,
   fires |-> Fires(s, n), tick |-> n, life |-> t.life, driver |-> t.driver, alive |-> t.alive,
   action |-> IF s.actions = <<>> THEN 0 ELSE Head(s.actions).seq]

\* command, then one step of the simulation.
StepTick ==
  /\ left > 0
  /\ left' = left - 1
  /\ tick' = tick + 1
  /\ LET fresh == Refreshed(seat, tank)
         silent == ~fresh.suspended /\ now - fresh.received >= BotTakeover
         s == IF silent THEN Suspended(fresh, tank) ELSE fresh
         t == IF silent THEN SuspendedTank(fresh, tank) ELSE tank
         due == Unexpired(TakenOver(s, tick')) IN
       /\ tank' \in Simulated(t)
       /\ deaths' = deaths + (IF t.alive /\ ~tank'.alive THEN 1 ELSE 0) /\ deaths' <= MaxDeaths
       /\ \/ /\ s.suspended \/ t.driver = "bot" \/ ~t.alive
             /\ seat' = s /\ command' = None /\ UNCHANGED performed
          \/ /\ ~s.suspended /\ t.driver # "bot" /\ t.alive /\ ~Leased(due)
             /\ seat' = [due EXCEPT !.actions = <<>>]
             /\ command' = None /\ UNCHANGED performed
          \/ /\ ~s.suspended /\ t.driver # "bot" /\ t.alive /\ Leased(due)
             /\ seat' = Drive(due, tick')
             /\ command' = Held(due, t, tick')
             /\ performed' = Larger(performed, command'.action)
  /\ UNCHANGED <<now, linked, announced, links, client, absences>>

\* The callback ends: deaths and respawns of its ticks are announced.
End ==
  /\ left = 0
  /\ left' = Idle
  /\ seat' = Refreshed(seat, tank)
  /\ Announce(seat', tank)
  /\ command' = None
  /\ UNCHANGED <<now, tick, tank, linked, inbox, client, performed, deaths, absences>>

\* Time passes while the host waits for its next callback.
Pass ==
  /\ left = Idle /\ now < MaxTime /\ now - tick < MaxOwed
  /\ now' = now + 1
  /\ UNCHANGED <<tick, left, host, links, client, history>>

Next ==
  \/ SendInput \/ HearControl \/ Hide \/ Show \/ LoseLink
  \/ Receive \/ LinkLost \/ Rejoin
  \/ Begin \/ StepTick \/ End \/ Pass

Spec == Init /\ [][Next]_vars

\* The room's timer keeps calling the host, which takes its messages between
\* two calls (the timer is armed a millisecond ahead at least); messages
\* arrive, and a player that lost the connection comes back.
FairSpec ==
  /\ Spec
  /\ WF_vars(HearControl) /\ SF_vars(Receive) /\ SF_vars(LinkLost) /\ SF_vars(Rejoin)
  /\ WF_vars(StepTick) /\ WF_vars(End) /\ WF_vars(Begin)
=============================================================================
