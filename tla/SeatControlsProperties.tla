----------------------- MODULE SeatControlsProperties -----------------------
(***************************************************************************)
(* What the controls of a seat promise.                                    *)
(***************************************************************************)
EXTENDS SeatControls

\* An input never moves a tank that is dead, that somebody else drives, or
\* that lives another life than the one the player meant, however late it
\* arrives and however often the tank changed hands since (control_epoch).
InputsDriveTheirLife ==
  command # None => command.alive /\ command.driver = "human" /\ command.life = command.meant

\* An input drives the ticks of its time: none before the first it could have
\* driven when it arrived, none before the one it asked for unless that was too
\* far ahead, and none after the lease of a player who has fallen silent.
InputsKeepTheirTime ==
  command # None =>
    /\ command.tick >= command.arrival
    /\ command.tick >= Smaller(command.asked, command.arrival + MaxLead)
    /\ now < seat.received + Lease + MaxLead

\* A press of fire counts although a newer input is due in the same tick:
\* whatever is taken from the queue while the tank is driven has fired.
PressesFire ==
  [][ (command' # None /\ left' # left)
        => \A k \in 1..Len(seat.waiting) :
             (seat.waiting[k].fire /\ seat.waiting[k].tick <= tick') => command'.fires ]_vars

\* Between callbacks a connected player has been told which life of the tank
\* is to be driven by whom.
PlayerKnowsDriver ==
  (left = Idle /\ linked) => announced = ControlOf(seat, tank)

\* An epoch never meant anything else: one life, one driver.
EpochsAreUnambiguous ==
  [][announced'.epoch = announced.epoch => announced' = announced]_vars
=============================================================================
