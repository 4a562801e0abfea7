------------------------ MODULE SeatTanksProperties ------------------------
(***************************************************************************)
(* What the score of a round and the tanks of its seats promise.           *)
(***************************************************************************)
EXTENDS SeatTanks

\* Nobody is credited for a life somebody else drove: not for a stand-in's, a
\* fill bot's, or that of the slot's former or next player.
OwnersDrove ==
  \A k \in DOMAIN owners : owners[k] = drivers[k[1]][k[2]]

\* The scoreboard has the kills a player made, also those of shells that
\* landed after the player died, went away or left.  Only a kill in the very
\* first tick after a player took the tank back may be missing.
KillsAreCredited ==
  \A p \in DOMAIN participants :
    participants[p].kills \in earned[p].sure..earned[p].kills

\* Everybody seated in a round is on its scoreboard, with the seat's score,
\* and in play the tank shows that score unless a stand-in drives it.
ScoreIsShown ==
  \A p \in Seated :
    /\ Built => (p \in DOMAIN participants /\ participants[p] = ScoreOf(seats[p]))
    /\ (phase = "playing" /\ ~seats[p].away) => ScoreOf(tanks[seats[p].tank]) = ScoreOf(seats[p])

\* "controls drive a player tank" (PlayerControls::resume expects it): no
\* player who comes back finds a tank that is no player's.
ControlsDriveAPlayersTank == phase # "failed"
=============================================================================
