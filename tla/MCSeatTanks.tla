---------------------------- MODULE MCSeatTanks ----------------------------
(* Instances of SeatTanks for TLC: slots 1 and 3 are blue, 2 is red.       *)
EXTENDS SeatTanksProperties, TLC

Symmetry == Permutations(Players)

TwoSlots == 1..2
TwoTeams == [s \in 1..2 |-> s % 2]
=============================================================================
