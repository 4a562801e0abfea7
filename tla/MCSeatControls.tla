--------------------------- MODULE MCSeatControls ---------------------------
(* Instances of SeatControls for TLC.                                      *)
EXTENDS SeatControlsProperties
=============================================================================
