--------------------------- MODULE MCRoomReturns ---------------------------
(* Instances of RoomReturns for TLC.                                       *)
EXTENDS RoomReturnsProperties
=============================================================================
