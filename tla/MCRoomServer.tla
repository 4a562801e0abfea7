---------------------------- MODULE MCRoomServer -----------------------------
(* Instances of RoomServer for TLC.                                        *)
EXTENDS RoomServerProperties, TLC

Interchangeable == Permutations(Socket) \cup Permutations(Code)
=============================================================================
