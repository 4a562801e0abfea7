----------------------------- MODULE MCMatchHost -----------------------------
(* Instances of MatchHost for TLC.                                         *)
EXTENDS MatchHostProperties, TLC

Connections == Permutations(Conn)
=============================================================================
