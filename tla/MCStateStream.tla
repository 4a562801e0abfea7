-------------------------- MODULE MCStateStream -----------------------------
(* Instances of StateStream for TLC.  One client plays over MaxRounds       *)
(* rounds and makes MaxMoves moves.  The others may come in the first battle *)
(* if nobody has moved; then nobody moves and the battle goes on.            *)
EXTENDS StateStreamProperties

CONSTANTS First  \* the client that plays alone unless others come early

Bounded ==
  (\E c \in Clients \ {First} : pages[c] # NewPage) => room.round = 1 /\ room.phase = "playing" /\ moves = 0

MCNext == Next /\ Bounded'

MCSpec == Init /\ [][MCNext]_vars /\ Fairness
=============================================================================
