----------------------- MODULE StateStreamProperties -----------------------
(***************************************************************************)
(* What a room's state stream promises.                                    *)
(***************************************************************************)
EXTENDS StateStream

\* The detailed stream implements FollowedStream: whatever is lost, late or
\* skipped, a mirror shows what was published under its number, and never goes
\* back.
Followed == INSTANCE FollowedStream WITH
  views <- [c \in Clients |-> [round |-> pages[c].mirrored, seq |-> pages[c].seq, scene |-> pages[c].scene]]
FollowsTheRoom == Followed!Spec

\* Between callbacks of a battle, with nothing left to send, whoever has missed no batch and has heard
\* all that was sent shows the newest scene published and knows every event.
HeardIsCurrent ==
  (room.phase = "playing" /\ ~room.stepping /\ stream.frames = <<>> /\ stream.sent = stream.cursor) =>
    \A c \in Clients \ skipped :
      (seats[c].joined /\ pages[c].connected /\ pages[c].ended = "no" /\ down[c] = <<>>) =>
        /\ pages[c].mirrored = room.round /\ ~pages[c].needsFull
        /\ pages[c].seq = stream.seq /\ pages[c].cursor = stream.cursor
        /\ pages[c].scene = stream.previous

\* Whoever is connected in a battle gets the arena of the round and a view of
\* what happens in it, unless the connection or the battle ends before.
EverybodySeesTheBattle ==
  \A c \in Clients :
    (pages[c].connected /\ room.phase = "playing")
      ~> \/ /\ pages[c].mirrored = room.round /\ ~pages[c].needsFull
            /\ pages[c].ready = room.round
         \/ ~pages[c].connected \/ room.phase # "playing"
=============================================================================
