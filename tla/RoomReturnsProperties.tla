----------------------- MODULE RoomReturnsProperties -----------------------
(***************************************************************************)
(* What a page and the room may rely on when connections come and go.      *)
(***************************************************************************)
EXTENDS RoomReturns

\* A page that shows itself connected has its seat, bound to its own socket, or
\* the news that it has not is on the way.
ConnectedHasSeat ==
  \A q \in Pages :
    pages[q].connected =>
      LET s == pages[q].socket IN
      \/ \E seat \in room.seats : seat.token = pages[q].token /\ seat.conn = s
      \/ ToldClosed(s)

\* A page that was told its seat expired or its room ended, and forgot the
\* seat for it, leaves no reservation behind under the token it had.
ForgottenIsReleased ==
  [][ \A q \in Pages :
        (pages[q].token # None /\ pages'[q].ended \in {"seat-expired", "room-ended"}) =>
          SeatOf(pages[q].token) = {} ]_vars

\* "After a crash, clients reconnect by themselves and find a fresh lobby"
\* (crates/server/README.md:288): nobody who comes back to a room whose server
\* crashed is told that the room has ended.
CrashLeadsToLobby ==
  [][ \A q \in Pages :
        (room.crashed /\ pages[q].attempt > 0 /\ pages[q].ended = "no")
          => pages'[q].ended # "room-ended" ]_vars

\* A page that enters a room is connected or told why not, however often its
\* connection breaks: nobody waits forever.
EveryJoinSettles ==
  \A q \in Pages :
    pages[q].choice # "none" ~> pages[q].connected \/ pages[q].ended # "no" \/ pages[q].choice = "none"
=============================================================================
