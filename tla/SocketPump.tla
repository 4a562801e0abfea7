----------------------------- MODULE SocketPump -----------------------------
(***************************************************************************)
(* The output of one socket (crates/server/src/socket.rs): a room sends    *)
(* and closes through a handle without ever waiting, the socket's task     *)
(* encodes what was queued and writes it as fast as the peer reads.  The   *)
(* two share a counter of queued bytes and a flag, both updated by relaxed *)
(* atomic operations; each one is a step.                                  *)
(*                                                                         *)
(* Messages are numbered in the order the room sends them.  What a socket  *)
(* reads goes to the room (RoomServer); here it only begins a close or     *)
(* asks for a pong.  The order of the arms of select! is not modelled: any *)
(* that is ready may run.                                                  *)
(***************************************************************************)
EXTENDS SocketPumpState

room == <<call, sent>>
task == <<pump, pending, message, asked, closeSent, peerClosed, pongs>>
vars == <<room, closing, queued, channel, task>>

Idle == [at |-> "idle", bytes |-> 0]
CloseItem == [kind |-> "close", n |-> 0, bytes |-> 0]

Init ==
  /\ call = Idle /\ sent = 0
  /\ closing = FALSE /\ queued = 0 /\ channel = <<>>
  /\ pump = "running" /\ pending = 0 /\ message = 0 /\ pongs = 0
  /\ asked = FALSE /\ closeSent = FALSE /\ peerClosed = FALSE

Fits(bytes) == queued + bytes <= Budget

-----------------------------------------------------------------------------
(* The room's calls.                                                       *)

\* send finds the socket open.
BeginSend ==
  /\ call.at = "idle" /\ ~closing /\ sent < MaxMessages
  /\ \E b \in Sizes : call' = [at |-> "reserve", bytes |-> b]
  /\ sent' = sent + 1
  /\ UNCHANGED <<closing, queued, channel, task>>

\* (Mutant: a message that does not fit is skipped.)
ReserveOrSkip ==
  /\ call.at = "reserve"
  /\ IF Fits(call.bytes)
       THEN /\ queued' = queued + call.bytes
            /\ call' = [call EXCEPT !.at = "queue"]
       ELSE /\ call' = Idle
            /\ UNCHANGED queued
  /\ UNCHANGED <<sent, closing, channel, task>>

\* Its bytes are reserved, or the reader is too slow.
Reserve ==
  /\ call.at = "reserve"
  /\ IF Fits(call.bytes)
       THEN /\ queued' = queued + call.bytes
            /\ call' = [call EXCEPT !.at = "queue"]
       ELSE /\ call' = [call EXCEPT !.at = "refuse"]
            /\ UNCHANGED queued
  /\ UNCHANGED <<sent, closing, channel, task>>

\* The message is queued, unless the task is gone.
Enqueue ==
  /\ call.at = "queue"
  /\ IF pump # "gone"
       THEN /\ channel' = Append(channel, [kind |-> "message", n |-> sent, bytes |-> call.bytes])
            /\ UNCHANGED queued
       ELSE /\ queued' = queued - call.bytes
            /\ UNCHANGED channel
  /\ call' = Idle
  /\ UNCHANGED <<sent, closing, task>>

\* close, by the room or for a slow reader: only the first one counts.
BeginClose ==
  /\ call.at \in {"idle", "refuse"}
  /\ call' = IF closing THEN Idle ELSE [at |-> "close", bytes |-> 0]
  /\ closing' = TRUE
  /\ UNCHANGED <<sent, queued, channel, task>>

EnqueueClose ==
  /\ call.at = "close"
  /\ channel' = IF pump # "gone" THEN Append(channel, CloseItem) ELSE channel
  /\ call' = Idle
  /\ UNCHANGED <<sent, closing, queued, task>>

Room == BeginSend \/ Reserve \/ Enqueue \/ BeginClose \/ EnqueueClose

-----------------------------------------------------------------------------
(* The socket's task.                                                      *)

\* The peer has closed and has everything: the connection ends.
Done == peerClosed /\ closeSent /\ pending = 0

Turns == pump = "running" /\ ~asked /\ ~Done

\* A close that was asked for is encoded before anything else happens; it may
\* exceed the budget.
SendClose ==
  /\ pump = "running" /\ asked
  /\ closing' = TRUE
  /\ pending' = pending + CloseBytes
  /\ queued' = queued + CloseBytes
  /\ asked' = FALSE /\ closeSent' = TRUE
  /\ UNCHANGED <<room, channel, pump, message, peerClosed, pongs>>

\* (Mutant: bytes reserved for a message that is given up stay reserved.)
AppendedOrLost(reserved, encoded) ==
  IF Fits(encoded - reserved) \/ encoded <= reserved
  THEN /\ pending' = pending + encoded
       /\ queued' = queued + encoded - reserved
       /\ asked' = FALSE
  ELSE /\ asked' = TRUE
       /\ UNCHANGED <<queued, pending>>

\* append: a frame takes the place of the bytes reserved for it, or the
\* reader is too slow.
Appended(reserved, encoded) ==
  IF Fits(encoded - reserved) \/ encoded <= reserved
  THEN /\ pending' = pending + encoded
       /\ queued' = queued + encoded - reserved
       /\ asked' = FALSE
  ELSE /\ asked' = TRUE
       /\ queued' = queued - reserved
       /\ UNCHANGED pending

\* receiver.recv()
Take ==
  /\ Turns /\ ~closeSent /\ channel # <<>>
  /\ channel' = Tail(channel)
  /\ LET item == Head(channel) IN
     \/ /\ item.kind = "message"
        /\ \E encoded \in Encodings : Appended(item.bytes, encoded)
        /\ message' = IF asked' THEN message ELSE item.n
     \/ /\ item.kind = "close"
        /\ asked' = TRUE
        /\ UNCHANGED <<queued, pending, message>>
  /\ UNCHANGED <<room, closing, pump, closeSent, peerClosed, pongs>>

\* writer.write()
Write ==
  /\ Turns
  /\ \E count \in 1..pending :
       /\ pending' = pending - count
       /\ queued' = queued - count
  /\ UNCHANGED <<room, closing, channel, pump, message, asked, closeSent, peerClosed, pongs>>

\* A ping is answered while no close was sent.
Ping ==
  /\ Turns /\ ~peerClosed /\ ~closeSent /\ pongs < MaxPongs
  /\ Appended(0, PongBytes)
  /\ pongs' = pongs + 1
  /\ UNCHANGED <<room, closing, channel, pump, message, closeSent, peerClosed>>

\* The peer closes; its close is echoed unless one was sent.
PeerCloses ==
  /\ Turns /\ ~peerClosed
  /\ peerClosed' = TRUE
  /\ asked' = ~closeSent
  /\ UNCHANGED <<room, closing, queued, channel, pump, pending, message, closeSent, pongs>>

\* The connection has closed or is cut: by the peer, the deadline of a close,
\* an error or the server's stop.
Break ==
  /\ pump = "running"
  /\ pump' = "ending" /\ closing' = TRUE
  /\ UNCHANGED <<room, queued, channel, pending, message, asked, closeSent, peerClosed, pongs>>

\* The receiver is dropped with what was never taken.
End ==
  /\ pump = "ending"
  /\ pump' = "gone" /\ channel' = <<>>
  /\ UNCHANGED <<room, closing, queued, pending, message, asked, closeSent, peerClosed, pongs>>

Task == SendClose \/ Take \/ Write \/ Ping \/ PeerCloses \/ Break \/ End

Next == Room \/ Task

Spec == Init /\ [][Next]_vars
=============================================================================
