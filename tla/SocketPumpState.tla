--------------------------- MODULE SocketPumpState ---------------------------
(* The limits and the state of a socket's output, and what it promises the  *)
(* room and the peer (crates/server/src/socket.rs).                          *)
EXTENDS Integers, Sequences

CONSTANTS
  Budget,        \* MAX_BUFFERED_BYTES: output that may wait in a socket
  CloseBytes,    \* the encoded size of a close frame
  PongBytes,     \* the encoded size of a pong
  Sizes,         \* sizes of the messages a room sends
  Encodings,     \* sizes a message may be encoded to
  MaxMessages,   \* bound: messages the room sends
  MaxPongs       \* bound: pings the peer sends

ASSUME SocketAssumption ==
  /\ Budget \in Nat /\ CloseBytes \in Nat \ {0} /\ PongBytes \in Nat \ {0}
  /\ Sizes \subseteq Nat /\ Encodings \subseteq Nat \ {0}

VARIABLES
  call,       \* what the room is doing in send or close, and the bytes at hand
  sent,       \* messages the room has begun to send
  closing,    \* state.closing
  queued,     \* state.queued
  channel,    \* the messages and the close the task has yet to take
  pump,       \* whether the task is running, ending or gone
  pending,    \* bytes encoded and not yet written
  message,    \* the number of the last message encoded
  asked,      \* close_requested
  closeSent,  \* close_sent
  peerClosed, \* peer_close
  pongs       \* pings answered or refused

-----------------------------------------------------------------------------
\* The bytes of a message about to be queued.
Reserved == IF call.at = "queue" THEN call.bytes ELSE 0

\* The bytes that wait in the channel.
Waiting(items) ==
  LET total[n \in 0..Len(items)] == IF n = 0 THEN 0 ELSE total[n - 1] + items[n].bytes
  IN total[Len(items)]

\* The counter is what the two sides make of it together: while the task
\* runs, it is the bytes in the channel, those still to be written and those
\* of a message about to be queued, and only a close frame goes beyond the
\* budget.  It never drops below zero, where it would wrap.
QueuedIsExact ==
  /\ pump = "running" => queued = Reserved + pending + Waiting(channel)
  /\ Reserved <= queued
  /\ queued <= Budget + CloseBytes

output == <<message, closeSent, pending>>

\* What the peer reads is what the room sent, from the first message and in
\* order, and then at most one close: a message that is given up is the last
\* one, whichever side gave it up.
PeerReadsAPrefix ==
  [][ /\ message' \in {message, message + 1}
      /\ closeSent => closeSent' /\ message' = message /\ pending' <= pending ]_output
=============================================================================
