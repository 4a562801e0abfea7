------------------------- MODULE AnnouncementsState --------------------------
(* The timing and the state of a server's announcements to the directory,   *)
(* and what they promise those who read the list (directory/listing.ts).     *)
EXTENDS Integers

CONSTANTS
  Check,         \* ANNOUNCE_CHECK
  Interval,      \* ANNOUNCE_INTERVAL
  Timeout,       \* ANNOUNCE_TIMEOUT
  Lifetime,      \* ENTRY_TTL_MS of the server directory
  MaxMissed      \* bound: announcements in a row that go missing

\* A row outlives an interval, the checks and timeouts of MaxMissed
\* announcements and of the one before and after them.
ASSUME AnnounceAssumption ==
  /\ Check \in Nat \ {0} /\ Interval \in Nat \ {0} /\ Timeout \in Nat \ {0}
  /\ Lifetime \in Nat /\ MaxMissed \in Nat
  /\ Interval + Check + MaxMissed * (Timeout + Check) + 2 * Timeout <= Lifetime

VARIABLES
  rooms,     \* what the catalog lists
  news,      \* rooms_changed holds a permit
  checkIn,   \* seconds to the next check; 0 when it is due
  put,       \* the announcement under way: its rooms, age, and whether the directory has it
  accepted,  \* the rooms the directory last accepted, and how long ago
  entry,     \* the row of this server, and how long ago it was seen
  astray,    \* rooms of announcements given up that may still arrive
  missed,    \* auxiliary: announcements given up since the last accepted one
  steady     \* auxiliary: seconds since something changed, went missing or came late

\* There is such a row, or announcement.
known(r) == r.rooms # "none"

-----------------------------------------------------------------------------
\* "Game servers announce at least every 15 s, so an entry outlives two
\* missed announcements" (directory/listing.ts): once the directory has
\* accepted an announcement, the row is never old enough for dropExpired.
ServerStaysListed == known(accepted) => known(entry) /\ entry.age <= Lifetime

\* Whatever was lost, or arrived late and out of order, the list shows the
\* rooms of the server again once things have been steady for an interval, a
\* check and two timeouts: a stale listing is never there to stay.
ListingCatchesUp ==
  steady > Interval + Check + 2 * Timeout => entry.rooms = rooms
=============================================================================
