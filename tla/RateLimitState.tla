--------------------------- MODULE RateLimitState ----------------------------
(* The limits and the state of the server's request counters, and what they *)
(* promise (crates/server/src/rate_limit.rs).                                *)
EXTENDS Integers, FiniteSets

CONSTANTS
  Keys,          \* client addresses
  Limit,         \* calls a key may make in a window
  Period,        \* the length of a window
  MaxKeys,       \* MAX_RATE_LIMIT_KEYS
  MaxElapsed     \* bound: the time the counters run for

ASSUME RateLimitAssumption ==
  Limit \in Nat /\ Period \in Nat /\ MaxKeys \in Nat /\ MaxElapsed \in Nat

VARIABLES
  nowMs,     \* the server's clock
  windows,   \* start and count of the window of each tracked key
  oldest,    \* oldest_start_ms; Never when no window is left
  refused,   \* auxiliary: the last call was of a new key, and refused
  granted    \* auxiliary: when each key was allowed calls

\* `now_ms.saturating_sub(start_ms) >= period_ms`, negated.
Live(start) == start + Period > nowMs

Full(table) == Cardinality(DOMAIN table) >= MaxKeys

-----------------------------------------------------------------------------
\* A newcomer is refused only while as many keys as may be tracked are inside
\* their windows: the table is never full of windows that are over, although
\* it is scanned at most once per expiry.
RefusedOnlyWhenFull ==
  refused => /\ Full(windows)
             /\ \A k \in DOMAIN windows : Live(windows[k].start)
=============================================================================
