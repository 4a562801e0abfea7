----------------------------- MODULE RateLimit ------------------------------
(***************************************************************************)
(* Fixed-window request counters keyed by client address                   *)
(* (crates/server/src/rate_limit.rs).  A table of at most MaxKeys windows  *)
(* is swept only when the oldest window it knows may be over.              *)
(*                                                                         *)
(* A window counts its calls without end in the code; here a call beyond   *)
(* the limit leaves the count at Limit + 2.                                *)
(***************************************************************************)
EXTENDS RateLimitState, Sequences, Functions

vars == <<nowMs, windows, oldest, refused, granted>>

Never == MaxElapsed + 1
Earlier(a, b) == IF a < b THEN a ELSE b

\* A window that begins now.
Opened == [start |-> nowMs, count |-> 0]

Init ==
  /\ nowMs = 0
  /\ windows = [k \in {} |-> Opened] /\ oldest = Never
  /\ refused = FALSE
  /\ granted = [k \in Keys |-> <<>>]

Elapse ==
  /\ nowMs < MaxElapsed
  /\ nowMs' = nowMs + 1
  /\ refused' = FALSE
  /\ UNCHANGED <<windows, oldest, granted>>

\* What a sweep leaves, when it scans at all.
Swept == Restrict(windows, {k \in DOMAIN windows : Live(windows[k].start)})

\* (Mutant: the table is known by its newest window.)
NewestOf(table) ==
  IF DOMAIN table = {} THEN Never
  ELSE CHOOSE t \in {table[k].start : k \in DOMAIN table} :
         \A k \in DOMAIN table : t >= table[k].start

OldestOf(table) ==
  IF DOMAIN table = {} THEN Never
  ELSE CHOOSE t \in {table[k].start : k \in DOMAIN table} :
         \A k \in DOMAIN table : t <= table[k].start

\* No window can be over: the sweep scans nothing.
NothingExpired == Live(oldest)

\* The window after one more call, and the answer.
Counted(w) == [w EXCEPT !.count = Earlier(@ + 1, Limit + 2)]

Within(w) == w.count <= Limit

Grant(k, w) ==
  granted' = IF Within(w) THEN [granted EXCEPT ![k] = Append(@, nowMs)] ELSE granted

\* A call of a key that has a window.
Again(k) ==
  LET w == Counted(IF Live(windows[k].start) THEN windows[k] ELSE Opened) IN
  /\ k \in DOMAIN windows
  /\ windows' = [windows EXCEPT ![k] = w]
  /\ Grant(k, w)
  /\ refused' = FALSE
  /\ UNCHANGED <<nowMs, oldest>>

\* A call of a new key, which may have to find a place first.
Fresh(k) ==
  LET sweeps == Full(windows) /\ ~NothingExpired
      table  == IF sweeps THEN Swept ELSE windows
      start  == IF sweeps THEN OldestOf(Swept) ELSE oldest
      w      == Counted(Opened)
  IN
  /\ k \notin DOMAIN windows
  /\ IF Full(table)
       THEN /\ windows' = table /\ oldest' = start
            /\ refused' = TRUE
            /\ UNCHANGED granted
       ELSE /\ windows' = [q \in DOMAIN table \cup {k} |-> IF q = k THEN w ELSE table[q]]
            /\ oldest' = Earlier(start, nowMs)
            /\ refused' = FALSE
            /\ Grant(k, w)
  /\ UNCHANGED nowMs

Allow(k) == Again(k) \/ Fresh(k)

Next == Elapse \/ \E k \in Keys : Allow(k)

Spec == Init /\ [][Next]_vars
=============================================================================
