---------------------------- MODULE Announcements ---------------------------
(***************************************************************************)
(* How the server directory learns of a server's rooms: the announcing     *)
(* loop of the game server (crates/server/src/directory.rs) and the rows   *)
(* of the directory worker (directory/worker.ts).  An announcement that    *)
(* was given up may still arrive, after later ones.                        *)
(*                                                                         *)
(* A step of the clock is a second.  The loop wakes as soon as it may, and *)
(* what it announces is one of two contents the room list may have.        *)
(***************************************************************************)
EXTENDS AnnouncementsState

loop == <<news, checkIn, put, accepted>>
vars == <<rooms, loop, entry, astray, missed, steady>>

Lists == {"first", "second"}
Stored(list) == [rooms |-> list, age |-> 0]
Nothing == Stored("none")
NoPut == [rooms |-> "none", age |-> 0, there |-> FALSE]

\* Older than anything that matters.
MaxAge == Lifetime + 1
Aged(n) == IF n < MaxAge THEN n + 1 ELSE MaxAge
Older(r) == IF known(r) THEN [r EXCEPT !.age = Aged(@)] ELSE r

Init ==
  /\ rooms = "first" /\ news = FALSE /\ checkIn = 0
  /\ put = NoPut /\ accepted = Nothing
  /\ entry = Nothing /\ astray = {}
  /\ missed = 0 /\ steady = 0

\* A room appears, leaves, or changes what its listing says; only the first
\* two wake the loop (room_task.rs:88).
Change ==
  /\ rooms' \in Lists \ {rooms}
  /\ news' \in {news, TRUE}
  /\ steady' = 0
  /\ UNCHANGED <<checkIn, put, accepted, entry, astray, missed>>

-----------------------------------------------------------------------------
(* The announcing loop.                                                    *)

\* (Mutant: a listing is sent again only when it changed.)
UpToDateForever == known(accepted) /\ accepted.rooms = rooms

\* The directory has these rooms, and was told not long ago.
UpToDate == known(accepted) /\ accepted.rooms = rooms /\ accepted.age < Interval

\* The loop wakes for a check or for news, and announces if it must.
Wake ==
  /\ ~known(put)
  /\ \/ checkIn = 0 /\ checkIn' = Check /\ UNCHANGED news
     \/ news /\ news' = FALSE /\ UNCHANGED checkIn
  /\ put' = IF UpToDate THEN NoPut ELSE [rooms |-> rooms, age |-> 0, there |-> FALSE]
  /\ UNCHANGED <<rooms, accepted, entry, astray, missed, steady>>

\* The directory stores the announcement.
Arrive ==
  /\ known(put) /\ ~put.there
  /\ entry' = Stored(put.rooms)
  /\ put' = [put EXCEPT !.there = TRUE]
  /\ UNCHANGED <<rooms, news, checkIn, accepted, astray, missed, steady>>

\* The loop hears that it did.
Answer ==
  /\ known(put) /\ put.there
  /\ accepted' = Stored(put.rooms)
  /\ put' = NoPut /\ missed' = 0
  /\ UNCHANGED <<rooms, news, checkIn, entry, astray, steady>>

\* (Mutant: an announcement that failed is taken for accepted.)
GiveUpAccepted ==
  /\ known(put) /\ missed < MaxMissed
  /\ astray' \in IF put.there THEN {astray} ELSE {astray, astray \cup {put.rooms}}
  /\ accepted' = Stored(put.rooms)
  /\ put' = NoPut /\ missed' = missed + 1 /\ steady' = 0
  /\ UNCHANGED <<rooms, news, checkIn, entry>>

\* An error or the timeout ends it; it may still be on its way.
GiveUp ==
  /\ known(put) /\ missed < MaxMissed
  /\ astray' \in IF put.there THEN {astray} ELSE {astray, astray \cup {put.rooms}}
  /\ put' = NoPut /\ missed' = missed + 1 /\ steady' = 0
  /\ UNCHANGED <<rooms, news, checkIn, accepted, entry>>

\* One that was given up arrives after all.
ArriveLate ==
  /\ \E list \in astray :
       /\ entry' = Stored(list)
       /\ astray' = astray \ {list}
  /\ steady' = 0
  /\ UNCHANGED <<rooms, loop, missed>>

\* A second passes, unless the loop is to wake or its announcement to end.
Second ==
  /\ IF known(put) THEN put.age < Timeout ELSE checkIn > 0 /\ ~news
  /\ checkIn' = IF checkIn > 0 THEN checkIn - 1 ELSE 0
  /\ put' = Older(put) /\ accepted' = Older(accepted) /\ entry' = Older(entry)
  /\ steady' = Aged(steady)
  /\ UNCHANGED <<rooms, news, astray, missed>>

Next == Change \/ Wake \/ Arrive \/ Answer \/ GiveUp \/ ArriveLate \/ Second

Spec == Init /\ [][Next]_vars
=============================================================================
