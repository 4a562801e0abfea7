-------------------------- MODULE RoomServerProofs ---------------------------
(***************************************************************************)
(* The promises of the room server, for every number of sockets, codes and *)
(* rooms, every length of the inboxes and every interleaving of the tasks: *)
(* its invariants, and that it implements CodeRooms.                       *)
(***************************************************************************)
EXTENDS RoomServerProperties, TLAPS, FiniteSetTheorems, SequenceTheorems

Running == {"select", "turned", "leaving"}
Waiting == {"upgrading", "lost", "asking"}

\* The registry and the rooms name each other: a code has the one room of its
\* own that has not left.
RegistryInv ==
  /\ \A i \in Instance : i <= made <=> task[i] # "none"
  /\ \A i \in Instance : task[i] \in Running => code[i] \in Code /\ registry[code[i]] = i
  /\ \A c \in Code : registry[c] # NoRoom => code[registry[c]] = c /\ task[registry[c]] \in Running

\* A session keeps time while it has sockets or a match, and has neither at its end.
Sound(r) ==
  /\ r.joined \subseteq r.sockets
  /\ r.sockets # {} \/ r.host = "alive" => r.armed
  /\ r.ended => r.sockets = {} /\ r.host # "alive"

SessionInv ==
  \A i \in Instance :
    /\ Sound(session[i])
    /\ session[i].ended => task[i] = "turned"
    /\ task[i] \notin {"select", "turned"} => session[i].sockets = {} /\ session[i].host # "alive"

\* A room holds the sockets it accepted and no others, for the code they want.
HeldInv ==
  /\ \A i \in Instance : \A s \in session[i].sockets : asked[s] = i /\ reply[s] = "accepted"
  /\ \A s \in Socket : asked[s] # NoRoom => asked[s] <= made /\ code[asked[s]] = wants[s]

\* An Open in an inbox is the only one of its socket, which waits for the answer.
OpensInv ==
  \A i \in Instance : \A k \in 1..Len(inbox[i]) :
    inbox[i][k].kind = "open" =>
      /\ asked[inbox[i][k].from] = i
      /\ reply[inbox[i][k].from] = "none"
      /\ step[inbox[i][k].from] \in Waiting
      /\ \A l \in 1..Len(inbox[i]) : inbox[i][l] = inbox[i][k] => l = k

\* What a socket has been told and where it is agree; one that was accepted is
\* held until it is told to close.
StepsInv ==
  \A s \in Socket :
    /\ step[s] = "new" => asked[s] = NoRoom /\ reply[s] = "none"
    /\ step[s] # "new" => wants[s] \in Code
    /\ step[s] = "again" => reply[s] = "ended"
    /\ served(s) => linked(s) \/ s \in told
    /\ (step[s] \in {"upgrading", "asking", "open", "sending"} /\ linked(s) /\ s \notin told)
         => asked[s] # NoRoom /\ s \in session[asked[s]].sockets

RoomsInv ==
  TypeOK /\ RegistryInv /\ SessionInv /\ HeldInv /\ OpensInv /\ StepsInv /\ ListedCanBeJoined

-----------------------------------------------------------------------------
(* The operations of a session.                                            *)

\* What holds of a session while its timer is being handled, and it is not armed.
Nested(r) == r \in Session /\ r.joined \subseteq r.sockets /\ (r.ended => r.sockets = {} /\ r.host # "alive")

LEMMA WithoutKeeps ==
  ASSUME NEW r, NEW D, r \in Session
  PROVE  /\ Without(r, D) \in Session
         /\ Without(r, D).sockets = r.sockets \ D
         /\ Without(r, D).joined = r.joined \ D
         /\ Without(r, D).host = r.host
         /\ Without(r, D).armed = r.armed
         /\ Without(r, D).ended = r.ended
BY DEF Without, Session

LEMMA StoppedIsSound ==
  ASSUME NEW r, r \in Session, r.joined \subseteq r.sockets
  PROVE  /\ Stopped(r) \in Session
         /\ Stopped(r).sockets = {} /\ Stopped(r).joined = {}
         /\ Stopped(r).host = r.host
         /\ Stopped(r).ended /\ ~Stopped(r).armed
<1>1. /\ Without(r, r.sockets) \in Session
      /\ Without(r, r.sockets).sockets = {}
      /\ Without(r, r.sockets).joined = {}
      /\ Without(r, r.sockets).host = r.host
  BY WithoutKeeps
<1>2. QED
  BY <1>1 DEF Stopped, Session

LEMMA DisposedKeeps ==
  ASSUME NEW r, r \in Session
  PROVE  /\ Disposed(r) \in Session
         /\ Disposed(r).sockets \subseteq r.sockets
         /\ Disposed(r).joined = {}
         /\ Disposed(r).host = "disposed"
         /\ Disposed(r).armed = r.armed
         /\ Disposed(r).ended = r.ended
<1>1. /\ Without(r, r.joined) \in Session
      /\ Without(r, r.joined).sockets = r.sockets \ r.joined
      /\ Without(r, r.joined).joined = {}
      /\ Without(r, r.joined).armed = r.armed
      /\ Without(r, r.joined).ended = r.ended
  BY WithoutKeeps
<1>2. QED
  BY <1>1 DEF Disposed, Session

\* A call of the host drops sockets, and never takes one.
LEMMA CallsKeep ==
  ASSUME NEW r, Nested(r), NEW u \in Calls(r)
  PROVE  /\ Nested(u)
         /\ u.sockets \subseteq r.sockets
         /\ u.armed = r.armed \/ u.ended
<1>1. CASE u = r
  BY <1>1
<1>2. CASE u = Disposed(r)
  BY <1>2, DisposedKeeps DEF Nested
<1>3. CASE u = [Stopped(r) EXCEPT !.host = "none"]
  <2>1. /\ Stopped(r) \in Session
        /\ Stopped(r).sockets = {} /\ Stopped(r).joined = {} /\ Stopped(r).ended
    BY StoppedIsSound DEF Nested
  <2>2. u \in Session /\ u.sockets = {} /\ u.joined = {} /\ u.ended /\ u.host = "none"
    BY <1>3, <2>1 DEF Session
  <2>3. QED
    BY <2>2 DEF Nested
<1>4. QED
  BY <1>1, <1>2, <1>3 DEF Calls

\* A call on a sound session leaves a sound one.
LEMMA CallsAreSound ==
  ASSUME NEW r, r \in Session, Sound(r), NEW u \in Calls(r)
  PROVE  u \in Session /\ Sound(u) /\ u.sockets \subseteq r.sockets
<1>1. CASE u = r
  BY <1>1
<1>2. CASE u = Disposed(r)
  BY <1>2, DisposedKeeps DEF Sound
<1>3. CASE u = [Stopped(r) EXCEPT !.host = "none"]
  <2>1. /\ Stopped(r) \in Session
        /\ Stopped(r).sockets = {} /\ Stopped(r).joined = {} /\ Stopped(r).ended
    BY StoppedIsSound DEF Sound
  <2>2. u \in Session /\ u.sockets = {} /\ u.joined = {} /\ u.ended /\ u.host = "none"
    BY <1>3, <2>1 DEF Session
  <2>3. QED
    BY <2>2 DEF Sound
<1>4. QED
  BY <1>1, <1>2, <1>3 DEF Calls

LEMMA WithoutIsSound ==
  ASSUME NEW r, r \in Session, Sound(r), NEW D
  PROVE  Without(r, D) \in Session /\ Sound(Without(r, D)) /\ Without(r, D).sockets \subseteq r.sockets
BY WithoutKeeps DEF Sound

\* What a turn of a room makes of its session: a sound one with no new sockets.
Follows(r, u) == u \in Session /\ Sound(u) /\ u.sockets \subseteq r.sockets

LEMMA ClosesFollow ==
  ASSUME NEW r, r \in Session, Sound(r), NEW s \in Socket, NEW u \in Closes(r, s)
  PROVE  Follows(r, u)
BY WithoutIsSound, CallsAreSound DEF Closes, Follows

LEMMA ResetFollows ==
  ASSUME NEW r, r \in Session, Sound(r)
  PROVE  Follows(r, ResetBy(r))
<1>1. Disposed(r) \in Session /\ Disposed(r).joined = {} /\ Disposed(r).host = "disposed"
  BY DisposedKeeps
<1>2. QED
  BY <1>1, StoppedIsSound DEF ResetBy, Follows, Sound

\* A welcome seats the sender, in the place of a socket that is closed.
LEMMA WelcomesFollow ==
  ASSUME NEW r, r \in Session, Sound(r), NEW s \in r.sockets, s \notin r.joined, NEW u \in Welcomes(r, s)
  PROVE  Follows(r, u)
<1>1. PICK D \in {{}} \cup {{o} : o \in r.joined} :
        u \in Calls([Without(r, D) EXCEPT !.joined = @ \cup {s}])
  BY DEF Welcomes
<1> DEFINE w == Without(r, D)
           v == [w EXCEPT !.joined = @ \cup {s}]
<1>2. /\ w \in Session /\ Sound(w) /\ w.sockets = r.sockets \ D
      /\ s \in w.sockets
  BY <1>1, WithoutKeeps, WithoutIsSound
<1>3. v \in Session /\ Sound(v) /\ v.sockets = w.sockets
  BY <1>2 DEF Session, Sound
<1>4. QED
  BY <1>1, <1>2, <1>3, CallsAreSound DEF Follows

LEMMA MessagesFollow ==
  ASSUME NEW r, r \in Session, Sound(r), NEW s \in Socket, NEW u \in Messages(r, s)
  PROVE  Follows(r, u)
<1>1. CASE s \notin r.sockets
  BY <1>1 DEF Messages, Follows
<1>2. CASE u \in Calls(Without(r, {s}))
  BY <1>2, WithoutIsSound, CallsAreSound DEF Follows
<1>3. CASE u \in Calls(r)
  BY <1>3, CallsAreSound DEF Follows
<1>4. CASE s \in r.sockets /\ s \notin r.joined /\ u \in Welcomes(r, s)
  BY <1>4, WelcomesFollow
<1>5. QED
  BY <1>1, <1>2, <1>3, <1>4 DEF Messages

\* The timer is armed again, or the room stops.
LEMMA RearmedIsSound ==
  ASSUME NEW r, Nested(r)
  PROVE  Follows(r, Rearmed(r))
<1>1. CASE r.host = "alive"
  BY <1>1 DEF Rearmed, Nested, Follows, Sound, Session
<1>2. CASE r.host # "alive"
  BY <1>2, StoppedIsSound DEF Rearmed, Nested, Follows, Sound
<1>3. QED
  BY <1>1, <1>2

LEMMA TimerFollows ==
  ASSUME NEW r, r \in Session, Sound(r), NEW u \in OnTimer(r)
  PROVE  Follows(r, u)
<1> DEFINE due == [r EXCEPT !.armed = FALSE]
           t == Without(due, r.overdue \ r.joined)
<1>1. due \in Session /\ Nested(due) /\ due.sockets = r.sockets
  BY DEF Session, Nested, Sound
<1>2. PICK D \in SUBSET t.joined : \E v \in Calls(Without(t, D)) : u = Rearmed(v)
  BY DEF OnTimer
<1>3. PICK v \in Calls(Without(t, D)) : u = Rearmed(v)
  BY <1>2
<1> HIDE DEF due
<1>4. Nested(t) /\ t.sockets \subseteq r.sockets
  BY <1>1, WithoutKeeps DEF Nested
<1> HIDE DEF t
<1>5. Nested(Without(t, D)) /\ Without(t, D).sockets \subseteq r.sockets
  BY <1>4, WithoutKeeps DEF Nested
<1>6. Nested(v) /\ v.sockets \subseteq r.sockets
  BY <1>3, <1>5, CallsKeep
<1>7. QED
  BY <1>3, <1>6, RearmedIsSound DEF Follows

LEMMA AcceptIsSound ==
  ASSUME NEW r, r \in Session, Sound(r), ~r.ended, NEW s \in Socket
  PROVE  /\ Accept(r, s) \in Session /\ Sound(Accept(r, s))
         /\ Accept(r, s).sockets = r.sockets \cup {s}
         /\ Accept(r, s).joined = r.joined /\ ~Accept(r, s).ended
BY DEF Accept, Session, Sound

-----------------------------------------------------------------------------
(* The tasks of sockets.                                                   *)

LEMMA InitInv == Init => RoomsInv
<1> SUFFICES ASSUME Init PROVE RoomsInv
  OBVIOUS
<1>1. /\ NewSession \in Session /\ Sound(NewSession)
      /\ NewSession.sockets = {} /\ NewSession.host = "none" /\ ~NewSession.ended
  BY DEF NewSession, Session, Sound
<1>2. Cardinality({}) = 0 /\ {MaxSockets, MaxRooms, Inbox, MaxInstances} \subseteq Nat \ {0}
  BY FS_EmptySet, ServerAssumption
<1>3. inbox \in [Instance -> Seq(Command)] /\ \A i \in Instance : Len(inbox[i]) = 0
  BY DEF Init
<1>4. TypeOK
  <2>1. 0 \in 0..MaxInstances /\ 0 \in 0..MaxSockets
    BY <1>2
  <2>2. /\ registry \in [Code -> Instance \cup {NoRoom}]
        /\ code \in [Instance -> Code \cup {NoCode}]
        /\ count \in [Instance -> 0..MaxSockets]
        /\ session \in [Instance -> Session]
        /\ \A i \in Instance : Cardinality(session[i].sockets) = 0
    BY <1>1, <1>2, <2>1 DEF Init
  <2>3. \A i \in Instance : Len(inbox[i]) <= Inbox /\ Cardinality(session[i].sockets) <= MaxSockets
    BY <1>2, <1>3, <2>2
  <2>4. /\ task \in [Instance -> {"none", "select", "turned", "leaving", "draining", "over"}]
        /\ reset \in [Instance -> {"none", "held", "done"}]
        /\ step \in [Socket -> Step]
        /\ wants \in [Socket -> Code \cup {NoCode}]
        /\ asked \in [Socket -> Instance \cup {NoRoom}]
        /\ reply \in [Socket -> {"none", "accepted", "full", "ended"}]
    BY DEF Init, Step
  <2>5. QED
    BY <1>3, <2>1, <2>2, <2>3, <2>4 DEF Init, TypeOK
<1>5. RegistryInv
  BY DEF Init, RegistryInv, Running, Instance
<1>6. SessionInv
  BY <1>1 DEF Init, SessionInv
<1>7. HeldInv /\ OpensInv /\ StepsInv /\ ListedCanBeJoined
  BY <1>1, <1>3 DEF Init, HeldInv, OpensInv, StepsInv, ListedCanBeJoined, served, linked
<1>8. QED
  BY <1>4, <1>5, <1>6, <1>7 DEF RoomsInv

\* What a socket does on its own changes where it is and whether it was told to close.
Alone(s) ==
  \/ Upgraded(s) \/ Lost(s) \/ Answered(s) \/ Read(s) \/ SlowReader(s)
  \/ StartClosing(s) \/ Drop(s) \/ FinishClosing(s) \/ Cut(s)

LEMMA AloneKeeps ==
  ASSUME RoomsInv, NEW s \in Socket, Alone(s)
  PROVE  RoomsInv'
<1>1. TypeOK /\ RegistryInv /\ SessionInv /\ HeldInv /\ OpensInv /\ StepsInv /\ ListedCanBeJoined
  BY DEF RoomsInv
<1>2. UNCHANGED <<registry, made, listed, rooms, wants, asked, reply, closing>>
  BY DEF Alone, Upgraded, Lost, Answered, Read, SlowReader, StartClosing, Drop, FinishClosing, Cut, Ends
<1>3. /\ told \subseteq told' /\ told' \subseteq Socket
      /\ step' \in [Socket -> Step]
      /\ \A o \in Socket : o # s => step'[o] = step[o]
  BY <1>1 DEF Alone, Upgraded, Lost, Answered, Read, SlowReader, StartClosing, Drop, FinishClosing, Cut,
              Ends, Goes, TypeOK, Step
<1>4. TypeOK'
  BY <1>1, <1>2, <1>3 DEF TypeOK, rooms, closing
<1>5. RegistryInv' /\ SessionInv' /\ HeldInv' /\ ListedCanBeJoined'
  BY <1>1, <1>2 DEF RegistryInv, SessionInv, HeldInv, ListedCanBeJoined, rooms
<1>6. OpensInv'
  <2>1. reply[s] = "none" /\ step[s] \in Waiting
          => step'[s] \in Waiting
    BY <1>1, <1>2 DEF Alone, Upgraded, Lost, Answered, Read, SlowReader, StartClosing, Drop,
                      FinishClosing, Cut, Ends, Goes, TypeOK, Waiting
  <2>2. UNCHANGED <<inbox, asked, reply>>
    BY <1>2 DEF rooms
  <2>3. \A o \in Socket : reply[o] = "none" /\ step[o] \in Waiting
          => step'[o] \in Waiting
    BY <1>3, <2>1
  <2>4. \A i \in Instance : \A k \in 1..Len(inbox[i]) :
          inbox[i][k].kind = "open" => inbox[i][k].from \in Socket
    BY <1>1 DEF TypeOK, Command
  <2>5. QED
    BY <1>1, <2>2, <2>3, <2>4 DEF OpensInv
<1>7. StepsInv'
  <2>1. /\ step[s] # "new" /\ step'[s] # "new"
        /\ step'[s] = "again" => reply[s] = "ended"
        /\ step'[s] \in {"open", "sending"} => linked(s) \/ s \in told'
        /\ (step'[s] \in {"upgrading", "asking", "open", "sending"} /\ linked(s) /\ s \notin told')
             => step[s] \in {"upgrading", "asking", "open", "sending"} /\ s \notin told
    BY <1>1, <1>2 DEF Alone, Upgraded, Lost, Answered, Read, SlowReader, StartClosing, Drop,
                      FinishClosing, Cut, Ends, Goes, TypeOK, StepsInv, served, linked
  <2>2. UNCHANGED <<session, asked, reply, wants>>
    BY <1>2 DEF rooms
  <2>3. QED
    BY <1>1, <1>3, <2>1, <2>2 DEF StepsInv, served, linked
<1>8. QED
  BY <1>4, <1>5, <1>6, <1>7 DEF RoomsInv

LEMMA Capacities ==
  /\ MaxSockets \in Nat /\ MaxRooms \in Nat /\ Inbox \in Nat /\ MaxInstances \in Nat
  /\ Inbox >= 1 /\ MaxSockets >= 1
  /\ NoRoom \notin Instance
BY ServerAssumption DEF NoRoom, Instance

\* Other commands do not disturb the Opens of an inbox.
LEMMA SendsKeepOpens ==
  ASSUME TypeOK, OpensInv, NEW i \in Instance \cup {NoRoom}, NEW m \in Command, m.kind # "open",
         Sends(i, m), UNCHANGED <<asked, reply>>,
         \A o \in Socket : step[o] \in Waiting => step'[o] = step[o]
  PROVE  /\ OpensInv'
         /\ inbox' \in [Instance -> Seq(Command)]
         /\ \A j \in Instance : Len(inbox'[j]) <= Inbox
<1>1. \A j \in Instance : inbox[j] \in Seq(Command) /\ Len(inbox[j]) \in Nat /\ Len(inbox[j]) <= Inbox
  BY DEF TypeOK
<1>2. \A j \in Instance : \A k \in 1..Len(inbox[j]) :
        inbox[j][k].kind = "open" => inbox[j][k].from \in Socket
  BY <1>1 DEF Command
<1>3. CASE inbox' = inbox
  BY <1>1, <1>2, <1>3 DEF OpensInv, TypeOK
<1>4. CASE InboxOpen(i) /\ HasSpace(i) /\ inbox' = [inbox EXCEPT ![i] = Append(@, m)]
  <2>1. i \in Instance /\ Len(inbox[i]) < Inbox
    BY <1>4 DEF InboxOpen, HasSpace
  <2>2. /\ inbox' \in [Instance -> Seq(Command)]
        /\ inbox'[i] = Append(inbox[i], m)
        /\ \A j \in Instance : j # i => inbox'[j] = inbox[j]
    BY <1>1, <1>4, <2>1 DEF TypeOK
  <2>3. /\ Len(inbox'[i]) = Len(inbox[i]) + 1
        /\ inbox'[i][Len(inbox[i]) + 1] = m
        /\ \A k \in 1..Len(inbox[i]) : inbox'[i][k] = inbox[i][k]
    BY <1>1, <2>1, <2>2
  <2>4. \A j \in Instance : Len(inbox'[j]) <= Inbox
    BY <1>1, <2>1, <2>2, <2>3, Capacities
  <2>5. \A j \in Instance : \A k \in 1..Len(inbox'[j]) : inbox'[j][k].kind = "open" =>
          /\ k \in 1..Len(inbox[j]) /\ inbox'[j][k] = inbox[j][k]
          /\ \A l \in 1..Len(inbox'[j]) : inbox'[j][l] = inbox'[j][k] =>
               l \in 1..Len(inbox[j]) /\ inbox'[j][l] = inbox[j][l]
    <3>1. SUFFICES ASSUME NEW j \in Instance, NEW k \in 1..Len(inbox'[j]), inbox'[j][k].kind = "open"
                   PROVE  /\ k \in 1..Len(inbox[j]) /\ inbox'[j][k] = inbox[j][k]
                          /\ \A l \in 1..Len(inbox'[j]) : inbox'[j][l] = inbox'[j][k] =>
                               l \in 1..Len(inbox[j]) /\ inbox'[j][l] = inbox[j][l]
      OBVIOUS
    <3>2. CASE j = i
      <4>1. \A l \in 1..Len(inbox'[i]) : l \in 1..Len(inbox[i]) \/ l = Len(inbox[i]) + 1
        BY <1>1, <2>1, <2>3
      <4>2. QED
        BY <2>3, <3>1, <3>2, <4>1
    <3>3. CASE j # i
      BY <2>2, <3>1, <3>3
    <3>4. QED
      BY <3>2, <3>3
  <2>6. OpensInv'
    BY <1>2, <2>5 DEF OpensInv
  <2>7. QED
    BY <2>2, <2>4, <2>6
<1>5. QED
  BY <1>3, <1>4 DEF Sends

\* A frame, and the report of a socket's end, are sent to the room.
LEMMA SendingKeeps ==
  ASSUME RoomsInv, NEW s \in Socket, Forward(s) \/ Report(s)
  PROVE  RoomsInv'
<1>1. TypeOK /\ RegistryInv /\ SessionInv /\ HeldInv /\ OpensInv /\ StepsInv /\ ListedCanBeJoined
  BY DEF RoomsInv
<1>2. UNCHANGED <<registry, made, listed, code, task, session, count, reset, wants, asked, reply,
                  told, closing>>
  BY DEF Forward, Report
<1>3. /\ step[s] \in {"sending", "reporting"}
      /\ step' \in [Socket -> Step]
      /\ \A o \in Socket : o # s => step'[o] = step[o]
      /\ step'[s] = IF step[s] = "sending" THEN "open" ELSE "gone"
  BY <1>1 DEF Forward, Report, Goes, TypeOK, Step
<1>4. /\ OpensInv'
      /\ inbox' \in [Instance -> Seq(Command)]
      /\ \A j \in Instance : Len(inbox'[j]) <= Inbox
  <2>1. PICK m \in {Text(s), Closed(s)} : Sends(asked[s], m)
    BY DEF Forward, Report
  <2>2. m \in Command /\ m.kind # "open" /\ asked[s] \in Instance \cup {NoRoom}
    BY <1>1 DEF Text, Closed, Command, TypeOK
  <2>3. \A o \in Socket : step[o] \in Waiting => step'[o] = step[o]
    BY <1>3 DEF Waiting
  <2>4. QED
    BY <1>1, <1>2, <2>1, <2>2, <2>3, SendsKeepOpens
<1>5. TypeOK'
  BY <1>1, <1>2, <1>3, <1>4 DEF TypeOK, closing
<1>6. RegistryInv' /\ SessionInv' /\ HeldInv' /\ ListedCanBeJoined'
  BY <1>1, <1>2 DEF RegistryInv, SessionInv, HeldInv, ListedCanBeJoined
<1>7. StepsInv'
  BY <1>1, <1>2, <1>3 DEF StepsInv, served, linked
<1>8. QED
  BY <1>4, <1>5, <1>6, <1>7 DEF RoomsInv

LEMMA SendResetKeeps ==
  ASSUME RoomsInv, NEW i \in Instance, SendReset(i)
  PROVE  RoomsInv'
<1>1. TypeOK /\ RegistryInv /\ SessionInv /\ HeldInv /\ OpensInv /\ StepsInv /\ ListedCanBeJoined
  BY DEF RoomsInv
<1>2. UNCHANGED <<registry, made, listed, code, task, session, count, reset, sockets, closer>>
  BY DEF SendReset
<1>3. /\ OpensInv'
      /\ inbox' \in [Instance -> Seq(Command)]
      /\ \A j \in Instance : Len(inbox'[j]) <= Inbox
  BY <1>1, <1>2, SendsKeepOpens DEF SendReset, sockets, Reset, Command
<1>4. TypeOK'
  BY <1>1, <1>2, <1>3 DEF TypeOK, sockets, SendReset
<1>5. RegistryInv' /\ SessionInv' /\ HeldInv' /\ StepsInv' /\ ListedCanBeJoined'
  BY <1>1, <1>2 DEF RegistryInv, SessionInv, HeldInv, StepsInv, ListedCanBeJoined, served, linked, sockets
<1>6. QED
  BY <1>3, <1>4, <1>5 DEF RoomsInv

-----------------------------------------------------------------------------
(* reserve.                                                                *)

\* A socket that asks is in no session and has no Open under way.
LEMMA AskerIsFree ==
  ASSUME RoomsInv, NEW s \in Socket, step[s] \in {"new", "again"}
  PROVE  /\ reply[s] \in {"none", "ended"}
         /\ \A i \in Instance : s \notin session[i].sockets
         /\ \A i \in Instance : \A k \in 1..Len(inbox[i]) :
              inbox[i][k].kind = "open" => inbox[i][k].from \in Socket \ {s}
<1>1. TypeOK /\ HeldInv /\ OpensInv /\ StepsInv
  BY DEF RoomsInv
<1>2. reply[s] \in {"none", "ended"}
  BY <1>1 DEF StepsInv
<1>3. \A i \in Instance : s \notin session[i].sockets
  BY <1>1, <1>2 DEF HeldInv
<1>4. \A i \in Instance : \A k \in 1..Len(inbox[i]) :
        inbox[i][k].kind = "open" => inbox[i][k].from \in Socket
  BY <1>1 DEF TypeOK, Command
<1>5. QED
  BY <1>1, <1>2, <1>3, <1>4 DEF OpensInv, Waiting

\* An Open joins the inbox of the code's room.
LEMMA JoinsKeep ==
  ASSUME RoomsInv, NEW s \in Socket, NEW c \in Code, NEW i \in Instance,
         step[s] \in {"new", "again"}, Joins(s, c, i)
  PROVE  /\ inbox' \in [Instance -> Seq(Command)]
         /\ \A j \in Instance : Len(inbox'[j]) <= Inbox
         /\ \A j \in Instance : \A k \in 1..Len(inbox'[j]) : inbox'[j][k].kind = "open" =>
              /\ inbox'[j][k].from # s =>
                   k \in 1..Len(inbox[j]) /\ inbox'[j][k] = inbox[j][k]
              /\ inbox'[j][k].from = s => j = i
              /\ \A l \in 1..Len(inbox'[j]) : inbox'[j][l] = inbox'[j][k] => l = k
<1>1. TypeOK /\ OpensInv
  BY DEF RoomsInv
<1>2. \A j \in Instance : inbox[j] \in Seq(Command) /\ Len(inbox[j]) \in Nat /\ Len(inbox[j]) <= Inbox
  BY <1>1 DEF TypeOK
<1>3. Len(inbox[i]) < Inbox /\ inbox' = [inbox EXCEPT ![i] = Append(@, Open(s))]
  BY DEF Joins, HasSpace
<1>4. Open(s) \in Command /\ Open(s).kind = "open" /\ Open(s).from = s
  BY DEF Open, Command
<1>5. /\ inbox' \in [Instance -> Seq(Command)]
      /\ inbox'[i] = Append(inbox[i], Open(s))
      /\ \A j \in Instance : j # i => inbox'[j] = inbox[j]
  BY <1>1, <1>2, <1>3, <1>4 DEF TypeOK
<1>6. /\ Len(inbox'[i]) = Len(inbox[i]) + 1
      /\ inbox'[i][Len(inbox[i]) + 1] = Open(s)
      /\ \A k \in 1..Len(inbox[i]) : inbox'[i][k] = inbox[i][k]
      /\ \A k \in 1..Len(inbox'[i]) : k \in 1..Len(inbox[i]) \/ k = Len(inbox[i]) + 1
  BY <1>2, <1>4, <1>5
<1>7. \A j \in Instance : Len(inbox'[j]) <= Inbox
  BY <1>2, <1>3, <1>5, <1>6, Capacities
<1>8. \A j \in Instance : \A k \in 1..Len(inbox[j]) :
        inbox[j][k].kind = "open" => inbox[j][k].from # s
  BY AskerIsFree
<1>9. ASSUME NEW j \in Instance, NEW k \in 1..Len(inbox'[j]), inbox'[j][k].kind = "open"
      PROVE  /\ inbox'[j][k].from # s => k \in 1..Len(inbox[j]) /\ inbox'[j][k] = inbox[j][k]
             /\ inbox'[j][k].from = s => j = i
             /\ \A l \in 1..Len(inbox'[j]) : inbox'[j][l] = inbox'[j][k] => l = k
  <2>1. CASE j # i
    BY <1>1, <1>5, <1>8, <1>9, <2>1 DEF OpensInv
  <2>2. CASE j = i /\ k \in 1..Len(inbox[i])
    <3>1. inbox'[i][k] = inbox[i][k] /\ inbox[i][k].kind = "open" /\ inbox[i][k].from # s
      BY <1>6, <1>8, <1>9, <2>2
    <3>2. \A l \in 1..Len(inbox'[i]) : inbox'[i][l] = inbox'[i][k] => l \in 1..Len(inbox[i])
      BY <1>4, <1>6, <3>1
    <3>3. QED
      BY <1>1, <1>6, <2>2, <3>1, <3>2 DEF OpensInv
  <2>3. CASE j = i /\ k = Len(inbox[i]) + 1
    <3>1. inbox'[i][k] = Open(s)
      BY <1>6, <2>3
    <3>2. \A l \in 1..Len(inbox[i]) : inbox'[i][l] # Open(s)
      BY <1>4, <1>6, <1>8
    <3>3. QED
      BY <1>4, <1>6, <2>3, <3>1, <3>2
  <2>4. QED
    BY <1>6, <2>1, <2>2, <2>3
<1>10. QED
  BY <1>5, <1>7, <1>9

LEMMA ReservesKeep ==
  ASSUME RoomsInv, NEW s \in Socket, NEW c \in Code, step[s] \in {"new", "again"}, Reserves(s, c),
         step' \in {[step EXCEPT ![s] = "upgrading"], [step EXCEPT ![s] = "asking"]},
         wants' = [wants EXCEPT ![s] = c],
         UNCHANGED <<listed, session, count, reset, told, closing>>
  PROVE  RoomsInv'
<1>1. TypeOK /\ RegistryInv /\ SessionInv /\ HeldInv /\ OpensInv /\ StepsInv /\ ListedCanBeJoined
  BY DEF RoomsInv
<1>2. PICK i \in Instance :
        (Joins(s, c, i) \/ Creates(s, c, i)) /\ asked' = [asked EXCEPT ![s] = i]
  BY DEF Reserves
<1>3. /\ reply' = [reply EXCEPT ![s] = "none"]
      /\ asked' \in [Socket -> Instance \cup {NoRoom}] /\ asked'[s] = i
      /\ reply' \in [Socket -> {"none", "accepted", "full", "ended"}] /\ reply'[s] = "none"
      /\ wants' \in [Socket -> Code \cup {NoCode}] /\ wants'[s] = c
      /\ step' \in [Socket -> Step] /\ step'[s] \in {"upgrading", "asking"}
      /\ \A o \in Socket : o # s => /\ asked'[o] = asked[o] /\ reply'[o] = reply[o]
                                    /\ wants'[o] = wants[o] /\ step'[o] = step[o]
  BY <1>1, <1>2 DEF Reserves, TypeOK, Step
<1>4. i # NoRoom /\ NoRoom \notin Instance
  BY Capacities
<1>5. /\ reply[s] \in {"none", "ended"}
      /\ \A j \in Instance : s \notin session[j].sockets
      /\ \A j \in Instance : \A k \in 1..Len(inbox[j]) :
           inbox[j][k].kind = "open" => inbox[j][k].from \in Socket \ {s}
  BY AskerIsFree
<1>6. SessionInv' /\ RegistryInv' /\ ListedCanBeJoined' /\ (HeldInv /\ OpensInv)'
      /\ TypeOK'
  <2>1. CASE Joins(s, c, i)
    <3>1. UNCHANGED <<registry, made, code, task>> /\ registry[c] = i
      BY <2>1 DEF Joins
    <3>2. code[i] = c /\ i <= made
      BY <1>1, <1>4, <3>1 DEF RegistryInv, Running
    <3>3. RegistryInv' /\ SessionInv' /\ ListedCanBeJoined'
      BY <1>1, <3>1 DEF RegistryInv, SessionInv, ListedCanBeJoined
    <3>4. HeldInv'
      BY <1>1, <1>3, <1>5, <3>1, <3>2 DEF HeldInv, TypeOK, Session
    <3>5. /\ inbox' \in [Instance -> Seq(Command)]
          /\ \A j \in Instance : Len(inbox'[j]) <= Inbox
          /\ \A j \in Instance : \A k \in 1..Len(inbox'[j]) : inbox'[j][k].kind = "open" =>
               /\ inbox'[j][k].from # s =>
                    k \in 1..Len(inbox[j]) /\ inbox'[j][k] = inbox[j][k]
               /\ inbox'[j][k].from = s => j = i
               /\ \A l \in 1..Len(inbox'[j]) : inbox'[j][l] = inbox'[j][k] => l = k
      BY <2>1, JoinsKeep
    <3>6. OpensInv'
      <4>1. SUFFICES ASSUME NEW j \in Instance, NEW k \in 1..Len(inbox'[j]), inbox'[j][k].kind = "open"
                     PROVE  LET o == inbox'[j][k].from IN
                            asked'[o] = j /\ reply'[o] = "none" /\ step'[o] \in Waiting
        BY <3>5 DEF OpensInv
      <4>2. CASE inbox'[j][k].from = s
        BY <1>3, <3>5, <4>1, <4>2 DEF Waiting
      <4>3. CASE inbox'[j][k].from # s
        BY <1>1, <1>3, <1>5, <3>5, <4>1, <4>3 DEF OpensInv
      <4>4. QED
        BY <4>2, <4>3
    <3>7. TypeOK'
      BY <1>1, <1>3, <3>1, <3>5 DEF TypeOK, closing
    <3>8. QED
      BY <3>3, <3>4, <3>6, <3>7
  <2>2. CASE Creates(s, c, i)
    <3>1. /\ i = made + 1 /\ made' = i
          /\ registry' = [registry EXCEPT ![c] = i]
          /\ code' = [code EXCEPT ![i] = c]
          /\ task' = [task EXCEPT ![i] = "select"]
          /\ inbox' = [inbox EXCEPT ![i] = <<Open(s)>>]
          /\ ~InboxOpen(registry[c])
      BY <2>2 DEF Creates
    <3>2. registry[c] = NoRoom
      BY <1>1, <3>1 DEF RegistryInv, InboxOpen, Running, TypeOK
    <3>3. made \in Nat /\ \A j \in Instance : j \in Nat
      BY <1>1, Capacities DEF TypeOK, Instance
    <3>4. task[i] = "none"
      BY <1>1, <3>1, <3>3 DEF RegistryInv
    <3>5. RegistryInv'
      <4>1. \A j \in Instance : j <= made' <=> task'[j] # "none"
        BY <1>1, <3>1, <3>3 DEF RegistryInv, TypeOK
      <4>2. \A j \in Instance : task'[j] \in Running => code'[j] \in Code /\ registry'[code'[j]] = j
        BY <1>1, <1>4, <3>1, <3>2 DEF RegistryInv, TypeOK
      <4>3. \A d \in Code : registry'[d] # NoRoom => code'[registry'[d]] = d /\ task'[registry'[d]] \in Running
        <5>1. SUFFICES ASSUME NEW d \in Code, registry'[d] # NoRoom
                       PROVE  code'[registry'[d]] = d /\ task'[registry'[d]] \in Running
          OBVIOUS
        <5>2. CASE d = c
          BY <1>1, <3>1, <5>2 DEF TypeOK, Running
        <5>3. CASE d # c
          <6>1. registry'[d] = registry[d] /\ registry[d] \in Instance /\ code[registry[d]] = d
                /\ task[registry[d]] \in Running
            BY <1>1, <3>1, <5>1, <5>3 DEF TypeOK, RegistryInv
          <6>2. registry[d] # i
            BY <3>4, <6>1 DEF Running
          <6>3. QED
            BY <1>1, <3>1, <6>1, <6>2 DEF TypeOK
        <5>4. QED
          BY <5>2, <5>3
      <4>4. QED
        BY <4>1, <4>2, <4>3 DEF RegistryInv
    <3>6. SessionInv'
      BY <1>1, <3>1, <3>4 DEF SessionInv, TypeOK
    <3>7. ListedCanBeJoined'
      BY <1>1, <3>1, <3>2 DEF ListedCanBeJoined, TypeOK
    <3>8. HeldInv'
      <4>1. \A j \in Instance : \A o \in session'[j].sockets : asked'[o] = j /\ reply'[o] = "accepted"
        BY <1>1, <1>3, <1>5 DEF HeldInv, TypeOK, Session
      <4>2. \A o \in Socket : asked'[o] # NoRoom => asked'[o] <= made' /\ code'[asked'[o]] = wants'[o]
        <5>1. SUFFICES ASSUME NEW o \in Socket, asked'[o] # NoRoom
                       PROVE  asked'[o] <= made' /\ code'[asked'[o]] = wants'[o]
          OBVIOUS
        <5>2. CASE o = s
          BY <1>1, <1>3, <3>1, <3>3, <5>2 DEF TypeOK
        <5>3. CASE o # s
          <6>1. asked'[o] = asked[o] /\ asked[o] \in Instance /\ asked[o] <= made
                /\ code[asked[o]] = wants[o] /\ wants'[o] = wants[o]
            BY <1>1, <1>3, <5>1, <5>3 DEF TypeOK, HeldInv
          <6>2. asked[o] # i /\ asked[o] <= made'
            <7>1. asked[o] \in Nat
              BY <3>3, <6>1
            <7>2. QED
              BY <3>1, <3>3, <6>1, <7>1
          <6>3. code'[asked[o]] = code[asked[o]]
            BY <1>1, <3>1, <6>1, <6>2 DEF TypeOK
          <6>4. QED
            BY <6>1, <6>2, <6>3
        <5>4. QED
          BY <5>2, <5>3
      <4>3. QED
        BY <4>1, <4>2 DEF HeldInv
    <3>9. /\ inbox' \in [Instance -> Seq(Command)]
          /\ inbox'[i] = <<Open(s)>>
          /\ \A j \in Instance : j # i => inbox'[j] = inbox[j]
      BY <1>1, <3>1 DEF TypeOK, Open, Command
    <3>10. Len(inbox'[i]) = 1 /\ inbox'[i][1] = Open(s) /\ Open(s).from = s
      BY <3>9 DEF Open
    <3>11. \A j \in Instance : Len(inbox'[j]) <= Inbox
      BY <1>1, <3>9, <3>10, Capacities DEF TypeOK
    <3>12. OpensInv'
      <4>1. SUFFICES ASSUME NEW j \in Instance, NEW k \in 1..Len(inbox'[j]), inbox'[j][k].kind = "open"
                     PROVE  /\ asked'[inbox'[j][k].from] = j
                            /\ reply'[inbox'[j][k].from] = "none"
                            /\ step'[inbox'[j][k].from] \in Waiting
                            /\ \A l \in 1..Len(inbox'[j]) : inbox'[j][l] = inbox'[j][k] => l = k
        BY DEF OpensInv
      <4>2. CASE j = i
        BY <1>3, <3>10, <4>1, <4>2 DEF Waiting
      <4>3. CASE j # i
        BY <1>1, <1>3, <1>5, <3>9, <4>1, <4>3 DEF OpensInv
      <4>4. QED
        BY <4>2, <4>3
    <3>13. TypeOK'
      <4>1. registry' \in [Code -> Instance \cup {NoRoom}] /\ made' \in 0..MaxInstances
            /\ code' \in [Instance -> Code \cup {NoCode}]
            /\ task' \in [Instance -> {"none", "select", "turned", "leaving", "draining", "over"}]
        BY <1>1, <3>1, <3>3, Capacities DEF TypeOK, Instance
      <4>2. QED
        BY <1>1, <1>3, <3>9, <3>11, <4>1 DEF TypeOK, closing
    <3>14. QED
      BY <3>5, <3>6, <3>7, <3>8, <3>12, <3>13
  <2>3. QED
    BY <1>2, <2>1, <2>2
<1>7. StepsInv'
  BY <1>1, <1>3 DEF StepsInv, served, linked
<1>8. QED
  BY <1>6, <1>7 DEF RoomsInv

LEMMA UpgradeKeeps ==
  ASSUME RoomsInv, NEW s \in Socket, Upgrade(s)
  PROVE  RoomsInv'
<1>1. TypeOK /\ RegistryInv /\ SessionInv /\ HeldInv /\ OpensInv /\ StepsInv /\ ListedCanBeJoined
  BY DEF RoomsInv
<1>2. PICK c \in Code :
        /\ wants' = [wants EXCEPT ![s] = c]
        /\ \/ Reserves(s, c) /\ Goes(s, "upgrading")
           \/ ReserveFails(c) /\ Goes(s, "gone")
  BY DEF Upgrade
<1>3. step[s] = "new" /\ UNCHANGED <<listed, session, count, reset, told, closing>>
  BY DEF Upgrade
<1>4. CASE Reserves(s, c) /\ Goes(s, "upgrading")
  BY <1>2, <1>3, <1>4, ReservesKeep DEF Goes
<1>5. CASE ReserveFails(c) /\ Goes(s, "gone")
  <2>1. UNCHANGED <<registry, made, code, task, inbox, asked, reply>>
    BY <1>5 DEF ReserveFails
  <2>2. /\ wants' \in [Socket -> Code \cup {NoCode}] /\ step' \in [Socket -> Step] /\ step'[s] = "gone"
        /\ \A o \in Socket : o # s => wants'[o] = wants[o] /\ step'[o] = step[o]
    BY <1>1, <1>2, <1>5 DEF TypeOK, Goes, Step
  <2>3. asked[s] = NoRoom /\ reply[s] = "none"
    BY <1>1, <1>3 DEF StepsInv
  <2>4. TypeOK'
    BY <1>1, <1>3, <2>1, <2>2 DEF TypeOK, closing
  <2>5. RegistryInv' /\ SessionInv' /\ ListedCanBeJoined'
    BY <1>1, <1>3, <2>1 DEF RegistryInv, SessionInv, ListedCanBeJoined
  <2>6. HeldInv'
    BY <1>1, <1>3, <2>1, <2>2, <2>3 DEF HeldInv
  <2>7. OpensInv'
    <3>1. \A j \in Instance : \A k \in 1..Len(inbox[j]) :
            inbox[j][k].kind = "open" => inbox[j][k].from \in Socket \ {s}
      BY <1>3, AskerIsFree
    <3>2. QED
      BY <1>1, <2>1, <2>2, <3>1 DEF OpensInv
  <2>8. wants'[s] \in Code
    BY <1>1, <1>2 DEF TypeOK
  <2>9. StepsInv'
    BY <1>1, <1>3, <2>1, <2>2, <2>8 DEF StepsInv, served, linked
  <2>10. QED
    BY <2>4, <2>5, <2>6, <2>7, <2>9 DEF RoomsInv
<1>6. QED
  BY <1>2, <1>4, <1>5

LEMMA AgainKeeps ==
  ASSUME RoomsInv, NEW s \in Socket, Again(s)
  PROVE  RoomsInv'
<1>1. TypeOK /\ RegistryInv /\ SessionInv /\ HeldInv /\ OpensInv /\ StepsInv /\ ListedCanBeJoined
  BY DEF RoomsInv
<1>2. step[s] = "again" /\ UNCHANGED <<listed, session, count, reset, wants, closing>>
  BY DEF Again
<1>3. CASE Reserves(s, wants[s]) /\ Goes(s, "asking") /\ UNCHANGED told
  <2>1. wants[s] \in Code
    BY <1>1, <1>2 DEF StepsInv
  <2>2. QED
    BY <1>1, <1>2, <1>3, <2>1, ReservesKeep DEF Goes, TypeOK
<1>4. CASE ReserveFails(wants[s]) /\ Goes(s, "open") /\ told' = told \cup {s}
  <2>1. UNCHANGED <<registry, made, code, task, inbox, asked, reply>>
    BY <1>4 DEF ReserveFails
  <2>2. /\ step' \in [Socket -> Step] /\ step'[s] = "open"
        /\ \A o \in Socket : o # s => step'[o] = step[o]
    BY <1>1, <1>4 DEF TypeOK, Goes, Step
  <2>3. TypeOK'
    BY <1>1, <1>2, <1>4, <2>1, <2>2 DEF TypeOK, closing
  <2>4. RegistryInv' /\ SessionInv' /\ HeldInv' /\ ListedCanBeJoined'
    BY <1>1, <1>2, <2>1 DEF RegistryInv, SessionInv, HeldInv, ListedCanBeJoined
  <2>5. OpensInv'
    <3>1. \A j \in Instance : \A k \in 1..Len(inbox[j]) :
            inbox[j][k].kind = "open" => inbox[j][k].from \in Socket \ {s}
      BY <1>2, AskerIsFree
    <3>2. QED
      BY <1>1, <2>1, <2>2, <3>1 DEF OpensInv
  <2>6. StepsInv'
    BY <1>1, <1>2, <1>4, <2>1, <2>2 DEF StepsInv, served, linked
  <2>7. QED
    BY <2>3, <2>4, <2>5, <2>6 DEF RoomsInv
<1>5. QED
  BY <1>3, <1>4 DEF Again

-----------------------------------------------------------------------------
(* The tasks of rooms.                                                     *)

\* What a turn leaves of a session is within its capacity.
LEMMA FollowsFits ==
  ASSUME TypeOK, NEW i \in Instance, NEW u, Follows(session[i], u)
  PROVE  Cardinality(u.sockets) <= MaxSockets
<1>1. session[i].sockets \subseteq Socket /\ Cardinality(session[i].sockets) <= MaxSockets
      /\ u.sockets \subseteq session[i].sockets
  BY DEF TypeOK, Session, Follows
<1>2. IsFiniteSet(session[i].sockets) /\ Cardinality(session[i].sockets) \in Nat
  BY <1>1, ServerAssumption, FS_Subset, FS_CardinalityType
<1>3. Cardinality(u.sockets) <= Cardinality(session[i].sockets) /\ Cardinality(u.sockets) \in Nat
  BY <1>1, <1>2, FS_Subset, FS_CardinalityType
<1>4. QED
  BY <1>1, <1>2, <1>3, Capacities

\* A turn of room i that keeps its promises to the sockets and the inboxes.
LEMMA TurnKeeps ==
  ASSUME RoomsInv, NEW i \in Instance, NEW u, task[i] = "select",
         Follows(session[i], u), Turns(i, u), Lists(i, u),
         UNCHANGED <<registry, made, code, count, reply, step, wants, asked, closing>>,
         reset' \in [Instance -> {"none", "held", "done"}],
         inbox' \in [Instance -> Seq(Command)],
         \A j \in Instance : Len(inbox'[j]) <= Inbox,
         OpensInv'
  PROVE  RoomsInv'
<1>1. TypeOK /\ RegistryInv /\ SessionInv /\ HeldInv /\ StepsInv /\ ListedCanBeJoined
  BY DEF RoomsInv
<1>2. u \in Session /\ Sound(u) /\ u.sockets \subseteq session[i].sockets /\ u.joined \subseteq u.sockets
  BY DEF Follows, Sound
<1>3. /\ session' \in [Instance -> Session] /\ session'[i] = u
      /\ task' \in [Instance -> {"none", "select", "turned", "leaving", "draining", "over"}]
      /\ task'[i] = "turned"
      /\ \A j \in Instance : j # i => session'[j] = session[j] /\ task'[j] = task[j]
      /\ told' = told \cup (session[i].sockets \ u.sockets)
  BY <1>1, <1>2 DEF Turns, TypeOK
<1>4. code[i] \in Code /\ registry[code[i]] = i
  BY <1>1 DEF RegistryInv, Running
<1>5. TypeOK'
  <2>1. \A j \in Instance : Cardinality(session'[j].sockets) <= MaxSockets
    BY <1>1, <1>3, FollowsFits DEF TypeOK
  <2>2. told' \subseteq Socket /\ listed' \subseteq Code
    BY <1>1, <1>3, <1>4 DEF TypeOK, Session, Lists
  <2>3. QED
    BY <1>1, <1>3, <2>1, <2>2 DEF TypeOK, closing
<1>6. RegistryInv'
  <2>1. \A j \in Instance : /\ task'[j] = "none" <=> task[j] = "none"
                            /\ task'[j] \in Running <=> task[j] \in Running
    BY <1>3 DEF Running
  <2>2. \A c \in Code : registry[c] # NoRoom => registry[c] \in Instance
    BY <1>1 DEF TypeOK
  <2>3. QED
    BY <1>1, <2>1, <2>2 DEF RegistryInv
<1>7. SessionInv'
  BY <1>1, <1>2, <1>3 DEF SessionInv
<1>8. HeldInv'
  <2>1. \A j \in Instance : session'[j].sockets \subseteq session[j].sockets
    BY <1>2, <1>3
  <2>2. QED
    BY <1>1, <2>1 DEF HeldInv
<1>9. StepsInv'
  <2>1. \A o \in Socket : \A j \in Instance :
          o \in session[j].sockets /\ o \notin told' => o \in session'[j].sockets
    BY <1>3
  <2>2. told \subseteq told'
    BY <1>3
  <2>3. \A o \in Socket : asked[o] # NoRoom => asked[o] \in Instance
    BY <1>1 DEF TypeOK
  <2>4. QED
    BY <1>1, <2>1, <2>2, <2>3 DEF StepsInv, served, linked
<1>10. ListedCanBeJoined'
  <2>1. SUFFICES ASSUME NEW c \in Code, c \in listed'
                 PROVE  registry[c] # NoRoom /\ session'[registry[c]].joined # {}
    <3>1. listed' \subseteq Code
      BY <1>5 DEF TypeOK
    <3>2. QED
      BY <3>1 DEF ListedCanBeJoined
  <2>2. CASE c = code[i]
    <3>1. u.joined # {} \/ (u.joined = session[i].joined /\ c \in listed)
      BY <2>1, <2>2 DEF Lists
    <3>2. u.joined # {}
      BY <1>1, <1>4, <2>2, <3>1 DEF ListedCanBeJoined
    <3>3. QED
      BY <1>3, <1>4, <2>2, <3>2, Capacities
  <2>3. CASE c # code[i]
    <3>1. c \in listed
      BY <2>1, <2>3 DEF Lists
    <3>2. registry[c] \in Instance /\ session[registry[c]].joined # {} /\ registry[c] # NoRoom
      BY <1>1, <3>1 DEF ListedCanBeJoined, TypeOK
    <3>3. registry[c] # i
      BY <1>1, <2>3, <3>2 DEF RegistryInv
    <3>4. QED
      BY <1>3, <3>2, <3>3
  <2>4. QED
    BY <2>2, <2>3
<1>11. QED
  BY <1>5, <1>6, <1>7, <1>8, <1>9, <1>10 DEF RoomsInv

LEMMA TimerKeeps ==
  ASSUME RoomsInv, NEW i \in Instance, Timer(i)
  PROVE  RoomsInv'
<1>1. PICK u \in OnTimer(session[i]) : Turns(i, u) /\ Lists(i, u)
  BY DEF Timer
<1>2. TypeOK /\ SessionInv /\ OpensInv
  BY DEF RoomsInv
<1>3. Follows(session[i], u)
  BY <1>1, <1>2, TimerFollows DEF TypeOK, SessionInv
<1>4. /\ task[i] = "select"
      /\ UNCHANGED <<registry, made, code, inbox, count, reset, step, wants, asked, reply, closing>>
  BY DEF Timer
<1>5. OpensInv'
  BY <1>2, <1>4 DEF OpensInv
<1>6. QED
  BY <1>1, <1>2, <1>3, <1>4, <1>5, TurnKeeps DEF TypeOK

\* OpensInv of inboxes that are not yet the ones of the state, and an absent socket.
OpenWaits(box, j, k) ==
  /\ asked[box[j][k].from] = j
  /\ reply[box[j][k].from] = "none"
  /\ step[box[j][k].from] \in Waiting
  /\ \A l \in 1..Len(box[j]) : box[j][l] = box[j][k] => l = k

OpensOf(box) ==
  \A j \in Instance : \A k \in 1..Len(box[j]) : box[j][k].kind = "open" => OpenWaits(box, j, k)

NoOpenFrom(box, s) ==
  \A j \in Instance : \A k \in 1..Len(box[j]) : box[j][k].kind = "open" =>
    box[j][k].from \in Socket \ {s}

\* The command at the head of an inbox goes; if it is an Open, its socket has no other.
LEMMA HeadGoes ==
  ASSUME TypeOK, OpensInv, NEW i \in Instance, inbox[i] # <<>>, NEW m, m = Head(inbox[i]),
         inbox' = [inbox EXCEPT ![i] = Tail(@)]
  PROVE  /\ m \in Command
         /\ inbox' \in [Instance -> Seq(Command)]
         /\ \A j \in Instance : Len(inbox'[j]) <= Inbox
         /\ OpensOf(inbox')
         /\ m.kind = "open" =>
              LET s == m.from IN
                /\ s \in Socket /\ asked[s] = i /\ reply[s] = "none" /\ step[s] \in Waiting
                /\ NoOpenFrom(inbox', s)
<1>1. \A j \in Instance : inbox[j] \in Seq(Command) /\ Len(inbox[j]) \in Nat /\ Len(inbox[j]) <= Inbox
  BY DEF TypeOK
<1>2. /\ inbox' \in [Instance -> Seq(Command)]
      /\ inbox'[i] = Tail(inbox[i])
      /\ \A j \in Instance : j # i => inbox'[j] = inbox[j]
  BY <1>1 DEF TypeOK
<1>3. /\ Len(inbox[i]) >= 1
      /\ m = inbox[i][1]
      /\ Len(inbox'[i]) = Len(inbox[i]) - 1
      /\ \A k \in 1..Len(inbox'[i]) : k + 1 \in 1..Len(inbox[i]) /\ inbox'[i][k] = inbox[i][k + 1]
  BY <1>1, <1>2
<1>4. 1 \in 1..Len(inbox[i]) /\ inbox[i][1] \in Command
  BY <1>1, <1>3
<1>5. \A o \in Command : o.kind = "open" => o.from \in Socket /\ o = Open(o.from)
  BY DEF Command, Open
<1>6. m.kind = "open" =>
        LET s == m.from IN
          s \in Socket /\ asked[s] = i /\ reply[s] = "none" /\ step[s] \in Waiting
  BY <1>3, <1>4, <1>5 DEF OpensInv
<1>7. \A j \in Instance : Len(inbox'[j]) <= Inbox
  BY <1>1, <1>2, <1>3, Capacities
<1>8. ASSUME NEW j \in Instance, NEW k \in 1..Len(inbox'[j]), inbox'[j][k].kind = "open"
      PROVE  /\ OpenWaits(inbox', j, k)
             /\ m.kind = "open" => inbox'[j][k].from \in Socket \ {m.from}
  <2>1. CASE j # i
    <3>1. k \in 1..Len(inbox[j]) /\ inbox[j][k] \in Command /\ inbox'[j] = inbox[j]
      BY <1>1, <1>2, <1>8, <2>1
    <3>2. QED
      BY <1>5, <1>6, <1>8, <2>1, <3>1 DEF OpensInv, OpenWaits
  <2>2. CASE j = i
    <3>1. /\ k + 1 \in 1..Len(inbox[i]) /\ inbox'[i][k] = inbox[i][k + 1]
          /\ inbox[i][k + 1] \in Command /\ k \in Nat /\ k >= 1
      BY <1>1, <1>3, <1>8, <2>2
    <3>2. \A l \in 1..Len(inbox[i]) : inbox[i][l] = inbox[i][k + 1] => l = k + 1
      BY <1>8, <2>2, <3>1 DEF OpensInv
    <3>3. inbox[i][1] # inbox[i][k + 1]
      BY <1>4, <3>1, <3>2
    <3>4. m.kind = "open" => inbox'[j][k].from # m.from
      BY <1>3, <1>4, <1>5, <1>8, <2>2, <3>1, <3>3
    <3>5. \A l \in 1..Len(inbox'[i]) : inbox'[i][l] = inbox'[i][k] => l = k
      <4>1. SUFFICES ASSUME NEW l \in 1..Len(inbox'[i]), inbox'[i][l] = inbox'[i][k]
                     PROVE  l = k
        OBVIOUS
      <4>2. l + 1 = k + 1
        BY <1>3, <3>1, <3>2, <4>1
      <4>3. QED
        BY <1>8, <4>1, <4>2, <2>2
    <3>6. QED
      BY <1>5, <1>8, <2>2, <3>1, <3>4, <3>5 DEF OpensInv, OpenWaits
  <2>3. QED
    BY <2>1, <2>2
<1>9. /\ OpensOf(inbox')
      /\ m.kind = "open" => NoOpenFrom(inbox', m.from)
  <2>1. OpensOf(inbox')
    BY <1>8 DEF OpensOf
  <2>2. ASSUME m.kind = "open"
        PROVE  NoOpenFrom(inbox', m.from)
    BY <1>8, <2>2 DEF NoOpenFrom
  <2>3. QED
    BY <2>1, <2>2
<1>10. QED
  BY <1>2, <1>3, <1>4, <1>6, <1>7, <1>9

\* The room answers an Open.
LEMMA OpenKeeps ==
  ASSUME RoomsInv, NEW i \in Instance, NEW s \in Socket, Receive(i),
         Head(inbox[i]).kind = "open", Head(inbox[i]).from = s, HandleOpen(i, s)
  PROVE  RoomsInv'
<1> DEFINE u == IF Full(session[i]) THEN session[i] ELSE Accept(session[i], s)
<1>1. TypeOK /\ RegistryInv /\ SessionInv /\ HeldInv /\ OpensInv /\ StepsInv /\ ListedCanBeJoined
  BY DEF RoomsInv
<1>2. /\ task[i] = "select"
      /\ inbox[i] # <<>> /\ inbox' = [inbox EXCEPT ![i] = Tail(@)]
      /\ UNCHANGED <<registry, made, code, count, step, wants, asked, closing>>
  BY DEF Receive
<1>3. Turns(i, u) /\ UNCHANGED <<listed, reset>>
      /\ reply' = [reply EXCEPT ![s] = IF Full(session[i]) THEN "full" ELSE "accepted"]
  BY DEF HandleOpen
<1>4. s \in Socket /\ asked[s] = i /\ reply[s] = "none" /\ step[s] \in Waiting
  BY <1>1, <1>2, HeadGoes
<1>5. session[i] \in Session /\ Sound(session[i]) /\ ~session[i].ended
  BY <1>1, <1>2 DEF TypeOK, SessionInv
<1>6. /\ u \in Session /\ Sound(u) /\ u.joined = session[i].joined /\ ~u.ended
      /\ u.sockets = IF Full(session[i]) THEN session[i].sockets ELSE session[i].sockets \cup {s}
  BY <1>4, <1>5, AcceptIsSound
<1>7. Cardinality(u.sockets) <= MaxSockets
  <2>1. CASE Full(session[i])
    BY <1>1, <1>6, <2>1 DEF TypeOK
  <2>2. CASE ~Full(session[i])
    <3>1. IsFiniteSet(session[i].sockets)
      BY <1>5, ServerAssumption, FS_Subset DEF Session
    <3>2. Cardinality(session[i].sockets) \in Nat /\ Cardinality(session[i].sockets) < MaxSockets
      BY <2>2, <3>1, FS_CardinalityType, Capacities DEF Full
    <3>3. Cardinality(session[i].sockets \cup {s}) \in
            {Cardinality(session[i].sockets), Cardinality(session[i].sockets) + 1}
      BY <3>1, FS_AddElement
    <3>4. u.sockets = session[i].sockets \cup {s}
      BY <1>6, <2>2
    <3> HIDE DEF u
    <3>5. QED
      BY <3>2, <3>3, <3>4, Capacities
  <2>3. QED
    BY <2>1, <2>2
<1> HIDE DEF u
<1>8. /\ session' \in [Instance -> Session] /\ session'[i] = u
      /\ task' \in [Instance -> {"none", "select", "turned", "leaving", "draining", "over"}]
      /\ task'[i] = "turned"
      /\ \A j \in Instance : j # i => session'[j] = session[j] /\ task'[j] = task[j]
      /\ told' = told
  BY <1>1, <1>3, <1>6 DEF Turns, TypeOK
<1>9. /\ reply' \in [Socket -> {"none", "accepted", "full", "ended"}]
      /\ reply'[s] = IF Full(session[i]) THEN "full" ELSE "accepted"
      /\ \A o \in Socket : o # s => reply'[o] = reply[o]
  BY <1>1, <1>3, <1>4 DEF TypeOK
<1>10. /\ inbox' \in [Instance -> Seq(Command)]
       /\ \A j \in Instance : Len(inbox'[j]) <= Inbox
       /\ OpensOf(inbox') /\ NoOpenFrom(inbox', s)
  BY <1>1, <1>2, HeadGoes
<1>11. TypeOK'
  <2>1. \A j \in Instance : Cardinality(session'[j].sockets) <= MaxSockets
    BY <1>1, <1>7, <1>8 DEF TypeOK
  <2>2. QED
    BY <1>1, <1>2, <1>3, <1>8, <1>9, <1>10, <2>1 DEF TypeOK, closing
<1>12. RegistryInv'
  <2>1. \A j \in Instance : /\ task'[j] = "none" <=> task[j] = "none"
                            /\ task'[j] \in Running <=> task[j] \in Running
    BY <1>2, <1>8 DEF Running
  <2>2. \A c \in Code : registry[c] # NoRoom => registry[c] \in Instance
    BY <1>1 DEF TypeOK
  <2>3. QED
    BY <1>1, <1>2, <2>1, <2>2 DEF RegistryInv
<1>13. SessionInv'
  BY <1>1, <1>6, <1>8 DEF SessionInv
<1>14. \A j \in Instance : s \notin session[j].sockets
  BY <1>1, <1>4 DEF HeldInv
<1>15. \A j \in Instance : \A o \in session'[j].sockets :
         (o \in session[j].sockets /\ o # s) \/ (o = s /\ j = i /\ ~Full(session[i]))
  BY <1>6, <1>8, <1>14
<1>16. HeldInv'
  <2>1. \A j \in Instance : session[j].sockets \subseteq Socket
    BY <1>1 DEF TypeOK, Session
  <2>2. \A j \in Instance : \A o \in session'[j].sockets : asked'[o] = j /\ reply'[o] = "accepted"
    BY <1>1, <1>2, <1>4, <1>9, <1>15, <2>1 DEF HeldInv
  <2>3. QED
    BY <1>1, <1>2, <2>2 DEF HeldInv
<1>17. OpensInv'
  <2>1. \A j \in Instance : \A k \in 1..Len(inbox'[j]) : inbox'[j][k].kind = "open" =>
          reply'[inbox'[j][k].from] = "none"
    BY <1>9, <1>10 DEF OpensOf, OpenWaits, NoOpenFrom
  <2>2. UNCHANGED <<step, asked>>
    BY <1>2
  <2>3. OpensOf(inbox')
    BY <1>10
  <2>4. QED
    BY <2>1, <2>2, <2>3 DEF OpensInv, OpensOf, OpenWaits
<1>18. StepsInv'
  <2>1. \A j \in Instance : session[j].sockets \subseteq session'[j].sockets
    BY <1>6, <1>8
  <2>2. ~Full(session[i]) => s \in session'[i].sockets
    BY <1>6, <1>8
  <2>3. \A o \in Socket : asked[o] # NoRoom => asked[o] \in Instance
    BY <1>1 DEF TypeOK
  <2>4. ASSUME NEW o \in Socket, o # s
        PROVE  /\ step'[o] = "new" => asked'[o] = NoRoom /\ reply'[o] = "none"
               /\ step'[o] # "new" => wants'[o] \in Code
               /\ step'[o] = "again" => reply'[o] = "ended"
               /\ served(o)' => linked(o)' \/ o \in told'
               /\ (step'[o] \in {"upgrading", "asking", "open", "sending"} /\ linked(o)' /\ o \notin told')
                    => asked'[o] # NoRoom /\ o \in session'[asked'[o]].sockets
    BY <1>1, <1>2, <1>8, <1>9, <2>1, <2>3, <2>4 DEF StepsInv, served, linked
  <2>5. /\ step'[s] \in Waiting /\ wants'[s] \in Code
        /\ linked(s)' => ~Full(session[i])
        /\ asked'[s] = i /\ i # NoRoom
    BY <1>1, <1>2, <1>4, <1>9, Capacities DEF StepsInv, linked, Waiting
  <2>6. QED
    BY <2>2, <2>4, <2>5 DEF StepsInv, served, linked, Waiting
<1>19. ListedCanBeJoined'
  <2>1. \A j \in Instance : session'[j].joined = session[j].joined
    BY <1>6, <1>8
  <2>2. \A c \in listed : registry[c] \in Instance
    BY <1>1 DEF ListedCanBeJoined, TypeOK
  <2>3. QED
    BY <1>1, <1>2, <1>3, <2>1, <2>2 DEF ListedCanBeJoined
<1>20. QED
  BY <1>11, <1>12, <1>13, <1>16, <1>17, <1>18, <1>19 DEF RoomsInv

LEMMA ReceiveKeeps ==
  ASSUME RoomsInv, NEW i \in Instance, Receive(i)
  PROVE  RoomsInv'
<1> DEFINE m == Head(inbox[i])
<1>1. TypeOK /\ SessionInv /\ OpensInv
  BY DEF RoomsInv
<1>2. /\ task[i] = "select"
      /\ inbox[i] # <<>> /\ inbox' = [inbox EXCEPT ![i] = Tail(@)]
      /\ UNCHANGED <<registry, made, code, count, step, wants, asked, closing>>
  BY DEF Receive
<1>3. /\ m \in Command
      /\ inbox' \in [Instance -> Seq(Command)]
      /\ \A j \in Instance : Len(inbox'[j]) <= Inbox
      /\ UNCHANGED reply => OpensInv'
  <2>1. OpensOf(inbox')
    BY <1>1, <1>2, HeadGoes
  <2>2. ASSUME UNCHANGED reply
        PROVE  OpensInv'
    <3>1. UNCHANGED <<asked, reply, step>>
      BY <1>2, <2>2
    <3>2. QED
      BY <2>1, <3>1 DEF OpensInv, OpensOf, OpenWaits
  <2>3. QED
    BY <1>1, <1>2, <2>2, HeadGoes
<1>4. session[i] \in Session /\ Sound(session[i])
  BY <1>1 DEF TypeOK, SessionInv
<1>5. reset' \in [Instance -> {"none", "held", "done"}]
  BY <1>1 DEF Receive, HandleOpen, HandleText, HandleClosed, HandleReset, TypeOK
<1>6. CASE m.kind = "open" /\ HandleOpen(i, m.from)
  BY <1>3, <1>6, OpenKeeps DEF Command
<1>7. CASE m.kind = "text" /\ HandleText(i, m.from)
  <2>1. m.from \in Socket
    BY <1>3, <1>7 DEF Command
  <2>2. PICK u \in Messages(session[i], m.from) : Turns(i, u) /\ Lists(i, u)
    BY <1>7 DEF HandleText
  <2>3. Follows(session[i], u) /\ UNCHANGED reply
    BY <1>4, <1>7, <2>1, <2>2, MessagesFollow DEF HandleText
  <2>4. QED
    BY <1>2, <1>3, <1>5, <2>2, <2>3, TurnKeeps
<1>8. CASE m.kind = "closed" /\ HandleClosed(i, m.from)
  <2>1. m.from \in Socket
    BY <1>3, <1>8 DEF Command
  <2>2. PICK u \in Closes(session[i], m.from) : Turns(i, u) /\ Lists(i, u)
    BY <1>8 DEF HandleClosed
  <2>3. Follows(session[i], u) /\ UNCHANGED reply
    BY <1>4, <1>8, <2>1, <2>2, ClosesFollow DEF HandleClosed
  <2>4. QED
    BY <1>2, <1>3, <1>5, <2>2, <2>3, TurnKeeps
<1>9. CASE m.kind = "reset" /\ HandleReset(i)
  <2>1. /\ Turns(i, ResetBy(session[i])) /\ Lists(i, ResetBy(session[i]))
        /\ UNCHANGED reply
    BY <1>9 DEF HandleReset
  <2>2. Follows(session[i], ResetBy(session[i]))
    BY <1>4, ResetFollows
  <2>3. QED
    BY <1>2, <1>3, <1>5, <2>1, <2>2, TurnKeeps
<1>10. QED
  BY <1>6, <1>7, <1>8, <1>9 DEF Receive

LEMMA PublishKeeps ==
  ASSUME RoomsInv, NEW i \in Instance, Publish(i)
  PROVE  RoomsInv'
<1> DEFINE u == [session[i] EXCEPT !.ended = FALSE]
<1>1. TypeOK /\ RegistryInv /\ SessionInv /\ HeldInv /\ OpensInv /\ StepsInv /\ ListedCanBeJoined
  BY DEF RoomsInv
<1>2. /\ task[i] = "turned"
      /\ count' = [count EXCEPT ![i] = Cardinality(session[i].sockets)]
      /\ task' = [task EXCEPT ![i] = IF session[i].ended THEN "leaving" ELSE "select"]
      /\ session' = [session EXCEPT ![i] = u]
      /\ UNCHANGED <<registry, made, listed, code, inbox, reset, sockets, closing>>
  BY DEF Publish
<1>3. session[i] \in Session /\ Sound(session[i])
  BY <1>1 DEF TypeOK, SessionInv
<1>4. /\ u \in Session /\ Sound(u) /\ ~u.ended
      /\ u.sockets = session[i].sockets /\ u.joined = session[i].joined
      /\ session[i].ended => u.sockets = {} /\ u.host # "alive"
  BY <1>3 DEF Session, Sound
<1> HIDE DEF u
<1>5. /\ session' \in [Instance -> Session] /\ session'[i] = u
      /\ task' \in [Instance -> {"none", "select", "turned", "leaving", "draining", "over"}]
      /\ task'[i] = IF session[i].ended THEN "leaving" ELSE "select"
      /\ \A j \in Instance : j # i => session'[j] = session[j] /\ task'[j] = task[j]
  BY <1>1, <1>2, <1>4 DEF TypeOK
<1>6. \A j \in Instance : /\ session'[j].sockets = session[j].sockets
                          /\ session'[j].joined = session[j].joined
                          /\ task'[j] = "none" <=> task[j] = "none"
                          /\ task'[j] \in Running <=> task[j] \in Running
  BY <1>2, <1>4, <1>5 DEF Running
<1>7. TypeOK'
  <2>1. Cardinality(session[i].sockets) \in 0..MaxSockets
    <3>1. IsFiniteSet(session[i].sockets)
      BY <1>3, ServerAssumption, FS_Subset DEF Session
    <3>2. Cardinality(session[i].sockets) \in Nat /\ Cardinality(session[i].sockets) <= MaxSockets
      BY <1>1, <3>1, FS_CardinalityType DEF TypeOK
    <3>3. QED
      BY <3>2, Capacities
  <2>2. count' \in [Instance -> 0..MaxSockets]
    BY <1>1, <1>2, <2>1 DEF TypeOK
  <2>3. \A j \in Instance : Cardinality(session'[j].sockets) <= MaxSockets
    BY <1>1, <1>6 DEF TypeOK
  <2>4. QED
    BY <1>1, <1>2, <1>5, <2>2, <2>3 DEF TypeOK, sockets, closing
<1>8. \A c \in Code : registry[c] # NoRoom => registry[c] \in Instance
  BY <1>1 DEF TypeOK
<1>9. RegistryInv'
  BY <1>1, <1>2, <1>6, <1>8 DEF RegistryInv
<1>10. SessionInv'
  BY <1>1, <1>4, <1>5 DEF SessionInv
<1>11. HeldInv' /\ OpensInv'
  BY <1>1, <1>2, <1>6 DEF HeldInv, OpensInv, sockets
<1>12. StepsInv'
  <2>1. \A o \in Socket : asked[o] # NoRoom => asked[o] \in Instance
    BY <1>1 DEF TypeOK
  <2>2. QED
    BY <1>1, <1>2, <1>6, <2>1 DEF StepsInv, served, linked, sockets
<1>13. ListedCanBeJoined'
  <2>1. listed \subseteq Code
    BY <1>1 DEF TypeOK
  <2>2. QED
    BY <1>1, <1>2, <1>6, <1>8, <2>1 DEF ListedCanBeJoined
<1>14. QED
  BY <1>7, <1>9, <1>10, <1>11, <1>12, <1>13 DEF RoomsInv

\* A room leaves the registry with nobody in it.
LEMMA LeaveKeeps ==
  ASSUME RoomsInv, NEW i \in Instance, Leave(i)
  PROVE  RoomsInv'
<1>1. TypeOK /\ RegistryInv /\ SessionInv /\ HeldInv /\ OpensInv /\ StepsInv /\ ListedCanBeJoined
  BY DEF RoomsInv
<1>2. /\ task[i] = "leaving"
      /\ task' = [task EXCEPT ![i] = "draining"]
      /\ registry' = [c \in Code |-> IF c = code[i] /\ registry[c] = i THEN NoRoom ELSE registry[c]]
      /\ UNCHANGED <<made, listed, code, inbox, session, count, reset, sockets, closing>>
  BY DEF Leave
<1>3. /\ task' \in [Instance -> {"none", "select", "turned", "leaving", "draining", "over"}]
      /\ task'[i] = "draining"
      /\ \A j \in Instance : j # i => task'[j] = task[j]
  BY <1>1, <1>2 DEF TypeOK
<1>4. \A c \in Code : registry[c] # NoRoom =>
        /\ registry[c] \in Instance
        /\ code[registry[c]] = c
        /\ task[registry[c]] \in Running
  BY <1>1 DEF TypeOK, RegistryInv
<1>5. \A c \in Code : registry'[c] = IF registry[c] = i THEN NoRoom ELSE registry[c]
  BY <1>2, <1>4, Capacities
<1>6. TypeOK'
  <2>1. registry' \in [Code -> Instance \cup {NoRoom}]
    BY <1>1, <1>2 DEF TypeOK
  <2>2. QED
    BY <1>1, <1>2, <1>3, <2>1 DEF TypeOK, sockets, closing
<1>7. RegistryInv'
  <2>1. \A j \in Instance : j <= made' <=> task'[j] # "none"
    BY <1>1, <1>2, <1>3 DEF RegistryInv
  <2>2. \A j \in Instance : task'[j] \in Running => code'[j] \in Code /\ registry'[code'[j]] = j
    BY <1>1, <1>2, <1>3, <1>5 DEF RegistryInv, Running
  <2>3. \A c \in Code : registry'[c] # NoRoom => code'[registry'[c]] = c /\ task'[registry'[c]] \in Running
    BY <1>2, <1>3, <1>4, <1>5
  <2>4. QED
    BY <2>1, <2>2, <2>3 DEF RegistryInv
<1>8. SessionInv'
  BY <1>1, <1>2, <1>3 DEF SessionInv
<1>9. HeldInv' /\ OpensInv' /\ StepsInv'
  BY <1>1, <1>2 DEF HeldInv, OpensInv, StepsInv, served, linked, sockets
<1>10. ListedCanBeJoined'
  <2>1. session[i].joined = {}
    BY <1>1, <1>2 DEF SessionInv, Sound
  <2>2. \A c \in listed : c \in Code /\ registry[c] # i
    BY <1>1, <2>1 DEF ListedCanBeJoined, TypeOK
  <2>3. QED
    BY <1>1, <1>2, <1>5, <2>2 DEF ListedCanBeJoined
<1>11. QED
  BY <1>6, <1>7, <1>8, <1>9, <1>10 DEF RoomsInv

\* Sockets whose Opens are left in an inbox are told that the room ended.
LEMMA DrainKeeps ==
  ASSUME RoomsInv, NEW i \in Instance, Drain(i)
  PROVE  RoomsInv'
<1>1. TypeOK /\ RegistryInv /\ SessionInv /\ HeldInv /\ OpensInv /\ StepsInv /\ ListedCanBeJoined
  BY DEF RoomsInv
<1>2. /\ task[i] = "draining"
      /\ task' = [task EXCEPT ![i] = "over"]
      /\ reply' = [s \in Socket |-> IF Queued(i, Open(s)) THEN "ended" ELSE reply[s]]
      /\ reset' = [reset EXCEPT ![i] = IF @ = "held" \/ Queued(i, Reset) THEN "done" ELSE @]
      /\ inbox' = [inbox EXCEPT ![i] = <<>>]
      /\ session' = [session EXCEPT ![i] = NewSession]
      /\ count' = [count EXCEPT ![i] = 0]
      /\ UNCHANGED <<registry, made, listed, code, step, wants, asked, told, closing>>
  BY DEF Drain
<1>3. /\ NewSession \in Session /\ Sound(NewSession) /\ ~NewSession.ended
      /\ NewSession.sockets = {} /\ NewSession.joined = {} /\ NewSession.host # "alive"
  BY DEF NewSession, Session, Sound
<1>4. session[i].sockets = {} /\ session[i].joined = {}
  BY <1>1, <1>2 DEF SessionInv, Sound
<1>5. /\ session' \in [Instance -> Session] /\ session'[i] = NewSession
      /\ task' \in [Instance -> {"none", "select", "turned", "leaving", "draining", "over"}]
      /\ task'[i] = "over"
      /\ \A j \in Instance : j # i => session'[j] = session[j] /\ task'[j] = task[j]
  BY <1>1, <1>2, <1>3 DEF TypeOK
<1>6. \A j \in Instance : /\ session'[j].sockets = session[j].sockets
                          /\ session'[j].joined = session[j].joined
                          /\ task'[j] = "none" <=> task[j] = "none"
                          /\ task'[j] \in Running <=> task[j] \in Running
  BY <1>2, <1>3, <1>4, <1>5 DEF Running
<1>7. /\ inbox' \in [Instance -> Seq(Command)]
      /\ inbox'[i] = <<>>
      /\ \A j \in Instance : j # i => inbox'[j] = inbox[j]
  <2>1. <<>> \in Seq(Command)
    OBVIOUS
  <2>2. QED
    BY <1>1, <1>2, <2>1 DEF TypeOK
\* What the drain answers was waiting for this room.
<1>8. ASSUME NEW s \in Socket, Queued(i, Open(s))
      PROVE  asked[s] = i /\ reply[s] = "none" /\ step[s] \in Waiting
  <2>1. PICK k \in 1..Len(inbox[i]) : inbox[i][k] = Open(s)
    BY <1>1, <1>8 DEF Queued, TypeOK
  <2>2. inbox[i][k].kind = "open" /\ inbox[i][k].from = s
    BY <2>1 DEF Open
  <2>3. QED
    BY <1>1, <2>2 DEF OpensInv
<1>9. /\ reply' \in [Socket -> {"none", "accepted", "full", "ended"}]
      /\ \A s \in Socket : reply'[s] = reply[s]
                           \/ (asked[s] = i /\ reply[s] = "none" /\ step[s] \in Waiting /\ reply'[s] = "ended")
  BY <1>1, <1>2, <1>8 DEF TypeOK
<1>10. TypeOK'
  <2>1. /\ count' \in [Instance -> 0..MaxSockets]
        /\ reset' \in [Instance -> {"none", "held", "done"}]
    BY <1>1, <1>2, Capacities DEF TypeOK
  <2>2. \A j \in Instance : Cardinality(session'[j].sockets) <= MaxSockets
    BY <1>1, <1>6 DEF TypeOK
  <2>3. \A j \in Instance : Len(inbox'[j]) <= Inbox
    <3>1. Len(inbox'[i]) = 0
      BY <1>7
    <3>2. Len(inbox'[i]) <= Inbox
      BY <3>1, Capacities
    <3>3. \A j \in Instance : Len(inbox[j]) <= Inbox
      BY <1>1 DEF TypeOK
    <3>4. QED
      BY <1>7, <3>2, <3>3
  <2>4. QED
    BY <1>1, <1>2, <1>5, <1>7, <1>9, <2>1, <2>2, <2>3 DEF TypeOK, closing
<1>11. \A c \in Code : registry[c] # NoRoom => registry[c] \in Instance
  BY <1>1 DEF TypeOK
<1>12. RegistryInv'
  BY <1>1, <1>2, <1>6, <1>11 DEF RegistryInv
<1>13. SessionInv'
  BY <1>1, <1>3, <1>5 DEF SessionInv
<1>14. HeldInv'
  <2>1. \A j \in Instance : session[j].sockets \subseteq Socket
    BY <1>1 DEF TypeOK, Session
  <2>2. QED
    BY <1>1, <1>2, <1>6, <1>9, <2>1 DEF HeldInv
<1>15. OpensInv'
  <2>1. SUFFICES ASSUME NEW j \in Instance, NEW k \in 1..Len(inbox'[j]), inbox'[j][k].kind = "open"
                 PROVE  /\ asked[inbox'[j][k].from] = j
                        /\ reply'[inbox'[j][k].from] = "none"
                        /\ step[inbox'[j][k].from] \in Waiting
                        /\ \A l \in 1..Len(inbox'[j]) : inbox'[j][l] = inbox'[j][k] => l = k
    BY <1>2 DEF OpensInv
  <2>2. j # i /\ inbox'[j] = inbox[j]
    BY <1>7, <2>1
  <2>3. /\ asked[inbox[j][k].from] = j /\ reply[inbox[j][k].from] = "none"
        /\ step[inbox[j][k].from] \in Waiting
        /\ \A l \in 1..Len(inbox[j]) : inbox[j][l] = inbox[j][k] => l = k
    BY <1>1, <2>1, <2>2 DEF OpensInv
  <2>4. inbox[j][k].from \in Socket
    <3>1. inbox[j] \in Seq(Command)
      BY <1>1 DEF TypeOK
    <3>2. inbox[j][k] \in Command
      BY <2>1, <2>2, <3>1
    <3>3. QED
      BY <2>1, <2>2, <3>2 DEF Command
  <2>5. QED
    BY <1>9, <2>2, <2>3, <2>4
<1>16. StepsInv'
  <2>1. \A o \in Socket : asked[o] # NoRoom => asked[o] \in Instance
    BY <1>1 DEF TypeOK
  <2>2. QED
    BY <1>1, <1>2, <1>6, <1>9, <2>1 DEF StepsInv, served, linked, Waiting
<1>17. ListedCanBeJoined'
  <2>1. listed \subseteq Code
    BY <1>1 DEF TypeOK
  <2>2. QED
    BY <1>1, <1>2, <1>6, <1>11, <2>1 DEF ListedCanBeJoined
<1>18. QED
  BY <1>10, <1>12, <1>13, <1>14, <1>15, <1>16, <1>17 DEF RoomsInv

-----------------------------------------------------------------------------
(* Server::close, time, and the whole.                                     *)

LEMMA CloserKeeps ==
  ASSUME RoomsInv, CloserNext
  PROVE  RoomsInv'
<1>1. TypeOK /\ RegistryInv /\ SessionInv /\ HeldInv /\ OpensInv /\ StepsInv /\ ListedCanBeJoined
  BY DEF RoomsInv
<1>2. CASE \E i \in Instance : SendReset(i)
  BY <1>2, SendResetKeeps
<1>3. CASE Stop \/ Snapshot \/ ResetsDone \/ Terminate
  <2>1. UNCHANGED <<registry, made, listed, rooms, sockets>>
    BY <1>3 DEF Stop, Snapshot, ResetsDone, Terminate
  <2>2. /\ closer' \in {"serving", "stopping", "resetting", "grace", "terminated"}
        /\ toReset' \subseteq Instance /\ awaited' \subseteq Instance
    BY <1>1, <1>3 DEF Stop, Snapshot, ResetsDone, Terminate, TypeOK, registered
  <2>3. TypeOK'
    BY <1>1, <2>1, <2>2 DEF TypeOK, rooms, sockets
  <2>4. RegistryInv' /\ SessionInv' /\ HeldInv' /\ OpensInv' /\ StepsInv' /\ ListedCanBeJoined'
    BY <1>1, <2>1 DEF RegistryInv, SessionInv, HeldInv, OpensInv, StepsInv, ListedCanBeJoined,
                      served, linked, rooms, sockets
  <2>5. QED
    BY <2>3, <2>4 DEF RoomsInv
<1>4. QED
  BY <1>2, <1>3 DEF CloserNext

LEMMA OverdueKeeps ==
  ASSUME RoomsInv, NEW i \in Instance, NEW s \in Socket, Overdue(i, s)
  PROVE  RoomsInv'
<1> DEFINE u == Waits(session[i], s)
<1>1. TypeOK /\ RegistryInv /\ SessionInv /\ HeldInv /\ OpensInv /\ StepsInv /\ ListedCanBeJoined
  BY DEF RoomsInv
<1>2. /\ session' = [session EXCEPT ![i] = u]
      /\ UNCHANGED <<registry, made, listed, code, task, inbox, count, reset, sockets, closing>>
  BY DEF Overdue
<1>3. session[i] \in Session
  BY <1>1 DEF TypeOK
<1>4. /\ u \in Session
      /\ u.sockets = session[i].sockets /\ u.joined = session[i].joined
      /\ u.host = session[i].host /\ u.armed = session[i].armed /\ u.ended = session[i].ended
  BY <1>3 DEF Waits, Session
<1> HIDE DEF u
<1>5. session' \in [Instance -> Session]
  BY <1>1, <1>2, <1>4 DEF TypeOK
<1>6. \A j \in Instance :
        /\ session'[j].sockets = session[j].sockets /\ session'[j].joined = session[j].joined
        /\ session'[j].host = session[j].host /\ session'[j].armed = session[j].armed
        /\ session'[j].ended = session[j].ended
  BY <1>1, <1>2, <1>4 DEF TypeOK
<1>7. TypeOK'
  <2>1. \A j \in Instance : Cardinality(session'[j].sockets) <= MaxSockets
    BY <1>1, <1>6 DEF TypeOK
  <2>2. QED
    BY <1>1, <1>2, <1>5, <2>1 DEF TypeOK, sockets, closing
<1>8. RegistryInv' /\ OpensInv'
  BY <1>1, <1>2 DEF RegistryInv, OpensInv, sockets
<1>9. SessionInv' /\ HeldInv'
  BY <1>1, <1>2, <1>6 DEF SessionInv, Sound, HeldInv, sockets
<1>10. StepsInv'
  <2>1. \A o \in Socket : asked[o] # NoRoom => asked[o] \in Instance
    BY <1>1 DEF TypeOK
  <2>2. QED
    BY <1>1, <1>2, <1>6, <2>1 DEF StepsInv, served, linked, sockets
<1>11. ListedCanBeJoined'
  <2>1. \A c \in listed : registry[c] # NoRoom => registry[c] \in Instance
    BY <1>1 DEF TypeOK
  <2>2. QED
    BY <1>1, <1>2, <1>6, <2>1 DEF ListedCanBeJoined
<1>12. QED
  BY <1>7, <1>8, <1>9, <1>10, <1>11 DEF RoomsInv

LEMMA UnlistKeeps ==
  ASSUME RoomsInv, NEW c \in Code, Unlist(c)
  PROVE  RoomsInv'
<1>1. TypeOK /\ RegistryInv /\ SessionInv /\ HeldInv /\ OpensInv /\ StepsInv /\ ListedCanBeJoined
  BY DEF RoomsInv
<1>2. listed' = listed \ {c} /\ UNCHANGED <<registry, made, rooms, sockets, closing>>
  BY DEF Unlist
<1>3. TypeOK' /\ ListedCanBeJoined'
  BY <1>1, <1>2 DEF TypeOK, ListedCanBeJoined, rooms, sockets, closing
<1>4. RegistryInv' /\ SessionInv' /\ HeldInv' /\ OpensInv' /\ StepsInv'
  BY <1>1, <1>2 DEF RegistryInv, SessionInv, HeldInv, OpensInv, StepsInv, served, linked, rooms, sockets
<1>5. QED
  BY <1>3, <1>4 DEF RoomsInv

LEMMA RoomsNext == RoomsInv /\ [Next]_vars => RoomsInv'
<1> SUFFICES ASSUME RoomsInv, [Next]_vars PROVE RoomsInv'
  OBVIOUS
<1>1. CASE \E s \in Socket : SocketNext(s)
  <2>1. PICK s \in Socket : SocketNext(s)
    BY <1>1
  <2>2. CASE Alone(s)
    BY <2>2, AloneKeeps
  <2>3. CASE Upgrade(s)
    BY <2>3, UpgradeKeeps
  <2>4. CASE Again(s)
    BY <2>4, AgainKeeps
  <2>5. CASE Forward(s) \/ Report(s)
    BY <2>5, SendingKeeps
  <2>6. QED
    BY <2>1, <2>2, <2>3, <2>4, <2>5 DEF SocketNext, Alone
<1>2. CASE \E i \in Instance : RoomNext(i)
  BY <1>2, TimerKeeps, ReceiveKeeps, PublishKeeps, LeaveKeeps, DrainKeeps DEF RoomNext
<1>3. CASE CloserNext
  BY <1>3, CloserKeeps
<1>4. CASE \E i \in Instance, s \in Socket : Overdue(i, s)
  BY <1>4, OverdueKeeps
<1>5. CASE \E c \in Code : Unlist(c)
  BY <1>5, UnlistKeeps
<1>6. CASE UNCHANGED vars
  <2>1. UNCHANGED <<registry, made, listed, rooms, sockets, closing>>
    BY <1>6 DEF vars
  <2>2. TypeOK /\ RegistryInv /\ SessionInv /\ HeldInv /\ OpensInv /\ StepsInv /\ ListedCanBeJoined
    BY DEF RoomsInv
  <2>3. TypeOK'
    BY <2>1, <2>2 DEF TypeOK, rooms, sockets, closing
  <2>4. RegistryInv' /\ SessionInv' /\ HeldInv' /\ OpensInv' /\ StepsInv' /\ ListedCanBeJoined'
    BY <2>1, <2>2 DEF RegistryInv, SessionInv, HeldInv, OpensInv, StepsInv, ListedCanBeJoined,
                      served, linked, rooms, sockets
  <2>5. QED
    BY <2>3, <2>4 DEF RoomsInv
<1>7. QED
  BY <1>1, <1>2, <1>3, <1>4, <1>5, <1>6 DEF Next

LEMMA RoomsAlways == Spec => []RoomsInv
<1>1. QED
  BY InitInv, RoomsNext, PTL DEF Spec

-----------------------------------------------------------------------------
(* What the server promises.                                               *)

\* The state of rooms, inboxes and sockets keeps its type; in particular no inbox and no room
\* ever holds more than its capacity.
THEOREM TypeCorrect == Spec => []TypeOK
<1>1. RoomsInv => TypeOK
  BY DEF RoomsInv
<1>2. QED
  BY <1>1, RoomsAlways, PTL

\* A served socket that nobody is closing has an open session (serve_socket, Session::accept).
THEOREM ServedAlways == Spec => []ServedIsHeld
<1>1. RoomsInv => ServedIsHeld
  BY DEF RoomsInv, StepsInv, ServedIsHeld, served
<1>2. QED
  BY <1>1, RoomsAlways, PTL

\* Sockets served under one code are in the one room of the code that still runs (reserve).
THEOREM FriendsAlways == Spec => []FriendsMeet
<1>1. ASSUME RoomsInv
      PROVE  FriendsMeet
  <2>1. TypeOK /\ RegistryInv /\ SessionInv /\ HeldInv /\ StepsInv
    BY <1>1 DEF RoomsInv
  <2>2. SUFFICES ASSUME NEW s \in Socket, served(s), s \notin told
                 PROVE  asked[s] = registry[wants[s]]
    BY DEF FriendsMeet
  <2>3. asked[s] \in Instance /\ s \in session[asked[s]].sockets /\ asked[s] # NoRoom
    BY <2>1, <2>2 DEF StepsInv, TypeOK, served
  <2>4. task[asked[s]] \in Running /\ code[asked[s]] = wants[s]
    BY <2>1, <2>3 DEF SessionInv, HeldInv, Running
  <2>5. QED
    BY <2>1, <2>3, <2>4 DEF RegistryInv
<1>2. QED
  BY <1>1, RoomsAlways, PTL

\* A room with sockets or a match has its timer set (Session::accept, on_timer, stop).
THEOREM TimeAlways == Spec => []RoomsKeepTime
<1>1. RoomsInv => RoomsKeepTime
  BY DEF RoomsInv, SessionInv, Sound, RoomsKeepTime
<1>2. QED
  BY <1>1, RoomsAlways, PTL

\* A listed code has a room with players in it (RoomCatalog, the registry's lock).
THEOREM ListedAlways == Spec => []ListedCanBeJoined
<1>1. RoomsInv => ListedCanBeJoined
  BY DEF RoomsInv
<1>2. QED
  BY <1>1, RoomsAlways, PTL

-----------------------------------------------------------------------------
(* The implementation of CodeRooms.                                        *)

\* A socket's place is the one room that holds it, in a state p, ss as in the next one.
LEMMA PlaceOf ==
  ASSUME NEW ss, NEW p,
         p = [s \in Socket |-> IF \E i \in Instance : s \in ss[i].sockets
                               THEN CHOOSE i \in Instance : s \in ss[i].sockets
                               ELSE NoRoom],
         \A i, j \in Instance : \A s \in ss[i].sockets : s \in ss[j].sockets => i = j
  PROVE  /\ p = [s \in Socket |-> p[s]]
         /\ \A s \in Socket : p[s] \in Instance \cup {NoRoom}
         /\ \A s \in Socket, i \in Instance : p[s] = i <=> s \in ss[i].sockets
<1>1. ASSUME NEW s \in Socket
      PROVE  /\ p[s] \in Instance \cup {NoRoom}
             /\ \A i \in Instance : p[s] = i <=> s \in ss[i].sockets
  <2>1. CASE \E i \in Instance : s \in ss[i].sockets
    <3>1. p[s] \in Instance /\ s \in ss[p[s]].sockets
      BY <2>1
    <3>2. QED
      BY <3>1
  <2>2. CASE ~ \E i \in Instance : s \in ss[i].sockets
    BY <2>2, Capacities
  <2>3. QED
    BY <2>1, <2>2
<1>2. QED
  BY <1>1

LEMMA PlaceIsRoom ==
  ASSUME RoomsInv
  PROVE  /\ place = [s \in Socket |-> place[s]]
         /\ \A s \in Socket : place[s] \in Instance \cup {NoRoom}
         /\ \A s \in Socket, i \in Instance : place[s] = i <=> s \in session[i].sockets
<1>1. \A i, j \in Instance : \A s \in session[i].sockets : s \in session[j].sockets => i = j
  BY DEF RoomsInv, HeldInv
<1>2. place = [s \in Socket |-> IF \E i \in Instance : s \in session[i].sockets
                                THEN CHOOSE i \in Instance : s \in session[i].sockets
                                ELSE NoRoom]
  BY DEF place
<1>3. QED
  BY <1>1, <1>2, PlaceOf

LEMMA PlaceIsRoomNext ==
  ASSUME RoomsInv'
  PROVE  /\ place' = [s \in Socket |-> place'[s]]
         /\ \A s \in Socket : place'[s] \in Instance \cup {NoRoom}
         /\ \A s \in Socket, i \in Instance : place'[s] = i <=> s \in session'[i].sockets
<1>1. \A i, j \in Instance : \A s \in session'[i].sockets : s \in session'[j].sockets => i = j
  BY DEF RoomsInv, HeldInv
<1>2. place' = [s \in Socket |-> IF \E i \in Instance : s \in session'[i].sockets
                                THEN CHOOSE i \in Instance : s \in session'[i].sockets
                                ELSE NoRoom]
  BY DEF place
<1>3. QED
  BY <1>1, <1>2, PlaceOf

\* Where nobody comes or goes, all stay in their places.
LEMMA PlacesStay ==
  ASSUME RoomsInv, RoomsInv', \A i \in Instance : session'[i].sockets = session[i].sockets
  PROVE  UNCHANGED place
<1>1. /\ place = [s \in Socket |-> place[s]] /\ place' = [s \in Socket |-> place'[s]]
      /\ \A s \in Socket : place[s] \in Instance \cup {NoRoom} /\ place'[s] \in Instance \cup {NoRoom}
      /\ \A s \in Socket, i \in Instance : place[s] = i <=> place'[s] = i
  BY PlaceIsRoom, PlaceIsRoomNext
<1>2. \A s \in Socket : place[s] = place'[s]
  BY <1>1
<1>3. QED
  BY <1>1, <1>2

\* A turn in which a room takes no socket is an Exit of its sockets.
LEMMA TurnMaps ==
  ASSUME RoomsInv, RoomsInv', NEW i \in Instance, NEW u, Follows(session[i], u), Turns(i, u),
         UNCHANGED <<registry, made>>
  PROVE  CR!Exit(i)
<1> DEFINE S == session[i].sockets \ u.sockets
<1>1. /\ place' = [s \in Socket |-> place'[s]]
      /\ \A s \in Socket : place[s] \in Instance \cup {NoRoom} /\ place'[s] \in Instance \cup {NoRoom}
      /\ \A s \in Socket, j \in Instance : place[s] = j <=> s \in session[j].sockets
      /\ \A s \in Socket, j \in Instance : place'[s] = j <=> s \in session'[j].sockets
  BY PlaceIsRoom, PlaceIsRoomNext
<1>2. session[i] \in Session /\ u.sockets \subseteq session[i].sockets
  BY DEF RoomsInv, TypeOK, Follows
<1>3. session'[i].sockets = u.sockets /\ \A j \in Instance : j # i => session'[j] = session[j]
  BY DEF RoomsInv, TypeOK, Turns
<1>4. S \in SUBSET CR!Inside(i)
  BY <1>1, <1>2 DEF CR!Inside, Session
<1>5. \A s \in Socket : place'[s] = IF s \in S THEN NoRoom ELSE place[s]
  <2>1. SUFFICES ASSUME NEW s \in Socket
                 PROVE  place'[s] = IF s \in S THEN NoRoom ELSE place[s]
    OBVIOUS
  <2>2. CASE s \in S
    <3>1. place[s] = i
      BY <1>1, <2>2
    <3>2. \A j \in Instance : s \notin session'[j].sockets
      BY <1>1, <1>3, <2>2, <3>1
    <3>3. QED
      BY <1>1, <2>2, <3>2
  <2>3. CASE s \notin S
    <3>1. \A j \in Instance : s \in session'[j].sockets <=> s \in session[j].sockets
      BY <1>2, <1>3, <2>3
    <3>2. QED
      BY <1>1, <2>3, <3>1
  <2>4. QED
    BY <2>2, <2>3
<1>6. place' = [s \in Socket |-> IF s \in S THEN NoRoom ELSE place[s]]
  BY <1>1, <1>5
<1> HIDE DEF S
<1>7. UNCHANGED (1..made)
  OBVIOUS
<1>8. i # NoRoom
  BY Capacities
<1>9. QED
  BY <1>4, <1>6, <1>7, <1>8 DEF CR!Exit

\* A turn that takes a socket is its Enter.
LEMMA OpenMaps ==
  ASSUME RoomsInv, RoomsInv', NEW i \in Instance, NEW s \in Socket, Receive(i),
         Head(inbox[i]).kind = "open", Head(inbox[i]).from = s, HandleOpen(i, s)
  PROVE  [CR!Next]_CR!vars
<1>1. TypeOK /\ RegistryInv /\ HeldInv /\ OpensInv
  BY DEF RoomsInv
<1>2. /\ task[i] = "select" /\ inbox[i] # <<>> /\ inbox' = [inbox EXCEPT ![i] = Tail(@)]
      /\ UNCHANGED <<registry, made, 1..made>>
  BY DEF Receive
<1>3. session[i] \in Session /\ registry[code[i]] = i /\ code[i] \in Code /\ i # NoRoom
  BY <1>1, <1>2, Capacities DEF TypeOK, RegistryInv, Running
<1>4. CASE Full(session[i])
  <2>1. \A j \in Instance : session'[j].sockets = session[j].sockets
    BY <1>1, <1>4 DEF HandleOpen, Turns, TypeOK
  <2>2. QED
    BY <1>2, <2>1, PlacesStay DEF CR!vars
<1>5. CASE ~Full(session[i])
  <2>1. session' = [session EXCEPT ![i] = Accept(session[i], s)]
    BY <1>5 DEF HandleOpen, Turns
  <2>2. Accept(session[i], s).sockets = session[i].sockets \cup {s}
    BY <1>3 DEF Accept, Session
  <2>3. /\ session'[i].sockets = session[i].sockets \cup {s}
        /\ \A j \in Instance : j # i => session'[j] = session[j]
    BY <1>1, <2>1, <2>2 DEF TypeOK
  <2>4. asked[s] = i /\ reply[s] = "none"
    BY <1>1, <1>2, HeadGoes
  <2>5. \A j \in Instance : s \notin session[j].sockets
    BY <1>1, <2>4 DEF HeldInv
  <2>6. /\ place = [o \in Socket |-> place[o]] /\ place' = [o \in Socket |-> place'[o]]
        /\ \A o \in Socket : place[o] \in Instance \cup {NoRoom} /\ place'[o] \in Instance \cup {NoRoom}
        /\ \A o \in Socket, j \in Instance : place[o] = j <=> o \in session[j].sockets
        /\ \A o \in Socket, j \in Instance : place'[o] = j <=> o \in session'[j].sockets
    BY PlaceIsRoom, PlaceIsRoomNext
  <2>7. place[s] = NoRoom /\ place'[s] = i
    BY <2>3, <2>5, <2>6
  <2>8. \A o \in Socket : o # s => place'[o] = place[o]
    <3>1. \A o \in Socket : \A j \in Instance :
            o # s => (o \in session'[j].sockets <=> o \in session[j].sockets)
      BY <2>3
    <3>2. QED
      BY <2>6, <3>1
  <2>9. place' = [place EXCEPT ![s] = registry[code[i]]]
    BY <1>3, <2>6, <2>7, <2>8
  <2>10. CR!Enter(s, code[i])
    BY <1>2, <1>3, <2>7, <2>9 DEF CR!Enter
  <2>11. QED
    BY <1>3, <2>10 DEF CR!Next
<1>6. QED
  BY <1>4, <1>5

\* A new room is the Open of its code.
LEMMA ReservesMap ==
  ASSUME RoomsInv, RoomsInv', NEW s \in Socket, NEW c \in Code, Reserves(s, c), UNCHANGED session
  PROVE  [CR!Next]_CR!vars
<1>1. PICK i \in Instance : Joins(s, c, i) \/ Creates(s, c, i)
  BY DEF Reserves
<1>2. UNCHANGED place
  BY PlacesStay
<1>3. CASE Joins(s, c, i)
  BY <1>2, <1>3 DEF Joins, CR!vars
<1>4. CASE Creates(s, c, i)
  <2>1. registry[c] = NoRoom
    BY <1>4 DEF Creates, RoomsInv, RegistryInv, InboxOpen, Running, TypeOK
  <2>2. made \in Nat /\ i = made + 1 /\ made' = i /\ registry' = [registry EXCEPT ![c] = i]
    BY <1>4 DEF Creates, RoomsInv, TypeOK
  <2>3. i \in Instance \ 1..made /\ (1..made)' = (1..made) \cup {i}
    BY <2>2
  <2>4. CR!Open(c)
    BY <1>2, <2>1, <2>2, <2>3 DEF CR!Open
  <2>5. QED
    BY <2>4 DEF CR!Next
<1>5. QED
  BY <1>1, <1>3, <1>4

\* A room that leaves the registry is the Close of its code.
LEMMA LeaveMaps ==
  ASSUME RoomsInv, RoomsInv', NEW i \in Instance, Leave(i)
  PROVE  CR!Close(code[i]) /\ code[i] \in Code
<1>1. TypeOK /\ RegistryInv /\ SessionInv
  BY DEF RoomsInv
<1>2. /\ task[i] = "leaving"
      /\ registry' = [c \in Code |-> IF c = code[i] /\ registry[c] = i THEN NoRoom ELSE registry[c]]
      /\ UNCHANGED <<made, session, 1..made>>
  BY DEF Leave
<1>3. code[i] \in Code /\ registry[code[i]] = i /\ i # NoRoom
  BY <1>1, <1>2, Capacities DEF RegistryInv, Running
<1>4. registry' = [registry EXCEPT ![code[i]] = NoRoom]
  BY <1>1, <1>2, <1>3 DEF TypeOK
<1>5. session[i].sockets = {}
  BY <1>1, <1>2 DEF SessionInv
<1>6. CR!Inside(i) = {}
  BY <1>5, PlaceIsRoom DEF CR!Inside
<1>7. UNCHANGED place
  BY <1>2, PlacesStay
<1>8. QED
  BY <1>2, <1>3, <1>4, <1>6, <1>7 DEF CR!Close

LEMMA InitMaps == Init => CR!Init
<1> SUFFICES ASSUME Init PROVE CR!Init
  OBVIOUS
<1>1. RoomsInv
  BY InitInv
<1>2. \A i \in Instance : session[i].sockets = {}
  BY DEF Init, NewSession
<1>3. \A s \in Socket : place[s] = NoRoom
  BY <1>1, <1>2, PlaceIsRoom
<1>4. place = [s \in Socket |-> NoRoom]
  BY <1>1, <1>3, PlaceIsRoom
<1>5. 1..made = {} /\ registry = [c \in Code |-> NoRoom]
  BY DEF Init
<1>6. QED
  BY <1>4, <1>5 DEF CR!Init

LEMMA StepMaps == RoomsInv /\ RoomsInv' /\ [Next]_vars => [CR!Next]_CR!vars
<1> SUFFICES ASSUME RoomsInv, RoomsInv', [Next]_vars PROVE [CR!Next]_CR!vars
  OBVIOUS
<1>1. CASE UNCHANGED <<registry, made, session>>
  BY <1>1, PlacesStay DEF CR!vars
<1>2. CASE \E s \in Socket : SocketNext(s)
  <2>1. PICK s \in Socket : SocketNext(s)
    BY <1>2
  <2>2. CASE Alone(s) \/ Forward(s) \/ Report(s)
    <3>1. UNCHANGED <<registry, made, session>>
      BY <2>2 DEF Alone, Upgraded, Lost, Answered, Read, SlowReader, StartClosing, Drop, FinishClosing,
                  Cut, Ends, Forward, Report, rooms
    <3>2. QED
      BY <1>1, <3>1
  <2>3. CASE Upgrade(s)
    <3>1. PICK c \in Code : Reserves(s, c) \/ ReserveFails(c)
      BY <2>3 DEF Upgrade
    <3>2. UNCHANGED session
      BY <2>3 DEF Upgrade
    <3>3. CASE Reserves(s, c)
      BY <3>2, <3>3, ReservesMap
    <3>4. CASE ReserveFails(c)
      BY <1>1, <3>2, <3>4 DEF ReserveFails
    <3>5. QED
      BY <3>1, <3>3, <3>4
  <2>4. CASE Again(s)
    <3>1. wants[s] \in Code
      BY <2>4 DEF Again, RoomsInv, StepsInv
    <3>2. UNCHANGED session
      BY <2>4 DEF Again
    <3>3. CASE Reserves(s, wants[s])
      BY <3>1, <3>2, <3>3, ReservesMap
    <3>4. CASE ReserveFails(wants[s])
      BY <1>1, <3>2, <3>4 DEF ReserveFails
    <3>5. QED
      BY <2>4, <3>3, <3>4 DEF Again
  <2>5. QED
    BY <2>1, <2>2, <2>3, <2>4 DEF SocketNext, Alone
<1>3. CASE \E i \in Instance : RoomNext(i)
  <2>1. PICK i \in Instance : RoomNext(i)
    BY <1>3
  <2>2. session[i] \in Session /\ Sound(session[i]) /\ TypeOK /\ OpensInv
    BY DEF RoomsInv, TypeOK, SessionInv
  <2>3. CASE Timer(i)
    <3>1. PICK u \in OnTimer(session[i]) : Turns(i, u)
      BY <2>3 DEF Timer
    <3>2. Follows(session[i], u) /\ UNCHANGED <<registry, made>>
      BY <2>2, <2>3, <3>1, TimerFollows DEF Timer
    <3>3. CR!Exit(i)
      BY <3>1, <3>2, TurnMaps
    <3>4. QED
      BY <3>3 DEF CR!Next
  <2>4. CASE Receive(i)
    <3> DEFINE m == Head(inbox[i])
    <3>1. UNCHANGED <<registry, made>> /\ m \in Command
      BY <2>2, <2>4, HeadGoes DEF Receive
    <3>2. CASE m.kind = "open" /\ HandleOpen(i, m.from)
      <4>1. m.from \in Socket
        BY <3>1, <3>2 DEF Command
      <4>2. QED
        BY <2>4, <3>2, <4>1, OpenMaps
    <3>3. CASE \E u : Follows(session[i], u) /\ Turns(i, u)
      <4>1. CR!Exit(i)
        BY <3>1, <3>3, TurnMaps
      <4>2. QED
        BY <4>1 DEF CR!Next
    <3>4. CASE m.kind = "text" /\ HandleText(i, m.from)
      <4>1. m.from \in Socket
        BY <3>1, <3>4 DEF Command
      <4>2. PICK u \in Messages(session[i], m.from) : Turns(i, u)
        BY <3>4 DEF HandleText
      <4>3. Follows(session[i], u)
        BY <2>2, <4>1, <4>2, MessagesFollow
      <4>4. QED
        BY <3>3, <4>2, <4>3
    <3>5. CASE m.kind = "closed" /\ HandleClosed(i, m.from)
      <4>1. m.from \in Socket
        BY <3>1, <3>5 DEF Command
      <4>2. PICK u \in Closes(session[i], m.from) : Turns(i, u)
        BY <3>5 DEF HandleClosed
      <4>3. Follows(session[i], u)
        BY <2>2, <4>1, <4>2, ClosesFollow
      <4>4. QED
        BY <3>3, <4>2, <4>3
    <3>6. CASE m.kind = "reset" /\ HandleReset(i)
      <4>1. Turns(i, ResetBy(session[i]))
        BY <3>6 DEF HandleReset
      <4>2. Follows(session[i], ResetBy(session[i]))
        BY <2>2, ResetFollows
      <4>3. QED
        BY <3>3, <4>1, <4>2
    <3>7. QED
      BY <2>4, <3>2, <3>4, <3>5, <3>6 DEF Receive
  <2>5. CASE Publish(i)
    <3>1. /\ UNCHANGED <<registry, made>>
          /\ session' = [session EXCEPT ![i] = [session[i] EXCEPT !.ended = FALSE]]
      BY <2>5 DEF Publish
    <3>2. [session[i] EXCEPT !.ended = FALSE].sockets = session[i].sockets
      BY <2>2 DEF Session
    <3>3. \A j \in Instance : session'[j].sockets = session[j].sockets
      BY <2>2, <3>1, <3>2 DEF TypeOK
    <3>4. QED
      BY <3>1, <3>3, PlacesStay DEF CR!vars
  <2>6. CASE Leave(i)
    BY <2>6, LeaveMaps DEF CR!Next
  <2>7. CASE Drain(i)
    <3>1. /\ UNCHANGED <<registry, made>> /\ task[i] = "draining"
          /\ session' = [session EXCEPT ![i] = NewSession]
      BY <2>7 DEF Drain
    <3>2. session[i].sockets = {} /\ NewSession.sockets = {}
      BY <3>1 DEF RoomsInv, SessionInv, NewSession
    <3>3. \A j \in Instance : session'[j].sockets = session[j].sockets
      BY <2>2, <3>1, <3>2 DEF TypeOK
    <3>4. QED
      BY <3>1, <3>3, PlacesStay DEF CR!vars
  <2>8. QED
    BY <2>1, <2>3, <2>4, <2>5, <2>6, <2>7 DEF RoomNext
<1>4. CASE CloserNext
  BY <1>1, <1>4 DEF CloserNext, Stop, Snapshot, SendReset, ResetsDone, Terminate, rooms
<1>5. CASE \E i \in Instance, s \in Socket : Overdue(i, s)
  <2>1. PICK i \in Instance, s \in Socket : Overdue(i, s)
    BY <1>5
  <2>2. /\ UNCHANGED <<registry, made>>
        /\ session' = [session EXCEPT ![i] = Waits(session[i], s)]
    BY <2>1 DEF Overdue
  <2>3. session \in [Instance -> Session] /\ Waits(session[i], s).sockets = session[i].sockets
    BY DEF RoomsInv, TypeOK, Waits, Session
  <2>4. \A j \in Instance : session'[j].sockets = session[j].sockets
    BY <2>2, <2>3
  <2>5. QED
    BY <2>2, <2>4, PlacesStay DEF CR!vars
<1>6. CASE \E c \in Code : Unlist(c)
  BY <1>1, <1>6 DEF Unlist, rooms
<1>7. CASE UNCHANGED vars
  BY <1>1, <1>7 DEF vars, rooms
<1>8. QED
  BY <1>2, <1>3, <1>4, <1>5, <1>6, <1>7 DEF Next

\* Tasks, inboxes and the registry's lock implement one room per code, entered only while the
\* code has it and given up only when empty (server.rs reserve, room_task.rs).
THEOREM Implements == Spec => OneRoomAtATime
<1>1. Init => CR!Init
  BY InitMaps
<1>2. RoomsInv /\ RoomsInv' /\ [Next]_vars => [CR!Next]_CR!vars
  BY StepMaps
<1>3. QED
  BY <1>1, <1>2, RoomsAlways, PTL DEF Spec, OneRoomAtATime, CR!Spec
=============================================================================
