--------------------------- MODULE FollowedStream ---------------------------
(***************************************************************************)
(* What a room's state stream promises: the host publishes the scenes of a *)
(* round one after the other, and every client's view shows one of them    *)
(* and only moves forward, to later scenes and later rounds.               *)
(***************************************************************************)
EXTENDS Naturals, Sequences

CONSTANTS Clients

VARIABLES
  published,  \* the scenes published in each round; the first has number 0
  views       \* what each client shows: round (0: nothing yet), seq, scene

NoView == [round |-> 0, seq |-> 0, scene |-> 0]

Init == published = <<>> /\ views = [c \in Clients |-> NoView]

\* A round begins with one scene.
NewRound ==
  /\ Len(published') = Len(published) + 1
  /\ published' = Append(published, <<Head(published'[Len(published')])>>)
  /\ UNCHANGED views

\* A round's next scene.
Publish ==
  /\ published # <<>> /\ Len(published') = Len(published)
  /\ LET r == Len(published)
         n == Len(published[r]) IN
       /\ Len(published'[r]) = n + 1
       /\ published' = [published EXCEPT ![r] = Append(@, published'[r][n + 1])]
  /\ UNCHANGED views

\* A view that shows what was published under its number.
Genuine(view) ==
  /\ view.round \in DOMAIN published
  /\ view.seq + 1 \in DOMAIN published[view.round]
  /\ view.scene = published[view.round][view.seq + 1]

Later(old, new) == new.round > old.round \/ (new.round = old.round /\ new.seq > old.seq)

\* A client follows.
Follow(c) ==
  /\ views' = [views EXCEPT ![c] = views'[c]]
  /\ Genuine(views'[c]) /\ Later(views[c], views'[c])
  /\ UNCHANGED published

Next == NewRound \/ Publish \/ \E c \in Clients : Follow(c)

Spec == Init /\ [][Next]_<<published, views>>
=============================================================================
