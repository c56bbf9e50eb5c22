------------------------------- MODULE Follower -------------------------------
(* What anything that follows the leader of a Core promises, whichever loop    *)
(* does it: it points its targets only to a member it has heard of, and calls  *)
(* a member recorded only when all of its targets point there.                 *)
EXTENDS Naturals

CONSTANTS Members, Targets, None,
          Repoints    \* whether a target can be moved in one step

VARIABLES
  leaders,    \* the members that answer as the leader
  heard,      \* the one this pass acts for, None while there is none
  points,     \* where each target points
  recorded,   \* the member it will not act for again while that one leads
  upsets      \* how often something but leadership has disturbed

vars == <<leaders, heard, points, recorded, upsets>>

Pointings == [Targets -> Members \cup {None}]

Init ==
  /\ heard = None /\ recorded = None /\ upsets = 0
  /\ points \in Pointings

\* Nothing tells a follower.
Moves ==
  /\ leaders' \in SUBSET Members
  /\ UNCHANGED <<heard, points, recorded, upsets>>

Hears ==
  /\ heard = None /\ heard' \in leaders
  /\ recorded' = None
  /\ UNCHANGED <<leaders, points, upsets>>

PointsTo(t) ==
  /\ heard # None /\ (Repoints \/ points[t] \in {heard, None})
  /\ points' = [points EXCEPT ![t] = heard]
  /\ \/ heard' \in {heard, None} /\ recorded' = None
     \/ heard' = None /\ recorded' = heard /\ \A u \in Targets : points'[u] = heard
  /\ UNCHANGED <<leaders, upsets>>

Releases(t) ==
  /\ ~Repoints /\ heard # None /\ points[t] \notin {heard, None}
  /\ points' = [points EXCEPT ![t] = None]
  /\ heard' = None /\ recorded' = None
  /\ UNCHANGED <<leaders, upsets>>

GivesUp ==
  /\ heard # None /\ heard' = None
  /\ UNCHANGED <<leaders, points, recorded, upsets>>

\* It may be stopped, or forget; who changes its targets makes it forget.
Disturbed ==
  /\ upsets' = upsets + 1
  /\ leaders' \in SUBSET Members /\ heard' \in {heard, None}
  /\ \/ points' = points /\ recorded' \in {recorded, None}
     \/ points' \in Pointings /\ recorded' = None

Next ==
  \/ Moves \/ Hears \/ GivesUp \/ Disturbed
  \/ \E t \in Targets : PointsTo(t) \/ Releases(t)

Spec == Init /\ [][Next]_vars
=============================================================================
