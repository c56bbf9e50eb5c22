---------------------------- MODULE GnbAssociation ----------------------------
(***************************************************************************)
(* What the two ends of a gNB's association are promised, whatever happens *)
(* to the sessions that carry it: one session at a time, that is given up  *)
(* only when it is broken; in each the middleware hears the NG Setup       *)
(* Request, frame 1, first, and over all of them it hears each other frame *)
(* at most once and in the order sent, although frames may be lost.        *)
(***************************************************************************)
EXTENDS Naturals

VARIABLES
  gnb,    \* the gNB's side, "up" or "closed"
  sent,   \* frames it has sent
  open,   \* there is a session
  alive,  \* and it is not broken
  over,   \* the association has been given up
  lead,   \* the frame the session began with, 0 before
  last    \* the last frame the middleware has heard, except repeated setups

vars == <<gnb, sent, open, alive, over, lead, last>>

Init ==
  /\ gnb = "up" /\ sent = 0 /\ lead = 0 /\ last = 0
  /\ open = FALSE /\ alive = FALSE /\ over = FALSE

Closes ==
  gnb = "up" /\ gnb' = "closed" /\ UNCHANGED <<sent, open, alive, over, lead, last>>

Sends ==
  gnb = "up" /\ sent' = sent + 1 /\ UNCHANGED <<gnb, open, alive, over, lead, last>>

Begins ==
  /\ ~open /\ ~over /\ open' = TRUE /\ alive' = TRUE
  /\ UNCHANGED <<gnb, sent, over, lead, last>>

Breaks == alive /\ alive' = FALSE /\ UNCHANGED <<gnb, sent, open, over, lead, last>>

\* The setup again, at the beginning of a session.
Repeats ==
  /\ alive /\ lead = 0 /\ sent > 0 /\ lead' = 1
  /\ UNCHANGED <<gnb, sent, open, alive, over, last>>

Hears ==
  /\ alive /\ last' \in (last + 1)..sent
  /\ lead' = IF lead = 0 THEN 1 ELSE lead
  /\ lead = 0 => last' = 1
  /\ UNCHANGED <<gnb, sent, open, alive, over>>

Ended == open' = FALSE /\ alive' = FALSE /\ lead' = 0

GivenUp ==
  /\ open /\ (~alive \/ gnb = "closed") /\ Ended
  /\ UNCHANGED <<gnb, sent, over, last>>

Over ==
  /\ ~over /\ gnb = "closed" /\ over' = TRUE /\ Ended
  /\ UNCHANGED <<gnb, sent, last>>

Next == Closes \/ Sends \/ Begins \/ Breaks \/ Repeats \/ Hears \/ GivenUp \/ Over

Spec == Init /\ [][Next]_vars
=============================================================================
