------------------------------ MODULE PhoneSms ------------------------------
(***************************************************************************)
(* NAS SMS from one phone to its peer, and the status the sender shows for *)
(* each message: the sms branch of action(), receiveSMS() on the peer and  *)
(* trackDelivery().  The two phones live in one process ("shared", the     *)
(* receiver marks the sender's message) or in two ("split", one goroutine  *)
(* per accepted message polls the peer's /api/state).                      *)
(*                                                                         *)
(* Each phone has one list, p.messages, for what it sends and what it      *)
(* receives.  The messages of this conversation are numbered in the order  *)
(* of sending; an entry of any other traffic is Other.  The SMS centre is  *)
(* external: it stores what it took, delivers in any order, any time       *)
(* later, at most once, and its report to the sender may be lost.          *)
(***************************************************************************)
EXTENDS Integers, Sequences, FiniteSets

CONSTANTS Modes,        \* the values of "both phones in one process"
          Texts,        \* what can be typed; equal texts are the point
          MaxSent,      \* bound: messages sent in a behaviour
          Cap,          \* trim(): 100 in the code
          MaxAttempts,  \* polls of a tracker: 30 in the code
          MaxSkew       \* how far the clocks of the two processes may differ

ASSUME ModesAssumption == Modes \subseteq BOOLEAN
ASSUME BoundsAssumption ==
  MaxSent \in Nat \ {0} /\ Cap \in Nat \ {0} /\ MaxAttempts \in Nat \ {0}
ASSUME SkewAssumption == MaxSkew \in Nat

VARIABLES
  shared,      \* both phones are in d.phones of one process
  sent,        \* how many messages were sent
  text,        \* their texts
  status,      \* the status of each, kept after trim removed the message
  sentAt,      \* phoneMessage.At of each
  history,     \* the sender's p.messages, Other for one it received
  submitting,  \* p.op: the message whose Submit is in progress, 0 if none
  stored,      \* the messages the SMS centre has taken and not delivered
  inbox,       \* the peer's p.messages, Other for one it sent
  matching,    \* the message receiveSMS has stored and not yet matched, or 0
  tracker,     \* attempts left of the tracker of each message
  clock,       \* the sender's time.Now(), one tick per message it sends
  receptions   \* observation: every message the peer received, with the clock

sender  == <<sent, text, sentAt, history, submitting>>
network == <<stored>>
peer    == <<inbox, matching, receptions>>
vars    == <<shared, sender, status, network, peer, tracker, clock>>

Msgs   == 1..MaxSent
Final  == {"failed", "delivered"}
Status == {"none", "submitting", "accepted"} \cup Final
Other  == 0
InSeq(x, s) == \E i \in DOMAIN s : s[i] = x

TypeOK ==
  /\ shared \in BOOLEAN
  /\ sent \in 0..MaxSent
  /\ text \in [Msgs -> Texts]
  /\ status \in [Msgs -> Status]
  /\ \A m \in Msgs : status[m] = "none" <=> m > sent
  /\ sentAt \in [Msgs -> Nat]
  /\ history \in Seq(0..sent) /\ Len(history) <= Cap
  /\ submitting \in 0..sent
  /\ stored \in SUBSET (1..sent)
  /\ inbox \in Seq([msg : 0..sent, at : Int]) /\ Len(inbox) <= Cap
  /\ matching \in 0..sent
  /\ tracker \in [Msgs -> 0..MaxAttempts]
  /\ clock \in Nat
  /\ receptions \in SUBSET [msg : 1..sent, at : Nat]

Init ==
  /\ shared \in Modes
  /\ sent = 0
  /\ text \in [Msgs -> Texts]
  /\ status = [m \in Msgs |-> "none"]
  /\ sentAt = [m \in Msgs |-> 0]
  /\ history = <<>>
  /\ submitting = 0
  /\ stored = {}
  /\ inbox = <<>>
  /\ matching = 0
  /\ tracker = [m \in Msgs |-> 0]
  /\ clock = 0
  /\ receptions = {}

\* Fault: the history is not bounded.
Trim_Never(s) == s

\* trim(): the oldest entry goes, sent or received, settled or not, when there
\* are more than Cap.
Trim(s) == IF Len(s) > Cap THEN Tail(s) ELSE s

-----------------------------------------------------------------------------
(* The sms action, under p.op *)

\* The message is stored as "submitting", then Submit is called.
Send ==
  /\ submitting = 0
  /\ sent < MaxSent
  /\ sent' = sent + 1
  /\ status' = [status EXCEPT ![sent + 1] = "submitting"]
  /\ clock' = clock + 1
  /\ sentAt' = [sentAt EXCEPT ![sent + 1] = clock + 1]
  /\ history' = Trim(Append(history, sent + 1))
  /\ submitting' = sent + 1
  /\ UNCHANGED <<shared, text, network, peer, tracker>>

\* The SMS centre takes the message.
CentreTakes ==
  /\ submitting # 0
  /\ submitting \notin stored
  /\ ~ \E rec \in receptions : rec.msg = submitting
  /\ stored' = stored \cup {submitting}
  /\ UNCHANGED <<shared, sender, status, peer, tracker, clock>>

AtCentre(m) == m \in stored \/ \E rec \in receptions : rec.msg = m

\* Fault: a late result overwrites a delivery that was seen before it.
Reported_Overwrites(m, result) ==
  IF InSeq(m, history) THEN [status EXCEPT ![m] = result] ELSE status

\* What Submit's result does to the message, if trim left it there.
Reported(m, result) ==
  IF InSeq(m, history) /\ status[m] # "delivered"
  THEN [status EXCEPT ![m] = result] ELSE status

\* Submit returns an acknowledgement; a split phone starts a tracker.
Accepted ==
  /\ submitting # 0
  /\ AtCentre(submitting)
  /\ status' = Reported(submitting, "accepted")
  /\ tracker' = IF shared THEN tracker
                ELSE [tracker EXCEPT ![submitting] = MaxAttempts]
  /\ submitting' = 0
  /\ UNCHANGED <<shared, sent, text, sentAt, history, network, peer, clock>>

\* Fault: an error returns before the status is written.
SubmitFails_EarlyReturn ==
  /\ submitting # 0
  /\ submitting' = 0
  /\ UNCHANGED <<shared, sent, text, status, sentAt, history, network, peer,
                 tracker, clock>>

\* Submit returns an error: RP-ERROR, or 30 s passed without a report, which
\* says nothing about what the SMS centre will do with the message.
SubmitFails ==
  /\ submitting # 0
  /\ status' = Reported(submitting, "failed")
  /\ submitting' = 0
  /\ UNCHANGED <<shared, sent, text, sentAt, history, network, peer, tracker,
                 clock>>

-----------------------------------------------------------------------------
(* receiveSMS on the peer *)

\* What time.Now() gives in the peer's process.
PeerClock == IF shared THEN {clock} ELSE (clock - MaxSkew)..(clock + MaxSkew)

Deliver(m) ==
  /\ m \in stored
  /\ matching = 0
  /\ stored' = stored \ {m}
  /\ \E t \in PeerClock : inbox' = Trim(Append(inbox, [msg |-> m, at |-> t]))
  /\ receptions' = receptions \cup {[msg |-> m, at |-> clock]}
  /\ matching' = IF shared THEN m ELSE 0
  /\ UNCHANGED <<shared, sender, status, tracker, clock>>

\* Fault: only a message whose acknowledgement was already seen is matched.
Open_Accepted(m) == status[m] = "accepted"

Open(m) == status[m] \in {"submitting", "accepted"}

\* The entries of the sender's history the loop of receiveSMS may mark.
Matches == { i \in DOMAIN history :
               /\ history[i] # Other
               /\ Open(history[i])
               /\ text[history[i]] = text[matching] }

\* Fault: the loop goes on after the first match.
Match_NoBreak ==
  /\ matching # 0
  /\ status' = [m \in Msgs |-> IF \E i \in Matches : history[i] = m
                               THEN "delivered" ELSE status[m]]
  /\ matching' = 0
  /\ UNCHANGED <<shared, sender, network, inbox, receptions, tracker, clock>>

\* Under the sender's p.mu: the first match is delivered, then break.
Match ==
  /\ matching # 0
  /\ status' = [m \in Msgs |->
                  IF \E i \in Matches :
                       history[i] = m /\ \A j \in Matches : i <= j
                  THEN "delivered" ELSE status[m]]
  /\ matching' = 0
  /\ UNCHANGED <<shared, sender, network, inbox, receptions, tracker, clock>>

-----------------------------------------------------------------------------
(* trackDelivery of message m: one attempt per second.  Poll joins the GET of *)
(* the peer's state and its use: what a response showed was received.         *)

\* Fault: an old message counts as evidence for a new one.
Evidence_AnyTime(m) ==
  \E i \in DOMAIN inbox : inbox[i].msg # Other /\ text[inbox[i].msg] = text[m]

\* The peer shows a received message like m, and the time its own clock gave it
\* is not before the one the sender's clock gave m.
Evidence(m) ==
  \E i \in DOMAIN inbox : /\ inbox[i].msg # Other
                          /\ text[inbox[i].msg] = text[m]
                          /\ inbox[i].at >= sentAt[m]

Poll(m) ==
  /\ tracker[m] > 0
  /\ \/ /\ ~InSeq(m, history)
        /\ tracker' = [tracker EXCEPT ![m] = 0]
        /\ UNCHANGED status
     \/ /\ InSeq(m, history)
        /\ Evidence(m)
        /\ status' = [status EXCEPT ![m] = "delivered"]
        /\ tracker' = [tracker EXCEPT ![m] = 0]
     \/ /\ InSeq(m, history)
        /\ ~Evidence(m)
        /\ tracker' = [tracker EXCEPT ![m] = @ - 1]
        /\ UNCHANGED status
  /\ UNCHANGED <<shared, sender, network, peer, clock>>

\* The peer does not answer, or not with JSON.
PollFails(m) ==
  /\ tracker[m] > 0
  /\ tracker' = [tracker EXCEPT ![m] = @ - 1]
  /\ UNCHANGED <<shared, sender, status, network, peer, clock>>

-----------------------------------------------------------------------------
(* Other traffic of the two phones.  It goes through the same lists.          *)

\* The sender receives a message, from the peer or from someone else.
SenderReceives ==
  /\ history' = Trim(Append(history, Other))
  /\ UNCHANGED <<shared, sent, text, status, sentAt, submitting, network, peer,
                 tracker, clock>>

\* The peer sends one.  Nothing looks at the time of such an entry.
PeerSends ==
  /\ inbox' = Trim(Append(inbox, [msg |-> Other, at |-> 0]))
  /\ UNCHANGED <<shared, sender, status, network, matching, receptions, tracker, clock>>

-----------------------------------------------------------------------------
(* Messages are kept in memory only.  Observations outlive the processes.     *)

\* The process of the peer is started again; the inbox, all that a tracker
\* could see, is empty.
PeerRestarts ==
  /\ ~shared /\ inbox' = <<>>
  /\ UNCHANGED <<shared, sender, status, network, matching, receptions, tracker, clock>>

\* The process of the sender is: no history, no request and no tracker is left,
\* and of a peer in the same process neither inbox nor receiver.
SenderRestarts ==
  /\ history' = <<>> /\ submitting' = 0 /\ tracker' = [m \in Msgs |-> 0]
  /\ inbox' = IF shared THEN <<>> ELSE inbox
  /\ matching' = 0
  /\ UNCHANGED <<shared, sent, text, status, sentAt, network, receptions, clock>>

Next ==
  \/ SenderReceives \/ PeerSends \/ PeerRestarts \/ SenderRestarts
  \/ Send \/ CentreTakes \/ Accepted \/ SubmitFails \/ Match
  \/ \E m \in Msgs : Deliver(m) \/ Poll(m) \/ PollFails(m)

Spec == Init /\ [][Next]_vars

-----------------------------------------------------------------------------
(* Properties *)

\* Three goroutines write a message's status.  None takes back a delivery, a
\* failure is final, and acceptance is only ever followed by delivery.
StatusOnlyAdvances ==
  [][\A m \in Msgs :
       status'[m] # status[m] =>
         \/ status[m] = "none" /\ status'[m] = "submitting"
         \/ status[m] = "submitting" /\ status'[m] \in {"accepted"} \cup Final
         \/ status[m] = "accepted" /\ status'[m] = "delivered"]_vars

\* "delivered to UE" always rests on a message with that text which the peer has
\* received, and between two processes on one that did not come before the
\* sending by more than their clocks differ.
DeliveryHasEvidence ==
  \A m \in Msgs :
    status[m] = "delivered" =>
      \E rec \in receptions : /\ text[rec.msg] = text[m]
                              /\ ~shared => rec.at + MaxSkew >= sentAt[m]

CountOf(S, t) == Cardinality({ m \in S : text[m] = t })
Received == { rec.msg : rec \in receptions }

\* In one process every reception confirms at most one message, and none is
\* lost: once matched, it has confirmed a message unless all with its text were
\* already settled or trimmed.
ReceptionsBalance ==
  shared => \A t \in Texts :
    /\ CountOf({m \in Msgs : status[m] = "delivered"}, t) <= CountOf(Received, t)
    /\ matching = 0 =>
         CountOf(Received, t)
           <= CountOf({m \in 1..sent : status[m] \in Final \/ ~InSeq(m, history)}, t)

\* A message on display shows "submitting" only while its request is running: no
\* order of Submit's result, the receiver, the trackers, trim and restarts leaves
\* one behind that no request will settle.
OwnedBySubmit ==
  \A m \in Msgs : status[m] = "submitting" /\ InSeq(m, history) => submitting = m

\* README.md:96 of the chart: the label "changes to `delivered to UE` only
\* when the other persistent simulated UE receives the matching NAS SMS".
DeliveredMeansReceived ==
  \A m \in Msgs : status[m] = "delivered" => m \in Received
=============================================================================
