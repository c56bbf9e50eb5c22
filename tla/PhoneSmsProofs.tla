--------------------------- MODULE PhoneSmsProofs ---------------------------
(* The status of a message, for any number of messages, any bounds and any *)
(* difference of the clocks.                                               *)
EXTENDS PhoneSms, FiniteSetTheorems, TLAPS

\* A submission in progress has not been settled, except by a delivery, and
\* nobody tracks it yet.
SubmissionInv ==
  submitting # 0 => /\ status[submitting] \in {"submitting", "delivered"}
                    /\ tracker[submitting] = 0

\* A tracker that may still write finds its message accepted or delivered.
TrackerInv ==
  /\ \A m \in Msgs : m > sent => tracker[m] = 0
  /\ \A m \in Msgs : tracker[m] > 0 /\ InSeq(m, history)
                       => status[m] \in {"accepted", "delivered"}

\* An entry of the peer's list for a message it received, and the message itself.
ReceivedAs(e, rec) == e.msg = rec.msg /\ e.at <= rec.at + MaxSkew

\* The evidence a delivery is taken from: what the peer's list shows as received,
\* at a time at most the difference of the clocks too late, and the message that
\* is being matched, were received.
ReceptionInv ==
  /\ \A i \in DOMAIN inbox :
       inbox[i].msg # Other => \E rec \in receptions : ReceivedAs(inbox[i], rec)
  /\ matching # 0 => shared /\ \E rec \in receptions : rec.msg = matching

IInv == TypeOK /\ SubmissionInv /\ TrackerInv /\ ReceptionInv /\ DeliveryHasEvidence

-----------------------------------------------------------------------------
USE ModesAssumption, BoundsAssumption, SkewAssumption DEF sender, network, peer

\* TypeOK in two parts: what is counted and mapped, and what is listed.
Fields ==
  /\ shared \in BOOLEAN /\ sent \in 0..MaxSent /\ clock \in Nat
  /\ text \in [Msgs -> Texts] /\ status \in [Msgs -> Status]
  /\ \A m \in Msgs : status[m] = "none" <=> m > sent
  /\ sentAt \in [Msgs -> Nat] /\ tracker \in [Msgs -> 0..MaxAttempts]
  /\ submitting \in 0..sent /\ matching \in 0..sent /\ stored \in SUBSET (1..sent)

Boxes ==
  /\ history \in Seq(0..sent) /\ Len(history) <= Cap
  /\ inbox \in Seq([msg : 0..sent, at : Int]) /\ Len(inbox) <= Cap
  /\ receptions \in SUBSET [msg : 1..sent, at : Nat]

\* The two parts are TypeOK, before a step and after it.
LEMMA TypeParts == (TypeOK <=> Fields /\ Boxes) /\ (TypeOK' <=> Fields' /\ Boxes')
<1>1. TypeOK <=> Fields /\ Boxes
  BY Zenon DEF TypeOK, Fields, Boxes
<1>2. QED
  BY <1>1, Zenon DEF TypeOK, Fields, Boxes

\* A step that leaves what is listed alone leaves its type alone.
LEMMA BoxesStay ==
  ASSUME Boxes, UNCHANGED <<sent, history, inbox, receptions>>
  PROVE  Boxes'
  BY Zenon DEF Boxes

\* trim() keeps at most Cap of the entries of a history that just grew by one,
\* and adds none.
LEMMA TrimKeeps ==
  ASSUME NEW S, NEW s \in Seq(S), NEW e \in S, Len(s) <= Cap
  PROVE  /\ Trim(Append(s, e)) \in Seq(S)
         /\ Len(Trim(Append(s, e))) <= Cap
         /\ \A x : InSeq(x, Trim(Append(s, e))) => x = e \/ InSeq(x, s)
<1> DEFINE a == Append(s, e)
<1>1. /\ a \in Seq(S) /\ Len(a) = Len(s) + 1 /\ Len(s) \in Nat
      /\ \A i \in 1..Len(a) : a[i] = IF i <= Len(s) THEN s[i] ELSE e
  OBVIOUS
<1>2. CASE Len(a) > Cap
  <2>1. a # <<>>
    BY <1>1
  <2>2. /\ Tail(a) \in Seq(S) /\ Len(Tail(a)) = Len(s)
        /\ \A i \in 1..Len(s) : Tail(a)[i] = a[i + 1]
    BY <1>1, <2>1
  <2>3. Trim(a) = Tail(a)
    BY <1>2 DEF Trim
  <2>4. ASSUME NEW x, InSeq(x, Tail(a)) PROVE x = e \/ InSeq(x, s)
    <3>1. PICK i \in 1..Len(s) : Tail(a)[i] = x
      BY <2>2, <2>4 DEF InSeq
    <3>2. a[i + 1] = x /\ i + 1 \in 1..Len(a)
      BY <1>1, <2>2, <3>1
    <3>3. QED
      BY <1>1, <3>2 DEF InSeq
  <2>5. QED
    BY <2>2, <2>3, <2>4
<1>3. CASE ~(Len(a) > Cap)
  <2>1. Trim(a) = a
    BY <1>3 DEF Trim
  <2>2. ASSUME NEW x, InSeq(x, a) PROVE x = e \/ InSeq(x, s)
    BY <1>1, <2>2 DEF InSeq
  <2>3. QED
    BY <1>1, <1>3, <2>1, <2>2
<1>4. QED
  BY <1>2, <1>3

LEMMA SeqGrows ==
  ASSUME NEW S, NEW T, S \subseteq T, NEW s \in Seq(S)
  PROVE  s \in Seq(T)
OBVIOUS

LEMMA SeqElement ==
  ASSUME NEW S, NEW s \in Seq(S), NEW i \in DOMAIN s
  PROVE  s[i] \in S
OBVIOUS

LEMMA InitIInv == Init => IInv
<1> SUFFICES ASSUME Init PROVE IInv
  OBVIOUS
<1>1. <<>> \in Seq(0..sent) /\ <<>> \in Seq([msg : 0..sent, at : Int]) /\ Len(<<>>) <= Cap
  OBVIOUS
<1>2. TypeOK
  BY <1>1 DEF Init, TypeOK, Status
<1>3. SubmissionInv /\ TrackerInv /\ ReceptionInv /\ DeliveryHasEvidence
  BY DEF Init, SubmissionInv, TrackerInv, ReceptionInv, DeliveryHasEvidence
<1>4. QED
  BY <1>2, <1>3 DEF IInv

\* A new message: the sequences and sets of messages grow with sent.
LEMMA SendStep ==
  ASSUME IInv, Send
  PROVE  IInv'
<1> USE DEF IInv, Msgs
<1>0. Fields /\ Boxes
  BY TypeParts
<1>1. sent \in Nat /\ sent' = sent + 1 /\ sent' \in 1..MaxSent
  BY DEF Send, TypeOK
<1>2. history \in Seq(0..sent') /\ sent' \in 0..sent'
  BY <1>1 DEF TypeOK
<1>3. /\ history' \in Seq(0..sent') /\ Len(history') <= Cap
      /\ \A m : InSeq(m, history') => m = sent' \/ InSeq(m, history)
  <2>1. history' = Trim(Append(history, sent')) /\ Len(history) <= Cap
    BY <1>1 DEF Send, TypeOK
  <2>2. QED
    BY <1>2, <2>1, TrimKeeps
<1>4. inbox' \in Seq([msg : 0..sent', at : Int]) /\ Len(inbox') <= Cap
  <2>1. [msg : 0..sent, at : Int] \subseteq [msg : 0..sent', at : Int]
    BY <1>1
  <2>2. inbox \in Seq([msg : 0..sent', at : Int])
    <3>1. inbox \in Seq([msg : 0..sent, at : Int])
      BY DEF TypeOK
    <3>2. QED
      BY <2>1, <3>1, SeqGrows
  <2>3. QED
    BY <2>2 DEF Send, TypeOK
<1>5. receptions' \in SUBSET [msg : 1..sent', at : Nat]
  BY <1>0, <1>1 DEF Send, Boxes
<1>6. TypeOK'
  <2>1. /\ status' \in [Msgs -> Status] /\ sentAt' \in [Msgs -> Nat] /\ clock' \in Nat
        /\ \A m \in Msgs : status'[m] = "none" <=> m > sent'
    BY <1>1, <1>0 DEF Send, Fields, Status
  <2>2. /\ submitting' \in 0..sent' /\ matching' \in 0..sent' /\ sent' \in 0..MaxSent
        /\ stored' \in SUBSET (1..sent')
    BY <1>1, <1>0 DEF Send, Fields
  <2>3. shared' = shared /\ text' = text /\ tracker' = tracker
    BY DEF Send
  <2>4. Fields'
    BY <2>1, <2>2, <2>3, <1>0 DEF Fields
  <2>5. Boxes'
    BY <1>3, <1>4, <1>5 DEF Boxes
  <2>6. QED
    BY <2>4, <2>5, TypeParts
<1>7. SubmissionInv' /\ TrackerInv'
  <2>1. sent' \in Msgs /\ submitting' = sent' /\ tracker' = tracker /\ tracker[sent'] = 0
    BY <1>1 DEF Send, TrackerInv
  <2>2. status' = [status EXCEPT ![sent'] = "submitting"] /\ status \in [Msgs -> Status]
    BY <1>1 DEF Send, TypeOK
  <2>3. SubmissionInv'
    BY <2>1, <2>2 DEF SubmissionInv
  <2>4. QED
    BY <1>1, <1>3, <2>1, <2>2, <2>3 DEF TrackerInv
<1>8. ReceptionInv' /\ DeliveryHasEvidence'
  BY <1>1 DEF Send, TypeOK, ReceptionInv, DeliveryHasEvidence
<1>9. QED
  BY <1>6, <1>7, <1>8

LEMMA ReportedType ==
  ASSUME IInv, submitting # 0, NEW result \in {"accepted", "failed"}
  PROVE  /\ Reported(submitting, result) \in [Msgs -> Status]
         /\ \A m \in Msgs :
              Reported(submitting, result)[m] = "none" <=> status[m] = "none"
<1>1. submitting \in Msgs /\ status \in [Msgs -> Status] /\ status[submitting] # "none"
  BY DEF IInv, TypeOK, Msgs
<1>2. QED
  BY <1>1 DEF Reported, Status, Final

\* The result of Submit, whichever it is, leaves a delivery alone.
LEMMA SubmitStep ==
  ASSUME IInv, CentreTakes \/ Accepted \/ SubmitFails
  PROVE  IInv'
<1> USE DEF IInv, Msgs
<1>0. Fields /\ Boxes
  BY TypeParts
<1>1. CASE CentreTakes
  <2>1. TypeOK'
    <3>1. Fields'
      BY <1>1, <1>0 DEF CentreTakes, Fields
    <3>2. QED
      BY <1>1, <3>1, TypeParts, BoxesStay DEF CentreTakes
  <2>2. SubmissionInv' /\ TrackerInv' /\ ReceptionInv' /\ DeliveryHasEvidence'
    BY <1>1 DEF CentreTakes, SubmissionInv, TrackerInv, ReceptionInv,
                DeliveryHasEvidence
  <2>3. QED
    BY <2>1, <2>2
<1>2. CASE Accepted
  <2>1. TypeOK'
    <3>1. tracker' \in [Msgs -> 0..MaxAttempts]
      BY <1>0, <1>2 DEF Accepted, Fields
    <3>2. status' = Reported(submitting, "accepted") /\ submitting # 0
      BY <1>2 DEF Accepted
    <3>3. /\ status' \in [Msgs -> Status]
          /\ \A m \in Msgs : status'[m] = "none" <=> m > sent
      BY <1>0, <3>2, ReportedType DEF Fields
    <3>4. QED
      <4>1. Fields'
        BY <1>2, <3>1, <3>3, <1>0 DEF Accepted, Fields
      <4>2. QED
        BY <1>2, <4>1, TypeParts, BoxesStay DEF Accepted
  <2>2. SubmissionInv' /\ TrackerInv'
    BY <1>2 DEF Accepted, Reported, TypeOK, SubmissionInv, TrackerInv
  <2>3. ReceptionInv' /\ DeliveryHasEvidence'
    BY <1>2 DEF Accepted, Reported, ReceptionInv, DeliveryHasEvidence
  <2>4. QED
    BY <2>1, <2>2, <2>3
<1>3. CASE SubmitFails
  <2>1. TypeOK'
    <3>1. status' = Reported(submitting, "failed") /\ submitting # 0
      BY <1>3 DEF SubmitFails
    <3>2. /\ status' \in [Msgs -> Status]
          /\ \A m \in Msgs : status'[m] = "none" <=> m > sent
      BY <1>0, <3>1, ReportedType DEF Fields
    <3>3. QED
      <4>1. Fields'
        BY <1>3, <3>2, <1>0 DEF SubmitFails, Fields
      <4>2. QED
        BY <1>3, <4>1, TypeParts, BoxesStay DEF SubmitFails
  <2>2. SubmissionInv' /\ TrackerInv'
    BY <1>3 DEF SubmitFails, Reported, SubmissionInv, TrackerInv
  <2>3. ReceptionInv' /\ DeliveryHasEvidence'
    BY <1>3 DEF SubmitFails, Reported, ReceptionInv, DeliveryHasEvidence
  <2>4. QED
    BY <2>1, <2>2, <2>3
<1>4. QED
  BY <1>1, <1>2, <1>3

\* A reception becomes evidence, and in one process the message to match.
LEMMA DeliverStep ==
  ASSUME IInv, NEW m \in Msgs, Deliver(m)
  PROVE  IInv'
<1> DEFINE rec == [msg |-> m, at |-> clock]
<1> USE DEF IInv, Msgs
<1>1. m \in 1..sent /\ rec \in [msg : 1..sent, at : Nat]
  BY DEF Deliver, TypeOK
<1>2. PICK t \in PeerClock : inbox' = Trim(Append(inbox, [msg |-> m, at |-> t]))
  BY DEF Deliver
<1> DEFINE e == [msg |-> m, at |-> t]
<1>3. t \in Int /\ t <= clock + MaxSkew /\ receptions' = receptions \cup {rec}
  BY DEF PeerClock, Deliver, TypeOK
<1>4. e \in [msg : 0..sent, at : Int] /\ ReceivedAs(e, rec)
  BY <1>1, <1>3 DEF ReceivedAs
<1>5. /\ inbox' \in Seq([msg : 0..sent, at : Int]) /\ Len(inbox') <= Cap
      /\ \A x : InSeq(x, inbox') => x = e \/ InSeq(x, inbox)
  <2>1. inbox \in Seq([msg : 0..sent, at : Int]) /\ Len(inbox) <= Cap
    BY DEF TypeOK
  <2> HIDE DEF rec, e, IInv, Msgs
  <2>2. inbox' = Trim(Append(inbox, e))
    BY <1>2 DEF e
  <2>3. QED
    BY <1>4, <2>1, <2>2, TrimKeeps
<1>6. TypeOK'
  <2>1. receptions' \in SUBSET [msg : 1..sent, at : Nat]
    BY <1>1, <1>3 DEF TypeOK
  <2>2. matching' \in 0..sent /\ stored' \in SUBSET (1..sent)
    BY <1>1 DEF Deliver, TypeOK
  <2>3. QED
    BY <1>5, <2>1, <2>2 DEF Deliver, TypeOK
<1>7. SubmissionInv' /\ TrackerInv'
  BY DEF Deliver, SubmissionInv, TrackerInv
<1>8. ReceptionInv'
  <2>1. \A i \in DOMAIN inbox' :
          inbox'[i].msg # Other => \E q \in receptions' : ReceivedAs(inbox'[i], q)
    <3> SUFFICES ASSUME NEW i \in DOMAIN inbox', inbox'[i].msg # Other
                 PROVE  \E q \in receptions' : ReceivedAs(inbox'[i], q)
      OBVIOUS
    <3>1. CASE inbox'[i] = e
      BY <1>3, <1>4, <3>1
    <3>2. CASE InSeq(inbox'[i], inbox)
      BY <1>3, <3>2 DEF InSeq, ReceptionInv
    <3>3. QED
      BY <1>5, <3>1, <3>2 DEF InSeq
  <2>2. matching' # 0 => shared' /\ rec.msg = matching' /\ rec \in receptions'
    BY <1>3 DEF Deliver
  <2>3. QED
    BY <2>1, <2>2 DEF ReceptionInv
<1>9. DeliveryHasEvidence'
  BY <1>3 DEF Deliver, DeliveryHasEvidence
<1>10. QED
  BY <1>6, <1>7, <1>8, <1>9

\* Other traffic can only push an entry out of a list.
LEMMA OtherTrafficStep ==
  ASSUME IInv, SenderReceives \/ PeerSends
  PROVE  IInv'
<1> USE DEF IInv, Msgs, Other
<1>0. Fields /\ Boxes
  BY TypeParts
<1>1. CASE SenderReceives
  <2>1. /\ history' \in Seq(0..sent) /\ Len(history') <= Cap
        /\ \A x : InSeq(x, history') => x = Other \/ InSeq(x, history)
    <3>1. history' = Trim(Append(history, Other)) /\ Other \in 0..sent
      BY <1>1 DEF SenderReceives, TypeOK
    <3>2. history \in Seq(0..sent) /\ Len(history) <= Cap
      BY DEF TypeOK
    <3> HIDE DEF Other
    <3>3. QED
      BY <3>1, <3>2, TrimKeeps
  <2>2. TypeOK'
    <3>1. Fields'
      BY <1>1, <1>0 DEF SenderReceives, Fields
    <3>2. Boxes'
      BY <1>1, <2>1, <1>0 DEF SenderReceives, Boxes
    <3>3. QED
      BY <3>1, <3>2, TypeParts
  <2>3. TrackerInv'
    BY <1>1, <2>1 DEF SenderReceives, TrackerInv
  <2>4. SubmissionInv' /\ ReceptionInv' /\ DeliveryHasEvidence'
    BY <1>1 DEF SenderReceives, SubmissionInv, ReceptionInv, DeliveryHasEvidence
  <2>5. QED
    BY <2>2, <2>3, <2>4
<1>2. CASE PeerSends
  <2> DEFINE e == [msg |-> Other, at |-> 0]
  <2>1. /\ inbox' \in Seq([msg : 0..sent, at : Int]) /\ Len(inbox') <= Cap
        /\ \A x : InSeq(x, inbox') => x = e \/ InSeq(x, inbox)
    <3>1. inbox' = Trim(Append(inbox, e)) /\ e \in [msg : 0..sent, at : Int]
      BY <1>2 DEF PeerSends, TypeOK
    <3>2. inbox \in Seq([msg : 0..sent, at : Int]) /\ Len(inbox) <= Cap
      BY DEF TypeOK
    <3> HIDE DEF e, IInv
    <3>3. QED
      BY <3>1, <3>2, TrimKeeps
  <2>2. TypeOK'
    <3>1. Fields'
      BY <1>2, <1>0 DEF PeerSends, Fields
    <3>2. Boxes'
      BY <1>2, <2>1, <1>0 DEF PeerSends, Boxes
    <3>3. QED
      BY <3>1, <3>2, TypeParts
  <2>3. ReceptionInv'
    <3>1. UNCHANGED <<shared, matching, receptions>>
      BY <1>2 DEF PeerSends
    <3>2. \A i \in DOMAIN inbox' :
            inbox'[i].msg # Other => \E j \in DOMAIN inbox : inbox[j] = inbox'[i]
      BY <2>1 DEF InSeq
    <3>3. QED
      BY <3>1, <3>2 DEF ReceptionInv
  <2>4. SubmissionInv' /\ TrackerInv' /\ DeliveryHasEvidence'
    BY <1>2 DEF PeerSends, SubmissionInv, TrackerInv, DeliveryHasEvidence
  <2>5. QED
    BY <2>2, <2>3, <2>4
<1>3. QED
  BY <1>1, <1>2

\* receiveSMS marks messages with the text of one that was received.
LEMMA MatchStep ==
  ASSUME IInv, Match
  PROVE  IInv'
<1> USE DEF IInv, Msgs
<1>0. Fields /\ Boxes
  BY TypeParts
<1>1. \A m \in Msgs :
        \/ status'[m] = status[m]
        \/ /\ status'[m] = "delivered" /\ text[m] = text[matching]
           /\ Open(m) /\ InSeq(m, history)
  BY DEF Match, Matches, InSeq
<1>2. /\ status' \in [Msgs -> Status]
      /\ \A m \in Msgs : status'[m] = "none" <=> status[m] = "none"
  <2>1. \A m \in Msgs : status'[m] \in Status
    BY <1>1 DEF TypeOK, Status, Final
  <2>2. status' = [m \in Msgs |-> status'[m]]
    BY DEF Match
  <2>3. \A m \in Msgs : status'[m] = "none" <=> status[m] = "none"
    BY <1>1 DEF Open
  <2>4. QED
    BY <2>1, <2>2, <2>3
<1>3. TypeOK'
  <2>1. UNCHANGED <<shared, sender, network, inbox, receptions, tracker, clock>>
        /\ matching' = 0
    BY DEF Match
  <2>2. QED
    <3>1. Fields'
      BY <1>2, <2>1, <1>0 DEF Fields
    <3>2. QED
      BY <2>1, <3>1, TypeParts, BoxesStay
<1>4. SubmissionInv' /\ TrackerInv'
  BY <1>1 DEF Match, TypeOK, SubmissionInv, TrackerInv
<1>5. ReceptionInv'
  BY DEF Match, ReceptionInv
<1>6. DeliveryHasEvidence'
  <2>1. shared /\ \E rec \in receptions : rec.msg = matching
    BY DEF Match, ReceptionInv
  <2>2. UNCHANGED <<shared, text, sentAt, receptions>>
    BY DEF Match
  <2>3. QED
    BY <1>1, <2>1, <2>2 DEF DeliveryHasEvidence
<1>7. QED
  BY <1>3, <1>4, <1>5, <1>6

\* A tracker marks its message on what it saw in the inbox.
LEMMA TrackerStep ==
  ASSUME IInv, NEW m \in Msgs, Poll(m) \/ PollFails(m)
  PROVE  IInv'
<1> USE DEF IInv, Msgs
<1>0. Fields /\ Boxes
  BY TypeParts
<1>1. /\ tracker' \in [Msgs -> 0..MaxAttempts]
      /\ \A n \in Msgs : tracker'[n] > 0 => tracker[n] > 0
      /\ \A n \in Msgs : tracker[n] = 0 => tracker'[n] = 0
  <2>1. tracker' \in {[tracker EXCEPT ![m] = 0], [tracker EXCEPT ![m] = @ - 1]}
        /\ tracker[m] > 0 /\ tracker \in [Msgs -> 0..MaxAttempts]
    BY DEF Poll, PollFails, TypeOK
  <2>2. QED
    BY <2>1
<1>2. \/ UNCHANGED status
      \/ /\ status' = [status EXCEPT ![m] = "delivered"]
         /\ status[m] # "none" /\ Evidence(m)
  BY DEF Poll, PollFails, TrackerInv
<1>3. /\ status' \in [Msgs -> Status]
      /\ \A n \in Msgs : status'[n] = "none" <=> status[n] = "none"
      /\ \A n \in Msgs : status'[n] \in {status[n], "delivered"}
  BY <1>2 DEF TypeOK, Status, Final
<1>4. UNCHANGED <<shared, sender, network, peer, clock>>
  BY DEF Poll, PollFails
<1>5. TypeOK'
  <2>1. Fields'
    BY <1>1, <1>3, <1>4, <1>0 DEF Fields
  <2>2. QED
    BY <1>4, <2>1, TypeParts, BoxesStay
<1>6. SubmissionInv' /\ TrackerInv'
  <2>1. SubmissionInv'
    BY <1>1, <1>3, <1>4, <1>0 DEF Fields, SubmissionInv
  <2>2. TrackerInv'
    BY <1>1, <1>3, <1>4 DEF TrackerInv
  <2>3. QED
    BY <2>1, <2>2
<1>7. ReceptionInv'
  BY <1>4 DEF ReceptionInv
<1>8. DeliveryHasEvidence'
  <2>1. Evidence(m) => \E rec \in receptions : /\ text[rec.msg] = text[m]
                                              /\ rec.at + MaxSkew >= sentAt[m]
    <3> SUFFICES ASSUME Evidence(m)
                 PROVE  \E rec \in receptions : /\ text[rec.msg] = text[m]
                                                /\ rec.at + MaxSkew >= sentAt[m]
      OBVIOUS
    <3>1. PICK i \in DOMAIN inbox : /\ inbox[i].msg # Other
                                   /\ text[inbox[i].msg] = text[m]
                                   /\ inbox[i].at >= sentAt[m]
      BY DEF Evidence
    <3>2. PICK rec \in receptions : ReceivedAs(inbox[i], rec)
      BY <3>1 DEF ReceptionInv
    <3>3. inbox[i].at \in Int /\ rec.at \in Nat /\ sentAt[m] \in Nat
      <4>1. inbox \in Seq([msg : 0..sent, at : Int])
        BY DEF TypeOK
      <4>2. inbox[i] \in [msg : 0..sent, at : Int]
        BY <4>1, SeqElement
      <4>3. QED
        BY <4>2 DEF TypeOK
    <3>4. QED
      BY <3>1, <3>2, <3>3 DEF ReceivedAs
  <2>2. QED
    BY <1>2, <1>4, <2>1 DEF TypeOK, DeliveryHasEvidence
<1>9. QED
  BY <1>5, <1>6, <1>7, <1>8

\* A process that starts again forgets; what it forgets is nobody's evidence.
LEMMA RestartStep ==
  ASSUME IInv, PeerRestarts \/ SenderRestarts
  PROVE  IInv'
<1> USE DEF IInv, Msgs
<1>0. Fields /\ Boxes
  BY TypeParts
<1>1. <<>> \in Seq(0..sent) /\ <<>> \in Seq([msg : 0..sent, at : Int]) /\ Len(<<>>) <= Cap
  OBVIOUS
<1>2. CASE PeerRestarts
  <2>1. TypeOK'
    <3>1. Fields'
      BY <1>2, <1>0 DEF PeerRestarts, Fields
    <3>2. Boxes'
      BY <1>1, <1>2, <1>0 DEF PeerRestarts, Boxes
    <3>3. QED
      BY <3>1, <3>2, TypeParts
  <2>2. SubmissionInv' /\ TrackerInv' /\ ReceptionInv' /\ DeliveryHasEvidence'
    BY <1>2 DEF PeerRestarts, SubmissionInv, TrackerInv, ReceptionInv,
                DeliveryHasEvidence
  <2>3. QED
    BY <2>1, <2>2
<1>3. CASE SenderRestarts
  <2>1. inbox' \in {inbox, <<>>}
    BY <1>3 DEF SenderRestarts
  <2>2. TypeOK'
    <3>1. Fields'
      BY <1>3, <1>0 DEF SenderRestarts, Fields
    <3>2. Boxes'
      BY <1>1, <1>3, <2>1, <1>0 DEF SenderRestarts, Boxes
    <3>3. QED
      BY <3>1, <3>2, TypeParts
  <2>3. SubmissionInv' /\ TrackerInv' /\ ReceptionInv' /\ DeliveryHasEvidence'
    BY <1>3, <2>1 DEF SenderRestarts, SubmissionInv, TrackerInv, ReceptionInv,
                      DeliveryHasEvidence
  <2>4. QED
    BY <2>2, <2>3
<1>4. QED
  BY <1>2, <1>3

-----------------------------------------------------------------------------
\* The inductive invariant holds in every reachable state.
THEOREM Invariance == Spec => []IInv
<1>1. IInv /\ [Next]_vars => IInv'
  <2> SUFFICES ASSUME IInv, [Next]_vars PROVE IInv'
    OBVIOUS
  <2>1. CASE UNCHANGED vars
    BY <2>1 DEF vars, IInv, TypeOK, SubmissionInv, TrackerInv, ReceptionInv,
                DeliveryHasEvidence
  <2>2. CASE Next
    BY <2>2, SendStep, SubmitStep, DeliverStep, MatchStep, TrackerStep, RestartStep,
         OtherTrafficStep
       DEF Next
  <2>3. QED
    BY <2>1, <2>2
<1>2. QED
  BY <1>1, InitIInv, PTL DEF Spec

\* Types; in particular neither phone ever keeps more than Cap messages, sent and
\* received ones together.
THEOREM TypeCorrect == Spec => []TypeOK
BY Invariance, PTL DEF IInv

\* "delivered to UE" rests on a reception with that text, in both modes, and in
\* two processes on one that came before the sending by no more than the difference
\* of their clocks, whatever that is.
THEOREM DeliverySound == Spec => []DeliveryHasEvidence
BY Invariance, PTL DEF IInv

\* The three goroutines that write a status only ever move it forward.
THEOREM StatusMonotonic == Spec => StatusOnlyAdvances
<1> DEFINE Advances ==
      \A m \in Msgs :
        status'[m] # status[m] =>
          \/ status[m] = "none" /\ status'[m] = "submitting"
          \/ status[m] = "submitting" /\ status'[m] \in {"accepted"} \cup Final
          \/ status[m] = "accepted" /\ status'[m] = "delivered"
<1>1. ASSUME IInv, [Next]_vars PROVE Advances
  <2> USE DEF IInv, Msgs, Final
  <2>1. CASE Send
    BY <1>1, <2>1 DEF Send, TypeOK
  <2>2. CASE Accepted
    BY <1>1, <2>2 DEF Accepted, Reported, SubmissionInv
  <2>3. CASE SubmitFails
    BY <1>1, <2>3 DEF SubmitFails, Reported, SubmissionInv
  <2>4. CASE Match
    BY <2>4 DEF Match, Matches, Open
  <2>5. ASSUME NEW m \in Msgs, Poll(m) PROVE Advances
    BY <1>1, <2>5 DEF Poll, TypeOK, TrackerInv
  <2>6. CASE UNCHANGED status
    BY <2>6
  <2>7. QED
    BY <1>1, <2>1, <2>2, <2>3, <2>4, <2>5, <2>6
       DEF Next, CentreTakes, Deliver, PollFails, PeerRestarts,
           SenderRestarts, SenderReceives, PeerSends, vars
<1>2. IInv /\ [Next]_vars => [Advances]_vars
  BY <1>1
<1>3. QED
  BY <1>2, Invariance, PTL DEF Spec, StatusOnlyAdvances

-----------------------------------------------------------------------------
(* Receptions and deliveries in one process.  What is counted are sets of      *)
(* messages with a text; the one that is being matched is left out until the   *)
(* match is over.                                                              *)

Marked  == {m \in Msgs : status[m] = "delivered"}
Settled == {m \in 1..sent : status[m] \in Final \/ ~InSeq(m, history)}
Matched == Received \ {matching}

\* In one process nobody polls, no message arrives twice, and receptions whose
\* match is over lie between the deliveries and the settled messages.
Balanced ==
  shared =>
    /\ \A m \in Msgs : tracker[m] = 0
    /\ stored \cap Received = {}
    /\ \A t \in Texts : /\ CountOf(Marked, t) <= CountOf(Matched, t)
                        /\ CountOf(Matched, t) <= CountOf(Settled, t)

\* The least element of a set of naturals, by the order on the sets 1..i.
LEMMA Least ==
  ASSUME NEW T \in SUBSET Nat, T # {}
  PROVE  \E i \in T : \A j \in T : i <= j
<1> DEFINE below == {1..i : i \in T}
<1>1. below \subseteq FiniteSubsetsOf(Nat) /\ below # {}
  <2>1. \A i \in T : 1..i \subseteq Nat /\ IsFiniteSet(1..i)
    BY FS_Interval
  <2>2. QED
    BY <2>1 DEF FiniteSubsetsOf
<1>2. PICK x \in below : \A y \in below : <<y, x>> \notin StrictSubsetOrdering(Nat)
  BY <1>1, WFMin, FS_StrictSubsetOrderingWellFounded
<1>3. PICK i \in T : x = 1..i
  OBVIOUS
<1>4. ASSUME NEW j \in T, j < i PROVE FALSE
  <2>1. 1..j \in SUBSET Nat /\ 1..i \in SUBSET Nat /\ 1..j \subseteq 1..i
        /\ i \in 1..i /\ i \notin 1..j
    BY <1>4
  <2>2. <<1..j, 1..i>> \in StrictSubsetOrdering(Nat)
    BY <2>1 DEF StrictSubsetOrdering
  <2>3. QED
    BY <1>2, <1>3, <2>2
<1>5. QED
  BY <1>4

\* Counting: a number, larger for a larger set, and by one with a new message of
\* that text.
LEMMA Counts ==
  ASSUME NEW S \in SUBSET Msgs, NEW t
  PROVE  /\ CountOf(S, t) \in Nat
         /\ \A R \in SUBSET S : CountOf(R, t) <= CountOf(S, t)
         /\ \A m \in Msgs \ S :
              CountOf(S \cup {m}, t) = IF text[m] = t THEN CountOf(S, t) + 1
                                       ELSE CountOf(S, t)
<1> DEFINE of(X) == {m \in X : text[m] = t}
<1>1. IsFiniteSet(Msgs)
  BY FS_Interval DEF Msgs
<1>2. of(S) \in SUBSET Msgs
  OBVIOUS
<1>3. IsFiniteSet(of(S)) /\ CountOf(S, t) = Cardinality(of(S))
  BY <1>1, <1>2, FS_Subset DEF CountOf
<1>4. CountOf(S, t) \in Nat
  BY <1>3, FS_CardinalityType
<1>5. ASSUME NEW R \in SUBSET S PROVE CountOf(R, t) <= CountOf(S, t)
  <2>1. of(R) \in SUBSET of(S) /\ CountOf(R, t) = Cardinality(of(R))
    BY DEF CountOf
  <2>2. QED
    BY <1>3, <2>1, FS_Subset
<1>6. ASSUME NEW m \in Msgs \ S
      PROVE  CountOf(S \cup {m}, t) = IF text[m] = t THEN CountOf(S, t) + 1
                                      ELSE CountOf(S, t)
  <2>1. CASE text[m] = t
    <3>1. of(S \cup {m}) = of(S) \cup {m} /\ m \notin of(S)
      BY <2>1
    <3>2. Cardinality(of(S) \cup {m}) = Cardinality(of(S)) + 1
      BY <1>3, <3>1, FS_AddElement
    <3>3. QED
      BY <1>3, <2>1, <3>1, <3>2 DEF CountOf
  <2>2. CASE text[m] # t
    <3>1. of(S \cup {m}) = of(S)
      BY <2>2
    <3>2. QED
      BY <1>3, <2>2, <3>1 DEF CountOf
  <2>3. QED
    BY <2>1, <2>2
<1>7. QED
  BY <1>4, <1>5, <1>6

\* The sets that are counted are sets of messages that were sent.
LEMMA Counted ==
  ASSUME TypeOK
  PROVE  /\ Marked \subseteq 1..sent /\ Settled \subseteq 1..sent
         /\ Received \subseteq 1..sent /\ 1..sent \subseteq Msgs
         /\ 0 \notin Received
<1>1. sent \in Nat /\ MaxSent \in Nat /\ sent <= MaxSent
  BY DEF TypeOK
<1>2. 1..sent \subseteq Msgs /\ 0 \notin 1..sent
  BY <1>1 DEF Msgs
<1>3. Marked \subseteq 1..sent
  BY <1>1 DEF Marked, Msgs, TypeOK
<1>4. Received \subseteq 1..sent
  BY DEF Received, TypeOK
<1>5. QED
  BY <1>2, <1>3, <1>4 DEF Settled

LEMMA InitBalanced == Init => Balanced
<1> SUFFICES ASSUME Init PROVE Balanced
  OBVIOUS
<1>1. Received = {} /\ Matched = {} /\ Marked = {} /\ Settled = {}
  <2>1. 1..0 = {}
    OBVIOUS
  <2>2. QED
    BY <2>1 DEF Init, Received, Matched, Marked, Settled
<1>2. \A t : CountOf({}, t) <= CountOf({}, t)
  <2>1. \A t : CountOf({}, t) \in Nat
    BY Counts
  <2>2. QED
    BY <2>1
<1>3. QED
  BY <1>1, <1>2 DEF Init, Balanced

\* A step that marks nothing, matches nothing and unsettles nothing.
LEMMA SameBalance ==
  ASSUME IInv, TypeOK', Balanced, shared' = shared, text' = text,
         shared => Marked' = Marked /\ Matched' = Matched /\ Settled \subseteq Settled',
         shared => /\ \A m \in Msgs : tracker'[m] = 0
                   /\ stored' \cap Received' = {}
  PROVE  Balanced'
<1> SUFFICES ASSUME shared PROVE Balanced'
  BY DEF Balanced
<1>1. Settled \in SUBSET Settled' /\ Settled' \in SUBSET Msgs /\ Matched \in SUBSET Msgs
  <2>1. sent' \in 0..MaxSent /\ MaxSent \in Nat
    BY DEF TypeOK
  <2>2. Settled' \subseteq Msgs
    BY <2>1 DEF Settled, Msgs
  <2>3. Matched \subseteq Msgs
    BY Counted DEF IInv, Matched
  <2>4. QED
    BY <2>2, <2>3
<1>2. ASSUME NEW t \in Texts
      PROVE  CountOf(Marked', t) <= CountOf(Matched', t)
             /\ CountOf(Matched', t) <= CountOf(Settled', t)
  <2>1. CountOf(Settled, t) <= CountOf(Settled', t)
    BY <1>1, Counts
  <2>2. /\ CountOf(Marked, t) <= CountOf(Matched, t)
        /\ CountOf(Matched, t) <= CountOf(Settled, t)
    BY DEF Balanced
  <2>3. /\ CountOf(Settled, t) \in Nat /\ CountOf(Settled', t) \in Nat
        /\ CountOf(Matched, t) \in Nat
    BY <1>1, Counts
  <2>4. QED
    BY <2>1, <2>2, <2>3
<1>3. QED
  BY <1>2 DEF Balanced, CountOf

\* Sending, submitting and receiving only make room, and so does other traffic.
LEMMA StepsBalance ==
  ASSUME IInv, IInv', Balanced,
         \/ Send \/ CentreTakes \/ Accepted \/ SubmitFails
         \/ SenderReceives \/ PeerSends \/ PeerRestarts
         \/ \E m \in Msgs : Deliver(m) \/ Poll(m) \/ PollFails(m)
  PROVE  Balanced'
<1> USE DEF IInv
<1>0. Fields /\ Boxes
  BY TypeParts
<1>1. CASE Send
  <2>1. sent \in Nat /\ sent' = sent + 1 /\ sent' \in Msgs
    BY <1>1 DEF Send, TypeOK, Msgs
  <2>2. status' = [status EXCEPT ![sent'] = "submitting"] /\ status[sent'] = "none"
    BY <1>1, <2>1 DEF Send, TypeOK
  <2>3. Marked' = Marked
    BY <2>1, <2>2 DEF Marked, TypeOK
  <2>4. Settled \subseteq Settled'
    <3>1. history \in Seq(0..sent') /\ sent' \in 0..sent' /\ Len(history) <= Cap
      BY <2>1, <1>0 DEF Boxes
    <3>2. history' = Trim(Append(history, sent'))
      BY <1>1, <2>1 DEF Send
    <3>3. \A m : InSeq(m, history') => m = sent' \/ InSeq(m, history)
      BY <3>1, <3>2, TrimKeeps
    <3>4. \A m \in 1..sent : m \in 1..sent' /\ m # sent' /\ m \in Msgs
      BY <2>1 DEF Msgs
    <3>5. QED
      BY <2>2, <3>3, <3>4 DEF Settled, TypeOK
  <2>5. Matched' = Matched /\ Received' = Received
    BY <1>1 DEF Send, Matched, Received
  <2>6. QED
    BY <1>1, <2>3, <2>4, <2>5, SameBalance DEF Send, Balanced
<1>2. CASE CentreTakes
  <2>1. /\ Marked' = Marked /\ Settled' = Settled
        /\ Matched' = Matched /\ Received' = Received
    BY <1>2 DEF CentreTakes, Marked, Settled, Matched, Received
  <2>2. submitting \notin Received
    BY <1>2 DEF CentreTakes, Received
  <2>3. QED
    BY <1>2, <2>1, <2>2, SameBalance DEF CentreTakes, Balanced
<1>3. CASE Accepted \/ SubmitFails
  <2>1. submitting \in Msgs /\ status[submitting] \in {"submitting", "delivered"}
    BY <1>3, <1>0 DEF Accepted, SubmitFails, SubmissionInv, Fields, Msgs
  <2>2. \A m \in Msgs :
          \/ status'[m] = status[m]
          \/ status[m] = "submitting" /\ status'[m] # "delivered"
    <3>1. PICK result \in {"accepted", "failed"} : status' = Reported(submitting, result)
      BY <1>3 DEF Accepted, SubmitFails
    <3>2. status \in [Msgs -> Status]
      BY DEF TypeOK
    <3>3. CASE status' = [status EXCEPT ![submitting] = result]
               /\ status[submitting] # "delivered"
      BY <2>1, <3>2, <3>3
    <3>4. CASE status' = status
      BY <3>4
    <3>5. QED
      BY <3>1, <3>3, <3>4 DEF Reported
  <2>3. Marked' = Marked
    BY <2>2 DEF Marked
  <2>4. Settled \subseteq Settled'
    <3>1. 1..sent \subseteq Msgs /\ sent' = sent /\ history' = history
      BY <1>3, Counted DEF Accepted, SubmitFails
    <3>2. QED
      BY <2>2, <3>1 DEF Settled, Final
  <2>5. /\ Matched' = Matched /\ Received' = Received /\ stored' = stored
        /\ shared' = shared /\ text' = text /\ (shared => tracker' = tracker)
    BY <1>3 DEF Accepted, SubmitFails, Matched, Received
  <2>6. QED
    BY <2>3, <2>4, <2>5, SameBalance DEF Balanced
<1>4. CASE PeerRestarts
  BY <1>4 DEF PeerRestarts, Balanced
<1>5. CASE PeerSends
  <2>1. /\ Marked' = Marked /\ Settled' = Settled
        /\ Matched' = Matched /\ Received' = Received
    BY <1>5 DEF PeerSends, Marked, Settled, Matched, Received
  <2>2. QED
    BY <1>5, <2>1, SameBalance DEF PeerSends, Balanced
<1>6. CASE SenderReceives
  <2>1. /\ Marked' = Marked /\ Matched' = Matched /\ Received' = Received
    BY <1>6 DEF SenderReceives, Marked, Matched, Received
  <2>2. Settled \subseteq Settled'
    <3>1. history \in Seq(0..sent) /\ Other \in 0..sent /\ Len(history) <= Cap
      BY <1>0 DEF Boxes, Fields, Other
    <3>2. history' = Trim(Append(history, Other)) /\ sent' = sent /\ status' = status
      BY <1>6 DEF SenderReceives
    <3>3. \A m : InSeq(m, history') => m = Other \/ InSeq(m, history)
      BY <3>1, <3>2, TrimKeeps
    <3>4. \A m \in 1..sent : m # Other
      BY <1>0 DEF Fields, Other
    <3>5. QED
      BY <3>2, <3>3, <3>4 DEF Settled
  <2>3. QED
    BY <1>6, <2>1, <2>2, SameBalance DEF SenderReceives, Balanced
<1>7. ASSUME NEW m \in Msgs, Deliver(m) PROVE Balanced'
  <2>1. /\ m \in stored /\ stored' = stored \ {m} /\ matching = 0
        /\ shared' = shared /\ text' = text /\ tracker' = tracker
        /\ (shared => matching' = m)
    BY <1>7 DEF Deliver
  <2>2. Received' = Received \cup {m}
    <3> DEFINE rec == [msg |-> m, at |-> clock]
    <3>1. receptions' = receptions \cup {rec} /\ rec.msg = m
      BY <1>7 DEF Deliver
    <3> HIDE DEF rec
    <3>2. \A x : (\E q \in receptions' : q.msg = x)
                   <=> (\E q \in receptions : q.msg = x) \/ x = m
      BY <3>1
    <3>3. QED
      BY <3>2, Zenon DEF Received
  <2>3. shared => m \notin Received /\ Matched' = Matched
    BY <2>1, <2>2, Counted DEF Balanced, Matched
  <2>4. Marked' = Marked /\ Settled' = Settled
    BY <1>7 DEF Deliver, Marked, Settled
  <2>5. shared => stored' \cap Received' = {}
    BY <2>1, <2>2 DEF Balanced
  <2>6. QED
    BY <2>1, <2>3, <2>4, <2>5, SameBalance DEF Balanced
<1>8. ASSUME NEW m \in Msgs, Poll(m) \/ PollFails(m) PROVE Balanced'
  <2>1. tracker[m] > 0 /\ shared' = shared
    BY <1>8 DEF Poll, PollFails
  <2>2. ~shared
    BY <2>1 DEF Balanced
  <2>3. QED
    BY <2>1, <2>2 DEF Balanced
<1>9. QED
  BY <1>1, <1>2, <1>3, <1>4, <1>7, <1>8, <1>5, <1>6

\* receiveSMS marks one message with the text of the reception, or finds all of
\* them settled.
LEMMA MatchBalances ==
  ASSUME IInv, IInv', Balanced, Match
  PROVE  Balanced'
<1> USE DEF IInv
<1>0. Fields /\ Boxes
  BY TypeParts
<1> SUFFICES ASSUME shared PROVE Balanced'
  BY DEF Balanced, Match
<1>1. /\ matching \in Received /\ matching' = 0 /\ sent' = sent /\ history' = history
      /\ text' = text /\ shared' = shared /\ tracker' = tracker /\ stored' = stored
  BY DEF Match, ReceptionInv, Received
<1>2. /\ Received' = Received
      /\ Matched' = Matched \cup {matching} /\ matching \notin Matched
  <2>1. Received' = Received
    BY DEF Match, Received
  <2>2. QED
    BY <1>1, <2>1, Counted DEF Matched
<1>3. Matched \in SUBSET Msgs /\ Marked \in SUBSET Msgs /\ Settled \in SUBSET Msgs
      /\ matching \in Msgs
  BY <1>1, Counted DEF Matched
<1>4. CASE Matches = {}
  <2>1. Marked' = Marked /\ Settled' = Settled
    <3>1. \A m \in Msgs : status'[m] = status[m]
      BY <1>4 DEF Match
    <3>2. 1..sent \subseteq Msgs
      BY Counted
    <3>3. QED
      BY <1>1, <3>1, <3>2 DEF Marked, Settled
  <2>2. \A m \in 1..sent : text[m] = text[matching] => m \in Settled
    <3>1. ASSUME NEW m \in 1..sent, text[m] = text[matching], InSeq(m, history)
          PROVE  status[m] \in Final
      <4>1. ~Open(m)
        <5>1. m # Other
          BY <1>0, <3>1 DEF Fields, Other
        <5>2. QED
          BY <1>4, <3>1, <5>1 DEF Matches, InSeq
      <4>2. status[m] \in Status /\ status[m] # "none"
        BY Counted, <1>0 DEF Fields
      <4>3. QED
        BY <4>1, <4>2 DEF Open, Status
    <3>2. QED
      BY <3>1 DEF Settled
  <2>3. \A t \in Texts : /\ CountOf(Marked, t) <= CountOf(Matched \cup {matching}, t)
                        /\ CountOf(Matched \cup {matching}, t) <= CountOf(Settled, t)
    <3> TAKE t \in Texts
    <3>1. /\ CountOf(Marked, t) <= CountOf(Matched, t)
          /\ CountOf(Matched, t) <= CountOf(Settled, t)
      BY DEF Balanced
    <3>2. CASE text[matching] # t
      BY <1>2, <1>3, <3>1, <3>2, Counts
    <3>3. CASE text[matching] = t
      <4>1. CountOf(Matched \cup {matching}, t) = CountOf(Matched, t) + 1
        BY <1>2, <1>3, <3>3, Counts
      <4>2. CountOf(Marked, t) \in Nat /\ CountOf(Matched, t) \in Nat
        BY <1>3, Counts
      <4>3. CountOf(Matched \cup {matching}, t) = CountOf(Received \cap Settled, t)
        <5>1. Matched \cup {matching} = Received /\ Received \subseteq 1..sent
          BY <1>1, Counted DEF Matched
        <5>2. {m \in Received : text[m] = t} = {m \in Received \cap Settled : text[m] = t}
          BY <2>2, <3>3, <5>1
        <5>3. QED
          BY <5>1, <5>2 DEF CountOf
      <4>4. CountOf(Received \cap Settled, t) <= CountOf(Settled, t)
        BY <1>3, Counts
      <4>5. QED
        BY <3>1, <4>1, <4>2, <4>3, <4>4
    <3>4. QED
      BY <3>2, <3>3
  <2>4. QED
    BY <1>1, <1>2, <2>1, <2>3 DEF Balanced, CountOf
<1>5. CASE Matches # {}
  <2>1. history \in Seq(0..sent) /\ sent \in Nat
    BY DEF TypeOK
  <2>2. PICK i \in Matches : \A j \in Matches : i <= j
    <3>1. Matches \in SUBSET Nat
      BY <2>1 DEF Matches
    <3>2. QED
      BY <1>5, <3>1, Least
  <2> DEFINE h == history[i]
  <2>3. /\ h \in Msgs /\ h \in 1..sent /\ InSeq(h, history)
        /\ Open(h) /\ text[h] = text[matching]
    <3>1. i \in DOMAIN history /\ Open(h) /\ text[h] = text[matching]
      BY DEF Matches
    <3>2. h \in 1..sent
      BY <2>1, <3>1 DEF Matches, Other
    <3>3. h \in Msgs
      BY <3>2, Counted
    <3>4. QED
      BY <3>1, <3>2, <3>3 DEF InSeq
  <2>4. \A m \in Msgs : status'[m] = IF m = h THEN "delivered" ELSE status[m]
    <3>1. \A k \in Matches : (\A j \in Matches : k <= j) => k = i
      BY <2>1, <2>2 DEF Matches
    <3>2. QED
      BY <2>2, <3>1 DEF Match
  <2> HIDE DEF h
  <2>5. /\ Marked' = Marked \cup {h} /\ h \notin Marked
        /\ Settled' = Settled \cup {h} /\ h \notin Settled
    <3>1. 1..sent \subseteq Msgs
      BY Counted
    <3>2. QED
      BY <1>1, <2>3, <2>4, <3>1 DEF Marked, Settled, Open, Final
  <2>6. \A t \in Texts :
          /\ CountOf(Marked \cup {h}, t) <= CountOf(Matched \cup {matching}, t)
          /\ CountOf(Matched \cup {matching}, t) <= CountOf(Settled \cup {h}, t)
    <3> TAKE t \in Texts
    <3>1. /\ CountOf(Marked, t) <= CountOf(Matched, t)
          /\ CountOf(Matched, t) <= CountOf(Settled, t)
      BY DEF Balanced
    <3>2. /\ CountOf(Marked, t) \in Nat /\ CountOf(Matched, t) \in Nat
          /\ CountOf(Settled, t) \in Nat
      BY <1>3, Counts
    <3> DEFINE one == IF text[matching] = t THEN 1 ELSE 0
    <3>3. /\ CountOf(Marked \cup {h}, t) = CountOf(Marked, t) + one
          /\ CountOf(Matched \cup {matching}, t) = CountOf(Matched, t) + one
          /\ CountOf(Settled \cup {h}, t) = CountOf(Settled, t) + one
      <4>1. CASE text[matching] = t
        BY <1>2, <1>3, <2>3, <2>5, <4>1, Counts
      <4>2. CASE text[matching] # t
        <5>1. /\ CountOf(Marked \cup {h}, t) = CountOf(Marked, t)
              /\ CountOf(Matched \cup {matching}, t) = CountOf(Matched, t)
              /\ CountOf(Settled \cup {h}, t) = CountOf(Settled, t)
          BY <1>2, <1>3, <2>3, <2>5, <4>2, Counts
        <5>2. QED
          BY <3>2, <4>2, <5>1
      <4>3. QED
        BY <4>1, <4>2
    <3>4. QED
      BY <3>1, <3>2, <3>3
  <2>7. QED
    BY <1>1, <1>2, <2>5, <2>6 DEF Balanced, CountOf
<1>6. QED
  BY <1>4, <1>5

\* With the history everything that was sent is settled, the messages that were
\* received among it.
LEMMA RestartBalances ==
  ASSUME IInv, IInv', Balanced, SenderRestarts
  PROVE  Balanced'
<1> USE DEF IInv
<1> SUFFICES ASSUME shared PROVE Balanced'
  BY DEF Balanced, SenderRestarts
<1>1. /\ matching' = 0 /\ sent' = sent /\ history' = <<>> /\ status' = status
      /\ text' = text /\ shared' = shared /\ stored' = stored /\ receptions' = receptions
      /\ \A m \in Msgs : tracker'[m] = 0
  BY DEF SenderRestarts
<1>2. /\ Marked' = Marked /\ Received' = Received
      /\ Matched' = Received /\ Settled' = 1..sent
  <2>1. Received' = Received
    BY <1>1 DEF Received
  <2>2. QED
    BY <1>1, <2>1, Counted DEF Marked, Matched, Settled, InSeq
<1>3. /\ Matched \in SUBSET Received /\ Received \in SUBSET (1..sent)
      /\ Received \in SUBSET Msgs /\ 1..sent \in SUBSET Msgs /\ Marked \in SUBSET Msgs
  BY Counted DEF Matched
<1>4. \A t \in Texts : /\ CountOf(Marked, t) <= CountOf(Received, t)
                      /\ CountOf(Received, t) <= CountOf(1..sent, t)
  <2> TAKE t \in Texts
  <2>1. CountOf(Marked, t) <= CountOf(Matched, t)
    BY DEF Balanced
  <2>2. CountOf(Matched, t) <= CountOf(Received, t)
    BY <1>3, Counts
  <2>3. CountOf(Received, t) <= CountOf(1..sent, t)
    BY <1>3, Counts
  <2>4. /\ CountOf(Marked, t) \in Nat /\ CountOf(Matched, t) \in Nat
        /\ CountOf(Received, t) \in Nat
    BY <1>3, Counts
  <2>5. QED
    BY <2>1, <2>2, <2>3, <2>4
<1>5. QED
  BY <1>1, <1>2, <1>4 DEF Balanced, CountOf

\* In one process no reception confirms two messages and none is lost, however
\* many messages have the same text.
THEOREM ReceptionsConfirm == Spec => []ReceptionsBalance
<1>1. IInv /\ IInv' /\ Balanced /\ [Next]_vars => Balanced'
  <2> SUFFICES ASSUME IInv, IInv', Balanced, [Next]_vars PROVE Balanced'
    OBVIOUS
  <2>1. CASE UNCHANGED vars
    BY <2>1 DEF vars, Balanced, Marked, Settled, Matched, Received, CountOf
  <2>2. CASE Next
    BY <2>2, StepsBalance, MatchBalances, RestartBalances DEF Next
  <2>3. QED
    BY <2>1, <2>2
<1>2. IInv /\ Balanced => ReceptionsBalance
  <2> SUFFICES ASSUME IInv, Balanced, shared, NEW t \in Texts
               PROVE  /\ CountOf(Marked, t) <= CountOf(Received, t)
                      /\ matching = 0 => CountOf(Received, t) <= CountOf(Settled, t)
    BY DEF ReceptionsBalance, Marked, Settled
  <2>1. /\ Matched \in SUBSET Received /\ Received \in SUBSET Msgs
        /\ Marked \in SUBSET Msgs /\ (matching = 0 => Matched = Received)
    BY Counted DEF IInv, Matched
  <2>2. CountOf(Matched, t) <= CountOf(Received, t)
    BY <2>1, Counts
  <2>3. CountOf(Marked, t) \in Nat /\ CountOf(Matched, t) \in Nat
        /\ CountOf(Received, t) \in Nat
    BY <2>1, Counts
  <2>4. QED
    BY <2>1, <2>2, <2>3 DEF Balanced
<1>3. QED
  BY <1>1, <1>2, InitBalanced, Invariance, PTL DEF Spec

-----------------------------------------------------------------------------
(* OwnedBySubmit *)

LEMMA OwnedKeeps == ASSUME IInv, OwnedBySubmit, [Next]_vars PROVE OwnedBySubmit'
<1> USE DEF OwnedBySubmit
<1>1. CASE Send
  <2>1. /\ history \in Seq(Msgs \cup {Other}) /\ Len(history) <= Cap /\ sent + 1 \in Msgs
        /\ status \in [Msgs -> Status]
    <3>1. sent \in 0..MaxSent /\ history \in Seq(0..sent) /\ Len(history) <= Cap
      BY DEF IInv, TypeOK
    <3>2. 0..sent \subseteq Msgs \cup {Other}
      BY <3>1 DEF Msgs, Other
    <3>3. history \in Seq(Msgs \cup {Other})
      BY <3>1, <3>2, SeqGrows
    <3>4. QED
      BY <1>1, <3>1, <3>3 DEF Send, Msgs, IInv, TypeOK
  <2>2. \A m : InSeq(m, history') => m = sent + 1 \/ InSeq(m, history)
    <3>1. sent + 1 \in Msgs \cup {Other} /\ history' = Trim(Append(history, sent + 1))
      BY <1>1, <2>1 DEF Send
    <3>2. QED
      BY <2>1, <3>1, TrimKeeps
  <2>3. \A m \in Msgs : m # sent + 1 => status'[m] = status[m] /\ m # 0
    BY <1>1, <2>1 DEF Send, Msgs
  <2>4. submitting = 0 /\ submitting' = sent + 1
    BY <1>1 DEF Send
  <2>5. QED
    BY <2>2, <2>3, <2>4
<1>2. CASE Accepted
  BY <1>2 DEF Accepted, Reported, IInv, TypeOK, Msgs
<1>3. CASE SubmitFails
  BY <1>3 DEF SubmitFails, Reported, IInv, TypeOK, Msgs
<1>4. CASE Match
  BY <1>4 DEF Match, sender
<1>5. CASE SenderRestarts
  BY <1>5 DEF SenderRestarts, InSeq
<1>6. CASE PeerSends \/ PeerRestarts \/ CentreTakes \/ UNCHANGED vars
  BY <1>6 DEF PeerSends, PeerRestarts, CentreTakes, vars, sender
<1>7. ASSUME NEW m \in Msgs, Deliver(m) \/ Poll(m) \/ PollFails(m)
      PROVE  OwnedBySubmit'
  BY <1>7 DEF Deliver, Poll, PollFails, sender, IInv, TypeOK
<1>8. CASE SenderReceives
  <2>1. history \in Seq(0..sent) /\ Other \in 0..sent /\ Len(history) <= Cap
    BY DEF IInv, TypeOK, Other
  <2>2. history' = Trim(Append(history, Other)) /\ UNCHANGED <<status, submitting>>
    BY <1>8 DEF SenderReceives
  <2>3. \A m : InSeq(m, history') => m = Other \/ InSeq(m, history)
    BY <2>1, <2>2, TrimKeeps
  <2>4. \A m \in Msgs : m # Other
    BY DEF Msgs, Other
  <2>5. QED
    BY <2>2, <2>3, <2>4
<1>9. QED
  BY <1>1, <1>2, <1>3, <1>4, <1>5, <1>6, <1>7, <1>8 DEF Next

\* No order of Submit's result, the receiver, the trackers, trim and restarts leaves
\* a message on display in submission that no request will settle.
THEOREM SubmissionsOwned == Spec => []OwnedBySubmit
<1>1. Init => OwnedBySubmit
  BY DEF Init, OwnedBySubmit, InSeq
<1>2. QED
  BY <1>1, OwnedKeeps, Invariance, PTL DEF Spec
=============================================================================
