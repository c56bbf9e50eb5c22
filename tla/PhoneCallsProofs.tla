-------------------------- MODULE PhoneCallsProofs --------------------------
(* The safety of PhoneCalls for every number of calls and requests.        *)
EXTENDS PhoneCalls, TLAPS

\* A call that is known to the phone exists: an unused one can be neither
\* adopted nor dialled twice.
KnownCallsExist ==
  /\ \A c \in incomingOf : status[c] # "unused"
  /\ \A i \in 1..Len(offered) : offered[i] \in incomingOf
  /\ rcvCall \in Calls => rcvCall \in incomingOf
  /\ current \in Calls => status[current] # "unused"
  /\ \A r \in Requests : snap[r] \in Calls => status[snap[r]] # "unused"
  /\ \A r \in Requests :
       pc[r] = "invited" => /\ made[r] \in Calls \ incomingOf
                            /\ status[made[r]] # "unused"
  /\ \A r \in Requests :
       pc[r] \in {"answer", "bye", "reject", "cancel"} => snap[r] \in Calls

\* What a request read of p.call is out of date only because the receiver
\* adopted a call meanwhile, and it does so only when the old one has ended.
SnapshotInv ==
  \A r \in Requests :
    /\ pc[r] = "decide" => snap[r] = current \/ current \in incomingOf
    /\ pc[r] \in {"decide", "answer", "bye", "reject", "cancel"}
         => (Live(snap[r]) => current = snap[r])

\* A request past its "no call is active" check may face an incoming call,
\* never a dialled one.
NoDialledCallInv ==
  \A r \in Requests :
    pc[r] \in {"deregister", "invite", "invited"}
      => ~Live(current) \/ current \in incomingOf

IInv ==
  /\ TypeOK
  /\ KnownCallsExist
  /\ SnapshotInv
  /\ NoDialledCallInv
  /\ DialledCallReachable
  /\ DialledCallKeepsRegistration

-----------------------------------------------------------------------------
USE NoCallAssumption, NoRequestAssumption DEF library, phone, rcv, req

LEMMA InitIInv == Init => IInv
<1> SUFFICES ASSUME Init PROVE IInv
  OBVIOUS
<1>1. TypeOK
  <2>1. offered \in Seq(Calls)
    BY DEF Init
  <2>2. \A r \in Requests : (op = r) <=> (pc[r] \in Critical)
    BY DEF Init, Critical
  <2>3. (rcvPc = "receive") <=> (rcvCall = NoCall)
    BY DEF Init
  <2>4. QED
    BY <2>1, <2>2, <2>3 DEF Init, TypeOK
<1>2. KnownCallsExist
  BY DEF Init, KnownCallsExist
<1>3. SnapshotInv /\ NoDialledCallInv
  BY DEF Init, SnapshotInv, NoDialledCallInv
<1>4. DialledCallReachable /\ DialledCallKeepsRegistration
  BY DEF Init, DialledCallReachable, DialledCallKeepsRegistration, Live
<1>5. QED
  BY <1>1, <1>2, <1>3, <1>4 DEF IInv

\* The network: a call that appears is incoming and unknown to the phone, and
\* one that ends or is answered was known before.
LEMMA NetworkStep ==
  ASSUME IInv, NEW c \in Calls,
         \/ Arrive(c) \/ RemoteAnswer(c) \/ RemoteEnd(c)
         \/ MediaEnds(c) \/ MediaFails(c)
  PROVE  IInv'
<1> USE DEF IInv, TypeOK, KnownCallsExist, SnapshotInv, NoDialledCallInv,
            DialledCallReachable, DialledCallKeepsRegistration,
            Live, Critical, Actions
<1>1. CASE Arrive(c)
  BY <1>1 DEF Arrive
<1>2. CASE RemoteAnswer(c)
  BY <1>2 DEF RemoteAnswer
<1>3. CASE RemoteEnd(c)
  BY <1>3 DEF RemoteEnd
<1>4. CASE MediaEnds(c) \/ MediaFails(c)
  BY <1>4 DEF MediaEnds, MediaFails
<1>5. QED
  BY <1>1, <1>2, <1>3, <1>4

\* The receiver: it replaces p.call only by an incoming call, and only when
\* no live call is lost by it.
LEMMA ReceiverStep ==
  ASSUME IInv, Receiver
  PROVE  IInv'
<1> USE DEF IInv, TypeOK, KnownCallsExist, SnapshotInv, NoDialledCallInv,
            DialledCallReachable, DialledCallKeepsRegistration,
            Live, Critical, Actions
<1>1. CASE Adopt
  <2> USE <1>1 DEF Adopt, Busy
  <2>1. /\ Len(offered) > 0
        /\ current' = offered[1] /\ current' \in incomingOf
        /\ \A i \in 1..Len(offered') : offered'[i] = offered[i + 1]
        /\ offered' \in Seq(Calls)
    OBVIOUS
  <2>2. TypeOK'
    BY <2>1
  <2>3. KnownCallsExist'
    BY <2>1
  <2>4. SnapshotInv' /\ NoDialledCallInv'
    BY <2>1
  <2>5. DialledCallReachable' /\ DialledCallKeepsRegistration'
    BY <2>1
  <2>6. QED
    BY <2>2, <2>3, <2>4, <2>5
<1>2. CASE TakeBusy
  BY <1>2 DEF TakeBusy, Busy
<1>3. CASE RejectBusy
  <2>1. /\ rcvCall \in incomingOf
        /\ \A c \in Calls : \/ status'[c] = status[c]
                            \/ c = rcvCall /\ status'[c] = "terminated"
        /\ rcvPc' = "receive" /\ rcvCall' = NoCall
        /\ UNCHANGED <<incomingOf, offered, registered, phone, req>>
    BY <1>3 DEF RejectBusy
  <2>2. TypeOK'
    <3>1. rcvCall \in Calls
      BY <1>3 DEF RejectBusy
    <3>2. /\ status' \in [Calls -> {"unused", "early", "confirmed", "terminated"}]
          /\ rejected' \in SUBSET Calls
      BY <1>3, <3>1 DEF RejectBusy
    <3>3. QED
      BY <2>1, <3>2
  <2>3. KnownCallsExist'
    BY <2>1
  <2>4. SnapshotInv' /\ NoDialledCallInv'
    BY <2>1
  <2>5. DialledCallReachable' /\ DialledCallKeepsRegistration'
    BY <2>1
  <2>6. QED
    BY <2>2, <2>3, <2>4, <2>5
<1>4. CASE Rung
  BY <1>4 DEF Rung
<1>5. QED
  BY <1>1, <1>2, <1>3, <1>4 DEF Receiver

\* A request before its network operation.
LEMMA DecisionStep ==
  ASSUME IInv, NEW r \in Requests,
         \/ Submit(r)
         \/ \E a \in Actions : Begin(r, a)
         \/ Sms(r) \/ Refuse(r)
         \/ Decide(r)
  PROVE  IInv'
<1> USE DEF IInv, TypeOK, KnownCallsExist, SnapshotInv, NoDialledCallInv,
            DialledCallReachable, DialledCallKeepsRegistration,
            Live, Critical, Actions
<1>1. CASE Submit(r)
  <2>1. PICK c \in Calls \cup {NoCall} : seen' = [seen EXCEPT ![r] = c]
    BY <1>1 DEF Submit, Shown
  <2>2. /\ pc' = [pc EXCEPT ![r] = "waiting"] /\ pc[r] = "idle"
        /\ UNCHANGED <<library, phone, rcv, op, act, snap, made>>
    BY <1>1 DEF Submit
  <2>3. TypeOK'
    BY <2>1, <2>2
  <2>4. QED
    BY <2>2, <2>3
<1>2. ASSUME NEW a \in Actions, Begin(r, a) PROVE IInv'
  BY <1>2 DEF Begin
<1>3. CASE Refuse(r)
  BY <1>3 DEF Refuse, At, Finish
<1>4. CASE Decide(r)
  BY <1>4 DEF Decide, At, Goto, RefusedNow, HangupBranch
<1>5. CASE Sms(r)
  BY <1>5 DEF Sms, At, Finish
<1>6. QED
  BY <1>1, <1>2, <1>3, <1>4, <1>5

\* The requests that change the registration: unregister got past its check,
\* so no dialled call is live (NoDialledCallInv and DialledCallReachable, as
\* p.op keeps every other request out of "invited").
LEMMA RegistrationStep ==
  ASSUME IInv, NEW r \in Requests, Register(r) \/ Deregister(r)
  PROVE  IInv'
<1> USE DEF IInv, TypeOK, KnownCallsExist, SnapshotInv, NoDialledCallInv,
            DialledCallReachable, DialledCallKeepsRegistration,
            Live, Critical, Actions
<1>1. CASE Register(r)
  BY <1>1 DEF Register, At, Finish
<1>2. CASE Deregister(r)
  BY <1>2 DEF Deregister, At, Finish
<1>3. QED
  BY <1>1, <1>2

\* The request that dials.
LEMMA DialStep ==
  ASSUME IInv, NEW r \in Requests,
         \/ \E c \in Calls : Invite(r, c)
         \/ InviteFails(r)
         \/ StoreCall(r)
  PROVE  IInv'
<1> USE DEF IInv, TypeOK, KnownCallsExist, SnapshotInv, NoDialledCallInv,
            DialledCallReachable, DialledCallKeepsRegistration,
            Live, Critical, Actions
<1>1. ASSUME NEW c \in Calls, Invite(r, c) PROVE IInv'
  BY <1>1 DEF Invite, At
<1>2. CASE InviteFails(r)
  BY <1>2 DEF InviteFails, At, Finish
<1>3. CASE StoreCall(r)
  <2> USE <1>3 DEF StoreCall, At, Finish
  <2>1. TypeOK'
    <3>1. made[r] \in Calls
      OBVIOUS
    <3>2. \A q \in Requests : (op' = q) <=> (pc'[q] \in Critical)
      OBVIOUS
    <3>3. incoming' \in BOOLEAN /\ offered' \in Seq(Calls)
      OBVIOUS
    <3>4. QED
      BY <3>1, <3>2, <3>3
  <2>2. KnownCallsExist'
    OBVIOUS
  <2>3. \A q \in Requests \ {r} : pc[q] \notin Critical /\ pc'[q] = pc[q]
    OBVIOUS
  <2>4. SnapshotInv' /\ NoDialledCallInv'
    BY <2>3
  <2>5. DialledCallReachable'
    \* The call that was p.call is not live, or was incoming.
    BY <2>3
  <2>6. DialledCallKeepsRegistration'
    OBVIOUS
  <2>7. QED
    BY <2>1, <2>2, <2>4, <2>5, <2>6
<1>4. QED
  BY <1>1, <1>2, <1>3

\* Answer and hang up change the state of the request's own call only.
LEMMA CallControlStep ==
  ASSUME IInv, NEW r \in Requests, Answer(r) \/ Hangup(r) \/ HangupFails(r)
  PROVE  IInv'
<1> USE DEF IInv, TypeOK, KnownCallsExist, SnapshotInv, NoDialledCallInv,
            DialledCallReachable, DialledCallKeepsRegistration,
            Live, Critical, Actions
<1>1. CASE Answer(r)
  BY <1>1 DEF Answer, At, Finish
<1>2. CASE Hangup(r)
  <2> USE <1>2 DEF Hangup, At, Finish
  <2>1. snap[r] \in Calls
    OBVIOUS
  <2>2. TypeOK'
    BY <2>1
  <2>3. KnownCallsExist' /\ SnapshotInv' /\ NoDialledCallInv'
    BY <2>1
  <2>4. DialledCallReachable' /\ DialledCallKeepsRegistration'
    BY <2>1
  <2>5. QED
    BY <2>2, <2>3, <2>4
<1>3. CASE HangupFails(r)
  BY <1>3 DEF HangupFails, At, Finish
<1>4. QED
  BY <1>1, <1>2, <1>3

LEMMA NextIInv == IInv /\ [Next]_vars => IInv'
<1> SUFFICES ASSUME IInv, [Next]_vars PROVE IInv'
  OBVIOUS
<1>1. ASSUME NEW r \in Requests, Handler(r) PROVE IInv'
  BY <1>1, DecisionStep, RegistrationStep, DialStep, CallControlStep DEF Handler
<1>2. CASE UNCHANGED vars
  BY <1>2 DEF vars, IInv, TypeOK, KnownCallsExist, SnapshotInv,
              NoDialledCallInv, DialledCallReachable,
              DialledCallKeepsRegistration, Live
<1>3. QED
  BY <1>1, <1>2, NetworkStep, ReceiverStep, DecisionStep DEF Next

-----------------------------------------------------------------------------
\* The strengthening holds in every reachable state.
THEOREM Invariance == Spec => []IInv
  BY InitIInv, NextIInv, PTL DEF Spec

\* Every variable keeps its type, and p.op is held exactly by the request
\* that runs between p.op.Lock() and p.op.Unlock().
THEOREM TypeCorrect == Spec => []TypeOK
<1>1. IInv => TypeOK
  BY DEF IInv
<1>2. QED
  BY <1>1, Invariance, PTL

\* However many requests and calls race, a live call that was dialled from
\* the phone is p.call or about to be: the overwriting of p.call in the call
\* action (server.go 416-424) only ever loses incoming calls.
THEOREM DialledReachable == Spec => []DialledCallReachable
<1>1. IInv => DialledCallReachable
  BY DEF IInv
<1>2. QED
  BY <1>1, Invariance, PTL

\* The phone does not deregister under a dialled call.
THEOREM DialledKeepsRegistration == Spec => []DialledCallKeepsRegistration
<1>1. IInv => DialledCallKeepsRegistration
  BY DEF IInv
<1>2. QED
  BY <1>1, Invariance, PTL

-----------------------------------------------------------------------------
(* What EndOfCallLogged rests on besides fairness *)

\* A call is offered once and has no media goroutine until it has been adopted
\* and rung, or dialled and stored; the current call has had one started, or the
\* receiver is about to start it.
MediaInv ==
  /\ \A i, j \in 1..Len(offered) : offered[i] = offered[j] => i = j
  /\ \A i \in 1..Len(offered) : media[offered[i]] = "none" /\ offered[i] # rcvCall
  /\ \A r \in Requests : pc[r] = "invited" => media[made[r]] = "none"
  /\ \A c \in Calls : status[c] = "unused" => media[c] = "none"
  /\ rcvCall \in Calls => media[rcvCall] = "none"
  /\ current \in Calls =>
       media[current] # "none" \/ (rcvPc = "ringing" /\ rcvCall = current)

\* A media goroutine is started for a call that has none, and ends once: with its
\* call, or on the first packet of an answered one that it has no UPF to send to.
MediaAdvances ==
  \A c \in Calls :
    media'[c] # media[c] =>
      \/ media[c] = "none" /\ media'[c] = "running"
      \/ media[c] = "running" /\ media'[c] = "ended" /\ status[c] = "terminated"
      \/ /\ media[c] = "running" /\ media'[c] = "silent"
         /\ status[c] = "confirmed" /\ ~upfParses

\* The queue of offers: only new calls get in, and the first one out.
LEMMA OffersKeep ==
  ASSUME IInv, MediaInv, \/ \E c \in Calls : Arrive(c)
                         \/ Adopt \/ TakeBusy
  PROVE  MediaInv' /\ media' = media
<1> USE DEF IInv, TypeOK, KnownCallsExist, MediaInv, Live, Critical
<1>1. ASSUME NEW c \in Calls, Arrive(c) PROVE MediaInv' /\ media' = media
  <2> USE <1>1 DEF Arrive
  <2>1. /\ \A i \in 1..Len(offered) : offered[i] # c
        /\ c # rcvCall /\ media[c] = "none" /\ c # current
    OBVIOUS
  <2>2. /\ Len(offered') = Len(offered) + 1 /\ offered'[Len(offered) + 1] = c
        /\ \A i \in 1..Len(offered) : offered'[i] = offered[i]
    OBVIOUS
  <2>3. \A i, j \in 1..Len(offered') : offered'[i] = offered'[j] => i = j
    BY <2>1, <2>2
  <2>4. \A i \in 1..Len(offered') :
          media'[offered'[i]] = "none" /\ offered'[i] # rcvCall'
    BY <2>1, <2>2
  <2>5. QED
    BY <2>1, <2>3, <2>4
<1>2. CASE Adopt \/ TakeBusy
  <2>1. offered # <<>> /\ rcvCall' = Head(offered) /\ offered' = Tail(offered)
    BY <1>2 DEF Adopt, TakeBusy
  <2>2. /\ Len(offered) > 0 /\ rcvCall' = offered[1] /\ offered[1] \in Calls
        /\ Len(offered') = Len(offered) - 1
        /\ \A i \in 1..Len(offered') : offered'[i] = offered[i + 1]
    BY <2>1
  <2>3. /\ UNCHANGED <<status, media, pc, made>> /\ rcvPc = "receive"
        /\ current' = current \/ (current' = offered[1] /\ rcvPc' = "ringing")
    BY <1>2, <2>2 DEF Adopt, TakeBusy
  <2>4. \A i, j \in 1..Len(offered') : offered'[i] = offered'[j] => i = j
    BY <2>2
  <2>5. \A i \in 1..Len(offered') :
          media'[offered'[i]] = "none" /\ offered'[i] # rcvCall'
    <3>1. ASSUME NEW i \in 1..Len(offered')
          PROVE  media[offered[i + 1]] = "none" /\ offered[i + 1] # offered[1]
      <4>1. i + 1 \in 1..Len(offered) /\ 1 \in 1..Len(offered) /\ i + 1 # 1
        BY <2>2
      <4>2. QED
        BY <4>1
    <3>2. QED
      BY <2>2, <2>3, <3>1
  <2>6. QED
    BY <2>2, <2>3, <2>4, <2>5
<1>3. QED
  BY <1>1, <1>2

\* Each of the two places that start a media goroutine has a call without one.
LEMMA MediaKeeps == ASSUME IInv, MediaInv, [Next]_vars PROVE MediaInv' /\ MediaAdvances
<1> USE DEF IInv, TypeOK, KnownCallsExist, MediaInv, MediaAdvances
<1>1. CASE (\E c \in Calls : Arrive(c)) \/ Adopt \/ TakeBusy
  BY <1>1, OffersKeep
<1>2. CASE Rung \/ RejectBusy
  BY <1>2 DEF Rung, RejectBusy
<1>3. ASSUME NEW c \in Calls, MediaEnds(c) \/ MediaFails(c)
      PROVE  MediaInv' /\ MediaAdvances
  BY <1>3 DEF MediaEnds, MediaFails
<1>4. ASSUME NEW c \in Calls, RemoteAnswer(c) \/ RemoteEnd(c)
      PROVE  MediaInv' /\ MediaAdvances
  BY <1>4 DEF RemoteAnswer, RemoteEnd, Live
<1>5. ASSUME NEW r \in Requests, StoreCall(r) PROVE MediaInv' /\ MediaAdvances
  <2> USE <1>5 DEF StoreCall, At, Finish
  <2>1. made[r] \in Calls /\ made[r] \notin incomingOf /\ media[made[r]] = "none"
    OBVIOUS
  <2>2. \A q \in Requests : pc'[q] # "invited"
    BY DEF Critical
  <2>3. QED
    BY <2>1, <2>2
<1>6. ASSUME NEW r \in Requests, NEW c \in Calls, Invite(r, c)
      PROVE  MediaInv' /\ MediaAdvances
  BY <1>6 DEF Invite, At
<1>7. ASSUME NEW r \in Requests, Answer(r) \/ Hangup(r)
      PROVE  MediaInv' /\ MediaAdvances
  BY <1>7 DEF Answer, Hangup, At, Finish
<1>8. ASSUME NEW r \in Requests,
             \/ Submit(r) \/ \E a \in Actions : Begin(r, a)
             \/ Register(r) \/ Sms(r) \/ Refuse(r) \/ Decide(r) \/ Deregister(r)
             \/ InviteFails(r) \/ HangupFails(r)
      PROVE  MediaInv' /\ MediaAdvances
  <2>1. UNCHANGED <<status, offered, phone, rcv>>
    BY <1>8 DEF Submit, Begin, Register, Sms, Refuse, Decide, Deregister, InviteFails,
                HangupFails
  <2>2. CASE Submit(r) \/ (\E a \in Actions : Begin(r, a)) \/ Decide(r)
    <3>1. \A q \in Requests :
            pc'[q] = "invited" => pc[q] = "invited" /\ made'[q] = made[q]
      BY <2>2 DEF Submit, Begin, Decide, Goto, At, HangupBranch
    <3>2. QED
      BY <2>1, <3>1
  <2>3. CASE \/ Register(r) \/ Sms(r) \/ Refuse(r) \/ Deregister(r)
             \/ InviteFails(r) \/ HangupFails(r)
    <3>1. \A q \in Requests :
            pc'[q] = "invited" => pc[q] = "invited" /\ made'[q] = made[q]
      BY <2>3 DEF Register, Sms, Refuse, Deregister, InviteFails, HangupFails, Finish, At
    <3>2. QED
      BY <2>1, <3>1
  <2>4. QED
    BY <1>8, <2>2, <2>3
<1>9. CASE UNCHANGED vars
  BY <1>9 DEF vars
<1>10. QED
  BY <1>1, <1>2, <1>3, <1>4, <1>5, <1>6, <1>7, <1>8, <1>9 DEF Next, Receiver, Handler

\* However calls, requests and the receiver interleave, the call that is p.call has
\* had its media goroutine started, the only one that may log its end, or is about
\* to get it from the receiver.
THEOREM CurrentHasMedia ==
  Spec => [](current \in Calls =>
               media[current] # "none" \/ (rcvPc = "ringing" /\ rcvCall = current))
<1>1. Init => MediaInv
  BY DEF Init, MediaInv
<1>2. Spec => []MediaInv
  BY <1>1, MediaKeeps, Invariance, PTL DEF Spec
<1>3. MediaInv => (current \in Calls =>
               media[current] # "none" \/ (rcvPc = "ringing" /\ rcvCall = current))
  BY DEF MediaInv
<1>4. QED
  BY <1>2, <1>3, PTL

\* No call ever gets a second media goroutine, and no goroutine ends before its
\* call, except on a UPF address that does not parse (server.go 271-274).
THEOREM OneMediaPerCall == Spec => [][MediaAdvances]_vars
<1>1. Init => MediaInv
  BY DEF Init, MediaInv
<1>2. Spec => []MediaInv
  BY <1>1, MediaKeeps, Invariance, PTL DEF Spec
<1>3. IInv /\ MediaInv /\ [Next]_vars => [MediaAdvances]_vars
  BY MediaKeeps
<1>4. QED
  BY <1>2, <1>3, Invariance, PTL DEF Spec

-----------------------------------------------------------------------------
(* The call the user acts on *)

\* A dialled call the page has shown and that lives is p.call until the request
\* has p.op, and the call the request works on from then on.
SeenInv ==
  \A r \in Requests :
    /\ seen[r] \in Calls => status[seen[r]] # "unused" /\ seen[r] \notin incomingOf
    /\ pc[r] = "waiting" /\ Live(seen[r]) => current = seen[r]
    /\ pc[r] \in {"decide", "answer", "bye", "reject", "cancel"} /\ Live(seen[r])
         => snap[r] = seen[r]

LEMMA NetworkKeepsSeen ==
  ASSUME IInv, SeenInv,
         \/ \E c \in Calls : Arrive(c) \/ RemoteAnswer(c) \/ RemoteEnd(c)
         \/ \E c \in Calls : MediaEnds(c) \/ MediaFails(c)
         \/ Receiver
  PROVE  SeenInv'
<1> USE DEF IInv, TypeOK, SeenInv, Live
<1>1. ASSUME NEW c \in Calls, Arrive(c) \/ RemoteAnswer(c) \/ RemoteEnd(c)
      PROVE  SeenInv'
  BY <1>1 DEF Arrive, RemoteAnswer, RemoteEnd
<1>2. ASSUME NEW c \in Calls, MediaEnds(c) \/ MediaFails(c) PROVE SeenInv'
  BY <1>2 DEF MediaEnds, MediaFails
<1>3. CASE Adopt
  BY <1>3 DEF Adopt, Busy
<1>4. CASE TakeBusy \/ Rung
  BY <1>4 DEF TakeBusy, Rung
<1>5. CASE RejectBusy
  <2>1. /\ \A c \in Calls : \/ status'[c] = status[c]
                            \/ status'[c] = "terminated"
        /\ UNCHANGED <<incomingOf, current, req>>
    BY <1>5 DEF RejectBusy
  <2>2. QED
    BY <2>1
<1>6. QED
  BY <1>1, <1>2, <1>3, <1>4, <1>5 DEF Receiver

LEMMA RequestKeepsSeen ==
  ASSUME IInv, MediaInv, SeenInv, NEW r \in Requests,
         Submit(r) \/ (\E a \in Actions : Begin(r, a)) \/ Handler(r)
  PROVE  SeenInv'
<1> USE DEF IInv, TypeOK, SeenInv, Live, Critical
<1>1. CASE Submit(r)
  <2>1. PICK c \in {NoCall} \cup (Shown \ incomingOf) :
               seen' = [seen EXCEPT ![r] = c]
    BY <1>1 DEF Submit
  <2>2. c \in Calls =>
          /\ status[c] # "unused" /\ c \notin incomingOf
          /\ Live(c) => current = c
    BY <2>1 DEF Shown, MediaInv, DialledCallReachable, KnownCallsExist
  <2>3. UNCHANGED <<library, phone, snap>> /\ pc' = [pc EXCEPT ![r] = "waiting"]
    BY <1>1 DEF Submit
  <2>4. c \in Calls \cup {NoCall}
    BY <2>1 DEF Shown
  <2>5. QED
    BY <2>1, <2>2, <2>3, <2>4
<1>2. ASSUME NEW a \in Actions, Begin(r, a) PROVE SeenInv'
  BY <1>2 DEF Begin
<1>3. CASE Decide(r)
  BY <1>3 DEF Decide, At, Goto, HangupBranch
<1>4. CASE Register(r) \/ Sms(r) \/ Refuse(r) \/ Deregister(r)
           \/ InviteFails(r) \/ HangupFails(r)
  BY <1>4 DEF Register, Sms, Refuse, Deregister, InviteFails, HangupFails, At, Finish
<1>5. ASSUME NEW c \in Calls, Invite(r, c) PROVE SeenInv'
  BY <1>5 DEF Invite, At
<1>6. CASE StoreCall(r)
  BY <1>6 DEF StoreCall, At, Finish, NoDialledCallInv
<1>7. CASE Answer(r) \/ Hangup(r)
  BY <1>7 DEF Answer, Hangup, At, Finish, KnownCallsExist
<1>8. QED
  BY <1>1, <1>2, <1>3, <1>4, <1>5, <1>6, <1>7 DEF Handler

\* A user who acts on a live dialled call reaches that call, however long the
\* request waits for p.op and whatever the other requests and the receiver do, and
\* no request operates on a live call that is not p.call any more.
THEOREM SeenOperated == Spec => []SeenCallOperated
<1>1. Init => SeenInv /\ MediaInv
  BY DEF Init, SeenInv, MediaInv
<1>2. IInv /\ MediaInv /\ SeenInv /\ [Next]_vars => SeenInv'
  <2> SUFFICES ASSUME IInv, MediaInv, SeenInv, [Next]_vars PROVE SeenInv'
    OBVIOUS
  <2>1. CASE UNCHANGED vars
    BY <2>1 DEF vars, SeenInv, Live
  <2>2. QED
    BY <2>1, NetworkKeepsSeen, RequestKeepsSeen DEF Next
<1>3. IInv /\ MediaInv /\ [Next]_vars => MediaInv'
  BY MediaKeeps
<1>4. Spec => []SeenInv
  BY <1>1, <1>2, <1>3, Invariance, PTL DEF Spec
<1>5. IInv /\ SeenInv => SeenCallOperated
  BY DEF IInv, SnapshotInv, SeenInv, SeenCallOperated
<1>6. QED
  BY <1>4, <1>5, Invariance, PTL

-----------------------------------------------------------------------------
(* What RequestAnswered and OfferedCallAnswered rest on besides fairness *)

\* The request that holds p.op has what its next operation needs: an action to
\* decide on, and never a nil call to answer, to hang up or to store.
CanGoOn ==
  \A r \in Requests :
    /\ pc[r] = "decide" => act[r] \in Actions
    /\ pc[r] = "invited" => made[r] \in Calls
    /\ pc[r] \in {"answer", "bye", "reject", "cancel"} => snap[r] \in Calls

\* How many steps a request still has until it unlocks p.op.
StepsLeft(l) == IF l = "decide" THEN 3 ELSE IF l = "invite" THEN 2
                ELSE IF l \in Critical THEN 1 ELSE 0

\* p.op stays with its request, which comes nearer to its end at every step of its
\* own, until the request is answered and p.op is free for the next one.
LockPassedOn ==
  op \in Requests =>
    \/ op' = op /\ pc'[op] = pc[op]
    \/ op' = op /\ StepsLeft(pc'[op]) < StepsLeft(pc[op])
    \/ op' = NoRequest /\ pc'[op] = "idle"

LEMMA NetworkKeepsLock ==
  ASSUME \/ \E c \in Calls : Arrive(c) \/ RemoteAnswer(c) \/ RemoteEnd(c)
         \/ \E c \in Calls : MediaEnds(c) \/ MediaFails(c)
         \/ Receiver \/ UNCHANGED vars
  PROVE  UNCHANGED req
BY DEF Arrive, RemoteAnswer, RemoteEnd, MediaEnds, MediaFails, Receiver, Adopt, TakeBusy,
       RejectBusy, Rung, vars

LEMMA ActionKnown ==
  ASSUME IInv, CanGoOn, [Next]_vars
  PROVE  CanGoOn'
<1>1. KnownCallsExist' /\ TypeOK'
  BY NextIInv DEF IInv
<1>2. SUFFICES \A r \in Requests : pc'[r] = "decide" => act'[r] \in Actions
  BY <1>1 DEF CanGoOn, KnownCallsExist
<1> USE DEF IInv, TypeOK, CanGoOn
<1>3. CASE UNCHANGED req
  BY <1>3
<1>4. ASSUME NEW r \in Requests,
             Submit(r) \/ (\E a \in Actions : Begin(r, a)) \/ Handler(r)
      PROVE  \A q \in Requests : pc'[q] = "decide" => act'[q] \in Actions
  BY <1>4 DEF Submit, Begin, Handler, Register, Sms, Refuse, Decide, Deregister, Invite,
              InviteFails, StoreCall, Answer, Hangup, HangupFails, Finish, Goto, At,
              HangupBranch
<1>5. QED
  BY <1>3, <1>4, NetworkKeepsLock DEF Next

LEMMA HolderMoves ==
  ASSUME IInv, CanGoOn, NEW r \in Requests, Handler(r)
  PROVE  /\ op = r
         /\ \/ op' = r /\ StepsLeft(pc'[r]) < StepsLeft(pc[r])
            \/ op' = NoRequest /\ pc'[r] = "idle"
<1> USE DEF IInv, TypeOK, Critical, StepsLeft, At, Finish, Goto
<1>1. CASE Decide(r)
  BY <1>1 DEF Decide, HangupBranch
<1>2. ASSUME NEW c \in Calls, Invite(r, c)
      PROVE  op = r /\ op' = r /\ StepsLeft(pc'[r]) < StepsLeft(pc[r])
  BY <1>2 DEF Invite
<1>3. CASE \/ Register(r) \/ Sms(r) \/ Refuse(r) \/ Deregister(r) \/ InviteFails(r)
           \/ StoreCall(r) \/ Answer(r) \/ Hangup(r) \/ HangupFails(r)
  BY <1>3 DEF Register, Sms, Refuse, Deregister, InviteFails, StoreCall, Answer, Hangup,
              HangupFails
<1>4. QED
  BY <1>1, <1>2, <1>3 DEF Handler

\* What RequestAnswered rests on: p.op is held for at most three steps of one
\* request, which never lacks what its next step needs, and is then handed on.  How
\* long a step takes is another matter: Invite and Reject have no deadline.
THEOREM LockHandedOn == Spec => []CanGoOn /\ [][LockPassedOn]_vars
<1>1. Init => CanGoOn
  BY DEF Init, CanGoOn
<1>2. Spec => []CanGoOn
  BY <1>1, ActionKnown, Invariance, PTL DEF Spec
<1>3. IInv /\ CanGoOn /\ [Next]_vars => [LockPassedOn]_vars
  <2> SUFFICES ASSUME IInv, CanGoOn, Next, op \in Requests
               PROVE  \/ op' = op /\ pc'[op] = pc[op]
                      \/ op' = op /\ StepsLeft(pc'[op]) < StepsLeft(pc[op])
                      \/ op' = NoRequest /\ pc'[op] = "idle"
    BY DEF LockPassedOn
  <2>1. CASE UNCHANGED req
    BY <2>1
  <2>2. ASSUME NEW r \in Requests, Submit(r) PROVE op' = op /\ pc'[op] = pc[op]
    BY <2>2 DEF Submit, IInv, TypeOK, Critical
  <2>3. ASSUME NEW r \in Requests, NEW a \in Actions, Begin(r, a) PROVE FALSE
    BY <2>3 DEF Begin
  <2>4. QED
    BY <2>1, <2>2, <2>3, NetworkKeepsLock, HolderMoves DEF Next
<1>4. QED
  BY <1>2, <1>3, Invariance, PTL DEF Spec

\* First come, first served: an offered call keeps its place or moves up, and the
\* first one is adopted or taken to be sent a busy answer; the receiver comes back
\* from that answer only by having sent it, whether it succeeded or not.
OffersServed ==
  /\ \A i \in 1..Len(offered) :
       \/ i \in 1..Len(offered') /\ offered'[i] = offered[i]
       \/ i - 1 \in 1..Len(offered') /\ offered'[i - 1] = offered[i]
       \/ i = 1 /\ current' = offered[1] /\ ~Live(current)
       \/ i = 1 /\ rcvPc' = "rejecting" /\ rcvCall' = offered[1]
  /\ rcvPc = "rejecting" => \/ rcvPc' = "rejecting" /\ rcvCall' = rcvCall
                            \/ rcvPc' = "receive" /\ rcvCall \in rejected'

\* What OfferedCallAnswered rests on: no offer is lost or overtaken, and the receiver
\* does not replace a live call by it.
THEOREM OffersKept == Spec => [][OffersServed]_vars
<1>1. IInv /\ [Next]_vars => [OffersServed]_vars
  <2> SUFFICES ASSUME IInv, Next PROVE OffersServed
    OBVIOUS
  <2> USE DEF IInv, TypeOK, OffersServed
  <2>1. CASE Adopt \/ TakeBusy
    <3>0. offered # <<>> /\ offered' = Tail(offered)
      BY <2>1 DEF Adopt, TakeBusy
    <3>1. /\ Len(offered) > 0 /\ offered[1] = Head(offered)
          /\ Len(offered') = Len(offered) - 1
          /\ \A i \in 1..Len(offered') : offered'[i] = offered[i + 1]
      BY <3>0
    <3>2. \A i \in 1..Len(offered) : i # 1 =>
            i - 1 \in 1..Len(offered') /\ offered'[i - 1] = offered[i]
      BY <3>1
    <3>3. QED
      BY <2>1, <3>1, <3>2 DEF Adopt, TakeBusy, Busy
  <2>2. ASSUME NEW c \in Calls, Arrive(c) PROVE OffersServed
    <3>1. UNCHANGED rcv /\ Len(offered') = Len(offered) + 1
          /\ \A i \in 1..Len(offered) : offered'[i] = offered[i]
      BY <2>2 DEF Arrive
    <3>2. QED
      BY <3>1
  <2>3. CASE RejectBusy
    BY <2>3 DEF RejectBusy
  <2>4. CASE Rung
    BY <2>4 DEF Rung
  <2>5. ASSUME UNCHANGED <<offered, rcv>> PROVE OffersServed
    BY <2>5
  <2>6. ASSUME NEW c \in Calls,
               \/ RemoteAnswer(c) \/ RemoteEnd(c)
               \/ MediaEnds(c) \/ MediaFails(c)
        PROVE  UNCHANGED <<offered, rcv>>
    BY <2>6 DEF RemoteAnswer, RemoteEnd, MediaEnds, MediaFails
  <2>7. ASSUME NEW r \in Requests,
               Submit(r) \/ (\E a \in Actions : Begin(r, a)) \/ Handler(r)
        PROVE  UNCHANGED <<offered, rcv>>
    BY <2>7 DEF Submit, Begin, Handler, Register, Sms, Refuse, Decide, Deregister, Invite,
                InviteFails, StoreCall, Answer, Hangup, HangupFails
  <2>8. QED
    BY <2>1, <2>2, <2>3, <2>4, <2>5, <2>6, <2>7 DEF Next, Receiver
<1>2. QED
  BY <1>1, Invariance, PTL DEF Spec
=============================================================================
