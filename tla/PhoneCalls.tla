---------------------------- MODULE PhoneCalls ----------------------------
(***************************************************************************)
(* One phone of the ue-phones backend and the goroutines that share its    *)
(* call: the HTTP requests handled by action() (one at a time, p.op), the  *)
(* receiver receiveCalls() and one media() goroutine per call.  p.call is  *)
(* only read or written under p.mu, but the decision taken from it and     *)
(* the network operation that follows are separate steps.                  *)
(*                                                                         *)
(* The call objects belong to the external IMS library; the network ends,  *)
(* answers and offers calls at any moment.                                 *)
(***************************************************************************)
EXTENDS Naturals, Sequences

CONSTANTS Calls,      \* call objects; each stands for one SIP dialog
          Requests,   \* concurrent POST /api/action requests for the phone
          NoCall,     \* p.call = nil
          NoRequest   \* p.op is not locked

ASSUME NoCallAssumption    == NoCall \notin Calls
ASSUME NoRequestAssumption == NoRequest \notin Requests

VARIABLES
  status,      \* Call.State() of every call, "unused" before it exists
  incomingOf,  \* the calls whose Call.Incoming() is true
  offered,     \* the channel p.ims.MMTel().Calls()
  rejected,    \* history: the offers the receiver has sent a busy answer to
  registered,  \* p.ims.State().Registered
  current,     \* p.call
  incoming,    \* p.incoming
  media,       \* the media goroutine of every call
  upfParses,   \* the UPF address of the phone's session is a valid one
  rcvPc,       \* where receiveCalls is
  rcvCall,     \* the call receiveCalls works on
  op,          \* the request that holds p.op
  pc,          \* where every request is
  act,         \* its action
  seen,        \* history: the dialled call the page showed when it was sent
  snap,        \* its local variable call: p.call when it started
  made         \* the call Invite returned to it

library == <<status, incomingOf, offered, registered>>
phone   == <<current, incoming, media, upfParses>>
rcv     == <<rcvPc, rcvCall, rejected>>
req     == <<op, pc, act, seen, snap, made>>
vars    == <<library, phone, rcv, req>>

Actions  == {"register", "unregister", "call", "answer", "hangup", "sms"}
\* "decide" is the code between the snapshot and the network operation; the
\* later locations are the operation itself.
Critical == {"decide", "deregister", "invite", "invited", "answer",
             "bye", "reject", "cancel"}

TypeOK ==
  /\ status \in [Calls -> {"unused", "early", "confirmed", "terminated"}]
  /\ incomingOf \in SUBSET Calls
  /\ offered \in Seq(Calls)
  /\ registered \in BOOLEAN
  /\ current \in Calls \cup {NoCall}
  /\ incoming \in BOOLEAN
  /\ media \in [Calls -> {"none", "running", "ended", "silent"}]
  /\ upfParses \in BOOLEAN
  /\ rcvPc \in {"receive", "rejecting", "ringing"}
  /\ rcvCall \in Calls \cup {NoCall}
  /\ rejected \in SUBSET Calls
  /\ op \in Requests \cup {NoRequest}
  /\ pc \in [Requests -> Critical \cup {"idle", "waiting"}]
  /\ act \in [Requests -> Actions \cup {"none"}]
  /\ seen \in [Requests -> Calls \cup {NoCall}]
  /\ snap \in [Requests -> Calls \cup {NoCall}]
  /\ made \in [Requests -> Calls \cup {NoCall}]
  /\ (rcvPc = "receive") <=> (rcvCall = NoCall)
  /\ \A r \in Requests : (op = r) <=> (pc[r] \in Critical)

Live(c) == c \in Calls /\ status[c] \in {"early", "confirmed"}

\* The session is established once, so its UPF address stays as it is.
Init ==
  /\ status = [c \in Calls |-> "unused"]
  /\ incomingOf = {}
  /\ offered = <<>>
  /\ registered = FALSE
  /\ current = NoCall
  /\ incoming = FALSE
  /\ media = [c \in Calls |-> "none"]
  /\ upfParses \in BOOLEAN
  /\ rcvPc = "receive"
  /\ rcvCall = NoCall
  /\ rejected = {}
  /\ op = NoRequest
  /\ pc = [r \in Requests |-> "idle"]
  /\ act = [r \in Requests |-> "none"]
  /\ seen = [r \in Requests |-> NoCall]
  /\ snap = [r \in Requests |-> NoCall]
  /\ made = [r \in Requests |-> NoCall]

-----------------------------------------------------------------------------
(* The network and the library.                                            *)
(*                                                                         *)
(* An operator called X_Fault, here and in the other modules, is a mutation*)
(* of X: a plausible mistake in the code X models.  No action uses it; put *)
(* in the place of X it breaks a property, which shows that the property   *)
(* depends on that line of the code.                                       *)

\* An INVITE reaches the registered phone.
Arrive(c) ==
  /\ registered
  /\ status[c] = "unused"
  /\ status' = [status EXCEPT ![c] = "early"]
  /\ incomingOf' = incomingOf \cup {c}
  /\ offered' = Append(offered, c)
  /\ UNCHANGED <<registered, phone, rcv, req>>

\* The callee answers a dialled call.
RemoteAnswer(c) ==
  /\ status[c] = "early"
  /\ c \notin incomingOf
  /\ status' = [status EXCEPT ![c] = "confirmed"]
  /\ UNCHANGED <<incomingOf, offered, registered, phone, rcv, req>>

\* The other end rejects, cancels or hangs up, or the dialog times out.
RemoteEnd(c) ==
  /\ Live(c)
  /\ status' = [status EXCEPT ![c] = "terminated"]
  /\ UNCHANGED <<incomingOf, offered, registered, phone, rcv, req>>

-----------------------------------------------------------------------------
(* receiveCalls: under p.mu, adopt the call if the phone is free *)

\* Fault: only an answered call makes the phone busy.
Busy_OnlyTalking == Live(current) /\ status[current] = "confirmed"

Busy == Live(current)

Adopt ==
  /\ rcvPc = "receive"
  /\ offered # <<>>
  /\ ~Busy
  /\ current' = Head(offered)
  /\ incoming' = TRUE
  /\ rcvPc' = "ringing"
  /\ rcvCall' = Head(offered)
  /\ offered' = Tail(offered)
  /\ UNCHANGED <<status, incomingOf, registered, media, upfParses, rejected, req>>

TakeBusy ==
  /\ rcvPc = "receive"
  /\ offered # <<>>
  /\ Busy
  /\ rcvPc' = "rejecting"
  /\ rcvCall' = Head(offered)
  /\ offered' = Tail(offered)
  /\ UNCHANGED <<status, incomingOf, registered, phone, rejected, req>>

\* Fault: the busy call is dropped without an answer.
RejectBusy_Silent ==
  /\ rcvPc = "rejecting"
  /\ rcvPc' = "receive"
  /\ rcvCall' = NoCall
  /\ UNCHANGED <<library, phone, rejected, req>>

\* call.Reject(486) outside the mutex returns.  Its error is ignored: the call
\* may go on ringing, and the receiver does not try again.
RejectBusy ==
  /\ rcvPc = "rejecting"
  /\ \/ status' = [status EXCEPT ![rcvCall] = "terminated"]
     \/ UNCHANGED status
  /\ rejected' = rejected \cup {rcvCall}
  /\ rcvPc' = "receive"
  /\ rcvCall' = NoCall
  /\ UNCHANGED <<incomingOf, offered, registered, phone, req>>

\* Fault: `continue` when Ring fails, as it does for a call that has ended.
Rung_ContinueOnError ==
  /\ rcvPc = "ringing"
  /\ media' = IF Live(rcvCall) THEN [media EXCEPT ![rcvCall] = "running"] ELSE media
  /\ rcvPc' = "receive"
  /\ rcvCall' = NoCall
  /\ UNCHANGED <<library, current, incoming, upfParses, rejected, req>>

\* call.Ring returns, with or without an error, and media is started.
Rung ==
  /\ rcvPc = "ringing"
  /\ media' = [media EXCEPT ![rcvCall] = "running"]
  /\ rcvPc' = "receive"
  /\ rcvCall' = NoCall
  /\ UNCHANGED <<library, current, incoming, upfParses, rejected, req>>

Receiver == Adopt \/ TakeBusy \/ RejectBusy \/ Rung

\* The media goroutine sees Done() and logs "Call ended".
MediaEnds(c) ==
  /\ media[c] = "running"
  /\ status[c] = "terminated"
  /\ media' = [media EXCEPT ![c] = "ended"]
  /\ UNCHANGED <<library, current, incoming, upfParses, rcv, req>>

\* Its first packet of an answered call cannot be sent: the UPF address of the
\* session does not parse, and the goroutine returns without a word.
MediaFails(c) ==
  /\ media[c] = "running"
  /\ status[c] = "confirmed"
  /\ ~upfParses
  /\ media' = [media EXCEPT ![c] = "silent"]
  /\ UNCHANGED <<library, current, incoming, upfParses, rcv, req>>

-----------------------------------------------------------------------------
(* action: one request *)

\* What the page shows may be an old answer of /api/state: p.call, or a call
\* that has been p.call.
Shown == {current} \cup {c \in Calls : media[c] # "none"}

\* The user acts on a call the page shows; the dialled ones are recorded.
Submit(r) ==
  /\ pc[r] = "idle"
  /\ pc' = [pc EXCEPT ![r] = "waiting"]
  /\ \E c \in {NoCall} \cup (Shown \ incomingOf) : seen' = [seen EXCEPT ![r] = c]
  /\ UNCHANGED <<library, phone, rcv, op, act, snap, made>>

\* Fault: p.op is not taken.
Begin_Unlocked(r, a) ==
  /\ pc[r] = "waiting"
  /\ op' = r
  /\ act' = [act EXCEPT ![r] = a]
  /\ snap' = [snap EXCEPT ![r] = current]
  /\ pc' = [pc EXCEPT ![r] = "decide"]
  /\ UNCHANGED <<library, phone, rcv, seen, made>>

\* p.op.Lock() and the copy of p.call under p.mu.
Begin(r, a) ==
  /\ pc[r] = "waiting"
  /\ op = NoRequest
  /\ op' = r
  /\ act' = [act EXCEPT ![r] = a]
  /\ snap' = [snap EXCEPT ![r] = current]
  /\ pc' = [pc EXCEPT ![r] = "decide"]
  /\ UNCHANGED <<library, phone, rcv, seen, made>>

At(r, l) == pc[r] = l

Goto(r, l) ==
  /\ pc' = [pc EXCEPT ![r] = l]
  /\ UNCHANGED <<op, act, seen, snap, made>>

\* Fault: the reply is sent and p.op stays locked.
Finish_Locked(r) ==
  /\ pc' = [pc EXCEPT ![r] = "idle"]
  /\ act' = [act EXCEPT ![r] = "none"]
  /\ seen' = [seen EXCEPT ![r] = NoCall]
  /\ snap' = [snap EXCEPT ![r] = NoCall]
  /\ made' = [made EXCEPT ![r] = NoCall]
  /\ UNCHANGED op

\* Reply and p.op.Unlock(): the handler's locals are gone.
Finish(r) ==
  /\ pc' = [pc EXCEPT ![r] = "idle"]
  /\ op' = NoRequest
  /\ act' = [act EXCEPT ![r] = "none"]
  /\ seen' = [seen EXCEPT ![r] = NoCall]
  /\ snap' = [snap EXCEPT ![r] = NoCall]
  /\ made' = [made EXCEPT ![r] = NoCall]

\* Register(ctx) succeeds or fails.
Register(r) ==
  /\ At(r, "decide") /\ act[r] = "register"
  /\ \E ok \in BOOLEAN : registered' = (registered \/ ok)
  /\ Finish(r)
  /\ UNCHANGED <<status, incomingOf, offered, phone, rcv>>

\* Fault: unregister does not look at the call.
RefusedNow_Unregisters(r) ==
  \/ act[r] = "call" /\ Live(snap[r])
  \/ act[r] = "answer" /\ snap[r] \notin incomingOf
  \/ act[r] = "hangup" /\ ~Live(snap[r])

\* The refusals of every action: the message is stored and the lock released.
RefusedNow(r) ==
  \/ act[r] = "unregister" /\ Live(snap[r])
  \/ act[r] = "call" /\ Live(snap[r])
  \/ act[r] = "answer" /\ snap[r] \notin incomingOf
  \/ act[r] = "hangup" /\ ~Live(snap[r])

\* Fault: an early return of a refusal leaves p.op locked.
Refuse_Locked(r) ==
  /\ At(r, "decide")
  /\ RefusedNow(r) \/ act[r] = "call"
  /\ Finish_Locked(r)
  /\ UNCHANGED <<library, phone, rcv>>

\* A bad recipient number refuses a call as well.
Refuse(r) ==
  /\ At(r, "decide")
  /\ RefusedNow(r) \/ act[r] = "call"
  /\ Finish(r)
  /\ UNCHANGED <<library, phone, rcv>>

\* An sms request holds p.op while it submits; PhoneSms models the rest.
Sms(r) ==
  /\ At(r, "decide") /\ act[r] = "sms"
  /\ Finish(r)
  /\ UNCHANGED <<library, phone, rcv>>

HangupBranch(c) ==
  CASE status[c] = "confirmed" -> "bye"
    [] status[c] = "early" /\ c \in incomingOf -> "reject"
    [] OTHER -> "cancel"

\* The check passed: what the request does next, decided from what it read.
Decide(r) ==
  /\ At(r, "decide")
  /\ ~RefusedNow(r)
  /\ \/ act[r] = "unregister" /\ Goto(r, "deregister")
     \/ act[r] = "call" /\ Goto(r, "invite")
     \/ act[r] = "answer" /\ Goto(r, "answer")
     \/ act[r] = "hangup" /\ Goto(r, HangupBranch(snap[r]))
  /\ UNCHANGED <<library, phone, rcv>>

Deregister(r) ==
  /\ At(r, "deregister")
  /\ \E ok \in BOOLEAN : registered' = (registered /\ ~ok)
  /\ Finish(r)
  /\ UNCHANGED <<status, incomingOf, offered, phone, rcv>>

\* Invite returns a new call, without p.mu ...
Invite(r, c) ==
  /\ At(r, "invite")
  /\ registered
  /\ status[c] = "unused"
  /\ status' = [status EXCEPT ![c] = "early"]
  /\ made' = [made EXCEPT ![r] = c]
  /\ pc' = [pc EXCEPT ![r] = "invited"]
  /\ UNCHANGED <<incomingOf, offered, registered, phone, rcv, op, act, seen, snap>>

InviteFails(r) ==
  /\ At(r, "invite")
  /\ Finish(r)
  /\ UNCHANGED <<library, phone, rcv>>

\* ... and the handler stores it under p.mu without looking at p.call again.
StoreCall(r) ==
  /\ At(r, "invited")
  /\ current' = made[r]
  /\ incoming' = FALSE
  /\ media' = [media EXCEPT ![made[r]] = "running"]
  /\ Finish(r)
  /\ UNCHANGED <<library, upfParses, rcv>>

\* Answer(ctx) confirms a call that still rings, or fails.
Answer(r) ==
  /\ At(r, "answer")
  /\ \/ /\ status[snap[r]] = "early"
        /\ status' = [status EXCEPT ![snap[r]] = "confirmed"]
     \/ UNCHANGED status
  /\ Finish(r)
  /\ UNCHANGED <<incomingOf, offered, registered, phone, rcv>>

\* Bye, Reject(486) or Cancel: each ends a call in the state it is meant for,
\* and fails otherwise or when the network does.
Hangup(r) ==
  /\ \/ At(r, "bye") /\ status[snap[r]] = "confirmed"
     \/ (At(r, "reject") \/ At(r, "cancel")) /\ status[snap[r]] = "early"
  /\ status' = [status EXCEPT ![snap[r]] = "terminated"]
  /\ Finish(r)
  /\ UNCHANGED <<incomingOf, offered, registered, phone, rcv>>

HangupFails(r) ==
  /\ At(r, "bye") \/ At(r, "reject") \/ At(r, "cancel")
  /\ Finish(r)
  /\ UNCHANGED <<library, phone, rcv>>

Handler(r) ==
  \/ Register(r) \/ Sms(r) \/ Refuse(r) \/ Decide(r)
  \/ Deregister(r)
  \/ \E c \in Calls : Invite(r, c)
  \/ InviteFails(r) \/ StoreCall(r)
  \/ Answer(r) \/ Hangup(r) \/ HangupFails(r)

Next ==
  \/ \E c \in Calls : Arrive(c) \/ RemoteAnswer(c) \/ RemoteEnd(c)
                      \/ MediaEnds(c) \/ MediaFails(c)
  \/ Receiver
  \/ \E r \in Requests :
       \/ Submit(r)
       \/ \E a \in Actions : Begin(r, a)
       \/ Handler(r)

Spec == Init /\ [][Next]_vars

\* Where a request may stay for ever: Invite (server.go:415) and Reject (439)
\* take no context, so nothing in the code bounds them.
NoDeadline == {"invite", "reject"}

\* The goroutines run, the operations that have a context return (30 s for a
\* request, 10 s for Ring), and sync.Mutex does not starve a waiter.  Nothing is
\* assumed of Invite and of the two uses of Reject, which have no deadline.
Fairness ==
  /\ WF_vars(Adopt \/ TakeBusy \/ Rung)
  /\ \A c \in Calls : WF_vars(MediaEnds(c))
  /\ \A r \in Requests :
       /\ SF_vars(\E a \in Actions : Begin(r, a))
       /\ WF_vars(pc[r] \notin NoDeadline /\ Handler(r))

FairSpec == Spec /\ Fairness

-----------------------------------------------------------------------------
(* Properties *)

\* A live call that was dialled from the phone is always within reach of the
\* user: it is p.call, or the request that placed it is about to store it.
\* It rests on p.op, on the busy test of receiveCalls and on the refusal of
\* a second call (server.go 201-209, 355-362, 406-425).
DialledCallReachable ==
  \A c \in Calls \ incomingOf :
    Live(c) => \/ current = c
               \/ \E r \in Requests : pc[r] = "invited" /\ made[r] = c

\* The registration is never given up under a dialled call: unregister
\* refuses while the call is live (server.go 366-371).
DialledCallKeepsRegistration ==
  \A c \in Calls \ incomingOf : Live(c) => registered

\* A user who acts on a dialled call reaches that call as long as it lives: the
\* wait for p.op, the requests before it and the receiver put no other call in
\* its place.  (An incoming call may be lost to a dialled one, see
\* NoOrphanedCall, and one that has ended to its successor.)  Nor is the call
\* that is reached one that p.call has left behind alive (server.go 201-209,
\* 355-362, 427-442).
SeenCallOperated ==
  \A r \in Requests :
    pc[r] \in {"answer", "bye", "reject", "cancel"} =>
      /\ Live(seen[r]) => snap[r] = seen[r]
      /\ Live(snap[r]) => current = snap[r]

\* Every call offered to the phone is adopted, ends or is sent a busy answer:
\* the receiver may not leave a caller waiting behind another call.  Unless the
\* library never returns from such an answer, which has no deadline.
OfferedCallAnswered ==
  \A c \in Calls :
    (\E i \in 1..Len(offered) : offered[i] = c)
      ~> \/ current = c \/ status[c] = "terminated" \/ c \in rejected
         \/ [](rcvPc = "rejecting")

\* The end of every call that became p.call is logged, by exactly the media
\* goroutine that was started for it, however early the call ended; as long as
\* the goroutine can parse the address of the UPF (server.go 271-274).
EndOfCallLogged ==
  \A c \in Calls :
    (upfParses /\ current = c /\ status[c] = "terminated") ~> media[c] = "ended"

\* Every request is answered: no refusal, error or interleaving leaves p.op
\* locked, except for an Invite or a Reject that never returns and keeps it.
RequestAnswered ==
  \A r \in Requests :
    pc[r] = "waiting" ~> \/ pc[r] = "idle"
                         \/ \E q \in Requests : [](pc[q] \in NoDeadline)

\* The phone knows one call at a time ("a call is already active",
\* server.go:407): every live call is p.call or still in the hands of the
\* receiver or of the request that is placing it, or was told the phone is busy.
NoOrphanedCall ==
  \A c \in Calls :
    Live(c) => \/ current = c
               \/ \E i \in 1..Len(offered) : offered[i] = c
               \/ rcvPc = "rejecting" /\ rcvCall = c
               \/ c \in rejected
               \/ \E r \in Requests : pc[r] = "invited" /\ made[r] = c
=============================================================================
