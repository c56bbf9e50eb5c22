---------------------------- MODULE N2ProxyProofs ----------------------------
(* What the middleware hears of one association, for any number of sessions *)
(* and frames and any size of the queue.                                    *)
EXTENDS N2Proxy, TLAPS

\* Only the handler's session is open, and only a running one has goroutines
\* of its own; an error in its errCh has a cause.
SessionInv ==
  /\ cur = None <=> pc \in {"dial", "backoff", "done"}
  /\ \A s \in Slots : s # cur => link[s] = "closed"
  /\ cur # None => link[cur] \in {"up", "dead"}
  /\ pc \in {"open", "setup", "start"} => fwd[cur] = "ended" /\ down[cur] = "ended"
  /\ pc # "run" => ~errCh /\ lead = 0
  /\ errCh => link[cur] = "dead" \/ gnb = "closed"

\* The frame a forwarder holds is older than the queue, and the queue is older
\* than the frame the reader holds.
OrderInv ==
  /\ \A s \in Slots : fwd[s] # "writing" => held[s] = 0
  /\ \A a, b \in 1..Len(frames) : a < b => frames[a] < frames[b]
  /\ \A a \in 1..Len(frames) : /\ last < frames[a] /\ frames[a] <= read
                               /\ reader = "pushing" => frames[a] < read
                               /\ \A s \in Slots : held[s] < frames[a]
  /\ last <= read /\ \A s \in Slots : held[s] <= read
  /\ reader = "pushing" => last < read /\ \A s \in Slots : held[s] < read
  /\ cur # None /\ fwd[cur] = "writing" => last < held[cur]

\* The next frame to take is the first one the gNB sent.
QueueUntouched ==
  IF frames # <<>> THEN frames[1] = 1
  ELSE read = IF reader = "pushing" THEN 1 ELSE 0

\* The cached frame is the first one, and so is what a session begins with:
\* it is replayed, or the session is the first to touch the queue.
SetupInv ==
  /\ setup \in {0, 1}
  /\ setup = 0 => setupCh = IF read = 0 THEN 0 ELSE 1
  /\ pc = "setup" => setup = 0
  /\ replay \/ pc \in {"start", "run"} => setup = 1
  /\ pc = "run" /\ replay /\ link[cur] = "up" => lead = 1
  /\ ~replay /\ pc # "done" =>
       /\ \A s \in Slots : s # cur => fwd[s] = "ended"
       /\ pc # "run" => QueueUntouched
       /\ pc = "run" /\ link[cur] = "up" /\ lead = 0 =>
            held[cur] = 1 \/ (fwd[cur] # "writing" /\ QueueUntouched)

IInv == TypeOK /\ SessionInv /\ OrderInv /\ SetupInv /\ SetupLeads
-----------------------------------------------------------------------------
USE SlotsAssumption, BoundsAssumption DEF gnbSide, handler, session

LEMMA InitIInv == Init => IInv
<1> SUFFICES ASSUME Init PROVE IInv
  OBVIOUS
<1>1. /\ <<>> \in Seq(1..MaxFrames) /\ Len(<<>>) = 0
      /\ 0 \in 0..MaxFrames /\ 0 \in 0..MaxDeaths
  OBVIOUS
<1>2. TypeOK
  <2>1. frames \in Seq(1..MaxFrames) /\ Len(frames) <= Cap
    BY <1>1 DEF Init
  <2>2. setupCh \in 0..MaxFrames /\ setup \in 0..MaxFrames /\ lead \in 0..MaxFrames
    BY <1>1 DEF Init
  <2>3. held \in [Slots -> 0..MaxFrames]
    BY <1>1 DEF Init
  <2>4. QED
    BY <1>1, <2>1, <2>2, <2>3 DEF Init, TypeOK
<1>3. SessionInv /\ OrderInv
  BY DEF Init, SessionInv, OrderInv
<1>4. SetupInv /\ SetupLeads
  BY DEF Init, SetupInv, QueueUntouched, SetupLeads
<1>5. QED
  BY <1>2, <1>3, <1>4 DEF IInv

\* What the gNB and the VIP do.
LEMMA EnvironmentStep ==
  ASSUME IInv, GnbCloses \/ VipMoves
  PROVE  IInv'
<1>1. CASE GnbCloses
  <2>1. TypeOK'
    BY <1>1 DEF GnbCloses, IInv, TypeOK
  <2>2. SessionInv'
    BY <1>1 DEF GnbCloses, IInv, SessionInv
  <2>3. OrderInv'
    BY <1>1 DEF GnbCloses, IInv, OrderInv
  <2>4. SetupInv' /\ SetupLeads'
    BY <1>1 DEF GnbCloses, IInv, SetupInv, QueueUntouched, SetupLeads
  <2>5. QED
    BY <2>1, <2>2, <2>3, <2>4 DEF IInv
<1>2. CASE VipMoves
  <2>1. TypeOK'
    BY <1>2 DEF VipMoves, IInv, TypeOK
  <2>2. SessionInv'
    BY <1>2 DEF VipMoves, IInv, SessionInv
  <2>3. OrderInv'
    BY <1>2 DEF VipMoves, IInv, OrderInv
  <2>4. SetupInv' /\ SetupLeads'
    BY <1>2 DEF VipMoves, IInv, SetupInv, QueueUntouched, SetupLeads
  <2>5. QED
    BY <2>1, <2>2, <2>3, <2>4 DEF IInv
<1>3. QED
  BY <1>1, <1>2

\* readGNBFrames: the frames it reads are newer than all others.
LEMMA ReaderStep ==
  ASSUME IInv, Read \/ Push \/ ReadEnds
  PROVE  IInv'
<1>1. CASE Read
  <2>1. TypeOK'
    BY <1>1 DEF Read, IInv, TypeOK
  <2>2. SessionInv'
    BY <1>1 DEF Read, IInv, SessionInv
  <2>3. OrderInv'
    BY <1>1 DEF Read, IInv, TypeOK, OrderInv
  <2>4. SetupInv' /\ SetupLeads'
    BY <1>1 DEF Read, IInv, TypeOK, SetupInv, QueueUntouched, SetupLeads
  <2>5. QED
    BY <2>1, <2>2, <2>3, <2>4 DEF IInv
<1>2. CASE Push
  <2>1. TypeOK'
    <3>1. read \in 1..MaxFrames
      BY <1>2 DEF Push, IInv, TypeOK, OrderInv
    <3>2. frames' \in Seq(1..MaxFrames) /\ Len(frames') <= Cap
      BY <1>2, <3>1 DEF Push, IInv, TypeOK
    <3>3. QED
      BY <1>2, <3>2 DEF Push, IInv, TypeOK
  <2>2. SessionInv'
    BY <1>2 DEF Push, IInv, SessionInv
  <2>3. OrderInv'
    BY <1>2 DEF Push, IInv, TypeOK, OrderInv
  <2>4. SetupInv' /\ SetupLeads'
    BY <1>2 DEF Push, IInv, SetupInv, QueueUntouched, SetupLeads
  <2>5. QED
    BY <2>1, <2>2, <2>3, <2>4 DEF IInv
<1>3. CASE ReadEnds
  <2>1. TypeOK'
    BY <1>3 DEF ReadEnds, IInv, TypeOK
  <2>2. SessionInv'
    BY <1>3 DEF ReadEnds, IInv, SessionInv
  <2>3. OrderInv'
    BY <1>3 DEF ReadEnds, IInv, OrderInv
  <2>4. SetupInv' /\ SetupLeads'
    BY <1>3 DEF ReadEnds, IInv, SetupInv, QueueUntouched, SetupLeads
  <2>5. QED
    BY <2>1, <2>2, <2>3, <2>4 DEF IInv
<1>4. QED
  BY <1>1, <1>2, <1>3

\* The handler between two sessions.
LEMMA DialStep ==
  ASSUME IInv, DialOk \/ DialFails \/ BackoffEnds \/ GnbEndsInBackoff
  PROVE  IInv'
<1>1. CASE DialOk
  <2>1. TypeOK'
    BY <1>1 DEF DialOk, IInv, TypeOK
  <2>2. SessionInv'
    BY <1>1 DEF DialOk, IInv, TypeOK, SessionInv
  <2>3. OrderInv'
    BY <1>1 DEF DialOk, IInv, OrderInv
  <2>4. SetupInv' /\ SetupLeads'
    BY <1>1 DEF DialOk, IInv, SessionInv, SetupInv, QueueUntouched, SetupLeads
  <2>5. QED
    BY <2>1, <2>2, <2>3, <2>4 DEF IInv
<1>2. CASE DialFails
  <2>1. TypeOK'
    BY <1>2 DEF DialFails, IInv, TypeOK
  <2>2. SessionInv'
    BY <1>2 DEF DialFails, IInv, SessionInv
  <2>3. OrderInv'
    BY <1>2 DEF DialFails, IInv, OrderInv
  <2>4. SetupInv' /\ SetupLeads'
    BY <1>2 DEF DialFails, IInv, SetupInv, QueueUntouched, SetupLeads
  <2>5. QED
    BY <2>1, <2>2, <2>3, <2>4 DEF IInv
<1>3. CASE BackoffEnds
  <2>1. TypeOK'
    BY <1>3 DEF BackoffEnds, IInv, TypeOK
  <2>2. SessionInv'
    BY <1>3 DEF BackoffEnds, IInv, SessionInv
  <2>3. OrderInv'
    BY <1>3 DEF BackoffEnds, IInv, OrderInv
  <2>4. SetupInv' /\ SetupLeads'
    BY <1>3 DEF BackoffEnds, IInv, SetupInv, QueueUntouched, SetupLeads
  <2>5. QED
    BY <2>1, <2>2, <2>3, <2>4 DEF IInv
<1>4. CASE GnbEndsInBackoff
  <2>1. TypeOK'
    BY <1>4 DEF GnbEndsInBackoff, IInv, TypeOK
  <2>2. SessionInv'
    BY <1>4 DEF GnbEndsInBackoff, IInv, SessionInv
  <2>3. OrderInv'
    BY <1>4 DEF GnbEndsInBackoff, IInv, OrderInv
  <2>4. SetupInv' /\ SetupLeads'
    BY <1>4 DEF GnbEndsInBackoff, IInv, SetupInv, SetupLeads
  <2>5. QED
    BY <2>1, <2>2, <2>3, <2>4 DEF IInv
<1>5. QED
  BY <1>1, <1>2, <1>3, <1>4

\* The handler on its way to a session that runs.
LEMMA OpenStep ==
  ASSUME IInv, OpenOk \/ OpenFails \/ SetupArrives \/ Start \/ ReplayFails
  PROVE  IInv'
<1>1. CASE OpenOk
  <2>1. TypeOK'
    BY <1>1 DEF OpenOk, IInv, TypeOK
  <2>2. SessionInv'
    BY <1>1 DEF OpenOk, IInv, SessionInv
  <2>3. OrderInv'
    BY <1>1 DEF OpenOk, IInv, OrderInv
  <2>4. SetupInv' /\ SetupLeads'
    BY <1>1 DEF OpenOk, IInv, SetupInv, QueueUntouched, SetupLeads
  <2>5. QED
    BY <2>1, <2>2, <2>3, <2>4 DEF IInv
<1>2. CASE OpenFails
  <2>1. TypeOK'
    <3>1. cur \in Slots
      BY <1>2 DEF OpenFails, IInv, TypeOK, SessionInv
    <3>2. link' \in [Slots -> {"up", "dead", "closed"}]
      BY <1>2, <3>1 DEF OpenFails, Leave, IInv, TypeOK
    <3>3. cur' = None /\ errCh' = FALSE /\ lead' = 0
      BY <1>2 DEF OpenFails, Leave
    <3>4. lead' \in 0..MaxFrames
      BY <3>3
    <3>5. QED
      BY <1>2, <3>2, <3>3, <3>4 DEF OpenFails, IInv, TypeOK
  <2>2. SessionInv'
    BY <1>2 DEF OpenFails, Leave, IInv, TypeOK, SessionInv
  <2>3. OrderInv'
    BY <1>2 DEF OpenFails, Leave, IInv, OrderInv
  <2>4. SetupInv' /\ SetupLeads'
    BY <1>2 DEF OpenFails, Leave, IInv, SessionInv, SetupInv, QueueUntouched,
                SetupLeads
  <2>5. QED
    BY <2>1, <2>2, <2>3, <2>4 DEF IInv
<1>3. CASE SetupArrives
  <2>1. TypeOK'
    BY <1>3 DEF SetupArrives, IInv, TypeOK
  <2>2. SessionInv'
    BY <1>3 DEF SetupArrives, IInv, SessionInv
  <2>3. OrderInv'
    BY <1>3 DEF SetupArrives, IInv, OrderInv
  <2>4. SetupInv' /\ SetupLeads'
    BY <1>3 DEF SetupArrives, IInv, SetupInv, QueueUntouched, SetupLeads
  <2>5. QED
    BY <2>1, <2>2, <2>3, <2>4 DEF IInv
<1>4. CASE Start
  <2>1. TypeOK'
    BY <1>4 DEF Start, Forwarders, IInv, TypeOK
  <2>2. SessionInv'
    BY <1>4 DEF Start, IInv, SessionInv
  <2>3. OrderInv'
    BY <1>4 DEF Start, Forwarders, IInv, SessionInv, OrderInv
  <2>4. SetupInv' /\ SetupLeads'
    BY <1>4 DEF Start, Forwarders, IInv, SessionInv, SetupInv, QueueUntouched,
                SetupLeads
  <2>5. QED
    BY <2>1, <2>2, <2>3, <2>4 DEF IInv
<1>5. CASE ReplayFails
  <2>1. TypeOK'
    <3>1. cur \in Slots
      BY <1>5 DEF ReplayFails, IInv, TypeOK, SessionInv
    <3>2. link' \in [Slots -> {"up", "dead", "closed"}]
      BY <1>5, <3>1 DEF ReplayFails, Leave, IInv, TypeOK
    <3>3. cur' = None /\ errCh' = FALSE /\ lead' = 0
      BY <1>5 DEF ReplayFails, Leave
    <3>4. lead' \in 0..MaxFrames
      BY <3>3
    <3>5. QED
      BY <1>5, <3>2, <3>3, <3>4 DEF ReplayFails, IInv, TypeOK
  <2>2. SessionInv'
    BY <1>5 DEF ReplayFails, Leave, IInv, TypeOK, SessionInv
  <2>3. OrderInv'
    BY <1>5 DEF ReplayFails, Leave, IInv, OrderInv
  <2>4. SetupInv' /\ SetupLeads'
    BY <1>5 DEF ReplayFails, Leave, IInv, SetupInv, SetupLeads
  <2>5. QED
    BY <2>1, <2>2, <2>3, <2>4 DEF IInv
<1>6. QED
  BY <1>1, <1>2, <1>3, <1>4, <1>5

\* The handler leaves a session.
LEMMA LeaveStep ==
  ASSUME IInv, GnbEndsInSession \/ Reconnect
  PROVE  IInv'
<1>1. CASE GnbEndsInSession
  <2>1. TypeOK'
    <3>1. cur \in Slots
      BY <1>1 DEF GnbEndsInSession, IInv, TypeOK, SessionInv
    <3>2. link' \in [Slots -> {"up", "dead", "closed"}]
      BY <1>1, <3>1 DEF GnbEndsInSession, Leave, IInv, TypeOK
    <3>3. cur' = None /\ errCh' = FALSE /\ lead' = 0
      BY <1>1 DEF GnbEndsInSession, Leave
    <3>4. lead' \in 0..MaxFrames
      BY <3>3
    <3>5. QED
      BY <1>1, <3>2, <3>3, <3>4 DEF GnbEndsInSession, IInv, TypeOK
  <2>2. SessionInv'
    BY <1>1 DEF GnbEndsInSession, Leave, IInv, TypeOK, SessionInv
  <2>3. OrderInv'
    BY <1>1 DEF GnbEndsInSession, Leave, IInv, OrderInv
  <2>4. SetupInv' /\ SetupLeads'
    BY <1>1 DEF GnbEndsInSession, Leave, IInv, SetupInv, SetupLeads
  <2>5. QED
    BY <2>1, <2>2, <2>3, <2>4 DEF IInv
<1>2. CASE Reconnect
  <2>1. TypeOK'
    <3>1. cur \in Slots
      BY <1>2 DEF Reconnect, IInv, TypeOK, SessionInv
    <3>2. link' \in [Slots -> {"up", "dead", "closed"}]
      BY <1>2, <3>1 DEF Reconnect, Leave, IInv, TypeOK
    <3>3. cur' = None /\ errCh' = FALSE /\ lead' = 0
      BY <1>2 DEF Reconnect, Leave
    <3>4. lead' \in 0..MaxFrames
      BY <3>3
    <3>5. QED
      BY <1>2, <3>2, <3>3, <3>4 DEF Reconnect, IInv, TypeOK
  <2>2. SessionInv'
    BY <1>2 DEF Reconnect, Leave, IInv, TypeOK, SessionInv
  <2>3. OrderInv'
    BY <1>2 DEF Reconnect, Leave, IInv, OrderInv
  <2>4. SetupInv' /\ SetupLeads'
    BY <1>2 DEF Reconnect, Leave, IInv, SetupInv, SetupLeads
  <2>5. QED
    BY <2>1, <2>2, <2>3, <2>4 DEF IInv
<1>3. QED
  BY <1>1, <1>2

\* The forwarders of old sessions and of the current one.
LEMMA ForwardStep ==
  ASSUME IInv, NEW s \in Slots, Take(s) \/ WriteOk(s) \/ WriteFails(s) \/ Cancelled(s)
  PROVE  IInv'
<1>1. CASE Take(s)
  <2>1. TypeOK'
    BY <1>1 DEF Take, IInv, TypeOK
  <2>2. SessionInv'
    BY <1>1 DEF Take, IInv, SessionInv
  <2>3. OrderInv'
    BY <1>1 DEF Take, IInv, TypeOK, OrderInv
  <2>4. SetupInv'
    <3>1. /\ fwd[s] = "waiting" /\ fwd \in [Slots -> {"waiting", "writing", "ended"}]
          /\ fwd' = [fwd EXCEPT ![s] = "writing"]
          /\ held \in [Slots -> 0..MaxFrames] /\ held' = [held EXCEPT ![s] = frames[1]]
          /\ frames # <<>> /\ (pc \in {"open", "setup", "start"} => fwd[cur] = "ended")
      BY <1>1 DEF Take, IInv, TypeOK, SessionInv
    <3>2. /\ pc' = pc /\ replay' = replay /\ setup' = setup /\ setupCh' = setupCh
          /\ read' = read /\ link' = link /\ lead' = lead /\ cur' = cur
      BY <1>1 DEF Take
    <3>3. ~replay /\ pc # "done" => s = cur /\ pc = "run"
      <4>1. ~replay /\ pc # "done" => s = cur
        BY <3>1 DEF IInv, SetupInv
      <4>2. s = cur => pc \in {"open", "setup", "start", "run"}
        BY SlotsAssumption DEF IInv, TypeOK, SessionInv
      <4>3. QED
        BY <3>1, <4>1, <4>2
    <3>4. SetupInv
      BY DEF IInv
    <3>5. replay \/ pc = "done" => SetupInv'
      BY <3>2, <3>4 DEF SetupInv
    <3>6. ASSUME ~replay, pc # "done" PROVE SetupInv'
      <4>1. /\ s = cur /\ pc = "run" /\ fwd[cur] # "writing"
            /\ \A t \in Slots : t # cur => fwd'[t] = "ended"
        BY <3>1, <3>3, <3>4, <3>6 DEF SetupInv
      <4>2. link[cur] = "up" /\ lead = 0 => held'[cur] = 1
        <5>1. held[cur] = 0
          BY <4>1 DEF IInv, OrderInv
        <5>2. link[cur] = "up" /\ lead = 0 => frames[1] = 1
          BY <3>1, <3>4, <3>6, <4>1, <5>1 DEF SetupInv, QueueUntouched
        <5>3. QED
          BY <3>1, <4>1, <5>2
      <4>3. QED
        BY <3>2, <3>4, <4>1, <4>2 DEF SetupInv
    <3>7. QED
      BY <3>5, <3>6
  <2>5. SetupLeads'
    BY <1>1 DEF Take, IInv, TypeOK, SessionInv, OrderInv, SetupInv, SetupLeads
  <2>6. QED
    BY <2>1, <2>2, <2>3, <2>4, <2>5 DEF IInv
<1>2. CASE WriteOk(s)
  <2>1. TypeOK'
    BY <1>2 DEF WriteOk, IInv, TypeOK
  <2>2. SessionInv'
    BY <1>2 DEF WriteOk, IInv, TypeOK, SessionInv
  <2>3. OrderInv'
    BY <1>2 DEF WriteOk, IInv, TypeOK, SessionInv, OrderInv
  <2>4. SetupInv' /\ SetupLeads'
    BY <1>2 DEF WriteOk, IInv, TypeOK, SessionInv, SetupInv, SetupLeads
  <2>5. QED
    BY <2>1, <2>2, <2>3, <2>4 DEF IInv
<1>3. CASE WriteFails(s)
  <2>1. TypeOK'
    BY <1>3 DEF WriteFails, Returned, FwdEnds, IInv, TypeOK
  <2>2. SessionInv'
    BY <1>3 DEF WriteFails, Returned, FwdEnds, IInv, TypeOK, SessionInv
  <2>3. OrderInv'
    BY <1>3 DEF WriteFails, FwdEnds, IInv, TypeOK, OrderInv
  <2>4. SetupInv' /\ SetupLeads'
    BY <1>3 DEF WriteFails, FwdEnds, IInv, SetupInv, QueueUntouched, SetupLeads
  <2>5. QED
    BY <2>1, <2>2, <2>3, <2>4 DEF IInv
<1>4. CASE Cancelled(s)
  <2>1. TypeOK'
    BY <1>4 DEF Cancelled, Returned, FwdEnds, IInv, TypeOK
  <2>2. SessionInv'
    BY <1>4 DEF Cancelled, Returned, FwdEnds, IInv, TypeOK, SessionInv
  <2>3. OrderInv'
    BY <1>4 DEF Cancelled, FwdEnds, IInv, OrderInv
  <2>4. SetupInv' /\ SetupLeads'
    BY <1>4 DEF Cancelled, FwdEnds, IInv, SetupInv, QueueUntouched, SetupLeads
  <2>5. QED
    BY <2>1, <2>2, <2>3, <2>4 DEF IInv
<1>5. QED
  BY <1>1, <1>2, <1>3, <1>4

\* The other direction, and a session that dies.
LEMMA DownStep ==
  ASSUME IInv, NEW s \in Slots, DownRead(s) \/ DownWrite(s) \/ DownEnds(s) \/ LinkDies(s)
  PROVE  IInv'
<1>1. CASE DownRead(s)
  <2>1. TypeOK'
    BY <1>1 DEF DownRead, IInv, TypeOK
  <2>2. SessionInv'
    BY <1>1 DEF DownRead, IInv, SessionInv
  <2>3. OrderInv'
    BY <1>1 DEF DownRead, IInv, OrderInv
  <2>4. SetupInv' /\ SetupLeads'
    BY <1>1 DEF DownRead, IInv, SetupInv, QueueUntouched, SetupLeads
  <2>5. QED
    BY <2>1, <2>2, <2>3, <2>4 DEF IInv
<1>2. CASE DownWrite(s)
  <2>1. TypeOK'
    BY <1>2 DEF DownWrite, IInv, TypeOK
  <2>2. SessionInv'
    BY <1>2 DEF DownWrite, IInv, SessionInv
  <2>3. OrderInv'
    BY <1>2 DEF DownWrite, IInv, OrderInv
  <2>4. SetupInv' /\ SetupLeads'
    BY <1>2 DEF DownWrite, IInv, SetupInv, QueueUntouched, SetupLeads
  <2>5. QED
    BY <2>1, <2>2, <2>3, <2>4 DEF IInv
<1>3. CASE DownEnds(s)
  <2>1. TypeOK'
    BY <1>3 DEF DownEnds, Returned, IInv, TypeOK
  <2>2. SessionInv'
    BY <1>3 DEF DownEnds, Returned, IInv, TypeOK, SessionInv
  <2>3. OrderInv'
    BY <1>3 DEF DownEnds, IInv, OrderInv
  <2>4. SetupInv' /\ SetupLeads'
    BY <1>3 DEF DownEnds, IInv, SetupInv, QueueUntouched, SetupLeads
  <2>5. QED
    BY <2>1, <2>2, <2>3, <2>4 DEF IInv
<1>4. CASE LinkDies(s)
  <2>1. TypeOK'
    BY <1>4 DEF LinkDies, IInv, TypeOK
  <2>2. SessionInv'
    BY <1>4 DEF LinkDies, IInv, SessionInv
  <2>3. OrderInv'
    BY <1>4 DEF LinkDies, IInv, OrderInv
  <2>4. SetupInv' /\ SetupLeads'
    BY <1>4 DEF LinkDies, IInv, SetupInv, QueueUntouched, SetupLeads
  <2>5. QED
    BY <2>1, <2>2, <2>3, <2>4 DEF IInv
<1>5. QED
  BY <1>1, <1>2, <1>3, <1>4

-----------------------------------------------------------------------------
LEMMA StepKeeps == ASSUME IInv, [Next]_vars PROVE IInv'
<1>1. CASE UNCHANGED vars
  BY <1>1 DEF vars, IInv, TypeOK, SessionInv, OrderInv, SetupInv, QueueUntouched,
              SetupLeads
<1>2. CASE Next
  BY <1>2, EnvironmentStep, ReaderStep, DialStep, OpenStep, LeaveStep, ForwardStep,
     DownStep DEF Next, Handler, Forward
<1>3. QED
  BY <1>1, <1>2

\* The inductive invariant holds in every reachable state.
THEOREM Invariance == Spec => []IInv
BY InitIInv, StepKeeps, PTL DEF Spec

\* Types; in particular the queue is never longer than its capacity.
THEOREM TypeCorrect == Spec => []TypeOK
BY Invariance, PTL DEF IInv

\* Every session begins with the NG Setup Request.
THEOREM SetupFirst == Spec => []SetupLeads
BY Invariance, PTL DEF IInv

\* No frame of the queue reaches the middleware twice or after a later one.
THEOREM InOrder == Spec => UplinkInOrder
<1> DEFINE Ordered ==
      \A s \in Slots : WriteOk(s) /\ link[s] = "up" => held[s] > last
<1>1. IInv => Ordered
  BY DEF IInv, SessionInv, OrderInv, WriteOk
<1>2. IInv /\ [Next]_vars => [Ordered]_vars
  BY <1>1
<1>3. QED
  BY <1>2, Invariance, PTL DEF Spec, UplinkInOrder

\* A session is given up only for a failure of its own.
THEOREM SessionKept == Spec => HealthySessionKept
<1> DEFINE Kept == Reconnect => link[cur] = "dead" \/ gnb = "closed"
<1>1. IInv => Kept
  BY DEF IInv, SessionInv, Reconnect
<1>2. IInv /\ [Next]_vars => [Kept]_vars
  BY <1>1
<1>3. QED
  BY <1>2, Invariance, PTL DEF Spec, HealthySessionKept

-----------------------------------------------------------------------------
(* GnbAssociation *)

\* What the handler and the reader know is true of the gNB: an error was read
\* from an association that is closed, and a setup was sent.
GnbKnown ==
  /\ reader = "ended" \/ gnbErr => gnb = "closed"
  /\ setupCh <= read /\ setup <= read

\* It is kept, as the gNB does not come back and frames are not unread.
LEMMA GnbKnownKept == ASSUME IInv, GnbKnown, [Next]_vars PROVE GnbKnown'
<1> USE DEF IInv, TypeOK, GnbKnown
<1>1. CASE GnbCloses
  BY <1>1 DEF GnbCloses
<1>2. CASE Read
  BY <1>2 DEF Read
<1>3. CASE ReadEnds
  BY <1>3 DEF ReadEnds
<1>4. CASE SetupArrives
  BY <1>4 DEF SetupArrives
<1>5. CASE GnbEndsInBackoff \/ GnbEndsInSession
  BY <1>5 DEF GnbEndsInBackoff, GnbEndsInSession
<1>6. CASE UNCHANGED <<gnbSide, setup>>
  BY <1>6
<1>7. CASE Push
  BY <1>7 DEF Push
<1>8. Next => \/ GnbCloses \/ Read \/ Push \/ ReadEnds \/ SetupArrives
              \/ GnbEndsInBackoff \/ GnbEndsInSession \/ UNCHANGED <<gnbSide, setup>>
  BY DEF Next, Handler, Forward, VipMoves, DialOk, DialFails, BackoffEnds, OpenOk,
         OpenFails, Start, ReplayFails, Reconnect, LinkDies, Take, WriteOk, WriteFails,
         Cancelled, FwdEnds, DownRead, DownWrite, DownEnds
<1>9. QED
  BY <1>1, <1>2, <1>3, <1>4, <1>5, <1>6, <1>7, <1>8 DEF vars

\* Both invariants together.
THEOREM Knowledge == Spec => [](IInv /\ GnbKnown)
<1>1. Init => GnbKnown
  BY DEF Init, GnbKnown
<1>2. QED
  BY <1>1, GnbKnownKept, Invariance, PTL DEF Spec

\* The actions of the sessions that end it, begin it or pass on a frame are those
\* of the promise; whatever is left of old sessions does nothing that shows.
LEMMA SessionSteps ==
  ASSUME IInv, GnbKnown,
         DialOk \/ OpenFails \/ GnbEndsInSession \/ Start \/ ReplayFails \/ Reconnect
  PROVE  [Promise!Next]_(Promise!vars)
<1> USE DEF IInv, TypeOK, SessionInv, GnbKnown
<1>1. CASE DialOk
  BY <1>1 DEF DialOk, Promise!Next, Promise!Begins
<1>2. CASE OpenFails \/ ReplayFails
  BY <1>2 DEF OpenFails, ReplayFails, Leave, Promise!Next, Promise!GivenUp, Promise!Ended
<1>3. CASE Reconnect
  BY <1>3 DEF Reconnect, Leave, Promise!Next, Promise!GivenUp, Promise!Ended
<1>4. CASE GnbEndsInSession
  BY <1>4 DEF GnbEndsInSession, Leave, Promise!Next, Promise!Over, Promise!Ended
<1>5. CASE Start
  <2>1. CASE replay /\ link[cur] = "up"
    <3>1. setup = 1 /\ read > 0 /\ lead = 0 /\ cur # None
      BY <1>5, <2>1 DEF Start, SetupInv
    <3>2. QED
      BY <1>5, <2>1, <3>1 DEF Start, Promise!Next, Promise!Repeats
  <2>2. CASE ~(replay /\ link[cur] = "up")
    BY <1>5, <2>2 DEF Start, Promise!vars
  <2>3. QED
    BY <2>1, <2>2
<1>6. QED
  BY <1>1, <1>2, <1>3, <1>4, <1>5

\* A frame written to a session that is alive is heard; nothing else of a
\* forwarder shows.
LEMMA FrameSteps ==
  ASSUME IInv, NEW s \in Slots, Forward(s) \/ LinkDies(s) \/ DownRead(s) \/ DownWrite(s)
                                \/ DownEnds(s)
  PROVE  [Promise!Next]_(Promise!vars)
<1> USE DEF IInv, SessionInv
<1>1. CASE WriteOk(s) /\ link[s] = "up"
  <2>1. s = cur /\ cur # None
    BY <1>1
  <2>2. held[s] \in (last + 1)..read
    BY <1>1, <2>1 DEF WriteOk, OrderInv, TypeOK
  <2>3. lead = 0 => held[s] = 1
    BY <1>1, <2>1 DEF WriteOk, SetupInv, TypeOK
  <2>4. QED
    BY <1>1, <2>1, <2>2, <2>3 DEF WriteOk, Promise!Next, Promise!Hears
<1>2. CASE WriteOk(s) /\ link[s] # "up"
  BY <1>2 DEF WriteOk, Promise!vars
<1>3. CASE Take(s)
  BY <1>3 DEF Take, Promise!vars
<1>4. CASE WriteFails(s) \/ Cancelled(s)
  BY <1>4 DEF WriteFails, Cancelled, FwdEnds, Promise!vars
<1>5. CASE LinkDies(s)
  BY <1>5 DEF LinkDies, TypeOK, Promise!Next, Promise!Breaks
<1>6. CASE DownRead(s) \/ DownWrite(s) \/ DownEnds(s)
  BY <1>6 DEF DownRead, DownWrite, DownEnds, Promise!vars
<1>7. QED
  BY <1>1, <1>2, <1>3, <1>4, <1>5, <1>6 DEF Forward

\* The proxy keeps the promise of GnbAssociation, for any number of sessions
\* that overlap, of frames and of deaths.
THEOREM PromiseKept == Spec => KeepsPromise
<1>1. Init => Promise!Init
  BY DEF Init, Promise!Init
<1>2. IInv /\ GnbKnown /\ [Next]_vars => [Promise!Next]_(Promise!vars)
  <2> SUFFICES ASSUME IInv, GnbKnown, [Next]_vars
               PROVE  [Promise!Next]_(Promise!vars)
    OBVIOUS
  <2>1. CASE UNCHANGED vars
    BY <2>1 DEF vars, Promise!vars
  <2>2. CASE GnbCloses \/ Read
    BY <2>2 DEF GnbCloses, Read, Promise!Next, Promise!Closes, Promise!Sends
  <2>3. CASE VipMoves \/ Push \/ ReadEnds
    BY <2>3 DEF VipMoves, Push, ReadEnds, Promise!vars
  <2>4. CASE DialFails \/ BackoffEnds \/ OpenOk \/ SetupArrives
    BY <2>4 DEF DialFails, BackoffEnds, OpenOk, SetupArrives, Promise!vars
  <2>5. CASE GnbEndsInBackoff
    BY <2>5 DEF GnbEndsInBackoff, IInv, SessionInv, GnbKnown, Promise!Next,
                Promise!Over, Promise!Ended
  <2>6. CASE DialOk \/ OpenFails \/ GnbEndsInSession \/ Start \/ ReplayFails \/ Reconnect
    BY <2>6, SessionSteps
  <2>7. CASE \E s \in Slots : \/ LinkDies(s) \/ Forward(s) \/ DownRead(s) \/ DownWrite(s)
                              \/ DownEnds(s)
    BY <2>7, FrameSteps
  <2>8. QED
    BY <2>1, <2>2, <2>3, <2>4, <2>5, <2>6, <2>7 DEF Next, Handler
<1>3. QED
  BY <1>1, <1>2, Knowledge, PTL DEF Spec, KeepsPromise, Promise!Spec

-----------------------------------------------------------------------------
(* What GnbEndNoticed and QueueServed rest on besides fairness *)

\* Nobody waits for what has been lost: the end of the association is in its
\* channel until the handler takes it, a session that runs has both forwarders
\* or an error to be read, and who waits for the setup finds it once the gNB has
\* sent it.
NothingLost ==
  /\ reader = "ended" => gnbErr \/ pc = "done"
  /\ pc = "run" => errCh \/ (fwd[cur] # "ended" /\ down[cur] # "ended")
  /\ pc = "setup" => setupCh # 0 \/ read = 0

LEMMA NothingGetsLost == ASSUME IInv, NothingLost, [Next]_vars PROVE NothingLost'
<1> SUFFICES (reader = "ended" => gnbErr \/ pc = "done")'
             /\ (pc = "run" => errCh \/ (fwd[cur] # "ended" /\ down[cur] # "ended"))'
  <2>1. IInv'
    BY StepKeeps
  <2>2. (pc = "setup" => setupCh # 0 \/ read = 0)'
    BY <2>1 DEF IInv, SetupInv
  <2>3. QED
    BY <2>2 DEF NothingLost
<1> USE DEF NothingLost
<1>1. CASE UNCHANGED vars
  BY <1>1 DEF vars
<1>2. CASE GnbCloses \/ VipMoves \/ Read \/ Push \/ ReadEnds
  BY <1>2 DEF GnbCloses, VipMoves, Read, Push, ReadEnds
<1>3. CASE DialOk \/ DialFails \/ BackoffEnds \/ GnbEndsInBackoff \/ OpenOk
  BY <1>3 DEF DialOk, DialFails, BackoffEnds, GnbEndsInBackoff, OpenOk
<1>4. CASE OpenFails \/ SetupArrives \/ ReplayFails \/ Reconnect \/ GnbEndsInSession
  BY <1>4 DEF OpenFails, SetupArrives, ReplayFails, Reconnect, GnbEndsInSession, Leave
<1>5. CASE Start
  BY <1>5 DEF Start, Forwarders, IInv, TypeOK, SessionInv
<1>6. ASSUME NEW s \in Slots, Take(s) \/ WriteOk(s)
      PROVE  (reader = "ended" => gnbErr \/ pc = "done")'
             /\ (pc = "run" => errCh \/ (fwd[cur] # "ended" /\ down[cur] # "ended"))'
  BY <1>6 DEF Take, WriteOk, IInv, TypeOK, SessionInv
<1>7. ASSUME NEW s \in Slots, WriteFails(s) \/ Cancelled(s)
      PROVE  (reader = "ended" => gnbErr \/ pc = "done")'
             /\ (pc = "run" => errCh \/ (fwd[cur] # "ended" /\ down[cur] # "ended"))'
  <2>1. /\ UNCHANGED <<reader, gnbErr, pc, cur, down>>
        /\ fwd' = [fwd EXCEPT ![s] = "ended"] /\ errCh' = (errCh \/ s = cur)
    BY <1>7 DEF WriteFails, Cancelled, FwdEnds, Returned
  <2>2. fwd \in [Slots -> {"waiting", "writing", "ended"}] /\ errCh \in BOOLEAN
    BY DEF IInv, TypeOK
  <2>3. s # cur => fwd'[cur] = fwd[cur]
    BY <2>1, <2>2
  <2>4. QED
    BY <2>1, <2>2, <2>3
<1>8. ASSUME NEW s \in Slots, LinkDies(s) \/ DownRead(s) \/ DownWrite(s) \/ DownEnds(s)
      PROVE  (reader = "ended" => gnbErr \/ pc = "done")'
             /\ (pc = "run" => errCh \/ (fwd[cur] # "ended" /\ down[cur] # "ended"))'
  <2>1. CASE LinkDies(s)
    BY <2>1 DEF LinkDies
  <2>2. CASE DownRead(s) \/ DownWrite(s)
    BY <2>2 DEF DownRead, DownWrite, IInv, TypeOK, SessionInv
  <2>3. CASE DownEnds(s)
    <3>1. /\ UNCHANGED <<reader, gnbErr, pc, cur, fwd>>
          /\ down' = [down EXCEPT ![s] = "ended"] /\ errCh' = (errCh \/ s = cur)
      BY <2>3 DEF DownEnds, Returned
    <3>2. down \in [Slots -> {"reading", "writing", "ended"}] /\ errCh \in BOOLEAN
      BY DEF IInv, TypeOK
    <3>3. s # cur => down'[cur] = down[cur]
      BY <3>1, <3>2
    <3>4. QED
      BY <3>1, <3>2, <3>3
  <2>4. QED
    BY <1>8, <2>1, <2>2, <2>3
<1>9. QED
  BY <1>1, <1>2, <1>3, <1>4, <1>5, <1>6, <1>7, <1>8 DEF Next, Handler, Forward

\* No error, no end and no setup is lost between goroutines, however many sessions
\* overlap: what remains for liveness is that goroutines run.
THEOREM NoSignalLost == Spec => []NothingLost
<1>1. Init => NothingLost
  BY DEF Init, NothingLost
<1>2. QED
  BY <1>1, NothingGetsLost, Invariance, PTL DEF Spec

-----------------------------------------------------------------------------
(* What is lost, and where *)

\* A frame the proxy has read and still has: in the queue, taken by a forwarder,
\* or about to be queued.
Waits(f) ==
  \/ \E a \in 1..Len(frames) : frames[a] = f
  \/ \E s \in Slots : held[s] = f
  \/ reader = "pushing" /\ read = f

Dropped(f) == Waits(f) /\ ~Waits(f)' /\ last' # f

\* Queue and hand of the reader aside, the newest frame there is.
Queued == IF reader = "pushing" THEN read - 1 ELSE read

\* The first session that runs is alive, or is still to come.
FirstSession == ~replay /\ pc # "done" /\ (pc = "run" => link[cur] = "up")

InHand == cur # None /\ fwd[cur] = "writing"

\* The queue is what the gNB has sent, without a gap, up to its newest frame; and
\* until a session has failed, so is what the middleware has heard before it.
InFull ==
  /\ \A a \in 1..Len(frames) : frames[a] + Len(frames) = Queued + a
  /\ FirstSession =>
       IF InHand THEN held[cur] = last + 1 /\ last + 1 + Len(frames) = Queued
                 ELSE last + Len(frames) = Queued

LEMMA QueuedNumber ==
  ASSUME IInv
  PROVE  /\ Queued \in Nat /\ Len(frames) \in Nat /\ last \in Nat /\ read \in Nat
         /\ \A a \in 1..Len(frames) : frames[a] \in Nat
BY DEF IInv, TypeOK, OrderInv, Queued

\* Steps that leave the queue and the forwarders' hands alone.
LEMMA FullWithoutFrames ==
  ASSUME IInv, InFull, UNCHANGED <<frames, last, reader, read>>,
         FirstSession' => FirstSession,
         FirstSession' => (InHand' <=> InHand) /\ (InHand => held'[cur'] = held[cur])
  PROVE  InFull'
<1>1. Queued' = Queued
  BY DEF Queued
<1>2. QED
  BY <1>1 DEF InFull

LEMMA FullReader ==
  ASSUME IInv, InFull, Read \/ Push \/ ReadEnds
  PROVE  InFull'
<1>0. /\ Queued \in Nat /\ Len(frames) \in Nat /\ last \in Nat /\ read \in Nat
      /\ \A a \in 1..Len(frames) : frames[a] \in Nat
  BY QueuedNumber
<1> USE <1>0
<1>1. CASE Read \/ ReadEnds
  <2>1. /\ Queued' = Queued /\ UNCHANGED <<frames, last>>
        /\ FirstSession' = FirstSession /\ InHand' = InHand /\ UNCHANGED <<held, cur>>
    BY <1>1 DEF Read, ReadEnds, Queued, FirstSession, InHand
  <2>2. QED
    BY <2>1 DEF InFull
<1>2. CASE Push
  <2>1. /\ Queued' = Queued + 1 /\ Queued + 1 = read /\ last' = last
        /\ FirstSession' = FirstSession /\ InHand' = InHand /\ UNCHANGED <<held, cur>>
    BY <1>2 DEF Push, Queued, FirstSession, InHand
  <2>2. /\ Len(frames') = Len(frames) + 1 /\ frames'[Len(frames) + 1] = read
        /\ \A a \in 1..Len(frames) : frames'[a] = frames[a]
    BY <1>2 DEF Push, IInv, TypeOK
  <2>3. \A a \in 1..Len(frames') : frames'[a] + Len(frames') = Queued' + a
    <3>1. SUFFICES ASSUME NEW a \in 1..Len(frames')
                   PROVE  frames'[a] + Len(frames') = Queued' + a
      OBVIOUS
    <3>2. CASE a \in 1..Len(frames)
      <4>1. frames[a] + Len(frames) = Queued + a /\ frames'[a] = frames[a]
        BY <2>2, <3>2 DEF InFull
      <4>2. frames'[a] + (Len(frames) + 1) = (Queued + 1) + a
        <5> DEFINE x == frames[a]
                   n == Len(frames)
        <5>1. x \in Nat /\ n \in Nat /\ Queued \in Nat /\ a \in Nat
          BY <1>0, <3>2
        <5>2. x + n = Queued + a /\ frames'[a] = x
          BY <4>1
        <5> HIDE DEF x, n
        <5>3. x + (n + 1) = (Queued + 1) + a
          BY <5>1, <5>2
        <5>4. QED
          BY <5>2, <5>3 DEF n
      <4>3. QED
        BY <2>1, <2>2, <4>2
    <3>3. CASE a \notin 1..Len(frames)
      <4>1. a = Len(frames) + 1 /\ frames'[a] = read
        BY <2>2, <3>3
      <4>2. QED
        BY <2>1, <2>2, <4>1
    <3>4. QED
      BY <3>2, <3>3
  <2>4. FirstSession =>
          IF InHand THEN held[cur] = last + 1 /\ last + 1 + Len(frames') = Queued'
                    ELSE last + Len(frames') = Queued'
    BY <2>1, <2>2 DEF InFull
  <2>5. QED
    BY <2>1, <2>3, <2>4 DEF InFull
<1>3. QED
  BY <1>1, <1>2

LEMMA FullForwarder ==
  ASSUME IInv, InFull, NEW s \in Slots, Forward(s)
  PROVE  InFull'
<1>0. /\ Queued \in Nat /\ Len(frames) \in Nat /\ last \in Nat /\ read \in Nat
      /\ \A a \in 1..Len(frames) : frames[a] \in Nat
  BY QueuedNumber
<1>1. Queued' = Queued
  BY DEF Forward, Take, WriteOk, WriteFails, Cancelled, FwdEnds, Queued
<1>2. FirstSession' = FirstSession /\ cur' = cur
  BY DEF Forward, Take, WriteOk, WriteFails, Cancelled, FwdEnds, FirstSession
<1>3. FirstSession => s = cur /\ pc = "run" /\ link[s] = "up"
  BY DEF Forward, Take, WriteOk, WriteFails, Cancelled, FirstSession, IInv, TypeOK,
         SessionInv, SetupInv
<1>4. CASE Take(s)
  <2>1. frames # <<>> /\ frames' = Tail(frames) /\ last' = last
    BY <1>4 DEF Take
  <2>2. /\ Len(frames) >= 1 /\ Len(frames') = Len(frames) - 1
        /\ \A a \in 1..Len(frames') : frames'[a] = frames[a + 1]
    BY <2>1 DEF IInv, TypeOK
  <2>3. \A a \in 1..Len(frames') : frames'[a] + Len(frames') = Queued' + a
    <3>1. \A a \in 1..Len(frames') : a + 1 \in 1..Len(frames)
      BY <1>0, <2>2
    <3>2. QED
      <4>1. \A a \in 1..Len(frames) : frames[a] + Len(frames) = Queued + a
        BY DEF InFull
      <4>2. SUFFICES ASSUME NEW a \in 1..Len(frames')
                     PROVE  frames'[a] + Len(frames') = Queued' + a
        OBVIOUS
      <4>3. frames[a + 1] + Len(frames) = Queued + (a + 1) /\ frames[a + 1] \in Nat
        BY <1>0, <3>1, <4>1
      <4>4. frames'[a] = frames[a + 1] /\ Len(frames') = Len(frames) - 1 /\ a \in Nat
        BY <1>0, <2>2
      <4>5. frames[a + 1] + (Len(frames) - 1) = Queued + a
        <5> DEFINE x == frames[a + 1]
                   n == Len(frames)
        <5>1. x \in Nat /\ n \in Nat /\ Queued \in Nat /\ a \in Nat
          BY <1>0, <4>3, <4>4
        <5>2. x + n = Queued + (a + 1)
          BY <4>3
        <5> HIDE DEF x, n
        <5>3. x + (n - 1) = Queued + a
          BY <5>1, <5>2
        <5>4. QED
          BY <5>3 DEF x, n
      <4>6. QED
        BY <1>1, <4>4, <4>5
  <2>4. FirstSession => InHand' /\ held'[cur'] = last' + 1
                        /\ last' + 1 + Len(frames') = Queued'
    <3>1. SUFFICES ASSUME FirstSession
                   PROVE  /\ InHand' /\ held'[cur'] = last' + 1
                          /\ last' + 1 + Len(frames') = Queued'
      OBVIOUS
    <3>2. ~InHand /\ InHand' /\ held'[cur'] = frames[1]
      BY <1>2, <1>3, <1>4, <3>1 DEF Take, InHand, IInv, TypeOK
    <3>3. last + Len(frames) = Queued /\ frames[1] + Len(frames) = Queued + 1
      BY <1>0, <2>2, <3>1, <3>2 DEF InFull
    <3>4. QED
      BY <1>0, <1>1, <2>1, <2>2, <3>2, <3>3
  <2>5. QED
    BY <1>2, <2>3, <2>4 DEF InFull
<1>5. CASE WriteOk(s)
  <2>1. frames' = frames
    BY <1>5 DEF WriteOk
  <2>2. FirstSession => ~InHand' /\ last' + Len(frames') = Queued'
    <3>1. SUFFICES ASSUME FirstSession
                   PROVE  ~InHand' /\ last' + Len(frames') = Queued'
      OBVIOUS
    <3>2. InHand /\ ~InHand' /\ last' = held[cur]
      BY <1>2, <1>3, <1>5, <3>1 DEF WriteOk, InHand, IInv, TypeOK
    <3>3. held[cur] = last + 1 /\ last + 1 + Len(frames) = Queued
      BY <3>1, <3>2 DEF InFull
    <3>4. QED
      BY <1>0, <1>1, <2>1, <3>2, <3>3
  <2>3. QED
    BY <1>1, <1>2, <2>1, <2>2 DEF InFull
<1>6. CASE WriteFails(s) \/ Cancelled(s)
  <2>1. ~FirstSession
    BY <1>3, <1>6 DEF WriteFails, Cancelled
  <2>2. frames' = frames
    BY <1>6 DEF WriteFails, Cancelled
  <2>3. QED
    BY <1>1, <1>2, <2>1, <2>2 DEF InFull
<1>7. QED
  BY <1>4, <1>5, <1>6 DEF Forward

LEMMA FullHandler ==
  ASSUME IInv, InFull, Handler
  PROVE  InFull'
<1>1. UNCHANGED <<frames, last, reader, read>>
  BY DEF Handler, DialOk, DialFails, BackoffEnds, GnbEndsInBackoff, OpenOk, OpenFails,
         SetupArrives, GnbEndsInSession, Start, ReplayFails, Reconnect
<1>2. FirstSession' => FirstSession
  BY DEF Handler, DialOk, DialFails, BackoffEnds, GnbEndsInBackoff, OpenOk, OpenFails,
         SetupArrives, GnbEndsInSession, Start, ReplayFails, Reconnect, FirstSession
<1>3. FirstSession /\ pc # "run" => ~InHand
  BY DEF FirstSession, InHand, IInv, TypeOK, SessionInv
<1>4. FirstSession' => ~InHand /\ ~InHand'
  BY <1>2, <1>3 DEF Handler, DialOk, DialFails, BackoffEnds, GnbEndsInBackoff, OpenOk,
     OpenFails, SetupArrives, GnbEndsInSession, Start, Forwarders, ReplayFails,
     Reconnect, Leave, FirstSession, InHand, IInv, TypeOK, SessionInv
<1>5. QED
  BY <1>1, <1>2, <1>4, FullWithoutFrames

LEMMA StaysFull == ASSUME IInv, InFull, [Next]_vars PROVE InFull'
<1>1. CASE UNCHANGED vars
  BY <1>1, FullWithoutFrames DEF vars, FirstSession, InHand
<1>2. CASE GnbCloses \/ VipMoves
  BY <1>2, FullWithoutFrames DEF GnbCloses, VipMoves, FirstSession, InHand
<1>3. ASSUME NEW s \in Slots, LinkDies(s) \/ DownRead(s) \/ DownWrite(s) \/ DownEnds(s)
      PROVE  InFull'
  <2>1. /\ UNCHANGED <<frames, last, reader, read, held, cur, fwd, pc, replay>>
        /\ \A x \in Slots : link'[x] = "up" => link[x] = "up"
    BY <1>3 DEF LinkDies, DownRead, DownWrite, DownEnds, IInv, TypeOK
  <2>2. pc = "run" => cur \in Slots
    BY DEF IInv, TypeOK, SessionInv
  <2>3. QED
    BY <2>1, <2>2, FullWithoutFrames DEF FirstSession, InHand
<1>4. QED
  BY <1>1, <1>2, <1>3, FullReader, FullForwarder, FullHandler DEF Next

\* As long as no session that ran has failed, nothing is lost, whatever the queue
\* and the reader do and however often dialling fails: the middleware has heard
\* all that the gNB has sent but for what the proxy still holds.
THEOREM HeardInFull == Spec => []InFull
<1>1. Init => InFull
  BY DEF Init, InFull, FirstSession, InHand, Queued
<1>2. QED
  BY <1>1, StaysFull, Invariance, PTL DEF Spec

\* A frame that has been read is lost only in the hand of a forwarder whose own
\* session has died or been given up, in any session: "Messages in flight are not
\* transactionally replayed" (the chart's README).
THEOREM LostInFlight ==
  Spec => [][\A f \in 1..MaxFrames :
               Dropped(f) => \E s \in Slots : held[s] = f /\ link[s] # "up"]_vars
<1> DEFINE InFlight ==
      \A f \in 1..MaxFrames : Dropped(f) => \E s \in Slots : held[s] = f /\ link[s] # "up"
<1>1. IInv /\ [Next]_vars => [InFlight]_vars
  <2> SUFFICES ASSUME IInv, Next, NEW f \in 1..MaxFrames, Dropped(f)
               PROVE  \E s \in Slots : held[s] = f /\ link[s] # "up"
    OBVIOUS
  <2>1. CASE Read \/ ReadEnds \/ GnbCloses \/ VipMoves
    BY <2>1 DEF Read, ReadEnds, GnbCloses, VipMoves, Dropped, Waits
  <2>2. CASE Push
    <3>1. /\ frames' = Append(frames, read) /\ frames \in Seq(1..MaxFrames)
          /\ UNCHANGED <<held, read>>
      BY <2>2 DEF Push, IInv, TypeOK
    <3>2. /\ Len(frames) \in Nat /\ Len(frames') = Len(frames) + 1
          /\ frames'[Len(frames) + 1] = read
          /\ \A a \in 1..Len(frames) : frames'[a] = frames[a]
      BY <3>1
    <3>3. 1..Len(frames) \subseteq 1..Len(frames') /\ Len(frames) + 1 \in 1..Len(frames')
      BY <3>2
    <3>4. (\E a \in 1..Len(frames) : frames[a] = f)
            => \E a \in 1..Len(frames') : frames'[a] = f
      BY <3>2, <3>3
    <3>5. read = f => \E a \in 1..Len(frames') : frames'[a] = f
      BY <3>2, <3>3
    <3>6. QED
      BY <3>1, <3>4, <3>5 DEF Dropped, Waits
  <2>3. CASE Handler
    <3>1. UNCHANGED <<frames, held, reader, read>>
      BY <2>3 DEF Handler, DialOk, DialFails, BackoffEnds, GnbEndsInBackoff, OpenOk,
         OpenFails, SetupArrives, GnbEndsInSession, Start, ReplayFails, Reconnect
    <3>2. QED
      BY <3>1 DEF Dropped, Waits
  <2>4. ASSUME NEW s \in Slots, Take(s) PROVE FALSE
    <3>1. frames # <<>> /\ frames' = Tail(frames) /\ UNCHANGED <<reader, read>>
      BY <2>4 DEF Take
    <3>2. /\ Len(frames) \in Nat /\ Len(frames) >= 1 /\ Len(frames') = Len(frames) - 1
          /\ \A a \in 1..Len(frames') : frames'[a] = frames[a + 1]
      BY <3>1 DEF IInv, TypeOK
    <3>3. held'[s] = frames[1] /\ \A x \in Slots : x # s => held'[x] = held[x]
      BY <2>4 DEF Take, IInv, TypeOK
    <3>4. held[s] = 0
      BY <2>4 DEF Take, IInv, OrderInv
    <3>5. ASSUME NEW a \in 1..Len(frames), frames[a] = f PROVE FALSE
      <4>1. CASE a = 1
        BY <3>3, <3>5, <4>1 DEF Dropped, Waits
      <4>2. CASE a # 1
        <5>1. a - 1 \in 1..Len(frames') /\ frames'[a - 1] = frames[a]
          BY <3>2, <4>2
        <5>2. QED
          BY <3>5, <5>1 DEF Dropped, Waits
      <4>3. QED
        BY <4>1, <4>2
    <3>6. \A x \in Slots : held[x] # f
      BY <3>1, <3>3, <3>4 DEF Dropped, Waits
    <3>7. ~(reader = "pushing" /\ read = f)
      BY <3>1 DEF Dropped, Waits
    <3>8. QED
      BY <3>5, <3>6, <3>7 DEF Dropped, Waits
  <2>5. ASSUME NEW s \in Slots, WriteOk(s) \/ WriteFails(s) \/ Cancelled(s)
        PROVE  \E x \in Slots : held[x] = f /\ link[x] # "up"
    <3>1. /\ UNCHANGED <<frames, reader, read>>
          /\ \A x \in Slots : x # s => held'[x] = held[x]
      BY <2>5 DEF WriteOk, WriteFails, Cancelled, FwdEnds, IInv, TypeOK
    <3>2. held[s] = f
      BY <3>1 DEF Dropped, Waits
    <3>3. link[s] # "up"
      BY <2>5, <3>2 DEF WriteOk, WriteFails, Cancelled, Dropped
    <3>4. QED
      BY <3>2, <3>3
  <2>6. ASSUME NEW s \in Slots, LinkDies(s) \/ DownRead(s) \/ DownWrite(s) \/ DownEnds(s)
        PROVE  FALSE
    BY <2>6 DEF LinkDies, DownRead, DownWrite, DownEnds, Dropped, Waits
  <2>7. QED
    BY <2>1, <2>2, <2>3, <2>4, <2>5, <2>6 DEF Next, Forward
<1>2. QED
  BY <1>1, Invariance, PTL DEF Spec
=============================================================================
