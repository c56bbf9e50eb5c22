----------------------- MODULE BrowserConnectionProofs -----------------------
(* The viewer's connection for any number of RFB clients that still talk.  *)
EXTENDS BrowserConnection, TLAPS

\* The variables of the closure describe the timers that are pending: none is
\* pending that clear() could not cancel.
TimersKnown ==
  /\ retryTimer <=> retries = 1
  /\ deadlines \subseteq {deadline}

\* What the page shows is what it has: a client is either in its handshake,
\* under a deadline, or established and without one.
StateHonest ==
  /\ stopped <=> state = "stopped"
  /\ state \in {"connecting", "connected"} => client # None
  /\ client # None =>
       /\ retries = 0
       /\ \/ state = "connecting" /\ sock[client] = "opening" /\ deadlines = {client}
          \/ state = "connected" /\ sock[client] = "open" /\ deadlines = {}

IInv == TypeOK /\ TimersKnown /\ StateHonest /\ NoStrayConnection /\ NeverWedged

-----------------------------------------------------------------------------
USE NoneAssumption DEF page

LEMMA InitIInv == Init => IInv
<1> SUFFICES ASSUME Init PROVE IInv
  OBVIOUS
<1>1. TypeOK
  BY DEF Init, TypeOK
<1>2. TimersKnown /\ StateHonest
  BY DEF Init, TimersKnown, StateHonest
<1>3. NoStrayConnection /\ NeverWedged
  BY DEF Init, NoStrayConnection, NeverWedged
<1>4. QED
  BY <1>1, <1>2, <1>3 DEF IInv

\* clear() leaves no timer behind.
LEMMA ClearClears ==
  ASSUME IInv
  PROVE  ClearedRetries = 0 /\ ClearedDeadlines = {}
BY DEF IInv, TypeOK, TimersKnown, ClearedRetries, ClearedDeadlines

\* clear(); drop(); publish(next) leaves the page with nothing, which it may
\* do when it is paused or has no network.
LEMMA QuietKeeps ==
  ASSUME IInv, NEW next \in {"stopped", "offline"}, Quiet(next),
         stopped' \in BOOLEAN, online' \in BOOLEAN,
         stopped' <=> next = "stopped", stopped' \/ ~online'
  PROVE  IInv'
<1>1. retries' = 0 /\ deadlines' = {} /\ client' = None /\ ~retryTimer'
  BY ClearClears DEF Quiet
<1> QED
  <2>1. TypeOK'
    BY <1>1 DEF Quiet, DroppedWith, IInv, TypeOK
  <2>2. TimersKnown' /\ StateHonest'
    BY <1>1 DEF Quiet, IInv, TimersKnown, StateHonest
  <2>3. NoStrayConnection' /\ NeverWedged'
    BY <1>1 DEF Quiet, DroppedWith, IInv, NoStrayConnection, NeverWedged
  <2>4. QED
    BY <2>1, <2>2, <2>3 DEF IInv

\* connect() with a network leaves a client under a deadline, or a timer.
LEMMA ConnectKeeps ==
  ASSUME IInv, Opened(0) \/ Threw(0), stopped' = FALSE, online' = TRUE
  PROVE  IInv'
<1>1. CASE Opened(0)
  <2>1. PICK k \in Clients :
          /\ sock[k] = "closed"
          /\ client' = k
          /\ sock' = [sock EXCEPT ![k] = "opening"]
          /\ dropped' = DroppedWith \ {k}
          /\ deadlines' = {k} /\ deadline' = k
          /\ retries' = 0 /\ retryTimer' = FALSE /\ state' = "connecting"
    BY <1>1, ClearClears DEF Opened
  <2>2. QED
    <3>1. TypeOK'
      BY <2>1 DEF DroppedWith, IInv, TypeOK
    <3>2. TimersKnown' /\ StateHonest'
      BY <2>1 DEF DroppedWith, IInv, TypeOK, TimersKnown, StateHonest
    <3>3. NoStrayConnection' /\ NeverWedged'
      BY <2>1 DEF DroppedWith, IInv, NoStrayConnection, NeverWedged
    <3>4. QED
      BY <3>1, <3>2, <3>3 DEF IInv
<1>2. CASE Threw(0)
  <2>1. /\ client' = None /\ retries' = 1 /\ retryTimer' /\ deadlines' = {}
        /\ UNCHANGED sock
    BY <1>2, ClearClears DEF Threw
  <2>2. TypeOK'
    BY <1>2, <2>1 DEF Threw, DroppedWith, IInv, TypeOK
  <2>3. TimersKnown' /\ StateHonest'
    BY <1>2, <2>1 DEF Threw, TimersKnown, StateHonest
  <2>4. \A k \in Clients : client = k \/ k \in dropped => k \in dropped'
    BY <1>2 DEF Threw, DroppedWith
  <2>5. NoStrayConnection' /\ NeverWedged'
    BY <2>1, <2>4 DEF IInv, NoStrayConnection, NeverWedged
  <2>6. QED
    BY <2>2, <2>3, <2>5 DEF IInv
<1>3. QED
  BY <1>1, <1>2

\* The same for a page that may be offline.
LEMMA ConnectStep ==
  ASSUME IInv, Connect(online', 0), stopped' = FALSE, online' \in BOOLEAN
  PROVE  IInv'
<1>1. CASE online'
  BY <1>1, ConnectKeeps DEF Connect
<1>2. CASE ~online'
  BY <1>2, QuietKeeps DEF Connect
<1>3. QED
  BY <1>1, <1>2

LEMMA PageStep ==
  ASSUME IInv, Reconnect \/ Stop \/ SetOffline \/ SetOnline
  PROVE  IInv'
<1>1. CASE Reconnect
  <2>1. Connect(online', 0) /\ stopped' = FALSE /\ online' \in BOOLEAN
    BY <1>1, ClearClears DEF Reconnect, IInv, TypeOK
  <2>2. QED
    BY <2>1, ConnectStep
<1>2. CASE Stop
  <2>1. Quiet("stopped") /\ stopped' = TRUE /\ online' \in BOOLEAN
    BY <1>2 DEF Stop, IInv, TypeOK
  <2>2. QED
    BY <2>1, QuietKeeps
<1>3. CASE SetOffline
  <2>1. /\ Quiet(IF stopped THEN state ELSE "offline")
        /\ online' = FALSE /\ stopped' = stopped /\ stopped' \in BOOLEAN
    BY <1>3 DEF SetOffline, IInv, TypeOK
  <2>2. CASE stopped
    BY <2>1, <2>2, QuietKeeps DEF IInv, StateHonest
  <2>3. CASE ~stopped
    BY <2>1, <2>3, QuietKeeps
  <2>4. QED
    BY <2>2, <2>3 DEF IInv
<1>4. CASE SetOnline
  <2>1. CASE ~stopped /\ state # "connected"
    <3>1. Connect(TRUE, 0) /\ stopped' = FALSE /\ online' = TRUE
      BY <1>4, <2>1, ClearClears DEF SetOnline, IInv, TypeOK
    <3>2. QED
      BY <3>1, ConnectKeeps DEF Connect
  <2>2. CASE ~(~stopped /\ state # "connected")
    BY <1>4, <2>2 DEF SetOnline, IInv, TypeOK, TimersKnown, StateHonest,
                      NoStrayConnection, NeverWedged
  <2>3. QED
    BY <2>1, <2>2
<1>5. QED
  BY <1>1, <1>2, <1>3, <1>4

\* A retry timer fires only for a page that is awake, online and without a
\* client, and a deadline only for the client in its handshake.
LEMMA TimerStep ==
  ASSUME IInv, RetryFires \/ \E k \in Clients : DeadlineFires(k)
  PROVE  IInv'
<1>1. CASE RetryFires
  <2>1. ~stopped /\ online /\ retries = 1
    BY <1>1 DEF RetryFires, IInv, TypeOK, NoStrayConnection
  <2>2. Connect(online, retries - 1) /\ stopped' = FALSE /\ online' = TRUE
    BY <1>1, <2>1 DEF RetryFires, IInv, TypeOK
  <2>3. retries - 1 = 0
    BY <2>1
  <2>4. Opened(0) \/ Threw(0)
    BY <2>1, <2>2, <2>3, Zenon DEF Connect
  <2>5. QED
    BY <2>2, <2>4, ConnectKeeps
<1>2. CASE \E k \in Clients : DeadlineFires(k)
  <2>1. PICK k \in Clients : DeadlineFires(k)
    BY <1>2
  <2>2. deadlines = {k} /\ deadlines' = {} /\ deadline = k
    BY <2>1 DEF DeadlineFires, IInv, TimersKnown
  <2>3. CASE client = k
    <3>1. ~stopped /\ online /\ retries = 0 /\ ~retryTimer
      BY <2>3 DEF IInv, TimersKnown, StateHonest, NoStrayConnection
    <3>2. /\ client' = None /\ dropped' = dropped \cup {k}
          /\ UNCHANGED <<sock, deadline, stopped, online>>
          /\ RetryFrom(retries, retryTimer)
      BY <2>1, <2>3 DEF DeadlineFires, DroppedWith, IInv
    <3>3. retries' = 1 /\ retryTimer' = TRUE /\ state' = "reconnecting"
      <4>1. retries' = 1 /\ state' = "reconnecting"
        BY <3>1, <3>2 DEF RetryFrom
      <4>2. retryTimer' = TRUE
        BY <3>1, <3>2, Zenon DEF RetryFrom
      <4>3. QED
        BY <4>1, <4>2
    <3>4. QED
      BY <2>2, <2>3, <3>1, <3>2, <3>3 DEF IInv, TypeOK, TimersKnown, StateHonest,
                                          NoStrayConnection, NeverWedged
  <2>4. CASE client # k
    BY <2>1, <2>2, <2>4 DEF DeadlineFires, IInv, TypeOK, TimersKnown,
                            StateHonest, NoStrayConnection, NeverWedged
  <2>5. QED
    BY <2>3, <2>4
<1>3. QED
  BY <1>1, <1>2

LEMMA ClientStep ==
  ASSUME IInv, NEW k \in Clients, ConnectEvent(k) \/ DisconnectEvent(k)
  PROVE  IInv'
<1>1. CASE ConnectEvent(k)
  <2>1. CASE client # k \/ stopped
    BY <1>1, <2>1 DEF ConnectEvent, IInv, TypeOK, TimersKnown, StateHonest,
                      NoStrayConnection, NeverWedged
  <2>2. CASE client = k /\ ~stopped
    <3>1. retries' = 0 /\ deadlines' = {} /\ ~retryTimer'
      BY <1>1, <2>2, ClearClears DEF ConnectEvent
    <3>2. QED
      <4>1. TypeOK'
        BY <1>1, <2>2, <3>1 DEF ConnectEvent, IInv, TypeOK
      <4>2. TimersKnown' /\ StateHonest'
        BY <1>1, <2>2, <3>1 DEF ConnectEvent, IInv, TypeOK, TimersKnown, StateHonest
      <4>3. NoStrayConnection' /\ NeverWedged'
        BY <1>1, <2>2, <3>1 DEF ConnectEvent, IInv, TypeOK, NoStrayConnection,
                                NeverWedged
      <4>4. QED
        BY <4>1, <4>2, <4>3 DEF IInv
  <2>3. QED
    BY <2>1, <2>2
<1>2. CASE DisconnectEvent(k)
  <2>1. CASE client # k \/ stopped
    BY <1>2, <2>1 DEF DisconnectEvent, IInv, TypeOK, TimersKnown, StateHonest,
                      NoStrayConnection, NeverWedged
  <2>2. CASE client = k /\ ~stopped
    <3>1. online
      BY <2>2 DEF IInv, NoStrayConnection
    <3>2. /\ deadlines' = {} /\ deadline' = None /\ client' = None
          /\ RetryFrom(0, FALSE)
      BY <1>2, <2>2, ClearClears DEF DisconnectEvent
    <3>3. retries' = 1 /\ retryTimer' = TRUE /\ state' = "reconnecting"
      <4>1. retries' = 1 /\ state' = "reconnecting"
        BY <2>2, <3>1, <3>2 DEF RetryFrom
      <4>2. retryTimer' = TRUE
        BY <2>2, <3>1, <3>2, Zenon DEF RetryFrom
      <4>3. QED
        BY <4>1, <4>2
    <3>4. QED
      BY <1>2, <2>2, <3>1, <3>2, <3>3 DEF DisconnectEvent, IInv, TypeOK,
                                          TimersKnown, StateHonest,
                                          NoStrayConnection, NeverWedged
  <2>3. QED
    BY <2>1, <2>2
<1>3. QED
  BY <1>1, <1>2

-----------------------------------------------------------------------------
\* The inductive invariant holds in every reachable state.
THEOREM Invariance == Spec => []IInv
<1>1. IInv /\ [Next]_vars => IInv'
  <2> SUFFICES ASSUME IInv, [Next]_vars PROVE IInv'
    OBVIOUS
  <2>1. CASE UNCHANGED vars
    BY <2>1 DEF vars, IInv, TypeOK, TimersKnown, StateHonest, NoStrayConnection,
                NeverWedged
  <2>2. CASE Next
    BY <2>2, PageStep, TimerStep, ClientStep DEF Next
  <2>3. QED
    BY <2>1, <2>2
<1>2. QED
  BY <1>1, InitIInv, PTL DEF Spec

\* Types, at most one retry timer among them: clear() leaks none.
THEOREM TypeCorrect == Spec => []TypeOK
BY Invariance, PTL DEF IInv

\* At most one session is left open, and a paused page keeps nothing.
THEOREM NoStray == Spec => []NoStrayConnection
BY Invariance, PTL DEF IInv

\* A page that wants a connection has one or a timer that tries again.
THEOREM NotWedged == Spec => []NeverWedged
BY Invariance, PTL DEF IInv

\* No timer and no late event ends an established session.
THEOREM SessionKept == Spec => HealthySessionKept
<1>1. ASSUME IInv, [Next]_vars, state = "connected", state' # "connected"
      PROVE  stopped' \/ ~online' \/ sock'[client] = "closed"
  <2>1. ~stopped /\ client \in Clients /\ retries = 0 /\ deadlines = {}
    BY <1>1 DEF IInv, TypeOK, StateHonest
  <2>2. CASE Reconnect \/ SetOnline \/ RetryFires
    BY <1>1, <2>1, <2>2 DEF Reconnect, SetOnline, RetryFires
  <2>3. CASE Stop \/ SetOffline
    BY <2>3 DEF Stop, SetOffline
  <2>4. ASSUME NEW k \in Clients, DeadlineFires(k) \/ ConnectEvent(k)
        PROVE  FALSE
    BY <1>1, <2>1, <2>4 DEF DeadlineFires, ConnectEvent
  <2>5. ASSUME NEW k \in Clients, DisconnectEvent(k)
        PROVE  sock'[client] = "closed"
    BY <1>1, <2>1, <2>5 DEF DisconnectEvent, IInv, TypeOK
  <2>6. CASE UNCHANGED vars
    BY <1>1, <2>6 DEF vars
  <2>7. QED
    BY <1>1, <2>2, <2>3, <2>4, <2>5, <2>6 DEF Next
<1>2. IInv /\ [Next]_vars
        => [state = "connected" /\ state' # "connected"
              => stopped' \/ ~online' \/ sock'[client] = "closed"]_vars
  BY <1>1
<1>3. QED
  BY <1>2, Invariance, PTL DEF Spec, HealthySessionKept
-----------------------------------------------------------------------------
\* The connection machine does what ViewerPromise promises the user: the link
\* is torn down only by pausing, going offline or its own end, and a new one is
\* tried only for a page that is awake and has a network.
THEOREM Refinement == Spec => KeepsPromise
<1>1. Init => Promise!Init
  BY DEF Init, Promise!Init, Link
<1>2. ASSUME IInv, IInv', [Next]_vars
      PROVE  [Promise!Next]_(Promise!vars)
  <2> USE DEF IInv, TypeOK, StateHonest, NoStrayConnection, Link
  <2>1. CASE Reconnect
    BY <1>2, <2>1 DEF Reconnect, Connect, Opened, Threw, Promise!Next, Promise!Wake
  <2>2. CASE Stop
    BY <1>2, <2>2 DEF Stop, Promise!Next, Promise!Pause
  <2>3. CASE SetOffline
    BY <1>2, <2>3 DEF SetOffline, Promise!Next, Promise!NetGone
  <2>4. CASE SetOnline
    BY <1>2, <2>4 DEF SetOnline, Connect, Opened, Threw, Promise!Next,
                      Promise!NetBack, Promise!vars
  <2>5. CASE RetryFires
    BY <1>2, <2>5 DEF RetryFires, Connect, Opened, Threw, Promise!Next,
                      Promise!Try, Promise!vars
  <2>6. ASSUME NEW k \in Clients, DeadlineFires(k)
        PROVE  [Promise!Next]_(Promise!vars)
    BY <1>2, <2>6 DEF DeadlineFires, Promise!Next, Promise!Break, Promise!vars
  <2>7. ASSUME NEW k \in Clients, ConnectEvent(k)
        PROVE  [Promise!Next]_(Promise!vars)
    BY <1>2, <2>7 DEF ConnectEvent, Promise!Next, Promise!Connect, Promise!vars
  <2>8. ASSUME NEW k \in Clients, DisconnectEvent(k)
        PROVE  [Promise!Next]_(Promise!vars)
    BY <1>2, <2>8 DEF DisconnectEvent, Promise!Next, Promise!Break, Promise!vars
  <2>9. CASE UNCHANGED vars
    BY <2>9 DEF vars, Promise!vars
  <2>10. QED
    BY <1>2, <2>1, <2>2, <2>3, <2>4, <2>5, <2>6, <2>7, <2>8, <2>9 DEF Next
<1>3. QED
  BY <1>1, <1>2, Invariance, PTL DEF Spec, KeepsPromise, Promise!Spec
=============================================================================
