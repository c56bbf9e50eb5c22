-------------------------- MODULE BrowserConnection --------------------------
(***************************************************************************)
(* createBrowserConnection of the noVNC viewer: the page's connection to   *)
(* the UE browser, kept alive across lost connections, handshakes that do  *)
(* not complete, an offline host and a page that is put away and comes     *)
(* back.  JavaScript runs each callback to its end, so every event of the  *)
(* page, of a timer or of an RFB client is one action.                     *)
(*                                                                         *)
(* The RFB clients are external.  disconnect() tells one to close; its     *)
(* 'disconnect' event may come much later, and a 'connect' event already   *)
(* on its way is not recalled.  Delays and messages are abstracted.        *)
(***************************************************************************)
EXTENDS Naturals

CONSTANTS Clients,  \* RFB objects; one is reused after its socket closed
          None

ASSUME NoneAssumption == None \notin Clients

VARIABLES
  client,      \* the variable client
  sock,        \* what became of every RFB object
  dropped,     \* the RFB objects whose disconnect() was called
  retries,     \* how many setTimer(connect) callbacks are pending
  retryTimer,  \* retryTimer refers to a pending one
  deadlines,   \* the clients whose handshake deadline is pending
  deadline,    \* the client of the timer that deadline refers to
  stopped, online, state

page == <<stopped, online, state>>
vars == <<client, sock, dropped, retries, retryTimer, deadlines, deadline, page>>

TypeOK ==
  /\ client \in Clients \cup {None}
  /\ sock \in [Clients -> {"closed", "opening", "open"}]
  /\ dropped \in SUBSET Clients
  /\ retries \in {0, 1}
  /\ retryTimer \in BOOLEAN
  /\ deadlines \in SUBSET Clients
  /\ deadline \in Clients \cup {None}
  /\ stopped \in BOOLEAN
  /\ online \in BOOLEAN
  /\ state \in {"stopped", "offline", "connecting", "reconnecting", "connected"}

Init ==
  /\ client = None
  /\ sock = [k \in Clients |-> "closed"]
  /\ dropped = {}
  /\ retries = 0
  /\ retryTimer = FALSE
  /\ deadlines = {}
  /\ deadline = None
  /\ stopped = TRUE
  /\ online = TRUE
  /\ state = "stopped"

-----------------------------------------------------------------------------
(* The helpers, by what they leave behind.  X_Fault is a mutation of X.     *)

\* Fault: clear() forgets the retry timer without cancelling it.
ClearedRetries_Leak == retries

\* Fault: drop() does not call disconnect().
DroppedWith_Forgets == dropped

\* clear(): the timers that stay pending.
ClearedRetries   == IF retryTimer THEN retries - 1 ELSE retries
ClearedDeadlines == deadlines \ {deadline}
\* drop(): client is forgotten and told to disconnect.
DroppedWith      == IF client = None THEN dropped ELSE dropped \cup {client}

Quiet(next) ==   \* clear(); drop(); publish(next)
  /\ client' = None
  /\ dropped' = DroppedWith
  /\ retries' = ClearedRetries /\ retryTimer' = FALSE
  /\ deadlines' = ClearedDeadlines /\ deadline' = None
  /\ state' = next
  /\ UNCHANGED sock

\* Fault: retry() announces a reconnection and arms no timer.
RetryFrom_Unarmed(left, ref) ==
  /\ retries' = left
  /\ retryTimer' = ref
  /\ state' = IF stopped THEN state ELSE IF online THEN "reconnecting" ELSE "offline"

\* retry(), with `left` retry timers pending and retryTimer = ref before it.
RetryFrom(left, ref) ==
  LET again == ~stopped /\ online
  IN /\ retries' = IF again THEN left + 1 ELSE left
     /\ retryTimer' = (again \/ ref)
     /\ state' = CASE stopped -> state
                   [] ~stopped /\ ~online -> "offline"
                   [] again -> "reconnecting"

\* connect() for a page that is not stopped: give up the old client, then
\* wait for the network, or open a new one under a deadline, or retry when
\* the constructor throws.
Opened(left) ==
  /\ \E k \in Clients :
       /\ sock[k] = "closed"
       /\ client' = k
       /\ sock' = [sock EXCEPT ![k] = "opening"]
       /\ dropped' = DroppedWith \ {k}
       /\ deadlines' = ClearedDeadlines \cup {k} /\ deadline' = k
  /\ retries' = left /\ retryTimer' = FALSE
  /\ state' = "connecting"

\* Fault: catch drops the client and does not retry.
Threw_NoRetry(left) ==
  /\ client' = None
  /\ dropped' = DroppedWith
  /\ retries' = left /\ retryTimer' = FALSE
  /\ deadlines' = ClearedDeadlines /\ deadline' = None
  /\ state' = "reconnecting"
  /\ UNCHANGED sock

Threw(left) ==
  /\ client' = None
  /\ dropped' = DroppedWith
  /\ retries' = left + 1 /\ retryTimer' = TRUE
  /\ deadlines' = ClearedDeadlines /\ deadline' = None
  /\ state' = "reconnecting"
  /\ UNCHANGED sock

Connect(net, left) ==
  IF net THEN Opened(left) \/ Threw(left) ELSE Quiet("offline")

-----------------------------------------------------------------------------
(* The page *)

\* start() when the page loads, reconnect() from the button or when the page
\* is seen again while there is no connection, or shown again after stop().
Reconnect ==
  /\ state \notin {"connecting", "connected"}
  /\ stopped' = FALSE
  /\ Connect(online, ClearedRetries)
  /\ UNCHANGED online

\* stop() on pagehide.
Stop ==
  /\ stopped' = TRUE
  /\ Quiet("stopped")
  /\ UNCHANGED online

\* Fault: going offline is announced and the client is kept.
SetOffline_KeepsClient ==
  /\ online' = FALSE
  /\ state' = IF stopped THEN state ELSE "offline"
  /\ UNCHANGED <<client, sock, dropped, retries, retryTimer, deadlines, deadline,
                 stopped>>

SetOffline ==
  /\ online' = FALSE
  /\ Quiet(IF stopped THEN state ELSE "offline")
  /\ UNCHANGED stopped

SetOnline ==
  /\ online' = TRUE
  /\ IF ~stopped /\ state # "connected"
     THEN Connect(TRUE, ClearedRetries)
     ELSE UNCHANGED <<client, sock, dropped, retries, retryTimer, deadlines,
                      deadline, state>>
  /\ UNCHANGED stopped

-----------------------------------------------------------------------------
(* Timers *)

RetryFires ==
  /\ retries > 0
  /\ IF stopped THEN Quiet(state) ELSE Connect(online, retries - 1)
  /\ UNCHANGED <<stopped, online>>

DeadlineFires(k) ==
  /\ k \in deadlines
  /\ deadlines' = deadlines \ {k}
  /\ IF client = k
     THEN client' = None /\ dropped' = DroppedWith /\ RetryFrom(retries, retryTimer)
     ELSE UNCHANGED <<client, dropped, retries, retryTimer, state>>
  /\ UNCHANGED <<sock, deadline, stopped, online>>

-----------------------------------------------------------------------------
(* Events of an RFB client, current or not *)

\* Fault: a completed handshake leaves its deadline running.
ConnectEvent_KeepsDeadline(k) ==
  /\ sock[k] = "opening"
  /\ sock' = [sock EXCEPT ![k] = "open"]
  /\ state' = IF client # k \/ stopped THEN state ELSE "connected"
  /\ UNCHANGED <<client, dropped, retries, retryTimer, deadlines, deadline,
                 stopped, online>>

ConnectEvent(k) ==
  /\ sock[k] = "opening"
  /\ sock' = [sock EXCEPT ![k] = "open"]
  /\ IF client # k \/ stopped
     THEN UNCHANGED <<retries, retryTimer, deadlines, deadline, state>>
     ELSE /\ retries' = ClearedRetries /\ retryTimer' = FALSE
          /\ deadlines' = ClearedDeadlines /\ deadline' = None
          /\ state' = "connected"
  /\ UNCHANGED <<client, dropped, stopped, online>>

DisconnectEvent(k) ==
  /\ sock[k] # "closed"
  /\ sock' = [sock EXCEPT ![k] = "closed"]
  /\ IF client # k \/ stopped
     THEN UNCHANGED <<client, retries, retryTimer, deadlines, deadline, state>>
     ELSE /\ client' = None
          /\ deadlines' = ClearedDeadlines /\ deadline' = None
          /\ RetryFrom(ClearedRetries, FALSE)
  /\ UNCHANGED <<dropped, stopped, online>>

Next ==
  \/ Reconnect \/ Stop \/ SetOffline \/ SetOnline \/ RetryFires
  \/ \E k \in Clients : DeadlineFires(k) \/ ConnectEvent(k) \/ DisconnectEvent(k)

Spec == Init /\ [][Next]_vars

\* Timers fire, a socket that was told to close does, and a server that is
\* tried again and again completes a handshake at last.
Fairness ==
  /\ WF_vars(RetryFires)
  /\ \A k \in Clients :
       /\ WF_vars(DeadlineFires(k))
       /\ WF_vars(k \in dropped /\ DisconnectEvent(k))
  /\ SF_vars(\E k \in Clients : client = k /\ ConnectEvent(k))

FairSpec == Spec /\ Fairness

-----------------------------------------------------------------------------
(* Properties *)

\* At most one viewer session is ever left open, the one the page shows: a
\* replaced, timed out or paused client was told to disconnect.  A page that
\* is put away or offline keeps no client and no timer to wake it.
NoStrayConnection ==
  /\ \A k \in Clients : sock[k] # "closed" => client = k \/ k \in dropped
  /\ stopped \/ ~online => client = None /\ retries = 0 /\ deadlines = {}

\* A page that wants the connection and has a network is never left without
\* one and without a timer that will try again.
NeverWedged ==
  ~stopped /\ online =>
    \/ retries = 1
    \/ client # None /\ client \in deadlines
    \/ client # None /\ state = "connected" /\ sock[client] = "open"

\* An established session ends by its own disconnection, by pausing or by
\* going offline; no timer or event left over from an earlier client ends it.
HealthySessionKept ==
  [][state = "connected" /\ state' # "connected"
       => stopped' \/ ~online' \/ sock'[client] = "closed"]_vars

\* The connection comes back, unless the page is put away or goes offline.
Reconnects == []<>(stopped \/ ~online \/ state = "connected")

Link == IF client = None THEN "none"
        ELSE IF state = "connected" THEN "up" ELSE "trying"

Promise == INSTANCE ViewerPromise WITH link <- Link

\* The connection machine implements what the user is promised.
KeepsPromise == Promise!Spec
=============================================================================
