------------------------------ MODULE UeInternet ------------------------------
(***************************************************************************)
(* The data path of the UEs: a phone that starts, dies and starts again    *)
(* (PhoneStart), the requests that pass through it or through a UE HTTP    *)
(* proxy in a pod of its own (Relays), and Chromium's navigation           *)
(* (Navigation).  What the web reader makes of a page is in WebReader.     *)
(***************************************************************************)
EXTENDS PhoneStart, Relays, Navigation

CONSTANTS Pages,       \* trees of html.Parse: nodes as in WebReader
          MaxRequests  \* bound on the requests of one behaviour

ASSUME InternetAssumption == MaxRequests \in Nat

VARIABLES
  pod,       \* which of the two pods is followed: "phone" or "proxy"
  bound,     \* the HTTP proxy has found its UE's interface, and listens
  requests,  \* made so far
  page       \* the page the web reader has just answered with, or None

allVars == <<startVars, relayVars, navVars, pod, bound, requests, page>>

Init ==
  /\ StartInit /\ RelayInit /\ NavInit
  /\ pod \in {"phone", "proxy"} /\ bound = FALSE
  /\ requests = 0 /\ page = None

\* Once: later dials are bound to the interface of that name, and fail without it.
WaitForInterface ==
  /\ pod = "proxy" /\ ~bound /\ bound' = TRUE /\ page' = None
  /\ UNCHANGED <<startVars, relayVars, navVars, pod, requests>>

InPhone == kind \in {"socks", "browse"}   \* a request of the phone's process
Counted == /\ command = 0 /\ stage = "idle"   \* bound: one at a time, and few in all
           /\ requests < MaxRequests /\ requests' = requests + 1

\* The process takes its connections and handlers with it.
Phone ==
  /\ pod = "phone" /\ StartNext
  /\ IF pc' = "down" /\ InPhone THEN Dropped ELSE UNCHANGED relayVars
  /\ IF pc' = "down" \/ command = 0 THEN NavOver ELSE UNCHANGED navVars
  /\ page' = None /\ UNCHANGED <<pod, bound, requests>>

\* The listener of the phone's SOCKS port, browse ("UE internet session is not
\* ready" before), and the HTTP proxy.
Request ==
  /\ Counted /\ page' = None /\ NavOver
  /\ \E k \in {"socks", "browse", "connect", "forward"} :
       /\ IF k \in {"socks", "browse"} THEN pc = "ready" ELSE bound
       /\ Ask(k)
  /\ UNCHANGED <<startVars, pod, bound>>

\* The phone's sockets, to the DNS too, have its session's address, and so take its
\* uplink.
Connects == (InPhone => uplink) /\ (Resolve \/ Dial)

Relaying ==
  /\ Handshake \/ HandshakeFails \/ Connects \/ DialFails \/ Deliver \/ Expires
     \/ UpwardFails \/ Redirect \/ RedirectFails \/ Peers
  /\ page' = None /\ UNCHANGED <<startVars, navVars, pod, bound, requests>>

\* The page is there in full: within the size limit and the time.
Complete == kind = "browse" /\ us = "fin" /\ left = 0 /\ ~expired /\ cl = "open"

Copying ==
  /\ Copiers
  /\ \/ /\ stage' = "idle" /\ Complete /\ sent < MaxChunks
        /\ \E root \in Pages, type \in {"html", "plain"} :
             page' = [root |-> root, type |-> type]
     \/ page' = None   \* also an error: 502, or 415 for other types
  /\ UNCHANGED <<startVars, navVars, pod, bound, requests>>

Navigating ==
  /\ \/ Navigate /\ pod = "phone" /\ pc # "down" /\ Counted
     \/ /\ SendCommand \/ TabObeys \/ TabRefuses \/ TabReports \/ Receive
           \/ NavigationFails
        /\ UNCHANGED requests
  /\ page' = None /\ UNCHANGED <<startVars, relayVars, pod, bound>>

Next ==
  \/ Phone \/ WaitForInterface \/ Request \/ Relaying \/ Copying
  \/ Navigating

\* start.sh and the kubelet act, and the calls of initialize return.
Fairness ==
  /\ WF_startVars(pod = "phone" /\ Start) /\ WF_startVars(Initialize)
  /\ WF_startVars(ProbePasses) /\ WF_startVars(ProbeFails)
  /\ RelayFairness

FairSpec == Init /\ [][Next]_allVars /\ Fairness

-----------------------------------------------------------------------------
(* Properties *)

\* The pod of a phone whose first start fails is not left with it.
PhoneBecomesReady == pod = "phone" => BecomesReady
=============================================================================
