----------------------------- MODULE HaFailover -----------------------------
(***************************************************************************)
(* What follows the leader of an HA Core: the controller, which points two *)
(* Services and the priorities of the IMS peers to it; the N6 gateway with *)
(* its return routes; and the start script of a phone, which asks the Core *)
(* behind the Service and not the leader.                                  *)
(*                                                                         *)
(* Each polls on its own.  Between two of its calls leadership moves, Pods *)
(* get other addresses, a release restores the selectors, calls fail and   *)
(* scripts die.                                                            *)
(***************************************************************************)
EXTENDS Naturals

CONSTANTS N,            \* members of the Core
          None,
          Deployments,  \* which followers are installed together
          MaxUpsets     \* bound on everything that disturbs but leadership

Members == 0 .. N-1
Parts   == {"controller", "peers", "gateway", "phone"}
Svcs    == {"core", "active"}
Nets    == {"ims", "internet"}
Ips     == {"old", "new"}
Peers   == [address : Ips, preferred : BOOLEAN]

ASSUME NAssumption == N \in Nat \ {0} /\ MaxUpsets \in Nat /\ None \notin 0..N
ASSUME DeploymentsAssumption == Deployments \subseteq SUBSET Parts

VARIABLES
  parts,    \* what this release has installed
  claims,   \* the members that answer ready and leader
  ip,       \* the address of each member's Pod
  upsets,
  svcs,     \* the member each Service selects
  peers,    \* the IMS Diameter peers, in the order of their ids
  cpc, ci, cj, snap,    \* the controller: place, i, j, and what it read of peers
  gpc, gi, last,        \* the gateway: place, i, and the leader it has recorded
  routes,               \* the next hop of each pool, None before the first
  asked,    \* the member start.sh found behind the Service, None between polls
  phone     \* the member the phone process is attached to, None if it has ended

core       == <<parts, claims, ip, upsets>>
controller == <<svcs, peers, cpc, ci, cj, snap>>
gateway    == <<gpc, gi, last, routes>>
script     == <<asked, phone>>
vars       == <<core, controller, gateway, script>>

TypeOK ==
  /\ parts \in Deployments
  /\ claims \subseteq Members /\ ip \in [Members -> Ips] /\ upsets \in 0..MaxUpsets
  /\ svcs \in [Svcs -> Members] /\ peers \in [Members -> Peers]
  /\ cpc \in {"scan", "resolve", "core", "active", "peers", "peer"}
  /\ ci \in 0..N /\ cj \in Members /\ snap \in [Members -> Peers]
  /\ gpc \in {"scan", "ims", "internet"}
  /\ gi \in 0..N /\ last \in Members \cup {None}
  /\ routes \in [Nets -> Members \cup {None}]
  /\ asked \in Members \cup {None} /\ phone \in Members \cup {None}

FirstPeers == [m \in Members |-> [address |-> "old", preferred |-> m = 0]]

\* After an installation: member 0 is the one the charts name.
Init ==
  /\ parts \in Deployments
  /\ claims = {0} /\ ip = [m \in Members |-> "old"] /\ upsets = 0
  /\ svcs = [s \in Svcs |-> 0] /\ peers = FirstPeers
  /\ cpc = "scan" /\ ci = 0 /\ cj = 0 /\ snap = FirstPeers
  /\ gpc = "scan" /\ gi = 0 /\ last = None /\ routes = [n \in Nets |-> None]
  /\ asked = None /\ phone = None

Upset == upsets < MaxUpsets /\ upsets' = upsets + 1 /\ UNCHANGED <<parts, claims, ip>>

-----------------------------------------------------------------------------
(* The Core, Kubernetes and the IMS *)

\* No member may claim to lead for a while, or two of them.
LeadershipMoves ==
  /\ claims' \in SUBSET Members
  /\ UNCHANGED <<parts, ip, upsets, controller, gateway, script>>

\* A Pod gets another address, which only the peers are configured with.
PodMoves(m) ==
  /\ "peers" \in parts /\ upsets < MaxUpsets /\ upsets' = upsets + 1
  /\ ip' = [ip EXCEPT ![m] = CHOOSE a \in Ips : a # ip[m]]
  /\ claims' = claims \ {m}
  /\ UNCHANGED <<parts, controller, gateway, script>>

\* "Helm upgrades may restore the initial selector", or the one the chart has
\* looked up when it was rendered.
Upgrade ==
  /\ "controller" \in parts /\ Upset
  /\ svcs' \in [Svcs -> Members]
  /\ UNCHANGED <<peers, cpc, ci, cj, snap, gateway, script>>

\* The bootstrap Job writes a peer, with the leader it knows.
JobWrites(m) ==
  /\ "peers" \in parts /\ Upset
  /\ \E p \in BOOLEAN :
       peers' = [peers EXCEPT ![m] = [address |-> ip[m], preferred |-> p]]
  /\ UNCHANGED <<svcs, cpc, ci, cj, snap, gateway, script>>

-----------------------------------------------------------------------------
(* controller.sh *)

Controller == "controller" \in parts /\ UNCHANGED <<gateway, script>>

\* The pass is over, or the script has exited and its container starts again.
NextPass == cpc' = "scan" /\ ci' = 0 /\ cj' = 0 /\ snap' = FirstPeers

Ask ==
  /\ Controller /\ cpc = "scan" /\ ci \in Members
  /\ IF ci \in claims THEN cpc' = "resolve" /\ UNCHANGED ci
                      ELSE cpc' = cpc /\ ci' = ci + 1
  /\ UNCHANGED <<core, svcs, peers, cj, snap>>

AskFails ==
  /\ Controller /\ cpc = "scan" /\ ci \in Members
  /\ Upset
  /\ ci' = ci + 1
  /\ UNCHANGED <<svcs, peers, cpc, cj, snap>>

NobodyFound ==
  /\ Controller /\ cpc = "scan" /\ ci = N
  /\ NextPass
  /\ UNCHANGED <<core, svcs, peers>>

\* peer_ip is looked up for the log, without "|| true".
Resolve ==
  /\ Controller /\ cpc = "resolve"
  /\ cpc' = "core"
  /\ UNCHANGED <<core, svcs, peers, ci, cj, snap>>

After(s) == IF s = "core" THEN cpc' = "active" /\ UNCHANGED <<ci, cj, snap>>
            ELSE IF "peers" \in parts THEN cpc' = "peers" /\ UNCHANGED <<ci, cj, snap>>
            ELSE NextPass

\* Compares and patches; a selector it cannot read is patched too.
Select(s) ==
  /\ Controller /\ cpc = s
  /\ svcs' = [svcs EXCEPT ![s] = ci]
  /\ After(s)
  /\ UNCHANGED <<core, peers>>

SelectFails(s) ==
  /\ Controller /\ cpc = s
  /\ Upset /\ After(s)
  /\ UNCHANGED <<svcs, peers>>

ReadPeers ==
  /\ Controller /\ cpc = "peers"
  /\ snap' = peers /\ cj' = 0 /\ cpc' = "peer"
  /\ UNCHANGED <<core, svcs, peers, ci>>

NextPeer == IF cj + 1 \in Members THEN cj' = cj + 1 /\ UNCHANGED <<cpc, ci, snap>>
                                  ELSE NextPass

\* Fault: the priority is not compared.
Reconcile_AddressOnly ==
  /\ Controller /\ cpc = "peer"
  /\ LET wanted == [address |-> ip[cj], preferred |-> cj = ci]
     IN  peers' = IF snap[cj].address = ip[cj] THEN peers
                  ELSE [peers EXCEPT ![cj] = wanted]
  /\ NextPeer
  /\ UNCHANGED <<core, svcs>>

\* The peer is compared as it was when peers was read.
Reconcile ==
  /\ Controller /\ cpc = "peer"
  /\ LET wanted == [address |-> ip[cj], preferred |-> cj = ci]
     IN  peers' = IF snap[cj] = wanted THEN peers ELSE [peers EXCEPT ![cj] = wanted]
  /\ NextPeer
  /\ UNCHANGED <<core, svcs>>

\* The lookup of the member's address or the PUT fails.
ReconcileFails ==
  /\ Controller /\ cpc = "peer"
  /\ Upset /\ NextPeer
  /\ UNCHANGED <<svcs, peers>>

\* The lookup of peer_ip or the read of peers fails, or the Pod is killed.
ControllerEnds ==
  /\ Controller /\ cpc # "scan"
  /\ Upset /\ NextPass
  /\ UNCHANGED <<svcs, peers>>

-----------------------------------------------------------------------------
(* gateway.sh *)

Gateway == "gateway" \in parts /\ UNCHANGED <<controller, script>>

GatewayPass == gpc' = "scan" /\ gi' = 0

GatewayAsks ==
  /\ Gateway /\ gpc = "scan" /\ gi \in Members
  /\ \/ gi \in claims /\ last # gi /\ gpc' = "ims" /\ UNCHANGED gi
     \/ gi \in claims /\ last = gi /\ GatewayPass
     \/ gi \notin claims /\ gi' = gi + 1 /\ UNCHANGED gpc
  /\ UNCHANGED <<core, last, routes>>

GatewayAskFails ==
  /\ Gateway /\ gpc = "scan" /\ gi \in Members
  /\ Upset
  /\ gi' = gi + 1
  /\ UNCHANGED <<gpc, last, routes>>

GatewayFindsNobody ==
  /\ Gateway /\ gpc = "scan" /\ gi = N
  /\ GatewayPass
  /\ UNCHANGED <<core, last, routes>>

\* ip route replace for one pool, and then for the other one and last.
Route(n) ==
  /\ Gateway /\ gpc = n
  /\ routes' = [routes EXCEPT ![n] = gi]
  /\ IF n = "ims" THEN gpc' = "internet" /\ UNCHANGED <<gi, last>>
                  ELSE last' = gi /\ GatewayPass
  /\ UNCHANGED core

\* Fault: ip route replace ... || true
RouteFails_Ignored(n) ==
  /\ Gateway /\ gpc = n
  /\ Upset
  /\ IF n = "ims" THEN gpc' = "internet" /\ UNCHANGED <<gi, last>>
                  ELSE last' = gi /\ GatewayPass
  /\ UNCHANGED routes

\* set -e: the script exits, and its container starts again without last.
RouteFails(n) ==
  /\ Gateway /\ gpc = n
  /\ Upset
  /\ last' = None /\ GatewayPass
  /\ UNCHANGED routes

\* The Pod is replaced; its network namespace goes with it.
GatewayReplaced ==
  /\ Gateway /\ Upset
  /\ last' = None /\ routes' = [n \in Nets |-> None] /\ GatewayPass

-----------------------------------------------------------------------------
(* start.sh *)

Script == "phone" \in parts /\ UNCHANGED <<controller, gateway>>

\* CORE_ACTIVE_HOST is a Service: the answer names the member it selects.
PhoneAsks ==
  /\ Script /\ asked = None
  /\ asked' = svcs["active"]
  /\ UNCHANGED <<core, phone>>

\* The member with that id is found: the process starts, goes on, or is stopped.
PhoneMatches ==
  /\ Script /\ asked # None
  /\ phone' = IF phone \in {None, asked} THEN asked ELSE None
  /\ asked' = None
  /\ UNCHANGED core

\* A member that does not lead may not answer.
PhoneFindsNone ==
  /\ Script /\ asked # None /\ asked \notin claims
  /\ asked' = None
  /\ UNCHANGED <<core, phone>>

\* The process ends; the answer start.sh waits for is not used.
PhoneEnds ==
  /\ Script /\ phone # None
  /\ Upset
  /\ phone' = None /\ asked' = None

-----------------------------------------------------------------------------
ControllerStep ==
  \/ Ask \/ NobodyFound \/ Resolve \/ ReadPeers \/ Reconcile
  \/ \E s \in Svcs : Select(s)

GatewayStep == GatewayAsks \/ GatewayFindsNobody \/ \E n \in Nets : Route(n)

PhoneStep == PhoneAsks \/ PhoneMatches \/ PhoneFindsNone

Next ==
  \/ LeadershipMoves \/ Upgrade \/ \E m \in Members : PodMoves(m) \/ JobWrites(m)
  \/ ControllerStep \/ AskFails \/ ReconcileFails \/ ControllerEnds
  \/ \E s \in Svcs : SelectFails(s)
  \/ GatewayStep \/ GatewayAskFails \/ GatewayReplaced \/ \E n \in Nets : RouteFails(n)
  \/ PhoneStep \/ PhoneEnds

Spec == Init /\ [][Next]_vars

\* The scripts loop: their calls have timeouts.  The one wait without, of start.sh for
\* the process it has sent SIGTERM (stop_app), is taken to end.
FairSpec == Spec /\ WF_vars(ControllerStep) /\ WF_vars(GatewayStep)
                 /\ WF_vars(PhoneStep)

-----------------------------------------------------------------------------
(* Properties *)

\* The gateway remembers a leader only with both routes via that leader: it
\* never looks at them again while the leader stays (gateway-config.yaml:36).
RoutesRecorded ==
  gpc = "scan" /\ last # None => routes = [n \in Nets |-> last]

\* The controller with its Services, the gateway with its routes, and start.sh,
\* for which the member behind the Service is the one that leads, and which has
\* to stop a process that is attached to another one.
OfServices == INSTANCE Follower WITH
  Targets <- Svcs, Repoints <- TRUE, leaders <- claims, points <- svcs,
  heard <- IF cpc = "scan" THEN None ELSE ci, recorded <- None

OfRoutes == INSTANCE Follower WITH
  Targets <- Nets, Repoints <- TRUE, leaders <- claims, points <- routes,
  heard    <- IF gpc = "scan" THEN None ELSE gi,
  recorded <- IF gpc = "scan" THEN last ELSE None

OfPhone == INSTANCE Follower WITH
  Targets <- {"phone"}, Repoints <- FALSE, leaders <- {svcs["active"]},
  heard <- asked, points <- [t \in {"phone"} |-> phone], recorded <- None

\* Whatever fails, moves or dies between two of its calls, each loop points what
\* it manages only to a member that has answered it in the same pass, a process
\* never goes from one member to another, and the gateway records a leader only
\* with both routes via that leader, as it never looks at them again while the
\* leader stays (gateway-config.yaml:36).
FollowersKeepPromise == OfServices!Spec /\ OfRoutes!Spec /\ OfPhone!Spec

FollowedBy(l) ==
  /\ "controller" \in parts => svcs = [s \in Svcs |-> l]
  /\ "peers" \in parts =>
       peers = [m \in Members |-> [address |-> ip[m], preferred |-> m = l]]
  /\ "gateway" \in parts => routes = [n \in Nets |-> l]
  /\ "phone" \in parts => phone = l

\* Once one member leads for good, everything that is installed points to it
\* for good, whatever drifted, failed or died before.
Follows == \A l \in Members : <>[](claims = {l}) => <>[]FollowedBy(l)
=============================================================================
