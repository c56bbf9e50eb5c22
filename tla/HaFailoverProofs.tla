--------------------------- MODULE HaFailoverProofs ---------------------------
(* What the gateway records, and what a pass of each script achieves while   *)
(* nothing disturbs it, for any number of members and upsets.                *)
EXTENDS HaFailover, TLAPS

\* A script past its scan has found a member, and the gateway changes the
\* routes in a fixed order.
ScanInv ==
  /\ cpc # "scan" => ci \in Members
  /\ gpc # "scan" => gi \in Members
  /\ gpc = "internet" => routes["ims"] = gi

IInv == TypeOK /\ ScanInv /\ RoutesRecorded

-----------------------------------------------------------------------------
(* The safety half of Follows: what a pass achieves, and that it lasts *)

\* A step in whose course l is the only leader and nothing is upset.
Calm(l) == claims = {l} /\ claims' = {l} /\ upsets' = upsets

Wanted(m, l) == [address |-> ip[m], preferred |-> m = l]

PointsTo(l) ==
  /\ svcs = [s \in Svcs |-> l]
  /\ "peers" \in parts => peers = [m \in Members |-> Wanted(m, l)]

\* Where a pass of the controller is that found l, all behind it is right, and
\* what it has read is what it will overwrite.  True at the start of a pass.
Behind(l) ==
  /\ cpc # "scan" => ci = l
  /\ cpc \in {"active", "peers", "peer"} => svcs["core"] = l
  /\ cpc \in {"peers", "peer"} => svcs["active"] = l
  /\ cpc = "peer" => \A m \in Members : IF m < cj THEN peers[m] = Wanted(m, l)
                                                  ELSE snap[m] = peers[m]

\* Nothing on its way leads elsewhere: the scripts have found l, and start.sh
\* has, or will have, an answer of l.
OnCourse(l) ==
  /\ cpc # "scan" => ci = l
  /\ gpc # "scan" => gi = l
  /\ "phone" \in parts => svcs["active"] = l /\ asked \in {None, l}
-----------------------------------------------------------------------------
USE NAssumption, DeploymentsAssumption DEF core, controller, gateway, script, Members

LEMMA FirstPeersType == FirstPeers \in [Members -> Peers]
BY DEF FirstPeers, Peers, Ips

LEMMA InitIInv == Init => IInv
<1> SUFFICES ASSUME Init PROVE IInv
  OBVIOUS
<1>1. 0 \in Members /\ 0 \in 0..N /\ 0 \in 0..MaxUpsets
  OBVIOUS
<1>2. /\ ip \in [Members -> Ips] /\ svcs \in [Svcs -> Members]
      /\ routes \in [Nets -> Members \cup {None}]
  BY <1>1 DEF Init, Ips
<1>3. peers \in [Members -> Peers] /\ snap \in [Members -> Peers]
  BY FirstPeersType DEF Init
<1>4. TypeOK
  BY <1>1, <1>2, <1>3 DEF Init, TypeOK
<1>5. ScanInv /\ RoutesRecorded
  BY DEF Init, ScanInv, RoutesRecorded
<1>6. QED
  BY <1>4, <1>5 DEF IInv

\* Nothing but the gateway touches what it has recorded.
LEMMA CoreStep ==
  ASSUME IInv,
         \/ LeadershipMoves \/ Upgrade
         \/ \E m \in Members : PodMoves(m) \/ JobWrites(m)
  PROVE  IInv'
<1>1. CASE LeadershipMoves
  BY <1>1 DEF LeadershipMoves, IInv, TypeOK, ScanInv, RoutesRecorded
<1>2. CASE Upgrade
  BY <1>2 DEF Upgrade, Upset, IInv, TypeOK, ScanInv, RoutesRecorded
<1>3. ASSUME NEW m \in Members, PodMoves(m) PROVE IInv'
  <2>1. (CHOOSE a \in Ips : a # ip[m]) \in Ips
    BY DEF Ips
  <2>2. ip' \in [Members -> Ips] /\ upsets' \in 0..MaxUpsets
    BY <1>3, <2>1 DEF PodMoves, IInv, TypeOK
  <2>3. QED
    BY <1>3, <2>2 DEF PodMoves, IInv, TypeOK, ScanInv, RoutesRecorded
<1>4. ASSUME NEW m \in Members, JobWrites(m) PROVE IInv'
  <2>1. peers' \in [Members -> Peers]
    BY <1>4 DEF JobWrites, IInv, TypeOK, Peers
  <2>2. QED
    BY <1>4, <2>1 DEF JobWrites, Upset, IInv, TypeOK, ScanInv, RoutesRecorded
<1>5. QED
  BY <1>1, <1>2, <1>3, <1>4

LEMMA NextPassType ==
  ASSUME NextPass
  PROVE  /\ cpc' = "scan" /\ ci' \in 0..N /\ cj' \in Members
         /\ snap' \in [Members -> Peers]
BY FirstPeersType DEF NextPass

LEMMA NextPeerType ==
  ASSUME IInv, cpc = "peer", NextPeer
  PROVE  /\ cpc' \in {"scan", "peer"} /\ (cpc' # "scan" => ci' \in Members)
         /\ ci' \in 0..N /\ cj' \in Members /\ snap' \in [Members -> Peers]
BY NextPassType DEF NextPeer, IInv, TypeOK, ScanInv

LEMMA AfterType ==
  ASSUME IInv, NEW s \in Svcs, cpc = s, After(s)
  PROVE  /\ cpc' \in {"scan", "active", "peers"} /\ (cpc' # "scan" => ci' \in Members)
         /\ ci' \in 0..N /\ cj' \in Members /\ snap' \in [Members -> Peers]
BY NextPassType DEF After, IInv, TypeOK, ScanInv, Svcs

LEMMA ControllerKeeps ==
  ASSUME IInv,
         \/ ControllerStep \/ AskFails \/ ReconcileFails \/ ControllerEnds
         \/ \E s \in Svcs : SelectFails(s)
  PROVE  IInv'
<1> USE DEF Controller
<1>1. CASE Ask
  BY <1>1 DEF Ask, IInv, TypeOK, ScanInv, RoutesRecorded
<1>2. CASE NobodyFound
  BY <1>2, NextPassType DEF NobodyFound, IInv, TypeOK, ScanInv, RoutesRecorded
<1>3. CASE Resolve
  BY <1>3 DEF Resolve, IInv, TypeOK, ScanInv, RoutesRecorded
<1>4. CASE ReadPeers
  BY <1>4 DEF ReadPeers, IInv, TypeOK, ScanInv, RoutesRecorded
<1>5. CASE Reconcile
  <2>1. [address |-> ip[cj], preferred |-> cj = ci] \in Peers
    BY DEF IInv, TypeOK, Peers
  <2>2. peers' \in [Members -> Peers]
    BY <1>5, <2>1 DEF Reconcile, IInv, TypeOK
  <2>3. cpc = "peer" /\ NextPeer
    BY <1>5 DEF Reconcile
  <2>4. QED
    BY <1>5, <2>2, <2>3, NextPeerType DEF Reconcile, IInv, TypeOK, ScanInv,
                                          RoutesRecorded
<1>6. ASSUME NEW s \in Svcs, Select(s) PROVE IInv'
  <2>1. ci \in Members
    BY <1>6 DEF Select, IInv, ScanInv, Svcs
  <2>2. svcs' \in [Svcs -> Members]
    BY <1>6, <2>1 DEF Select, IInv, TypeOK
  <2>3. cpc = s /\ After(s)
    BY <1>6 DEF Select
  <2>4. QED
    BY <1>6, <2>2, <2>3, AfterType DEF Select, IInv, TypeOK, ScanInv, RoutesRecorded
<1>7. CASE AskFails
  BY <1>7 DEF AskFails, Upset, IInv, TypeOK, ScanInv, RoutesRecorded
<1>8. CASE ReconcileFails
  <2>1. cpc = "peer" /\ NextPeer
    BY <1>8 DEF ReconcileFails
  <2>2. QED
    BY <1>8, <2>1, NextPeerType DEF ReconcileFails, Upset, IInv, TypeOK, ScanInv,
                                    RoutesRecorded
<1>9. CASE ControllerEnds
  BY <1>9, NextPassType DEF ControllerEnds, Upset, IInv, TypeOK, ScanInv,
                            RoutesRecorded
<1>10. ASSUME NEW s \in Svcs, SelectFails(s) PROVE IInv'
  <2>1. cpc = s /\ After(s)
    BY <1>10 DEF SelectFails
  <2>2. QED
    BY <1>10, <2>1, AfterType DEF SelectFails, Upset, IInv, TypeOK, ScanInv,
                                  RoutesRecorded
<1>11. QED
  BY <1>1, <1>2, <1>3, <1>4, <1>5, <1>6, <1>7, <1>8, <1>9, <1>10 DEF ControllerStep

\* The second route is the last thing that happens before the leader is recorded.
LEMMA GatewayKeeps ==
  ASSUME IInv,
         \/ GatewayStep \/ GatewayAskFails \/ GatewayReplaced
         \/ \E n \in Nets : RouteFails(n)
  PROVE  IInv'
<1> USE DEF Gateway, GatewayPass
<1>1. CASE GatewayAsks
  BY <1>1 DEF GatewayAsks, IInv, TypeOK, ScanInv, RoutesRecorded
<1>2. CASE GatewayFindsNobody
  BY <1>2 DEF GatewayFindsNobody, IInv, TypeOK, ScanInv, RoutesRecorded
<1>3. ASSUME NEW n \in Nets, Route(n) PROVE IInv'
  <2>1. gi \in Members /\ routes' \in [Nets -> Members \cup {None}]
    BY <1>3 DEF Route, IInv, TypeOK, ScanInv, Nets
  <2>2. TypeOK'
    BY <1>3, <2>1 DEF Route, IInv, TypeOK
  <2>3. ScanInv'
    BY <1>3, <2>1 DEF Route, IInv, ScanInv
  <2>4. RoutesRecorded'
    BY <1>3 DEF Route, IInv, TypeOK, ScanInv, RoutesRecorded, Nets
  <2>5. QED
    BY <2>2, <2>3, <2>4 DEF IInv
<1>4. CASE GatewayAskFails
  BY <1>4 DEF GatewayAskFails, Upset, IInv, TypeOK, ScanInv, RoutesRecorded
<1>5. CASE GatewayReplaced
  BY <1>5 DEF GatewayReplaced, Upset, IInv, TypeOK, ScanInv, RoutesRecorded
<1>6. ASSUME NEW n \in Nets, RouteFails(n) PROVE IInv'
  BY <1>6 DEF RouteFails, Upset, IInv, TypeOK, ScanInv, RoutesRecorded
<1>7. QED
  BY <1>1, <1>2, <1>3, <1>4, <1>5, <1>6 DEF GatewayStep

LEMMA PhoneKeeps ==
  ASSUME IInv, PhoneStep \/ PhoneEnds
  PROVE  IInv'
<1>1. asked' \in Members \cup {None} /\ phone' \in Members \cup {None}
  BY DEF PhoneStep, PhoneAsks, PhoneMatches, PhoneFindsNone, PhoneEnds, IInv,
         TypeOK, Svcs
<1>2. /\ upsets' \in 0..MaxUpsets
      /\ UNCHANGED <<parts, claims, ip, controller, gateway>>
  BY DEF PhoneStep, PhoneAsks, PhoneMatches, PhoneFindsNone, PhoneEnds, Script,
         Upset, IInv, TypeOK
<1>3. QED
  BY <1>1, <1>2 DEF IInv, TypeOK, ScanInv, RoutesRecorded

-----------------------------------------------------------------------------
\* The inductive invariant holds in every reachable state.
THEOREM Invariance == Spec => []IInv
<1>1. IInv /\ [Next]_vars => IInv'
  <2> SUFFICES ASSUME IInv, [Next]_vars PROVE IInv'
    OBVIOUS
  <2>1. CASE UNCHANGED vars
    BY <2>1 DEF vars, IInv, TypeOK, ScanInv, RoutesRecorded
  <2>2. CASE Next
    BY <2>2, CoreStep, ControllerKeeps, GatewayKeeps, PhoneKeeps DEF Next
  <2>3. QED
    BY <2>1, <2>2
<1>2. QED
  BY <1>1, InitIInv, PTL DEF Spec

\* Types; a loop that polls never asks past the last member.
THEOREM TypeCorrect == Spec => []TypeOK
BY Invariance, PTL DEF IInv

\* The gateway records a leader only when both routes go via that leader.
THEOREM Recorded == Spec => []RoutesRecorded
BY Invariance, PTL DEF IInv

-----------------------------------------------------------------------------
\* A calm step is one of the scripts, or none that matters, and no failure.
LEMMA CalmSteps ==
  ASSUME IInv, NEW l \in Members, Calm(l), [Next]_vars
  PROVE  /\ UNCHANGED <<parts, ip>>
         /\ \/ ControllerStep \/ GatewayStep \/ PhoneStep
            \/ UNCHANGED <<controller, gateway, script>>
<1>1. ~Upset
  BY DEF Calm, Upset, IInv, TypeOK
<1>2. \A m \in Members : ~PodMoves(m)
  BY DEF Calm, PodMoves, IInv, TypeOK
<1>3. /\ ~Upgrade /\ ~AskFails /\ ~ReconcileFails /\ ~ControllerEnds
      /\ ~GatewayAskFails /\ ~GatewayReplaced /\ ~PhoneEnds
      /\ \A m \in Members : ~JobWrites(m)
      /\ \A s \in Svcs : ~SelectFails(s)
      /\ \A n \in Nets : ~RouteFails(n)
  BY <1>1 DEF Upgrade, AskFails, ReconcileFails, ControllerEnds, GatewayAskFails,
              GatewayReplaced, PhoneEnds, JobWrites, SelectFails, RouteFails
<1>4. \/ LeadershipMoves \/ UNCHANGED vars
      \/ ControllerStep \/ GatewayStep \/ PhoneStep
  BY <1>2, <1>3 DEF Next
<1>5. ControllerStep => UNCHANGED core
  BY DEF ControllerStep, Ask, NobodyFound, Resolve, ReadPeers, Reconcile, Select
<1>6. GatewayStep => UNCHANGED core
  BY DEF GatewayStep, GatewayAsks, GatewayFindsNobody, Route
<1>7. PhoneStep => UNCHANGED core
  BY DEF PhoneStep, PhoneAsks, PhoneMatches, PhoneFindsNone
<1>8. QED
  BY <1>4, <1>5, <1>6, <1>7 DEF LeadershipMoves, vars

\* What the controller writes is right, and what it leaves was right.
LEMMA ControllerRepairs ==
  ASSUME IInv, NEW l \in Members, Calm(l), Behind(l), ControllerStep,
         UNCHANGED <<parts, ip>>
  PROVE  Behind(l)' /\ (cpc # "scan" /\ cpc' = "scan" => PointsTo(l)')
<1> USE DEF Behind, IInv, TypeOK
<1>1. CASE Ask
  BY <1>1 DEF Ask, Calm
<1>2. CASE NobodyFound
  BY <1>2 DEF NobodyFound, NextPass
<1>3. CASE Resolve
  BY <1>3 DEF Resolve
<1>4. ASSUME NEW s \in Svcs, Select(s) PROVE Behind(l)' /\ (cpc' = "scan" => PointsTo(l)')
  <2>1. CASE s = "core"
    BY <1>4, <2>1 DEF Select, After, Svcs
  <2>2. CASE s = "active"
    <3>1. svcs' = [x \in Svcs |-> l]
      BY <1>4, <2>2 DEF Select, Svcs
    <3>2. QED
      BY <1>4, <2>2, <3>1 DEF Select, After, NextPass, PointsTo, Svcs
  <2>3. QED
    BY <2>1, <2>2 DEF Svcs
<1>5. CASE ReadPeers
  BY <1>5 DEF ReadPeers
<1>6. CASE Reconcile
  <2>1. /\ ci = l /\ svcs["core"] = l /\ svcs["active"] = l
        /\ cpc = "peer" /\ svcs' = svcs
    BY <1>6 DEF Reconcile
  <2>2. peers' = IF snap[cj] = Wanted(cj, l) THEN peers
                 ELSE [peers EXCEPT ![cj] = Wanted(cj, l)]
    BY <1>6, <2>1 DEF Reconcile, Wanted
  <2>3. /\ peers'[cj] = Wanted(cj, l)
        /\ \A m \in Members : m # cj => peers'[m] = peers[m]
        /\ peers' \in [Members -> Peers] /\ DOMAIN peers' = Members
    <3>1. snap[cj] = peers[cj]
      BY <2>1
    <3>2. Wanted(cj, l) \in Peers
      BY DEF Wanted, Peers
    <3>3. QED
      BY <2>2, <3>1, <3>2
  <2>4. \A m \in Members : m <= cj => peers'[m] = Wanted(m, l)
    BY <2>1, <2>3
  <2>5. \A m \in Members : Wanted(m, l)' = Wanted(m, l)
    BY DEF Wanted
  <2>6. CASE cj + 1 \in Members
    <3>1. cj' = cj + 1 /\ UNCHANGED <<cpc, ci, snap>>
      BY <1>6, <2>6 DEF Reconcile, NextPeer
    <3>2. \A m \in Members : IF m < cj' THEN peers'[m] = Wanted(m, l)'
                                         ELSE snap'[m] = peers'[m]
      BY <2>1, <2>3, <2>4, <2>5, <3>1
    <3>3. QED
      BY <2>1, <3>1, <3>2
  <2>7. CASE cj + 1 \notin Members
    <3>1. \A m \in Members : peers'[m] = Wanted(m, l)'
      BY <2>4, <2>5, <2>7
    <3>2. svcs = [s \in Svcs |-> l]
      BY <2>1 DEF Svcs
    <3>3. peers' = [m \in Members |-> Wanted(m, l)']
      BY <2>3, <3>1
    <3>4. cpc' = "scan"
      BY <1>6, <2>7 DEF Reconcile, NextPeer, NextPass
    <3>5. QED
      BY <2>1, <3>2, <3>3, <3>4 DEF PointsTo
  <2>8. QED
    BY <2>6, <2>7
<1>7. QED
  BY <1>1, <1>2, <1>3, <1>4, <1>5, <1>6 DEF ControllerStep

\* A pass of the controller that found l and is not disturbed points the Services
\* and the peers to l when it ends, whatever had drifted before it began.
THEOREM PassRepairs ==
  Spec => [][\A l \in Members : Calm(l) /\ Behind(l) =>
               Behind(l)' /\ (cpc # "scan" /\ cpc' = "scan" => PointsTo(l)')]_vars
<1> DEFINE Repairs == \A l \in Members : Calm(l) /\ Behind(l) =>
                        Behind(l)' /\ (cpc # "scan" /\ cpc' = "scan" => PointsTo(l)')
<1>1. IInv /\ [Next]_vars => [Repairs]_vars
  <2> SUFFICES ASSUME IInv, [Next]_vars, NEW l \in Members, Calm(l), Behind(l)
               PROVE  Behind(l)' /\ (cpc # "scan" /\ cpc' = "scan" => PointsTo(l)')
    OBVIOUS
  <2>1. CASE ControllerStep
    BY <2>1, CalmSteps, ControllerRepairs
  <2>2. CASE UNCHANGED controller
    BY <2>2, CalmSteps DEF Behind, Wanted
  <2>3. QED
    BY <2>1, <2>2, CalmSteps DEF GatewayStep, GatewayAsks, GatewayFindsNobody, Route,
                                 Gateway, PhoneStep, PhoneAsks, PhoneMatches,
                                 PhoneFindsNone, Script
<1>2. QED
  BY <1>1, Invariance, PTL DEF Spec

\* The same of the gateway: a pass that ends at its second route has both via l.
THEOREM RoutesRepaired ==
  Spec => [][\A l \in Members : Calm(l) /\ (gpc # "scan" => gi = l) =>
               /\ (gpc # "scan" => gi = l)'
               /\ gpc = "internet" /\ gpc' = "scan" => routes' = [n \in Nets |-> l]]_vars
<1> DEFINE Routed == \A l \in Members : Calm(l) /\ (gpc # "scan" => gi = l) =>
               /\ (gpc # "scan" => gi = l)'
               /\ gpc = "internet" /\ gpc' = "scan" => routes' = [n \in Nets |-> l]
<1>1. IInv /\ [Next]_vars => [Routed]_vars
  <2> SUFFICES ASSUME IInv, [Next]_vars, NEW l \in Members, Calm(l),
                      gpc # "scan" => gi = l
               PROVE  /\ (gpc # "scan" => gi = l)'
                      /\ gpc = "internet" /\ gpc' = "scan" => routes' = [n \in Nets |-> l]
    OBVIOUS
  <2>1. CASE GatewayAsks
    BY <2>1 DEF GatewayAsks, GatewayPass, Calm
  <2>2. CASE GatewayFindsNobody
    BY <2>2 DEF GatewayFindsNobody, GatewayPass
  <2>3. ASSUME NEW n \in Nets, Route(n)
        PROVE  /\ (gpc # "scan" => gi = l)'
               /\ gpc = "internet" /\ gpc' = "scan" => routes' = [x \in Nets |-> l]
    <3>1. CASE n = "ims"
      BY <2>3, <3>1 DEF Route, Nets
    <3>2. CASE n = "internet"
      BY <2>3, <3>2 DEF Route, GatewayPass, IInv, TypeOK, ScanInv, Nets
    <3>3. QED
      BY <3>1, <3>2 DEF Nets
  <2>4. CASE UNCHANGED gateway
    BY <2>4
  <2>5. QED
    BY <2>1, <2>2, <2>3, <2>4, CalmSteps
    DEF GatewayStep, ControllerStep, Ask, NobodyFound, Resolve, ReadPeers, Reconcile,
        Select, Controller, PhoneStep, PhoneAsks, PhoneMatches, PhoneFindsNone, Script
<1>2. QED
  BY <1>1, Invariance, PTL DEF Spec

\* Once everything points to l, with nothing on its way that leads elsewhere, it
\* stays so: no calm step of any script undoes what another one has done.
THEOREM StaysFollowed ==
  Spec => [][\A l \in Members : Calm(l) /\ OnCourse(l) /\ FollowedBy(l) =>
               OnCourse(l)' /\ FollowedBy(l)']_vars
<1> DEFINE Stays == \A l \in Members : Calm(l) /\ OnCourse(l) /\ FollowedBy(l) =>
                      OnCourse(l)' /\ FollowedBy(l)'
<1>1. IInv /\ [Next]_vars => [Stays]_vars
  <2> SUFFICES ASSUME IInv, [Next]_vars, NEW l \in Members, Calm(l), OnCourse(l),
                      FollowedBy(l)
               PROVE  OnCourse(l)' /\ FollowedBy(l)'
    OBVIOUS
  <2> USE DEF OnCourse, FollowedBy
  <2>1. UNCHANGED <<parts, ip>>
    BY CalmSteps
  <2>2. CASE ControllerStep
    <3>1. "controller" \in parts /\ UNCHANGED <<gateway, script>>
      BY <2>2 DEF ControllerStep, Ask, NobodyFound, Resolve, ReadPeers, Reconcile,
                  Select, Controller
    <3>2. cpc' # "scan" => ci' = l
      BY <2>2 DEF ControllerStep, Ask, NobodyFound, Resolve, ReadPeers, Reconcile,
                  Select, NextPass, NextPeer, After, Calm, Svcs
    <3>3. svcs' = svcs
      BY <2>2, <3>1 DEF ControllerStep, Ask, NobodyFound, Resolve, ReadPeers, Reconcile,
                        Select, Svcs
    <3>4. "peers" \in parts => peers' = peers
      BY <2>2, <3>1 DEF ControllerStep, Ask, NobodyFound, Resolve, ReadPeers, Reconcile,
                        Select, Svcs, IInv, TypeOK
    <3>5. QED
      BY <2>1, <3>1, <3>2, <3>3, <3>4
  <2>3. CASE GatewayStep
    <3>1. "gateway" \in parts /\ UNCHANGED <<controller, script>>
      BY <2>3 DEF GatewayStep, GatewayAsks, GatewayFindsNobody, Route, Gateway
    <3>2. (gpc' # "scan" => gi' = l) /\ routes' = routes
      BY <2>3, <3>1 DEF GatewayStep, GatewayAsks, GatewayFindsNobody, Route, GatewayPass,
                        Calm, Nets
    <3>3. QED
      BY <2>1, <3>1, <3>2
  <2>4. CASE PhoneStep
    BY <2>1, <2>4 DEF PhoneStep, PhoneAsks, PhoneMatches, PhoneFindsNone, Script
  <2>5. CASE UNCHANGED <<controller, gateway, script>>
    BY <2>1, <2>5
  <2>6. QED
    BY <2>2, <2>3, <2>4, <2>5, CalmSteps
<1>2. QED
  BY <1>1, Invariance, PTL DEF Spec

-----------------------------------------------------------------------------
(* The refinement of Follower: by the controller, the gateway and start.sh *)

\* What is counted as an upset.
Upsets ==
  \/ Upgrade \/ AskFails \/ ReconcileFails \/ ControllerEnds
  \/ GatewayAskFails \/ GatewayReplaced \/ PhoneEnds
  \/ \E m \in Members : PodMoves(m) \/ JobWrites(m)
  \/ \E s \in Svcs : SelectFails(s)
  \/ \E n \in Nets : RouteFails(n)

LEMMA Steps ==
  ASSUME Next
  PROVE  LeadershipMoves \/ Upsets \/ ControllerStep \/ GatewayStep \/ PhoneStep
BY DEF Next, Upsets

LEMMA UpsetSteps ==
  ASSUME IInv, Upsets
  PROVE  upsets' = upsets + 1 /\ claims' \in SUBSET Members
BY DEF Upsets, Upgrade, AskFails, ReconcileFails, ControllerEnds, GatewayAskFails,
       GatewayReplaced, PhoneEnds, PodMoves, JobWrites, SelectFails, RouteFails, Upset,
       IInv, TypeOK

\* What each kind of step leaves alone.
LEMMA Apart ==
  /\ ControllerStep => UNCHANGED <<core, gateway, script>>
  /\ GatewayStep => UNCHANGED <<core, controller, script>>
  /\ PhoneStep => UNCHANGED <<core, controller, gateway>>
  /\ LeadershipMoves => UNCHANGED <<upsets, controller, gateway, script>>
<1>1. ControllerStep => UNCHANGED <<core, gateway, script>>
  BY DEF ControllerStep, Ask, NobodyFound, Resolve, ReadPeers, Reconcile, Select,
         Controller
<1>2. GatewayStep => UNCHANGED <<core, controller, script>>
  BY DEF GatewayStep, GatewayAsks, GatewayFindsNobody, Route, Gateway
<1>3. PhoneStep => UNCHANGED <<core, controller, gateway>>
  BY DEF PhoneStep, PhoneAsks, PhoneMatches, PhoneFindsNone, Script
<1>4. QED
  BY <1>1, <1>2, <1>3 DEF LeadershipMoves

\* Every upset is one to the three of them: a pass goes on with the member it has
\* found, or ends; only an upgrade moves a selector, and a lost Pod its routes.
LEMMA UpsetPasses ==
  ASSUME IInv, Upsets
  PROVE  /\ svcs' \in [Svcs -> Members]
         /\ cpc' # "scan" => cpc # "scan" /\ ci' = ci
         /\ gpc' # "scan" => gpc # "scan" /\ gi' = gi
         /\ \/ routes' = routes /\ gpc = "scan" /\ gpc' = "scan" /\ last' = last
            \/ routes' = routes /\ (gpc' = "scan" => last' = None)
            \/ routes' = routes /\ gpc' # "scan"
            \/ routes' \in [Nets -> Members \cup {None}] /\ gpc' = "scan" /\ last' = None
         /\ asked' \in {asked, None} /\ phone' \in {phone, None}
<1> USE DEF IInv, TypeOK
<1>1. CASE Upgrade \/ \E m \in Members : PodMoves(m) \/ JobWrites(m)
  BY <1>1 DEF Upgrade, PodMoves, JobWrites
<1>2. CASE AskFails \/ ReconcileFails \/ ControllerEnds \/ \E s \in Svcs : SelectFails(s)
  BY <1>2 DEF AskFails, ReconcileFails, ControllerEnds, SelectFails, Controller, NextPass,
              NextPeer, After, Svcs
<1>3. CASE GatewayAskFails \/ GatewayReplaced \/ \E n \in Nets : RouteFails(n)
  BY <1>3 DEF GatewayAskFails, GatewayReplaced, RouteFails, Gateway, GatewayPass
<1>4. CASE PhoneEnds
  BY <1>4 DEF PhoneEnds, Script
<1>5. QED
  BY <1>1, <1>2, <1>3, <1>4 DEF Upsets

LEMMA ServicesInit == Init => OfServices!Init
BY DEF Init, OfServices!Init, OfServices!Pointings

LEMMA ServicesFollow ==
  ASSUME IInv, Next
  PROVE  [OfServices!Next]_(OfServices!vars)
<1> USE DEF IInv, TypeOK
<1>1. cpc # "scan" => ci # None
  BY DEF ScanInv
<1>2. CASE LeadershipMoves
  BY <1>2, Apart DEF LeadershipMoves, OfServices!Next, OfServices!Moves
<1>3. CASE Upsets
  <2>1. svcs' \in OfServices!Pointings
    BY <1>3, UpsetPasses DEF OfServices!Pointings
  <2>2. QED
    BY <1>3, <2>1, UpsetPasses, UpsetSteps DEF OfServices!Next, OfServices!Disturbed
<1>4. CASE ControllerStep
  <2>1. CASE Ask
    BY <2>1 DEF Ask, OfServices!Next, OfServices!Hears, OfServices!vars
  <2>2. CASE NobodyFound \/ Resolve \/ ReadPeers
    BY <2>2 DEF NobodyFound, Resolve, ReadPeers, NextPass, OfServices!vars
  <2>3. CASE Reconcile
    BY <1>1, <2>3 DEF Reconcile, NextPeer, NextPass, OfServices!Next, OfServices!GivesUp,
                      OfServices!vars
  <2>4. ASSUME NEW s \in Svcs, Select(s) PROVE OfServices!PointsTo(s)
    BY <1>1, <2>4 DEF Select, After, NextPass, Svcs, OfServices!PointsTo
  <2>5. QED
    BY <1>4, <2>1, <2>2, <2>3, <2>4 DEF ControllerStep, OfServices!Next
<1>5. CASE GatewayStep \/ PhoneStep
  BY <1>5, Apart DEF OfServices!vars
<1>6. QED
  BY <1>2, <1>3, <1>4, <1>5, Steps

LEMMA RoutesInit == Init => OfRoutes!Init
BY DEF Init, OfRoutes!Init, OfRoutes!Pointings

LEMMA RoutesFollow ==
  ASSUME IInv, Next
  PROVE  [OfRoutes!Next]_(OfRoutes!vars)
<1> USE DEF IInv, TypeOK
<1>1. gpc # "scan" => gi \in Members /\ gi # None
  BY DEF ScanInv
<1>2. CASE LeadershipMoves
  BY <1>2, Apart DEF LeadershipMoves, OfRoutes!Next, OfRoutes!Moves
<1>3. CASE Upsets
  BY <1>3, UpsetPasses, UpsetSteps
  DEF OfRoutes!Next, OfRoutes!Disturbed, OfRoutes!Pointings
<1>4. CASE GatewayStep
  <2>1. CASE GatewayAsks
    BY <2>1 DEF GatewayAsks, GatewayPass, OfRoutes!Next, OfRoutes!Hears, OfRoutes!vars
  <2>2. CASE GatewayFindsNobody
    BY <2>2 DEF GatewayFindsNobody, GatewayPass, OfRoutes!vars
  <2>3. ASSUME NEW n \in Nets, Route(n) PROVE OfRoutes!PointsTo(n)
    <3>1. gpc # "scan" /\ routes' = [routes EXCEPT ![n] = gi] /\ UNCHANGED core
      BY <2>3 DEF Route, Nets
    <3>2. CASE n = "ims"
      <4>1. gpc' # "scan" /\ gi' = gi
        BY <2>3, <3>2 DEF Route
      <4>2. QED
        BY <1>1, <3>1, <4>1 DEF OfRoutes!PointsTo
    <3>3. CASE n # "ims"
      <4>1. gpc' = "scan" /\ last' = gi
        BY <2>3, <3>3 DEF Route, GatewayPass
      <4>2. \A u \in Nets : routes'[u] = gi
        BY <2>3, <3>1, <3>3 DEF Route, ScanInv, Nets
      <4>3. QED
        BY <1>1, <3>1, <4>1, <4>2 DEF OfRoutes!PointsTo
    <3>4. QED
      BY <3>2, <3>3
  <2>4. QED
    BY <1>4, <2>1, <2>2, <2>3 DEF GatewayStep, OfRoutes!Next
<1>5. CASE ControllerStep \/ PhoneStep
  BY <1>5, Apart DEF OfRoutes!vars
<1>6. QED
  BY <1>2, <1>3, <1>4, <1>5, Steps

LEMMA PhoneInit == Init => OfPhone!Init
BY DEF Init, OfPhone!Init, OfPhone!Pointings

\* The Service it follows is moved by the controller.
LEMMA PhoneFollows ==
  ASSUME IInv, Next
  PROVE  [OfPhone!Next]_(OfPhone!vars)
<1> USE DEF IInv, TypeOK
<1>1. CASE LeadershipMoves
  BY <1>1, Apart DEF OfPhone!vars
<1>2. CASE Upsets
  <2>1. {svcs'["active"]} \in SUBSET Members
    BY <1>2, UpsetPasses DEF Svcs
  <2>2. [t \in {"phone"} |-> phone'] \in OfPhone!Pointings
    BY <1>2, UpsetPasses DEF OfPhone!Pointings
  <2>3. QED
    BY <1>2, <2>1, <2>2, UpsetPasses, UpsetSteps DEF OfPhone!Next, OfPhone!Disturbed
<1>3. CASE ControllerStep
  <2>1. {svcs'["active"]} \in SUBSET Members
    <3>1. svcs' \in [Svcs -> Members]
      BY <1>3, ControllerKeeps
    <3>2. QED
      BY <3>1 DEF Svcs
  <2>2. QED
    BY <1>3, <2>1, Apart DEF OfPhone!Next, OfPhone!Moves
<1>4. CASE PhoneStep
  <2>1. CASE PhoneAsks
    BY <2>1 DEF PhoneAsks, Script, OfPhone!Next, OfPhone!Hears
  <2>2. CASE PhoneMatches
    <3>1. CASE phone \in {None, asked}
      BY <2>2, <3>1 DEF PhoneMatches, Script, OfPhone!Next, OfPhone!PointsTo
    <3>2. CASE phone \notin {None, asked}
      BY <2>2, <3>2 DEF PhoneMatches, Script, OfPhone!Next, OfPhone!Releases
    <3>3. QED
      BY <3>1, <3>2
  <2>3. CASE PhoneFindsNone
    BY <2>3 DEF PhoneFindsNone, Script, OfPhone!Next, OfPhone!GivesUp
  <2>4. QED
    BY <1>4, <2>1, <2>2, <2>3 DEF PhoneStep
<1>5. CASE GatewayStep
  BY <1>5, Apart DEF OfPhone!vars
<1>6. QED
  BY <1>1, <1>2, <1>3, <1>4, <1>5, Steps

\* Each of the three loops implements Follower, for any number of members and of
\* upsets: it points its targets only to whom it has heard in the same pass, and
\* records only what it has achieved.
THEOREM PromiseKept == Spec => FollowersKeepPromise
<1>1. /\ IInv /\ [Next]_vars => [OfServices!Next]_(OfServices!vars)
      /\ IInv /\ [Next]_vars => [OfRoutes!Next]_(OfRoutes!vars)
      /\ IInv /\ [Next]_vars => [OfPhone!Next]_(OfPhone!vars)
  <2>1. UNCHANGED vars =>
          UNCHANGED <<OfServices!vars, OfRoutes!vars, OfPhone!vars>>
    BY DEF vars, OfServices!vars, OfRoutes!vars, OfPhone!vars
  <2>2. QED
    BY <2>1, ServicesFollow, RoutesFollow, PhoneFollows
<1>2. QED
  BY <1>1, ServicesInit, RoutesInit, PhoneInit, Invariance, PTL
  DEF Spec, FollowersKeepPromise, OfServices!Spec, OfRoutes!Spec, OfPhone!Spec
=============================================================================
