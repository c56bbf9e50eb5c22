---------------------------- MODULE CoreBootstrap ----------------------------
(***************************************************************************)
(* The bootstrap Job of the ella-core chart (bootstrap.py): an attempt     *)
(* initialises the first Core, joins the other members, and provisions the *)
(* Core and the IMS through their APIs; the Job makes up to BackoffLimit+1 *)
(* attempts, each from the start, until its time is over.  What was        *)
(* written stays written.                                                  *)
(*                                                                         *)
(* Every step is one API call, or a check and the write that follows it;   *)
(* an attempt may die between any two steps, which also stands for a       *)
(* failed call and for one whose answer is lost.  Reading a data network   *)
(* and writing it are two steps, as UEs and operators act in between.      *)
(* The Core and the IMS are external.                                      *)
(***************************************************************************)
EXTENDS Naturals, Sequences

CONSTANTS Count,         \* REPLICAS; member 0 is initialised first
          Networks,      \* data networks: internet, and ims if services are on
          Subscribers,   \* the lab subscribers
          BackoffLimit,  \* of the Job: 4
          MaxUpgrades,   \* bound: later releases
          Provisions,    \* the values of PROVISION
          Reconciles,    \* the values of RECONCILE_DATA_NETWORKS
          Edits          \* whether an operator edits networks in the UI

ASSUME BoundsAssumption ==
  /\ Count \in Nat \ {0} /\ Networks \in {1, 2}
  /\ Subscribers \cap {"profile", "slice"} = {}
  /\ BackoffLimit \in Nat /\ MaxUpgrades \in Nat
  /\ Provisions \subseteq BOOLEAN /\ Reconciles \subseteq BOOLEAN
  /\ Edits \in BOOLEAN

VARIABLES
  members,    \* the initialised members of the Core cluster
  leader,     \* its leader
  named,      \* the members whose display name was set
  nat,        \* the Core does NAT itself
  pools,      \* the pool of each data network: not there, the Core's default,
              \* as the release asks, or something else
  policies,   \* the networks that have a policy
  items,      \* the profile, the slice and the subscribers that exist
  peers,      \* the IMS's Diameter peers, in the order of their ids
  sessions,   \* the networks UEs have sessions on
  pc,         \* where the attempt is
  i,          \* the index of its loop
  core,       \* its CORE
  fresh,      \* its FRESH
  existed,    \* whether member 0 was initialised when the attempt began (history)
  seen,       \* what it read of a data network
  provision, reconcile,   \* the settings of the release
  attempts,   \* attempts of the Job that have failed
  faults,     \* those of them that died
  job,        \* "running", "succeeded", "failed" or "overdue"
  upgrades    \* releases after the first

cluster == <<members, leader, named>>
data    == <<nat, pools, policies, items, peers>>
attempt == <<pc, i, core, fresh, existed, seen>>
release == <<provision, reconcile, attempts, faults, job, upgrades>>
vars    == <<cluster, data, sessions, attempt, release>>

All      == 0..Count - 1
Nets     == 1..Networks
Services == Networks = 2
Basics   == <<"profile", "slice">>
Pool     == {"none", "seeded", "requested", "other"}

TypeOK ==
  /\ members \in SUBSET All /\ named \in SUBSET members
  /\ leader \in members \cup {0}
  /\ nat \in BOOLEAN
  /\ pools \in [Nets -> Pool]
  /\ policies \in SUBSET Nets
  /\ items \in SUBSET ({"profile", "slice"} \cup Subscribers)
  /\ peers \in Seq(All) /\ Len(peers) <= Count
  /\ sessions \in SUBSET { k \in policies : pools[k] # "none" }
  /\ pc \in {"status", "auth", "join", "names", "basics", "read", "write",
             "policy", "peers", "subscribers"}
  /\ i \in 0..Count + 2
  /\ core \in All /\ fresh \in BOOLEAN /\ existed \in BOOLEAN
  /\ seen \in [pool : Pool, busy : BOOLEAN]
  /\ provision \in BOOLEAN /\ reconcile \in BOOLEAN
  /\ attempts \in 0..BackoffLimit + 1 /\ faults \in Nat /\ faults <= attempts
  /\ job \in {"running", "succeeded", "failed", "overdue"}
  /\ upgrades \in 0..MaxUpgrades

Nothing == [pool |-> "none", busy |-> FALSE]

Init ==
  /\ members = {} /\ leader = 0 /\ named = {}
  /\ nat = TRUE
  /\ pools = [k \in Nets |-> "none"]
  /\ policies = {} /\ items = {} /\ peers = <<>>
  /\ sessions = {}
  /\ pc = "status" /\ i = 0 /\ core = 0 /\ fresh = FALSE /\ existed = FALSE
  /\ seen = Nothing
  /\ provision \in Provisions /\ reconcile \in Reconciles
  /\ attempts = 0 /\ faults = 0 /\ job = "running" /\ upgrades = 0

-----------------------------------------------------------------------------
(* Around the Job *)

LeaderMoves ==
  /\ \E m \in members : m # leader /\ leader' = m
  /\ UNCHANGED <<members, named, data, sessions, attempt, release>>

\* UEs of the lab subscribers open and close sessions on provisioned networks.
Attach ==
  /\ \E k \in policies : /\ pools[k] # "none" /\ items \cap Subscribers # {}
                         /\ sessions' \in {sessions \cup {k}, sessions \ {k}}
  /\ sessions' # sessions
  /\ UNCHANGED <<cluster, data, attempt, release>>

\* The UI lets an operator change a network.
EditNetwork ==
  /\ Edits
  /\ \E k \in Nets : /\ pools[k] \in {"seeded", "requested"} /\ k \notin sessions
                     /\ pools' = [pools EXCEPT ![k] = "other"]
  /\ UNCHANGED <<cluster, nat, policies, items, peers, sessions, attempt, release>>

NewAttempt ==
  /\ pc' = "status" /\ i' = 0 /\ core' = 0 /\ fresh' = FALSE /\ seen' = Nothing
  /\ existed' = (0 \in members)

\* The attempt ends; the Job makes another one or fails.
AttemptFails ==
  /\ NewAttempt
  /\ attempts' = attempts + 1
  /\ job' = IF attempts = BackoffLimit THEN "failed" ELSE "running"
  /\ UNCHANGED <<provision, reconcile, upgrades>>

Dies ==
  /\ job = "running"
  /\ faults' = faults + 1
  /\ AttemptFails
  /\ UNCHANGED <<cluster, data, sessions>>

\* The Job has been active for too long: its attempt is ended and no other made.
Overdue ==
  /\ job = "running" /\ job' = "overdue"
  /\ NewAttempt
  /\ UNCHANGED <<cluster, data, sessions, provision, reconcile, attempts, faults,
                 upgrades>>

\* helm upgrade: a new Job, that may ask for other pools.
Upgrade ==
  /\ job # "running" /\ upgrades < MaxUpgrades
  /\ \E changed \in BOOLEAN :
       pools' = [k \in Nets |-> IF changed /\ pools[k] = "requested"
                                THEN "other" ELSE pools[k]]
  /\ provision' \in Provisions /\ reconcile' \in Reconciles
  /\ NewAttempt
  /\ attempts' = 0 /\ faults' = 0 /\ job' = "running"
  /\ upgrades' = upgrades + 1
  /\ UNCHANGED <<cluster, nat, policies, items, peers, sessions>>

-----------------------------------------------------------------------------
(* The attempt: the cluster *)

At(l)   == job = "running" /\ pc = l
Goto(l) == pc' = l /\ i' = 0 /\ seen' = Nothing /\ UNCHANGED <<core, fresh, existed>>
Advance == i' = i + 1 /\ UNCHANGED <<pc, core, fresh, existed, seen>>

\* Fault: the first attempt of a release takes the Core for a new one.
Status_FirstIsFresh ==
  /\ At("status")
  /\ fresh' = (attempts = 0)
  /\ core' = 0
  /\ pc' = "auth"
  /\ UNCHANGED <<cluster, data, sessions, i, existed, seen, release>>

\* The status of member 0, and a look for the leader of an existing cluster:
\* member 0 is used when it moves away from where it is looked for.
Status ==
  /\ At("status")
  /\ fresh' = (0 \notin members)
  /\ core' \in IF Count > 1 /\ 0 \in members THEN {0, leader} ELSE {0}
  /\ pc' = "auth"
  /\ UNCHANGED <<cluster, data, sessions, i, existed, seen, release>>

\* POST init creates a cluster, seeds it and answers with a token.
InitCore ==
  /\ At("auth") /\ fresh
  /\ members' = {core} /\ leader' = core
  /\ pools' = [pools EXCEPT ![1] = "seeded"]
  /\ Goto("join")
  /\ UNCHANGED <<named, nat, policies, items, peers, sessions, release>>

Login ==
  /\ At("auth") /\ ~fresh
  /\ Goto("join")
  /\ UNCHANGED <<cluster, data, sessions, release>>

\* Fault: every follower is told to join, and one that has joined refuses.
Join_Always ==
  /\ At("join") /\ i < Count
  /\ IF i = core \/ i \notin members
     THEN members' = members \cup {i} /\ Advance /\ UNCHANGED release
     ELSE AttemptFails /\ UNCHANGED <<members, faults>>
  /\ UNCHANGED <<leader, named, data, sessions>>

\* Each follower: a token and the join, unless it is initialised, and a wait.
Join ==
  /\ At("join") /\ i < Count
  /\ members' = members \cup {i}
  /\ Advance
  /\ UNCHANGED <<leader, named, data, sessions, release>>

\* until all members are voters
Voters ==
  /\ At("join") /\ i = Count
  /\ members = All
  /\ Goto("names")
  /\ UNCHANGED <<cluster, data, sessions, release>>

\* A standalone Core has no display name.
SetName ==
  /\ At("names") /\ i < Count
  /\ named' = IF Count > 1 THEN named \cup {i} ELSE named
  /\ Advance
  /\ UNCHANGED <<members, leader, data, sessions, release>>

\* The lab N6 gateway takes over NAT (N6_GATEWAY_ENABLED); then provisioning, or the end.
DisableNat ==
  /\ At("names") /\ i = Count
  /\ nat' = FALSE
  /\ IF provision
     THEN Goto("basics") /\ UNCHANGED release
     ELSE /\ job' = "succeeded" /\ NewAttempt
          /\ UNCHANGED <<provision, reconcile, attempts, faults, upgrades>>
  /\ UNCHANGED <<cluster, pools, policies, items, peers, sessions>>

-----------------------------------------------------------------------------
(* The attempt: provisioning *)

\* operator settings, ensure(profile) and ensure(slice)
EnsureBasic ==
  /\ At("basics")
  /\ items' = items \cup {Basics[i + 1]}
  /\ IF i + 1 < Len(Basics) THEN Advance ELSE Goto("read")
  /\ UNCHANGED <<cluster, nat, pools, policies, peers, sessions, release>>

net == i + 1

ReadNetwork ==
  /\ At("read") /\ net \in Nets
  /\ seen' = [pool |-> pools[net], busy |-> net \in sessions]
  /\ pc' = "write"
  /\ UNCHANGED <<cluster, data, sessions, i, core, fresh, existed, release>>

\* Fault: the release's pools are written on every run.
Replaces_Always == seen.pool \notin {"none", "requested"}

Replaces == (fresh \/ reconcile) /\ seen.pool \notin {"none", "requested"}

\* POST for a missing network, PUT for one to be replaced.
WriteNetwork ==
  /\ At("write")
  /\ ~(Replaces /\ seen.busy)
  /\ pools' = IF seen.pool = "none" \/ Replaces
              THEN [pools EXCEPT ![net] = "requested"] ELSE pools
  /\ pc' = "policy" /\ seen' = Nothing
  /\ UNCHANGED <<cluster, nat, policies, items, peers, sessions, i, core, fresh,
                 existed, release>>

\* "Detach UEs before changing the IP pool"
RefuseNetwork ==
  /\ At("write")
  /\ Replaces /\ seen.busy
  /\ AttemptFails
  /\ UNCHANGED <<cluster, data, sessions, faults>>

EnsurePolicy ==
  /\ At("policy")
  /\ policies' = policies \cup {net}
  /\ pc' = "read" /\ i' = i + 1
  /\ UNCHANGED <<cluster, nat, pools, items, peers, sessions, core, fresh,
                 existed, seen, release>>

\* The SMS and IMS settings are plain PUTs and come with the first peer.
NetworksDone ==
  /\ At("read") /\ net \notin Nets
  /\ Goto(IF Services THEN "peers" ELSE "subscribers")
  /\ UNCHANGED <<cluster, data, sessions, release>>

\* Fault: peers are always created.
PeersWith_Post(m) == Append(peers, m)

\* PUT over the peer with that index, POST when there are not so many.
PeersWith(m) ==
  IF m < Len(peers) THEN [peers EXCEPT ![m + 1] = m] ELSE Append(peers, m)

SetPeer ==
  /\ At("peers")
  /\ peers' = PeersWith(i)
  /\ IF i + 1 < Count THEN Advance ELSE Goto("subscribers")
  /\ UNCHANGED <<cluster, nat, pools, policies, items, sessions, release>>

\* The list of the subscribers is read once, its first 100: the Core has no more.
AddSubscriber ==
  /\ At("subscribers")
  /\ \E s \in Subscribers \ items : items' = items \cup {s}
  /\ UNCHANGED <<cluster, nat, pools, policies, peers, sessions, attempt, release>>

Succeed ==
  /\ At("subscribers")
  /\ Subscribers \subseteq items
  /\ job' = "succeeded" /\ NewAttempt
  /\ UNCHANGED <<cluster, data, sessions, provision, reconcile, attempts, faults,
                 upgrades>>

Attempt ==
  \/ Status \/ InitCore \/ Login \/ Join \/ Voters \/ SetName \/ DisableNat
  \/ EnsureBasic \/ ReadNetwork \/ WriteNetwork \/ RefuseNetwork \/ EnsurePolicy
  \/ NetworksDone \/ SetPeer \/ AddSubscriber \/ Succeed

Next == LeaderMoves \/ Attach \/ EditNetwork \/ Dies \/ Overdue \/ Upgrade
        \/ Attempt

Spec == Init /\ [][Next]_vars

\* A Pod that does not die runs on.
FairSpec == Spec /\ WF_vars(Attempt)

-----------------------------------------------------------------------------
(* Properties *)

\* A Job that reports success has done everything, whatever its attempts left
\* half done: every member joined, and when provisioning is on every network,
\* policy and subscriber, and one Diameter peer for every Core member.
SuccessIsComplete ==
  job = "succeeded" =>
    /\ members = All /\ (Count > 1 => named = All) /\ ~nat
    /\ provision =>
         /\ \A k \in Nets : pools[k] # "none"
         /\ policies = Nets
         /\ {"profile", "slice"} \cup Subscribers = items
         /\ Services => peers = [n \in 1..Count |-> n - 1]

\* No attempt, retry or upgrade starts a second cluster over a running one.
ClusterKept == [][members \subseteq members']_vars

\* What an operator chose for a data network is kept by every attempt that found an
\* initialised Core, in a retry as in an upgrade, unless the release reconciles.
\* Only the attempt that initialises the Core applies the release's pools, in
\* whichever release that is: the attempts of earlier ones may all have died.
OperatorsNetworkKept ==
  [][\A k \in Nets : pools[k] = "other" /\ pools'[k] # "other" =>
       reconcile \/ ~existed]_vars

\* What earlier attempts left behind makes no later attempt fail: the Job
\* succeeds if one attempt is spared and has the time for it, or refuses to take a
\* pool from a session.
Converges ==
  job = "running" ~>
    \/ job = "succeeded"
    \/ reconcile /\ attempts > faults
    \/ faults > BackoffLimit \/ job = "overdue"

\* ella-stack/README.md:125: "On a fresh Core, provisioning applies the
\* requested data-network pools, including replacing Core's seeded default."
FreshCoreGetsPools ==
  job = "succeeded" /\ provision /\ upgrades = 0 =>
    \A k \in Nets : pools[k] = "requested"
=============================================================================
