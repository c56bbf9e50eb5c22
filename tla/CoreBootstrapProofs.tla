------------------------- MODULE CoreBootstrapProofs -------------------------
(* The bootstrap Job for any number of members, attempts and upgrades.     *)
EXTENDS CoreBootstrap, TLAPS

Provisioning == {"basics", "read", "write", "policy", "peers", "subscribers"}
NetworkSteps == {"read", "write", "policy"}

\* The loop counters, and the attempts that are left.
LoopInv ==
  /\ pc \in {"status", "auth", "subscribers"} => i = 0
  /\ pc \in {"join", "names"} => i <= Count
  /\ pc = "basics" => i <= 1
  /\ pc = "read" => i <= Networks
  /\ pc \in {"write", "policy"} => i < Networks
  /\ pc = "peers" => i < Count
  /\ job = "running" => attempts <= BackoffLimit
  /\ job # "running" => pc = "status"

\* What an attempt believes of member 0 stays true until it acts on it, and
\* every cluster contains member 0.
FreshInv ==
  /\ members = {} \/ 0 \in members
  /\ pc = "auth" => (fresh => core = 0) /\ (fresh <=> 0 \notin members)
  /\ pc \notin {"status", "auth"} => 0 \in members

\* What the attempt has behind it in the cluster ...
ClusterInv ==
  /\ pc = "join" => \A m \in 0..i - 1 : m \in members
  /\ pc \in Provisioning \cup {"names"} => members = All
  /\ pc = "names" /\ Count > 1 => \A m \in 0..i - 1 : m \in named
  /\ pc \in Provisioning => (Count > 1 => named = All) /\ ~nat

\* ... and in the Core's data.
DataInv ==
  /\ pc = "basics" /\ i = 1 => "profile" \in items
  /\ pc \in Provisioning \ {"basics"} => {"profile", "slice"} \subseteq items
  /\ pc \in NetworkSteps => \A k \in 1..i : pools[k] # "none" /\ k \in policies
  /\ pc = "write" /\ seen.pool # "none" => pools[net] # "none"
  /\ pc = "policy" => pools[net] # "none"
  /\ pc \in {"peers", "subscribers"} =>
       \A k \in Nets : pools[k] # "none" /\ k \in policies

\* The peer with index m is the one of member m, whatever attempts came before.
PeersInv ==
  /\ \A n \in 1..Len(peers) : peers[n] = n - 1
  /\ pc = "peers" => i <= Len(peers)
  /\ pc = "subscribers" /\ Services => Len(peers) = Count

IInv == /\ TypeOK /\ LoopInv /\ FreshInv /\ ClusterInv /\ DataInv /\ PeersInv
        /\ SuccessIsComplete

-----------------------------------------------------------------------------
USE BoundsAssumption DEF cluster, data, attempt, release

\* The smallest members of the bounded sets.
LEMMA Bounds ==
  /\ 0 \in All /\ 0 \in 0..Count + 2 /\ Nothing \in [pool : Pool, busy : BOOLEAN]
  /\ 0 \in 0..BackoffLimit + 1 /\ 0 \in 0..MaxUpgrades
  /\ <<>> \in Seq(All) /\ Len(<<>>) = 0
BY DEF All, Nothing, Pool

LEMMA InitIInv == Init => IInv
<1> SUFFICES ASSUME Init PROVE IInv
  OBVIOUS
<1>1. TypeOK
  <2>1. pools \in [Nets -> Pool] /\ seen \in [pool : Pool, busy : BOOLEAN]
    BY Bounds DEF Init, Pool
  <2>2. peers \in Seq(All) /\ Len(peers) <= Count
    BY DEF Init
  <2>3. /\ members \in SUBSET All /\ named \in SUBSET members /\ policies \in SUBSET Nets
        /\ items \in SUBSET ({"profile", "slice"} \cup Subscribers)
        /\ sessions \in SUBSET { k \in policies : pools[k] # "none" }
    BY DEF Init
  <2>4. /\ attempts \in 0..BackoffLimit + 1 /\ faults \in Nat /\ faults <= attempts
        /\ upgrades \in 0..MaxUpgrades /\ i \in 0..Count + 2
    BY DEF Init
  <2>5. QED
    BY <2>1, <2>2, <2>3, <2>4, Bounds DEF Init, TypeOK
<1>2. LoopInv /\ FreshInv /\ ClusterInv
  BY DEF Init, LoopInv, FreshInv, ClusterInv, Provisioning
<1>3. DataInv /\ PeersInv /\ SuccessIsComplete
  BY DEF Init, DataInv, PeersInv, SuccessIsComplete, Provisioning
<1>4. QED
  BY <1>1, <1>2, <1>3 DEF IInv

\* Around the Job.
LEMMA WorldStep ==
  ASSUME IInv, LeaderMoves \/ Attach \/ EditNetwork \/ Dies \/ Overdue \/ Upgrade
  PROVE  IInv'
<1>1. CASE LeaderMoves
  <2>1. TypeOK'
    BY <1>1 DEF LeaderMoves, IInv, TypeOK
  <2>2. LoopInv' /\ FreshInv'
    BY <1>1 DEF LeaderMoves, IInv, LoopInv, FreshInv
  <2>3. ClusterInv'
    BY <1>1 DEF LeaderMoves, IInv, ClusterInv
  <2>4. DataInv'
    BY <1>1 DEF LeaderMoves, IInv, DataInv, net
  <2>5. PeersInv' /\ SuccessIsComplete'
    BY <1>1 DEF LeaderMoves, IInv, PeersInv, SuccessIsComplete
  <2>6. QED
    BY <2>1, <2>2, <2>3, <2>4, <2>5 DEF IInv
<1>2. CASE Attach
  <2>1. TypeOK'
    BY <1>2 DEF Attach, IInv, TypeOK
  <2>2. LoopInv' /\ FreshInv'
    BY <1>2 DEF Attach, IInv, LoopInv, FreshInv
  <2>3. ClusterInv'
    BY <1>2 DEF Attach, IInv, ClusterInv
  <2>4. DataInv'
    BY <1>2 DEF Attach, IInv, DataInv, net
  <2>5. PeersInv' /\ SuccessIsComplete'
    BY <1>2 DEF Attach, IInv, PeersInv, SuccessIsComplete
  <2>6. QED
    BY <2>1, <2>2, <2>3, <2>4, <2>5 DEF IInv
<1>3. CASE EditNetwork
  <2>1. TypeOK'
    BY <1>3 DEF EditNetwork, Pool, IInv, TypeOK
  <2>2. LoopInv' /\ FreshInv'
    BY <1>3 DEF EditNetwork, IInv, LoopInv, FreshInv
  <2>3. ClusterInv'
    BY <1>3 DEF EditNetwork, IInv, ClusterInv
  <2>4. DataInv'
    BY <1>3 DEF EditNetwork, IInv, DataInv, net
  <2>5. PeersInv' /\ SuccessIsComplete'
    BY <1>3 DEF EditNetwork, IInv, PeersInv, SuccessIsComplete
  <2>6. QED
    BY <2>1, <2>2, <2>3, <2>4, <2>5 DEF IInv
<1>4. CASE Dies
  <2>1. TypeOK'
    <3>1. attempts' \in 0..BackoffLimit + 1 /\ faults' \in Nat /\ faults' <= attempts'
      BY <1>4 DEF Dies, AttemptFails, IInv, TypeOK, LoopInv
    <3>2. existed' \in BOOLEAN
      BY <1>4 DEF Dies, AttemptFails, NewAttempt
    <3>3. QED
      BY <1>4, <3>1, <3>2, Bounds DEF Dies, AttemptFails, NewAttempt, IInv, TypeOK
  <2>2. LoopInv' /\ FreshInv'
    BY <1>4 DEF Dies, AttemptFails, NewAttempt, IInv, TypeOK, LoopInv, FreshInv
  <2>3. ClusterInv'
    BY <1>4 DEF Dies, AttemptFails, NewAttempt, IInv, ClusterInv, Provisioning
  <2>4. DataInv'
    BY <1>4 DEF Dies, AttemptFails, NewAttempt, IInv, DataInv, Provisioning
  <2>5. PeersInv' /\ SuccessIsComplete'
    BY <1>4 DEF Dies, AttemptFails, NewAttempt, IInv, PeersInv, SuccessIsComplete
  <2>6. QED
    BY <2>1, <2>2, <2>3, <2>4, <2>5 DEF IInv
<1>5. CASE Upgrade
  <2>1. TypeOK'
    <3>1. /\ pools' \in [Nets -> Pool]
          /\ \A k \in Nets : pools[k] # "none" => pools'[k] # "none"
      BY <1>5 DEF Upgrade, Pool, IInv, TypeOK
    <3>2. sessions' \in SUBSET { k \in policies' : pools'[k] # "none" }
      BY <1>5, <3>1 DEF Upgrade, IInv, TypeOK
    <3>3. upgrades' \in 0..MaxUpgrades /\ provision' \in BOOLEAN /\ reconcile' \in BOOLEAN
      BY <1>5 DEF Upgrade, IInv, TypeOK
    <3>4. existed' \in BOOLEAN
      BY <1>5 DEF Upgrade, NewAttempt
    <3>5. /\ attempts' \in 0..BackoffLimit + 1 /\ faults' \in Nat /\ faults' <= attempts'
          /\ i' \in 0..Count + 2
      BY <1>5 DEF Upgrade, NewAttempt
    <3>6. QED
      BY <1>5, <3>1, <3>2, <3>3, <3>4, <3>5, Bounds DEF Upgrade, NewAttempt, IInv, TypeOK
  <2>2. LoopInv' /\ FreshInv'
    BY <1>5 DEF Upgrade, NewAttempt, IInv, LoopInv, FreshInv
  <2>3. ClusterInv'
    BY <1>5 DEF Upgrade, NewAttempt, IInv, ClusterInv, Provisioning
  <2>4. DataInv'
    BY <1>5 DEF Upgrade, NewAttempt, IInv, DataInv, Provisioning
  <2>5. PeersInv' /\ SuccessIsComplete'
    BY <1>5 DEF Upgrade, NewAttempt, IInv, PeersInv, SuccessIsComplete
  <2>6. QED
    BY <2>1, <2>2, <2>3, <2>4, <2>5 DEF IInv
<1>6. CASE Overdue
  <2>1. TypeOK'
    <3>1. existed' \in BOOLEAN
      BY <1>6 DEF Overdue, NewAttempt
    <3>2. QED
      BY <1>6, <3>1, Bounds DEF Overdue, NewAttempt, IInv, TypeOK
  <2>2. LoopInv' /\ FreshInv'
    BY <1>6 DEF Overdue, NewAttempt, IInv, LoopInv, FreshInv
  <2>3. ClusterInv'
    BY <1>6 DEF Overdue, NewAttempt, IInv, ClusterInv, Provisioning
  <2>4. DataInv'
    BY <1>6 DEF Overdue, NewAttempt, IInv, DataInv, Provisioning
  <2>5. PeersInv' /\ SuccessIsComplete'
    BY <1>6 DEF Overdue, NewAttempt, IInv, PeersInv, SuccessIsComplete
  <2>6. QED
    BY <2>1, <2>2, <2>3, <2>4, <2>5 DEF IInv
<1>7. QED
  BY <1>1, <1>2, <1>3, <1>4, <1>5, <1>6

\* An attempt on the cluster.
LEMMA ClusterStep ==
  ASSUME IInv, Status \/ InitCore \/ Login \/ Join \/ Voters \/ SetName \/ DisableNat
  PROVE  IInv'
<1>1. CASE Status
  <2>1. TypeOK'
    BY <1>1, Bounds DEF Status, IInv, TypeOK
  <2>2. LoopInv' /\ FreshInv'
    BY <1>1 DEF Status, At, IInv, LoopInv, FreshInv
  <2>3. ClusterInv'
    BY <1>1 DEF Status, IInv, ClusterInv, Provisioning
  <2>4. DataInv'
    BY <1>1 DEF Status, IInv, DataInv, Provisioning, NetworkSteps
  <2>5. PeersInv' /\ SuccessIsComplete'
    BY <1>1 DEF Status, IInv, PeersInv, SuccessIsComplete
  <2>6. QED
    BY <2>1, <2>2, <2>3, <2>4, <2>5 DEF IInv
<1>2. CASE InitCore
  <2>1. TypeOK'
    BY <1>2, Bounds DEF InitCore, At, Goto, Pool, IInv, TypeOK, FreshInv
  <2>2. LoopInv' /\ FreshInv'
    BY <1>2 DEF InitCore, At, Goto, IInv, LoopInv, FreshInv
  <2>3. ClusterInv'
    BY <1>2 DEF InitCore, Goto, IInv, ClusterInv, Provisioning
  <2>4. DataInv'
    BY <1>2 DEF InitCore, Goto, IInv, DataInv, Provisioning
  <2>5. PeersInv' /\ SuccessIsComplete'
    BY <1>2 DEF InitCore, At, Goto, IInv, PeersInv, SuccessIsComplete
  <2>6. QED
    BY <2>1, <2>2, <2>3, <2>4, <2>5 DEF IInv
<1>3. CASE Login
  <2>1. TypeOK'
    BY <1>3, Bounds DEF Login, Goto, IInv, TypeOK
  <2>2. LoopInv' /\ FreshInv'
    BY <1>3 DEF Login, At, Goto, IInv, LoopInv, FreshInv
  <2>3. ClusterInv'
    BY <1>3 DEF Login, Goto, IInv, ClusterInv, Provisioning
  <2>4. DataInv'
    BY <1>3 DEF Login, Goto, IInv, DataInv, Provisioning
  <2>5. PeersInv' /\ SuccessIsComplete'
    BY <1>3 DEF Login, Goto, IInv, PeersInv, SuccessIsComplete
  <2>6. QED
    BY <2>1, <2>2, <2>3, <2>4, <2>5 DEF IInv
<1>4. CASE Join
  <2>1. TypeOK'
    BY <1>4 DEF Join, Advance, All, IInv, TypeOK
  <2>2. LoopInv' /\ FreshInv'
    BY <1>4 DEF Join, At, Advance, IInv, TypeOK, LoopInv, FreshInv
  <2>3. ClusterInv'
    BY <1>4 DEF Join, At, Advance, IInv, TypeOK, ClusterInv, Provisioning
  <2>4. DataInv'
    BY <1>4 DEF Join, At, Advance, IInv, DataInv, NetworkSteps
  <2>5. PeersInv' /\ SuccessIsComplete'
    BY <1>4 DEF Join, At, Advance, IInv, PeersInv, SuccessIsComplete
  <2>6. QED
    BY <2>1, <2>2, <2>3, <2>4, <2>5 DEF IInv
<1>5. CASE Voters
  <2>1. TypeOK'
    BY <1>5, Bounds DEF Voters, Goto, IInv, TypeOK
  <2>2. LoopInv' /\ FreshInv'
    BY <1>5 DEF Voters, Goto, IInv, LoopInv, FreshInv
  <2>3. ClusterInv'
    BY <1>5 DEF Voters, Goto, IInv, ClusterInv, Provisioning
  <2>4. DataInv'
    BY <1>5 DEF Voters, Goto, IInv, DataInv, Provisioning
  <2>5. PeersInv' /\ SuccessIsComplete'
    BY <1>5 DEF Voters, Goto, IInv, PeersInv, SuccessIsComplete
  <2>6. QED
    BY <2>1, <2>2, <2>3, <2>4, <2>5 DEF IInv
<1>6. CASE SetName
  <2>1. TypeOK'
    <3>1. i \in All /\ members = All
      BY <1>6 DEF SetName, At, All, IInv, TypeOK, ClusterInv
    <3>2. i' \in 0..Count + 2
      BY <1>6 DEF SetName, Advance, IInv, TypeOK
    <3>3. QED
      BY <1>6, <3>1, <3>2 DEF SetName, Advance, IInv, TypeOK
  <2>2. LoopInv' /\ FreshInv'
    BY <1>6 DEF SetName, At, Advance, IInv, TypeOK, LoopInv, FreshInv
  <2>3. ClusterInv'
    BY <1>6 DEF SetName, At, Advance, IInv, TypeOK, ClusterInv, Provisioning
  <2>4. DataInv'
    BY <1>6 DEF SetName, At, Advance, IInv, DataInv, NetworkSteps
  <2>5. PeersInv' /\ SuccessIsComplete'
    BY <1>6 DEF SetName, At, Advance, IInv, PeersInv, SuccessIsComplete
  <2>6. QED
    BY <2>1, <2>2, <2>3, <2>4, <2>5 DEF IInv
<1>7. CASE DisableNat
  <2>1. TypeOK'
    <3>1. CASE provision
      BY <1>7, <3>1, Bounds DEF DisableNat, At, Goto, IInv, TypeOK
    <3>2. CASE ~provision
      <4>1. existed' \in BOOLEAN
        BY <1>7, <3>2 DEF DisableNat, NewAttempt
      <4>2. QED
        BY <1>7, <3>2, <4>1, Bounds DEF DisableNat, NewAttempt, IInv, TypeOK
    <3>3. QED
      BY <3>1, <3>2
  <2>2. LoopInv' /\ FreshInv'
    BY <1>7 DEF DisableNat, Goto, NewAttempt, IInv, LoopInv, FreshInv
  <2>3. ClusterInv'
    <3>1. members = All /\ (Count > 1 => named = All)
      BY <1>7 DEF DisableNat, At, All, IInv, TypeOK, ClusterInv
    <3>2. QED
      BY <1>7, <3>1 DEF DisableNat, Goto, NewAttempt, ClusterInv
  <2>4. DataInv'
    BY <1>7 DEF DisableNat, Goto, NewAttempt, IInv, DataInv, Provisioning
  <2>5. PeersInv' /\ SuccessIsComplete'
    <3>1. members = All /\ (Count > 1 => named = All)
      BY <1>7 DEF DisableNat, At, All, IInv, TypeOK, ClusterInv
    <3>2. QED
      BY <1>7, <3>1 DEF DisableNat, Goto, NewAttempt, IInv, PeersInv,
                        SuccessIsComplete
  <2>6. QED
    BY <2>1, <2>2, <2>3, <2>4, <2>5 DEF IInv
<1>8. QED
  BY <1>1, <1>2, <1>3, <1>4, <1>5, <1>6, <1>7

\* An attempt that provisions.
LEMMA ProvisionStep ==
  ASSUME IInv,
         \/ EnsureBasic \/ ReadNetwork \/ WriteNetwork \/ RefuseNetwork
         \/ EnsurePolicy \/ NetworksDone \/ SetPeer \/ AddSubscriber \/ Succeed
  PROVE  IInv'
<1>1. CASE EnsureBasic
  <2>1. TypeOK'
    <3>1. i \in {0, 1}
      BY <1>1 DEF EnsureBasic, At, IInv, TypeOK, LoopInv
    <3>2. Basics[i + 1] \in {"profile", "slice"}
      BY <3>1 DEF Basics
    <3>3. items' \in SUBSET ({"profile", "slice"} \cup Subscribers)
      BY <1>1, <3>2 DEF EnsureBasic, IInv, TypeOK
    <3>4. i' \in 0..Count + 2 /\ pc' \in {"basics", "read"}
      BY <1>1, <3>1 DEF EnsureBasic, At, Advance, Goto
    <3>5. UNCHANGED <<core, fresh, existed>> /\ seen' \in [pool : Pool, busy : BOOLEAN]
      BY <1>1, Bounds DEF EnsureBasic, Advance, Goto, IInv, TypeOK
    <3>6. QED
      BY <1>1, <3>3, <3>4, <3>5 DEF EnsureBasic, IInv, TypeOK
  <2>2. LoopInv' /\ FreshInv'
    BY <1>1 DEF EnsureBasic, At, Advance, Goto, Basics, IInv, TypeOK, LoopInv,
                FreshInv
  <2>3. ClusterInv'
    BY <1>1 DEF EnsureBasic, At, Advance, Goto, IInv, ClusterInv, Provisioning
  <2>4. DataInv'
    BY <1>1 DEF EnsureBasic, At, Advance, Goto, Basics, IInv, TypeOK, LoopInv,
                DataInv, NetworkSteps
  <2>5. PeersInv' /\ SuccessIsComplete'
    BY <1>1 DEF EnsureBasic, At, Advance, Goto, IInv, PeersInv, SuccessIsComplete
  <2>6. QED
    BY <2>1, <2>2, <2>3, <2>4, <2>5 DEF IInv
<1>2. CASE ReadNetwork
  <2>1. TypeOK'
    BY <1>2 DEF ReadNetwork, IInv, TypeOK
  <2>2. LoopInv' /\ FreshInv'
    BY <1>2 DEF ReadNetwork, At, net, Nets, IInv, TypeOK, LoopInv, FreshInv
  <2>3. ClusterInv'
    BY <1>2 DEF ReadNetwork, At, IInv, ClusterInv, Provisioning
  <2>4. DataInv'
    BY <1>2 DEF ReadNetwork, At, net, IInv, DataInv, Provisioning, NetworkSteps, net
  <2>5. PeersInv' /\ SuccessIsComplete'
    BY <1>2 DEF ReadNetwork, IInv, PeersInv, SuccessIsComplete
  <2>6. QED
    BY <2>1, <2>2, <2>3, <2>4, <2>5 DEF IInv
<1>3. CASE WriteNetwork
  <2>1. TypeOK'
    <3>1. /\ pools' \in [Nets -> Pool]
          /\ \A k \in Nets : pools[k] # "none" => pools'[k] # "none"
      BY <1>3 DEF WriteNetwork, Pool, IInv, TypeOK
    <3>2. sessions' \in SUBSET { k \in policies' : pools'[k] # "none" }
      BY <1>3, <3>1 DEF WriteNetwork, IInv, TypeOK
    <3>3. QED
      BY <1>3, <3>1, <3>2, Bounds DEF WriteNetwork, IInv, TypeOK
  <2>2. LoopInv' /\ FreshInv'
    BY <1>3 DEF WriteNetwork, At, IInv, LoopInv, FreshInv
  <2>3. ClusterInv'
    BY <1>3 DEF WriteNetwork, At, IInv, ClusterInv, Provisioning
  <2>4. DataInv'
    BY <1>3 DEF WriteNetwork, At, net, IInv, TypeOK, LoopInv, DataInv,
                Provisioning, NetworkSteps, net, Nets
  <2>5. PeersInv' /\ SuccessIsComplete'
    BY <1>3 DEF WriteNetwork, IInv, PeersInv, SuccessIsComplete
  <2>6. QED
    BY <2>1, <2>2, <2>3, <2>4, <2>5 DEF IInv
<1>4. CASE RefuseNetwork
  <2>1. TypeOK'
    <3>1. attempts' \in 0..BackoffLimit + 1 /\ faults' \in Nat /\ faults' <= attempts'
      BY <1>4 DEF RefuseNetwork, At, AttemptFails, IInv, TypeOK, LoopInv
    <3>2. existed' \in BOOLEAN
      BY <1>4 DEF RefuseNetwork, AttemptFails, NewAttempt
    <3>3. QED
      BY <1>4, <3>1, <3>2, Bounds DEF RefuseNetwork, AttemptFails, NewAttempt, IInv,
                                      TypeOK
  <2>2. LoopInv' /\ FreshInv'
    BY <1>4 DEF RefuseNetwork, At, AttemptFails, NewAttempt, IInv, TypeOK,
                LoopInv, FreshInv
  <2>3. ClusterInv'
    BY <1>4 DEF RefuseNetwork, AttemptFails, NewAttempt, IInv, ClusterInv,
                Provisioning
  <2>4. DataInv'
    BY <1>4 DEF RefuseNetwork, AttemptFails, NewAttempt, IInv, DataInv, Provisioning
  <2>5. PeersInv' /\ SuccessIsComplete'
    BY <1>4 DEF RefuseNetwork, AttemptFails, NewAttempt, IInv, PeersInv,
                SuccessIsComplete
  <2>6. QED
    BY <2>1, <2>2, <2>3, <2>4, <2>5 DEF IInv
<1>5. CASE EnsurePolicy
  <2>1. TypeOK'
    BY <1>5 DEF EnsurePolicy, At, net, IInv, TypeOK, LoopInv, Nets
  <2>2. LoopInv' /\ FreshInv'
    BY <1>5 DEF EnsurePolicy, At, IInv, TypeOK, LoopInv, FreshInv
  <2>3. ClusterInv'
    BY <1>5 DEF EnsurePolicy, At, IInv, ClusterInv, Provisioning
  <2>4. DataInv'
    BY <1>5 DEF EnsurePolicy, At, net, IInv, TypeOK, DataInv, Provisioning,
                NetworkSteps, net
  <2>5. PeersInv' /\ SuccessIsComplete'
    BY <1>5 DEF EnsurePolicy, At, IInv, PeersInv, SuccessIsComplete
  <2>6. QED
    BY <2>1, <2>2, <2>3, <2>4, <2>5 DEF IInv
<1>6. CASE NetworksDone
  <2>1. TypeOK'
    BY <1>6, Bounds DEF NetworksDone, Goto, IInv, TypeOK
  <2>2. LoopInv' /\ FreshInv'
    BY <1>6 DEF NetworksDone, At, Goto, IInv, LoopInv, FreshInv
  <2>3. ClusterInv'
    BY <1>6 DEF NetworksDone, At, Goto, IInv, ClusterInv, Provisioning
  <2>4. DataInv'
    BY <1>6 DEF NetworksDone, At, Goto, net, IInv, TypeOK, DataInv, Provisioning,
                NetworkSteps, net, Nets
  <2>5. PeersInv' /\ SuccessIsComplete'
    BY <1>6 DEF NetworksDone, Goto, IInv, PeersInv, SuccessIsComplete
  <2>6. QED
    BY <2>1, <2>2, <2>3, <2>4, <2>5 DEF IInv
<1>7. CASE SetPeer
  <2>1. TypeOK'
    <3>1. i \in All /\ i \in 0..Count - 1
      BY <1>7 DEF SetPeer, At, All, IInv, TypeOK, LoopInv
    <3>2. peers' \in Seq(All) /\ Len(peers') <= Count
      BY <1>7, <3>1 DEF SetPeer, PeersWith, IInv, TypeOK
    <3>3. i' \in 0..Count + 2 /\ pc' \in {"peers", "subscribers"}
      BY <1>7, <3>1 DEF SetPeer, At, Advance, Goto
    <3>4. UNCHANGED <<core, fresh, existed>> /\ seen' \in [pool : Pool, busy : BOOLEAN]
      BY <1>7, Bounds DEF SetPeer, Advance, Goto, IInv, TypeOK
    <3>5. QED
      BY <1>7, <3>2, <3>3, <3>4 DEF SetPeer, IInv, TypeOK
  <2>2. LoopInv' /\ FreshInv'
    BY <1>7 DEF SetPeer, At, Advance, Goto, IInv, LoopInv, FreshInv
  <2>3. ClusterInv'
    BY <1>7 DEF SetPeer, At, Advance, Goto, IInv, ClusterInv, Provisioning
  <2>4. DataInv'
    BY <1>7 DEF SetPeer, At, Advance, Goto, IInv, DataInv, Provisioning,
                NetworkSteps
  <2>5. PeersInv'
    BY <1>7 DEF SetPeer, At, PeersWith, Advance, Goto, IInv, TypeOK, LoopInv, PeersInv
  <2>6. SuccessIsComplete'
    BY <1>7 DEF SetPeer, At, Advance, Goto, SuccessIsComplete
  <2>7. QED
    BY <2>1, <2>2, <2>3, <2>4, <2>5, <2>6 DEF IInv
<1>8. CASE AddSubscriber
  <2>1. TypeOK'
    <3>1. items' \in SUBSET ({"profile", "slice"} \cup Subscribers)
      BY <1>8 DEF AddSubscriber, IInv, TypeOK
    <3>2. QED
      BY <1>8, <3>1 DEF AddSubscriber, IInv, TypeOK
  <2>2. LoopInv' /\ FreshInv'
    BY <1>8 DEF AddSubscriber, IInv, LoopInv, FreshInv
  <2>3. ClusterInv'
    BY <1>8 DEF AddSubscriber, IInv, ClusterInv
  <2>4. DataInv'
    BY <1>8 DEF AddSubscriber, IInv, DataInv, net
  <2>5. PeersInv' /\ SuccessIsComplete'
    BY <1>8 DEF AddSubscriber, IInv, PeersInv, SuccessIsComplete
  <2>6. QED
    BY <2>1, <2>2, <2>3, <2>4, <2>5 DEF IInv
<1>9. CASE Succeed
  <2>1. TypeOK'
    <3>1. existed' \in BOOLEAN
      BY <1>9 DEF Succeed, NewAttempt
    <3>2. QED
      BY <1>9, <3>1, Bounds DEF Succeed, NewAttempt, IInv, TypeOK
  <2>2. LoopInv' /\ FreshInv'
    BY <1>9 DEF Succeed, NewAttempt, IInv, LoopInv, FreshInv
  <2>3. ClusterInv'
    BY <1>9 DEF Succeed, NewAttempt, IInv, ClusterInv, Provisioning
  <2>4. DataInv'
    BY <1>9 DEF Succeed, NewAttempt, IInv, DataInv, Provisioning
  <2>5. PeersInv' /\ SuccessIsComplete'
    <3>1. members = All /\ (Count > 1 => named = All) /\ ~nat
      BY <1>9 DEF Succeed, At, IInv, ClusterInv, Provisioning
    <3>2. policies = Nets /\ \A k \in Nets : pools[k] # "none"
      BY <1>9 DEF Succeed, At, IInv, TypeOK, DataInv
    <3>3. {"profile", "slice"} \cup Subscribers = items
      BY <1>9 DEF Succeed, At, IInv, TypeOK, DataInv, Provisioning
    <3>4. Services => peers = [n \in 1..Count |-> n - 1]
      BY <1>9 DEF Succeed, At, IInv, TypeOK, PeersInv
    <3>5. QED
      BY <1>9, <3>1, <3>2, <3>3, <3>4 DEF Succeed, NewAttempt, IInv, PeersInv,
                                          SuccessIsComplete
  <2>6. QED
    BY <2>1, <2>2, <2>3, <2>4, <2>5 DEF IInv
<1>10. QED
  BY <1>1, <1>2, <1>3, <1>4, <1>5, <1>6, <1>7, <1>8, <1>9

-----------------------------------------------------------------------------
\* The inductive invariant holds in every reachable state.
THEOREM Invariance == Spec => []IInv
<1>1. IInv /\ [Next]_vars => IInv'
  <2> SUFFICES ASSUME IInv, [Next]_vars PROVE IInv'
    OBVIOUS
  <2>1. CASE UNCHANGED vars
    BY <2>1 DEF vars, IInv, TypeOK, LoopInv, FreshInv, ClusterInv, DataInv,
                PeersInv, SuccessIsComplete, net
  <2>2. CASE Next
    BY <2>2, WorldStep, ClusterStep, ProvisionStep DEF Next, Attempt
  <2>3. QED
    BY <2>1, <2>2
<1>2. QED
  BY <1>1, InitIInv, PTL DEF Spec

\* Types; in particular no more Diameter peers than members.
THEOREM TypeCorrect == Spec => []TypeOK
BY Invariance, PTL DEF IInv

\* A Job that reports success has done everything, in one attempt or in many.
THEOREM SuccessComplete == Spec => []SuccessIsComplete
BY Invariance, PTL DEF IInv

\* No attempt, retry or upgrade starts a second cluster over a running one.
THEOREM ClusterSafe == Spec => ClusterKept
<1>1. ASSUME IInv, [Next]_vars PROVE members \subseteq members'
  <2>1. CASE InitCore
    BY <1>1, <2>1 DEF InitCore, At, IInv, FreshInv
  <2>2. CASE Join
    BY <2>2 DEF Join
  <2>3. CASE Next /\ ~InitCore /\ ~Join
    <3>1. UNCHANGED members
      BY <2>3 DEF Next, LeaderMoves, Attach, EditNetwork, Dies, Overdue, Upgrade,
                  Attempt, Status, Login, Voters, SetName, DisableNat, EnsureBasic,
                  ReadNetwork, WriteNetwork, RefuseNetwork, EnsurePolicy,
                  NetworksDone, SetPeer, AddSubscriber, Succeed
    <3>2. QED
      BY <3>1
  <2>4. CASE UNCHANGED vars
    BY <2>4 DEF vars
  <2>5. QED
    BY <1>1, <2>1, <2>2, <2>3, <2>4
<1>2. IInv /\ [Next]_vars => [members \subseteq members']_vars
  BY <1>1
<1>3. QED
  BY <1>2, Invariance, PTL DEF Spec, ClusterKept

-----------------------------------------------------------------------------
(* The operator's networks *)

\* Only an attempt that began without an initialised Core takes it for fresh.
\* A network that was read as missing stays missing until it is written, as
\* the UI only changes networks that exist.
KeepInv ==
  /\ pc # "status" => (fresh => ~existed)
  /\ existed => 0 \in members
  /\ pc = "write" /\ seen.pool = "none" => pools[net] = "none"

\* The steps around the Job keep it.
LEMMA WorldKeeps ==
  ASSUME IInv, KeepInv, LeaderMoves \/ Attach \/ EditNetwork \/ Dies \/ Overdue \/ Upgrade
  PROVE  KeepInv'
<1>1. CASE LeaderMoves
  BY <1>1 DEF LeaderMoves, KeepInv, net
<1>2. CASE Attach
  BY <1>2 DEF Attach, KeepInv, net
<1>3. CASE EditNetwork
  <2>1. pc = "write" /\ seen.pool = "none" => pools'[net] = "none"
    BY <1>3 DEF EditNetwork, KeepInv, IInv
  <2>2. QED
    BY <1>3, <2>1 DEF EditNetwork, KeepInv, net
<1>4. CASE Dies \/ Overdue
  BY <1>4 DEF Dies, Overdue, AttemptFails, NewAttempt, KeepInv
<1>5. CASE Upgrade
  BY <1>5 DEF Upgrade, NewAttempt, KeepInv
<1>6. QED
  BY <1>1, <1>2, <1>3, <1>4, <1>5

\* So do the steps of an attempt.
LEMMA AttemptKeeps ==
  ASSUME IInv, KeepInv, Attempt
  PROVE  KeepInv'
<1>1. CASE Status
  BY <1>1 DEF Status, KeepInv
<1>2. CASE InitCore \/ Login
  BY <1>2 DEF InitCore, Login, At, Goto, KeepInv, IInv, FreshInv
<1>3. CASE Join \/ Voters \/ SetName
  BY <1>3 DEF Join, Voters, SetName, At, Goto, Advance, KeepInv
<1>4. CASE DisableNat \/ Succeed
  BY <1>4 DEF DisableNat, Succeed, At, Goto, NewAttempt, KeepInv, IInv, FreshInv
<1>5. CASE EnsureBasic \/ EnsurePolicy \/ NetworksDone \/ SetPeer \/ AddSubscriber
  BY <1>5 DEF EnsureBasic, EnsurePolicy, NetworksDone, SetPeer, AddSubscriber,
              At, Goto, Advance, KeepInv
<1>6. CASE ReadNetwork
  BY <1>6 DEF ReadNetwork, At, KeepInv, net
<1>7. CASE WriteNetwork
  BY <1>7 DEF WriteNetwork, At, KeepInv
<1>8. CASE RefuseNetwork
  BY <1>8 DEF RefuseNetwork, At, AttemptFails, NewAttempt, KeepInv, IInv, FreshInv
<1>9. QED
  BY <1>1, <1>2, <1>3, <1>4, <1>5, <1>6, <1>7, <1>8 DEF Attempt

\* What an operator chose for a data network is kept by every attempt that found an
\* initialised Core, in a retry as in an upgrade, unless the release reconciles.
THEOREM NetworksKept == Spec => OperatorsNetworkKept
<1> DEFINE Kept == \A k \in Nets : pools[k] = "other" /\ pools'[k] # "other" =>
                     reconcile \/ ~existed
<1>1. Init => KeepInv
  BY DEF Init, KeepInv
<1>2. IInv /\ KeepInv /\ [Next]_vars => KeepInv'
  <2>1. ASSUME KeepInv, UNCHANGED vars PROVE KeepInv'
    BY <2>1 DEF vars, KeepInv, net
  <2>2. QED
    BY <2>1, WorldKeeps, AttemptKeeps DEF Next
<1>3. ASSUME IInv, KeepInv, [Next]_vars PROVE [Kept]_vars
  <2>1. CASE InitCore
    BY <1>3, <2>1 DEF InitCore, At, KeepInv, IInv, TypeOK
  <2>2. CASE WriteNetwork
    BY <1>3, <2>2 DEF WriteNetwork, Replaces, At, KeepInv, IInv, TypeOK
  <2>3. CASE EditNetwork \/ Upgrade
    BY <1>3, <2>3 DEF EditNetwork, Upgrade, IInv, TypeOK
  <2>4. CASE Next /\ ~InitCore /\ ~WriteNetwork /\ ~EditNetwork /\ ~Upgrade
    <3>1. UNCHANGED pools
      BY <2>4 DEF Next, LeaderMoves, Attach, Dies, Overdue, Attempt, Status, Login,
                  Join, Voters, SetName, DisableNat, EnsureBasic, ReadNetwork,
                  RefuseNetwork, EnsurePolicy, NetworksDone, SetPeer,
                  AddSubscriber, Succeed
    <3>2. QED
      BY <3>1
  <2>5. QED
    BY <1>3, <2>1, <2>2, <2>3, <2>4
<1>4. QED
  BY <1>1, <1>2, <1>3, Invariance, PTL DEF Spec, OperatorsNetworkKept
-----------------------------------------------------------------------------
(* Why an attempt fails *)

\* Where there is no cluster there is no data.  A cluster that is new to the
\* attempt has no subscriber before the attempt adds them, so no UE has a
\* session on a network the attempt replaces.
NewHasNoUe ==
  /\ members = {} => items = {} /\ sessions = {}
  /\ fresh /\ pc # "subscribers" => items \cap Subscribers = {} /\ sessions = {}
  /\ fresh /\ pc = "write" => ~seen.busy

\* An attempt that did not die was refused a network it was told to reconcile, so a
\* Job that fails was told to reconcile or none of its attempts was spared.
OnlyRefused ==
  /\ attempts > faults => reconcile
  /\ job = "failed" => reconcile \/ faults = BackoffLimit + 1

\* The wait for the voters comes after every member was told to join.
VotersReached == pc = "join" /\ i = Count => members = All

FailInv == NewHasNoUe /\ OnlyRefused

\* The steps around the Job.
LEMMA WorldFails ==
  ASSUME IInv, FailInv, LeaderMoves \/ Attach \/ EditNetwork \/ Dies \/ Overdue \/ Upgrade
  PROVE  FailInv'
<1>1. CASE LeaderMoves
  <2>1. members # {}
    BY <1>1 DEF LeaderMoves
  <2>2. QED
    BY <1>1, <2>1 DEF LeaderMoves, FailInv, NewHasNoUe, OnlyRefused
<1>2. CASE Attach
  <2>1. items \cap Subscribers # {}
    BY <1>2 DEF Attach
  <2>2. members # {} /\ ~(fresh /\ pc # "subscribers")
    BY <2>1 DEF FailInv, NewHasNoUe
  <2>3. QED
    BY <1>2, <2>2 DEF Attach, FailInv, NewHasNoUe, OnlyRefused
<1>3. CASE EditNetwork
  BY <1>3 DEF EditNetwork, FailInv, NewHasNoUe, OnlyRefused
<1>4. CASE Dies
  <2>1. attempts \in Nat /\ faults \in Nat /\ faults <= attempts
    BY DEF IInv, TypeOK
  <2>2. attempts' = attempts + 1 /\ faults' = faults + 1 /\ reconcile' = reconcile
    BY <1>4 DEF Dies, AttemptFails
  <2>3. attempts' > faults' => attempts > faults
    BY <2>1, <2>2
  <2>4. job' = "failed" => attempts' > faults' \/ faults' = BackoffLimit + 1
    <3>1. job' = "failed" => attempts = BackoffLimit
      BY <1>4 DEF Dies, AttemptFails
    <3>2. QED
      BY <2>1, <2>2, <3>1
  <2>5. OnlyRefused'
    BY <2>2, <2>3, <2>4 DEF FailInv, OnlyRefused
  <2>6. NewHasNoUe'
    BY <1>4 DEF Dies, AttemptFails, NewAttempt, FailInv, NewHasNoUe
  <2>7. QED
    BY <2>5, <2>6 DEF FailInv
<1>5. CASE Upgrade
  BY <1>5 DEF Upgrade, NewAttempt, FailInv, NewHasNoUe, OnlyRefused
<1>6. CASE Overdue
  BY <1>6 DEF Overdue, NewAttempt, FailInv, NewHasNoUe, OnlyRefused
<1>7. QED
  BY <1>1, <1>2, <1>3, <1>4, <1>5, <1>6

\* The steps of an attempt.
LEMMA AttemptOnlyRefused ==
  ASSUME IInv, FailInv, Attempt
  PROVE  FailInv'
<1>1. CASE Status
  <2>1. fresh' => members = {}
    BY <1>1 DEF Status, IInv, FreshInv
  <2>2. QED
    BY <1>1, <2>1 DEF Status, FailInv, NewHasNoUe, OnlyRefused
<1>2. CASE InitCore \/ Login
  <2>1. members' = {} => members = {}
    BY <1>2 DEF InitCore, Login
  <2>2. QED
    BY <1>2, <2>1 DEF InitCore, Login, At, Goto, FailInv, NewHasNoUe, OnlyRefused
<1>3. CASE Join \/ Voters \/ SetName
  BY <1>3 DEF Join, Voters, SetName, At, Goto, Advance, FailInv, NewHasNoUe,
              OnlyRefused
<1>4. CASE DisableNat \/ Succeed
  BY <1>4 DEF DisableNat, Succeed, At, Goto, NewAttempt, FailInv, NewHasNoUe,
              OnlyRefused
<1>5. CASE EnsureBasic
  <2>1. members # {}
    BY <1>5 DEF EnsureBasic, At, IInv, FreshInv
  <2>2. Basics[i + 1] \in {"profile", "slice"}
    BY <1>5 DEF EnsureBasic, At, Basics, IInv, TypeOK, LoopInv
  <2>3. items' \cap Subscribers = items \cap Subscribers
    BY <1>5, <2>2 DEF EnsureBasic
  <2>4. QED
    BY <1>5, <2>1, <2>3 DEF EnsureBasic, At, Goto, Advance, FailInv, NewHasNoUe,
                            OnlyRefused
<1>6. CASE EnsurePolicy \/ NetworksDone \/ SetPeer \/ WriteNetwork
  BY <1>6 DEF EnsurePolicy, NetworksDone, SetPeer, WriteNetwork, At, Goto, Advance,
              FailInv, NewHasNoUe, OnlyRefused
<1>7. CASE ReadNetwork
  BY <1>7 DEF ReadNetwork, At, FailInv, NewHasNoUe, OnlyRefused
<1>8. CASE RefuseNetwork
  <2>1. reconcile
    BY <1>8 DEF RefuseNetwork, At, Replaces, FailInv, NewHasNoUe
  <2>2. attempts \in Nat /\ faults \in Nat /\ faults <= attempts
    BY DEF IInv, TypeOK
  <2>3. attempts' = attempts + 1 /\ faults' = faults /\ reconcile' = reconcile
    BY <1>8 DEF RefuseNetwork, AttemptFails
  <2>4. job' = "failed" => attempts = BackoffLimit
    BY <1>8 DEF RefuseNetwork, AttemptFails
  <2>5. OnlyRefused'
    BY <2>1, <2>2, <2>3, <2>4 DEF OnlyRefused
  <2>6. NewHasNoUe'
    BY <1>8 DEF RefuseNetwork, AttemptFails, NewAttempt, FailInv, NewHasNoUe
  <2>7. QED
    BY <2>5, <2>6 DEF FailInv
<1>9. CASE AddSubscriber
  BY <1>9 DEF AddSubscriber, At, IInv, FreshInv, FailInv, NewHasNoUe, OnlyRefused
<1>10. QED
  BY <1>1, <1>2, <1>3, <1>4, <1>5, <1>6, <1>7, <1>8, <1>9 DEF Attempt

\* What earlier attempts left behind makes no later attempt fail: whatever they
\* and their deaths left, a release that is not told to reconcile is refused
\* nothing, and uses up its attempts only when every one of them died.
THEOREM FailsOnlyRefused == Spec => []OnlyRefused
<1>1. Init => FailInv
  BY DEF Init, FailInv, NewHasNoUe, OnlyRefused
<1>2. IInv /\ FailInv /\ [Next]_vars => FailInv'
  <2>1. ASSUME FailInv, UNCHANGED vars PROVE FailInv'
    BY <2>1 DEF vars, FailInv, NewHasNoUe, OnlyRefused
  <2>2. QED
    BY <2>1, WorldFails, AttemptOnlyRefused DEF Next
<1>3. FailInv => OnlyRefused
  BY DEF FailInv
<1>4. QED
  BY <1>1, <1>2, <1>3, Invariance, PTL DEF Spec

\* The wait for the voters, the only one without a step of its own to end it,
\* finds every member joined.
THEOREM VotersWaitEnds == Spec => []VotersReached
<1>1. IInv => VotersReached
  BY DEF IInv, TypeOK, ClusterInv, VotersReached, All
<1>2. QED
  BY <1>1, Invariance, PTL

-----------------------------------------------------------------------------
(* That an attempt ends *)

\* How far the attempt is, in calls: two to begin with, then the loops over the
\* members, the profile and the slice, the networks and the peers.
Place ==
  IF pc = "status" THEN 0
  ELSE IF pc = "auth" THEN 1
  ELSE IF pc = "join" THEN 2 + i
  ELSE IF pc = "names" THEN 3 + Count + i
  ELSE IF pc = "basics" THEN 4 + 2 * Count + i
  ELSE IF pc = "read" THEN 6 + 2 * Count + 3 * i
  ELSE IF pc = "write" THEN 7 + 2 * Count + 3 * i
  ELSE IF pc = "policy" THEN 8 + 2 * Count + 3 * i
  ELSE IF pc = "peers" THEN 7 + 2 * Count + 3 * Networks + i
  ELSE 7 + 3 * Count + 3 * Networks

LastPlace == 7 + 3 * Count + 3 * Networks

\* What a step of the attempt comes to: it is further on; it has added a subscriber
\* that was missing; the Job has succeeded; or it was refused a network.  What
\* happens around it does not throw it back.
Advances ==
  /\ Attempt =>
       \/ Place' > Place /\ job' = "running" /\ attempts' = attempts
       \/ /\ UNCHANGED <<Place, job, attempts>> /\ pc = "subscribers"
          /\ \E s \in Subscribers \ items : items' = items \cup {s}
       \/ job' = "succeeded"
       \/ reconcile /\ attempts' = attempts + 1 /\ faults' = faults
  /\ ~Attempt =>
       \/ UNCHANGED <<Place, attempts>>
       \/ attempts' = attempts + 1 /\ faults' = faults + 1
       \/ job # "running" \/ job' = "overdue"

LEMMA Numbers ==
  ASSUME IInv
  PROVE  /\ i \in Nat /\ Count \in Nat /\ Count > 0 /\ Networks \in Nat /\ Networks > 0
         /\ attempts \in Nat
BY DEF IInv, TypeOK

LEMMA PlaceBounded == IInv => Place \in 0..LastPlace
<1> SUFFICES ASSUME IInv PROVE Place \in 0..LastPlace
  OBVIOUS
<1> USE Numbers DEF Place, LastPlace
<1>1. pc \in {"status", "auth", "join", "names", "basics", "read", "write", "policy",
             "peers", "subscribers"}
  BY DEF IInv, TypeOK
<1>2. /\ pc \in {"join", "names"} => i <= Count
      /\ pc = "basics" => i <= 1
      /\ pc = "read" => i <= Networks
      /\ pc \in {"write", "policy"} => i < Networks
      /\ pc = "peers" => i < Count
  BY DEF IInv, LoopInv
<1>3. CASE pc = "status"
  BY <1>2, <1>3
<1>4. CASE pc = "auth"
  BY <1>2, <1>4
<1>5. CASE pc = "join"
  BY <1>2, <1>5
<1>6. CASE pc = "names"
  BY <1>2, <1>6
<1>7. CASE pc = "basics"
  BY <1>2, <1>7
<1>8. CASE pc = "read"
  BY <1>2, <1>8
<1>9. CASE pc = "write"
  BY <1>2, <1>9
<1>10. CASE pc = "policy"
  BY <1>2, <1>10
<1>11. CASE pc = "peers"
  BY <1>2, <1>11
<1>12. CASE pc = "subscribers"
  BY <1>2, <1>12
<1>13. QED
  BY <1>1, <1>3, <1>4, <1>5, <1>6, <1>7, <1>8, <1>9, <1>10, <1>11, <1>12

\* The steps of an attempt, each of which is further on.
LEMMA ClusterAdvances ==
  ASSUME IInv, Status \/ InitCore \/ Login \/ Join \/ Voters \/ SetName \/ EnsureBasic
  PROVE  Place' > Place /\ job' = "running" /\ attempts' = attempts
<1> USE Numbers DEF At, Goto, Advance, Place
<1>1. CASE Status
  BY <1>1 DEF Status
<1>2. CASE InitCore \/ Login
  BY <1>2 DEF InitCore, Login
<1>3. CASE Join
  BY <1>3 DEF Join
<1>4. CASE Voters
  BY <1>4 DEF Voters
<1>5. CASE SetName
  BY <1>5 DEF SetName
<1>6. CASE EnsureBasic
  <2>1. i <= 1 /\ Len(Basics) = 2
    BY <1>6 DEF EnsureBasic, IInv, LoopInv, Basics
  <2>2. QED
    BY <1>6, <2>1 DEF EnsureBasic
<1>7. QED
  BY <1>1, <1>2, <1>3, <1>4, <1>5, <1>6

LEMMA NetworksAdvance ==
  ASSUME IInv, ReadNetwork \/ WriteNetwork \/ EnsurePolicy \/ NetworksDone \/ SetPeer
  PROVE  Place' > Place /\ job' = "running" /\ attempts' = attempts
<1> USE Numbers DEF At, Goto, Advance, Place
<1>1. CASE ReadNetwork
  BY <1>1 DEF ReadNetwork
<1>2. CASE WriteNetwork
  BY <1>2 DEF WriteNetwork
<1>3. CASE EnsurePolicy
  BY <1>3 DEF EnsurePolicy
<1>4. CASE NetworksDone
  <2>1. i = Networks
    BY <1>4 DEF NetworksDone, IInv, LoopInv, net, Nets
  <2>2. QED
    BY <1>4, <2>1 DEF NetworksDone
<1>5. CASE SetPeer
  <2>1. i < Count
    BY <1>5 DEF SetPeer, IInv, LoopInv
  <2>2. QED
    BY <1>5, <2>1 DEF SetPeer
<1>6. QED
  BY <1>1, <1>2, <1>3, <1>4, <1>5

\* What Converges rests on: an attempt takes at most LastPlace steps and one for each
\* subscriber, and ends in success unless it dies, its Job runs out of time or it is
\* refused a network.
THEOREM AttemptEnds ==
  Spec => [](job = "running" => Place \in 0..LastPlace) /\ [][Advances]_vars
<1>1. Init => FailInv
  BY DEF Init, FailInv, NewHasNoUe, OnlyRefused
<1>2. IInv /\ FailInv /\ [Next]_vars => FailInv'
  <2>1. ASSUME FailInv, UNCHANGED vars PROVE FailInv'
    BY <2>1 DEF vars, FailInv, NewHasNoUe, OnlyRefused
  <2>2. QED
    BY <2>1, WorldFails, AttemptOnlyRefused DEF Next
<1>3. IInv /\ FailInv /\ [Next]_vars => [Advances]_vars
  <2> SUFFICES ASSUME IInv, FailInv, Next PROVE Advances
    OBVIOUS
  <2>1. CASE \/ Status \/ InitCore \/ Login \/ Join \/ Voters \/ SetName \/ EnsureBasic
             \/ ReadNetwork \/ WriteNetwork \/ EnsurePolicy \/ NetworksDone \/ SetPeer
    BY <2>1, ClusterAdvances, NetworksAdvance DEF Advances, Attempt
  <2>2. CASE DisableNat
    <3>1. CASE provision
      <4>1. /\ pc = "names" /\ i = Count /\ pc' = "basics" /\ i' = 0
            /\ job' = "running" /\ attempts' = attempts
        BY <2>2, <3>1 DEF DisableNat, At, Goto
      <4>2. Place' > Place
        BY <4>1, Numbers DEF Place
      <4>3. QED
        BY <2>2, <4>1, <4>2 DEF Advances, Attempt
    <3>2. CASE ~provision
      BY <2>2, <3>2 DEF DisableNat, Advances, Attempt
    <3>3. QED
      BY <3>1, <3>2
  <2>3. CASE AddSubscriber
    BY <2>3 DEF AddSubscriber, At, Advances, Attempt, Place
  <2>4. CASE Succeed
    BY <2>4 DEF Succeed, Advances, Attempt
  <2>5. CASE RefuseNetwork
    <3>1. reconcile
      BY <2>5 DEF RefuseNetwork, At, Replaces, FailInv, NewHasNoUe
    <3>2. QED
      BY <2>5, <3>1 DEF RefuseNetwork, AttemptFails, Advances, Attempt
  <2>6. CASE ~Attempt
    <3>1. CASE LeaderMoves \/ Attach \/ EditNetwork
      BY <2>6, <3>1 DEF LeaderMoves, Attach, EditNetwork, Advances, Place
    <3>2. CASE Dies
      BY <2>6, <3>2 DEF Dies, AttemptFails, Advances
    <3>3. CASE Upgrade
      BY <2>6, <3>3 DEF Upgrade, Advances
    <3>4. CASE Overdue
      BY <2>6, <3>4 DEF Overdue, Advances
    <3>5. QED
      BY <2>6, <3>1, <3>2, <3>3, <3>4 DEF Next
  <2>7. QED
    BY <2>1, <2>2, <2>3, <2>4, <2>5, <2>6 DEF Attempt
<1>4. QED
  BY <1>1, <1>2, <1>3, PlaceBounded, Invariance, PTL DEF Spec
=============================================================================
