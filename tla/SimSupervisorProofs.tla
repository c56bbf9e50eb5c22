------------------------- MODULE SimSupervisorProofs -------------------------
(* Readiness of the simulator for any number of Core members, processes    *)
(* and faults.                                                             *)
EXTENDS SimSupervisor, TLAPS

\* UEs only have addresses while every process of the attachment was started:
\* stop() takes the tunnels away with the processes.
TunnelsNeedProcesses == tunnels # "none" => children = Commands

\* While an attachment is being started processes are missing, and the pod is
\* not ready.
StartingInv ==
  /\ pc = "configure" => children = 0
  /\ pc = "launch" => children < Commands
  /\ pc \in {"configure", "launch"} => ~ready

IInv == TypeOK /\ TunnelsNeedProcesses /\ StartingInv /\ ReadyHasProcesses

-----------------------------------------------------------------------------
USE NodesAssumption, BoundsAssumption DEF procs

\* Nothing runs, and no fault has happened yet: the bounds hold trivially.
LEMMA Bounds == /\ 0 \in 0..Commands /\ 0 \in 0..MaxMisses /\ 0 \in 0..MaxFaults
                /\ \A S \in {{}} : S \in SUBSET (1..0)
OBVIOUS

LEMMA InitIInv == Init => IInv
<1> SUFFICES ASSUME Init PROVE IInv
  OBVIOUS
<1>1. TypeOK
  BY Bounds DEF Init, TypeOK
<1>2. TunnelsNeedProcesses /\ StartingInv /\ ReadyHasProcesses
  BY DEF Init, TunnelsNeedProcesses, StartingInv, ReadyHasProcesses
<1>3. QED
  BY <1>1, <1>2 DEF IInv

\* stop() leaves well-formed variables.
LEMMA StoppedTypes ==
  ASSUME Stopped
  PROVE  /\ children' = 0 /\ children' \in 0..Commands
         /\ exited' \in SUBSET (1..children')
         /\ attached' \in Nodes \cup {None} /\ overdue' \in BOOLEAN
         /\ tunnels' = "none" /\ tunnels' \in {"none", "some", "all"}
BY Bounds DEF Stopped

\* What holds after the except clause, and after a new container, whatever was
\* going on: no readiness, and all processes or none of them kept.
LEMMA FailedKeeps ==
  ASSUME IInv, Failed, UNCHANGED <<first, active, up>>, faults' \in 0..MaxFaults
  PROVE  IInv'
<1>1. TypeOK'
  <2>1. misses' \in 0..MaxMisses
    BY DEF Failed, IInv, TypeOK
  <2>2. QED
    BY <2>1, StoppedTypes DEF Failed, Untouched, IInv, TypeOK
<1>2. TunnelsNeedProcesses' /\ StartingInv' /\ ReadyHasProcesses'
  BY DEF Failed, Stopped, Untouched, IInv, TunnelsNeedProcesses, StartingInv,
         ReadyHasProcesses
<1>3. QED
  BY <1>1, <1>2 DEF IInv

LEMMA RenewedKeeps ==
  ASSUME IInv, Renewed, UNCHANGED <<first, active>>, faults' \in 0..MaxFaults
  PROVE  IInv'
<1>1. TypeOK'
  BY StoppedTypes, Bounds DEF Renewed, IInv, TypeOK
<1>2. TunnelsNeedProcesses' /\ StartingInv' /\ ReadyHasProcesses'
  BY StoppedTypes DEF Renewed, TunnelsNeedProcesses, StartingInv, ReadyHasProcesses
<1>3. QED
  BY <1>1, <1>2 DEF IInv

LEMMA FaultBound == ASSUME IInv, Fault PROVE faults' \in 0..MaxFaults
BY DEF Fault, IInv, TypeOK

\* The world outside the loop.
LEMMA WorldStep ==
  ASSUME IInv, \/ LeaderMoves \/ TunnelsChange \/ TimePasses
               \/ \E i \in 1..Commands : ChildExits(i)
               \/ StartupPasses \/ Exits \/ StartupFails
  PROVE  IInv'
<1> USE DEF IInv, TypeOK, TunnelsNeedProcesses, StartingInv, ReadyHasProcesses
<1>1. CASE LeaderMoves
  BY <1>1 DEF LeaderMoves
<1>2. CASE TunnelsChange
  BY <1>2 DEF TunnelsChange
<1>3. CASE TimePasses
  BY <1>3 DEF TimePasses
<1>4. ASSUME NEW i \in 1..Commands, ChildExits(i) PROVE IInv'
  BY <1>4 DEF ChildExits
<1>5. CASE StartupPasses
  BY <1>5 DEF StartupPasses
<1>6. CASE Exits
  BY <1>6, FaultBound, RenewedKeeps DEF Exits
<1>7. CASE StartupFails
  BY <1>7, RenewedKeeps DEF StartupFails
<1>8. QED
  BY <1>1, <1>2, <1>3, <1>4, <1>5, <1>6, <1>7

\* The calls of the loop that go wrong all end in the except clause.
LEMMA LoopFails ==
  ASSUME IInv, PollFails \/ CheckFails \/ ConfigureFails \/ LaunchFails \/ ObserveFails
  PROVE  IInv'
<1>1. Failed /\ UNCHANGED <<first, active, up>> /\ faults' \in 0..MaxFaults
  BY FaultBound DEF PollFails, CheckFails, ConfigureFails, LaunchFails,
                    ObserveFails, IInv, TypeOK
<1>2. QED
  BY <1>1, FailedKeeps

\* The loop as it is meant to go.  Observe is where readiness is announced:
\* the addresses it sees belong to a complete attachment.
LEMMA LoopStep ==
  ASSUME IInv, PollOk \/ Keep \/ Restart \/ Configure \/ Launch \/ Observe
  PROVE  IInv'
<1> USE DEF IInv, TypeOK, TunnelsNeedProcesses, StartingInv, ReadyHasProcesses
<1>1. CASE PollOk
  BY <1>1 DEF PollOk
<1>2. CASE Keep
  BY <1>2 DEF Keep
<1>3. CASE Restart
  BY <1>3, StoppedTypes DEF Restart
<1>4. CASE Configure
  BY <1>4, FaultBound DEF Configure
<1>5. CASE Launch
  <2>1. children' \in 0..Commands /\ exited' \in SUBSET (1..children')
    BY <1>5 DEF Launch
  <2>2. QED
    BY <1>5, <2>1 DEF Launch
<1>6. CASE Observe
  BY <1>6 DEF Observe
<1>7. QED
  BY <1>1, <1>2, <1>3, <1>4, <1>5, <1>6

-----------------------------------------------------------------------------
\* The inductive invariant holds in every reachable state.
THEOREM Invariance == Spec => []IInv
<1>1. IInv /\ [Next]_vars => IInv'
  <2> SUFFICES ASSUME IInv, [Next]_vars PROVE IInv'
    OBVIOUS
  <2>1. CASE UNCHANGED vars
    BY <2>1 DEF vars, IInv, TypeOK, TunnelsNeedProcesses, StartingInv,
                ReadyHasProcesses
  <2>2. CASE Next
    BY <2>2, WorldStep, LoopFails, LoopStep DEF Next, Loop
  <2>3. QED
    BY <2>1, <2>2
<1>2. QED
  BY <1>1, InitIInv, PTL DEF Spec

\* Types, in particular the number of processes and of misses.
THEOREM TypeCorrect == Spec => []TypeOK
BY Invariance, PTL DEF IInv

\* A pod that reports ready has started every process of its attachment, though
\* all() of an empty list is true.
THEOREM ReadyIsRunning == Spec => []ReadyHasProcesses
BY Invariance, PTL DEF IInv

-----------------------------------------------------------------------------
(* The safety half of Reattaches: what one pass of the loop achieves *)

\* A step in whose course n is the active Core and no error occurs.
Calm(n) == active = n /\ active' = n /\ faults' = faults

\* The pass that is going on polled n; what it has set up is for n.  True before
\* the poll.
Building(n) ==
  /\ pc \in {"check", "configure", "launch"} => target = n
  /\ pc \in {"configure", "launch"} => current = n
  /\ pc = "launch" => attached = n

\* A pass that decides to start processes again, undisturbed, gets to the end with
\* all of them running for n; it does not stop half way.
Builds(n) ==
  /\ Building(n)'
  /\ pc = "configure" => pc' \in {"configure", "launch"}
  /\ pc = "launch" => pc' = "launch" \/ (pc' = "observe" /\ Attached(n)')

LEMMA PassBuilds ==
  ASSUME IInv, NEW n \in Nodes, Calm(n), Building(n), [Next]_vars
  PROVE  Builds(n)
<1> USE DEF Calm, Building, Builds
<1>0. ~Fault /\ active # None
  BY DEF Fault, IInv, TypeOK
<1>1. CASE PollOk
  BY <1>1 DEF PollOk
<1>2. CASE Keep
  BY <1>2 DEF Keep
<1>3. CASE Restart
  BY <1>3 DEF Restart
<1>4. CASE Configure
  BY <1>0, <1>4 DEF Configure
<1>5. CASE Launch
  BY <1>5 DEF Launch, Attached
<1>6. CASE Observe
  BY <1>6 DEF Observe
<1>7. ~PollFails /\ ~CheckFails /\ ~ConfigureFails /\ ~LaunchFails /\ ~ObserveFails
      /\ ~Exits
  BY <1>0 DEF PollFails, CheckFails, ConfigureFails, LaunchFails, ObserveFails, Exits
<1>8. CASE LeaderMoves \/ TunnelsChange \/ TimePasses \/ StartupPasses \/ UNCHANGED vars
  BY <1>8 DEF LeaderMoves, TunnelsChange, TimePasses, StartupPasses, vars
<1>9. ASSUME NEW i \in 1..Commands, ChildExits(i) PROVE Builds(n)
  BY <1>9 DEF ChildExits
<1>10. CASE StartupFails
  BY <1>10 DEF StartupFails, Renewed
<1>11. QED
  BY <1>1, <1>2, <1>3, <1>4, <1>5, <1>6, <1>7, <1>8, <1>9, <1>10 DEF Next, Loop

\* A supervisor that restarts while n stays the active Core and nothing fails
\* attaches to n, whatever it was attached to before and wherever it died.
THEOREM PassAttaches ==
  Spec => [][\A n \in Nodes : Calm(n) /\ Building(n) => Builds(n)]_vars
<1>1. IInv /\ [Next]_vars => [\A n \in Nodes : Calm(n) /\ Building(n) => Builds(n)]_vars
  BY PassBuilds
<1>2. QED
  BY <1>1, Invariance, PTL DEF Spec

-----------------------------------------------------------------------------
(* What OldCoreReleased and DeadProcessReplaced rest on besides fairness *)

\* Every pass that fails counts as a miss and takes the readiness away; with the last
\* one the processes are gone, and a pass goes on only after an answer.
MissesInv ==
  /\ pc # "poll" => misses = 0
  /\ misses > 0 => ~ready
  /\ misses = MaxMisses => children = 0

Released == pc = "poll" /\ children = 0 /\ ~ready

\* The steps of the loop until it lets go of a Core that does not answer.
ToRelease ==
  IF pc = "poll" THEN MaxMisses - misses
  ELSE IF pc = "observe" THEN MaxMisses + 1
  ELSE IF pc = "launch" THEN MaxMisses + 1 + (Commands - children)
  ELSE IF pc = "configure" THEN MaxMisses + 2 + Commands
  ELSE MaxMisses + 3 + Commands

\* Without an active Core every step of the loop comes nearer to the release, nothing
\* else that happens delays it, and what is released stays so.
NearsRelease ==
  active = None /\ active' = None =>
    /\ Loop => Released' \/ ToRelease' < ToRelease
    /\ Released' \/ ToRelease' <= ToRelease
    /\ Released => Released'

\* The steps of the loop until it does something about a process that has exited.
ToReplace ==
  IF pc = "check" THEN 1
  ELSE IF pc = "poll" THEN 2 + (MaxMisses - misses)
  ELSE IF pc = "observe" THEN 3 + MaxMisses
  ELSE 4 + MaxMisses + (Commands - children)

\* Nothing but the end of all processes of the attachment makes the loop forget one
\* that has exited, and every step of the loop comes nearer to that end.
NearsReplacement ==
  exited # {} =>
    /\ Loop => exited' = {} \/ ToReplace' < ToReplace
    /\ exited' = {} \/ (exited \subseteq exited' /\ ToReplace' <= ToReplace)

Nears == NearsRelease /\ NearsReplacement

\* The except clause.
LEMMA FailedCounts ==
  ASSUME IInv, MissesInv, Failed
  PROVE  /\ MissesInv' /\ pc' = "poll" /\ ~ready'
         /\ \/ children' = 0 /\ exited' = {}
            \/ UNCHANGED <<children, exited>> /\ misses' = misses + 1
<1> USE DEF IInv, TypeOK, MissesInv, Failed
<1>1. CASE misses' = MaxMisses /\ children > 0
  BY <1>1 DEF Stopped
<1>2. CASE ~(misses' = MaxMisses /\ children > 0)
  <2>1. UNCHANGED <<children, exited>>
    BY <1>2 DEF Untouched
  <2>2. children = 0 => exited = {}
    OBVIOUS
  <2>3. misses' # MaxMisses => misses' = misses + 1
    OBVIOUS
  <2>4. QED
    BY <1>2, <2>1, <2>2, <2>3
<1>3. QED
  BY <1>1, <1>2

LEMMA FailuresNear ==
  ASSUME IInv, MissesInv,
         PollFails \/ CheckFails \/ ConfigureFails \/ LaunchFails \/ ObserveFails
  PROVE  MissesInv' /\ Nears
<1>1. Failed
  BY DEF PollFails, CheckFails, ConfigureFails, LaunchFails, ObserveFails
<1>2. /\ MissesInv' /\ pc' = "poll" /\ ~ready'
      /\ \/ children' = 0 /\ exited' = {}
         \/ UNCHANGED <<children, exited>> /\ misses' = misses + 1
  BY <1>1, FailedCounts
<1>3. pc = "check" => exited = {}
  BY DEF PollFails, CheckFails, ConfigureFails, LaunchFails, ObserveFails
<1>4. /\ misses \in Nat /\ misses' \in Nat /\ misses <= MaxMisses
      /\ MaxMisses \in Nat /\ Commands \in Nat
      /\ children \in Nat /\ children <= Commands
      /\ pc # "poll" => misses = 0
  <2>1. misses \in 0..MaxMisses /\ children \in 0..Commands
    BY DEF IInv, TypeOK
  <2>2. misses' \in Nat
    BY <1>1, <2>1 DEF Failed
  <2>3. QED
    BY <2>1, <2>2 DEF MissesInv
<1>5. CASE children' = 0 /\ exited' = {}
  BY <1>2, <1>5 DEF Nears, NearsRelease, NearsReplacement, Released
<1>6. CASE UNCHANGED <<children, exited>> /\ misses' = misses + 1
  <2>1. ToRelease' < ToRelease
    BY <1>2, <1>4, <1>6 DEF ToRelease
  <2>2. pc # "check" => ToReplace' < ToReplace
    BY <1>2, <1>4, <1>6 DEF ToReplace
  <2>3. QED
    BY <1>2, <1>3, <1>4, <1>6, <2>1, <2>2
       DEF Nears, NearsRelease, NearsReplacement, Released, ToRelease, ToReplace
<1>7. QED
  BY <1>2, <1>5, <1>6

LEMMA PassNears ==
  ASSUME IInv, MissesInv,
         PollOk \/ Keep \/ Restart \/ Configure \/ Launch \/ Observe
  PROVE  MissesInv' /\ Nears
<1> USE DEF IInv, TypeOK, StartingInv, MissesInv, Nears, NearsRelease, NearsReplacement,
            Released, ToRelease, ToReplace
<1>1. CASE PollOk
  BY <1>1 DEF PollOk
<1>2. CASE Keep
  BY <1>2 DEF Keep, NeedsRestart
<1>3. CASE Restart
  BY <1>3 DEF Restart, Stopped
<1>4. CASE Configure
  BY <1>4 DEF Configure
<1>5. CASE Launch
  BY <1>5 DEF Launch
<1>6. CASE Observe
  BY <1>6 DEF Observe
<1>7. QED
  BY <1>1, <1>2, <1>3, <1>4, <1>5, <1>6

\* What happens around the loop delays neither; a new container has done both.
LEMMA WorldNears ==
  ASSUME IInv, MissesInv, ~Loop,
         \/ LeaderMoves \/ TunnelsChange \/ TimePasses
         \/ \E i \in 1..Commands : ChildExits(i)
         \/ StartupPasses \/ Exits \/ StartupFails
  PROVE  MissesInv' /\ Nears
<1> USE DEF IInv, TypeOK, MissesInv, Nears, NearsRelease, NearsReplacement, Released,
            ToRelease, ToReplace
<1>1. CASE Exits \/ StartupFails
  BY <1>1 DEF Exits, StartupFails, Renewed, Stopped
<1>2. ASSUME UNCHANGED <<pc, misses, ready, children>>, exited \subseteq exited'
      PROVE  MissesInv' /\ Nears
  BY <1>2
<1>3. CASE LeaderMoves \/ TunnelsChange \/ TimePasses \/ StartupPasses
  BY <1>2, <1>3 DEF LeaderMoves, TunnelsChange, TimePasses, StartupPasses
<1>4. ASSUME NEW i \in 1..Commands, ChildExits(i) PROVE MissesInv' /\ Nears
  BY <1>2, <1>4 DEF ChildExits
<1>5. QED
  BY <1>1, <1>3, <1>4

LEMMA StepNears == ASSUME IInv, MissesInv, Next PROVE MissesInv' /\ Nears
<1>1. CASE Loop
  BY <1>1, FailuresNear, PassNears DEF Loop
<1>2. CASE ~Loop
  BY <1>2, WorldNears DEF Next
<1>3. QED
  BY <1>1, <1>2

LEMMA MissesCounted == Spec => []MissesInv
<1>1. Init => MissesInv
  BY DEF Init, MissesInv
<1>2. IInv /\ MissesInv /\ [Next]_vars => MissesInv'
  BY StepNears DEF vars, MissesInv
<1>3. QED
  BY <1>1, <1>2, Invariance, PTL DEF Spec

\* What OldCoreReleased rests on: without an active Core the loop lets go of the old
\* one within a pass and MaxMisses polls, wherever the last answer has left it, and
\* holds nothing again before the next answer.
THEOREM LetsGo == Spec => [][NearsRelease]_vars
<1>1. IInv /\ MissesInv /\ [Next]_vars => [NearsRelease]_vars
  BY StepNears DEF Nears
<1>2. QED
  BY <1>1, Invariance, MissesCounted, PTL DEF Spec

\* What DeadProcessReplaced rests on: whatever the Core does meanwhile, a process that
\* has exited is on the loop's mind until all are stopped, which the loop comes nearer
\* to at every step, answered or not.
THEOREM NoticesDead == Spec => [][NearsReplacement]_vars
<1>1. IInv /\ MissesInv /\ [Next]_vars => [NearsReplacement]_vars
  BY StepNears DEF Nears
<1>2. QED
  BY <1>1, Invariance, MissesCounted, PTL DEF Spec
=============================================================================
