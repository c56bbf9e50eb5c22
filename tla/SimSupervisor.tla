---------------------------- MODULE SimSupervisor ----------------------------
(***************************************************************************)
(* supervisor.py of the ella-simulator chart: a loop that polls the active *)
(* Core, runs a gNB and its UEs against it, and starts them again when the *)
(* Core moves, a process exits or no UE gets an address.                   *)
(*                                                                         *)
(* A node stands for the pair (address, node id) of a Core member.  The    *)
(* Core, the simulator processes and the kubelet are external.  An error   *)
(* that the code may meet at any time, and a restart of the container, is  *)
(* a fault; there are at most MaxFaults of them.                           *)
(***************************************************************************)
EXTENDS Naturals

CONSTANTS Nodes, None,
          Firsts,      \* CORE_N2_ADDRESSES[0], or None if the list is empty
          Commands,    \* processes per attachment: 2 (ueransim) or 1
          MaxMisses,   \* 3 in the code
          MaxFaults    \* bound

ASSUME NodesAssumption  == None \notin Nodes /\ Firsts \subseteq Nodes \cup {None}
ASSUME BoundsAssumption == /\ Commands \in Nat \ {0}
                           /\ MaxMisses \in Nat \ {0}
                           /\ MaxFaults \in Nat

VARIABLES
  first,     \* the N2 address used when no leader is found
  active,    \* the node behind CORE_HOST, None if there is no ready leader
  tunnels,   \* how many UE addresses there are: "none", "some" or "all"
  faults,
  pc,        \* where the loop is
  target,    \* the local variable target
  current,   \* the global current
  children,  \* len(children)
  exited,    \* those of them that are no longer running
  attached,  \* the node the running gNB was configured for
  overdue,   \* time.monotonic()-started > 120
  misses,    \* at most MaxMisses: the code tells no larger values apart
  ready,     \* state['ready'], what the probes see
  up         \* the startup probe of this container has succeeded

procs == <<children, exited, attached, overdue>>
vars  == <<first, active, tunnels, faults, pc, target, current, procs, misses,
           ready, up>>

TypeOK ==
  /\ first \in Nodes \cup {None}
  /\ active \in Nodes \cup {None}
  /\ tunnels \in {"none", "some", "all"}
  /\ faults \in 0..MaxFaults
  /\ pc \in {"poll", "check", "configure", "launch", "observe"}
  /\ target \in Nodes \cup {None}
  /\ current \in Nodes \cup {None}
  /\ children \in 0..Commands
  /\ exited \in SUBSET (1..children)
  /\ attached \in Nodes \cup {None}
  /\ overdue \in BOOLEAN
  /\ misses \in 0..MaxMisses
  /\ ready \in BOOLEAN
  /\ up \in BOOLEAN

Init ==
  /\ first \in Firsts
  /\ active \in Nodes \cup {None}
  /\ faults = 0
  /\ tunnels = "none" /\ pc = "poll" /\ target = None /\ current = None
  /\ children = 0 /\ exited = {} /\ attached = None /\ overdue = FALSE
  /\ misses = 0 /\ ready = FALSE /\ up = FALSE

Fault == faults < MaxFaults /\ faults' = faults + 1

-----------------------------------------------------------------------------
(* The Core, the processes and time *)

LeaderMoves ==
  /\ \E n \in Nodes \cup {None} : n # active /\ active' = n
  /\ UNCHANGED <<first, tunnels, faults, pc, target, current, procs, misses,
                 ready, up>>

\* The Core the gNB talks to serves it: UEs get addresses, or lose them.
TunnelsChange ==
  /\ \E t \in {"none", "some", "all"} : t # tunnels /\ tunnels' = t
  /\ tunnels' \in {"some", "all"} =>
       \/ tunnels # "none" /\ tunnels' = "some"
       \/ children = Commands /\ exited = {} /\ attached = active
  /\ UNCHANGED <<first, active, faults, pc, target, current, procs, misses,
                 ready, up>>

ChildExits(i) ==
  /\ i \in 1..children \ exited
  /\ exited' = exited \cup {i}
  /\ UNCHANGED <<first, active, tunnels, faults, pc, target, current, children,
                 attached, overdue, misses, ready, up>>

TimePasses ==
  /\ children > 0 /\ ~overdue
  /\ overdue' = TRUE
  /\ UNCHANGED <<first, active, tunnels, faults, pc, target, current, children,
                 exited, attached, misses, ready, up>>

-----------------------------------------------------------------------------
(* stop() and the except clause *)

\* The processes are gone when stop() returns, and their tunnels with them.
Stopped ==
  /\ children' = 0 /\ exited' = {} /\ attached' = None /\ overdue' = FALSE
  /\ tunnels' = "none"

Untouched == UNCHANGED <<procs, tunnels>>

\* Fault: the third miss is a reason to stop only if the gNB has died.
Failed_Patient ==
  /\ pc' = "poll" /\ target' = None
  /\ ready' = FALSE
  /\ misses' = IF misses < MaxMisses THEN misses + 1 ELSE misses
  /\ IF misses' = MaxMisses /\ 1 \in exited
     THEN Stopped /\ current' = None
     ELSE Untouched /\ UNCHANGED current

\* except (OSError, ValueError, RuntimeError, KeyError)
Failed ==
  /\ pc' = "poll" /\ target' = None
  /\ ready' = FALSE
  /\ misses' = IF misses < MaxMisses THEN misses + 1 ELSE misses
  /\ IF misses' = MaxMisses /\ children > 0
     THEN Stopped /\ current' = None
     ELSE Untouched /\ UNCHANGED current

-----------------------------------------------------------------------------
(* The loop *)

\* The status of the active Core is read.
PollOk ==
  /\ pc = "poll"
  /\ active # None
  /\ target' = active
  /\ misses' = 0
  /\ pc' = "check"
  /\ UNCHANGED <<first, active, tunnels, faults, current, procs, ready, up>>

\* No answer, or a Core that is not ready or not the leader.
PollFails ==
  /\ pc = "poll"
  /\ (active = None /\ UNCHANGED faults) \/ (active # None /\ Fault)
  /\ Failed
  /\ UNCHANGED <<first, active, up>>

\* Fault: a process that has exited is not a reason to start again.
NeedsRestart_IgnoresExit ==
  target # current \/ (children > 0 /\ tunnels = "none" /\ overdue)

\* Fault: nor is a UE that never gets an address.
NeedsRestart_NoDeadline == target # current \/ exited # {}

NeedsRestart ==
  \/ target # current
  \/ exited # {}
  \/ children > 0 /\ tunnels = "none" /\ overdue

Keep ==
  /\ pc = "check"
  /\ ~NeedsRestart
  /\ pc' = "observe"
  /\ UNCHANGED <<first, active, tunnels, faults, target, current, procs, misses,
                 ready, up>>

\* Fault: the processes of the old attachment are replaced one by one.
Restart_NoStop ==
  /\ pc = "check"
  /\ NeedsRestart
  /\ children' = 0 /\ exited' = {} /\ attached' = None /\ overdue' = FALSE
  /\ current' = target
  /\ pc' = "configure"
  /\ UNCHANGED <<first, active, tunnels, faults, target, misses, ready, up>>

\* stop(); current=target; ready=False, before anything is started.
Restart ==
  /\ pc = "check"
  /\ NeedsRestart
  /\ Stopped
  /\ current' = target
  /\ ready' = FALSE
  /\ pc' = "configure"
  /\ UNCHANGED <<first, active, faults, target, misses, up>>

\* addresses() cannot run `ip`, where it is called at all.
CheckFails ==
  /\ pc = "check"
  /\ target = current /\ exited = {} /\ children > 0
  /\ Fault
  /\ Failed
  /\ UNCHANGED <<first, active, up>>

\* configure(): the active Core is looked up again, for its N2 address.  When
\* the lookup gives nothing the first listed address is taken, and without a
\* list the name is resolved once more.
Configure ==
  /\ pc = "configure"
  /\ \/ active # None /\ attached' = active /\ UNCHANGED faults
     \/ active = None /\ first # None /\ attached' = first /\ UNCHANGED faults
     \/ active # None /\ first # None /\ attached' = first /\ Fault
  /\ pc' = "launch"
  /\ UNCHANGED <<first, active, tunnels, target, current, children, exited,
                 overdue, misses, ready, up>>

\* The name does not resolve, or the configuration cannot be written.
ConfigureFails ==
  /\ pc = "configure"
  /\ (active = None /\ first = None /\ UNCHANGED faults) \/ Fault
  /\ Failed
  /\ UNCHANGED <<first, active, up>>

\* Popen of one command and the second of sleep after it.
Launch ==
  /\ pc = "launch"
  /\ children' = children + 1
  /\ pc' = IF children + 1 = Commands THEN "observe" ELSE "launch"
  /\ UNCHANGED <<first, active, tunnels, faults, target, current, exited,
                 attached, overdue, misses, ready, up>>

LaunchFails ==
  /\ pc = "launch"
  /\ Fault
  /\ Failed
  /\ UNCHANGED <<first, active, up>>

Observe ==
  /\ pc = "observe"
  /\ ready' = (tunnels = "all" /\ exited = {})
  /\ pc' = "poll" /\ target' = None
  /\ UNCHANGED <<first, active, tunnels, faults, current, procs, misses, up>>

ObserveFails ==
  /\ pc = "observe"
  /\ Fault
  /\ Failed
  /\ UNCHANGED <<first, active, up>>

Loop == \/ PollOk \/ PollFails \/ Keep \/ Restart \/ CheckFails
        \/ Configure \/ ConfigureFails \/ Launch \/ LaunchFails
        \/ Observe \/ ObserveFails

-----------------------------------------------------------------------------
(* The container *)

StartupPasses ==
  /\ ready /\ ~up
  /\ up' = TRUE
  /\ UNCHANGED <<first, active, tunnels, faults, pc, target, current, procs,
                 misses, ready>>

Renewed ==   \* a new container
  /\ Stopped
  /\ pc' = "poll" /\ target' = None /\ current' = None
  /\ misses' = 0 /\ ready' = FALSE /\ up' = FALSE

\* An exception the loop does not catch, a signal, or the node goes.
Exits ==
  /\ Fault
  /\ Renewed
  /\ UNCHANGED <<first, active>>

\* The startup probe gives up after 240 s, many passes of the loop; there is
\* no liveness probe.
StartupFails ==
  /\ ~up /\ pc = "poll" /\ current # None
  /\ Renewed
  /\ UNCHANGED <<first, active, faults>>

Next ==
  \/ LeaderMoves \/ TunnelsChange \/ TimePasses
  \/ \E i \in 1..Commands : ChildExits(i)
  \/ Loop
  \/ StartupPasses \/ Exits \/ StartupFails

Spec == Init /\ [][Next]_vars

\* The loop runs, its calls time out, time passes and the kubelet probes.
Fairness == /\ WF_vars(Loop)
            /\ WF_vars(TimePasses)
            /\ WF_vars(StartupPasses)
            /\ SF_vars(StartupFails)

FairSpec == Spec /\ Fairness

-----------------------------------------------------------------------------
(* Properties *)

\* The pod is never reported ready while a process of the attachment has not
\* been started: all() of an empty list of children is true (line 112), so it
\* rests on the tunnels of the old processes being gone.
ReadyHasProcesses == ready => children = Commands

\* A process that exits is noticed whatever the Core does: it is replaced at
\* the next answer, or stopped with the rest after three failures.
DeadProcessReplaced == exited # {} ~> exited = {}

\* Without an active Core the simulator does not stay attached to an old one.
OldCoreReleased == <>[](active = None) => <>[](children = 0 /\ ~ready)

Attached(n) == children = Commands /\ attached = n

\* When one node stays the leader the supervisor attaches to it, after any
\* number of moves and wrong addresses.  Two cases are left out, because the
\* code does: it has no process to watch (NeverGivesUp), or the leader moved
\* back and forth between poll and configure and the UEs of the wrong node
\* still hold their addresses, which is all the loop looks at.
Reattaches ==
  \A n \in Nodes :
    <>[](active = n) => \/ []<>Attached(n)
                        \/ <>[](children = 0)
                        \/ <>[](tunnels # "none" /\ attached # n)

\* ella-stack/README.md:88-90: the supervisors "inspect the active Core API
\* and reattach their gNB after leadership changes".
NeverGivesUp ==
  \A n \in Nodes : <>[](active = n) => []<>(children > 0)
=============================================================================
