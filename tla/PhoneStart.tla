------------------------------ MODULE PhoneStart ------------------------------
(***************************************************************************)
(* One UE phone from the start of its process to "ready", and again after  *)
(* the process has died anywhere: initialize and attachInternet write into *)
(* the network namespace of the pod, which outlives the process.  start.sh *)
(* starts the process, and stops it when the active Core changes.  The     *)
(* charts run one UE per process, so the loops over UEs make one pass.     *)
(***************************************************************************)
EXTENDS Naturals

CONSTANTS Ips,       \* addresses the Core may give to the UE's session
          None,
          MaxUpsets  \* bound on calls that fail and processes that die

ASSUME StartAssumption == Ips # {} /\ None \notin Ips /\ MaxUpsets \in Nat

VARIABLES
  services,   \* the mode: IMS and SMS, or internet only
  pc,         \* "down", or where initialize is; "ready" and "failed" are its ends
  session,    \* the address of this process's internet session
  handed,     \* p.internetIP of the phone in d.phones
  problem,    \* d.problem: "none", "exists" (EEXIST) or "other"
  step,       \* firewall commands done
  missed,     \* what this process failed to clear, and went on (history)
  started,    \* this container has passed its startup probe
  upsets,
  \* the pod's network namespace
  link,       \* ellaweb0: "none", "old" (of a dead process) or "own"
  uplink,     \* table 200 has the default route, via that link
  ueRules,    \* sources with a rule to table 200 (priority 1200)
  blocked,    \* table 400 has the unreachable default route
  blockRules, \* sources with a rule to table 400 (priority 1300)
  chain,      \* how many of its rules ELLA_BROWSER has, per firewall
  jump        \* the firewalls whose OUTPUT sends user 1000 there

process   == <<session, handed, problem, step, missed>>
routing   == <<link, uplink, ueRules, blocked, blockRules>>
firewall  == <<chain, jump>>
setting   == <<services, started, upsets>>
startVars == <<pc, process, routing, firewall, setting>>

Firewalls == {"iptables", "ip6tables"}
Rules == 3   \* loopback, established connections, reject all else
Clearing == {"clear_rule", "clear_block", "clear_link"}
Local == Clearing \cup {"tunnel", "route", "rule", "unreachable", "block"}
         \* the locations of attachInternet
Steps == {"gnb", "attach", "ims", "session", "firewall", "listen"} \cup Local

StartTypeOK ==
  /\ services \in BOOLEAN /\ started \in BOOLEAN /\ upsets \in 0..MaxUpsets
  /\ pc \in Steps \cup {"down", "ready", "failed"}
  /\ session \in Ips \cup {None} /\ handed \in Ips \cup {None}
  /\ problem \in {"none", "exists", "other"}
  /\ step \in 0..10 /\ missed \subseteq Clearing
  /\ link \in {"none", "old", "own"} /\ uplink \in BOOLEAN /\ blocked \in BOOLEAN
  /\ ueRules \subseteq Ips /\ blockRules \subseteq Ips
  /\ chain \in [Firewalls -> 0..Rules]
  /\ jump \subseteq Firewalls

StartInit ==
  /\ services \in BOOLEAN /\ started = FALSE /\ upsets = 0
  /\ pc = "down" /\ session = None /\ handed = None /\ problem = "none" /\ step = 0
  /\ missed = {}
  /\ link = "none" /\ uplink = FALSE /\ ueRules = {}
  /\ blocked = FALSE /\ blockRules = {}
  /\ chain = [f \in Firewalls |-> 0] /\ jump = {}

-----------------------------------------------------------------------------
(* The process, its container and its surroundings *)

Upset == upsets < MaxUpsets /\ upsets' = upsets + 1 /\ UNCHANGED <<services, started>>

\* start.sh has selected a Core: the process listens, then runs initialize.
Start ==
  /\ pc = "down" /\ pc' = "gnb"
  /\ session' = None /\ handed' = None /\ problem' = "none" /\ step' = 0
  /\ missed' = {}
  /\ UNCHANGED <<routing, firewall, setting>>

\* The process is gone, its TUN perhaps with it; rules and routes stay.
ProcessEnds ==
  /\ pc' = "down" /\ handed' = None
  /\ \/ link # "none" /\ link' = "old" /\ UNCHANGED uplink
     \/ link' = "none" /\ uplink' = FALSE
  /\ UNCHANGED <<session, problem, step, missed, ueRules, blocked, blockRules,
                 firewall>>

\* start.sh stops it for another Core, it crashes, or its container is killed.
Dies ==
  /\ pc # "down" /\ upsets < MaxUpsets /\ upsets' = upsets + 1
  /\ started' \in {started, FALSE}
  /\ ProcessEnds
  /\ UNCHANGED services

\* Fault: the startup probe asks for the process, not for the phone.
ProbePasses_Healthz ==
  /\ pc # "down" /\ ~started /\ started' = TRUE
  /\ UNCHANGED <<pc, process, routing, firewall, services, upsets>>

ProbePasses ==
  /\ pc = "ready" /\ ~started /\ started' = TRUE
  /\ UNCHANGED <<pc, process, routing, firewall, services, upsets>>

\* 60 startup probes failed; afterwards only /healthz decides about a restart.
ProbeFails ==
  /\ pc = "failed" /\ ~started
  /\ ProcessEnds
  /\ UNCHANGED setting

\* The tunnel loses its route, as in the smoke test, or disappears.
TunnelFails ==
  /\ link = "own" /\ link' \in {"own", "none"} /\ uplink' = FALSE
  /\ Upset
  /\ UNCHANGED <<pc, process, ueRules, blocked, blockRules, firewall>>

-----------------------------------------------------------------------------
(* initialize *)

Goto(l) == pc' = l

\* fail(err): the phone is never ready in this process, which goes on.
Failed(why) ==
  /\ pc' = "failed" /\ problem' = why
  /\ UNCHANGED <<session, handed, step, missed, routing, firewall>>

\* A call to the gNB, the Core, netlink or iptables returns an error.
CallFails == pc \in Steps \ {"clear_rule", "clear_block"} /\ Upset /\ Failed("other")

\* Errors of RuleDel, and of LinkByName before LinkDel, are ignored: a rule or the
\* tunnel of a dead process stays.
ClearFails ==
  /\ pc \in Clearing /\ Upset
  /\ missed' = missed \cup {pc}
  /\ Goto(IF pc = "clear_rule" THEN "clear_block"
          ELSE IF pc = "clear_block" THEN "clear_link" ELSE "tunnel")
  /\ UNCHANGED <<session, handed, problem, step, routing, firewall>>

Gnb ==   \* startPhoneGNB: the gNB is up and NG setup has succeeded
  /\ pc = "gnb" /\ Goto("attach")
  /\ UNCHANGED <<process, routing, firewall, setting>>

AttachInternet ==   \* attachInternetUEs, which needs no IMS
  /\ pc = "attach" /\ ~services
  /\ session' \in Ips
  /\ Goto("session")
  /\ UNCHANGED <<handed, problem, step, missed, routing, firewall, setting>>

AttachServices ==
  /\ pc = "attach" /\ services
  /\ session' \in Ips
  /\ Goto("ims")
  /\ UNCHANGED <<handed, problem, step, missed, routing, firewall, setting>>

DashboardIMS ==
  /\ pc = "ims" /\ Goto("session")
  /\ UNCHANGED <<process, routing, firewall, setting>>

DashboardSession ==   \* the session established above, within five seconds
  /\ pc = "session" /\ Goto("clear_rule")
  /\ UNCHANGED <<process, routing, firewall, setting>>

\* Fault: nothing is cleared before it is created again.
ClearRule_Not ==
  /\ pc = "clear_rule" /\ Goto("clear_block")
  /\ UNCHANGED <<process, routing, firewall, setting>>

ClearRule ==   \* the rule is deleted, or there was none
  /\ pc = "clear_rule" /\ Goto("clear_block")
  /\ ueRules' = ueRules \ {session}
  /\ UNCHANGED <<process, link, uplink, blocked, blockRules, firewall, setting>>

ClearBlock ==
  /\ pc = "clear_block" /\ Goto("clear_link")
  /\ blockRules' = blockRules \ {session}
  /\ UNCHANGED <<process, link, uplink, ueRules, blocked, firewall, setting>>

ClearLink ==
  /\ pc = "clear_link" /\ Goto("tunnel")
  /\ link' = "none" /\ uplink' = FALSE
  /\ UNCHANGED <<process, ueRules, blocked, blockRules, firewall, setting>>

AddTunnel ==
  /\ pc = "tunnel"
  /\ \/ /\ link = "none" /\ link' = "own" /\ Goto("route")
        /\ UNCHANGED <<process, uplink, ueRules, blocked, blockRules, firewall>>
     \/ link # "none" /\ Failed("exists")
  /\ UNCHANGED setting

AddRoute ==
  /\ pc = "route"
  /\ \/ /\ link = "own" /\ uplink' = TRUE /\ Goto("rule")
        /\ UNCHANGED <<process, link, ueRules, blocked, blockRules, firewall>>
     \/ link # "own" /\ Failed("other")
  /\ UNCHANGED setting

AddRule ==
  /\ pc = "rule"
  /\ \/ /\ session \notin ueRules /\ ueRules' = ueRules \cup {session}
        /\ Goto("unreachable")
        /\ UNCHANGED <<process, link, uplink, blocked, blockRules, firewall>>
     \/ session \in ueRules /\ Failed("exists")
  /\ UNCHANGED setting

\* Fault: the phone is handed out before its fallback is in place.
AddUnreachable_HandsOut ==
  /\ pc = "unreachable" /\ blocked' = TRUE /\ handed' = session
  /\ Goto("block")
  /\ UNCHANGED <<session, problem, step, missed, link, uplink, ueRules, blockRules,
                 firewall, setting>>

AddUnreachable ==
  /\ pc = "unreachable" /\ blocked' = TRUE /\ Goto("block")
  /\ UNCHANGED <<process, link, uplink, ueRules, blockRules, firewall, setting>>

\* RuleAdd(fallback), p.internetIP is set, and the phone appended to d.phones.
AddBlock ==
  /\ pc = "block"
  /\ \/ /\ session \notin blockRules /\ blockRules' = blockRules \cup {session}
        /\ handed' = session /\ Goto("firewall")
        /\ UNCHANGED <<session, problem, step, missed, link, uplink, ueRules, blocked,
                       firewall>>
     \/ session \in blockRules /\ Failed("exists")
  /\ UNCHANGED setting

\* startBrowserProxy: for iptables, then for ip6tables, five commands that can
\* fail: -F, three times -A, and -I unless -C finds the jump.
Firewall ==
  LET f == IF step < 5 THEN "iptables" ELSE "ip6tables"
      c == step % 5
  IN /\ pc = "firewall"
     /\ chain' = IF c = 4 THEN chain ELSE [chain EXCEPT ![f] = c]
     /\ jump' = IF c = 4 THEN jump \cup {f} ELSE jump
     /\ step' = step + 1
     /\ Goto(IF step = 9 THEN "listen" ELSE "firewall")
     /\ UNCHANGED <<session, handed, problem, missed, routing, setting>>

Listen ==   \* the SOCKS port is open, and d.ready is set
  /\ pc = "listen" /\ Goto("ready")
  /\ UNCHANGED <<process, routing, firewall, setting>>

Initialize ==
  \/ Gnb \/ AttachInternet \/ AttachServices \/ DashboardIMS \/ DashboardSession
  \/ ClearRule \/ ClearBlock \/ ClearLink \/ AddTunnel \/ AddRoute \/ AddRule
  \/ AddUnreachable \/ AddBlock \/ Firewall \/ Listen

StartNext ==
  \/ Start \/ Dies \/ ProbePasses \/ ProbeFails \/ TunnelFails \/ CallFails
  \/ ClearFails \/ Initialize

StartSpec == StartInit /\ [][StartNext]_startVars

-----------------------------------------------------------------------------
(* Properties *)

\* Where the kernel sends a packet from src: rules go by priority, and a rule
\* whose table has no route is passed over.
Lookup(src) == IF src \in ueRules /\ uplink THEN link
               ELSE IF src \in blockRules /\ blocked THEN "unreachable" ELSE "main"

\* What the phone sends from its address leaves through the tunnel of its own
\* session or not at all, even when the tunnel fails ("do not fall through to
\* the pod's main table"), and when the phone is ready the browser's user
\* reaches loopback and nothing else, whatever died half way before.
TrafficConfined ==
  /\ handed # None => Lookup(handed) = IF uplink THEN "own" ELSE "unreachable"
  /\ pc = "ready" => jump = Firewalls /\ \A f \in Firewalls : chain[f] = Rules

\* What dead processes left in the namespace makes a start fail only when that same
\* start could not clear it: "otherwise Linux returns EEXIST and the phone remains
\* detached after an HA failover" (browse.go:29-32).  An error of clearing that is
\* ignored comes back as EEXIST, and only in the start that ignored it.
LeftoversHarmless == problem = "exists" => missed # {}

\* A container whose first start fails is replaced until the phone has been
\* ready once.  (Later the startup probe is over, and a start that fails after
\* a change of the Core is final until the Core changes again.)
BecomesReady == <>(pc = "ready")
=============================================================================
