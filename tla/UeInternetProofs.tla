--------------------------- MODULE UeInternetProofs ---------------------------
(***************************************************************************)
(* Proofs about UeInternet and its parts, for any set of addresses, of     *)
(* answers of the DNS and of pages, and any number of upsets, chunks,      *)
(* redirects, events and requests: an invariant of each part, the step of  *)
(* the composition as a step of its parts, and what follows for the whole. *)
(***************************************************************************)
EXTENDS UeInternet, TLAPS

-----------------------------------------------------------------------------
(* PhoneStart.  The pod's namespace outlives the process, so the invariant    *)
(* says what of it the running process may rely on at each of its steps.      *)

Named   == {"ims", "session"} \cup Local   \* it has a session, and no firewall yet
Cleared == {"clear_block", "clear_link", "tunnel", "route", "rule"}
Linked  == {"route", "rule", "unreachable", "block", "firewall", "listen", "ready"}
Up      == {"firewall", "listen", "ready"}

\* The process has a session as soon as it needs one.
SessionKnown == pc \in Named \cup Up => session # None

\* No rule or link of a dead process is left for what is about to be added, unless
\* this process tried to clear it and ignored the error.
Clean ==
  /\ pc \in Cleared => session \notin ueRules \/ "clear_rule" \in missed
  /\ pc \in {"clear_link", "tunnel", "route", "rule", "unreachable", "block"} =>
       session \notin blockRules \/ "clear_block" \in missed
  /\ pc = "tunnel" => link = "none" \/ "clear_link" \in missed

\* The link is its own or gone, and only a link that exists carries the route.
OwnLink ==
  /\ uplink => link # "none"
  /\ pc \in Linked \/ handed # None => link # "old"

\* What has been added is still there when the phone is handed out, and it has
\* been handed out before anybody can ask for a page.
Fallback ==
  /\ pc \in {"unreachable", "block"} => session \in ueRules
  /\ pc = "block" => blocked
  /\ handed # None => /\ handed \in ueRules /\ handed \in blockRules /\ blocked
                      /\ pc \in Up \cup {"failed"}
  /\ pc \in Up => handed # None

\* How far the firewall is; before it starts, step is 0.
Walled ==
  /\ pc \in {"gnb", "attach"} \cup Named => step = 0
  /\ pc \in {"listen", "ready"} => step = 10
  /\ pc \in Up =>
       /\ step >= 4 => chain["iptables"] = Rules
       /\ step >= 5 => "iptables" \in jump
       /\ step >= 9 => chain["ip6tables"] = Rules
       /\ step >= 10 => "ip6tables" \in jump
  /\ pc = "firewall" => step < 10

StartInv ==
  /\ StartTypeOK /\ SessionKnown /\ Clean /\ OwnLink /\ Fallback /\ Walled
  /\ LeftoversHarmless

\* The pod's first start.
LEMMA InitHolds == StartInit => StartInv
<1> SUFFICES ASSUME StartInit PROVE StartInv
  OBVIOUS
<1>1. 0 \in 0..MaxUpsets /\ 0 \in 0..10 /\ 0 \in 0..Rules
  BY StartAssumption DEF Rules
<1>2. StartTypeOK
  BY <1>1 DEF StartInit, StartTypeOK
<1>3. QED
  BY <1>2 DEF StartInit, StartInv, SessionKnown, Clean, OwnLink, Fallback, Walled,
              LeftoversHarmless, Named, Up, Clearing, Local

\* The world around the process: whatever it leaves is safe to start from.
LEMMA SurroundingsKeep ==
  ASSUME StartInv, Start \/ Dies \/ ProbePasses \/ ProbeFails \/ TunnelFails \/ CallFails
  PROVE  StartInv'
<1> USE DEF Named, Cleared, Linked, Up, Clearing, Local, Steps, LeftoversHarmless
<1>0. upsets < MaxUpsets /\ upsets' = upsets + 1 => upsets' \in 0..MaxUpsets
  <2>1. upsets \in 0..MaxUpsets
    BY DEF StartInv, StartTypeOK
  <2>2. QED
    BY <2>1, StartAssumption
<1>1. CASE Start
  <2>1. StartTypeOK'
    BY <1>1 DEF Start, StartInv, StartTypeOK, routing, firewall, setting
  <2>2. QED
    BY <1>1, <2>1 DEF Start, StartInv, SessionKnown, Clean, OwnLink, Fallback,
                      Walled, routing
<1>2. ASSUME ProcessEnds, started' \in BOOLEAN, upsets' \in 0..MaxUpsets,
             services' = services
      PROVE  StartInv'
  <2>1. StartTypeOK'
    BY <1>2 DEF ProcessEnds, StartInv, StartTypeOK, firewall
  <2>2. QED
    BY <1>2, <2>1 DEF ProcessEnds, StartInv, SessionKnown, Clean, OwnLink, Fallback,
                      Walled
<1>3. CASE Dies
  <2>1. started' \in BOOLEAN /\ upsets' \in 0..MaxUpsets
    BY <1>0, <1>3 DEF Dies, StartInv, StartTypeOK
  <2>2. QED
    BY <1>2, <1>3, <2>1 DEF Dies
<1>4. CASE ProbeFails
  BY <1>2, <1>4 DEF ProbeFails, setting, StartInv, StartTypeOK
<1>5. CASE ProbePasses
  <2>1. StartTypeOK'
    BY <1>5 DEF ProbePasses, StartInv, StartTypeOK, process, routing, firewall
  <2>2. QED
    BY <1>5, <2>1 DEF ProbePasses, StartInv, SessionKnown, Clean, OwnLink, Fallback,
                      Walled, process, routing, firewall
<1>7. CASE TunnelFails
  <2>1. /\ link' \in {"none", "own"} /\ uplink' = FALSE
        /\ UNCHANGED <<pc, session, handed, problem, step, missed, ueRules,
                       blocked, blockRules, chain, jump, services, started>>
    BY <1>7 DEF TunnelFails, Upset, process, firewall
  <2>2. upsets' \in 0..MaxUpsets
    BY <1>0, <1>7 DEF TunnelFails, Upset, StartInv, StartTypeOK
  <2>3. /\ pc' = pc /\ session' = session /\ handed' = handed /\ problem' = problem
        /\ missed' = missed /\ ueRules' = ueRules /\ blocked' = blocked
        /\ blockRules' = blockRules /\ step' = step /\ chain' = chain /\ jump' = jump
        /\ services' = services /\ started' = started
    BY <2>1
  <2>4. StartTypeOK'
    <3> HIDE DEF Named, Cleared, Linked, Up, Clearing, Local, Steps
    <3>1. QED
      BY <2>1, <2>2, <2>3 DEF StartInv, StartTypeOK
  <2>5. SessionKnown' /\ Fallback' /\ Walled' /\ LeftoversHarmless'
    BY <2>3 DEF StartInv, SessionKnown, Fallback, Walled
  <2>6. Clean'
    BY <1>7, <2>3 DEF TunnelFails, StartInv, Clean, OwnLink
  <2>7. OwnLink'
    BY <2>1 DEF OwnLink
  <2>8. QED
    BY <2>3, <2>4, <2>5, <2>6, <2>7 DEF StartInv
<1>8. CASE CallFails
  <2>1. StartTypeOK'
    BY <1>0, <1>8 DEF CallFails, Failed, Upset, StartInv, StartTypeOK, routing, firewall
  <2>2. QED
    BY <1>8, <2>1 DEF CallFails, Failed, StartInv, SessionKnown, Clean, OwnLink,
                      Fallback, Walled, routing
<1>9. QED
  BY <1>1, <1>3, <1>4, <1>5, <1>7, <1>8

\* The calls that give the process its session.
LEMMA AttachKeeps ==
  ASSUME StartInv,
         \/ Gnb \/ AttachInternet \/ AttachServices \/ DashboardIMS \/ DashboardSession
  PROVE  StartInv'
<1> USE DEF Named, Cleared, Linked, Up, Clearing, Local, Steps, Goto, process, routing,
            firewall, setting, LeftoversHarmless
<1>1. CASE Gnb
  <2>1. StartTypeOK'
    BY <1>1 DEF Gnb, StartInv, StartTypeOK
  <2>2. QED
    BY <1>1, <2>1 DEF Gnb, StartInv, SessionKnown, Clean, OwnLink, Fallback, Walled
<1>2. CASE AttachInternet
  <2>1. StartTypeOK'
    BY <1>2 DEF AttachInternet, StartInv, StartTypeOK
  <2>2. QED
    BY <1>2, <2>1, StartAssumption DEF AttachInternet, StartInv, SessionKnown, Clean,
                                       OwnLink, Fallback, Walled
<1>3. CASE AttachServices
  <2>1. StartTypeOK'
    BY <1>3 DEF AttachServices, StartInv, StartTypeOK
  <2>2. QED
    BY <1>3, <2>1, StartAssumption DEF AttachServices, StartInv, SessionKnown, Clean,
                                       OwnLink, Fallback, Walled
<1>4. CASE DashboardIMS
  <2>1. StartTypeOK'
    BY <1>4 DEF DashboardIMS, StartInv, StartTypeOK
  <2>2. QED
    BY <1>4, <2>1 DEF DashboardIMS, StartInv, SessionKnown, Clean, OwnLink, Fallback,
                      Walled
<1>5. CASE DashboardSession
  <2>1. StartTypeOK'
    BY <1>5 DEF DashboardSession, StartInv, StartTypeOK
  <2>2. QED
    BY <1>5, <2>1 DEF DashboardSession, StartInv, SessionKnown, Clean, OwnLink,
                      Fallback, Walled
<1>6. QED
  BY <1>1, <1>2, <1>3, <1>4, <1>5

\* What a dead process left is cleared, or this process knows that it is not.
LEMMA ClearKeeps ==
  ASSUME StartInv, ClearRule \/ ClearBlock \/ ClearLink \/ ClearFails
  PROVE  StartInv'
<1> USE DEF Named, Cleared, Linked, Up, Clearing, Local, Steps, Goto, process, routing,
            firewall, setting, LeftoversHarmless
<1>1. CASE ClearRule
  <2>1. StartTypeOK'
    BY <1>1 DEF ClearRule, StartInv, StartTypeOK
  <2>2. QED
    BY <1>1, <2>1 DEF ClearRule, StartInv, SessionKnown, Clean, OwnLink, Fallback,
                      Walled
<1>2. CASE ClearBlock
  <2>1. StartTypeOK'
    BY <1>2 DEF ClearBlock, StartInv, StartTypeOK
  <2>2. QED
    BY <1>2, <2>1 DEF ClearBlock, StartInv, SessionKnown, Clean, OwnLink, Fallback,
                      Walled
<1>3. CASE ClearLink
  <2>1. StartTypeOK'
    BY <1>3 DEF ClearLink, StartInv, StartTypeOK
  <2>2. QED
    BY <1>3, <2>1 DEF ClearLink, StartInv, SessionKnown, Clean, OwnLink, Fallback,
                      Walled
<1>4. CASE ClearFails
  <2>1. upsets' \in 0..MaxUpsets
    BY <1>4, StartAssumption DEF ClearFails, Upset, StartInv, StartTypeOK
  <2>2. StartTypeOK'
    BY <1>4, <2>1 DEF ClearFails, Upset, StartInv, StartTypeOK
  <2>3. QED
    BY <1>4, <2>2 DEF ClearFails, StartInv, SessionKnown, Clean, OwnLink, Fallback,
                      Walled
<1>5. QED
  BY <1>1, <1>2, <1>3, <1>4

\* Tunnel, route and rules are added; EEXIST shows what was not cleared.
LEMMA AddKeeps ==
  ASSUME StartInv, AddTunnel \/ AddRoute \/ AddRule \/ AddUnreachable \/ AddBlock
  PROVE  StartInv'
<1> USE DEF Named, Cleared, Linked, Up, Clearing, Local, Steps, Goto, process, routing,
            firewall, setting, LeftoversHarmless
<1>1. CASE AddTunnel
  <2>1. StartTypeOK'
    BY <1>1 DEF AddTunnel, Failed, StartInv, StartTypeOK
  <2>2. QED
    BY <1>1, <2>1 DEF AddTunnel, Failed, StartInv, SessionKnown, Clean, OwnLink,
                      Fallback, Walled
<1>2. CASE AddRoute
  <2>1. StartTypeOK'
    BY <1>2 DEF AddRoute, Failed, StartInv, StartTypeOK
  <2>2. QED
    BY <1>2, <2>1 DEF AddRoute, Failed, StartInv, StartTypeOK, SessionKnown, Clean,
                      OwnLink, Fallback, Walled
<1>3. CASE AddRule
  <2>0. session \in Ips
    BY <1>3 DEF AddRule, StartInv, StartTypeOK, SessionKnown
  <2>1. StartTypeOK'
    BY <1>3, <2>0 DEF AddRule, Failed, StartInv, StartTypeOK
  <2>2. QED
    BY <1>3, <2>1 DEF AddRule, Failed, StartInv, StartTypeOK, SessionKnown, Clean,
                      OwnLink, Fallback, Walled
<1>4. CASE AddUnreachable
  <2>1. StartTypeOK'
    BY <1>4 DEF AddUnreachable, Failed, StartInv, StartTypeOK
  <2>2. QED
    BY <1>4, <2>1 DEF AddUnreachable, Failed, StartInv, SessionKnown, Clean, OwnLink,
                      Fallback, Walled
<1>5. CASE AddBlock
  <2>0. session \in Ips
    BY <1>5 DEF AddBlock, StartInv, StartTypeOK, SessionKnown
  <2>1. StartTypeOK'
    BY <1>5, <2>0 DEF AddBlock, Failed, StartInv, StartTypeOK
  <2>2. /\ session \in ueRules /\ blocked /\ step = 0 /\ link # "old" /\ handed = None
        /\ session \in blockRules => missed # {}
    BY <1>5 DEF AddBlock, StartInv, Clean, Fallback, Walled, OwnLink
  <2>3. CASE session \notin blockRules
    <3>1. /\ handed' = session /\ session' = session /\ pc' = "firewall" /\ step' = 0
          /\ blockRules' = blockRules \cup {session} /\ ueRules' = ueRules
          /\ blocked' = blocked /\ link' = link /\ uplink' = uplink
          /\ problem' = problem /\ missed' = missed
      BY <1>5, <2>2, <2>3 DEF AddBlock, Failed
    <3>2. Fallback' /\ Walled'
      BY <2>0, <2>1, <2>2, <3>1, StartAssumption DEF StartTypeOK, Fallback, Walled
    <3>3. SessionKnown' /\ Clean' /\ OwnLink' /\ LeftoversHarmless'
      BY <2>0, <2>1, <2>2, <3>1, StartAssumption
         DEF StartInv, SessionKnown, Clean, OwnLink
    <3>4. QED
      BY <2>1, <3>2, <3>3 DEF StartInv
  <2>4. CASE session \in blockRules
    <3>1. /\ pc' = "failed" /\ problem' = "exists" /\ missed' # {}
          /\ UNCHANGED <<session, handed, step, routing, firewall>>
      BY <1>5, <2>2, <2>4 DEF AddBlock, Failed
    <3>2. SessionKnown' /\ Clean' /\ LeftoversHarmless'
      BY <3>1 DEF SessionKnown, Clean
    <3>3. OwnLink' /\ Fallback' /\ Walled'
      BY <2>2, <3>1 DEF StartInv, OwnLink, Fallback, Walled
    <3>4. QED
      BY <2>1, <3>2, <3>3 DEF StartInv
  <2>5. QED
    BY <2>3, <2>4
<1>6. QED
  BY <1>1, <1>2, <1>3, <1>4, <1>5

\* The firewall is rebuilt command by command.
LEMMA FirewallKeeps ==
  ASSUME StartInv, Firewall \/ Listen
  PROVE  StartInv'
<1> USE DEF Named, Cleared, Linked, Up, Clearing, Local, Steps, Goto, process, routing,
            firewall, setting, LeftoversHarmless
<1>1. CASE Firewall
  <2>0. step \in 0..9
    BY <1>1 DEF Firewall, StartInv, StartTypeOK, Walled
  <2>1. StartTypeOK'
    <3>1. step % 5 \in 0..4 /\ step' \in 0..10
      BY <1>1, <2>0 DEF Firewall
    <3>2. chain' \in [Firewalls -> 0..Rules] /\ jump' \subseteq Firewalls
      BY <1>1, <3>1 DEF Firewall, Firewalls, Rules, StartInv, StartTypeOK
    <3>3. QED
      BY <1>1, <3>1, <3>2 DEF Firewall, StartInv, StartTypeOK
  <2>2. QED
    BY <1>1, <2>1 DEF Firewall, Rules, StartInv, StartTypeOK, SessionKnown, Clean,
                      OwnLink, Fallback, Walled
<1>2. CASE Listen
  <2>1. StartTypeOK'
    BY <1>2 DEF Listen, StartInv, StartTypeOK
  <2>2. QED
    BY <1>2, <2>1 DEF Listen, StartInv, SessionKnown, Clean, OwnLink, Fallback, Walled
<1>3. QED
  BY <1>1, <1>2

\* No step of the process or of its surroundings breaks the invariant.
LEMMA StepKeeps == ASSUME StartInv, [StartNext]_startVars PROVE StartInv'
<1>1. CASE UNCHANGED startVars
  <2>1. StartTypeOK'
    BY <1>1 DEF startVars, process, routing, firewall, setting, StartInv, StartTypeOK
  <2>2. SessionKnown' /\ Clean' /\ OwnLink'
    BY <1>1 DEF startVars, process, routing, StartInv, SessionKnown, Clean, OwnLink
  <2>3. Fallback' /\ Walled' /\ LeftoversHarmless'
    BY <1>1 DEF startVars, process, routing, firewall, StartInv, Fallback, Walled,
                LeftoversHarmless
  <2>4. QED
    BY <2>1, <2>2, <2>3 DEF StartInv
<1>2. CASE StartNext
  BY <1>2, SurroundingsKeep, AttachKeeps, ClearKeeps, AddKeeps, FirewallKeeps
     DEF StartNext, Initialize
<1>3. QED
  BY <1>1, <1>2

\* The invariant holds at every step of every start.
THEOREM Invariance == StartSpec => []StartInv
BY InitHolds, StepKeeps, PTL DEF StartSpec

\* Types.
THEOREM TypeCorrect == StartSpec => []StartTypeOK
<1>1. StartInv => StartTypeOK
  BY DEF StartInv
<1>2. QED
  BY <1>1, Invariance, PTL

\* What the phone sends from its address leaves through its own tunnel or not at
\* all, and the browser's user is confined when the phone is ready.
THEOREM Confinement == StartSpec => []TrafficConfined
<1>1. ASSUME StartInv PROVE TrafficConfined
  <2>1. ASSUME handed # None
        PROVE  Lookup(handed) = IF uplink THEN "own" ELSE "unreachable"
    <3>1. uplink => link = "own"
      BY <1>1, <2>1 DEF StartInv, StartTypeOK, OwnLink
    <3>2. handed \in ueRules /\ handed \in blockRules /\ blocked
      BY <1>1, <2>1 DEF StartInv, Fallback
    <3>3. QED
      BY <3>1, <3>2 DEF Lookup
  <2>2. ASSUME pc = "ready"
        PROVE  jump = Firewalls /\ \A f \in Firewalls : chain[f] = Rules
    <3>1. /\ chain["iptables"] = Rules /\ "iptables" \in jump
          /\ chain["ip6tables"] = Rules /\ "ip6tables" \in jump
      BY <1>1, <2>2 DEF StartInv, Walled, Up
    <3>2. jump \subseteq Firewalls
      BY <1>1 DEF StartInv, StartTypeOK
    <3>3. QED
      BY <3>1, <3>2 DEF Firewalls
  <2>3. QED
    BY <2>1, <2>2 DEF TrafficConfined
<1>2. QED
  BY <1>1, Invariance, PTL

\* What a dead process left makes a start fail with EEXIST only if that same start
\* tried to clear it and ignored the error.
THEOREM RestartsClean == StartSpec => []LeftoversHarmless
<1>1. StartInv => LeftoversHarmless
  BY DEF StartInv
<1>2. QED
  BY <1>1, Invariance, PTL

\* How far a start is: the calls of initialize, the firewall's ten among them.
Place ==
  CASE pc = "gnb"         -> 0
    [] pc = "attach"      -> 1
    [] pc = "ims"         -> 2
    [] pc = "session"     -> 3
    [] pc = "clear_rule"  -> 4
    [] pc = "clear_block" -> 5
    [] pc = "clear_link"  -> 6
    [] pc = "tunnel"      -> 7
    [] pc = "route"       -> 8
    [] pc = "rule"        -> 9
    [] pc = "unreachable" -> 10
    [] pc = "block"       -> 11
    [] pc = "firewall"    -> 12 + step
    [] pc = "listen"      -> 22
    [] OTHER              -> 23

\* What a start does while nothing upsets it: it goes on, or it has lost its tunnel
\* to an upset before it could put the route there, or it finds what it has failed
\* to clear.
Onward == Place' > Place /\ pc' \in Steps \cup {"ready"}
Advances ==
  pc \in Steps /\ upsets' = upsets =>
    \/ UNCHANGED <<pc, step>>
    \/ Onward
    \/ pc = "route" /\ link = "none" /\ pc' = "failed"
    \/ missed # {} /\ pc' = "failed" /\ problem' = "exists"

\* What PhoneBecomesReady rests on besides fairness: a start takes at most 23 calls,
\* and whatever dead processes have left in the namespace, none of these calls fails
\* but for an upset during that same start: a call that returned an error, the loss
\* of its tunnel, or an error of clearing that was ignored and comes back as EEXIST.
THEOREM StartsAdvance ==
  StartSpec => [](pc \in Steps => Place \in 0..22) /\ [][Advances]_startVars
<1>1. StartInv => (pc \in Steps => Place \in 0..22)
  <2> SUFFICES ASSUME StartInv, pc \in Steps PROVE Place \in 0..22
    OBVIOUS
  <2>1. pc = "firewall" => step \in 0..9
    BY DEF StartInv, StartTypeOK, Walled, Up
  <2>2. QED
    BY <2>1 DEF Place, Steps, Clearing, Local
<1>2. StartInv /\ [StartNext]_startVars => [Advances]_startVars
  <2> SUFFICES ASSUME StartInv, StartNext, pc \in Steps, upsets' = upsets
               PROVE  \/ UNCHANGED <<pc, step>> \/ Onward
                      \/ pc = "route" /\ link = "none" /\ pc' = "failed"
                      \/ missed # {} /\ pc' = "failed" /\ problem' = "exists"
    BY DEF Advances
  <2>1. upsets \in Nat /\ upsets + 1 # upsets
    BY StartAssumption DEF StartInv, StartTypeOK
  <2>2. Initialize
    BY <2>1 DEF StartNext, Start, Dies, ProbePasses, ProbeFails, TunnelFails, CallFails,
                ClearFails, Upset, Steps, Clearing, Local
  <2> USE DEF Place, Onward, Steps, Clearing, Local, Goto
  <2>3. CASE Gnb \/ AttachInternet \/ AttachServices \/ DashboardIMS
    BY <2>3 DEF Gnb, AttachInternet, AttachServices, DashboardIMS
  <2>4. CASE DashboardSession \/ ClearRule \/ ClearBlock \/ ClearLink
    BY <2>4 DEF DashboardSession, ClearRule, ClearBlock, ClearLink
  <2>5. CASE AddTunnel
    BY <2>5 DEF AddTunnel, Failed, StartInv, Clean
  <2>6. CASE AddRoute
    BY <2>6 DEF AddRoute, Failed, StartInv, StartTypeOK, OwnLink, Linked
  <2>7. CASE AddRule \/ AddUnreachable
    BY <2>7 DEF AddRule, AddUnreachable, Failed, StartInv, Clean, Cleared
  <2>8. CASE AddBlock
    <3>1. pc = "block" /\ step = 0 /\ (session \in blockRules => missed # {})
      BY <2>8 DEF AddBlock, StartInv, Clean, Walled, Named
    <3>2. \/ pc' = "firewall" /\ step' = 0
          \/ session \in blockRules /\ pc' = "failed" /\ problem' = "exists"
      BY <2>8, <3>1 DEF AddBlock, Failed
    <3>3. QED
      BY <3>1, <3>2
  <2>9. CASE Firewall
    <3>1. step \in 0..9
      BY <2>9 DEF Firewall, StartInv, StartTypeOK, Walled, Up
    <3>2. /\ pc = "firewall" /\ step' = step + 1
          /\ pc' = (IF step = 9 THEN "listen" ELSE "firewall")
      BY <2>9 DEF Firewall
    <3>3. QED
      BY <3>1, <3>2
  <2>10. CASE Listen
    BY <2>10 DEF Listen
  <2>11. QED
    BY <2>2, <2>3, <2>4, <2>5, <2>6, <2>7, <2>8, <2>9, <2>10 DEF Initialize
<1>3. QED
  BY <1>1, <1>2, Invariance, PTL DEF StartSpec

-----------------------------------------------------------------------------
(* Relays *)

RelayTypeOK ==
  /\ kind \in {"none", "socks", "connect", "forward", "browse"}
  /\ stage \in {"idle", "asked", "dialling", "connecting", "relaying"}
  /\ cl \in {"open", "half", "gone"} /\ us \in {"none", "open", "fin", "reset"}
  /\ sent \in Nat /\ left \in Nat /\ left <= sent /\ via \in Nat
  /\ upward \in {"off", "run", "ended"} /\ downward \in {"off", "run", "ended"}
  /\ closed \in BOOLEAN /\ expired \in BOOLEAN
  /\ stalled \subseteq {"up", "down"}
  /\ ips \in SUBSET Addresses /\ dialled \in Addresses \cup {"none"}

\* Before a server is connected there is nothing to copy, to close or to expire.
Unconnected ==
  stage # "relaying" =>
    /\ us = "none" /\ sent = 0 /\ upward = "off" /\ downward = "off"
    /\ closed = FALSE /\ expired = FALSE /\ dialled = "none"

\* What is about to be dialled has been checked: the very addresses, not their name.
Checked == stage = "connecting" => MayDial(ips)

\* Only a copier that runs waits in Write, with something to write.
Waiting ==
  /\ "up" \in stalled => upward = "run"
  /\ "down" \in stalled => downward = "run" /\ left > 0 /\ kind # "browse"

\* Only upstream and browse have deadlines, only two of the four copy upwards.
ByKind ==
  /\ expired => kind \in {"socks", "browse"}
  /\ upward # "off" => kind \in {"socks", "connect"}

\* Why a copy to the client may stop; none of these causes ever goes away.
Cause ==
  \/ expired \/ us = "reset" \/ (us = "fin" /\ left = 0) \/ cl = "gone"
  \/ kind # "socks" /\ cl # "open"

\* A connection is closed under a running copy by the CONNECT tunnel only.
CutShort ==
  closed /\ downward = "run" => kind = "connect" /\ (cl # "open" \/ us = "reset")

\* A relay's copiers are there, and the end of a copy that ends the relay has
\* closed what the other one waits for.
Tied ==
  /\ stage = "relaying" =>
       /\ us # "none" /\ (downward = "run" \/ (downward = "ended" /\ closed))
       /\ kind \in {"socks", "connect"} => upward # "off"
       /\ kind = "connect" /\ upward = "ended" => closed
  /\ stage # "idle" => kind # "none"

RelayInv ==
  /\ RelayTypeOK /\ Unconnected /\ Checked /\ Waiting /\ ByKind /\ CutShort /\ Tied
  /\ DialsPublic
  /\ downward = "ended" => Cause

LEMMA RelayInitHolds == RelayInit => RelayInv
<1>1. 0 \in Nat /\ 0 <= 0
  OBVIOUS
<1>2. QED
  BY <1>1 DEF RelayInit, RelayInv, RelayTypeOK, Unconnected, Checked, Waiting, ByKind,
              CutShort, Tied, DialsPublic

\* A connection that is dropped leaves what RelayInit starts from.
LEMMA DroppedKeeps == Dropped => RelayInv'
<1>1. 0 \in Nat /\ 0 <= 0
  OBVIOUS
<1>2. QED
  BY <1>1 DEF Dropped, RelayInv, RelayTypeOK, Unconnected, Checked, Waiting, ByKind,
              CutShort, Tied, DialsPublic

\* Client and server, and time: they only ever add causes.
LEMMA PeersKeep ==
  ASSUME RelayInv, Peers \/ Expires
  PROVE  RelayInv'
<1> USE DEF RelayInv, RelayTypeOK, Unconnected, Checked, Waiting, ByKind, CutShort,
            Tied, Cause, DialsPublic, MayDial, request, copying, target
<1>1. CASE ClientEnds
  BY <1>1 DEF ClientEnds
<1>2. CASE ServerSends
  BY <1>2 DEF ServerSends
<1>3. CASE ServerFinishes
  BY <1>3 DEF ServerFinishes
<1>4. CASE ServerResets
  BY <1>4 DEF ServerResets
<1>5. CASE Expires
  BY <1>5 DEF Expires
<1>6. CASE PeerStalls
  BY <1>6 DEF PeerStalls
<1>7. CASE ServerReads
  BY <1>7 DEF ServerReads
<1>8. QED
  BY <1>1, <1>2, <1>3, <1>4, <1>5, <1>6, <1>7 DEF Peers

\* A request until it is connected, again after each redirect.
LEMMA ConnectKeeps ==
  ASSUME RelayInv,
         \/ \E k \in {"socks", "browse", "connect", "forward"} : Ask(k)
         \/ Handshake \/ HandshakeFails \/ Resolve \/ Dial \/ DialFails
         \/ Redirect \/ RedirectFails
  PROVE  RelayInv'
<1> USE DEF RelayInv, RelayTypeOK, Unconnected, Checked, Waiting, ByKind, CutShort,
            Tied, Cause, DialsPublic, MayDial, request, copying, target
<1>1. ASSUME NEW k \in {"socks", "browse", "connect", "forward"}, Ask(k) PROVE RelayInv'
  BY <1>1 DEF Ask
<1>2. CASE Handshake
  BY <1>2 DEF Handshake
<1>3. CASE Resolve
  BY <1>3, RelayAssumption DEF Resolve
<1>4. CASE Dial
  <2>1. dialled' \in ips /\ ips \subseteq Addresses
    BY <1>4 DEF Dial, Tried
  <2>2. dialled' \in Addresses /\ (kind \in {"socks", "browse"} => publicIP(dialled'))
    BY <1>4, <2>1 DEF Dial
  <2>3. QED
    BY <1>4, <2>2 DEF Dial
<1>5. CASE Redirect
  BY <1>5 DEF Redirect, Answered
<1>6. CASE HandshakeFails \/ DialFails \/ RedirectFails
  BY <1>6, DroppedKeeps DEF HandshakeFails, DialFails, RedirectFails
<1>7. QED
  BY <1>1, <1>2, <1>3, <1>4, <1>5, <1>6

\* The two copiers: a copy to the client only stops for a cause.
LEMMA CopiersKeep ==
  ASSUME RelayInv, Deliver \/ Copiers \/ UpwardFails
  PROVE  RelayInv'
<1> USE DEF RelayInv, RelayTypeOK, Unconnected, Checked, Waiting, ByKind, CutShort,
            Tied, Cause, DialsPublic, MayDial, request, copying, target
<1>1. CASE Deliver
  BY <1>1 DEF Deliver
<1>2. CASE DownwardEnds
  <2>1. Cause
    BY <1>2 DEF DownwardEnds, MustEnd, SourceEnded
  <2>2. QED
    BY <1>2, <2>1 DEF DownwardEnds
<1>3. CASE UpwardEnds
  BY <1>3 DEF UpwardEnds, UpwardMust, UpwardStops
<1>4. CASE UpwardFails
  BY <1>4 DEF UpwardFails, UpwardStops
<1>5. CASE Released
  BY <1>5, DroppedKeeps DEF Released
<1>6. QED
  BY <1>1, <1>2, <1>3, <1>4, <1>5 DEF Copiers

\* The cause of a copy's end is none that the property speaks of.
LEMMA CauseComplete == RelayInv => StreamsComplete
BY DEF RelayInv, Cause, StreamsComplete

-----------------------------------------------------------------------------
(* Navigation *)

NavTypeOK ==
  /\ command \in 0..4 /\ awaited \in BOOLEAN /\ verdict \in {"none", "ok", "error"}
  /\ handled \in 0..4 /\ done \subseteq Commands
  /\ mail \in Seq([id : 0..4, error : BOOLEAN])

\* The tab is never ahead of what was sent to it.
TabFollows ==
  /\ command # 0 => handled <= Sent /\ verdict = "none"
  /\ awaited => command # 0

\* An acknowledgement in the mail was earned.
MailTrue ==
  \A i \in DOMAIN mail : mail[i].id # Event /\ ~mail[i].error => mail[i].id \in done

\* What came before the current command has been carried out.
InOrder == \A c \in Commands : c < command => c \in done

NavInv == NavTypeOK /\ TabFollows /\ MailTrue /\ InOrder /\ NavigatesAsPhone

LEMMA NavInitHolds == (NavInit => NavInv) /\ (NavOver => NavInv')
<1>1. <<>> \in Seq([id : 0..4, error : BOOLEAN]) /\ DOMAIN <<>> = {}
  OBVIOUS
<1>2. 0 \in 0..4 /\ 4 \notin {} /\ (\A c \in 1..4 : ~(c < 0))
  OBVIOUS
<1>3. QED
  BY <1>1, <1>2 DEF NavInit, NavOver, NavInv, NavTypeOK, TabFollows, MailTrue,
                          InOrder, NavigatesAsPhone, Commands

\* What is added to the mail is as true as what is in it.
LEMMA MailGrows ==
  ASSUME NavInv, NEW m \in [id : 0..4, error : BOOLEAN], mail' = Append(mail, m),
         done \subseteq done', m.id # Event /\ ~m.error => m.id \in done'
  PROVE  mail' \in Seq([id : 0..4, error : BOOLEAN]) /\ MailTrue'
<1>1. mail \in Seq([id : 0..4, error : BOOLEAN])
  BY DEF NavInv, NavTypeOK
<1>2. /\ mail' \in Seq([id : 0..4, error : BOOLEAN])
      /\ \A i \in DOMAIN mail' : mail'[i] = m \/ (i \in DOMAIN mail /\ mail'[i] = mail[i])
  BY <1>1
<1>3. QED
  BY <1>2 DEF NavInv, MailTrue

\* The tab carries a command out only after all before it.
LEMMA TabKeeps ==
  ASSUME NavInv, TabObeys \/ TabRefuses \/ TabReports
  PROVE  NavInv'
<1> USE DEF NavInv, NavTypeOK, TabFollows, InOrder, NavigatesAsPhone, Commands
<1>1. handled < Sent => /\ handled + 1 \in 1..4 /\ command # 0
                        /\ handled + 1 <= command
  BY DEF Sent
<1>2. CASE TabObeys
  <2> DEFINE m == [id |-> handled', error |-> FALSE]
  <2>1. m \in [id : 0..4, error : BOOLEAN] /\ m.id \in done' /\ done \subseteq done'
    BY <1>1, <1>2 DEF TabObeys
  <2>2. mail' = Append(mail, m)
    BY <1>2 DEF TabObeys
  <2>3. mail' \in Seq([id : 0..4, error : BOOLEAN]) /\ MailTrue'
    <3> HIDE DEF m
    <3> QED
      BY <2>1, <2>2, MailGrows
  <2>4. NavTypeOK'
    BY <1>1, <1>2, <2>3 DEF TabObeys
  <2>5. (TabFollows /\ InOrder)'
    BY <1>1, <1>2 DEF TabObeys, Sent
  <2>6. NavigatesAsPhone'
    <3>1. done' = done \cup {handled + 1} /\ handled < Sent /\ verdict' = "none"
      BY <1>1, <1>2 DEF TabObeys
    <3>2. handled + 1 = 4 => 1 \in done /\ 2 \in done /\ 3 \in done
      BY <1>1, <3>1
    <3>3. CASE handled + 1 = 4
      <4>1. /\ \A c \in done' : c \in 1..4
            /\ 1 \in done' /\ 2 \in done' /\ 3 \in done' /\ 4 \in done'
        BY <2>4, <3>1, <3>2, <3>3
      <4>2. \A c \in 1..4 : c = 1 \/ c = 2 \/ c = 3 \/ c = 4
        OBVIOUS
      <4>3. done' = 1..4
        BY <4>1, <4>2
      <4>4. QED
        BY <3>1, <4>3
    <3>4. CASE handled + 1 # 4
      <4>1. 4 \in done' => 4 \in done
        BY <3>1, <3>4
      <4>2. done = 1..4 => done' = done
        BY <1>1, <3>1
      <4>3. QED
        BY <3>1, <4>1, <4>2
    <3>5. QED
      BY <3>3, <3>4
  <2>7. QED
    BY <2>3, <2>4, <2>5, <2>6
<1>3. CASE TabRefuses
  <2> DEFINE m == [id |-> handled', error |-> TRUE]
  <2>1. m \in [id : 0..4, error : BOOLEAN] /\ m.error /\ done' = done
    BY <1>1, <1>3 DEF TabRefuses
  <2>2. mail' = Append(mail, m)
    BY <1>3 DEF TabRefuses
  <2>3. mail' \in Seq([id : 0..4, error : BOOLEAN]) /\ MailTrue'
    <3> HIDE DEF m
    <3> QED
      BY <2>1, <2>2, MailGrows
  <2>4. QED
    BY <1>1, <1>3, <2>3 DEF TabRefuses, Sent
<1>4. CASE TabReports
  <2> DEFINE m == [id |-> Event, error |-> FALSE]
  <2>1. m \in [id : 0..4, error : BOOLEAN] /\ m.id = Event /\ done' = done
    BY <1>4 DEF TabReports, Event
  <2>2. mail' = Append(mail, m)
    BY <1>4 DEF TabReports
  <2>3. mail' \in Seq([id : 0..4, error : BOOLEAN]) /\ MailTrue'
    <3> HIDE DEF m
    <3> QED
      BY <2>1, <2>2, MailGrows
  <2>4. QED
    BY <1>4, <2>3 DEF TabReports, Sent
<1>5. QED
  BY <1>2, <1>3, <1>4

\* The handler goes on to the next command when the last one is acknowledged.
LEMMA HandlerKeeps ==
  ASSUME NavInv, Navigate \/ SendCommand \/ Receive \/ NavigationFails
  PROVE  NavInv'
<1> USE DEF NavInv, NavTypeOK, TabFollows, InOrder, NavigatesAsPhone, Commands
<1>1. CASE Navigate
  <2>1. <<>> \in Seq([id : 0..4, error : BOOLEAN]) /\ DOMAIN <<>> = {}
    OBVIOUS
  <2>2. 0 \in 0..4 /\ 1 \in 0..4 /\ 0 <= 1 - 1 /\ 4 \notin {} /\ 1 # 0
        /\ \A c \in 1..4 : ~(c < 1)
    OBVIOUS
  <2>3. QED
    BY <1>1, <2>1, <2>2 DEF Navigate, MailTrue, Sent
<1>2. CASE SendCommand
  BY <1>2 DEF SendCommand, MailTrue, Sent
<1>3. CASE NavigationFails
  <2>1. 0 \in 0..4 /\ \A c \in 1..4 : ~(c < 0)
    OBVIOUS
  <2>2. QED
    BY <1>3, <2>1 DEF NavigationFails, Ends, MailTrue
<1>4. CASE Receive
  <2>1. mail \in Seq([id : 0..4, error : BOOLEAN]) /\ mail # <<>> /\ mail' = Tail(mail)
    BY <1>4 DEF Receive
  <2>2. mail' \in Seq([id : 0..4, error : BOOLEAN])
        /\ \A i \in DOMAIN mail' : i + 1 \in DOMAIN mail /\ mail'[i] = mail[i + 1]
    BY <2>1
  <2>3. MailTrue'
    BY <1>4, <2>2 DEF Receive, MailTrue
  <2>4. Head(mail) = mail[1] /\ 1 \in DOMAIN mail
    BY <2>1
  <2>5. IsAnswer(Head(mail)) /\ ~Head(mail).error => command \in done
    BY <1>4, <2>4 DEF Receive, IsAnswer, MailTrue, Event
  <2>6. \/ UNCHANGED <<command, awaited, verdict>>
        \/ command' = 0 /\ awaited' = FALSE /\ verdict' \in {"ok", "error"}
        \/ /\ command \in 1..3 /\ command' = command + 1 /\ awaited' = FALSE
           /\ verdict' = verdict /\ command \in done
    <3>1. command \in 0..4 /\ command # 0 /\ awaited
      BY <1>4 DEF Receive
    <3>2. command < 4 => command \in 1..3
      BY <3>1
    <3>3. QED
      BY <1>4, <2>5, <3>1, <3>2 DEF Receive, Ends
  <2>7. /\ command' \in 0..4 /\ awaited' \in BOOLEAN
        /\ verdict' \in {"none", "ok", "error"}
        /\ (TabFollows /\ InOrder)'
    <3>1. UNCHANGED <<handled, done>> /\ awaited
      BY <1>4 DEF Receive
    <3>2. CASE UNCHANGED <<command, awaited, verdict>>
      BY <3>1, <3>2 DEF Sent
    <3>3. CASE command' = 0 /\ awaited' = FALSE /\ verdict' \in {"ok", "error"}
      <4>1. 0 \in 0..4 /\ \A c \in 1..4 : ~(c < 0)
        OBVIOUS
      <4>2. QED
        BY <3>1, <3>3, <4>1
    <3>4. CASE /\ command \in 1..3 /\ command' = command + 1 /\ awaited' = FALSE
               /\ verdict' = verdict /\ command \in done
      <4>1. /\ command' \in 0..4
            /\ \A c \in 1..4 : c < command' => c < command \/ c = command
        BY <3>4
      <4>2. Sent' = Sent
        BY <3>1, <3>4 DEF Sent
      <4>3. QED
        BY <3>1, <3>4, <4>1, <4>2
    <3>5. QED
      BY <2>6, <3>2, <3>3, <3>4
  <2>8. NavigatesAsPhone'
    BY <1>4, <2>5 DEF Receive, Ends
  <2>9. QED
    BY <1>4, <2>2, <2>3, <2>7, <2>8 DEF Receive
<1>5. QED
  BY <1>1, <1>2, <1>3, <1>4

-----------------------------------------------------------------------------
(* The composition *)

\* A request of the phone's process is only there while the process is, and that
\* phone has been handed out: its traffic is confined.
Served == InPhone => pc = "ready"

IInv == StartInv /\ RelayInv /\ NavInv /\ Served

\* Every step of the composition is one of the phone's start, or leaves it alone.
LEMMA StartSteps == [Next]_allVars => [StartNext]_startVars
BY DEF Next, allVars, Phone, WaitForInterface, Request, Relaying, Copying, Navigating

\* A phone that is ready stays so as long as its process lives.
LEMMA ReadyStays == ASSUME pc = "ready", StartNext PROVE pc' \in {"ready", "down"}
BY DEF StartNext, Start, Dies, ProbePasses, ProbeFails, ProcessEnds, TunnelFails,
       CallFails, ClearFails, Steps, Clearing, Local, Initialize, Gnb, AttachInternet,
       AttachServices, DashboardIMS, DashboardSession, ClearRule, ClearBlock, ClearLink,
       AddTunnel, AddRoute, AddRule, AddUnreachable, AddBlock, Firewall, Listen, process

LEMMA InternetInitHolds == Init => IInv
BY InitHolds, RelayInitHolds, NavInitHolds
   DEF Init, RelayInit, IInv, Served, InPhone

\* No step of the composition breaks the invariant of any part.
LEMMA InternetKeeps == ASSUME IInv, [Next]_allVars PROVE IInv'
<1>1. StartInv'
  BY StartSteps, StepKeeps DEF IInv
<1>2. UNCHANGED relayVars => RelayInv'
  BY DEF IInv, RelayInv, RelayTypeOK, Unconnected, Checked, Waiting, ByKind, CutShort,
         Tied, Cause, DialsPublic, MayDial, relayVars, request, copying, target
<1>3. UNCHANGED navVars => NavInv'
  BY DEF IInv, NavInv, NavTypeOK, TabFollows, MailTrue, InOrder, NavigatesAsPhone,
         navVars, Sent
<1>4. RelayInv'
  BY <1>2, DroppedKeeps, PeersKeep, ConnectKeeps, CopiersKeep
     DEF IInv, Next, allVars, Phone, WaitForInterface, Request, Relaying, Connects,
         Copying, Navigating
<1>5. NavInv'
  BY <1>3, NavInitHolds, TabKeeps, HandlerKeeps
     DEF IInv, Next, allVars, Phone, WaitForInterface, Request, Relaying, Copying,
         Navigating
<1>6. Served'
  <2> USE DEF IInv, Served, InPhone
  <2>1. CASE Phone
    BY <2>1, ReadyStays DEF Phone, Dropped, relayVars, request
  <2>2. CASE Request
    BY <2>2 DEF Request, Ask, startVars
  <2>3. CASE Relaying
    BY <2>3 DEF Relaying, startVars, Handshake, HandshakeFails, Connects, Resolve, Dial,
                DialFails, Deliver, Expires, UpwardFails, UpwardStops, Redirect,
                RedirectFails, Peers, ClientEnds, ServerSends, ServerFinishes,
                ServerResets, PeerStalls, ServerReads, Dropped, request
  <2>4. CASE Copying
    BY <2>4 DEF Copying, startVars, Copiers, DownwardEnds, UpwardEnds, UpwardStops,
                Released, Dropped, request
  <2>5. CASE UNCHANGED <<startVars, relayVars>>
    BY <2>5 DEF startVars, relayVars, request
  <2>6. QED
    BY <2>1, <2>2, <2>3, <2>4, <2>5 DEF Next, allVars, WaitForInterface, Navigating
<1>7. QED
  BY <1>1, <1>4, <1>5, <1>6 DEF IInv

\* The invariant of the data path.
THEOREM InternetInvariance == FairSpec => []IInv
BY InternetInitHolds, InternetKeeps, PTL DEF FairSpec

\* The composition leaves a phone's start and its namespace exactly the behaviours
\* of PhoneStart: what is proved of those holds in the data path.
THEOREM StartRefined == FairSpec => StartSpec
<1>1. Init => StartInit
  BY DEF Init
<1>2. QED
  BY <1>1, StartSteps, PTL DEF FairSpec, StartSpec

\* An answer that was finished in time is delivered in full to a client that still
\* reads, whichever direction of the relay ended first.
THEOREM AnswersComplete == FairSpec => []StreamsComplete
<1>1. IInv => StreamsComplete
  BY CauseComplete DEF IInv
<1>2. QED
  BY <1>1, InternetInvariance, PTL

\* A copier can end, or both have: the guards of Copiers.
CanEnd ==
  \/ downward = "run" /\ MustEnd
  \/ upward = "run" /\ UpwardMust
  \/ downward = "ended" /\ upward # "run"

\* What RelayReleased rests on besides fairness: a relay that is over never waits for
\* its peers.  A copier can always end, also when the other one waits in Write; the
\* one exception waits for the deadline of the phone's SOCKS server: the client is
\* gone, and the server, told so, neither sends nor finishes.
THEOREM WaitsForDeadlineOnly ==
  FairSpec => [](Over => CanEnd \/ (kind = "socks" /\ us = "open" /\ ~expired))
<1>1. RelayInv => (Over => CanEnd \/ (kind = "socks" /\ us = "open" /\ ~expired))
  <2> SUFFICES ASSUME RelayInv, Over, ~CanEnd
               PROVE  kind = "socks" /\ us = "open" /\ ~expired
    OBVIOUS
  <2> USE DEF RelayInv, RelayTypeOK, Waiting, Tied, ByKind, Over, CanEnd, MustEnd,
              UpwardMust, SourceEnded
  <2>1. downward = "run" /\ ~closed
    OBVIOUS
  <2>2. us = "open" /\ cl = "gone" /\ left = 0
    BY <2>1
  <2>3. "down" \notin stalled /\ ~expired /\ kind \in {"socks", "connect"}
    BY <2>1, <2>2
  <2>4. kind # "connect"
    BY <2>1, <2>2, <2>3
  <2>5. QED
    BY <2>2, <2>3, <2>4
<1>2. QED
  BY <1>1, InternetInvariance, PTL DEF IInv

\* The phone connects nothing to an address that is not public, for any answers of
\* the DNS, different ones each time it is asked, and any number of redirects.
THEOREM AddressesPublic == FairSpec => []DialsPublic
<1>1. IInv => DialsPublic
  BY DEF IInv, RelayInv
<1>2. QED
  BY <1>1, InternetInvariance, PTL

\* The handler says ok only of a tab that loads the page as a phone, however many
\* events and refusals are mixed into the answers.
THEOREM NavigationFaithful == FairSpec => []NavigatesAsPhone
<1>1. IInv => NavigatesAsPhone
  BY DEF IInv, NavInv
<1>2. QED
  BY <1>1, InternetInvariance, PTL

\* Every request the phone serves leaves through its session or not at all: who
\* still has a connection through the phone has one whose address is confined.
THEOREM RequestsConfined ==
  FairSpec => [](InPhone => /\ handed # None
                            /\ Lookup(handed) = IF uplink THEN "own" ELSE "unreachable")
<1>1. IInv /\ TrafficConfined =>
        (InPhone => /\ handed # None
                    /\ Lookup(handed) = IF uplink THEN "own" ELSE "unreachable")
  BY DEF IInv, Served, StartInv, Fallback, Up, TrafficConfined
<1>2. QED
  BY <1>1, InternetInvariance, StartRefined, Confinement, PTL
=============================================================================
