# Verification of the telco-helm-charts programs

This directory models the programs of the repository in TLA+, checks them with
TLC on small instances, and proves part of the results with TLAPS for every
instance. The repository is mostly Helm charts: declarative templates around
third-party network functions. What is modelled is the repository's own code: the
programs and scripts that react to events, keep state and talk to each other.

Contents: the system (1), its hard behaviours (2), the modules and how they
correspond to the code (3), the runs (4), bounds (5), fairness (6), proofs (7),
disagreements between documents and code (8), what is not modelled (9), and how the
project is laid out (10).

## 1. The system

    UE phone page --HTTP--> ue-phones backend --(IMS, NAS SMS)--> Core, IMS, SMSC
         |                        ^  \
         | iframe                 |   poll of the peer's /api/state
         v                        |
    noVNC page --WebSocket--> browser container --SOCKS--> backend --> UE tunnel

    Core cluster <--API-- bootstrap Job           (initialise, join, provision)
         ^  ^  ^--poll--- controller, N6 gateway  (follow the leader)
         |  `-----poll--- phone start script, simulator supervisor (reattach)
         `-------N2------ gNBs, directly or through the secure N2 proxy

| component | source (below `src/`) | state it keeps | operations |
|---|---|---|---|
| IMS calls of a UE phone | `ella-core/ue-phones/app/server.go` | `p.call`, `p.incoming`, the lock `p.op`, the registration | `POST /api/action` (register, unregister, call, answer, hangup), `receiveCalls`, `media` |
| NAS SMS of a UE phone | `server.go`, `phone_gnb.go` | `p.messages` with a status each, one tracker per message | the `sms` action, `receiveSMS`, `trackDelivery` |
| start and attachment of a phone | `server.go` (`ServePhones`, `initialize`, `fail`), `phone_gnb.go`, `mode.go`, `ims_bridge.go`, `ran_bridge.go`, `main.go`, `browse.go` (`attachInternet`), `browser.go` (`startBrowserProxy`), `start.sh` | the process and `d.ready`, `d.problem`; in the pod's network namespace a tunnel, routes, rules and a firewall chain per phone, which outlive the process | start, attach, clear and create, confine the browser; die, start again |
| web reader and SOCKS proxy | `browse.go`, `browser.go` | two-way relays with deadlines; pages; one WebSocket to Chromium per navigation | relay, dial, fetch, follow redirects, rewrite, navigate |
| phone page | `phones.html`, `enhancements.js` | counters of unread items in `localStorage` | poll, announce |
| browser connection | `ella-core/ue-phones/browser/connection.js`, `remote.html` | current RFB client, two timers, `stopped`, `online`, `state` | page events, timers, RFB events |
| browser container | `start-browser.sh`, `browser-state.py` | its processes | start in order, wait for any to end |
| simulator supervisor | `ella-core/ella-simulator/files/supervisor.py` | target, child processes, misses, readiness | poll, start, stop, report |
| Core bootstrap Job | `ella-core/ella-core/files/bootstrap.py` | nothing of its own; everything is in the Core and the IMS | initialise, join, provision, retry, upgrade |
| HA controller, N6 gateway | `ella-core/ella-core/templates/controller-config.yaml`, `gateway-config.yaml` | `last` leader; Service selectors, IMS peers, routes | poll the members in order, reconcile |
| secure N2 proxy | `open5gs-ueransim-secure-n2/container/0002-proxy-vip-reconnect.patch` | queue of 256 frames, cached NG Setup Request | read, forward, replay, reconnect |
| UE supervisor | `open5gs-ueransim-secure-n2/templates/configs.yaml` | a restart flag in a file | watch the log, restart |
| WASM scenario runner | `images/ueransim-wasm-runner/app.py` | shared `state` under a lock | run one scenario, report |
| UE HTTP proxy | `images/5g-ue-http-proxy/main.go` | the UE's interface, one tunnel per CONNECT | wait for the interface, relay, forward |
| everything else | the other charts | none | declarative |

How they interact. The backend's goroutines share the fields of a `phone` under
`p.mu`; requests are serialised by `p.op`; the IMS library and the SMS centre call
back through channels. Two phones of one process mark each other's messages
directly; two processes poll each other. The page, the supervisor, the start
script, the controller and the gateway interact with the rest only by polling HTTP
APIs, so each works on an answer that may be out of date. The processes of a phone that
follow one another interact through the network namespace of the pod: what the dead one
created, its successor finds. Chromium, in a container of the same pod, reaches the world
only through the phone's SOCKS server, and that through the tunnel of the UE. The bootstrap Job is
retried by Kubernetes from its first line, after any prefix of its writes.

## 2. What is hard, and what correct means

The complete list, with lines, is `hazards` in `PROJECT.json`.

* **Calls.** The decision taken from `p.call` and the network operation that
  follows are separate steps; the receiver adopts a call in between; a request names no
  call, and waits for `p.op` before it looks which one there is. Correct: a call the
  user dialled can always be reached and keeps its registration, who acts on it reaches
  it and no other, every caller is taken or told that the phone is busy, every end of a
  call is noticed, and no path keeps `p.op`.
* **SMS.** Three goroutines write one status; a result may come after the delivery
  it precedes; messages with one text are told apart only by order and time, and the
  times are of two clocks; one list of 100 holds what a phone sends and receives, and
  `trim` removes a message others refer to. Correct: the status only advances, delivery
  rests on a reception, receptions and deliveries balance, no message stays in
  submission.
* **Browser connection.** Timers and events of old clients arrive late. Correct:
  one connection at a time, a good one is not disturbed, a bad one is replaced, and
  something is always pending that tries again.
* **Supervisor.** The Core moves between two calls; processes exit; any call may
  fail between the assignment of the target and the start of the processes.
  Correct: ready means running, dead processes are replaced, a Core that is gone is
  released, one that stays is attached to.
* **Bootstrap.** An attempt dies anywhere, or all of a release do. Correct: the next one
  completes it, no
  second cluster is made, what an operator changed is kept, success means complete.
* **N2 proxy.** A session is replaced without the gNB noticing; the forwarder of the
  old one lingers and competes for the queue; the NG Setup Request is both queued and
  cached; a full queue blocks the reader. Correct: the middleware hears frames in
  order, none twice, the setup first in every session; no old error ends a good
  session; the end of the association is noticed.
* **Start.** `initialize` is a chain of calls to the gNB, the Core, netlink and
  iptables; any may fail, the process may die after any, and the namespace keeps what
  was done. Nothing is tried again in the process, and some errors of clearing are
  ignored. Correct: what is left stops only a process that could not clear it, the UE's traffic takes its tunnel or no way at all, a phone that is
  ready has its browser confined, and a first start that fails is followed by another.
* **Data path.** Each relay is two copiers, each in a read or in a write that may block, two
  peers that may stop, half-close or vanish, and deadlines for some. Correct: an answer that was finished arrives in full, no relay outlives
  its peers, nothing is dialled that is not public, whatever the DNS says now and later or a
  redirect points to; a page keeps its structure and its text and nothing else; a tab loads a page
  only as the phone it plays.
* **HA.** The controller, the gateway and the start scripts poll on their own; an answer
  is old when it is used; a call or a script fails between two of several writes; other
  writers interfere. Correct: everything ends up at a leader that stays, and nothing is
  taken for done that was not.

## 3. The modules

An operator `X_Fault` in a module is a mutation of `X`: a plausible mistake in the
code that `X` models (a dropped guard, a missing reset, a swapped order). No action
uses one. Put in the place of `X` it makes TLC find one property of the run violated
(`mutants` in `PROJECT.json`), which shows that the property depends on that line.

**PhoneCalls** -- one phone, its receiver, one media goroutine per call, and
concurrent requests. `status` and `incomingOf` are the IMS library's call objects
(`Call.State()`, `Call.Incoming()`), `offered` its channel of incoming calls;
`current` is `p.call`; `op`, `pc`, `act`, `snap` and `made` are the lock and the
locals of each request. `Begin` takes the lock and copies `p.call`; `Refuse` is every
early refusal; `Decide` is the check that passes; the later locations are the network
operation, which is a step of its own because it takes seconds, without `p.mu`;
`StoreCall` is the assignment after `Invite`. `RejectBusy` ignores the error of
`Reject(486)`, so the call may go on; `rejected` records who was sent the answer. A media
goroutine ends with its call (`MediaEnds`) or, without a word, at the first packet when
the session's UPF address does not parse (`MediaFails`, `upfParses`). `seen` records which
dialled call the page showed when the user acted (`Shown`: an answer of `/api/state` may be
old), which the request itself does not say. An `sms` request only matters for the
lock here. RTP and its counters are left out.

**PhoneSms** -- the messages of one sender to its peer. `shared` tells whether both
phones are in one process: then `Match` (the second half of `receiveSMS`) marks the
sender's message; if not, `Accepted` starts a tracker per message and `Poll` is one
attempt of it. `history` and `inbox` are the one list each phone has for both directions;
`Other` stands for an entry of any other traffic (`SenderReceives`, `PeerSends`), and `Trim`
drops the oldest of a full list, a message under submission included. In two processes
the peer's clock (`PeerClock`) may differ from the sender's by `MaxSkew` either way. The SMS
centre is external: it may take a message whose submission timed out, deliver in any
order, or never.
`PeerRestarts` and `SenderRestarts` are `start.sh` replacing a process, with everything
that was only in its memory. `receptions` is an observation, never read by an action.

**BrowserConnection**, **ViewerPromise** -- one action per callback of the page, each
a whole JavaScript turn. `retries` counts pending `connect` timers and `retryTimer`
tells whether the variable refers to one, so that a leaked timer would show.
`deadlines` are the clients whose handshake deadline is pending. A client that was
told to disconnect is `dropped` until its socket closes. `ViewerPromise` is the
abstract link a user sees, and `BrowserConnection` implements it under
`link <- Link`.

**SimSupervisor** -- the loop of `supervisor.py` with one action per call that can
fail or take time: `PollOk`, `Keep`/`Restart`, `Configure`, `Launch`, `Observe`, and
for each the way into the `except` clause (`Failed`). A node stands for the pair
(address, node id) of a Core member. Between two steps the leader moves, tunnels come
and go, processes exit, time passes. The container restarts when an exception is not
caught or the startup probe gives up.

**CoreBootstrap** -- one attempt of `bootstrap.py` after another, with what it writes
into the Core cluster and the IMS. A step is one API call, or a check and the write
that follows; only reading and writing a data network are two steps, because UEs and
operators act in between and the check is about them. `Dies` may come between any two
steps, in all attempts of a release too, and `Overdue` is the Job's `activeDeadlineSeconds`.
`Upgrade` is a later release, with other pools or other settings. `existed` records whether
there was a Core when an attempt began. The subscribers are read in full: the code reads
the first 100, and creates 36.

**N2Proxy** -- one association of a gNB: the reader (`reader`, `setupCh`, `frames`,
`gnbErr` are its state and its three channels), the handler (`pc`, with `cur` its
session, `setup`, and `replay` for `attempt > 0`), and two forwarders per session. The
handler does not wait for the forwarders it leaves, so a session is a slot that is used
again once its goroutines have ended; `fwd`, `held` and `down` are theirs. Frames are
numbered as the gNB sends them. The repository has the program only as a patch:
`forwardStreamToGNB`, dialling and enrolment are modelled by how the patched code uses
them. A QUIC session dies unnoticed, and a write to a dead one may still succeed.
`lead` and `last` are observations of what the middleware received.

**GnbAssociation** -- what the gNB and the middleware are promised, without goroutines,
channels or a queue: one session at a time, given up only when it is broken or the gNB has
closed; in each the middleware hears the NG Setup Request first, from the cache
(`Repeats`) or as a frame (`Hears`); frames may be lost, and are never heard twice or out of
order. `N2Proxy` implements it under `Promise`: `sent <- read`, a session is `open` while
the handler has a current one, it is `alive` while its link is, and the association is
`over` when the handler has returned.

**HaFailover** -- the three scripts that follow the leader of an HA Core, each a loop
with a location: `controller.sh` (`cpc`, `ci`, `cj` for `i` and `j`, `snap` for `peers`),
`gateway.sh` (`gpc`, `gi`, `last`) and `start.sh` (`asked`, `phone`). `claims` are the
members whose status says *ready* and *leader*: none, one, or two for a while. The phone
does not ask the leader but the member behind the Service `-active`, which the controller
moves. `Upgrade` and `JobWrites` are the other writers of the Services and of the IMS
peers; the chart renders a selector from a lookup, so an upgrade may put back any older
one. `parts` is what a release installs.

**Follower** -- what anything that follows a leader promises, without its loop: it hears of a
member (`Hears`), points its targets to that one (`PointsTo`) or gives up, and calls a member
recorded only when all targets point there. A disturbance may move the targets or stop the
follower; one that moves them also makes it forget. `HaFailover` implements it three times:
as the controller with its Services (`OfServices`), as the gateway with its routes and the
leader it has recorded (`OfRoutes`), and as the start script with its phone (`OfPhone`), for
which the member behind the Service is the leader, and which cannot move a process from one
member to another but has to stop it (`Repoints`).

**PhoneStart** -- one UE phone from the start of its process to ready, and again. `pc` is
the place in `initialize`; each call that can fail is a step (`CallFails` is any of them
returning an error, into `fail`), and `Dies` may come between any two. `link`, `uplink`,
`ueRules`, `blocked`, `blockRules`, `chain` and `jump` are the namespace of the pod (`missed`
is what this process failed to clear without noticing, `ClearFails`): the
TUN device, the default routes of tables 200 and 400, the rules to them by source address,
and the chain `ELLA_BROWSER` of each firewall. Only `ClearRule` to `ClearLink` and the
commands of `Firewall` undo what an earlier process did there; adding what exists gives
`EEXIST`. `Lookup` is what the kernel does with a packet: rules in the order of their
priorities, and a rule whose table has no route is passed over. `ProbePasses` and
`ProbeFails` are the startup probe, which asks for *ready* and is the only thing that
ends a process whose start failed. `handed` is `p.internetIP` of the phone in `d.phones`.

**Relays** -- one connection at a time: through `socks`, for a page (`browse` and
`ueWebClient`), a CONNECT tunnel, or a forwarded request. `upward` and `downward` are the two
copiers, `cl` and `us` what the client and the server have done, `left` the chunks that are
on the way down. `DownwardEnds`, `UpwardStops` and `Released` keep the difference between the
two proxies: `socks` half-closes upstream and waits for both copiers, `transfer` closes
both connections when either direction ends. A copier waits in `Read` or, `stalled`, in `Write`
for a peer that does not read (`PeerStalls`); there it notices nothing but a closed or reset
connection or a deadline (`MustEnd`, `UpwardMust`). An address is its class; `Answers` is what
the DNS may return, each time something else, so that `MayDial`, the loop over all addresses in
`Resolve`, matters, and that `Dial` tries those addresses (`Tried`) and not the name. A redirect is
followed when the headers of an answer are there and nothing of its body has been read
(`Answered`), as `http.Client` does it.

**WebReader** -- `mobileReader`, `reader` and their closures `walk` and `contents` as recursive
operators over the tree of `html.Parse`; lists of tags are represented by one member
each, text by one symbol, lengths by the number of tokens. `publicWebURL` accepts a target by
its scheme, port, credentials and length; its host is not looked at before it is dialled, so a
link to an intranet is kept, and `DialsPublic` is where it ends. `Visible` and `Balanced` are
the reference definitions they are checked against, and `Answer` is what `browse` replies
with. It is the only module with recursive operators; `MCUeInternet` puts it beside
`UeInternet` and checks every page `browse` answers with there (`PageSafe`).

**Navigation** -- the handler of `POST /api/browser/navigate`: four commands, each sent when
its predecessor was answered, and the tab, which is external and mixes events into its
answers.

**UeInternet** -- composes `PhoneStart`, `Relays` and `Navigation`: `Phone` is a step of
`PhoneStart`, and drops the connections of a process that dies; a request needs a phone that is
ready (or the HTTP proxy, in a pod of its own, that has found its interface); `Connects`
needs the uplink; a completed `browse` answers with a page (`page`). Every other step leaves
the variables of `PhoneStart` alone (theorem `StartRefined`).

**PhoneCallsProofs**, **BrowserConnectionProofs**, **SimSupervisorProofs**,
**CoreBootstrapProofs**, **PhoneSmsProofs**, **N2ProxyProofs**, **HaFailoverProofs**,
**UeInternetProofs** -- theorems (section 7).

**MC...** -- instantiate the modules for TLC.

## 4. The runs

| run | what it shows |
|---|---|
| `phone_calls` | With two requests in flight, two calls and every order of network events: `DialledCallReachable`, `DialledCallKeepsRegistration` and `SeenCallOperated` (who acts on a dialled call reaches it) always hold; every request is answered (`RequestAnswered`) and every offered call is adopted, ends or is sent a busy answer (`OfferedCallAnswered`), unless an `Invite` or a `Reject` never returns; the end of every call that was `p.call` is noticed even if it ended while the phone was ringing (`EndOfCallLogged`), unless the UPF address does not parse. |
| `phone_calls_orphan` | Violation. The same promise for *incoming* calls fails: `StoreCall` overwrites a call adopted during `Invite`. |
| `phone_sms` | Also when a phone process is replaced at any moment: in one process every reception confirms at most one message with its text and none is lost (`ReceptionsBalance`); in both modes a status only advances (`StatusOnlyAdvances`) and rests on a reception (`DeliveryHasEvidence`), one that is not older than the sending by more than the clocks differ; a message on display as submitting has its request running (`OwnedBySubmit`), though other messages trim the list. |
| `phone_sms_false_delivery` | Violation. In two processes one reception confirms several messages. |
| `browser_connection` | `NoStrayConnection`, `NeverWedged`, `HealthySessionKept`, `Reconnects`, and the refinement `KeepsPromise`, with two old clients that still talk. |
| `sim_supervisor` | `ReadyHasProcesses`, `DeadProcessReplaced`, `OldCoreReleased`, `Reattaches`, with up to two faults anywhere. |
| `sim_supervisor_wedge` | Violation. One error between recording the target and starting a process: no process, for ever. |
| `core_bootstrap` | `SuccessIsComplete`, `ClusterKept`, `OperatorsNetworkKept`, `Converges`, for all settings, with attempts that die anywhere, one or all of a release, or run out of time, and an upgrade. |
| `core_bootstrap_crash` | Violation. An attempt that dies after `init` makes the next one keep the seeded pool. |
| `n2_proxy` | Over sessions that die and a VIP that comes and goes: the abstract association is implemented, so each session begins with the setup (`KeepsPromise`); `UplinkInOrder`, `HealthySessionKept`; the handler returns when the association ends (`GnbEndNoticed`) unless the reader waits at a full queue that no middleware empties; once the VIP stays, the queue is served (`QueueServed`). |
| `ha_failover` | With three upsets anywhere (a call that fails, a script that dies, an upgrade, a write of the Job, a Pod that moves) and any changes of leadership: once one member leads for good, Services, IMS peers, routes and the phone point to it for good (`Follows`), and each of the three loops implements `Follower` (`FollowersKeepPromise`), so that it points only to a member it has heard in the same pass, and the gateway records no leader without both routes. |
| `ue_internet` | A phone that fails, dies and starts again with another address or the same, and may fail to clear: `TrafficConfined`, `LeftoversHarmless` (`EEXIST` only in a start that could not clear), and a first start that fails is made good (`PhoneBecomesReady`). Connections of four kinds whose peers stop or stall at any moment: `StreamsComplete`, `RelayReleased` (but for a CONNECT tunnel of a client that is gone whose server does not read), `DialsPublic`. 60 pages, whole and cut off by every limit: `PageSafe`. Navigation with events and refusals in between: `NavigatesAsPhone`. |

`CoreBootstrap`, `N2Proxy`, `PhoneSms` and `UeInternet` are checked without deadlock
detection: a Job that has ended does nothing more, the proxy's handler returns with the
association, and when the bounds are spent all messages are settled, or the phone is ready
and nobody asks for anything.

The runs check the type invariant only where it says more than types (`phone_sms`: the
capacity of each phone's list; `browser_connection`: no timer leaks); elsewhere it is proved.

## 5. Bounds

* `phone_calls`: two calls are the case of interest, one current and one that comes in
  or is dialled; a third would only repeat the busy test. Two requests suffice for the
  lock: one inside, one waiting. The theorems of section 7 have no such bound.
* `phone_sms`: three messages, two texts, `Cap` 2 (100 in the code) and 2 attempts
  (30): other traffic pushes out a message whose submission is pending, two messages share
  a text and a third does not, a tracker runs out before the delivery. Time is a counter
  of stored messages; the code compares only instants at which one was stored; a
  `MaxSkew` of 1 turns the order of two of them round. Texts are symmetric. The
  violation has two messages and no skew.
* `browser_connection`: no counter; three RFB objects are the current one, one that is
  closing and one whose events are late. The exponential delay is abstracted, so
  timers fire in any order.
* `sim_supervisor`: two nodes, the two processes of UERANSIM or one of PacketRusher,
  the code's own three misses, `MaxFaults` 2: a fault may follow a fault before the
  loop has recovered from the first. `misses` is cut at 3, as the code only compares it
  with 3.
* `core_bootstrap`: two members, two networks, one subscriber, a `BackoffLimit` of 2 (4
  in the chart) and one upgrade: an attempt dies, the next dies elsewhere, a third
  completes both or dies as well, and an upgrade is then the first to find the Core.
* `n2_proxy`: two slots, the current session and one old one that lingers; a queue of 1
  (256), two frames -- the setup and another -- and one session that dies by itself. So
  the queue fills, the reader blocks, and two forwarders compete for a frame. The
  theorems have no such bound.
* `ha_failover`: two members, so that a pass finds the first, the second or none;
  `MaxUpsets` 3, one more than it takes to break a repair. Three deployments: the
  controller with a phone, with and without the IMS; and the gateway, which shares
  nothing with them but the Core, so that their product would show nothing more. Three
  members with two upsets were checked once.

* `ue_internet`: two addresses, as a new process may be given its predecessor's address or
  another one; `MaxUpsets` 2, a death in the middle of a start that follows a death, or a start
  that fails to clear what a death has left. The
  firewall has its own five commands for each of two firewalls. One request at a time,
  `MaxRequests` 1: connections share nothing but the phone and its uplink, so a second one
  meets what the first one met; the queue at `webMu` is not modelled. `MaxChunks` 2 are a chunk
  that has arrived and one that has not; as long as `sent` is below it, a finished answer was
  within the reader's 1 MiB. `MaxVia` 2 (5 requests in the code) is one redirect and one too
  many. `MaxMarkup` 5, `MaxText` 3 and `MaxLinks` 2 (128000, 32000, 30) cut off some of the
  pages in the middle of a tree, and `MaxEvents` 1 puts an event before an answer. Each page has
  three places -- before, inside, and inside an element inside -- for links, text, dropped
  and kept elements.

## 6. Fairness

* Goroutines of the backend run; each network operation of a handler that has a context
  with a deadline returns (`WF`). `Invite` and `Reject` have none, and no fairness
  (`NoDeadline`): the properties except one that never returns; `sync.Mutex` hands the lock to a waiter
  that has waited for a millisecond, so no request starves (`SF` on `Begin`).
* Nothing is assumed of the network, the callee or the SMS centre.
* Timers of the page fire, and a socket that was told to close does (`WF`).
  `Reconnects` also needs a server that, tried again and again, completes a handshake
  at last (`SF`); every safety property, `NeverWedged` included, does without.
* The supervisor's loop runs on, as its calls have timeouts, and its 120 seconds pass
  (`WF`). The kubelet restarts a container whose startup probe keeps failing: the probe
  counts 80 failures over many passes of the loop, hence `SF` on an action that is
  enabled once a pass. Faults are finite, and no fairness forces one.
* An attempt of the Job runs on unless it dies (`WF`); nothing else is assumed.
* The proxy's goroutines run (`WF`). Go's `select` picks at random among the cases that
  are ready, so one that is ready again and again is chosen (`SF` on the cases of each
  `select`, and on the end of `forwardStreamToGNB`, whose read fails once the session is
  closed). A write to a stream has no deadline; it is taken to end, since a middleware that
  lives reads. The gNB, the VIP and the middleware owe nothing else.
* The scripts of `ha_failover` loop on, as their calls have timeouts (`WF` per script); the wait
  of `stop_app` for a process that was sent `SIGTERM` has none, and is taken to end.
  Leadership is free; what else disturbs is finite, and no fairness forces it.

* The calls of `initialize` have timeouts and return, `start.sh` starts a process again
  and the kubelet acts on the startup probe (`WF`); errors and deaths are finite, and no
  fairness forces one. Copiers run, a dial and a handshake give up, and deadlines pass
  (`WF`); neither the client nor the server owes anything: a relay ends although its server is
  silent or does not read for ever. A copier that is in `Write` ends only as `MustEnd` and
  `UpwardMust` say, and a CONNECT tunnel has no deadline. An upward copier that waits for data notices a dead server or an
  expired deadline only when the client sends (`UpwardFails`), so that has no fairness.

## 7. Proofs

Every safety property a run checks is proved, except `PageSafe`, and so are the
refinements. All theorems hold for any values of the constants that satisfy the named
assumptions of the modules. The liveness properties themselves stay with TLC; for most of
them what they rest on besides fairness is proved: that nothing can happen after which
nobody is left to act, and that an undisturbed pass of a loop does what it is for. These
theorems are named below with the property they support.

`PhoneCallsProofs` proves, for any sets of calls and requests (with `NoCall` not a call
and `NoRequest` not a request), the type invariant and three safety properties of
`phone_calls`. They are not inductive: from "a dialled call is reachable" alone nothing
prevents a request that has already passed its check from overwriting a dialled call.
The inductive invariant `IInv` adds

* `KnownCallsExist` -- a call the phone refers to is not an unused one, and a call still
  offered is incoming, so the receiver cannot adopt a call that was dialled;
* `SnapshotInv` -- what a request copied from `p.call` is out of date only because the
  receiver adopted another call, which it does only when the old one is over;
* `NoDialledCallInv` -- a request past its check may face an incoming call, never a live
  dialled one: only it could have dialled.

Each lemma is one group of actions (network, receiver, and the request's steps); the
step that carries the weight is `StoreCall`, where `NoDialledCallInv` says that the
overwritten call is not a live dialled one. That it may be a live *incoming* one is what
`phone_calls_orphan` shows.

`CurrentHasMedia` and `OneMediaPerCall` support `EndOfCallLogged`: the goroutine that logs
the end of a call has been started for whatever call is `p.call`, or the receiver, still
ringing, is about to start it; and it is started once and ends with its call, or silently on an
address that does not parse. `MediaInv` needs, beyond
that, that no call is offered twice, and that what is offered, being rung or just returned
by `Invite` has no goroutine yet.

`SeenOperated` proves `SeenCallOperated`: once the page shows a dialled call, it is `p.call` for
as long as it lives, since nobody dials or adopts over it (`SeenInv`).

`LockHandedOn` supports `RequestAnswered`: who holds `p.op` has what its next operation needs
(`CanGoOn`: an action to decide on, never a nil call to answer or to end), and each of its
steps brings it nearer to giving the lock back (`StepsLeft`), with no step of anybody else
that sets it back. `OffersKept` supports `OfferedCallAnswered`: an offered call keeps its place
in the channel or moves up, and the first one is adopted, without replacing a live call, or
is sent a busy answer, of which the receiver does not learn whether it arrived.

`BrowserConnectionProofs` proves every safety property of `browser_connection`, the
refinement of `ViewerPromise` included, for any set of RFB clients (with `None` not one).
The strengthening says what the closure's variables leave unsaid: `TimersKnown` -- every
pending timer is one that `clear()` can cancel; `StateHonest` -- the published state, the
client, its socket and its deadline agree. From these, `clear()` leaves nothing pending
(`ClearClears`), every way through `connect()` re-establishes the invariant
(`ConnectKeeps`, `QuietKeeps`), and each callback is one of them.

`SimSupervisorProofs` proves the types and `ReadyHasProcesses` for any number of nodes,
processes and faults, from the assumptions on the constants. `all()` of an empty list is
true, so readiness rests on the tunnels: `TunnelsNeedProcesses` -- UEs have addresses only
while every process was started -- and `StartingInv`, which covers an attachment that is
half started. `PassAttaches` supports `Reattaches`: as long as one member is the active Core
and no error occurs (`Calm`), a pass that restarts goes through to a pod that runs every
process for that member (`Builds`), with the address it looked up last.

Two theorems are measures of the loop that every step of it brings down and nothing else
brings up: `LetsGo` (for `OldCoreReleased`), of the way to the release of a Core that does
not answer (`ToRelease`, at most a pass and `MaxMisses` polls); `NoticesDead` (for
`DeadProcessReplaced`), of the way to the end of all processes once one has exited
(`ToReplace`), whatever the Core does and whichever polls fail. Both need `MissesInv`: each pass that
fails counts, and with the last one the processes are gone.

`CoreBootstrapProofs` proves the types, `SuccessIsComplete`, `ClusterKept` and
`OperatorsNetworkKept` for any number of members, subscribers, attempts and upgrades. The invariant relates the attempt's
location and loop index to what is in the Core and the IMS, for releases all of whose
attempts died too: `FreshInv` (what an attempt
read of member 0 is still true when it acts on it, which is why no second cluster is made),
`ClusterInv`, `DataInv` and `PeersInv` (the peer with index m belongs to member m, although
earlier attempts may have died between two peers). For the operator's networks `KeepInv`
adds that an attempt takes the Core for fresh only if there was none when it began, so that
every attempt that found one, in whichever release, keeps what an operator chose.

`FailsOnlyRefused` supports `Converges`: an attempt that does not die fails only when the
release reconciles and UEs use the network, so whatever its predecessors left, a Job that
does not reconcile uses up its attempts only when all of them died. The work is in `NewHasNoUe`. An attempt that
takes the Core for new replaces pools as well, and would be refused by a session; there is
none, since no subscriber exists before the attempt adds them, after the networks. It needs
that a subscriber is neither the profile nor the slice. `VotersWaitEnds` says that the
wait for the voters finds every member joined. `AttemptEnds` adds that an attempt cannot go on
for ever: it is further on after every step (`Place`, at most `LastPlace`) or has added a
subscriber that was missing, and nothing around it throws it back; it ends with success, a
death, the Job's deadline, or the refusal that `FailsOnlyRefused` is about.

`PhoneSmsProofs` proves the types, `DeliveryHasEvidence` and `StatusOnlyAdvances` for any
number of messages, any cap of the phones' lists, any other traffic in them, any difference
of the clocks and both placements of the phones (`Modes`).
That a status never goes back depends on when each of its three writers can still write:
`SubmissionInv` (the message being submitted is not settled, unless it was delivered, and
has no tracker yet) and `TrackerInv` (a running tracker finds its message accepted or
delivered, as long as `trim` has left it in the history). `ReceptionInv` says that
what a match or a poll rests on was received. The lemma `TrimKeeps` is about `trim`: it
never exceeds the cap and invents no entry.

`ReceptionsConfirm` proves `ReceptionsBalance`, a comparison of cardinalities per text. Its
invariant `Balanced` leaves the message that is being matched out of the count and states
both inequalities for the rest: deliveries never exceed receptions whose match is over, and
those never exceed the messages that are settled or trimmed. A match that finds an open
message moves both by one (`Counts`, on finite sets). One that finds none would move only
the second: then no message with that text on display is open, so all that were sent are
settled or trimmed, and the receptions are among them. The first open message, the one the
loop takes, exists by `Least`.

`SubmissionsOwned` proves `OwnedBySubmit`: a message on display as submitting is the
one whose request is running, whatever was trimmed or restarted meanwhile.

`N2ProxyProofs` proves the types, `SetupLeads`, `UplinkInOrder` and `HealthySessionKept`
for any number of sessions, frames and deaths and any queue. `UplinkInOrder` is the
chart's "Messages in flight are not transactionally replayed"
(`open5gs-ueransim-secure-n2/README.md:59`): frames may be lost at a reconnection, never
repeated. It rests on `SessionInv` (only the handler's session is open, so a forwarder
of an old one can lose a frame but not deliver it) and `OrderInv` (what is held is older
than what is queued, and that is older than what is being read). `SetupInv` says where
the first frame is: at the head of the queue (`QueueUntouched`), in the hands of the
first session's forwarder, or in the cache. One thing is allowed by all of this: when a
session ends before its forwarder took the first frame, the next session gets the setup
twice, replayed and from the queue.

`PromiseKept` is the refinement: every step of the proxy is a step of `GnbAssociation` or
changes nothing there. Initial states map to initial states; the steps of the gNB and of
the links map to `Sends`, `Closes` and `Breaks`; those of the handler to `Begins`,
`Repeats`, `GivenUp` and `Over` (`SessionSteps`); a write that succeeds to `Hears` if the
frame is one the middleware has not heard, which `SetupInv` and `OrderInv` decide
(`FrameSteps`). `GnbKnown` is the one fact more that is needed: the reader's error is one of
a gNB that has closed, so that `Over` is justified, and a cached setup is one that was sent.

`NoSignalLost` supports `GnbEndNoticed` and `QueueServed`: the end of the association stays
in its channel until the handler has taken it; a session that runs has both forwarders, or
an error for the handler to read; and a handler that waits for the setup finds it in its
channel once the gNB has sent one.

What is lost, and where: `LostInFlight` says that a frame which has been read is lost only in
the hand of a forwarder whose own session has died or been given up. The queue, the
reader at a full queue, the handler between two sessions and the forwarders that compete lose
none. `HeardInFull` says more of the time before a session that ran has failed: the queue is without
a gap, and the middleware has heard all that came before it, however often a dial or the
opening of a stream failed.

`HaFailoverProofs` proves the types and `RoutesRecorded` -- what `FollowersKeepPromise` says of
the gateway, as an invariant -- for any number of members and upsets and any deployments.
`ScanInv` says that a script past its scan has found a member, and that the gateway is at
the second route only after it has set the first.

Three theorems support `Follows`, each about steps in which one member leads and nothing
fails or interferes (`Calm`). `PassRepairs`: a pass of the controller that found the leader
ends with every Service and every peer pointing to it; `Behind` says, for each location of
the pass, what it has repaired, and that the peers it has not come to are as it read them,
so that skipping those that looked right is sound. `RoutesRepaired` is the same of the
gateway. `StaysFollowed`: when everything points to the leader and nothing that is on its
way leads elsewhere (`OnCourse`), no script undoes what another one did. Together: one
undisturbed pass of each script is enough, and it is final.

`PromiseKept` is the refinement of `Follower` by each of the three. What counts as an upset
is a `Disturbed` step to all of them: `UpsetPasses` says that a pass then goes on with the
member it has found, or ends, and that only an upgrade moves a selector and only a lost Pod
the routes. The step that carries the weight is the gateway's second route, which may record
the leader because `ScanInv` has the first one. To the start script a step of the
controller is a move of its leader.

`UeInternetProofs` proves every safety property of `ue_internet` but `PageSafe`. Of the
phone's start: the types, `TrafficConfined` and `LeftoversHarmless`, for any set of addresses
and any number of errors and deaths. Neither is inductive, as both are about what is in
the namespace now while the argument is about what earlier processes left.
`Clean` says which leftovers the running process has already removed at each of its steps,
or has `missed` (nothing is said of other addresses: their rules stay); `OwnLink` that only a device that
exists carries the default route, and after `AddTunnel` it is this process's; `Fallback`
that the rules it added are still there when the phone is handed out, since only a
process that clears removes any; `Walled` relates the number of the firewall command to
the chains and jumps that exist, whatever an earlier process left of them. Deaths and
failures of the tunnel keep all of it (`SurroundingsKeep`). `StartRefined` then says that
the composition has exactly these starts, so the results hold in it; `Served`, that
who is connected through the phone found it ready, gives `RequestsConfined`. `StartsAdvance`
supports `PhoneBecomesReady`: a start is at most 23 calls from its end (`Place`), and none
of them fails because of what earlier processes left, if this one could clear it; it fails by
an upset during that same start: a call that returned an error, the loss of its own
tunnel before the route is there, or an ignored error of clearing that comes back as `EEXIST`.

Of the relays: `AnswersComplete` (`StreamsComplete`) and `AddressesPublic` (`DialsPublic`) for
any number of chunks, requests and redirects. A copy to the client that has ended had a cause
that never goes away (`Cause`): the deadline, the end of the answer with nothing left, or a
peer that is gone. `CutShort` says that only a CONNECT tunnel closes a connection under a
copy that still runs, and only after the client or the server stopped. `WaitsForDeadlineOnly`
supports `RelayReleased`: with the client gone or the server done, one of the copiers can
always end, also while the other one is in `Write`; the exception is a SOCKS relay whose client
is gone and whose server is silent, which waits for its deadline. It rests on `Tied` (the end of
one copier has closed what the other one waits for) and `Waiting` (who is in `Write` runs and has
something to write). `Over` leaves out the CONNECT tunnel whose client went while its copier
was in `Write`: nothing in the code ends that one. For `AddressesPublic`, `Checked` says that
what is about to be dialled are the very addresses that were looked at. Of navigation: `NavigationFaithful` (`NavigatesAsPhone`), by
`MailTrue` (an answer that waits in the WebSocket is true of the tab), `TabFollows` and
`InOrder` (commands are done in order, so a page is loaded last).

Model-checked only:

* `RequestAnswered`, `OfferedCallAnswered`, `EndOfCallLogged`, `Reconnects`,
  `DeadProcessReplaced`, `OldCoreReleased`, `Reattaches`, `Converges`, `GnbEndNoticed`,
  `QueueServed`, `Follows`, `PhoneBecomesReady` and `RelayReleased`: liveness under fairness is
  out of this prover's reach.
* `PageSafe`: what a recursive definition computes for every tree takes induction over
  data, and a module with recursive operators cannot be proved about at all.

## 8. Where documents and code disagree

1. `server.go:418` against "a call is already active" (`server.go:407`): an incoming
   call adopted while `Invite` is in progress is overwritten. It stays live, and no
   user action reaches it.
2. `phone_gnb.go:78` against `ue-phones/README.md:96`: "delivered to UE" is shown for
   a message that was not received, when a later one with the same text was.
3. `supervisor.py:105` against `ella-stack/README.md:88-90`: after one error in
   `configure` or `Popen` the supervisor polls a healthy Core and starts nothing. The
   pod is not ready, and there is no liveness probe to restart it.
4. `bootstrap.py:83` against `ella-stack/README.md:125`: a fresh Core keeps its seeded
   pool when the first attempt dies between `init` and the data networks.

## 9. Not modelled

* RTP media and packet counters; SIP, NGAP and NAS encodings: data, and mostly the
  library's.
* Parsing and escaping of URLs and HTML, SOCKS bytes, HTTP headers: strings. The pool of
  idle connections of the HTTP proxy and its dedicated transport for uploads are
  `net/http`'s.
* A phone without a browser (`BROWSER_ENABLED=false`): it skips the firewall and the SOCKS port,
  and is ready without them.
* More than the 100 subscribers of which `bootstrap.py` reads the first page, and what the Core
  does with a network that is written while a session or an operator's edit comes in between
  (with `reconcile`).
* Pages that wait for `webMu`: one request is followed at a time. Several would show that the
  second may be answered after the server's `WriteTimeout`.
* The moment in which a restarted phone rebuilds the firewall. `-F` empties the chain while
  the jump to it stays, so until the last `-A` Chromium, which runs on in its own
  container, is not held back by it. `TrafficConfined` speaks of the browser only
  when the phone is ready.
* A start that fails after the container has been ready once. The startup probe is over, so
  the process stays, not ready and alive, until the Core changes; `PhoneBecomesReady`
  says that the *first* success comes.
* Configuration files the supervisor writes; the bootstrap's idempotent settings
  (operator id, SMS and IMS settings), paging of subscribers.
* The phone's page: unread counters and layout. The browser container's start script, the
  UE supervisor of the secure N2 chart and the WASM runner: each runs one child at a time
  and keeps one flag or record; what they decide is in log lines and exit codes of
  external programs.
* Init containers and provisioning shells of the other charts: each waits for one
  condition and runs once.
* Helm templates, values, dashboards, vendored charts: no behaviour of their own.
* The secure N2 proxy's own program below the patch, and the middleware.
* Addresses, NAT rules and sysctls the gateway sets once; a route that is lost while the
  leader stays and the gateway's Pod lives (`last` then hides it).

## 10. Layout

    PhoneCalls, PhoneSms                     the services of a phone
    PhoneStart, Relays, Navigation --> UeInternet
                                             its start and its data path, composed
    WebReader                                pages, checked with UeInternet
    BrowserConnection --> ViewerPromise      the page, refining what a user is promised
    SimSupervisor, CoreBootstrap             the control of a Core
    HaFailover --> Follower                  what follows its leader, refining what each
                                             follower promises
    N2Proxy --> GnbAssociation               the way of a gNB to a middleware, refining
                                             what both ends are promised

Each component has an `MC` module and one `.cfg` per run; theorems are in `...Proofs`.
What remains worth doing: an abstract specification of the loop of `SimSupervisor`, towards
which `PassAttaches`, `LetsGo` and `NoticesDead` would be steps; and the queue at `webMu`.
