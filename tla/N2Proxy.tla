------------------------------- MODULE N2Proxy -------------------------------
(***************************************************************************)
(* The gNB side of the secure N2 tunnel (cmd/gnb_proxy, as patched): one   *)
(* SCTP association of a gNB, carried over QUIC sessions to a middleware   *)
(* behind a VIP.  A session that fails is replaced; the gNB is not told.   *)
(*                                                                         *)
(* One goroutine reads the gNB into a queue; the handler dials, replays    *)
(* the NG Setup Request and waits for an error; each session has two       *)
(* forwarders, which it does not wait for when it gives the session up.    *)
(* A session is a slot, used again once its goroutines have ended.         *)
(*                                                                         *)
(* Frames are numbered as the gNB sends them; the first is the NG Setup    *)
(* Request.  QUIC and SCTP are external: a session dies unnoticed, and a   *)
(* write to a dead one may still succeed.                                  *)
(***************************************************************************)
EXTENDS Naturals, Sequences

CONSTANTS Slots, None,
          Cap,          \* make(chan TunnelFrame, 256)
          MaxFrames,    \* bound on what the gNB sends
          MaxDeaths     \* bound on sessions that die by themselves

ASSUME SlotsAssumption  == None \notin Slots
ASSUME BoundsAssumption == Cap \in Nat \ {0} /\ MaxFrames \in Nat /\ MaxDeaths \in Nat

VARIABLES
  gnb,       \* the SCTP association, "up" or "closed"
  vip,       \* a middleware answers at the VIP
  deaths,
  read,      \* how many frames readGNBFrames has read
  reader,    \* "reading", "pushing" the last one, or "ended"
  setupCh,   \* what the channel of capacity 1 holds, 0 if nothing
  frames,    \* the queue
  gnbErr,    \* the reader's error is in its channel
  pc,        \* where the handler is
  cur,       \* its session, None between two
  setup,     \* the cached frame, 0 while setupKnown is false
  replay,    \* attempt > 0
  link,      \* the QUIC session of each slot; "closed" by the handler
  fwd,       \* forwardFramesToStream of each slot
  held,      \* the frame it has taken, 0 if none
  down,      \* forwardStreamToGNB of each slot
  errCh,     \* the errCh of session cur holds an error
  lead,      \* history: the first frame session cur has delivered, or 0
  last       \* history: the last frame from the queue the middleware received

gnbSide == <<gnb, read, reader, setupCh, gnbErr>>
handler == <<pc, setup, replay>>
session == <<cur, link, fwd, held, down, errCh, lead>>
vars    == <<gnbSide, vip, deaths, frames, handler, session, last>>

TypeOK ==
  /\ gnb \in {"up", "closed"} /\ vip \in BOOLEAN /\ deaths \in 0..MaxDeaths
  /\ read \in 0..MaxFrames
  /\ reader \in {"reading", "pushing", "ended"}
  /\ setupCh \in 0..MaxFrames
  /\ frames \in Seq(1..MaxFrames) /\ Len(frames) <= Cap
  /\ gnbErr \in BOOLEAN
  /\ pc \in {"dial", "backoff", "open", "setup", "start", "run", "done"}
  /\ cur \in Slots \cup {None}
  /\ setup \in 0..MaxFrames
  /\ replay \in BOOLEAN
  /\ link \in [Slots -> {"up", "dead", "closed"}]
  /\ fwd \in [Slots -> {"waiting", "writing", "ended"}]
  /\ held \in [Slots -> 0..MaxFrames]
  /\ down \in [Slots -> {"reading", "writing", "ended"}]
  /\ errCh \in BOOLEAN
  /\ lead \in 0..MaxFrames /\ last \in 0..MaxFrames

Init ==
  /\ gnb = "up" /\ vip \in BOOLEAN /\ deaths = 0
  /\ read = 0 /\ reader = "reading" /\ setupCh = 0 /\ frames = <<>> /\ gnbErr = FALSE
  /\ pc = "dial" /\ cur = None /\ setup = 0 /\ replay = FALSE
  /\ link = [s \in Slots |-> "closed"]
  /\ fwd = [s \in Slots |-> "ended"] /\ held = [s \in Slots |-> 0]
  /\ down = [s \in Slots |-> "ended"]
  /\ errCh = FALSE /\ lead = 0 /\ last = 0

-----------------------------------------------------------------------------
(* The gNB, the VIP and the sessions *)

GnbCloses ==
  /\ gnb = "up" /\ gnb' = "closed"
  /\ UNCHANGED <<vip, deaths, read, reader, setupCh, frames, gnbErr, handler,
                 session, last>>

VipMoves ==
  /\ vip' = ~vip
  /\ UNCHANGED <<gnbSide, deaths, frames, handler, session, last>>

LinkDies(s) ==
  /\ link[s] = "up" /\ deaths < MaxDeaths
  /\ deaths' = deaths + 1
  /\ link' = [link EXCEPT ![s] = "dead"]
  /\ UNCHANGED <<gnbSide, vip, frames, handler, cur, fwd, held, down,
                 errCh, lead, last>>

-----------------------------------------------------------------------------
(* readGNBFrames *)

\* SCTPRead returns a frame; only the first fits into setupCh, until it is
\* taken out.
Read ==
  /\ reader = "reading" /\ gnb = "up" /\ read < MaxFrames
  /\ read' = read + 1
  /\ setupCh' = IF setupCh = 0 THEN read' ELSE setupCh
  /\ reader' = "pushing"
  /\ UNCHANGED <<gnb, vip, deaths, frames, gnbErr, handler, session, last>>

\* frames <- frame, which waits for room.
Push ==
  /\ reader = "pushing" /\ Len(frames) < Cap
  /\ frames' = Append(frames, read)
  /\ reader' = "reading"
  /\ UNCHANGED <<gnb, vip, deaths, read, setupCh, gnbErr, handler, session, last>>

ReadEnds ==
  /\ reader = "reading" /\ gnb = "closed"
  /\ reader' = "ended"
  /\ gnbErr' = TRUE
  /\ UNCHANGED <<gnb, vip, deaths, read, setupCh, frames, handler, session, last>>

-----------------------------------------------------------------------------
(* handleUERANSIMGNB *)

\* What becomes of the session before the handler dials again or returns: its
\* goroutines are told, and nobody reads its errCh any more.
Leave ==
  /\ link' = [link EXCEPT ![cur] = "closed"]
  /\ cur' = None /\ errCh' = FALSE /\ lead' = 0

DialOk ==
  /\ pc = "dial" /\ vip
  /\ \E s \in Slots :
       /\ fwd[s] = "ended" /\ down[s] = "ended"
       /\ cur' = s
       /\ link' = [link EXCEPT ![s] = "up"]
  /\ pc' = "open"
  /\ UNCHANGED <<gnbSide, vip, deaths, frames, setup, replay, fwd, held, down,
                 errCh, lead, last>>

DialFails ==
  /\ pc = "dial" /\ ~vip
  /\ pc' = "backoff"
  /\ UNCHANGED <<gnbSide, vip, deaths, frames, setup, replay, session, last>>

BackoffEnds ==
  /\ pc = "backoff"
  /\ pc' = "dial"
  /\ UNCHANGED <<gnbSide, vip, deaths, frames, setup, replay, session, last>>

\* Fault: the handler sleeps instead of selecting on gnbErr too.
GnbEndsInBackoff_Sleeps == FALSE /\ UNCHANGED vars

\* case err = <-gnbErr, after a dial that failed.
GnbEndsInBackoff ==
  /\ pc = "backoff" /\ gnbErr
  /\ gnbErr' = FALSE
  /\ pc' = "done"
  /\ UNCHANGED <<gnb, vip, deaths, read, reader, setupCh, frames, setup, replay,
                 session, last>>

OpenOk ==
  /\ pc = "open"
  /\ pc' = IF setup = 0 THEN "setup" ELSE "start"
  /\ UNCHANGED <<gnbSide, vip, deaths, frames, setup, replay, session, last>>

OpenFails ==
  /\ pc = "open" /\ link[cur] = "dead"
  /\ Leave
  /\ pc' = "dial"
  /\ UNCHANGED <<gnbSide, vip, deaths, frames, setup, replay, fwd, held, down, last>>

\* Fault: setup and setupKnown are variables of one attempt.
SetupArrives_Forgets ==
  /\ pc = "setup" /\ setupCh # 0
  /\ setupCh' = 0
  /\ pc' = "start"
  /\ UNCHANGED <<gnb, vip, deaths, read, reader, frames, gnbErr, setup, replay,
                 session, last>>

\* case setup = <-setupCh
SetupArrives ==
  /\ pc = "setup" /\ setupCh # 0
  /\ setup' = setupCh /\ setupCh' = 0
  /\ pc' = "start"
  /\ UNCHANGED <<gnb, vip, deaths, read, reader, frames, gnbErr, replay, session,
                 last>>

\* case err = <-gnbErr, while a session waits for the setup or runs.
GnbEndsInSession ==
  /\ pc \in {"setup", "run"} /\ gnbErr
  /\ gnbErr' = FALSE
  /\ Leave
  /\ pc' = "done"
  /\ UNCHANGED <<gnb, vip, deaths, read, reader, setupCh, frames, setup, replay,
                 fwd, held, down, last>>

Forwarders ==
  /\ fwd' = [fwd EXCEPT ![cur] = "waiting"]
  /\ down' = [down EXCEPT ![cur] = "reading"]

\* Fault: a new session starts without the NG Setup Request.
Start_NoReplay ==
  /\ pc = "start"
  /\ Forwarders
  /\ pc' = "run"
  /\ UNCHANGED <<gnbSide, vip, deaths, frames, setup, replay, cur, link, held, errCh,
                 lead, last>>

\* The forwarders start, after the first session once setup was replayed.
Start ==
  /\ pc = "start"
  /\ lead' = IF replay /\ link[cur] = "up" THEN setup ELSE lead
  /\ Forwarders
  /\ pc' = "run"
  /\ UNCHANGED <<gnbSide, vip, deaths, frames, setup, replay, cur, link, held, errCh,
                 last>>

ReplayFails ==
  /\ pc = "start" /\ replay /\ link[cur] = "dead"
  /\ Leave
  /\ pc' = "dial"
  /\ UNCHANGED <<gnbSide, vip, deaths, frames, setup, replay, fwd, held, down, last>>

\* case err = <-errCh: the session is given up, its goroutines are not awaited.
Reconnect ==
  /\ pc = "run" /\ errCh
  /\ Leave
  /\ replay' = TRUE
  /\ pc' = "dial"
  /\ UNCHANGED <<gnbSide, vip, deaths, frames, setup, fwd, held, down, last>>

-----------------------------------------------------------------------------
(* forwardFramesToStream *)

\* A forwarder of session s returns: its error goes to the session's errCh.
Returned(s) == errCh' = (errCh \/ s = cur)

\* case frame := <-frames; select may choose it although ctx is done.
Take(s) ==
  /\ fwd[s] = "waiting" /\ frames # <<>>
  /\ held' = [held EXCEPT ![s] = Head(frames)]
  /\ frames' = Tail(frames)
  /\ fwd' = [fwd EXCEPT ![s] = "writing"]
  /\ UNCHANGED <<gnbSide, vip, deaths, handler, cur, link, down, errCh, lead, last>>

\* The write succeeds; the middleware gets the frame if the session is alive.
WriteOk(s) ==
  /\ fwd[s] = "writing" /\ link[s] \in {"up", "dead"}
  /\ IF link[s] = "up"
     THEN last' = held[s] /\ lead' = IF lead = 0 THEN held[s] ELSE lead
     ELSE UNCHANGED <<last, lead>>
  /\ fwd' = [fwd EXCEPT ![s] = "waiting"] /\ held' = [held EXCEPT ![s] = 0]
  /\ UNCHANGED <<gnbSide, vip, deaths, frames, handler, cur, link, down, errCh>>

FwdEnds(s) ==
  /\ fwd' = [fwd EXCEPT ![s] = "ended"] /\ held' = [held EXCEPT ![s] = 0]
  /\ UNCHANGED <<gnbSide, vip, deaths, handler, cur, link, down, lead, last>>

\* Fault: the frame that could not be written is queued again.
WriteFails_Requeues(s) ==
  /\ fwd[s] = "writing" /\ link[s] \in {"dead", "closed"}
  /\ Len(frames) < Cap /\ frames' = Append(frames, held[s])
  /\ Returned(s) /\ FwdEnds(s)

\* Fault: one errCh for all sessions of the association.
WriteFails_SharedErrCh(s) ==
  /\ fwd[s] = "writing" /\ link[s] \in {"dead", "closed"}
  /\ errCh' = TRUE
  /\ FwdEnds(s) /\ UNCHANGED frames

\* The write fails, and the frame is lost.
WriteFails(s) ==
  /\ fwd[s] = "writing" /\ link[s] \in {"dead", "closed"}
  /\ Returned(s)
  /\ FwdEnds(s) /\ UNCHANGED frames

\* case <-ctx.Done()
Cancelled(s) ==
  /\ fwd[s] = "waiting" /\ link[s] = "closed"
  /\ Returned(s)
  /\ FwdEnds(s) /\ UNCHANGED frames

-----------------------------------------------------------------------------
(* forwardStreamToGNB, which the patch leaves as it is: by how it ends *)

DownRead(s) ==
  /\ down[s] = "reading" /\ link[s] = "up"
  /\ down' = [down EXCEPT ![s] = "writing"]
  /\ UNCHANGED <<gnbSide, vip, deaths, frames, handler, cur, link, fwd, held, errCh,
                 lead, last>>

\* A frame from an old session may still reach the gNB.
DownWrite(s) ==
  /\ down[s] = "writing" /\ gnb = "up"
  /\ down' = [down EXCEPT ![s] = "reading"]
  /\ UNCHANGED <<gnbSide, vip, deaths, frames, handler, cur, link, fwd, held, errCh,
                 lead, last>>

DownEnds(s) ==
  /\ \/ down[s] = "reading" /\ link[s] \in {"dead", "closed"}
     \/ down[s] = "writing" /\ gnb = "closed"
  /\ down' = [down EXCEPT ![s] = "ended"]
  /\ Returned(s)
  /\ UNCHANGED <<gnbSide, vip, deaths, frames, handler, cur, link, fwd, held, lead,
                 last>>

-----------------------------------------------------------------------------
Handler ==
  \/ DialOk \/ DialFails \/ BackoffEnds \/ GnbEndsInBackoff \/ OpenOk \/ OpenFails
  \/ SetupArrives \/ GnbEndsInSession \/ Start \/ ReplayFails \/ Reconnect

Forward(s) == Take(s) \/ WriteOk(s) \/ WriteFails(s) \/ Cancelled(s)

Next ==
  \/ GnbCloses \/ VipMoves
  \/ Read \/ Push \/ ReadEnds
  \/ Handler
  \/ \E s \in Slots : \/ LinkDies(s) \/ Forward(s)
                      \/ DownRead(s) \/ DownWrite(s) \/ DownEnds(s)

Spec == Init /\ [][Next]_vars

\* Goroutines run.  select is random, so a case that is ready again and again
\* is chosen.  A write to a session's stream has no deadline: it is taken to end, as
\* a middleware that lives reads, and the session of one that is dead fails.  The
\* gNB, the VIP and the middleware owe nothing else.
Fairness ==
  /\ WF_vars(Push) /\ WF_vars(ReadEnds)
  /\ WF_vars(Handler) /\ SF_vars(GnbEndsInBackoff) /\ SF_vars(GnbEndsInSession)
  /\ \A s \in Slots : /\ WF_vars(Forward(s)) /\ SF_vars(Take(s)) /\ SF_vars(Cancelled(s))
                      /\ WF_vars(DownWrite(s)) /\ SF_vars(DownEnds(s))

FairSpec == Spec /\ Fairness

-----------------------------------------------------------------------------
(* Properties *)

\* The middleware gets the queued frames in the order the gNB sent them and
\* none twice, over all sessions: "Messages in flight are not transactionally
\* replayed" (the chart's README).  Two forwarders may compete for the queue,
\* as the handler does not wait for the old one.
UplinkInOrder ==
  [][ \A s \in Slots : WriteOk(s) /\ link[s] = "up" => held[s] > last ]_vars

\* The core hears the NG Setup Request before anything else in every session,
\* whether it came from the queue or from the cache.
SetupLeads == lead \in {0, 1}

\* What the gNB and the middleware are promised (GnbAssociation), of a program
\* whose sessions overlap: the goroutines of old ones live on beside the current.
Promise == INSTANCE GnbAssociation WITH
  sent <- read, open <- cur # None, alive <- cur # None /\ link[cur] = "up",
  over <- pc = "done"

KeepsPromise == Promise!Spec

\* A session is given up only for a failure of its own: its link has died, or
\* the gNB cannot be written to.  No error of an earlier one ends it.
HealthySessionKept ==
  [][ Reconnect => link[cur] = "dead" \/ gnb = "closed" ]_vars

\* The end of the association is noticed and the handler returns, unless the
\* reader waits at a full queue that no middleware empties.
GnbEndNoticed ==
  gnb = "closed" ~> \/ pc = "done"
                    \/ ~vip /\ reader = "pushing" /\ Len(frames) = Cap

\* Once the VIP answers for good, what waits in the queue is sent or, if the
\* association ends, dropped: no state of the handler keeps the queue shut.
QueueServed ==
  <>[]vip => (frames # <<>> ~> frames = <<>> \/ pc = "done")
=============================================================================
