-------------------------------- MODULE Relays --------------------------------
(***************************************************************************)
(* One connection at a time through a UE's data session: Chromium's via    *)
(* the phone's SOCKS server, a page for the web reader, a CONNECT tunnel   *)
(* of the UE HTTP proxy, or a request it forwards.  Client and server are  *)
(* external: each may send, finish, stall or vanish at any moment.         *)
(*                                                                         *)
(* io.Copy ends on the end of its source or an error of either side, so a  *)
(* copier is "run" until then, and waits where it is: in Read for what its *)
(* source sends, in Write (stalled) for a peer that does not read.  Bytes  *)
(* are chunks; only those on their way to the client are counted.          *)
(***************************************************************************)
EXTENDS Naturals

CONSTANTS Addresses,  \* classes of IPv4 addresses: "global" and those of publicIP
          Answers,    \* what the DNS may answer, at any time: sets of them
          MaxChunks,  \* bound on what a server sends
          MaxVia      \* requests of one page after which a redirect is an error

ASSUME RelayAssumption ==
  Answers \subseteq SUBSET Addresses /\ MaxChunks \in Nat /\ MaxVia \in Nat

VARIABLES
  kind,      \* "none", "socks", "connect", "forward" or "browse"
  stage,     \* "idle", "asked", "dialling", "connecting" or "relaying"
  cl,        \* the client: "open", "half" (has sent all) or "gone"
  us,        \* the server: "none", "open", "fin" (has sent all) or "reset"
  sent,      \* chunks the server has sent
  left,      \* those that are not at the client yet
  upward,    \* the copier from client to server: "off", "run" or "ended"
  downward,  \* the copier from server to client
  stalled,   \* the copiers that wait in Write: of "up" and "down"
  closed,    \* the proxy has closed both connections
  expired,   \* the deadline of the connection has passed
  ips,       \* the classes of the addresses the name has, while connecting
  dialled,   \* that of the one it is connected to, "none" before
  via        \* requests made for this page

request   == <<kind, cl, via>>
copying   == <<upward, downward, stalled, closed>>
target    == <<ips, dialled>>
relayVars == <<request, stage, us, sent, left, copying, expired, target>>

RelayInit ==
  /\ kind = "none" /\ stage = "idle" /\ cl = "gone" /\ us = "none"
  /\ sent = 0 /\ left = 0 /\ upward = "off" /\ downward = "off"
  /\ stalled = {} /\ closed = FALSE /\ expired = FALSE
  /\ ips = {} /\ dialled = "none" /\ via = 0

\* The connection and all its goroutines are gone.
Dropped ==
  /\ kind' = "none" /\ stage' = "idle" /\ cl' = "gone" /\ us' = "none"
  /\ sent' = 0 /\ left' = 0 /\ upward' = "off" /\ downward' = "off"
  /\ stalled' = {} /\ closed' = FALSE /\ expired' = FALSE
  /\ ips' = {} /\ dialled' = "none" /\ via' = 0

-----------------------------------------------------------------------------
(* The peers, and time *)

ClientEnds ==
  /\ stage # "idle"
  /\ \/ cl = "open" /\ cl' \in {"half", "gone"}
     \/ cl = "half" /\ cl' = "gone"
  /\ UNCHANGED <<kind, via, stage, us, sent, left, copying, expired, target>>

ServerSends ==
  /\ us = "open" /\ sent < MaxChunks /\ sent' = sent + 1 /\ left' = left + 1
  /\ UNCHANGED <<request, stage, us, copying, expired, target>>

ServerFinishes ==
  /\ us = "open" /\ us' = "fin"
  /\ UNCHANGED <<request, stage, sent, left, copying, expired, target>>

\* The server aborts, or the session below is lost; what was sent is lost too, but
\* for what the copier is about to write.
ServerResets ==
  /\ us \in {"open", "fin"} /\ us' = "reset"
  /\ left' = IF "down" \in stalled THEN 1 ELSE 0
  /\ UNCHANGED <<request, stage, sent, copying, expired, target>>

\* A peer does not read what it is sent.  (A page is read into memory.)
PeerStalls ==
  /\ \/ upward = "run" /\ cl = "open" /\ us # "reset"
        /\ stalled' = stalled \cup {"up"}
     \/ downward = "run" /\ left > 0 /\ cl # "gone" /\ kind # "browse"
        /\ stalled' = stalled \cup {"down"}
  /\ stalled' # stalled
  /\ UNCHANGED <<request, stage, us, sent, left, upward, downward, closed, expired,
                 target>>

\* The server reads all that the client has sent.
ServerReads ==
  /\ "up" \in stalled /\ us # "reset" /\ stalled' = stalled \ {"up"}
  /\ UNCHANGED <<request, stage, us, sent, left, upward, downward, closed, expired,
                 target>>

\* Fault: upstream gets no deadline.
Expires_Never == FALSE /\ UNCHANGED relayVars

\* SOCKS: five minutes after the dial, whatever flows; a page: 25 seconds.
Expires ==
  /\ stage = "relaying" /\ kind \in {"socks", "browse"} /\ ~expired /\ expired' = TRUE
  /\ UNCHANGED <<request, stage, us, sent, left, copying, target>>

-----------------------------------------------------------------------------
(* The proxies *)

Ask(k) ==
  /\ stage = "idle" /\ kind' = k /\ cl' = "open"
  /\ stage' = IF k = "socks" THEN "asked" ELSE "dialling"
  /\ via' = IF k = "browse" THEN 1 ELSE 0
  /\ UNCHANGED <<us, sent, left, copying, expired, target>>

\* SOCKS 5, no authentication, CONNECT to IPv4 or a name, port 80 or 443.
Handshake ==
  /\ stage = "asked" /\ stage' = "dialling"
  /\ UNCHANGED <<request, us, sent, left, copying, expired, target>>

HandshakeFails == stage = "asked" /\ Dropped   \* refused, cut off, or 15 s

Private == {"private", "loopback", "linklocal", "multicast", "unspecified", "thisnet",
            "cgnat", "ietf", "benchmark", "reserved"}

publicIP(address) == address \notin Private

\* Fault: one public address is enough.
MayDial_Any(answer) == kind \in {"socks", "browse"} => \E a \in answer : publicIP(a)

\* The dialer of ueWebClient wants all addresses public before it tries any;
\* the UE HTTP proxy, which has a UE of its own, dials what it is asked for.
MayDial(answer) == kind \in {"socks", "browse"} => \A a \in answer : publicIP(a)

Resolve ==
  /\ stage = "dialling" /\ stage' = "connecting"
  /\ \E answer \in Answers : MayDial(answer) /\ ips' = answer
  /\ UNCHANGED <<request, us, sent, left, copying, expired, dialled>>

\* Fault: the dialer is given the name, and looks it up once more.
Tried_ByName == UNION Answers

\* What was checked is dialled: the addresses, each for up to eight seconds.
Tried == ips

Dial ==   \* the first address that answers
  /\ stage = "connecting" /\ stage' = "relaying"
  /\ dialled' \in Tried /\ ips' = {}
  /\ us' = "open" /\ sent' = 0 /\ left' = 0 /\ downward' = "run"
  /\ upward' = IF kind \in {"socks", "connect"} THEN "run" ELSE "off"
  /\ UNCHANGED <<request, stalled, closed, expired>>

\* No name, no IPv4 address, one that is not public, nobody answers, or 12,
\* 20 or 25 seconds; RoundTrip also ends when its client is gone.
DialFails == stage \in {"dialling", "connecting"} /\ Dropped

Deliver ==   \* when the client reads
  /\ downward = "run" /\ left > 0 /\ cl # "gone" /\ left' = left - 1
  /\ stalled' = stalled \ {"down"}
  /\ UNCHANGED <<request, stage, us, sent, upward, downward, closed, expired, target>>

\* The ends were closed, or the client it writes to is gone.  Otherwise only a copier
\* in Read notices: its source is at its end or was reset, upstream's deadline has
\* passed, or net/http cancels the request of a client that hung up.
SourceEnded == us = "reset" \/ (us = "fin" /\ left = 0)
MustEnd ==
  \/ closed \/ (cl = "gone" /\ left > 0)
  \/ "down" \notin stalled /\ \/ SourceEnded \/ expired
                              \/ kind \in {"forward", "browse"} /\ cl # "open"

\* Fault: socks leaves closing to its deferred calls, after <-done.
DownwardEnds_Defers ==
  /\ downward = "run" /\ MustEnd /\ downward' = "ended"
  /\ closed' = (closed \/ kind # "socks") /\ stalled' = stalled \ {"down"}
  /\ UNCHANGED <<request, stage, us, sent, left, upward, expired, target>>

DownwardEnds ==
  /\ downward = "run" /\ MustEnd /\ downward' = "ended" /\ closed' = TRUE
  /\ stalled' = stalled \ {"down"}
  /\ UNCHANGED <<request, stage, us, sent, left, upward, expired, target>>

\* Fault: socks closes both connections, as the CONNECT tunnel does.
UpwardStops_Both ==
  /\ upward = "run" /\ upward' = "ended" /\ closed' = TRUE
  /\ stalled' = stalled \ {"up"}
  /\ UNCHANGED <<request, stage, us, sent, left, downward, expired, target>>

\* socks: CloseWrite, the server may go on; transfer: both connections close.
UpwardStops ==
  /\ upward = "run" /\ upward' = "ended" /\ closed' = (closed \/ kind = "connect")
  /\ stalled' = stalled \ {"up"}
  /\ UNCHANGED <<request, stage, us, sent, left, downward, expired, target>>

\* The ends were closed; in Read, the client has sent all or is gone; in Write, the
\* server has reset, or upstream's deadline has passed, which a CONNECT tunnel has not.
UpwardMust == \/ closed
              \/ "up" \notin stalled /\ cl # "open"
              \/ "up" \in stalled /\ (expired \/ us = "reset")

UpwardEnds  == UpwardMust /\ UpwardStops
UpwardFails == (expired \/ us = "reset") /\ UpwardStops   \* when the client sends

Released == downward = "ended" /\ upward # "run" /\ Dropped   \* <-done

\* The headers of the answer are there, and reading the body has not begun.
Answered == kind = "browse" /\ us = "open" /\ sent = 0 /\ downward = "run"

\* A 3xx answer whose target publicWebURL accepts; its body is not read.
Redirect ==
  /\ Answered /\ via < MaxVia /\ ~expired
  /\ via' = via + 1 /\ stage' = "dialling" /\ us' = "none"
  /\ upward' = "off" /\ downward' = "off" /\ dialled' = "none"
  /\ UNCHANGED <<kind, cl, sent, left, stalled, closed, expired, ips>>

RedirectFails == Answered /\ Dropped

Copiers == DownwardEnds \/ UpwardEnds \/ Released
Peers   == \/ ClientEnds \/ ServerSends \/ ServerFinishes \/ ServerResets
           \/ PeerStalls \/ ServerReads

\* Sockets end, timers fire and dials give up; peers owe nothing.
RelayFairness ==
  /\ WF_relayVars(HandshakeFails) /\ WF_relayVars(DialFails)
  /\ WF_relayVars(Expires) /\ WF_relayVars(Copiers)

-----------------------------------------------------------------------------
(* Properties *)

\* A server that finished its answer in time has it delivered in full to a
\* client that still reads, through SOCKS also when the client has already
\* finished sending: there one direction may end long before the other.  (A
\* CONNECT tunnel is cut in both directions when either ends.)
StreamsComplete ==
  downward = "ended" /\ us = "fin" /\ ~expired
    /\ (cl = "open" \/ (kind = "socks" /\ cl = "half")) => left = 0

\* The client is gone, or the server and everything it sent.  A CONNECT tunnel has no
\* deadline: a copier that is in Write to a server that is there and does not read
\* keeps the tunnel of a client that is gone.
Over ==
  stage = "relaying" /\ \/ us # "open" /\ left = 0
                        \/ cl = "gone" /\ (kind = "connect" => "up" \notin stalled)

\* No relay outlives its peers: when it is over, both copiers end and both connections
\* are released, whatever the other peer does; and a page is answered or given up.
RelayReleased == (kind = "browse" \/ Over) ~> stage = "idle"

\* The phone connects nothing to a private or special-use address, also when a name
\* has several addresses, when the DNS answers differently each time it is asked,
\* and after a redirect.
DialsPublic == kind \in {"socks", "browse"} /\ dialled # "none" => publicIP(dialled)
=============================================================================
